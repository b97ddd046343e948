--------------------------- MODULE MCPointerWalk ----------------------------
(***************************************************************************)
(* Four addresses and every map of up to three pointers between them:      *)
(* pointers to themselves, cycles of two and three, several pointers to    *)
(* the same place, and reaches that are cut at either end.                 *)
(***************************************************************************)
EXTENDS PointerWalk

MCMaps == UNION {[D -> Addr] : D \in {D \in SUBSET Addr : Cardinality(D) <= 3}}
MCEntries == {{}, {0, 2}}
MCReaches == {<<0, 0>>, <<0, 1>>, <<1, 2>>}
MCDepths == {0, 2, 3}

=============================================================================

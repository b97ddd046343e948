----------------------------- MODULE MCSigScan ------------------------------
(***************************************************************************)
(* Ranges of up to five bytes in chunks of two, which is one byte less     *)
(* than the longest signature: hits straddle one and two boundaries, and   *)
(* the last chunk is shorter than the others.                              *)
(***************************************************************************)
EXTENDS SigScan

MCSizes == {2, 5}
MCPatterns ==
    {p \in UNION {[1..n -> {0, 1, Wild}] : n \in 1..3} :
        Len(p) = 3 => p[1] # 0}

=============================================================================

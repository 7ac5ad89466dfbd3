----------------------------- MODULE MCCodecCache -----------------------------
(***************************************************************************)
(* Goroutines that share a codec for two struct types: the analysis of one *)
(* may come out two ways, the other has no field; a type ends in each.       *)
(***************************************************************************)
EXTENDS CodecCache, TLC

CONSTANTS g1, g2, g3, s1, s2, a1, a2, b1, t1, t2

MCStructIn == t1 :> s1 @@ t2 :> s2
MCAnalyses == s1 :> {a1, a2} @@ s2 :> {b1}

=============================================================================

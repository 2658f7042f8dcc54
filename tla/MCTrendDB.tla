----------------------------- MODULE MCTrendDB -----------------------------
(***************************************************************************)
(* Small instances of TrendDB for TLC.                                     *)
(***************************************************************************)
EXTENDS TrendDB, TLC

CONSTANTS w1, w2, r1, o1, o2, o3, f1, sk, ck, hk

MCMe == 1
MCReplica == {MCMe}
MCValue == {0}
MCTime == {1, 2}
MCCutoff == {2}
MCNever == {}
MCOneSecond == {1}

(* Writers are interchangeable, and so are the addresses of objects.       *)
Symmetry == Permutations(Writer) \cup Permutations(Pending)

=============================================================================

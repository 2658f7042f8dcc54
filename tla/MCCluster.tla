------------------------------ MODULE MCCluster ------------------------------
(***************************************************************************)
(* Small instances of Cluster for TLC: the adapters as they are deployed,  *)
(* with two clients in one process or in two.                              *)
(***************************************************************************)
EXTENDS Cluster, TLC

CONSTANTS p1, p2, c1, c2

MCTime == {0, 1}
MCReplica == {1, 2, 3}
MCValue == {0}
MCCutoff == {1}

Together == {[c \in Client |-> p1]}
Apart == {f \in [Client -> Process] : \E c, d \in Client : f[c] # f[d]}

(* The first process has the middle one of three replica ids, so that a    *)
(* restart can raise or lower it.                                          *)
Deployment(kinds, exclusive, cached, leases, homes) ==
    [kind : kinds, repeats : BOOLEAN, exclusive : {exclusive}, cached : cached,
     lease : {leases}, home : homes, ids : {p1 :> 2 @@ p2 :> 1}]

BuntDB == Deployment({"sample", "counter"}, TRUE, {FALSE}, "any", Together)
SQLite == Deployment({"counter"}, TRUE, {TRUE}, "any", Together)
              \cup Deployment({"sample"}, FALSE, {TRUE}, "any", Apart)
Redis  == Deployment({"sample"}, FALSE, {TRUE}, "token", Together)
              \cup Deployment({"sample", "counter"}, FALSE, {FALSE}, "token", Apart)
Memory == {d \in Deployment({"sketch"}, TRUE, {FALSE}, "none", Together) : ~d.repeats}

MCConfig == Memory \cup BuntDB \cup SQLite \cup Redis

(* Clients are interchangeable: each of them may be the one apart.         *)
Symmetry == Permutations(Client)

(* For the disagreements: one redis, its cache on, replica ids that do     *)
(* not repeat.                                                             *)
MCShared == {d \in Deployment({"sample"}, FALSE, {TRUE}, "token", Together) : ~d.repeats}

=============================================================================

------ MODULE MCConfigChange ------
(* Small instances of the API side of configuration changes for TLC.       *)
EXTENDS ConfigChange, TLC

CONSTANTS c1, c2, app1, d1, d2, k1, t1, t2

SingleAppOf == (c1 :> app1)
PairAppOf == (c1 :> app1 @@ c2 :> app1)

\* Requests differ only in what they do, digests only in being different.
Symmetry == Permutations(Tasks) \cup Permutations(Digests)
======

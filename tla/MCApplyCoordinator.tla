------ MODULE MCApplyCoordinator ------
(* Small instances of the apply coordinator for TLC.                       *)
EXTENDS ApplyCoordinator, TLC

CONSTANTS c1, c2, c3, app1, app2, s1, s2, s3

\* Three changes of one application that share a source file, one per kind of
\* action.  The third can start when the second is rejected while the first
\* still runs.
TrioAppOf == (c1 :> app1 @@ c2 :> app1 @@ c3 :> app1)
TrioSourcesOf == (c1 :> {s1, s2} @@ c2 :> {s1} @@ c3 :> {s1})
TrioActions == (c1 :> "build" @@ c2 :> "restart" @@ c3 :> "none")

\* Two applications whose changes contend for the restart action, the first
\* with two changes that contend for its application lock.
CrossAppOf == (c1 :> app1 @@ c2 :> app1 @@ c3 :> app2)
CrossSourcesOf == (c1 :> {s1} @@ c2 :> {s1} @@ c3 :> {s3})
CrossActions == (c1 :> "restart" @@ c2 :> "restart" @@ c3 :> "restart")
======

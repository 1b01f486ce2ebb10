------ MODULE MCConfigAgent ------
(* Small instances of the config agent for TLC.                            *)
EXTENDS ConfigAgent, TLC

CONSTANTS c1, c2, app1, s1, s2

\* Two changes of one application and one file.
PairAppOf == (c1 :> app1 @@ c2 :> app1)
PairSourcesOf == (c1 :> {s1} @@ c2 :> {s1})
PairActions == (c1 :> "restart" @@ c2 :> "none")

\* One change that writes two files and builds a release.
SingleAppOf == (c1 :> app1)
SingleSourcesOf == (c1 :> {s1, s2})
SingleBuild == (c1 :> "build")
======

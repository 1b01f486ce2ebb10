------ MODULE AgentDeploy ------
(* Putting a version of the configuration agent into service: deploy/ops/
   scripts install-systemd-assets.sh and deploy-release.sh.  The installer
   fills and renames a version directory, replaces the units and the smoke
   client one by one, moves the agent's pointer and reloads systemd.  The
   deployment restarts the agent, asks it as the API would, and only then
   enables it and switches the API to it.  A failure ends the deployment
   where it is; the agent may die, and be restarted, at any moment. *)
EXTENDS Integers, Sequences

CONSTANTS
    AgentVersions,    \* releases to deploy from
    Assets,           \* sequence of what the installer replaces, the unit first
    MaxDeployFaults, MaxAgentDeaths, MaxDeploys   \* bounds

AssetSet == {Assets[i] : i \in DOMAIN Assets}

ASSUME AgentDeployAssumption ==
    /\ Assets \in Seq(AssetSet) /\ Assets # <<>>
    /\ {MaxDeployFaults, MaxAgentDeaths, MaxDeploys} \subseteq Nat

VARIABLES
    versions,      \* complete version directories
    agentPointer,  \* current
    assets,        \* asset -> the version it comes from
    agentUnit,     \* the unit systemd has loaded
    agentProcess,  \* [version, unit], "none" when it is down
    answered,      \* history: versions that answered both reads
    agentEnabled, flag, apiFlag,   \* enabled at boot, the flag in api.env, the flag the API read
    deploy,        \* [pc, at, target]
    deployFaults, agentDeaths, deploys

agentFiles == <<versions, agentPointer, assets, agentUnit>>
agentUse == <<agentEnabled, flag, apiFlag>>
deployVars == <<agentFiles, agentProcess, answered, agentUse, deploy, deployFaults, agentDeaths, deploys>>

NotRunning == [version |-> "none", unit |-> "none"]

AgentDeployInit ==
    /\ versions = {} /\ agentPointer = "none" /\ assets = [a \in AssetSet |-> "none"] /\ agentUnit = "none"
    /\ agentProcess = NotRunning /\ answered = {}
    /\ agentEnabled = FALSE /\ flag = FALSE /\ apiFlag = FALSE
    /\ deploy = [pc |-> "idle", at |-> 1, target |-> "none"]
    /\ deployFaults = 0 /\ agentDeaths = 0 /\ deploys = 0

Ended == deploy.pc \in {"idle", "active", "stopped"}
Then(pc) == deploy' = [pc |-> pc, at |-> 1, target |-> deploy.target]
Bounds == UNCHANGED <<deployFaults, agentDeaths, deploys>>

-----
\* The installer checks manifest, catalogue, sources, credentials and the unit
\* before it touches anything.
StartDeploy(v) ==
    /\ Ended /\ deploys < MaxDeploys /\ deploys' = deploys + 1
    /\ deploy' = [pc |-> "stage", at |-> 1, target |-> v]
    /\ UNCHANGED <<agentFiles, agentProcess, answered, agentUse, deployFaults, agentDeaths>>

\* A version that is there stays as it is.
StageVersion ==
    /\ deploy.pc = "stage" /\ versions' = versions \cup {deploy.target} /\ Then("assets")
    /\ UNCHANGED <<agentPointer, assets, agentUnit, agentProcess, answered, agentUse>> /\ Bounds

AtomicInstall ==
    /\ deploy.pc = "assets"
    /\ assets' = [assets EXCEPT ![Assets[deploy.at]] = deploy.target]
    /\ IF deploy.at = Len(Assets) THEN Then("link") ELSE deploy' = [deploy EXCEPT !.at = @ + 1]
    /\ UNCHANGED <<versions, agentPointer, agentUnit, agentProcess, answered, agentUse>> /\ Bounds

LinkVersion ==
    /\ deploy.pc = "link" /\ agentPointer' = deploy.target /\ Then("reload")
    /\ UNCHANGED <<versions, assets, agentUnit, agentProcess, answered, agentUse>> /\ Bounds

ReloadUnits ==
    /\ deploy.pc = "reload" /\ agentUnit' = assets[Assets[1]] /\ Then("restart")
    /\ UNCHANGED <<versions, agentPointer, assets, agentProcess, answered, agentUse>> /\ Bounds

-----
Launched == [version |-> agentPointer, unit |-> agentUnit]

RestartAgentService ==
    /\ deploy.pc = "restart" /\ agentProcess' = Launched /\ Then("capabilities")
    /\ UNCHANGED <<agentFiles, answered, agentUse>> /\ Bounds

\* agent.capabilities and inventory.read, signed by the API's identity; an
\* agent that is being restarted answers neither.
SignedReads ==
    /\ deploy.pc \in {"capabilities", "inventory"} /\ agentProcess # NotRunning
    /\ Then(IF deploy.pc = "capabilities" THEN "inventory" ELSE "enable")
    /\ answered' = IF deploy.pc = "inventory" THEN answered \cup {agentProcess.version} ELSE answered
    /\ UNCHANGED <<agentFiles, agentProcess, agentUse>> /\ Bounds

EnableAgent ==
    /\ deploy.pc = "enable" /\ agentEnabled' = TRUE /\ Then("flag")
    /\ UNCHANGED <<agentFiles, agentProcess, answered, flag, apiFlag>> /\ Bounds

\* A copy of api.env is changed and renamed.
SetFlag ==
    /\ deploy.pc = "flag" /\ flag' = TRUE /\ Then("api")
    /\ UNCHANGED <<agentFiles, agentProcess, answered, agentEnabled, apiFlag>> /\ Bounds

\* The second reload of the units, the restart of the API, its health and the
\* canaries.
RestartApi ==
    /\ deploy.pc = "api" /\ apiFlag' = flag /\ agentUnit' = assets[Assets[1]] /\ Then("active")
    /\ UNCHANGED <<versions, agentPointer, assets, agentProcess, answered, agentEnabled, flag>> /\ Bounds

\* Any step fails, or the script is killed.
DeployStops ==
    /\ ~Ended /\ deployFaults < MaxDeployFaults /\ deployFaults' = deployFaults + 1
    /\ Then("stopped")
    /\ UNCHANGED <<agentFiles, agentProcess, answered, agentUse, agentDeaths, deploys>>

\* systemd: the agent dies and is started again.
AgentDies ==
    /\ agentProcess # NotRunning /\ agentDeaths < MaxAgentDeaths /\ agentDeaths' = agentDeaths + 1
    /\ agentProcess' = NotRunning
    /\ UNCHANGED <<agentFiles, answered, agentUse, deploy, deployFaults, deploys>>

AgentReturns ==
    /\ agentProcess = NotRunning /\ agentUnit # "none" /\ agentDeaths > 0
    /\ agentProcess' = Launched
    /\ UNCHANGED <<agentFiles, answered, agentUse, deploy>> /\ Bounds

\* The API may be restarted for reasons of its own and reads the flag then.
ApiRestarts ==
    /\ apiFlag # flag /\ apiFlag' = flag
    /\ UNCHANGED <<agentFiles, agentProcess, answered, agentEnabled, flag, deploy>> /\ Bounds

AgentDeployNext ==
    \/ \E v \in AgentVersions : StartDeploy(v)
    \/ StageVersion \/ AtomicInstall \/ LinkVersion \/ ReloadUnits
    \/ RestartAgentService \/ SignedReads \/ EnableAgent \/ SetFlag \/ RestartApi
    \/ DeployStops \/ AgentDies \/ AgentReturns \/ ApiRestarts

AgentDeploySpec == AgentDeployInit /\ [][AgentDeployNext]_deployVars

-----
\* Whenever systemd starts the agent it finds a complete version.
AgentIsComplete ==
    agentPointer \in versions \cup {"none"} /\ agentProcess.version \in versions \cup {"none"}

\* The API uses the agent, and a reboot starts it, only after some version has
\* answered both reads; a finished deployment has verified its own version.
UseIsEarned ==
    /\ agentEnabled \/ flag \/ apiFlag => answered # {}
    /\ deploy.pc = "active" => deploy.target \in answered

\* A finished deployment left one version everywhere, although deployments
\* before it stopped half way and the agent died in between.
DeployedIsUniform ==
    deploy.pc = "active" =>
        /\ agentPointer = deploy.target /\ agentUnit = deploy.target
        /\ \A a \in AssetSet : assets[a] = deploy.target
        /\ agentProcess \in {NotRunning, [version |-> deploy.target, unit |-> deploy.target]}
        /\ agentEnabled /\ flag /\ apiFlag

AgentDeployIsSafe == AgentIsComplete /\ UseIsEarned /\ DeployedIsUniform
======

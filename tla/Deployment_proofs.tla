------ MODULE Deployment_proofs ------
(* What the two deployment scripts guarantee, for any services, units,
   assets and mishaps: the activation of a release and the deployment of
   the agent.  And what a client of the database explorer gets that turns
   its pages, for any rows, writes, orders and failing calls. *)
EXTENDS Operations_proofs

\* The steps of a deployment, by what they may rely on.
Serving == {"api", "active"}
Enabling == {"flag"} \cup Serving
Verified == {"enable"} \cup Enabling
Restarted == {"capabilities", "inventory"} \cup Verified
UnitsLoaded == {"restart"} \cup Restarted
Pointed == {"reload"} \cup UnitsLoaded
AssetsReplaced == {"link"} \cup Pointed
AnyVersion == AgentVersions \cup {"none"}

DeployTypes ==
    /\ versions \subseteq AnyVersion /\ agentPointer \in AnyVersion /\ agentUnit \in AnyVersion
    /\ assets \in [AssetSet -> AnyVersion]
    /\ agentProcess \in [version : AnyVersion, unit : AnyVersion]
    /\ {agentEnabled, flag, apiFlag} \subseteq BOOLEAN
    /\ deploy \in [pc : {"idle", "stopped", "stage", "assets"} \cup AssetsReplaced, at : 1..Len(Assets), target : AnyVersion]

\* What a deployment has behind it.
DeployedSoFar ==
    /\ deploy.pc \in {"assets"} \cup AssetsReplaced => deploy.target \in versions
    /\ deploy.pc = "assets" => \A i \in 1..(deploy.at - 1) : assets[Assets[i]] = deploy.target
    /\ deploy.pc \in AssetsReplaced => \A a \in AssetSet : assets[a] = deploy.target
    /\ deploy.pc \in Pointed => agentPointer = deploy.target
    /\ deploy.pc \in UnitsLoaded => agentUnit = deploy.target
    /\ deploy.pc \in Restarted =>
          agentProcess \in {NotRunning, [version |-> deploy.target, unit |-> deploy.target]}
    /\ deploy.pc \in Verified => deploy.target \in answered

\* What the flags say.
FlagsFollow ==
    /\ deploy.pc \in Enabling => agentEnabled
    /\ deploy.pc \in Serving => flag
    /\ deploy.pc = "active" => apiFlag
    /\ agentEnabled \/ flag \/ apiFlag => answered # {}

DeployInv == DeployTypes /\ AgentIsComplete /\ DeployedSoFar /\ FlagsFollow

LEMMA AssetsAreListed ==
    /\ Len(Assets) \in Nat \ {0} /\ 1 \in 1..Len(Assets)
    /\ \A i \in 1..Len(Assets) : Assets[i] \in AssetSet
    /\ \A a \in AssetSet : \E i \in 1..Len(Assets) : a = Assets[i]
<1>1. Assets \in Seq(AssetSet) /\ Assets # <<>>  BY AgentDeployAssumption
<1>2. Len(Assets) \in Nat \ {0} /\ DOMAIN Assets = 1..Len(Assets)  BY <1>1
<1> QED  BY <1>2 DEF AssetSet

LEMMA DeployInitInv == AgentDeployInit => DeployInv
<1> SUFFICES ASSUME AgentDeployInit PROVE DeployInv  OBVIOUS
<1> USE DEF AgentDeployInit
<1>1. DeployTypes  BY AssetsAreListed DEF DeployTypes, AnyVersion, NotRunning
<1>2. AgentIsComplete /\ DeployedSoFar /\ FlagsFollow
  BY DEF AgentIsComplete, DeployedSoFar, FlagsFollow, NotRunning, AssetsReplaced, Pointed, UnitsLoaded, Restarted,
    Verified, Enabling, Serving
<1> QED  BY <1>1, <1>2 DEF DeployInv

\* One step of the deployment script.
LEMMA InstallerInv ==
    ASSUME DeployInv, (\E v \in AgentVersions : StartDeploy(v)) \/ StageVersion \/ AtomicInstall \/ LinkVersion \/ ReloadUnits
    PROVE  DeployInv'
<1> USE DEF agentFiles, agentUse, Bounds, Then, AssetsReplaced, Pointed, UnitsLoaded, Restarted, Verified, Enabling, Serving
<1>1. CASE \E v \in AgentVersions : StartDeploy(v)
  <2>1. DeployTypes'  BY <1>1, AssetsAreListed DEF StartDeploy, DeployInv, DeployTypes, AnyVersion
  <2>2. AgentIsComplete' /\ DeployedSoFar' /\ FlagsFollow'
    BY <1>1 DEF StartDeploy, DeployInv, AgentIsComplete, DeployedSoFar, FlagsFollow
  <2> QED  BY <2>1, <2>2 DEF DeployInv
<1>2. CASE StageVersion
  <2>1. DeployTypes'  BY <1>2, AssetsAreListed DEF StageVersion, DeployInv, DeployTypes, AnyVersion
  <2>2. AgentIsComplete' /\ DeployedSoFar' /\ FlagsFollow'
    BY <1>2 DEF StageVersion, DeployInv, AgentIsComplete, DeployedSoFar, FlagsFollow
  <2> QED  BY <2>1, <2>2 DEF DeployInv
<1>3. CASE AtomicInstall
  <2> DEFINE i == deploy.at
  <2>1. i \in 1..Len(Assets) /\ Assets[i] \in AssetSet /\ deploy.target \in AnyVersion /\ deploy.pc = "assets"
        /\ assets \in [AssetSet -> AnyVersion]
    BY <1>3, AssetsAreListed DEF AtomicInstall, DeployInv, DeployTypes
  <2>2. assets' = [assets EXCEPT ![Assets[i]] = deploy.target]  BY <1>3 DEF AtomicInstall
  <2>3. \A j \in 1..i : assets'[Assets[j]] = deploy.target
    <3>1. \A j \in 1..(i - 1) : assets[Assets[j]] = deploy.target  BY <2>1 DEF DeployInv, DeployedSoFar
    <3>2. \A j \in 1..i : Assets[j] \in AssetSet /\ (j = i \/ j \in 1..(i - 1))  BY <2>1, AssetsAreListed
    <3> HIDE DEF i
    <3> QED  BY <2>1, <2>2, <3>1, <3>2
  <2>4. CASE i = Len(Assets)
    <3>1. deploy' = [pc |-> "link", at |-> 1, target |-> deploy.target]  BY <1>3, <2>4 DEF AtomicInstall
    <3>2. \A a \in AssetSet : assets'[a] = deploy.target  BY <2>3, <2>4, AssetsAreListed
    <3>3. DeployTypes'  BY <1>3, <2>1, <2>2, <3>1, AssetsAreListed DEF AtomicInstall, DeployInv, DeployTypes
    <3>4. AgentIsComplete' /\ DeployedSoFar' /\ FlagsFollow'
      BY <1>3, <2>1, <3>1, <3>2 DEF AtomicInstall, DeployInv, AgentIsComplete, DeployedSoFar, FlagsFollow
    <3> QED  BY <3>3, <3>4 DEF DeployInv
  <2>5. CASE i # Len(Assets)
    <3>1. deploy' = [deploy EXCEPT !.at = i + 1]  BY <1>3, <2>5 DEF AtomicInstall
    <3>2. deploy'.pc = "assets" /\ deploy'.at = i + 1 /\ deploy'.target = deploy.target /\ i + 1 \in 1..Len(Assets)
          /\ deploy' \in [pc : {"idle", "stopped", "stage", "assets"} \cup AssetsReplaced, at : 1..Len(Assets), target : AnyVersion]
      BY <2>1, <2>5, <3>1, AssetsAreListed DEF DeployInv, DeployTypes
    <3>3. DeployTypes'  BY <1>3, <2>1, <2>2, <3>2 DEF AtomicInstall, DeployInv, DeployTypes
    <3>4. \A j \in 1..(deploy'.at - 1) : assets'[Assets[j]] = deploy'.target  BY <2>1, <2>3, <3>2
    <3>5. AgentIsComplete' /\ DeployedSoFar' /\ FlagsFollow'
      BY <1>3, <2>1, <3>2, <3>4 DEF AtomicInstall, DeployInv, AgentIsComplete, DeployedSoFar, FlagsFollow
    <3> QED  BY <3>3, <3>5 DEF DeployInv
  <2> QED  BY <2>4, <2>5
<1>4. CASE LinkVersion
  <2>1. DeployTypes'  BY <1>4, AssetsAreListed DEF LinkVersion, DeployInv, DeployTypes, AnyVersion
  <2>2. AgentIsComplete' /\ DeployedSoFar' /\ FlagsFollow'
    BY <1>4 DEF LinkVersion, DeployInv, AgentIsComplete, DeployedSoFar, FlagsFollow
  <2> QED  BY <2>1, <2>2 DEF DeployInv
<1>5. CASE ReloadUnits
  <2>1. Assets[1] \in AssetSet  BY AssetsAreListed
  <2>2. DeployTypes'  BY <1>5, <2>1, AssetsAreListed DEF ReloadUnits, DeployInv, DeployTypes
  <2>3. AgentIsComplete' /\ DeployedSoFar' /\ FlagsFollow'
    BY <1>5, <2>1 DEF ReloadUnits, DeployInv, AgentIsComplete, DeployedSoFar, FlagsFollow
  <2> QED  BY <2>2, <2>3 DEF DeployInv
<1> QED  BY <1>1, <1>2, <1>3, <1>4, <1>5

LEMMA SwitchInv ==
    ASSUME DeployInv, RestartAgentService \/ SignedReads \/ EnableAgent \/ SetFlag \/ RestartApi \/ DeployStops
    PROVE  DeployInv'
<1> USE DEF agentFiles, agentUse, Bounds, Then, AssetsReplaced, Pointed, UnitsLoaded, Restarted, Verified, Enabling, Serving
<1>1. CASE RestartAgentService
  <2>1. DeployTypes'  BY <1>1, AssetsAreListed DEF RestartAgentService, Launched, DeployInv, DeployTypes
  <2>2. AgentIsComplete' /\ DeployedSoFar' /\ FlagsFollow'
    BY <1>1 DEF RestartAgentService, Launched, DeployInv, AgentIsComplete, DeployedSoFar, FlagsFollow
  <2> QED  BY <2>1, <2>2 DEF DeployInv
<1>2. CASE SignedReads
  <2>1. DeployTypes'  BY <1>2, AssetsAreListed DEF SignedReads, DeployInv, DeployTypes
  <2>2. agentProcess = [version |-> deploy.target, unit |-> deploy.target]
    BY <1>2 DEF SignedReads, DeployInv, DeployedSoFar
  <2>3. AgentIsComplete' /\ DeployedSoFar' /\ FlagsFollow'
    BY <1>2, <2>2 DEF SignedReads, DeployInv, AgentIsComplete, DeployedSoFar, FlagsFollow
  <2> QED  BY <2>1, <2>3 DEF DeployInv
<1>3. CASE EnableAgent
  <2>1. DeployTypes'  BY <1>3, AssetsAreListed DEF EnableAgent, DeployInv, DeployTypes
  <2>2. AgentIsComplete' /\ DeployedSoFar' /\ FlagsFollow'
    BY <1>3 DEF EnableAgent, DeployInv, AgentIsComplete, DeployedSoFar, FlagsFollow
  <2> QED  BY <2>1, <2>2 DEF DeployInv
<1>4. CASE SetFlag
  <2>1. DeployTypes'  BY <1>4, AssetsAreListed DEF SetFlag, DeployInv, DeployTypes
  <2>2. AgentIsComplete' /\ DeployedSoFar' /\ FlagsFollow'
    BY <1>4 DEF SetFlag, DeployInv, AgentIsComplete, DeployedSoFar, FlagsFollow
  <2> QED  BY <2>1, <2>2 DEF DeployInv
<1>5. CASE RestartApi
  <2>1. Assets[1] \in AssetSet  BY AssetsAreListed
  <2>2. DeployTypes'  BY <1>5, <2>1, AssetsAreListed DEF RestartApi, DeployInv, DeployTypes
  <2>3. AgentIsComplete' /\ DeployedSoFar' /\ FlagsFollow'
    BY <1>5, <2>1 DEF RestartApi, DeployInv, AgentIsComplete, DeployedSoFar, FlagsFollow
  <2> QED  BY <2>2, <2>3 DEF DeployInv
<1>6. CASE DeployStops
  <2>1. DeployTypes'  BY <1>6, AssetsAreListed DEF DeployStops, DeployInv, DeployTypes
  <2>2. AgentIsComplete' /\ DeployedSoFar' /\ FlagsFollow'
    BY <1>6 DEF DeployStops, DeployInv, AgentIsComplete, DeployedSoFar, FlagsFollow
  <2> QED  BY <2>1, <2>2 DEF DeployInv
<1> QED  BY <1>1, <1>2, <1>3, <1>4, <1>5, <1>6

LEMMA SystemdInv ==
    ASSUME DeployInv, AgentDies \/ AgentReturns \/ ApiRestarts
    PROVE  DeployInv'
<1> USE DEF agentFiles, agentUse, Bounds, AssetsReplaced, Pointed, UnitsLoaded, Restarted, Verified, Enabling, Serving
<1>1. CASE AgentDies
  <2>1. DeployTypes'  BY <1>1 DEF AgentDies, NotRunning, DeployInv, DeployTypes, AnyVersion
  <2>2. AgentIsComplete' /\ DeployedSoFar' /\ FlagsFollow'
    BY <1>1 DEF AgentDies, NotRunning, DeployInv, AgentIsComplete, DeployedSoFar, FlagsFollow
  <2> QED  BY <2>1, <2>2 DEF DeployInv
<1>2. CASE AgentReturns
  <2>1. DeployTypes'  BY <1>2 DEF AgentReturns, Launched, DeployInv, DeployTypes
  <2>2. AgentIsComplete' /\ DeployedSoFar' /\ FlagsFollow'
    BY <1>2 DEF AgentReturns, Launched, DeployInv, AgentIsComplete, DeployedSoFar, FlagsFollow
  <2> QED  BY <2>1, <2>2 DEF DeployInv
<1>3. CASE ApiRestarts
  <2>1. DeployTypes'  BY <1>3 DEF ApiRestarts, DeployInv, DeployTypes
  <2>2. AgentIsComplete' /\ DeployedSoFar' /\ FlagsFollow'
    BY <1>3 DEF ApiRestarts, DeployInv, AgentIsComplete, DeployedSoFar, FlagsFollow, DeployTypes
  <2> QED  BY <2>1, <2>2 DEF DeployInv
<1> QED  BY <1>1, <1>2, <1>3

\* A version of the agent is put into service whole: systemd always finds a
\* complete version, the API relies on the agent only after a version has
\* answered as the API would ask it, and a finished deployment left one version
\* everywhere (install-systemd-assets.sh, deploy-release.sh), however many
\* deployments stopped half way and however often the agent died.
THEOREM AgentDeploySound == AgentDeploySpec => []AgentDeployIsSafe
<1>1. DeployInv /\ [AgentDeployNext]_deployVars => DeployInv'
  <2> SUFFICES ASSUME DeployInv, [AgentDeployNext]_deployVars PROVE DeployInv'  OBVIOUS
  <2>1. CASE AgentDeployNext  BY <2>1, InstallerInv, SwitchInv, SystemdInv DEF AgentDeployNext
  <2>2. CASE UNCHANGED deployVars
    BY <2>2 DEF deployVars, agentFiles, agentUse, DeployInv, DeployTypes, AgentIsComplete, DeployedSoFar, FlagsFollow
  <2> QED  BY <2>1, <2>2
<1>2. DeployInv => AgentDeployIsSafe
  BY DEF DeployInv, AgentDeployIsSafe, UseIsEarned, DeployedIsUniform, DeployedSoFar, FlagsFollow, AssetsReplaced,
    Pointed, UnitsLoaded, Restarted, Verified, Enabling, Serving
<1> QED  BY DeployInitInv, <1>1, <1>2, PTL DEF AgentDeploySpec

\* The steps of an activation and of its rollback, in their order.
NowActive == {"nginx", "activated"}
Starting == {"writers"} \cup NowActive
Swapped == {"backends"} \cup Starting
UnitsReloaded == {"swap"} \cup Swapped
Exchanged == {"reload"} \cup UnitsReloaded
Forward == {"stop", "install"} \cup Exchanged
StartsUndone == {"undo_nginx", "rolledback"}
UnitsUndone == {"undo_start"} \cup StartsUndone
ConfigsUndone == {"undo_reload"} \cup UnitsUndone
PointerUndone == {"undo_configs"} \cup ConfigsUndone
ReleaseIds == Releases \cup {"none"}
ServiceRecords == [state : {"up", "down", "restarting"}, code : ReleaseIds, unit : ReleaseIds]
ScriptRecords == [pc : {"idle", "killed", "undo_stop", "undo_pointer"} \cup Forward \cup PointerUndone, at : Nat \ {0}]
ConfigSet == ToSet(Configs)

ReleaseTypes ==
    /\ staging \subseteq Releases /\ prepared \subseteq Releases /\ pointer \in prepared \cup {"none"}
    /\ installed \in [ConfigSet -> ReleaseIds] /\ loaded \in [ConfigSet -> ReleaseIds]
    /\ services \in [ManagedSet -> ServiceRecords]
    /\ script \in ScriptRecords
    /\ transaction.saved \in [ConfigSet -> ReleaseIds] /\ transaction.before \in [ManagedSet -> ServiceRecords]
    /\ transaction.previous \in prepared \cup {"none"} /\ transaction.active \subseteq ManagedSet
    /\ undoFailed \in BOOLEAN

\* Where a loop of the script is.
LoopsInRange ==
    /\ script.pc \in {"stop", "writers"} => script.at \in 1..Len(Writers)
    /\ script.pc = "backends" => script.at \in 1..Len(Backends)
    /\ script.pc \in {"undo_stop", "undo_start"} => script.at \in 1..Len(Managed)
    /\ script.pc \in {"install", "undo_configs"} => script.at \in 1..Len(Configs)

\* What runs has its code; the migration is never up; the writers are down
\* between their stop and their start.
ServicesKnown ==
    /\ \A s \in ManagedSet : services[s].state = "up" => services[s].code \in prepared
    /\ services[Backends[1]] = Down /\ Backends[1] \notin transaction.active
    /\ script.pc = "stop" => \A i \in 1..(script.at - 1) : services[Writers[i]].state = "down"
    /\ script.pc \in {"install", "reload", "swap", "backends"} => \A w \in ToSet(Writers) : services[w].state = "down"

\* A service that is up runs the release that is being activated.
OnTarget(s) == services[s].state = "up" => services[s].code = transaction.target /\ services[s].unit = transaction.target

ActivatedSoFar ==
    /\ script.pc \in Forward => transaction.target \in prepared
    /\ script.pc = "install" => \A i \in 1..(script.at - 1) : installed[Configs[i]] = transaction.target
    /\ script.pc \in Exchanged => \A c \in ConfigSet : installed[c] = transaction.target
    /\ script.pc \in UnitsReloaded => \A s \in ManagedSet : loaded[s] = transaction.target
    /\ script.pc \in Swapped => pointer = transaction.target
    /\ script.pc = "backends" => \A i \in 1..(script.at - 1) : OnTarget(Backends[i])
    /\ script.pc = "backends" /\ script.at > 1 => transaction.target \in migrated
    /\ script.pc \in Starting => transaction.target \in migrated /\ \A s \in ManagedSet : OnTarget(s)
    /\ script.pc = "activated" => loaded["vhost"] = transaction.target

\* A service that was active and did not restart by itself, before the rollback
\* starts it and after.
Untouched(s) == services[s].state = "restarting" \/ services[s] = transaction.before[s] \/ services[s] = Down
BackAgain(s) ==
    \/ services[s].state = "restarting"
    \/ services[s] = transaction.before[s]
    \/ services[s] = [state |-> "up", code |-> transaction.previous, unit |-> transaction.saved[s]]
    \/ services[s] = Down /\ "none" \in {transaction.previous, transaction.saved[s]}

UndoneSoFar ==
    LET tracked == transaction.active \ strays
    IN  /\ script.pc \in (Forward \ {"activated"}) \cup {"undo_stop"} => \A s \in tracked \ attempted : Untouched(s)
        /\ ~undoFailed =>
              /\ script.pc = "undo_stop" =>
                    \A i \in 1..(script.at - 1) : Managed[i] \in tracked => Untouched(Managed[i])
              /\ script.pc \in {"undo_pointer", "undo_configs", "undo_reload"} => \A s \in tracked : Untouched(s)
              /\ script.pc = "undo_start" =>
                    /\ \A i \in 1..(script.at - 1) : Managed[i] \in tracked => BackAgain(Managed[i])
                    /\ \A s \in tracked : Untouched(s) \/ BackAgain(s)
              /\ script.pc \in StartsUndone => \A s \in tracked : BackAgain(s)
              /\ script.pc \in PointerUndone => pointer = transaction.previous
              /\ script.pc = "undo_configs" =>
                    \A i \in 1..(script.at - 1) : installed[Configs[i]] = transaction.saved[Configs[i]]
              /\ script.pc \in ConfigsUndone => \A c \in ConfigSet : installed[c] = transaction.saved[c]
              /\ script.pc \in UnitsUndone => \A s \in ManagedSet : loaded[s] = transaction.saved[s]
              /\ script.pc = "rolledback" => loaded["vhost"] = transaction.saved["vhost"]

ReleaseInv == ReleaseTypes /\ LoopsInRange /\ ServicesKnown /\ ActivatedSoFar /\ UndoneSoFar

LEMMA ServicesAreListed ==
    /\ \A i \in 1..Len(Backends) : Backends[i] \in ManagedSet \ ToSet(Writers)
    /\ \A i \in 1..Len(Backends) : Backends[i] = Backends[1] => i = 1
    /\ \A i \in 1..Len(Writers) : Writers[i] \in ToSet(Writers) /\ Writers[i] \in ManagedSet /\ Writers[i] # Backends[1]
    /\ \A w \in ToSet(Writers) : \E i \in 1..Len(Writers) : w = Writers[i]
    /\ ToSet(Writers) \subseteq ManagedSet /\ Backends[1] \in ManagedSet
    /\ \A s \in ManagedSet : s \in ToSet(Writers) \/ \E i \in 1..Len(Backends) : s = Backends[i]
    /\ \A i \in 1..Len(Managed) : Managed[i] \in ManagedSet
    /\ \A s \in ManagedSet : \E i \in 1..Len(Managed) : s = Managed[i]
    /\ \A i \in 1..Len(Configs) : Configs[i] \in ConfigSet
    /\ \A c \in ConfigSet : \E i \in 1..Len(Configs) : c = Configs[i]
    /\ ConfigSet = ManagedSet \cup {"vhost"} /\ "vhost" \notin ManagedSet
    /\ {Len(Backends), Len(Writers), Len(Managed), Len(Configs)} \subseteq Nat \ {0}
<1> DEFINE b == Len(Backends)
           w == Len(Writers)
<1>1. /\ Backends \in Seq(ToSet(Backends)) /\ Writers \in Seq(ToSet(Writers)) /\ b \in Nat \ {0} /\ w \in Nat \ {0}
      /\ DOMAIN Backends = 1..b /\ DOMAIN Writers = 1..w
  BY ReleaseActivationAssumption
<1> DEFINE U == ToSet(Backends) \cup ToSet(Writers) \cup {"vhost"}
<1>2. Backends \in Seq(U) /\ Writers \in Seq(U)  BY <1>1
<1>3. /\ Managed \in Seq(U) /\ Len(Managed) = b + w /\ DOMAIN Managed = 1..(b + w)
      /\ \A i \in 1..(b + w) : Managed[i] = IF i <= b THEN Backends[i] ELSE Writers[i - b]
  BY <1>1, <1>2 DEF Managed
<1> DEFINE one == <<"vhost">>
<1>4. one \in Seq(U) /\ Len(one) = 1 /\ one[1] = "vhost"  OBVIOUS
<1>5. Configs = Managed \o one  BY DEF Configs
<1> HIDE DEF one, U, b, w
<1>6. /\ Configs \in Seq(U) /\ Len(Configs) = b + w + 1 /\ DOMAIN Configs = 1..(b + w + 1)
      /\ \A i \in 1..(b + w + 1) : Configs[i] = IF i <= b + w THEN Managed[i] ELSE one[i - (b + w)]
  <2>1. (Managed \o one) \in Seq(U) /\ Len(Managed \o one) = b + w + 1
        /\ \A i \in 1..(b + w + 1) : (Managed \o one)[i] = IF i <= b + w THEN Managed[i] ELSE one[i - (b + w)]
    <3>1. /\ (Managed \o one) \in Seq(U) /\ Len(Managed \o one) = Len(Managed) + Len(one)
          /\ \A i \in 1..(Len(Managed) + Len(one)) : (Managed \o one)[i] =
                IF i <= Len(Managed) THEN Managed[i] ELSE one[i - Len(Managed)]
      BY <1>3, <1>4, ConcatProperties
    <3> QED  BY <1>3, <1>4, <3>1
  <2> QED  BY <1>5, <2>1, <1>1
<1>7. /\ \A i \in 1..b : i \in DOMAIN Configs /\ Configs[i] = Backends[i]
      /\ \A i \in 1..w : b + i \in DOMAIN Configs /\ Configs[b + i] = Writers[i]
      /\ \A i \in 1..(b + w) : i \in DOMAIN Configs /\ Configs[i] = Managed[i]
      /\ b + w + 1 \in DOMAIN Configs /\ Configs[b + w + 1] = "vhost"
      /\ \A i \in DOMAIN Configs : i = b + w + 1 \/ i \in 1..(b + w)
  <2>1. \A i \in 1..b : i \in 1..(b + w) /\ i <= b  BY <1>1
  <2>2. \A i \in 1..w : b + i \in 1..(b + w) /\ ~(b + i <= b) /\ (b + i) - b = i  BY <1>1
  <2>3. \A i \in 1..(b + w) : i \in 1..(b + w + 1) /\ i <= b + w  BY <1>1
  <2>4. b + w + 1 \in 1..(b + w + 1) /\ ~(b + w + 1 <= b + w) /\ (b + w + 1) - (b + w) = 1  BY <1>1
  <2>5. \A i \in 1..(b + w) : Configs[i] = Managed[i]  BY <1>6, <2>3
  <2>6. \A i \in 1..b : Configs[i] = Backends[i]  BY <1>3, <2>1, <2>5
  <2>7. \A i \in 1..w : Configs[b + i] = Writers[i]  BY <1>3, <2>2, <2>5
  <2>8. Configs[b + w + 1] = "vhost"  BY <1>4, <1>6, <2>4
  <2>9. \A i \in 1..(b + w + 1) : i = b + w + 1 \/ i \in 1..(b + w)  BY <1>1
  <2> QED  BY <1>6, <2>1, <2>2, <2>3, <2>4, <2>5, <2>6, <2>7, <2>8, <2>9
<1>8. \A i, j \in DOMAIN Configs : Configs[i] = Configs[j] => i = j  BY ReleaseActivationAssumption DEF IsInjective
<1>9. \A i \in 1..(b + w) : i \in 1..b \/ \E j \in 1..w : i = b + j
  <2> SUFFICES ASSUME NEW i \in 1..(b + w), i \notin 1..b PROVE \E j \in 1..w : i = b + j  OBVIOUS
  <2>1. i - b \in 1..w /\ i = b + (i - b)  BY <1>1
  <2> QED  BY <2>1
<1>10. /\ ToSet(Backends) = {Backends[i] : i \in 1..b} /\ ToSet(Writers) = {Writers[i] : i \in 1..w}
       /\ ManagedSet = {Managed[i] : i \in 1..(b + w)} /\ ConfigSet = {Configs[i] : i \in DOMAIN Configs}
  BY <1>1, <1>3 DEF ToSet, ManagedSet, ConfigSet
<1>11. \A i \in 1..b : i \in 1..(b + w) /\ Managed[i] = Backends[i]  BY <1>1, <1>3
<1>12. \A i \in 1..w : b + i \in 1..(b + w) /\ Managed[b + i] = Writers[i]  BY <1>1, <1>3
<1>13. \A i \in 1..b, j \in 1..w : Backends[i] # Writers[j]
  <2> SUFFICES ASSUME NEW i \in 1..b, NEW j \in 1..w, Backends[i] = Writers[j] PROVE FALSE  OBVIOUS
  <2>1. i = b + j  BY <1>7, <1>8
  <2> QED  BY <1>1, <2>1
<1>14. \A i \in 1..b : Backends[i] = Backends[1] => i = 1  BY <1>1, <1>7, <1>8
<1>15. \A i \in 1..(b + w) : Managed[i] # "vhost"
  <2> SUFFICES ASSUME NEW i \in 1..(b + w), Managed[i] = "vhost" PROVE FALSE  OBVIOUS
  <2>1. i = b + w + 1  BY <1>7, <1>8
  <2> QED  BY <1>1, <2>1
<1>16. \A i \in 1..(b + w) : Managed[i] \in ToSet(Writers) \/ \E j \in 1..b : Managed[i] = Backends[j]
  BY <1>9, <1>10, <1>11, <1>12
<1>17. ConfigSet = ManagedSet \cup {"vhost"}  BY <1>7, <1>10
<1>18. 1 \in 1..b  BY <1>1
<1>19. Len(Backends) = b /\ Len(Writers) = w  BY DEF b, w
<1>20. Len(Managed) \in Nat \ {0} /\ Len(Configs) \in Nat \ {0} /\ DOMAIN Configs = 1..Len(Configs)
       /\ 1..Len(Managed) = 1..(b + w)
  BY <1>1, <1>3, <1>6
<1>21. ToSet(Writers) \subseteq ManagedSet /\ \A i \in 1..b : Backends[i] \in ManagedSet  BY <1>10, <1>11, <1>12
<1>22. \A i \in 1..b : Backends[i] \notin ToSet(Writers)  BY <1>10, <1>13
<1>23. \A i \in 1..w : Writers[i] \in ToSet(Writers)  BY <1>10
<1>24. /\ \A s \in ManagedSet : \E i \in 1..Len(Managed) : s = Managed[i]
       /\ \A i \in 1..Len(Managed) : Managed[i] \in ManagedSet
       /\ \A i \in 1..Len(Configs) : Configs[i] \in ConfigSet
       /\ \A c \in ConfigSet : \E i \in 1..Len(Configs) : c = Configs[i]
  BY <1>10, <1>20
<1>25. \A s \in ManagedSet : s \in ToSet(Writers) \/ \E i \in 1..b : s = Backends[i]  BY <1>10, <1>16
<1>26. "vhost" \notin ManagedSet  BY <1>10, <1>15
<1>27. \A x \in ToSet(Writers) : \E i \in 1..w : x = Writers[i]  BY <1>10
<1>28. \A i \in 1..w : Writers[i] # Backends[1]  BY <1>13, <1>18
<1>29. {Len(Backends), Len(Writers), Len(Managed), Len(Configs)} \subseteq Nat \ {0}  BY <1>1, <1>19, <1>20
<1> QED  BY <1>14, <1>17, <1>18, <1>19, <1>21, <1>22, <1>23, <1>24, <1>25, <1>26, <1>27, <1>28, <1>29

LEMMA WritersAreListed ==
    /\ \A w \in ToSet(Writers) : w \in ManagedSet /\ \E i \in 1..Len(Writers) : w = Writers[i]
    /\ \A i \in 1..Len(Writers) : Writers[i] \in ManagedSet
  BY ServicesAreListed

LEMMA BackendsAreListed ==
    /\ Backends[1] \in ManagedSet /\ Backends[1] \notin ToSet(Writers)
    /\ \A i \in 1..Len(Backends) : Backends[i] \in ManagedSet \ ToSet(Writers)
    /\ \A s \in ManagedSet : s \in ToSet(Writers) \/ \E i \in 1..Len(Backends) : s = Backends[i]
<1>1. 1 \in 1..Len(Backends)  BY ServicesAreListed
<1> QED  BY <1>1, ServicesAreListed

LEMMA ManagedAreListed ==
    /\ \A i \in 1..Len(Managed) : Managed[i] \in ManagedSet
    /\ \A s \in ManagedSet : \E i \in 1..Len(Managed) : s = Managed[i]
  BY ServicesAreListed

LEMMA ConfigsAreListed ==
    /\ \A i \in 1..Len(Configs) : Configs[i] \in ConfigSet
    /\ \A c \in ConfigSet : \E i \in 1..Len(Configs) : c = Configs[i]
  BY ServicesAreListed

LEMMA DownIsDown == Down.state = "down" /\ Down \in ServiceRecords
  BY DEF Down, ServiceRecords, ReleaseIds

LEMMA ReleaseStepInv == ASSUME ReleaseInv, ReleaseNext PROVE ReleaseInv'
<1> USE ServicesAreListed, DownIsDown DEF ReleaseInv, Goto, NextOf, Recorded, Rest, world, progress,
        NowActive, Starting, Swapped, UnitsReloaded, Exchanged, Forward, StartsUndone, UnitsUndone, ConfigsUndone, PointerUndone
<1>1. ASSUME NEW r \in Releases, StageRelease(r) PROVE ReleaseInv'
  <2>1. ReleaseTypes'  BY <1>1 DEF StageRelease, ReleaseTypes, ReleaseIds, ServiceRecords, ScriptRecords
  <2>2. LoopsInRange'  BY <1>1 DEF StageRelease, LoopsInRange, ReleaseTypes
  <2>3. ServicesKnown'  BY <1>1 DEF StageRelease, ServicesKnown, ReleaseTypes, LoopsInRange, ActivatedSoFar
  <2>4. ActivatedSoFar'  BY <1>1 DEF StageRelease, ActivatedSoFar, ReleaseTypes, LoopsInRange, OnTarget
  <2>5. UndoneSoFar'  BY <1>1 DEF StageRelease, UndoneSoFar, ReleaseTypes, LoopsInRange, Untouched, BackAgain
  <2> QED  BY <2>1, <2>2, <2>3, <2>4, <2>5
<1>2. ASSUME NEW r \in Releases, PublishRelease(r) PROVE ReleaseInv'
  <2>1. ReleaseTypes'  BY <1>2 DEF PublishRelease, ReleaseTypes, ReleaseIds, ServiceRecords, ScriptRecords
  <2>2. LoopsInRange'  BY <1>2 DEF PublishRelease, LoopsInRange, ReleaseTypes
  <2>3. ServicesKnown'  BY <1>2 DEF PublishRelease, ServicesKnown, ReleaseTypes, LoopsInRange, ActivatedSoFar
  <2>4. ActivatedSoFar'  BY <1>2 DEF PublishRelease, ActivatedSoFar, ReleaseTypes, LoopsInRange, OnTarget
  <2>5. UndoneSoFar'  BY <1>2 DEF PublishRelease, UndoneSoFar, ReleaseTypes, LoopsInRange, Untouched, BackAgain
  <2> QED  BY <2>1, <2>2, <2>3, <2>4, <2>5
<1>3. ASSUME NEW r \in Releases, StartActivation(r) PROVE ReleaseInv'
  <2>1. r \in prepared /\ pointer \in prepared \cup {"none"} /\ installed \in [ConfigSet -> ReleaseIds] /\ services \in [ManagedSet -> ServiceRecords]
    BY <1>3 DEF StartActivation, ReleaseTypes
  <2>2. /\ script'.pc = "stop" /\ script'.at = 1 /\ script' \in ScriptRecords /\ attempted' = {} /\ undoFailed' = FALSE /\ strays' = {}
        /\ transaction'.target = r /\ transaction'.previous = pointer /\ transaction'.saved = installed
        /\ transaction'.active \subseteq ManagedSet /\ transaction'.before = services
        /\ \A s \in transaction'.active : services[s].state = "up"
    BY <1>3 DEF StartActivation, ScriptRecords
  <2>3. UNCHANGED <<staging, prepared, pointer, installed, loaded, services, migrated>>  BY <1>3 DEF StartActivation
  <2>4. ReleaseTypes'  BY <2>1, <2>2, <2>3 DEF ReleaseTypes, ReleaseIds, ServiceRecords, ScriptRecords
  <2>5. LoopsInRange'  BY <2>1, <2>2, <2>3 DEF LoopsInRange, ReleaseTypes
  <2>6. ServicesKnown'  BY <2>1, <2>2, <2>3 DEF ServicesKnown, ReleaseTypes, LoopsInRange, ActivatedSoFar
  <2>7. ActivatedSoFar'  BY <2>1, <2>2, <2>3 DEF ActivatedSoFar, ReleaseTypes, LoopsInRange, OnTarget
  <2>8. UndoneSoFar'  BY <2>1, <2>2, <2>3 DEF UndoneSoFar, ReleaseTypes, LoopsInRange, Untouched, BackAgain
  <2> QED  BY <2>4, <2>5, <2>6, <2>7, <2>8
<1>4. ASSUME StopWriter PROVE ReleaseInv'
  <2>1. script.pc = "stop" /\ script.at \in 1..Len(Writers) /\ script.at \in Nat \ {0} /\ Len(Writers) \in Nat
    BY <1>4 DEF StopWriter, LoopsInRange
  <2>2. /\ script' \in ScriptRecords
        /\ \/ script.at = Len(Writers) /\ script'.pc = "install" /\ script'.at = 1
           \/ script'.pc = "stop" /\ script'.at = script.at + 1 /\ script'.at \in 1..Len(Writers)
    BY <1>4, <2>1 DEF StopWriter, ScriptRecords
  <2>3. Writers[script.at] \in ManagedSet /\ Writers[script.at] # Backends[1]  BY <1>4, <2>1
  <2>4. services \in [ManagedSet -> ServiceRecords] /\ services' = [services EXCEPT ![Writers[script.at]] = Down]
    BY <1>4, <2>1 DEF StopWriter, ReleaseTypes
  <2>5. services' \in [ManagedSet -> ServiceRecords] /\ \A t \in ManagedSet : services'[t] = IF t = Writers[script.at] THEN Down ELSE services[t]
    BY <1>4, <2>3, <2>4 DEF ServiceRecords, ReleaseIds, Down
  <2>6. /\ script.at = Len(Writers) => \A i \in 1..Len(Writers) : i = script.at \/ i \in 1..(script.at - 1)
        /\ script.at # Len(Writers) => \A i \in 1..(script'.at - 1) : i = script.at \/ i \in 1..(script.at - 1)
    BY <1>4, <2>1, <2>2
  <2>7. UNCHANGED <<staging, prepared, pointer, installed, loaded, migrated, transaction, attempted, undoFailed, strays>>
    BY <1>4 DEF StopWriter
  <2>8. ReleaseTypes'
    BY <2>1, <2>2, <2>3, <2>4, <2>5, <2>6, <2>7 DEF ReleaseTypes, ReleaseIds, ServiceRecords, ScriptRecords
  <2>9. LoopsInRange'  BY <2>1, <2>2, SMTT(20) DEF LoopsInRange
  <2>10. ServicesKnown'
    <3>1. \A i \in 1..(script.at - 1) : services[Writers[i]].state = "down"  BY <2>1 DEF ServicesKnown
    <3>2. \A i \in 1..Len(Writers) : (i = script.at \/ i \in 1..(script.at - 1)) => services'[Writers[i]].state = "down"
      BY <2>5, <3>1
    <3>3. (\A t \in ManagedSet : services'[t].state = "up" => services'[t].code \in prepared) /\ services'[Backends[1]] = Down
      BY <2>3, <2>5 DEF ServicesKnown
    <3>4. CASE script.at = Len(Writers)
      <4> HIDE ServicesAreListed, DownIsDown
      <4>1. \A w \in ToSet(Writers) : services'[w].state = "down"  BY <2>6, <3>2, <3>4, WritersAreListed
      <4> QED  BY <2>2, <2>1, <2>7, <3>3, <3>4, <4>1 DEF ServicesKnown
    <3>5. CASE script.at # Len(Writers)
      <4>1. \A i \in 1..(script'.at - 1) : i \in 1..Len(Writers)  BY <2>1, <2>2, <3>5
      <4>2. \A i \in 1..(script'.at - 1) : services'[Writers[i]].state = "down"  BY <2>6, <3>2, <3>5, <4>1
      <4> QED  BY <2>2, <2>7, <3>3, <3>5, <4>2 DEF ServicesKnown
    <3> QED  BY <3>4, <3>5
  <2>11. ActivatedSoFar'
    BY <2>1, <2>2, <2>3, <2>4, <2>5, <2>6, <2>7 DEF ActivatedSoFar, ReleaseTypes, LoopsInRange, OnTarget
  <2>12. UndoneSoFar'
    BY <2>1, <2>2, <2>3, <2>4, <2>5, <2>6, <2>7 DEF UndoneSoFar, ReleaseTypes, LoopsInRange, Untouched, BackAgain
  <2> QED  BY <2>8, <2>9, <2>10, <2>11, <2>12
<1>5. ASSUME InstallConfig PROVE ReleaseInv'
  <2>1. script.pc = "install" /\ script.at \in 1..Len(Configs) /\ script.at \in Nat \ {0} /\ Len(Configs) \in Nat
    BY <1>5 DEF InstallConfig, LoopsInRange
  <2>2. /\ script' \in ScriptRecords
        /\ \/ script.at = Len(Configs) /\ script'.pc = "reload" /\ script'.at = 1
           \/ script'.pc = "install" /\ script'.at = script.at + 1 /\ script'.at \in 1..Len(Configs)
    BY <1>5, <2>1 DEF InstallConfig, ScriptRecords
  <2>3. Configs[script.at] \in ConfigSet /\ installed \in [ConfigSet -> ReleaseIds] /\ transaction.target \in ReleaseIds /\ installed' = [installed EXCEPT ![Configs[script.at]] = transaction.target]
    BY <1>5, <2>1 DEF InstallConfig, ReleaseTypes, ActivatedSoFar, ReleaseIds
  <2>4. /\ installed' \in [ConfigSet -> ReleaseIds]
        /\ \A c \in ConfigSet : installed'[c] = IF c = Configs[script.at] THEN transaction.target ELSE installed[c]
    BY <1>5, <2>3
  <2>5. /\ script.at = Len(Configs) => \A i \in 1..Len(Configs) : i = script.at \/ i \in 1..(script.at - 1)
        /\ script.at # Len(Configs) => \A i \in 1..(script'.at - 1) : i = script.at \/ i \in 1..(script.at - 1)
    BY <1>5, <2>1, <2>2
  <2>6. UNCHANGED <<staging, prepared, pointer, loaded, services, migrated, transaction, attempted, undoFailed, strays>>
    BY <1>5 DEF InstallConfig
  <2>7. ReleaseTypes'
    BY <2>1, <2>2, <2>3, <2>4, <2>5, <2>6 DEF ReleaseTypes, ReleaseIds, ServiceRecords, ScriptRecords
  <2>8. LoopsInRange'  BY <2>1, <2>2 DEF LoopsInRange
  <2>9. ServicesKnown'
    BY <2>1, <2>2, <2>3, <2>4, <2>5, <2>6 DEF ServicesKnown, ReleaseTypes, LoopsInRange, ActivatedSoFar
  <2>10. ActivatedSoFar'
    <3>1. transaction.target \in prepared /\ \A i \in 1..(script.at - 1) : installed[Configs[i]] = transaction.target
      BY <2>1 DEF ActivatedSoFar
    <3>2. \A i \in 1..Len(Configs) :
             (i = script.at \/ i \in 1..(script.at - 1)) => installed'[Configs[i]] = transaction.target
      BY <2>4, <3>1
    <3>3. CASE script.at = Len(Configs)
      <4> HIDE ServicesAreListed, DownIsDown
      <4>1. \A x \in ConfigSet : installed'[x] = transaction.target  BY <2>5, <3>2, <3>3, ConfigsAreListed
      <4> QED  BY <2>1, <2>2, <2>6, <3>1, <3>3, <4>1 DEF ActivatedSoFar
    <3>4. CASE script.at # Len(Configs)
      <4>1. \A i \in 1..(script'.at - 1) : i \in 1..Len(Configs)  BY <2>1, <2>2, <3>4
      <4>2. \A i \in 1..(script'.at - 1) : installed'[Configs[i]] = transaction.target  BY <2>5, <3>2, <3>4, <4>1
      <4> QED  BY <2>2, <2>6, <3>1, <3>4, <4>2 DEF ActivatedSoFar
    <3> QED  BY <3>3, <3>4
  <2>11. UndoneSoFar'
    BY <2>1, <2>2, <2>3, <2>4, <2>5, <2>6 DEF UndoneSoFar, ReleaseTypes, LoopsInRange, Untouched, BackAgain
  <2> QED  BY <2>7, <2>8, <2>9, <2>10, <2>11
<1>6. ASSUME DaemonReload PROVE ReleaseInv'
  <2>1. script.pc = "reload" /\ script'.pc = "swap" /\ script'.at = 1 /\ script' \in ScriptRecords /\ loaded' = [c \in ConfigSet |-> IF c = "vhost" THEN loaded[c] ELSE installed[c]]
    BY <1>6 DEF DaemonReload, ScriptRecords, Reloaded, ConfigSet
  <2>2. loaded \in [ConfigSet -> ReleaseIds] /\ installed \in [ConfigSet -> ReleaseIds] /\ \A s \in ManagedSet : s \in ConfigSet /\ s # "vhost"
    BY <1>6 DEF ReleaseTypes
  <2>3. loaded' \in [ConfigSet -> ReleaseIds] /\ (\A s \in ManagedSet : loaded'[s] = installed[s]) /\ loaded'["vhost"] = loaded["vhost"]
    BY <1>6, <2>1, <2>2
  <2>4. UNCHANGED <<staging, prepared, pointer, installed, services, migrated, transaction, attempted, undoFailed, strays>>
    BY <1>6 DEF DaemonReload
  <2>5. ReleaseTypes'  BY <2>1, <2>2, <2>3, <2>4 DEF ReleaseTypes, ReleaseIds, ServiceRecords, ScriptRecords
  <2>6. LoopsInRange'  BY <2>1, <2>2, <2>3, <2>4 DEF LoopsInRange, ReleaseTypes
  <2>7. ServicesKnown'  BY <2>1, <2>2, <2>3, <2>4 DEF ServicesKnown, ReleaseTypes, LoopsInRange, ActivatedSoFar
  <2>8. ActivatedSoFar'  BY <2>1, <2>2, <2>3, <2>4 DEF ActivatedSoFar, ReleaseTypes, LoopsInRange, OnTarget
  <2>9. UndoneSoFar'  BY <2>1, <2>2, <2>3, <2>4 DEF UndoneSoFar, ReleaseTypes, LoopsInRange, Untouched, BackAgain
  <2> QED  BY <2>5, <2>6, <2>7, <2>8, <2>9
<1>7. ASSUME SwapPointer PROVE ReleaseInv'
  <2>1. script.pc = "swap" /\ script'.pc = "backends" /\ script'.at = 1 /\ script' \in ScriptRecords /\ pointer' = transaction.target /\ transaction.target \in prepared
    BY <1>7 DEF SwapPointer, ScriptRecords, ActivatedSoFar
  <2>2. UNCHANGED <<staging, prepared, installed, loaded, services, migrated, transaction, attempted, undoFailed, strays>>
    BY <1>7 DEF SwapPointer
  <2>3. ReleaseTypes'  BY <2>1, <2>2 DEF ReleaseTypes, ReleaseIds, ServiceRecords, ScriptRecords
  <2>4. LoopsInRange'  BY <2>1, <2>2 DEF LoopsInRange, ReleaseTypes
  <2>5. ServicesKnown'  BY <2>1, <2>2 DEF ServicesKnown, ReleaseTypes, LoopsInRange, ActivatedSoFar
  <2>6. ActivatedSoFar'  BY <2>1, <2>2 DEF ActivatedSoFar, ReleaseTypes, LoopsInRange, OnTarget
  <2>7. UndoneSoFar'  BY <2>1, <2>2 DEF UndoneSoFar, ReleaseTypes, LoopsInRange, Untouched, BackAgain
  <2> QED  BY <2>3, <2>4, <2>5, <2>6, <2>7
<1>8. ASSUME RestartBackend PROVE ReleaseInv'
  <2>1. script.pc = "backends" /\ script.at \in 1..Len(Backends) /\ script.at \in Nat \ {0} /\ Len(Backends) \in Nat
    BY <1>8 DEF RestartBackend, LoopsInRange
  <2>2. /\ script' \in ScriptRecords
        /\ \/ script.at = Len(Backends) /\ script'.pc = "writers" /\ script'.at = 1
           \/ script'.pc = "backends" /\ script'.at = script.at + 1 /\ script'.at \in 1..Len(Backends)
    BY <1>8, <2>1 DEF RestartBackend, ScriptRecords
  <2>3. /\ Backends[script.at] \in ManagedSet \ ToSet(Writers)
        /\ script.at # 1 => Backends[script.at] # Backends[1]
    BY <1>8, <2>1
  <2>4. /\ services \in [ManagedSet -> ServiceRecords] /\ pointer = transaction.target /\ pointer \in prepared /\ pointer \in ReleaseIds
        /\ loaded[Backends[script.at]] = transaction.target
    BY <1>8, <2>1, <2>3 DEF ReleaseTypes, ActivatedSoFar, ReleaseIds
  <2>5. Started(Backends[script.at]) = [state |-> "up", code |-> transaction.target, unit |-> transaction.target]
        /\ Started(Backends[script.at]).state = "up" /\ Started(Backends[script.at]).code = transaction.target /\ Started(Backends[script.at]).unit = transaction.target
    BY <1>8, <2>4 DEF Started
  <2>6. /\ services' = IF script.at = 1 THEN services ELSE [services EXCEPT ![Backends[script.at]] = Started(Backends[script.at])]
        /\ migrated' = IF script.at = 1 THEN migrated \cup {pointer} ELSE migrated
        /\ attempted' = attempted \cup {Backends[script.at]}
    BY <1>8, <2>1 DEF RestartBackend
  <2>7. /\ services' \in [ManagedSet -> ServiceRecords]
        /\ \A t \in ManagedSet : services'[t] = IF script.at # 1 /\ t = Backends[script.at] THEN Started(t) ELSE services[t]
    BY <1>8, <2>3, <2>4, <2>5, <2>6 DEF ServiceRecords
  <2>8. /\ script.at = Len(Backends) => \A i \in 1..Len(Backends) : i = script.at \/ i \in 1..(script.at - 1)
        /\ script.at # Len(Backends) => \A i \in 1..(script'.at - 1) : i = script.at \/ i \in 1..(script.at - 1)
    BY <1>8, <2>1, <2>2
  <2>9. UNCHANGED <<staging, prepared, pointer, installed, loaded, transaction, undoFailed, strays>>
    BY <1>8 DEF RestartBackend
  <2>10. ReleaseTypes'
    BY <2>1, <2>2, <2>3, <2>4, <2>5, <2>6, <2>7, <2>8, <2>9 DEF ReleaseTypes, ReleaseIds, ServiceRecords,
      ScriptRecords
  <2>11. LoopsInRange'  BY <2>1, <2>2, SMTT(20) DEF LoopsInRange
  <2>12. ServicesKnown'
    <3>1. /\ \A t \in ManagedSet : services'[t].state = "up" => services'[t].code \in prepared
          /\ services'[Backends[1]] = Down /\ \A w \in ToSet(Writers) : services'[w].state = "down"
      <4>1. /\ \A t \in ManagedSet : services[t].state = "up" => services[t].code \in prepared
            /\ services[Backends[1]] = Down /\ \A w \in ToSet(Writers) : services[w].state = "down"
        BY <2>1 DEF ServicesKnown
      <4>2. \A t \in ManagedSet : services'[t] = services[t] \/ (t = Backends[script.at] /\ script.at # 1 /\ services'[t].code \in prepared)
        BY <2>4, <2>5, <2>7
      <4>3. services'[Backends[1]] = Down  BY <2>3, <4>1, <4>2, BackendsAreListed
      <4> HIDE ServicesAreListed, DownIsDown
      <4>4. \A w \in ToSet(Writers) : services'[w].state = "down"  BY <2>3, <4>1, <4>2, WritersAreListed
      <4> QED  BY <4>1, <4>2, <4>3, <4>4
    <3> QED  BY <2>2, <2>9, <3>1 DEF ServicesKnown
  <2>13. ActivatedSoFar'
    <3>1. /\ transaction.target \in prepared /\ \A x \in ConfigSet : installed[x] = transaction.target
          /\ \A t \in ManagedSet : loaded[t] = transaction.target
          /\ \A i \in 1..(script.at - 1) : OnTarget(Backends[i])
          /\ script.at > 1 => transaction.target \in migrated
      BY <2>1 DEF ActivatedSoFar
    <3>2. \A i \in 1..Len(Backends) : (i = script.at \/ i \in 1..(script.at - 1)) => OnTarget(Backends[i])'
      <4> SUFFICES ASSUME NEW i \in 1..Len(Backends), i = script.at \/ i \in 1..(script.at - 1) PROVE OnTarget(Backends[i])'
        OBVIOUS
      <4>1. CASE i = script.at
        <5>1. CASE script.at = 1
          <6>1. services'[Backends[1]] = Down  BY <2>7, <5>1 DEF ServicesKnown
          <6> QED  BY <4>1, <5>1, <6>1 DEF OnTarget
        <5>2. CASE script.at # 1  BY <2>3, <2>5, <2>7, <2>9, <4>1, <5>2 DEF OnTarget
        <5> QED  BY <5>1, <5>2
      <4>2. CASE i \in 1..(script.at - 1)
        <5>1. Backends[i] \in ManagedSet /\ OnTarget(Backends[i])  BY <3>1, <4>2, BackendsAreListed
        <5>2. \/ services'[Backends[i]] = services[Backends[i]]
              \/ services'[Backends[i]].code = transaction.target /\ services'[Backends[i]].unit = transaction.target
          BY <2>5, <2>7, <5>1
        <5> QED  BY <2>9, <5>1, <5>2 DEF OnTarget
      <4> QED  BY <4>1, <4>2
    <3>3. transaction.target \in migrated'  BY <2>1, <2>4, <2>6, <3>1
    <3>4. CASE script.at = Len(Backends)
      <4>1. \A i \in 1..Len(Backends) : OnTarget(Backends[i])'  BY <2>8, <3>2, <3>4
      <4>2. \A w \in ToSet(Writers) : OnTarget(w)'  BY <2>1, <2>3, <2>7 DEF OnTarget, ServicesKnown
      <4>3. \A t \in ManagedSet : OnTarget(t)'  BY <4>1, <4>2, BackendsAreListed
      <4> QED  BY <2>1, <2>2, <2>4, <2>9, <3>1, <3>3, <3>4, <4>3, SMTT(20) DEF ActivatedSoFar
    <3>5. CASE script.at # Len(Backends)
      <4>1. \A i \in 1..(script'.at - 1) : i \in 1..Len(Backends)  BY <2>1, <2>2, <3>5
      <4>2. \A i \in 1..(script'.at - 1) : OnTarget(Backends[i])'  BY <2>8, <3>2, <3>5, <4>1
      <4> QED  BY <2>2, <2>4, <2>9, <3>1, <3>3, <3>5, <4>2 DEF ActivatedSoFar
    <3> QED  BY <3>4, <3>5
  <2>14. UndoneSoFar'
    BY <2>1, <2>2, <2>3, <2>4, <2>5, <2>6, <2>7, <2>8, <2>9, SMTT(20) DEF UndoneSoFar, ReleaseTypes, LoopsInRange, Untouched,
      BackAgain
  <2> QED  BY <2>10, <2>11, <2>12, <2>13, <2>14
<1>9. ASSUME StartWriter PROVE ReleaseInv'
  <2>1. script.pc = "writers" /\ script.at \in 1..Len(Writers) /\ script.at \in Nat \ {0} /\ Len(Writers) \in Nat
    BY <1>9 DEF StartWriter, LoopsInRange
  <2>2. /\ script' \in ScriptRecords
        /\ \/ script.at = Len(Writers) /\ script'.pc = "nginx" /\ script'.at = 1
           \/ script'.pc = "writers" /\ script'.at = script.at + 1 /\ script'.at \in 1..Len(Writers)
    BY <1>9, <2>1, SMTT(20) DEF StartWriter, ScriptRecords
  <2>3. Writers[script.at] \in ManagedSet /\ Writers[script.at] # Backends[1]  BY <1>9, <2>1
  <2>4. /\ services \in [ManagedSet -> ServiceRecords] /\ pointer = transaction.target /\ pointer \in prepared /\ pointer \in ReleaseIds
        /\ loaded[Writers[script.at]] = transaction.target
    BY <1>9, <2>1, <2>3 DEF ReleaseTypes, ActivatedSoFar, ReleaseIds
  <2>5. Started(Writers[script.at]) = [state |-> "up", code |-> transaction.target, unit |-> transaction.target]
        /\ Started(Writers[script.at]).state = "up" /\ Started(Writers[script.at]).code = transaction.target /\ Started(Writers[script.at]).unit = transaction.target
    BY <1>9, <2>4 DEF Started
  <2>6. /\ services' = [services EXCEPT ![Writers[script.at]] = IF services[Writers[script.at]].state = "up" THEN services[Writers[script.at]] ELSE Started(Writers[script.at])]
        /\ attempted' = attempted \cup {Writers[script.at]}
    BY <1>9, <2>1 DEF StartWriter
  <2>7. /\ services' \in [ManagedSet -> ServiceRecords]
        /\ \A t \in ManagedSet : services'[t] = IF t = Writers[script.at] /\ services[t].state # "up" THEN Started(t) ELSE services[t]
    BY <1>9, <2>3, <2>4, <2>5, <2>6 DEF ServiceRecords
  <2>8. /\ script.at = Len(Writers) => \A i \in 1..Len(Writers) : i = script.at \/ i \in 1..(script.at - 1)
        /\ script.at # Len(Writers) => \A i \in 1..(script'.at - 1) : i = script.at \/ i \in 1..(script.at - 1)
    BY <1>9, <2>1, <2>2, SMTT(20)
  <2>9. UNCHANGED <<staging, prepared, pointer, installed, loaded, migrated, transaction, undoFailed, strays>>
    BY <1>9 DEF StartWriter
  <2>10. ReleaseTypes'
    BY <2>1, <2>2, <2>3, <2>4, <2>5, <2>6, <2>7, <2>8, <2>9 DEF ReleaseTypes, ReleaseIds, ServiceRecords,
      ScriptRecords
  <2>11. LoopsInRange'  BY <2>1, <2>2 DEF LoopsInRange
  <2>12. ServicesKnown'
    <3>1. /\ \A t \in ManagedSet : services'[t].state = "up" => services'[t].code \in prepared
          /\ services'[Backends[1]] = Down
      <4>1. /\ \A t \in ManagedSet : services[t].state = "up" => services[t].code \in prepared
            /\ services[Backends[1]] = Down
        BY DEF ServicesKnown
      <4>2. \A t \in ManagedSet : services'[t] = services[t] \/ (t = Writers[script.at] /\ services'[t].code \in prepared)
        BY <2>4, <2>5, <2>7
      <4> QED  BY <2>3, <4>1, <4>2, BackendsAreListed
    <3> QED  BY <2>2, <2>9, <3>1 DEF ServicesKnown
  <2>13. ActivatedSoFar'
    <3>1. /\ transaction.target \in prepared /\ \A x \in ConfigSet : installed[x] = transaction.target
          /\ \A t \in ManagedSet : loaded[t] = transaction.target
          /\ \A t \in ManagedSet : OnTarget(t)
          /\ transaction.target \in migrated
      BY <2>1 DEF ActivatedSoFar
    <3> HIDE ServicesAreListed, DownIsDown
    <3>2. \A t \in ManagedSet : OnTarget(t)'  BY <2>3, <2>5, <2>7, <2>9, <3>1 DEF OnTarget
    <3> QED  BY <2>2, <2>4, <2>9, <3>1, <3>2 DEF ActivatedSoFar
  <2>14. UndoneSoFar'
    BY <2>1, <2>2, <2>3, <2>4, <2>5, <2>6, <2>7, <2>8, <2>9, ZenonT(40) DEF UndoneSoFar, ReleaseTypes, LoopsInRange, Untouched,
      BackAgain
  <2> QED  BY <2>10, <2>11, <2>12, <2>13, <2>14
<1>10. ASSUME ReloadNginx PROVE ReleaseInv'
  <2>1. ReleaseTypes'  BY <1>10 DEF ReloadNginx, ReleaseTypes, ReleaseIds, ServiceRecords, ScriptRecords
  <2>2. LoopsInRange'  BY <1>10 DEF ReloadNginx, LoopsInRange, ReleaseTypes
  <2>3. ServicesKnown'  BY <1>10 DEF ReloadNginx, ServicesKnown, ReleaseTypes, LoopsInRange, ActivatedSoFar
  <2>4. ActivatedSoFar'  BY <1>10 DEF ReloadNginx, ActivatedSoFar, ReleaseTypes, LoopsInRange, OnTarget
  <2>5. UndoneSoFar'  BY <1>10 DEF ReloadNginx, UndoneSoFar, ReleaseTypes, LoopsInRange, Untouched, BackAgain
  <2> QED  BY <2>1, <2>2, <2>3, <2>4, <2>5
<1>11. ASSUME StepFails PROVE ReleaseInv'
  <2>1. /\ script.pc \in Forward \ {"activated"} /\ script'.pc = "undo_stop" /\ script'.at = 1 /\ script' \in ScriptRecords
        /\ services \in [ManagedSet -> ServiceRecords] /\ Down \in ServiceRecords
    BY <1>11 DEF StepFails, ScriptRecords, ReleaseTypes, ServiceRecords, ReleaseIds, Down
  <2>2. \/ UNCHANGED <<services, attempted>>
        \/ \E s \in ManagedSet : attempted' = attempted \cup {s} /\ services' = [services EXCEPT ![s] = Down]
    BY <1>11 DEF StepFails, LoopsInRange
  <2>3. /\ services' \in [ManagedSet -> ServiceRecords] /\ attempted \subseteq attempted'
        /\ \A t \in ManagedSet : services'[t] \in {services[t], Down} /\ (t \notin attempted' => services'[t] = services[t])
    <3>1. CASE UNCHANGED <<services, attempted>>  BY <2>1, <3>1
    <3>2. CASE \E s \in ManagedSet : attempted' = attempted \cup {s} /\ services' = [services EXCEPT ![s] = Down]
      BY <2>1, <3>2
    <3> QED  BY <2>2, <3>1, <3>2
  <2>4. UNCHANGED <<staging, prepared, pointer, installed, loaded, migrated, transaction, undoFailed, strays>>
    BY <1>11 DEF StepFails
  <2>5. ReleaseTypes'  BY <2>1, <2>2, <2>3, <2>4 DEF ReleaseTypes, ReleaseIds, ServiceRecords, ScriptRecords
  <2>6. LoopsInRange'  BY <2>1, <2>2, <2>3, <2>4 DEF LoopsInRange, ReleaseTypes
  <2>7. ServicesKnown'  BY <2>1, <2>2, <2>3, <2>4, ZenonT(40) DEF ServicesKnown, ReleaseTypes, LoopsInRange, ActivatedSoFar
  <2>8. ActivatedSoFar'  BY <2>1, <2>2, <2>3, <2>4 DEF ActivatedSoFar, ReleaseTypes, LoopsInRange, OnTarget
  <2>9. UndoneSoFar'
    <3>1. /\ \A t \in (transaction.active \ strays) \ attempted : Untouched(t)
          /\ transaction.active \ strays \subseteq ManagedSet
      BY <2>1 DEF ReleaseTypes, UndoneSoFar
    <3>2. \A t \in (transaction.active \ strays) \ attempted' : Untouched(t)'  BY <2>3, <2>4, <3>1 DEF Untouched
    <3> QED  BY <2>1, <2>4, <3>2 DEF UndoneSoFar
  <2> QED  BY <2>5, <2>6, <2>7, <2>8, <2>9
<1>12. ASSUME UndoStop PROVE ReleaseInv'
  <2>1. script.pc = "undo_stop" /\ script.at \in 1..Len(Managed) /\ script.at \in Nat \ {0} /\ Len(Managed) \in Nat
    BY <1>12 DEF UndoStop, LoopsInRange
  <2>2. /\ script' \in ScriptRecords
        /\ \/ script.at = Len(Managed) /\ script'.pc = "undo_pointer" /\ script'.at = 1
           \/ script'.pc = "undo_stop" /\ script'.at = script.at + 1 /\ script'.at \in 1..Len(Managed)
    BY <1>12, <2>1 DEF UndoStop, ScriptRecords
  <2>3. Managed[script.at] \in ManagedSet  BY <1>12, <2>1
  <2>4. services \in [ManagedSet -> ServiceRecords] /\ services' = [services EXCEPT ![Managed[script.at]] = IF Managed[script.at] \in attempted THEN Down ELSE services[Managed[script.at]]]
    BY <1>12, <2>1 DEF UndoStop, ReleaseTypes
  <2>5. /\ services' \in [ManagedSet -> ServiceRecords]
        /\ \A t \in ManagedSet : services'[t] = IF t = Managed[script.at] /\ t \in attempted THEN Down ELSE services[t]
    BY <1>12, <2>3, <2>4 DEF ServiceRecords, ReleaseIds, Down
  <2>6. /\ script.at = Len(Managed) => \A i \in 1..Len(Managed) : i = script.at \/ i \in 1..(script.at - 1)
        /\ script.at # Len(Managed) => \A i \in 1..(script'.at - 1) : i = script.at \/ i \in 1..(script.at - 1)
    BY <1>12, <2>1, <2>2
  <2>7. UNCHANGED <<staging, prepared, pointer, installed, loaded, migrated, transaction, attempted, undoFailed, strays>>
    BY <1>12 DEF UndoStop
  <2>8. ReleaseTypes'
    BY <2>1, <2>2, <2>3, <2>4, <2>5, <2>6, <2>7 DEF ReleaseTypes, ReleaseIds, ServiceRecords, ScriptRecords
  <2>9. LoopsInRange'  BY <2>1, <2>2 DEF LoopsInRange
  <2>10. ServicesKnown'
    <3>1. /\ \A t \in ManagedSet : services'[t].state = "up" => services'[t].code \in prepared
          /\ services'[Backends[1]] = Down
      BY <2>5 DEF ServicesKnown
    <3> QED  BY <2>2, <2>7, <3>1 DEF ServicesKnown
  <2>11. ActivatedSoFar'
    BY <2>1, <2>2, <2>3, <2>4, <2>5, <2>6, <2>7 DEF ActivatedSoFar, ReleaseTypes, LoopsInRange, OnTarget
  <2>12. UndoneSoFar'
    <3> DEFINE tracked == transaction.active \ strays
    <3>0. PICK this \in ManagedSet : this = Managed[script.at]  BY <2>3
    <3>1. /\ \A t \in tracked \ attempted : Untouched(t)
          /\ ~undoFailed => \A i \in 1..(script.at - 1) : Managed[i] \in tracked => Untouched(Managed[i])
      BY <2>1 DEF UndoneSoFar
    <3>2. \A t \in ManagedSet : Untouched(t) => Untouched(t)'  BY <2>5, <2>7 DEF Untouched
    <3>3. (this \in tracked => Untouched(this)') /\ tracked \subseteq ManagedSet
      <4>1. this \in attempted => services'[this] = Down  BY <2>5, <3>0
      <4>2. this \in attempted => Untouched(this)'  BY <4>1, <2>7 DEF Untouched, Down
      <4>3. tracked \subseteq ManagedSet  BY DEF ReleaseTypes
      <4> QED  BY <3>1, <3>2, <4>2, <4>3
    <3>4. ~undoFailed => \A i \in 1..Len(Managed) :
             (i = script.at \/ i \in 1..(script.at - 1)) /\ Managed[i] \in tracked => Untouched(Managed[i])'
      <4> SUFFICES ASSUME ~undoFailed, NEW i \in 1..Len(Managed), i = script.at \/ i \in 1..(script.at - 1),
                          Managed[i] \in tracked
                   PROVE  Untouched(Managed[i])'
        OBVIOUS
      <4>1. CASE i = script.at  BY <3>0, <3>3, <4>1
      <4>2. CASE i \in 1..(script.at - 1)  BY <3>1, <3>2, <4>2, ManagedAreListed
      <4> QED  BY <4>1, <4>2
    <3>5. \A t \in tracked \ attempted : Untouched(t)'  BY <3>1, <3>2, <3>3
    <3>6. CASE script.at = Len(Managed)
      <4> HIDE ServicesAreListed, DownIsDown
      <4>1. ~undoFailed => \A t \in tracked : Untouched(t)'  BY <2>6, <3>3, <3>4, <3>6, ManagedAreListed
      <4> QED  BY <2>1, <2>2, <2>7, <3>6, <4>1 DEF UndoneSoFar
    <3>7. CASE script.at # Len(Managed)
      <4>1. \A i \in 1..(script'.at - 1) : i \in 1..Len(Managed)  BY <2>1, <2>2, <3>7
      <4>2. ~undoFailed => \A i \in 1..(script'.at - 1) : Managed[i] \in tracked => Untouched(Managed[i])'
        BY <2>6, <3>4, <3>7, <4>1
      <4> QED  BY <2>2, <2>7, <3>5, <3>7, <4>2 DEF UndoneSoFar
    <3> QED  BY <3>6, <3>7
  <2> QED  BY <2>8, <2>9, <2>10, <2>11, <2>12
<1>13. ASSUME UndoPointer PROVE ReleaseInv'
  <2>1. ReleaseTypes'  BY <1>13 DEF UndoPointer, ReleaseTypes, ReleaseIds, ServiceRecords, ScriptRecords
  <2>2. LoopsInRange'  BY <1>13 DEF UndoPointer, LoopsInRange, ReleaseTypes
  <2>3. ServicesKnown'  BY <1>13 DEF UndoPointer, ServicesKnown, ReleaseTypes, LoopsInRange, ActivatedSoFar
  <2>4. ActivatedSoFar'  BY <1>13 DEF UndoPointer, ActivatedSoFar, ReleaseTypes, LoopsInRange, OnTarget
  <2>5. UndoneSoFar'  BY <1>13 DEF UndoPointer, UndoneSoFar, ReleaseTypes, LoopsInRange, Untouched, BackAgain
  <2> QED  BY <2>1, <2>2, <2>3, <2>4, <2>5
<1>14. ASSUME UndoConfig PROVE ReleaseInv'
  <2>1. script.pc = "undo_configs" /\ script.at \in 1..Len(Configs) /\ script.at \in Nat \ {0} /\ Len(Configs) \in Nat
    BY <1>14 DEF UndoConfig, LoopsInRange
  <2>2. /\ script' \in ScriptRecords
        /\ \/ script.at = Len(Configs) /\ script'.pc = "undo_reload" /\ script'.at = 1
           \/ script'.pc = "undo_configs" /\ script'.at = script.at + 1 /\ script'.at \in 1..Len(Configs)
    BY <1>14, <2>1 DEF UndoConfig, ScriptRecords
  <2>3. Configs[script.at] \in ConfigSet /\ installed \in [ConfigSet -> ReleaseIds] /\ transaction.saved \in [ConfigSet -> ReleaseIds] /\ installed' = [installed EXCEPT ![Configs[script.at]] = transaction.saved[Configs[script.at]]]
    BY <1>14, <2>1 DEF UndoConfig, ReleaseTypes
  <2>4. /\ installed' \in [ConfigSet -> ReleaseIds]
        /\ \A c \in ConfigSet : installed'[c] = IF c = Configs[script.at] THEN transaction.saved[c] ELSE installed[c]
    BY <1>14, <2>3
  <2>5. /\ script.at = Len(Configs) => \A i \in 1..Len(Configs) : i = script.at \/ i \in 1..(script.at - 1)
        /\ script.at # Len(Configs) => \A i \in 1..(script'.at - 1) : i = script.at \/ i \in 1..(script.at - 1)
    BY <1>14, <2>1, <2>2
  <2>6. UNCHANGED <<staging, prepared, pointer, loaded, services, migrated, transaction, attempted, undoFailed, strays>>
    BY <1>14 DEF UndoConfig
  <2>7. ReleaseTypes'
    BY <2>1, <2>2, <2>3, <2>4, <2>5, <2>6 DEF ReleaseTypes, ReleaseIds, ServiceRecords, ScriptRecords
  <2>8. LoopsInRange'  BY <2>1, <2>2 DEF LoopsInRange
  <2>9. ServicesKnown'
    BY <2>1, <2>2, <2>3, <2>4, <2>5, <2>6 DEF ServicesKnown, ReleaseTypes, LoopsInRange, ActivatedSoFar
  <2>10. ActivatedSoFar'
    BY <2>1, <2>2, <2>3, <2>4, <2>5, <2>6 DEF ActivatedSoFar, ReleaseTypes, LoopsInRange, OnTarget
  <2>11. UndoneSoFar'
    <3> DEFINE tracked == transaction.active \ strays
    <3>1. ~undoFailed => /\ \A t \in tracked : Untouched(t)
                         /\ pointer = transaction.previous
                         /\ \A i \in 1..(script.at - 1) : installed[Configs[i]] = transaction.saved[Configs[i]]
      BY <2>1 DEF UndoneSoFar
    <3>2. (\A t : Untouched(t)' <=> Untouched(t)) /\ tracked' = tracked  BY <2>6 DEF Untouched
    <3>3. ~undoFailed => \A i \in 1..Len(Configs) :
             (i = script.at \/ i \in 1..(script.at - 1)) => installed'[Configs[i]] = transaction.saved[Configs[i]]
      BY <2>4, <3>1
    <3>4. CASE script.at = Len(Configs)
      <4> HIDE ServicesAreListed, DownIsDown
      <4>1. ~undoFailed => \A x \in ConfigSet : installed'[x] = transaction.saved[x]
        BY <2>5, <3>3, <3>4, ConfigsAreListed
      <4> QED  BY <2>1, <2>2, <2>6, <3>1, <3>2, <3>4, <4>1 DEF UndoneSoFar
    <3>5. CASE script.at # Len(Configs)
      <4>1. \A i \in 1..(script'.at - 1) : i \in 1..Len(Configs)  BY <2>1, <2>2, <3>5
      <4>2. ~undoFailed => \A i \in 1..(script'.at - 1) : installed'[Configs[i]] = transaction.saved[Configs[i]]
        BY <2>5, <3>3, <3>5, <4>1
      <4> QED  BY <2>2, <2>6, <3>1, <3>2, <3>5, <4>2 DEF UndoneSoFar
    <3> QED  BY <3>4, <3>5
  <2> QED  BY <2>7, <2>8, <2>9, <2>10, <2>11
<1>15. ASSUME UndoReload PROVE ReleaseInv'
  <2>1. script.pc = "undo_reload" /\ script'.pc = "undo_start" /\ script'.at = 1 /\ script' \in ScriptRecords /\ loaded' = [c \in ConfigSet |-> IF c = "vhost" THEN loaded[c] ELSE installed[c]]
    BY <1>15 DEF UndoReload, ScriptRecords, Reloaded, ConfigSet
  <2>2. loaded \in [ConfigSet -> ReleaseIds] /\ installed \in [ConfigSet -> ReleaseIds] /\ \A s \in ManagedSet : s \in ConfigSet /\ s # "vhost"
    BY <1>15 DEF ReleaseTypes
  <2>3. loaded' \in [ConfigSet -> ReleaseIds] /\ (\A s \in ManagedSet : loaded'[s] = installed[s]) /\ loaded'["vhost"] = loaded["vhost"]
    BY <1>15, <2>1, <2>2
  <2>4. UNCHANGED <<staging, prepared, pointer, installed, services, migrated, transaction, attempted, undoFailed, strays>>
    BY <1>15 DEF UndoReload
  <2>5. ReleaseTypes'  BY <2>1, <2>2, <2>3, <2>4 DEF ReleaseTypes, ReleaseIds, ServiceRecords, ScriptRecords
  <2>6. LoopsInRange'  BY <2>1, <2>2, <2>3, <2>4 DEF LoopsInRange, ReleaseTypes
  <2>7. ServicesKnown'  BY <2>1, <2>2, <2>3, <2>4 DEF ServicesKnown, ReleaseTypes, LoopsInRange, ActivatedSoFar
  <2>8. ActivatedSoFar'  BY <2>1, <2>2, <2>3, <2>4 DEF ActivatedSoFar, ReleaseTypes, LoopsInRange, OnTarget
  <2>9. UndoneSoFar'  BY <2>1, <2>2, <2>3, <2>4 DEF UndoneSoFar, ReleaseTypes, LoopsInRange, Untouched, BackAgain
  <2> QED  BY <2>5, <2>6, <2>7, <2>8, <2>9
<1>16. ASSUME UndoStart PROVE ReleaseInv'
  <2>1. script.pc = "undo_start" /\ script.at \in 1..Len(Managed) /\ script.at \in Nat \ {0} /\ Len(Managed) \in Nat
    BY <1>16 DEF UndoStart, LoopsInRange
  <2>2. /\ script' \in ScriptRecords
        /\ \/ script.at = Len(Managed) /\ script'.pc = "undo_nginx" /\ script'.at = 1
           \/ script'.pc = "undo_start" /\ script'.at = script.at + 1 /\ script'.at \in 1..Len(Managed)
    BY <1>16, <2>1 DEF UndoStart, ScriptRecords
  <2>3. Managed[script.at] \in ManagedSet /\ services \in [ManagedSet -> ServiceRecords] /\ loaded \in [ConfigSet -> ReleaseIds] /\ pointer \in prepared \cup {"none"} /\ prepared \subseteq Releases /\ Managed[script.at] \in ConfigSet
    BY <1>16, <2>1 DEF ReleaseTypes
  <2>4. services' = IF Managed[script.at] \in transaction.active /\ services[Managed[script.at]].state # "up" /\ Startable(Managed[script.at]) THEN [services EXCEPT ![Managed[script.at]] = Started(Managed[script.at])] ELSE services
    BY <1>16, <2>1 DEF UndoStart
  <2>5. undoFailed' = (undoFailed \/ (Managed[script.at] \in transaction.active /\ services[Managed[script.at]].state # "up" /\ ~Startable(Managed[script.at])))
    BY <1>16, <2>1 DEF UndoStart
  <2>6. Startable(Managed[script.at]) => Started(Managed[script.at]) \in ServiceRecords /\ pointer \in prepared
    BY <1>16, <2>3 DEF Started, Startable, ServiceRecords, ReleaseIds
  <2>7. /\ services' \in [ManagedSet -> ServiceRecords]
        /\ \A t \in ManagedSet : services'[t] = IF t = Managed[script.at] /\ t \in transaction.active /\ services[t].state # "up" /\ Startable(t) THEN Started(t) ELSE services[t]
    BY <1>16, <2>3, <2>4, <2>6
  <2>8. Backends[1] \notin transaction.active  BY <1>16 DEF ServicesKnown
  <2>9. \A t : Started(t).state = "up" /\ Started(t).code = pointer /\ Started(t) = [state |-> "up", code |-> pointer, unit |-> loaded[t]]
    BY <1>16 DEF Started
  <2>10. /\ script.at = Len(Managed) => \A i \in 1..Len(Managed) : i = script.at \/ i \in 1..(script.at - 1)
        /\ script.at # Len(Managed) => \A i \in 1..(script'.at - 1) : i = script.at \/ i \in 1..(script.at - 1)
    BY <1>16, <2>1, <2>2
  <2>11. UNCHANGED <<staging, prepared, pointer, installed, loaded, migrated, transaction, attempted, strays>>
    BY <1>16 DEF UndoStart
  <2>12. ReleaseTypes'
    BY <2>1, <2>2, <2>3, <2>4, <2>5, <2>6, <2>7, <2>8, <2>9, <2>10, <2>11 DEF ReleaseTypes, ReleaseIds,
      ServiceRecords, ScriptRecords
  <2>13. LoopsInRange'  BY <2>1, <2>2 DEF LoopsInRange
  <2>14. ServicesKnown'
    <3>1. /\ \A t \in ManagedSet : services'[t].state = "up" => services'[t].code \in prepared
          /\ services'[Backends[1]] = Down
      <4>1. /\ \A t \in ManagedSet : services[t].state = "up" => services[t].code \in prepared
            /\ services[Backends[1]] = Down
        BY DEF ServicesKnown
      <4>2. \A t \in ManagedSet : services'[t] = services[t] \/ (t \in transaction.active /\ services'[t].code \in prepared)
        <5> SUFFICES ASSUME NEW t \in ManagedSet, services'[t] # services[t]
                     PROVE  t \in transaction.active /\ services'[t].code \in prepared
          OBVIOUS
        <5>1. t = Managed[script.at] /\ t \in transaction.active /\ Startable(t) /\ services'[t] = Started(t)  BY <2>7
        <5> QED  BY <2>6, <2>9, <5>1
      <4> QED  BY <2>8, <4>1, <4>2, BackendsAreListed
    <3> QED  BY <2>2, <2>8, <2>11, <3>1 DEF ServicesKnown
  <2>15. ActivatedSoFar'
    BY <2>1, <2>2, <2>3, <2>4, <2>5, <2>6, <2>7, <2>8, <2>9, <2>10, <2>11 DEF ActivatedSoFar, ReleaseTypes,
      LoopsInRange, OnTarget
  <2>16. UndoneSoFar'
    <3> DEFINE tracked == transaction.active \ strays
    <3>0. PICK this \in ManagedSet : this = Managed[script.at]  BY <2>3
    <3>1. /\ tracked \subseteq ManagedSet /\ this \in ManagedSet
          /\ ~undoFailed => /\ \A i \in 1..(script.at - 1) : Managed[i] \in tracked => BackAgain(Managed[i])
                            /\ \A t \in tracked : Untouched(t) \/ BackAgain(t)
                            /\ pointer = transaction.previous
                            /\ \A x \in ConfigSet : installed[x] = transaction.saved[x]
                            /\ \A t \in ManagedSet : loaded[t] = transaction.saved[t]
      BY <2>1, <3>0 DEF ReleaseTypes, UndoneSoFar
    <3>2. \A t \in ManagedSet \ {this} : (Untouched(t) => Untouched(t)') /\ (BackAgain(t) => BackAgain(t)')
      BY <2>7, <2>11, <3>0 DEF Untouched, BackAgain
    <3>3. ~undoFailed' => ~undoFailed  BY <2>5
    <3>4. ~undoFailed' /\ this \in tracked => BackAgain(this)'
      <4> SUFFICES ASSUME ~undoFailed', this \in tracked PROVE BackAgain(this)'  OBVIOUS
      <4>1. ~undoFailed /\ this \in transaction.active /\ (services[this].state = "up" \/ Startable(this))
        BY <2>5, <3>0
      <4>2. CASE services[this].state = "up"
        <5>1. services'[this] = services[this]  BY <2>7, <3>0, <4>2
        <5>2. Untouched(this) \/ BackAgain(this)  BY <3>1, <4>1
        <5>3. BackAgain(this)  BY <4>2, <5>2 DEF Untouched, BackAgain
        <5> QED  BY <2>11, <5>1, <5>3 DEF BackAgain
      <4>3. CASE services[this].state # "up"
        <5>1. services'[this] = [state |-> "up", code |-> pointer, unit |-> loaded[this]]
          BY <2>7, <2>9, <3>0, <4>1, <4>3
        <5>2. pointer = transaction'.previous /\ loaded[this] = transaction'.saved[this]  BY <2>11, <3>1, <4>1
        <5>3. services'[this] = [state |-> "up", code |-> transaction'.previous, unit |-> transaction'.saved[this]]
          BY <5>1, <5>2
        <5> QED  BY <5>3 DEF BackAgain
      <4> QED  BY <4>2, <4>3
    <3>5. ~undoFailed' => \A t \in tracked : (Untouched(t) \/ BackAgain(t))'
      <4>1. ~undoFailed' => \A t \in tracked \ {this} : (Untouched(t) \/ BackAgain(t))'  BY <3>1, <3>2, <3>3
      <4> QED  BY <3>4, <4>1
    <3>6. ~undoFailed' => \A i \in 1..Len(Managed) :
             (i = script.at \/ i \in 1..(script.at - 1)) /\ Managed[i] \in tracked => BackAgain(Managed[i])'
      <4> SUFFICES ASSUME ~undoFailed', NEW i \in 1..Len(Managed), i = script.at \/ i \in 1..(script.at - 1),
                          Managed[i] \in tracked
                   PROVE  BackAgain(Managed[i])'
        OBVIOUS
      <4>1. CASE Managed[i] = this  BY <3>4, <4>1
      <4>2. CASE Managed[i] # this
        <5>1. Managed[i] \in ManagedSet \ {this} /\ i \in 1..(script.at - 1) /\ ~undoFailed
          BY <3>0, <3>3, <4>2, ManagedAreListed
        <5>2. BackAgain(Managed[i])  BY <3>1, <5>1
        <5> QED  BY <3>2, <5>1, <5>2
      <4> QED  BY <4>1, <4>2
    <3>7. CASE script.at = Len(Managed)
      <4> HIDE ServicesAreListed, DownIsDown
      <4>1. ~undoFailed' => \A t \in tracked : BackAgain(t)'  BY <2>10, <3>1, <3>6, <3>7, ManagedAreListed
      <4> QED  BY <2>1, <2>2, <2>11, <3>1, <3>3, <3>7, <4>1 DEF UndoneSoFar
    <3>8. CASE script.at # Len(Managed)
      <4>1. \A i \in 1..(script'.at - 1) : i \in 1..Len(Managed)  BY <2>1, <2>2, <3>8
      <4>2. ~undoFailed' => \A i \in 1..(script'.at - 1) : Managed[i] \in tracked => BackAgain(Managed[i])'
        BY <2>10, <3>6, <3>8, <4>1
      <4> QED  BY <2>2, <2>11, <3>1, <3>3, <3>5, <3>8, <4>2 DEF UndoneSoFar
    <3> QED  BY <3>7, <3>8
  <2> QED  BY <2>12, <2>13, <2>14, <2>15, <2>16
<1>17. ASSUME UndoNginx PROVE ReleaseInv'
  <2>1. ReleaseTypes'  BY <1>17 DEF UndoNginx, ReleaseTypes, ReleaseIds, ServiceRecords, ScriptRecords
  <2>2. LoopsInRange'  BY <1>17 DEF UndoNginx, LoopsInRange, ReleaseTypes
  <2>3. ServicesKnown'  BY <1>17 DEF UndoNginx, ServicesKnown, ReleaseTypes, LoopsInRange, ActivatedSoFar
  <2>4. ActivatedSoFar'  BY <1>17 DEF UndoNginx, ActivatedSoFar, ReleaseTypes, LoopsInRange, OnTarget
  <2>5. UndoneSoFar'  BY <1>17 DEF UndoNginx, UndoneSoFar, ReleaseTypes, LoopsInRange, Untouched, BackAgain
  <2> QED  BY <2>1, <2>2, <2>3, <2>4, <2>5
<1>18. ASSUME UndoFails PROVE ReleaseInv'
  <2>1. ReleaseTypes'  BY <1>18 DEF UndoFails, ReleaseTypes, ReleaseIds, ServiceRecords, ScriptRecords
  <2>2. LoopsInRange'  BY <1>18, SMTT(20) DEF UndoFails, LoopsInRange, ReleaseTypes
  <2>3. ServicesKnown'  BY <1>18, SMTT(20) DEF UndoFails, ServicesKnown, ReleaseTypes, LoopsInRange, ActivatedSoFar
  <2>4. ActivatedSoFar'  BY <1>18 DEF UndoFails, ActivatedSoFar, ReleaseTypes, LoopsInRange, OnTarget
  <2>5. UndoneSoFar'  BY <1>18, SMTT(20) DEF UndoFails, UndoneSoFar, ReleaseTypes, LoopsInRange, Untouched, BackAgain
  <2> QED  BY <2>1, <2>2, <2>3, <2>4, <2>5
<1>19. ASSUME KillScript PROVE ReleaseInv'
  <2>1. ReleaseTypes'  BY <1>19 DEF KillScript, ReleaseTypes, ReleaseIds, ServiceRecords, ScriptRecords
  <2>2. LoopsInRange'  BY <1>19 DEF KillScript, LoopsInRange, ReleaseTypes
  <2>3. ServicesKnown'  BY <1>19 DEF KillScript, ServicesKnown, ReleaseTypes, LoopsInRange, ActivatedSoFar
  <2>4. ActivatedSoFar'  BY <1>19 DEF KillScript, ActivatedSoFar, ReleaseTypes, LoopsInRange, OnTarget
  <2>5. UndoneSoFar'
    <3>1. UNCHANGED <<pointer, installed, loaded, services, transaction, attempted, undoFailed, strays>>
          /\ (script'.pc = "killed" \/ script' = script)
      BY <1>19 DEF KillScript
    <3>2. CASE script' = script
      <4>1. UndoneSoFar' <=> UndoneSoFar  BY <3>1, <3>2 DEF UndoneSoFar, Untouched, BackAgain
      <4> QED  BY <4>1
    <3>3. CASE script'.pc = "killed"  BY <3>3 DEF UndoneSoFar
    <3> QED  BY <3>1, <3>2, <3>3
  <2> QED  BY <2>1, <2>2, <2>3, <2>4, <2>5
<1>20. ASSUME NEW s \in ManagedSet, ServiceDies(s) PROVE ReleaseInv'
  <2>1. services \in [ManagedSet -> ServiceRecords] /\ services[s].state = "up" /\ services' = [services EXCEPT ![s] = [state |-> "restarting", code |-> "none", unit |-> "none"]]
    BY <1>20 DEF ServiceDies, ReleaseTypes
  <2>2. /\ services' \in [ManagedSet -> ServiceRecords]
        /\ \A t \in ManagedSet : services'[t] = IF t = s THEN [state |-> "restarting", code |-> "none", unit |-> "none"] ELSE services[t]
    BY <1>20, <2>1 DEF ServiceRecords, ReleaseIds
  <2>3. s # Backends[1]  BY <1>20, <2>1 DEF ServicesKnown, Down
  <2>4. UNCHANGED <<staging, prepared, pointer, installed, loaded, migrated, script, transaction, attempted, undoFailed, strays>>
    BY <1>20 DEF ServiceDies
  <2>5. ReleaseTypes'  BY <2>1, <2>2, <2>3, <2>4 DEF ReleaseTypes, ReleaseIds, ServiceRecords, ScriptRecords
  <2>6. LoopsInRange'  BY <2>1, <2>2, <2>3, <2>4 DEF LoopsInRange, ReleaseTypes
  <2>7. ServicesKnown'  BY <2>1, <2>2, <2>3, <2>4 DEF ServicesKnown, ReleaseTypes, LoopsInRange, ActivatedSoFar
  <2>8. ActivatedSoFar'
    <3>1. ASSUME NEW t \in ManagedSet, OnTarget(t) PROVE OnTarget(t)'
      <4>1. transaction' = transaction /\ (services'[t] = services[t] \/ services'[t].state = "restarting")  BY <2>2, <2>4
      <4>2. CASE services'[t] = services[t]  BY <3>1, <4>1, <4>2 DEF OnTarget
      <4>3. CASE services'[t].state = "restarting"  BY <4>3 DEF OnTarget
      <4> QED  BY <4>1, <4>2, <4>3
    <3>2. script.pc = "backends" => \A i \in 1..(script.at - 1) : Backends[i] \in ManagedSet
      <4> SUFFICES ASSUME script.pc = "backends", NEW i \in 1..(script.at - 1) PROVE Backends[i] \in ManagedSet
        OBVIOUS
      <4>1. i \in 1..Len(Backends)  BY DEF LoopsInRange
      <4> QED  BY <4>1
    <3> QED  BY <2>4, <3>1, <3>2 DEF ActivatedSoFar
  <2>9. UndoneSoFar'  BY <2>1, <2>2, <2>3, <2>4 DEF UndoneSoFar, ReleaseTypes, LoopsInRange, Untouched, BackAgain
  <2> QED  BY <2>5, <2>6, <2>7, <2>8, <2>9
<1>21. ASSUME NEW s \in ManagedSet, ServiceRestarts(s) PROVE ReleaseInv'
  <2>1. /\ services \in [ManagedSet -> ServiceRecords] /\ services[s].state = "restarting" /\ loaded \in [ConfigSet -> ReleaseIds] /\ s \in ConfigSet
        /\ pointer \in prepared \cup {"none"} /\ prepared \subseteq Releases
    BY <1>21 DEF ServiceRestarts, ReleaseTypes
  <2>2. services' = [services EXCEPT ![s] = IF Startable(s) THEN Started(s) ELSE Down]  BY <1>21 DEF ServiceRestarts
  <2>3. strays' = IF script.pc \in {"idle", "activated", "rolledback"} THEN strays ELSE strays \cup {s}
    BY <1>21 DEF ServiceRestarts
  <2>4. (IF Startable(s) THEN Started(s) ELSE Down) \in ServiceRecords
    BY <1>21, <2>1 DEF Started, Startable, ServiceRecords, ReleaseIds, Down
  <2>5. /\ services' \in [ManagedSet -> ServiceRecords]
        /\ \A t \in ManagedSet : services'[t] = IF t = s THEN IF Startable(s) THEN Started(s) ELSE Down ELSE services[t]
    BY <1>21, <2>1, <2>2, <2>4
  <2>6. s # Backends[1]  BY <1>21, <2>1 DEF ServicesKnown, Down
  <2>7. Started(s) = [state |-> "up", code |-> pointer, unit |-> loaded[s]] /\ Started(s).state = "up" /\ Started(s).code = pointer /\ Started(s).unit = loaded[s] /\ (Startable(s) <=> pointer # "none" /\ loaded[s] # "none")
    BY <1>21 DEF Started, Startable
  <2>8. UNCHANGED <<staging, prepared, pointer, installed, loaded, migrated, script, transaction, attempted, undoFailed>>
    BY <1>21 DEF ServiceRestarts
  <2>9. ReleaseTypes'
    BY <2>1, <2>2, <2>3, <2>4, <2>5, <2>6, <2>7, <2>8 DEF ReleaseTypes, ReleaseIds, ServiceRecords, ScriptRecords
  <2>10. LoopsInRange'  BY <2>1, <2>2, <2>3, <2>4, <2>5, <2>6, <2>7, <2>8 DEF LoopsInRange, ReleaseTypes
  <2>11. ServicesKnown'
    <3>1. \A t \in ManagedSet : services[t].state = "down" => services'[t] = services[t]  BY <2>1, <2>5
    <3>2. \A t \in ManagedSet : services'[t].state = "up" => services'[t].code \in prepared
      BY <2>1, <2>5, <2>7 DEF ServicesKnown
    <3>3. services'[Backends[1]] = Down  BY <2>5, <2>6 DEF ServicesKnown
    <3>4. script'.pc = "stop" => \A i \in 1..(script'.at - 1) : services'[Writers[i]].state = "down"
      <4>1. script.pc = "stop" => \A i \in 1..(script.at - 1) : i \in 1..Len(Writers) /\ services[Writers[i]].state = "down"
        BY DEF ServicesKnown, LoopsInRange
      <4>2. script.pc = "stop" => \A i \in 1..(script.at - 1) : services'[Writers[i]].state = "down"
        BY <3>1, <4>1, WritersAreListed
      <4> QED  BY <2>8, <4>2
    <3>5. script'.pc \in {"install", "reload", "swap", "backends"} => \A w \in ToSet(Writers) : services'[w].state = "down"
      BY <2>8, <3>1, WritersAreListed DEF ServicesKnown
    <3> QED  BY <2>8, <3>2, <3>3, <3>4, <3>5 DEF ServicesKnown
  <2>12. ActivatedSoFar'
    <3>1. \A t \in ManagedSet \ {s} : OnTarget(t) => OnTarget(t)'  BY <2>5, <2>8 DEF OnTarget
    <3>2. pointer = transaction.target /\ loaded[s] = transaction.target => OnTarget(s)'
      BY <2>5, <2>7, <2>8 DEF OnTarget
    <3>3. script.pc \in Swapped => pointer = transaction.target /\ loaded[s] = transaction.target
      BY DEF ActivatedSoFar
    <3>4. script.pc \in Swapped => \A t \in ManagedSet : OnTarget(t) => OnTarget(t)'  BY <3>1, <3>2, <3>3
    <3>5. script.pc = "backends" => \A i \in 1..(script.at - 1) : Backends[i] \in ManagedSet
      <4> SUFFICES ASSUME script.pc = "backends", NEW i \in 1..(script.at - 1) PROVE Backends[i] \in ManagedSet
        OBVIOUS
      <4>1. i \in 1..Len(Backends)  BY DEF LoopsInRange
      <4> QED  BY <4>1
    <3> QED  BY <2>8, <3>4, <3>5 DEF ActivatedSoFar
  <2>13. UndoneSoFar'
    <3> DEFINE tracked == transaction.active \ strays
    <3>1. \A t \in ManagedSet \ {s} : (Untouched(t) => Untouched(t)') /\ (BackAgain(t) => BackAgain(t)')
      BY <2>5, <2>8 DEF Untouched, BackAgain
    <3>2. tracked \subseteq ManagedSet  BY DEF ReleaseTypes
    <3>3. CASE script.pc \in {"idle", "activated"}
      <4>1. script'.pc \in {"idle", "activated"}  BY <2>8, <3>3
      <4> QED  BY <4>1 DEF UndoneSoFar
    <3>4. CASE script.pc = "rolledback"
      <4>1. ~undoFailed => /\ \A t \in tracked : BackAgain(t)
                           /\ pointer = transaction.previous /\ \A t \in ManagedSet : loaded[t] = transaction.saved[t]
        BY <3>4 DEF UndoneSoFar
      <4>2. ~undoFailed => BackAgain(s)'  BY <2>5, <2>7, <2>8, <4>1 DEF BackAgain
      <4>3. ~undoFailed => \A t \in tracked : BackAgain(t)'  BY <3>1, <3>2, <4>1, <4>2
      <4> QED  BY <2>3, <2>8, <3>4, <4>1, <4>3 DEF UndoneSoFar
    <3>5. CASE script.pc \notin {"idle", "activated", "rolledback"}
      <4>1. tracked' \subseteq tracked /\ s \notin tracked'  BY <2>3, <2>8, <3>5
      <4>2. \A t \in tracked' : t \in tracked /\ (Untouched(t) => Untouched(t)') /\ (BackAgain(t) => BackAgain(t)')
        BY <3>1, <3>2, <4>1
      <4> QED  BY <2>8, <4>2 DEF UndoneSoFar
    <3> QED  BY <3>3, <3>4, <3>5
  <2> QED  BY <2>9, <2>10, <2>11, <2>12, <2>13
<1> QED  BY <1>1, <1>2, <1>3, <1>4, <1>5, <1>6, <1>7, <1>8, <1>9, <1>10, <1>11, <1>12, <1>13, <1>14, <1>15, <1>16,
            <1>17, <1>18, <1>19, <1>20, <1>21 DEF ReleaseNext, ActivationStep

LEMMA ReleaseInitInv == ReleaseInit => ReleaseInv
<1> SUFFICES ASSUME ReleaseInit PROVE ReleaseInv  OBVIOUS
<1> USE DEF ReleaseInit, NowActive, Starting, Swapped, UnitsReloaded, Exchanged, Forward, StartsUndone, UnitsUndone,
            ConfigsUndone, PointerUndone
<1>1. FirstRelease \in ReleaseIds /\ "none" \notin Releases  BY ReleaseActivationAssumption DEF ReleaseIds
<1>2. services \in [ManagedSet -> ServiceRecords]
      /\ \A s \in ManagedSet : services[s] = Down \/ (services[s].code = FirstRelease /\ FirstRelease # "none")
  BY <1>1 DEF ServiceRecords, ReleaseIds, Down
<1>3. services[Backends[1]] = Down  BY BackendsAreListed
<1>4. ReleaseTypes
  <2>1. installed \in [ConfigSet -> ReleaseIds] /\ loaded \in [ConfigSet -> ReleaseIds]  BY <1>1 DEF ConfigSet
  <2>2. /\ staging \subseteq Releases /\ prepared \subseteq Releases /\ pointer \in prepared \cup {"none"}
        /\ undoFailed \in BOOLEAN
    BY <1>1 DEF ReleaseIds
  <2>3. script \in ScriptRecords  BY DEF ScriptRecords
  <2>4. /\ transaction.saved = installed /\ transaction.before = services
        /\ transaction.previous = "none" /\ transaction.active = {}
    OBVIOUS
  <2> QED  BY <1>2, <2>1, <2>2, <2>3, <2>4 DEF ReleaseTypes
<1>5. LoopsInRange /\ ActivatedSoFar /\ UndoneSoFar  BY DEF LoopsInRange, ActivatedSoFar, UndoneSoFar
<1>6. ServicesKnown  BY <1>2, <1>3, DownIsDown DEF ServicesKnown
<1> QED  BY <1>4, <1>5, <1>6 DEF ReleaseInv

\* A release is put into service whole or not at all: the pointer always names
\* a complete release, no writer is up while units are exchanged and migrations
\* run, an activation leaves one release everywhere, and a rollback that reports
\* no failure leaves what there was (prepare-release.sh, activate-release.sh),
\* for any services, however many commands fail, services die and scripts are
\* killed.
THEOREM ReleaseSound == ReleaseSpec => []ReleaseIsSafe
<1>1. ReleaseInv /\ [ReleaseNext]_releaseVars => ReleaseInv'
  <2> SUFFICES ASSUME ReleaseInv, [ReleaseNext]_releaseVars PROVE ReleaseInv'  OBVIOUS
  <2>1. CASE ReleaseNext  BY <2>1, ReleaseStepInv
  <2>2. CASE UNCHANGED releaseVars
    <3>1. /\ ReleaseTypes' <=> ReleaseTypes
          /\ LoopsInRange' <=> LoopsInRange
          /\ ServicesKnown' <=> ServicesKnown
      BY <2>2 DEF releaseVars, world, progress, ReleaseTypes, LoopsInRange, ServicesKnown
    <3>2. ActivatedSoFar' <=> ActivatedSoFar  BY <2>2 DEF releaseVars, world, progress, ActivatedSoFar, OnTarget
    <3>3. UndoneSoFar' <=> UndoneSoFar  BY <2>2 DEF releaseVars, world, progress, UndoneSoFar, Untouched, BackAgain
    <3> QED  BY <3>1, <3>2, <3>3 DEF ReleaseInv
  <2> QED  BY <2>1, <2>2
<1>2. ReleaseInv => ReleaseIsSafe
  <2> SUFFICES ASSUME ReleaseInv PROVE ReleaseIsSafe  OBVIOUS
  <2> USE DEF NowActive, Starting, Swapped, UnitsReloaded, Exchanged, Forward, StartsUndone, UnitsUndone, ConfigsUndone,
              PointerUndone
  <2>1. PointerIsComplete  BY DEF ReleaseInv, ReleaseTypes, ServicesKnown, PointerIsComplete
  <2>2. NoWriterMeanwhile  BY DEF ReleaseInv, ServicesKnown, NoWriterMeanwhile
  <2>3. ActivatedIsUniform
    <3> SUFFICES ASSUME script.pc = "activated" PROVE ActivatedIsUniform  BY DEF ActivatedIsUniform
    <3>1. /\ \A c \in ConfigSet : installed[c] = transaction.target
          /\ \A s \in ManagedSet : loaded[s] = transaction.target /\ OnTarget(s)
          /\ pointer = transaction.target /\ transaction.target \in migrated
          /\ loaded["vhost"] = transaction.target
      BY DEF ReleaseInv, ActivatedSoFar
    <3>2. \A c \in ConfigSet : loaded[c] = transaction.target  BY <3>1, ServicesAreListed
    <3> QED  BY <3>1, <3>2 DEF ActivatedIsUniform, OnTarget, ConfigSet
  <2>4. RolledBackIsPrevious
    <3> SUFFICES ASSUME script.pc = "rolledback", ~undoFailed PROVE RolledBackIsPrevious  BY DEF RolledBackIsPrevious
    <3>1. /\ \A c \in ConfigSet : installed[c] = transaction.saved[c]
          /\ \A s \in ManagedSet : loaded[s] = transaction.saved[s]
          /\ \A s \in transaction.active \ strays : BackAgain(s)
          /\ pointer = transaction.previous /\ loaded["vhost"] = transaction.saved["vhost"]
      BY DEF ReleaseInv, UndoneSoFar
    <3>2. \A c \in ConfigSet : loaded[c] = transaction.saved[c]  BY <3>1, ServicesAreListed
    <3>3. installed = transaction.saved  BY <3>1 DEF ReleaseInv, ReleaseTypes
    <3> QED  BY <3>1, <3>2, <3>3 DEF RolledBackIsPrevious, BackAgain, ConfigSet
  <2> QED  BY <2>1, <2>2, <2>3, <2>4 DEF ReleaseIsSafe
<1> QED  BY ReleaseInitInv, <1>1, <1>2, PTL DEF ReleaseSpec

\* Whatever fails, dies or is killed on the way, a release and a version of the
\* agent are in service as a whole, for any services, units and assets
\* (activate-release.sh, install-systemd-assets.sh, deploy-release.sh).
THEOREM ReleasesSafe == ReleaseSpec /\ AgentDeploySpec => []ReleasesAreSafe
<1>1. ReleaseIsSafe /\ AgentDeployIsSafe => ReleasesAreSafe  BY DEF ReleasesAreSafe
<1> QED  BY <1>1, ReleaseSound, AgentDeploySound, PTL

-----
(* The pages of the database explorer. *)
Sorts == {NoSort} \cup [column : {"value"}, direction : {"asc", "desc"}]

\* The rows nobody wrote since the walk began: those it asks for, and those it got.
Wanted(w) == {id \in RowIds \ walk[w].touched : Selected(id, walk[w].filter)}
KeptAt(w) == {i \in DOMAIN walk[w].got : walk[w].got[i] \notin walk[w].touched}
Kept(w)   == {walk[w].got[i] : i \in KeptAt(w)}

Shape(v) ==
    v \in [pc : {v.pc}, sort : {v.sort}, filter : {v.filter}, refExpires : {v.refExpires}, snapshot : {v.snapshot},
           cursor : {v.cursor}, got : {v.got}, seen : {v.seen}, touched : {v.touched}]

RowTypes == keyed \in BOOLEAN /\ rows \in [RowIds -> SortValues \cup {Null, Absent}]

WalkTypes(w) ==
    /\ walk[w].pc \in {"idle", "schema", "loading", "check", "query", "shown", "failed", "ended"}
    /\ walk[w].sort \in Sorts
    /\ walk[w].filter.op \in {"all", "eq"} /\ walk[w].filter.value # Absent
    /\ walk[w].got \in Seq(RowIds) /\ walk[w].seen \subseteq {ApprovedSchema}
    /\ walk[w].pc = "idle" => walk[w] = NoWalk
    /\ walk[w].pc = "query" => walk[w].snapshot = ApprovedSchema

\* The keys of a cursor, as it is opened.
KeysFit(keys, sort) ==
    /\ keyed /\ DOMAIN keys = DOMAIN OrderColumns(sort)
    /\ \A i \in DOMAIN keys :
          /\ keys[i].column = OrderColumns(sort)[i]
          /\ keys[i].value \in Nat \cup (IF keys[i].column = "id" THEN {} ELSE {Null})

\* What the cursor says of the rows that came.
CursorTypes(w) ==
    LET c == walk[w].cursor
    IN  /\ c.kind \in {"none", IF keyed THEN "keyset" ELSE "offset"}
        /\ c.kind = "none" /\ walk[w].pc # "ended" => walk[w].got = <<>>
        /\ c.kind = "offset" => c.offset = Len(walk[w].got) /\ Len(walk[w].got) <= MaxOffset
        /\ ~keyed => Len(walk[w].got) <= MaxOffset + PageLimit
        /\ c.kind = "keyset" =>
              /\ KeysFit(c.keys, walk[w].sort)
              /\ \A id \in Wanted(w) : PastCursor(id, c.keys, walk[w].sort.direction) <=> id \notin Kept(w)

\* What came is where the rows that are wanted begin.
Beginning(w) ==
    Ordered(w) =>
        /\ \A i, j \in KeptAt(w) : i < j => Before(walk[w].got[i], walk[w].got[j], walk[w].sort)
        /\ Kept(w) \subseteq Wanted(w)
        /\ \A a \in Kept(w), b \in Wanted(w) \ Kept(w) : Before(a, b, walk[w].sort)
        /\ walk[w].pc = "ended" /\ (keyed \/ Len(walk[w].got) <= MaxOffset) => Wanted(w) \subseteq Kept(w)

PageWalkInv(w) == Shape(walk[w]) /\ WalkTypes(w) /\ CursorTypes(w) /\ Beginning(w)

PagesInv == RowTypes /\ walk = [w \in Walkers |-> walk[w]] /\ \A w \in Walkers : PageWalkInv(w)

\* The order of the query, column by column.
Precedes(a, b, sort) ==
    \/ sort.column = "value" /\ Ahead(rows[a], rows[b], sort.direction)
    \/ keyed /\ (sort.column = "value" => rows[a] = rows[b]) /\ Ahead(a, b, sort.direction)

LEMMA TwoJoined == ASSUME NEW x, NEW y PROVE <<x>> \o <<y>> = <<x, y>>
<1> DEFINE S == {x, y}
           s == <<x>> \o <<y>>
           t == <<x, y>>
<1>1. Len(<<x>>) = 1 /\ Len(<<y>>) = 1 /\ <<x>> \in Seq(S) /\ <<y>> \in Seq(S)  OBVIOUS
<1>2. t \in Seq(S) /\ Len(t) = 2 /\ t[1] = x /\ t[2] = y  OBVIOUS
<1>3. s \in Seq(S) /\ Len(s) = 2 /\ s[1] = x /\ s[2] = y  BY <1>1, ConcatProperties
<1> HIDE DEF s, t
<1>4. \A i \in 1..Len(s) : s[i] = t[i]  BY <1>2, <1>3
<1>5. s = t  BY <1>2, <1>3, <1>4, SeqEqual
<1> QED  BY <1>5 DEF s, t

LEMMA OrderIs ==
    ASSUME keyed \in BOOLEAN, NEW sort \in Sorts
    PROVE  OrderColumns(sort) = IF sort.column = "value"
                                THEN IF keyed THEN <<"value", "id">> ELSE <<"value">>
                                ELSE IF keyed THEN <<"id">> ELSE <<>>
<1>1. sort.column \in {"value", "none"}  BY DEF Sorts, NoSort
<1>2. CASE sort.column = "value"
  <2>0. <<"value">> \o <<"id">> = <<"value", "id">> /\ <<"value">> \o <<>> = <<"value">>
    BY TwoJoined, ConcatEmptySeq, <<"value">> \in Seq({"value"})
  <2>1. CASE keyed  BY <1>2, <2>0, <2>1 DEF OrderColumns
  <2>2. CASE ~keyed  BY <1>2, <2>0, <2>2 DEF OrderColumns
  <2> QED  BY <2>1, <2>2
<1>3. CASE sort.column = "none"  BY <1>3 DEF OrderColumns
<1> QED  BY <1>1, <1>2, <1>3

LEMMA BeforeIs ==
    ASSUME keyed \in BOOLEAN, NEW sort \in Sorts, NEW a, NEW b
    PROVE  Before(a, b, sort) <=> Precedes(a, b, sort)
<1>1. CASE sort.column = "value" /\ keyed
  <2>1. OrderColumns(sort) = <<"value", "id">>  BY <1>1, OrderIs
  <2> QED  BY <1>1, <2>1 DEF Before, Precedes, Cell
<1>2. CASE sort.column = "value" /\ ~keyed
  <2>1. OrderColumns(sort) = <<"value">>  BY <1>2, OrderIs
  <2> QED  BY <1>2, <2>1 DEF Before, Precedes, Cell
<1>3. CASE sort.column # "value" /\ keyed
  <2>1. OrderColumns(sort) = <<"id">>  BY <1>3, OrderIs
  <2> QED  BY <1>3, <2>1 DEF Before, Precedes, Cell
<1>4. CASE sort.column # "value" /\ ~keyed
  <2>1. OrderColumns(sort) = <<>>  BY <1>4, OrderIs
  <2> QED  BY <1>4, <2>1 DEF Before, Precedes, Cell
<1> QED  BY <1>1, <1>2, <1>3, <1>4

LEMMA RowValues ==
    ASSUME RowTypes
    PROVE  \A a \in RowIds : a \in Nat /\ a \in Int /\ rows[a] \in Int /\ (rows[a] # Absent => rows[a] \in Nat \cup {Null})
<1>1. RowIds \subseteq Nat /\ SortValues \subseteq Nat  BY KeysetPagesAssumption
<1>2. \A a \in RowIds : rows[a] \in SortValues \cup {Null, Absent}  BY DEF RowTypes
<1>3. Null \in Int /\ Absent \in Int  BY DEF Null, Absent
<1>4. ASSUME NEW a \in RowIds PROVE a \in Nat /\ rows[a] \in SortValues \cup {Null, Absent}  BY <1>1, <1>2
<1>5. SortValues \cup {Null, Absent} \subseteq Int  BY <1>1, <1>3
<1> QED  BY <1>1, <1>4, <1>5

\* Rows are strictly ordered, and those of a relation with a key totally.
LEMMA StrictOrder ==
    ASSUME RowTypes, NEW sort \in Sorts
    PROVE  /\ \A a \in RowIds : ~Before(a, a, sort)
           /\ \A a, b, c \in RowIds : Before(a, b, sort) /\ Before(b, c, sort) => Before(a, c, sort)
           /\ keyed => \A a, b \in RowIds : a # b => Before(a, b, sort) \/ Before(b, a, sort)
<1>1. \A a \in RowIds : a \in Int /\ rows[a] \in Int  BY RowValues
<1>2. sort.direction \in {"asc", "desc"} /\ keyed \in BOOLEAN  BY DEF Sorts, NoSort, RowTypes
<1>3. \A x \in Int : ~Ahead(x, x, sort.direction)  BY <1>2 DEF Ahead, Null
<1>4. \A x, y, z \in Int : Ahead(x, y, sort.direction) /\ Ahead(y, z, sort.direction) => Ahead(x, z, sort.direction)
  BY <1>2 DEF Ahead, Null
<1>5. \A x, y \in Int : x = y \/ Ahead(x, y, sort.direction) \/ Ahead(y, x, sort.direction)  BY <1>2 DEF Ahead, Null
<1>7. \A a, b : Before(a, b, sort) <=> Precedes(a, b, sort)  BY <1>2, BeforeIs
<1> HIDE DEF Null
<1>8. \A a \in RowIds : ~Precedes(a, a, sort)  BY <1>3, <1>1 DEF Precedes
<1>9. \A a, b, c \in RowIds : Precedes(a, b, sort) /\ Precedes(b, c, sort) => Precedes(a, c, sort)
  BY <1>4, <1>1 DEF Precedes
<1>10. keyed => \A a, b \in RowIds : a # b => Precedes(a, b, sort) \/ Precedes(b, a, sort)  BY <1>5, <1>1 DEF Precedes
<1> QED  BY <1>7, <1>8, <1>9, <1>10

LEMMA PastIs ==
    ASSUME RowTypes, NEW sort \in Sorts, NEW keys, KeysFit(keys, sort), NEW id
    PROVE  PastCursor(id, keys, sort.direction) <=>
               IF sort.column = "value"
               THEN \/ Ahead(keys[1].value, rows[id], sort.direction)
                    \/ rows[id] = keys[1].value /\ Ahead(keys[2].value, id, sort.direction)
               ELSE Ahead(keys[1].value, id, sort.direction)
<1>1. CASE sort.column = "value"
  <2>1. OrderColumns(sort) = <<"value", "id">>  BY <1>1, OrderIs DEF KeysFit, RowTypes
  <2>2. DOMAIN keys = {1, 2} /\ keys[1].column = "value" /\ keys[2].column = "id"  BY <2>1 DEF KeysFit
  <2>3. keys[2].value # Null  BY <2>2 DEF KeysFit, Null
  <2> QED  BY <1>1, <2>2, <2>3 DEF PastCursor, Cell, Ahead
<1>2. CASE sort.column # "value"
  <2>1. OrderColumns(sort) = <<"id">>  BY <1>2, OrderIs DEF KeysFit, RowTypes
  <2>2. DOMAIN keys = {1} /\ keys[1].column = "id"  BY <2>1 DEF KeysFit
  <2> QED  BY <1>2, <2>2 DEF PastCursor, Cell, Ahead
<1> QED  BY <1>1, <1>2

LEMMA KeysAre ==
    ASSUME RowTypes, NEW sort \in Sorts, NEW keys, KeysFit(keys, sort)
    PROVE  /\ sort.column = "value" =>
                 /\ 1 \in DOMAIN keys /\ keys[1].column = "value" /\ keys[1].value \in Int
                 /\ 2 \in DOMAIN keys /\ keys[2].column = "id" /\ keys[2].value \in Int
           /\ sort.column # "value" => 1 \in DOMAIN keys /\ keys[1].column = "id" /\ keys[1].value \in Int
<1>1. CASE sort.column = "value"
  <2>1. OrderColumns(sort) = <<"value", "id">>  BY <1>1, OrderIs DEF KeysFit, RowTypes
  <2> QED  BY <1>1, <2>1 DEF KeysFit, Null
<1>2. CASE sort.column # "value"
  <2>1. OrderColumns(sort) = <<"id">>  BY <1>2, OrderIs DEF KeysFit, RowTypes
  <2> QED  BY <1>2, <2>1 DEF KeysFit, Null
<1> QED  BY <1>1, <1>2

\* A cursor parts the rows: those it leaves behind come before those it is for.
LEMMA CursorParts ==
    ASSUME RowTypes, NEW sort \in Sorts, NEW keys, KeysFit(keys, sort), NEW a \in RowIds, NEW b \in RowIds,
           ~PastCursor(a, keys, sort.direction), PastCursor(b, keys, sort.direction)
    PROVE  Before(a, b, sort)
<1>1. sort.direction \in {"asc", "desc"} /\ keyed /\ keyed \in BOOLEAN  BY DEF Sorts, NoSort, RowTypes, KeysFit
<1>2. \A x, y, z \in Int : Ahead(x, y, sort.direction) /\ Ahead(y, z, sort.direction) => Ahead(x, z, sort.direction)
  BY <1>1 DEF Ahead, Null
<1>3. \A x, y \in Int : x = y \/ Ahead(x, y, sort.direction) \/ Ahead(y, x, sort.direction)  BY <1>1 DEF Ahead, Null
<1>4. a \in Int /\ b \in Int /\ rows[a] \in Int /\ rows[b] \in Int  BY RowValues
<1>5. Precedes(a, b, sort)
  <2>1. CASE sort.column = "value"
    <3> DEFINE k == keys[1].value
               n == keys[2].value
    <3>1. k \in Int /\ n \in Int  BY <2>1, KeysAre
    <3>2. ~Ahead(k, rows[a], sort.direction) /\ (rows[a] = k => ~Ahead(n, a, sort.direction))  BY <2>1, PastIs
    <3>3. Ahead(k, rows[b], sort.direction) \/ (rows[b] = k /\ Ahead(n, b, sort.direction))  BY <2>1, PastIs
    <3> HIDE DEF k, n
    <3>4. rows[a] = k \/ Ahead(rows[a], k, sort.direction)  BY <1>3, <1>4, <3>1, <3>2
    <3>5. rows[a] = k => a = n \/ Ahead(a, n, sort.direction)  BY <1>3, <1>4, <3>1, <3>2
    <3>6. CASE Ahead(k, rows[b], sort.direction)  BY <1>2, <1>4, <2>1, <3>1, <3>4, <3>6 DEF Precedes
    <3>7. CASE rows[b] = k /\ Ahead(n, b, sort.direction) /\ rows[a] = k
      BY <1>1, <1>2, <1>4, <3>1, <3>5, <3>7 DEF Precedes
    <3>8. CASE rows[b] = k /\ Ahead(rows[a], k, sort.direction)  BY <2>1, <3>8 DEF Precedes
    <3> QED  BY <3>3, <3>4, <3>6, <3>7, <3>8
  <2>2. CASE sort.column # "value"
    <3> DEFINE n == keys[1].value
    <3>1. n \in Int  BY <2>2, KeysAre
    <3>2. ~Ahead(n, a, sort.direction) /\ Ahead(n, b, sort.direction)  BY <2>2, PastIs
    <3> HIDE DEF n
    <3>3. a = n \/ Ahead(a, n, sort.direction)  BY <1>3, <1>4, <3>1, <3>2
    <3> QED  BY <1>1, <1>2, <1>4, <2>2, <3>1, <3>2, <3>3 DEF Precedes
  <2> QED  BY <2>1, <2>2
<1> QED  BY <1>1, <1>5, BeforeIs

\* The values of the relation survive a cursor.
CursorsKeepValues == \A v \in SortValues : InCursor("value", v) = v

\* The cursor a page ends with is for the rows that follow its last one.
LEMMA CursorOfRow ==
    ASSUME RowTypes, CursorsKeepValues, keyed, NEW sort \in Sorts, NEW last \in RowIds, rows[last] # Absent,
           NEW keys, keys = [i \in DOMAIN OrderColumns(sort) |->
                                [column |-> OrderColumns(sort)[i],
                                 value |-> InCursor(OrderColumns(sort)[i], Cell(last, OrderColumns(sort)[i]))]]
    PROVE  /\ KeysFit(keys, sort)
           /\ \A id : PastCursor(id, keys, sort.direction) <=> Before(last, id, sort)
<1>1. InCursor("id", last) = last /\ InCursor("value", rows[last]) = rows[last]
  BY DEF InCursor, CursorsKeepValues, RowTypes
<1>2. last \in Nat /\ rows[last] \in Nat \cup {Null}  BY RowValues
<1>3. CASE sort.column = "value"
  <2>1. OrderColumns(sort) = <<"value", "id">>  BY <1>3, OrderIs DEF RowTypes
  <2>2. /\ DOMAIN keys = {1, 2} /\ keys[1] = [column |-> "value", value |-> rows[last]]
        /\ keys[2] = [column |-> "id", value |-> last]
    BY <1>1, <2>1 DEF Cell
  <2>3. KeysFit(keys, sort)  BY <1>2, <2>1, <2>2 DEF KeysFit
  <2>4. ASSUME NEW id PROVE PastCursor(id, keys, sort.direction) <=> Precedes(last, id, sort)
    BY <1>3, <2>2, <2>3, PastIs DEF Precedes
  <2> QED  BY <2>3, <2>4, BeforeIs DEF RowTypes
<1>4. CASE sort.column # "value"
  <2>1. OrderColumns(sort) = <<"id">>  BY <1>4, OrderIs DEF RowTypes
  <2>2. DOMAIN keys = {1} /\ keys[1] = [column |-> "id", value |-> last]  BY <1>1, <2>1 DEF Cell
  <2>3. KeysFit(keys, sort)  BY <1>2, <2>1, <2>2 DEF KeysFit
  <2>4. ASSUME NEW id PROVE PastCursor(id, keys, sort.direction) <=> Precedes(last, id, sort)
    <3>1. PastCursor(id, keys, sort.direction) <=> Ahead(last, id, sort.direction)  BY <1>4, <2>2, <2>3, PastIs
    <3> QED  BY <1>4, <3>1 DEF Precedes
  <2> QED  BY <2>3, <2>4, BeforeIs DEF RowTypes
<1> QED  BY <1>3, <1>4

LEMMA WindowIs ==
    ASSUME NEW q \in Seq(RowIds), NEW first \in Nat \ {0}, NEW last \in Nat, first <= last
    PROVE  /\ Window(q, first, last) \in Seq(RowIds)
           /\ Len(Window(q, first, last)) = IF Len(q) < first THEN 0
                                            ELSE IF last < Len(q) THEN last - first + 1 ELSE Len(q) - first + 1
           /\ \A i \in 1..Len(Window(q, first, last)) : Window(q, first, last)[i] = q[first + i - 1]
<1>1. Len(q) \in Nat /\ \A i \in 1..Len(q) : q[i] \in RowIds  OBVIOUS
<1> DEFINE end == IF last < Len(q) THEN last ELSE Len(q)
           W == SubSeq(q, first, end)
<1>2. end \in Int /\ first \in Int /\ end <= Len(q)  BY <1>1
<1>3. (IF first <= end THEN end - first + 1 ELSE 0)
          = IF Len(q) < first THEN 0 ELSE IF last < Len(q) THEN last - first + 1 ELSE Len(q) - first + 1
  BY <1>1
<1>4. \A i \in first..end : q[i] \in RowIds  BY <1>1, <1>2
<1>5. W = Window(q, first, last)  BY DEF Window
<1> HIDE DEF end
<1>6. /\ W \in Seq(RowIds) /\ Len(W) = IF first <= end THEN end - first + 1 ELSE 0
      /\ \A i \in 1..end - first + 1 : W[i] = q[first + i - 1]
  BY <1>2, <1>4, SubSeqProperties
<1> HIDE DEF W
<1>7. \A i \in 1..Len(W) : W[i] = q[first + i - 1]  BY <1>2, <1>6
<1> QED  BY <1>3, <1>5, <1>6, <1>7

\* A sequence of a finite set holds each of its elements once.
LEMMA SetSequence ==
    ASSUME NEW S, IsFiniteSet(S), NEW q \in SetToSeqs(S)
    PROVE  /\ q \in Seq(S) /\ Len(q) = Cardinality(S) /\ DOMAIN q = 1..Len(q)
           /\ \A i, j \in 1..Len(q) : i # j => q[i] # q[j]
           /\ \A x \in S : \E i \in 1..Len(q) : q[i] = x
<1> DEFINE n == Cardinality(S)
<1>1. n \in Nat  BY FS_CardinalityType
<1>2. q \in [1..n -> S] /\ \A i, j \in 1..n : i # j => q[i] # q[j]  BY DEF SetToSeqs
<1>3. q \in Injection(1..n, S)  BY <1>2 DEF Injection, IsInjective
<1>4. IsFiniteSet(1..n) /\ Cardinality(1..n) = n  BY <1>1, FS_Interval
<1>5. q \in Surjection(1..n, S)  BY <1>3, <1>4, FS_Injection
<1>6. \A x \in S : \E i \in 1..n : q[i] = x  BY <1>5 DEF Surjection
<1>7. q \in Seq(S) /\ Len(q) = n  BY <1>1, <1>2
<1> QED  BY <1>2, <1>6, <1>7

Total(sort) == \A a, b \in RowIds : a # b => Before(a, b, sort) \/ Before(b, a, sort)

\* How many rows a walk has behind it when it asks for the next page by offset.
Skipped(w) == IF keyed THEN 0 ELSE Len(walk[w].got)

\* q is what a page is cut from: the rows the cursor is for, in their order.
CutFrom(w, q) ==
    /\ q \in Seq(RowIds)
    /\ \A i, j \in 1..Len(q) : i # j => q[i] # q[j]
    /\ \A i, j \in 1..Len(q) : i < j => ~Before(q[j], q[i], walk[w].sort)
    /\ \A id \in RowIds : (\E i \in 1..Len(q) : q[i] = id)
           <=> /\ Selected(id, walk[w].filter)
               /\ walk[w].cursor.kind = "keyset" => PastCursor(id, walk[w].cursor.keys, walk[w].sort.direction)

LEMMA PageIsCut ==
    ASSUME NEW w \in Walkers, WalkTypes(w), CursorTypes(w), RowTypes, walk[w].pc = "query",
           NEW page \in Answers(walk[w].filter, walk[w].cursor, walk[w].sort)
    PROVE  /\ Skipped(w) \in Nat
           /\ \E q : CutFrom(w, q) /\ page = Window(q, Skipped(w) + 1, Skipped(w) + (PageLimit + 1))
<1> DEFINE c == walk[w].cursor
           sort == walk[w].sort
           found == {id \in RowIds : Selected(id, walk[w].filter) /\ (c.kind = "keyset" => PastCursor(id, c.keys, sort.direction))}
           skip == IF c.kind = "offset" THEN c.offset ELSE 0
<1>1. PICK q \in SetToSeqs(found) : /\ \A i, j \in DOMAIN q : i < j => ~Before(q[j], q[i], sort)
                                    /\ page = Window(q, skip + 1, skip + PageLimit + 1)
  BY DEF Answers
<1>2. IsFiniteSet(found) /\ found \subseteq RowIds  BY KeysetPagesAssumption, FS_Subset
<1> HIDE DEF found
<1>3. /\ q \in Seq(found) /\ DOMAIN q = 1..Len(q)
      /\ \A i, j \in 1..Len(q) : i # j => q[i] # q[j]
      /\ \A x \in found : \E i \in 1..Len(q) : q[i] = x
  BY <1>2, SetSequence
<1>4. \A i \in 1..Len(q) : q[i] \in found  BY <1>3
<1>5. q \in Seq(RowIds)  BY <1>2, <1>3
<1>6. CutFrom(w, q)  BY <1>1, <1>3, <1>4, <1>5 DEF CutFrom, found
<1>7. Len(walk[w].got) \in Nat /\ PageLimit \in Nat  BY KeysetPagesAssumption DEF WalkTypes
<1>8. skip = Skipped(w)
  <2>1. CASE keyed  BY <2>1 DEF CursorTypes, Skipped
  <2>2. CASE ~keyed
    <3>1. c.kind \in {"none", "offset"}  BY <2>2 DEF CursorTypes
    <3>2. c.kind = "none" => walk[w].got = <<>>  BY DEF CursorTypes
    <3>3. c.kind = "offset" => c.offset = Len(walk[w].got)  BY DEF CursorTypes
    <3> QED  BY <2>2, <3>1, <3>2, <3>3 DEF Skipped
  <2> QED  BY <2>1, <2>2
<1> HIDE DEF skip
<1>9. Skipped(w) \in Nat  BY <1>7 DEF Skipped
<1>10. skip + PageLimit + 1 = Skipped(w) + (PageLimit + 1)  BY <1>7, <1>8, <1>9
<1> QED  BY <1>1, <1>6, <1>8, <1>9, <1>10

LEMMA OrderedIsTotal ==
    ASSUME RowTypes, NEW w \in Walkers, WalkTypes(w), Ordered(w)
    PROVE  Total(walk[w].sort) /\ (keyed \/ walk[w].touched = {})
  BY StrictOrder DEF Ordered, Total, WalkTypes

\* W is the page cut from q, and more says that rows are left.
PageFrom(w, q, W, more) ==
    /\ CutFrom(w, q) /\ Skipped(w) \in Nat
    /\ W \in Seq(RowIds) /\ Len(W) <= PageLimit
    /\ \A i \in 1..Len(W) : Skipped(w) + i <= Len(q) /\ W[i] = q[Skipped(w) + i]
    /\ IF more THEN Len(W) = PageLimit ELSE Len(q) <= Skipped(w) + Len(W)

LEMMA PageIsFrom ==
    ASSUME NEW w \in Walkers, WalkTypes(w), CursorTypes(w), RowTypes, walk[w].pc = "query",
           NEW page \in Answers(walk[w].filter, walk[w].cursor, walk[w].sort)
    PROVE  /\ Len(page) \in Nat
           /\ \E q : /\ PageFrom(w, q, Window(page, 1, PageLimit), Len(page) > PageLimit)
                     /\ Len(page) > PageLimit => page[PageLimit] = q[Skipped(w) + PageLimit]
<1> DEFINE k == Skipped(w)
           W == Window(page, 1, PageLimit)
<1>1. k \in Nat /\ PageLimit \in Nat \ {0}  BY PageIsCut, KeysetPagesAssumption
<1>2. PICK q : CutFrom(w, q) /\ page = Window(q, k + 1, k + (PageLimit + 1))  BY PageIsCut
<1>3. q \in Seq(RowIds) /\ Len(q) \in Nat  BY <1>2 DEF CutFrom
<1> HIDE DEF k
<1> DEFINE m == IF Len(q) <= k THEN 0 ELSE IF k + (PageLimit + 1) < Len(q) THEN PageLimit + 1 ELSE Len(q) - k
<1>4. page \in Seq(RowIds) /\ Len(page) = m /\ m \in Nat /\ \A i \in 1..m : page[i] = q[k + i]
  <2> DEFINE last == k + (PageLimit + 1)
             m2 == IF Len(q) < k + 1 THEN 0 ELSE IF last < Len(q) THEN last - (k + 1) + 1 ELSE Len(q) - (k + 1) + 1
  <2>1. k + 1 \in Nat \ {0} /\ last \in Nat /\ k + 1 <= last /\ m = m2 /\ m \in Nat  BY <1>1, <1>3
  <2>2. \A i \in 1..m : k + 1 + i - 1 = k + i  BY <1>1
  <2> HIDE DEF last, m
  <2>3. page \in Seq(RowIds) /\ Len(page) = m2 /\ \A i \in 1..Len(page) : page[i] = q[k + 1 + i - 1]
    BY <1>2, <1>3, <2>1, WindowIs DEF last
  <2> QED  BY <2>1, <2>2, <2>3
<1> DEFINE l == IF PageLimit < Len(page) THEN PageLimit ELSE Len(page)
<1>5. W \in Seq(RowIds) /\ Len(W) = l /\ \A i \in 1..l : W[i] = page[i]
  <2> DEFINE n == IF Len(page) < 1 THEN 0 ELSE IF PageLimit < Len(page) THEN PageLimit - 1 + 1 ELSE Len(page) - 1 + 1
  <2>1. 1 \in Nat \ {0} /\ 1 <= PageLimit /\ n = l /\ \A i \in 1..l : 1 + i - 1 = i  BY <1>1, <1>4
  <2> HIDE DEF l
  <2>2. W \in Seq(RowIds) /\ Len(W) = n /\ \A i \in 1..Len(W) : W[i] = page[1 + i - 1]  BY <1>1, <1>4, <2>1, WindowIs
  <2> HIDE DEF n, W
  <2> QED  BY <2>1, <2>2
<1>6. l \in Nat /\ l <= m /\ l <= PageLimit /\ (m > 0 => k + m <= Len(q))  BY <1>1, <1>3, <1>4
<1>7. Len(page) > PageLimit => l = PageLimit /\ PageLimit \in 1..m  BY <1>1, <1>4
<1>8. ~(Len(page) > PageLimit) => Len(q) <= k + l  BY <1>1, <1>3, <1>4
<1>9. page[PageLimit] = q[k + PageLimit] \/ ~(Len(page) > PageLimit)  BY <1>4, <1>7
<1> HIDE DEF m, l, W
<1>10. ASSUME NEW i \in 1..Len(W) PROVE k + i <= Len(q) /\ W[i] = q[k + i]
  <2>1. i \in 1..l /\ i \in 1..m /\ i <= m /\ m > 0  BY <1>4, <1>5, <1>6
  <2>2. k + i <= Len(q)  BY <1>1, <1>3, <1>4, <1>6, <2>1
  <2> QED  BY <1>4, <1>5, <2>1, <2>2
<1>11. PageFrom(w, q, W, Len(page) > PageLimit)  BY <1>1, <1>2, <1>5, <1>6, <1>7, <1>8, <1>10 DEF PageFrom, k
<1> QED  BY <1>4, <1>9, <1>11 DEF W, k

\* The beginning of a sequence that repeats nothing.
Firsts(s, n) == {s[i] : i \in 1..n}

LEMMA DistinctCount ==
    ASSUME NEW s, NEW n \in Nat, \A i, j \in 1..n : i # j => s[i] # s[j]
    PROVE  IsFiniteSet(Firsts(s, n)) /\ Cardinality(Firsts(s, n)) = n
<1> DEFINE T == Firsts(s, n)
<1> DEFINE f == [i \in 1..n |-> s[i]]
<1>1. f \in [1..n -> T] /\ \A i \in 1..n : f[i] = s[i]  BY DEF Firsts
<1>2. \A t \in T : \E i \in 1..n : f[i] = t  BY DEF Firsts
<1> HIDE DEF f, T
<1>3. f \in Injection(1..n, T)  BY <1>1 DEF Injection, IsInjective
<1>4. f \in Surjection(1..n, T)  BY <1>1, <1>2 DEF Surjection
<1>5. IsFiniteSet(1..n) /\ Cardinality(1..n) = n  BY FS_Interval
<1> QED  BY <1>3, <1>4, <1>5, FS_Surjection DEF T

\* Without a key, the rows a walk got are those that its offset skips.
LEMMA OffsetSkips ==
    ASSUME NEW w \in Walkers, RowTypes, WalkTypes(w), CursorTypes(w), Beginning(w), Ordered(w), ~keyed,
           NEW q, CutFrom(w, q)
    PROVE  \A i \in 1..Len(q) : q[i] \in Kept(w) <=> i <= Len(walk[w].got)
<1> DEFINE got == walk[w].got
           k == Len(got)
           sort == walk[w].sort
<1>1. walk[w].touched = {} /\ sort \in Sorts /\ got \in Seq(RowIds) /\ k \in Nat /\ Len(q) \in Nat /\ q \in Seq(RowIds)
  BY OrderedIsTotal DEF WalkTypes, CutFrom
<1>2. KeptAt(w) = 1..k /\ Kept(w) = Firsts(got, k)  BY <1>1 DEF KeptAt, Kept, Firsts
<1>3. \A a, b \in RowIds : ~(Before(a, b, sort) /\ Before(b, a, sort))  BY <1>1, StrictOrder
<1>4. \A i, j \in 1..k : i < j => Before(got[i], got[j], sort)  BY <1>2 DEF Beginning
<1>5. \A i, j \in 1..k : i # j => got[i] # got[j]
  <2>1. \A i \in 1..k : got[i] \in RowIds  BY <1>1
  <2>2. \A i, j \in 1..k : i # j => i < j \/ j < i  BY <1>1
  <2>3. \A a \in RowIds : ~Before(a, a, sort)  BY <1>3
  <2> QED  BY <1>4, <2>1, <2>2, <2>3
<1>6. IsFiniteSet(Kept(w)) /\ Cardinality(Kept(w)) = k  BY <1>1, <1>2, <1>5, DistinctCount
<1>7. \A i \in 1..Len(q) : q[i] \in RowIds /\ q[i] \in Wanted(w)
  <2>1. walk[w].cursor.kind # "keyset"  BY DEF CursorTypes
  <2> QED  BY <1>1, <2>1 DEF CutFrom, Wanted
<1>8. \A a \in Wanted(w) : \E i \in 1..Len(q) : q[i] = a
  <2>1. walk[w].cursor.kind # "keyset"  BY DEF CursorTypes
  <2> QED  BY <2>1 DEF CutFrom, Wanted
<1>9. \A i, j \in 1..Len(q) : i # j => q[i] # q[j]  BY DEF CutFrom
<1>10. \A i, j \in 1..Len(q) : i < j => ~Before(q[j], q[i], sort)  BY DEF CutFrom
<1>11. Kept(w) \subseteq Wanted(w) /\ \A a \in Kept(w), b \in Wanted(w) \ Kept(w) : Before(a, b, sort)
  BY DEF Beginning
<1>12. ASSUME NEW i \in 1..Len(q), q[i] \in Kept(w) PROVE i <= k
  <2> DEFINE T == Firsts(q, i)
  <2>1. i \in Nat /\ \A j \in 1..i : j \in 1..Len(q) /\ (j = i \/ j < i)  BY <1>1
  <2>2. ASSUME NEW j \in 1..i PROVE q[j] \in Kept(w)
    <3>1. j \in 1..Len(q) /\ (j < i => ~Before(q[i], q[j], sort))  BY <1>10, <2>1
    <3> QED  BY <1>7, <1>11, <1>12, <2>1, <3>1
  <2>3. T \subseteq Kept(w)  BY <2>2 DEF Firsts
  <2>4. \A j, l \in 1..i : j # l => q[j] # q[l]  BY <1>9, <2>1
  <2>5. Cardinality(T) = i  BY <2>1, <2>4, DistinctCount
  <2> HIDE DEF T
  <2> QED  BY <1>6, <2>3, <2>5, FS_Subset
<1>13. ASSUME NEW i \in 1..Len(q), i <= k PROVE q[i] \in Kept(w)
  <2> SUFFICES ASSUME q[i] \notin Kept(w) PROVE FALSE  OBVIOUS
  <2> DEFINE T == Firsts(q, i - 1)
  <2>1. i - 1 \in Nat /\ \A j \in 1..(i - 1) : j \in 1..Len(q)  BY <1>1
  <2>2. ASSUME NEW a \in Kept(w) PROVE a \in T
    <3>1. Before(a, q[i], sort)  BY <1>7, <1>11
    <3>2. PICK j \in 1..Len(q) : q[j] = a  BY <1>8, <1>11
    <3>3. ~(i < j) /\ i # j  BY <1>10, <3>1, <3>2
    <3>4. j \in 1..(i - 1)  BY <1>1, <3>3
    <3> QED  BY <3>2, <3>4 DEF Firsts
  <2>3. \A j, l \in 1..(i - 1) : j # l => q[j] # q[l]  BY <1>9, <2>1
  <2>4. IsFiniteSet(T) /\ Cardinality(T) = i - 1  BY <2>1, <2>3, DistinctCount
  <2> HIDE DEF T
  <2>5. k <= i - 1  BY <1>6, <2>2, <2>4, FS_Subset
  <2> QED  BY <1>1, <1>13, <2>1, <2>5
<1> QED  BY <1>12, <1>13, <1>1

LEMMA MovedIs ==
    ASSUME walk = [v \in Walkers |-> walk[v]], NEW w \in Walkers, Shape(walk[w]), NEW pc, NEW snapshot, Moved(w, pc, snapshot)
    PROVE  /\ walk' = [v \in Walkers |-> walk'[v]]
           /\ \A v \in Walkers \ {w} : walk'[v] = walk[v]
           /\ Shape(walk'[w])
           /\ walk'[w].pc = pc /\ walk'[w].snapshot = snapshot
           /\ walk'[w].sort = walk[w].sort /\ walk'[w].filter = walk[w].filter /\ walk'[w].cursor = walk[w].cursor
           /\ walk'[w].got = walk[w].got /\ walk'[w].seen = walk[w].seen /\ walk'[w].touched = walk[w].touched
<1>1. walk' = [walk EXCEPT ![w] = [walk[w] EXCEPT !.pc = pc, !.snapshot = snapshot]]  BY DEF Moved
<1> DEFINE new == [walk[w] EXCEPT !.pc = pc, !.snapshot = snapshot]
<1>2. new.pc = pc /\ new.snapshot = snapshot /\ new.sort = walk[w].sort /\ new.filter = walk[w].filter
      /\ new.cursor = walk[w].cursor /\ new.got = walk[w].got /\ new.seen = walk[w].seen /\ new.touched = walk[w].touched
      /\ Shape(new)
  BY DEF Shape
<1> HIDE DEF new
<1>3. walk'[w] = new /\ \A v \in Walkers \ {w} : walk'[v] = walk[v]  BY <1>1 DEF new
<1> QED  BY <1>1, <1>2, <1>3 DEF new

LEMMA InOrder ==
    ASSUME NEW w \in Walkers, RowTypes, WalkTypes(w), Ordered(w), NEW q, CutFrom(w, q),
           NEW i \in 1..Len(q), NEW j \in 1..Len(q), i < j
    PROVE  Before(q[i], q[j], walk[w].sort)
<1>1. q[i] \in RowIds /\ q[j] \in RowIds /\ i # j  BY DEF CutFrom
<1> QED  BY <1>1, OrderedIsTotal DEF CutFrom, Total

\* What is behind the rows that came is what the next page is cut from.
LEMMA Behind ==
    ASSUME NEW w \in Walkers, RowTypes, WalkTypes(w), CursorTypes(w), Beginning(w), Ordered(w), walk[w].pc = "query",
           NEW q, CutFrom(w, q)
    PROVE  /\ \A i \in 1..Len(q) : q[i] \notin walk[w].touched =>
                 q[i] \in Wanted(w) /\ (q[i] \in Kept(w) <=> i <= Skipped(w))
           /\ \A a \in Wanted(w) \ Kept(w) : \E i \in 1..Len(q) : q[i] = a /\ i > Skipped(w)
<1>1. q \in Seq(RowIds) /\ Len(q) \in Nat /\ \A i \in 1..Len(q) : q[i] \in RowIds  BY DEF CutFrom
<1>2. \A i \in 1..Len(q) : q[i] \notin walk[w].touched => q[i] \in Wanted(w)  BY <1>1 DEF CutFrom, Wanted
<1>3. CASE ~keyed
  <2>1. \A a \in Wanted(w) : \E i \in 1..Len(q) : q[i] = a
    <3>1. walk[w].cursor.kind # "keyset"  BY <1>3 DEF CursorTypes
    <3> QED  BY <3>1 DEF CutFrom, Wanted
  <2>2. Skipped(w) = Len(walk[w].got) /\ Skipped(w) \in Nat  BY <1>3 DEF Skipped, WalkTypes
  <2>3. \A i \in 1..Len(q) : q[i] \in Kept(w) <=> i <= Skipped(w)  BY <1>3, <2>2, OffsetSkips
  <2>4. \A i \in 1..Len(q) : ~(i <= Skipped(w)) => i > Skipped(w)  BY <1>1, <2>2
  <2> QED  BY <1>2, <2>1, <2>3, <2>4
<1>4. CASE keyed
  <2>1. Skipped(w) = 0 /\ walk[w].cursor.kind \in {"none", "keyset"}  BY <1>4 DEF Skipped, CursorTypes
  <2>2. CASE walk[w].cursor.kind = "none"
    <3>1. walk[w].got = <<>>  BY <2>2 DEF CursorTypes
    <3>2. Kept(w) = {}  BY <3>1 DEF Kept, KeptAt
    <3>3. \A a \in Wanted(w) : \E i \in 1..Len(q) : q[i] = a  BY <2>2 DEF CutFrom, Wanted
    <3>4. \A i \in 1..Len(q) : i > 0 /\ ~(i <= 0)  BY <1>1
    <3> QED  BY <1>2, <2>1, <3>2, <3>3, <3>4
  <2>3. CASE walk[w].cursor.kind = "keyset"
    <3> DEFINE Past(id) == PastCursor(id, walk[w].cursor.keys, walk[w].sort.direction)
    <3>1. \A id \in Wanted(w) : Past(id) <=> id \notin Kept(w)  BY <2>3 DEF CursorTypes
    <3>2. \A i \in 1..Len(q) : Past(q[i])  BY <1>1, <2>3 DEF CutFrom
    <3>3. \A a \in Wanted(w) : Past(a) => \E i \in 1..Len(q) : q[i] = a  BY <2>3 DEF CutFrom, Wanted
    <3>4. \A i \in 1..Len(q) : i > 0 /\ ~(i <= 0)  BY <1>1
    <3> HIDE DEF Past
    <3> QED  BY <1>2, <2>1, <3>1, <3>2, <3>3, <3>4
  <2> QED  BY <2>1, <2>2, <2>3
<1> QED  BY <1>3, <1>4

\* The order, the filter and the cursors speak of the rows only.
LEMMA RowsStay ==
    ASSUME UNCHANGED <<keyed, rows>>
    PROVE  /\ \A a, b, s : Before(a, b, s)' <=> Before(a, b, s)
           /\ \A a, f : Selected(a, f)' <=> Selected(a, f)
           /\ \A a, k, d : PastCursor(a, k, d)' <=> PastCursor(a, k, d)
           /\ \A k, s : KeysFit(k, s)' <=> KeysFit(k, s)
           /\ RowTypes' <=> RowTypes
  BY DEF Before, OrderColumns, Cell, Selected, PastCursor, KeysFit, RowTypes

\* A walk that only moves on keeps what it has.
LEMMA WalkStays ==
    ASSUME NEW w \in Walkers, CursorTypes(w), Beginning(w), UNCHANGED <<keyed, rows>>,
           walk'[w].sort = walk[w].sort, walk'[w].filter = walk[w].filter, walk'[w].cursor = walk[w].cursor,
           walk'[w].got = walk[w].got, walk'[w].touched = walk[w].touched,
           walk'[w].pc = walk[w].pc \/ (walk[w].pc # "ended" /\ walk'[w].pc # "ended")
    PROVE  CursorTypes(w)' /\ Beginning(w)'
<1>1. Wanted(w)' = Wanted(w)  BY RowsStay DEF Wanted
<1>2. KeptAt(w)' = KeptAt(w) /\ Kept(w)' = Kept(w)  BY DEF Kept, KeptAt
<1>3. Ordered(w)' <=> Ordered(w)  BY RowsStay DEF Ordered
<1>4. CursorTypes(w)'  BY <1>1, <1>2, RowsStay DEF CursorTypes
<1>5. Beginning(w)'  BY <1>1, <1>2, <1>3, RowsStay DEF Beginning
<1> QED  BY <1>4, <1>5

LEMMA OtherWalksStay ==
    ASSUME NEW v \in Walkers, PageWalkInv(v), UNCHANGED <<keyed, rows>>, walk'[v] = walk[v]
    PROVE  PageWalkInv(v)'
<1>1. CursorTypes(v)' /\ Beginning(v)'  BY WalkStays DEF PageWalkInv
<1>2. WalkTypes(v)' /\ Shape(walk[v])'  BY DEF PageWalkInv, WalkTypes, Shape
<1> QED  BY <1>1, <1>2 DEF PageWalkInv

\* A walk that has nothing yet.
LEMMA NothingYet ==
    ASSUME NEW w \in Walkers, walk'[w].cursor = NoCursor, walk'[w].got = <<>>, walk'[w].pc # "ended"
    PROVE  CursorTypes(w)' /\ Beginning(w)'
<1>1. KeptAt(w)' = {} /\ Kept(w)' = {}  BY DEF KeptAt, Kept
<1>2. CursorTypes(w)'  BY <1>1, KeysetPagesAssumption DEF CursorTypes, NoCursor
<1> QED  BY <1>1, <1>2 DEF Beginning

LEMMA MovedKeeps ==
    ASSUME PagesInv, NEW w \in Walkers, NEW pc, NEW snapshot, Moved(w, pc, snapshot), UNCHANGED <<keyed, rows>>,
           pc \in {"schema", "loading", "check", "query", "failed"}, walk[w].pc \notin {"idle", "ended"},
           pc = "query" => snapshot = ApprovedSchema
    PROVE  PagesInv'
<1>1. /\ walk' = [v \in Walkers |-> walk'[v]] /\ \A v \in Walkers \ {w} : walk'[v] = walk[v]
      /\ Shape(walk'[w]) /\ walk'[w].pc = pc /\ walk'[w].snapshot = snapshot
      /\ walk'[w].sort = walk[w].sort /\ walk'[w].filter = walk[w].filter /\ walk'[w].cursor = walk[w].cursor
      /\ walk'[w].got = walk[w].got /\ walk'[w].seen = walk[w].seen /\ walk'[w].touched = walk[w].touched
  BY MovedIs DEF PagesInv, PageWalkInv
<1>2. CursorTypes(w)' /\ Beginning(w)'  BY <1>1, WalkStays DEF PagesInv, PageWalkInv
<1>3. WalkTypes(w)'  BY <1>1 DEF WalkTypes, PagesInv, PageWalkInv
<1>4. ASSUME NEW v \in Walkers PROVE PageWalkInv(v)'  BY <1>1, <1>2, <1>3, OtherWalksStay DEF PagesInv, PageWalkInv, Shape
<1> QED  BY <1>1, <1>4, RowsStay DEF PagesInv

LEMMA WalkBegins ==
    ASSUME PagesInv, NEW w \in Walkers, UNCHANGED <<keyed, rows>>, NEW new, Shape(new),
           walk' = [walk EXCEPT ![w] = new], new.pc \in {"idle", "schema"}, new.sort \in Sorts,
           new.filter.op \in {"all", "eq"}, new.filter.value # Absent,
           new.cursor = NoCursor, new.got = <<>>, new.seen = {}, new.pc = "idle" => new = NoWalk
    PROVE  PagesInv'
<1>1. walk' = [v \in Walkers |-> walk'[v]] /\ walk'[w] = new /\ \A v \in Walkers \ {w} : walk'[v] = walk[v]
  BY DEF PagesInv
<1>2. RowTypes'  BY RowsStay DEF PagesInv
<1>3. CursorTypes(w)' /\ Beginning(w)'  BY <1>1, NothingYet
<1>4. WalkTypes(w)'
  <2>1. new.got \in Seq(RowIds) /\ new.seen \subseteq {ApprovedSchema}  OBVIOUS
  <2> QED  BY Zenon, <1>1, <2>1 DEF WalkTypes
<1>5. ASSUME NEW v \in Walkers PROVE PageWalkInv(v)'  BY <1>1, <1>3, <1>4, OtherWalksStay DEF PagesInv, PageWalkInv
<1> QED  BY <1>1, <1>2, <1>5 DEF PagesInv

\* A page that was read continues what came before it.
LEMMA PageContinues ==
    ASSUME PagesInv, CursorsKeepValues, NEW w \in Walkers, walk[w].pc = "query", UNCHANGED <<keyed, rows, pageClock>>,
           NEW page \in Answers(walk[w].filter, walk[w].cursor, walk[w].sort), NEW next,
           next = NextCursor(page, walk[w].cursor, walk[w].sort, walk[w].snapshot),
           walk'[w].pc = (IF next.kind = "none" THEN "ended" ELSE "shown"), walk'[w].cursor = next,
           walk'[w].got = walk[w].got \o Window(page, 1, PageLimit),
           walk'[w].sort = walk[w].sort, walk'[w].filter = walk[w].filter, walk'[w].touched = walk[w].touched
    PROVE  CursorTypes(w)' /\ Beginning(w)' /\ walk'[w].got \in Seq(RowIds)
<1> DEFINE got == walk[w].got
           n == Len(got)
           W == Window(page, 1, PageLimit)
           k == Skipped(w)
           sort == walk[w].sort
           touched == walk[w].touched
<1>1. RowTypes /\ WalkTypes(w) /\ CursorTypes(w) /\ Beginning(w) /\ keyed \in BOOLEAN
  BY DEF PagesInv, PageWalkInv, RowTypes
<1>2. PICK q : /\ PageFrom(w, q, W, Len(page) > PageLimit)
               /\ Len(page) > PageLimit => page[PageLimit] = q[k + PageLimit]
  BY <1>1, PageIsFrom
<1>3. /\ k \in Nat /\ Len(W) \in Nat /\ Len(q) \in Nat /\ n \in Nat /\ PageLimit \in Nat \ {0} /\ MaxOffset \in Nat
      /\ Len(page) \in Nat /\ Len(W) <= PageLimit /\ q \in Seq(RowIds) /\ got \in Seq(RowIds) /\ W \in Seq(RowIds)
  BY <1>1, <1>2, PageIsFrom, KeysetPagesAssumption, SMTT(20) DEF PageFrom, CutFrom, WalkTypes
<1>4. CutFrom(w, q) /\ \A i \in 1..Len(W) : k + i <= Len(q) /\ W[i] = q[k + i]  BY <1>2 DEF PageFrom
<1>5. IF Len(page) > PageLimit THEN Len(W) = PageLimit ELSE Len(q) <= k + Len(W)  BY <1>2 DEF PageFrom
<1>6. /\ walk'[w].got \in Seq(RowIds) /\ Len(walk'[w].got) = n + Len(W)
      /\ \A i \in 1..n : walk'[w].got[i] = got[i]
      /\ \A i \in 1..Len(W) : walk'[w].got[n + i] = W[i]
  <2>1. /\ got \o W \in Seq(RowIds) /\ Len(got \o W) = n + Len(W)
        /\ \A i \in 1..(n + Len(W)) : (got \o W)[i] = IF i <= n THEN got[i] ELSE W[i - n]
    BY <1>3, ConcatProperties
  <2>3. \A i \in 1..n : i \in 1..(n + Len(W)) /\ i <= n  BY <1>3
  <2>4. walk'[w].got = got \o W  OBVIOUS
  <2> HIDE DEF got, W, n
  <2>5. ASSUME NEW i \in 1..Len(W) PROVE (got \o W)[n + i] = W[i]
    <3> SUFFICES ASSUME NEW l, l = n + i PROVE (got \o W)[l] = W[i]  OBVIOUS
    <3>1. l \in 1..(n + Len(W)) /\ ~(l <= n) /\ l - n = i  BY <1>3
    <3> QED  BY <2>1, <3>1
  <2>6. \A i \in 1..n : (got \o W)[i] = got[i]  BY <2>1, <2>3
  <2> QED  BY <2>1, <2>4, <2>5, <2>6
<1> HIDE DEF W, k, n
<1>7. \A i \in 1..Len(W) : k + i \in 1..Len(q)  BY <1>3, <1>4
<1>8. \A i \in 1..Len(q) : q[i] \in RowIds  BY <1>3
<1> DEFINE New == {W[i] : i \in {j \in 1..Len(W) : W[j] \notin touched}}
<1>9. Wanted(w)' = Wanted(w)  BY RowsStay DEF Wanted
<1>10. /\ \A i \in DOMAIN walk'[w].got : i \in 1..n \/ (i - n \in 1..Len(W) /\ i = n + (i - n))
       /\ \A i \in 1..n : i \in DOMAIN walk'[w].got /\ i \in DOMAIN got
       /\ \A i \in 1..Len(W) : n + i \in DOMAIN walk'[w].got
       /\ \A i \in DOMAIN got : i \in 1..n
  <2>1. DOMAIN walk'[w].got = 1..(n + Len(W)) /\ DOMAIN got = 1..n  BY <1>3, <1>6 DEF n
  <2> QED  BY <1>3, <2>1
<1>11. Kept(w)' = Kept(w) \cup New
  <2> DEFINE now == walk'[w].got
  <2>1. Kept(w)' = {now[i] : i \in {j \in DOMAIN now : now[j] \notin touched}}  BY DEF Kept, KeptAt
  <2>2. Kept(w) = {got[i] : i \in {j \in DOMAIN got : got[j] \notin touched}}  BY DEF Kept, KeptAt
  <2> HIDE DEF now, got, touched
  <2>3. ASSUME NEW a \in Kept(w)' PROVE a \in Kept(w) \cup New
    <3>1. PICK i \in DOMAIN now : a = now[i] /\ a \notin touched  BY <2>1
    <3>2. CASE i \in 1..n  BY <1>6, <1>10, <2>2, <3>1, <3>2 DEF now
    <3>3. CASE i - n \in 1..Len(W) /\ i = n + (i - n)
      <4>1. now[i] = W[i - n]  BY <1>6, <3>3 DEF now
      <4> QED  BY <3>1, <3>3, <4>1
    <3> QED  BY <1>10, <3>1, <3>2, <3>3 DEF now
  <2>4. Kept(w) \subseteq Kept(w)'  BY <1>6, <1>10, <2>1, <2>2, ZenonT(40) DEF now
  <2>5. ASSUME NEW a \in New PROVE a \in Kept(w)'
    <3>1. PICK i \in 1..Len(W) : a = W[i] /\ W[i] \notin touched  OBVIOUS
    <3>2. n + i \in DOMAIN now /\ now[n + i] = a  BY <1>6, <1>10, <3>1 DEF now
    <3> QED  BY <2>1, <3>1, <3>2
  <2> QED  BY <2>3, <2>4, <2>5
<1>12. ASSUME Ordered(w)
       PROVE  /\ \A a \in New : a \in Wanted(w) /\ a \notin Kept(w) /\ \E i \in 1..Len(q) : q[i] = a /\ k < i /\ i <= k + Len(W)
              /\ \A a \in Wanted(w) \ (Kept(w) \cup New) : \E i \in 1..Len(q) : q[i] = a /\ k + Len(W) < i
  <2>1. /\ \A i \in 1..Len(q) : q[i] \notin touched => q[i] \in Wanted(w) /\ (q[i] \in Kept(w) <=> i <= k)
        /\ \A a \in Wanted(w) \ Kept(w) : \E i \in 1..Len(q) : q[i] = a /\ i > k
    BY <1>1, <1>4, <1>12, Behind DEF k
  <2>2. ASSUME NEW a \in New
        PROVE  a \in Wanted(w) /\ a \notin Kept(w) /\ \E i \in 1..Len(q) : q[i] = a /\ k < i /\ i <= k + Len(W)
    <3>1. PICK i \in 1..Len(W) : a = W[i] /\ W[i] \notin touched  OBVIOUS
    <3>2. k + i \in 1..Len(q) /\ a = q[k + i] /\ k < k + i /\ k + i <= k + Len(W) /\ ~(k + i <= k)
      BY <1>3, <1>4, <1>7, <3>1
    <3> HIDE DEF New
    <3> QED  BY <2>1, <3>1, <3>2
  <2>3. ASSUME NEW a \in Wanted(w) \ (Kept(w) \cup New)
        PROVE  \E i \in 1..Len(q) : q[i] = a /\ k + Len(W) < i
    <3>1. PICK i \in 1..Len(q) : q[i] = a /\ i > k  BY <2>1
    <3>2. a \notin touched  BY DEF Wanted
    <3>3. CASE i <= k + Len(W)
      <4>1. i - k \in 1..Len(W) /\ k + (i - k) = i  BY <1>3, <3>1, <3>3
      <4>2. a = W[i - k]  BY <1>4, <3>1, <4>1
      <4> QED  BY <3>2, <4>1, <4>2
    <3>4. CASE ~(i <= k + Len(W))  BY <1>3, <3>1, <3>4
    <3> QED  BY <3>3, <3>4
  <2> QED  BY <2>2, <2>3
<1> HIDE DEF New
<1>13. Ordered(w)' <=> Ordered(w)  BY RowsStay DEF Ordered
<1>14. \A a, b \in Wanted(w) : a \in RowIds /\ b \in RowIds  BY DEF Wanted
<1>15. Beginning(w)'
  <2> SUFFICES ASSUME Ordered(w) PROVE Beginning(w)'  BY <1>13 DEF Beginning
  <2>1. \A i, j \in 1..Len(q) : i < j => Before(q[i], q[j], sort)  BY <1>1, <1>4, InOrder
  <2>2. /\ \A i, j \in KeptAt(w) : i < j => Before(got[i], got[j], sort)
        /\ Kept(w) \subseteq Wanted(w)
        /\ \A a \in Kept(w), b \in Wanted(w) \ Kept(w) : Before(a, b, sort)
    BY <1>1 DEF Beginning
  <2>3. /\ \A a \in New : a \in Wanted(w) /\ a \notin Kept(w) /\ \E i \in 1..Len(q) : q[i] = a /\ k < i /\ i <= k + Len(W)
        /\ \A a \in Wanted(w) \ (Kept(w) \cup New) : \E i \in 1..Len(q) : q[i] = a /\ k + Len(W) < i
    BY <1>12
  <2>4. ASSUME NEW i \in KeptAt(w)', NEW j \in KeptAt(w)', i < j
        PROVE  Before(walk'[w].got[i], walk'[w].got[j], sort)
    <3>0. i \in DOMAIN walk'[w].got /\ j \in DOMAIN walk'[w].got /\ walk'[w].got[i] \notin touched /\ walk'[w].got[j] \notin touched
      BY DEF KeptAt
    <3>1. CASE i \in 1..n /\ j \in 1..n
      <4>1. i \in KeptAt(w) /\ j \in KeptAt(w)  BY <1>6, <1>10, <3>0, <3>1 DEF KeptAt
      <4> QED  BY <1>6, <2>2, <2>4, <3>1, <4>1
    <3>2. CASE i \in 1..n /\ j - n \in 1..Len(W) /\ j = n + (j - n)
      <4>1. walk'[w].got[i] \in Kept(w)  BY <1>6, <1>10, <3>0, <3>2 DEF Kept, KeptAt
      <4>2. walk'[w].got[j] = W[j - n] /\ W[j - n] \notin touched
        <5>1. PICK l \in 1..Len(W) : l = j - n /\ j = n + l  BY <3>2
        <5>2. walk'[w].got[j] = W[l]  BY <1>6, <5>1
        <5> QED  BY <3>0, <5>1, <5>2
      <4>3. walk'[w].got[j] \in New  BY <3>2, <4>2 DEF New
      <4> QED  BY <2>2, <2>3, <4>1, <4>3
    <3>3. CASE i - n \in 1..Len(W) /\ i = n + (i - n) /\ j - n \in 1..Len(W) /\ j = n + (j - n)
      <4>1. walk'[w].got[i] = q[k + (i - n)] /\ walk'[w].got[j] = q[k + (j - n)]  BY <1>4, <1>6, <3>3
      <4>2. k + (i - n) \in 1..Len(q) /\ k + (j - n) \in 1..Len(q)  BY <1>7, <3>3
      <4>3. k + (i - n) < k + (j - n)  BY <1>3, <2>4, <3>3
      <4> QED  BY <2>1, <4>1, <4>2, <4>3
    <3>4. ~(i - n \in 1..Len(W) /\ i = n + (i - n) /\ j \in 1..n)  BY <1>3, <2>4
    <3> QED  BY <1>10, <3>0, <3>1, <3>2, <3>3, <3>4
  <2>5. Kept(w)' \subseteq Wanted(w)'  BY <1>9, <1>11, <2>2, <2>3
  <2>6. ASSUME NEW a \in Kept(w)', NEW b \in Wanted(w)' \ Kept(w)'
        PROVE  Before(a, b, sort)
    <3>1. CASE a \in Kept(w)  BY <1>9, <1>11, <2>2, <3>1
    <3>2. CASE a \in New
      <4>1. PICK i \in 1..Len(q) : q[i] = a /\ i <= k + Len(W)  BY <2>3, <3>2
      <4>2. PICK j \in 1..Len(q) : q[j] = b /\ k + Len(W) < j  BY <1>9, <1>11, <2>3
      <4>3. i < j  BY <1>3, <4>1, <4>2
      <4> QED  BY <2>1, <4>1, <4>2, <4>3
    <3> QED  BY <1>11, <3>1, <3>2
  <2>7. ASSUME walk'[w].pc = "ended", keyed \/ Len(walk'[w].got) <= MaxOffset
        PROVE  Wanted(w)' \subseteq Kept(w)'
    <3>1. ~(Len(page) > PageLimit)
      <4> SUFFICES ASSUME Len(page) > PageLimit PROVE FALSE  OBVIOUS
      <4>1. next.kind = "none" /\ ~(Len(page) <= PageLimit)  BY <1>3, <2>7
      <4>2. ~keyed  BY <4>1 DEF NextCursor
      <4> DEFINE offset == PageLimit + (IF walk[w].cursor.kind = "offset" THEN walk[w].cursor.offset ELSE 0)
      <4>3. ~(offset <= MaxOffset)  BY <4>1, <4>2 DEF NextCursor
      <4>4. offset = PageLimit + n
        <5>1. walk[w].cursor.kind \in {"none", "offset"} /\ (walk[w].cursor.kind = "none" => got = <<>>)
              /\ (walk[w].cursor.kind = "offset" => walk[w].cursor.offset = Len(got))
          BY <1>1, <4>2 DEF CursorTypes
        <5> QED  BY <5>1 DEF n
      <4> HIDE DEF offset
      <4>5. Len(walk'[w].got) = n + PageLimit  BY <1>5, <1>6
      <4> QED  BY <1>3, <2>7, <4>2, <4>3, <4>4, <4>5
    <3>2. Len(q) <= k + Len(W)  BY <1>5, <3>1
    <3>3. \A i \in 1..Len(q) : ~(k + Len(W) < i)  BY <1>3, <3>2
    <3> QED  BY <1>9, <1>11, <2>3, <3>3
  <2>8. \A i, j \in KeptAt(w)' : i < j => Before(walk'[w].got[i], walk'[w].got[j], sort)  BY <2>4
  <2>9. \A a \in Kept(w)', b \in Wanted(w)' \ Kept(w)' : Before(a, b, sort)  BY <2>6
  <2> HIDE DEF got
  <2> QED  BY <2>5, <2>7, <2>8, <2>9, RowsStay DEF Beginning
<1>16. CursorTypes(w)'
  <2>1. ~keyed => n <= MaxOffset /\ (IF walk[w].cursor.kind = "offset" THEN walk[w].cursor.offset ELSE 0) = n
    <3> SUFFICES ASSUME ~keyed PROVE n <= MaxOffset /\ (IF walk[w].cursor.kind = "offset" THEN walk[w].cursor.offset ELSE 0) = n
      OBVIOUS
    <3>1. /\ walk[w].cursor.kind \in {"none", "offset"} /\ (walk[w].cursor.kind = "none" => got = <<>>)
          /\ walk[w].cursor.kind = "offset" => walk[w].cursor.offset = Len(got) /\ Len(got) <= MaxOffset
      BY <1>1 DEF CursorTypes
    <3> QED  BY <1>3, <3>1 DEF n
  <2>2. ~keyed => Len(walk'[w].got) <= MaxOffset + PageLimit  BY <1>3, <1>6, <2>1
  <2>3. CASE Len(page) <= PageLimit
    <3>1. next = NoCursor  BY <2>3 DEF NextCursor
    <3> QED  BY <2>2, <3>1 DEF CursorTypes, NoCursor
  <2>4. CASE ~(Len(page) <= PageLimit) /\ ~keyed
    <3> DEFINE offset == PageLimit + (IF walk[w].cursor.kind = "offset" THEN walk[w].cursor.offset ELSE 0)
    <3>1. next = IF offset <= MaxOffset
                 THEN [kind |-> "offset", sort |-> sort, schema |-> walk[w].snapshot, expires |-> pageClock + TokenLife, offset |-> offset]
                 ELSE NoCursor
      BY <2>4 DEF NextCursor
    <3>2. offset = Len(walk'[w].got)
      <4>1. offset = PageLimit + n  BY <2>1, <2>4
      <4> HIDE DEF offset
      <4> QED  BY <1>3, <1>5, <1>6, <2>4, <4>1
    <3> HIDE DEF offset
    <3>3. CASE offset <= MaxOffset
      <4>1. next.kind = "offset" /\ next.offset = offset  BY <3>1, <3>3
      <4> QED  BY <2>2, <2>4, <3>2, <3>3, <4>1 DEF CursorTypes
    <3>4. CASE ~(offset <= MaxOffset)
      <4>1. next = NoCursor  BY <3>1, <3>4
      <4> QED  BY <2>2, <4>1 DEF CursorTypes, NoCursor
    <3> QED  BY <3>3, <3>4
  <2>5. CASE ~(Len(page) <= PageLimit) /\ keyed
    <3> DEFINE last == q[PageLimit]
               columns == OrderColumns(sort)
               keys == [i \in DOMAIN columns |-> [column |-> columns[i], value |-> InCursor(columns[i], Cell(last, columns[i]))]]
    <3>1. k = 0 /\ Len(W) = PageLimit /\ Len(page) > PageLimit  BY <1>3, <1>5, <2>5 DEF k, Skipped
    <3>2. PageLimit \in 1..Len(q) /\ page[PageLimit] = last
      <4>1. PageLimit \in 1..Len(W) /\ k + PageLimit = PageLimit  BY <1>3, <3>1
      <4> QED  BY <1>2, <1>7, <3>1, <4>1 DEF k
    <3>3. next = [kind |-> "keyset", sort |-> sort, schema |-> walk[w].snapshot, expires |-> pageClock + TokenLife, keys |-> keys]
      BY <2>5, <3>2 DEF NextCursor
    <3>4. next.kind = "keyset" /\ next.keys = keys  BY <3>3
    <3>5. last \in RowIds /\ rows[last] # Absent /\ sort \in Sorts
          /\ (walk[w].cursor.kind = "keyset" => PastCursor(last, walk[w].cursor.keys, sort.direction))
      BY <1>1, <1>4, <1>8, <3>2 DEF CutFrom, Selected, WalkTypes
    <3>6. KeysFit(keys, sort) /\ \A id : PastCursor(id, keys, sort.direction) <=> Before(last, id, sort)
      BY <1>1, <2>5, <3>5, CursorOfRow
    <3> HIDE DEF keys, last
    <3>7. Ordered(w)  BY <2>5 DEF Ordered
    <3>8. ASSUME NEW a \in Wanted(w), a \in Kept(w) PROVE ~Before(last, a, sort)
      <4>1. walk[w].cursor.kind = "keyset"
        <5>1. walk[w].cursor.kind = "none" => Kept(w) = {}  BY <1>1 DEF CursorTypes, Kept, KeptAt
        <5> QED  BY <1>1, <2>5, <3>8, <5>1 DEF CursorTypes
      <4>2. ~PastCursor(a, walk[w].cursor.keys, sort.direction) /\ KeysFit(walk[w].cursor.keys, sort)
        BY <1>1, <3>8, <4>1 DEF CursorTypes
      <4>3. Before(a, last, sort)  BY <1>1, <1>14, <3>5, <4>1, <4>2, CursorParts
      <4> QED  BY <1>1, <1>14, <3>5, <4>3, StrictOrder
    <3>9. ASSUME NEW a \in New PROVE ~Before(last, a, sort)
      <4>1. PICK i \in 1..Len(q) : q[i] = a /\ i <= PageLimit  BY <1>12, <3>1, <3>7
      <4>2. i = PageLimit \/ i < PageLimit  BY <1>3, <4>1
      <4> QED  BY <1>1, <1>4, <3>2, <3>5, <4>1, <4>2, StrictOrder DEF CutFrom, last
    <3>10. ASSUME NEW a \in Wanted(w) \ (Kept(w) \cup New) PROVE Before(last, a, sort)
      <4>1. PICK i \in 1..Len(q) : q[i] = a /\ PageLimit < i  BY <1>12, <3>1, <3>7
      <4> QED  BY <1>1, <1>4, <3>2, <3>7, <4>1, InOrder DEF last
    <3>11. \A a \in Wanted(w)' : Before(last, a, sort) <=> a \notin Kept(w)'  BY <1>9, <1>11, <3>8, <3>9, <3>10
    <3>12. \A a \in Wanted(w)' : PastCursor(a, next.keys, walk[w].sort.direction)' <=> a \notin Kept(w)'
      BY <3>4, <3>6, <3>11, RowsStay
    <3>13. KeysFit(next.keys, walk[w].sort)'  BY <3>4, <3>6, RowsStay
    <3> QED  BY <2>5, <3>4, <3>12, <3>13 DEF CursorTypes
  <2> QED  BY <1>1, <2>3, <2>4, <2>5
<1> QED  BY <1>6, <1>15, <1>16

LEMMA ReadsPage ==
    ASSUME PagesInv, CursorsKeepValues, NEW w \in Walkers, ReadPage(w)
    PROVE  PagesInv'
<1>1. walk[w].pc = "query" /\ UNCHANGED <<keyed, rows, live, pageClock>>  BY DEF ReadPage, Environment
<1>2. CASE Moved(w, "failed", 0)  BY <1>1, <1>2, MovedKeeps
<1>3. CASE ~Moved(w, "failed", 0)
  <2>1. LiveSchemaHolds(w)  BY <1>3 DEF ReadPage
  <2>2. PICK page \in Answers(walk[w].filter, walk[w].cursor, walk[w].sort) :
           LET next == NextCursor(page, walk[w].cursor, walk[w].sort, walk[w].snapshot)
           IN  walk' = [walk EXCEPT ![w].pc = IF next.kind = "none" THEN "ended" ELSE "shown",
                                    ![w].cursor = next, ![w].snapshot = 0,
                                    ![w].got = @ \o Window(page, 1, PageLimit),
                                    ![w].seen = @ \cup {live}]
    BY <1>3 DEF ReadPage
  <2> DEFINE next == NextCursor(page, walk[w].cursor, walk[w].sort, walk[w].snapshot)
             over == IF next.kind = "none" THEN "ended" ELSE "shown"
             more == walk[w].got \o Window(page, 1, PageLimit)
             ever == walk[w].seen \cup {live}
             new  == [walk[w] EXCEPT !.pc = over, !.cursor = next, !.snapshot = 0, !.got = more, !.seen = ever]
  <2>3. walk' = [walk EXCEPT ![w] = new]  BY <2>2
  <2> HIDE DEF next, over, more, ever
  <2>4. /\ new.pc = over /\ new.cursor = next /\ new.snapshot = 0 /\ new.got = more /\ new.seen = ever
        /\ new.sort = walk[w].sort /\ new.filter = walk[w].filter /\ new.touched = walk[w].touched /\ Shape(new)
    BY DEF PagesInv, PageWalkInv, Shape
  <2> HIDE DEF new
  <2>5. walk' = [v \in Walkers |-> walk'[v]] /\ walk'[w] = new /\ \A v \in Walkers \ {w} : walk'[v] = walk[v]
    BY <2>3 DEF PagesInv
  <2>6. CursorTypes(w)' /\ Beginning(w)' /\ walk'[w].got \in Seq(RowIds)
    BY <1>1, <2>4, <2>5, PageContinues DEF next, over, more
  <2>7. live = ApprovedSchema /\ over \in {"ended", "shown"}
    BY <1>1, <2>1 DEF LiveSchemaHolds, PagesInv, PageWalkInv, WalkTypes, over
  <2>8. WalkTypes(w)'  BY <2>4, <2>5, <2>6, <2>7 DEF WalkTypes, PagesInv, PageWalkInv, ever
  <2>9. ASSUME NEW v \in Walkers PROVE PageWalkInv(v)'  BY <1>1, <2>4, <2>5, <2>6, <2>8, OtherWalksStay DEF PagesInv, PageWalkInv
  <2> QED  BY <1>1, <2>5, <2>9, RowsStay DEF PagesInv
<1> QED  BY <1>2, <1>3

\* What is written to a row changes nothing between the other rows.
LEMMA OtherRows ==
    ASSUME NEW id, UNCHANGED keyed, \A a \in RowIds \ {id} : rows'[a] = rows[a]
    PROVE  /\ \A a, b \in RowIds \ {id} : \A s : Before(a, b, s)' <=> Before(a, b, s)
           /\ \A a \in RowIds \ {id} : \A f : Selected(a, f)' <=> Selected(a, f)
           /\ \A a \in RowIds \ {id} : \A k, d : PastCursor(a, k, d)' <=> PastCursor(a, k, d)
           /\ \A k, s : KeysFit(k, s)' <=> KeysFit(k, s)
<1>1. \A a \in RowIds \ {id} : \A c : Cell(a, c)' = Cell(a, c)  BY DEF Cell
<1>2. \A s : OrderColumns(s)' = OrderColumns(s)  BY DEF OrderColumns
<1>3. \A a, b \in RowIds \ {id} : \A s : Before(a, b, s)' <=> Before(a, b, s)  BY <1>1, <1>2 DEF Before
<1>4. \A a \in RowIds \ {id} : \A k, d : PastCursor(a, k, d)' <=> PastCursor(a, k, d)  BY <1>1 DEF PastCursor
<1> QED  BY <1>2, <1>3, <1>4 DEF Selected, KeysFit

LEMMA WritesRow ==
    ASSUME PagesInv, NEW id \in RowIds, NEW value \in SortValues \cup {Null, Absent}, WriteRow(id, value)
    PROVE  PagesInv'
<1>1. RowTypes' /\ UNCHANGED keyed /\ \A a \in RowIds \ {id} : rows'[a] = rows[a]  BY DEF WriteRow, PagesInv, RowTypes
<1>2. ASSUME NEW w \in Walkers PROVE PageWalkInv(w)'
  <2> DEFINE more == IF walk[w].pc = "idle" THEN walk[w].touched ELSE walk[w].touched \cup {id}
             new  == [walk[w] EXCEPT !.touched = more]
  <2>1. walk'[w] = new  BY DEF WriteRow
  <2> HIDE DEF more
  <2>2. /\ new.pc = walk[w].pc /\ new.cursor = walk[w].cursor /\ new.snapshot = walk[w].snapshot /\ new.got = walk[w].got
        /\ new.seen = walk[w].seen /\ new.sort = walk[w].sort /\ new.filter = walk[w].filter /\ new.touched = more /\ Shape(new)
        /\ more = walk[w].touched => new = walk[w]
    BY DEF PagesInv, PageWalkInv, Shape
  <2> HIDE DEF new
  <2>3. WalkTypes(w)'  BY <2>1, <2>2 DEF PagesInv, PageWalkInv, WalkTypes, more
  <2>4. CASE walk[w].pc = "idle"
    <3>1. walk[w] = NoWalk  BY <2>4 DEF PagesInv, PageWalkInv, WalkTypes
    <3>2. walk'[w].cursor = NoCursor /\ walk'[w].got = <<>> /\ walk'[w].pc # "ended"  BY <2>1, <2>2, <3>1 DEF NoWalk
    <3> QED  BY <2>1, <2>2, <2>3, <3>2, NothingYet DEF PageWalkInv
  <2>5. CASE walk[w].pc # "idle"
    <3>1. more = walk[w].touched \cup {id}  BY <2>5 DEF more
    <3>2. \A a \in Wanted(w)' : a \in RowIds \ {id} /\ a \in Wanted(w)
      BY <1>1, <2>1, <2>2, <3>1, OtherRows DEF Wanted
    <3>3. \A a \in Wanted(w) : a # id => a \in Wanted(w)'  BY <1>1, <2>1, <2>2, <3>1, OtherRows DEF Wanted
    <3>4. \A i : i \in KeptAt(w)' <=> i \in KeptAt(w) /\ walk[w].got[i] # id  BY <2>1, <2>2, <3>1 DEF KeptAt
    <3>5. \A a : a \in Kept(w)' <=> a \in Kept(w) /\ a # id  BY <2>1, <2>2, <3>4 DEF Kept
    <3>6. CursorTypes(w)'  BY <1>1, <2>1, <2>2, <3>2, <3>5, OtherRows DEF PagesInv, PageWalkInv, CursorTypes
    <3>7. Beginning(w)'
      <4> SUFFICES ASSUME Ordered(w)' PROVE Beginning(w)'  BY DEF Beginning
      <4>1. keyed /\ Ordered(w)  BY <1>1, <2>1, <2>2, <3>1 DEF Ordered
      <4>2. /\ \A i, j \in KeptAt(w) : i < j => Before(walk[w].got[i], walk[w].got[j], walk[w].sort)
            /\ Kept(w) \subseteq Wanted(w)
            /\ \A a \in Kept(w), b \in Wanted(w) \ Kept(w) : Before(a, b, walk[w].sort)
            /\ walk[w].pc = "ended" => Wanted(w) \subseteq Kept(w)
        BY <4>1 DEF PagesInv, PageWalkInv, Beginning
      <4>3. \A i \in KeptAt(w)' : walk[w].got[i] \in RowIds \ {id}  BY <3>4 DEF PagesInv, PageWalkInv, WalkTypes, KeptAt
      <4>4. \A i, j \in KeptAt(w)' : i < j => Before(walk[w].got[i], walk[w].got[j], walk[w].sort)'
        BY <1>1, <2>1, <2>2, <3>4, <4>2, <4>3, OtherRows
      <4>5. Kept(w)' \subseteq Wanted(w)'  BY <3>3, <3>5, <4>2
      <4>6. \A a \in Kept(w)', b \in Wanted(w)' \ Kept(w)' : Before(a, b, walk[w].sort)'
        <5> SUFFICES ASSUME NEW a \in Kept(w)', NEW b \in Wanted(w)' \ Kept(w)' PROVE Before(a, b, walk[w].sort)'
          OBVIOUS
        <5>1. a \in Kept(w) /\ a \in RowIds \ {id} /\ b \in Wanted(w) \ Kept(w) /\ b \in RowIds \ {id}
          BY <3>2, <3>5, <4>5
        <5> QED  BY <1>1, <2>1, <2>2, <4>2, <5>1, OtherRows
      <4>7. walk'[w].pc = "ended" => Wanted(w)' \subseteq Kept(w)'  BY <2>1, <2>2, <3>2, <3>5, <4>2
      <4> QED  BY <4>4, <4>5, <4>6, <4>7 DEF Beginning
    <3> QED  BY <2>1, <2>2, <2>3, <3>6, <3>7 DEF PageWalkInv
  <2> QED  BY <2>4, <2>5
<1> QED  BY <1>1, <1>2 DEF WriteRow, PagesInv

\* The first half of AnswersAreExact for every relation whose sort values survive a
\* cursor, as all but timestamps do: a walk that turns pages gets every row nobody
\* wrote meanwhile exactly once and in order, whatever is written to the others.
THEOREM PagesExact == ASSUME CursorsKeepValues PROVE PagesSpec => []PagesAreExact
<1>1. PagesInit => PagesInv
  <2> SUFFICES ASSUME PagesInit PROVE PagesInv  OBVIOUS
  <2>1. RowTypes /\ walk = [w \in Walkers |-> NoWalk]  BY DEF PagesInit, RowTypes
  <2>2. ASSUME NEW w \in Walkers PROVE PageWalkInv(w)
    <3>1. walk[w] = NoWalk /\ NoWalk.got = <<>> /\ Shape(NoWalk)  BY <2>1 DEF NoWalk, Shape
    <3>2. KeptAt(w) = {} /\ Kept(w) = {}  BY <3>1 DEF Kept, KeptAt
    <3>3. CursorTypes(w) /\ Beginning(w)
      BY <3>1, <3>2, KeysetPagesAssumption DEF CursorTypes, Beginning, NoWalk, NoCursor
    <3>4. WalkTypes(w)  BY <3>1 DEF WalkTypes, NoWalk, Sorts, Everything, Null, Absent
    <3> QED  BY <3>1, <3>3, <3>4 DEF PageWalkInv
  <2> QED  BY <2>1, <2>2 DEF PagesInv
<1>2. PagesInv /\ [PagesNext]_pageVars => PagesInv'
  <2> SUFFICES ASSUME PagesInv, [PagesNext]_pageVars PROVE PagesInv'  OBVIOUS
  <2>1. ASSUME NEW w \in Walkers, NEW sort \in {NoSort} \cup [column : {"value"}, direction : SortDirections], StartWalk(w, sort)
        PROVE  PagesInv'
    <3> DEFINE new == [walk[w] EXCEPT !.pc = "schema", !.sort = sort]
    <3>1. walk[w] = NoWalk /\ walk' = [walk EXCEPT ![w] = new] /\ UNCHANGED <<keyed, rows>>
      BY <2>1 DEF StartWalk, Environment, PagesInv, PageWalkInv, WalkTypes
    <3>2. sort \in Sorts  BY KeysetPagesAssumption DEF Sorts
    <3>3. Shape(walk[w]) /\ walk[w].filter.op = "all" /\ walk[w].filter.value # Absent /\ walk[w].cursor = NoCursor
          /\ walk[w].got = <<>> /\ walk[w].seen = {}
      BY <3>1 DEF PagesInv, PageWalkInv, NoWalk, Everything, Null, Absent
    <3>4. new.pc = "schema" /\ new.sort = sort /\ new.filter = walk[w].filter /\ new.cursor = NoCursor /\ new.got = <<>>
          /\ new.seen = {} /\ Shape(new)
      BY <3>3 DEF Shape
    <3> HIDE DEF new
    <3> QED  BY <3>1, <3>2, <3>3, <3>4, WalkBegins
  <2>2. ASSUME NEW w \in Walkers, NEW value \in SortValues, FollowReference(w, value) PROVE PagesInv'
    <3> DEFINE filter == [op |-> "eq", value |-> value]
               expires == pageClock + TokenLife
               new == [walk[w] EXCEPT !.pc = "schema", !.filter = filter, !.refExpires = expires]
    <3>1. walk[w] = NoWalk /\ walk' = [walk EXCEPT ![w] = new] /\ UNCHANGED <<keyed, rows>>
      BY <2>2 DEF FollowReference, Environment, PagesInv, PageWalkInv, WalkTypes
    <3>2. filter.op = "eq" /\ filter.value # Absent  BY KeysetPagesAssumption DEF Absent
    <3> HIDE DEF filter, expires
    <3>3. Shape(walk[w]) /\ walk[w].sort \in Sorts /\ walk[w].cursor = NoCursor /\ walk[w].got = <<>> /\ walk[w].seen = {}
      BY <3>1 DEF PagesInv, PageWalkInv, NoWalk, Sorts
    <3>4. new.pc = "schema" /\ new.sort \in Sorts /\ new.filter = filter /\ new.cursor = NoCursor /\ new.got = <<>>
          /\ new.seen = {} /\ Shape(new)
      BY <3>3 DEF Shape
    <3> HIDE DEF new
    <3> QED  BY <3>1, <3>2, <3>4, WalkBegins
  <2>3. ASSUME NEW w \in Walkers, ReadSchema(w) PROVE PagesInv'  BY <2>3, MovedKeeps DEF ReadSchema, Environment
  <2>4. ASSUME NEW w \in Walkers, StoreSchema(w) PROVE PagesInv'  BY <2>4, MovedKeeps DEF StoreSchema, Environment
  <2>5. ASSUME NEW w \in Walkers, CheckRequest(w) PROVE PagesInv'  BY <2>5, MovedKeeps DEF CheckRequest, Environment
  <2>6. ASSUME NEW w \in Walkers, ReadPage(w) PROVE PagesInv'  BY <2>6, ReadsPage
  <2>7. ASSUME NEW w \in Walkers, AskAgain(w) PROVE PagesInv'  BY <2>7, MovedKeeps DEF AskAgain, Environment
  <2>8. ASSUME NEW w \in Walkers, StartOver(w) PROVE PagesInv'
    <3>1. walk' = [walk EXCEPT ![w] = NoWalk] /\ UNCHANGED <<keyed, rows>>  BY <2>8 DEF StartOver, Environment
    <3>2. NoWalk.pc = "idle" /\ NoWalk.sort \in Sorts /\ NoWalk.filter.op = "all" /\ NoWalk.filter.value # Absent
          /\ NoWalk.cursor = NoCursor /\ NoWalk.got = <<>> /\ NoWalk.seen = {} /\ Shape(NoWalk)
      BY DEF NoWalk, Shape, Sorts, Everything, Null, Absent
    <3> QED  BY <3>1, <3>2, WalkBegins
  <2>9. ASSUME NEW id \in RowIds, NEW value \in SortValues \cup {Null, Absent}, WriteRow(id, value) PROVE PagesInv'
    BY <2>9, WritesRow
  <2>10. ASSUME UNCHANGED <<keyed, rows, walk>> PROVE PagesInv'  BY <2>10, OtherWalksStay, RowsStay DEF PagesInv
  <2> QED  BY <2>1, <2>2, <2>3, <2>4, <2>5, <2>6, <2>7, <2>8, <2>9, <2>10 DEF PagesNext, ChangeSchema, PageTick, pageVars
<1>3. PagesInv => PagesAreExact
  BY DEF PagesInv, PageWalkInv, PagesAreExact, Exact, Beginning, WalkTypes, CursorTypes, Kept, KeptAt, Wanted
<1> QED  BY <1>1, <1>2, <1>3, PTL DEF PagesSpec

\* A draft writes what was asked for and nothing else, and pages skip and repeat
\* nothing, for any sources, changes, rows, writes and orders, of values a cursor
\* keeps (validationService.ts, adapters/types.ts; rowReader.ts, cursorCodec.ts).
THEOREM AnswersExact == ASSUME CursorsKeepValues PROVE VariableDraftSpec /\ PagesSpec => []AnswersAreExact
<1>1. DraftIsExact /\ PagesAreExact => AnswersAreExact  BY DEF AnswersAreExact
<1> QED  BY <1>1, DraftExact, PagesExact, PTL
======

------ MODULE ReleaseActivation ------
(* Putting a release into service: deploy/ops prepare-release.sh and
   activate-release.sh.  A release is staged and renamed; the activation
   stops the writers, installs units and the virtual host, moves the
   pointer "current" and starts the services, and undoes all of it when a
   step fails.  Meanwhile systemd restarts a service that dies, with the
   units it has loaded and the release the pointer then names.  Every
   script may be killed and started again; the operator runs one at a time. *)
EXTENDS Integers, Sequences, SequencesExt

CONSTANTS
    Releases,         \* commits
    FirstRelease,     \* the release in service at first, or "none"
    Backends,         \* services restarted one after the other; the first migrates
    Writers,          \* services stopped first and started last
    MaxReleaseMishaps   \* failing commands, dying services and killed scripts

Managed == Backends \o Writers
Configs == Managed \o <<"vhost">>

\* The services and the virtual host are different names.
ASSUME ReleaseActivationAssumption ==
    /\ "none" \notin Releases /\ FirstRelease \in Releases \cup {"none"}
    /\ Backends \in Seq(ToSet(Backends)) /\ Writers \in Seq(ToSet(Writers))
    /\ Backends # <<>> /\ Writers # <<>> /\ IsInjective(Configs)
    /\ MaxReleaseMishaps \in Nat

VARIABLES
    staging, prepared,    \* releases being copied, and complete ones
    pointer,              \* current
    installed,            \* config -> the release it comes from
    loaded,               \* unit, or vhost -> what systemd, or nginx, works with
    services,              \* service -> [state, code, unit]
    migrated,             \* releases whose migrations have run
    script,               \* the activation: [pc, at]
    transaction,          \* what it found: [target, previous, saved, active, before]
    attempted,            \* services it started, or tried to
    undoFailed,           \* a step of the rollback failed
    strays,               \* history: services that systemd restarted meanwhile
    releaseMishaps

world == <<installed, loaded, services, migrated>>
progress == <<transaction, attempted, undoFailed, strays>>
releaseVars == <<staging, prepared, pointer, world, script, progress, releaseMishaps>>

ManagedSet == ToSet(Managed)
Down == [state |-> "down", code |-> "none", unit |-> "none"]

ReleaseInit ==
    /\ staging = {} /\ prepared = IF FirstRelease = "none" THEN {} ELSE {FirstRelease}
    /\ pointer = FirstRelease
    /\ installed = [c \in ToSet(Configs) |-> FirstRelease] /\ loaded = installed
    /\ services = [s \in ManagedSet |->
          IF FirstRelease = "none" \/ s = Backends[1] THEN Down
          ELSE [state |-> "up", code |-> FirstRelease, unit |-> FirstRelease]]
    /\ migrated = prepared /\ script = [pc |-> "idle", at |-> 1]
    /\ transaction = [target |-> "none", previous |-> "none", saved |-> installed, active |-> {}, before |-> services]
    /\ attempted = {} /\ undoFailed = FALSE /\ strays = {}
    /\ releaseMishaps = 0

-----
\* prepare-release: a directory of another name is filled, verified and renamed;
\* an existing release is refused.
StageRelease(r) ==
    /\ r \notin prepared /\ staging = {}
    /\ staging' = {r}
    /\ UNCHANGED <<prepared, pointer, world, script, progress, releaseMishaps>>

PublishRelease(r) ==
    /\ r \in staging
    /\ \/ prepared' = prepared \cup {r} /\ staging' = {} /\ UNCHANGED releaseMishaps
       \/ releaseMishaps < MaxReleaseMishaps /\ releaseMishaps' = releaseMishaps + 1
          /\ staging' = {} /\ UNCHANGED prepared
    /\ UNCHANGED <<pointer, world, script, progress>>

-----
\* activate-release.
Goto(pc) == script' = [pc |-> pc, at |-> 1]
NextOf(seq, pc) == IF script.at = Len(seq) THEN Goto(pc) ELSE script' = [pc |-> script.pc, at |-> script.at + 1]
Rest == UNCHANGED <<staging, prepared, transaction, strays>>
Recorded == UNCHANGED <<attempted, undoFailed>> /\ Rest

\* What is installed, and which services are active, is recorded.  A service
\* that systemd is about to restart is not active.
StartActivation(r) ==
    /\ script.pc \in {"idle", "activated", "rolledback", "killed"} /\ r \in prepared
    /\ Goto("stop")
    /\ transaction' = [target |-> r, previous |-> pointer, saved |-> installed,
                       active |-> {s \in ManagedSet : services[s].state = "up"}, before |-> services]
    /\ attempted' = {} /\ undoFailed' = FALSE /\ strays' = {}
    /\ UNCHANGED <<staging, prepared, pointer, world, releaseMishaps>>

\* Mutant of StopWriter: the stop is asked for and not awaited.
StopWriterUnawaited ==
    /\ script.pc = "stop" /\ NextOf(Writers, "install")
    /\ UNCHANGED <<pointer, world, releaseMishaps>> /\ Recorded

StopWriter ==
    /\ script.pc = "stop"
    /\ services' = [services EXCEPT ![Writers[script.at]] = Down]
    /\ NextOf(Writers, "install")
    /\ UNCHANGED <<pointer, installed, loaded, migrated, releaseMishaps>> /\ Recorded

InstallConfig ==
    /\ script.pc = "install"
    /\ installed' = [installed EXCEPT ![Configs[script.at]] = transaction.target]
    /\ NextOf(Configs, "reload")
    /\ UNCHANGED <<pointer, loaded, services, migrated, releaseMishaps>> /\ Recorded

\* systemd reads the units again, not nginx the virtual host.
Reloaded == [c \in ToSet(Configs) |-> IF c = "vhost" THEN loaded[c] ELSE installed[c]]
DaemonReload ==
    /\ script.pc = "reload" /\ loaded' = Reloaded /\ Goto("swap")
    /\ UNCHANGED <<pointer, installed, services, migrated, releaseMishaps>> /\ Recorded

\* A link of another name is renamed over the pointer.
SwapPointer ==
    /\ script.pc = "swap" /\ pointer' = transaction.target /\ Goto("backends")
    /\ UNCHANGED <<world, releaseMishaps>> /\ Recorded

\* A service needs its unit and its code.
Startable(s) == pointer # "none" /\ loaded[s] # "none"
Started(s) == [state |-> "up", code |-> pointer, unit |-> loaded[s]]

\* The migration is a oneshot service: restart waits for its end.
RestartBackend ==
    LET s == Backends[script.at]
    IN  /\ script.pc = "backends"
        /\ IF script.at = 1 THEN migrated' = migrated \cup {pointer} /\ UNCHANGED services
           ELSE services' = [services EXCEPT ![s] = Started(s)] /\ UNCHANGED migrated
        /\ NextOf(Backends, "writers") /\ attempted' = attempted \cup {s}
        /\ UNCHANGED <<pointer, installed, loaded, undoFailed, releaseMishaps>> /\ Rest

StartWriter ==
    LET s == Writers[script.at]
    IN  /\ script.pc = "writers"
        /\ services' = [services EXCEPT ![s] = IF @.state = "up" THEN @ ELSE Started(s)]
        /\ NextOf(Writers, "nginx") /\ attempted' = attempted \cup {s}
        /\ UNCHANGED <<pointer, installed, loaded, migrated, undoFailed, releaseMishaps>> /\ Rest

ReloadNginx ==
    /\ script.pc = "nginx"
    /\ loaded' = [loaded EXCEPT !["vhost"] = installed["vhost"]]
    /\ Goto("activated")
    /\ UNCHANGED <<pointer, installed, services, migrated, releaseMishaps>> /\ Recorded

\* Any step may fail; a service that could not be started counts as attempted
\* and is down, or about to be restarted by systemd.
StepFails ==
    LET starting == script.pc \in {"backends", "writers"}
        s == IF script.pc = "backends" THEN Backends[script.at] ELSE Writers[script.at]
    IN  /\ script.pc \in {"stop", "install", "reload", "swap", "backends", "writers", "nginx"}
        /\ releaseMishaps < MaxReleaseMishaps /\ releaseMishaps' = releaseMishaps + 1
        /\ Goto("undo_stop")
        /\ IF starting THEN attempted' = attempted \cup {s} /\ services' = [services EXCEPT ![s] = Down]
           ELSE UNCHANGED <<attempted, services>>
        /\ UNCHANGED <<pointer, installed, loaded, migrated, undoFailed>> /\ Rest

-----
\* rollback: what was attempted is stopped, then pointer, configs and units go
\* back, then what was active is started.  A step that fails is noted.
UndoStop ==
    /\ script.pc = "undo_stop"
    /\ services' = [services EXCEPT ![Managed[script.at]] = IF Managed[script.at] \in attempted THEN Down ELSE @]
    /\ NextOf(Managed, "undo_pointer")
    /\ UNCHANGED <<pointer, installed, loaded, migrated, releaseMishaps>> /\ Recorded

UndoPointer ==
    /\ script.pc = "undo_pointer" /\ pointer' = transaction.previous /\ Goto("undo_configs")
    /\ UNCHANGED <<world, releaseMishaps>> /\ Recorded

UndoConfig ==
    /\ script.pc = "undo_configs"
    /\ installed' = [installed EXCEPT ![Configs[script.at]] = transaction.saved[Configs[script.at]]]
    /\ NextOf(Configs, "undo_reload")
    /\ UNCHANGED <<pointer, loaded, services, migrated, releaseMishaps>> /\ Recorded

UndoReload ==
    /\ script.pc = "undo_reload" /\ loaded' = Reloaded /\ Goto("undo_start")
    /\ UNCHANGED <<pointer, installed, services, migrated, releaseMishaps>> /\ Recorded

\* start leaves a service alone that is up, and fails without code.
UndoStart ==
    LET s == Managed[script.at]
    IN  /\ script.pc = "undo_start"
        /\ NextOf(Managed, "undo_nginx")
        /\ IF s \in transaction.active /\ services[s].state # "up" /\ Startable(s)
           THEN services' = [services EXCEPT ![s] = Started(s)] ELSE UNCHANGED services
        /\ undoFailed' = (undoFailed \/ (s \in transaction.active /\ services[s].state # "up" /\ ~Startable(s)))
        /\ UNCHANGED <<pointer, installed, loaded, migrated, attempted, releaseMishaps>> /\ Rest

UndoNginx ==
    /\ script.pc = "undo_nginx"
    /\ loaded' = [loaded EXCEPT !["vhost"] = installed["vhost"]]
    /\ Goto("rolledback")
    /\ UNCHANGED <<pointer, installed, services, migrated, releaseMishaps>> /\ Recorded

UndoFails ==
    /\ \/ script.pc = "undo_stop" /\ NextOf(Managed, "undo_pointer")
       \/ script.pc = "undo_pointer" /\ Goto("undo_configs")
       \/ script.pc = "undo_configs" /\ NextOf(Configs, "undo_reload")
       \/ script.pc = "undo_reload" /\ Goto("undo_start")
       \/ script.pc = "undo_start" /\ NextOf(Managed, "undo_nginx")
       \/ script.pc = "undo_nginx" /\ Goto("rolledback")
    /\ releaseMishaps < MaxReleaseMishaps /\ releaseMishaps' = releaseMishaps + 1
    /\ undoFailed' = TRUE
    /\ UNCHANGED <<pointer, world, attempted>> /\ Rest

-----
\* systemd: a service dies and is started again a little later.
ServiceDies(s) ==
    /\ services[s].state = "up" /\ releaseMishaps < MaxReleaseMishaps /\ releaseMishaps' = releaseMishaps + 1
    /\ services' = [services EXCEPT ![s] = [state |-> "restarting", code |-> "none", unit |-> "none"]]
    /\ UNCHANGED <<staging, prepared, pointer, installed, loaded, migrated, script, progress>>

ServiceRestarts(s) ==
    /\ services[s].state = "restarting"
    /\ services' = [services EXCEPT ![s] = IF Startable(s) THEN Started(s) ELSE Down]
    /\ strays' = IF script.pc \in {"idle", "activated", "rolledback"} THEN strays ELSE strays \cup {s}
    /\ UNCHANGED <<staging, prepared, pointer, installed, loaded, migrated, script, transaction, attempted, undoFailed, releaseMishaps>>

\* No trap survives a kill; the next activation records what it finds.
KillScript ==
    /\ releaseMishaps < MaxReleaseMishaps /\ releaseMishaps' = releaseMishaps + 1
    /\ \/ script.pc \notin {"idle", "activated", "rolledback", "killed"} /\ Goto("killed") /\ UNCHANGED staging
       \/ staging # {} /\ staging' = {} /\ UNCHANGED script
    /\ UNCHANGED <<prepared, pointer, world, progress>>

-----
ActivationStep ==
    \/ StopWriter \/ InstallConfig \/ DaemonReload \/ SwapPointer \/ RestartBackend \/ StartWriter \/ ReloadNginx
    \/ UndoStop \/ UndoPointer \/ UndoConfig \/ UndoReload \/ UndoStart \/ UndoNginx

\* The operator runs one script at a time.
Activating == script.pc \notin {"idle", "activated", "rolledback", "killed"}

ReleaseNext ==
    \/ \E r \in Releases : PublishRelease(r) \/ (~Activating /\ StageRelease(r)) \/ (staging = {} /\ StartActivation(r))
    \/ ActivationStep \/ StepFails \/ UndoFails \/ KillScript
    \/ \E s \in ManagedSet : ServiceDies(s) \/ ServiceRestarts(s)

ReleaseSpec == ReleaseInit /\ [][ReleaseNext]_releaseVars

-----
\* Wherever a script was killed, the pointer names a complete directory: what
\* systemd restarts in that moment always finds its code.
PointerIsComplete ==
    /\ pointer \in prepared \cup {"none"}
    /\ \A s \in ManagedSet : services[s].state = "up" => services[s].code \in prepared

\* While units are exchanged and migrations run, no writer is up.
NoWriterMeanwhile ==
    script.pc \in {"install", "reload", "swap", "backends"} =>
        \A w \in ToSet(Writers) : services[w].state = "down"

\* A successful activation leaves one release everywhere, also when it starts
\* from what a killed one left behind.
ActivatedIsUniform ==
    script.pc = "activated" =>
        /\ pointer = transaction.target /\ transaction.target \in migrated
        /\ \A c \in ToSet(Configs) : installed[c] = transaction.target /\ loaded[c] = transaction.target
        /\ \A s \in ManagedSet : services[s].state = "up" =>
              services[s].code = transaction.target /\ services[s].unit = transaction.target

\* A rollback that reports no failure leaves what there was: pointer, configs,
\* and every service that was active, with the old code under the old unit.
\* A backend that restarted by itself before its turn is excepted, and a service
\* that was up without a release to come back to stays down once it has died.
RolledBackIsPrevious ==
    (script.pc = "rolledback" /\ ~undoFailed) =>
        /\ pointer = transaction.previous /\ installed = transaction.saved
        /\ \A c \in ToSet(Configs) : loaded[c] = transaction.saved[c]
        /\ \A s \in transaction.active \ strays :
              \/ services[s].state = "restarting"
              \/ services[s] = transaction.before[s]
              \/ services[s] = [state |-> "up", code |-> transaction.previous, unit |-> transaction.saved[s]]
              \/ services[s] = Down /\ "none" \in {transaction.previous, transaction.saved[s]}

ReleaseIsSafe == PointerIsComplete /\ NoWriterMeanwhile /\ ActivatedIsUniform /\ RolledBackIsPrevious
======

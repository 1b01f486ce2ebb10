------ MODULE Console_proofs ------
(* What the console and what reports to it guarantee, for any number of
   tabs, captures, requests, notifiers, users, reveals, views, previews
   and probes, and any number of failures and repetitions: the SQL worker
   and its previews, the elevations that reveal personal data, the audited
   views of a schema, the database page, the accounts, the telemetry of a
   browser, captured exceptions, the ingest gate and the alert scheduler. *)
EXTENDS MCConsole, FiniteSetTheorems, SequenceTheorems, TLAPS

-----
(* Read previews of the SQL workspace. *)
PreviewSteps ==
    {"new", "denied", "elevated", "recorded", "calling", "finish", "finished", "rows", "failed", "error"}

SqlTypeOK ==
    /\ sqlSecond \in Nat
    /\ preview \in [Previews -> [pc : PreviewSteps, issued : Nat \cup {NotSent}, failure : BOOLEAN]]
    /\ execution \in [Previews -> {"none", "running", "failed", "previewed"}]
    /\ entries \in [Previews -> SUBSET {"started", "failed", "previewed"}]
    /\ query \in [Previews -> {"none", "denied", "waiting", "reading", "answered"}]
    /\ runs \in [Previews -> Nat]
    /\ delivered \in [Previews -> Nat]
    /\ usedNonces \in [Previews -> Int]

\* What the record and the ledger hold at each step of a request.
AuditedAt(p) ==
    /\ preview[p].pc = "recorded" => execution[p] = "running"
    /\ preview[p].pc \in {"calling", "finish"} => execution[p] = "running"
    /\ preview[p].pc \in {"finished", "rows"} /\ ~preview[p].failure => execution[p] = "previewed"
    /\ preview[p].pc = "rows" => ~preview[p].failure /\ "previewed" \in entries[p]
    /\ preview[p].pc \in {"calling", "finish", "finished", "rows"} => preview[p].issued # NotSent

\* A command has been sent only after its start was in the ledger, and nothing
\* reaches the worker before.
SentAudited(p) ==
    /\ preview[p].pc \in {"new", "elevated", "recorded"} => preview[p].issued = NotSent
    /\ preview[p].issued # NotSent => "started" \in entries[p] /\ preview[p].issued <= sqlSecond
    /\ preview[p].issued = NotSent => query[p] = "none" /\ runs[p] = 0

\* The nonce of a command that was accepted outlives the command.
NonceHolds(p) ==
    /\ runs[p] \in {0, 1}
    /\ query[p] = "waiting" => runs[p] = 0
    /\ runs[p] = 1 \/ query[p] \in {"waiting", "reading"} =>
         sqlSecond - preview[p].issued > Skew \/ usedNonces[p] >= preview[p].issued + NonceLifetime

ElevationInv ==
    /\ elevation \in [granted : BOOLEAN, idle : Nat, absolute : Nat]
    /\ elevation.idle <= elevation.absolute

SqlInv ==
    /\ SqlTypeOK /\ ElevationInv
    /\ \A p \in Previews : AuditedAt(p) /\ SentAudited(p) /\ NonceHolds(p)

LEMMA SqlInitially == SqlInit => SqlInv
BY SqlPreviewAssumption DEF SqlInit, SqlInv, SqlTypeOK, ElevationInv, PreviewSteps, AuditedAt, SentAudited,
  NonceHolds, NoNonce, NotSent

\* A step that changes nothing of the worker, and of the previews only p's.
LEMMA PreviewAlone ==
    ASSUME SqlInv, NEW p \in Previews, UNCHANGED <<query, runs, delivered, usedNonces, sqlSecond>>,
           SqlTypeOK', ElevationInv',
           \A q \in Previews : q # p => /\ preview'[q] = preview[q] /\ execution'[q] = execution[q]
                                        /\ entries'[q] = entries[q],
           AuditedAt(p)', SentAudited(p)',
           preview[p].issued # NotSent => preview'[p].issued = preview[p].issued
    PROVE  SqlInv'
<1>2. NonceHolds(p)' BY DEF SqlInv, SentAudited, NonceHolds
<1> QED BY <1>2 DEF SqlInv, AuditedAt, SentAudited, NonceHolds

LEMMA GrantKeeps ==
    ASSUME SqlInv, GrantElevation PROVE SqlInv'
<1> QED
  BY SqlPreviewAssumption DEF GrantElevation, workerVars, SqlInv, SqlTypeOK, AuditedAt, SentAudited,
    NonceHolds, ElevationInv

LEMMA ConsumeElevationKeeps ==
    ASSUME SqlInv, NEW p \in Previews, ConsumeElevation(p) PROVE SqlInv'
<1>1. ElevationInv' BY SqlPreviewAssumption DEF ConsumeElevation, SqlInv, ElevationInv, SqlTypeOK, Earlier
<1>2. PICK to \in {"elevated", "denied"} :
        /\ preview' = [preview EXCEPT ![p].pc = to]
        /\ preview[p].pc = "new" /\ UNCHANGED <<execution, entries, query, runs, delivered, usedNonces, sqlSecond>>
  BY DEF ConsumeElevation, PreviewAt, workerVars
<1>3. /\ SqlTypeOK'
      /\ preview'[p].pc = to /\ preview'[p].issued = preview[p].issued
      /\ \A q \in Previews : q # p => preview'[q] = preview[q]
  BY <1>2 DEF SqlInv, SqlTypeOK, PreviewSteps
<1>4. AuditedAt(p)' /\ SentAudited(p)' BY <1>2, <1>3 DEF SqlInv, AuditedAt, SentAudited
<1> QED BY <1>1, <1>2, <1>3, <1>4, PreviewAlone

LEMMA StartKeeps ==
    ASSUME SqlInv, NEW p \in Previews, StartReadPreview(p) PROVE SqlInv'
<1>1. /\ preview[p].pc = "elevated" /\ execution' = [execution EXCEPT ![p] = "running"]
      /\ preview' = [preview EXCEPT ![p].pc = "recorded"]
      /\ UNCHANGED <<entries, elevation, query, runs, delivered, usedNonces, sqlSecond>>
  BY DEF StartReadPreview, PreviewAt, workerVars
<1>2. /\ SqlTypeOK' /\ ElevationInv'
      /\ preview'[p].pc = "recorded" /\ preview'[p].issued = preview[p].issued /\ execution'[p] = "running"
      /\ \A q \in Previews : q # p => preview'[q] = preview[q] /\ execution'[q] = execution[q]
  BY <1>1, SMTT(30) DEF SqlInv, SqlTypeOK, ElevationInv, PreviewSteps
<1>3. AuditedAt(p)' /\ SentAudited(p)' BY <1>1, <1>2 DEF SqlInv, AuditedAt, SentAudited
<1> QED BY <1>1, <1>2, <1>3, PreviewAlone

LEMMA AuditStartKeeps ==
    ASSUME SqlInv, NEW p \in Previews, AuditStarted(p) PROVE SqlInv'
<1>1. /\ preview[p].pc = "recorded" /\ entries' = [entries EXCEPT ![p] = @ \cup {"started"}]
      /\ preview' = [preview EXCEPT ![p].pc = "calling", ![p].issued = sqlSecond]
      /\ UNCHANGED <<execution, elevation, query, runs, delivered, usedNonces, sqlSecond>>
  BY DEF AuditStarted, workerVars
<1>2. /\ SqlTypeOK' /\ ElevationInv'
      /\ preview'[p].pc = "calling" /\ preview'[p].issued = sqlSecond /\ "started" \in entries'[p]
      /\ \A q \in Previews : q # p => preview'[q] = preview[q] /\ entries'[q] = entries[q]
  BY <1>1, ZenonT(60) DEF SqlInv, SqlTypeOK, ElevationInv, PreviewSteps
<1>3. AuditedAt(p)' /\ SentAudited(p)' BY <1>1, <1>2 DEF SqlInv, SqlTypeOK, AuditedAt, SentAudited, NotSent
<1>4. preview[p].issued = NotSent BY <1>1 DEF SqlInv, SentAudited
<1> QED BY <1>1, <1>2, <1>3, <1>4, PreviewAlone

\* The command fails before it is answered, or its record is finished, or a
\* call throws.
LEMMA AnswerKeeps ==
    ASSUME SqlInv, NEW p \in Previews, GiveUp(p) \/ Denied(p) PROVE SqlInv'
<1>1. /\ preview[p].pc = "calling" /\ preview' = [preview EXCEPT ![p].pc = "finish", ![p].failure = TRUE]
      /\ UNCHANGED <<execution, entries, elevation, query, runs, delivered, usedNonces, sqlSecond>>
  BY DEF GiveUp, Denied, workerVars
<1>2. /\ SqlTypeOK' /\ ElevationInv'
      /\ preview'[p].pc = "finish" /\ preview'[p].issued = preview[p].issued
      /\ \A q \in Previews : q # p => preview'[q] = preview[q]
  BY <1>1, ZenonT(60) DEF SqlInv, SqlTypeOK, ElevationInv, PreviewSteps
<1>3. AuditedAt(p)' /\ SentAudited(p)' BY <1>1, <1>2 DEF SqlInv, AuditedAt, SentAudited
<1> QED BY <1>1, <1>2, <1>3, PreviewAlone

LEMMA FinishKeeps ==
    ASSUME SqlInv, NEW p \in Previews, FinishReadPreview(p) PROVE SqlInv'
<1>1. PICK to \in {"none", "running", "failed", "previewed"} :
        /\ preview[p].pc = "finish" /\ execution' = [execution EXCEPT ![p] = to]
        /\ execution[p] = "running" /\ ~preview[p].failure => to = "previewed"
        /\ preview' = [preview EXCEPT ![p].pc = "finished"]
        /\ UNCHANGED <<entries, elevation, query, runs, delivered, usedNonces, sqlSecond>>
  BY DEF FinishReadPreview, PreviewAt, workerVars, SqlInv, SqlTypeOK
<1>2. /\ SqlTypeOK' /\ ElevationInv'
      /\ preview'[p].pc = "finished" /\ preview'[p].issued = preview[p].issued
      /\ preview'[p].failure = preview[p].failure /\ execution'[p] = to
      /\ \A q \in Previews : q # p => preview'[q] = preview[q] /\ execution'[q] = execution[q]
  BY <1>1 DEF SqlInv, SqlTypeOK, ElevationInv, PreviewSteps
<1>3. AuditedAt(p)' /\ SentAudited(p)' BY <1>1, <1>2 DEF SqlInv, AuditedAt, SentAudited
<1> QED BY <1>1, <1>2, <1>3, PreviewAlone

LEMMA AuditFinishKeeps ==
    ASSUME SqlInv, NEW p \in Previews, AuditFinished(p) PROVE SqlInv'
<1>1. PICK what \in {"failed", "previewed"}, to \in {"failed", "rows"} :
        /\ preview[p].pc = "finished" /\ entries' = [entries EXCEPT ![p] = @ \cup {what}]
        /\ to = "rows" => what = "previewed" /\ ~preview[p].failure
        /\ preview' = [preview EXCEPT ![p].pc = to]
        /\ UNCHANGED <<execution, elevation, query, runs, delivered, usedNonces, sqlSecond>>
  BY DEF AuditFinished, PreviewAt, workerVars
<1>2. /\ SqlTypeOK' /\ ElevationInv'
      /\ preview'[p].pc = to /\ preview'[p].issued = preview[p].issued
      /\ preview'[p].failure = preview[p].failure /\ entries'[p] = entries[p] \cup {what}
      /\ \A q \in Previews : q # p => preview'[q] = preview[q] /\ entries'[q] = entries[q]
  BY <1>1 DEF SqlInv, SqlTypeOK, ElevationInv, PreviewSteps
<1>3. AuditedAt(p)' /\ SentAudited(p)' BY <1>1, <1>2 DEF SqlInv, AuditedAt, SentAudited
<1> QED BY <1>1, <1>2, <1>3, PreviewAlone

LEMMA ThrowKeeps ==
    ASSUME SqlInv, NEW p \in Previews, CallThrows(p) PROVE SqlInv'
<1>1. /\ preview' = [preview EXCEPT ![p].pc = "error"]
      /\ UNCHANGED <<execution, entries, elevation, query, runs, delivered, usedNonces, sqlSecond>>
  BY DEF CallThrows, PreviewAt, workerVars
<1>2. /\ SqlTypeOK' /\ ElevationInv'
      /\ preview'[p].pc = "error" /\ preview'[p].issued = preview[p].issued
      /\ \A q \in Previews : q # p => preview'[q] = preview[q]
  BY <1>1, SMTT(30) DEF SqlInv, SqlTypeOK, ElevationInv, PreviewSteps
<1>3. AuditedAt(p)' /\ SentAudited(p)' BY <1>1, <1>2 DEF SqlInv, AuditedAt, SentAudited
<1> QED BY <1>1, <1>2, <1>3, PreviewAlone

LEMMA EndReadKeeps ==
    ASSUME SqlInv, NEW p \in Previews, NEW outcome \in {"rows", "failed", "too large"}, EndRead(p, outcome)
    PROVE  SqlInv'
<1>1. /\ query[p] = "reading" /\ query' = [query EXCEPT ![p] = "answered"]
      /\ \/ preview' = preview
         \/ preview[p].pc = "calling" /\
            \/ preview' = [preview EXCEPT ![p].pc = "finish", ![p].failure = TRUE]
            \/ preview' = [preview EXCEPT ![p].pc = "finish", ![p].failure = FALSE]
      /\ UNCHANGED <<execution, entries, elevation, runs, delivered, usedNonces, sqlSecond>>
  BY DEF EndRead
<1>2. /\ query' \in [Previews -> {"none", "denied", "waiting", "reading", "answered"}] /\ query'[p] = "answered"
      /\ \A q \in Previews : q # p => query'[q] = query[q]
  BY <1>1 DEF SqlInv, SqlTypeOK
<1>3. /\ preview' \in [Previews -> [pc : PreviewSteps, issued : Nat \cup {NotSent}, failure : BOOLEAN]]
      /\ \A q \in Previews : AuditedAt(q)' /\ preview'[q].issued = preview[q].issued
      /\ preview'[p].pc = preview[p].pc \/ preview'[p].pc = "finish"
      /\ \A q \in Previews : q # p => preview'[q] = preview[q]
  <2>1. CASE preview' = preview BY <2>1, <1>1 DEF SqlInv, SqlTypeOK, AuditedAt
  <2>2. CASE preview[p].pc = "calling" /\ preview' = [preview EXCEPT ![p].pc = "finish", ![p].failure = TRUE]
    <3>1. preview' \in [Previews -> [pc : PreviewSteps, issued : Nat \cup {NotSent}, failure : BOOLEAN]]
      <4>1. preview' = [preview EXCEPT ![p].pc = "finish", ![p].failure = TRUE] BY <2>2
      <4>2. preview \in [Previews -> [pc : PreviewSteps, issued : Nat \cup {NotSent}, failure : BOOLEAN]]
        BY DEF SqlInv, SqlTypeOK
      <4> QED BY ONLY <4>1, <4>2, ZenonT(60) DEF PreviewSteps
    <3>2. /\ preview'[p].pc = "finish" /\ preview'[p].issued = preview[p].issued
          /\ \A q \in Previews : q # p => preview'[q] = preview[q]
      BY <2>2 DEF SqlInv, SqlTypeOK, PreviewSteps
    <3>3. preview[p].pc = "calling" /\ UNCHANGED <<execution, entries>> BY <2>2, <1>1
    <3>4. \A q \in Previews : AuditedAt(q)' BY <3>2, <3>3 DEF SqlInv, AuditedAt
    <3> QED BY <3>1, <3>2, <3>4
  <2>3. CASE preview[p].pc = "calling" /\ preview' = [preview EXCEPT ![p].pc = "finish", ![p].failure = FALSE]
    <3>1. preview' \in [Previews -> [pc : PreviewSteps, issued : Nat \cup {NotSent}, failure : BOOLEAN]]
      <4>1. preview' = [preview EXCEPT ![p].pc = "finish", ![p].failure = FALSE] BY <2>3
      <4>2. preview \in [Previews -> [pc : PreviewSteps, issued : Nat \cup {NotSent}, failure : BOOLEAN]]
        BY DEF SqlInv, SqlTypeOK
      <4> QED BY ONLY <4>1, <4>2, ZenonT(60) DEF PreviewSteps
    <3>2. /\ preview'[p].pc = "finish" /\ preview'[p].issued = preview[p].issued
          /\ \A q \in Previews : q # p => preview'[q] = preview[q]
      BY <2>3 DEF SqlInv, SqlTypeOK, PreviewSteps
    <3>3. preview[p].pc = "calling" /\ UNCHANGED <<execution, entries>> BY <2>3, <1>1
    <3>4. \A q \in Previews : AuditedAt(q)' BY <3>2, <3>3 DEF SqlInv, AuditedAt
    <3> QED BY <3>1, <3>2, <3>4
  <2> QED BY <2>1, <2>2, <2>3, <1>1
<1>4. SqlTypeOK' /\ ElevationInv' BY <1>1, <1>2, <1>3 DEF SqlInv, SqlTypeOK, ElevationInv
<1>5. \A q \in Previews : SentAudited(q)'
  <2>1. \A q \in Previews : query[q] = "none" => query'[q] = "none" BY <1>1, <1>2
  <2> QED BY <2>1, <1>1, <1>3, ZenonT(60) DEF SqlInv, SentAudited
<1> QED BY <1>3, <1>4, <1>5, <1>1, <1>2 DEF SqlInv, NonceHolds

\* A copy of the command is accepted only when its statement did not run in
\* this worker process: the nonce is kept at least as long as the command is
\* young.
LEMMA DeliverKeeps ==
    ASSUME SqlInv, NEW p \in Previews, DeliverCommand(p) PROVE SqlInv'
<1>1. /\ preview[p].issued \in Nat /\ preview[p].issued <= sqlSecond
      /\ query[p] \in {"none", "denied", "answered"}
      /\ UNCHANGED <<preview, execution, entries, elevation, runs, sqlSecond>>
  BY DEF DeliverCommand, apiVars, SqlInv, SqlTypeOK, SentAudited
<1>2. PICK to \in {"waiting", "denied"} :
        /\ query' = [query EXCEPT ![p] = to]
        /\ to = "waiting" <=> Accepts(p)
  BY DEF DeliverCommand
<1>4. /\ delivered' \in [Previews -> Nat] /\ query' \in [Previews -> {"none", "denied", "waiting", "reading", "answered"}]
      /\ query'[p] = to /\ \A q \in Previews : q # p => query'[q] = query[q]
  BY <1>2 DEF DeliverCommand, SqlInv, SqlTypeOK
<1>5. usedNonces' \in [Previews -> Int]
  BY SqlPreviewAssumption DEF DeliverCommand, SqlInv, SqlTypeOK, NoNonce
<1>6. SqlTypeOK' /\ ElevationInv' BY <1>1, <1>4, <1>5 DEF SqlInv, SqlTypeOK, ElevationInv
<1>7. \A q \in Previews : AuditedAt(q)' /\ SentAudited(q)'
  BY <1>1, <1>4 DEF SqlInv, AuditedAt, NotSent, SentAudited
<1>9. \A q \in Previews : q # p => NonceHolds(q)'
  BY <1>1, <1>4, SqlPreviewAssumption DEF SqlInv, SqlTypeOK, NonceHolds, SentAudited, NotSent,
    DeliverCommand, Used, NoNonce
<1>10. CASE Accepts(p)
  BY <1>10, <1>1, SqlPreviewAssumption, <1>6, <1>7, <1>9 DEF DeliverCommand, Accepts, SqlInv,
    SqlTypeOK, Used, NonceHolds, NoNonce
<1>11. CASE ~Accepts(p)
  BY <1>11, <1>2, <1>4, <1>1, SqlPreviewAssumption, <1>6, <1>7, <1>9 DEF DeliverCommand, Used,
    SqlInv, SqlTypeOK, NoNonce, NonceHolds
<1> QED BY <1>10, <1>11

LEMMA BeginReadKeeps ==
    ASSUME SqlInv, NEW p \in Previews, BeginRead(p) PROVE SqlInv'
<1>1. /\ query[p] = "waiting" /\ query' = [query EXCEPT ![p] = "reading"] /\ runs' = [runs EXCEPT ![p] = @ + 1]
      /\ UNCHANGED <<preview, execution, entries, elevation, delivered, usedNonces, sqlSecond>>
  BY DEF BeginRead, apiVars
<1>2. /\ SqlTypeOK' /\ ElevationInv' /\ query'[p] = "reading" /\ runs'[p] = 1
      /\ \A q \in Previews : q # p => query'[q] = query[q] /\ runs'[q] = runs[q]
  BY <1>1 DEF SqlInv, SqlTypeOK, ElevationInv, NonceHolds
<1>4. \A q \in Previews : NonceHolds(q)' BY <1>1, <1>2 DEF SqlInv, NonceHolds
<1> QED BY <1>2, <1>1, <1>4 DEF SqlInv, AuditedAt, SentAudited

LEMMA RestartWorkerKeeps ==
    ASSUME SqlInv, WorkerRestarts PROVE SqlInv'
<1>2. UNCHANGED <<preview, execution, entries, sqlSecond>> BY DEF WorkerRestarts, apiVars
<1> QED
  BY <1>2 DEF SqlInv, AuditedAt, SentAudited, NonceHolds, WorkerRestarts, apiVars, SqlTypeOK,
    ElevationInv, NoNonce

LEMMA SecondKeeps ==
    ASSUME SqlInv, SqlSecondPasses PROVE SqlInv'
<1>1. /\ sqlSecond' = sqlSecond + 1
      /\ UNCHANGED <<preview, execution, entries, elevation, query, runs, delivered, usedNonces>>
  BY DEF SqlSecondPasses, apiVars, workerVars
<1>2. SqlTypeOK' /\ ElevationInv' BY <1>1 DEF SqlInv, SqlTypeOK, ElevationInv
<1>3. \A p \in Previews : AuditedAt(p)' BY <1>1 DEF SqlInv, AuditedAt
<1>5. \A p \in Previews : SentAudited(p)' /\ NonceHolds(p)'
  BY <1>1, SqlPreviewAssumption DEF SqlInv, SqlTypeOK, SentAudited, NonceHolds, NotSent
<1> QED BY <1>2, <1>3, <1>5 DEF SqlInv

LEMMA SqlStays ==
    ASSUME SqlInv, UNCHANGED sqlVars PROVE SqlInv'
BY DEF sqlVars, apiVars, workerVars, SqlInv, SqlTypeOK, ElevationInv, AuditedAt, SentAudited, NonceHolds

\* Rows leave the API only with the start and the outcome in the ledger, a
\* worker process runs a command once, however often it is delivered, and an
\* elevation is never used past its absolute expiry.
THEOREM PreviewSafe == SqlSpec => []SqlPreviewIsSafe
<1>1. SqlInv /\ [SqlNext]_sqlVars => SqlInv'
  <2> SUFFICES ASSUME SqlInv, [SqlNext]_sqlVars PROVE SqlInv' OBVIOUS
  <2> QED BY GrantKeeps, ConsumeElevationKeeps, StartKeeps, AuditStartKeeps, AnswerKeeps, FinishKeeps,
    AuditFinishKeeps, ThrowKeeps, EndReadKeeps, DeliverKeeps, BeginReadKeeps, RestartWorkerKeeps, SecondKeeps,
    SqlStays DEF SqlNext
<1>2. SqlInv => SqlPreviewIsSafe
  BY DEF SqlInv, AuditedAt, SentAudited, RowsAreAudited, SqlTypeOK, NonceHolds, RunOnce,
    ElevationInv, ElevationIsBounded, SqlPreviewIsSafe
<1> QED BY SqlInitially, <1>1, <1>2, PTL DEF SqlSpec

-----
(* The worker's pools and its target registry. *)
RegistryTypeOK ==
    /\ workerStep \in [pc : {"opening", "serving", "closing", "failing", "stopped", "refused"}, at : Nat]
    /\ pool \in [1..Pools -> {"none", "open", "closed"}]
    /\ latestProbeId \in 0..MaxProbes
    /\ probe \in [1..MaxProbes -> {"new", "active", "late", "settled"}]
    /\ verdict \in [1..MaxProbes -> {"none", "available", "unavailable"}]

\* Probes are numbered as they start; the one summaries awaits is the only one
\* that has neither answered nor timed out, and it is the latest.
ProbesInOrder ==
    /\ \A i \in 1..MaxProbes : i > latestProbeId => probe[i] = "new" /\ verdict[i] = "none"
    /\ \A i \in 1..MaxProbes : probe[i] = "active" => i = inFlight /\ i = latestProbeId
    /\ workerStep.pc = "opening" => latestProbeId = 0

PoolsBehindAreEnded ==
    /\ workerStep.pc \in {"closing", "failing"} => \A i \in 1..Pools : i < workerStep.at => pool[i] # "open"
    /\ workerStep.pc \in {"stopped", "refused"} => \A i \in 1..Pools : pool[i] # "open"

RegistryInv ==
    /\ RegistryTypeOK /\ ProbesInOrder /\ StatusIsTheLatestVerdict
    /\ Cardinality(Active) <= MaxActiveProbes /\ PoolsBehindAreEnded

LEMMA ActiveIsFinite ==
    /\ IsFiniteSet(Active) /\ Cardinality(Active) \in Nat
<1>1. IsFiniteSet(1..MaxProbes) BY FS_Interval, RegistryAssumption
<1>2. Active \subseteq 1..MaxProbes BY DEF Active
<1> QED BY <1>1, <1>2, FS_Subset, FS_CardinalityType

LEMMA RegistryInitially == RegistryInit => RegistryInv
<1> SUFFICES ASSUME RegistryInit PROVE RegistryInv OBVIOUS
<1>2. Active = {} BY DEF RegistryInit, Active
<1>3. Cardinality(Active) <= MaxActiveProbes BY <1>2, FS_EmptySet, RegistryAssumption
<1> QED
  BY RegistryAssumption, <1>3 DEF RegistryInv, RegistryInit, RegistryTypeOK, ProbesInOrder,
    StatusIsTheLatestVerdict, PoolsBehindAreEnded

\* A step that leaves the probes alone, once the worker listens.
LEMMA ProbesStay ==
    ASSUME RegistryInv, UNCHANGED <<status, latestProbeId, inFlight, probe, verdict>>
    PROVE  /\ StatusIsTheLatestVerdict' /\ Cardinality(Active)' <= MaxActiveProbes
           /\ (workerStep'.pc = "opening" => workerStep.pc = "opening") => ProbesInOrder'
BY DEF RegistryInv, StatusIsTheLatestVerdict, Active, ProbesInOrder

LEMMA OpeningKeeps ==
    ASSUME RegistryInv, NEW b \in BOOLEAN, OpenPool(b) \/ SetupTarget(b) PROVE RegistryInv'
<1>1. PICK pc \in {"opening", "failing"}, at \in Nat :
        /\ workerStep' = [pc |-> pc, at |-> at] /\ workerStep.pc = "opening"
        /\ pc = "failing" => at = 1
        /\ UNCHANGED <<status, latestProbeId, inFlight, probe, verdict>>
  BY DEF OpenPool, SetupTarget, CreatePool, Step, probeVars, RegistryInv, RegistryTypeOK
<1>2. workerStep.at \in 1..Pools BY RegistryAssumption DEF OpenPool, SetupTarget
<1>4. RegistryTypeOK' /\ PoolsBehindAreEnded'
  BY <1>1, <1>2 DEF RegistryInv, RegistryTypeOK, PoolsBehindAreEnded, OpenPool, SetupTarget,
    CreatePool
<1> QED BY <1>1, <1>4, ProbesStay DEF RegistryInv

LEMMA ListenKeeps ==
    ASSUME RegistryInv, NEW b \in BOOLEAN, Listen(b) PROVE RegistryInv'
<1>1. /\ workerStep.pc = "opening" /\ UNCHANGED <<pool, latestProbeId, inFlight, probe, verdict>>
      /\ \/ workerStep' = [pc |-> "serving", at |-> 1]
         \/ workerStep' = [pc |-> "failing", at |-> 1]
  BY DEF Listen, Step
<1>2. latestProbeId = 0 BY <1>1 DEF RegistryInv, ProbesInOrder
<1>4. StatusIsTheLatestVerdict' BY <1>1, <1>2 DEF StatusIsTheLatestVerdict
<1>5. Cardinality(Active)' <= MaxActiveProbes BY <1>1 DEF Active, RegistryInv
<1> QED BY <1>1, <1>4, <1>5 DEF RegistryInv, RegistryTypeOK, PoolsBehindAreEnded, ProbesInOrder

LEMMA RefreshKeeps ==
    ASSUME RegistryInv, Refresh PROVE RegistryInv'
<1>1. PICK n \in 1..MaxProbes :
        /\ n = latestProbeId + 1 /\ latestProbeId' = n /\ inFlight' = n
        /\ probe' = [probe EXCEPT ![n] = "active"]
        /\ workerStep.pc = "serving" /\ inFlight = 0 /\ Cardinality(Active) < MaxActiveProbes
        /\ UNCHANGED <<workerStep, pool, status, verdict>>
  <2>1. latestProbeId + 1 \in 1..MaxProbes BY RegistryAssumption DEF Refresh, RegistryInv, RegistryTypeOK
  <2> QED BY <2>1 DEF Refresh
<1>4. ProbesInOrder' BY <1>1, RegistryAssumption DEF RegistryInv, RegistryTypeOK, ProbesInOrder
<1>5. StatusIsTheLatestVerdict'
  BY <1>1, RegistryAssumption DEF RegistryInv, RegistryTypeOK, ProbesInOrder,
    StatusIsTheLatestVerdict
<1>6. Cardinality(Active)' <= MaxActiveProbes
  <2>1. Active' = Active \cup {n} BY <1>1 DEF Active, RegistryInv, RegistryTypeOK
  <2>2. Cardinality(Active \cup {n}) <= Cardinality(Active) + 1 BY ActiveIsFinite, FS_AddElement
  <2>3. Cardinality(Active \cup {n}) \in Nat BY ActiveIsFinite, FS_AddElement, FS_CardinalityType
  <2> QED BY <2>1, <2>2, <2>3, <1>1, ActiveIsFinite, RegistryAssumption
<1> QED BY <1>1, <1>4, <1>5, <1>6 DEF RegistryInv, RegistryTypeOK, PoolsBehindAreEnded

\* A probe that settles or times out: the set of the unsettled does not grow.
LEMMA FewerActive ==
    ASSUME RegistryInv, \A i \in 1..MaxProbes : probe'[i] \in {"active", "late"} => probe[i] \in {"active", "late"}
    PROVE  Cardinality(Active)' <= MaxActiveProbes
<1>1. Active' \subseteq Active BY DEF Active
<1> QED BY <1>1, ActiveIsFinite, FS_Subset, FS_CardinalityType, RegistryAssumption DEF RegistryInv

LEMMA ProbeKeeps ==
    ASSUME RegistryInv, NEW i \in 1..MaxProbes,
           ProbeTimesOut(i) \/ \E up \in BOOLEAN : ProbeSettles(i, up)
    PROVE  RegistryInv'
<1>1. PICK to \in {"late", "settled"} :
        /\ probe' = [probe EXCEPT ![i] = to] /\ probe[i] \in {"active", "late"}
        /\ inFlight' = IF inFlight = i THEN 0 ELSE inFlight
        /\ UNCHANGED <<workerStep, pool, latestProbeId>>
  BY DEF ProbeTimesOut, ProbeSettles, Active
<1>2. \/ UNCHANGED <<status, verdict>>
      \/ \E says \in {"available", "unavailable"} :
            i = latestProbeId /\ status' = says /\ verdict' = [verdict EXCEPT ![i] = says]
  BY DEF ProbeTimesOut, ProbeSettles
<1>3. verdict' \in [1..MaxProbes -> {"none", "available", "unavailable"}] BY <1>2 DEF RegistryInv, RegistryTypeOK
<1>5. RegistryTypeOK' /\ PoolsBehindAreEnded'
  BY <1>1, <1>3 DEF RegistryInv, RegistryTypeOK, PoolsBehindAreEnded
<1>6. i <= latestProbeId /\ i \in Nat \ {0}
  BY <1>1, RegistryAssumption DEF RegistryInv, RegistryTypeOK, ProbesInOrder
<1>7. /\ \A j \in 1..MaxProbes : j > latestProbeId => probe'[j] = "new"
      /\ \A j \in 1..MaxProbes : probe'[j] = "active" => probe[j] = "active" /\ j # i
      /\ \A j \in 1..MaxProbes : probe'[j] \in {"active", "late"} => probe[j] \in {"active", "late"}
  BY <1>1, <1>6, RegistryAssumption DEF RegistryInv, RegistryTypeOK, ProbesInOrder
<1>8. \A j \in 1..MaxProbes : j > latestProbeId => verdict'[j] = "none"
  <2>1. \A j \in 1..MaxProbes : j # i => verdict'[j] = verdict[j] BY <1>2 DEF RegistryInv, RegistryTypeOK
  <2> QED BY <2>1, <1>6, RegistryAssumption DEF RegistryInv, RegistryTypeOK, ProbesInOrder
<1>9. ProbesInOrder' BY <1>1, <1>7, <1>8 DEF RegistryInv, ProbesInOrder
<1>10. StatusIsTheLatestVerdict'
  <2>1. CASE UNCHANGED <<status, verdict>> BY <2>1, <1>1 DEF RegistryInv, StatusIsTheLatestVerdict
  <2>2. CASE \E says \in {"available", "unavailable"} :
                i = latestProbeId /\ status' = says /\ verdict' = [verdict EXCEPT ![i] = says]
    BY <2>2, <1>1, <1>6 DEF RegistryInv, RegistryTypeOK, StatusIsTheLatestVerdict
  <2> QED BY <1>2, <2>1, <2>2
<1>11. Cardinality(Active)' <= MaxActiveProbes BY <1>7, FewerActive
<1> QED BY <1>5, <1>9, <1>10, <1>11 DEF RegistryInv

LEMMA EndPoolKeeps ==
    ASSUME RegistryInv, ClosePool \/ CleanUpPool PROVE RegistryInv'
<1>1. PICK at \in Nat : workerStep.at = at /\ workerStep.pc \in {"closing", "failing"}
  BY DEF ClosePool, CleanUpPool, RegistryInv, RegistryTypeOK
<1>2. /\ at <= Pools /\ pool' = [pool EXCEPT ![at] = IF @ = "open" THEN "closed" ELSE @]
      /\ workerStep' = [pc |-> workerStep.pc, at |-> at + 1]
      /\ UNCHANGED <<status, latestProbeId, inFlight, probe, verdict>>
  BY <1>1 DEF ClosePool, CleanUpPool, EndPool, Step, probeVars
<1>3. pool' \in [1..Pools -> {"none", "open", "closed"}] BY <1>2 DEF RegistryInv, RegistryTypeOK
<1>5. RegistryTypeOK' /\ PoolsBehindAreEnded'
  BY <1>1, <1>2, <1>3, RegistryAssumption DEF RegistryInv, RegistryTypeOK, PoolsBehindAreEnded
<1>6. workerStep'.pc # "opening" BY <1>1, <1>2
<1> QED BY <1>2, <1>5, <1>6, ProbesStay DEF RegistryInv

LEMMA WorkerEndsKeeps ==
    ASSUME RegistryInv, CloseWorker \/ WorkerClosed \/ TickPasses PROVE RegistryInv'
<1>1. /\ UNCHANGED <<pool, status, latestProbeId, inFlight, probe, verdict>>
      /\ workerStep'.pc = "opening" => workerStep.pc = "opening"
  BY DEF CloseWorker, WorkerClosed, TickPasses, Step, probeVars
<1> QED
  BY <1>1, RegistryAssumption, ProbesStay DEF RegistryInv, CloseWorker, WorkerClosed, TickPasses,
    Step, RegistryTypeOK, PoolsBehindAreEnded

LEMMA RegistryStays ==
    ASSUME RegistryInv, UNCHANGED registryVars PROVE RegistryInv'
<1>1. UNCHANGED <<workerStep, pool, status, latestProbeId, inFlight, probe, verdict>> BY DEF registryVars
<1> QED BY <1>1, ProbesStay DEF RegistryInv, RegistryTypeOK, PoolsBehindAreEnded

\* The registry shows what the youngest probe that was heard of found, at most
\* one probe is awaited and no more than the bound have not settled, and a
\* worker that stopped or refused to start leaves no pool open.
THEOREM RegistrySound == RegistrySpec => []RegistryIsSound
<1>1. RegistryInv /\ [RegistryNext]_registryVars => RegistryInv'
  BY OpeningKeeps, ListenKeeps, RefreshKeeps, ProbeKeeps, EndPoolKeeps, WorkerEndsKeeps,
    RegistryStays DEF RegistryNext
<1>2. RegistryInv => RegistryIsSound
  <2> SUFFICES ASSUME RegistryInv PROVE RegistryIsSound OBVIOUS
  <2>1. Cardinality({i \in 1..MaxProbes : probe[i] = "active"}) <= 1
    <3> DEFINE A == {i \in 1..MaxProbes : probe[i] = "active"}
    <3>1. A \subseteq {inFlight} BY DEF RegistryInv, ProbesInOrder
    <3>2. IsFiniteSet({inFlight}) /\ Cardinality({inFlight}) = 1 BY FS_Singleton
    <3> QED BY <3>2, <3>1, FS_Subset
  <2> QED BY <2>1 DEF RegistryInv, PoolsBehindAreEnded, RegistryIsSound, OrphansAreBounded, PoolsAreReleased
<1> QED BY RegistryInitially, <1>1, <1>2, PTL DEF RegistrySpec

\* The SQL worker runs a preview once, audited, and reports of its targets what
\* their latest probe found, whatever order the probes settle in.
THEOREM WorkerSafe == SqlSpec /\ RegistrySpec => []WorkerIsSafe
<1>1. SqlPreviewIsSafe /\ RegistryIsSound => WorkerIsSafe BY DEF WorkerIsSafe
<1> QED BY <1>1, PreviewSafe, RegistrySound, PTL

-----
(* The elevations that reveal personal data. *)
RevealSteps ==
    {"proof", "parent", "denied", "replace", "insert", "audit", "activate", "undo", "granted", "failed"}
ViewSteps == {"authorize", "worker", "audit", "audit_pii", "answered", "refused"}

RevealRecords == [pc : RevealSteps, target : PiiTargets]
ViewRecords ==
    [pc : ViewSteps, kind : {"rows", "related"}, target : PiiTargets, mode : {"masked", "revealed"}, by : SUBSET Reveals]

PiiTypeOK ==
    /\ piiFaults \in Nat
    /\ DOMAIN piiGrant = Reveals
    /\ DOMAIN revealing = Reveals
    /\ \A r \in Reveals : revealing[r] = [pc |-> "new"] \/ revealing[r] \in RevealRecords
    /\ DOMAIN rowView = RowViews
    /\ \A v \in RowViews : rowView[v] = [pc |-> "new"] \/ rowView[v] \in ViewRecords

Asked(r) == <<"revealing", r>> \in ledger

\* An elevation is active only with its reveal in the ledger; one whose reveal
\* failed is dead, unless the undo failed too.
GrantInv(r) ==
    /\ piiGrant[r] = [state |-> piiGrant[r].state, activated |-> piiGrant[r].activated]
    /\ revealing[r].pc = "activate" => Asked(r)
    /\ piiGrant[r].activated => Asked(r)
    /\ revealing[r].pc \in {"new", "proof", "parent", "replace", "insert", "audit", "denied"} =>
         piiGrant[r].activated = FALSE
    /\ revealing[r].pc = "undo" =>
         piiFaults >= 1 \/ piiGrant[r].state # "live"
    /\ revealing[r].pc = "failed" =>
         piiFaults >= 2 \/ piiGrant[r].state # "live" \/ piiGrant[r].activated = FALSE

\* A view past its authorisation rests on reveals in the ledger.
ViewInv(v) ==
    /\ rowView[v].pc \in {"worker", "audit", "audit_pii", "answered"} /\ rowView[v].mode = "revealed" =>
         rowView[v].by # {} /\ \A r \in rowView[v].by : Asked(r)
    /\ rowView[v].pc \in {"audit_pii", "answered"} => <<rowView[v].kind, v>> \in ledger
    /\ rowView[v].pc = "answered" /\ rowView[v].mode = "revealed" => <<"pii_rows", v>> \in ledger

PiiInv ==
    /\ PiiTypeOK
    /\ \A r \in Reveals : GrantInv(r)
    /\ \A v \in RowViews : ViewInv(v)

LEMMA PiiInitially == PiiInit => PiiInv
<1> SUFFICES ASSUME PiiInit PROVE PiiInv OBVIOUS
<1>1. \A r \in Reveals : revealing[r] = [pc |-> "new"] /\ piiGrant[r] = [state |-> "none", activated |-> FALSE]
  BY DEF PiiInit, NoElevation
<1>2. \A v \in RowViews : rowView[v] = [pc |-> "new"] BY DEF PiiInit
<1>3. PiiTypeOK BY <1>1, <1>2 DEF PiiInit, PiiTypeOK
<1>4. \A r \in Reveals : GrantInv(r) BY <1>1 DEF GrantInv
<1>5. \A v \in RowViews : ViewInv(v) BY <1>2 DEF ViewInv
<1> QED BY <1>3, <1>4, <1>5 DEF PiiInv

\* The row of r is the same, or it can no longer be used.
Kept(r) ==
    /\ piiGrant'[r] = [state |-> piiGrant'[r].state, activated |-> piiGrant'[r].activated]
    /\ piiGrant'[r].activated = piiGrant[r].activated
    /\ piiGrant'[r].state = piiGrant[r].state \/ piiGrant'[r].state \in {"revoked", "expired"}

Grows == ledger \subseteq ledger' /\ piiFaults \in Nat /\ piiFaults' \in Nat /\ piiFaults' >= piiFaults

LEMMA GrantStays ==
    ASSUME NEW r \in Reveals, GrantInv(r), Kept(r), Grows, revealing'[r] = revealing[r]
    PROVE  GrantInv(r)'
BY DEF GrantInv, Kept, Grows, Asked

LEMMA ViewStays ==
    ASSUME NEW v \in RowViews, ViewInv(v), ledger \subseteq ledger', rowView'[v] = rowView[v]
    PROVE  ViewInv(v)'
BY DEF ViewInv, Asked

LEMMA RevokedKeeps ==
    ASSUME PiiInv, NEW rs, piiGrant' = RevokedIn(rs)
    PROVE  /\ DOMAIN piiGrant' = Reveals
           /\ \A r \in Reveals : Kept(r) /\ (r \in rs => piiGrant'[r].state = "revoked")
<1>1. DOMAIN piiGrant' = Reveals BY DEF RevokedIn
<1>2. ASSUME NEW r \in Reveals PROVE Kept(r) /\ (r \in rs => piiGrant'[r].state = "revoked")
  <2>1. piiGrant[r] = [state |-> piiGrant[r].state, activated |-> piiGrant[r].activated] BY DEF PiiInv, GrantInv
  <2>2. CASE r \in rs BY <2>2, <2>1 DEF RevokedIn, Kept
  <2>3. CASE r \notin rs BY <2>3, <2>1 DEF RevokedIn, Kept
  <2> QED BY <2>2, <2>3
<1> QED BY <1>1, <1>2

LEMMA SameKept ==
    ASSUME PiiInv, NEW r \in Reveals, piiGrant'[r] = piiGrant[r] PROVE Kept(r)
BY DEF PiiInv, GrantInv, Kept

\* One step of a reveal moves r, and the rows of the others can only die.
LEMMA RevealAlone ==
    ASSUME PiiInv, NEW r \in Reveals, Grows, DOMAIN piiGrant' = Reveals, rowView' = rowView,
           DOMAIN revealing' = Reveals, revealing'[r] \in RevealRecords,
           \A q \in Reveals : q # r => revealing'[q] = revealing[q] /\ Kept(q),
           GrantInv(r)'
    PROVE  PiiInv'
<1>1. PiiTypeOK' BY DEF PiiInv, PiiTypeOK, Grows
<1>2. \A q \in Reveals : GrantInv(q)' BY GrantStays DEF PiiInv
<1>3. \A v \in RowViews : ViewInv(v)' BY ViewStays DEF PiiInv, Grows
<1> QED BY <1>1, <1>2, <1>3 DEF PiiInv

\* The effect of RevealStep.
LEMMA RevealMoves ==
    ASSUME PiiInv, NEW r \in Reveals, NEW from \in RevealSteps, NEW to \in RevealSteps, RevealStep(r, from, to)
    PROVE  /\ DOMAIN revealing' = Reveals /\ revealing'[r] \in RevealRecords
           /\ revealing[r].pc = from /\ revealing'[r].pc = to /\ revealing'[r].target = revealing[r].target
           /\ \A q \in Reveals : q # r => revealing'[q] = revealing[q]
           /\ rowView' = rowView
<1>1. /\ revealing[r].pc = from /\ revealing' = [revealing EXCEPT ![r].pc = to] /\ rowView' = rowView
  BY DEF RevealStep
<1>2. revealing[r] \in RevealRecords BY <1>1 DEF PiiInv, PiiTypeOK, RevealSteps
<1>3. DOMAIN revealing = Reveals BY DEF PiiInv, PiiTypeOK
<1>4. PICK x : x = revealing[r] /\ x \in RevealRecords BY <1>2
<1>5. revealing'[r] = [x EXCEPT !.pc = to] BY <1>1, <1>3, <1>4
<1> QED BY <1>1, <1>3, <1>4, <1>5 DEF RevealRecords

LEMMA StartRevealKeeps ==
    ASSUME PiiInv, NEW r \in Reveals, NEW t \in PiiTargets, StartReveal(r, t) PROVE PiiInv'
<1>1. /\ revealing[r].pc = "new" /\ revealing' = [revealing EXCEPT ![r] = [pc |-> "proof", target |-> t]]
      /\ UNCHANGED <<piiGrant, rowView, ledger, piiFaults>>
  BY DEF StartReveal
<1>2. /\ DOMAIN revealing' = Reveals /\ revealing'[r] = [pc |-> "proof", target |-> t]
      /\ \A q \in Reveals : q # r => revealing'[q] = revealing[q]
  BY <1>1 DEF PiiInv, PiiTypeOK
<1>3. revealing'[r] \in RevealRecords /\ revealing'[r].pc = "proof" BY <1>2 DEF RevealRecords, RevealSteps
<1>4. GrantInv(r)' BY <1>1, <1>3 DEF PiiInv, GrantInv, Asked
<1> QED BY <1>1, <1>2, <1>3, <1>4, SameKept, RevealAlone DEF PiiInv, PiiTypeOK, Grows

LEMMA FindKeeps ==
    ASSUME PiiInv, NEW r \in Reveals, FindProof(r) \/ FindParentSession(r) PROVE PiiInv'
<1>1. PICK from \in {"proof", "parent"}, to \in {"parent", "denied", "replace"} :
        RevealStep(r, from, to) /\ UNCHANGED <<piiGrant, ledger, piiFaults>>
  BY DEF FindProof, FindParentSession
<1>3. /\ DOMAIN revealing' = Reveals /\ revealing'[r] \in RevealRecords
      /\ revealing[r].pc = from /\ revealing'[r].pc = to
      /\ \A q \in Reveals : q # r => revealing'[q] = revealing[q]
      /\ rowView' = rowView BY <1>1, RevealMoves DEF RevealSteps
<1>4. GrantInv(r)' BY <1>1, <1>3 DEF PiiInv, GrantInv, Asked
<1> QED BY <1>3, <1>4, <1>1, SameKept, RevealAlone DEF PiiInv, PiiTypeOK, Grows

LEMMA ReplaceKeeps ==
    ASSUME PiiInv, NEW r \in Reveals, ReplaceOlder(r) PROVE PiiInv'
<1>1. RevealStep(r, "replace", "insert") /\ UNCHANGED <<ledger, piiFaults>> BY DEF ReplaceOlder
<1>2. /\ DOMAIN revealing' = Reveals /\ revealing'[r] \in RevealRecords
      /\ revealing[r].pc = "replace" /\ revealing'[r].pc = "insert"
      /\ \A q \in Reveals : q # r => revealing'[q] = revealing[q]
      /\ rowView' = rowView
  BY <1>1, RevealMoves DEF RevealSteps
<1>3. DOMAIN piiGrant' = Reveals /\ \A q \in Reveals : Kept(q) BY RevokedKeeps DEF ReplaceOlder
<1>4. GrantInv(r)' BY <1>1, <1>2, <1>3 DEF PiiInv, GrantInv, Asked, Kept
<1>5. Grows BY <1>1 DEF PiiInv, PiiTypeOK, Grows
<1> QED BY <1>2, <1>3, <1>4, <1>5, RevealAlone

LEMMA InsertKeeps ==
    ASSUME PiiInv, NEW r \in Reveals, InsertElevation(r) PROVE PiiInv'
<1>1. RevealStep(r, "insert", "audit") /\ piiGrant' = [piiGrant EXCEPT ![r].state = "live"]
      /\ UNCHANGED <<ledger, piiFaults>>
  BY DEF InsertElevation
<1>2. /\ DOMAIN revealing' = Reveals /\ revealing'[r] \in RevealRecords
      /\ revealing[r].pc = "insert" /\ revealing'[r].pc = "audit"
      /\ \A q \in Reveals : q # r => revealing'[q] = revealing[q]
      /\ rowView' = rowView
  BY <1>1, RevealMoves DEF RevealSteps
<1>3. /\ piiGrant[r] = [state |-> piiGrant[r].state, activated |-> piiGrant[r].activated]
      /\ piiGrant[r].activated = FALSE
  BY <1>2 DEF PiiInv, GrantInv
<1>4. piiGrant'[r] = [piiGrant[r] EXCEPT !.state = "live"] /\ DOMAIN piiGrant' = Reveals
  BY <1>1 DEF PiiInv, PiiTypeOK
<1>6. GrantInv(r)' BY <1>2, <1>3, <1>4 DEF GrantInv
<1>7. \A q \in Reveals : q # r => Kept(q) BY <1>1, SameKept DEF PiiInv, PiiTypeOK
<1>8. Grows BY <1>1 DEF PiiInv, PiiTypeOK, Grows
<1> QED BY <1>2, <1>4, <1>6, <1>7, <1>8, RevealAlone

LEMMA AuditRevealKeeps ==
    ASSUME PiiInv, NEW r \in Reveals, AuditReveal(r) PROVE PiiInv'
<1>1. PICK to \in {"activate", "undo"} :
        /\ RevealStep(r, "audit", to) /\ UNCHANGED piiGrant
        /\ to = "activate" => ledger' = ledger \cup {<<"revealing", r>>} /\ piiFaults' = piiFaults
        /\ to = "undo" => ledger' = ledger /\ piiFaults' = piiFaults + 1
  BY DEF AuditReveal, NoFault, Fault
<1>2. /\ DOMAIN revealing' = Reveals /\ revealing'[r] \in RevealRecords
      /\ revealing[r].pc = "audit" /\ revealing'[r].pc = to
      /\ \A q \in Reveals : q # r => revealing'[q] = revealing[q]
      /\ rowView' = rowView
  BY <1>1, RevealMoves DEF RevealSteps
<1>4. GrantInv(r)' BY <1>1, <1>2 DEF PiiInv, PiiTypeOK, GrantInv, Asked
<1> QED BY <1>2, <1>1, SameKept, <1>4, RevealAlone DEF PiiInv, PiiTypeOK, Grows

LEMMA ActivateKeeps ==
    ASSUME PiiInv, NEW r \in Reveals, ActivateElevation(r) PROVE PiiInv'
<1>1. PICK to \in {"granted", "undo"} :
        /\ RevealStep(r, "activate", to) /\ ledger' = ledger /\ piiGrant' \in {piiGrant, Activated(r)}
        /\ piiFaults' = piiFaults \/ (piiFaults' = piiFaults + 1 /\ to = "undo")
        /\ to = "undo" => piiFaults' = piiFaults + 1 \/ (piiGrant[r].state # "live" /\ piiGrant' = Activated(r))
  BY DEF ActivateElevation, NoFault, Fault
<1>2. /\ DOMAIN revealing' = Reveals /\ revealing'[r] \in RevealRecords
      /\ revealing[r].pc = "activate" /\ revealing'[r].pc = to
      /\ \A q \in Reveals : q # r => revealing'[q] = revealing[q]
      /\ rowView' = rowView
  BY <1>1, RevealMoves DEF RevealSteps
<1>3. piiGrant[r] = [state |-> piiGrant[r].state, activated |-> piiGrant[r].activated] /\ Asked(r)
  BY <1>2 DEF PiiInv, GrantInv
<1>4. /\ DOMAIN piiGrant' = Reveals /\ \A q \in Reveals : q # r => piiGrant'[q] = piiGrant[q]
      /\ piiGrant'[r] = piiGrant[r] \/ piiGrant'[r] = [piiGrant[r] EXCEPT !.activated = TRUE]
  BY <1>1 DEF Activated, PiiInv, PiiTypeOK
<1>5. /\ piiGrant'[r] = [state |-> piiGrant'[r].state, activated |-> piiGrant'[r].activated]
      /\ piiGrant'[r].state = piiGrant[r].state
  <2>1. CASE piiGrant'[r] = piiGrant[r] BY <1>3, <2>1
  <2>2. CASE piiGrant'[r] = [piiGrant[r] EXCEPT !.activated = TRUE] BY <1>3, <2>2
  <2> QED BY <1>4, <2>1, <2>2
<1>8. GrantInv(r)' BY <1>1, <1>2, <1>3, <1>5 DEF GrantInv, Asked, PiiInv, PiiTypeOK
<1> QED BY <1>2, <1>4, <1>1, SameKept, <1>8, RevealAlone DEF PiiInv, PiiTypeOK, Grows

LEMMA UndoKeeps ==
    ASSUME PiiInv, NEW r \in Reveals, UndoReveal(r) PROVE PiiInv'
<1>1. RevealStep(r, "undo", "failed") /\ ledger' = ledger BY DEF UndoReveal
<1>2. /\ DOMAIN revealing' = Reveals /\ revealing'[r] \in RevealRecords
      /\ revealing[r].pc = "undo" /\ revealing'[r].pc = "failed" /\ revealing'[r].target = revealing[r].target
      /\ \A q \in Reveals : q # r => revealing'[q] = revealing[q]
      /\ rowView' = rowView
  BY <1>1, RevealMoves DEF RevealSteps
<1>3. piiFaults \in Nat BY DEF PiiInv, PiiTypeOK
<1>4. CASE piiGrant' = RevokedIn(LiveFor(revealing[r].target)) /\ NoFault
  <2>1. DOMAIN piiGrant' = Reveals /\ \A q \in Reveals : Kept(q) BY <1>4, RevokedKeeps
  <2>2. piiGrant[r].state = "live" => piiGrant'[r].state = "revoked" BY <1>4, RevokedKeeps DEF LiveFor
  <2>3. piiGrant'[r].state # "live" BY <2>1, <2>2 DEF Kept
  <2>4. Grows BY <1>1, <1>3, <1>4 DEF Grows, NoFault
  <2>5. GrantInv(r)' BY <1>1, <1>2, <2>1, <2>3 DEF PiiInv, GrantInv, Asked, Kept
  <2> QED BY <1>2, <2>1, <2>4, <2>5, RevealAlone
<1>5. CASE UNCHANGED piiGrant /\ Fault
  <2>1. DOMAIN piiGrant' = Reveals /\ \A q \in Reveals : Kept(q) BY <1>5, SameKept DEF PiiInv, PiiTypeOK
  <2>2. Grows /\ piiFaults' = piiFaults + 1 BY <1>1, <1>3, <1>5 DEF Grows, Fault
  <2>3. GrantInv(r)' BY <1>1, <1>2, <1>3, <1>5, <2>2 DEF PiiInv, GrantInv, Asked
  <2> QED BY <1>2, <2>1, <2>2, <2>3, RevealAlone
<1> QED BY <1>4, <1>5 DEF UndoReveal

\* One step of a view moves v; no elevation changes.
LEMMA ViewAlone ==
    ASSUME PiiInv, NEW v \in RowViews, Grows, piiGrant' = piiGrant, revealing' = revealing,
           DOMAIN rowView' = RowViews, rowView'[v] \in ViewRecords,
           \A u \in RowViews : u # v => rowView'[u] = rowView[u],
           ViewInv(v)'
    PROVE  PiiInv'
<1>1. PiiTypeOK' BY DEF PiiInv, PiiTypeOK, Grows
<1>2. \A q \in Reveals : GrantInv(q)' BY GrantStays, SameKept DEF PiiInv
<1>3. \A u \in RowViews : ViewInv(u)' BY ViewStays DEF PiiInv, Grows
<1> QED BY <1>1, <1>2, <1>3 DEF PiiInv

LEMMA ViewMoves ==
    ASSUME PiiInv, NEW v \in RowViews, NEW from \in ViewSteps, NEW to \in ViewSteps, ViewStep(v, from, to)
    PROVE  /\ DOMAIN rowView' = RowViews /\ rowView'[v] \in ViewRecords
           /\ rowView[v].pc = from /\ rowView'[v].pc = to /\ rowView'[v].kind = rowView[v].kind
           /\ rowView'[v].mode = rowView[v].mode /\ rowView'[v].by = rowView[v].by
           /\ \A u \in RowViews : u # v => rowView'[u] = rowView[u]
           /\ piiGrant' = piiGrant /\ revealing' = revealing
<1>1. rowView[v].pc = from /\ rowView' = [rowView EXCEPT ![v].pc = to] /\ piiGrant' = piiGrant /\ revealing' = revealing
  BY DEF ViewStep
<1>2. DOMAIN rowView = RowViews BY DEF PiiInv, PiiTypeOK
<1>3. PICK x : x = rowView[v] /\ x \in ViewRecords BY <1>1 DEF PiiInv, PiiTypeOK, ViewSteps
<1>4. rowView'[v] = [x EXCEPT !.pc = to] BY <1>1, <1>2, <1>3
<1> QED BY <1>1, <1>2, <1>3, <1>4 DEF ViewRecords

LEMMA StartViewKeeps ==
    ASSUME PiiInv, NEW v \in RowViews, NEW kind \in {"rows", "related"}, NEW t \in PiiTargets,
           NEW mode \in {"masked", "revealed"}, StartView(v, kind, t, mode)
    PROVE  PiiInv'
<1>1. PICK pc \in {"authorize", "worker"} :
        /\ rowView' = [rowView EXCEPT ![v] = [pc |-> pc, kind |-> kind, target |-> t, mode |-> mode, by |-> {}]]
        /\ mode = "revealed" => pc = "authorize"
        /\ UNCHANGED <<piiGrant, revealing, ledger, piiFaults>>
  BY DEF StartView
<1>2. /\ DOMAIN rowView' = RowViews
      /\ rowView'[v] = [pc |-> pc, kind |-> kind, target |-> t, mode |-> mode, by |-> {}]
      /\ \A u \in RowViews : u # v => rowView'[u] = rowView[u]
  BY <1>1 DEF PiiInv, PiiTypeOK
<1>3. rowView'[v] \in ViewRecords BY <1>2 DEF ViewRecords, ViewSteps
<1>4. ViewInv(v)' BY <1>1, <1>2 DEF ViewInv
<1>5. Grows BY <1>1 DEF PiiInv, PiiTypeOK, Grows
<1> QED BY <1>1, <1>2, <1>3, <1>4, <1>5, ViewAlone

LEMMA AuthorizeKeeps ==
    ASSUME PiiInv, NEW v \in RowViews, AuthorizePii(v) PROVE PiiInv'
<1>1. PICK found \in SUBSET Reveals, pc \in {"refused", "worker"} :
        /\ \A r \in found : Usable(r)
        /\ pc = "worker" => found # {}
        /\ rowView[v].pc = "authorize"
        /\ rowView' = [rowView EXCEPT ![v].pc = pc, ![v].by = found]
        /\ UNCHANGED <<piiGrant, revealing, ledger, piiFaults>>
  <2> DEFINE fnd == {r \in LiveFor(rowView[v].target) : Usable(r)}
  <2>1. fnd \in SUBSET Reveals /\ \A r \in fnd : Usable(r) BY DEF LiveFor
  <2>2. /\ rowView[v].pc = "authorize"
        /\ rowView' = [rowView EXCEPT ![v].pc = IF fnd = {} THEN "refused" ELSE "worker", ![v].by = fnd]
        /\ UNCHANGED <<piiGrant, revealing, ledger, piiFaults>>
    BY DEF AuthorizePii
  <2> HIDE DEF fnd
  <2> QED BY <2>1, <2>2
<1>2. DOMAIN rowView = RowViews BY DEF PiiInv, PiiTypeOK
<1>3. PICK x : x = rowView[v] /\ x \in ViewRecords BY <1>1 DEF PiiInv, PiiTypeOK, ViewSteps
<1>5. rowView'[v] \in ViewRecords /\ rowView'[v].pc = pc /\ rowView'[v].by = found
  BY <1>3, <1>1, <1>2 DEF ViewRecords, ViewSteps
<1>7. \A r \in found : Asked(r) BY <1>1 DEF Usable, PiiInv, GrantInv
<1>8. ViewInv(v)' BY <1>1, <1>5, <1>7 DEF ViewInv, Asked
<1>9. Grows BY <1>1 DEF PiiInv, PiiTypeOK, Grows
<1> QED BY <1>1, <1>5, <1>2, <1>8, <1>9, ViewAlone

LEMMA AskKeeps ==
    ASSUME PiiInv, NEW v \in RowViews, AskRows(v) \/ AskRelatedRows(v) PROVE PiiInv'
<1>1. PICK to \in {"audit", "refused"} :
        ViewStep(v, "worker", to) /\ ledger' = ledger /\ (piiFaults' = piiFaults \/ piiFaults' = piiFaults + 1)
  BY DEF AskRows, AskRelatedRows, WorkerAnswers, NoFault, Fault
<1>2. /\ DOMAIN rowView' = RowViews /\ rowView'[v] \in ViewRecords
      /\ rowView[v].pc = "worker" /\ rowView'[v].pc = to /\ rowView'[v].kind = rowView[v].kind
      /\ rowView'[v].mode = rowView[v].mode /\ rowView'[v].by = rowView[v].by
      /\ \A u \in RowViews : u # v => rowView'[u] = rowView[u]
      /\ piiGrant' = piiGrant /\ revealing' = revealing
  BY <1>1, ViewMoves DEF ViewSteps
<1>3. Grows BY <1>1 DEF PiiInv, PiiTypeOK, Grows
<1>4. ViewInv(v)' BY <1>1, <1>2 DEF PiiInv, ViewInv, Asked
<1> QED BY <1>2, <1>3, <1>4, ViewAlone

LEMMA AuditViewKeeps ==
    ASSUME PiiInv, NEW v \in RowViews, AuditRows(v) \/ AuditRelatedRows(v) \/ AuditPiiRows(v) PROVE PiiInv'
<1>1. PICK from \in {"audit", "audit_pii"}, to \in {"audit_pii", "answered", "refused"} :
        /\ ViewStep(v, from, to)
        /\ piiFaults' = piiFaults \/ piiFaults' = piiFaults + 1
        /\ to = "refused" => ledger' = ledger
        /\ to # "refused" /\ from = "audit" =>
             /\ ledger' = ledger \cup {<<rowView[v].kind, v>>}
             /\ rowView[v].mode = "revealed" => to = "audit_pii"
        /\ to # "refused" /\ from = "audit_pii" => ledger' = ledger \cup {<<"pii_rows", v>>}
  BY DEF AuditRows, AuditRelatedRows, AuditPiiRows, AuditView, NoFault, Fault
<1>2. /\ DOMAIN rowView' = RowViews /\ rowView'[v] \in ViewRecords
      /\ rowView[v].pc = from /\ rowView'[v].pc = to /\ rowView'[v].kind = rowView[v].kind
      /\ rowView'[v].mode = rowView[v].mode /\ rowView'[v].by = rowView[v].by
      /\ \A u \in RowViews : u # v => rowView'[u] = rowView[u]
      /\ piiGrant' = piiGrant /\ revealing' = revealing
  BY <1>1, ViewMoves DEF ViewSteps
<1>3. Grows BY <1>1 DEF PiiInv, PiiTypeOK, Grows
<1>4. ViewInv(v)' BY <1>1, <1>2 DEF PiiInv, ViewInv, Asked
<1> QED BY <1>2, <1>3, <1>4, ViewAlone

\* Hiding, logging out and expiry only take elevations away.
LEMMA WithdrawKeeps ==
    ASSUME PiiInv, \/ RevokePiiReveal \/ LogoutSession \/ RevokeSession
                   \/ \E r \in Reveals : Expire(r)
                   \/ UNCHANGED piiVars
    PROVE  PiiInv'
<1>1. revealing' = revealing /\ rowView' = rowView /\ ledger \subseteq ledger'
  BY DEF RevokePiiReveal, LogoutSession, RevokeSession, Expire, piiVars
<1>2. Grows
  BY <1>1 DEF RevokePiiReveal, LogoutSession, RevokeSession, Expire, piiVars, NoFault, Fault, PiiInv, PiiTypeOK, Grows
<1>3. DOMAIN piiGrant' = Reveals /\ \A q \in Reveals : Kept(q)
  <2>1. CASE \E rs : piiGrant' = RevokedIn(rs) BY <2>1, RevokedKeeps
  <2>2. CASE piiGrant' = piiGrant BY <2>2, SameKept DEF PiiInv, PiiTypeOK
  <2>3. ASSUME NEW r \in Reveals, Expire(r) PROVE DOMAIN piiGrant' = Reveals /\ \A q \in Reveals : Kept(q)
    <3>2. piiGrant'[r] = [piiGrant[r] EXCEPT !.state = "expired"] /\ DOMAIN piiGrant' = Reveals
      BY <2>3 DEF Expire, PiiInv, PiiTypeOK
    <3>3. piiGrant'[r] = [state |-> "expired", activated |-> piiGrant[r].activated]
      BY <3>2 DEF PiiInv, GrantInv
    <3>4. Kept(r) BY <3>3 DEF Kept
    <3>5. \A q \in Reveals : q # r => Kept(q) BY <2>3, SameKept DEF Expire, PiiInv, PiiTypeOK
    <3> QED BY <3>2, <3>4, <3>5
  <2> QED BY <2>1, <2>2, <2>3 DEF RevokePiiReveal, LogoutSession, RevokeSession, piiVars
<1>4. PiiTypeOK' BY <1>1, <1>2, <1>3 DEF PiiInv, PiiTypeOK, Grows
<1>5. \A q \in Reveals : GrantInv(q)' BY <1>1, <1>2, <1>3, GrantStays DEF PiiInv
<1>6. \A u \in RowViews : ViewInv(u)' BY <1>1, ViewStays DEF PiiInv
<1> QED BY <1>4, <1>5, <1>6 DEF PiiInv

\* Whatever fails and however requests interleave, an elevation that would
\* authorise a view has its reveal in the ledger, revealed rows leave the API
\* only with the reveal, the view and the revealed view in the ledger, and a
\* reveal that failed leaves nothing usable unless two calls failed.
THEOREM PiiGuarded == PiiSpec => []PiiIsGuarded
<1>1. PiiInv /\ [PiiNext]_piiVars => PiiInv'
  <2> SUFFICES ASSUME PiiInv, [PiiNext]_piiVars PROVE PiiInv' OBVIOUS
  <2> QED BY StartRevealKeeps, FindKeeps, ReplaceKeeps, InsertKeeps, AuditRevealKeeps, ActivateKeeps, UndoKeeps,
    StartViewKeeps, AuthorizeKeeps, AskKeeps, AuditViewKeeps, WithdrawKeeps DEF PiiNext
<1>2. PiiInv => PiiIsGuarded
  <2> SUFFICES ASSUME PiiInv PROVE PiiIsGuarded OBVIOUS
  <2>1. DisclosureIsAudited BY DEF PiiInv, GrantInv, ViewInv, Asked, Usable, DisclosureIsAudited
  <2>2. FailedRevealIsDead BY DEF PiiInv, PiiTypeOK, GrantInv, Usable, FailedRevealIsDead
  <2> QED BY <2>1, <2>2 DEF PiiIsGuarded
<1> QED BY PiiInitially, <1>1, <1>2, PTL DEF PiiSpec

-----
(* The audited views of a schema. *)
SchemaSteps == {"again", "served", "writing", "waiting", "failed"}

IsView(x) == x = [pc |-> "new"] \/ x = [pc |-> "worker"] \/ x = [pc |-> "failed"] \/
             x \in [pc : SchemaSteps, of : Checksums, at : Nat]

SchemaTypeOK ==
    /\ schemaClock \in Nat
    /\ DOMAIN schemaView = SchemaRequests /\ \A v \in SchemaRequests : IsView(schemaView[v])
    /\ lastWritten \in [Checksums -> Nat \cup {Never}]
    /\ pendingWrite \in [Checksums -> SchemaRequests \cup {NoWriter}]
    /\ writes \subseteq [of : Checksums, at : Nat]

\* Entries lie in the past, the limiter remembers the latest of a version as
\* long as it covers anything, and what it remembers is in the ledger.
EntriesRemembered ==
    /\ \A w \in writes : w.at <= schemaClock
    /\ \A w \in writes : \/ lastWritten[w.of] # Never /\ w.at <= lastWritten[w.of]
                         \/ schemaClock - w.at >= AuditWindow
    /\ \A c \in Checksums : lastWritten[c] # Never => [of |-> c, at |-> lastWritten[c]] \in writes

\* At most one view writes an entry of a version, and no earlier entry covers it.
OneWriter ==
    /\ \A c \in Checksums : pendingWrite[c] # NoWriter =>
         schemaView[pendingWrite[c]].pc = "writing" /\ schemaView[pendingWrite[c]].of = c
    /\ \A v \in SchemaRequests : schemaView[v].pc = "writing" =>
         /\ pendingWrite[schemaView[v].of] = v
         /\ \A w \in writes : w.of = schemaView[v].of => schemaClock - w.at >= AuditWindow

Covered(v) == schemaView[v].pc = "served" =>
    \E w \in writes : w.of = schemaView[v].of /\ schemaView[v].at - w.at \in 0..(AuditWindow - 1)
Apart == \A w, x \in writes : w.of = x.of /\ w.at < x.at => x.at - w.at >= AuditWindow
WaitsForWriter(v) == schemaView[v].pc = "waiting" => pendingWrite[schemaView[v].of] # NoWriter

SchemaInv ==
    /\ SchemaTypeOK /\ EntriesRemembered /\ OneWriter /\ Apart
    /\ \A v \in SchemaRequests : Covered(v) /\ WaitsForWriter(v)

LEMMA SchemaInitially == SchemaInit => SchemaInv
BY SchemaViewsAssumption DEF SchemaInit, SchemaInv, SchemaTypeOK, IsView, EntriesRemembered, OneWriter, Apart,
  Covered, WaitsForWriter, Never, NoWriter

\* A view goes on without touching the limiter.
LEMMA RequestKeeps ==
    ASSUME SchemaInv, NEW v \in SchemaRequests, RequestSchema(v) \/ SchemaAnswered(v) PROVE SchemaInv'
<1>1. /\ schemaView[v].pc \in {"new", "worker"}
      /\ UNCHANGED <<lastWritten, pendingWrite, writes, schemaClock>>
  BY DEF RequestSchema, SchemaAnswered
<1>2. PICK y : /\ IsView(y) /\ y.pc \in {"worker", "again", "failed"}
               /\ schemaView' = [schemaView EXCEPT ![v] = y]
  BY DEF IsView, ViewAt, SchemaInv, SchemaTypeOK, SchemaSteps, RequestSchema, SchemaAnswered
<1>3. /\ DOMAIN schemaView' = SchemaRequests /\ schemaView'[v] = y
      /\ \A u \in SchemaRequests : u # v => schemaView'[u] = schemaView[u]
  BY <1>2 DEF SchemaInv, SchemaTypeOK
<1>4. SchemaTypeOK' /\ EntriesRemembered' /\ Apart'
  BY <1>1, <1>2, <1>3 DEF SchemaInv, SchemaTypeOK, EntriesRemembered, Apart
<1>5. OneWriter' BY <1>1, <1>2, <1>3 DEF SchemaInv, SchemaTypeOK, OneWriter
<1> QED BY <1>4, <1>5, <1>1, <1>2, <1>3 DEF SchemaInv, Covered, WaitsForWriter

LEMMA RunKeeps ==
    ASSUME SchemaInv, NEW v \in SchemaRequests, RunLimited(v) PROVE SchemaInv'
<1>1. PICK c \in Checksums : schemaView[v].pc = "again" /\ c = schemaView[v].of
  BY DEF RunLimited, SchemaInv, SchemaTypeOK, IsView
<1>2. PICK y : /\ schemaView' = [schemaView EXCEPT ![v] = y]
               /\ y \in [pc : SchemaSteps, of : Checksums, at : Nat]
               /\ y.of = c /\ y.at = schemaClock
               /\ \/ y.pc = "served" /\ EntryIsFresh(c)
                  \/ y.pc = "writing" /\ ~EntryIsFresh(c) /\ pendingWrite[c] = NoWriter
                  \/ y.pc = "waiting" /\ ~EntryIsFresh(c) /\ pendingWrite[c] # NoWriter
  <2> DEFINE z == ViewAt(IF EntryIsFresh(c) THEN "served" ELSE IF pendingWrite[c] = NoWriter THEN "writing" ELSE "waiting", c)
  <2>1. schemaView' = [schemaView EXCEPT ![v] = z] BY <1>1 DEF RunLimited
  <2>2. /\ z \in [pc : SchemaSteps, of : Checksums, at : Nat]
        /\ z.of = c /\ z.at = schemaClock
        /\ \/ z.pc = "served" /\ EntryIsFresh(c)
           \/ z.pc = "writing" /\ ~EntryIsFresh(c) /\ pendingWrite[c] = NoWriter
           \/ z.pc = "waiting" /\ ~EntryIsFresh(c) /\ pendingWrite[c] # NoWriter
    BY DEF ViewAt, SchemaSteps, SchemaInv, SchemaTypeOK
  <2> HIDE DEF z
  <2> QED BY <2>1, <2>2
<1>3. /\ DOMAIN schemaView' = SchemaRequests /\ schemaView'[v] = y
      /\ \A u \in SchemaRequests : u # v => schemaView'[u] = schemaView[u]
  BY <1>2 DEF SchemaInv, SchemaTypeOK
<1>4. /\ writes' = writes /\ schemaClock' = schemaClock
      /\ lastWritten' = [k \in Checksums |-> IF EntryIsFresh(k) THEN lastWritten[k] ELSE Never]
      /\ pendingWrite' = [pendingWrite EXCEPT ![c] = IF ~EntryIsFresh(c) /\ pendingWrite[c] = NoWriter THEN v ELSE @]
  BY <1>1 DEF RunLimited
<1>5. /\ lastWritten' \in [Checksums -> Nat \cup {Never}]
      /\ \A k \in Checksums : EntryIsFresh(k) => lastWritten'[k] = lastWritten[k]
      /\ \A k \in Checksums : ~EntryIsFresh(k) => lastWritten'[k] = Never
  BY <1>4 DEF SchemaInv, SchemaTypeOK
<1>6. /\ pendingWrite' \in [Checksums -> SchemaRequests \cup {NoWriter}]
      /\ pendingWrite'[c] = IF y.pc = "writing" THEN v ELSE pendingWrite[c]
      /\ \A k \in Checksums : k # c => pendingWrite'[k] = pendingWrite[k]
  BY <1>2, <1>4 DEF SchemaInv, SchemaTypeOK
<1>7. SchemaTypeOK' BY <1>2, <1>3, <1>4, <1>5, <1>6 DEF SchemaInv, SchemaTypeOK, IsView
<1>8. \A w \in writes : ~EntryIsFresh(w.of) => schemaClock - w.at >= AuditWindow
  BY SchemaViewsAssumption DEF SchemaInv, SchemaTypeOK, EntryIsFresh, EntriesRemembered
<1>9. EntriesRemembered' BY <1>4, <1>5, <1>8 DEF SchemaInv, SchemaTypeOK, EntriesRemembered
<1>10. Apart' BY <1>4 DEF SchemaInv, Apart
<1>11. OneWriter'
  <2>1. \A k \in Checksums : pendingWrite[k] # v BY <1>1, SchemaViewsAssumption DEF SchemaInv, OneWriter, NoWriter
  <2>2. \A k \in Checksums : pendingWrite'[k] # NoWriter =>
            schemaView'[pendingWrite'[k]].pc = "writing" /\ schemaView'[pendingWrite'[k]].of = k
    <3> SUFFICES ASSUME NEW k \in Checksums, pendingWrite'[k] # NoWriter
                 PROVE  schemaView'[pendingWrite'[k]].pc = "writing" /\ schemaView'[pendingWrite'[k]].of = k
      OBVIOUS
    <3>1. CASE k = c /\ y.pc = "writing" BY <3>1, <1>2, <1>3, <1>6
    <3>2. CASE ~(k = c /\ y.pc = "writing")
      BY <3>2, <1>6, <2>1, <1>3 DEF SchemaInv, SchemaTypeOK, OneWriter
    <3> QED BY <3>1, <3>2
  <2>3. \A u \in SchemaRequests : schemaView'[u].pc = "writing" =>
          /\ pendingWrite'[schemaView'[u].of] = u
          /\ \A w \in writes : w.of = schemaView'[u].of => schemaClock - w.at >= AuditWindow
    <3> SUFFICES ASSUME NEW u \in SchemaRequests, schemaView'[u].pc = "writing"
                 PROVE  /\ pendingWrite'[schemaView'[u].of] = u
                        /\ \A w \in writes : w.of = schemaView'[u].of => schemaClock - w.at >= AuditWindow
      OBVIOUS
    <3>1. CASE u = v BY <3>1, <1>2, <1>3, <1>6, <1>8
    <3>2. CASE u # v
      <4>1. schemaView'[u] = schemaView[u] BY <3>2, <1>3
      <4>2. schemaView[u].of \in Checksums BY <4>1 DEF SchemaInv, SchemaTypeOK, IsView
      <4>3. pendingWrite[schemaView[u].of] = u BY <4>1 DEF SchemaInv, OneWriter
      <4>4. u # NoWriter BY SchemaViewsAssumption DEF NoWriter
      <4>5. pendingWrite'[schemaView[u].of] = u BY <4>2, <4>3, <4>4, <1>2, <1>6
      <4> QED BY <4>1, <4>5 DEF SchemaInv, OneWriter
    <3> QED BY <3>1, <3>2
  <2> QED BY <2>2, <2>3, <1>4 DEF OneWriter
<1>12. \A u \in SchemaRequests : Covered(u)'
  <2>1. EntryIsFresh(c) => \E w \in writes : w.of = c /\ schemaClock - w.at \in 0..(AuditWindow - 1)
    <3> SUFFICES ASSUME EntryIsFresh(c) PROVE \E w \in writes : w.of = c /\ schemaClock - w.at \in 0..(AuditWindow - 1)
      OBVIOUS
    <3>1. PICK w \in writes : w = [of |-> c, at |-> lastWritten[c]] BY DEF EntryIsFresh, SchemaInv, EntriesRemembered
    <3>2. w.of = c /\ w.at = lastWritten[c] /\ w.at \in Nat /\ w.at <= schemaClock /\ schemaClock \in Nat
      BY <3>1 DEF SchemaInv, SchemaTypeOK, EntriesRemembered
    <3> QED BY <3>2, SchemaViewsAssumption DEF EntryIsFresh
  <2> QED BY <2>1, <1>2, <1>3, <1>4 DEF SchemaInv, Covered
<1>13. \A u \in SchemaRequests : WaitsForWriter(u)'
  <2> SUFFICES ASSUME NEW u \in SchemaRequests, schemaView'[u].pc = "waiting"
               PROVE  pendingWrite'[schemaView'[u].of] # NoWriter
    BY DEF WaitsForWriter
  <2>1. CASE u = v BY <2>1, <1>2, <1>3, <1>6
  <2>2. CASE u # v
    BY <2>2, <1>3, <1>2, <1>6, SchemaViewsAssumption DEF SchemaInv, SchemaTypeOK, IsView,
      WaitsForWriter, NoWriter
  <2> QED BY <2>1, <2>2
<1> QED BY <1>7, <1>9, <1>10, <1>11, <1>12, <1>13 DEF SchemaInv

LEMMA WriteKeeps ==
    ASSUME SchemaInv, NEW v \in SchemaRequests, WriteEntry(v) PROVE SchemaInv'
<1>1. PICK c \in Checksums : schemaView[v].pc = "writing" /\ c = schemaView[v].of
  BY DEF WriteEntry, SchemaInv, SchemaTypeOK, IsView
<1>2. PICK mine, others \in {"served", "again", "failed"} :
        /\ SettleViews(v, c, mine, others) /\ others # "served"
        /\ \/ /\ mine = "served" /\ lastWritten' = [lastWritten EXCEPT ![c] = schemaClock]
              /\ writes' = writes \cup {[of |-> c, at |-> schemaClock]}
           \/ /\ mine = "failed" /\ UNCHANGED <<lastWritten, writes>>
        /\ pendingWrite' = [pendingWrite EXCEPT ![c] = NoWriter] /\ schemaClock' = schemaClock
  BY <1>1 DEF WriteEntry
<1>3. /\ DOMAIN schemaView' = SchemaRequests
      /\ \A u \in SchemaRequests : schemaView'[u] =
           IF u = v THEN ViewAt(mine, c)
           ELSE IF schemaView[u].pc = "waiting" /\ schemaView[u].of = c THEN ViewAt(others, c) ELSE schemaView[u]
  BY <1>2 DEF SettleViews
<1>4. \A pc \in {"served", "again", "failed"} :
        /\ IsView(ViewAt(pc, c))
        /\ ViewAt(pc, c).pc = pc /\ ViewAt(pc, c).of = c /\ ViewAt(pc, c).at = schemaClock
  BY DEF ViewAt, IsView, SchemaSteps, SchemaInv, SchemaTypeOK
<1>5. \A u \in SchemaRequests :
        /\ IsView(schemaView'[u])
        /\ schemaView'[u].pc \in {"waiting", "writing"} => schemaView'[u] = schemaView[u] /\ u # v
        /\ schemaView'[u].pc = "waiting" => schemaView[u].of # c
        /\ schemaView'[u].pc = "served" => schemaView'[u] = schemaView[u] \/
             (mine = "served" /\ schemaView'[u].of = c /\ schemaView'[u].at = schemaClock)
  BY <1>3, <1>4, <1>2 DEF SchemaInv, SchemaTypeOK
<1>6. PICK n : n = [of |-> c, at |-> schemaClock] /\ n.of = c /\ n.at = schemaClock /\ n \in [of : Checksums, at : Nat]
  <2>1. [of |-> c, at |-> schemaClock] \in [of : Checksums, at : Nat] BY DEF SchemaInv, SchemaTypeOK
  <2> QED BY <2>1
<1>7. schemaClock \in Nat /\ schemaClock # Never BY DEF SchemaInv, SchemaTypeOK, Never
<1>8. /\ writes' \subseteq [of : Checksums, at : Nat] /\ writes \subseteq writes'
      /\ \A w \in writes' : w \in writes \/ (w = n /\ mine = "served")
      /\ mine = "served" => n \in writes'
  BY <1>2, <1>6 DEF SchemaInv, SchemaTypeOK
<1>9. /\ lastWritten' \in [Checksums -> Nat \cup {Never}]
      /\ \A k \in Checksums : lastWritten'[k] = lastWritten[k] \/ (k = c /\ mine = "served" /\ lastWritten'[k] = schemaClock)
      /\ mine = "served" => lastWritten'[c] = schemaClock
  BY <1>2, <1>7 DEF SchemaInv, SchemaTypeOK
<1>10. /\ pendingWrite' \in [Checksums -> SchemaRequests \cup {NoWriter}] /\ pendingWrite'[c] = NoWriter
       /\ \A k \in Checksums : k # c => pendingWrite'[k] = pendingWrite[k]
  BY <1>2 DEF SchemaInv, SchemaTypeOK
<1>11. SchemaTypeOK' BY <1>2, <1>3, <1>5, <1>8, <1>9, <1>10 DEF SchemaInv, SchemaTypeOK
<1>12. \A w \in writes : w.of \in Checksums /\ w.at \in Nat /\ w.at <= schemaClock
  BY DEF SchemaInv, SchemaTypeOK, EntriesRemembered
<1>13. \A w \in writes : w.of = c => schemaClock - w.at >= AuditWindow BY <1>1 DEF SchemaInv, OneWriter
<1>14. EntriesRemembered'
  <2>1. \A w \in writes' : w.at <= schemaClock BY <1>6, <1>7, <1>8, <1>12
  <2>2. \A w \in writes' : \/ lastWritten'[w.of] # Never /\ w.at <= lastWritten'[w.of]
                           \/ schemaClock - w.at >= AuditWindow
    BY <1>7, <1>9, <1>12, <1>6, <1>8 DEF SchemaInv, EntriesRemembered
  <2> QED BY <2>1, <2>2, <1>6, <1>8, <1>9, <1>2 DEF EntriesRemembered, SchemaInv
<1>15. Apart' BY <1>6, <1>8, <1>13, <1>7, <1>12 DEF Apart, SchemaInv
<1>16. OneWriter'
  <2>1. \A k \in Checksums : k # c /\ pendingWrite[k] # NoWriter =>
          pendingWrite[k] \in SchemaRequests /\ pendingWrite[k] # v /\
          schemaView[pendingWrite[k]].pc = "writing" /\ schemaView'[pendingWrite[k]] = schemaView[pendingWrite[k]]
    BY <1>1, <1>3 DEF SchemaInv, SchemaTypeOK, OneWriter
  <2>3. \A u \in SchemaRequests : schemaView'[u].pc = "writing" =>
          /\ pendingWrite'[schemaView'[u].of] = u
          /\ \A w \in writes' : w.of = schemaView'[u].of => schemaClock - w.at >= AuditWindow
    <3> SUFFICES ASSUME NEW u \in SchemaRequests, schemaView'[u].pc = "writing"
                 PROVE  /\ pendingWrite'[schemaView'[u].of] = u
                        /\ \A w \in writes' : w.of = schemaView'[u].of => schemaClock - w.at >= AuditWindow
      OBVIOUS
    <3>1. schemaView'[u] = schemaView[u] /\ u # v BY <1>5
    <3>2. schemaView[u].of \in Checksums BY <3>1 DEF SchemaInv, SchemaTypeOK, IsView
    <3>3. /\ pendingWrite[schemaView[u].of] = u
          /\ \A w \in writes : w.of = schemaView[u].of => schemaClock - w.at >= AuditWindow
      BY <3>1 DEF SchemaInv, OneWriter
    <3>4. pendingWrite[c] = v BY <1>1 DEF SchemaInv, OneWriter
    <3>5. schemaView[u].of # c BY <3>1, <3>3, <3>4
    <3> QED BY <3>1, <3>2, <3>3, <3>5, <1>6, <1>8, <1>10
  <2> QED BY <2>1, <1>10, <2>3, <1>2 DEF OneWriter, SchemaInv
<1>17. \A u \in SchemaRequests : Covered(u)'
  <2> SUFFICES ASSUME NEW u \in SchemaRequests, schemaView'[u].pc = "served"
               PROVE  \E w \in writes' : w.of = schemaView'[u].of /\ schemaView'[u].at - w.at \in 0..(AuditWindow - 1)
    BY DEF Covered
  <2>1. CASE schemaView'[u] = schemaView[u] BY <2>1, <1>8 DEF SchemaInv, Covered
  <2>2. CASE mine = "served" /\ schemaView'[u].of = c /\ schemaView'[u].at = schemaClock
    BY <2>2, <1>6, <1>7, <1>8, SchemaViewsAssumption
  <2> QED BY <2>1, <2>2, <1>5
<1>18. \A u \in SchemaRequests : WaitsForWriter(u)'
  BY <1>5, <1>10 DEF WaitsForWriter, SchemaInv, SchemaTypeOK, IsView
<1> QED BY <1>11, <1>14, <1>15, <1>16, <1>17, <1>18 DEF SchemaInv

LEMMA SchemaTickKeeps ==
    ASSUME SchemaInv, SchemaTick \/ UNCHANGED schemaVars PROVE SchemaInv'
<1>1. /\ schemaClock' \in Nat /\ schemaClock \in Nat /\ schemaClock' >= schemaClock
      /\ UNCHANGED <<schemaView, lastWritten, pendingWrite, writes>>
  BY DEF SchemaTick, schemaVars, SchemaInv, SchemaTypeOK
<1>2. \A w \in writes : w.at \in Nat BY DEF SchemaInv, SchemaTypeOK
<1>3. SchemaTypeOK' /\ Apart' /\ EntriesRemembered'
  BY <1>1, <1>2, SchemaViewsAssumption DEF SchemaInv, SchemaTypeOK, Apart, EntriesRemembered
<1>4. OneWriter' BY <1>1, <1>2, SchemaViewsAssumption DEF SchemaInv, OneWriter
<1> QED BY <1>3, <1>4, <1>1 DEF SchemaInv, Covered, WaitsForWriter

\* A version of the schema is shown only under an entry that is less than a
\* window old, entries of a version are at least a window apart, and no view
\* waits for a write that is not under way.
THEOREM SchemaAudited == SchemaSpec => []SchemaViewsAreAudited
<1>1. SchemaInv /\ [SchemaNext]_schemaVars => SchemaInv'
  BY RequestKeeps, RunKeeps, WriteKeeps, SchemaTickKeeps DEF SchemaNext
<1>2. SchemaInv => SchemaViewsAreAudited
  BY DEF SchemaInv, SchemaTypeOK, IsView, Covered, Apart, WaitsForWriter, OneWriter,
    SchemaViewsAreAudited
<1> QED BY SchemaInitially, <1>1, <1>2, PTL DEF SchemaSpec

-----
(* The database page of the console. *)
Names == DbTargets \cup DbRelations \cup {NoRelation}

Pages ==
    [mounted : BOOLEAN, target : Names, relation : Names, schema : Names, active : BOOLEAN, suppressed : BOOLEAN,
     grantMay : BOOLEAN, pendingRevocations : Int, revokeOnUnmount : BOOLEAN,
     schemaGen : Nat, rowsGen : Nat, relatedGen : Nat, privacyGen : Nat]
PageRequests ==
    [kind : {"schema", "rows", "masked", "reveal", "related"}, gen : Nat, privacy : Nat,
     target : Names, relation : Names, mode : {"none", "masked", "revealed"}]
PendingReveals ==
    [pc : {"none", "sent", "granted", "denied", "rows"}, privacy : Nat, target : Names, relation : Names]
Revocations ==
    [privacy : Nat, wait : BOOLEAN, then : {"select", "hide", "none"}, target : Names,
     sent : BOOLEAN, served : BOOLEAN]

ExplorerTypeOK ==
    /\ page \in Pages /\ reveal \in PendingReveals /\ requests \subseteq PageRequests
    /\ revocations \in Seq(Revocations) /\ netFaults \in Nat
    /\ rows = [target |-> rows.target, relation |-> rows.relation, mode |-> rows.mode, by |-> rows.by]
    /\ drawer = [target |-> drawer.target, relation |-> drawer.relation, mode |-> drawer.mode]

RowKinds == {"rows", "masked", "reveal"}

\* Nothing can be on the screen: the rows are suppressed or nothing is selected.
Quiet == page.suppressed \/ page.relation = NoRelation

\* What an answer that is still current may bring about.
RequestInv(q) ==
    /\ q.kind = "schema" =>
         /\ q.gen <= page.schemaGen
         /\ q.gen = page.schemaGen => page.schema = NoRelation /\ page.relation = NoRelation
    /\ q.kind \in RowKinds => q.gen <= page.rowsGen /\ (q.gen = page.rowsGen => ~Quiet)
    /\ q.kind = "rows" /\ q.gen = page.rowsGen =>
         q.target = page.target /\ q.relation = page.relation /\ (q.mode = "revealed" => page.active)
    /\ q.kind = "masked" => q.mode = "masked"
    /\ q.kind = "reveal" =>
         q.privacy <= page.privacyGen /\ (q.privacy = page.privacyGen => ~Quiet /\ q.target = page.target)
    /\ q.kind = "related" =>
         /\ q.gen <= page.relatedGen
         /\ q.gen = page.relatedGen => drawer.mode # "closed" /\ (q.mode = "revealed" => page.active)

OneSchema ==
    \A q, o \in requests : q.kind = "schema" /\ o.kind = "schema" /\ q.gen = page.schemaGen /\ o.gen = page.schemaGen
        => q = o

\* The rows of a reveal are asked for once, while the reveal waits for them.
OneReveal ==
    /\ \A q \in requests : q.kind = "reveal" => reveal.pc = "rows"
    /\ \A q, o \in requests : q.kind = "reveal" /\ o.kind = "reveal" => q = o

RevealInv ==
    reveal.pc # "none" =>
        reveal.privacy <= page.privacyGen /\ (reveal.privacy = page.privacyGen => ~Quiet /\ reveal.target = page.target)

\* Of the revocations that have something to go on with, the latest is the one
\* that cleared the page last.
RevocationInv ==
    /\ page.pendingRevocations = Len(revocations)
    /\ \A i \in 1..Len(revocations) :
         /\ revocations[i].privacy <= page.privacyGen
         /\ revocations[i].then # "none" /\ revocations[i].privacy = page.privacyGen => page.suppressed
         /\ revocations[i].then = "select" /\ revocations[i].privacy = page.privacyGen =>
              /\ page.schema = NoRelation /\ page.relation = NoRelation
              /\ \A q \in requests : q.kind = "schema" => q.gen < page.schemaGen
    /\ \A i, j \in 1..Len(revocations) :
         i < j /\ revocations[i].then # "none" /\ revocations[j].then # "none" =>
             revocations[i].privacy < revocations[j].privacy

ShownInv ==
    /\ rows.mode # "none" =>
         /\ ~Quiet /\ rows.target = page.target
         /\ rows.by = "load" => rows.relation = page.relation
         /\ rows.mode = "revealed" => page.active
    /\ drawer.mode # "closed" =>
         /\ ~Quiet /\ drawer.target = page.target /\ drawer.relation = page.relation
         /\ drawer.mode = "revealed" => page.active

\* The answer of a reveal is under way; it revokes once the page is left.
Pending == reveal.pc \in {"sent", "granted", "denied"}
AnswerRevokes == ~page.mounted /\ Pending => page.revokeOnUnmount

ExplorerInv ==
    /\ ExplorerTypeOK /\ OneSchema /\ OneReveal /\ RevealInv /\ RevocationInv /\ ShownInv /\ AnswerRevokes
    /\ \A q \in requests : RequestInv(q)

LEMMA ExplorerInitially == ExplorerInit => ExplorerInv
<1> SUFFICES ASSUME ExplorerInit PROVE ExplorerInv OBVIOUS
<1>1. FirstTarget \in DbTargets BY ExplorerPageAssumption DEF FirstTarget
<1>2. PICK q : /\ q = SchemaRequest(1, FirstTarget) /\ requests = {q} /\ q \in PageRequests
               /\ q.kind = "schema" /\ q.gen = 1
  <2>1. SchemaRequest(1, FirstTarget) \in PageRequests BY <1>1 DEF SchemaRequest, PageRequests, Names
  <2> QED BY <2>1 DEF ExplorerInit, SchemaRequest
<1>3. /\ page \in Pages /\ page.pendingRevocations = 0 /\ page.schemaGen = 1 /\ page.mounted = TRUE
      /\ page.schema = NoRelation /\ page.relation = NoRelation
  BY <1>1 DEF ExplorerInit, Pages, Names
<1>4. /\ reveal = NoReveal /\ revocations = <<>> /\ grants = {} /\ netFaults = 0
      /\ rows = NoRows /\ drawer = NoDrawer
  BY DEF ExplorerInit
<1>5. ExplorerTypeOK BY <1>2, <1>3, <1>4 DEF ExplorerTypeOK, NoReveal, NoRows, NoDrawer, PendingReveals, Names
<1>7. RevocationInv BY <1>3, <1>4 DEF RevocationInv
<1>8. \A o \in requests : RequestInv(o) BY <1>2, <1>3 DEF RequestInv, RowKinds
<1> QED
  BY <1>5, <1>2, <1>3, <1>4, <1>7, <1>8 DEF ExplorerInv, OneSchema, OneReveal, RevealInv, ShownInv,
    AnswerRevokes, Pending, NoReveal, NoRows, NoDrawer

\* The page is cleared: what was asked for before is no longer current.
LEMMA ClearKeeps ==
    ASSUME ExplorerInv, ExplorerTypeOK', AnswerRevokes', OneReveal',
           page'.privacyGen > page.privacyGen, page'.rowsGen > page.rowsGen, page'.relatedGen > page.relatedGen,
           page'.schemaGen >= page.schemaGen,
           page'.schemaGen = page.schemaGen => page'.schema = page.schema /\ page'.relation = page.relation,
           rows' = NoRows, drawer' = NoDrawer, requests' \subseteq requests,
           reveal' = reveal \/ reveal' = NoReveal,
           page'.pendingRevocations = Len(revocations'),
           \/ revocations' = revocations
           \/ \E op \in Revocations :
                /\ revocations' = Append(revocations, op) /\ op.privacy = page'.privacyGen
                /\ op.then # "none" => page'.suppressed
                /\ op.then = "select" => /\ page'.schema = NoRelation /\ page'.relation = NoRelation
                                         /\ page'.schemaGen > page.schemaGen
    PROVE  ExplorerInv'
<1>1. /\ page \in Pages /\ page' \in Pages /\ requests \subseteq PageRequests /\ revocations \in Seq(Revocations)
      /\ reveal \in PendingReveals
  BY DEF ExplorerInv, ExplorerTypeOK
<1>2. /\ page.privacyGen \in Nat /\ page'.privacyGen \in Nat /\ page.rowsGen \in Nat /\ page'.rowsGen \in Nat
      /\ page.relatedGen \in Nat /\ page'.relatedGen \in Nat /\ page.schemaGen \in Nat /\ page'.schemaGen \in Nat
  BY <1>1 DEF Pages
<1>3. \A q \in requests : q.gen \in Nat /\ q.privacy \in Nat BY <1>1 DEF PageRequests
<1>4. \A q \in requests' : RequestInv(q)'
  <2> SUFFICES ASSUME NEW q \in requests' PROVE RequestInv(q)' OBVIOUS
  <2>1. q \in requests /\ RequestInv(q) /\ q.gen \in Nat /\ q.privacy \in Nat BY <1>3 DEF ExplorerInv
  <2>2. q.kind \in RowKinds => q.gen < page'.rowsGen BY <2>1, <1>2 DEF RequestInv
  <2>3. q.kind = "reveal" => q.privacy < page'.privacyGen BY <2>1, <1>2 DEF RequestInv
  <2>4. q.kind = "related" => q.gen < page'.relatedGen BY <2>1, <1>2 DEF RequestInv
  <2>5. q.kind = "schema" => q.gen <= page'.schemaGen /\
            (q.gen = page'.schemaGen => page'.schema = NoRelation /\ page'.relation = NoRelation)
    BY <2>1, <1>2, SMTT(30) DEF RequestInv
  <2>6. q.kind = "masked" => q.mode = "masked" BY <2>1 DEF RequestInv
  <2>7. q.kind = "rows" => q.kind \in RowKinds BY DEF RowKinds
  <2> QED BY <2>1, <2>2, <2>3, <2>4, <2>5, <2>6, <2>7, <1>2, SMTT(30) DEF RequestInv
<1>5. OneSchema' BY <1>2, <1>3 DEF ExplorerInv, RequestInv, OneSchema
<1>6. RevealInv' BY <1>1, <1>2, SMTT(30) DEF ExplorerInv, RevealInv, NoReveal, PendingReveals
<1>7. ShownInv' BY DEF ShownInv, NoRows, NoDrawer
<1>8. \A i \in 1..Len(revocations) : revocations[i] \in Revocations /\ revocations[i].privacy \in Nat /\ revocations[i].privacy < page'.privacyGen
  <2> SUFFICES ASSUME NEW i \in 1..Len(revocations)
               PROVE  /\ revocations[i] \in Revocations /\ revocations[i].privacy \in Nat
                      /\ revocations[i].privacy < page'.privacyGen
    OBVIOUS
  <2>1. revocations[i] \in Revocations BY <1>1
  <2>2. revocations[i].privacy \in Nat BY <2>1 DEF Revocations
  <2>3. revocations[i].privacy <= page.privacyGen BY DEF ExplorerInv, RevocationInv
  <2> QED BY <2>1, <2>2, <2>3, <1>2, SMTT(30)
<1>9. RevocationInv'
  <2>1. CASE revocations' = revocations BY <2>1, <1>2, <1>8, SMTT(30) DEF ExplorerInv, RevocationInv
  <2>2. ASSUME NEW op \in Revocations,
               revocations' = Append(revocations, op), op.privacy = page'.privacyGen,
               op.then # "none" => page'.suppressed,
               op.then = "select" => /\ page'.schema = NoRelation /\ page'.relation = NoRelation
                                     /\ page'.schemaGen > page.schemaGen
        PROVE  RevocationInv'
    <3>1. /\ Len(revocations) \in Nat /\ Len(revocations') = Len(revocations) + 1
          /\ revocations'[Len(revocations) + 1] = op
          /\ \A i \in 1..Len(revocations) : revocations'[i] = revocations[i]
      BY <2>2, <1>1
    <3>2. op.then = "select" => \A q \in requests' : q.kind = "schema" => q.gen < page'.schemaGen
      BY <2>2, <1>2, <1>3 DEF ExplorerInv, RequestInv
    <3>3. \A i \in 1..Len(revocations') : i \in 1..Len(revocations) \/ i = Len(revocations) + 1 BY <3>1
    <3>4. \A i \in 1..Len(revocations') :
             /\ revocations'[i].privacy <= page'.privacyGen
             /\ revocations'[i].then # "none" /\ revocations'[i].privacy = page'.privacyGen => page'.suppressed
             /\ revocations'[i].then = "select" /\ revocations'[i].privacy = page'.privacyGen =>
                  /\ page'.schema = NoRelation /\ page'.relation = NoRelation
                  /\ \A q \in requests' : q.kind = "schema" => q.gen < page'.schemaGen
      BY <2>2, <3>1, <3>2, <3>3, <1>2, <1>8, SMTT(30)
    <3>5. \A i, j \in 1..Len(revocations') :
             i < j /\ revocations'[i].then # "none" /\ revocations'[j].then # "none" =>
                 revocations'[i].privacy < revocations'[j].privacy
      BY <3>1, <1>8, <2>2, <3>3 DEF ExplorerInv, RevocationInv
    <3> QED BY <3>4, <3>5 DEF RevocationInv
  <2> QED BY <2>1, <2>2
<1> QED BY <1>4, <1>5, <1>6, <1>7, <1>9 DEF ExplorerInv


\* The counters of a page.
LEMMA CountedPage ==
    ASSUME NEW x \in Pages, NEW n \in Nat
    PROVE  /\ [x EXCEPT !.privacyGen = n] \in Pages /\ [x EXCEPT !.rowsGen = n] \in Pages
           /\ [x EXCEPT !.relatedGen = n] \in Pages /\ [x EXCEPT !.schemaGen = n] \in Pages
<1>1. [x EXCEPT !.privacyGen = n] \in Pages BY DEF Pages
<1>2. [x EXCEPT !.rowsGen = n] \in Pages BY DEF Pages
<1>3. [x EXCEPT !.relatedGen = n] \in Pages BY DEF Pages
<1>4. [x EXCEPT !.schemaGen = n] \in Pages BY DEF Pages
<1> QED BY <1>1, <1>2, <1>3, <1>4

LEMMA BumpedPage ==
    ASSUME NEW x \in Pages
    PROVE  [[[x EXCEPT !.privacyGen = x.privacyGen + 1] EXCEPT !.rowsGen = x.rowsGen + 1]
               EXCEPT !.relatedGen = x.relatedGen + 1] \in Pages
<1>1. x.privacyGen + 1 \in Nat /\ x.rowsGen + 1 \in Nat /\ x.relatedGen + 1 \in Nat BY DEF Pages
<1>2. PICK y : y = [x EXCEPT !.privacyGen = x.privacyGen + 1] /\ y \in Pages BY <1>1, CountedPage
<1>3. PICK z : z = [y EXCEPT !.rowsGen = x.rowsGen + 1] /\ z \in Pages BY <1>1, <1>2, CountedPage
<1> QED BY <1>2, <1>3, <1>1, CountedPage

LEMMA ClearedPage ==
    ASSUME NEW x \in Pages
    PROVE  /\ Cleared(x) \in Pages
           /\ Cleared(x).privacyGen = x.privacyGen + 1 /\ Cleared(x).rowsGen = x.rowsGen + 1
           /\ Cleared(x).relatedGen = x.relatedGen + 1 /\ Cleared(x).suppressed
           /\ Cleared(x).schemaGen = x.schemaGen /\ Cleared(x).schema = x.schema /\ Cleared(x).relation = x.relation
           /\ Cleared(x).target = x.target /\ Cleared(x).mounted = x.mounted /\ Cleared(x).grantMay = x.grantMay
           /\ Cleared(x).pendingRevocations = x.pendingRevocations
           /\ Cleared(x).revokeOnUnmount = x.revokeOnUnmount
<1> DEFINE y == [[[x EXCEPT !.privacyGen = x.privacyGen + 1] EXCEPT !.rowsGen = x.rowsGen + 1]
                      EXCEPT !.relatedGen = x.relatedGen + 1]
<1>1. y \in Pages BY BumpedPage
<1>2. Cleared(x) = [y EXCEPT !.suppressed = TRUE, !.active = FALSE] BY DEF Cleared
<1>3. Cleared(x) \in Pages
  <2> HIDE DEF y
  <2> QED BY <1>1, <1>2 DEF Pages
<1> QED BY <1>3 DEF Cleared, Pages

LEMMA RevokedPage ==
    ASSUME NEW x \in Pages
    PROVE  /\ Revoked(x) \in Pages
           /\ Revoked(x).pendingRevocations = x.pendingRevocations + 1
           /\ Revoked(x).privacyGen = x.privacyGen /\ Revoked(x).rowsGen = x.rowsGen
           /\ Revoked(x).relatedGen = x.relatedGen /\ Revoked(x).suppressed = x.suppressed
           /\ Revoked(x).schemaGen = x.schemaGen /\ Revoked(x).schema = x.schema /\ Revoked(x).relation = x.relation
           /\ Revoked(x).target = x.target /\ Revoked(x).mounted = x.mounted /\ Revoked(x).grantMay = x.grantMay
           /\ Revoked(x).active = x.active /\ Revoked(x).revokeOnUnmount = x.revokeOnUnmount
BY DEF Revoked, Pages

LEMMA RevocationRecord ==
    ASSUME NEW x \in Pages, NEW then \in {"select", "hide", "none"}, NEW t \in Names
    PROVE  /\ Revocation(x, then, t) \in Revocations
           /\ Revocation(x, then, t).privacy = x.privacyGen /\ Revocation(x, then, t).then = then
           /\ [Revocation(x, then, t) EXCEPT !.wait = FALSE] \in Revocations
           /\ [Revocation(x, then, t) EXCEPT !.wait = FALSE].privacy = x.privacyGen
           /\ [Revocation(x, then, t) EXCEPT !.wait = FALSE].then = then
<1>1. x.privacyGen \in Nat BY DEF Pages
<1>2. Revocation(x, then, t) \in Revocations BY <1>1 DEF Revocation, Revocations
<1> QED BY <1>2 DEF Revocations, Revocation

LEMMA Appended ==
    ASSUME ExplorerInv, NEW op \in Revocations, revocations' = Append(revocations, op)
    PROVE  /\ revocations' \in Seq(Revocations) /\ Len(revocations') = page.pendingRevocations + 1
           /\ revocations' # <<>>
<1> QED BY DEF ExplorerInv, ExplorerTypeOK, RevocationInv

LEMMA SelectTargetKeeps ==
    ASSUME ExplorerInv, NEW t \in DbTargets, SelectTarget(t) PROVE ExplorerInv'
<1> DEFINE p == [Cleared(page) EXCEPT !.schemaGen = @ + 1, !.schema = NoRelation, !.relation = NoRelation]
           op == Revocation(p, "select", t)
<1>1. /\ page' = Revoked(p) /\ revocations' = Append(revocations, op)
      /\ rows' = NoRows /\ drawer' = NoDrawer
      /\ UNCHANGED <<requests, reveal, grants, netFaults>> /\ page.mounted
  BY DEF SelectTarget, Acts
<1>2. page \in Pages /\ page.privacyGen \in Nat /\ page.rowsGen \in Nat /\ page.relatedGen \in Nat /\ page.schemaGen \in Nat
  BY DEF ExplorerInv, ExplorerTypeOK, Pages
<1>3. /\ p \in Pages /\ p.privacyGen = page.privacyGen + 1 /\ p.rowsGen = page.rowsGen + 1
      /\ p.relatedGen = page.relatedGen + 1 /\ p.schemaGen = page.schemaGen + 1 /\ p.suppressed
      /\ p.schema = NoRelation /\ p.relation = NoRelation /\ p.mounted
      /\ p.pendingRevocations = page.pendingRevocations
  <2> DEFINE x == Cleared(page)
  <2>1. /\ x \in Pages /\ x.privacyGen = page.privacyGen + 1 /\ x.rowsGen = page.rowsGen + 1
        /\ x.relatedGen = page.relatedGen + 1 /\ x.schemaGen = page.schemaGen /\ x.suppressed
        /\ x.mounted = page.mounted /\ x.pendingRevocations = page.pendingRevocations
    BY <1>2, ClearedPage
  <2>2. p = [x EXCEPT !.schemaGen = @ + 1, !.schema = NoRelation, !.relation = NoRelation] OBVIOUS
  <2>3. NoRelation \in Names BY DEF Names
  <2>4. p \in Pages
    <3> DEFINE y == [x EXCEPT !.schemaGen = x.schemaGen + 1]
    <3>1. y \in Pages
      <4> HIDE DEF x
      <4>1. x.schemaGen + 1 \in Nat BY <2>1 DEF Pages
      <4> QED BY <2>1, <4>1, CountedPage
    <3>2. p = [y EXCEPT !.schema = NoRelation, !.relation = NoRelation] OBVIOUS
    <3> HIDE DEF y, p
    <3> QED BY <2>3, <3>1, <3>2 DEF Pages
  <2> HIDE DEF x, p
  <2> QED BY <2>1, <2>2, <2>3, <2>4, <1>1 DEF Pages
<1>4. op \in Revocations /\ op.privacy = p.privacyGen /\ op.then = "select"
  <2> HIDE DEF p
  <2>1. t \in Names BY DEF Names
  <2>2. p \in Pages BY <1>3
  <2>3. /\ Revocation(p, "select", t) \in Revocations
        /\ Revocation(p, "select", t).privacy = p.privacyGen /\ Revocation(p, "select", t).then = "select"
    BY ONLY <2>1, <2>2, RevocationRecord, ZenonT(60)
  <2> QED BY <2>3
<1> HIDE DEF p, op
<1>5. /\ page' \in Pages /\ page'.privacyGen = page.privacyGen + 1 /\ page'.rowsGen = page.rowsGen + 1
      /\ page'.relatedGen = page.relatedGen + 1 /\ page'.schemaGen = page.schemaGen + 1 /\ page'.suppressed
      /\ page'.schema = NoRelation /\ page'.relation = NoRelation /\ page'.mounted
      /\ page'.pendingRevocations = page.pendingRevocations + 1
  BY <1>1, <1>3, RevokedPage
<1>6. /\ revocations' \in Seq(Revocations) /\ page'.pendingRevocations = Len(revocations') /\ revocations' # <<>>
  BY <1>1, <1>4, <1>5, Appended
<1>7. ExplorerTypeOK' BY <1>1, <1>5, <1>6 DEF ExplorerInv, ExplorerTypeOK, NoRows, NoDrawer
<1>8. AnswerRevokes' /\ OneReveal' BY <1>1, <1>5, <1>6 DEF ExplorerInv, AnswerRevokes, Pending, OneReveal
<1> QED BY <1>1, <1>2, <1>3, <1>4, <1>5, <1>6, <1>7, <1>8, ClearKeeps, SMTT(30)

LEMMA HideKeeps ==
    ASSUME ExplorerInv, Hide PROVE ExplorerInv'
<1> DEFINE p == Cleared(page)
           op == Revocation(p, "hide", p.target)
<1>1. /\ page' = Revoked(p) /\ revocations' = Append(revocations, op)
      /\ rows' = NoRows /\ drawer' = NoDrawer
      /\ UNCHANGED <<requests, reveal, grants, netFaults>> /\ page.mounted
  BY DEF Hide, Acts
<1>2. page \in Pages /\ page.privacyGen \in Nat /\ page.rowsGen \in Nat /\ page.relatedGen \in Nat /\ page.schemaGen \in Nat
  BY DEF ExplorerInv, ExplorerTypeOK, Pages
<1>3. /\ p \in Pages /\ p.privacyGen = page.privacyGen + 1 /\ p.rowsGen = page.rowsGen + 1
      /\ p.relatedGen = page.relatedGen + 1 /\ p.schemaGen = page.schemaGen /\ p.suppressed
      /\ p.schema = page.schema /\ p.relation = page.relation /\ p.mounted
      /\ p.pendingRevocations = page.pendingRevocations
  BY <1>1, <1>2, ClearedPage
<1>4. op \in Revocations /\ op.privacy = p.privacyGen /\ op.then = "hide"
  <2> HIDE DEF p
  <2>1. p.target \in Names BY <1>3 DEF Pages
  <2> QED BY <1>3, <2>1, RevocationRecord, ZenonT(60)
<1> HIDE DEF p, op
<1>5. /\ page' \in Pages /\ page'.privacyGen = page.privacyGen + 1 /\ page'.rowsGen = page.rowsGen + 1
      /\ page'.relatedGen = page.relatedGen + 1 /\ page'.schemaGen = page.schemaGen /\ page'.suppressed
      /\ page'.schema = page.schema /\ page'.relation = page.relation /\ page'.mounted
      /\ page'.pendingRevocations = page.pendingRevocations + 1
  BY <1>1, <1>3, RevokedPage
<1>6. /\ revocations' \in Seq(Revocations) /\ page'.pendingRevocations = Len(revocations') /\ revocations' # <<>>
  BY <1>1, <1>4, <1>5, Appended
<1>7. ExplorerTypeOK' BY <1>1, <1>5, <1>6 DEF ExplorerInv, ExplorerTypeOK, NoRows, NoDrawer
<1>8. AnswerRevokes' /\ OneReveal' BY <1>1, <1>5, <1>6 DEF ExplorerInv, AnswerRevokes, Pending, OneReveal
<1> QED BY <1>1, <1>2, <1>3, <1>4, <1>5, <1>6, <1>7, <1>8, ClearKeeps

\* Leaving the page: a grant it knows of, or may get, has a revocation in the
\* queue or is remembered for the answer that brings it.
LEMMA UnmountKeeps ==
    ASSUME ExplorerInv, Unmount PROVE ExplorerInv'
<1> DEFINE pending == reveal.pc \in {"sent", "granted", "denied"}
           may == page.grantMay \/ page.active
           p == [page EXCEPT !.mounted = FALSE, !.privacyGen = @ + 1, !.rowsGen = @ + 1, !.relatedGen = @ + 1]
           q == [Cleared(p) EXCEPT !.revokeOnUnmount = pending]
           op == [Revocation(q, "none", q.target) EXCEPT !.wait = FALSE]
<1>1. /\ \/ ~pending /\ ~may /\ page' = p /\ revocations' = revocations
         \/ (pending \/ may) /\ (~may \/ page.pendingRevocations > 0) /\ page' = q /\ revocations' = revocations
         \/ page' = Revoked(q) /\ revocations' = Append(revocations, op)
      /\ rows' = NoRows /\ drawer' = NoDrawer
      /\ UNCHANGED <<requests, reveal, grants, netFaults>> /\ page.mounted
  BY DEF Unmount, Acts
<1>2. page \in Pages /\ page.privacyGen \in Nat /\ page.rowsGen \in Nat /\ page.relatedGen \in Nat /\ page.schemaGen \in Nat
  BY DEF ExplorerInv, ExplorerTypeOK, Pages
<1>3. /\ p \in Pages /\ p.privacyGen = page.privacyGen + 1 /\ p.rowsGen = page.rowsGen + 1
      /\ p.relatedGen = page.relatedGen + 1 /\ p.schemaGen = page.schemaGen
      /\ p.schema = page.schema /\ p.relation = page.relation /\ ~p.mounted
      /\ p.pendingRevocations = page.pendingRevocations
  <2> DEFINE y == [[[page EXCEPT !.privacyGen = page.privacyGen + 1] EXCEPT !.rowsGen = page.rowsGen + 1]
                        EXCEPT !.relatedGen = page.relatedGen + 1]
  <2>1. y \in Pages BY <1>2, BumpedPage
  <2>2. p = [y EXCEPT !.mounted = FALSE] OBVIOUS
  <2>3. p \in Pages
    <3> HIDE DEF y, p
    <3> QED BY <2>1, <2>2 DEF Pages
  <2> QED BY <1>2, <2>3 DEF Pages
<1>4. /\ q \in Pages /\ q.privacyGen = page.privacyGen + 2 /\ q.rowsGen = page.rowsGen + 2
      /\ q.relatedGen = page.relatedGen + 2 /\ q.schemaGen = page.schemaGen
      /\ q.schema = page.schema /\ q.relation = page.relation /\ ~q.mounted
      /\ q.pendingRevocations = page.pendingRevocations /\ q.revokeOnUnmount = pending
  <2> DEFINE x == Cleared(p)
  <2>1. /\ x \in Pages /\ x.privacyGen = page.privacyGen + 2 /\ x.rowsGen = page.rowsGen + 2
        /\ x.relatedGen = page.relatedGen + 2 /\ x.schemaGen = page.schemaGen
        /\ x.schema = page.schema /\ x.relation = page.relation /\ ~x.mounted
        /\ x.pendingRevocations = page.pendingRevocations
    <3> HIDE DEF p
    <3> QED BY <1>2, <1>3, ClearedPage
  <2>2. q = [x EXCEPT !.revokeOnUnmount = pending] OBVIOUS
  <2> HIDE DEF x, q
  <2>3. CASE pending BY <2>1, <2>2, <2>3 DEF Pages
  <2>4. CASE ~pending BY <2>1, <2>2, <2>4 DEF Pages
  <2> QED BY <2>3, <2>4
<1>5. op \in Revocations /\ op.privacy = q.privacyGen /\ op.then = "none"
  <2> HIDE DEF q
  <2>1. q.target \in Names BY <1>4 DEF Pages
  <2> QED BY <1>4, <2>1, RevocationRecord
<1> HIDE DEF p, q, op
<1>6. Len(revocations) \in Nat /\ page.pendingRevocations = Len(revocations) /\ revocations \in Seq(Revocations)
  BY DEF ExplorerInv, ExplorerTypeOK, RevocationInv
<1>8. CASE ~pending /\ ~may /\ page' = p /\ revocations' = revocations
  <2>1. ExplorerTypeOK' BY <1>1, <1>3, <1>8 DEF ExplorerInv, ExplorerTypeOK, NoRows, NoDrawer
  <2>2. AnswerRevokes' /\ OneReveal' BY <1>1, <1>3, <1>8 DEF ExplorerInv, AnswerRevokes, Pending, OneReveal
  <2> QED BY <1>1, <1>2, <1>3, <1>6, <1>8, <2>1, <2>2, ClearKeeps
<1>9. CASE (pending \/ may) /\ (~may \/ page.pendingRevocations > 0) /\ page' = q /\ revocations' = revocations
  <2>1. ExplorerTypeOK' BY <1>1, <1>4, <1>9 DEF ExplorerInv, ExplorerTypeOK, NoRows, NoDrawer
  <2>3. AnswerRevokes' /\ OneReveal' BY <1>1, <1>4, <1>9 DEF ExplorerInv, AnswerRevokes, Pending, OneReveal
  <2> QED BY <1>1, <1>2, <1>4, <1>6, <1>9, <2>1, <2>3, ClearKeeps
<1>10. CASE page' = Revoked(q) /\ revocations' = Append(revocations, op)
  <2>1. /\ page' \in Pages /\ page'.privacyGen = page.privacyGen + 2 /\ page'.rowsGen = page.rowsGen + 2
        /\ page'.relatedGen = page.relatedGen + 2 /\ page'.schemaGen = page.schemaGen
        /\ page'.schema = page.schema /\ page'.relation = page.relation /\ ~page'.mounted
        /\ page'.pendingRevocations = page.pendingRevocations + 1 /\ page'.revokeOnUnmount = pending
    BY <1>4, <1>10, RevokedPage
  <2>2. /\ revocations' \in Seq(Revocations) /\ page'.pendingRevocations = Len(revocations') /\ revocations' # <<>>
    BY <1>5, <1>10, <2>1, Appended
  <2>3. ExplorerTypeOK' BY <1>1, <2>1, <2>2 DEF ExplorerInv, ExplorerTypeOK, NoRows, NoDrawer
  <2>4. AnswerRevokes' /\ OneReveal' BY <1>1, <2>1, <2>2 DEF ExplorerInv, AnswerRevokes, Pending, OneReveal
  <2>5. op.privacy = page'.privacyGen BY <1>4, <1>5, <2>1
  <2> QED BY <1>1, <1>2, <1>5, <1>10, <2>1, <2>2, <2>3, <2>4, <2>5, ClearKeeps, SMTT(30)
<1> QED BY <1>1, <1>8, <1>9, <1>10


\* A step that leaves the page, the screen, the queue and the schemas alone.
LEMMA PageStays ==
    ASSUME ExplorerInv, ExplorerTypeOK', page' = page, rows' = rows, drawer' = drawer, revocations' = revocations,
           requests' \subseteq requests, RevealInv', AnswerRevokes', OneReveal'
    PROVE  ExplorerInv'
<1>2. OneSchema' /\ RevocationInv' BY DEF ExplorerInv, OneSchema, RevocationInv
<1>3. ShownInv' BY DEF ExplorerInv, ShownInv, Quiet
<1> QED BY <1>2, <1>3 DEF ExplorerInv, RequestInv, Quiet

LEMMA RevealKeeps ==
    ASSUME ExplorerInv, Reveal PROVE ExplorerInv'
<1>1. /\ reveal' = [pc |-> "sent", privacy |-> page.privacyGen, target |-> page.target, relation |-> page.relation]
      /\ page.mounted /\ ~page.suppressed /\ page.relation # NoRelation /\ reveal.pc = "none"
      /\ UNCHANGED <<page, rows, drawer, requests, revocations, grants, netFaults>>
  BY DEF Reveal, Acts
<1>2. page.privacyGen \in Nat /\ page.target \in Names /\ page.relation \in Names
  BY DEF ExplorerInv, ExplorerTypeOK, Pages
<1>3. reveal' \in PendingReveals /\ reveal'.pc = "sent" /\ reveal'.privacy = page.privacyGen /\ reveal'.target = page.target
  BY <1>1, <1>2 DEF PendingReveals
<1>4. ExplorerTypeOK' BY <1>1, <1>3 DEF ExplorerInv, ExplorerTypeOK
<1>5. RevealInv' BY <1>1, <1>2, <1>3 DEF RevealInv, Quiet
<1>6. AnswerRevokes' /\ OneReveal' BY <1>1, <1>3 DEF ExplorerInv, AnswerRevokes, Pending, OneReveal
<1> QED BY <1>1, <1>4, <1>5, <1>6, PageStays

LEMMA ServeKeeps ==
    ASSUME ExplorerInv, NEW granted \in BOOLEAN, ServeReveal(granted) PROVE ExplorerInv'
<1>1. PICK to \in {"granted", "denied"} :
        /\ reveal.pc = "sent" /\ reveal' = [reveal EXCEPT !.pc = to]
        /\ to = "granted" => netFaults' = netFaults
        /\ to = "denied" => netFaults' = netFaults + 1
        /\ UNCHANGED <<page, rows, drawer, requests, revocations>>
  BY DEF ServeReveal
<1>2. reveal' \in PendingReveals /\ reveal'.pc = to /\ reveal'.privacy = reveal.privacy /\ reveal'.target = reveal.target
  BY <1>1 DEF ExplorerInv, ExplorerTypeOK, PendingReveals
<1>3. netFaults \in Nat BY DEF ExplorerInv, ExplorerTypeOK
<1>4. ExplorerTypeOK' BY <1>1, <1>2, <1>3 DEF ExplorerInv, ExplorerTypeOK
<1>5. RevealInv' BY <1>1, <1>2 DEF ExplorerInv, RevealInv, Quiet
<1>6. AnswerRevokes' /\ OneReveal' BY <1>1, <1>2, <1>3 DEF ExplorerInv, AnswerRevokes, Pending, OneReveal
<1> QED BY <1>1, <1>4, <1>5, <1>6, PageStays

\* Rows asked for at a new generation of the page as it is selected.
LEMMA AskedKeeps ==
    ASSUME ExplorerInv, ExplorerTypeOK', AnswerRevokes', OneReveal', RevealInv', RevocationInv',
           NEW q \in PageRequests,
           requests' \subseteq requests \cup {q}, q.kind \in RowKinds,
           q.gen = page'.rowsGen, page'.rowsGen > page.rowsGen, page'.relatedGen >= page.relatedGen,
           page'.privacyGen = page.privacyGen, page'.schemaGen = page.schemaGen,
           page'.target = page.target, page'.active = page.active, ~page'.suppressed, page'.relation # NoRelation,
           \A o \in requests' : o.kind = "schema" /\ o.gen = page'.schemaGen =>
               page'.schema = NoRelation /\ page'.relation = NoRelation,
           q.kind = "rows" => q.target = page'.target /\ q.relation = page'.relation /\ q.mode = Mode(page'),
           q.kind = "masked" => q.mode = "masked",
           q.kind = "reveal" => q.privacy = page.privacyGen /\ q.target = page.target,
           ShownInv',
           page'.relatedGen = page.relatedGen => drawer' = drawer
    PROVE  ExplorerInv'
<1>1. /\ page \in Pages /\ page' \in Pages /\ requests \subseteq PageRequests
      /\ page.rowsGen \in Nat /\ page'.rowsGen \in Nat /\ page.relatedGen \in Nat /\ page'.relatedGen \in Nat
      /\ page.privacyGen \in Nat
  BY DEF ExplorerInv, ExplorerTypeOK, Pages
<1>2. \A o \in requests : o.gen \in Nat /\ o.privacy \in Nat BY <1>1 DEF PageRequests
<1>3. ~Quiet' BY DEF Quiet
<1>4. q.kind \notin {"schema", "related"} BY DEF RowKinds
<1>5. OneSchema' BY <1>4 DEF ExplorerInv, OneSchema
<1>6. RequestInv(q)' BY <1>1, <1>3, <1>4 DEF RequestInv, Mode
<1>7. ASSUME NEW o \in requests', o \in requests PROVE RequestInv(o)'
  <2>1. RequestInv(o) /\ o.gen \in Nat /\ o.privacy \in Nat BY <1>2, <1>7 DEF ExplorerInv
  <2>2. o.kind \in RowKinds => o.gen < page'.rowsGen BY <2>1, <1>1 DEF RequestInv
  <2>3. o.kind = "reveal" => o.privacy <= page'.privacyGen /\ (o.privacy = page'.privacyGen => o.target = page'.target)
    BY <2>1 DEF RequestInv
  <2>5. o.kind = "schema" => o.gen <= page'.schemaGen BY <2>1 DEF RequestInv
  <2>6. o.kind = "masked" => o.mode = "masked" BY <2>1 DEF RequestInv
  <2>7. o.kind = "rows" => o.kind \in RowKinds BY DEF RowKinds
  <2> QED BY <2>1, <2>2, <2>3, <1>1, <2>5, <2>6, <2>7, <1>3 DEF RequestInv
<1> QED BY <1>5, <1>6, <1>7 DEF ExplorerInv


SameShown ==
    /\ page'.mounted = page.mounted /\ page'.target = page.target /\ page'.relation = page.relation
    /\ page'.schema = page.schema /\ page'.active = page.active /\ page'.suppressed = page.suppressed
    /\ page'.schemaGen = page.schemaGen /\ page'.rowsGen = page.rowsGen /\ page'.relatedGen = page.relatedGen
    /\ page'.privacyGen = page.privacyGen

\* The page only notes something about grants and revocations.
LEMMA NotesKeep ==
    ASSUME ExplorerInv, ExplorerTypeOK', SameShown, rows' = rows, drawer' = drawer, requests' \subseteq requests,
           RevealInv', RevocationInv', AnswerRevokes', OneReveal'
    PROVE  ExplorerInv'
<1>2. OneSchema' BY DEF ExplorerInv, OneSchema, SameShown
<1>3. ShownInv' BY DEF ExplorerInv, ShownInv, Quiet, SameShown
<1> QED BY <1>2, <1>3 DEF ExplorerInv, RequestInv, Quiet, SameShown

\* One more revocation that has nothing to go on with.
LEMMA AppendNone ==
    ASSUME ExplorerInv, SameShown, requests' \subseteq requests, NEW op \in Revocations,
           revocations' = Append(revocations, op), op.then = "none", op.privacy = page.privacyGen,
           page'.pendingRevocations = page.pendingRevocations + 1
    PROVE  RevocationInv'
<1>1. /\ revocations \in Seq(Revocations) /\ page.pendingRevocations = Len(revocations)
      /\ page.privacyGen \in Nat
  BY DEF ExplorerInv, ExplorerTypeOK, RevocationInv, Pages
<1>2. /\ Len(revocations) \in Nat /\ Len(revocations') = Len(revocations) + 1
      /\ revocations'[Len(revocations) + 1] = op
      /\ \A i \in 1..Len(revocations) : revocations'[i] = revocations[i]
  BY <1>1
<1>3. \A i \in 1..Len(revocations') : i \in 1..Len(revocations) \/ (i = Len(revocations) + 1 /\ revocations'[i].then = "none")
  BY <1>2
<1>5. \A i, j \in 1..Len(revocations') :
         i < j /\ revocations'[i].then # "none" /\ revocations'[j].then # "none" =>
             revocations'[i].privacy < revocations'[j].privacy
  BY <1>2, <1>3 DEF ExplorerInv, RevocationInv
<1> QED BY <1>1, <1>2, <1>3, <1>5 DEF RevocationInv, ExplorerInv, SameShown

\* Rows are asked for at a new generation; nothing else of the page changes.
LEMMA NextRows ==
    ASSUME NEW x \in Pages, NEW y, y = [x EXCEPT !.rowsGen = x.rowsGen + 1]
    PROVE  /\ y \in Pages /\ y.rowsGen = x.rowsGen + 1
           /\ y.mounted = x.mounted /\ y.target = x.target /\ y.relation = x.relation /\ y.schema = x.schema
           /\ y.active = x.active /\ y.suppressed = x.suppressed /\ y.grantMay = x.grantMay
           /\ y.pendingRevocations = x.pendingRevocations /\ y.revokeOnUnmount = x.revokeOnUnmount
           /\ y.schemaGen = x.schemaGen /\ y.relatedGen = x.relatedGen /\ y.privacyGen = x.privacyGen
<1>1. x.rowsGen + 1 \in Nat BY DEF Pages
<1>2. y \in Pages BY <1>1, CountedPage
<1> QED BY <1>2 DEF Pages

LEMMA DeniedKeeps ==
    ASSUME ExplorerInv, reveal.pc = "denied", reveal' = NoReveal, page' = [page EXCEPT !.revokeOnUnmount = FALSE],
           UNCHANGED <<requests, revocations, rows, drawer, grants, netFaults>>
    PROVE  ExplorerInv'
<1>1. page \in Pages BY DEF ExplorerInv, ExplorerTypeOK
<1>2. /\ page' \in Pages /\ SameShown /\ page'.grantMay = page.grantMay
      /\ page'.pendingRevocations = page.pendingRevocations
  BY <1>1 DEF Pages, SameShown
<1>3. NoReveal \in PendingReveals /\ NoReveal.pc = "none" BY DEF NoReveal, PendingReveals, Names
<1>4. ExplorerTypeOK' BY <1>2, <1>3 DEF ExplorerInv, ExplorerTypeOK
<1>5. RevealInv' /\ OneReveal' /\ AnswerRevokes'
  BY <1>2, <1>3 DEF ExplorerInv, RevealInv, OneReveal, AnswerRevokes, Pending, SameShown
<1>6. RevocationInv' BY <1>2 DEF ExplorerInv, RevocationInv, SameShown
<1> QED BY <1>2, <1>4, <1>5, <1>6, NotesKeep

\* The reveal was granted and the page is as it was: its rows are asked for.
LEMMA GrantedKeeps ==
    ASSUME ExplorerInv, reveal.pc = "granted", page.mounted, page.privacyGen = reveal.privacy,
           page' = [page EXCEPT !.grantMay = TRUE, !.rowsGen = @ + 1],
           reveal' = [reveal EXCEPT !.pc = "rows"],
           requests' = requests \cup {RowsRequest("reveal", page.rowsGen + 1, page.privacyGen,
                                                  reveal.target, reveal.relation, "revealed")},
           UNCHANGED <<revocations, rows, drawer, grants, netFaults>>
    PROVE  ExplorerInv'
<1>1. /\ page \in Pages /\ reveal \in PendingReveals /\ page.rowsGen \in Nat /\ page.privacyGen \in Nat
      /\ reveal.target \in Names /\ reveal.relation \in Names
  BY DEF ExplorerInv, ExplorerTypeOK, Pages, PendingReveals
<1>2. PICK q \in PageRequests :
        /\ requests' = requests \cup {q} /\ q.kind = "reveal" /\ q.gen = page.rowsGen + 1
        /\ q.privacy = page.privacyGen /\ q.target = reveal.target
  <2> DEFINE r == RowsRequest("reveal", page.rowsGen + 1, page.privacyGen, reveal.target, reveal.relation, "revealed")
  <2>1. /\ r \in PageRequests /\ r.kind = "reveal" /\ r.gen = page.rowsGen + 1
        /\ r.privacy = page.privacyGen /\ r.target = reveal.target
    BY <1>1 DEF RowsRequest, PageRequests
  <2>2. requests' = requests \cup {r} OBVIOUS
  <2> HIDE DEF r
  <2> QED BY <2>1, <2>2
<1>3. /\ page' \in Pages /\ page'.rowsGen = page.rowsGen + 1 /\ page'.grantMay /\ page'.mounted
      /\ page'.relatedGen = page.relatedGen /\ page'.privacyGen = page.privacyGen
      /\ page'.schemaGen = page.schemaGen /\ page'.target = page.target /\ page'.active = page.active
      /\ page'.suppressed = page.suppressed /\ page'.relation = page.relation /\ page'.schema = page.schema
      /\ page'.pendingRevocations = page.pendingRevocations
  <2> DEFINE x == [page EXCEPT !.grantMay = TRUE]
  <2>1. /\ x \in Pages /\ x.grantMay /\ x.mounted = page.mounted /\ x.rowsGen = page.rowsGen
        /\ x.relatedGen = page.relatedGen /\ x.privacyGen = page.privacyGen
        /\ x.schemaGen = page.schemaGen /\ x.target = page.target /\ x.active = page.active
        /\ x.suppressed = page.suppressed /\ x.relation = page.relation /\ x.schema = page.schema
        /\ x.pendingRevocations = page.pendingRevocations
    BY <1>1 DEF Pages
  <2>2. page' = [x EXCEPT !.rowsGen = x.rowsGen + 1] OBVIOUS
  <2> HIDE DEF x
  <2>3. x \in Pages BY <2>1
  <2>4. /\ page' \in Pages /\ page'.rowsGen = x.rowsGen + 1 /\ page'.grantMay = x.grantMay
        /\ page'.mounted = x.mounted /\ page'.relatedGen = x.relatedGen /\ page'.privacyGen = x.privacyGen
        /\ page'.schemaGen = x.schemaGen /\ page'.target = x.target /\ page'.active = x.active
        /\ page'.suppressed = x.suppressed /\ page'.relation = x.relation /\ page'.schema = x.schema
        /\ page'.pendingRevocations = x.pendingRevocations
    BY ONLY <2>2, <2>3, NextRows
  <2> QED BY <2>1, <2>4
<1>4. reveal' \in PendingReveals /\ reveal'.pc = "rows" /\ reveal'.privacy = reveal.privacy /\ reveal'.target = reveal.target
  BY <1>1 DEF PendingReveals
<1>5. ~Quiet /\ reveal.target = page.target BY DEF ExplorerInv, RevealInv
<1>6. ExplorerTypeOK' BY <1>2, <1>3, <1>4 DEF ExplorerInv, ExplorerTypeOK
<1>7. RevealInv' /\ AnswerRevokes' BY <1>1, <1>3, <1>4, <1>5 DEF RevealInv, AnswerRevokes, Pending, Quiet
<1>8. OneReveal' BY <1>2, <1>4 DEF ExplorerInv, OneReveal
<1>9. RevocationInv' BY <1>2, <1>3 DEF ExplorerInv, RevocationInv
<1>10. ShownInv' BY <1>3 DEF ExplorerInv, ShownInv, Quiet
<1>11. /\ requests' \subseteq requests \cup {q} /\ q.kind \in RowKinds /\ q.kind # "rows" /\ q.kind # "masked"
       /\ page'.rowsGen > page.rowsGen /\ page'.relatedGen >= page.relatedGen
       /\ ~page'.suppressed /\ page'.relation # NoRelation
  BY <1>1, <1>2, <1>3, <1>5 DEF RowKinds, Quiet, Pages
<1>12. \A o \in requests' : o.kind = "schema" /\ o.gen = page'.schemaGen =>
           page'.schema = NoRelation /\ page'.relation = NoRelation
  BY <1>2, <1>3 DEF ExplorerInv, RequestInv
<1> QED BY <1>2, <1>3, <1>5, <1>6, <1>7, <1>8, <1>9, <1>10, <1>11, <1>12, AskedKeeps

\* The reveal was granted too late: the page keeps in mind that there is a
\* grant, and a page that was left revokes it.
LEMMA TooLateKeeps ==
    ASSUME ExplorerInv, reveal.pc = "granted", ~(page.mounted /\ page.privacyGen = reveal.privacy),
           NEW p, p = [page EXCEPT !.grantMay = TRUE, !.revokeOnUnmount = FALSE],
           \/ /\ ~page.mounted /\ page.revokeOnUnmount /\ page.pendingRevocations = 0
              /\ page' = Revoked(p)
              /\ revocations' = Append(revocations, [Revocation(p, "none", p.target) EXCEPT !.wait = FALSE])
           \/ /\ ~(~page.mounted /\ page.revokeOnUnmount /\ page.pendingRevocations = 0)
              /\ page' = p /\ revocations' = revocations,
           reveal' = NoReveal, UNCHANGED <<requests, rows, drawer, grants, netFaults>>
    PROVE  ExplorerInv'
<1>1. page \in Pages /\ revocations \in Seq(Revocations) /\ page.pendingRevocations = Len(revocations)
  BY DEF ExplorerInv, ExplorerTypeOK, RevocationInv
<1>2. /\ p \in Pages /\ p.grantMay /\ p.target \in Names /\ p.privacyGen = page.privacyGen
      /\ p.mounted = page.mounted /\ p.target = page.target /\ p.relation = page.relation
      /\ p.schema = page.schema /\ p.active = page.active /\ p.suppressed = page.suppressed
      /\ p.schemaGen = page.schemaGen /\ p.rowsGen = page.rowsGen /\ p.relatedGen = page.relatedGen
      /\ p.pendingRevocations = page.pendingRevocations
  BY <1>1 DEF Pages
<1>3. NoReveal \in PendingReveals /\ NoReveal.pc = "none" BY DEF NoReveal, PendingReveals, Names
<1>4. OneReveal' /\ RevealInv' BY <1>3 DEF ExplorerInv, OneReveal, RevealInv
<1>5. CASE page' = Revoked(p) /\ revocations' = Append(revocations, [Revocation(p, "none", p.target) EXCEPT !.wait = FALSE])
  <2>1. /\ page' \in Pages /\ SameShown /\ page'.grantMay
        /\ page'.pendingRevocations = page.pendingRevocations + 1
    BY <1>2, <1>5, RevokedPage, ZenonT(60) DEF SameShown
  <2>2. PICK op \in Revocations : op.then = "none" /\ op.privacy = p.privacyGen /\ revocations' = Append(revocations, op)
    <3> DEFINE r == [Revocation(p, "none", p.target) EXCEPT !.wait = FALSE]
    <3>1. p \in Pages /\ p.target \in Names BY <1>2
    <3>2. r \in Revocations /\ r.privacy = p.privacyGen /\ r.then = "none" BY ONLY <3>1, RevocationRecord
    <3>3. revocations' = Append(revocations, r) BY <1>5
    <3> HIDE DEF r
    <3> QED BY <3>2, <3>3
  <2>3. RevocationInv' BY <1>2, <2>1, <2>2, AppendNone
  <2>4. revocations' \in Seq(Revocations) /\ revocations' # <<>> BY <2>2, Appended
  <2>5. ExplorerTypeOK' BY <1>3, <2>1, <2>4 DEF ExplorerInv, ExplorerTypeOK
  <2>6. AnswerRevokes' BY <1>3, <2>4 DEF AnswerRevokes, Pending
  <2> QED BY <1>4, <2>1, <2>3, <2>5, <2>6, NotesKeep
<1>6. CASE /\ ~(~page.mounted /\ page.revokeOnUnmount /\ page.pendingRevocations = 0)
           /\ page' = p /\ revocations' = revocations
  <2>1. page' \in Pages /\ SameShown /\ page'.grantMay /\ page'.pendingRevocations = page.pendingRevocations
    BY <1>2, <1>6 DEF SameShown
  <2>2. RevocationInv' BY <1>6, <2>1 DEF ExplorerInv, RevocationInv, SameShown
  <2>3. ExplorerTypeOK' BY <1>3, <1>6, <2>1 DEF ExplorerInv, ExplorerTypeOK
  <2>4. ~page.mounted => revocations # <<>> BY <1>1, <1>6 DEF ExplorerInv, AnswerRevokes, Pending
  <2>5. AnswerRevokes' BY <1>3, <1>6, <2>1, <2>4 DEF AnswerRevokes, Pending, SameShown
  <2> QED BY <1>4, <2>1, <2>2, <2>3, <2>5, NotesKeep
<1> QED BY <1>5, <1>6

LEMMA AnsweredKeeps ==
    ASSUME ExplorerInv, RevealAnswered PROVE ExplorerInv'
<1>1. CASE reveal.pc = "denied" BY <1>1, DeniedKeeps DEF RevealAnswered
<1>2. CASE reveal.pc = "granted" /\ page.mounted /\ page.privacyGen = reveal.privacy
  BY <1>2, GrantedKeeps DEF RevealAnswered
<1>3. CASE reveal.pc = "granted" /\ ~(page.mounted /\ page.privacyGen = reveal.privacy)
  <2> DEFINE p == [page EXCEPT !.grantMay = TRUE, !.revokeOnUnmount = FALSE]
  <2>2. p = [page EXCEPT !.grantMay = TRUE, !.revokeOnUnmount = FALSE] OBVIOUS
  <2> HIDE DEF p
  <2> QED BY <1>3, <2>2, TooLateKeeps DEF RevealAnswered
<1> QED BY <1>1, <1>2, <1>3 DEF RevealAnswered


\* The rows of a reveal are shown while the page is as it was, are dropped when
\* it is not, and clear it when they cannot be read.
LEMMA RevealRowsKeeps ==
    ASSUME ExplorerInv, NEW q \in requests, NEW ok \in BOOLEAN, RevealRows(q, ok) PROVE ExplorerInv'
<1> DEFINE p == Cleared(page)
           op == [Revocation(p, "hide", p.target) EXCEPT !.wait = FALSE]
           shown == [target |-> q.target, relation |-> q.relation, mode |-> "revealed", by |-> "reveal"]
<1>1. /\ q.kind = "reveal" /\ requests' = requests \ {q} /\ reveal' = NoReveal /\ grants' = grants
      /\ \/ netFaults' = netFaults
         \/ netFaults' = netFaults + 1
  BY DEF RevealRows
<1>3. /\ page \in Pages /\ page.privacyGen \in Nat /\ page.rowsGen \in Nat /\ page.relatedGen \in Nat
      /\ page.schemaGen \in Nat /\ netFaults \in Nat /\ requests \subseteq PageRequests
  BY DEF ExplorerInv, ExplorerTypeOK, Pages
<1>4. netFaults' \in Nat /\ (netFaults' = 0 => netFaults = 0) BY <1>1, <1>3
<1>5. NoReveal \in PendingReveals /\ NoReveal.pc = "none" BY DEF NoReveal, PendingReveals, Names
<1>6. OneReveal' /\ RevealInv' /\ reveal.pc = "rows" BY <1>1, <1>5 DEF ExplorerInv, OneReveal, RevealInv
<1>7. CASE /\ page.privacyGen = q.privacy /\ rows' = shown /\ page' = [page EXCEPT !.active = TRUE]
           /\ drawer' = drawer /\ revocations' = revocations
  <2>1. /\ page' \in Pages /\ page'.active /\ page'.privacyGen = page.privacyGen /\ page'.rowsGen = page.rowsGen
        /\ page'.relatedGen = page.relatedGen /\ page'.schemaGen = page.schemaGen /\ page'.target = page.target
        /\ page'.relation = page.relation /\ page'.schema = page.schema /\ page'.suppressed = page.suppressed
        /\ page'.pendingRevocations = page.pendingRevocations /\ page'.mounted = page.mounted
        /\ page'.grantMay = page.grantMay
    BY <1>3, <1>7 DEF Pages
  <2>2. rows'.target = q.target /\ rows'.mode = "revealed" /\ rows'.by = "reveal"
        /\ rows' = [target |-> rows'.target, relation |-> rows'.relation, mode |-> rows'.mode, by |-> rows'.by]
    BY <1>7
  <2>3. ExplorerTypeOK' BY <1>1, <1>4, <1>5, <1>7, <2>1, <2>2 DEF ExplorerInv, ExplorerTypeOK
  <2>5. ShownInv' BY <1>7, <2>1, <2>2, <1>1 DEF ExplorerInv, ShownInv, Quiet, RequestInv
  <2>7. OneSchema' /\ RevocationInv' /\ AnswerRevokes'
    BY <1>1, <1>4, <1>5, <1>6, <1>7, <2>1 DEF ExplorerInv, OneSchema, RevocationInv, AnswerRevokes, Pending
  <2> QED BY <1>6, <2>3, <2>5, <1>1, <1>7, <2>1, <2>7 DEF ExplorerInv, RequestInv, Quiet
<1>8. CASE /\ page' = Revoked(p) /\ revocations' = Append(revocations, op) /\ rows' = NoRows /\ drawer' = NoDrawer
           /\ page.mounted
  <2>1. /\ p \in Pages /\ p.privacyGen = page.privacyGen + 1 /\ p.rowsGen = page.rowsGen + 1
        /\ p.relatedGen = page.relatedGen + 1 /\ p.schemaGen = page.schemaGen /\ p.suppressed
        /\ p.schema = page.schema /\ p.relation = page.relation /\ p.mounted
        /\ p.pendingRevocations = page.pendingRevocations
    BY <1>3, <1>8, ClearedPage
  <2>2. op \in Revocations /\ op.privacy = p.privacyGen /\ op.then = "hide"
    <3> HIDE DEF p
    <3>1. p \in Pages /\ p.target \in Names BY <2>1 DEF Pages
    <3> QED BY ONLY <3>1, RevocationRecord
  <2> HIDE DEF p, op
  <2>3. /\ page' \in Pages /\ page'.privacyGen = page.privacyGen + 1 /\ page'.rowsGen = page.rowsGen + 1
        /\ page'.relatedGen = page.relatedGen + 1 /\ page'.schemaGen = page.schemaGen /\ page'.suppressed
        /\ page'.schema = page.schema /\ page'.relation = page.relation /\ page'.mounted
        /\ page'.pendingRevocations = page.pendingRevocations + 1
    BY <1>8, <2>1, RevokedPage
  <2>4. /\ revocations' \in Seq(Revocations) /\ page'.pendingRevocations = Len(revocations') /\ revocations' # <<>>
    BY <1>8, <2>2, <2>3, Appended
  <2>5. ExplorerTypeOK' BY <1>1, <1>4, <1>5, <1>8, <2>3, <2>4 DEF ExplorerInv, ExplorerTypeOK, NoRows, NoDrawer
  <2>6. AnswerRevokes' BY <1>1, <1>5, <2>3, <2>4 DEF AnswerRevokes, Pending
  <2>7. op.privacy = page'.privacyGen BY <2>1, <2>2, <2>3
  <2> QED BY <1>1, <1>3, <1>6, <1>8, <2>2, <2>3, <2>4, <2>5, <2>6, <2>7, ClearKeeps
<1>9. CASE page' = page /\ rows' = rows /\ drawer' = drawer /\ revocations' = revocations
  BY <1>1, <1>4, <1>5, <1>6, <1>9, PageStays DEF ExplorerInv, ExplorerTypeOK, AnswerRevokes, Pending
<1> QED BY <1>7, <1>8, <1>9 DEF RevealRows

LEMMA SendKeepsPage ==
    ASSUME ExplorerInv, SendRevocation \/ ServeRevocation PROVE ExplorerInv'
<1>1. /\ revocations # <<>>
      /\ \/ revocations' = [revocations EXCEPT ![1].sent = TRUE]
         \/ revocations' = [revocations EXCEPT ![1].served = TRUE]
      /\ UNCHANGED <<page, rows, drawer, requests, reveal, netFaults>>
  BY DEF SendRevocation, ServeRevocation
<1>2. revocations \in Seq(Revocations) /\ Len(revocations) \in Nat /\ 1 \in 1..Len(revocations)
  BY <1>1 DEF ExplorerInv, ExplorerTypeOK
<1>4. /\ revocations' \in Seq(Revocations) /\ Len(revocations') = Len(revocations) /\ revocations' # <<>>
      /\ \A i \in 1..Len(revocations) :
            revocations'[i].privacy = revocations[i].privacy /\ revocations'[i].then = revocations[i].then
  <2>0. PICK s \in {[revocations[1] EXCEPT !.sent = TRUE], [revocations[1] EXCEPT !.served = TRUE]} :
           revocations' = [revocations EXCEPT ![1] = s]
    BY <1>1
  <2>1. s \in Revocations /\ s.privacy = revocations[1].privacy /\ s.then = revocations[1].then
    <3>1. revocations[1] \in Revocations BY <1>2
    <3> QED BY <3>1, <2>0 DEF Revocations
  <2> QED BY <1>2, <2>1, <2>0
<1>6. RevocationInv' BY <1>1, <1>4 DEF ExplorerInv, RevocationInv
<1> QED
  BY <1>1, <1>4, <1>6, NotesKeep DEF SameShown, ExplorerInv, ExplorerTypeOK, AnswerRevokes, Pending,
    OneReveal, RevealInv, Quiet

\* The revocation at the head of the queue is settled.
LEMMA Dropped ==
    ASSUME ExplorerInv, revocations # <<>>, revocations' = Tail(revocations)
    PROVE  /\ revocations' \in Seq(Revocations) /\ Len(revocations') = page.pendingRevocations - 1
           /\ \A i \in 1..Len(revocations') : i + 1 \in 1..Len(revocations) /\ revocations'[i] = revocations[i + 1]
           /\ Head(revocations) = revocations[1] /\ 1 \in 1..Len(revocations) /\ revocations[1] \in Revocations
<1> QED BY DEF ExplorerInv, ExplorerTypeOK, RevocationInv

LEMMA SettledPage ==
    ASSUME NEW x \in Pages, NEW y, y = [x EXCEPT !.pendingRevocations = x.pendingRevocations - 1]
    PROVE  /\ y \in Pages /\ y.pendingRevocations = x.pendingRevocations - 1
           /\ y.mounted = x.mounted /\ y.target = x.target /\ y.relation = x.relation /\ y.schema = x.schema
           /\ y.active = x.active /\ y.suppressed = x.suppressed /\ y.grantMay = x.grantMay
           /\ y.rowsGen = x.rowsGen /\ y.revokeOnUnmount = x.revokeOnUnmount
           /\ y.schemaGen = x.schemaGen /\ y.relatedGen = x.relatedGen /\ y.privacyGen = x.privacyGen
BY DEF Pages

\* The revocations left in the queue stay as they are on a page that shows the
\* same, and none of them goes on after the one that is current.
LEMMA TailKeeps ==
    ASSUME ExplorerInv, revocations # <<>>, revocations' = Tail(revocations),
           page'.pendingRevocations = page.pendingRevocations - 1, page'.privacyGen = page.privacyGen,
           \/ SameShown /\ requests' = requests
           \/ Head(revocations).then # "none" /\ Head(revocations).privacy = page.privacyGen
    PROVE  RevocationInv'
<1>1. /\ revocations' \in Seq(Revocations) /\ Len(revocations') = page.pendingRevocations - 1
      /\ \A i \in 1..Len(revocations') : i + 1 \in 1..Len(revocations) /\ revocations'[i] = revocations[i + 1]
      /\ Head(revocations) = revocations[1] /\ 1 \in 1..Len(revocations)
  BY Dropped
<1>2. page.privacyGen \in Nat /\ revocations \in Seq(Revocations) /\ Len(revocations') \in Nat
  BY <1>1 DEF ExplorerInv, ExplorerTypeOK, Pages
<1>3. \A i \in 1..Len(revocations) : revocations[i].privacy \in Nat /\ revocations[i].privacy <= page.privacyGen
  <2>1. \A i \in 1..Len(revocations) : revocations[i] \in Revocations BY <1>2
  <2>2. \A r \in Revocations : r.privacy \in Nat BY DEF Revocations
  <2> QED BY <2>1, <2>2 DEF ExplorerInv, RevocationInv
<1>4. \A i, j \in 1..Len(revocations') :
         i < j /\ revocations'[i].then # "none" /\ revocations'[j].then # "none" =>
             revocations'[i].privacy < revocations'[j].privacy
  BY <1>1, <1>2 DEF ExplorerInv, RevocationInv
<1>5. CASE SameShown /\ requests' = requests
  BY <1>1, <1>5, <1>4 DEF ExplorerInv, RevocationInv, SameShown
<1>6. CASE Head(revocations).then # "none" /\ Head(revocations).privacy = page.privacyGen
  <2>1. \A i \in 1..Len(revocations') : revocations'[i].then = "none" /\ revocations'[i].privacy <= page.privacyGen
    BY <1>1, <1>2, <1>6, <1>3 DEF ExplorerInv, RevocationInv
  <2> QED BY <1>1, <1>4, <2>1 DEF RevocationInv
<1> QED BY <1>5, <1>6

LEMMA FailedKeeps ==
    ASSUME ExplorerInv, RevocationFailed PROVE ExplorerInv'
<1>1. /\ revocations # <<>> /\ revocations' = Tail(revocations) /\ netFaults' = netFaults + 1
      /\ page' = [page EXCEPT !.pendingRevocations = page.pendingRevocations - 1]
      /\ UNCHANGED <<rows, drawer, requests, reveal, grants>>
  BY DEF RevocationFailed
<1>2. page \in Pages /\ netFaults \in Nat BY DEF ExplorerInv, ExplorerTypeOK
<1>3. /\ page' \in Pages /\ SameShown /\ page'.pendingRevocations = page.pendingRevocations - 1
      /\ page'.revokeOnUnmount = page.revokeOnUnmount
  BY <1>1, <1>2, SettledPage DEF SameShown
<1>4. RevocationInv' /\ revocations' \in Seq(Revocations) BY <1>1, <1>3, TailKeeps, Dropped DEF SameShown
<1>5. ExplorerTypeOK' BY <1>1, <1>2, <1>3, <1>4 DEF ExplorerInv, ExplorerTypeOK
<1> QED
  BY <1>1, <1>3, <1>4, <1>5, <1>2, NotesKeep DEF ExplorerInv, AnswerRevokes, Pending, OneReveal,
    RevealInv, Quiet, SameShown


\* Nothing was on the screen and nothing is selected now: at most a schema is
\* asked for, at a new generation.
LEMMA FreedKeeps ==
    ASSUME ExplorerInv, ExplorerTypeOK', AnswerRevokes', RevocationInv', Quiet, page'.relation = NoRelation,
           page'.rowsGen = page.rowsGen, page'.relatedGen = page.relatedGen, page'.privacyGen = page.privacyGen,
           UNCHANGED <<rows, drawer, reveal>>,
           \/ /\ requests' = requests /\ page'.schemaGen = page.schemaGen
              /\ page'.schema = page.schema
           \/ \E q \in PageRequests :
                /\ requests' = requests \cup {q} /\ q.kind = "schema" /\ q.gen = page'.schemaGen
                /\ page'.schemaGen = page.schemaGen + 1 /\ page'.schema = NoRelation
    PROVE  ExplorerInv'
<1>1. /\ page \in Pages /\ page.schemaGen \in Nat /\ page'.schemaGen \in Nat /\ requests \subseteq PageRequests
  BY DEF ExplorerInv, ExplorerTypeOK, Pages
<1>2. \A o \in requests : o.gen \in Nat BY <1>1 DEF PageRequests
<1>3. rows'.mode = "none" /\ drawer'.mode = "closed" BY DEF ExplorerInv, ShownInv
<1>4. ASSUME NEW o \in requests, page'.schemaGen >= page.schemaGen,
             page'.schemaGen = page.schemaGen => page'.schema = page.schema
      PROVE  RequestInv(o)'
  <2>1. RequestInv(o) /\ o.gen \in Nat BY <1>2 DEF ExplorerInv
  <2>3. o.kind \in RowKinds => o.gen <= page'.rowsGen /\ o.gen # page'.rowsGen BY <2>1 DEF RequestInv
  <2>4. o.kind = "reveal" => o.privacy <= page'.privacyGen /\ o.privacy # page'.privacyGen BY <2>1 DEF RequestInv
  <2>5. o.kind = "related" => o.gen <= page'.relatedGen /\ o.gen # page'.relatedGen BY <2>1, <1>3 DEF RequestInv
  <2>6. o.kind = "masked" => o.mode = "masked" BY <2>1 DEF RequestInv
  <2>7. o.kind = "rows" => o.kind \in RowKinds BY DEF RowKinds
  <2> QED BY <2>1, <1>1, <1>4, <2>3, <2>4, <2>5, <2>6, <2>7 DEF RequestInv
<1>5. RevealInv' /\ ShownInv' BY <1>3 DEF ExplorerInv, RevealInv, ShownInv
<1>6. CASE requests' = requests /\ page'.schemaGen = page.schemaGen /\ page'.schema = page.schema
  BY <1>6, <1>1, <1>4, <1>5 DEF ExplorerInv, OneSchema, OneReveal
<1>7. ASSUME NEW q \in PageRequests, requests' = requests \cup {q}, q.kind = "schema", q.gen = page'.schemaGen,
             page'.schemaGen = page.schemaGen + 1, page'.schema = NoRelation
      PROVE  ExplorerInv'
  <2>2. OneSchema' /\ OneReveal'
    BY <1>1, <1>2, <1>7 DEF ExplorerInv, OneSchema, OneReveal, RequestInv
  <2>3. RequestInv(q)' BY <1>1, <1>7 DEF RequestInv, RowKinds
  <2>4. \A o \in requests : RequestInv(o)' BY <1>1, <1>4, <1>7
  <2>5. \A o \in requests' : RequestInv(o)' BY <1>7, <2>3, <2>4
  <2> QED BY <1>5, <2>2, <2>5 DEF ExplorerInv
<1> QED BY <1>6, <1>7

\* The revocation is done, and what it was to go on with follows if it is still
\* current.
LEMMA DoneKeeps ==
    ASSUME ExplorerInv, RevocationDone PROVE ExplorerInv'
<1> DEFINE op == Head(revocations)
           p == [page EXCEPT !.grantMay = FALSE, !.pendingRevocations = @ - 1]
           free == [p EXCEPT !.suppressed = FALSE]
<1>1. /\ revocations # <<>> /\ revocations' = Tail(revocations)
      /\ UNCHANGED <<rows, drawer, reveal, netFaults>>
      /\ \/ (op.privacy # page.privacyGen \/ op.then = "none") /\ page' = p /\ requests' = requests
         \/ /\ op.privacy = page.privacyGen /\ op.then = "select"
            /\ page' = [free EXCEPT !.target = op.target, !.schemaGen = @ + 1]
            /\ requests' = requests \cup {SchemaRequest(free.schemaGen + 1, op.target)}
         \/ /\ op.privacy = page.privacyGen /\ op.then # "none" /\ free.relation = NoRelation
            /\ page' = free /\ requests' = requests
         \/ /\ op.privacy = page.privacyGen /\ op.then # "none" /\ free.relation # NoRelation
            /\ page' = [free EXCEPT !.rowsGen = @ + 1]
            /\ requests' = requests \cup {RowsRequest("masked", free.rowsGen + 1, free.privacyGen,
                                                      free.target, free.relation, "masked")}
  BY DEF RevocationDone
<1>2. /\ page \in Pages /\ netFaults \in Nat /\ requests \subseteq PageRequests
      /\ page.schemaGen \in Nat /\ page.rowsGen \in Nat /\ page.relatedGen \in Nat /\ page.privacyGen \in Nat
  BY DEF ExplorerInv, ExplorerTypeOK, Pages
<1>3. /\ p \in Pages /\ p.pendingRevocations = page.pendingRevocations - 1
      /\ p.mounted = page.mounted /\ p.target = page.target /\ p.relation = page.relation /\ p.schema = page.schema
      /\ p.active = page.active /\ p.suppressed = page.suppressed /\ p.revokeOnUnmount = page.revokeOnUnmount
      /\ p.schemaGen = page.schemaGen /\ p.rowsGen = page.rowsGen /\ p.relatedGen = page.relatedGen
      /\ p.privacyGen = page.privacyGen
  <2> DEFINE x == [page EXCEPT !.grantMay = FALSE]
  <2>1. /\ x \in Pages /\ x.pendingRevocations = page.pendingRevocations
        /\ x.mounted = page.mounted /\ x.target = page.target /\ x.relation = page.relation /\ x.schema = page.schema
        /\ x.active = page.active /\ x.suppressed = page.suppressed /\ x.revokeOnUnmount = page.revokeOnUnmount
        /\ x.schemaGen = page.schemaGen /\ x.rowsGen = page.rowsGen /\ x.relatedGen = page.relatedGen
        /\ x.privacyGen = page.privacyGen
    BY <1>2 DEF Pages
  <2>2. p = [x EXCEPT !.pendingRevocations = x.pendingRevocations - 1] OBVIOUS
  <2> HIDE DEF x, p
  <2>3. x \in Pages BY <2>1
  <2>4. /\ p \in Pages /\ p.pendingRevocations = x.pendingRevocations - 1
        /\ p.mounted = x.mounted /\ p.target = x.target /\ p.relation = x.relation /\ p.schema = x.schema
        /\ p.active = x.active /\ p.suppressed = x.suppressed /\ p.revokeOnUnmount = x.revokeOnUnmount
        /\ p.schemaGen = x.schemaGen /\ p.rowsGen = x.rowsGen /\ p.relatedGen = x.relatedGen
        /\ p.privacyGen = x.privacyGen
    BY ONLY <2>2, <2>3, SettledPage
  <2> QED BY <2>1, <2>4
<1>4. /\ free \in Pages /\ free.pendingRevocations = page.pendingRevocations - 1 /\ ~free.suppressed
      /\ free.mounted = page.mounted /\ free.target = page.target /\ free.relation = page.relation
      /\ free.schema = page.schema /\ free.active = page.active /\ free.revokeOnUnmount = page.revokeOnUnmount
      /\ free.schemaGen = page.schemaGen /\ free.rowsGen = page.rowsGen /\ free.relatedGen = page.relatedGen
      /\ free.privacyGen = page.privacyGen
  <2> HIDE DEF p
  <2> QED BY <1>3 DEF Pages
<1>5. /\ op = revocations[1] /\ 1 \in 1..Len(revocations) /\ op \in Revocations /\ op.target \in Names
      /\ revocations' \in Seq(Revocations) BY <1>1, Dropped DEF Revocations
<1>6. /\ op.then # "none" /\ op.privacy = page.privacyGen => page.suppressed
      /\ op.then = "select" /\ op.privacy = page.privacyGen => page.schema = NoRelation /\ page.relation = NoRelation
  BY <1>5 DEF ExplorerInv, RevocationInv
<1> HIDE DEF p, free, op
<1>7. CASE (op.privacy # page.privacyGen \/ op.then = "none") /\ page' = p /\ requests' = requests
  BY <1>3, <1>7, <1>1, TailKeeps, <1>5, NotesKeep DEF SameShown, ExplorerInv, ExplorerTypeOK,
    AnswerRevokes, Pending, OneReveal, RevealInv, Quiet
<1>8. CASE /\ op.privacy = page.privacyGen /\ op.then = "select"
           /\ page' = [free EXCEPT !.target = op.target, !.schemaGen = @ + 1]
           /\ requests' = requests \cup {SchemaRequest(free.schemaGen + 1, op.target)}
  <2>1. /\ page' \in Pages /\ page'.schemaGen = page.schemaGen + 1 /\ page'.relation = NoRelation
        /\ page'.schema = NoRelation /\ page'.rowsGen = page.rowsGen /\ page'.relatedGen = page.relatedGen
        /\ page'.privacyGen = page.privacyGen /\ page'.pendingRevocations = page.pendingRevocations - 1
        /\ page'.mounted = page.mounted /\ page'.revokeOnUnmount = page.revokeOnUnmount
    <3> DEFINE x == [free EXCEPT !.schemaGen = free.schemaGen + 1]
    <3>1. x \in Pages
      <4>1. free.schemaGen + 1 \in Nat BY <1>2, <1>4
      <4> QED BY <4>1, <1>4, CountedPage
    <3>2. page' = [x EXCEPT !.target = op.target] BY <1>8
    <3> HIDE DEF x
    <3>4. page' \in Pages BY <3>1, <3>2, <1>5 DEF Pages
    <3>5. /\ page'.schemaGen = x.schemaGen /\ page'.relation = x.relation /\ page'.schema = x.schema
          /\ page'.rowsGen = x.rowsGen /\ page'.relatedGen = x.relatedGen /\ page'.privacyGen = x.privacyGen
          /\ page'.pendingRevocations = x.pendingRevocations /\ page'.mounted = x.mounted
          /\ page'.revokeOnUnmount = x.revokeOnUnmount
      BY <3>1, <3>2 DEF Pages
    <3> QED BY <1>4, <3>4, <3>5, <1>6, <1>8 DEF Pages
  <2>2. PICK q \in PageRequests : requests' = requests \cup {q} /\ q.kind = "schema" /\ q.gen = page'.schemaGen
    <3> DEFINE r == SchemaRequest(free.schemaGen + 1, op.target)
    <3>1. r \in PageRequests /\ r.kind = "schema" /\ r.gen = free.schemaGen + 1
      BY <1>2, <1>4, <1>5 DEF Names, SchemaRequest, PageRequests
    <3>2. requests' = requests \cup {r} BY <1>8
    <3> HIDE DEF r
    <3> QED BY <3>1, <3>2, <2>1, <1>4
  <2>3. RevocationInv' BY <1>1, <1>8, <2>1, TailKeeps DEF op
  <2>4. ExplorerTypeOK' /\ AnswerRevokes' BY <1>1, <1>5, <2>1, <2>2 DEF ExplorerInv, ExplorerTypeOK, AnswerRevokes, Pending
  <2>5. Quiet BY <1>6, <1>8 DEF Quiet
  <2> QED BY <1>1, <2>1, <2>2, <2>3, <2>4, <2>5, FreedKeeps
<1>9. CASE /\ op.privacy = page.privacyGen /\ op.then # "none" /\ free.relation = NoRelation
           /\ page' = free /\ requests' = requests
  BY <1>1, <1>4, <1>9, TailKeeps, <1>5, <1>6, FreedKeeps DEF op, ExplorerInv, ExplorerTypeOK,
    AnswerRevokes, Pending, Quiet
<1>10. CASE /\ op.privacy = page.privacyGen /\ op.then # "none" /\ free.relation # NoRelation
            /\ page' = [free EXCEPT !.rowsGen = @ + 1]
            /\ requests' = requests \cup {RowsRequest("masked", free.rowsGen + 1, free.privacyGen,
                                                      free.target, free.relation, "masked")}
  <2>1. /\ page' \in Pages /\ page'.rowsGen = page.rowsGen + 1 /\ page'.relation = page.relation
        /\ page'.schema = page.schema /\ page'.schemaGen = page.schemaGen /\ page'.relatedGen = page.relatedGen
        /\ page'.privacyGen = page.privacyGen /\ page'.pendingRevocations = page.pendingRevocations - 1
        /\ page'.mounted = page.mounted /\ page'.revokeOnUnmount = page.revokeOnUnmount
        /\ page'.target = page.target /\ page'.active = page.active /\ page'.suppressed = free.suppressed
    <3>1. free \in Pages /\ page' = [free EXCEPT !.rowsGen = free.rowsGen + 1] BY <1>4, <1>10
    <3>2. /\ page' \in Pages /\ page'.rowsGen = free.rowsGen + 1 /\ page'.relation = free.relation
          /\ page'.schema = free.schema /\ page'.schemaGen = free.schemaGen /\ page'.relatedGen = free.relatedGen
          /\ page'.privacyGen = free.privacyGen /\ page'.pendingRevocations = free.pendingRevocations
          /\ page'.mounted = free.mounted /\ page'.revokeOnUnmount = free.revokeOnUnmount
          /\ page'.target = free.target /\ page'.active = free.active /\ page'.suppressed = free.suppressed
      BY ONLY <3>1, NextRows
    <3> QED BY <3>2, <1>4
  <2>2. PICK q \in PageRequests : /\ requests' = requests \cup {q} /\ q.kind = "masked" /\ q.mode = "masked"
                                  /\ q.gen = page'.rowsGen
    <3> DEFINE r == RowsRequest("masked", free.rowsGen + 1, free.privacyGen, free.target, free.relation, "masked")
    <3>1. r \in PageRequests /\ r.kind = "masked" /\ r.gen = free.rowsGen + 1 /\ r.mode = "masked"
      BY <1>4 DEF Pages, RowsRequest, PageRequests
    <3>2. requests' = requests \cup {r} BY <1>10
    <3> HIDE DEF r
    <3> QED BY <3>1, <3>2, <2>1, <1>4
  <2>3. RevocationInv' BY <1>1, <1>10, <2>1, TailKeeps DEF op
  <2>4. ExplorerTypeOK' /\ AnswerRevokes' BY <1>1, <1>5, <2>1, <2>2 DEF ExplorerInv, ExplorerTypeOK, AnswerRevokes, Pending
  <2>5. Quiet /\ page.relation # NoRelation BY <1>4, <1>6, <1>10 DEF Quiet
  <2>6. RevealInv' /\ ShownInv' /\ OneReveal'
    BY <1>1, <2>1, <2>2, <2>5 DEF ExplorerInv, RevealInv, ShownInv, OneReveal
  <2>7. \A o \in requests' : o.kind = "schema" /\ o.gen = page'.schemaGen =>
            page'.schema = NoRelation /\ page'.relation = NoRelation
    BY <2>2, <2>1 DEF ExplorerInv, RequestInv
  <2>8. /\ requests' \subseteq requests \cup {q} /\ q.kind \in RowKinds /\ q.kind # "rows" /\ q.kind # "reveal"
        /\ page'.rowsGen > page.rowsGen /\ page'.relatedGen >= page.relatedGen
        /\ ~page'.suppressed /\ page'.relation # NoRelation
    BY <1>2, <1>4, <2>1, <2>2, <2>5 DEF RowKinds
  <2> QED BY <1>1, <2>1, <2>2, <2>3, <2>4, <2>6, <2>7, <2>8, AskedKeeps
<1> QED BY <1>1, <1>7, <1>8, <1>9, <1>10


\* A current schema of a page: nothing is selected, nothing can be on the
\* screen, and no revocation is going to ask for another one.
LEMMA SchemaIsCurrent ==
    ASSUME ExplorerInv, NEW q \in requests, q.kind = "schema", page.schemaGen = q.gen
    PROVE  /\ Quiet /\ rows.mode = "none" /\ drawer.mode = "closed"
           /\ \A o \in requests : o.kind = "schema" /\ o.gen = page.schemaGen => o = q
           /\ \A i \in 1..Len(revocations) : ~(revocations[i].then = "select" /\ revocations[i].privacy = page.privacyGen)
<1>1. Quiet BY DEF ExplorerInv, RequestInv, Quiet
<1>2. rows.mode = "none" /\ drawer.mode = "closed" BY <1>1 DEF ExplorerInv, ShownInv
<1>3. \A o \in requests : o.kind = "schema" /\ o.gen = page.schemaGen => o = q BY DEF ExplorerInv, OneSchema
<1>4. q.gen \in Nat BY DEF ExplorerInv, ExplorerTypeOK, PageRequests
<1> QED BY <1>1, <1>2, <1>3, <1>4 DEF ExplorerInv, RevocationInv

LEMMA SchemaArrivesKeeps ==
    ASSUME ExplorerInv, NEW q \in requests, SchemaArrives(q) PROVE ExplorerInv'
<1> DEFINE p == [page EXCEPT !.schema = q.target, !.relation = FirstRelation]
<1>1. /\ q.kind = "schema" /\ UNCHANGED <<rows, drawer, reveal, revocations, grants, netFaults>>
      /\ \/ requests' = requests \ {q} /\ page' = page
         \/ /\ page.schemaGen = q.gen /\ p.suppressed /\ page' = p /\ requests' = requests \ {q}
         \/ /\ page.schemaGen = q.gen /\ ~p.suppressed /\ page' = [p EXCEPT !.rowsGen = p.rowsGen + 1]
            /\ requests' = (requests \ {q}) \cup
                 {RowsRequest("rows", p.rowsGen + 1, 0, p.target, p.relation, Mode(p))}
  BY DEF SchemaArrives
<1>2. /\ page \in Pages /\ requests \subseteq PageRequests /\ page.rowsGen \in Nat /\ page.relatedGen \in Nat
      /\ page.privacyGen \in Nat /\ page.schemaGen \in Nat /\ q.target \in Names
  BY DEF ExplorerInv, ExplorerTypeOK, Pages, PageRequests
<1>3. FirstRelation \in DbRelations /\ FirstRelation \in Names /\ FirstRelation # NoRelation
  BY ExplorerPageAssumption DEF FirstRelation, Names, NoRelation
<1>4. /\ p \in Pages /\ p.relation = FirstRelation /\ p.suppressed = page.suppressed /\ p.target = page.target
      /\ p.active = page.active /\ p.rowsGen = page.rowsGen /\ p.relatedGen = page.relatedGen
      /\ p.privacyGen = page.privacyGen /\ p.schemaGen = page.schemaGen /\ p.mounted = page.mounted
      /\ p.grantMay = page.grantMay /\ p.revokeOnUnmount = page.revokeOnUnmount
      /\ p.pendingRevocations = page.pendingRevocations
  BY <1>2, <1>3 DEF Pages
<1> HIDE DEF p
<1>6. OneReveal' BY <1>1 DEF ExplorerInv, OneReveal, RowsRequest
<1>7. CASE requests' = requests \ {q} /\ page' = page
  BY <1>1, <1>7, <1>6, PageStays DEF ExplorerInv, ExplorerTypeOK, AnswerRevokes, Pending, RevealInv,
    Quiet
<1>8. CASE page.schemaGen = q.gen /\ p.suppressed /\ page' = p /\ requests' = requests \ {q}
  <2>1. /\ Quiet /\ rows.mode = "none" /\ drawer.mode = "closed"
        /\ \A o \in requests : o.kind = "schema" /\ o.gen = page.schemaGen => o = q
        /\ \A i \in 1..Len(revocations) : ~(revocations[i].then = "select" /\ revocations[i].privacy = page.privacyGen)
    BY <1>1, <1>8, SchemaIsCurrent
  <2>2. ExplorerTypeOK' /\ AnswerRevokes' BY <1>1, <1>4, <1>8 DEF ExplorerInv, ExplorerTypeOK, AnswerRevokes, Pending
  <2>4. ASSUME NEW o \in requests' PROVE RequestInv(o)'
    BY <1>8, <2>1, <1>1, <1>4 DEF ExplorerInv, RequestInv, RowKinds
  <2> QED
    BY <1>6, <2>2, <1>1, <1>4, <1>8, <2>1, <2>4 DEF ExplorerInv, RevocationInv, RevealInv, ShownInv,
      OneSchema
<1>9. CASE /\ page.schemaGen = q.gen /\ ~p.suppressed /\ page' = [p EXCEPT !.rowsGen = p.rowsGen + 1]
           /\ requests' = (requests \ {q}) \cup
                {RowsRequest("rows", p.rowsGen + 1, 0, p.target, p.relation, Mode(p))}
  <2>1. /\ Quiet /\ rows.mode = "none" /\ drawer.mode = "closed"
        /\ \A o \in requests : o.kind = "schema" /\ o.gen = page.schemaGen => o = q
        /\ \A i \in 1..Len(revocations) : ~(revocations[i].then = "select" /\ revocations[i].privacy = page.privacyGen)
    BY <1>1, <1>9, SchemaIsCurrent
  <2>2. /\ page' \in Pages /\ page'.rowsGen = page.rowsGen + 1 /\ page'.relation = FirstRelation
        /\ page'.suppressed = page.suppressed /\ page'.target = page.target /\ page'.active = page.active
        /\ page'.relatedGen = page.relatedGen /\ page'.privacyGen = page.privacyGen
        /\ page'.schemaGen = page.schemaGen /\ page'.mounted = page.mounted /\ page'.grantMay = page.grantMay
        /\ page'.revokeOnUnmount = page.revokeOnUnmount /\ page'.pendingRevocations = page.pendingRevocations
    <3>1. p \in Pages /\ page' = [p EXCEPT !.rowsGen = p.rowsGen + 1] BY <1>4, <1>9
    <3>2. /\ page' \in Pages /\ page'.rowsGen = p.rowsGen + 1 /\ page'.relation = p.relation
          /\ page'.suppressed = p.suppressed /\ page'.target = p.target /\ page'.active = p.active
          /\ page'.relatedGen = p.relatedGen /\ page'.privacyGen = p.privacyGen
          /\ page'.schemaGen = p.schemaGen /\ page'.mounted = p.mounted /\ page'.grantMay = p.grantMay
          /\ page'.revokeOnUnmount = p.revokeOnUnmount /\ page'.pendingRevocations = p.pendingRevocations
      BY ONLY <3>1, NextRows
    <3> QED BY <3>2, <1>4
  <2>3. PICK n \in PageRequests :
          /\ requests' = (requests \ {q}) \cup {n} /\ n.kind = "rows" /\ n.gen = page'.rowsGen
          /\ n.target = page'.target /\ n.relation = page'.relation /\ n.mode = Mode(page')
    <3> DEFINE r == RowsRequest("rows", p.rowsGen + 1, 0, p.target, p.relation, Mode(p))
    <3>1. /\ r \in PageRequests /\ r.kind = "rows" /\ r.gen = p.rowsGen + 1
          /\ r.target = p.target /\ r.relation = p.relation /\ r.mode = Mode(p)
      BY <1>4 DEF Pages, Mode, RowsRequest, PageRequests
    <3>2. requests' = (requests \ {q}) \cup {r} BY <1>9
    <3> HIDE DEF r
    <3> QED BY <3>1, <3>2, <1>4, <2>2 DEF Mode
  <2>4. ExplorerTypeOK' /\ AnswerRevokes' BY <1>1, <1>2, <2>2, <2>3 DEF ExplorerInv, ExplorerTypeOK, AnswerRevokes, Pending
  <2>5. ~page'.suppressed /\ page'.relation # NoRelation BY <1>3, <1>4, <1>9, <2>2
  <2>6. RevealInv' /\ ShownInv' /\ RevocationInv'
    BY <1>1, <2>1, <2>2, <2>5 DEF ExplorerInv, RevealInv, ShownInv, RevocationInv, Quiet
  <2>7. \A o \in requests' : ~(o.kind = "schema" /\ o.gen = page'.schemaGen) BY <2>1, <2>2, <2>3
  <2>8. /\ requests' \subseteq requests \cup {n} /\ n.kind \in RowKinds /\ n.kind # "masked" /\ n.kind # "reveal"
        /\ page'.rowsGen > page.rowsGen /\ page'.relatedGen >= page.relatedGen
    BY <1>2, <2>2, <2>3 DEF RowKinds
  <2> QED BY <1>1, <1>6, <2>2, <2>3, <2>4, <2>5, <2>6, <2>7, <2>8, AskedKeeps
<1> QED BY <1>1, <1>7, <1>8, <1>9

\* An answer changes what is on the screen, and nothing else.
LEMMA ScreenKeeps ==
    ASSUME ExplorerInv, ExplorerTypeOK', ShownInv', requests' \subseteq requests, drawer'.mode = "closed" => drawer' = drawer,
           UNCHANGED <<page, reveal, revocations, grants, netFaults>>
    PROVE  ExplorerInv'
<1>1. \A q \in requests' : RequestInv(q)' BY DEF ExplorerInv, RequestInv, Quiet
<1> QED
  BY <1>1 DEF ExplorerInv, OneSchema, OneReveal, RevocationInv, RevealInv, AnswerRevokes, Pending,
    Quiet

LEMMA RowsArriveKeeps ==
    ASSUME ExplorerInv, NEW q \in requests, RowsArrive(q) PROVE ExplorerInv'
<1> DEFINE shown == [target |-> q.target, relation |-> q.relation, mode |-> q.mode, by |-> "load"]
<1>1. /\ q.kind \in {"rows", "masked"} /\ requests' = requests \ {q}
      /\ UNCHANGED <<page, drawer, reveal, revocations, grants, netFaults>>
      /\ \/ rows' = rows
         \/ /\ page.rowsGen = q.gen /\ rows' = shown
            /\ q.kind = "masked" => page.target = q.target /\ page.relation = q.relation
  BY DEF RowsArrive
<1>2. RequestInv(q) BY DEF ExplorerInv
<1>3. CASE rows' = rows BY <1>1, <1>3, ScreenKeeps DEF ExplorerInv, ExplorerTypeOK, ShownInv, Quiet
<1>4. CASE page.rowsGen = q.gen /\ rows' = shown /\ (q.kind = "masked" => page.target = q.target /\ page.relation = q.relation)
  BY <1>4, <1>1, <1>2, ScreenKeeps DEF RequestInv, RowKinds, ExplorerInv, ExplorerTypeOK, ShownInv,
    Quiet
<1> QED BY <1>1, <1>3, <1>4

LEMMA RelatedArriveKeeps ==
    ASSUME ExplorerInv, NEW q \in requests, RelatedArrive(q) PROVE ExplorerInv'
<1>1. /\ q.kind = "related" /\ requests' = requests \ {q}
      /\ UNCHANGED <<page, rows, reveal, revocations, grants, netFaults>>
      /\ \/ drawer' = drawer
         \/ page.relatedGen = q.gen /\ drawer' = [drawer EXCEPT !.mode = q.mode]
  BY DEF RelatedArrive
<1>2. RequestInv(q) /\ q \in PageRequests /\ q.mode \in {"none", "masked", "revealed"}
  BY DEF ExplorerInv, ExplorerTypeOK, PageRequests
<1>3. CASE drawer' = drawer
  BY <1>1, <1>3, ScreenKeeps DEF ExplorerInv, ExplorerTypeOK, ShownInv, Quiet
<1>4. CASE page.relatedGen = q.gen /\ drawer' = [drawer EXCEPT !.mode = q.mode]
  <2>2. drawer' = [target |-> drawer.target, relation |-> drawer.relation, mode |-> q.mode]
    BY <1>4 DEF ExplorerInv, ExplorerTypeOK
  <2>3. drawer'.target = drawer.target /\ drawer'.relation = drawer.relation /\ drawer'.mode = q.mode BY <2>2
  <2>5. ExplorerTypeOK' BY <1>1, <2>2, <2>3 DEF ExplorerInv, ExplorerTypeOK
  <2>6. ShownInv' BY <1>1, <2>3, <1>2, <1>4 DEF ExplorerInv, ShownInv, Quiet, RequestInv
  <2>7. drawer'.mode # "closed" BY <1>2, <2>3
  <2> QED BY <1>1, <2>5, <2>6, <2>7, ScreenKeeps
<1> QED BY <1>1, <1>3, <1>4

LEMMA RequestFailedKeeps ==
    ASSUME ExplorerInv, NEW q \in requests, RequestFailed(q) PROVE ExplorerInv'
<1>1. /\ requests' = requests \ {q} /\ netFaults' = netFaults + 1
      /\ UNCHANGED <<page, rows, drawer, reveal, revocations, grants>>
  BY DEF RequestFailed
<1>2. netFaults \in Nat BY DEF ExplorerInv, ExplorerTypeOK
<1> QED
  BY <1>1, <1>2, PageStays DEF ExplorerInv, ExplorerTypeOK, AnswerRevokes, Pending, OneReveal,
    RevealInv, Quiet


\* Another relation of the schema is selected: what was asked for before is no
\* longer current, but for a reveal, whose rows belong to the database.
LEMMA SelectRelationKeeps ==
    ASSUME ExplorerInv, NEW r \in DbRelations, SelectRelation(r) PROVE ExplorerInv'
<1> DEFINE x == [page EXCEPT !.rowsGen = @ + 1, !.relatedGen = @ + 1, !.relation = r]
<1>1. /\ page.schema # NoRelation /\ rows' = NoRows /\ drawer' = NoDrawer
      /\ UNCHANGED <<reveal, revocations, grants, netFaults>>
      /\ \/ x.suppressed /\ page' = x /\ requests' = requests
         \/ x.relation = NoRelation
         \/ /\ ~x.suppressed /\ page' = [x EXCEPT !.rowsGen = x.rowsGen + 1]
            /\ requests' = requests \cup {RowsRequest("rows", x.rowsGen + 1, 0, x.target, x.relation, Mode(x))}
  BY DEF SelectRelation, LoadRows
<1>2. /\ page \in Pages /\ requests \subseteq PageRequests /\ page.rowsGen \in Nat /\ page.relatedGen \in Nat
      /\ page.privacyGen \in Nat /\ page.schemaGen \in Nat
  BY DEF ExplorerInv, ExplorerTypeOK, Pages
<1>3. r \in Names /\ r # NoRelation BY ExplorerPageAssumption DEF Names, NoRelation
<1>4. /\ x \in Pages /\ x.relation = r /\ x.schema = page.schema /\ x.suppressed = page.suppressed
      /\ x.target = page.target /\ x.active = page.active /\ x.rowsGen = page.rowsGen + 1
      /\ x.relatedGen = page.relatedGen + 1 /\ x.privacyGen = page.privacyGen /\ x.schemaGen = page.schemaGen
      /\ x.mounted = page.mounted /\ x.grantMay = page.grantMay /\ x.revokeOnUnmount = page.revokeOnUnmount
      /\ x.pendingRevocations = page.pendingRevocations
  <2> DEFINE y == [page EXCEPT !.rowsGen = page.rowsGen + 1]
             z == [y EXCEPT !.relatedGen = page.relatedGen + 1]
  <2>1. y \in Pages /\ z \in Pages
    <3>1. page.rowsGen + 1 \in Nat /\ page.relatedGen + 1 \in Nat BY <1>2
    <3>2. y \in Pages BY <1>2, <3>1, CountedPage
    <3>3. z \in Pages
      <4> HIDE DEF y
      <4> QED BY <3>1, <3>2, CountedPage
    <3> QED BY <3>2, <3>3
  <2>2. x = [z EXCEPT !.relation = r] OBVIOUS
  <2>3. x \in Pages
    <3> HIDE DEF z, x
    <3> QED BY <2>1, <2>2, <1>3 DEF Pages
  <2> QED BY <1>2, <2>3 DEF Pages
<1> HIDE DEF x
<1>5. \A o \in requests : o.gen \in Nat /\ o.privacy \in Nat BY <1>2 DEF PageRequests
<1>6. \A o \in requests : ~(o.kind = "schema" /\ o.gen = page.schemaGen) BY <1>1 DEF ExplorerInv, RequestInv
<1>7. \A i \in 1..Len(revocations) : ~(revocations[i].then = "select" /\ revocations[i].privacy = page.privacyGen)
  BY <1>1 DEF ExplorerInv, RevocationInv
<1>8. rows'.mode = "none" /\ drawer'.mode = "closed" BY <1>1 DEF NoRows, NoDrawer
<1>9. CASE x.suppressed /\ page' = x /\ requests' = requests
  <2>1. ExplorerTypeOK' BY <1>1, <1>4, <1>9 DEF ExplorerInv, ExplorerTypeOK, NoRows, NoDrawer
  <2>2. AnswerRevokes' /\ OneSchema' /\ OneReveal' BY <1>1, <1>4, <1>9 DEF ExplorerInv, AnswerRevokes, Pending, OneSchema, OneReveal
  <2>4. ASSUME NEW o \in requests' PROVE RequestInv(o)'
    <3>1. RequestInv(o) /\ o \in requests /\ o.gen \in Nat BY <1>5, <1>9 DEF ExplorerInv
    <3>2. o.kind \in RowKinds => o.gen < page'.rowsGen BY <3>1, <1>2, <1>4, <1>9 DEF RequestInv
    <3>3. o.kind = "related" => o.gen < page'.relatedGen BY <3>1, <1>2, <1>4, <1>9 DEF RequestInv
    <3>4. o.kind = "reveal" => o.privacy <= page'.privacyGen /\ o.privacy # page'.privacyGen
      BY <3>1, <1>4, <1>9 DEF RequestInv, Quiet
    <3>5. o.kind = "schema" => o.gen <= page'.schemaGen /\ o.gen # page'.schemaGen
      BY <3>1, <1>4, <1>6, <1>9 DEF RequestInv
    <3>7. page'.rowsGen \in Nat /\ page'.relatedGen \in Nat BY <1>2, <1>4, <1>9
    <3>8. o.kind = "rows" => o.kind \in RowKinds BY DEF RowKinds
    <3> QED BY <3>1, <3>2, <3>3, <3>4, <3>5, <3>7, <3>8 DEF RequestInv
  <2> QED
    BY <2>1, <2>2, <1>1, <1>4, <1>7, <1>8, <1>9, <2>4 DEF ExplorerInv, RevealInv, RevocationInv,
      ShownInv, Quiet
<1>10. CASE /\ ~x.suppressed /\ page' = [x EXCEPT !.rowsGen = x.rowsGen + 1]
            /\ requests' = requests \cup {RowsRequest("rows", x.rowsGen + 1, 0, x.target, x.relation, Mode(x))}
  <2>1. /\ page' \in Pages /\ page'.rowsGen = page.rowsGen + 2 /\ page'.relation = r /\ page'.schema = page.schema
        /\ page'.suppressed = page.suppressed /\ page'.target = page.target /\ page'.active = page.active
        /\ page'.relatedGen = page.relatedGen + 1 /\ page'.privacyGen = page.privacyGen
        /\ page'.schemaGen = page.schemaGen /\ page'.mounted = page.mounted /\ page'.grantMay = page.grantMay
        /\ page'.revokeOnUnmount = page.revokeOnUnmount /\ page'.pendingRevocations = page.pendingRevocations
    <3>1. x \in Pages /\ page' = [x EXCEPT !.rowsGen = x.rowsGen + 1] BY <1>4, <1>10
    <3>2. /\ page' \in Pages /\ page'.rowsGen = x.rowsGen + 1 /\ page'.relation = x.relation
          /\ page'.schema = x.schema
          /\ page'.suppressed = x.suppressed /\ page'.target = x.target /\ page'.active = x.active
          /\ page'.relatedGen = x.relatedGen /\ page'.privacyGen = x.privacyGen
          /\ page'.schemaGen = x.schemaGen /\ page'.mounted = x.mounted /\ page'.grantMay = x.grantMay
          /\ page'.revokeOnUnmount = x.revokeOnUnmount /\ page'.pendingRevocations = x.pendingRevocations
      BY ONLY <3>1, NextRows
    <3>3. x.rowsGen + 1 = page.rowsGen + 2 BY <1>2, <1>4
    <3> QED BY <3>2, <3>3, <1>4
  <2>2. PICK n \in PageRequests :
          /\ requests' = requests \cup {n} /\ n.kind = "rows" /\ n.gen = page'.rowsGen
          /\ n.target = page'.target /\ n.relation = page'.relation /\ n.mode = Mode(page')
    <3> DEFINE s == RowsRequest("rows", x.rowsGen + 1, 0, x.target, x.relation, Mode(x))
    <3>1. /\ s \in PageRequests /\ s.kind = "rows" /\ s.gen = x.rowsGen + 1
          /\ s.target = x.target /\ s.relation = x.relation /\ s.mode = Mode(x)
      BY <1>4 DEF Pages, Mode, RowsRequest, PageRequests
    <3>2. requests' = requests \cup {s} BY <1>10
    <3> HIDE DEF s
    <3> QED BY <3>1, <3>2, <1>2, <1>4, <2>1 DEF Mode
  <2>3. ExplorerTypeOK' BY <1>1, <2>1, <2>2 DEF ExplorerInv, ExplorerTypeOK, NoRows, NoDrawer
  <2>4. AnswerRevokes' /\ OneReveal' BY <1>1, <2>1, <2>2 DEF ExplorerInv, AnswerRevokes, Pending, OneReveal
  <2>5. ~page'.suppressed /\ page'.relation # NoRelation BY <1>3, <1>4, <1>10, <2>1
  <2>6. RevealInv' /\ ShownInv' BY <1>1, <1>8, <2>1, <2>5 DEF ExplorerInv, RevealInv, ShownInv, Quiet
  <2>7. RevocationInv' BY <1>1, <1>7, <2>1, <2>5 DEF ExplorerInv, RevocationInv
  <2>8. \A o \in requests' : ~(o.kind = "schema" /\ o.gen = page'.schemaGen) BY <1>6, <2>1, <2>2
  <2>9. /\ requests' \subseteq requests \cup {n} /\ n.kind \in RowKinds /\ n.kind # "masked" /\ n.kind # "reveal"
        /\ page'.rowsGen > page.rowsGen /\ page'.relatedGen >= page.relatedGen /\ page'.relatedGen # page.relatedGen
    BY <1>2, <2>1, <2>2 DEF RowKinds
  <2> QED BY <1>1, <2>1, <2>2, <2>3, <2>4, <2>5, <2>6, <2>7, <2>8, <2>9, AskedKeeps
<1> QED BY <1>1, <1>3, <1>4, <1>9, <1>10

LEMMA ChangeQueryKeeps ==
    ASSUME ExplorerInv, ChangeQuery PROVE ExplorerInv'
<1>1. /\ rows.mode # "none" /\ UNCHANGED <<rows, drawer, reveal, revocations, grants, netFaults>>
      /\ \/ page.suppressed \/ page.relation = NoRelation
         \/ /\ page' = [page EXCEPT !.rowsGen = page.rowsGen + 1]
            /\ requests' = requests \cup
                 {RowsRequest("rows", page.rowsGen + 1, 0, page.target, page.relation, Mode(page))}
  BY DEF ChangeQuery, LoadRows
<1>2. ~page.suppressed /\ page.relation # NoRelation /\ page \in Pages /\ requests \subseteq PageRequests
  BY <1>1 DEF ExplorerInv, ExplorerTypeOK, ShownInv, Quiet
<1>3. page.rowsGen \in Nat /\ page.relatedGen \in Nat /\ page.target \in Names /\ page.relation \in Names
  BY <1>2 DEF Pages
<1>4. page' = [page EXCEPT !.rowsGen = page.rowsGen + 1] BY <1>1, <1>2
<1>5. /\ page' \in Pages /\ page'.rowsGen = page.rowsGen + 1 /\ page'.relation = page.relation
      /\ page'.schema = page.schema /\ page'.suppressed = page.suppressed /\ page'.target = page.target
      /\ page'.active = page.active /\ page'.relatedGen = page.relatedGen /\ page'.privacyGen = page.privacyGen
      /\ page'.schemaGen = page.schemaGen /\ page'.mounted = page.mounted /\ page'.grantMay = page.grantMay
      /\ page'.revokeOnUnmount = page.revokeOnUnmount /\ page'.pendingRevocations = page.pendingRevocations
  <2>1. page \in Pages BY <1>2
  <2> QED BY ONLY <1>4, <2>1, NextRows
<1>6. PICK n \in PageRequests :
        /\ requests' = requests \cup {n} /\ n.kind = "rows" /\ n.gen = page'.rowsGen
        /\ n.target = page'.target /\ n.relation = page'.relation /\ n.mode = Mode(page')
  <2> DEFINE s == RowsRequest("rows", page.rowsGen + 1, 0, page.target, page.relation, Mode(page))
  <2>1. /\ s \in PageRequests /\ s.kind = "rows" /\ s.gen = page.rowsGen + 1
        /\ s.target = page.target /\ s.relation = page.relation /\ s.mode = Mode(page)
    <3>1. page.rowsGen + 1 \in Nat /\ Mode(page) \in {"masked", "revealed"} BY <1>3 DEF Mode
    <3> QED BY ONLY <3>1, <1>3 DEF RowsRequest, PageRequests
  <2>2. requests' = requests \cup {s} BY <1>1, <1>2
  <2>3. Mode(page) = Mode(page') BY <1>5 DEF Mode
  <2> HIDE DEF s
  <2> QED BY <2>1, <2>2, <2>3, <1>5
<1>8. RevealInv' /\ ShownInv' BY <1>1, <1>5 DEF ExplorerInv, RevealInv, ShownInv, Quiet
<1>10. RevocationInv' BY <1>1, <1>2, <1>5 DEF ExplorerInv, RevocationInv
<1>11. /\ requests' \subseteq requests \cup {n} /\ n.kind \in RowKinds /\ n.kind # "masked" /\ n.kind # "reveal"
       /\ page'.rowsGen > page.rowsGen /\ page'.relatedGen >= page.relatedGen
       /\ \A o \in requests' : o.kind = "schema" /\ o.gen = page'.schemaGen =>
              page'.schema = NoRelation /\ page'.relation = NoRelation
  BY <1>3, <1>5, <1>6 DEF RowKinds, ExplorerInv, RequestInv
<1> QED
  BY <1>1, <1>2, <1>5, <1>6, <1>8, <1>10, <1>11, AskedKeeps DEF ExplorerInv, ExplorerTypeOK,
    AnswerRevokes, Pending, OneReveal

\* The drawer is opened or closed.
LEMMA DrawerKeeps ==
    ASSUME ExplorerInv, page' = [page EXCEPT !.relatedGen = page.relatedGen + 1],
           UNCHANGED <<rows, reveal, revocations, grants, netFaults>>,
           drawer' = [target |-> drawer'.target, relation |-> drawer'.relation, mode |-> drawer'.mode],
           \/ drawer'.mode = "closed" /\ requests' = requests
           \/ /\ drawer'.mode = "loading" /\ drawer'.target = page.target /\ drawer'.relation = page.relation /\ ~Quiet
              /\ requests' = requests \cup
                   {RowsRequest("related", page.relatedGen + 1, 0, page.target, page.relation, Mode(page))}
    PROVE  ExplorerInv'
<1>1. /\ page \in Pages /\ page.relatedGen \in Nat /\ requests \subseteq PageRequests
      /\ page.target \in Names /\ page.relation \in Names
  BY DEF ExplorerInv, ExplorerTypeOK, Pages
<1>2. /\ page' \in Pages /\ page'.relatedGen = page.relatedGen + 1 /\ page'.rowsGen = page.rowsGen
      /\ page'.relation = page.relation /\ page'.schema = page.schema /\ page'.suppressed = page.suppressed
      /\ page'.target = page.target /\ page'.active = page.active /\ page'.privacyGen = page.privacyGen
      /\ page'.schemaGen = page.schemaGen /\ page'.mounted = page.mounted /\ page'.grantMay = page.grantMay
      /\ page'.revokeOnUnmount = page.revokeOnUnmount /\ page'.pendingRevocations = page.pendingRevocations
  <2>1. page.relatedGen + 1 \in Nat BY <1>1
  <2>2. [page EXCEPT !.relatedGen = page.relatedGen + 1] \in Pages BY ONLY <2>1, <1>1, CountedPage
  <2>3. page' \in Pages BY <2>2
  <2> QED BY <1>1, <2>3 DEF Pages
<1>3. \A o \in requests : o.gen \in Nat BY <1>1 DEF PageRequests
<1>4. ASSUME NEW o \in requests PROVE RequestInv(o)'
  BY <1>3, <1>1, <1>2 DEF ExplorerInv, RequestInv, Quiet, RowKinds
<1>5. RevealInv' BY <1>2 DEF ExplorerInv, RevealInv, Quiet
<1>6. AnswerRevokes' BY <1>2 DEF ExplorerInv, AnswerRevokes, Pending
<1>7. ShownInv' BY <1>2 DEF ExplorerInv, ShownInv, Quiet
<1>8. CASE drawer'.mode = "closed" /\ requests' = requests
  BY <1>2, <1>8, <1>4, <1>5, <1>6, <1>7 DEF ExplorerInv, ExplorerTypeOK, OneSchema, OneReveal,
    RevocationInv
<1>9. CASE /\ drawer'.mode = "loading"
           /\ requests' = requests \cup
                {RowsRequest("related", page.relatedGen + 1, 0, page.target, page.relation, Mode(page))}
  <2>1. PICK n \in PageRequests :
          requests' = requests \cup {n} /\ n.kind = "related" /\ n.gen = page'.relatedGen /\ n.mode = Mode(page)
    <3> DEFINE s == RowsRequest("related", page.relatedGen + 1, 0, page.target, page.relation, Mode(page))
    <3>1. s \in PageRequests /\ s.kind = "related" /\ s.gen = page.relatedGen + 1 /\ s.mode = Mode(page)
      <4>1. page.relatedGen + 1 \in Nat /\ Mode(page) \in {"masked", "revealed"} BY <1>1 DEF Mode
      <4> QED BY ONLY <4>1, <1>1 DEF RowsRequest, PageRequests
    <3>2. requests' = requests \cup {s} BY <1>9
    <3> HIDE DEF s
    <3> QED BY <3>1, <3>2, <1>2
  <2>2. ExplorerTypeOK' BY <1>2, <2>1 DEF ExplorerInv, ExplorerTypeOK
  <2>3. OneSchema' /\ OneReveal' BY <1>2, <2>1 DEF ExplorerInv, OneSchema, OneReveal
  <2>4. RevocationInv' BY <1>2, <2>1 DEF ExplorerInv, RevocationInv
  <2>5. page'.relatedGen \in Nat BY <1>1, <1>2
  <2>6. RequestInv(n)' BY <1>2, <1>9, <2>1, <2>5 DEF RequestInv, RowKinds, Mode
  <2> QED BY <1>4, <1>5, <1>6, <1>7, <2>1, <2>2, <2>3, <2>4, <2>6 DEF ExplorerInv
<1> QED BY <1>8, <1>9

(* The grants.  The queue of a page that is still there is suppressed until it
   is empty, none of its revocations is under way while the answer of a reveal
   is, and the server grants nothing after it has handled one. *)
QueueInv ==
    /\ \A i \in 1..Len(revocations) :
         (revocations[i].served => revocations[i].sent) /\ (i > 1 => ~revocations[i].sent)
    /\ page.mounted =>
         /\ \A i \in 1..Len(revocations) : revocations[i].then # "none" /\ (~revocations[i].wait => ~Pending)
         /\ Len(revocations) > 0 => page.suppressed
         /\ Len(revocations) > 0 /\ revocations[1].sent => ~Pending
         /\ Len(revocations) > 0 /\ revocations[1].served => grants = {}

\* Somebody knows of the grant.
GrantKnown ==
    netFaults = 0 /\ grants # {} =>
        \/ \E i \in 1..Len(revocations) : ~revocations[i].served
        \/ reveal.pc = "granted" \/ (page.mounted /\ page.grantMay) \/ overtaken

PageGrantInv == QueueInv /\ GrantKnown

LEMMA Queued ==
    ASSUME ExplorerInv
    PROVE  /\ revocations \in Seq(Revocations) /\ Len(revocations) \in Nat /\ page \in Pages /\ netFaults \in Nat
           /\ page.pendingRevocations = Len(revocations) /\ DOMAIN revocations = 1..Len(revocations)
BY DEF ExplorerInv, ExplorerTypeOK, RevocationInv

LEMMA GrantFrame ==
    ASSUME PageGrantInv, UNCHANGED <<revocations, grants, overtaken>>, netFaults' = 0 => netFaults = 0,
           page'.mounted = page.mounted, page'.suppressed = page.suppressed, page.grantMay => page'.grantMay,
           Pending' => Pending, reveal.pc = "granted" => reveal'.pc = "granted"
    PROVE  PageGrantInv'
<1>1. QueueInv' BY DEF PageGrantInv, QueueInv
<1>2. GrantKnown' BY DEF PageGrantInv, GrantKnown
<1> QED BY <1>1, <1>2 DEF PageGrantInv

\* A revocation is queued.
LEMMA GrantAppend ==
    ASSUME ExplorerInv, PageGrantInv, NEW op \in Revocations, revocations' = Append(revocations, op),
           ~op.sent, ~op.served, grants' = grants, Pending' => Pending,
           page'.mounted => page.mounted /\ page'.suppressed /\ op.then # "none" /\ (~op.wait => ~Pending')
    PROVE  PageGrantInv'
<1>1. /\ Len(revocations) \in Nat /\ Len(revocations') = Len(revocations) + 1
      /\ revocations'[Len(revocations) + 1] = op
      /\ \A i \in 1..Len(revocations) : revocations'[i] = revocations[i]
  BY Queued
<1>2. \A i \in 1..Len(revocations') : i \in 1..Len(revocations) \/ (i = Len(revocations) + 1 /\ revocations'[i] = op)
  BY <1>1
<1>4. ASSUME page'.mounted
      PROVE  /\ \A i \in 1..Len(revocations') : revocations'[i].then # "none" /\ (~revocations'[i].wait => ~Pending')
             /\ Len(revocations') > 0 => page'.suppressed
             /\ Len(revocations') > 0 /\ revocations'[1].sent => ~Pending'
             /\ Len(revocations') > 0 /\ revocations'[1].served => grants' = {}
  <2>1. \A i \in 1..Len(revocations') : revocations'[i].then # "none" /\ (~revocations'[i].wait => ~Pending')
    BY <1>1, <1>2, <1>4 DEF PageGrantInv, QueueInv
  <2>2. CASE Len(revocations) > 0 BY <1>1, <2>2, <1>4, <2>1 DEF PageGrantInv, QueueInv
  <2>3. CASE Len(revocations) = 0 BY <1>1, <1>4, <2>1, <2>3
  <2> QED BY <1>1, <2>2, <2>3
<1>5. QueueInv' BY <1>1, <1>2, <1>4 DEF QueueInv, PageGrantInv
<1>6. GrantKnown' BY <1>1 DEF GrantKnown
<1> QED BY <1>5, <1>6 DEF PageGrantInv

LEMMA NewRevocation ==
    ASSUME NEW x \in Pages, NEW then \in {"select", "hide", "none"}, NEW t \in Names
    PROVE  /\ Revocation(x, then, t) \in Revocations /\ ~Revocation(x, then, t).sent
           /\ ~Revocation(x, then, t).served /\ Revocation(x, then, t).then = then
           /\ Pending => Revocation(x, then, t).wait
<1> QED BY RevocationRecord DEF Revocation, Pending

LEMMA RevocationAtOnce ==
    ASSUME NEW x \in Pages, NEW then \in {"select", "hide", "none"}, NEW t \in Names
    PROVE  LET r == [Revocation(x, then, t) EXCEPT !.wait = FALSE] IN
           r \in Revocations /\ ~r.sent /\ ~r.served /\ r.then = then
<1> QED BY RevocationRecord DEF Revocation

LEMMA SelectTargetGrant ==
    ASSUME ExplorerInv, PageGrantInv, NEW t \in DbTargets, SelectTarget(t) PROVE PageGrantInv'
<1> DEFINE c == Cleared(page)
           p == [c EXCEPT !.schemaGen = c.schemaGen + 1, !.schema = NoRelation, !.relation = NoRelation]
<1>1. /\ page.mounted /\ page' = Revoked(p) /\ revocations' = Append(revocations, Revocation(p, "select", t))
      /\ UNCHANGED <<reveal, grants>>
  BY DEF SelectTarget, Acts
<1>2. page \in Pages /\ t \in Names /\ NoRelation \in Names BY Queued DEF Names
<1>3. c \in Pages /\ c.suppressed /\ c.schemaGen + 1 \in Nat BY <1>2, ClearedPage DEF Pages
<1>4. p \in Pages /\ p.suppressed
  <2> HIDE DEF c
  <2> QED BY <1>2, <1>3 DEF Pages
<1> HIDE DEF p
<1>5. page'.suppressed BY <1>1, <1>4, RevokedPage
<1> DEFINE op == Revocation(p, "select", t)
<1>6. op \in Revocations /\ ~op.sent /\ ~op.served /\ op.then = "select" /\ (Pending => op.wait)
  BY <1>2, <1>4, NewRevocation
<1>7. revocations' = Append(revocations, op) BY <1>1
<1> HIDE DEF op
<1>8. (Pending' => Pending) /\ grants' = grants /\ page.mounted BY <1>1 DEF Pending
<1> QED BY <1>5, <1>6, <1>7, <1>8, GrantAppend

LEMMA HideGrant ==
    ASSUME ExplorerInv, PageGrantInv, Hide PROVE PageGrantInv'
<1> DEFINE p == Cleared(page)
<1>1. /\ page.mounted /\ page' = Revoked(p) /\ revocations' = Append(revocations, Revocation(p, "hide", p.target))
      /\ UNCHANGED <<reveal, grants>>
  BY DEF Hide, Acts
<1>2. p \in Pages /\ p.suppressed BY Queued, ClearedPage
<1> HIDE DEF p
<1>3. page'.suppressed /\ p.target \in Names BY <1>1, <1>2, RevokedPage DEF Pages
<1> DEFINE op == Revocation(p, "hide", p.target)
<1>4. op \in Revocations /\ ~op.sent /\ ~op.served /\ op.then = "hide" /\ (Pending => op.wait)
  BY <1>2, <1>3, NewRevocation
<1>5. revocations' = Append(revocations, op) BY <1>1
<1> HIDE DEF op
<1>6. (Pending' => Pending) /\ grants' = grants /\ page.mounted BY <1>1 DEF Pending
<1> QED BY <1>3, <1>4, <1>5, <1>6, GrantAppend

\* Leaving the page: a grant it knows of is revoked now, or by a revocation the
\* server has not handled yet.
LEMMA UnmountGrant ==
    ASSUME ExplorerInv, PageGrantInv, Unmount PROVE PageGrantInv'
<1> DEFINE pending == reveal.pc \in {"sent", "granted", "denied"}
           may == page.grantMay \/ page.active
           p == [page EXCEPT !.mounted = FALSE, !.privacyGen = @ + 1, !.rowsGen = @ + 1, !.relatedGen = @ + 1]
           q == [Cleared(p) EXCEPT !.revokeOnUnmount = pending]
<1>1. /\ \/ (~may \/ page.pendingRevocations > 0) /\ page' \in {p, q} /\ revocations' = revocations
         \/ page' = Revoked(q) /\ revocations' = Append(revocations, [Revocation(q, "none", q.target) EXCEPT !.wait = FALSE])
      /\ UNCHANGED <<reveal, grants, overtaken, netFaults>> /\ page.mounted
  BY DEF Unmount, Acts
<1>2. p \in Pages /\ ~p.mounted
  <2> DEFINE y == [[[page EXCEPT !.privacyGen = page.privacyGen + 1] EXCEPT !.rowsGen = page.rowsGen + 1]
                        EXCEPT !.relatedGen = page.relatedGen + 1]
  <2>1. y \in Pages BY Queued, BumpedPage
  <2>2. p = [y EXCEPT !.mounted = FALSE] OBVIOUS
  <2> HIDE DEF y, p
  <2> QED BY <2>1, <2>2 DEF Pages
<1>3. q \in Pages /\ ~q.mounted
  <2> HIDE DEF p
  <2>2. pending \in BOOLEAN OBVIOUS
  <2> HIDE DEF pending
  <2> QED BY <1>2, ClearedPage, <2>2 DEF Pages
<1> HIDE DEF p, q
<1>4. CASE (~may \/ page.pendingRevocations > 0) /\ page' \in {p, q} /\ revocations' = revocations
  <2>1. ~page'.mounted BY <1>2, <1>3, <1>4
  <2>2. QueueInv' BY <1>4, <2>1 DEF PageGrantInv, QueueInv
  <2>3. may /\ grants # {} => \E i \in 1..Len(revocations) : ~revocations[i].served
    <3>1. may => 1 \in 1..Len(revocations) BY <1>4, Queued
    <3> QED BY <1>1, <3>1 DEF PageGrantInv, QueueInv
  <2>4. GrantKnown' BY <1>1, <1>4, <2>3 DEF PageGrantInv, GrantKnown
  <2> QED BY <2>2, <2>4 DEF PageGrantInv
<1>5. CASE page' = Revoked(q) /\ revocations' = Append(revocations, [Revocation(q, "none", q.target) EXCEPT !.wait = FALSE])
  <2>1. ~page'.mounted /\ q.target \in Names BY <1>3, <1>5, RevokedPage DEF Pages
  <2>2. PICK op \in Revocations : op = [Revocation(q, "none", q.target) EXCEPT !.wait = FALSE] /\ ~op.sent /\ ~op.served
    BY <1>3, <2>1, RevocationAtOnce
  <2> QED BY <1>1, <1>5, <2>1, <2>2, GrantAppend DEF Pending
<1> QED BY <1>1, <1>4, <1>5

LEMMA RevealGrant ==
    ASSUME ExplorerInv, PageGrantInv, Reveal PROVE PageGrantInv'
<1>1. /\ reveal'.pc = "sent" /\ reveal.pc = "none" /\ page.mounted /\ ~page.suppressed
      /\ UNCHANGED <<page, revocations, grants, overtaken, netFaults>>
  BY DEF Reveal, Acts
<1>2. Len(revocations) = 0 BY <1>1, Queued DEF PageGrantInv, QueueInv
<1>3. QueueInv' BY <1>1, <1>2 DEF QueueInv
<1>4. GrantKnown' BY <1>1 DEF PageGrantInv, GrantKnown
<1> QED BY <1>3, <1>4 DEF PageGrantInv

LEMMA ServeGrant ==
    ASSUME ExplorerInv, PageGrantInv, NEW granted \in BOOLEAN, ServeReveal(granted) PROVE PageGrantInv'
<1>1. /\ reveal.pc = "sent" /\ UNCHANGED <<page, revocations, overtaken>> /\ (netFaults' = 0 => netFaults = 0)
      /\ granted => reveal'.pc = "granted"
      /\ ~granted => reveal'.pc = "denied" /\ grants' = grants
  BY Queued DEF ServeReveal, ExplorerInv, ExplorerTypeOK, PendingReveals
<1>2. Pending /\ Pending' BY <1>1 DEF Pending
<1>3. page.mounted /\ Len(revocations) > 0 => ~revocations[1].sent /\ ~revocations[1].served
  BY Queued, <1>2 DEF PageGrantInv, QueueInv
<1>4. QueueInv' BY <1>1, <1>2, <1>3 DEF PageGrantInv, QueueInv
<1>5. GrantKnown' BY <1>1 DEF PageGrantInv, GrantKnown
<1> QED BY <1>4, <1>5 DEF PageGrantInv

\* A page that was left revokes what the answer brings, unless it counts on a
\* revocation that is outstanding.
LEMMA AnsweredGrant ==
    ASSUME ExplorerInv, PageGrantInv, RevealAnswered PROVE PageGrantInv'
<1> DEFINE p == [page EXCEPT !.grantMay = TRUE, !.revokeOnUnmount = FALSE]
<1>1. page \in Pages /\ UNCHANGED <<grants, netFaults>> BY Queued DEF RevealAnswered
<1>2. CASE reveal.pc = "denied"
  BY <1>2, <1>1, GrantFrame DEF RevealAnswered, NoReveal, Pages, Pending
<1>3. CASE reveal.pc = "granted" /\ page.mounted /\ page.privacyGen = reveal.privacy
  <2>1. /\ reveal' = [reveal EXCEPT !.pc = "rows"] /\ page' = [page EXCEPT !.grantMay = TRUE, !.rowsGen = @ + 1]
        /\ UNCHANGED <<revocations, overtaken>>
    BY <1>3 DEF RevealAnswered
  <2>2. page'.mounted /\ page'.suppressed = page.suppressed /\ page'.grantMay BY <1>1, <1>3, <2>1 DEF Pages
  <2>3. ~Pending' BY <2>1 DEF Pending, ExplorerInv, ExplorerTypeOK, PendingReveals
  <2>4. QueueInv' BY <1>1, <1>3, <2>1, <2>2, <2>3 DEF PageGrantInv, QueueInv
  <2>5. GrantKnown' BY <2>2 DEF GrantKnown
  <2> QED BY <2>4, <2>5 DEF PageGrantInv
<1>4. CASE reveal.pc = "granted" /\ ~(page.mounted /\ page.privacyGen = reveal.privacy)
  <2>1. /\ reveal'.pc = "none"
        /\ overtaken' = (overtaken \/ (/\ ~page.mounted /\ page.pendingRevocations > 0
                                       /\ \A k \in DOMAIN revocations : revocations[k].served))
        /\ \/ /\ ~page.mounted /\ page' = Revoked(p)
              /\ revocations' = Append(revocations, [Revocation(p, "none", p.target) EXCEPT !.wait = FALSE])
           \/ /\ ~(~page.mounted /\ page.revokeOnUnmount /\ page.pendingRevocations = 0)
              /\ page' = p /\ revocations' = revocations
    BY <1>4 DEF RevealAnswered, NoReveal
  <2>2. p \in Pages /\ p.mounted = page.mounted /\ p.suppressed = page.suppressed /\ p.grantMay BY <1>1 DEF Pages
  <2> HIDE DEF p
  <2>3. ~Pending' BY <2>1 DEF Pending
  <2>4. CASE /\ ~page.mounted /\ page' = Revoked(p)
             /\ revocations' = Append(revocations, [Revocation(p, "none", p.target) EXCEPT !.wait = FALSE])
    <3>1. ~page'.mounted /\ p.target \in Names BY <2>2, <2>4, RevokedPage DEF Pages
    <3>2. PICK op \in Revocations : op = [Revocation(p, "none", p.target) EXCEPT !.wait = FALSE] /\ ~op.sent /\ ~op.served
      BY <2>2, <3>1, RevocationAtOnce
    <3> QED BY <1>1, <2>3, <2>4, <3>1, <3>2, GrantAppend
  <2>5. CASE /\ ~(~page.mounted /\ page.revokeOnUnmount /\ page.pendingRevocations = 0)
             /\ page' = p /\ revocations' = revocations
    <3>1. QueueInv' BY <1>1, <2>2, <2>3, <2>5 DEF PageGrantInv, QueueInv
    <3>2. ~page.mounted => page.pendingRevocations > 0
      <4>1. ~page.mounted => page.revokeOnUnmount BY <1>4 DEF ExplorerInv, AnswerRevokes, Pending
      <4> QED BY <4>1, <2>5, Queued
    <3>4. GrantKnown' BY <2>1, <2>2, <2>5, <3>2, Queued DEF GrantKnown
    <3> QED BY <3>1, <3>4 DEF PageGrantInv
  <2> QED BY <2>1, <2>4, <2>5
<1> QED BY <1>2, <1>3, <1>4 DEF RevealAnswered

LEMMA RevealRowsGrant ==
    ASSUME ExplorerInv, PageGrantInv, NEW q \in requests, NEW ok \in BOOLEAN, RevealRows(q, ok) PROVE PageGrantInv'
<1> DEFINE p == Cleared(page)
           op == [Revocation(p, "hide", p.target) EXCEPT !.wait = FALSE]
<1>1. q.kind = "reveal" /\ reveal'.pc = "none" /\ UNCHANGED <<grants, overtaken>> /\ (netFaults' = 0 => netFaults = 0)
  BY Queued DEF RevealRows, NoReveal
<1>2. reveal.pc = "rows" /\ ~Pending' BY <1>1 DEF ExplorerInv, OneReveal, Pending
<1>4. CASE page' \in {page, [page EXCEPT !.active = TRUE]} /\ revocations' = revocations
  BY <1>4, Queued, <1>1, <1>2, GrantFrame DEF Pages
<1>5. CASE page.mounted /\ page' = Revoked(p) /\ revocations' = Append(revocations, op)
  <2>1. p \in Pages /\ p.suppressed BY Queued, ClearedPage
  <2> HIDE DEF p
  <2>2. page'.suppressed /\ p.target \in Names BY <1>5, <2>1, RevokedPage DEF Pages
  <2>3. op \in Revocations /\ ~op.sent /\ ~op.served /\ op.then = "hide" BY <2>1, <2>2, RevocationAtOnce
  <2> HIDE DEF op
  <2> QED BY <1>1, <1>2, <1>5, <2>2, <2>3, GrantAppend
<1> QED BY <1>4, <1>5 DEF RevealRows

\* The head of the queue is sent, or handled by the server.
LEMMA SendGrant ==
    ASSUME ExplorerInv, PageGrantInv, SendRevocation \/ ServeRevocation PROVE PageGrantInv'
<1>1. /\ 1 \in 1..Len(revocations) /\ UNCHANGED <<page, reveal, overtaken, netFaults>>
      /\ \/ /\ revocations[1].wait => ~Pending
            /\ revocations' = [revocations EXCEPT ![1].sent = TRUE] /\ grants' = grants
         \/ /\ revocations[1].sent /\ revocations' = [revocations EXCEPT ![1].served = TRUE] /\ grants' = {}
  BY Queued DEF SendRevocation, ServeRevocation, Pending
<1>2. /\ Len(revocations') = Len(revocations) /\ revocations[1] \in Revocations
      /\ \A i \in 1..Len(revocations) : i # 1 => revocations'[i] = revocations[i]
  BY <1>1, Queued
<1>3. /\ revocations'[1].wait = revocations[1].wait /\ revocations'[1].then = revocations[1].then /\ revocations'[1].sent
      /\ revocations'[1].served = revocations[1].served \/ grants' = {}
  BY <1>1, <1>2, Queued DEF Revocations
<1>4. page.mounted => ~Pending BY <1>1, Queued DEF PageGrantInv, QueueInv
<1>5. \A i \in 1..Len(revocations) : i = 1 \/ i > 1 BY Queued
<1>6. QueueInv' BY <1>2, <1>3, <1>5, Queued, <1>1, <1>4 DEF PageGrantInv, QueueInv, Pending
<1>7. GrantKnown' BY <1>1, <1>2, <1>3 DEF PageGrantInv, GrantKnown
<1> QED BY <1>6, <1>7 DEF PageGrantInv

\* The head of the queue is answered: a page that is still there has no grant
\* left, and goes on only if the queue is empty.
LEMMA SettledGrant ==
    ASSUME ExplorerInv, PageGrantInv, RevocationDone \/ RevocationFailed PROVE PageGrantInv'
<1> DEFINE op == Head(revocations)
           p == [page EXCEPT !.grantMay = FALSE, !.pendingRevocations = @ - 1]
<1>1. revocations # <<>> /\ revocations' = Tail(revocations) /\ UNCHANGED <<reveal, grants, overtaken>>
  BY DEF RevocationDone, RevocationFailed
<1>2. /\ 1 \in 1..Len(revocations) /\ op = revocations[1] /\ Len(revocations') = Len(revocations) - 1
      /\ \A i \in 1..Len(revocations') : i + 1 \in 1..Len(revocations) /\ revocations'[i] = revocations[i + 1] /\ i + 1 > 1
  BY <1>1, Queued, Dropped
<1>3. /\ page'.mounted = page.mounted
      /\ RevocationFailed => page'.suppressed = page.suppressed
      /\ RevocationDone => \/ page'.suppressed = page.suppressed
                           \/ op.privacy = page.privacyGen /\ op.then # "none"
  <2>1. CASE RevocationFailed BY <2>1, Queued DEF RevocationFailed, Pages
  <2>2. CASE RevocationDone
    <3> DEFINE free == [p EXCEPT !.suppressed = FALSE]
    <3>1. \/ page' = p
          \/ /\ op.privacy = page.privacyGen /\ op.then # "none"
             /\ page' \in {[free EXCEPT !.target = op.target, !.schemaGen = @ + 1], free, [free EXCEPT !.rowsGen = @ + 1]}
      BY <2>2 DEF RevocationDone
    <3>2. /\ p.mounted = page.mounted /\ p.suppressed = page.suppressed
          /\ [free EXCEPT !.target = op.target, !.schemaGen = @ + 1].mounted = page.mounted
          /\ free.mounted = page.mounted /\ [free EXCEPT !.rowsGen = @ + 1].mounted = page.mounted
      BY Queued DEF Pages
    <3> HIDE DEF p, free
    <3>3. page'.mounted = page.mounted /\ (page'.suppressed = page.suppressed \/ (op.privacy = page.privacyGen /\ op.then # "none"))
      BY <3>1, <3>2
    <3>4. ~RevocationFailed \/ page'.suppressed = page.suppressed
      BY Queued DEF RevocationFailed, Pages
    <3> QED BY <3>3, <3>4
  <2> QED BY <2>1, <2>2
<1> HIDE DEF op, p
<1>4. page.mounted /\ op.privacy = page.privacyGen => Len(revocations') = 0
  <2> SUFFICES ASSUME page.mounted, op.privacy = page.privacyGen, Len(revocations') # 0 PROVE FALSE OBVIOUS
  <2>1. Len(revocations') \in Nat /\ 2 \in 1..Len(revocations) BY <1>2, Queued
  <2>2. revocations[1].then # "none" /\ revocations[2].then # "none" BY <1>2, <2>1 DEF PageGrantInv, QueueInv
  <2>4. page.privacyGen \in Nat /\ revocations[1].privacy \in Nat /\ revocations[2].privacy \in Nat
    <3>1. revocations[1] \in Revocations /\ revocations[2] \in Revocations BY <1>2, <2>1, Queued
    <3>2. page \in Pages BY Queued
    <3> QED BY ONLY <3>1, <3>2 DEF Pages, Revocations
  <2> QED BY <1>2, <2>1, <2>2, <2>4 DEF ExplorerInv, RevocationInv
<1>5. QueueInv' BY <1>2, Queued, <1>3, <1>4, <1>1 DEF PageGrantInv, QueueInv, Pending
<1>6. GrantKnown'
  <2>1. CASE RevocationFailed
    <3>1. netFaults' # 0 BY <2>1, Queued DEF RevocationFailed
    <3> QED BY <3>1 DEF GrantKnown
  <2>2. CASE RevocationDone
    <3>1. revocations[1].served /\ netFaults' = netFaults BY <1>2, <2>2 DEF RevocationDone, op
    <3>3. ASSUME NEW i \in 1..Len(revocations), ~revocations[i].served
          PROVE  \E j \in 1..Len(revocations') : ~revocations'[j].served
      <4>1. i - 1 \in 1..Len(revocations') BY <1>2, <3>1, <3>3, Queued
      <4>2. revocations'[i - 1] = revocations[i] BY <1>2, <4>1
      <4> QED BY <3>3, <4>1, <4>2
    <3> QED BY <1>1, <3>1, <1>2, Queued, <3>3 DEF PageGrantInv, GrantKnown, QueueInv
  <2> QED BY <2>1, <2>2
<1> QED BY <1>5, <1>6 DEF PageGrantInv

\* The steps that only change what is asked for and shown.
LEMMA ScreenGrant ==
    ASSUME ExplorerInv, PageGrantInv,
           \/ \E r \in DbRelations : SelectRelation(r)
           \/ ChangeQuery \/ FollowRelation \/ CloseDrawer
           \/ \E q \in requests : SchemaArrives(q) \/ RowsArrive(q) \/ RelatedArrive(q) \/ RequestFailed(q)
    PROVE  PageGrantInv'
<1>1. UNCHANGED <<reveal, revocations, grants, overtaken>> /\ (netFaults' = 0 => netFaults = 0)
  <2>1. CASE \E r \in DbRelations : SelectRelation(r) BY <2>1 DEF SelectRelation
  <2>2. CASE ChangeQuery \/ FollowRelation \/ CloseDrawer BY <2>2 DEF ChangeQuery, FollowRelation, CloseDrawer
  <2>3. CASE \E q \in requests : SchemaArrives(q) \/ RowsArrive(q) \/ RelatedArrive(q)
    BY <2>3 DEF SchemaArrives, RowsArrive, RelatedArrive
  <2>4. CASE \E q \in requests : RequestFailed(q) BY <2>4, Queued DEF RequestFailed
  <2> QED BY <2>1, <2>2, <2>3, <2>4
<1>2. page'.mounted = page.mounted /\ page'.suppressed = page.suppressed /\ page'.grantMay = page.grantMay
  <2>1. page \in Pages BY Queued
  <2>2. CASE \E r \in DbRelations : SelectRelation(r)
    <3>1. PICK r \in DbRelations : SelectRelation(r) BY <2>2
    <3> DEFINE x == [page EXCEPT !.rowsGen = @ + 1, !.relatedGen = @ + 1, !.relation = r]
    <3> QED BY <2>1, <3>1 DEF Pages, SelectRelation, LoadRows
  <2>3. CASE ChangeQuery \/ FollowRelation \/ CloseDrawer
    BY <2>3, <2>1 DEF ChangeQuery, LoadRows, FollowRelation, CloseDrawer, Pages
  <2>4. ASSUME NEW q \in requests, SchemaArrives(q) \/ RowsArrive(q) \/ RelatedArrive(q) \/ RequestFailed(q)
        PROVE  page'.mounted = page.mounted /\ page'.suppressed = page.suppressed /\ page'.grantMay = page.grantMay
    <3> DEFINE x == [page EXCEPT !.schema = q.target, !.relation = FirstRelation]
    <3> QED BY <2>1, <2>4 DEF Pages, SchemaArrives, RowsArrive, RelatedArrive, RequestFailed
  <2> QED BY <2>2, <2>3, <2>4
<1> QED BY <1>1, <1>2, GrantFrame DEF Pending

\* Whatever order the answers arrive in and whatever fails, the screen shows
\* what is selected, masked unless the page says otherwise and nothing while a
\* revocation is outstanding; and, while no request fails, a grant is revealed,
\* about to be revoked, or remembered, unless a page that was left took the
\* answer of a reveal for covered by a revocation handled before it.
THEOREM PageConsistent == ExplorerSpec => []PageIsConsistent
<1>1. ExplorerInv /\ [ExplorerNext]_explorerVars => ExplorerInv'
  <2> SUFFICES ASSUME ExplorerInv, [ExplorerNext]_explorerVars PROVE ExplorerInv' OBVIOUS
  <2>1. CASE UNCHANGED explorerVars
    BY <2>1, PageStays DEF explorerVars, pageState, ExplorerInv, ExplorerTypeOK, RevealInv,
      AnswerRevokes, Pending, OneReveal, Quiet
  <2>2. CASE FollowRelation BY <2>2, DrawerKeeps DEF FollowRelation, ExplorerInv, ShownInv
  <2>3. CASE CloseDrawer BY <2>3, DrawerKeeps DEF CloseDrawer, NoDrawer
  <2> QED BY <2>1, <2>2, <2>3, SelectRelationKeeps, SelectTargetKeeps, ChangeQueryKeeps, HideKeeps, RevealKeeps,
    UnmountKeeps, ServeKeeps, AnsweredKeeps, SendKeepsPage, DoneKeeps, FailedKeeps, SchemaArrivesKeeps,
    RowsArriveKeeps, RelatedArriveKeeps, RequestFailedKeeps, RevealRowsKeeps DEF ExplorerNext
<1>2. ExplorerInv /\ PageGrantInv => PageIsConsistent
  BY Queued DEF ExplorerInv, ShownInv, Quiet, ShownIsSelected, MaskedUnlessActive, PageGrantInv,
    GrantKnown, GrantIsRemembered, PageIsConsistent
<1>3. ExplorerInit => PageGrantInv BY DEF ExplorerInit, PageGrantInv, QueueInv, GrantKnown
<1>4. ExplorerInv /\ PageGrantInv /\ [ExplorerNext]_explorerVars => PageGrantInv'
  <2> SUFFICES ASSUME ExplorerInv, PageGrantInv, [ExplorerNext]_explorerVars PROVE PageGrantInv' OBVIOUS
  <2>1. CASE UNCHANGED explorerVars BY <2>1, GrantFrame DEF explorerVars, pageState, Pending
  <2> QED BY <2>1, SelectTargetGrant, HideGrant, UnmountGrant, RevealGrant, ServeGrant, AnsweredGrant,
    RevealRowsGrant, SendGrant, SettledGrant, ScreenGrant DEF ExplorerNext
<1> QED BY ExplorerInitially, <1>1, <1>2, <1>3, <1>4, PTL DEF ExplorerSpec

\* Rows of the explored databases are shown only as the page and the audit
\* ledger say, for any databases, requests, answers in any order and failures.
THEOREM ExplorerSafe == ExplorerSpec /\ PiiSpec /\ SchemaSpec => []ExplorerIsSafe
<1>1. PageIsConsistent /\ PiiIsGuarded /\ SchemaViewsAreAudited => ExplorerIsSafe BY DEF ExplorerIsSafe
<1> QED BY <1>1, PageConsistent, PiiGuarded, SchemaAudited, PTL

(* The inductive invariant: the types and, for each promise, what the
   steps in flight know. *)
NewOrEnded    == {[pc |-> "new"], Ended}
Session    == [user : Users, by : Logins \cup {First}]
Elevation  == [proof : Proofs \cup {First}, session : Session]
Account    == [role : Roles, status : Statuses, factors : SUBSET (Enrolments \cup {First}),
               password : BOOLEAN, blocked : BOOLEAN]
Attempt    == [pc : {"challenge", "failed", "count", "totp", "consume"}, user : Users]
Visit      == [pc : {"verify", "activate"}, user : Users]
Request    == [pc : {"actor", "target", "consume", "locked", "mutate"}, op : Operations,
               actor : Users, target : Users, to : Roles, grant : Elevation]

AccountsTypeOK ==
    /\ account \in [Users -> Account]
    /\ failures \in [Users -> Nat]
    /\ sessions \subseteq Session
    /\ challenges \subseteq Logins
    /\ tokens \subseteq Users
    /\ elevations \subseteq Elevation /\ stored \subseteq Elevation
    /\ change \in [AccountRequests -> NewOrEnded \cup Request]
    /\ login \in [Logins -> NewOrEnded \cup Attempt]
    /\ enrolment \in [Enrolments -> NewOrEnded \cup Visit]
    /\ proof \in [Proofs -> NewOrEnded]

\* A login that goes for its session has an active user, or a challenge that was
\* revoked meanwhile.
ConsumesOfActive ==
    \A l \in Logins : login[l].pc = "consume" /\ l \in challenges => StatusOf(login[l].user) = "active"

\* A link in use belongs to a pending account; an active one has one factor.
TokensOfPending == \A u \in tokens : StatusOf(u) = "pending_mfa"
OneFactor == \A u \in Users : StatusOf(u) = "active" => \E f \in account[u].factors : account[u].factors = {f}

\* The elevation of a change past its consumption is used up for good: a
\* step-up that is still to come makes another one.
Spent(r) == change[r].pc \in {"locked", "mutate"}
Made(g) == g.proof = First \/ (g.proof \in Proofs /\ proof[g.proof].pc = "end")
ElevationsAreMade ==
    /\ \A g \in elevations \cup stored : Made(g)
    /\ \A r \in AccountRequests : change[r].pc \notin {"new", "end"} => Made(change[r].grant)
SpentIsGone == \A r \in AccountRequests : Spent(r) => change[r].grant \notin elevations

AccountsInv ==
    /\ AccountsTypeOK
    /\ OwnerRemains /\ LockedOut /\ ConsumesOfActive
    /\ TokensOfPending /\ OneFactor
    /\ ElevationsAreMade /\ SpentIsGone /\ GrantUsedOnce
    /\ FailuresBlock

-----
(* The initial states. *)
\* Callers that will come, and the others, have their first record.
LEMMA ArrivingType == \A callers, n : Arriving(callers, n) \in [callers -> NewOrEnded]
  BY DEF Arriving, NewOrEnded

\* The invariant holds before the first request.
LEMMA AccountsInitial == AccountsInit => AccountsInv
<1> SUFFICES ASSUME AccountsInit PROVE AccountsInv OBVIOUS
<1> USE AccountsAssumption
<1>1. /\ change \in [AccountRequests -> NewOrEnded] /\ login \in [Logins -> NewOrEnded]
      /\ enrolment \in [Enrolments -> NewOrEnded] /\ proof \in [Proofs -> NewOrEnded]
  BY ArrivingType DEF AccountsInit
<1>2. sessions \subseteq Session /\ elevations \subseteq Elevation /\ stored = elevations
  BY DEF AccountsInit, Session, Elevation, OwnSession
<1>3. account \in [Users -> Account] BY DEF AccountsInit, Account, Roles, Statuses
<1>4. AccountsTypeOK BY <1>1, <1>2, <1>3 DEF AccountsInit, AccountsTypeOK
<1>5. OwnerRemains /\ LockedOut BY DEF AccountsInit, OwnerRemains, LockedOut, ActiveOwners, StatusOf, OwnSession
<1>8. \A g \in elevations \cup stored : g.proof = First BY DEF AccountsInit
<1>9. ElevationsAreMade /\ SpentIsGone /\ GrantUsedOnce
  BY <1>1, <1>8 DEF ElevationsAreMade, Made, SpentIsGone, Spent, GrantUsedOnce, NewOrEnded, Ended
<1>10. FailuresBlock BY DEF AccountsInit, FailuresBlock
<1> QED
  BY <1>4, <1>5, <1>9, <1>10 DEF AccountsInv, AccountsInit, TokensOfPending, OneFactor,
    ConsumesOfActive, StatusOf

(* The steps.  Each group of promises is kept by every step that leaves
   the variables it is about alone; the steps that do not are the cases. *)
accountState == <<account, failures, sessions, challenges, tokens>>

\* The promises about accounts, sessions and enrolment.
AccountPart ==
    OwnerRemains /\ LockedOut /\ ConsumesOfActive /\ TokensOfPending /\ OneFactor /\ FailuresBlock
\* The promises about elevations.
GrantPart == ElevationsAreMade /\ SpentIsGone /\ GrantUsedOnce

\* A step that touches neither accounts nor logins keeps the promises about them.
LEMMA AccountPartKept ==
    ASSUME AccountsInv, UNCHANGED <<accountState, login>> PROVE AccountPart'
  BY DEF AccountsInv, AccountPart, accountState, OwnerRemains, ActiveOwners, LockedOut, ConsumesOfActive,
    TokensOfPending, OneFactor, FailuresBlock, StatusOf

\* A step that at most ends elevations keeps the promises about them.
LEMMA GrantPartKept ==
    ASSUME AccountsInv, elevations' \subseteq elevations, UNCHANGED <<stored, change, proof>>
    PROVE  GrantPart'
  BY DEF AccountsInv, GrantPart, ElevationsAreMade, Made, SpentIsGone, Spent, GrantUsedOnce

\* An owner remains when one of several active owners is taken away.
LEMMA AnotherOwner ==
    ASSUME NEW S \in SUBSET Users, NEW x \in S, ~(Cardinality(S) <= 1)
    PROVE  S \ {x} # {}
<1>1. Cardinality({x}) = 1 BY FS_Singleton
<1>2. S # {x} BY <1>1
<1> QED BY <1>2

\* Types.
LEMMA AccountsTypes == AccountsInv /\ [AccountsNext]_accountVars => AccountsTypeOK'
<1> SUFFICES ASSUME AccountsInv, [AccountsNext]_accountVars PROVE AccountsTypeOK' OBVIOUS
<1> USE DEF AccountsInv, AccountsTypeOK
<1>0. CASE UNCHANGED accountVars BY <1>0 DEF accountVars
<1>1. ASSUME NEW l \in Logins, NEW u \in Users, BeginLogin(l, u) PROVE AccountsTypeOK'
  BY <1>1 DEF BeginLogin, Attempt
<1>2. ASSUME NEW l \in Logins, login[l] \in Attempt, NEW p \in {"challenge", "failed", "count", "totp", "consume"}
      PROVE  [login EXCEPT ![l].pc = p] \in [Logins -> NewOrEnded \cup Attempt]
  BY <1>2 DEF Attempt
<1>3. ASSUME NEW l \in Logins, login[l].pc \in {"challenge", "failed", "count", "totp", "consume"}
      PROVE  login[l] \in Attempt
  BY <1>3 DEF NewOrEnded, Ended
<1>4. Ended \in NewOrEnded BY DEF NewOrEnded
<1>5. ASSUME NEW l \in Logins, CreateMfaChallenge(l) PROVE AccountsTypeOK' BY <1>2, <1>3, <1>5 DEF CreateMfaChallenge
<1>6. ASSUME NEW l \in Logins, CompleteTotpLogin(l) PROVE AccountsTypeOK'
  <2>1. login' \in [Logins -> NewOrEnded \cup Attempt] BY <1>3, <1>4, <1>6 DEF CompleteTotpLogin, Attempt
  <2> QED BY <1>6, <2>1 DEF CompleteTotpLogin
<1>7. ASSUME NEW l \in Logins, ConsumeMfaChallenge(l) PROVE AccountsTypeOK'
  <2>1. login[l].user \in Users BY <1>3, <1>7 DEF ConsumeMfaChallenge, Attempt
  <2> QED BY <1>4, <1>7, <2>1 DEF ConsumeMfaChallenge, Session
<1>8. ASSUME NEW l \in Logins, RecordFailure(l) PROVE AccountsTypeOK'
  <2>1. login[l].user \in Users /\ login' \in [Logins -> NewOrEnded \cup Attempt]
    BY <1>2, <1>3, <1>8 DEF RecordFailure, Attempt
  <2>2. failures' \in [Users -> Nat] BY <1>8, <2>1 DEF RecordFailure
  <2> QED BY <1>8, <2>1, <2>2 DEF RecordFailure
<1>9. ASSUME NEW l \in Logins, BlockUser(l) PROVE AccountsTypeOK'
  <2>1. login[l].user \in Users /\ login' \in [Logins -> NewOrEnded \cup Attempt]
    BY <1>3, <1>4, <1>9 DEF BlockUser, Attempt
  <2> DEFINE b == \/ account[login[l].user].blocked
                  \/ (StatusOf(login[l].user) = "active" /\ failures[login[l].user] >= FailureLimit)
  <2>2. account' \in [Users -> Account]
    <3>1. b \in BOOLEAN /\ account' = [account EXCEPT ![login[l].user].blocked = b]
      BY <1>9, <2>1 DEF BlockUser, Account
    <3> HIDE DEF b
    <3>2. [account[login[l].user] EXCEPT !.blocked = b] \in Account BY <2>1, <3>1 DEF Account
    <3> QED BY <2>1, <3>1, <3>2
  <2> QED BY <1>9, <2>1, <2>2 DEF BlockUser
<1>10. ASSUME NEW s \in sessions, Logout(s) PROVE AccountsTypeOK' BY <1>10 DEF Logout
<1>11. ASSUME NEW u \in Users, FailuresAge(u) \/ TokenExpires(u) PROVE AccountsTypeOK'
  BY <1>11 DEF FailuresAge, TokenExpires
<1>12. ASSUME NEW u \in Users, BlockEnds(u) PROVE AccountsTypeOK'
  <2>1. account' \in [Users -> Account] BY <1>12 DEF BlockEnds, Account
  <2> QED BY <1>12, <2>1 DEF BlockEnds
<1>13. ASSUME NEW p \in Proofs, NEW s \in sessions, GrantAccountsWrite(p, s) PROVE AccountsTypeOK'
  <2>1. [proof |-> p, session |-> s] \in Elevation BY DEF Elevation
  <2> QED BY <1>4, <1>13, <2>1 DEF GrantAccountsWrite
<1>14. ASSUME NEW g \in elevations, GrantExpires(g) PROVE AccountsTypeOK' BY <1>14 DEF GrantExpires
<1>15. ASSUME NEW r \in AccountRequests, change[r].pc \in {"actor", "target", "consume", "locked", "mutate"}
       PROVE  change[r] \in Request
  BY <1>15 DEF NewOrEnded, Ended
<1>16. ASSUME NEW r \in AccountRequests, change[r] \in Request,
              NEW p \in {"actor", "target", "consume", "locked", "mutate"}
       PROVE  [change[r] EXCEPT !.pc = p] \in Request
  BY <1>16 DEF Request
<1>17. ASSUME NEW r \in AccountRequests, NEW s \in sessions, NEW op \in Operations, NEW u \in Users, NEW to \in Roles,
              AcceptChange(r, s, op, u, to)
       PROVE  AccountsTypeOK' BY <1>17 DEF AcceptChange, StepUpBindings, Session, Request
<1>18. ASSUME NEW r \in AccountRequests, AuthorizeOwner(r) \/ ReadTarget(r) \/ ConsumeGrant(r) \/ ReadLocked(r)
       PROVE  AccountsTypeOK'
  BY <1>15, <1>18, <1>4, <1>16 DEF AuthorizeOwner, ReadTarget, ConsumeGrant, ReadLocked
<1>19. ASSUME NEW r \in AccountRequests, Mutate(r) PROVE AccountsTypeOK'
  <2>1. change[r].target \in Users /\ change[r].to \in Roles BY <1>15, <1>19 DEF Mutate, Request
  <2>2. account' \in [Users -> Account]
    <3> DEFINE t == change[r].target
    <3>0. ASSUME NEW a \in Account, account' = [account EXCEPT ![t] = a] PROVE account' \in [Users -> Account]
      BY <2>1, <3>0
    <3>a. ASSUME NEW role \in Roles, NEW next \in Statuses, NEW blocked \in BOOLEAN
          PROVE  /\ [account[t] EXCEPT !.status = next, !.role = role] \in Account
                 /\ [account[t] EXCEPT !.status = next, !.blocked = blocked] \in Account
                 /\ [account[t] EXCEPT !.status = next] \in Account
                 /\ [account[t] EXCEPT !.role = role] \in Account
      BY <2>1, <3>a DEF Account
    <3>b. {"pending_mfa", "locked", "revoked"} \subseteq Statuses BY DEF Statuses
    <3>1. CASE CreatePending(change[r]) BY <2>1, <3>1, <3>0, <3>a, <3>b DEF CreatePending
    <3>2. CASE ChangeRole(change[r]) BY <2>1, <3>2, <3>0, <3>a, <3>b DEF ChangeRole
    <3>3. CASE Lock(change[r]) BY <2>1, <3>3, <3>0, <3>a, <3>b DEF Lock
    <3>4. CASE Recover(change[r]) BY <2>1, <3>4, <3>0, <3>a, <3>b DEF Recover
    <3>5. CASE Revoke(change[r]) BY <2>1, <3>5, <3>0, <3>a, <3>b DEF Revoke
    <3> QED BY <1>19, <3>1, <3>2, <3>3, <3>4, <3>5 DEF Mutate, Mutation
  <2> QED
    BY <1>4, <1>19, <2>1, <2>2 DEF Mutate, Mutation, CreatePending, ChangeRole, Lock, Recover,
      Revoke, RevokeAccess
<1>20. ASSUME NEW e \in Enrolments, enrolment[e].pc \in {"verify", "activate"} PROVE enrolment[e] \in Visit
  BY <1>20 DEF NewOrEnded, Ended
<1>21. ASSUME NEW e \in Enrolments, NEW u \in Users, StartEnrolment(e, u) PROVE AccountsTypeOK'
  BY <1>21 DEF StartEnrolment, Account, Visit
<1>22. ASSUME NEW e \in Enrolments, VerifyEnrolment(e) PROVE AccountsTypeOK'
  <2>1. enrolment' \in [Enrolments -> NewOrEnded \cup Visit] BY <1>4, <1>20, <1>22 DEF VerifyEnrolment, Visit
  <2> QED BY <1>22, <2>1 DEF VerifyEnrolment
<1>23. ASSUME NEW e \in Enrolments, Activate(e) PROVE AccountsTypeOK'
  <2>1. enrolment[e].user \in Users /\ enrolment' \in [Enrolments -> NewOrEnded \cup Visit]
    BY <1>4, <1>20, <1>23 DEF Activate, Visit
  <2>2. account' \in [Users -> Account]
    <3> DEFINE u == enrolment[e].user
               pending == StatusOf(u) = "pending_mfa"
    <3>1. CASE account' = account BY <3>1
    <3>2. CASE account' = [account EXCEPT ![u].factors = {e}, ![u].password = pending,
                                          ![u].status = IF @ = "pending_mfa" THEN "active" ELSE @]
      <4>1. pending \in BOOLEAN OBVIOUS
      <4> HIDE DEF pending
      <4> QED BY <2>1, <3>2, <4>1 DEF Account, Statuses
    <3> QED BY <1>23, <3>1, <3>2 DEF Activate
  <2> QED BY <1>23, <2>1, <2>2 DEF Activate
<1> QED
  BY <1>0, <1>1, <1>5, <1>6, <1>7, <1>8, <1>9, <1>10, <1>11, <1>12, <1>13, <1>14, <1>17, <1>18, <1>19,
     <1>21, <1>22, <1>23
     DEF AccountsNext, PostLogin, PostLoginTotp, PostBootstrapStart, PostBootstrapVerify

\* Elevations: only a step-up makes one, only a change uses it up.
LEMMA GrantSteps == AccountsInv /\ [AccountsNext]_accountVars => GrantPart'
<1> SUFFICES ASSUME AccountsInv, [AccountsNext]_accountVars PROVE GrantPart' OBVIOUS
<1>1. CASE elevations' \subseteq elevations /\ UNCHANGED <<stored, change, proof>> BY <1>1, GrantPartKept
<1>2. ASSUME NEW p \in Proofs, NEW s \in sessions, GrantAccountsWrite(p, s) PROVE GrantPart'
  <2> DEFINE g == [proof |-> p, session |-> s]
  <2>1. /\ elevations' \subseteq elevations \cup {g} /\ stored' \subseteq stored \cup {g} /\ change' = change
        /\ proof[p].pc = "new" /\ proof' = [proof EXCEPT ![p] = Ended]
    BY <1>2 DEF GrantAccountsWrite
  <2>3. Made(g)' BY <2>1 DEF AccountsInv, AccountsTypeOK, Ended, Made
  <2>4. \A h : Made(h) => Made(h)' /\ h # g
    BY <2>1, AccountsAssumption DEF Made, AccountsInv, AccountsTypeOK, Ended
  <2> QED BY <2>1, <2>3, <2>4 DEF AccountsInv, GrantPart, ElevationsAreMade, SpentIsGone, Spent, GrantUsedOnce
                                , AccountsTypeOK, NewOrEnded, Request, Ended
<1>3. ASSUME NEW r \in AccountRequests, UNCHANGED <<stored, proof>>, elevations' \subseteq elevations,
             NEW c, change' = [change EXCEPT ![r] = c],
             c.pc \notin {"new", "end"} => Made(c.grant),
             c.pc \in {"locked", "mutate"} =>
               /\ c.grant \notin elevations'
               /\ \A q \in AccountRequests : q # r /\ Spent(q) => change[q].grant # c.grant
      PROVE  GrantPart'
  BY <1>3 DEF AccountsInv, AccountsTypeOK, ElevationsAreMade, Made, SpentIsGone, Spent,
    GrantUsedOnce, GrantPart
<1>4. ASSUME NEW r \in AccountRequests, NEW s \in sessions, NEW op \in Operations, NEW u \in Users, NEW to \in Roles,
             AcceptChange(r, s, op, u, to)
      PROVE  GrantPart'
  <2>1. PICK b \in StepUpBindings(s) :
          change' = [change EXCEPT ![r] =
              [pc |-> IF op \in {"create", "recover"} THEN "actor" ELSE "target",
               op |-> op, actor |-> s.user, target |-> u, to |-> to, grant |-> b]]
    BY <1>4 DEF AcceptChange
  <2>2. Made(b) /\ UNCHANGED <<elevations, stored, proof>>
    BY <1>4 DEF AcceptChange, StepUpBindings, AccountsInv, ElevationsAreMade
  <2> DEFINE c == [pc |-> IF op \in {"create", "recover"} THEN "actor" ELSE "target",
                   op |-> op, actor |-> s.user, target |-> u, to |-> to, grant |-> b]
  <2>3. c.pc \in {"actor", "target"} /\ c.grant = b /\ change' = [change EXCEPT ![r] = c] BY <2>1
  <2> HIDE DEF c
  <2> QED BY <1>3, <2>2, <2>3
<1>5. ASSUME NEW r \in AccountRequests, AuthorizeOwner(r) \/ ReadTarget(r) PROVE GrantPart'
  <2>1. /\ change' = [change EXCEPT ![r] = Ended] \/ change' = [change EXCEPT ![r] = [change[r] EXCEPT !.pc = "consume"]]
        /\ Made(change[r].grant) /\ UNCHANGED <<elevations, stored, proof>>
    BY <1>5 DEF AuthorizeOwner, ReadTarget, AccountsInv, AccountsTypeOK, ElevationsAreMade
  <2>2. CASE change' = [change EXCEPT ![r] = Ended] BY <1>3, <2>1, <2>2 DEF Ended
  <2>3. CASE change' = [change EXCEPT ![r] = [change[r] EXCEPT !.pc = "consume"]]
    <3> DEFINE c == [change[r] EXCEPT !.pc = "consume"]
    <3>1. c.pc = "consume" /\ c.grant = change[r].grant
      BY <1>5 DEF AuthorizeOwner, ReadTarget, AccountsInv, AccountsTypeOK, NewOrEnded, Request, Ended
    <3> HIDE DEF c
    <3> QED BY <1>3, <2>1, <2>3, <3>1 DEF c
  <2> QED BY <2>1, <2>2, <2>3
<1>6. ASSUME NEW r \in AccountRequests, ConsumeGrant(r) PROVE GrantPart'
  <2>1. Made(change[r].grant) /\ UNCHANGED <<stored, proof>> /\ elevations' = elevations \ {change[r].grant}
    BY <1>6 DEF ConsumeGrant, AccountsInv, AccountsTypeOK, ElevationsAreMade
  <2>2. CASE change[r].grant \notin elevations
    BY <1>6, <2>2, <1>3, <2>1 DEF ConsumeGrant, AccountsInv, AccountsTypeOK, Ended
  <2>3. CASE change[r].grant \in elevations
    <3> DEFINE c == [change[r] EXCEPT !.pc = IF change[r].op = "recover" THEN "locked" ELSE "mutate"]
    <3>1. change' = [change EXCEPT ![r] = c] BY <1>6, <2>3 DEF ConsumeGrant, AccountsInv, AccountsTypeOK
    <3>2. c.grant = change[r].grant BY <1>6 DEF ConsumeGrant, AccountsInv, AccountsTypeOK, NewOrEnded, Request, Ended
    <3> HIDE DEF c
    <3> QED BY <1>3, <2>1, <3>1, <3>2, <2>3 DEF AccountsInv, SpentIsGone
  <2> QED BY <2>2, <2>3
<1>7. ASSUME NEW r \in AccountRequests, ReadLocked(r) PROVE GrantPart'
  <2>1. Made(change[r].grant) /\ UNCHANGED <<elevations, stored, proof>> /\ Spent(r)
    BY <1>7 DEF ReadLocked, AccountsInv, AccountsTypeOK, ElevationsAreMade, Spent
  <2>2. CASE StatusOf(change[r].target) # "locked"
    BY <1>7, <2>2, <1>3, <2>1 DEF ReadLocked, AccountsInv, AccountsTypeOK, Ended
  <2>3. CASE StatusOf(change[r].target) = "locked"
    <3> DEFINE c == [change[r] EXCEPT !.pc = "mutate"]
    <3>1. change' = [change EXCEPT ![r] = c] BY <1>7, <2>3 DEF ReadLocked, AccountsInv, AccountsTypeOK
    <3>2. c.grant = change[r].grant BY <1>7 DEF ReadLocked, AccountsInv, AccountsTypeOK, NewOrEnded, Request, Ended
    <3>4. c.grant \notin elevations' BY <2>1, <3>2 DEF AccountsInv, SpentIsGone
    <3> HIDE DEF c
    <3> QED BY <1>3, <2>1, <3>1, <3>2, <3>4 DEF AccountsInv, GrantUsedOnce, Spent
  <2> QED BY <2>2, <2>3
<1>8. ASSUME NEW r \in AccountRequests, Mutate(r) PROVE GrantPart'
  BY <1>8, <1>3 DEF Mutate, Mutation, CreatePending, ChangeRole, Lock, Recover, Revoke,
    RevokeAccess, Ended
<1> QED
  BY <1>1, <1>2, <1>4, <1>5, <1>6, <1>7, <1>8 DEF AccountsNext, PostLogin, PostLoginTotp, PostBootstrapStart,
    PostBootstrapVerify, BeginLogin, CreateMfaChallenge, CompleteTotpLogin, ConsumeMfaChallenge, RecordFailure,
    BlockUser, Logout, FailuresAge, BlockEnds, TokenExpires, GrantExpires, StartEnrolment, VerifyEnrolment, Activate,
    accountVars

-----
(* Accounts, sessions, enrolment and blocks: one lemma per group of steps. *)
\* Login: the session is made from a challenge that a lock would have revoked.
LEMMA LoginSteps ==
    ASSUME AccountsInv, NEW l \in Logins,
           (\E u \in Users : BeginLogin(l, u)) \/ CreateMfaChallenge(l) \/ CompleteTotpLogin(l) \/ ConsumeMfaChallenge(l)
    PROVE  AccountPart'
<1> USE DEF AccountsInv, AccountsTypeOK
<1>1. /\ UNCHANGED <<account, failures, tokens>>
      /\ \A k \in Logins \ {l} : login'[k] = login[k] /\ (k \in challenges' <=> k \in challenges)
      /\ login[l].pc # "count"
  BY DEF BeginLogin, CreateMfaChallenge, CompleteTotpLogin, ConsumeMfaChallenge
<1>5. LockedOut'
  BY <1>1 DEF LockedOut, ConsumesOfActive, StatusOf, BeginLogin, CreateMfaChallenge,
    CompleteTotpLogin, ConsumeMfaChallenge
<1>6. ConsumesOfActive'
  BY <1>1 DEF ConsumesOfActive, StatusOf, BeginLogin, CreateMfaChallenge, CompleteTotpLogin,
    ConsumeMfaChallenge, FindTotpChallenge, Ended, NewOrEnded, Attempt
<1>7. FailuresBlock' BY <1>1 DEF FailuresBlock, StatusOf
<1> QED
  BY <1>1, <1>5, <1>6, <1>7 DEF AccountPart, OwnerRemains, ActiveOwners, StatusOf, TokensOfPending,
    OneFactor

\* A failed login is stored before it is counted.
LEMMA FailureSteps ==
    ASSUME AccountsInv, NEW l \in Logins, RecordFailure(l) \/ BlockUser(l)
    PROVE  AccountPart'
<1> USE DEF AccountsInv, AccountsTypeOK
<1> DEFINE u == login[l].user
<1>1. u \in Users /\ login[l] \in Attempt BY DEF RecordFailure, BlockUser, NewOrEnded, Ended, Attempt
<1>2. /\ UNCHANGED <<sessions, tokens, challenges>>
      /\ \A v \in Users : /\ account'[v].status = account[v].status /\ account'[v].role = account[v].role
                          /\ account'[v].factors = account[v].factors
                          /\ account[v].blocked => account'[v].blocked
      /\ \A k \in Logins \ {l} : login'[k] = login[k]
      /\ login'[l].pc # "consume"
  <2>1. CASE RecordFailure(l) BY <1>1, <2>1 DEF RecordFailure, Attempt
  <2>2. CASE BlockUser(l) BY <1>1, <2>2 DEF BlockUser, Attempt, Account, Ended
  <2> QED BY <2>1, <2>2
<1>4. LockedOut' BY <1>2 DEF LockedOut, StatusOf, Session
<1>5. ConsumesOfActive' BY <1>2 DEF ConsumesOfActive, StatusOf, Attempt, NewOrEnded, Ended
<1>6. FailuresBlock'
  <2>1. CASE RecordFailure(l)
    BY <1>1, <2>1, <1>2 DEF RecordFailure, Attempt, FailuresBlock, StatusOf
  <2>2. CASE BlockUser(l)
    <3>1. failures' = failures BY <2>2 DEF BlockUser
    <3>2. StatusOf(u) = "active" /\ failures[u] >= FailureLimit => account'[u].blocked
      <4>2. u \in DOMAIN account /\ "blocked" \in DOMAIN account[u] BY <1>1 DEF Account
      <4> HIDE DEF AccountsInv, AccountsTypeOK
      <4>3. account'[u].blocked = (account[u].blocked \/ (StatusOf(u) = "active" /\ failures[u] >= FailureLimit))
        BY <2>2, <4>2 DEF BlockUser
      <4> QED BY <4>3
    <3> QED BY <1>2, <3>1, <3>2 DEF FailuresBlock, StatusOf
  <2> QED BY <2>1, <2>2
<1> QED
  BY <1>2, <1>4, <1>5, <1>6 DEF AccountPart, OwnerRemains, ActiveOwners, StatusOf, TokensOfPending,
    OneFactor

\* Logout and elapsed time limits: a block outlives the failures behind it.
LEMMA LapseSteps ==
    ASSUME AccountsInv,
           \/ \E s \in sessions : Logout(s)
           \/ \E u \in Users : FailuresAge(u) \/ BlockEnds(u) \/ TokenExpires(u)
    PROVE  AccountPart'
<1> USE DEF AccountsInv, AccountsTypeOK
<1>1. /\ sessions' \subseteq sessions /\ tokens' \subseteq tokens /\ UNCHANGED <<challenges, login>>
      /\ \A v \in Users : /\ account'[v].status = account[v].status /\ account'[v].role = account[v].role
                          /\ account'[v].factors = account[v].factors
  BY DEF Logout, FailuresAge, BlockEnds, TokenExpires, Account
<1>2. \A v \in Users : failures'[v] >= FailureLimit =>
                         failures[v] >= FailureLimit /\ account'[v].blocked = account[v].blocked
  BY SMTT(20), AccountsAssumption DEF Logout, FailuresAge, BlockEnds, TokenExpires, Account
<1>4. LockedOut' BY <1>1 DEF LockedOut, StatusOf, Session
<1>5. ConsumesOfActive' BY <1>1 DEF ConsumesOfActive, StatusOf, Attempt, NewOrEnded, Ended
<1>6. FailuresBlock' BY <1>1, <1>2 DEF FailuresBlock, StatusOf
<1> QED
  BY <1>1, <1>4, <1>5, <1>6 DEF AccountPart, OwnerRemains, ActiveOwners, StatusOf, TokensOfPending,
    OneFactor

\* Enrolment: only a pending account has a link, its activation leaves one factor.
LEMMA EnrolmentSteps ==
    ASSUME AccountsInv, NEW e \in Enrolments, (\E u \in Users : StartEnrolment(e, u)) \/ Activate(e)
    PROVE  AccountPart'
<1> USE DEF AccountsInv, AccountsTypeOK
<1>1. PICK u \in Users :
        /\ u \in tokens \/ account' = account
        /\ \A v \in Users \ {u} : account'[v] = account[v]
        /\ account'[u].role = account[u].role /\ account'[u].blocked = account[u].blocked
        /\ \/ account'[u].status = account[u].status /\ tokens' \subseteq tokens
           \/ account'[u].status = "active" /\ account'[u].factors = {e} /\ tokens' = tokens \ {u}
        /\ UNCHANGED <<failures, sessions, challenges, login>>
  <2>1. CASE \E u \in Users : StartEnrolment(e, u) BY <2>1 DEF StartEnrolment, CreatePendingFactor, Account
  <2>2. CASE Activate(e) BY <2>2 DEF Activate, NewOrEnded, Visit, Ended, Account, StatusOf
  <2> QED BY <2>1, <2>2
<1>2. u \in tokens => StatusOf(u) = "pending_mfa" BY DEF TokensOfPending
<1>3. OwnerRemains' BY <1>1, <1>2 DEF OwnerRemains, ActiveOwners, StatusOf
<1>4. TokensOfPending' /\ OneFactor' BY <1>1, <1>2 DEF TokensOfPending, StatusOf, OneFactor
<1>5. LockedOut' BY <1>1, <1>2 DEF LockedOut, StatusOf, Session
<1>6. ConsumesOfActive' BY <1>1, <1>2 DEF ConsumesOfActive, StatusOf, Attempt, NewOrEnded, Ended
<1>7. FailuresBlock'
  <2> SUFFICES ASSUME NEW v \in Users, failures'[v] >= FailureLimit, account'[v].status = "active",
                      account'[v].factors = {First}
               PROVE  account'[v].blocked \/ \E l \in Logins : login'[l].pc = "count" /\ login'[l].user = v
    BY DEF FailuresBlock, StatusOf
  <2>1. {e} # {First} BY AccountsAssumption
  <2>2. account'[v] = account[v] BY <1>1, <1>2, <2>1 DEF StatusOf
  <2> QED BY <1>1, <2>2 DEF FailuresBlock, StatusOf
<1> QED BY <1>3, <1>4, <1>5, <1>6, <1>7 DEF AccountPart

\* The transactions of the account changes.
LEMMA MutateSteps == ASSUME AccountsInv, NEW r \in AccountRequests, Mutate(r) PROVE AccountPart'
<1> USE DEF AccountsInv, AccountsTypeOK
<1> DEFINE c == change[r]
           t == c.target
<1>1. t \in Users /\ c.to \in Roles /\ UNCHANGED <<failures, login>> BY DEF Mutate, NewOrEnded, Request, Ended
<1>2. CASE UNCHANGED <<account, sessions, challenges, tokens>> BY <1>1, <1>2, AccountPartKept DEF accountState
<1>3. ASSUME CreatePending(c) \/ ChangeRole(c) \/ Lock(c) \/ Recover(c) \/ Revoke(c) PROVE OwnerRemains'
  <2>1. /\ \A v \in Users \ {t} : account'[v] = account[v]
        /\ t \in ActiveOwners => KeepsAnOwner(c)
        /\ c.op = "role" => account'[t].status = account[t].status /\ account'[t].role = c.to
    BY <1>1, <1>3 DEF CreatePending, ChangeRole, Lock, Recover, Revoke, ActiveOwners, StatusOf, Account
  <2>2. ActiveOwners \ {t} \subseteq ActiveOwners' BY <2>1 DEF ActiveOwners, StatusOf
  <2>3. CASE t \notin ActiveOwners BY <2>2, <2>3 DEF OwnerRemains
  <2>4. CASE t \in ActiveOwners /\ c.op = "role" /\ c.to = "owner"
    BY <2>1, <2>4 DEF OwnerRemains, ActiveOwners, StatusOf
  <2>5. CASE t \in ActiveOwners /\ ~(c.op = "role" /\ c.to = "owner")
    <3>1. ~(Cardinality(ActiveOwners) <= 1) BY <2>1, <2>5 DEF KeepsAnOwner
    <3>2. ActiveOwners \ {t} # {} BY <2>5, <3>1, AnotherOwner DEF ActiveOwners
    <3> QED BY <2>2, <3>2 DEF OwnerRemains
  <2> QED BY <2>3, <2>4, <2>5
<1>4. ASSUME /\ \A v \in Users \ {t} : account'[v] = account[v]
             /\ account'[t].status # "active"
             /\ sessions' \subseteq sessions /\ challenges' \subseteq challenges
             /\ \A s \in sessions' : s.user # t
             /\ \A l \in challenges' : login[l].pc = "consume" => login[l].user # t
             /\ tokens' \subseteq tokens \cup {t}
             /\ t \in tokens' => account'[t].status = "pending_mfa"
      PROVE  LockedOut' /\ ConsumesOfActive' /\ TokensOfPending' /\ OneFactor' /\ FailuresBlock'
  BY <1>4, <1>1 DEF LockedOut, StatusOf, Session, ConsumesOfActive, Attempt, NewOrEnded, Ended,
    TokensOfPending, OneFactor, FailuresBlock
<1>5. CASE CreatePending(c)
  <2>1. /\ \A v \in Users \ {t} : account'[v] = account[v]
        /\ account'[t].status = "pending_mfa" /\ account[t].status = "absent"
        /\ UNCHANGED <<sessions, challenges>> /\ tokens' = tokens \cup {t}
    BY <1>1, <1>5 DEF CreatePending, StatusOf, Account
  <2>2. \A s \in sessions : s.user # t BY <2>1 DEF LockedOut, StatusOf
  <2> HIDE DEF t, c
  <2> QED BY <1>3, <1>4, <1>5, <2>1, <2>2 DEF AccountPart, ConsumesOfActive, StatusOf
<1>6. CASE ChangeRole(c)
  <2>1. /\ \A v \in Users : /\ account'[v].status = account[v].status /\ account'[v].factors = account[v].factors
                            /\ account'[v].blocked = account[v].blocked
        /\ UNCHANGED <<sessions, challenges, tokens>>
    BY <1>1, <1>6 DEF ChangeRole, Account
  <2>2. LockedOut' BY <2>1 DEF LockedOut, StatusOf, Session
  <2>3. ConsumesOfActive' BY <1>1, <2>1 DEF ConsumesOfActive, StatusOf, Attempt, NewOrEnded, Ended
  <2>4. TokensOfPending' /\ OneFactor' BY <2>1 DEF TokensOfPending, OneFactor, StatusOf
  <2>5. FailuresBlock' BY <1>1, <2>1 DEF FailuresBlock, StatusOf
  <2> QED BY <1>3, <1>6, <2>2, <2>3, <2>4, <2>5 DEF AccountPart
<1>7. CASE Lock(c) \/ Recover(c) \/ Revoke(c)
  <2>1. /\ \A v \in Users \ {t} : account'[v] = account[v]
        /\ account'[t].status \in {"locked", "pending_mfa", "revoked"}
        /\ t \in tokens' => account'[t].status = "pending_mfa"
        /\ tokens' \subseteq tokens \cup {t}
        /\ sessions' = {s \in sessions : s.user # t} /\ challenges' = {l \in challenges : login[l].user # t}
    BY <1>1, <1>7 DEF Lock, Recover, Revoke, RevokeAccess, Account
  <2> HIDE DEF t, c
  <2> QED BY <1>3, <1>4, <1>7, <2>1 DEF AccountPart
<1> QED BY <1>2, <1>5, <1>6, <1>7 DEF Mutate, Mutation

\* All steps keep the promises about accounts, sessions, enrolment and blocks.
LEMMA AccountSteps == AccountsInv /\ [AccountsNext]_accountVars => AccountPart'
<1> SUFFICES ASSUME AccountsInv, [AccountsNext]_accountVars PROVE AccountPart' OBVIOUS
<1>1. CASE UNCHANGED <<accountState, login>> BY <1>1, AccountPartKept
<1>2. ASSUME NEW r \in AccountRequests, Mutate(r) PROVE AccountPart' BY <1>2, MutateSteps
<1>3. ASSUME NEW e \in Enrolments, NEW u \in Users, StartEnrolment(e, u) PROVE AccountPart' BY <1>3, EnrolmentSteps
<1>4. ASSUME NEW e \in Enrolments, Activate(e) PROVE AccountPart' BY <1>4, EnrolmentSteps
<1>5. ASSUME NEW l \in Logins, PostLogin(l) \/ PostLoginTotp(l) PROVE AccountPart'
  BY <1>5, LoginSteps DEF PostLogin, PostLoginTotp
<1>6. ASSUME NEW l \in Logins, RecordFailure(l) \/ BlockUser(l) PROVE AccountPart' BY <1>6, FailureSteps
<1>7. CASE (\E s \in sessions : Logout(s)) \/ \E u \in Users : FailuresAge(u) \/ BlockEnds(u) \/ TokenExpires(u)
  BY <1>7, LapseSteps
<1> QED
  BY <1>1, <1>2, <1>3, <1>4, <1>5, <1>6, <1>7 DEF AccountsNext, PostBootstrapStart, PostBootstrapVerify,
    GrantAccountsWrite, GrantExpires, AcceptChange, AuthorizeOwner, ReadTarget, ConsumeGrant, ReadLocked,
    VerifyEnrolment, accountState, accountVars

-----
(* The theorem. *)
\* The invariant says what AccountsAreSound promises.
LEMMA InvIsSound == AccountsInv => AccountsAreSound
<1> SUFFICES ASSUME AccountsInv PROVE AccountsAreSound OBVIOUS
<1> QED
  BY FS_Singleton DEF AccountsInv, AccountsAreSound, EnrolmentIsSound, TokensOfPending, OneFactor

\* Whatever owners, logins, enrolment links and step-ups do at the same time
\* (the statements of their requests in any order): an active owner remains,
\* only active accounts have sessions, tokens belong to pending accounts and
\* active accounts have one factor, no elevation serves two changes, and counted
\* failures block.
THEOREM AccountsSound == AccountsSpec => []AccountsAreSound
<1>1. AccountsInv /\ [AccountsNext]_accountVars => AccountsInv'
  BY AccountsTypes, GrantSteps, AccountSteps DEF AccountsInv, AccountPart, GrantPart
<1> QED BY AccountsInitial, <1>1, InvIsSound, PTL DEF AccountsSpec

-----
(* The browser spool. *)
PageKeys == {Diagnostic} \cup PageEvents
PageRecords == [key : PageKeys, old : BOOLEAN, waiting : BOOLEAN, evicted : Nat]
TabTasks ==
    [pc : {"idle", "enqueue", "diagnose", "diagnosed", "flush", "send", "sent", "failed"},
     key : PageKeys, todo : Seq(PageRecords), evicted : Nat]
PageTypes ==
    /\ idb \in SUBSET PageRecords /\ IsFiniteSet(idb) /\ memory \in [Tabs -> SUBSET PageRecords]
    /\ useFallback \in [Tabs -> BOOLEAN] /\ tab \in [Tabs -> TabTasks]
    /\ accepted \in SUBSET PageEvents

\* Where an accepted event may be.
Accounted(e) ==
    \/ \E r \in idb : r.key = e
    \/ \E t \in Tabs : \E r \in memory[t] : r.key = e
    \/ e \in ingested \/ e \in discarded

\* The events of a memory that an enqueue does not remove.
Listing(todo) == {todo[n].key : n \in 1..Len(todo)}
NotEvicted(records, todo) == {r \in Events(records) : r.key \notin Listing(todo)}
TabIsTrue(t) ==
    /\ IsFiniteSet(memory[t])
    /\ ~useFallback[t] => memory[t] = {}
    /\ tab[t].pc = "enqueue" =>
          tab[t].key \in PageEvents /\ Cardinality(NotEvicted(memory[t], tab[t].todo)) < MaxTabEvents
    /\ tab[t].pc \in {"diagnose", "diagnosed", "flush"} => Cardinality(Events(memory[t])) <= MaxTabEvents
    /\ tab[t].pc \in {"send", "sent", "failed"} => tab[t].todo # <<>>
    /\ tab[t].pc = "sent" => Head(tab[t].todo).key \in ingested

BrowserInv == PageTypes /\ (\A e \in accepted : Accounted(e)) /\ (\A t \in Tabs : TabIsTrue(t))

LEMMA ImageIsFinite ==
    ASSUME NEW S, IsFiniteSet(S), NEW T, NEW f \in [S -> T], \A y \in T : \E x \in S : f[x] = y
    PROVE  IsFiniteSet(T) /\ Cardinality(T) <= Cardinality(S)
<1>1. f \in Surjection(S, T) BY DEF Surjection
<1> QED BY <1>1, FS_Surjection

LEMMA EmptyMemory ==
    ASSUME NEW todo
    PROVE  /\ IsFiniteSet({}) /\ Events({}) = {} /\ NotEvicted({}, todo) = {}
           /\ Cardinality(Events({})) = 0 /\ Cardinality(NotEvicted({}, todo)) = 0
BY FS_EmptySet DEF Events, NotEvicted

LEMMA FewerRecords ==
    ASSUME NEW R, IsFiniteSet(R), NEW Q \in SUBSET R
    PROVE  IsFiniteSet(Q) /\ Cardinality(Q) <= Cardinality(R) /\ Cardinality(Q) \in Nat /\ Cardinality(R) \in Nat
BY FS_Subset, FS_CardinalityType

\* What a list ordered by age leaves behind its first n records.
LEMMA SurplusRemoved ==
    ASSUME NEW M \in SUBSET PageRecords, IsFiniteSet(M), NEW expired \in ByAge(Expired(M)), NEW young \in ByAge(Young(M)),
           NEW victims, victims = Victims(expired, young)
    PROVE  victims \in Seq(PageRecords) /\ Cardinality(NotEvicted(M, victims)) < MaxTabEvents
<1> DEFINE m == Cardinality(Expired(M))
           n == Cardinality(Young(M))
           k == Surplus(young)
           first == SubSeq(young, 1, k)
<1>2. IsFiniteSet(Expired(M)) /\ IsFiniteSet(Young(M)) /\ m \in Nat /\ n \in Nat
  BY FewerRecords DEF Expired, Young, Events
<1>4. expired \in Seq(PageRecords) /\ Len(expired) = m
      /\ \A r \in Expired(M) : \E i \in 1..m : expired[i] = r
  <2>1. expired \in [1..m -> Expired(M)] /\ DOMAIN expired = 1..m
        /\ \A r \in Expired(M) : \E i \in DOMAIN expired : expired[i] = r
    BY DEF ByAge
  <2>2. Expired(M) \subseteq PageRecords BY DEF Expired, Events
  <2>3. expired \in [1..m -> PageRecords] BY <2>1, <2>2
  <2>4. expired \in Seq(PageRecords) BY <1>2, <2>3
  <2> HIDE DEF m
  <2> QED BY <1>2, <2>1, <2>4, LenProperties
<1>5. young \in [1..n -> PageRecords] /\ young \in Seq(PageRecords) /\ \A r \in Young(M) : \E i \in 1..n : young[i] = r
  <2>1. young \in [1..n -> Young(M)] /\ DOMAIN young = 1..n
        /\ \A r \in Young(M) : \E i \in DOMAIN young : young[i] = r
    BY DEF ByAge
  <2>2. Young(M) \subseteq PageRecords BY DEF Young, Events
  <2>3. young \in [1..n -> PageRecords] BY <2>1, <2>2
  <2>4. young \in Seq(PageRecords) BY <1>2, <2>3
  <2> QED BY <2>1, <2>3, <2>4
<1>3. k \in 0..n /\ n - k < MaxTabEvents
  <2>1. Len(young) = n BY <1>5, LenProperties, <1>2
  <2> QED BY <1>2, <2>1, BrowserSpoolAssumption DEF Surplus
<1> HIDE DEF m, n, k
<1>6. /\ first \in Seq(PageRecords) /\ Len(first) = k
      /\ \A i \in 1..k : first[i] = young[i] BY <1>2, <1>3, <1>5, SubSeqProperties
<1> HIDE DEF first
<1>7. /\ victims \in Seq(PageRecords) /\ Len(victims) = m + k
      /\ \A i \in 1..(m + k) : victims[i] = IF i <= m THEN expired[i] ELSE first[i - m]
  <2>1. victims = expired \o first BY DEF first, k, Victims
  <2>2. first \in Seq(PageRecords) /\ Len(first) = k /\ expired \in Seq(PageRecords) /\ Len(expired) = m
    BY <1>4, <1>6
  <2>3. /\ victims \in Seq(PageRecords) /\ Len(victims) = Len(expired) + Len(first)
        /\ \A i \in 1..(Len(expired) + Len(first)) :
              victims[i] = IF i <= Len(expired) THEN expired[i] ELSE first[i - Len(expired)]
    BY ONLY <2>1, <2>2, ConcatProperties
  <2> QED BY <2>2, <2>3
<1>8. \A i \in 1..m : expired[i].key \in Listing(victims)
  <2> TAKE i \in 1..m
  <2> QED BY <1>2, <1>3, <1>7 DEF Listing
<1>9. \A i \in 1..k : young[i].key \in Listing(victims)
  <2> TAKE i \in 1..k
  <2>1. m + i \in 1..Len(victims) /\ victims[m + i] = young[i] BY <1>2, <1>3, <1>6, <1>7
  <2> QED BY <2>1 DEF Listing
<1> DEFINE rest == (k + 1)..n
           late == {young[i] : i \in rest}
<1>10. IsFiniteSet(late) /\ Cardinality(late) <= Cardinality(rest)
  <2>1. IsFiniteSet(rest) BY <1>2, <1>3, FS_Interval
  <2>2. [i \in rest |-> young[i]] \in [rest -> late]
        /\ \A y \in late : \E x \in rest : [i \in rest |-> young[i]][x] = y
    OBVIOUS
  <2> QED BY <2>1, <2>2, ImageIsFinite
<1>11. Cardinality(rest) = n - k
  <2>1. k + 1 \in Int /\ n \in Int BY <1>2, <1>3
  <2>2. Cardinality(rest) = IF k + 1 > n THEN 0 ELSE n - (k + 1) + 1 BY <2>1, FS_Interval
  <2> QED BY <1>2, <1>3, <2>2
<1>12. NotEvicted(M, victims) \subseteq late
  <2> SUFFICES ASSUME NEW r \in NotEvicted(M, victims) PROVE r \in late OBVIOUS
  <2>1. r \in Events(M) /\ r.key \notin Listing(victims) BY DEF NotEvicted
  <2>2. r \notin Expired(M) BY <1>4, <1>8, <2>1
  <2>3. PICK i \in 1..n : young[i] = r BY <1>5, <2>1, <2>2 DEF Young
  <2>4. i \notin 1..k BY <1>9, <2>1, <2>3
  <2> QED BY <1>2, <1>3, <2>3, <2>4
<1> HIDE DEF late, rest
<1>14. Cardinality(NotEvicted(M, victims)) < MaxTabEvents
  BY <1>2, <1>3, <1>10, <1>11, <1>12, FewerRecords, BrowserSpoolAssumption
<1> QED BY <1>7, <1>14

\* A list by age holds the records that it orders.
LEMMA ListedByAge ==
    ASSUME NEW M \in SUBSET PageRecords, IsFiniteSet(M), NEW records \in ByAge(M)
    PROVE  records \in Seq(PageRecords)
<1> QED BY FS_CardinalityType DEF ByAge

LEMMA IdleIsTask == IdleTab \in TabTasks
<1>1. <<>> \in Seq(PageRecords) BY EmptySeq
<1> DEFINE none == <<>>
<1> HIDE DEF none
<1> QED BY <1>1 DEF TabTasks, PageKeys, Diagnostic, IdleTab, Task

LEMMA BrowserInit ==
    ASSUME BrowserSpoolInit
    PROVE  BrowserInv
<1> USE DEF BrowserSpoolInit
<1>1. IdleTab \in TabTasks BY IdleIsTask
<1>2. PageTypes BY <1>1, EmptyMemory DEF PageTypes
<1>3. \A t \in Tabs : TabIsTrue(t) BY EmptyMemory DEF TabIsTrue, IdleTab, Task
<1> QED BY <1>2, <1>3 DEF BrowserInv

InStores(e) == (\E r \in idb : r.key = e) \/ \E t \in Tabs : \E r \in memory[t] : r.key = e

\* The calls of the store: a list, a removal, a put.
StoreTypes ==
    /\ idb \in SUBSET PageRecords /\ IsFiniteSet(idb) /\ memory \in [Tabs -> SUBSET PageRecords]
    /\ useFallback \in [Tabs -> BOOLEAN]
    /\ \A t \in Tabs : IsFiniteSet(memory[t]) /\ (~useFallback[t] => memory[t] = {})
OthersKeep(t) == \A u \in Tabs \ {t} : memory'[u] = memory[u] /\ useFallback'[u] = useFallback[u]

LEMMA WithoutProperties ==
    ASSUME NEW R \in SUBSET PageRecords, IsFiniteSet(R), NEW key
    PROVE  /\ Without(R, key) \in SUBSET PageRecords /\ IsFiniteSet(Without(R, key))
           /\ \A r \in PageRecords : Without(R, key) \cup {r} \in SUBSET PageRecords /\ IsFiniteSet(Without(R, key) \cup {r})
<1>1. Without(R, key) \in SUBSET R BY DEF Without
<1>2. IsFiniteSet(Without(R, key)) BY <1>1, FewerRecords
<1> QED BY <1>1, <1>2, FS_AddElement

LEMMA ListStep ==
    ASSUME StoreTypes, NEW t \in Tabs, NEW fallback \in BOOLEAN, Store(t, fallback), ListOnly
    PROVE  /\ StoreTypes' /\ OthersKeep(t) /\ memory' = memory /\ idb' = idb
           /\ Listed(t, fallback) \in SUBSET PageRecords /\ IsFiniteSet(Listed(t, fallback))
           /\ memory[t] = {} \/ Listed(t, fallback) = memory[t]
BY DEF StoreTypes, Store, ListOnly, OthersKeep, Listed

LEMMA SaveStep ==
    ASSUME StoreTypes, NEW t \in Tabs, NEW fallback \in BOOLEAN, Store(t, fallback),
           NEW R \in SUBSET PageRecords, IsFiniteSet(R), Save(t, fallback, R)
    PROVE  /\ StoreTypes' /\ OthersKeep(t)
           /\ fallback => memory'[t] = R /\ idb' = idb
           /\ ~fallback => memory'[t] = {} /\ memory[t] = {} /\ idb' = R /\ memory' = memory
<1>1. CASE fallback BY <1>1 DEF Save, Store, StoreTypes, OthersKeep
<1>2. CASE ~fallback BY <1>2 DEF Save, Store, StoreTypes, OthersKeep
<1> QED BY <1>1, <1>2

LEMMA DropStep ==
    ASSUME StoreTypes, NEW t \in Tabs, NEW key, Drop(t, key)
    PROVE  /\ StoreTypes' /\ OthersKeep(t)
           /\ memory'[t] = {} \/ memory'[t] = Without(memory[t], key)
           /\ \A e : InStores(e) /\ e # key => InStores(e)'
<1>1. PICK fallback \in BOOLEAN : Store(t, fallback) /\ Save(t, fallback, Without(Listed(t, fallback), key))
  BY DEF Drop
<1> DEFINE R == Without(Listed(t, fallback), key)
<1>3. R \in SUBSET PageRecords /\ IsFiniteSet(R) BY WithoutProperties DEF StoreTypes, Listed
<1>4. Save(t, fallback, R) BY <1>1
<1> HIDE DEF R
<1>5. /\ StoreTypes' /\ OthersKeep(t)
      /\ fallback => memory'[t] = R /\ idb' = idb
      /\ ~fallback => memory'[t] = {} /\ memory[t] = {} /\ idb' = R /\ memory' = memory
  BY <1>1, <1>3, <1>4, SaveStep
<1>6. CASE fallback
  <2>1. R = Without(memory[t], key) BY <1>6 DEF R, Listed
  <2>2. ASSUME NEW e, InStores(e), e # key PROVE InStores(e)'
    <3>1. CASE \E r \in idb : r.key = e BY <1>5, <1>6, <3>1 DEF InStores
    <3>2. CASE \E u \in Tabs : \E r \in memory[u] : r.key = e
      BY <3>2, <1>5, <1>6, <2>1, <2>2 DEF OthersKeep, Without, InStores
    <3> QED BY <2>2, <3>1, <3>2 DEF InStores
  <2> QED BY <1>5, <1>6, <2>1, <2>2
<1>7. CASE ~fallback BY <1>7, <1>5 DEF R, Listed, InStores, Without
<1> QED BY <1>6, <1>7

LEMMA PutStep ==
    ASSUME StoreTypes, NEW t \in Tabs, NEW r \in PageRecords, Put(t, r)
    PROVE  /\ StoreTypes' /\ OthersKeep(t)
           /\ memory'[t] = {} \/ memory'[t] = Without(memory[t], r.key) \cup {r}
           /\ InStores(r.key)' /\ \A e : InStores(e) => InStores(e)'
<1>1. PICK fallback \in BOOLEAN :
         Store(t, fallback) /\ Save(t, fallback, Without(Listed(t, fallback), r.key) \cup {r})
  BY DEF Put
<1> DEFINE R == Without(Listed(t, fallback), r.key) \cup {r}
<1>3. R \in SUBSET PageRecords /\ IsFiniteSet(R) /\ r \in R
  BY WithoutProperties DEF StoreTypes, Listed
<1>4. Save(t, fallback, R) BY <1>1
<1>8. \A x \in Listed(t, fallback) : \E y \in R : y.key = x.key BY DEF Without
<1> HIDE DEF R
<1>5. /\ StoreTypes' /\ OthersKeep(t)
      /\ fallback => memory'[t] = R /\ idb' = idb
      /\ ~fallback => memory'[t] = {} /\ memory[t] = {} /\ idb' = R /\ memory' = memory
  BY <1>1, <1>3, <1>4, SaveStep
<1>6. CASE fallback
  <2>1. R = Without(memory[t], r.key) \cup {r} /\ Listed(t, fallback) = memory[t] BY <1>6 DEF R, Listed
  <2>2. ASSUME NEW e, InStores(e) PROVE InStores(e)'
    <3>1. CASE \E x \in idb : x.key = e BY <1>5, <1>6, <3>1 DEF InStores
    <3>2. CASE \E u \in Tabs : \E x \in memory[u] : x.key = e
      BY <3>2, <1>5, <1>6, <1>8, <2>1 DEF OthersKeep, InStores
    <3> QED BY <2>2, <3>1, <3>2 DEF InStores
  <2> QED BY <1>3, <1>5, <1>6, <2>1, <2>2 DEF InStores
<1>7. CASE ~fallback BY <1>7, <1>5, <1>8, <1>3 DEF Listed, InStores
<1> QED BY <1>6, <1>7

LEMMA OtherTab ==
    ASSUME NEW t \in Tabs, NEW u \in Tabs \ {t}, TabIsTrue(u), OthersKeep(t), tab'[u] = tab[u], ingested \subseteq ingested'
    PROVE  TabIsTrue(u)'
BY DEF TabIsTrue, OthersKeep

LEMMA InvHasStores ==
    ASSUME BrowserInv
    PROVE  StoreTypes
BY DEF BrowserInv, PageTypes, StoreTypes, TabIsTrue

\* A step of one tab.
LEMMA TabStepInv ==
    ASSUME BrowserInv, NEW t \in Tabs, StoreTypes', OthersKeep(t), NEW task \in TabTasks, Goto(t, task),
           ingested \subseteq ingested', discarded \subseteq discarded',
           accepted' \in SUBSET PageEvents,
           \A e \in accepted' : Accounted(e)', TabIsTrue(t)'
    PROVE  BrowserInv'
<1>1. tab' \in [Tabs -> TabTasks] /\ \A u \in Tabs \ {t} : tab'[u] = tab[u] BY DEF Goto, BrowserInv, PageTypes
<1>2. PageTypes' BY <1>1 DEF PageTypes, StoreTypes
<1>3. \A u \in Tabs : TabIsTrue(u)' BY <1>1, OtherTab DEF BrowserInv
<1> QED BY <1>2, <1>3 DEF BrowserInv

TaskPcs == {"idle", "enqueue", "diagnose", "diagnosed", "flush", "send", "sent", "failed"}

LEMMA IsTask ==
    ASSUME NEW a \in TaskPcs, NEW b \in PageKeys, NEW c \in Seq(PageRecords), NEW d \in Nat
    PROVE  Task(a, b, c, d) \in TabTasks
BY DEF TaskPcs, TabTasks, Task

LEMMA TaskFields ==
    ASSUME NEW x \in TabTasks
    PROVE  x.pc \in TaskPcs /\ x.key \in PageKeys /\ x.todo \in Seq(PageRecords) /\ x.evicted \in Nat
BY DEF TabTasks, TaskPcs

LEMMA NextTask ==
    ASSUME BrowserInv, NEW t \in Tabs, NEW task, Goto(t, task)
    PROVE  tab[t] \in TabTasks /\ tab'[t] = task
BY DEF BrowserInv, PageTypes, Goto

LEMMA Everything ==
    ASSUME NEW e
    PROVE  /\ Accounted(e) <=> InStores(e) \/ e \in ingested \/ e \in discarded
           /\ Accounted(e)' <=> InStores(e)' \/ e \in ingested' \/ e \in discarded'
BY DEF Accounted, InStores

LEMMA EnqueueInv ==
    ASSUME BrowserInv, NEW t \in Tabs, EnqueueOnce(t)
    PROVE  BrowserInv'
<1>1. PICK e \in PageEvents, fallback \in BOOLEAN :
         /\ Store(t, fallback) /\ ListOnly
         /\ \E expired \in ByAge(Expired(Listed(t, fallback))), young \in ByAge(Young(Listed(t, fallback))) :
               Goto(t, Task("enqueue", e, Victims(expired, young), 0))
  BY DEF EnqueueOnce
<1> DEFINE M == Listed(t, fallback)
<1>2. PICK expired \in ByAge(Expired(M)), young \in ByAge(Young(M)) :
         Goto(t, Task("enqueue", e, Victims(expired, young), 0))
  BY <1>1
<1> DEFINE victims == Victims(expired, young)
           task == Task("enqueue", e, victims, 0)
<1>3. StoreTypes BY InvHasStores
<1>4. StoreTypes' /\ OthersKeep(t) /\ memory' = memory /\ idb' = idb
      /\ M \in SUBSET PageRecords /\ IsFiniteSet(M) /\ (memory[t] = {} \/ M = memory[t])
  BY <1>1, <1>3, ListStep
<1>5. victims \in Seq(PageRecords) /\ Cardinality(NotEvicted(M, victims)) < MaxTabEvents BY <1>4, SurplusRemoved
<1>6. Goto(t, task) BY <1>2
<1> HIDE DEF victims, M
<1>7. task \in TabTasks BY <1>5, IsTask DEF TaskPcs, PageKeys
<1>8. tab'[t] = task BY <1>6, NextTask
<1>9. Cardinality(NotEvicted(memory[t], victims)) < MaxTabEvents
  <2>1. CASE M = memory[t] BY <1>5, <2>1
  <2>2. CASE memory[t] = {} BY EmptyMemory, <2>2, BrowserSpoolAssumption
  <2> QED BY <1>4, <2>1, <2>2
<1>10. UNCHANGED <<accepted, ingested, discarded>> BY DEF EnqueueOnce
<1>11. TabIsTrue(t)' BY <1>3, <1>4, <1>8, <1>9 DEF TabIsTrue, StoreTypes, Task
<1>13. accepted' \in SUBSET PageEvents BY <1>10 DEF BrowserInv, PageTypes
<1> HIDE DEF task
<1> QED BY <1>4, <1>6, <1>7, <1>10, <1>11, <1>13, TabStepInv DEF BrowserInv, Accounted

LEMMA EvictInv ==
    ASSUME BrowserInv, NEW t \in Tabs, Evict(t)
    PROVE  BrowserInv'
<1> DEFINE x == tab[t]
           victim == Head(x.todo).key
           task == Task("enqueue", x.key, Tail(x.todo), x.evicted + 1)
<1>1. /\ x.pc = "enqueue" /\ x.todo # <<>> /\ discarded' = discarded \cup {victim} /\ Drop(t, victim)
      /\ Goto(t, task)
      /\ UNCHANGED <<accepted, ingested>>
  BY DEF Evict, pageHistory
<1>2. StoreTypes /\ x \in TabTasks /\ TabIsTrue(t) BY InvHasStores DEF BrowserInv, PageTypes
<1>3. x.pc \in TaskPcs /\ x.key \in PageKeys /\ x.todo \in Seq(PageRecords) /\ x.evicted \in Nat BY <1>2, TaskFields
<1>4. /\ Tail(x.todo) \in Seq(PageRecords) /\ Len(Tail(x.todo)) = Len(x.todo) - 1 /\ Len(x.todo) \in Nat \ {0}
      /\ \A i \in 1..Len(Tail(x.todo)) : Tail(x.todo)[i] = x.todo[i + 1]
      /\ victim = x.todo[1].key
  <2> DEFINE s == x.todo
  <2>1. s \in Seq(PageRecords) /\ s # <<>> BY <1>1, <1>3
  <2> HIDE DEF s
  <2>3. Head(s) = s[1] BY <2>1
  <2> QED BY <2>1, HeadTailProperties, EmptySeq, <2>3 DEF s
<1>5. Listing(x.todo) \subseteq Listing(Tail(x.todo)) \cup {victim}
  <2> SUFFICES ASSUME NEW n \in 1..Len(x.todo) PROVE x.todo[n].key \in Listing(Tail(x.todo)) \cup {victim}
    BY DEF Listing
  <2>1. CASE n = 1 BY <1>4, <2>1
  <2>2. CASE n # 1
    <3>1. n - 1 \in 1..Len(Tail(x.todo)) /\ Tail(x.todo)[n - 1] = x.todo[n] BY <1>4, <2>2
    <3> QED BY <3>1 DEF Listing
  <2> QED BY <2>1, <2>2
<1>6. task \in TabTasks
  <2>1. x.evicted + 1 \in Nat BY <1>3
  <2> HIDE DEF x
  <2> QED BY <1>3, <1>4, <2>1, IsTask DEF TaskPcs
<1>7. tab'[t] = task BY <1>1, NextTask
<1>8. /\ StoreTypes' /\ OthersKeep(t)
      /\ memory'[t] = {} \/ memory'[t] = Without(memory[t], victim)
      /\ \A e : InStores(e) /\ e # victim => InStores(e)'
  BY <1>1, <1>2, DropStep
<1> HIDE DEF x, victim
<1>9. NotEvicted(memory'[t], Tail(x.todo)) \subseteq NotEvicted(memory[t], x.todo)
  BY <1>5, <1>8 DEF NotEvicted, Events, Without
<1>10. IsFiniteSet(NotEvicted(memory[t], x.todo)) /\ NotEvicted(memory[t], x.todo) \subseteq memory[t]
  BY <1>2, FewerRecords DEF NotEvicted, Events, StoreTypes
<1>11. Cardinality(NotEvicted(memory'[t], Tail(x.todo))) < MaxTabEvents
  BY <1>9, <1>10, FewerRecords, <1>1, <1>2, BrowserSpoolAssumption DEF TabIsTrue, x
<1>13. TabIsTrue(t)' BY <1>7, <1>8, <1>11, <1>1, <1>2 DEF TabIsTrue, StoreTypes, Task, x
<1>15. accepted' \in SUBSET PageEvents BY <1>1 DEF BrowserInv, PageTypes
<1> HIDE DEF task
<1> QED BY <1>1, <1>6, <1>8, <1>13, Everything, <1>15, TabStepInv DEF BrowserInv

\* The facts of a tab before its step.
LEMMA TabFacts ==
    ASSUME BrowserInv, NEW t \in Tabs
    PROVE  /\ StoreTypes /\ TabIsTrue(t) /\ accepted \in SUBSET PageEvents
           /\ \A e \in accepted : InStores(e) \/ e \in ingested \/ e \in discarded
           /\ tab[t].pc \in TaskPcs /\ tab[t].key \in PageKeys /\ tab[t].todo \in Seq(PageRecords) /\ tab[t].evicted \in Nat
BY InvHasStores, TaskFields, Everything DEF BrowserInv, PageTypes

LEMMA PutEventInv ==
    ASSUME BrowserInv, NEW t \in Tabs, PutEvent(t)
    PROVE  BrowserInv'
<1>0. PICK r : r = [key |-> tab[t].key, old |-> FALSE, waiting |-> FALSE, evicted |-> 0] OBVIOUS
<1> DEFINE pc == IF tab[t].evicted > 0 THEN "diagnose" ELSE "flush"
           task == Task(pc, Diagnostic, <<>>, tab[t].evicted)
<1>1. /\ tab[t].pc = "enqueue" /\ tab[t].todo = <<>> /\ accepted' = accepted \cup {tab[t].key}
      /\ Put(t, r) /\ Goto(t, task) /\ UNCHANGED <<ingested, discarded>>
  BY <1>0 DEF PutEvent
<1>2. /\ StoreTypes /\ TabIsTrue(t) /\ accepted \in SUBSET PageEvents
      /\ \A e \in accepted : InStores(e) \/ e \in ingested \/ e \in discarded
      /\ tab[t].evicted \in Nat
  BY TabFacts
<1>3. /\ tab[t].key \in PageEvents /\ IsFiniteSet(memory[t]) /\ Cardinality(NotEvicted(memory[t], <<>>)) < MaxTabEvents
  BY <1>1, <1>2 DEF TabIsTrue
<1>4. r \in PageRecords /\ r.key = tab[t].key BY <1>0, <1>3 DEF PageRecords, PageKeys
<1>5. task \in TabTasks
  <2>1. pc \in TaskPcs /\ Diagnostic \in PageKeys /\ <<>> \in Seq(PageRecords) BY EmptySeq DEF TaskPcs, PageKeys
  <2> HIDE DEF pc
  <2> QED BY <1>2, <2>1, IsTask
<1>6. tab'[t] = task /\ task.pc \in {"diagnose", "flush"} BY <1>1, NextTask DEF Task
<1> HIDE DEF pc, task
<1>7. /\ StoreTypes' /\ OthersKeep(t)
      /\ memory'[t] = {} \/ memory'[t] = Without(memory[t], r.key) \cup {r}
      /\ InStores(r.key)' /\ \A e : InStores(e) => InStores(e)'
  BY <1>1, <1>2, <1>4, PutStep
<1>8. Cardinality(Events(memory'[t])) <= MaxTabEvents
  <2>1. CASE memory'[t] = {} BY <2>1, EmptyMemory, BrowserSpoolAssumption
  <2>2. CASE memory'[t] = Without(memory[t], r.key) \cup {r}
    <3> DEFINE K == NotEvicted(memory[t], <<>>)
    <3>1. K = Events(memory[t]) BY EmptySeq DEF NotEvicted, Listing
    <3>2. Events(memory'[t]) \in SUBSET (K \cup {r}) BY <2>2, <3>1 DEF Events, Without
    <3>3. IsFiniteSet(K)
      <4>1. K \in SUBSET memory[t] BY DEF NotEvicted, Events
      <4> QED BY <1>3, <4>1, FewerRecords
    <3> HIDE DEF K
    <3>4. IsFiniteSet(K \cup {r}) /\ Cardinality(K \cup {r}) <= Cardinality(K) + 1 /\ Cardinality(K) \in Nat
      <4>1. IsFiniteSet(K \cup {r}) /\ Cardinality(K \cup {r}) = IF r \in K THEN Cardinality(K) ELSE Cardinality(K) + 1
        BY <3>3, FS_AddElement
      <4>2. Cardinality(K) \in Nat BY <3>3, FS_CardinalityType
      <4> QED BY <4>1, <4>2
    <3> QED BY <1>3, <3>4, <3>2, FewerRecords, BrowserSpoolAssumption DEF K
  <2> QED BY <1>7, <2>1, <2>2
<1>9. TabIsTrue(t)' BY <1>6, <1>7, <1>8 DEF TabIsTrue, StoreTypes
<1>10. \A e \in accepted' : Accounted(e)' BY <1>1, <1>2, <1>4, <1>7, Everything
<1>11. accepted' \in SUBSET PageEvents BY <1>1, <1>2, <1>3
<1> QED BY <1>1, <1>5, <1>7, <1>9, <1>10, <1>11, TabStepInv

\* A step that only lists, or calls no store.
LEMMA QuietStepInv ==
    ASSUME BrowserInv, NEW t \in Tabs, memory' = memory, idb' = idb, StoreTypes', OthersKeep(t),
           NEW task \in TabTasks, Goto(t, task), UNCHANGED <<accepted, discarded>>, ingested \subseteq ingested',
           /\ task.pc # "enqueue"
           /\ task.pc \in {"diagnose", "diagnosed", "flush"} => Cardinality(Events(memory[t])) <= MaxTabEvents
           /\ task.pc \in {"send", "sent", "failed"} => task.todo # <<>>
           /\ task.pc = "sent" => Head(task.todo).key \in ingested'
    PROVE  BrowserInv'
<1>1. tab'[t] = task BY NextTask
<1>2. TabIsTrue(t)' BY <1>1 DEF TabIsTrue, StoreTypes
<1>3. \A e \in accepted' : Accounted(e)' BY DEF BrowserInv, Accounted
<1>4. accepted' \in SUBSET PageEvents BY DEF BrowserInv, PageTypes
<1> QED BY <1>2, <1>3, <1>4, TabStepInv

LEMMA DiagnoseInv ==
    ASSUME BrowserInv, NEW t \in Tabs, Diagnose(t)
    PROVE  BrowserInv'
<1>1. PICK fallback \in BOOLEAN : Store(t, fallback) /\ ListOnly
         /\ \E warning \in Warnings(Listed(t, fallback)) :
               Goto(t, Task("diagnosed", Diagnostic, <<>>, tab[t].evicted + warning.evicted))
  BY DEF Diagnose
<1>2. PICK warning \in Warnings(Listed(t, fallback)) :
         Goto(t, Task("diagnosed", Diagnostic, <<>>, tab[t].evicted + warning.evicted))
  BY <1>1
<1>3. tab[t].pc = "diagnose" /\ UNCHANGED <<accepted, ingested, discarded>> BY DEF Diagnose, pageHistory
<1>4. StoreTypes /\ TabIsTrue(t) /\ tab[t].evicted \in Nat BY TabFacts
<1>5. /\ StoreTypes' /\ OthersKeep(t) /\ memory' = memory /\ idb' = idb
      /\ Listed(t, fallback) \in SUBSET PageRecords
  BY <1>1, <1>4, ListStep
<1>6. warning.evicted \in Nat
  <2>1. \A n : Warning(n).evicted = n BY DEF Warning
  <2> QED BY <1>5, <2>1 DEF Warnings, PageRecords
<1> DEFINE n == tab[t].evicted + warning.evicted
           task == Task("diagnosed", Diagnostic, <<>>, n)
<1>7. task \in TabTasks
  <2>1. n \in Nat /\ Diagnostic \in PageKeys /\ <<>> \in Seq(PageRecords) BY <1>4, <1>6, EmptySeq DEF PageKeys
  <2> HIDE DEF n
  <2> QED BY <2>1, IsTask DEF TaskPcs
<1>8. task.pc = "diagnosed" /\ Goto(t, task) BY <1>2 DEF Task
<1> HIDE DEF task
<1> QED BY <1>3, <1>5, <1>7, <1>8, <1>4, QuietStepInv DEF TabIsTrue

LEMMA PutDiagnosticInv ==
    ASSUME BrowserInv, NEW t \in Tabs, PutDiagnostic(t)
    PROVE  BrowserInv'
<1> DEFINE r == Warning(tab[t].evicted)
           task == Task("flush", Diagnostic, <<>>, 0)
<1>1. tab[t].pc = "diagnosed" /\ Put(t, r) /\ Goto(t, task) /\ UNCHANGED <<accepted, ingested, discarded>>
  BY DEF PutDiagnostic, pageHistory
<1>2. /\ StoreTypes /\ TabIsTrue(t) /\ accepted \in SUBSET PageEvents
      /\ \A e \in accepted : InStores(e) \/ e \in ingested \/ e \in discarded
      /\ tab[t].evicted \in Nat
  BY TabFacts
<1>3. r \in PageRecords /\ r.key = Diagnostic BY <1>2 DEF PageRecords, PageKeys, Warning
<1>4. task \in TabTasks /\ task.pc = "flush" BY EmptySeq, IsTask DEF PageKeys, TaskPcs, Task
<1> HIDE DEF r, task
<1>5. /\ StoreTypes' /\ OthersKeep(t)
      /\ memory'[t] = {} \/ memory'[t] = Without(memory[t], r.key) \cup {r}
      /\ \A e : InStores(e) => InStores(e)'
  BY <1>1, <1>2, <1>3, PutStep
<1>6. Events(memory'[t]) \in SUBSET Events(memory[t]) BY <1>3, <1>5 DEF Events, Without
<1>7. IsFiniteSet(Events(memory[t])) BY <1>2, FewerRecords DEF Events, StoreTypes
<1>8. Cardinality(Events(memory'[t])) <= MaxTabEvents
  BY <1>1, <1>2, <1>6, <1>7, FewerRecords, BrowserSpoolAssumption DEF TabIsTrue
<1>9. tab'[t] = task BY <1>1, NextTask
<1>10. TabIsTrue(t)' BY <1>4, <1>5, <1>8, <1>9 DEF TabIsTrue, StoreTypes
<1> QED BY <1>1, <1>2, <1>4, <1>5, <1>10, Everything, TabStepInv

LEMMA FlushTask ==
    ASSUME NEW todo \in Seq(PageRecords), NEW pc \in {"send", "sent", "failed"}
    PROVE  /\ Flushing(pc, todo) \in TabTasks /\ Flushing(pc, todo).pc = pc /\ Flushing(pc, todo).todo = todo
           /\ IdleTab \in TabTasks /\ IdleTab.pc = "idle"
<1>1. Flushing(pc, todo) \in TabTasks BY IsTask DEF TaskPcs, PageKeys, Flushing
<1> QED BY <1>1, IdleIsTask DEF Flushing, Task, IdleTab

LEMMA FlushListInv ==
    ASSUME BrowserInv, NEW t \in Tabs, FlushList(t)
    PROVE  BrowserInv'
<1>1. PICK fallback \in BOOLEAN : Store(t, fallback) /\ ListOnly
         /\ \E records \in ByAge(Listed(t, fallback)) :
               Goto(t, IF records = <<>> THEN IdleTab ELSE Flushing("send", records))
  BY DEF FlushList
<1>2. PICK records \in ByAge(Listed(t, fallback)) : Goto(t, IF records = <<>> THEN IdleTab ELSE Flushing("send", records))
  BY <1>1
<1>3. UNCHANGED <<accepted, ingested, discarded>> BY DEF FlushList, pageHistory
<1>4. StoreTypes BY TabFacts
<1>5. /\ StoreTypes' /\ OthersKeep(t) /\ memory' = memory /\ idb' = idb
      /\ Listed(t, fallback) \in SUBSET PageRecords /\ IsFiniteSet(Listed(t, fallback))
  BY <1>1, <1>4, ListStep
<1>6. records \in Seq(PageRecords) BY <1>5, ListedByAge
<1> DEFINE task == IF records = <<>> THEN IdleTab ELSE Flushing("send", records)
<1>7. /\ task \in TabTasks /\ task.pc \in {"idle", "send"} /\ (task.pc = "send" => task.todo # <<>>)
  BY <1>6, FlushTask
<1>8. Goto(t, task) BY <1>2
<1> HIDE DEF task
<1> QED BY <1>3, <1>5, <1>7, <1>8, QuietStepInv

\* The task after a record, and the record itself.
LEMMA Flushed ==
    ASSUME BrowserInv, NEW t \in Tabs, tab[t].pc \in {"send", "sent", "failed"}
    PROVE  /\ Head(tab[t].todo) \in PageRecords /\ tab[t].todo # <<>> /\ tab[t].todo \in Seq(PageRecords)
           /\ Advance(t) \in TabTasks /\ Advance(t).pc \in {"idle", "send"}
           /\ Advance(t).pc = "send" => Advance(t).todo # <<>>
<1>1. tab[t].todo \in Seq(PageRecords) /\ tab[t].todo # <<>> BY TabFacts DEF TabIsTrue
<1> DEFINE s == tab[t].todo
<1>2. s \in Seq(PageRecords) /\ s # <<>> BY <1>1
<1> HIDE DEF s
<1>3. Head(s) \in PageRecords /\ Tail(s) \in Seq(PageRecords) /\ Len(Tail(s)) = Len(s) - 1 /\ Len(s) \in Nat
  BY <1>2, HeadTailProperties, LenProperties
<1>4. Len(s) # 1 => Tail(s) # <<>>
  <2> DEFINE none == <<>>
  <2>1. Len(s) \in Nat /\ Len(none) = 0 /\ Len(Tail(s)) = Len(s) - 1 /\ Len(s) # 0 BY <1>2, <1>3, EmptySeq
  <2> HIDE DEF none
  <2>2. Len(s) # 1 => Tail(s) # none BY <2>1
  <2> QED BY <2>2 DEF none
<1>5. Advance(t) = IF Len(s) = 1 THEN IdleTab ELSE Flushing("send", Tail(s)) BY DEF Advance, s
<1>6. Flushing("send", Tail(s)) \in TabTasks /\ Flushing("send", Tail(s)).pc = "send" /\ Flushing("send", Tail(s)).todo = Tail(s)
      /\ IdleTab \in TabTasks /\ IdleTab.pc = "idle"
  BY <1>3, FlushTask
<1>7. Advance(t) \in TabTasks /\ Advance(t).pc \in {"idle", "send"} /\ (Advance(t).pc = "send" => Advance(t).todo # <<>>)
  BY <1>4, <1>5, <1>6
<1> QED BY <1>2, <1>3, <1>7 DEF s

\* A record is removed or put back, and the next one is due.
LEMMA AdvanceInv ==
    ASSUME BrowserInv, NEW t \in Tabs, tab[t].pc \in {"send", "sent", "failed"}, Goto(t, Advance(t)),
           StoreTypes', OthersKeep(t), UNCHANGED <<accepted, ingested>>, discarded \subseteq discarded',
           \A e \in accepted' : Accounted(e)'
    PROVE  BrowserInv'
<1>1. /\ Advance(t) \in TabTasks /\ Advance(t).pc \in {"idle", "send"}
      /\ Advance(t).pc = "send" => Advance(t).todo # <<>>
  BY Flushed
<1>2. tab'[t] = Advance(t) BY NextTask
<1>3. TabIsTrue(t)' BY <1>1, <1>2 DEF TabIsTrue, StoreTypes
<1>4. accepted' \in SUBSET PageEvents BY TabFacts
<1> QED BY <1>1, <1>3, <1>4, TabStepInv

LEMMA SkipInv ==
    ASSUME BrowserInv, NEW t \in Tabs, Skip(t)
    PROVE  BrowserInv'
<1> DEFINE r == Head(tab[t].todo)
<1>1. tab[t].pc = "send" /\ Goto(t, Advance(t)) /\ UNCHANGED <<accepted, ingested>> BY DEF Skip, pageHistory
<1>2. /\ StoreTypes /\ \A e \in accepted : InStores(e) \/ e \in ingested \/ e \in discarded BY TabFacts
<1>3. CASE discarded' = discarded \cup {r.key} /\ Drop(t, r.key)
  BY <1>2, <1>3, DropStep, <1>1, Everything, AdvanceInv
<1>4. CASE UNCHANGED <<pageStores, discarded, tabMishaps>>
  BY <1>2, <1>4, <1>1, Everything, AdvanceInv DEF StoreTypes, OthersKeep, pageStores, InStores
<1> QED BY <1>3, <1>4 DEF Skip

LEMMA DeliverInv ==
    ASSUME BrowserInv, NEW t \in Tabs, Deliver(t)
    PROVE  BrowserInv'
<1> DEFINE s == tab[t].todo
<1>1. tab[t].pc = "send" /\ UNCHANGED <<pageStores, accepted, discarded>> /\ ingested \subseteq ingested'
  BY DEF Deliver, pageHistory, PostStored
<1>2. s \in Seq(PageRecords) /\ s # <<>> /\ StoreTypes BY <1>1, Flushed, TabFacts
<1>3. StoreTypes' /\ OthersKeep(t) /\ memory' = memory /\ idb' = idb
  BY <1>1, <1>2 DEF StoreTypes, OthersKeep, pageStores
<1>4. PICK pc \in {"sent", "failed"} : Goto(t, Flushing(pc, s)) /\ (pc = "sent" => Head(s).key \in ingested')
  BY DEF Deliver, PostStored
<1> HIDE DEF s
<1> DEFINE task == Flushing(pc, s)
<1>5. task \in TabTasks /\ task.pc = pc /\ task.todo = s BY <1>2, FlushTask
<1>6. Goto(t, task) BY <1>4
<1> HIDE DEF task
<1> QED BY <1>1, <1>3, <1>5, <1>6, <1>2, <1>4, QuietStepInv

LEMMA SettleInv ==
    ASSUME BrowserInv, NEW t \in Tabs, Settle(t)
    PROVE  BrowserInv'
<1> DEFINE r == Head(tab[t].todo)
           back == [r EXCEPT !.waiting = TRUE]
<1>1. /\ tab[t].pc \in {"sent", "failed"} /\ Goto(t, Advance(t)) /\ UNCHANGED <<accepted, ingested, discarded>>
      /\ IF tab[t].pc = "sent" THEN Drop(t, r.key) ELSE Put(t, back)
  BY DEF Settle, pageHistory
<1>2. /\ StoreTypes /\ \A e \in accepted : InStores(e) \/ e \in ingested \/ e \in discarded
      /\ tab[t].pc = "sent" => r.key \in ingested
  BY TabFacts DEF TabIsTrue
<1>3. r \in PageRecords BY <1>1, Flushed
<1>4. back \in PageRecords BY <1>3 DEF PageRecords
<1>5. StoreTypes' /\ OthersKeep(t) /\ \A e \in accepted' : Accounted(e)'
  <2>1. CASE tab[t].pc = "sent" BY <1>1, <1>2, <2>1, DropStep, Everything
  <2>2. CASE tab[t].pc = "failed"
    <3>1. Put(t, back) BY <1>1, <2>2
    <3> HIDE DEF back
    <3> QED BY <1>1, <1>2, <1>4, <3>1, PutStep, Everything
  <2> QED BY <1>1, <2>1, <2>2
<1> HIDE DEF r, back
<1> QED BY <1>1, <1>5, AdvanceInv

Renewal(R, Q, f) ==
    /\ f \in [R -> Q] /\ \A y \in Q : \E x \in R : f[x] = y
    /\ \A x \in R : f[x] \in PageRecords /\ f[x].key = x.key

\* Records that are a copy of others: their keys, and how many they are.
LEMMA Renewed ==
    ASSUME NEW R \in SUBSET PageRecords, IsFiniteSet(R), NEW Q, NEW f, Renewal(R, Q, f), NEW todo
    PROVE  /\ Q \in SUBSET PageRecords /\ IsFiniteSet(Q) /\ (R = {} => Q = {})
           /\ \A x \in R : \E y \in Q : y.key = x.key
           /\ Cardinality(Events(Q)) <= Cardinality(Events(R)) /\ Cardinality(NotEvicted(Q, todo)) <= Cardinality(NotEvicted(R, todo))
           /\ Cardinality(Events(Q)) \in Nat /\ Cardinality(Events(R)) \in Nat
           /\ Cardinality(NotEvicted(Q, todo)) \in Nat /\ Cardinality(NotEvicted(R, todo)) \in Nat
<1> USE DEF Renewal
<1>2. IsFiniteSet(Q) BY ImageIsFinite
<1>3. ASSUME NEW A \in SUBSET R, NEW B \in SUBSET Q, \A y \in B : \E x \in A : f[x] = y, \A x \in A : f[x] \in B
      PROVE  Cardinality(B) <= Cardinality(A) /\ Cardinality(B) \in Nat /\ Cardinality(A) \in Nat
  <2>1. IsFiniteSet(A) BY FewerRecords
  <2>2. [x \in A |-> f[x]] \in [A -> B] /\ \A y \in B : \E x \in A : [z \in A |-> f[z]][x] = y BY <1>3
  <2>3. IsFiniteSet(B) /\ Cardinality(B) <= Cardinality(A) BY <2>1, <2>2, ImageIsFinite
  <2> QED BY <2>1, <2>3, FS_CardinalityType
<1>4. /\ Events(R) \in SUBSET R /\ Events(Q) \in SUBSET Q
      /\ \A y \in Events(Q) : \E x \in Events(R) : f[x] = y
      /\ \A x \in Events(R) : f[x] \in Events(Q)
  BY DEF Events
<1>5. /\ NotEvicted(R, todo) \in SUBSET R /\ NotEvicted(Q, todo) \in SUBSET Q
      /\ \A y \in NotEvicted(Q, todo) : \E x \in NotEvicted(R, todo) : f[x] = y
      /\ \A x \in NotEvicted(R, todo) : f[x] \in NotEvicted(Q, todo)
  BY DEF NotEvicted, Events
<1>6. Cardinality(Events(Q)) <= Cardinality(Events(R)) /\ Cardinality(Events(Q)) \in Nat /\ Cardinality(Events(R)) \in Nat
  BY <1>3, <1>4
<1>7. Cardinality(NotEvicted(Q, todo)) <= Cardinality(NotEvicted(R, todo)) /\ Cardinality(NotEvicted(Q, todo)) \in Nat /\ Cardinality(NotEvicted(R, todo)) \in Nat
  BY <1>3, <1>5
<1> QED BY <1>2, <1>6, <1>7

LEMMA TimeCopies ==
    ASSUME NEW R \in SUBSET PageRecords, IsFiniteSet(R), NEW Q, Q = Later(R) \/ Q = Aged(R), NEW todo
    PROVE  /\ Q \in SUBSET PageRecords /\ IsFiniteSet(Q) /\ (R = {} => Q = {})
           /\ \A x \in R : \E y \in Q : y.key = x.key
           /\ Cardinality(Events(Q)) <= Cardinality(Events(R)) /\ Cardinality(NotEvicted(Q, todo)) <= Cardinality(NotEvicted(R, todo))
           /\ Cardinality(Events(Q)) \in Nat /\ Cardinality(Events(R)) \in Nat
           /\ Cardinality(NotEvicted(Q, todo)) \in Nat /\ Cardinality(NotEvicted(R, todo)) \in Nat
<1>0. \E g : Renewal(R, Q, g)
  <2>1. CASE Q = Later(R)
    <3> DEFINE f == [r \in R |-> [r EXCEPT !.waiting = FALSE]]
    <3>1. f \in [R -> Q] /\ (\A y \in Q : \E x \in R : f[x] = y) /\ \A x \in R : f[x] = [x EXCEPT !.waiting = FALSE]
      BY <2>1 DEF Later
    <3>2. \A x \in R : f[x] \in PageRecords /\ f[x].key = x.key
      <4> TAKE x \in R
      <4>1. x \in PageRecords /\ f[x] = [x EXCEPT !.waiting = FALSE] OBVIOUS
      <4> HIDE DEF f
      <4> QED BY <4>1 DEF PageRecords
    <3> HIDE DEF f
    <3> QED BY <3>1, <3>2 DEF Renewal
  <2>2. CASE Q = Aged(R)
    <3> DEFINE f == [r \in R |-> [r EXCEPT !.old = TRUE]]
    <3>1. f \in [R -> Q] /\ (\A y \in Q : \E x \in R : f[x] = y) /\ \A x \in R : f[x] = [x EXCEPT !.old = TRUE]
      BY <2>2 DEF Aged
    <3>2. \A x \in R : f[x] \in PageRecords /\ f[x].key = x.key
      <4> TAKE x \in R
      <4>1. x \in PageRecords /\ f[x] = [x EXCEPT !.old = TRUE] OBVIOUS
      <4> HIDE DEF f
      <4> QED BY <4>1 DEF PageRecords
    <3> HIDE DEF f
    <3> QED BY <3>1, <3>2 DEF Renewal
  <2> QED BY <2>1, <2>2
<1>1. PICK g : Renewal(R, Q, g) BY <1>0
<1> QED BY <1>1, Renewed

LEMMA TimePassesInv ==
    ASSUME BrowserInv, TimePasses
    PROVE  BrowserInv'
<1>1. /\ UNCHANGED <<useFallback, tab, accepted, ingested, discarded>>
      /\ idb' = Later(idb) \/ idb' = Aged(idb)
      /\ \A t \in Tabs : memory'[t] = Later(memory[t]) \/ memory'[t] = Aged(memory[t])
  BY DEF TimePasses, pageHistory
<1>2. memory' = [t \in Tabs |-> memory'[t]] BY DEF TimePasses
<1>3. PageTypes /\ StoreTypes BY InvHasStores DEF BrowserInv
<1>4. idb' \in SUBSET PageRecords /\ IsFiniteSet(idb') /\ \A x \in idb : \E y \in idb' : y.key = x.key
  BY <1>1, <1>3, TimeCopies DEF StoreTypes
<1>5. ASSUME NEW t \in Tabs
      PROVE  /\ memory'[t] \in SUBSET PageRecords /\ TabIsTrue(t)'
             /\ \A x \in memory[t] : \E y \in memory'[t] : y.key = x.key
  <2> DEFINE todo == tab[t].todo
             R == memory[t]
             Q == memory'[t]
  <2>1. R \in SUBSET PageRecords /\ IsFiniteSet(R) /\ TabIsTrue(t) /\ (Q = Later(R) \/ Q = Aged(R))
    BY <1>1, <1>3 DEF StoreTypes, BrowserInv
  <2> HIDE DEF R, Q, todo
  <2>2. /\ Q \in SUBSET PageRecords /\ IsFiniteSet(Q) /\ (R = {} => Q = {})
        /\ \A x \in R : \E y \in Q : y.key = x.key
        /\ Cardinality(Events(Q)) <= Cardinality(Events(R)) /\ Cardinality(NotEvicted(Q, todo)) <= Cardinality(NotEvicted(R, todo))
        /\ Cardinality(Events(Q)) \in Nat /\ Cardinality(Events(R)) \in Nat
        /\ Cardinality(NotEvicted(Q, todo)) \in Nat /\ Cardinality(NotEvicted(R, todo)) \in Nat
    BY <2>1, TimeCopies
  <2>3. TabIsTrue(t)' BY <2>1, <2>2, BrowserSpoolAssumption, <1>1 DEF TabIsTrue, R, todo, Q
  <2> QED BY <2>2, <2>3 DEF R, Q
<1>6. memory' \in [Tabs -> SUBSET PageRecords] BY <1>2, <1>5
<1>7. PageTypes' BY <1>1, <1>3, <1>4, <1>6 DEF PageTypes
<1>8. \A e : InStores(e) => InStores(e)' BY <1>4, <1>5 DEF InStores
<1> QED BY <1>5, <1>7, <1>1, <1>8, Everything DEF BrowserInv

LEMMA CloseInv ==
    ASSUME BrowserInv, NEW t \in Tabs, Close(t)
    PROVE  BrowserInv'
<1>1. /\ discarded' = discarded \cup RecordKeys(memory[t])
      /\ memory' = [memory EXCEPT ![t] = {}] /\ useFallback' = [useFallback EXCEPT ![t] = FALSE]
      /\ Goto(t, IdleTab) /\ UNCHANGED <<idb, accepted, ingested>>
  BY DEF Close, Goto, pageHistory
<1>2. /\ StoreTypes /\ accepted \in SUBSET PageEvents
      /\ \A e \in accepted : InStores(e) \/ e \in ingested \/ e \in discarded
  BY TabFacts
<1>3. memory'[t] = {} /\ OthersKeep(t) /\ memory' \in [Tabs -> SUBSET PageRecords] /\ useFallback' \in [Tabs -> BOOLEAN]
  BY <1>1, <1>2 DEF StoreTypes, OthersKeep
<1>4. StoreTypes' BY <1>1, <1>2, <1>3, EmptyMemory DEF StoreTypes, OthersKeep
<1>5. IdleTab \in TabTasks /\ IdleTab.pc = "idle" /\ tab'[t] = IdleTab
  BY <1>1, IdleIsTask, NextTask DEF IdleTab, Task
<1>6. TabIsTrue(t)' BY <1>3, <1>4, <1>5 DEF TabIsTrue, StoreTypes
<1>7. ASSUME NEW e, InStores(e) PROVE InStores(e)' \/ e \in discarded'
  <2>1. CASE \E r \in idb : r.key = e BY <1>1, <2>1 DEF InStores
  <2>2. CASE \E u \in Tabs : \E r \in memory[u] : r.key = e
    BY <2>2, <1>1, <1>3 DEF RecordKeys, InStores, OthersKeep
  <2> QED BY <1>7, <2>1, <2>2 DEF InStores
<1>8. \A e \in accepted' : Accounted(e)' BY <1>1, <1>2, <1>7, Everything
<1> QED BY <1>1, <1>2, <1>3, <1>4, <1>5, <1>6, <1>8, TabStepInv

\* However the tabs interleave, whichever store call fails and whenever a tab
\* is closed, no enqueued event is lost without a trace and no enqueue fills a
\* memory beyond its bound.
LEMMA BrowserSound == BrowserSpoolSpec => []BrowserSpoolIsSafe
<1>1. BrowserSpoolInit => BrowserInv BY BrowserInit
<1>2. BrowserInv /\ [BrowserSpoolNext]_pageVars => BrowserInv'
  <2> SUFFICES ASSUME BrowserInv, [BrowserSpoolNext]_pageVars PROVE BrowserInv' OBVIOUS
  <2>1. CASE BrowserSpoolNext
    BY <2>1, EnqueueInv, EvictInv, PutEventInv, DiagnoseInv, PutDiagnosticInv, FlushListInv, SkipInv, DeliverInv,
      SettleInv, CloseInv, TimePassesInv DEF BrowserSpoolNext
  <2>2. CASE UNCHANGED pageVars
    BY <2>2 DEF pageVars, pageStores, pageHistory, BrowserInv, PageTypes, TabIsTrue, Accounted
  <2> QED BY <2>1, <2>2
<1>3. BrowserInv => BrowserSpoolIsSafe
  <2> SUFFICES ASSUME BrowserInv PROVE BrowserSpoolIsSafe OBVIOUS
  <2>1. BrowserSpoolConserves
    <3> SUFFICES ASSUME NEW e \in accepted
                 PROVE  e \in RecordKeys(idb) \cup (UNION {RecordKeys(memory[t]) : t \in Tabs}) \cup ingested \cup discarded
      BY DEF BrowserSpoolConserves
    <3>1. CASE \E r \in idb : r.key = e BY <3>1 DEF RecordKeys
    <3>2. CASE \E t \in Tabs : \E r \in memory[t] : r.key = e BY <3>2 DEF RecordKeys
    <3>3. Accounted(e) BY DEF BrowserInv
    <3>4. CASE e \in ingested \/ e \in discarded BY <3>4
    <3> HIDE DEF RecordKeys
    <3> QED BY <3>1, <3>2, <3>3, <3>4, Zenon DEF Accounted
  <2>2. EnqueueIsBounded BY DEF BrowserInv, TabIsTrue, EnqueueIsBounded
  <2> QED BY <2>1, <2>2 DEF BrowserSpoolIsSafe
<1> QED BY <1>1, <1>2, <1>3, PTL DEF BrowserSpoolSpec

-----
(* Captured exceptions. *)
CaptureKeys == [of : ErrorObjects, nth : Nat]
Contexts == [level : 0..2, generic : BOOLEAN, levels : SUBSET (0..2), specific : BOOLEAN]
Captures == [key : CaptureKeys, id : Nat, context : Contexts]
Live == deferredCaptures \cup pendingCaptures
Itself(e) == [of |-> e, nth |-> 0]

CaptureTypes ==
    /\ captureCount \in 0..MaxCaptures /\ Live \subseteq Captures
    /\ eventIds \in [ErrorObjects -> 0..captureCount] /\ reports \in [1..MaxCaptures -> Nat]
    /\ \A d \in Live : d.id \in 1..captureCount
    /\ \A id \in 1..MaxCaptures : id > captureCount => reports[id] = 0

\* An event id is given to one object.
IdsAreOwn ==
    /\ \A d, other \in Live : d.id = other.id => d.key.of = other.key.of
    /\ \A d \in Live, e \in ErrorObjects : d.id = eventIds[e] => d.key.of = e
    /\ \A e, f \in ErrorObjects : eventIds[e] # 0 /\ eventIds[e] = eventIds[f] => e = f

\* A secondary occurrence has an id of its own and is deferred or pending once.
SecondaryOnce ==
    \A d \in Live : d.key.nth # 0 =>
        /\ reports[d.id] = 0 /\ \A e \in ErrorObjects : eventIds[e] # d.id
        /\ \A other \in Live : other.id = d.id => other = d
        /\ d \notin deferredCaptures \/ d \notin pendingCaptures

\* An object itself has one capture, which is deferred until the object counts
\* as delivered; that it counts is undone only when its report fails.
PrimaryOnce ==
    \A e \in ErrorObjects \ reusable :
        /\ \A d \in Live : d.key = Itself(e) =>
              /\ d.id = eventIds[e] /\ reports[d.id] = 0
              /\ d \in pendingCaptures => e \in deliveredErrors
              /\ d \in deferredCaptures => e \notin deliveredErrors
              /\ \A other \in Live : other.key = Itself(e) => other = d
        /\ eventIds[e] # 0 /\ reports[eventIds[e]] > 0 =>
              e \in deliveredErrors /\ \A d \in Live : d.key # Itself(e)

ContextIsTrue(context) ==
    /\ context \in Contexts /\ context.levels # {}
    /\ context.level = Max(context.levels) /\ (context.generic <=> ~context.specific)
ContextsAreTrue == \A d \in Live : ContextIsTrue(d.context)

CaptureInv == CaptureTypes /\ IdsAreOwn /\ SecondaryOnce /\ PrimaryOnce /\ ContextsAreTrue

LEMMA MaxOfLevels ==
    ASSUME NEW A \in SUBSET (0..2), A # {}
    PROVE  Max(A) \in A /\ \A y \in A : y <= Max(A)
<1>1. PICK x \in A : \A y \in A : x >= y
  <2>1. CASE 2 \in A BY <2>1
  <2>2. CASE 2 \notin A /\ 1 \in A BY <2>2
  <2>3. CASE 2 \notin A /\ 1 \notin A
    <3>1. \A y \in A : y = 0 BY <2>3
    <3>2. 0 \in A BY <3>1
    <3> QED BY <3>1, <3>2
  <2> QED BY <2>1, <2>2, <2>3
<1>2. Max(A) \in A /\ \A y \in A : Max(A) >= y BY <1>1 DEF Max
<1> QED BY <1>2

LEMMA MergedContext ==
    ASSUME NEW a, NEW b, ContextIsTrue(a), ContextIsTrue(b)
    PROVE  ContextIsTrue(MergeCaptureContext(a, b))
<1> DEFINE m == MergeCaptureContext(a, b)
           L == a.levels \cup b.levels
           T == {a.level, b.level}
<1>1. a.level = Max(a.levels) /\ b.level = Max(b.levels) /\ a \in Contexts /\ b \in Contexts
      /\ a.levels \in SUBSET (0..2) /\ b.levels \in SUBSET (0..2) /\ a.levels # {} /\ b.levels # {}
  BY DEF ContextIsTrue, Contexts
<1>2. L \in SUBSET (0..2) /\ L # {} /\ T \in SUBSET (0..2) /\ T # {} BY <1>1 DEF Contexts
<1>3. /\ Max(L) \in L /\ \A y \in L : y <= Max(L)
      /\ Max(T) \in T /\ \A y \in T : y <= Max(T)
      /\ a.level \in a.levels /\ \A y \in a.levels : y <= a.level
      /\ b.level \in b.levels /\ \A y \in b.levels : y <= b.level
  BY <1>1, <1>2, MaxOfLevels
<1>4. Max(L) = Max(T) BY <1>1, <1>2, <1>3 DEF Contexts
<1>5. m = [level |-> Max(T), generic |-> a.generic /\ b.generic, levels |-> L, specific |-> a.specific \/ b.specific]
  BY DEF MergeCaptureContext
<1>6. a.generic \in BOOLEAN /\ b.generic \in BOOLEAN /\ a.specific \in BOOLEAN /\ b.specific \in BOOLEAN
  BY <1>1 DEF Contexts
<1>8. m \in Contexts BY <1>2, <1>3, <1>5, <1>6 DEF Contexts
<1> QED BY <1>2, <1>4, <1>5, <1>6, <1>8 DEF ContextIsTrue

LEMMA NewContext ==
    ASSUME NEW level \in CaptureLevels, NEW generic \in BOOLEAN
    PROVE  ContextIsTrue(Context(level, generic))
<1>1. level \in 0..2 /\ {level} \in SUBSET (0..2) BY CaptureAssumption
<1>2. Max({level}) = level BY <1>1, MaxOfLevels
<1> QED BY <1>2, <1>1 DEF Context, ContextIsTrue, Contexts

LEMMA CaptureInitInv == CaptureInit => CaptureInv
  BY CaptureAssumption DEF CaptureInit, CaptureInv, CaptureTypes, IdsAreOwn, SecondaryOnce, PrimaryOnce, ContextsAreTrue, Live

LEMMA FlushInv == CaptureInv /\ Flush => CaptureInv'
<1> SUFFICES ASSUME CaptureInv, Flush PROVE CaptureInv' OBVIOUS
<1>1. /\ deferredCaptures' = {} /\ pendingCaptures' = pendingCaptures \cup deferredCaptures
      /\ UNCHANGED <<eventIds, captureCount, bound, reports, reusable, reportFaults>>
      /\ \A e : e \in deliveredErrors' <=>
            e \in deliveredErrors \/ \E d \in deferredCaptures : d.key.nth = 0 /\ d.key.of = e
  BY DEF Flush, Dispatch
<1>2. Live' = Live BY <1>1 DEF Live
<1>4. SecondaryOnce' BY <1>1, <1>2 DEF CaptureInv, SecondaryOnce
<1>5. PrimaryOnce' BY <1>1, <1>2 DEF PrimaryOnce, Live, Itself, CaptureInv
<1> QED BY <1>1, <1>2, <1>4, <1>5 DEF CaptureInv, CaptureTypes, IdsAreOwn, ContextsAreTrue

LEMMA ReportSettlesInv == ASSUME CaptureInv, NEW d \in pendingCaptures, ReportSettles(d) PROVE CaptureInv'
<1>1. /\ deferredCaptures' = deferredCaptures /\ pendingCaptures' = pendingCaptures \ {d}
      /\ UNCHANGED <<eventIds, captureCount, reusable>>
      /\ d \in Captures /\ d.id \in 1..captureCount /\ d.id \in 1..MaxCaptures /\ d \in Live
  BY CaptureAssumption DEF Live, CaptureInv, CaptureTypes, ReportSettles
<1>2. Live' \subseteq Live /\ \A x \in Live' : x # d \/ d \in deferredCaptures BY <1>1 DEF Live
<1>3. /\ reports' \in [1..MaxCaptures -> Nat] /\ \A id \in 1..MaxCaptures : id # d.id => reports'[id] = reports[id]
      /\ reports'[d.id] = reports[d.id]
            \/ (reports'[d.id] = reports[d.id] + 1 /\ deliveredErrors' = deliveredErrors)
      /\ \A id \in 1..MaxCaptures : reports'[id] \in Nat
      /\ deliveredErrors' = deliveredErrors
            \/ (d.key.nth = 0 /\ deliveredErrors' = deliveredErrors \ {d.key.of} /\ reports' = reports)
  <2>1. reports \in [1..MaxCaptures -> Nat] BY DEF CaptureInv, CaptureTypes
  <2>2. CASE reports' = [reports EXCEPT ![d.id] = @ + 1] /\ deliveredErrors' = deliveredErrors
    BY <1>1, <2>1, <2>2
  <2>3. CASE /\ reports' = reports
             /\ deliveredErrors' = IF d.key.nth = 0 THEN deliveredErrors \ {d.key.of} ELSE deliveredErrors
    BY <2>1, <2>3
  <2> QED BY <2>2, <2>3 DEF ReportSettles
<1>4. CaptureTypes' BY <1>1, <1>2, <1>3 DEF CaptureInv, CaptureTypes
<1>6. SecondaryOnce'
  <2> SUFFICES ASSUME NEW x \in Live', x.key.nth # 0
               PROVE  /\ reports'[x.id] = 0 /\ \A e \in ErrorObjects : eventIds[e] # x.id
                      /\ \A other \in Live' : other.id = x.id => other = x
                      /\ x \notin deferredCaptures' \/ x \notin pendingCaptures'
    BY <1>1 DEF SecondaryOnce
  <2>1. /\ x \in Live /\ reports[x.id] = 0 /\ \A e \in ErrorObjects : eventIds[e] # x.id
        /\ \A other \in Live : other.id = x.id => other = x
        /\ x \notin deferredCaptures \/ x \notin pendingCaptures
    BY <1>2 DEF CaptureInv, SecondaryOnce
  <2>2. x # d BY <1>2, <2>1
  <2>3. x.id # d.id /\ x.id \in 1..MaxCaptures
    BY <2>1, CaptureAssumption, <1>1, <2>2 DEF CaptureInv, CaptureTypes
  <2> QED BY <1>1, <1>2, <1>3, <2>1, <2>3
<1>7. PrimaryOnce'
  <2> SUFFICES ASSUME NEW e \in ErrorObjects \ reusable
               PROVE  /\ \A x \in Live' : x.key = Itself(e) =>
                            /\ x.id = eventIds[e] /\ reports'[x.id] = 0
                            /\ x \in pendingCaptures' => e \in deliveredErrors'
                            /\ x \in deferredCaptures' => e \notin deliveredErrors'
                            /\ \A other \in Live' : other.key = Itself(e) => other = x
                      /\ eventIds[e] # 0 /\ reports'[eventIds[e]] > 0 =>
                            e \in deliveredErrors' /\ \A x \in Live' : x.key # Itself(e)
    BY <1>1 DEF PrimaryOnce
  <2>1. /\ \A x \in Live : x.key = Itself(e) =>
              /\ x.id = eventIds[e] /\ reports[x.id] = 0
              /\ x \in pendingCaptures => e \in deliveredErrors
              /\ x \in deferredCaptures => e \notin deliveredErrors
              /\ \A other \in Live : other.key = Itself(e) => other = x
        /\ eventIds[e] # 0 /\ reports[eventIds[e]] > 0 =>
              e \in deliveredErrors /\ \A x \in Live : x.key # Itself(e)
    BY DEF CaptureInv, PrimaryOnce
  <2>2. eventIds[e] \in 0..captureCount /\ captureCount \in 0..MaxCaptures BY DEF CaptureInv, CaptureTypes
  <2>3. CASE d.key = Itself(e) BY <1>1, <1>2, <2>1, <2>3, <1>3
  <2>4. CASE d.key # Itself(e)
    <3>1. e \in deliveredErrors' <=> e \in deliveredErrors BY <1>1, <1>3, <2>4 DEF Itself, Captures, CaptureKeys
    <3>2. eventIds[e] # 0 => d.id # eventIds[e] \/ (d.key.of = e /\ d.key.nth # 0)
      BY <1>1, <2>4 DEF CaptureInv, IdsAreOwn, Itself, Captures, CaptureKeys
    <3>3. d.key.nth # 0 => eventIds[e] # d.id BY <1>1 DEF CaptureInv, SecondaryOnce
    <3>4. eventIds[e] # 0 => reports'[eventIds[e]] = reports[eventIds[e]]
      BY <2>2, CaptureAssumption, <3>2, <3>3, <1>3
    <3> QED BY <1>1, <1>2, <2>1, <3>1, <3>4 DEF CaptureInv, CaptureTypes
  <2> QED BY <2>3, <2>4
<1> QED BY <1>4, <1>1, <1>2, <1>6, <1>7 DEF CaptureInv, IdsAreOwn, ContextsAreTrue

\* A capture: of the object itself, or of a secondary occurrence of it.
LEMMA CaptureOnceInv ==
    ASSUME CaptureInv, NEW e \in ErrorObjects, NEW level \in CaptureLevels, NEW generic \in BOOLEAN,
           NEW opts \in CaptureOptions, CaptureOnce(e, Context(level, generic), opts)
    PROVE  CaptureInv'
<1> DEFINE secondary == IsSecondary(e, opts)
           key == IF secondary THEN SecondaryOccurrenceKey(e) ELSE Itself(e)
           id == IF ~secondary /\ eventIds[e] # 0 THEN eventIds[e] ELSE captureCount + 1
           earlier == Deferred(key)
           merged == IF earlier = {} THEN Context(level, generic)
                     ELSE MergeCaptureContext((CHOOSE d \in earlier : TRUE).context, Context(level, generic))
           capture == [key |-> key, id |-> id, context |-> merged]
           next == captureCount + 1
<1>1. ContextIsTrue(merged)
  BY NewContext, MergedContext DEF Deferred, CaptureInv, ContextsAreTrue, Live
<1>2. /\ captureCount \in 0..MaxCaptures /\ captureCount < MaxCaptures /\ captureCount' = next /\ next \in 1..MaxCaptures
      /\ eventIds[e] \in 0..captureCount /\ MaxCaptures \in Nat
  BY CaptureAssumption DEF CaptureOnce, CaptureInv, CaptureTypes
<1>3. /\ key \in CaptureKeys /\ key.of = e /\ id \in 1..next
      /\ secondary => key.nth = next /\ id = next
      /\ ~secondary => key = Itself(e) /\ (id = eventIds[e] \/ (eventIds[e] = 0 /\ id = next))
  BY <1>2 DEF SecondaryOccurrenceKey, Itself, CaptureKeys
<1>4. UNCHANGED reports /\ earlier \subseteq deferredCaptures /\ \A d \in deferredCaptures : d \in earlier <=> d.key = key
  BY DEF CaptureOnce, Deferred
<1> SUFFICES ASSUME
        \/ /\ ~secondary /\ e \in deliveredErrors
           /\ eventIds' = [eventIds EXCEPT ![e] = id]
           /\ UNCHANGED <<deliveredErrors, deferredCaptures, pendingCaptures, reusable>>
        \/ /\ secondary \/ e \notin deliveredErrors
           /\ deferredCaptures' = (deferredCaptures \ earlier) \cup {capture}
           /\ eventIds' = IF secondary THEN eventIds ELSE [eventIds EXCEPT ![e] = id]
           /\ UNCHANGED <<deliveredErrors, pendingCaptures, reusable>>
        \/ /\ secondary \/ e \notin deliveredErrors
           /\ deferredCaptures' = deferredCaptures \ earlier
           /\ pendingCaptures' = pendingCaptures \cup {capture}
           /\ \/ /\ eventIds' = [eventIds EXCEPT ![e] = 0]
                 /\ deliveredErrors' = deliveredErrors \ {e}
                 /\ reusable' = reusable \cup {e}
              \/ /\ eventIds' = IF secondary THEN eventIds ELSE [eventIds EXCEPT ![e] = id]
                 /\ deliveredErrors' = IF secondary THEN deliveredErrors ELSE deliveredErrors \cup {e}
                 /\ UNCHANGED reusable
    PROVE CaptureInv'
  BY DEF CaptureOnce, Itself
<1>5. capture \in Captures /\ capture.key = key /\ capture.id = id /\ capture.context = merged
  BY <1>1, <1>2, <1>3 DEF Captures, ContextIsTrue
<1>6. \A d \in Live' : d = capture \/ (d \in Live /\ (d \in deferredCaptures => d \in pendingCaptures \/ d.key # key))
                        \/ (d \in Live /\ ~secondary /\ e \in deliveredErrors)
  BY <1>4 DEF Live
<1> HIDE DEF secondary, key, id, earlier, merged, capture
<1>7. /\ \A f \in ErrorObjects : f # e => eventIds'[f] = eventIds[f]
      /\ eventIds'[e] = eventIds[e] \/ eventIds'[e] = 0 \/ (~secondary /\ eventIds'[e] = id)
      /\ eventIds' \in [ErrorObjects -> 0..next]
  <2>1. eventIds \in [ErrorObjects -> 0..captureCount] BY DEF CaptureInv, CaptureTypes
  <2>2. 0..captureCount \subseteq 0..next /\ id \in 0..next BY <1>2, <1>3
  <2>3. CASE eventIds' = eventIds BY <2>1, <2>2, <2>3
  <2>4. CASE ~secondary /\ eventIds' = [eventIds EXCEPT ![e] = id] BY <2>1, <2>2, <2>4
  <2>5. CASE eventIds' = [eventIds EXCEPT ![e] = 0] BY <1>2, <2>1, <2>2, <2>5
  <2> QED BY <2>3, <2>4, <2>5
<1>8. /\ \A d \in Live : d \in Captures /\ d.id \in 1..captureCount /\ d.id # next /\ d.id # 0
      /\ \A f \in ErrorObjects : eventIds[f] # next
  BY <1>2 DEF CaptureInv, CaptureTypes
<1>9. CaptureTypes' BY <1>2, <1>3, <1>5, <1>6, <1>8, <1>4, <1>7 DEF CaptureInv, CaptureTypes
<1>10. ContextsAreTrue' BY <1>1, <1>5, <1>6 DEF CaptureInv, ContextsAreTrue
<1>11. \A d \in Live : d.id = id => ~secondary /\ id = eventIds[e] /\ d.key.of = e /\ d.key.nth = 0
  BY <1>3, <1>8 DEF CaptureInv, IdsAreOwn, SecondaryOnce, Captures, CaptureKeys
<1>12. IdsAreOwn'
  <2>1. ASSUME NEW d \in Live', NEW other \in Live', d.id = other.id PROVE d.key.of = other.key.of
    BY <1>3, <1>5, <1>6, <1>11, <2>1 DEF CaptureInv, IdsAreOwn
  <2>2. ASSUME NEW d \in Live', NEW f \in ErrorObjects, d.id = eventIds'[f] PROVE d.key.of = f
    <3>1. CASE f = e BY <1>3, <1>5, <1>6, <1>7, <1>8, <1>11, <2>2, <3>1 DEF CaptureInv, IdsAreOwn
    <3>2. CASE f # e
      <4>1. eventIds'[f] = eventIds[f] /\ eventIds[f] # next BY <1>7, <1>8, <3>2
      <4>2. CASE d \in Live BY <2>2, <4>1, <4>2 DEF CaptureInv, IdsAreOwn
      <4>3. CASE d = capture BY <1>2, <1>3, <1>5, <2>2, <4>1, <4>3, <3>2 DEF CaptureInv, IdsAreOwn
      <4> QED BY <1>6, <4>2, <4>3
    <3> QED BY <3>1, <3>2
  <2>3. ASSUME NEW f \in ErrorObjects, NEW g \in ErrorObjects, eventIds'[f] # 0, eventIds'[f] = eventIds'[g] PROVE f = g
    BY <1>3, <1>7, <1>8, <2>3 DEF CaptureInv, IdsAreOwn
  <2> QED BY <2>1, <2>2, <2>3 DEF IdsAreOwn
<1>13. SecondaryOnce'
  <2> SUFFICES ASSUME NEW d \in Live', d.key.nth # 0
               PROVE  /\ reports[d.id] = 0 /\ \A f \in ErrorObjects : eventIds'[f] # d.id
                      /\ \A other \in Live' : other.id = d.id => other = d
                      /\ d \notin deferredCaptures' \/ d \notin pendingCaptures'
    BY <1>4 DEF SecondaryOnce
  <2>1. CASE d \in Live
    <3>1. /\ reports[d.id] = 0 /\ \A f \in ErrorObjects : eventIds[f] # d.id
          /\ \A other \in Live : other.id = d.id => other = d
          /\ d \notin deferredCaptures \/ d \notin pendingCaptures
      BY <2>1 DEF CaptureInv, SecondaryOnce
    <3>2. d.id # id BY <1>11, <2>1
    <3>3. d # capture BY <1>5, <3>2
    <3>4. \A f \in ErrorObjects : eventIds'[f] # d.id BY <1>7, <1>8, <2>1, <3>1, <3>2
    <3>5. \A other \in Live' : other.id = d.id => other = d BY <1>5, <1>6, <3>1, <3>2
    <3> QED BY <3>1, <3>4, <3>5, <3>3
  <2>2. CASE d = capture /\ d \notin Live
    <3>1. secondary /\ id = next BY <1>3, <1>5, <2>2 DEF Itself
    <3>2. reports[id] = 0 BY <1>2, <3>1 DEF CaptureInv, CaptureTypes
    <3>3. \A f \in ErrorObjects : eventIds'[f] # next BY <1>2, <1>7, <1>8, <3>1
    <3>4. \A other \in Live' : other.id = next => other = d BY <1>6, <1>8, <2>2
    <3> QED BY <1>5, <2>2, <3>1, <3>2, <3>3, <3>4 DEF Live
  <2> QED BY <1>6, <2>1, <2>2
<1>14. PrimaryOnce'
  <2> SUFFICES ASSUME NEW f \in ErrorObjects \ reusable'
               PROVE  /\ \A x \in Live' : x.key = Itself(f) =>
                            /\ x.id = eventIds'[f] /\ reports[x.id] = 0
                            /\ x \in pendingCaptures' => f \in deliveredErrors'
                            /\ x \in deferredCaptures' => f \notin deliveredErrors'
                            /\ \A other \in Live' : other.key = Itself(f) => other = x
                      /\ eventIds'[f] # 0 /\ reports[eventIds'[f]] > 0 =>
                            f \in deliveredErrors' /\ \A x \in Live' : x.key # Itself(f)
    BY <1>4 DEF PrimaryOnce
  <2>1. /\ \A x \in Live : x.key = Itself(f) =>
              /\ x.id = eventIds[f] /\ reports[x.id] = 0
              /\ x \in pendingCaptures => f \in deliveredErrors
              /\ x \in deferredCaptures => f \notin deliveredErrors
              /\ \A other \in Live : other.key = Itself(f) => other = x
        /\ eventIds[f] # 0 /\ reports[eventIds[f]] > 0 =>
              f \in deliveredErrors /\ \A x \in Live : x.key # Itself(f)
    BY DEF CaptureInv, PrimaryOnce
  <2>2. CASE f # e \/ secondary BY <1>2, <1>3, <1>5, <2>2, <1>6, <1>7, <2>1 DEF Itself
  <2>3. CASE f = e /\ ~secondary /\ e \in deliveredErrors
    <3>1. /\ UNCHANGED <<deliveredErrors, deferredCaptures, pendingCaptures>>
          /\ eventIds'[e] = id
      BY <2>3 DEF CaptureInv, CaptureTypes
    <3>3. eventIds[e] = 0 => reports[eventIds'[e]] = 0 /\ \A x \in Live : x.key # Itself(e)
      BY <2>3, <1>2, <1>8, <2>1, <3>1 DEF id, CaptureInv, CaptureTypes
    <3> QED BY <2>1, <2>3, <3>1, <1>2, <1>3, <1>7, <3>3 DEF Live, id
  <2>4. CASE f = e /\ ~secondary /\ e \notin deliveredErrors
    <3>1. key = Itself(e) BY <1>3, <2>4
    <3>3. \A x \in Live' : x.key = Itself(e) => x = capture BY <1>6, <2>1, <2>4, <3>1 DEF Live
    <3>4. eventIds'[e] = id BY <2>4 DEF CaptureInv, CaptureTypes
    <3>5. reports[id] = 0
      <4>1. CASE eventIds[e] # 0 BY <1>2, <2>4, <4>1, <2>1 DEF id, CaptureInv, CaptureTypes
      <4>2. CASE eventIds[e] = 0
        <5>1. id = next BY <2>4, <4>2 DEF id
        <5> QED BY <1>2, <5>1 DEF CaptureInv, CaptureTypes
      <4> QED BY <4>1, <4>2
    <3>6. capture \in pendingCaptures' => e \in deliveredErrors' BY <1>5, <2>1, <2>4, <3>1 DEF Live
    <3>7. capture \in deferredCaptures' => e \notin deliveredErrors' BY <1>4, <1>5, <2>4
    <3> QED BY <1>5, <2>4, <3>3, <3>4, <3>5, <3>6, <3>7
  <2> QED BY <2>2, <2>3, <2>4
<1> QED BY <1>9, <1>10, <1>12, <1>13, <1>14 DEF CaptureInv

LEMMA CaptureNextInv == CaptureInv /\ [CaptureNext]_captureVars => CaptureInv'
<1> SUFFICES ASSUME CaptureInv, [CaptureNext]_captureVars PROVE CaptureInv' OBVIOUS
<1>1. CASE UNCHANGED captureVars \/ Bind
  <2>1. UNCHANGED <<eventIds, deliveredErrors, deferredCaptures, pendingCaptures, captureCount, reports, reusable>>
    BY <1>1 DEF captureVars, Bind
  <2>2. CaptureTypes' /\ IdsAreOwn' /\ ContextsAreTrue'
    BY <2>1 DEF CaptureInv, CaptureTypes, IdsAreOwn, ContextsAreTrue, Live
  <2>3. SecondaryOnce' BY <2>1 DEF CaptureInv, SecondaryOnce, Live
  <2>4. PrimaryOnce' BY <2>1 DEF CaptureInv, PrimaryOnce, Live
  <2> QED BY <2>2, <2>3, <2>4 DEF CaptureInv
<1>2. CASE Flush BY <1>2, FlushInv
<1>3. ASSUME NEW e \in ErrorObjects, NEW level \in CaptureLevels, NEW generic \in BOOLEAN,
             NEW opts \in CaptureOptions, CaptureOnce(e, Context(level, generic), opts)
      PROVE  CaptureInv'
  BY <1>3, CaptureOnceInv
<1>4. CASE \E d \in pendingCaptures : ReportSettles(d) BY <1>4, ReportSettlesInv
<1> QED BY <1>1, <1>2, <1>3, <1>4 DEF CaptureNext

LEMMA CaptureSound == CaptureSpec => []CaptureIsSound
<1>1. CaptureInv => CaptureIsSound
  <2> SUFFICES ASSUME CaptureInv PROVE CaptureIsSound OBVIOUS
  <2>1. \A d \in Live : d \in Captures BY DEF CaptureInv, CaptureTypes
  <2>2. ASSUME NEW d \in Live, d.key.of \notin reusable
        PROVE  reports[d.id] = 0 /\ \A other \in Live \ {d} : other.id # d.id
    <3>1. CASE d.key.nth # 0 BY <3>1 DEF CaptureInv, SecondaryOnce
    <3>2. CASE d.key.nth = 0
      <4>2. reports[d.id] = 0 /\ \A other \in Live : other.key = Itself(d.key.of) => other = d
        BY <2>2, <2>1, <3>2 DEF CaptureInv, PrimaryOnce, Captures, CaptureKeys, Itself
      <4>3. ASSUME NEW other \in Live, other.id = d.id PROVE other = d
        BY <4>3, <2>1, <4>2 DEF CaptureInv, IdsAreOwn, SecondaryOnce, Captures, CaptureKeys, Itself
      <4> QED BY <4>2, <4>3
    <3> QED BY <3>1, <3>2
  <2>3. ReportedOnce BY <2>2 DEF ReportedOnce, Live
  <2>4. ASSUME NEW d \in Live PROVE d.context.level = Max(d.context.levels) /\ d.context.generic = ~d.context.specific
    BY DEF CaptureInv, ContextsAreTrue, ContextIsTrue, Contexts
  <2>5. ContextIsMerged BY <2>4 DEF ContextIsMerged, Live
  <2> QED BY <2>3, <2>5 DEF CaptureIsSound
<1> QED BY <1>1, CaptureInitInv, CaptureNextInv, PTL DEF CaptureSpec

-----
(* The gate of the telemetry requests. *)
\* What is stored of a copy that is accepted.
Wanted(c) == IF c[1] \in ServerRequests THEN BatchOf[c[1]] ELSE {c[1]}

GateTypes ==
    /\ second \in Nat /\ signedAt \in [ServerRequests -> Int]
    /\ handler = [c \in Copies |-> handler[c]]
    /\ \A c \in Copies :
          /\ handler[c] = [pc |-> handler[c].pc, now |-> handler[c].now, todo |-> handler[c].todo]
          /\ handler[c].now \in Nat /\ handler[c].now <= second

\* A server request is signed before it is received, and a copy is on the path
\* of its kind.
CopiesKnown ==
    \A c \in Copies :
        /\ handler[c].pc \in {"forget", "consume"} => c[1] \in ServerRequests /\ signedAt[c[1]] # -1
        /\ handler[c].pc = "count" => c[1] \notin ServerRequests

\* A nonce that let a copy pass is kept until the window is over.
NoncesKept ==
    /\ \A n \in nonces : n.of \in ServerRequests /\ signedAt[n.of] # -1 /\ n.expires = signedAt[n.of] + Window
    /\ \A p \in passes :
          /\ p.request \in ServerRequests /\ signedAt[p.request] # -1
          /\ (\E n \in nonces : n.of = p.request) \/ second >= signedAt[p.request] + Window

CountsHold == \A k \in DOMAIN counts : counts[k] \in Nat /\ counts[k] <= RateLimit

\* What is not stored yet is left to do.
StoredSoFar ==
    \A c \in Copies :
        /\ handler[c].pc = "store" => Wanted(c) \ handler[c].todo \subseteq rawRows
        /\ handler[c].pc = "accepted" => Wanted(c) \subseteq rawRows

GateInv == GateTypes /\ CopiesKnown /\ NoncesKept /\ PassesOnce /\ CountsHold /\ StoredSoFar

LEMMA GateInitInv == GateInit => GateInv
<1> SUFFICES ASSUME GateInit PROVE GateInv OBVIOUS
<1> USE DEF GateInit
<1>1. \A c \in Copies : handler[c] = [pc |-> "none", now |-> 0, todo |-> {}] BY DEF NotHandled
<1>2. GateTypes BY <1>1 DEF GateTypes
<1>3. CopiesKnown /\ StoredSoFar BY <1>1 DEF CopiesKnown, StoredSoFar
<1>4. NoncesKept /\ PassesOnce /\ CountsHold BY DEF NoncesKept, PassesOnce, CountsHold
<1> QED BY <1>2, <1>3, <1>4 DEF GateInv

\* A copy goes on while nothing else of the gate's invariant is touched.
LEMMA CopyGoes ==
    ASSUME GateInv, NEW c \in Copies, NEW pc, NEW now \in Nat, now <= second, NEW todo,
           Goes(c, [pc |-> pc, now |-> now, todo |-> todo]), UNCHANGED <<second, signedAt>>,
           pc \in {"forget", "consume"} => c[1] \in ServerRequests /\ signedAt[c[1]] # -1,
           pc = "count" => c[1] \notin ServerRequests,
           rawRows \subseteq rawRows',
           pc = "store" => Wanted(c) \ todo \subseteq rawRows',
           pc = "accepted" => Wanted(c) \subseteq rawRows'
    PROVE  GateTypes' /\ CopiesKnown' /\ StoredSoFar'
<1> DEFINE h == [pc |-> pc, now |-> now, todo |-> todo]
<1>7. handler = [d \in Copies |-> handler[d]] BY DEF GateInv, GateTypes
<1>1. /\ handler' = [d \in Copies |-> handler'[d]] /\ handler'[c] = h /\ \A d \in Copies : d # c => handler'[d] = handler[d]
  BY <1>7 DEF Goes
<1>2. h.pc = pc /\ h.now = now /\ h.todo = todo OBVIOUS
<1> HIDE DEF h
<1>4. GateTypes' BY <1>1, <1>2 DEF GateInv, GateTypes, h
<1>5. CopiesKnown' BY <1>1, <1>2 DEF GateInv, CopiesKnown
<1>6. StoredSoFar' BY <1>1, <1>2 DEF GateInv, StoredSoFar, Wanted
<1> QED BY <1>4, <1>5, <1>6

LEMMA HandlerFields ==
    ASSUME NEW h, h = [pc |-> h.pc, now |-> h.now, todo |-> h.todo], NEW x, NEW y
    PROVE  /\ [h EXCEPT !.pc = x] = [pc |-> x, now |-> h.now, todo |-> h.todo]
           /\ [h EXCEPT !.todo = y] = [pc |-> h.pc, now |-> h.now, todo |-> y]
           /\ [h EXCEPT !.pc = x, !.todo = y] = [pc |-> x, now |-> h.now, todo |-> y]
           /\ [NotHandled EXCEPT !.pc = x] = [pc |-> x, now |-> 0, todo |-> {}]
<1>1. PICK pc, now, todo : h = [pc |-> pc, now |-> now, todo |-> todo] OBVIOUS
<1>2. h.pc = pc /\ h.now = now /\ h.todo = todo BY <1>1
<1>3. [h EXCEPT !.pc = x] = [pc |-> x, now |-> now, todo |-> todo] BY ONLY <1>1
<1>4. [h EXCEPT !.todo = y] = [pc |-> pc, now |-> now, todo |-> y] BY ONLY <1>1
<1>5. [h EXCEPT !.pc = x, !.todo = y] = [[h EXCEPT !.pc = x] EXCEPT !.todo = y] BY ONLY <1>1
<1>6. [[pc |-> x, now |-> now, todo |-> todo] EXCEPT !.todo = y] = [pc |-> x, now |-> now, todo |-> y] OBVIOUS
<1>7. [NotHandled EXCEPT !.pc = x] = [pc |-> x, now |-> 0, todo |-> {}] BY DEF NotHandled
<1> QED BY <1>2, <1>3, <1>4, <1>5, <1>6, <1>7

\* The tables but those of the handlers stay.
LEMMA NoncesStay ==
    ASSUME GateInv, UNCHANGED <<second, signedAt, nonces, passes>>
    PROVE  NoncesKept' /\ PassesOnce'
  BY DEF GateInv, NoncesKept, PassesOnce

LEMMA ReceiveInv == ASSUME GateInv, NEW r \in GateRequests, Receive(r) PROVE GateInv'
<1> DEFINE c == <<r, copies[r] + 1>>
<1>1. UNCHANGED <<second, signedAt, nonces, counts, clientActive, rawRows, passes>> BY DEF Receive
<1>2. r \in ServerRequests => signedAt[r] # -1 BY DEF Receive
<1>3. c[1] = r /\ second \in Nat BY DEF GateInv, GateTypes
<1>4. NoncesKept' /\ PassesOnce' /\ CountsHold' BY <1>1, NoncesStay DEF GateInv, CountsHold
<1> HIDE DEF c
<1>9. ASSUME c \in Copies, NEW pc \in {"refused", "forget", "count"}, NEW now \in {0, second}, NEW todo,
             Goes(c, [pc |-> pc, now |-> now, todo |-> todo]),
             pc = "forget" => r \in ServerRequests, pc = "count" => r \notin ServerRequests
      PROVE  GateInv' BY <1>1, <1>3, <1>9, <1>2, CopyGoes, <1>4 DEF GateInv
<1>5. CASE c \notin Copies
  <2>1. handler' = handler
    <3>1. handler = [d \in Copies |-> handler[d]] BY DEF GateInv, GateTypes
    <3> HIDE DEF c
    <3> QED BY <1>5, <3>1 DEF Receive, Answered, Goes, c
  <2> QED BY <1>1, <1>4, <2>1 DEF GateInv, GateTypes, CopiesKnown, StoredSoFar
<1>6. CASE c \in Copies /\ Answered(c, "refused") BY <1>6, <1>9 DEF Answered, NotHandled
<1>7. CASE c \in Copies /\ r \in ServerRequests /\ Goes(c, [pc |-> "forget", now |-> second, todo |-> {}])
  BY <1>7, <1>9
<1>8. CASE c \in Copies /\ r \notin ServerRequests /\ Goes(c, [pc |-> "count", now |-> second, todo |-> {1}])
  BY <1>8, <1>9
<1> QED BY <1>5, <1>6, <1>7, <1>8 DEF Receive, c

LEMMA CopyStepInv ==
    ASSUME GateInv, NEW c \in Copies,
           ForgetNonces(c) \/ ConsumeNonce(c) \/ Increment(c) \/ StoreEnvelope(c) \/ RequestFails(c)
    PROVE  GateInv'
<1> DEFINE h == handler[c]
           r == c[1]
<1>1. h = [pc |-> h.pc, now |-> h.now, todo |-> h.todo] /\ h.now \in Nat /\ h.now <= second /\ second \in Nat
  BY DEF GateInv, GateTypes
<1>2. UNCHANGED <<second, signedAt>> BY DEF ForgetNonces, ConsumeNonce, Increment, StoreEnvelope, RequestFails
<1>3. /\ h.pc \in {"forget", "consume"} => r \in ServerRequests /\ signedAt[r] # -1
      /\ h.pc = "count" => r \notin ServerRequests
  BY DEF GateInv, CopiesKnown
<1>4. ASSUME NEW how \in {"refused", "failed"}, Answered(c, how), UNCHANGED rawRows
      PROVE  GateTypes' /\ CopiesKnown' /\ StoredSoFar'
  <2>1. Goes(c, [pc |-> how, now |-> 0, todo |-> {}]) BY <1>4 DEF Answered, NotHandled
  <2> QED BY <1>1, <1>2, <1>4, <2>1, CopyGoes
<1>5. CASE ForgetNonces(c)
  <2>1. nonces' = {n \in nonces : n.expires > h.now} /\ UNCHANGED <<second, signedAt, counts, rawRows, passes>>
    BY <1>5 DEF ForgetNonces
  <2>2. Goes(c, [pc |-> "consume", now |-> h.now, todo |-> h.todo]) BY <1>1, <1>5, HandlerFields DEF ForgetNonces
  <2>3. h.pc = "forget" BY <1>5 DEF ForgetNonces
  <2>4. GateTypes' /\ CopiesKnown' /\ StoredSoFar' BY <1>1, <1>3, <2>1, <2>2, <2>3, CopyGoes
  <2>5. NoncesKept'
    <3>1. ASSUME NEW n \in nonces, n \notin nonces' PROVE second >= signedAt[n.of] + Window
      BY IngestGateAssumption, <2>1, <3>1, <1>1 DEF GateInv, NoncesKept, GateTypes
    <3>3. ASSUME NEW p \in passes'
          PROVE  /\ p.request \in ServerRequests /\ signedAt'[p.request] # -1
                 /\ (\E n \in nonces' : n.of = p.request) \/ second' >= signedAt'[p.request] + Window
      BY <2>1, <3>1 DEF GateInv, NoncesKept
    <3> QED BY <2>1, <3>3 DEF NoncesKept, GateInv
  <2>6. PassesOnce' /\ CountsHold' BY <2>1 DEF GateInv, PassesOnce, CountsHold
  <2> QED BY <2>4, <2>5, <2>6 DEF GateInv
<1>6. CASE ConsumeNonce(c)
  <2>1. UNCHANGED <<second, signedAt, counts, rawRows>> /\ h.pc = "consume" /\ r \in ServerRequests /\ signedAt[r] # -1
    BY <1>3, <1>6 DEF ConsumeNonce
  <2>2. CASE Answered(c, "refused") /\ UNCHANGED <<nonces, passes>>
    BY <1>4, <2>1, <2>2, NoncesStay DEF GateInv, CountsHold
  <2>3. CASE /\ ~\E n \in nonces : n.of = r
             /\ nonces' = nonces \cup {[of |-> r, expires |-> signedAt[r] + Window]}
             /\ Goes(c, [h EXCEPT !.pc = "store", !.todo = BatchOf[r]])
             /\ passes' = passes \cup {[request |-> r, at |-> h.now, copy |-> c[2]]}
    <3>1. Goes(c, [pc |-> "store", now |-> h.now, todo |-> BatchOf[r]]) BY <1>1, <2>3, HandlerFields, ZenonT(40)
    <3> DEFINE nonce == [of |-> r, expires |-> signedAt[r] + Window]
               pass == [request |-> r, at |-> h.now, copy |-> c[2]]
    <3>3. nonce.of = r /\ nonce.expires = signedAt[r] + Window /\ pass.request = r OBVIOUS
    <3>4. nonces' = nonces \cup {nonce} /\ passes' = passes \cup {pass} BY <2>3
    <3> HIDE DEF nonce, pass
    <3>5. NoncesKept' BY <2>1, <3>3, <3>4 DEF GateInv, NoncesKept
    <3>6. ASSUME NEW p \in passes, p.request = r PROVE second >= signedAt[r] + Window
      BY <2>3, <3>6 DEF GateInv, NoncesKept
    <3>7. ASSUME NEW a \in passes', NEW b \in passes', a.request = b.request, a.copy # b.copy
          PROVE  second >= signedAt[a.request] + Window
      BY <3>7, <3>3, <3>6, <3>4 DEF GateInv, PassesOnce
    <3>8. PassesOnce' BY <2>1, <3>7 DEF PassesOnce
    <3> QED BY <2>1, <1>1, <3>1, CopyGoes, <3>5, <3>8 DEF GateInv, CountsHold, Wanted
  <2> QED BY <1>6, <2>2, <2>3 DEF ConsumeNonce
<1>7. CASE Increment(c)
  <2> DEFINE i == CHOOSE x \in h.todo : TRUE
             key == <<Minute(h.now), Dimensions(r)[i]>>
             count == IF key \in DOMAIN counts THEN counts[key] ELSE 0
  <2>1. UNCHANGED <<second, signedAt, nonces, rawRows, passes>> /\ h.pc = "count" /\ r \notin ServerRequests
    BY <1>3, <1>7 DEF Increment
  <2>2. NoncesKept' /\ PassesOnce' BY <2>1, NoncesStay
  <2>3. CASE Answered(c, "refused") /\ UNCHANGED counts BY <1>4, <2>1, <2>2, <2>3 DEF GateInv, CountsHold
  <2>4. CASE /\ ~(count >= RateLimit)
             /\ counts' = [k \in DOMAIN counts \cup {key} |-> IF k = key THEN count + 1 ELSE counts[k]]
             /\ Goes(c, IF i = Len(Dimensions(r)) THEN [h EXCEPT !.pc = "store", !.todo = {r}]
                        ELSE [h EXCEPT !.todo = {i + 1}])
    <3>1. count \in Nat /\ RateLimit \in Nat BY IngestGateAssumption DEF GateInv, CountsHold
    <3> HIDE DEF count, key
    <3>3. CountsHold' BY <2>4, <3>1 DEF GateInv, CountsHold
    <3>4. \/ Goes(c, [pc |-> "store", now |-> h.now, todo |-> {r}])
          \/ Goes(c, [pc |-> "count", now |-> h.now, todo |-> {i + 1}])
      BY <1>1, <2>1, <2>4, HandlerFields
    <3> HIDE DEF i
    <3>5. GateTypes' /\ CopiesKnown' /\ StoredSoFar' BY <1>1, <2>1, CopyGoes, <3>4 DEF Wanted
    <3> QED BY <2>2, <3>3, <3>5 DEF GateInv
  <2> QED BY <1>7, <2>3, <2>4 DEF Increment
<1>8. CASE StoreEnvelope(c)
  <2>1. UNCHANGED <<second, signedAt, nonces, counts, passes>> /\ h.pc = "store" BY <1>8 DEF StoreEnvelope
  <2>2. NoncesKept' /\ PassesOnce' /\ CountsHold' BY <2>1, NoncesStay DEF GateInv, CountsHold
  <2>3. PICK x \in h.todo :
           /\ rawRows' = rawRows \cup {x}
           /\ IF h.todo = {x} THEN Answered(c, "accepted") ELSE Goes(c, [h EXCEPT !.todo = @ \ {x}])
    BY <1>8 DEF StoreEnvelope
  <2>4. Wanted(c) \ h.todo \subseteq rawRows BY <2>1 DEF GateInv, StoredSoFar
  <2>5. CASE h.todo = {x}
    BY <2>3, <2>5, <2>4, <1>1, <2>1, <2>2, CopyGoes DEF Answered, NotHandled, GateInv
  <2>6. CASE h.todo # {x}
    <3>1. Goes(c, [pc |-> "store", now |-> h.now, todo |-> h.todo \ {x}])
      <4>1. Goes(c, [h EXCEPT !.todo = h.todo \ {x}]) BY <2>3, <2>6
      <4>2. [h EXCEPT !.todo = h.todo \ {x}] = [pc |-> h.pc, now |-> h.now, todo |-> h.todo \ {x}]
        BY <1>1, HandlerFields
      <4> QED BY <2>1, <4>1, <4>2
    <3> QED BY <1>1, <2>1, <2>2, <2>3, <3>1, <2>4, CopyGoes DEF GateInv
  <2> QED BY <2>5, <2>6
<1>9. CASE RequestFails(c) BY <1>9, <1>4, NoncesStay DEF RequestFails, GateInv, CountsHold
<1> QED BY <1>5, <1>6, <1>7, <1>8, <1>9

LEMMA GateNextInv == GateInv /\ [GateNext]_gateVars => GateInv'
<1> SUFFICES ASSUME GateInv, [GateNext]_gateVars PROVE GateInv' OBVIOUS
<1>1. CASE UNCHANGED gateVars \/ DisableClient
  BY <1>1, NoncesStay DEF gateVars, DisableClient, GateInv, GateTypes, CopiesKnown, CountsHold,
    StoredSoFar
<1>2. CASE SecondPasses
  <2>1. second' = second + 1 /\ UNCHANGED <<signedAt, nonces, counts, handler, rawRows, passes>>
    BY <1>2 DEF SecondPasses
  <2>2. second \in Nat /\ \A r \in ServerRequests : signedAt[r] + Window \in Int
    BY IngestGateAssumption DEF GateInv, GateTypes
  <2>3. GateTypes' BY <2>1, <2>2 DEF GateInv, GateTypes
  <2>5. NoncesKept' /\ PassesOnce' BY <2>1, <2>2 DEF GateInv, NoncesKept, PassesOnce
  <2> QED BY <2>3, <2>1, <2>5 DEF GateInv, CopiesKnown, CountsHold, StoredSoFar
<1>3. ASSUME NEW r \in ServerRequests, Sign(r) PROVE GateInv'
  <2>1. PICK t \in {second, second + 1} : signedAt' = [signedAt EXCEPT ![r] = t] BY <1>3 DEF Sign
  <2>2. signedAt[r] = -1 /\ UNCHANGED <<second, nonces, counts, handler, rawRows, passes>> BY <1>3 DEF Sign
  <2>4. signedAt' \in [ServerRequests -> Int] /\ signedAt'[r] # -1
        /\ \A q \in ServerRequests : signedAt[q] # -1 => signedAt'[q] = signedAt[q]
    BY <2>1, <2>2 DEF GateInv, GateTypes
  <2>6. CopiesKnown' BY <2>2, <2>4 DEF GateInv, CopiesKnown
  <2>7. NoncesKept' /\ PassesOnce' BY <2>2, <2>4 DEF GateInv, NoncesKept, PassesOnce
  <2> QED BY <2>2, <2>4, <2>6, <2>7 DEF GateInv, GateTypes, CountsHold, StoredSoFar
<1>4. CASE \E r \in GateRequests : Receive(r) BY <1>4, ReceiveInv
<1>5. CASE \E c \in Copies :
              ForgetNonces(c) \/ ConsumeNonce(c) \/ Increment(c) \/ StoreEnvelope(c) \/ RequestFails(c)
  BY <1>5, CopyStepInv
<1> QED BY <1>1, <1>2, <1>3, <1>4, <1>5 DEF GateNext

LEMMA GateSound == GateSpec => []GateHolds
<1>1. GateInv => GateHolds BY DEF GateInv, CountsHold, StoredSoFar, Wanted, GateHolds, RateLimitHolds, AnswerIsTrue
<1> QED BY <1>1, GateInitInv, GateNextInv, PTL DEF GateSpec

-----
(* The notifier. *)
Activities == [issue : AlertIssues, event : {"created", "regressed", "resolved"}, at : Nat]
Happened(event, i, at) ==
    \E k \in 1..Len(activity) :
        activity[k].issue = i /\ activity[k].event = event /\ activity[k].at = at

\* The one delivery a rule is due for a new issue.
FirstDelivery(i, r) ==
    IF issueRow[i].severity = Critical THEN [issue |-> i, kind |-> "new", slot |-> NoSlot, rule |-> r]
    ELSE [issue |-> i, kind |-> "digest", slot |-> issueRow[i].first + DigestDelay, rule |-> r]

\* A row that was read agrees with what does not change of its issue, and a
\* delivery with the row that it was planned from.
RowIsTrue(c) ==
    /\ c.issue \in AlertIssues
    /\ c.event = "created" =>
          Exists(c.issue) /\ c.at = issueRow[c.issue].first /\ c.row.severity = issueRow[c.issue].severity
    /\ c.event \in {"resolved", "regressed"} => Happened(c.event, c.issue, c.at)
DeliveryIsTrue(d) ==
    /\ d.issue \in AlertIssues
    /\ d.kind \in {"new", "digest"} => Exists(d.issue) /\ d = FirstDelivery(d.issue, d.rule)
    /\ d.kind \in {"resolved", "regressed"} => Happened(d.kind, d.issue, d.slot)

AlertTypes ==
    /\ minute \in Nat /\ activity \in Seq(Activities)
    /\ issueRow \in [AlertIssues -> [severity : 0..4, status : {"none", "new", "regressed", "acknowledged", "resolved", "ignored"},
                                     first : Nat]]
ActivitiesAreTrue ==
    \A k \in 1..Len(activity) : activity[k].event = "created" =>
        Exists(activity[k].issue) /\ activity[k].at = issueRow[activity[k].issue].first

\* What a notifier has in hand: [pc, at, todo, plan].
RoundIsTrue(r) ==
    /\ r = [pc |-> r.pc, at |-> r.at, todo |-> r.todo, plan |-> r.plan]
    /\ \E n \in Nat : DOMAIN r.todo = 1..n /\ r.todo = [k \in 1..n |-> r.todo[k]]
    /\ \A k \in DOMAIN r.todo : RowIsTrue(r.todo[k])
    /\ \A d \in r.plan : DeliveryIsTrue(d)
RoundsAreTrue == DOMAIN round = Schedulers /\ \A s \in Schedulers : RoundIsTrue(round[s])

AlertInv == AlertTypes /\ ActivitiesAreTrue /\ RoundsAreTrue /\ (\A d \in outbox : DeliveryIsTrue(d))

LEMMA AlertInitInv == AlertInit => AlertInv
<1> SUFFICES ASSUME AlertInit PROVE AlertInv OBVIOUS
<1> USE DEF AlertInit
<1>1. AlertTypes /\ ActivitiesAreTrue BY EmptySeq DEF AlertTypes, ActivitiesAreTrue
<1>2. RoundIsTrue(Resting) BY DEF RoundIsTrue, Resting
<1>3. RoundsAreTrue BY <1>2 DEF RoundsAreTrue
<1> QED BY <1>1, <1>3 DEF AlertInv

\* What was true of an issue stays true: nothing changes its severity or its
\* time once it exists, and no activity is forgotten.
IssuesKeep ==
    /\ \A i \in AlertIssues : Exists(i) =>
          Exists(i)' /\ issueRow'[i].severity = issueRow[i].severity /\ issueRow'[i].first = issueRow[i].first
    /\ Len(activity') >= Len(activity) /\ Len(activity') \in Nat /\ Len(activity) \in Nat
    /\ \A k \in 1..Len(activity) : activity'[k] = activity[k]

LEMMA TrueStaysTrue ==
    ASSUME IssuesKeep
    PROVE  /\ \A c : RowIsTrue(c) => RowIsTrue(c)'
           /\ \A d : DeliveryIsTrue(d) => DeliveryIsTrue(d)'
           /\ \A r : RoundIsTrue(r) => RoundIsTrue(r)'
<1>1. ASSUME NEW event, NEW i, NEW at, Happened(event, i, at) PROVE Happened(event, i, at)'
  BY <1>1 DEF IssuesKeep, Happened
<1>2. ASSUME NEW c, RowIsTrue(c) PROVE RowIsTrue(c)' BY <1>1, <1>2 DEF RowIsTrue, IssuesKeep
<1>3. ASSUME NEW d, DeliveryIsTrue(d) PROVE DeliveryIsTrue(d)'
  BY <1>1, <1>3 DEF DeliveryIsTrue, IssuesKeep, FirstDelivery
<1>4. ASSUME NEW r, RoundIsTrue(r) PROVE RoundIsTrue(r)' BY <1>2, <1>3, <1>4 DEF RoundIsTrue
<1> QED BY <1>2, <1>3, <1>4

LEMMA IssueStepsInv ==
    ASSUME AlertInv, IssuesKeep, AlertTypes', ActivitiesAreTrue', UNCHANGED <<outbox, round>>
    PROVE  AlertInv'
<1>1. RoundsAreTrue' BY TrueStaysTrue DEF AlertInv, RoundsAreTrue
<1> QED BY <1>1, TrueStaysTrue DEF AlertInv

\* An activity is recorded.
LEMMA RecordProperties ==
    ASSUME AlertTypes, NEW i \in AlertIssues, NEW event \in {"created", "regressed", "resolved"}, Record(i, event)
    PROVE  /\ activity' \in Seq(Activities) /\ Len(activity') = Len(activity) + 1 /\ Len(activity) \in Nat
           /\ \A k \in 1..Len(activity) : activity'[k] = activity[k]
           /\ activity'[Len(activity) + 1] = [issue |-> i, event |-> event, at |-> minute]
<1> QED BY AppendProperties, LenProperties DEF AlertTypes, Record, Activities

LEMMA CreateIssueInv ==
    ASSUME AlertInv, NEW i \in AlertIssues, NEW v \in Severities, CreateIssue(i, v)
    PROVE  AlertInv'
<1> DEFINE row == [severity |-> v, status |-> "new", first |-> minute]
<1>1. AlertTypes /\ ~Exists(i) /\ issueRow' = [issueRow EXCEPT ![i] = row] /\ Record(i, "created")
      /\ UNCHANGED <<minute, outbox, round>>
  BY DEF CreateIssue, AlertInv
<1>2. row \in [severity : 0..4, status : {"none", "new", "regressed", "acknowledged", "resolved", "ignored"}, first : Nat]
      /\ row.severity > 0 /\ row.first = minute
  BY <1>1, AlertAssumption DEF AlertTypes
<1> HIDE DEF row
<1>3. /\ issueRow'[i] = row /\ \A j \in AlertIssues : j # i => issueRow'[j] = issueRow[j]
      /\ issueRow' \in [AlertIssues -> [severity : 0..4, status : {"none", "new", "regressed", "acknowledged", "resolved", "ignored"},
                                        first : Nat]]
  BY <1>1, <1>2 DEF AlertTypes
<1>4. /\ activity' \in Seq(Activities) /\ Len(activity') = Len(activity) + 1 /\ Len(activity) \in Nat
      /\ \A k \in 1..Len(activity) : activity'[k] = activity[k]
      /\ activity'[Len(activity) + 1] = [issue |-> i, event |-> "created", at |-> minute]
  BY <1>1, RecordProperties
<1>5. AlertTypes' BY <1>1, <1>3, <1>4 DEF AlertTypes
<1>6. IssuesKeep BY <1>1, <1>3, <1>4 DEF IssuesKeep, Exists
<1>7. ASSUME NEW k \in 1..Len(activity'), activity'[k].event = "created"
      PROVE  issueRow'[activity'[k].issue].severity > 0 /\ activity'[k].at = issueRow'[activity'[k].issue].first
  <2>1. CASE k \in 1..Len(activity)
    <3>1. activity[k] \in Activities BY <1>1, <2>1, ElementOfSeq DEF AlertTypes
    <3> QED BY <1>4, <1>6, <1>7, <2>1, <3>1 DEF AlertInv, ActivitiesAreTrue, IssuesKeep, Activities, Exists
  <2>2. CASE k = Len(activity) + 1 BY <1>2, <1>3, <1>4, <2>2 DEF Exists
  <2> QED BY <1>4, <2>1, <2>2
<1>8. ActivitiesAreTrue' BY <1>7 DEF ActivitiesAreTrue, Exists
<1> QED BY <1>1, <1>5, <1>6, <1>8, IssueStepsInv

LEMMA ChangeInv ==
    ASSUME AlertInv, NEW i \in AlertIssues,
           Regress(i) \/ \E t \in {"acknowledged", "resolved", "ignored"} : ChangeIssue(i, t)
    PROVE  AlertInv'
<1>1. PICK t \in {"regressed", "acknowledged", "resolved", "ignored"} :
         /\ issueRow' = [issueRow EXCEPT ![i].status = t]
         /\ UNCHANGED activity \/ (t \in {"regressed", "resolved"} /\ Record(i, t))
  BY DEF Regress, ChangeIssue
<1>2. AlertTypes /\ UNCHANGED <<minute, outbox, round>> BY DEF Regress, ChangeIssue, AlertInv
<1> DEFINE row == [issueRow[i] EXCEPT !.status = t]
<1>4. issueRow' = [issueRow EXCEPT ![i] = row] BY <1>1
<1> HIDE DEF row
<1>5. /\ \A j \in AlertIssues : issueRow'[j].severity = issueRow[j].severity /\ issueRow'[j].first = issueRow[j].first
      /\ issueRow' \in [AlertIssues -> [severity : 0..4, status : {"none", "new", "regressed", "acknowledged", "resolved", "ignored"},
                                        first : Nat]] BY <1>2, <1>1, <1>4 DEF AlertTypes
<1>6. /\ activity' \in Seq(Activities) /\ Len(activity) \in Nat
      /\ Len(activity') = Len(activity) \/ (Len(activity') = Len(activity) + 1 /\ activity'[Len(activity) + 1].event # "created")
      /\ \A k \in 1..Len(activity) : activity'[k] = activity[k]
  <2>1. CASE UNCHANGED activity BY <1>2, <2>1, LenProperties DEF AlertTypes
  <2>2. CASE t \in {"regressed", "resolved"} /\ Record(i, t)
    <3>1. t \in {"created", "regressed", "resolved"} /\ t # "created" BY <2>2
    <3>2. /\ activity' \in Seq(Activities) /\ Len(activity') = Len(activity) + 1 /\ Len(activity) \in Nat
          /\ \A k \in 1..Len(activity) : activity'[k] = activity[k]
          /\ activity'[Len(activity) + 1] = [issue |-> i, event |-> t, at |-> minute]
      BY <1>2, <2>2, <3>1, RecordProperties
    <3> QED BY <3>1, <3>2
  <2> QED BY <1>1, <2>1, <2>2
<1>7. AlertTypes' BY <1>2, <1>5, <1>6 DEF AlertTypes
<1>8. IssuesKeep BY <1>5, <1>6 DEF IssuesKeep, Exists
<1>9. ASSUME NEW k \in 1..Len(activity'), activity'[k].event = "created"
      PROVE  issueRow'[activity'[k].issue].severity > 0 /\ activity'[k].at = issueRow'[activity'[k].issue].first
  <2>1. k \in 1..Len(activity) BY <1>6, <1>9
  <2>2. activity[k] \in Activities BY <1>2, <2>1, ElementOfSeq DEF AlertTypes
  <2> QED BY <1>6, <1>8, <1>9, <2>1, <2>2 DEF AlertInv, ActivitiesAreTrue, IssuesKeep, Activities, Exists
<1>10. ActivitiesAreTrue' BY <1>9 DEF ActivitiesAreTrue, Exists
<1> QED BY <1>2, <1>7, <1>8, <1>10, IssueStepsInv

LEMMA NothingKeeps ==
    ASSUME AlertInv, UNCHANGED <<issueRow, activity>>
    PROVE  IssuesKeep
  BY LenProperties DEF AlertInv, AlertTypes, IssuesKeep, Exists

\* The rows of a query, whichever they are.
LEMMA RowsAreTrue ==
    ASSUME AlertInv, NEW listed, listed \in ActivityRows \/ \E now : listed \in CriticalRows(now)
    PROVE  /\ \E n \in Nat : DOMAIN listed = 1..n /\ listed = [k \in 1..n |-> listed[k]]
           /\ \A k \in DOMAIN listed : RowIsTrue(listed[k])
<1>1. /\ Len(activity) \in Nat /\ DOMAIN activity = 1..Len(activity)
      /\ \A k \in 1..Len(activity) : activity[k] \in Activities
  BY LenProperties, ElementOfSeq DEF AlertInv, AlertTypes
<1>2. ASSUME NEW of, of \subseteq DOMAIN activity, NEW order, NEW f \in FirstRows(of, order)
      PROVE  \E n \in Nat : f \in [1..n -> DOMAIN activity]
  <2>1. Cardinality(of) \in Nat
    <3>1. IsFiniteSet(DOMAIN activity) BY <1>1, FS_Interval
    <3> QED BY <1>2, <3>1, FS_Subset, FS_CardinalityType
  <2> QED BY <1>2, <2>1, AlertAssumption DEF FirstRows
<1>3. CASE listed \in ActivityRows
  <2> DEFINE of == {k \in DOMAIN activity : Waiting(activity[k])}
  <2>1. PICK f \in FirstRows(of, -1) : listed = [k \in DOMAIN f |-> Candidate(activity[f[k]])]
    BY <1>3 DEF ActivityRows
  <2>2. of \subseteq DOMAIN activity OBVIOUS
  <2> HIDE DEF of
  <2>3. PICK n \in Nat : f \in [1..n -> DOMAIN activity] BY <1>2, <2>2
  <2>4. ASSUME NEW k \in 1..n PROVE RowIsTrue(listed[k])
    <3> DEFINE a == activity[f[k]]
    <3>1. f[k] \in 1..Len(activity) /\ a \in Activities BY <1>1, <2>3
    <3>2. listed[k] = [issue |-> a.issue, event |-> a.event, at |-> a.at, row |-> issueRow[a.issue]]
      BY <2>1, <2>3 DEF Candidate
    <3>3. Happened(a.event, a.issue, a.at) BY <3>1 DEF Happened
    <3>4. a.event = "created" => Exists(a.issue) /\ a.at = issueRow[a.issue].first
      BY <3>1 DEF AlertInv, ActivitiesAreTrue
    <3> HIDE DEF a
    <3> QED BY <3>1, <3>2, <3>3, <3>4 DEF RowIsTrue, Activities
  <2> QED BY <2>1, <2>3, <2>4
<1>4. CASE \E now : listed \in CriticalRows(now)
  <2>1. PICK now : listed \in CriticalRows(now) BY <1>4
  <2> DEFINE of == {k \in DOMAIN activity : IsCritical(activity[k])}
  <2>2. PICK f \in FirstRows(of, 1) :
           listed = [k \in DOMAIN f |-> [issue |-> activity[f[k]].issue, event |-> "tick", at |-> now,
                                       row |-> issueRow[activity[f[k]].issue]]]
    BY <2>1 DEF CriticalRows
  <2>3. of \subseteq DOMAIN activity OBVIOUS
  <2> HIDE DEF of
  <2>4. PICK n \in Nat : f \in [1..n -> DOMAIN activity] BY <1>2, <2>3
  <2>5. ASSUME NEW k \in 1..n PROVE RowIsTrue(listed[k])
    BY <1>1, <2>4, <2>2 DEF RowIsTrue, Activities
  <2> QED BY <2>2, <2>4, <2>5
<1> QED BY <1>3, <1>4

\* The deliveries that are planned for a row.
LEMMA DeliveriesAreTrue ==
    ASSUME NEW c, RowIsTrue(c), NEW now, NEW d \in Deliveries(c, now)
    PROVE  DeliveryIsTrue(d)
<1>1. PICK p \in PlanIssueAlerts(c, now), r \in enabledRules :
         d = [issue |-> c.issue, kind |-> p.kind, slot |-> p.slot, rule |-> r]
  BY DEF Deliveries
<1>2. /\ p.kind \in {"resolved", "regressed"} => p.kind = c.event /\ p.slot = c.at
      /\ p.kind \in {"new", "digest"} =>
            /\ c.event = "created"
            /\ p = IF c.row.severity = Critical THEN [kind |-> "new", slot |-> NoSlot]
                   ELSE [kind |-> "digest", slot |-> c.at + DigestDelay]
  BY DEF PlanIssueAlerts
<1>3. d.issue = c.issue /\ d.kind = p.kind /\ d.slot = p.slot /\ d.rule = r BY <1>1
<1> QED BY <1>2, <1>3, <1>1 DEF RowIsTrue, DeliveryIsTrue, FirstDelivery

LEMMA RoundFields ==
    ASSUME NEW r, r = [pc |-> r.pc, at |-> r.at, todo |-> r.todo, plan |-> r.plan], NEW x, NEW y
    PROVE  /\ [r EXCEPT !.pc = x, !.todo = y] = [pc |-> x, at |-> r.at, todo |-> y, plan |-> r.plan]
           /\ [r EXCEPT !.plan = x, !.todo = y] = [pc |-> r.pc, at |-> r.at, todo |-> y, plan |-> x]
<1>1. PICK pc, at, todo, plan : r = [pc |-> pc, at |-> at, todo |-> todo, plan |-> plan] OBVIOUS
<1>2. r.pc = pc /\ r.at = at /\ r.todo = todo /\ r.plan = plan BY <1>1
<1>3. [r EXCEPT !.pc = x] = [pc |-> x, at |-> at, todo |-> todo, plan |-> plan] BY ONLY <1>1
<1>4. [r EXCEPT !.plan = x] = [pc |-> pc, at |-> at, todo |-> todo, plan |-> x] BY ONLY <1>1
<1>5. [r EXCEPT !.pc = x, !.todo = y] = [[r EXCEPT !.pc = x] EXCEPT !.todo = y] BY ONLY <1>1
<1>6. [r EXCEPT !.plan = x, !.todo = y] = [[r EXCEPT !.plan = x] EXCEPT !.todo = y] BY ONLY <1>1
<1>7. [[pc |-> x, at |-> at, todo |-> todo, plan |-> plan] EXCEPT !.todo = y] = [pc |-> x, at |-> at, todo |-> y, plan |-> plan]
  OBVIOUS
<1>8. [[pc |-> pc, at |-> at, todo |-> todo, plan |-> x] EXCEPT !.todo = y] = [pc |-> pc, at |-> at, todo |-> y, plan |-> x]
  OBVIOUS
<1> QED BY <1>2, <1>3, <1>4, <1>5, <1>6, <1>7, <1>8

LEMMA SchedulerInv ==
    ASSUME AlertInv, NEW s \in Schedulers, SchedulerStep(s) \/ NotifierDies(s)
    PROVE  AlertInv'
<1> DEFINE r == round[s]
<1>1. UNCHANGED <<minute, issueRow, activity>>
  BY DEF SchedulerStep, ReadActivities, EnqueueAlert, InsertDelivery, ReadCritical, EndOfRound, NotifierDies
<1>2. RoundIsTrue(r) /\ DOMAIN round = Schedulers BY DEF AlertInv, RoundsAreTrue
<1>11. r = [pc |-> r.pc, at |-> r.at, todo |-> r.todo, plan |-> r.plan] BY <1>2 DEF RoundIsTrue
<1>3. AlertTypes' /\ ActivitiesAreTrue' BY <1>1 DEF AlertInv, AlertTypes, ActivitiesAreTrue, Exists
<1>4. /\ \A d : DeliveryIsTrue(d) => DeliveryIsTrue(d)'
      /\ \A x : RoundIsTrue(x) => RoundIsTrue(x)'
  BY <1>1, NothingKeeps, TrueStaysTrue
<1>5. ASSUME NEW x, RoundIsTrue(x), Set(s, x), \A d \in outbox' : d \in outbox \/ DeliveryIsTrue(d)
      PROVE  AlertInv' BY <1>2, <1>5, <1>4, <1>3 DEF Set, AlertInv, RoundsAreTrue
<1>6. CASE ReadActivities(s) BY <1>6, RowsAreTrue, <1>5 DEF ReadActivities, RoundIsTrue
<1>7. CASE ReadCritical(s)
  <2>1. PICK listed \in CriticalRows(r.at) : Set(s, [r EXCEPT !.pc = "ticks", !.todo = listed])
    BY <1>7 DEF ReadCritical
  <2>2. [r EXCEPT !.pc = "ticks", !.todo = listed] = [pc |-> "ticks", at |-> r.at, todo |-> listed, plan |-> r.plan]
    BY <1>11, RoundFields
  <2>3. /\ \E n \in Nat : DOMAIN listed = 1..n /\ listed = [k \in 1..n |-> listed[k]]
        /\ \A k \in DOMAIN listed : RowIsTrue(listed[k])
    BY <2>1, RowsAreTrue
  <2>4. RoundIsTrue([pc |-> "ticks", at |-> r.at, todo |-> listed, plan |-> r.plan]) BY <1>2, <2>3 DEF RoundIsTrue
  <2> QED BY <1>5, <1>7, <2>1, <2>2, <2>4 DEF ReadCritical
<1>8. CASE EnqueueAlert(s)
  <2> DEFINE c == Head(r.todo)
             planned == Deliveries(c, r.at)
             rest == Tail(r.todo)
  <2>1. Set(s, [r EXCEPT !.plan = planned, !.todo = rest]) /\ r.todo # <<>> BY <1>8 DEF EnqueueAlert
  <2>2. PICK n \in Nat : DOMAIN r.todo = 1..n /\ r.todo = [k \in 1..n |-> r.todo[k]] BY <1>2 DEF RoundIsTrue
  <2> DEFINE V == {r.todo[k] : k \in 1..n}
  <2>3. r.todo \in Seq(V) /\ Len(r.todo) = n BY <2>2, SeqDef, LenProperties
  <2>4. /\ n \in Nat \ {0} /\ c = r.todo[1]
        /\ rest \in Seq(V) /\ Len(rest) = n - 1 /\ \A k \in 1..n - 1 : rest[k] = r.todo[k + 1]
    BY <2>1, <2>3, HeadTailProperties, EmptySeq, SMTT(20)
  <2>6. RowIsTrue(c) /\ \A k \in 1..n - 1 : RowIsTrue(rest[k])
    <3>1. \A k \in 1..n : RowIsTrue(r.todo[k]) BY <1>2, <2>2 DEF RoundIsTrue
    <3>2. 1 \in 1..n /\ \A k \in 1..n - 1 : k + 1 \in 1..n BY <2>4
    <3> HIDE DEF rest, c
    <3> QED BY <2>4, <3>1, <3>2
  <2> HIDE DEF rest, c
  <2>7. \A d \in planned : DeliveryIsTrue(d) BY <2>6, DeliveriesAreTrue
  <2> HIDE DEF planned
  <2>9. RoundIsTrue([pc |-> r.pc, at |-> r.at, todo |-> rest, plan |-> planned])
    BY <2>4, LenProperties, <2>6, <2>7 DEF RoundIsTrue
  <2> QED BY <1>5, <1>8, <2>1, <1>11, RoundFields, <2>9 DEF EnqueueAlert
<1>9. CASE InsertDelivery(s)
  <2>1. PICK delivery \in r.plan : outbox' = outbox \cup {delivery} /\ Set(s, [r EXCEPT !.plan = @ \ {delivery}])
    BY <1>9 DEF InsertDelivery
  <2>2. [r EXCEPT !.plan = @ \ {delivery}] = [pc |-> r.pc, at |-> r.at, todo |-> r.todo, plan |-> r.plan \ {delivery}]
    BY <1>11
  <2>3. RoundIsTrue([pc |-> r.pc, at |-> r.at, todo |-> r.todo, plan |-> r.plan \ {delivery}])
    BY <1>2 DEF RoundIsTrue
  <2>4. DeliveryIsTrue(delivery) BY <1>2 DEF RoundIsTrue
  <2> QED BY <1>5, <2>1, <2>2, <2>3, <2>4
<1>10. CASE EndOfRound(s) \/ NotifierDies(s)
  BY <1>10, <1>5 DEF EndOfRound, NotifierDies, RoundIsTrue, Resting
<1> QED BY <1>6, <1>7, <1>8, <1>9, <1>10 DEF SchedulerStep

LEMMA AlertNextInv == AlertInv /\ [AlertNext]_alertVars => AlertInv'
<1> SUFFICES ASSUME AlertInv, [AlertNext]_alertVars PROVE AlertInv' OBVIOUS
<1>1. ASSUME UNCHANGED <<issueRow, activity, outbox, round>>, minute' \in Nat PROVE AlertInv'
  BY <1>1, NothingKeeps, IssueStepsInv DEF AlertInv, AlertTypes, ActivitiesAreTrue, Exists
<1>2. CASE UNCHANGED alertVars \/ MinutePasses \/ \E r \in AlertRules : DisableRule(r)
  BY <1>1, <1>2 DEF alertVars, MinutePasses, DisableRule, AlertInv, AlertTypes
<1>3. CASE \E i \in AlertIssues, v \in Severities : CreateIssue(i, v) BY <1>3, CreateIssueInv
<1>4. CASE \E i \in AlertIssues : Regress(i) \/ \E t \in {"acknowledged", "resolved", "ignored"} : ChangeIssue(i, t)
  BY <1>4, ChangeInv
<1>5. CASE \E s \in Schedulers : SchedulerStep(s) \/ NotifierDies(s) BY <1>5, SchedulerInv
<1> QED BY <1>2, <1>3, <1>4, <1>5 DEF AlertNext

LEMMA AlertSound == AlertSpec => []AlertedOnce
<1>1. AlertInv => AlertedOnce
  <2> SUFFICES ASSUME AlertInv PROVE AlertedOnce OBVIOUS
  <2>1. ASSUME NEW i \in AlertIssues, NEW r \in AlertRules PROVE Cardinality(FirstAlert(i, r)) <= 1
    <3>2. FirstAlert(i, r) = {} \/ FirstAlert(i, r) = {FirstDelivery(i, r)}
      BY DEF AlertInv, FirstAlert, DeliveryIsTrue
    <3> QED BY <3>2, FS_EmptySet, FS_Singleton, SMTT(20)
  <2>3. ASSUME NEW d \in outbox, d.kind \in {"resolved", "regressed"}
        PROVE  \E k \in DOMAIN activity :
                  activity[k].issue = d.issue /\ activity[k].event = d.kind /\ activity[k].at = d.slot
    BY LenProperties, <2>3 DEF AlertInv, DeliveryIsTrue, Happened, AlertTypes
  <2> QED BY <2>1, <2>3 DEF AlertedOnce
<1> QED BY <1>1, AlertInitInv, AlertNextInv, PTL DEF AlertSpec

\* What is reported is stored, reported again or counted as lost, no request
\* counts twice, and no alert is sent twice, for any number of tabs, captures,
\* requests and notifiers (browserSpool.ts, exceptionCapture.ts, hmac.ts,
\* serverIngest.ts, postgresAlertScheduler.ts).
THEOREM ReportingSafe == BrowserSpoolSpec /\ CaptureSpec /\ GateSpec /\ AlertSpec => []ReportingIsSafe
<1>1. BrowserSpoolIsSafe /\ CaptureIsSound /\ GateHolds /\ AlertedOnce => ReportingIsSafe BY DEF ReportingIsSafe
<1> QED BY <1>1, BrowserSound, CaptureSound, GateSound, AlertSound, PTL
======

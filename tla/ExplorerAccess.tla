------ MODULE ExplorerAccess ------
(* The API's side of the database explorer (stepUpService,
   postgresStepUpRepository, databaseExplorerService): one session asks for
   elevations, looks at rows and hides them again, each request a chain of
   awaited statements that interleave with the others.  An elevation is
   stored before it is audited and can be used only after it was activated;
   rows are answered only after their view was audited.  A call that fails
   is a fault; an UPDATE may also fail after it took effect.  Views of the
   schema follow below; the page in front of it is ExplorerPage. *)
EXTENDS ExplorerPage

CONSTANTS PiiTargets,        \* the databases
          Reveals,           \* reveal requests
          RowViews,          \* row requests
          MaxPiiFaults,      \* failing calls
          MaxWithdrawals     \* hide requests, logouts and expiries

VARIABLES
    piiGrant,   \* piiGrant[r]: the row a reveal request stored
    revealing,      \* revealing[r]: a reveal request
    rowView,     \* rowView[v]: a row request
    ledger,      \* the audit ledger: <<kind, request>>
    opsSession,  \* "live", "revoked" (logged out), "closed" (elevations revoked too)
    piiFaults, withdrawals

piiVars == <<piiGrant, revealing, rowView, ledger, opsSession, piiFaults, withdrawals>>

NoElevation == [state |-> "none", activated |-> FALSE]

PiiInit ==
    /\ piiGrant = [r \in Reveals |-> NoElevation]
    /\ revealing = [r \in Reveals |-> [pc |-> "new"]]
    /\ rowView = [v \in RowViews |-> [pc |-> "new"]]
    /\ ledger = {} /\ opsSession = "live" /\ piiFaults = 0 /\ withdrawals = 0

Fault    == piiFaults < MaxPiiFaults /\ piiFaults' = piiFaults + 1
NoFault  == UNCHANGED piiFaults
Withdraw == withdrawals < MaxWithdrawals /\ withdrawals' = withdrawals + 1

\* Elevations for a target that can still be activated, used or revoked.
LiveFor(t) == {r \in Reveals : piiGrant[r].state = "live" /\ revealing[r].target = t}

\* findActiveDatabasePii: the rows that authorise a view.
Usable(r) == piiGrant[r].state = "live" /\ piiGrant[r].activated

\* The UPDATE of revokeDatabasePii and replaceOlder.
RevokedIn(rs) == [r \in Reveals |-> IF r \in rs THEN [piiGrant[r] EXCEPT !.state = "revoked"]
                                    ELSE piiGrant[r]]

RevealStep(r, from, to) ==
    /\ revealing[r].pc = from
    /\ revealing' = [revealing EXCEPT ![r].pc = to]
    /\ UNCHANGED <<rowView, opsSession, withdrawals>>

(* A reveal request. *)
StartReveal(r, t) ==
    /\ revealing[r].pc = "new" /\ opsSession = "live"
    /\ revealing' = [revealing EXCEPT ![r] = [pc |-> "proof", target |-> t]]
    /\ UNCHANGED <<piiGrant, rowView, ledger, opsSession, piiFaults, withdrawals>>

\* Password and TOTP are right or wrong.
FindProof(r) ==
    /\ \E to \in {"parent", "denied"} : RevealStep(r, "proof", to)
    /\ UNCHANGED <<piiGrant, ledger, piiFaults>>

FindParentSession(r) ==
    /\ RevealStep(r, "parent", IF opsSession = "live" THEN "replace" ELSE "denied")
    /\ UNCHANGED <<piiGrant, ledger, piiFaults>>

ReplaceOlder(r) ==
    /\ RevealStep(r, "replace", "insert")
    /\ piiGrant' = RevokedIn(LiveFor(revealing[r].target))
    /\ UNCHANGED <<ledger, piiFaults>>

InsertElevation(r) ==
    /\ RevealStep(r, "insert", "audit")
    /\ piiGrant' = [piiGrant EXCEPT ![r].state = "live"]
    /\ UNCHANGED <<ledger, piiFaults>>

\* An entry that cannot be written fails the reveal, which is taken back.
AuditReveal(r) ==
    \/ /\ RevealStep(r, "audit", "activate") /\ NoFault
       /\ ledger' = ledger \cup {<<"revealing", r>>}
       /\ UNCHANGED piiGrant
    \/ /\ RevealStep(r, "audit", "undo") /\ Fault
       /\ UNCHANGED <<piiGrant, ledger>>

Activated(r) ==
    IF piiGrant[r].state = "live" THEN [piiGrant EXCEPT ![r].activated = TRUE] ELSE piiGrant

\* The row is activated unless it was revoked or ran out meanwhile; an answer
\* that is lost is taken for a failure.
ActivateElevation(r) ==
    /\ UNCHANGED ledger
    /\ \/ /\ RevealStep(r, "activate", IF piiGrant[r].state = "live" THEN "granted" ELSE "undo")
          /\ piiGrant' = Activated(r) /\ NoFault
       \/ /\ RevealStep(r, "activate", "undo") /\ Fault
          /\ piiGrant' \in {piiGrant, Activated(r)}

\* A reveal that cannot be audited or activated takes back every elevation of
\* its target; if that fails too it is only reported.
UndoReveal(r) ==
    /\ RevealStep(r, "undo", "failed")
    /\ UNCHANGED ledger
    /\ \/ piiGrant' = RevokedIn(LiveFor(revealing[r].target)) /\ NoFault
       \/ UNCHANGED piiGrant /\ Fault

(* Row requests, masked or revealed. *)
ViewStep(v, from, to) ==
    /\ rowView[v].pc = from
    /\ rowView' = [rowView EXCEPT ![v].pc = to]
    /\ UNCHANGED <<piiGrant, revealing, opsSession, withdrawals>>

\* A request for the rows of a relation, or for those a foreign key relates
\* to a row.
StartView(v, kind, t, mode) ==
    /\ rowView[v].pc = "new" /\ opsSession = "live"
    /\ rowView' = [rowView EXCEPT ![v] =
         [pc |-> IF mode = "revealed" THEN "authorize" ELSE "worker",
          kind |-> kind, target |-> t, mode |-> mode, by |-> {}]]
    /\ UNCHANGED <<piiGrant, revealing, ledger, opsSession, piiFaults, withdrawals>>

\* authorizePii keeps the elevation it found.
AuthorizePii(v) ==
    LET found == {r \in LiveFor(rowView[v].target) : Usable(r)} IN
    /\ rowView[v].pc = "authorize"
    /\ rowView' = [rowView EXCEPT ![v].pc = IF found = {} THEN "refused" ELSE "worker", ![v].by = found]
    /\ UNCHANGED <<piiGrant, revealing, ledger, opsSession, piiFaults, withdrawals>>

\* The worker answers, or fails or answers something else.
WorkerAnswers(v) ==
    \/ ViewStep(v, "worker", "audit") /\ NoFault
    \/ ViewStep(v, "worker", "refused") /\ Fault

AskRows(v) == rowView[v].pc = "worker" /\ rowView[v].kind = "rows" /\ WorkerAnswers(v) /\ UNCHANGED ledger

AskRelatedRows(v) == rowView[v].pc = "worker" /\ rowView[v].kind = "related" /\ WorkerAnswers(v) /\ UNCHANGED ledger

\* An entry of the view; one more when a grant revealed it.
AuditView(v) ==
    \/ /\ ViewStep(v, "audit", IF rowView[v].mode = "revealed" THEN "audit_pii" ELSE "answered") /\ NoFault
       /\ ledger' = ledger \cup {<<rowView[v].kind, v>>}
    \/ ViewStep(v, "audit", "refused") /\ Fault /\ UNCHANGED ledger

AuditRows(v) == rowView[v].pc = "audit" /\ rowView[v].kind = "rows" /\ AuditView(v)

\* With the constraint that was followed.
AuditRelatedRows(v) == rowView[v].pc = "audit" /\ rowView[v].kind = "related" /\ AuditView(v)

AuditPiiRows(v) ==
    \/ /\ ViewStep(v, "audit_pii", "answered") /\ NoFault
       /\ ledger' = ledger \cup {<<"pii_rows", v>>}
    \/ ViewStep(v, "audit_pii", "refused") /\ Fault /\ UNCHANGED ledger

(* Hiding, logging out, expiry. *)
\* The route serves a session that is live.
HideAllowed == opsSession = "live"

\* revokePiiReveal: every elevation of the session, then an audit entry.  A
\* failing entry fails the request, not the revocation.
RevokePiiReveal ==
    /\ HideAllowed /\ Withdraw
    /\ \/ /\ piiGrant' = RevokedIn({r \in Reveals : piiGrant[r].state = "live"})
          /\ \/ ledger' = ledger \cup {<<"hidden", withdrawals'>>} /\ NoFault
             \/ UNCHANGED ledger /\ Fault
       \/ UNCHANGED <<piiGrant, ledger>> /\ Fault
    /\ UNCHANGED <<revealing, rowView, opsSession>>

\* The session is revoked by one statement, its elevations by the next.
LogoutSession ==
    /\ opsSession = "live" /\ Withdraw
    /\ opsSession' = "revoked"
    /\ UNCHANGED <<piiGrant, revealing, rowView, ledger, piiFaults>>

RevokeSession ==
    /\ opsSession = "revoked"
    /\ opsSession' = "closed"
    /\ piiGrant' = RevokedIn({r \in Reveals : piiGrant[r].state = "live"})
    /\ UNCHANGED <<revealing, rowView, ledger, piiFaults, withdrawals>>

Expire(r) ==
    /\ piiGrant[r].state = "live" /\ Withdraw
    /\ piiGrant' = [piiGrant EXCEPT ![r].state = "expired"]
    /\ UNCHANGED <<revealing, rowView, ledger, opsSession, piiFaults>>

PiiNext ==
    \/ \E r \in Reveals :
         \/ \E t \in PiiTargets : StartReveal(r, t)
         \/ FindProof(r) \/ FindParentSession(r) \/ ReplaceOlder(r) \/ InsertElevation(r)
         \/ AuditReveal(r) \/ ActivateElevation(r) \/ UndoReveal(r) \/ Expire(r)
    \/ \E v \in RowViews :
         \/ \E kind \in {"rows", "related"}, t \in PiiTargets, mode \in {"masked", "revealed"} : StartView(v, kind, t, mode)
         \/ AuthorizePii(v) \/ AskRows(v) \/ AskRelatedRows(v)
         \/ AuditRows(v) \/ AuditRelatedRows(v) \/ AuditPiiRows(v)
    \/ RevokePiiReveal \/ LogoutSession \/ RevokeSession

PiiSpec == PiiInit /\ [][PiiNext]_piiVars

-----
\* Whatever fails and however requests interleave, an elevation that would
\* authorise a view has its reveal in the ledger, and revealed rows leave the
\* API only with the reveal, the view and the revealed view in the ledger.
DisclosureIsAudited ==
    /\ \A r \in Reveals : Usable(r) => <<"revealing", r>> \in ledger
    /\ \A v \in RowViews : rowView[v].pc = "answered" =>
         /\ <<rowView[v].kind, v>> \in ledger
         /\ rowView[v].mode = "revealed" =>
              /\ <<"pii_rows", v>> \in ledger
              /\ rowView[v].by # {} /\ \A r \in rowView[v].by : <<"revealing", r>> \in ledger

\* A reveal that answered with an error leaves nothing usable behind, also when
\* the activation took effect and only its answer was lost (one fault).
FailedRevealIsDead ==
    piiFaults <= 1 => \A r \in Reveals : revealing[r].pc = "failed" => ~Usable(r)

PiiIsGuarded == DisclosureIsAudited /\ FailedRevealIsDead

(* Views of a database schema (databaseExplorerService.getSchema over the
   SchemaViewAuditLimiter): views of one version of the schema by one user
   are audited at most once per window.  Views that arrive while an entry
   is being written wait for it and look again; when the write fails they
   fail with it. *)
CONSTANTS SchemaRequests,   \* requests for the schema
          Checksums,        \* versions of the schema
          AuditWindow,      \* windowMs
          MaxSchemaClock,   \* time bound
          MaxAuditFaults    \* failing audit writes and worker calls

ASSUME SchemaViewsAssumption ==
    /\ AuditWindow \in Nat \ {0}
    /\ "none" \notin SchemaRequests     \* stands for no request

VARIABLES
    schemaView,    \* schemaView[v]: where a request is
    lastWritten,   \* lastWrittenAt of a version, Never when there is none
    pendingWrite,  \* the request whose write the others of a version wait for
    writes,        \* audit entries: [of, at]
    schemaClock, auditFaults

schemaVars == <<schemaView, lastWritten, pendingWrite, writes, schemaClock, auditFaults>>

Never    == -1
NoWriter == "none"

SchemaInit ==
    /\ schemaView = [v \in SchemaRequests |-> [pc |-> "new"]]
    /\ lastWritten = [c \in Checksums |-> Never] /\ pendingWrite = [c \in Checksums |-> NoWriter]
    /\ writes = {} /\ schemaClock = 0 /\ auditFaults = 0

AuditFault == auditFaults < MaxAuditFaults /\ auditFaults' = auditFaults + 1

ViewAt(pc, c) == [pc |-> pc, of |-> c, at |-> schemaClock]

RequestSchema(v) ==
    /\ schemaView[v].pc = "new"
    /\ schemaView' = [schemaView EXCEPT ![v] = [pc |-> "worker"]]
    /\ UNCHANGED <<lastWritten, pendingWrite, writes, schemaClock, auditFaults>>

\* getSchema: the worker answers some version of the schema, or fails.
SchemaAnswered(v) ==
    /\ schemaView[v].pc = "worker"
    /\ \/ /\ \E c \in Checksums : schemaView' = [schemaView EXCEPT ![v] = ViewAt("again", c)]
          /\ UNCHANGED auditFaults
       \/ schemaView' = [schemaView EXCEPT ![v] = [pc |-> "failed"]] /\ AuditFault
    /\ UNCHANGED <<lastWritten, pendingWrite, writes, schemaClock>>

EntryIsFresh(c) == lastWritten[c] # Never /\ schemaClock - lastWritten[c] < AuditWindow

\* run: old entries are dropped; then the view is covered by an entry, waits
\* for the writer, or writes itself.
RunLimited(v) ==
    /\ schemaView[v].pc = "again"
    /\ LET c == schemaView[v].of
           writer == ~EntryIsFresh(c) /\ pendingWrite[c] = NoWriter
       IN  /\ lastWritten' = [k \in Checksums |-> IF EntryIsFresh(k) THEN lastWritten[k] ELSE Never]
           /\ pendingWrite' = [pendingWrite EXCEPT ![c] = IF writer THEN v ELSE @]
           /\ schemaView' = [schemaView EXCEPT ![v] =
                ViewAt(IF EntryIsFresh(c) THEN "served" ELSE IF writer THEN "writing" ELSE "waiting", c)]
    /\ UNCHANGED <<writes, schemaClock, auditFaults>>

\* The waiting views go on with the outcome of the write.
SettleViews(v, c, own, others) ==
    schemaView' = [u \in SchemaRequests |->
        IF u = v THEN ViewAt(own, c)
        ELSE IF schemaView[u].pc = "waiting" /\ schemaView[u].of = c THEN ViewAt(others, c) ELSE schemaView[u]]

WriteEntry(v) ==
    /\ schemaView[v].pc = "writing"
    /\ LET c == schemaView[v].of
       IN  /\ pendingWrite' = [pendingWrite EXCEPT ![c] = NoWriter]
           /\ \/ /\ lastWritten' = [lastWritten EXCEPT ![c] = schemaClock]
                 /\ writes' = writes \cup {[of |-> c, at |-> schemaClock]}
                 /\ SettleViews(v, c, "served", "again") /\ UNCHANGED auditFaults
              \/ AuditFault /\ SettleViews(v, c, "failed", "failed") /\ UNCHANGED <<lastWritten, writes>>
    /\ UNCHANGED schemaClock

SchemaTick ==
    /\ schemaClock < MaxSchemaClock
    /\ schemaClock' = schemaClock + 1
    /\ UNCHANGED <<schemaView, lastWritten, pendingWrite, writes, auditFaults>>

SchemaNext ==
    \/ SchemaTick
    \/ \E v \in SchemaRequests : RequestSchema(v) \/ SchemaAnswered(v) \/ RunLimited(v) \/ WriteEntry(v)

SchemaSpec == SchemaInit /\ [][SchemaNext]_schemaVars

\* A version of the schema is shown only when an entry of it less than a window
\* old covers the view, entries are at least a window apart however many views
\* arrive at once, and no view waits for a write that is not under way.
SchemaViewsAreAudited ==
    /\ \A v \in SchemaRequests : schemaView[v].pc = "served" =>
         \E w \in writes : w.of = schemaView[v].of /\ schemaView[v].at - w.at \in 0..(AuditWindow - 1)
    /\ \A w, x \in writes : w.of = x.of /\ w.at < x.at => x.at - w.at >= AuditWindow
    /\ \A v \in SchemaRequests : schemaView[v].pc = "waiting" =>
         LET u == pendingWrite[schemaView[v].of] IN u # NoWriter /\ schemaView[u].pc = "writing"

\* Rows of the explored databases are shown only as the page and the audit
\* ledger say.
ExplorerIsSafe == PageIsConsistent /\ PiiIsGuarded /\ SchemaViewsAreAudited
======

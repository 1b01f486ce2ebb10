------ MODULE VariablesPage ------
(* The variables page and the routes behind it: an owner unlocks the
   values with a proof, stages edits as a change, saves it, and applies it
   with a second proof that is bound to the digest of the change.
   
   Each function of the page is asynchronous: it sends a request, goes on
   from the state it captured when the answer comes, and others run in the
   meantime.  Answers come in any order, or not at all while the server
   still works on the request.  A route of the server is interrupted at
   its awaits: between looking into its map of grants and asking the
   database, and between the agent and the row of a change. *)
EXTENDS Naturals

CONSTANTS
    PageCalls,          \* functions of the page that may be under way at once
    Names, Values,  \* the variables and the values the owner gives them
    MaxDrafts,      \* changes created, unlocks and proofs to apply
    MaxUnlocks,
    MaxProofs,
    MaxClicks,      \* functions of the page the owner starts
    MaxMishaps,     \* answers lost and grants or deadlines that run out
    Unedited        \* not a value: the draft leaves the variable alone

ASSUME VariablesPageAssumption ==
    /\ Unedited \notin Values
    /\ PageCalls \subseteq Nat
    /\ {MaxDrafts, MaxProofs, MaxClicks, MaxMishaps} \subseteq Nat /\ MaxUnlocks \in Nat \ {0}

VARIABLES
    view,       \* the state of the page
    clicks,     \* functions started so far
    mishaps,    \* answers lost and expiries so far
    call,       \* the function running in each slot and its request
    unlocks,    \* variables_secret grants: "none", "live" or "dead"
    bound,      \* the grant the routes remember for the session, or 0
    proofs,     \* variables_apply grants: their digest and state
    authorized, \* the grant remembered for each digest, or 0
    change,     \* the row of each change
    agentHas,   \* what the agent holds of a change: its draft and its envelope
    confirmed,  \* history: what was on the screen when a proof was given
    launched,   \* history: what the agent was told to apply, under which grant
    opened,     \* history: the unlocks the page was told of
    closed      \* history: those of them a lock has ended

pageState == <<view, clicks, call>>
grantState == <<unlocks, bound, proofs, authorized>>
changeState == <<change, agentHas>>
pageHistory == <<confirmed, launched, opened, closed>>
variablesPageVars == <<mishaps, pageState, grantState, changeState, pageHistory>>

Drafts == [Names -> Values \cup {Unedited}]
NoEdits == [n \in Names |-> Unedited]
Changes == 1 .. MaxDrafts
NoChange == [id |-> 0, state |-> "none", digest |-> NoEdits]
Cleared == [unlocked |-> FALSE, items |-> 0, loading |-> FALSE, staged |-> NoChange,
            draft |-> NoEdits, confirm |-> FALSE]
Idle == [req |-> "idle", at |-> 0, gone |-> FALSE, answer |-> "none", id |-> 0,
         digest |-> NoEdits, items |-> NoEdits, grant |-> 0, state |-> "none"]
InProgress == {"APPLYING", "ROLLING_BACK"}
Final == {"COMPLETED", "ROLLED_BACK", "ROLLBACK_FAILED"}

\* The page is opened, or was unlocked before and shows the values it read.
VariablesPageInit ==
    /\ \/ /\ view = Cleared /\ bound = 0 /\ opened = {}
          /\ unlocks = [g \in 1 .. MaxUnlocks |-> "none"]
       \/ /\ view = [Cleared EXCEPT !.unlocked = TRUE, !.items = MaxUnlocks]
          /\ bound = MaxUnlocks /\ opened = {MaxUnlocks}
          /\ unlocks = [g \in 1 .. MaxUnlocks |-> IF g = MaxUnlocks THEN "live" ELSE "dead"]
    /\ clicks = 0 /\ mishaps = 0
    /\ call = [t \in PageCalls |-> Idle]
    /\ proofs = [g \in 1 .. MaxProofs |-> [state |-> "none", digest |-> NoEdits]]
    /\ authorized = [d \in Drafts |-> 0]
    /\ change = [c \in Changes |-> [state |-> "none", digest |-> NoEdits]]
    /\ agentHas = [c \in Changes |-> [draft |-> NoEdits, envelope |-> NoEdits]]
    /\ confirmed = {} /\ launched = {} /\ closed = {}

-----
\* The page.

\* A function starts: it takes a free slot and sends its first request.
Sends(t, request) ==
    /\ clicks < MaxClicks /\ clicks' = clicks + 1
    /\ call[t] = Idle /\ \A u \in PageCalls : call[u] = Idle => t <= u
    /\ call' = [call EXCEPT ![t] = request]

PageRequest(name) == [Idle EXCEPT !.req = name]

\* The form is there while the page is locked, and busy while an unlock runs.
UnlockOffered == ~view.unlocked /\ \A u \in PageCalls : call[u].req = "unlock" => call[u].gone
\* The values, each with its editor, are on the page while it is unlocked.
EditorsOffered == view.unlocked /\ view.items # 0
\* The panel of the change: what its buttons are enabled for.
ValidateOffered == view.unlocked /\ view.staged.state = "DRAFT"
ApplyOffered == view.unlocked /\ view.staged.state = "SAVED" /\ view.staged.digest # NoEdits
SaveOffered == view.unlocked /\ view.staged.state = "READY" /\ view.staged.digest # NoEdits
\* The dialog follows the digest of the change on the page.
ConfirmOffered == view.unlocked /\ view.confirm /\ view.staged.digest # NoEdits

\* unlock
ClickUnlock(t) ==
    /\ UnlockOffered
    /\ Sends(t, PageRequest("unlock"))
    /\ view' = Cleared
    /\ UNCHANGED <<grantState, changeState, pageHistory>>

\* readInventory, from the button.
ClickRefresh(t) ==
    /\ view.unlocked /\ ~view.loading
    /\ Sends(t, PageRequest("inventory"))
    /\ view' = [view EXCEPT !.items = 0, !.loading = TRUE]
    /\ UNCHANGED <<grantState, changeState, pageHistory>>

\* lock: the values leave the page before the server is told.
ClickLock(t) ==
    /\ view.unlocked
    /\ \E newest \in opened : (\A g \in opened : g <= newest) /\ Sends(t, [PageRequest("lock") EXCEPT !.id = newest])
    /\ view' = Cleared
    /\ UNCHANGED <<grantState, changeState, pageHistory>>

\* The timer of the deadline.
DeadlineClears ==
    /\ view.unlocked
    /\ view' = Cleared
    /\ UNCHANGED <<clicks, call, grantState, changeState, pageHistory>>

\* stage: an edit goes into the change on the page while that is a draft, and
\* into a new change that supersedes it otherwise.  With no change there the
\* draft starts afresh.
Replaces == view.staged.id # 0 /\ view.staged.state # "DRAFT"
Edited(n, v) ==
    IF view.staged.id = 0 THEN [NoEdits EXCEPT ![n] = v] ELSE [view.draft EXCEPT ![n] = v]

ClickStageNew(t, n, v) ==
    /\ EditorsOffered
    /\ view.staged.id = 0 \/ Replaces
    /\ Sends(t, [PageRequest("create") EXCEPT !.id = view.staged.id, !.items = Edited(n, v)])
    /\ UNCHANGED <<view, grantState, changeState, pageHistory>>

ClickStageMore(t, n, v) ==
    /\ EditorsOffered
    /\ view.staged.state = "DRAFT"
    /\ Sends(t, [PageRequest("items") EXCEPT !.id = view.staged.id, !.items = Edited(n, v)])
    /\ view' = [view EXCEPT !.draft = Edited(n, v)]
    /\ UNCHANGED <<grantState, changeState, pageHistory>>

\* validateDraft: the button works in DRAFT only.
ClickValidate(t) ==
    /\ ValidateOffered
    /\ Sends(t, [PageRequest("validate") EXCEPT !.id = view.staged.id, !.items = view.draft])
    /\ UNCHANGED <<view, grantState, changeState, pageHistory>>

ClickSave(t) ==
    /\ SaveOffered
    /\ Sends(t, [PageRequest("save") EXCEPT !.id = view.staged.id, !.digest = view.staged.digest])
    /\ UNCHANGED <<view, grantState, changeState, pageHistory>>

ClickApply ==
    /\ ApplyOffered
    /\ ~view.confirm
    /\ view' = [view EXCEPT !.confirm = TRUE]
    /\ UNCHANGED <<clicks, call, grantState, changeState, pageHistory>>

CancelApply ==
    /\ view.confirm
    /\ view' = [view EXCEPT !.confirm = FALSE]
    /\ UNCHANGED <<clicks, call, grantState, changeState, pageHistory>>

\* applyDraft: the dialog shows the digest the page has at that moment.
ClickConfirm(t) ==
    /\ ConfirmOffered
    /\ Sends(t, [PageRequest("authorize") EXCEPT !.id = view.staged.id,
                                             !.digest = view.staged.digest])
    /\ confirmed' = confirmed \cup {<<view.staged.id, view.staged.digest>>}
    /\ UNCHANGED <<view, grantState, changeState, launched, opened, closed>>

\* setStaged(current => current ? ... : current)
Merged(state, digest) ==
    IF view.staged.id = 0 THEN view.staged
    ELSE [view.staged EXCEPT !.state = state, !.digest = digest]

\* The function returns to idle, or sends its next request in the same slot.
GoesOn(t, request) == call' = [call EXCEPT ![t] = request] /\ UNCHANGED clicks

Answered(t, name) == call[t].req = name /\ call[t].answer = "ok" /\ ~call[t].gone

\* The deadline is checked once more before the page opens.
UnlockAnswered(t) ==
    /\ Answered(t, "unlock")
    /\ \/ /\ GoesOn(t, PageRequest("inventory"))
          /\ view' = [view EXCEPT !.unlocked = TRUE, !.items = 0, !.loading = TRUE]
          /\ opened' = opened \cup {call[t].grant}
       \/ /\ unlocks[call[t].grant] = "dead"
          /\ GoesOn(t, Idle)
          /\ view' = Cleared
          /\ UNCHANGED opened
    /\ UNCHANGED <<grantState, changeState, confirmed, launched, closed>>

InventoryAnswered(t) ==
    /\ Answered(t, "inventory")
    /\ GoesOn(t, Idle)
    /\ view' = [view EXCEPT !.items = call[t].grant, !.loading = FALSE]
    /\ UNCHANGED <<grantState, changeState, pageHistory>>

LockAnswered(t) ==
    /\ Answered(t, "lock")
    /\ GoesOn(t, Idle)
    /\ closed' = closed \cup {g \in opened : g <= call[t].id}
    /\ UNCHANGED <<view, grantState, changeState, confirmed, launched, opened>>

\* The new change takes the place of the one on the page, with the edits this
\* call captured, and is sent to be validated.
CreateAnswered(t) ==
    /\ Answered(t, "create")
    /\ GoesOn(t, [PageRequest("items") EXCEPT !.id = call[t].id, !.items = call[t].items])
    /\ view' = [view EXCEPT !.draft = call[t].items,
                            !.staged = [id |-> call[t].id, state |-> "DRAFT", digest |-> NoEdits]]
    /\ UNCHANGED <<grantState, changeState, pageHistory>>

ItemsAnswered(t) ==
    /\ Answered(t, "items") \/ Answered(t, "validate")
    /\ GoesOn(t, Idle)
    /\ view' = [view EXCEPT !.staged = Merged("READY", call[t].digest)]
    /\ UNCHANGED <<grantState, changeState, pageHistory>>

SaveAnswered(t) ==
    /\ Answered(t, "save")
    /\ GoesOn(t, Idle)
    /\ view' = [view EXCEPT !.staged = Merged("SAVED", view.staged.digest)]
    /\ UNCHANGED <<grantState, changeState, pageHistory>>

\* applyDraft goes on with the change and digest it captured.
AuthorizeAnswered(t) ==
    /\ Answered(t, "authorize")
    /\ GoesOn(t, [PageRequest("apply") EXCEPT !.id = call[t].id, !.digest = call[t].digest])
    /\ UNCHANGED <<view, grantState, changeState, pageHistory>>

ApplyAnswered(t) ==
    /\ Answered(t, "apply")
    /\ GoesOn(t, [PageRequest("status") EXCEPT !.id = call[t].id])
    /\ view' = [view EXCEPT !.confirm = FALSE, !.staged = Merged("APPLYING", view.staged.digest)]
    /\ UNCHANGED <<grantState, changeState, pageHistory>>

StatusAnswered(t) ==
    /\ Answered(t, "status")
    /\ GoesOn(t, Idle)
    /\ view' = [view EXCEPT !.staged = Merged(call[t].state, call[t].digest)]
    /\ UNCHANGED <<grantState, changeState, pageHistory>>

\* An error: unlock and readInventory clear the page, the others leave it.
AfterError(t) == IF call[t].req \in {"unlock", "inventory"} THEN Cleared ELSE view

PageFails(t) ==
    /\ call[t].answer = "err"
    /\ GoesOn(t, Idle)
    /\ view' = AfterError(t)
    /\ UNCHANGED <<grantState, changeState, pageHistory>>

\* No answer comes, while what the server was doing goes on.
AnswerLost(t) ==
    /\ call[t].req # "idle" /\ ~call[t].gone /\ call[t].answer = "none"
    /\ GoesOn(t, [call[t] EXCEPT !.gone = TRUE])
    /\ view' = AfterError(t)
    /\ UNCHANGED <<grantState, changeState, pageHistory>>

\* The stream of the change on the page, open while its apply is under way.
StreamEvent ==
    /\ view.staged.id # 0 /\ view.staged.state \in InProgress
    /\ LET row == change[view.staged.id]
       IN  view' = [view EXCEPT !.staged = Merged(row.state, row.digest)]
    /\ view' # view
    /\ UNCHANGED <<clicks, call, grantState, changeState, pageHistory>>

-----
\* The server.

\* A route answers: an answer nobody waits for frees the slot, and so does an
\* error the page only writes down.
Replies(t, reply) ==
    /\ call' = [call EXCEPT ![t] = IF call[t].gone THEN Idle ELSE reply]
    /\ UNCHANGED clicks
Denies(t) ==
    Replies(t, IF call[t].req \in {"unlock", "inventory"} THEN [call[t] EXCEPT !.answer = "err"] ELSE Idle)
Accepts(t) == Replies(t, [call[t] EXCEPT !.answer = "ok"])
Awaits(t, next) == call' = [call EXCEPT ![t] = next] /\ UNCHANGED clicks
Serves(t, name, step) == call[t].req = name /\ call[t].at = step /\ call[t].answer = "none"

\* The identifiers are given in order.
NextUnlock(g) == unlocks[g] = "none" /\ \A h \in 1 .. g - 1 : unlocks[h] # "none"
NextProof(g) == proofs[g].state = "none" /\ \A h \in 1 .. g - 1 : proofs[h].state # "none"
NextChange(c) == change[c].state = "none" /\ \A d \in 1 .. c - 1 : change[d].state # "none"

\* The origin, the CSRF token, the session, the role, the body, the rate or the
\* proof is not as it must be: nothing is done.
Refuses(t, routes) ==
    /\ call[t].req \in routes /\ Serves(t, call[t].req, 0)
    /\ Denies(t)
    /\ UNCHANGED <<view, grantState, changeState, pageHistory>>

ValuesRouteRefuses(t) == Refuses(t, {"unlock", "lock", "inventory"})
ChangeRouteRefuses(t) ==
    Refuses(t, {"create", "items", "validate", "save", "authorize", "apply", "status"})

\* grant: older grants of the session go, a new one comes.
UnlocksWithNew(new) ==
    [g \in 1 .. MaxUnlocks |->
        IF g = new THEN "live" ELSE IF unlocks[g] = "live" THEN "dead" ELSE unlocks[g]]
\* authorize: the grant is neither revoked nor expired.
UnlockHolds(g) == unlocks[g] = "live"

\* The proof holds.
UnlockGrants(t) ==
    /\ Serves(t, "unlock", 0)
    /\ \E new \in 1 .. MaxUnlocks :
          /\ NextUnlock(new)
          /\ unlocks' = UnlocksWithNew(new)
          /\ Awaits(t, [call[t] EXCEPT !.at = 1, !.grant = new])
    /\ UNCHANGED <<view, bound, proofs, authorized, changeState, pageHistory>>

\* grants.set, then the audit: when that fails the page is told of a refusal.
UnlockBinds(t) ==
    /\ Serves(t, "unlock", 1)
    /\ bound' = call[t].grant
    /\ Accepts(t) \/ Denies(t)
    /\ UNCHANGED <<view, unlocks, proofs, authorized, changeState, pageHistory>>

LockLooks(t) ==
    /\ Serves(t, "lock", 0)
    /\ Awaits(t, [call[t] EXCEPT !.at = 1, !.grant = bound])
    /\ UNCHANGED <<view, grantState, changeState, pageHistory>>

\* revoke, then grants.delete; a failed revocation deletes nothing.
LockRevokes(t) ==
    /\ Serves(t, "lock", 1)
    /\ \/ /\ unlocks' = [g \in 1 .. MaxUnlocks |-> IF g = call[t].grant THEN "dead" ELSE unlocks[g]]
          /\ bound' = IF call[t].grant = 0 THEN bound ELSE 0
          /\ Accepts(t)
       \/ /\ call[t].grant # 0 /\ Denies(t)
          /\ UNCHANGED <<unlocks, bound>>
    /\ UNCHANGED <<view, proofs, authorized, changeState, pageHistory>>

InventoryLooks(t) ==
    /\ Serves(t, "inventory", 0)
    /\ IF bound = 0 THEN Denies(t) ELSE Awaits(t, [call[t] EXCEPT !.at = 1, !.grant = bound])
    /\ UNCHANGED <<view, grantState, changeState, pageHistory>>

\* authorize, then the agent's inventory and its audit, which may fail.
InventoryReads(t) ==
    /\ Serves(t, "inventory", 1)
    /\ IF UnlockHolds(call[t].grant)
       THEN (Accepts(t) \/ Denies(t)) /\ UNCHANGED bound
       ELSE Denies(t) /\ bound' = 0
    /\ UNCHANGED <<view, unlocks, proofs, authorized, changeState, pageHistory>>

\* A change supersedes one of its application that is validated and not applied.
Supersedable(c) == change[c].state \in {"INVALID", "READY", "SAVED"}

\* createChange in one transaction; the superseded row is only looked at.
CreateChange(t) ==
    /\ Serves(t, "create", 0)
    /\ IF call[t].id # 0 /\ ~Supersedable(call[t].id)
       THEN Denies(t) /\ UNCHANGED change
       ELSE \E new \in Changes :
               /\ NextChange(new)
               /\ change' = [change EXCEPT ![new].state = "DRAFT"]
               /\ Replies(t, [call[t] EXCEPT !.answer = "ok", !.id = new])
    /\ UNCHANGED <<view, grantState, agentHas, pageHistory>>

\* validate and replaceItems: the agent keeps the items as its draft ...
ValidateAtAgent(t) ==
    /\ Serves(t, "items", 0) \/ Serves(t, "validate", 0)
    /\ agentHas' = [agentHas EXCEPT ![call[t].id].draft = call[t].items]
    /\ Awaits(t, [call[t] EXCEPT !.at = 1, !.digest = call[t].items])
    /\ UNCHANGED <<view, grantState, change, pageHistory>>

\* ... and the row takes their digest, from DRAFT or INVALID only.
UpdateValidation(t) ==
    /\ Serves(t, "items", 1) \/ Serves(t, "validate", 1)
    /\ IF change[call[t].id].state \in {"DRAFT", "INVALID"}
       THEN /\ change' = [change EXCEPT ![call[t].id] = [state |-> "READY", digest |-> call[t].digest]]
            /\ Accepts(t)
       ELSE Denies(t) /\ UNCHANGED change
    /\ UNCHANGED <<view, grantState, agentHas, pageHistory>>

\* save: the agent seals its draft if it has the digest ...
SaveAtAgent(t) ==
    /\ Serves(t, "save", 0)
    /\ LET c == call[t].id
       IN  IF change[c].state = "READY" /\ agentHas[c].draft = call[t].digest
           THEN /\ agentHas' = [agentHas EXCEPT ![c] = [draft |-> NoEdits, envelope |-> @.draft]]
                /\ Awaits(t, [call[t] EXCEPT !.at = 1])
           ELSE Denies(t) /\ UNCHANGED agentHas
    /\ UNCHANGED <<view, grantState, change, pageHistory>>

\* ... and the row must still be READY with it.
MarkSaved(t) ==
    /\ Serves(t, "save", 1)
    /\ IF change[call[t].id] = [state |-> "READY", digest |-> call[t].digest]
       THEN change' = [change EXCEPT ![call[t].id].state = "SAVED"] /\ Accepts(t)
       ELSE Denies(t) /\ UNCHANGED change
    /\ UNCHANGED <<view, grantState, agentHas, pageHistory>>

\* The proof to apply is granted for one digest; an older one of the same
\* digest goes.
AuthorizeGrants(t) ==
    /\ Serves(t, "authorize", 0)
    /\ \E new \in 1 .. MaxProofs :
          /\ NextProof(new)
          /\ proofs' = [g \in 1 .. MaxProofs |->
                IF g = new THEN [state |-> "live", digest |-> call[t].digest]
                ELSE IF proofs[g] = [state |-> "live", digest |-> call[t].digest]
                THEN [proofs[g] EXCEPT !.state = "dead"] ELSE proofs[g]]
          /\ Awaits(t, [call[t] EXCEPT !.at = 1, !.grant = new])
    /\ UNCHANGED <<view, unlocks, bound, authorized, changeState, pageHistory>>

\* pruneAuthorizations, then authorizations.set.
AuthorizeBinds(t) ==
    /\ Serves(t, "authorize", 1)
    /\ authorized' = [d \in Drafts |->
            IF d = call[t].digest THEN call[t].grant
            ELSE IF authorized[d] # 0 /\ proofs[authorized[d]].state = "dead" THEN 0 ELSE authorized[d]]
    /\ Accepts(t)
    /\ UNCHANGED <<view, unlocks, bound, proofs, changeState, pageHistory>>

ApplyLooks(t) ==
    /\ Serves(t, "apply", 0)
    /\ IF authorized[call[t].digest] = 0 THEN Denies(t)
       ELSE Awaits(t, [call[t] EXCEPT !.at = 1, !.grant = authorized[call[t].digest]])
    /\ UNCHANGED <<view, grantState, changeState, pageHistory>>

\* consume takes a grant once.
Consumable(g) == proofs[g].state = "live"

\* The entry of the digest goes either way.
ApplyConsumes(t) ==
    /\ Serves(t, "apply", 1)
    /\ authorized' = [authorized EXCEPT ![call[t].digest] = 0]
    /\ IF Consumable(call[t].grant)
       THEN /\ proofs' = [proofs EXCEPT ![call[t].grant].state = "used"]
            /\ Awaits(t, [call[t] EXCEPT !.at = 2])
       ELSE Denies(t) /\ UNCHANGED proofs
    /\ UNCHANGED <<view, unlocks, bound, changeState, pageHistory>>

\* Mutant: the service does not compare the digest.
ApplyStartsAnyDigest(t) ==
    /\ Serves(t, "apply", 2)
    /\ LET c == call[t].id
           starts == change[c].state = "SAVED"
       IN  /\ change' = IF starts THEN [change EXCEPT ![c].state = "APPLYING"] ELSE change
           /\ launched' = IF starts
                          THEN launched \cup {[change |-> c, items |-> agentHas[c].envelope,
                                               grant |-> call[t].grant]}
                          ELSE launched
           /\ IF starts THEN Accepts(t) ELSE Denies(t)
    /\ UNCHANGED <<view, grantState, agentHas, confirmed, opened, closed>>

\* The service: a saved row with the digest becomes APPLYING, and the agent
\* starts the envelope it has under that digest.
ApplyStarts(t) ==
    /\ Serves(t, "apply", 2)
    /\ LET c == call[t].id
           accepted == change[c] = [state |-> "SAVED", digest |-> call[t].digest]
           starts == accepted /\ agentHas[c].envelope = call[t].digest
       IN  /\ change' = IF accepted
                        THEN [change EXCEPT ![c].state = IF starts THEN "APPLYING" ELSE "ROLLBACK_FAILED"]
                        ELSE change
           /\ launched' = IF starts
                          THEN launched \cup {[change |-> c, items |-> agentHas[c].envelope,
                                               grant |-> call[t].grant]}
                          ELSE launched
           /\ IF starts THEN Accepts(t) ELSE Denies(t)
    /\ UNCHANGED <<view, grantState, agentHas, confirmed, opened, closed>>

StatusReads(t) ==
    /\ Serves(t, "status", 0)
    /\ Replies(t, [call[t] EXCEPT !.answer = "ok", !.state = change[call[t].id].state,
                                  !.digest = change[call[t].id].digest])
    /\ UNCHANGED <<view, grantState, changeState, pageHistory>>

\* The run ends; the page may cancel nothing of it.
RunEnds(c) ==
    /\ change[c].state = "APPLYING"
    /\ \E end \in Final : change' = [change EXCEPT ![c].state = end]
    /\ UNCHANGED <<pageState, grantState, agentHas, pageHistory>>

\* Grants expire.
UnlockExpires(g) ==
    /\ unlocks[g] = "live"
    /\ unlocks' = [unlocks EXCEPT ![g] = "dead"]
    /\ UNCHANGED <<pageState, bound, proofs, authorized, changeState, pageHistory>>

ProofExpires(g) ==
    /\ proofs[g].state = "live"
    /\ proofs' = [proofs EXCEPT ![g].state = "dead"]
    /\ UNCHANGED <<pageState, unlocks, bound, authorized, changeState, pageHistory>>

OwnerClicks(t) ==
    \/ ClickUnlock(t) \/ ClickRefresh(t) \/ ClickLock(t)
    \/ \E n \in Names, v \in Values : ClickStageNew(t, n, v) \/ ClickStageMore(t, n, v)
    \/ ClickValidate(t) \/ ClickSave(t) \/ ClickConfirm(t)

PageGoesOn(t) ==
    \/ UnlockAnswered(t) \/ InventoryAnswered(t) \/ LockAnswered(t)
    \/ CreateAnswered(t) \/ ItemsAnswered(t) \/ SaveAnswered(t)
    \/ AuthorizeAnswered(t) \/ ApplyAnswered(t) \/ StatusAnswered(t) \/ PageFails(t)

ServerServes(t) ==
    \/ ValuesRouteRefuses(t) \/ ChangeRouteRefuses(t)
    \/ UnlockGrants(t) \/ UnlockBinds(t) \/ LockLooks(t) \/ LockRevokes(t)
    \/ InventoryLooks(t) \/ InventoryReads(t)
    \/ CreateChange(t) \/ ValidateAtAgent(t) \/ UpdateValidation(t) \/ SaveAtAgent(t) \/ MarkSaved(t)
    \/ AuthorizeGrants(t) \/ AuthorizeBinds(t)
    \/ ApplyLooks(t) \/ ApplyConsumes(t) \/ ApplyStarts(t) \/ StatusReads(t)

Mishap ==
    /\ mishaps < MaxMishaps /\ mishaps' = mishaps + 1
    /\ \/ DeadlineClears
       \/ \E t \in PageCalls : AnswerLost(t)
       \/ \E g \in 1 .. MaxUnlocks : UnlockExpires(g)
       \/ \E g \in 1 .. MaxProofs : ProofExpires(g)

VariablesPageNext ==
    \/ /\ \/ \E t \in PageCalls : OwnerClicks(t) \/ PageGoesOn(t) \/ ServerServes(t)
          \/ ClickApply \/ CancelApply \/ StreamEvent
          \/ \E c \in Changes : RunEnds(c)
       /\ UNCHANGED mishaps
    \/ Mishap

VariablesPageSpec == VariablesPageInit /\ [][VariablesPageNext]_variablesPageVars

-----
VariablesPageTypeOK ==
    /\ view.staged.id \in 0 .. MaxDrafts /\ view.draft \in Drafts /\ view.items \in 0 .. MaxUnlocks
    /\ \A t \in PageCalls : call[t].id \in Nat /\ call[t].items \in Drafts /\ call[t].digest \in Drafts
    /\ unlocks \in [1 .. MaxUnlocks -> {"none", "live", "dead"}]
    /\ bound \in 0 .. MaxUnlocks
    /\ proofs \in [1 .. MaxProofs -> [state : {"none", "live", "dead", "used"}, digest : Drafts]]
    /\ authorized \in [Drafts -> 0 .. MaxProofs]
    /\ agentHas \in [Changes -> [draft : Drafts, envelope : Drafts]]

\* What the agent is told to apply is what the dialog showed when a proof was
\* given: the same change with the same items, however stale the page was.
AppliedAsConfirmed ==
    \A l \in launched : <<l.change, l.items>> \in confirmed

\* A proof starts one run, of the digest it was given for, and a change runs once.
OneRunPerProof ==
    /\ \A l \in launched : proofs[l.grant] = [state |-> "used", digest |-> l.items]
    /\ \A l, m \in launched : l.grant = m.grant \/ l.change = m.change => l = m

\* After a lock was answered with success the routes no longer hold an unlock
\* the page had been told of before, so that nothing asked later is read with it.
LockEndsReading ==
    \A g \in closed : bound # g

\* A row that was applied keeps the digest it was applied with, whatever
\* validations were still under way.
AppliedRowKeepsDigest ==
    \A l \in launched : change[l.change].digest = l.items /\ change[l.change].state \in {"APPLYING"} \cup Final

VariablesPageIsSafe ==
    VariablesPageTypeOK /\ AppliedAsConfirmed /\ OneRunPerProof /\ LockEndsReading /\ AppliedRowKeepsDigest

======

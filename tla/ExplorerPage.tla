------ MODULE ExplorerPage ------
(* The database page of the console (apps/web/src/web/features/database/
   useDatabaseExplorer.ts): schema, rows and related rows are requested
   concurrently, answers arrive in any order and are dropped when their
   generation is over; a reveal of masked values creates a grant on the
   server that every way of leaving the revealed state must revoke.  Both the
   POST that creates a grant and the DELETE that revokes are handled by the
   server in one step and answered in another. *)
EXTENDS Integers, Sequences, FiniteSets

CONSTANTS
    DbTargets, DbRelations,
    MaxUserSteps,     \* bound on what the user does
    MaxNetFaults      \* bound on requests that fail

ASSUME ExplorerPageAssumption ==
    /\ DbTargets # {} /\ DbRelations # {}
    /\ "none" \notin DbTargets \cup DbRelations     \* stands for no selection

FirstTarget == CHOOSE t \in DbTargets : TRUE
FirstRelation == CHOOSE r \in DbRelations : TRUE
NoRelation == "none"

VARIABLES
    page,         \* the state of the hook and its refs
    rows,         \* what the grid shows: [target, relation, mode, by]; mode "none" when it is empty
    drawer,       \* the related rows: [target, relation, mode]; mode "closed" or "loading" too
    requests,     \* rows, related rows and schemas under way
    reveal,       \* the reveal POST: [pc, privacy, target, relation]; pc none, sent, granted, denied, rows
    revocations,  \* privacyTransitionQueue: [privacy, wait, then, target, sent, served], in order
    grants,       \* the targets for which the server holds a grant
    overtaken,    \* history: the answer of a reveal reached a page that was left while every
                  \* revocation outstanding had been handled by the server already
    userSteps, netFaults

pageState == <<page, rows, drawer, requests, reveal, revocations>>
explorerVars == <<pageState, grants, overtaken, userSteps, netFaults>>

NoRows == [target |-> NoRelation, relation |-> NoRelation, mode |-> "none", by |-> "none"]
NoDrawer == [target |-> NoRelation, relation |-> NoRelation, mode |-> "closed"]
NoReveal == [pc |-> "none", privacy |-> 0, target |-> NoRelation, relation |-> NoRelation]

SchemaRequest(g, t) == [kind |-> "schema", gen |-> g, privacy |-> 0, target |-> t, relation |-> NoRelation, mode |-> "none"]
RowsRequest(kind, g, p, t, r, mode) ==
    [kind |-> kind, gen |-> g, privacy |-> p, target |-> t, relation |-> r, mode |-> mode]
Mode(p) == IF p.active THEN "revealed" ELSE "masked"

\* On mount the targets are loaded, the first is selected and its schema asked for.
ExplorerInit ==
    /\ page = [mounted |-> TRUE, target |-> FirstTarget, relation |-> NoRelation, schema |-> NoRelation,
               active |-> FALSE, suppressed |-> FALSE, grantMay |-> FALSE, pendingRevocations |-> 0,
               revokeOnUnmount |-> FALSE, schemaGen |-> 1, rowsGen |-> 0, relatedGen |-> 0, privacyGen |-> 0]
    /\ rows = NoRows /\ drawer = NoDrawer
    /\ requests = {SchemaRequest(1, FirstTarget)}
    /\ reveal = NoReveal /\ revocations = <<>> /\ grants = {} /\ overtaken = FALSE
    /\ userSteps = 0 /\ netFaults = 0

-----
\* loadRows, run by the effect on the selection: it is skipped while rows are
\* suppressed or nothing is selected.
LoadRows(p) ==
    IF p.suppressed \/ p.relation = NoRelation
    THEN page' = p /\ UNCHANGED requests
    ELSE /\ page' = [p EXCEPT !.rowsGen = @ + 1]
         /\ requests' = requests \cup
              {RowsRequest("rows", p.rowsGen + 1, 0, p.target, p.relation, Mode(p))}

\* clearRowsAndSensitiveLayers: synchronously, before anything is awaited.
Cleared(p) ==
    [p EXCEPT !.privacyGen = @ + 1, !.rowsGen = @ + 1, !.relatedGen = @ + 1,
              !.suppressed = TRUE, !.active = FALSE]

\* revokePrivacy: the revocation waits for the ones before it and for a reveal
\* that is under way.
Revocation(p, then, t) ==
    [privacy |-> p.privacyGen, wait |-> reveal.pc \in {"sent", "granted", "denied"}, then |-> then,
     target |-> t, sent |-> FALSE, served |-> FALSE]
Revoked(p) == [p EXCEPT !.pendingRevocations = @ + 1]

Acts == page.mounted /\ userSteps < MaxUserSteps /\ userSteps' = userSteps + 1

-----
SelectRelation(r) ==
    /\ Acts /\ page.schema # NoRelation
    /\ LoadRows([page EXCEPT !.rowsGen = @ + 1, !.relatedGen = @ + 1, !.relation = r])
    /\ rows' = NoRows /\ drawer' = NoDrawer
    /\ UNCHANGED <<reveal, revocations, grants, overtaken, netFaults>>

\* A page, the page size, a filter or the sort order is changed: the rows stay
\* until the next ones arrive.
ChangeQuery ==
    /\ Acts /\ rows.mode # "none"
    /\ LoadRows(page)
    /\ UNCHANGED <<rows, drawer, reveal, revocations, grants, overtaken, netFaults>>

SelectTarget(t) ==
    /\ Acts /\ ~(page.target = t /\ page.schema # NoRelation)
    /\ LET p == [Cleared(page) EXCEPT !.schemaGen = @ + 1, !.schema = NoRelation, !.relation = NoRelation]
       IN  page' = Revoked(p) /\ revocations' = Append(revocations, Revocation(p, "select", t))
    /\ rows' = NoRows /\ drawer' = NoDrawer
    /\ UNCHANGED <<requests, reveal, grants, overtaken, netFaults>>

\* handleHide, by the button or by the countdown; both exist only while values
\* are revealed.
Hide ==
    /\ Acts /\ page.active
    /\ LET p == Cleared(page)
       IN  page' = Revoked(p) /\ revocations' = Append(revocations, Revocation(p, "hide", p.target))
    /\ rows' = NoRows /\ drawer' = NoDrawer
    /\ UNCHANGED <<requests, reveal, grants, overtaken, netFaults>>

\* followRelation opens the drawer; closeRelatedDrawer closes it.
FollowRelation ==
    /\ Acts /\ rows.mode # "none" /\ page.relation # NoRelation
    /\ page' = [page EXCEPT !.relatedGen = @ + 1]
    /\ drawer' = [target |-> page.target, relation |-> page.relation, mode |-> "loading"]
    /\ requests' = requests \cup
         {RowsRequest("related", page.relatedGen + 1, 0, page.target, page.relation, Mode(page))}
    /\ UNCHANGED <<rows, reveal, revocations, grants, overtaken, netFaults>>
CloseDrawer ==
    /\ Acts /\ drawer.mode # "closed"
    /\ page' = [page EXCEPT !.relatedGen = @ + 1] /\ drawer' = NoDrawer
    /\ UNCHANGED <<rows, requests, reveal, revocations, grants, overtaken, netFaults>>

\* handleReveal posts the reveal; one is submitted at a time, and the dialog can
\* be closed while it is under way.
Reveal ==
    /\ Acts /\ ~page.active /\ ~page.suppressed /\ page.relation # NoRelation /\ reveal.pc = "none"
    /\ reveal' = [pc |-> "sent", privacy |-> page.privacyGen, target |-> page.target, relation |-> page.relation]
    /\ UNCHANGED <<page, rows, drawer, requests, revocations, grants, overtaken, netFaults>>

\* The cleanup of the effect: the page is left.
Unmount ==
    /\ Acts
    /\ LET pending == reveal.pc \in {"sent", "granted", "denied"}
           may == page.grantMay \/ page.active
           p == [page EXCEPT !.mounted = FALSE, !.privacyGen = @ + 1, !.rowsGen = @ + 1, !.relatedGen = @ + 1]
           q == [Cleared(p) EXCEPT !.revokeOnUnmount = pending]
       IN  IF ~pending /\ ~may THEN page' = p /\ UNCHANGED revocations
           ELSE IF ~may \/ page.pendingRevocations > 0 THEN page' = q /\ UNCHANGED revocations
           ELSE /\ page' = Revoked(q)
                /\ revocations' = Append(revocations, [Revocation(q, "none", q.target) EXCEPT !.wait = FALSE])
    /\ rows' = NoRows /\ drawer' = NoDrawer
    /\ UNCHANGED <<requests, reveal, grants, overtaken, netFaults>>

-----
\* The server handles the reveal: it grants or denies it.
ServeReveal(granted) ==
    /\ reveal.pc = "sent"
    /\ reveal' = [reveal EXCEPT !.pc = IF granted THEN "granted" ELSE "denied"]
    /\ IF granted THEN grants' = grants \cup {reveal.target} /\ UNCHANGED netFaults
       ELSE netFaults < MaxNetFaults /\ netFaults' = netFaults + 1 /\ UNCHANGED grants
    /\ UNCHANGED <<page, rows, drawer, requests, revocations, overtaken, userSteps>>

\* Its answer arrives.  A page that was left, or that has cleared its rows since,
\* goes no further; otherwise the rows are asked for again, with the selection
\* the reveal was submitted for.
RevealAnswered ==
    /\ \/ /\ reveal.pc = "denied" /\ reveal' = NoReveal
          /\ page' = [page EXCEPT !.revokeOnUnmount = FALSE]
          /\ UNCHANGED <<requests, revocations, overtaken>>
       \/ /\ reveal.pc = "granted" /\ page.mounted /\ page.privacyGen = reveal.privacy
          /\ page' = [page EXCEPT !.grantMay = TRUE, !.rowsGen = @ + 1]
          /\ reveal' = [reveal EXCEPT !.pc = "rows"]
          /\ requests' = requests \cup {RowsRequest("reveal", page.rowsGen + 1, page.privacyGen,
                                                    reveal.target, reveal.relation, "revealed")}
          /\ UNCHANGED <<revocations, overtaken>>
       \/ /\ reveal.pc = "granted" /\ ~(page.mounted /\ page.privacyGen = reveal.privacy)
          /\ LET p == [page EXCEPT !.grantMay = TRUE, !.revokeOnUnmount = FALSE]
             IN  IF ~page.mounted /\ page.revokeOnUnmount /\ page.pendingRevocations = 0
                 THEN /\ page' = Revoked(p)
                      /\ revocations' = Append(revocations, [Revocation(p, "none", p.target) EXCEPT !.wait = FALSE])
                 ELSE page' = p /\ UNCHANGED revocations
          /\ overtaken' = (overtaken \/ (/\ ~page.mounted /\ page.pendingRevocations > 0
                                         /\ \A k \in DOMAIN revocations : revocations[k].served))
          /\ reveal' = NoReveal /\ UNCHANGED requests
    /\ UNCHANGED <<rows, drawer, grants, userSteps, netFaults>>

\* The rows of a reveal arrive, or fail: then everything is cleared and revoked.
RevealRows(q, ok) ==
    LET current == page.mounted /\ page.privacyGen = q.privacy IN
    /\ q \in requests /\ q.kind = "reveal" /\ requests' = requests \ {q} /\ reveal' = NoReveal
    /\ IF ok /\ current /\ page.rowsGen = q.gen
       THEN /\ rows' = [target |-> q.target, relation |-> q.relation, mode |-> "revealed", by |-> "reveal"]
            /\ page' = [page EXCEPT !.active = TRUE] /\ UNCHANGED <<drawer, revocations>>
       ELSE IF ~ok /\ current
       THEN LET p == Cleared(page) IN
            /\ page' = Revoked(p)
            /\ revocations' = Append(revocations, [Revocation(p, "hide", p.target) EXCEPT !.wait = FALSE])
            /\ rows' = NoRows /\ drawer' = NoDrawer
       ELSE UNCHANGED <<page, rows, drawer, revocations>>
    /\ IF ok THEN UNCHANGED netFaults ELSE netFaults < MaxNetFaults /\ netFaults' = netFaults + 1
    /\ UNCHANGED <<grants, overtaken, userSteps>>

\* The revocation at the head of the queue is sent, once its reveal settled.
SendRevocation ==
    /\ revocations # <<>> /\ ~Head(revocations).sent
    /\ Head(revocations).wait => reveal.pc \notin {"sent", "granted", "denied"}
    /\ revocations' = [revocations EXCEPT ![1].sent = TRUE]
    /\ UNCHANGED <<page, rows, drawer, requests, reveal, grants, overtaken, userSteps, netFaults>>

\* The server handles it: every grant of the session is revoked.
ServeRevocation ==
    /\ revocations # <<>> /\ Head(revocations).sent /\ ~Head(revocations).served
    /\ revocations' = [revocations EXCEPT ![1].served = TRUE] /\ grants' = {}
    /\ UNCHANGED <<page, rows, drawer, requests, reveal, overtaken, userSteps, netFaults>>

\* Its answer arrives, and the caller goes on if nothing was cleared since: the
\* masked rows or the new schema.
RevocationDone ==
    /\ revocations # <<>> /\ Head(revocations).served
    /\ LET op == Head(revocations)
           p == [page EXCEPT !.grantMay = FALSE, !.pendingRevocations = @ - 1]
           free == [p EXCEPT !.suppressed = FALSE]
       IN  IF op.privacy # page.privacyGen \/ op.then = "none" THEN page' = p /\ UNCHANGED requests
           ELSE IF op.then = "select"
           THEN /\ page' = [free EXCEPT !.target = op.target, !.schemaGen = @ + 1]
                /\ requests' = requests \cup {SchemaRequest(free.schemaGen + 1, op.target)}
           ELSE IF free.relation = NoRelation THEN page' = free /\ UNCHANGED requests
           ELSE /\ page' = [free EXCEPT !.rowsGen = @ + 1]
                /\ requests' = requests \cup {RowsRequest("masked", free.rowsGen + 1, free.privacyGen,
                                                          free.target, free.relation, "masked")}
    /\ revocations' = Tail(revocations)
    /\ UNCHANGED <<rows, drawer, reveal, grants, overtaken, userSteps, netFaults>>
\* It fails, before the server handled it or after: the rows stay suppressed.
RevocationFailed ==
    /\ revocations # <<>> /\ Head(revocations).sent
    /\ netFaults < MaxNetFaults /\ netFaults' = netFaults + 1
    /\ page' = [page EXCEPT !.pendingRevocations = @ - 1] /\ revocations' = Tail(revocations)
    /\ UNCHANGED <<rows, drawer, requests, reveal, grants, overtaken, userSteps>>

\* A schema arrives: its first relation is selected and its rows are loaded.
SchemaArrives(q) ==
    /\ q \in requests /\ q.kind = "schema"
    /\ IF page.mounted /\ page.schemaGen = q.gen
       THEN LET p == [page EXCEPT !.schema = q.target, !.relation = FirstRelation]
                g == p.rowsGen + 1 IN
            IF p.suppressed THEN page' = p /\ requests' = requests \ {q}
            ELSE /\ page' = [p EXCEPT !.rowsGen = g]
                 /\ requests' = (requests \ {q}) \cup {RowsRequest("rows", g, 0, p.target, p.relation, Mode(p))}
       ELSE requests' = requests \ {q} /\ UNCHANGED page
    /\ UNCHANGED <<rows, drawer, reveal, revocations, grants, overtaken, userSteps, netFaults>>

\* Mutant of RowsArrive: the answer of an earlier selection is shown.
RowsArriveUnchecked(q) ==
    /\ q \in requests /\ q.kind \in {"rows", "masked"} /\ requests' = requests \ {q}
    /\ rows' = [target |-> q.target, relation |-> q.relation, mode |-> q.mode, by |-> "load"]
    /\ UNCHANGED <<page, drawer, reveal, revocations, grants, overtaken, userSteps, netFaults>>

\* Rows arrive; those of an earlier generation are dropped, and the masked rows
\* after a revocation are checked against the selection as well.
RowsArrive(q) ==
    /\ q \in requests /\ q.kind \in {"rows", "masked"} /\ requests' = requests \ {q}
    /\ rows' = IF /\ page.mounted /\ page.rowsGen = q.gen
                  /\ q.kind = "masked" => /\ page.privacyGen = q.privacy
                                          /\ page.target = q.target /\ page.relation = q.relation
               THEN [target |-> q.target, relation |-> q.relation, mode |-> q.mode, by |-> "load"]
               ELSE rows
    /\ UNCHANGED <<page, drawer, reveal, revocations, grants, overtaken, userSteps, netFaults>>

RelatedArrive(q) ==
    /\ q \in requests /\ q.kind = "related" /\ requests' = requests \ {q}
    /\ drawer' = IF page.relatedGen = q.gen /\ page.schema = drawer.target
                 THEN [drawer EXCEPT !.mode = q.mode] ELSE drawer
    /\ UNCHANGED <<page, rows, reveal, revocations, grants, overtaken, userSteps, netFaults>>

\* A schema, rows or related rows cannot be read: an error is shown.
RequestFailed(q) ==
    /\ q \in requests /\ q.kind # "reveal" /\ requests' = requests \ {q}
    /\ netFaults < MaxNetFaults /\ netFaults' = netFaults + 1
    /\ UNCHANGED <<page, rows, drawer, reveal, revocations, grants, overtaken, userSteps>>

ExplorerNext ==
    \/ \E r \in DbRelations : SelectRelation(r)
    \/ \E t \in DbTargets : SelectTarget(t)
    \/ ChangeQuery \/ Hide \/ FollowRelation \/ CloseDrawer \/ Reveal \/ Unmount
    \/ \E granted \in BOOLEAN : ServeReveal(granted)
    \/ RevealAnswered \/ SendRevocation \/ ServeRevocation \/ RevocationDone \/ RevocationFailed
    \/ \E q \in requests : \/ SchemaArrives(q) \/ RowsArrive(q) \/ RelatedArrive(q) \/ RequestFailed(q)
                           \/ \E ok \in BOOLEAN : RevealRows(q, ok)

ExplorerSpec == ExplorerInit /\ [][ExplorerNext]_explorerVars

-----
\* The grid shows rows of the selected database and, unless a reveal put them
\* there, of the selected relation; the drawer belongs to the selection.
ShownIsSelected ==
    /\ rows.mode # "none" => rows.target = page.target /\ (rows.by = "load" => rows.relation = page.relation)
    /\ drawer.mode # "closed" => drawer.target = page.target /\ drawer.relation = page.relation
\* Revealed values are on the screen only while the page says so, and nothing is
\* while a revocation is outstanding or has failed.
MaskedUnlessActive ==
    /\ "revealed" \in {rows.mode, drawer.mode} => page.active
    /\ page.suppressed => rows.mode = "none" /\ drawer.mode = "closed"
\* A grant is never forgotten: without a failing request it is revealed on the
\* screen, about to be revoked, or remembered for the revocation at unmount;
\* and a page that was left, and has settled, has no grant, unless the reveal's
\* answer was taken for covered by a revocation that had come before it.
GrantIsRemembered ==
    LET unserved == \E k \in DOMAIN revocations : ~revocations[k].served IN
    netFaults = 0 /\ grants # {} /\ reveal.pc = "none" /\ ~unserved =>
        \/ page.mounted /\ (page.active \/ page.grantMay)
        \/ overtaken

PageIsConsistent == ShownIsSelected /\ MaskedUnlessActive /\ GrantIsRemembered

\* What plans/2026-09-25-database-explorer.md asks of the page: a slow answer for
\* the previous relation never overwrites the new selection.
NothingStaleIsShown == rows.mode # "none" => rows.relation = page.relation
======

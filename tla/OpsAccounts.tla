------ MODULE OpsAccounts ------
(* Accounts of the operations console (modules/accounts, modules/auth of
   apps/api): invitation and enrolment, login with password and TOTP, the
   one-time authorisation of an account change and the changes themselves
   (role, lock, recovery, revocation), requested by several owners at the
   same time.  One action per awaited statement.  The transactions of
   PostgresAccountRepository are single steps: they take the rows of actor,
   target and all active owners FOR UPDATE before they look, and every
   other statement that changes these users updates or locks the same rows. *)
EXTENDS Naturals, FiniteSets

CONSTANTS Users,            \* ids of accounts
          InitialOwners,    \* the accounts that exist at the start
          AccountRequests,  \* requests for an account change
          Logins,           \* login attempts
          Enrolments,       \* visits of an enrolment link
          Proofs,           \* step-up requests for accounts_write
          MaxCallers,       \* how many of these, and lapses, happen in one behaviour
          MaxLapses,        \* logouts and elapsed time limits
          FailureLimit      \* failed logins that block (5 in the code)

First == "first"   \* logged in, enrolled and authorised before the model starts

ASSUME AccountsAssumption ==
    /\ InitialOwners # {} /\ InitialOwners \subseteq Users
    /\ First \notin Logins \cup Enrolments \cup Proofs
    /\ FailureLimit \in Nat \ {0}

VARIABLES
    account,     \* account[u]: role, status, live TOTP factors, password, block
    failures,    \* failures[u]: failed logins in the last 15 minutes, up to the limit
    sessions,    \* live sessions [user, by]: by the login that opened it
    challenges,  \* unused login challenges, by the login that has them
    tokens,      \* users with an unused enrolment token
    elevations,      \* live accounts_write elevations [proof, session]
    stored,      \* accountAuthorization: the proof kept for a session
    change,      \* change[r]: an account request
    login,       \* login[l]: a login attempt
    enrolment,   \* enrolment[e]: a visit of an enrolment link
    proof,       \* proof[p]: a step-up request
    lapses       \* logouts and elapsed time limits so far

accountVars == <<account, failures, sessions, challenges, tokens, elevations, stored,
                 change, login, enrolment, proof, lapses>>

Roles      == {"owner", "maintainer"}
Statuses   == {"absent", "pending_mfa", "active", "locked", "revoked"}
Operations == {"create", "role", "lock", "recover", "revoke"}
Ended      == [pc |-> "end"]

OwnSession(u) == [user |-> u, by |-> First]

\* n of the callers in a set will come.
Arriving(callers, n) ==
    LET some == CHOOSE c \in SUBSET callers : Cardinality(c) = n
    IN [c \in callers |-> IF c \in some THEN [pc |-> "new"] ELSE Ended]

AccountsInit ==
    /\ account = [u \in Users |->
         IF u \in InitialOwners
         THEN [role |-> "owner", status |-> "active", factors |-> {First}, password |-> TRUE, blocked |-> FALSE]
         ELSE [role |-> "maintainer", status |-> "absent", factors |-> {}, password |-> FALSE, blocked |-> FALSE]]
    /\ failures = [u \in Users |-> 0]
    /\ sessions = {OwnSession(u) : u \in InitialOwners}
    /\ elevations = {[proof |-> First, session |-> s] : s \in sessions} /\ stored = elevations
    /\ challenges = {} /\ tokens = {}
    /\ \E r \in 0..Cardinality(AccountRequests), l \in 0..Cardinality(Logins),
          e \in 0..Cardinality(Enrolments), p \in 0..Cardinality(Proofs) :
         /\ lapses \in 0..MaxLapses
         /\ r + l + e + p + (MaxLapses - lapses) = MaxCallers
         /\ change = Arriving(AccountRequests, r) /\ login = Arriving(Logins, l)
         /\ enrolment = Arriving(Enrolments, e) /\ proof = Arriving(Proofs, p)

StatusOf(u) == account[u].status
ActiveOwners == {u \in Users : StatusOf(u) = "active" /\ account[u].role = "owner"}

\* A live session of an active, unblocked user; the browser shows its cookie
\* and, for a mutation, its CSRF token.
FindActiveByToken(s) == s \in sessions /\ StatusOf(s.user) = "active" /\ ~account[s.user].blocked
Authorized(s) == FindActiveByToken(s)

\* The principal of the account routes has the permission accounts:write, and
\* the binding of its last step-up, which the API keeps in memory.
Principal(s) == Authorized(s) /\ account[s.user].role = "owner"
StepUpBindings(s) == {b \in stored : b.session = s}

(* Login. *)
FindPasswordCredential(u) == account[u].password

\* The read of beginLogin: a known user may log in or is refused.
BeginLogin(l, u) ==
    /\ login[l].pc = "new" /\ FindPasswordCredential(u)
    /\ \E right \in BOOLEAN :
         login' = [login EXCEPT ![l] =
           [pc |-> IF StatusOf(u) = "active" /\ ~account[u].blocked /\ right
                   THEN "challenge" ELSE "failed", user |-> u]]
    /\ UNCHANGED <<account, failures, sessions, challenges, tokens, elevations, stored, change, enrolment, proof, lapses>>

CreateMfaChallenge(l) ==
    /\ login[l].pc = "challenge"
    /\ challenges' = challenges \cup {l}
    /\ login' = [login EXCEPT ![l].pc = "totp"]
    /\ UNCHANGED <<account, failures, sessions, tokens, elevations, stored, change, enrolment, proof, lapses>>

\* recordLoginEvent, first statement: the failure is stored.
RecordFailure(l) ==
    /\ login[l].pc = "failed"
    /\ failures' = [failures EXCEPT ![login[l].user] = IF @ < FailureLimit THEN @ + 1 ELSE @]
    /\ login' = [login EXCEPT ![l].pc = "count"]
    /\ UNCHANGED <<account, sessions, challenges, tokens, elevations, stored, change, enrolment, proof, lapses>>

\* Its second statement: enough stored failures block an active user.  The
\* client may try the code again; another password is another attempt.
BlockUser(l) ==
    LET u == login[l].user IN
    /\ login[l].pc = "count"
    /\ account' = [account EXCEPT ![u].blocked =
                     @ \/ (StatusOf(u) = "active" /\ failures[u] >= FailureLimit)]
    /\ login' = [login EXCEPT ![l] = IF l \in challenges THEN [@ EXCEPT !.pc = "totp"] ELSE Ended]
    /\ UNCHANGED <<failures, sessions, challenges, tokens, elevations, stored, change, enrolment, proof, lapses>>

FindTotpChallenge(l) == l \in challenges /\ StatusOf(login[l].user) = "active"

\* completeTotpLogin up to its session: the challenge is unused, its user
\* active; the code is right or it is not.
CompleteTotpLogin(l) ==
    /\ login[l].pc = "totp"
    /\ \E right \in BOOLEAN :
         login' = [login EXCEPT ![l] =
           IF ~FindTotpChallenge(l) THEN Ended ELSE [@ EXCEPT !.pc = IF right THEN "consume" ELSE "failed"]]
    /\ UNCHANGED <<account, failures, sessions, challenges, tokens, elevations, stored, change, enrolment, proof, lapses>>

\* consumeMfaChallengeAndCreateSession, one statement: whoever uses the
\* challenge first gets the session.
ConsumeMfaChallenge(l) ==
    /\ login[l].pc = "consume"
    /\ challenges' = challenges \ {l}
    /\ sessions' = IF l \in challenges THEN sessions \cup {[user |-> login[l].user, by |-> l]}
                   ELSE sessions
    /\ login' = [login EXCEPT ![l] = Ended]
    /\ UNCHANGED <<account, failures, tokens, elevations, stored, change, enrolment, proof, lapses>>

Logout(s) ==
    /\ Authorized(s)
    /\ sessions' = sessions \ {s}
    /\ lapses < MaxLapses /\ lapses' = lapses + 1
    /\ UNCHANGED <<account, failures, challenges, tokens, elevations, stored, change, login, enrolment, proof>>

\* Fifteen minutes pass: the failures are too old to count.
FailuresAge(u) ==
    /\ failures[u] > 0
    /\ failures' = [failures EXCEPT ![u] = 0]
    /\ lapses < MaxLapses /\ lapses' = lapses + 1
    /\ UNCHANGED <<account, sessions, challenges, tokens, elevations, stored, change, login, enrolment, proof>>

\* Thirty minutes pass: a block outlives the failures that caused it.
BlockEnds(u) ==
    /\ account[u].blocked /\ failures[u] = 0
    /\ account' = [account EXCEPT ![u].blocked = FALSE]
    /\ lapses < MaxLapses /\ lapses' = lapses + 1
    /\ UNCHANGED <<failures, sessions, challenges, tokens, elevations, stored, change, login, enrolment, proof>>

(* Step-up: password and TOTP once more, for one account change. *)
\* StepUpService.grant and the binding the API keeps in memory for the session
\* (module ExplorerAccess has the statements of a grant one by one).
GrantAccountsWrite(p, s) ==
    LET g == [proof |-> p, session |-> s] IN
    /\ proof[p].pc = "new" /\ Principal(s)
    /\ elevations' = {h \in elevations : h.session # s} \cup {g}
    /\ stored' = {b \in stored : b.session # s} \cup {g}
    /\ proof' = [proof EXCEPT ![p] = Ended]
    /\ UNCHANGED <<account, failures, sessions, challenges, tokens, change, login, enrolment, lapses>>

\* Five minutes pass.
GrantExpires(g) ==
    /\ g \in elevations
    /\ elevations' = elevations \ {g}
    /\ lapses < MaxLapses /\ lapses' = lapses + 1
    /\ UNCHANGED <<account, failures, sessions, challenges, tokens, stored, change, login, enrolment, proof>>

(* Account changes. *)
\* The router: session, permission and the binding of the session.  Requests
\* that are refused whatever the others do (an unknown id, a taken name, the
\* actor itself) are left out.
AcceptChange(r, s, op, u, to) ==
    /\ change[r].pc = "new" /\ Principal(s)
    /\ u # s.user /\ (op = "create" <=> StatusOf(u) = "absent")
    /\ CASE op = "create" -> TRUE [] op = "role" -> to # account[u].role [] OTHER -> to = account[u].role
    /\ \E b \in StepUpBindings(s) :
         change' = [change EXCEPT ![r] =
              [pc |-> IF op \in {"create", "recover"} THEN "actor" ELSE "target",
               op |-> op, actor |-> s.user, target |-> u, to |-> to, grant |-> b]]
    /\ UNCHANGED <<account, failures, sessions, challenges, tokens, elevations, stored, login, enrolment, proof, lapses>>

\* authorizeOwner: the actor is read again.
AuthorizeOwner(r) ==
    /\ change[r].pc = "actor"
    /\ change' = [change EXCEPT ![r] = IF @.actor \in ActiveOwners THEN [@ EXCEPT !.pc = "consume"] ELSE Ended]
    /\ UNCHANGED <<account, failures, sessions, challenges, tokens, elevations, stored, login, enrolment, proof, lapses>>

\* requireProtectedTarget, whose target exists, and the first look at the number of owners.
ReadTarget(r) ==
    LET c == change[r] IN
    /\ c.pc = "target"
    /\ change' = [change EXCEPT ![r] =
         IF /\ account[c.target].role = "owner" /\ (c.op = "role" => c.to # "owner")
            /\ Cardinality(ActiveOwners) <= 1
         THEN Ended ELSE [@ EXCEPT !.pc = "consume"]]
    /\ UNCHANGED <<account, failures, sessions, challenges, tokens, elevations, stored, login, enrolment, proof, lapses>>

ConsumeGrant(r) ==
    /\ change[r].pc = "consume"
    /\ elevations' = elevations \ {change[r].grant}
    /\ change' = [change EXCEPT ![r] =
         IF @.grant \in elevations THEN [@ EXCEPT !.pc = IF change[r].op = "recover" THEN "locked" ELSE "mutate"]
         ELSE Ended]
    /\ UNCHANGED <<account, failures, sessions, challenges, tokens, stored, login, enrolment, proof, lapses>>

\* recover reads its target after the elevation is used up.
ReadLocked(r) ==
    /\ change[r].pc = "locked"
    /\ change' = [change EXCEPT ![r] = IF StatusOf(@.target) = "locked" THEN [@ EXCEPT !.pc = "mutate"] ELSE Ended]
    /\ UNCHANGED <<account, failures, sessions, challenges, tokens, elevations, stored, login, enrolment, proof, lapses>>

\* Mutant of KeepsAnOwner: the transaction trusts the look before it.
KeepsAnOwnerUnchecked(c) == TRUE

\* The check inside the transaction, under the locks of all active owners.
KeepsAnOwner(c) ==
    ~ /\ c.target \in ActiveOwners
      /\ c.op = "role" => c.to # "owner"
      /\ Cardinality(ActiveOwners) <= 1

\* Sessions, challenges and elevations of a user end.
RevokeAccess(u) ==
    /\ sessions' = {s \in sessions : s.user # u}
    /\ challenges' = {l \in challenges : login[l].user # u}
    /\ elevations' = {g \in elevations : g.session.user # u}

CreatePending(c) ==
    /\ c.op = "create" /\ StatusOf(c.target) = "absent"
    /\ account' = [account EXCEPT ![c.target].status = "pending_mfa", ![c.target].role = c.to]
    /\ tokens' = tokens \cup {c.target}
    /\ UNCHANGED <<sessions, challenges, elevations>>

ChangeRole(c) ==
    /\ c.op = "role" /\ StatusOf(c.target) # "revoked" /\ KeepsAnOwner(c)
    /\ account' = [account EXCEPT ![c.target].role = c.to]
    /\ UNCHANGED <<sessions, challenges, elevations, tokens>>

Lock(c) ==
    /\ c.op = "lock" /\ StatusOf(c.target) # "revoked" /\ KeepsAnOwner(c)
    /\ account' = [account EXCEPT ![c.target].status = "locked", ![c.target].blocked = FALSE]
    /\ RevokeAccess(c.target) /\ tokens' = tokens \ {c.target}

Recover(c) ==
    /\ c.op = "recover" /\ StatusOf(c.target) = "locked"
    /\ account' = [account EXCEPT ![c.target].status = "pending_mfa", ![c.target].blocked = FALSE]
    /\ RevokeAccess(c.target) /\ tokens' = tokens \cup {c.target}

Revoke(c) ==
    /\ c.op = "revoke" /\ StatusOf(c.target) # "revoked" /\ KeepsAnOwner(c)
    /\ account' = [account EXCEPT ![c.target].status = "revoked"]
    /\ RevokeAccess(c.target) /\ tokens' = tokens \ {c.target}

Mutation(c) == CreatePending(c) \/ ChangeRole(c) \/ Lock(c) \/ Recover(c) \/ Revoke(c)

\* The transaction of a request; it is denied when no mutation is possible, and
\* may be aborted.  The elevation stays used up in every case.
Mutate(r) ==
    /\ change[r].pc = "mutate"
    /\ \/ Mutation(change[r])
       \/ UNCHANGED <<account, sessions, challenges, elevations, tokens>>
    /\ change' = [change EXCEPT ![r] = Ended]
    /\ UNCHANGED <<failures, stored, login, enrolment, proof, lapses>>

(* Enrolment. *)
CreatePendingFactor(u) == u \in tokens /\ StatusOf(u) = "pending_mfa"

StartEnrolment(e, u) ==
    /\ enrolment[e].pc = "new" /\ CreatePendingFactor(u)
    /\ account' = [account EXCEPT ![u].factors = @ \cup {e}]
    /\ enrolment' = [enrolment EXCEPT ![e] = [pc |-> "verify", user |-> u]]
    /\ UNCHANGED <<failures, sessions, challenges, tokens, elevations, stored, change, login, proof, lapses>>

FindPendingFactor(u) == u \in tokens

\* verify: findPendingFactor and the TOTP; hashing the password is awaited
\* after it.
VerifyEnrolment(e) ==
    /\ enrolment[e].pc = "verify"
    /\ enrolment' = [enrolment EXCEPT ![e] = IF FindPendingFactor(@.user) THEN [@ EXCEPT !.pc = "activate"] ELSE Ended]
    /\ UNCHANGED <<account, failures, sessions, challenges, tokens, elevations, stored, change, login, proof, lapses>>

\* One statement: the token is used, every other factor and password is
\* superseded, a pending user becomes active.
Activate(e) ==
    LET u == enrolment[e].user IN
    /\ enrolment[e].pc = "activate"
    /\ IF u \in tokens /\ e \in account[u].factors
       THEN /\ tokens' = tokens \ {u}
            /\ account' = [account EXCEPT
                 ![u].factors = {e},
                 ![u].password = (StatusOf(u) = "pending_mfa"),
                 ![u].status = IF @ = "pending_mfa" THEN "active" ELSE @]
       ELSE UNCHANGED <<tokens, account>>
    /\ enrolment' = [enrolment EXCEPT ![e] = Ended]
    /\ UNCHANGED <<failures, sessions, challenges, elevations, stored, change, login, proof, lapses>>

\* Twenty-four hours pass: an unused token is worthless from here on.
TokenExpires(u) ==
    /\ u \in tokens
    /\ tokens' = tokens \ {u}
    /\ lapses < MaxLapses /\ lapses' = lapses + 1
    /\ UNCHANGED <<account, failures, sessions, challenges, elevations, stored, change, login, enrolment, proof>>

\* The routes and the statements each of them awaits; a body that does not have
\* its form is answered before the first of them.
PostLogin(l) == (\E u \in Users : BeginLogin(l, u)) \/ CreateMfaChallenge(l)
PostLoginTotp(l) == CompleteTotpLogin(l) \/ ConsumeMfaChallenge(l)
PostBootstrapStart(e) == \E u \in Users : StartEnrolment(e, u)
PostBootstrapVerify(e) == VerifyEnrolment(e) \/ Activate(e)

AccountsNext ==
    \/ \E l \in Logins : PostLogin(l) \/ PostLoginTotp(l) \/ RecordFailure(l) \/ BlockUser(l)
    \/ \E s \in sessions : Logout(s)
    \/ \E u \in Users : FailuresAge(u) \/ BlockEnds(u) \/ TokenExpires(u)
    \/ \E p \in Proofs, s \in sessions : GrantAccountsWrite(p, s)
    \/ \E g \in elevations : GrantExpires(g)
    \/ \E r \in AccountRequests :
         \/ \E s \in sessions, op \in Operations, u \in Users, to \in Roles : AcceptChange(r, s, op, u, to)
         \/ AuthorizeOwner(r) \/ ReadTarget(r) \/ ConsumeGrant(r) \/ ReadLocked(r) \/ Mutate(r)
    \/ \E e \in Enrolments :
         PostBootstrapStart(e) \/ PostBootstrapVerify(e)

AccountsSpec == AccountsInit /\ [][AccountsNext]_accountVars

(* Properties. *)
\* Owners who demote, lock or revoke each other at the same time never leave
\* the console without an active owner.
OwnerRemains == ActiveOwners # {}

\* A locked, revoked or pending account has no live session, although a login
\* that was found valid before the lock may end after it.
LockedOut == \A s \in sessions : StatusOf(s.user) = "active"

\* An enrolment token that can still be used belongs to a pending account, and
\* an active account has the one factor that was verified last, also when a
\* link is opened twice or an account is recovered.
EnrolmentIsSound ==
    /\ \A u \in tokens : StatusOf(u) = "pending_mfa"
    /\ \A u \in Users : StatusOf(u) = "active" => Cardinality(account[u].factors) = 1

\* Two account changes never rest on the same elevation.
GrantUsedOnce ==
    \A r, q \in AccountRequests :
        r # q /\ change[r].pc \in {"locked", "mutate"} /\ change[q].pc \in {"locked", "mutate"}
          => change[r].grant # change[q].grant

\* When as many failures as the limit are stored and counted, a user who was
\* active all along is blocked: concurrent failures do not slip through between
\* store and count.
FailuresBlock ==
    \A u \in Users :
        failures[u] >= FailureLimit /\ StatusOf(u) = "active" /\ account[u].factors = {First}
          => account[u].blocked \/ \E l \in Logins : login[l].pc = "count" /\ login[l].user = u

\* What the account requests guarantee together.
AccountsAreSound ==
    OwnerRemains /\ LockedOut /\ EnrolmentIsSound /\ GrantUsedOnce /\ FailuresBlock
======

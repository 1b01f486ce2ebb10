------ MODULE MonitorSessions ------
(* Accounts and sessions of the legacy monitor (apps/web/src/server/
   security/auth.ts over storage/store.ts): a lockout after failed logins,
   sessions with an idle and an absolute limit, and the account commands
   of the command line.  The server handles a login without giving up its
   event loop, but the command line is another process whose transaction
   may fall between any two statements of the login. *)
EXTENDS Integers, FiniteSets, FiniteSetsExt

CONSTANTS
    Tokens,        \* session tokens that may be drawn
    IdleTime,      \* IDLE_MS
    AbsoluteTime,  \* ABSOLUTE_MS
    LockoutTime,   \* LOCKOUT_MS
    MaxFailed,     \* MAX_FAILED
    MaxLogins,     \* bound on login attempts
    MaxRecoveries, \* bound on recoveries of the account
    MaxAuthTime    \* bound on the clock

ASSUME SessionsAssumption ==
    IdleTime \in Nat /\ AbsoluteTime \in Nat

VARIABLES
    aTime,
    attempts,      \* table login_attempts: [n, at, ok]
    sessionRows,   \* table sessions, by token
    generation,    \* table accounts: 0 without a row, else how often its
                   \* credentials were set
    login,         \* the login the server handles
    drawn          \* tokens drawn so far

authVars == <<aTime, attempts, sessionRows, generation, login, drawn>>

NoLogin == [at |-> "none"]
NoSessions == [t \in {} |-> 0]

AuthInit ==
    /\ aTime = 0 /\ attempts = {} /\ generation = 0 /\ drawn = {}
    /\ sessionRows = NoSessions /\ login = NoLogin

AuthTick ==
    /\ aTime < MaxAuthTime /\ aTime' = aTime + 1
    /\ UNCHANGED <<attempts, sessionRows, generation, login, drawn>>

-----
(* The command line *)

\* provisionAccount refuses a username that exists.
ProvisionAccount ==
    /\ generation = 0 /\ generation' = 1
    /\ UNCHANGED <<aTime, attempts, sessionRows, login, drawn>>

\* Mutant of RecoverAccountCredentials: the sessions are left to expire.
RecoverKeepsSessions == generation' = generation + 1 /\ attempts' = {} /\ UNCHANGED sessionRows

\* One transaction: new credentials, no attempts, no sessions.
RecoverAccountCredentials == generation' = generation + 1 /\ attempts' = {} /\ sessionRows' = NoSessions

RecoverAccount ==
    /\ generation \in 1..MaxRecoveries
    /\ RecoverAccountCredentials
    /\ UNCHANGED <<aTime, login, drawn>>

-----
(* authenticate, statement by statement *)

Set(l) == login' = l /\ UNCHANGED <<aTime, generation>>

\* The row as it is now; what the client sent matches these credentials
\* (good) or none that ever were.
FindAccountByUsername(good) ==
    /\ login = NoLogin /\ Cardinality(attempts) < MaxLogins
    /\ Set([at |-> "count", gen |-> generation, good |-> good])
    /\ UNCHANGED <<attempts, sessionRows, drawn>>

RecentFailures == {x \in attempts : ~x.ok /\ x.at >= aTime - LockoutTime}
Locked == Cardinality(RecentFailures) >= MaxFailed

\* A locked account is refused without recording the attempt.  The password
\* and the code are compared with the row read before.
CountRecentFailedLogins ==
    /\ login.at = "count"
    /\ Set(IF Locked THEN NoLogin
           ELSE [at |-> "record", gen |-> login.gen, valid |-> login.good /\ login.gen > 0])
    /\ UNCHANGED <<attempts, sessionRows, drawn>>

RecordLoginAttempt ==
    /\ login.at = "record"
    /\ attempts' = attempts \cup {[n |-> Cardinality(attempts) + 1, at |-> aTime, ok |-> login.valid]}
    /\ Set(IF login.valid THEN [at |-> "session", gen |-> login.gen] ELSE NoLogin)
    /\ UNCHANGED <<sessionRows, drawn>>

NewSession == [created |-> aTime, seen |-> aTime, expires |-> aTime + IdleTime,
               absolute |-> aTime + AbsoluteTime, gen |-> login.gen, late |-> login.gen # generation]

InsertSession(t) ==
    sessionRows' = [x \in DOMAIN sessionRows \cup {t} |-> IF x = t THEN NewSession ELSE sessionRows[x]]

CreateSession ==
    /\ login.at = "session"
    /\ \E t \in Tokens \ drawn : drawn' = drawn \cup {t} /\ InsertSession(t)
    /\ Set(NoLogin) /\ UNCHANGED attempts

-----
(* Requests with a session; the server handles none while it handles a login *)

FindSession(t) == t \in DOMAIN sessionRows

Live(t) == sessionRows[t].expires > aTime /\ sessionRows[t].absolute > aTime

Without(t) == [x \in DOMAIN sessionRows \ {t} |-> sessionRows[x]]

\* touchSession: idle time starts again, up to the absolute limit.
Touched(s) == [s EXCEPT !.seen = aTime, !.expires = Min({aTime + IdleTime, s.absolute})]

RequireSession(t) ==
    /\ login = NoLogin /\ FindSession(t)
    /\ sessionRows' = IF Live(t) THEN [sessionRows EXCEPT ![t] = Touched(sessionRows[t])] ELSE Without(t)
    /\ UNCHANGED <<aTime, attempts, generation, login, drawn>>

DestroySession(t) ==
    /\ login = NoLogin /\ FindSession(t) /\ sessionRows' = Without(t)
    /\ UNCHANGED <<aTime, attempts, generation, login, drawn>>

AuthNext ==
    \/ AuthTick \/ ProvisionAccount \/ RecoverAccount
    \/ \E good \in BOOLEAN : FindAccountByUsername(good)
    \/ CountRecentFailedLogins \/ RecordLoginAttempt \/ CreateSession
    \/ \E t \in Tokens : RequireSession(t) \/ DestroySession(t)

AuthSpec == AuthInit /\ [][AuthNext]_authVars

\* A request is served only by a session used within the idle time and opened
\* within the absolute one.  A recovery ends every session there is, so only
\* the one login it fell into can leave a session made with earlier
\* credentials.
ServedSessionIsCurrent ==
    [][/\ \A t \in DOMAIN sessionRows \cap DOMAIN sessionRows' :
             sessionRows'[t].seen # sessionRows[t].seen =>
                 /\ sessionRows[t].gen = generation \/ sessionRows[t].late
                 /\ aTime - sessionRows[t].seen < IdleTime
                 /\ aTime - sessionRows[t].created < AbsoluteTime
       /\ Cardinality({t \in DOMAIN sessionRows : sessionRows[t].gen # generation}) <= 1]_authVars
======

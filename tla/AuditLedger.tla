------ MODULE AuditLedger ------
(* The audit ledger of the API (postgresAuditLedger.ts over poolDatabase.ts
   and the table ops_audit_entries): every entry carries the hash of the
   entry before it.  Any number of requests append at once, each in a
   transaction of its own whose statements interleave with the others'; a
   statement may fail, and a connection may be lost before or after the
   COMMIT took effect.  Numbers of aborted transactions are not used again.
   
   A hash stands for the entry it is of: the id in the payload is unique
   and SHA-256 is taken to be free of collisions. *)
EXTENDS Naturals

CONSTANTS
    Appends,   \* calls of append, each with an id of its own
    Root,      \* the previous hash of the first entry
    Nobody     \* no transaction holds the advisory lock

ASSUME LedgerAssumption == Root \notin Appends /\ Nobody \notin Appends

VARIABLES
    append,      \* append[a]: where the call is
    chainLock,   \* the transaction that holds the advisory lock
    previous,    \* previous[a]: the hash the transaction read
    number,      \* number[a]: the audit_sequence of its row
    lastNumber,  \* the last value of the identity column
    entries      \* the calls whose row is committed

ledgerVars == <<append, chainLock, previous, number, lastNumber, entries>>

LedgerInit ==
    /\ append = [a \in Appends |-> "new"]
    /\ chainLock = Nobody
    /\ previous = [a \in Appends |-> Root]
    /\ number = [a \in Appends |-> 0]
    /\ lastNumber = 0
    /\ entries = {}

Goes(a, from, to) == append[a] = from /\ append' = [append EXCEPT ![a] = to]

\* The action, subject and address are checked before the transaction.
BeginAppend(a) ==
    /\ Goes(a, "new", "locking") \/ Goes(a, "new", "failed")
    /\ UNCHANGED <<chainLock, previous, number, lastNumber, entries>>

\* Mutant of LockChain: the lock is tried for and its answer ignored.
LockChainTried(a) ==
    /\ Goes(a, "locking", "reading")
    /\ chainLock' = IF chainLock = Nobody THEN a ELSE chainLock
    /\ UNCHANGED <<previous, number, lastNumber, entries>>

\* pg_advisory_xact_lock waits for the transaction that holds it to end.
LockChain(a) ==
    /\ Goes(a, "locking", "reading")
    /\ chainLock = Nobody /\ chainLock' = a
    /\ UNCHANGED <<previous, number, lastNumber, entries>>

\* ORDER BY audit_sequence DESC LIMIT 1, or no row.
IsLast(p, rows) == p \in rows /\ \A b \in rows : number[b] <= number[p]
FollowsFrom(p, rows) == IF rows = {} THEN p = Root ELSE IsLast(p, rows)

\* The statement sees what is committed when it starts.
ReadLast(a) ==
    /\ Goes(a, "reading", "inserting")
    /\ \E p \in Appends \cup {Root} : FollowsFrom(p, entries) /\ previous' = [previous EXCEPT ![a] = p]
    /\ UNCHANGED <<chainLock, number, lastNumber, entries>>

InsertEntry(a) ==
    /\ Goes(a, "inserting", "committing")
    /\ lastNumber' = lastNumber + 1
    /\ number' = [number EXCEPT ![a] = lastNumber + 1]
    /\ UNCHANGED <<chainLock, previous, entries>>

\* The lock is held until the transaction has ended.
EndTransaction(a) == chainLock' = IF chainLock = a THEN Nobody ELSE chainLock

\* The caller is told, or loses the connection and takes it for a failure.
CommitEntry(a) ==
    /\ Goes(a, "committing", "appended") \/ Goes(a, "committing", "failed")
    /\ entries' = entries \cup {a}
    /\ EndTransaction(a)
    /\ UNCHANGED <<previous, number, lastNumber>>

\* A statement fails, or the connection is lost: ROLLBACK.
AbortAppend(a) ==
    /\ \E from \in {"locking", "reading", "inserting", "committing"} : Goes(a, from, "failed")
    /\ EndTransaction(a)
    /\ UNCHANGED <<previous, number, lastNumber, entries>>

LedgerNext ==
    \E a \in Appends :
        \/ BeginAppend(a) \/ LockChain(a) \/ ReadLast(a) \/ InsertEntry(a)
        \/ CommitEntry(a) \/ AbortAppend(a)

LedgerSpec == LedgerInit /\ [][LedgerNext]_ledgerVars

-----
LedgerTypeOK ==
    /\ append \in [Appends -> {"new", "locking", "reading", "inserting", "committing", "appended", "failed"}]
    /\ chainLock \in Appends \cup {Nobody}
    /\ previous \in [Appends -> Appends \cup {Root}]
    /\ number \in [Appends -> Nat]
    /\ lastNumber \in Nat
    /\ entries \subseteq Appends

Before(a) == {b \in entries : number[b] < number[a]}

\* The committed entries form one chain in the order of their numbers, whatever
\* overlapped and whatever failed: each carries the hash of the entry before
\* it, no two share a number, so that none can be taken out or slipped in
\* unnoticed, and a caller told of success has its entry in the chain.
ChainIsWhole ==
    /\ \A a \in entries : FollowsFrom(previous[a], Before(a))
    /\ \A a, b \in entries : number[a] = number[b] => a = b
    /\ \A a \in Appends : append[a] = "appended" => a \in entries

\* What makes it inductive: the transactions past the lock are the holder of
\* the lock, and the one that has read the last entry has read the one that is
\* still last, with numbers growing.
LedgerInvariant ==
    /\ LedgerTypeOK
    /\ ChainIsWhole
    /\ \A a \in Appends : append[a] \in {"reading", "inserting", "committing"} => chainLock = a
    /\ \A a \in Appends : append[a] \in {"inserting", "committing"} => FollowsFrom(previous[a], entries)
    /\ \A a \in Appends : append[a] = "committing" => \A b \in entries : number[b] < number[a]
    /\ \A a \in Appends : number[a] <= lastNumber
    /\ \A a \in entries : append[a] \in {"appended", "failed"}
======

------ MODULE BrowserSpool ------
(* The browser side telemetry client: packages/telemetry-sdk/src
   browserSpool.ts and browser.ts, apps/web/src/web/telemetry.  The tabs
   of a browser share an IndexedDB store; within a tab the operations run
   one after the other (mutationTail, activeFlush), between tabs they
   interleave at every store call.  The first store call that fails moves
   a tab to a store in its memory, for good; a closed tab takes its memory
   with it. *)
EXTENDS Integers, Sequences, FiniteSets

CONSTANTS
    Tabs,
    PageEvents,       \* events, in the order in which they are captured
    MaxTabEvents,     \* maxEvents, a bound of each tab's own view
    MaxTabMishaps     \* failing calls of IndexedDB, failing posts and closed tabs

ASSUME BrowserSpoolAssumption ==
    /\ PageEvents \subseteq Nat \ {0} /\ MaxTabEvents \in Nat \ {0}
    /\ MaxTabMishaps \in Nat

VARIABLES
    idb,            \* the IndexedDB store: records [key, old, waiting, evicted]
    memory,         \* the fallback store of every tab
    useFallback,
    tab,            \* the operation of every tab
    pageCaptured, ingested,
    accepted,       \* history: events whose enqueue succeeded
    discarded,      \* history: events evicted, expired or closed away
    tabMishaps

pageStores == <<idb, memory, useFallback>>
pageHistory == <<pageCaptured, accepted>>
pageVars == <<pageStores, tab, pageHistory, ingested, discarded, tabMishaps>>

Diagnostic == 0       \* the key of the eviction warning (one record of the store)
Task(pc, key, todo, evicted) == [pc |-> pc, key |-> key, todo |-> todo, evicted |-> evicted]
IdleTab == Task("idle", Diagnostic, <<>>, 0)
Flushing(pc, todo) == Task(pc, Diagnostic, todo, 0)
RecordKeys(records) == {r.key : r \in records}
\* chronological: the one order of records by their age.
ByAge(records) ==
    {order \in [1..Cardinality(records) -> records] :
        /\ \A r \in records : \E i \in DOMAIN order : order[i] = r
        /\ \A i, j \in DOMAIN order : i < j => order[i].key < order[j].key}

BrowserSpoolInit ==
    /\ idb = {} /\ memory = [t \in Tabs |-> {}] /\ useFallback = [t \in Tabs |-> FALSE]
    /\ tab = [t \in Tabs |-> IdleTab]
    /\ pageCaptured = {} /\ ingested = {} /\ accepted = {} /\ discarded = {}
    /\ tabMishaps = 0

-----
\* createResilientBrowserSpoolStore: a call of tab t is answered by IndexedDB or,
\* once a call of IndexedDB has failed, by the tab's memory.
Store(t, fallback) ==
    /\ fallback \/ ~useFallback[t]
    /\ useFallback' = [useFallback EXCEPT ![t] = fallback]
    /\ tabMishaps' = IF fallback = useFallback[t] THEN tabMishaps ELSE tabMishaps + 1
    /\ tabMishaps' <= MaxTabMishaps
Listed(t, fallback) == IF fallback THEN memory[t] ELSE idb
ListOnly == UNCHANGED <<idb, memory>>
Save(t, fallback, records) ==
    IF fallback THEN memory' = [memory EXCEPT ![t] = records] /\ UNCHANGED idb
    ELSE idb' = records /\ UNCHANGED memory

Without(records, key) == {x \in records : x.key # key}
Drop(t, key) ==
    \E fallback \in BOOLEAN : Store(t, fallback) /\ Save(t, fallback, Without(Listed(t, fallback), key))
Put(t, r) ==
    \E fallback \in BOOLEAN :
        Store(t, fallback) /\ Save(t, fallback, Without(Listed(t, fallback), r.key) \cup {r})
Goto(t, task) == tab' = [tab EXCEPT ![t] = task]

\* enqueueOnce lists the records: expired ones and the oldest beyond the bound
\* are to be removed; warnings do not count.
Events(records) == {r \in records : r.key # Diagnostic}
Expired(records) == {r \in Events(records) : r.old}
Young(records) == Events(records) \ Expired(records)
Surplus(young) == IF Len(young) < MaxTabEvents THEN 0 ELSE Len(young) + 1 - MaxTabEvents
Victims(expired, young) == expired \o SubSeq(young, 1, Surplus(young))

\* captureException gives the next event to the spool.
CaptureException(e) ==
    /\ \A other \in PageEvents \ pageCaptured : e <= other
    /\ pageCaptured' = pageCaptured \cup {e}

EnqueueOnce(t) ==
    /\ tab[t].pc = "idle"
    /\ \E e \in PageEvents \ pageCaptured :
        /\ CaptureException(e)
        /\ \E fallback \in BOOLEAN :
              /\ Store(t, fallback) /\ ListOnly
              /\ \E expired \in ByAge(Expired(Listed(t, fallback))), young \in ByAge(Young(Listed(t, fallback))) :
                    Goto(t, Task("enqueue", e, Victims(expired, young), 0))
    /\ UNCHANGED <<accepted, ingested, discarded>>

Evict(t) ==
    /\ tab[t].pc = "enqueue" /\ tab[t].todo # <<>>
    /\ LET victim == Head(tab[t].todo).key IN
        /\ discarded' = discarded \cup {victim}
        /\ Drop(t, victim)
        /\ Goto(t, Task("enqueue", tab[t].key, Tail(tab[t].todo), tab[t].evicted + 1))
    /\ UNCHANGED <<pageHistory, ingested>>

PutEvent(t) ==
    /\ tab[t].pc = "enqueue" /\ tab[t].todo = <<>>
    /\ accepted' = accepted \cup {tab[t].key}
    /\ Put(t, [key |-> tab[t].key, old |-> FALSE, waiting |-> FALSE, evicted |-> 0])
    /\ Goto(t, Task(IF tab[t].evicted > 0 THEN "diagnose" ELSE "flush", Diagnostic, <<>>, tab[t].evicted))
    /\ UNCHANGED <<pageCaptured, ingested, discarded>>

Warning(evicted) == [key |-> Diagnostic, old |-> FALSE, waiting |-> FALSE, evicted |-> evicted]
Warnings(records) ==
    LET found == {r \in records : r.key = Diagnostic} IN IF found = {} THEN {Warning(0)} ELSE found

\* recordEvictionDiagnostic: the warning of the store is read, and written
\* back with the sum by a second call.
Diagnose(t) ==
    /\ tab[t].pc = "diagnose"
    /\ \E fallback \in BOOLEAN :
          /\ Store(t, fallback) /\ ListOnly
          /\ \E warning \in Warnings(Listed(t, fallback)) :
                Goto(t, Task("diagnosed", Diagnostic, <<>>, tab[t].evicted + warning.evicted))
    /\ UNCHANGED <<pageHistory, ingested, discarded>>

PutDiagnostic(t) ==
    /\ tab[t].pc = "diagnosed"
    /\ Put(t, Warning(tab[t].evicted))
    /\ Goto(t, Task("flush", Diagnostic, <<>>, 0))
    /\ UNCHANGED <<pageHistory, ingested, discarded>>

\* A capture is followed by a flush; so is the page being hidden, left or
\* online again.
FlushRuntime(t) == tab[t].pc \in {"idle", "flush"}

\* flush and flushOnce: one flush at a time, over the records listed at its start.
FlushList(t) ==
    /\ FlushRuntime(t)
    /\ \E fallback \in BOOLEAN :
          /\ Store(t, fallback) /\ ListOnly
          /\ \E records \in ByAge(Listed(t, fallback)) :
                Goto(t, IF records = <<>> THEN IdleTab ELSE Flushing("send", records))
    /\ UNCHANGED <<pageHistory, ingested, discarded>>

Advance(t) ==
    IF Len(tab[t].todo) = 1 THEN IdleTab ELSE Flushing("send", Tail(tab[t].todo))

PostStored(r) == ingested' = ingested \cup {r.key}

\* A record that is skipped: expired ones are removed, warnings never expire.
Skip(t) ==
    /\ tab[t].pc = "send"
    /\ LET r == Head(tab[t].todo) IN
        \/ /\ r.old /\ r.key # Diagnostic
           /\ discarded' = discarded \cup {r.key}
           /\ Drop(t, r.key) /\ Goto(t, Advance(t))
        \/ /\ ~(r.old /\ r.key # Diagnostic) /\ r.waiting
           /\ Goto(t, Advance(t))
           /\ UNCHANGED <<pageStores, discarded, tabMishaps>>
    /\ UNCHANGED <<pageHistory, ingested>>

\* deliver: an answer 202 for the event, or a failure, before or after the
\* event was stored.
Deliver(t) ==
    /\ tab[t].pc = "send" /\ ~Head(tab[t].todo).waiting
    /\ LET r == Head(tab[t].todo) IN
        /\ ~(r.old /\ r.key # Diagnostic)
        /\ \/ /\ PostStored(r) /\ Goto(t, Flushing("sent", tab[t].todo))
              /\ UNCHANGED tabMishaps
           \/ /\ tabMishaps < MaxTabMishaps /\ tabMishaps' = tabMishaps + 1
              /\ PostStored(r) \/ UNCHANGED ingested
              /\ Goto(t, Flushing("failed", tab[t].todo))
    /\ UNCHANGED <<pageStores, pageHistory, discarded>>

\* After the answer the record is removed, after a failure it is put back with
\* its backoff, also when another tab has removed it meanwhile.
Settle(t) ==
    /\ tab[t].pc \in {"sent", "failed"}
    /\ LET r == Head(tab[t].todo) IN
        IF tab[t].pc = "sent" THEN Drop(t, r.key) ELSE Put(t, [r EXCEPT !.waiting = TRUE])
    /\ Goto(t, Advance(t))
    /\ UNCHANGED <<pageHistory, ingested, discarded>>

-----
\* A day, or a backoff, passes for the records of IndexedDB and the memories.
Later(records) == {[r EXCEPT !.waiting = FALSE] : r \in records}
Aged(records) == {[r EXCEPT !.old = TRUE] : r \in records}

TimePasses ==
    /\ \/ idb' = Later(idb) /\ memory' = [t \in Tabs |-> Later(memory[t])]
       \/ pageCaptured = PageEvents /\ idb' = Aged(idb) /\ memory' = [t \in Tabs |-> Aged(memory[t])]
    /\ UNCHANGED <<useFallback, tab, pageHistory, ingested, discarded, tabMishaps>>

\* A tab is closed and opened again.
Close(t) ==
    /\ tabMishaps < MaxTabMishaps /\ tabMishaps' = tabMishaps + 1
    /\ discarded' = discarded \cup RecordKeys(memory[t])
    /\ memory' = [memory EXCEPT ![t] = {}] /\ useFallback' = [useFallback EXCEPT ![t] = FALSE]
    /\ tab' = [tab EXCEPT ![t] = IdleTab]
    /\ UNCHANGED <<idb, pageHistory, ingested>>

BrowserSpoolNext ==
    \/ \E t \in Tabs :
        \/ EnqueueOnce(t) \/ Evict(t) \/ PutEvent(t) \/ Diagnose(t) \/ PutDiagnostic(t)
        \/ FlushList(t) \/ Skip(t) \/ Deliver(t) \/ Settle(t) \/ Close(t)
    \/ TimePasses

BrowserSpoolSpec == BrowserSpoolInit /\ [][BrowserSpoolNext]_pageVars

-----
\* However the tabs interleave, whichever store call fails and whenever a tab
\* is closed, an event that was enqueued is in a store, or stored by the
\* collector, or was evicted, expired or closed away with a tab's memory.
BrowserSpoolConserves ==
    accepted \subseteq RecordKeys(idb) \cup (UNION {RecordKeys(memory[t]) : t \in Tabs})
                       \cup ingested \cup discarded

\* What a flush puts back may fill the memory of a tab beyond maxEvents: it
\* keeps the records that it listed in IndexedDB, where another tab wrote too.
\* Whichever store call failed on the way, an enqueue leaves no more than
\* maxEvents in that memory.
EnqueueIsBounded ==
    \A t \in Tabs : tab[t].pc \in {"diagnose", "diagnosed", "flush"} =>
        Cardinality(Events(memory[t])) <= MaxTabEvents

BrowserSpoolIsSafe == BrowserSpoolConserves /\ EnqueueIsBounded
======

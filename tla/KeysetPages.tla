------ MODULE KeysetPages ------
(* The rows of the database explorer, page by page: apps/sql-worker/src/
   explorer rowReader.ts, relatedRowReader.ts, filterSql.ts, cursorCodec.ts
   and schemaReader.ts.  A page is read under a cached schema that must
   still be the live one; it ends with a sealed cursor that holds the last
   row's order columns, or an offset where the relation has no key.  Rows
   are written and the schema is changed meanwhile. *)
EXTENDS Integers, Sequences, SequencesExt

CONSTANTS
    Walkers,          \* clients that turn pages
    RowIds,           \* the key column of the relation, positive integers
    SortValues,       \* the other column, natural numbers; it may be null
    SortDirections,   \* directions asked for
    Grain,            \* what is left of a value in a cursor: its multiple of Grain
    PageLimit,        \* pageSize
    MaxOffset,        \* largest offset of a cursor
    TokenLife,        \* CURSOR_EXPIRY_MS
    SchemaTtl,        \* cacheTtlMs
    MaxPageClock,
    MaxPageEvents     \* written rows, migrations, failing calls and ticks

ASSUME KeysetPagesAssumption ==
    /\ {Grain, PageLimit, TokenLife, SchemaTtl} \subseteq Nat \ {0}
    /\ {MaxOffset, MaxPageClock, MaxPageEvents} \subseteq Nat
    /\ IsFiniteSet(RowIds) /\ RowIds \subseteq Nat /\ SortValues \subseteq Nat /\ SortDirections \subseteq {"asc", "desc"}

VARIABLES
    keyed,        \* the relation has a key whose columns may be read
    rows,         \* id -> value of the other column, Absent when there is no such row
    live,         \* the schema of the database; the policy approves ApprovedSchema
    cache,        \* the cached schema and when it expires
    walk,         \* walker -> where it is
    pageClock, pageEvents

pageVars == <<keyed, rows, live, cache, walk, pageClock, pageEvents>>

Null           == -1
Absent         == -2
ApprovedSchema == 1
NoCache        == [schema |-> 0, expires |-> 0]
NoCursor       == [kind |-> "none"]
Everything     == [op |-> "all", value |-> Null]
NoSort         == [column |-> "none", direction |-> "asc"]
NoWalk == [pc |-> "idle", sort |-> NoSort, filter |-> Everything, refExpires |-> 0, snapshot |-> 0,
           cursor |-> NoCursor, got |-> <<>>, seen |-> {}, touched |-> {}]

PagesInit ==
    /\ keyed \in BOOLEAN
    /\ rows \in [RowIds -> SortValues \cup {Null, Absent}]
    /\ live = ApprovedSchema /\ cache = NoCache
    /\ walk = [w \in Walkers |-> NoWalk]
    /\ pageClock = 0 /\ pageEvents = 0

-----
\* The query.  The order is that of the sort column and then of the key, in one
\* direction, with nulls last in both.
Cell(id, column) == IF column = "id" THEN id ELSE rows[id]

OrderColumns(sort) ==
    (IF sort.column = "none" THEN <<>> ELSE <<sort.column>>)
        \o (IF keyed /\ sort.column # "id" THEN <<"id">> ELSE <<>>)

Ahead(x, y, direction) ==
    x # Null /\ (y = Null \/ (IF direction = "asc" THEN x < y ELSE x > y))

Before(a, b, sort) ==
    LET columns == OrderColumns(sort)
    IN  \E i \in DOMAIN columns :
            /\ \A j \in 1..(i - 1) : Cell(a, columns[j]) = Cell(b, columns[j])
            /\ Ahead(Cell(a, columns[i]), Cell(b, columns[i]), sort.direction)

\* buildFilterSql and the equality of a row reference.
Selected(id, filter) ==
    rows[id] # Absent /\ (filter.op = "eq" => rows[id] = filter.value)

\* Mutant of PastCursor: no row with a null follows one with a value.
PastCursorNotNull(id, keys, direction) ==
    \E i \in DOMAIN keys :
        /\ keys[i].value # Null
        /\ \A j \in 1..(i - 1) : Cell(id, keys[j].column) = keys[j].value
        /\ Cell(id, keys[i].column) # Null /\ Ahead(keys[i].value, Cell(id, keys[i].column), direction)

\* buildKeysetCondition: equal up to some column, and there behind it or null.
PastCursor(id, keys, direction) ==
    \E i \in DOMAIN keys :
        /\ keys[i].value # Null
        /\ \A j \in 1..(i - 1) : Cell(id, keys[j].column) = keys[j].value
        /\ Ahead(keys[i].value, Cell(id, keys[i].column), direction)

Window(q, first, last) == SubSeq(q, first, IF last < Len(q) THEN last ELSE Len(q))

\* What the database may answer: without a key rows that tie come in any order.
Answers(filter, cursor, sort) ==
    LET found == {id \in RowIds : Selected(id, filter) /\ (cursor.kind = "keyset" => PastCursor(id, cursor.keys, sort.direction))}
        orders == {q \in SetToSeqs(found) : \A i, j \in DOMAIN q : i < j => ~Before(q[j], q[i], sort)}
        skip == IF cursor.kind = "offset" THEN cursor.offset ELSE 0
    IN  {Window(q, skip + 1, skip + PageLimit + 1) : q \in orders}

\* encodeCursor and decodeCursor: values travel as JSON.
InCursor(column, value) == IF column = "id" \/ value = Null THEN value ELSE (value \div Grain) * Grain

NextCursor(page, cursor, sort, schema) ==
    LET columns == OrderColumns(sort)
        last == page[PageLimit]
        offset == PageLimit + (IF cursor.kind = "offset" THEN cursor.offset ELSE 0)
    IN  IF Len(page) <= PageLimit THEN NoCursor
        ELSE IF keyed
        THEN [kind |-> "keyset", sort |-> sort, schema |-> schema, expires |-> pageClock + TokenLife,
              keys |-> [i \in DOMAIN columns |->
                 [column |-> columns[i], value |-> InCursor(columns[i], Cell(last, columns[i]))]]]
        ELSE IF offset <= MaxOffset
        THEN [kind |-> "offset", sort |-> sort, schema |-> schema, expires |-> pageClock + TokenLife, offset |-> offset]
        ELSE NoCursor

-----
\* A walk starts with a request of its own, or from a row reference of another
\* relation: then rows whose other column has the referenced value are asked for.
Moved(w, pc, snapshot) == walk' = [walk EXCEPT ![w].pc = pc, ![w].snapshot = snapshot]
Environment == UNCHANGED <<keyed, rows, live, pageClock>>
\* One of the bounded events happens.
PageEvent == pageEvents + pageClock < MaxPageEvents /\ pageEvents' = pageEvents + 1

StartWalk(w, sort) ==
    /\ walk[w].pc = "idle"
    /\ walk' = [walk EXCEPT ![w].pc = "schema", ![w].sort = sort]
    /\ UNCHANGED <<cache, pageEvents>> /\ Environment

FollowReference(w, value) ==
    /\ walk[w].pc = "idle" /\ live = ApprovedSchema
    /\ walk' = [walk EXCEPT ![w].pc = "schema", ![w].filter = [op |-> "eq", value |-> value],
                             ![w].refExpires = pageClock + TokenLife]
    /\ UNCHANGED <<cache, pageEvents>> /\ Environment

\* createExplorerSchemaReader: a cached schema serves until it expires; a load
\* reads the live one and stores it some time later.
ReadSchema(w) ==
    /\ walk[w].pc = "schema"
    /\ IF pageClock < cache.expires THEN Moved(w, "check", cache.schema)
       ELSE Moved(w, "loading", live)
    /\ UNCHANGED <<cache, pageEvents>> /\ Environment

StoreSchema(w) ==
    /\ walk[w].pc = "loading"
    /\ \/ cache' = [schema |-> walk[w].snapshot, expires |-> pageClock + SchemaTtl]
          /\ Moved(w, "check", walk[w].snapshot) /\ UNCHANGED pageEvents
       \/ PageEvent
          /\ cache' = NoCache /\ Moved(w, "failed", walk[w].snapshot)
    /\ Environment

\* readRelatedRows and readDatabaseRows before the query: the policy approves
\* this schema, reference and cursor are of it and have not expired.
TokensHold(w) ==
    LET c == walk[w].cursor
    IN  /\ walk[w].filter.op = "eq" => pageClock < walk[w].refExpires
        /\ c.kind # "none" => c.schema = walk[w].snapshot /\ pageClock < c.expires /\ c.sort = walk[w].sort

CheckRequest(w) ==
    /\ walk[w].pc = "check"
    /\ Moved(w, IF walk[w].snapshot = ApprovedSchema /\ TokensHold(w) THEN "query" ELSE "failed", walk[w].snapshot)
    /\ UNCHANGED <<cache, pageEvents>> /\ Environment

LiveSchemaHolds(w) == live = walk[w].snapshot

\* One repeatable-read transaction: the live schema is compared, then the rows
\* are read.  A page that fails, is too large or gets lost is asked for again.
ReadPage(w) ==
    /\ walk[w].pc = "query"
    /\ \/ /\ ~LiveSchemaHolds(w)
          /\ cache' = NoCache /\ Moved(w, "failed", 0) /\ UNCHANGED pageEvents
       \/ /\ LiveSchemaHolds(w)
          /\ \E page \in Answers(walk[w].filter, walk[w].cursor, walk[w].sort) :
                LET next == NextCursor(page, walk[w].cursor, walk[w].sort, walk[w].snapshot)
                IN  walk' = [walk EXCEPT ![w].pc = IF next.kind = "none" THEN "ended" ELSE "shown",
                                         ![w].cursor = next, ![w].snapshot = 0,
                                         ![w].got = @ \o Window(page, 1, PageLimit),
                                         ![w].seen = @ \cup {live}]
          /\ UNCHANGED <<cache, pageEvents>>
       \/ /\ LiveSchemaHolds(w) /\ PageEvent
          /\ Moved(w, "failed", 0) /\ UNCHANGED cache
    /\ Environment

\* The client asks for the next page, for the same page again, or starts over.
AskAgain(w) ==
    /\ walk[w].pc \in {"shown", "failed"} /\ Moved(w, "schema", walk[w].snapshot)
    /\ UNCHANGED <<cache, pageEvents>> /\ Environment

StartOver(w) ==
    /\ walk[w].pc = "failed" /\ walk' = [walk EXCEPT ![w] = NoWalk]
    /\ UNCHANGED <<cache, pageEvents>> /\ Environment

-----
\* Meanwhile rows are inserted, changed and deleted, and migrations run.  What is
\* written before or after a walk is what the rows are for it.
Walking(before) == \E w \in Walkers : walk[w].pc \notin {before, "ended"}

WriteRow(id, value) ==
    /\ Walking("idle") /\ PageEvent
    /\ rows[id] # value /\ rows' = [rows EXCEPT ![id] = value]
    /\ walk' = [w \in Walkers |-> [walk[w] EXCEPT !.touched = IF walk[w].pc = "idle" THEN @ ELSE @ \cup {id}]]
    /\ UNCHANGED <<keyed, live, cache, pageClock>>

ChangeSchema ==
    /\ Walking("ended") /\ PageEvent
    /\ live' = 3 - live
    /\ UNCHANGED <<keyed, rows, cache, walk, pageClock>>

PageTick ==
    /\ Walking("ended") /\ pageClock < MaxPageClock /\ pageClock + pageEvents < MaxPageEvents /\ pageClock' = pageClock + 1
    /\ UNCHANGED <<keyed, rows, live, cache, walk, pageEvents>>

PagesNext ==
    \/ \E w \in Walkers :
          \/ \E sort \in {NoSort} \cup [column : {"value"}, direction : SortDirections] : StartWalk(w, sort)
          \/ \E value \in SortValues : FollowReference(w, value)
          \/ ReadSchema(w) \/ StoreSchema(w) \/ CheckRequest(w) \/ ReadPage(w) \/ AskAgain(w) \/ StartOver(w)
    \/ \E id \in RowIds, value \in SortValues \cup {Null, Absent} : WriteRow(id, value)
    \/ ChangeSchema \/ PageTick

PagesSpec == PagesInit /\ [][PagesNext]_pageVars

-----
\* Rows nobody wrote since the walk began come once each, in order, and at its
\* end all that match have come, whatever was done to the other rows, and
\* however often pages failed and were asked for again.  Without a key this is
\* promised only when nothing was written and no two rows tie.
Exact(w) ==
    LET Same == {id \in RowIds \ walk[w].touched : Selected(id, walk[w].filter)}
        got  == walk[w].got
        kept == {i \in DOMAIN got : got[i] \notin walk[w].touched}
    IN  /\ \A i, j \in kept : i < j => Before(got[i], got[j], walk[w].sort)
        /\ {got[i] : i \in kept} \subseteq Same
        /\ walk[w].pc = "ended" /\ (keyed \/ Len(got) <= MaxOffset) => Same \subseteq {got[i] : i \in kept}

Ordered(w) ==
    keyed \/ (walk[w].touched = {} /\ \A a, b \in RowIds : a # b => Before(a, b, walk[w].sort) \/ Before(b, a, walk[w].sort))

\* docs/superpowers/plans/2026-09-25-database-explorer.md:30: "Nullable or
\* duplicate sort values must not skip or repeat stable-key rows across
\* cursors."  A timestamp is finer than what a cursor keeps of it.
NothingSkippedOrRepeated == \A w \in Walkers : keyed => Exact(w)

\* Every walk is exact where it can be, an offset is bounded, and rows are read
\* only under the schema the policy approves, whatever the cache held.
PagesAreExact ==
    \A w \in Walkers :
        /\ Ordered(w) => Exact(w)
        /\ ~keyed => Len(walk[w].got) <= MaxOffset + PageLimit
        /\ walk[w].seen \subseteq {ApprovedSchema}
======

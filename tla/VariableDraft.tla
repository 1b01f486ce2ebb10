------ MODULE VariableDraft ------
(* From the inventory of variables to a validated draft:
   apps/config-agent/src inventory/inventoryService.ts,
   changes/validationService.ts and serializeUpdatedSource of
   adapters/types.ts.  The inventory reads the sources one after the
   other; a client picks definitions it was shown and asks for a change;
   the validation reads the touched sources again and stores a draft.  An
   operator edits the sources all the while.  A source is the sequence of
   its definitions, and a fingerprint is what it was taken of. *)
EXTENDS Integers, Sequences, FiniteSets, SequencesExt

CONSTANTS
    ManifestOrder,    \* the sources in the order of the manifest
    SourceRecord,     \* source -> [app, rank, controlled, actions, consumers]
    CatalogEntry,     \* <<source, name>> -> [requirement, mutability, strategy, public, consumers]
    FirstContent,     \* source -> its definitions at first
    NewValues, ValidValues,               \* values asked for, and those the rules accept
    MaxItems, MaxEdits, MaxDraftFaults    \* bounds

Manifest == ToSet(ManifestOrder)

ASSUME VariableDraftAssumption ==
    /\ ManifestOrder \in Seq(Manifest)
    /\ DOMAIN SourceRecord = Manifest /\ DOMAIN FirstContent = Manifest
    /\ \A s \in Manifest : FirstContent[s] \in Seq(ToSet(FirstContent[s]))
    /\ \A p, q \in DOMAIN ManifestOrder : ManifestOrder[p] = ManifestOrder[q] => p = q
    /\ {MaxItems, MaxEdits, MaxDraftFaults} \subseteq Nat

VARIABLES
    content,       \* source -> sequence of [name, value]
    seen,          \* what the inventory has read so far, per source
    inventory,     \* its answer
    items,         \* what the client asks for, in order
    validation,    \* [pc, at, reads, warned]
    draft,         \* the stored draft
    edits, draftFaults

draftVars == <<content, seen, inventory, items, validation, draft, edits, draftFaults>>

Nothing == [s \in {} |-> <<>>]
NoValidation == [pc |-> "idle", at |-> 1, reads |-> Nothing, warned |-> FALSE]
NoDraft == [items |-> <<>>, proposed |-> Nothing, plan |-> [sources |-> {}, actions |-> {}], warned |-> FALSE]

VariableDraftInit ==
    /\ content = FirstContent /\ seen = Nothing /\ inventory = {} /\ items = <<>>
    /\ validation = NoValidation /\ draft = NoDraft /\ edits = 0 /\ draftFaults = 0

-----
\* The inventory.
Position(s) == CHOOSE p \in DOMAIN ManifestOrder : ManifestOrder[p] = s
Ordinal(defs, at) == Cardinality({earlier \in 1..(at - 1) : defs[earlier].name = defs[at].name})
Definitions(reads) ==
    UNION {{[source |-> s, name |-> reads[s][at].name, value |-> reads[s][at].value,
             at |-> at, ordinal |-> Ordinal(reads[s], at)] : at \in DOMAIN reads[s]} : s \in DOMAIN reads}

Catalogued(d) == <<d.source, d.name>> \in DOMAIN CatalogEntry
Consumers(d) == IF Catalogued(d) THEN CatalogEntry[d.source, d.name].consumers ELSE SourceRecord[d.source].consumers

\* No consumers stands for all of them.
Intersects(left, right) == left = {} \/ right = {} \/ left \cap right # {}

IsHigherPrecedence(a, b) ==
    LET rank(d) == SourceRecord[d.source].rank
    IN  \/ rank(a) > rank(b)
        \/ rank(a) = rank(b) /\ a.source = b.source /\ a.ordinal > b.ordinal
        \/ rank(a) = rank(b) /\ a.source # b.source /\ Position(a.source) > Position(b.source)

Effective(d, group) ==
    ~\E c \in group : c # d /\ c.name = d.name /\ Intersects(Consumers(c), Consumers(d)) /\ IsHigherPrecedence(c, d)

\* Each source is read at a time of its own; one that cannot be read or parsed
\* fails the whole answer.
ReadInventorySource ==
    LET s == ManifestOrder[Cardinality(DOMAIN seen) + 1]
    IN  /\ Cardinality(DOMAIN seen) < Len(ManifestOrder)
        /\ seen' = [t \in DOMAIN seen \cup {s} |-> IF t = s THEN content[s] ELSE seen[t]]
        /\ UNCHANGED <<content, inventory, items, validation, draft, edits, draftFaults>>

\* The filters of the request apply to the finished answer.
AnswerInventory(apps) ==
    /\ DOMAIN seen = Manifest /\ inventory = {}
    /\ inventory' = {[definition |-> d, effective |-> Effective(d, Definitions(seen)),
                      sourceFingerprint |-> seen[d.source]] :
                         d \in {e \in Definitions(seen) : SourceRecord[e.source].app \in apps}}
    /\ UNCHANGED <<content, seen, items, validation, draft, edits, draftFaults>>

-----
\* The validation.  An item names one definition the client was shown, with
\* what the catalogue says of it; no definition is named twice.
ComposeItem ==
    \E shown \in inventory, operation \in {"set", "delete"}, value \in NewValues :
        /\ validation = NoValidation /\ Len(items) < MaxItems
        /\ \A i \in DOMAIN items : items[i].definition.source # shown.definition.source
                                   \/ items[i].definition.name # shown.definition.name
        /\ items' = Append(items, [definition |-> shown.definition, operation |-> operation,
                                   value |-> IF operation = "set" THEN value ELSE "none",
                                   sourceFingerprint |-> shown.sourceFingerprint])
        /\ UNCHANGED <<content, seen, inventory, validation, draft, edits, draftFaults>>

\* oneApplication: a change is for one application.
StartValidation ==
    /\ validation = NoValidation /\ items # <<>>
    /\ \A i \in DOMAIN items : SourceRecord[items[i].definition.source].app = SourceRecord[items[1].definition.source].app
    /\ validation' = [validation EXCEPT !.pc = "items"]
    /\ UNCHANGED <<content, seen, inventory, items, draft, edits, draftFaults>>

\* The request does not have its form, or the client's catalogue or manifest is
\* not the one the agent has loaded.
RefuseRequest ==
    /\ validation = NoValidation /\ items # <<>>
    /\ validation' = [NoValidation EXCEPT !.pc = "refused"]
    /\ UNCHANGED <<content, seen, inventory, items, draft, edits, draftFaults>>

\* OBSERVED_VARIABLE, REQUIRED_DELETE, VARIABLE_RULE_FAILED, UNKNOWN_VARIABLE.
Allowed(item) ==
    LET d == item.definition
    IN  /\ Catalogued(d) /\ SourceRecord[d.source].controlled
        /\ CatalogEntry[d.source, d.name].mutability # "observed"
        /\ item.operation = "delete" => CatalogEntry[d.source, d.name].requirement = "optional"
        /\ item.operation = "set" => item.value \in ValidValues

Named(defs, name) == {at \in DOMAIN defs : defs[at].name = name}

\* A source is read once, for its first item; CONFIG_SOURCE_CHANGED,
\* DUPLICATE_DEFINITION and SOURCE_NOT_FOUND.
Matches(item, defs) == defs = item.sourceFingerprint /\ Cardinality(Named(defs, item.definition.name)) = 1

\* Mutant of ValidateItem: the fingerprint of the source is not compared.
ValidateItemUncompared ==
    LET item == items[validation.at]
        s == item.definition.source
        read == IF s \in DOMAIN validation.reads THEN validation.reads[s] ELSE content[s]
    IN  /\ validation.pc = "items" /\ validation.at <= Len(items)
        /\ Allowed(item) /\ Cardinality(Named(read, item.definition.name)) = 1
        /\ validation' = [validation EXCEPT
               !.at = @ + 1, !.reads = [t \in DOMAIN @ \cup {s} |-> IF t = s THEN read ELSE @[t]]]
        /\ UNCHANGED <<content, seen, inventory, items, draft, edits, draftFaults>>

ValidateItem ==
    LET item == items[validation.at]
        s == item.definition.source
        read == IF s \in DOMAIN validation.reads THEN validation.reads[s] ELSE content[s]
        exposes == item.operation = "delete" /\ \E t \in Manifest \ {s} :
                       SourceRecord[t].app = SourceRecord[s].app /\ SourceRecord[t].rank < SourceRecord[s].rank
    IN  /\ validation.pc = "items" /\ validation.at <= Len(items)
        /\ validation' =
              IF Allowed(item) /\ Matches(item, read)
              THEN [validation EXCEPT !.at = @ + 1, !.warned = @ \/ exposes,
                                      !.reads = [t \in DOMAIN @ \cup {s} |-> IF t = s THEN read ELSE @[t]]]
              ELSE [NoValidation EXCEPT !.pc = "refused"]
        /\ UNCHANGED <<content, seen, inventory, items, draft, edits, draftFaults>>

\* A replacement starts where its definition stands in the bytes that were read.
Place(item) == item.definition.at

\* One replacement: the value of a definition, or the definition itself.
Replaced(defs, item, at) ==
    IF item.operation = "delete" THEN SubSeq(defs, 1, at - 1) \o SubSeq(defs, at + 1, Len(defs))
    ELSE [defs EXCEPT ![at].value = item.value]

\* The replacements are made from the end of the source to its beginning, so
\* that none of them moves the place of one still to be made.
FromTheEnd(operations) ==
    CHOOSE q \in [1..Cardinality(operations) -> operations] : \A i, j \in DOMAIN q : i < j => Place(q[i]) > Place(q[j])

SerializeUpdatedSource(defs, operations) ==
    LET order == FromTheEnd(operations)
        rest[n \in 0..Cardinality(operations)] ==
            IF n = 0 THEN defs ELSE Replaced(rest[n - 1], order[n], Place(order[n]))
    IN  rest[Cardinality(operations)]

ItemsOf(s) == {items[i] : i \in {j \in DOMAIN items : items[j].definition.source = s}}

\* PUBLIC_BUILD_NOT_ALLOWED: with one build every variable must be public.
BuildAllowed ==
    LET entries == {CatalogEntry[items[i].definition.source, items[i].definition.name] : i \in DOMAIN items}
    IN  (\E entry \in entries : entry.strategy = "build_redeploy") => \A entry \in entries : entry.public

\* The validator of the application sees the proposed sources; it may refuse.
ApplicationValidator(accepts) ==
    /\ validation.pc = "items" /\ validation.at > Len(items)
    /\ validation' = IF accepts /\ BuildAllowed THEN [validation EXCEPT !.pc = "store"]
                     ELSE [NoValidation EXCEPT !.pc = "refused"]
    /\ UNCHANGED <<content, seen, inventory, items, draft, edits, draftFaults>>

\* What the change will take: its sources, and the actions of all of them.
ImpactPlan(touched) ==
    [sources |-> touched, actions |-> UNION {SourceRecord[s].actions : s \in touched}]

ReplaceDraft ==
    LET touched == DOMAIN validation.reads
    IN  /\ validation.pc = "store"
        /\ validation' = [validation EXCEPT !.pc = "ready"]
        /\ draft' = [items |-> items,
                     proposed |-> [s \in touched |-> SerializeUpdatedSource(validation.reads[s], ItemsOf(s))],
                     plan |-> ImpactPlan(touched),
                     warned |-> validation.warned]
        /\ UNCHANGED <<content, seen, inventory, items, edits, draftFaults>>

FailsAt(pc) ==
    /\ draftFaults < MaxDraftFaults /\ draftFaults' = draftFaults + 1
    /\ validation.pc = pc
    /\ validation' = [NoValidation EXCEPT !.pc = "refused"]
    /\ UNCHANGED <<content, seen, inventory, items, draft, edits>>

\* Owner, group or release of a source is not known, or it cannot be read.
ReadFails == FailsAt("items") /\ validation.at <= Len(items)

\* No adapter for the source, or the parsed source does not give its bytes back.
ParseFails == FailsAt("items") /\ validation.at <= Len(items)

\* VALIDATION_STORAGE_FAILED.
StoreFails == FailsAt("store")

\* The operator: another value, a second definition, a definition less.
EditSource(s) ==
    /\ edits < MaxEdits /\ edits' = edits + 1
    /\ \/ \E at \in DOMAIN content[s] :
             \/ content' = [content EXCEPT ![s][at].value = "edited"]
             \/ content' = [content EXCEPT ![s] = Append(@, [content[s][at] EXCEPT !.value = "again"])]
             \/ content' = [content EXCEPT ![s] = SubSeq(@, 1, at - 1) \o SubSeq(@, at + 1, Len(@))]
    /\ UNCHANGED <<seen, inventory, items, validation, draft, draftFaults>>

VariableDraftNext ==
    \/ ReadInventorySource \/ ComposeItem \/ StartValidation \/ ValidateItem \/ ReplaceDraft \/ RefuseRequest
    \/ ReadFails \/ ParseFails \/ StoreFails
    \/ \E apps \in SUBSET {SourceRecord[s].app : s \in Manifest} : AnswerInventory(apps)
    \/ \E accepts \in BOOLEAN : ApplicationValidator(accepts)
    \/ \E s \in Manifest : EditSource(s)

VariableDraftSpec == VariableDraftInit /\ [][VariableDraftNext]_draftVars

-----
\* Sources are loaded by rank, sources of one rank in the order of the
\* manifest, and a later definition replaces an earlier one.
LoadedAfter(a, b) ==
    LET key(d) == <<SourceRecord[d.source].rank, Position(d.source), d.at>>
        x == key(a)
        y == key(b)
    IN  x[1] > y[1] \/ (x[1] = y[1] /\ (x[2] > y[2] \/ (x[2] = y[2] /\ x[3] > y[3])))

\* A definition that the inventory calls effective is the one that each of its
\* consumers really gets, and the last one loaded of all is called effective.
EffectiveIsLoadedLast ==
    \A shown \in inventory : \A other \in Definitions(seen) \ {shown.definition} :
        other.name = shown.definition.name =>
            IF shown.effective
            THEN LoadedAfter(other, shown.definition) => ~Intersects(Consumers(other), Consumers(shown.definition))
            ELSE \E later \in Definitions(seen) : later.name = other.name /\ LoadedAfter(later, shown.definition)

\* A draft replaces what the client was shown: the one definition of the name,
\* with the value in the answer, although the source was read again and edited.
ShownIsReplaced ==
    draft # NoDraft => \A i \in DOMAIN draft.items :
        LET item == draft.items[i]
            defs == validation.reads[item.definition.source]
        IN  Named(defs, item.definition.name) = {item.definition.at}
            /\ defs[item.definition.at].value = item.definition.value

\* The plan covers every source the draft changes and no other.
PlanIsExact ==
    draft # NoDraft => draft.plan.sources = {draft.items[i].definition.source : i \in DOMAIN draft.items}

VariableDraftIsSound == EffectiveIsLoadedLast /\ ShownIsReplaced /\ PlanIsExact

\* What would be written has every change of the draft and no other, in the
\* order of the file: each definition in it comes from one of those that are not
\* deleted, none of these is missing, and a changed one has its new value.
Follows(text, defs, changes) ==
    LET left == {at \in DOMAIN defs : \A c \in changes : c.definition.at = at => c.operation # "delete"}
    IN  \E origin \in [DOMAIN text -> left] :
           /\ \A m, n \in DOMAIN text : m < n => origin[m] < origin[n]
           /\ \A at \in left : \E n \in DOMAIN text : origin[n] = at
           /\ \A n \in DOMAIN text :
                 /\ \A c \in changes :
                       c.definition.at = origin[n] => text[n] = [defs[origin[n]] EXCEPT !.value = c.value]
                 /\ (\A c \in changes : c.definition.at # origin[n]) => text[n] = defs[origin[n]]

DraftIsExact ==
    draft # NoDraft => \A s \in draft.plan.sources :
        Follows(draft.proposed[s], validation.reads[s],
                {draft.items[i] : i \in {j \in DOMAIN draft.items : draft.items[j].definition.source = s}})
======

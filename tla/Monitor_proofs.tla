------ MODULE Monitor_proofs ------
(* What the legacy monitor guarantees, for any number of codes, samples,
   incidents, logins and sessions, and any number of deaths and retries:
   its link codes, its store, its sessions, and the incidents and alerts
   of its collector. *)
EXTENDS MCMonitor, NaturalsInduction, WellFoundedInduction, FiniteSetTheorems, SequenceTheorems, TLAPS

-----
(* The link codes of the monitor. *)
IsCode(r) == r = [owner |-> r.owner, expires |-> r.expires, consumed |-> r.consumed]
IsLink(r) == r = [chat |-> r.chat, active |-> r.active]

\* A message that linked carried a code that is used up and belongs to the
\* account it was counted for.
EventsInv ==
    \A m \in DOMAIN zEvents :
        /\ m \in DOMAIN sentLinks /\ sentLinks[m].code \in DOMAIN zCodes
        /\ zCodes[sentLinks[m].code].consumed
        /\ zCodes[sentLinks[m].code].owner = zEvents[m]

Proved(links, events, sent, codes) ==
    \A q \in DOMAIN links : \E n \in DOMAIN events :
        events[n] = q /\ sent[n].chat = links[q].chat /\ codes[sent[n].code].owner = q
OneOwner(links) == \A q, o \in DOMAIN links : links[q].chat = links[o].chat => q = o
OneUse(events, sent) == \A n, o \in DOMAIN events : sent[n].code = sent[o].code => n = o

LinksInv ==
    /\ \A c \in DOMAIN zCodes : IsCode(zCodes[c])
    /\ \A p \in DOMAIN zLinks : IsLink(zLinks[p])
    /\ EventsInv
    /\ Proved(zLinks, zEvents, sentLinks, zCodes) /\ OneOwner(zLinks) /\ OneUse(zEvents, sentLinks)

LEMMA CreateKeeps ==
    ASSUME LinksInv, NEW p, NEW c, CreateZaloLinkCode(p, c)
    PROVE  LinksInv'
<1>1. PICK r : /\ r = [owner |-> p, expires |-> zTime + CodeTtl, consumed |-> FALSE]
               /\ zCodes' = With(zCodes, c, r) /\ c \notin DOMAIN zCodes
               /\ UNCHANGED <<zLinks, zEvents, sentLinks>>
  BY DEF CreateZaloLinkCode, InsertCode
<1>2. IsCode(r) BY <1>1 DEF IsCode
<1>3. /\ DOMAIN zCodes' = DOMAIN zCodes \cup {c} /\ zCodes'[c] = r
      /\ \A d \in DOMAIN zCodes : zCodes'[d] = zCodes[d]
  BY <1>1 DEF With
<1>4. EventsInv' BY <1>1, <1>3 DEF LinksInv, EventsInv
<1>6. Proved(zLinks, zEvents, sentLinks, zCodes') BY <1>3 DEF LinksInv, Proved, EventsInv
<1> QED BY <1>1, <1>2, <1>3, <1>4, <1>6 DEF LinksInv

LEMMA SendKeeps ==
    ASSUME LinksInv, NEW m, NEW c, NEW chat, SendLinkCommand(m, c, chat)
    PROVE  LinksInv'
<1>1. PICK r : /\ sentLinks' = With(sentLinks, m, r) /\ m \notin DOMAIN sentLinks
               /\ UNCHANGED <<zLinks, zEvents, zCodes>>
  BY DEF SendLinkCommand
<1> QED BY <1>1 DEF LinksInv, EventsInv, Proved, OneOwner, OneUse, With

LEMMA ConsumeKeeps ==
    ASSUME LinksInv, NEW m, ConsumeZaloLink(m)
    PROVE  LinksInv'
<1>1. PICK c, chat, p :
         /\ m \in DOMAIN sentLinks /\ m \notin DOMAIN zEvents
         /\ c = sentLinks[m].code /\ chat = sentLinks[m].chat /\ p = zCodes[c].owner
         /\ c \in DOMAIN zCodes /\ ~zCodes[c].consumed /\ ~ChatOfOther(chat, p)
         /\ zLinks' = With(zLinks, p, [chat |-> chat, active |-> TRUE])
         /\ zCodes' = [zCodes EXCEPT ![c].consumed = TRUE]
         /\ zEvents' = With(zEvents, m, p) /\ sentLinks' = sentLinks
  BY DEF ConsumeZaloLink, ValidCode, NewEvent
<1>2. PICK r : r = [chat |-> chat, active |-> TRUE] /\ r.chat = chat /\ IsLink(r)
  <2>1. IsLink([chat |-> chat, active |-> TRUE]) BY DEF IsLink
  <2> QED BY <2>1
<1>3. /\ DOMAIN zLinks' = DOMAIN zLinks \cup {p} /\ zLinks'[p] = r
      /\ \A q \in DOMAIN zLinks : q # p => zLinks'[q] = zLinks[q]
  BY <1>1, <1>2 DEF With
<1>4. /\ DOMAIN zEvents' = DOMAIN zEvents \cup {m} /\ zEvents'[m] = p
      /\ \A n \in DOMAIN zEvents : zEvents'[n] = zEvents[n]
  BY <1>1 DEF With
<1>5. PICK d : /\ d = [owner |-> p, expires |-> zCodes[c].expires, consumed |-> TRUE]
               /\ IsCode(d) /\ d.owner = p /\ d.consumed
  <2>1. IsCode([owner |-> p, expires |-> zCodes[c].expires, consumed |-> TRUE]) BY DEF IsCode
  <2> QED BY <2>1
<1>6. [zCodes[c] EXCEPT !.consumed = TRUE] = d BY <1>1, <1>5, ZenonT(60) DEF LinksInv, IsCode
<1>7. /\ DOMAIN zCodes' = DOMAIN zCodes /\ zCodes'[c] = d
      /\ \A e \in DOMAIN zCodes : e # c => zCodes'[e] = zCodes[e]
  BY <1>1, <1>6
<1>8. \A e \in DOMAIN zCodes : zCodes'[e].owner = zCodes[e].owner /\ (zCodes[e].consumed => zCodes'[e].consumed)
  BY <1>1, <1>5, <1>7
<1>9. EventsInv' BY <1>1, <1>4, <1>5, <1>7, <1>8 DEF LinksInv, EventsInv
<1>11. \A n, o \in DOMAIN zEvents' : sentLinks[n].code = sentLinks[o].code => n = o
  BY <1>1, <1>4 DEF LinksInv, OneUse, EventsInv
<1>12. \A q \in DOMAIN zLinks' : \E n \in DOMAIN zEvents' :
          zEvents'[n] = q /\ sentLinks[n].chat = zLinks'[q].chat /\ zCodes'[sentLinks[n].code].owner = q
  <2> SUFFICES ASSUME NEW q \in DOMAIN zLinks'
               PROVE  \E n \in DOMAIN zEvents' :
                         /\ zEvents'[n] = q /\ sentLinks[n].chat = zLinks'[q].chat
                         /\ zCodes'[sentLinks[n].code].owner = q
    OBVIOUS
  <2>1. CASE q = p BY <2>1, <1>1, <1>2, <1>3, <1>4, <1>5, <1>7
  <2>2. CASE q # p BY <2>2, <1>3, <1>4, <1>8 DEF LinksInv, Proved, EventsInv
  <2> QED BY <2>1, <2>2
<1>13. \A q, o \in DOMAIN zLinks' : zLinks'[q].chat = zLinks'[o].chat => q = o
  <2>1. \A q \in DOMAIN zLinks : q # p => zLinks[q].chat # chat BY <1>1 DEF ChatOfOther
  <2> QED BY <1>2, <1>3, <2>1 DEF LinksInv, OneOwner
<1>14. Proved(zLinks', zEvents', sentLinks, zCodes') /\ OneOwner(zLinks') /\ OneUse(zEvents', sentLinks)
  BY <1>11, <1>12, <1>13 DEF Proved, OneOwner, OneUse
<1>15. \A q \in DOMAIN zLinks' : IsLink(zLinks'[q]) BY <1>2, <1>3 DEF LinksInv
<1>16. \A e \in DOMAIN zCodes' : IsCode(zCodes'[e]) BY <1>5, <1>7 DEF LinksInv
<1>17. sentLinks' = sentLinks BY <1>1
<1> QED BY ONLY <1>9, <1>14, <1>15, <1>16, <1>17 DEF LinksInv

LEMMA DisableKeeps ==
    ASSUME LinksInv, NEW p, DisableZaloLink(p)
    PROVE  LinksInv'
<1>1. /\ p \in DOMAIN zLinks /\ zLinks' = [zLinks EXCEPT ![p].active = FALSE]
      /\ UNCHANGED <<zCodes, zEvents, sentLinks>>
  BY DEF DisableZaloLink, LinkActive, DisableRow
<1>2. PICK r : r = [chat |-> zLinks[p].chat, active |-> FALSE] /\ r.chat = zLinks[p].chat /\ IsLink(r)
  <2>1. IsLink([chat |-> zLinks[p].chat, active |-> FALSE]) BY DEF IsLink
  <2> QED BY <2>1
<1>4. /\ DOMAIN zLinks' = DOMAIN zLinks /\ zLinks'[p] = r
      /\ \A q \in DOMAIN zLinks : q # p => zLinks'[q] = zLinks[q] BY <1>1, <1>2 DEF LinksInv, IsLink
<1>5. \A q \in DOMAIN zLinks : zLinks'[q].chat = zLinks[q].chat BY <1>2, <1>4
<1> QED BY <1>1, <1>2, <1>4, <1>5 DEF LinksInv, EventsInv, Proved, OneOwner, OneUse

\* Alerts of an account go only to a chat from which a code of that account
\* was sent, no chat gets the alerts of two accounts, and a code links once,
\* however often the provider delivers a message (store.ts, consumeZaloLink).
THEOREM LinksProved == ZaloSpec => []LinkIsProved
<1>1. ZaloInit => LinksInv BY DEF ZaloInit, NoFunction, LinksInv, EventsInv, Proved, OneOwner, OneUse
<1>2. LinksInv /\ [ZaloNext]_zaloVars => LinksInv'
  BY CreateKeeps, SendKeeps, ConsumeKeeps, DisableKeeps DEF ZaloTick, zaloVars, LinksInv, EventsInv,
    Proved, OneOwner, OneUse, ZaloNext
<1>3. LinksInv => LinkIsProved BY DEF LinksInv, Proved, OneOwner, OneUse, LinkIsProved
<1> QED BY <1>1, <1>2, <1>3, PTL DEF ZaloSpec

-----
(* The store of the legacy monitor: opening its file. *)
Migrated == ~residue /\ recipients = "cipher" /\ zaloColumns = "principal"

\* Plaintext is left in the file's free pages only while its version is one
\* that makes every opener sanitize it, and a process that goes on after its
\* VACUUM goes on with a sanitized file.
MigrationInv ==
    /\ version \in {0, 2, 3, SchemaVersion} /\ recipients \in {"plain", "cipher"}
    /\ zaloColumns \in {"account", "principal"} /\ residue \in BOOLEAN /\ legacyRows \in BOOLEAN
    /\ opener \in [Openers -> {"closed", "vacuum", "version", "open"}]
    /\ version = 0 => recipients = "cipher" /\ zaloColumns = "principal" /\ ~legacyRows
    /\ version \in {0, 3} => recipients = "cipher"
    /\ residue => version = 2 /\ recipients = "cipher" /\ legacyRows
    /\ version = SchemaVersion => Migrated
    /\ \A p \in Openers : opener[p] # "closed" => recipients = "cipher" /\ zaloColumns = "principal"
    /\ \A p \in Openers : opener[p] \in {"version", "open"} => Migrated

LEMMA MigrationInitially == MigrationInit => MigrationInv
<1> SUFFICES ASSUME MigrationInit PROVE MigrationInv OBVIOUS
<1>1. residue = FALSE /\ opener = [p \in Openers |-> "closed"] /\ version \in {0, 2, 3} /\ version # SchemaVersion
  BY VersionAssumption DEF MigrationInit
<1>2. /\ recipients \in {"plain", "cipher"} /\ zaloColumns \in {"account", "principal"} /\ legacyRows \in BOOLEAN
      /\ version = 0 => recipients = "cipher" /\ zaloColumns = "principal" /\ ~legacyRows
      /\ version \in {0, 3} => recipients = "cipher"
  <2>1. CASE version = 0 /\ recipients = "cipher" /\ zaloColumns = "principal" /\ legacyRows = FALSE BY <2>1
  <2>2. CASE version = 2 /\ recipients = "plain" /\ zaloColumns = "account" /\ legacyRows \in BOOLEAN BY <2>2
  <2>3. CASE version = 3 /\ recipients = "cipher" /\ zaloColumns = "account" /\ legacyRows \in BOOLEAN BY <2>3
  <2> QED BY <2>1, <2>2, <2>3 DEF MigrationInit
<1> QED BY <1>1, <1>2 DEF MigrationInv

LEMMA OpenKeeps ==
    ASSUME MigrationInv, NEW p \in Openers, OpenTransaction(p) PROVE MigrationInv'
<1> DEFINE sanitize == version # 0 /\ (RecipientsNeedSanitizing \/ ZaloNeedsSanitizing)
<1>1. /\ version' = IF sanitize THEN version ELSE SchemaVersion
      /\ opener' = [opener EXCEPT ![p] = IF sanitize THEN "vacuum" ELSE "open"]
      /\ residue' = (residue \/ (recipients = "plain" /\ legacyRows))
      /\ recipients' = "cipher" /\ zaloColumns' = "principal" /\ legacyRows' = legacyRows
  BY DEF OpenTransaction
<1>2. ~sanitize => ~residue' /\ (version # SchemaVersion => version \in {0, 2, 3})
  BY <1>1 DEF RecipientsNeedSanitizing, MigrationInv, Migrated
<1> HIDE DEF sanitize
<1>4. /\ opener' \in [Openers -> {"closed", "vacuum", "version", "open"}]
      /\ opener'[p] \in {"vacuum", "open"} /\ (opener'[p] = "open" => ~sanitize)
      /\ \A q \in Openers : q # p => opener'[q] = opener[q]
  BY <1>1 DEF MigrationInv
<1>5. CASE sanitize
  BY <1>1, VersionAssumption, <1>5, <1>4 DEF MigrationInv, Migrated, RecipientsNeedSanitizing,
    ZaloNeedsSanitizing
<1>6. CASE ~sanitize BY <1>1, <1>2, <1>6, <1>4, VersionAssumption DEF MigrationInv, Migrated
<1> QED BY <1>5, <1>6

LEMMA MigrationStep == MigrationInv /\ [MigrationNext]_migrationVars => MigrationInv'
<1> SUFFICES ASSUME MigrationInv, [MigrationNext]_migrationVars PROVE MigrationInv' OBVIOUS
<1>1. ASSUME NEW p \in Openers, Vacuum(p) PROVE MigrationInv'
  BY <1>1, VersionAssumption DEF Vacuum, MigrationInv, Migrated
<1>2. ASSUME NEW p \in Openers, RaiseVersion(p) PROVE MigrationInv'
  BY <1>2, VersionAssumption DEF RaiseVersion, MigrationInv, Migrated
<1>3. ASSUME NEW p \in Openers, Die(p) PROVE MigrationInv' BY <1>3 DEF Die, MigrationInv, Migrated
<1>4. CASE UNCHANGED migrationVars BY <1>4 DEF migrationVars, MigrationInv, Migrated
<1> QED BY <1>1, <1>2, <1>3, <1>4, OpenKeeps DEF MigrationNext

\* Whoever opens the file and wherever an opener dies, a file of the current
\* version, and one that a process serves, holds no plaintext recipient.
THEOREM FileSanitized == MigrationSpec => []CurrentIsSanitized
<1>1. MigrationInv => CurrentIsSanitized BY DEF MigrationInv, CurrentIsSanitized, Migrated
<1> QED BY <1>1, MigrationInitially, MigrationStep, PTL DEF MigrationSpec

-----
(* The store of the legacy monitor: retention. *)
Keys == Int \X SampledMonitors
Of(samplesThere, k) == {s \in samplesThere : KeyOf(s) = k}

\* What was recorded for a key is a sample, or counted in the stage or the
\* rollups.
Accounted(k) ==
    Cardinality(Of(samples, k)) + Count(stage, k) + Count(rollups, k) = Cardinality(Of(ever, k))

\* Rows with counts: the stage and the rollups.
Counts(f) == \A k \in DOMAIN f : f[k].count \in Nat

RetentionInv ==
    /\ clock \in Nat /\ forgotten \in Int
    /\ IsFiniteSet(ever) /\ samples \subseteq ever
    /\ \A s \in ever : s.at \in Int /\ s.mon \in SampledMonitors /\ s.id \in Nat /\ s.id <= Cardinality(ever)
    /\ Counts(stage) /\ Counts(rollups)
    /\ Running => run.raw \in Int /\ run.rollup \in Int /\ run.rollup <= forgotten
    /\ StageIsTransient
    /\ \A k \in Keys : k[1] > Day(forgotten) => Accounted(k)

\* Days pass as ticks do.
LEMMA DayType == \A t \in Int : Day(t) \in Int
  BY RetentionAssumption DEF Day
LEMMA DayGrows ==
    ASSUME NEW s \in Int, NEW t \in Int, s <= t PROVE Day(s) <= Day(t)
<1> DEFINE d == DayTicks
           x == s \div d
           y == t \div d
<1>1. d \in Nat /\ d > 0 BY RetentionAssumption
<1>2. x \in Int /\ y \in Int /\ d * x <= s /\ t < d * y + d BY <1>1
<1> HIDE DEF d, x, y
<1>3. d * x < d * (y + 1) BY <1>1, <1>2
<1>4. x < y + 1 BY <1>2, <1>1, <1>3
<1> QED BY <1>2, <1>4 DEF Day, x, y, d

LEMMA MaxOfTwo ==
    ASSUME NEW a \in Int, NEW b \in Int PROVE Max({a, b}) \in Int /\ Max({a, b}) >= a /\ Max({a, b}) >= b
<1> QED BY DEF Max

LEMMA RetentionInitially == RetentionInit => RetentionInv
<1> SUFFICES ASSUME RetentionInit PROVE RetentionInv OBVIOUS
<1>1. /\ clock = 0 /\ samples = {} /\ ever = {} /\ forgotten = Unset /\ run = NoRun
      /\ DOMAIN stage = {} /\ DOMAIN rollups = {}
  BY DEF RetentionInit, Empty
<1>2. ASSUME NEW k \in Keys PROVE Accounted(k) BY <1>1, FS_EmptySet DEF Of, Count, Accounted
<1>3. IsFiniteSet(ever) BY <1>1, FS_EmptySet
<1> QED BY <1>1, <1>2, <1>3 DEF RetentionInv, Counts, Running, StageIsTransient, Unset

\* Steps after which the tables count what they counted before.
LEMMA TablesKeep ==
    ASSUME RetentionInv, UNCHANGED <<samples, stage, rollups, ever>>,
           clock' \in Nat, forgotten' \in Int, forgotten <= forgotten', StageIsTransient',
           Running' => run'.raw \in Int /\ run'.rollup \in Int /\ run'.rollup <= forgotten'
    PROVE  RetentionInv'
<1>1. ASSUME NEW k \in Keys, k[1] > Day(forgotten') PROVE Accounted(k)'
  BY DayType, DayGrows, <1>1 DEF RetentionInv, Keys, Accounted, Of, Count, KeyOf, Day
<1> QED BY <1>1 DEF RetentionInv, Counts, Day

LEMMA RecordKeeps ==
    ASSUME RetentionInv, RecordSample PROVE RetentionInv'
<1>1. PICK m \in SampledMonitors, rank \in RecordedRanks :
        LET s == [id |-> Cardinality(ever) + 1, at |-> clock, mon |-> m, rank |-> rank]
        IN  samples' = samples \cup {s} /\ ever' = ever \cup {s}
  BY DEF RecordSample
<1> DEFINE s == [id |-> Cardinality(ever) + 1, at |-> clock, mon |-> m, rank |-> rank]
<1>2. /\ s.id = Cardinality(ever) + 1 /\ s.at = clock /\ s.mon = m
      /\ samples' = samples \cup {s} /\ ever' = ever \cup {s}
  BY <1>1
<1> HIDE DEF s
<1>3. /\ clock' \in Nat /\ UNCHANGED <<stage, rollups, eventRows, run, lastCompleted, forgotten>>
  BY DEF RecordSample, RetentionInv
<1>4. IsFiniteSet(ever) /\ Cardinality(ever) \in Nat BY FS_CardinalityType DEF RetentionInv
<1>5. s \notin ever BY <1>2, <1>4 DEF RetentionInv
<1>6. IsFiniteSet(ever') /\ Cardinality(ever') = Cardinality(ever) + 1 BY <1>2, <1>4, <1>5, FS_AddElement
<1>8. ASSUME NEW k \in Keys, k[1] > Day(forgotten) PROVE Accounted(k)'
  <2>1. Accounted(k) BY <1>8 DEF RetentionInv
  <2>2. Count(stage', k) = Count(stage, k) /\ Count(rollups', k) = Count(rollups, k) BY <1>3
  <2>3. /\ IsFiniteSet(Of(samples, k)) /\ IsFiniteSet(Of(ever, k))
        /\ Cardinality(Of(samples, k)) \in Nat /\ Cardinality(Of(ever, k)) \in Nat
    BY <1>4, FS_Subset, FS_CardinalityType DEF Of, RetentionInv
  <2>4. CASE KeyOf(s) = k
    <3>1. Of(samples', k) = Of(samples, k) \cup {s} /\ Of(ever', k) = Of(ever, k) \cup {s} BY <1>2, <2>4 DEF Of
    <3>2. s \notin Of(samples, k) /\ s \notin Of(ever, k) BY <1>5 DEF Of, RetentionInv
    <3>3. /\ Cardinality(Of(samples', k)) = Cardinality(Of(samples, k)) + 1
          /\ Cardinality(Of(ever', k)) = Cardinality(Of(ever, k)) + 1
      BY <2>3, <3>1, <3>2, FS_AddElement
    <3> QED BY <2>1, <2>2, <2>3, <3>3 DEF Accounted, RetentionInv, Counts, Count
  <2>5. CASE KeyOf(s) # k BY <1>2, <2>5, <2>1, <2>2 DEF Of, Accounted
  <2> QED BY <2>4, <2>5
<1>11. \A k \in Keys : k[1] > Day(forgotten') => Accounted(k)' BY <1>3, <1>8
<1> QED BY <1>3, <1>6, <1>2, <1>4, <1>11 DEF RetentionInv, Day, Counts, Running, StageIsTransient

LEMMA RunStartKeeps ==
    ASSUME RetentionInv, StartRun PROVE RetentionInv'
<1>1. /\ run' = [raw |-> clock - RawKeep, rollup |-> clock - RollupKeep, event |-> clock - EventKeep]
      /\ forgotten' = Max({forgotten, clock - RollupKeep})
      /\ UNCHANGED <<clock, samples, stage, rollups, ever>> /\ ~Running
  BY DEF StartRun, storeTables
<1>2. clock \in Nat /\ forgotten \in Int /\ clock - RawKeep \in Int /\ clock - RollupKeep \in Int
  BY RetentionAssumption DEF RetentionInv
<1>4. StageIsTransient' BY <1>1 DEF RetentionInv, StageIsTransient
<1> QED BY <1>1, <1>2, MaxOfTwo, <1>4, TablesKeep

\* The batch leaves the samples and enters the stage: of a key whose day no run
\* has let go, every sample is past the rollups' cutoff, and counted.
LEMMA RawBatchKeeps ==
    ASSUME RetentionInv, ProcessRawBatch PROVE RetentionInv'
<1> DEFINE batch == Oldest(OldSamples, BatchSize)
           kept == {s \in batch : s.at >= run.rollup}
           groups == [k \in {KeyOf(s) : s \in kept} |-> Summary({s \in kept : KeyOf(s) = k})]
<1>1. /\ Running /\ stage' = StageUpsert(stage, groups) /\ samples' = samples \ batch
      /\ UNCHANGED <<clock, rollups, eventRows, run, lastCompleted, ever, forgotten>>
  BY DEF ProcessRawBatch
<1>2. batch \subseteq samples /\ kept \subseteq batch BY DEF Oldest, OldSamples
<1>3. IsFiniteSet(ever) /\ samples \subseteq ever BY DEF RetentionInv
<1>4. DOMAIN groups = {KeyOf(s) : s \in kept} /\ \A k \in DOMAIN groups : groups[k].count = Cardinality(Of(kept, k))
  BY DEF Summary, Of
<1> HIDE DEF groups, kept, batch
<1>5. \A k : /\ IsFiniteSet(Of(samples, k)) /\ IsFiniteSet(Of(kept, k)) /\ IsFiniteSet(Of(batch, k))
             /\ Cardinality(Of(samples, k)) \in Nat /\ Cardinality(Of(kept, k)) \in Nat
             /\ Cardinality(Of(batch, k)) \in Nat
  BY <1>2, <1>3, FS_Subset, FS_CardinalityType DEF Of
<1>6. \A k : Count(stage', k) = Count(stage, k) + Cardinality(Of(kept, k))
  <2> SUFFICES ASSUME NEW k PROVE Count(stage', k) = Count(stage, k) + Cardinality(Of(kept, k)) OBVIOUS
  <2>1. DOMAIN stage' = DOMAIN stage \cup DOMAIN groups BY <1>1 DEF StageUpsert
  <2>3. CASE k \notin DOMAIN groups
    <3>1. Of(kept, k) = {} BY <1>4, <2>3 DEF Of
    <3> QED BY <3>1, <1>1, <2>1, <2>3, FS_EmptySet DEF Count, RetentionInv, Counts, StageUpsert
  <2>4. CASE k \in DOMAIN groups /\ k \notin DOMAIN stage
    <3>1. stage'[k] = groups[k] BY <1>1, <2>4 DEF StageUpsert
    <3> QED BY <1>4, <1>5, <2>1, <2>4, <3>1 DEF Count
  <2>5. CASE k \in DOMAIN groups /\ k \in DOMAIN stage
    BY <1>1, <2>5, <1>4, <2>1 DEF StageUpsert, Count
  <2> QED BY <2>3, <2>4, <2>5
<1>7. Counts(stage') BY <1>5, <1>6 DEF Counts, RetentionInv, Count
<1>8. ASSUME NEW k \in Keys, k[1] > Day(forgotten) PROVE Accounted(k)'
  <2>1. Accounted(k) BY <1>8 DEF RetentionInv
  <2>2. Of(kept, k) = Of(batch, k)
    BY <1>2, <1>1, <1>8, DayGrows, DayType DEF Of, RetentionInv, KeyOf, kept
  <2>3. Of(samples', k) = Of(samples, k) \ Of(batch, k) /\ Of(samples, k) \cap Of(batch, k) = Of(batch, k)
    BY <1>1, <1>2 DEF Of
  <2>4. Cardinality(Of(samples', k)) = Cardinality(Of(samples, k)) - Cardinality(Of(batch, k))
    BY <1>5, <2>3, FS_Difference, ZenonT(60)
  <2> QED BY <1>5, <2>1, <2>4, <1>6, <2>2, <1>1 DEF Accounted, RetentionInv, Counts, Count
<1>12. \A k \in Keys : k[1] > Day(forgotten') => Accounted(k)' BY <1>1, <1>8
<1>13. IsFiniteSet(ever') /\ Counts(stage)' BY <1>1, <1>3, <1>7 DEF Counts
<1> QED BY <1>1, <1>3, <1>12, <1>13 DEF RetentionInv, Day, StageIsTransient, Running, Counts

\* A step that changes the rows of the stage and the rollups, but not what
\* they count together for a key that no run has let go.
LEMMA CountsKeep ==
    ASSUME RetentionInv, UNCHANGED <<clock, samples, run, ever, forgotten>>, Running,
           Counts(stage'), Counts(rollups'),
           \A k \in Keys : k[1] > Day(forgotten) =>
               Count(stage', k) + Count(rollups', k) = Count(stage, k) + Count(rollups, k)
    PROVE  RetentionInv'
<1>1. ASSUME NEW k \in Keys, k[1] > Day(forgotten) PROVE Accounted(k)'
  <2>3. Cardinality(Of(samples, k)) \in Int BY FS_Subset, FS_CardinalityType DEF RetentionInv, Of
  <2> QED BY <1>1, <2>3 DEF Accounted, RetentionInv, Counts, Count
<1> QED BY <1>1 DEF RetentionInv, Counts, Day, StageIsTransient, Running

LEMMA MergeKeeps ==
    ASSUME RetentionInv, MergeStageBatch PROVE RetentionInv'
<1>2. PICK j \in DOMAIN stage :
        /\ rollups' = [x \in DOMAIN rollups \cup {j} |->
                IF x # j THEN rollups[x]
                ELSE IF j \notin DOMAIN rollups THEN stage[j]
                ELSE [count |-> rollups[j].count + stage[j].count,
                      last |-> Max({rollups[j].last, stage[j].last}), rank |-> stage[j].rank]]
        /\ stage' = [x \in DOMAIN stage \ {j} |-> stage[x]]
  BY DEF MergeStageBatch
<1>3. /\ DOMAIN rollups' = DOMAIN rollups \cup {j} /\ DOMAIN stage' = DOMAIN stage \ {j}
      /\ \A k \in DOMAIN stage' : stage'[k] = stage[k]
      /\ \A k \in DOMAIN rollups : k # j => rollups'[k] = rollups[k]
      /\ j \notin DOMAIN rollups => rollups'[j] = stage[j]
      /\ j \in DOMAIN rollups => rollups'[j].count = rollups[j].count + stage[j].count
  BY <1>2
<1>4. Counts(stage) /\ Counts(rollups) BY DEF RetentionInv
<1>5. Counts(stage') /\ Counts(rollups') BY <1>3, <1>4 DEF Counts
<1> QED BY <1>5, <1>4, <1>3, CountsKeep DEF MergeStageBatch, Counts, Count

\* Rollups go of days that this run, and so the latest, has let go.
LEMMA DeleteKeeps ==
    ASSUME RetentionInv, DeleteOldestBatch PROVE RetentionInv'
<1>1. Running /\ UNCHANGED <<clock, samples, stage, run, lastCompleted, ever, forgotten>> BY DEF DeleteOldestBatch
<1>2. Counts(stage) /\ Counts(rollups) BY DEF RetentionInv
<1>3. CASE UNCHANGED rollups BY <1>1, <1>2, <1>3, CountsKeep
<1>4. CASE \E j \in StaleRollups : rollups' = [x \in DOMAIN rollups \ {j} |-> rollups[x]]
  <2>1. PICK j \in StaleRollups : rollups' = [x \in DOMAIN rollups \ {j} |-> rollups[x]] BY <1>4
  <2>2. DOMAIN rollups' = DOMAIN rollups \ {j} /\ \A k \in DOMAIN rollups' : rollups'[k] = rollups[k] BY <2>1
  <2>3. Counts(rollups') /\ Counts(stage') BY <1>1, <1>2, <2>2 DEF Counts
  <2>4. j[1] < Day(run.rollup) BY DEF StaleRollups
  <2>6. ASSUME NEW k \in Keys, k[1] > Day(forgotten)
        PROVE  Count(stage', k) + Count(rollups', k) = Count(stage, k) + Count(rollups, k)
    <3>1. k # j BY <2>4, <1>1, DayType, DayGrows, <2>6 DEF Keys, RetentionInv
    <3> QED BY <1>1, <2>2, <3>1 DEF Count
  <2> QED BY <1>1, <2>3, <2>6, CountsKeep
<1> QED BY <1>3, <1>4 DEF DeleteOldestBatch

LEMMA RetentionStep == RetentionInv /\ [RetentionNext]_retentionVars => RetentionInv'
<1> SUFFICES ASSUME RetentionInv, [RetentionNext]_retentionVars PROVE RetentionInv' OBVIOUS
<1>1. CASE RecordEvent \/ UNCHANGED retentionVars
  BY <1>1, TablesKeep DEF RecordEvent, retentionVars, storeTables, RetentionInv, StageIsTransient, Running
<1>2. CASE Idle15Seconds BY <1>2, TablesKeep DEF Idle15Seconds, storeTables, RetentionInv, StageIsTransient, Running
<1>3. CASE FinishRun
  BY <1>3, TablesKeep DEF FinishRun, storeTables, Running, StageIsTransient, RetentionInv
<1> QED BY <1>1, <1>2, <1>3, RecordKeeps, RunStartKeeps, RawBatchKeeps, MergeKeeps, DeleteKeeps DEF RetentionNext,
  PruneBatch

\* Wherever retention stops, every sample of a day no run has let go is counted
\* once, and the stage is empty between two runs.
THEOREM SamplesAccounted == RetentionSpec => []RetentionIsExact
<1>1. RetentionInv => RetentionIsExact
  BY DayType DEF RetentionInv, RetentionIsExact, SamplesCountedOnce, Accounted, Of, KeyOf, Keys
<1> QED BY <1>1, RetentionInitially, RetentionStep, PTL DEF RetentionSpec

\* Over openings, crashes and retention of any length, the monitor's file holds
\* no plaintext recipient once it is migrated, and accounts for every sample.
THEOREM StoreSafe == RetentionSpec /\ MigrationSpec => []StoreIsSound
<1>1. RetentionIsExact /\ CurrentIsSanitized => StoreIsSound BY DEF StoreIsSound
<1> QED BY <1>1, SamplesAccounted, FileSanitized, PTL

-----
(* Logins and sessions of the legacy monitor. *)
Stale(t) == sessionRows[t].gen # generation

\* A session's limits, and that only the login a recovery fell into makes one
\* with credentials that are not the present ones.
SessionInv(s) ==
    /\ s = [created |-> s.created, seen |-> s.seen, expires |-> s.expires, absolute |-> s.absolute,
            gen |-> s.gen, late |-> s.late]
    /\ s.created \in Int /\ s.seen \in Int /\ s.expires \in Int
    /\ s.expires <= s.seen + IdleTime /\ s.absolute = s.created + AbsoluteTime
    /\ s.gen # generation => s.late

\* The login in flight read the credentials of then; when they are not the
\* present ones, every session was ended since.
LoginInv ==
    \/ login = NoLogin
    \/ /\ login # NoLogin /\ login.at \in {"count", "record", "session"}
       /\ login.gen \in Nat /\ login.gen <= generation
       /\ login.at = "record" => (login.valid => login.gen > 0)
       /\ login.at = "session" => login.gen > 0
       /\ login.gen # generation => \A t \in DOMAIN sessionRows : ~Stale(t)

SessionsInv ==
    /\ aTime \in Nat /\ generation \in Nat /\ LoginInv
    /\ sessionRows = [t \in DOMAIN sessionRows |-> sessionRows[t]]
    /\ DOMAIN sessionRows \subseteq drawn
    /\ generation = 0 => DOMAIN sessionRows = {}
    /\ \A t \in DOMAIN sessionRows : SessionInv(sessionRows[t])
    /\ \A t, u \in DOMAIN sessionRows : Stale(t) /\ Stale(u) => t = u

LEMMA SessionsInitially == AuthInit => SessionsInv
<1> SUFFICES ASSUME AuthInit PROVE SessionsInv OBVIOUS
<1> QED BY DEF AuthInit, SessionsInv, LoginInv, NoSessions

\* Steps that leave the sessions and the credentials as they are.
LEMMA OtherStepKeeps ==
    ASSUME SessionsInv, UNCHANGED <<sessionRows, generation, drawn>>, aTime' \in Nat, LoginInv'
    PROVE  SessionsInv'
  BY DEF SessionsInv, SessionInv, Stale

LEMMA CommandKeeps ==
    ASSUME SessionsInv, ProvisionAccount \/ RecoverAccount PROVE SessionsInv'
<1>1. /\ DOMAIN sessionRows' = {} /\ sessionRows' = [t \in DOMAIN sessionRows' |-> sessionRows'[t]]
      /\ generation' \in Nat /\ generation' > generation
      /\ UNCHANGED <<aTime, login, drawn>>
  <2>1. CASE ProvisionAccount BY <2>1 DEF ProvisionAccount, SessionsInv
  <2>2. CASE RecoverAccount BY <2>2 DEF RecoverAccount, RecoverAccountCredentials, NoSessions, SessionsInv
  <2> QED BY <2>1, <2>2
<1>2. LoginInv' BY <1>1 DEF SessionsInv, LoginInv
<1> QED BY <1>1, <1>2 DEF SessionsInv

LEMMA LoginKeeps ==
    ASSUME SessionsInv,
           \/ \E good \in BOOLEAN : FindAccountByUsername(good)
           \/ CountRecentFailedLogins
           \/ RecordLoginAttempt
    PROVE  SessionsInv'
<1>1. UNCHANGED <<sessionRows, generation, drawn, aTime>>
  BY DEF FindAccountByUsername, CountRecentFailedLogins, RecordLoginAttempt, Set
<1>2. LoginInv'
  <2>1. CASE \E good \in BOOLEAN : FindAccountByUsername(good)
    BY <2>1, <1>1 DEF FindAccountByUsername, Set, NoLogin, SessionsInv, LoginInv
  <2>2. CASE CountRecentFailedLogins
    <3>1. /\ login.at = "count"
          /\ login' = IF Locked THEN NoLogin
                      ELSE [at |-> "record", gen |-> login.gen, valid |-> login.good /\ login.gen > 0]
      BY <2>2 DEF CountRecentFailedLogins, Set
    <3>2. CASE Locked BY <3>1, <3>2 DEF LoginInv
    <3>3. CASE ~Locked
      <4>1. login'.at = "record" /\ login'.gen = login.gen /\ (login'.valid => login.gen > 0) BY <3>1, <3>3
      <4> QED BY <1>1, <4>1, <3>1 DEF SessionsInv, LoginInv, Stale, NoLogin
    <3> QED BY <3>2, <3>3
  <2>3. CASE RecordLoginAttempt
    BY <2>3, <1>1 DEF RecordLoginAttempt, Set, LoginInv, NoLogin, SessionsInv, Stale
  <2> QED BY <2>1, <2>2, <2>3
<1> QED BY <1>1, <1>2, OtherStepKeeps DEF SessionsInv

LEMMA SessionCreateKeeps ==
    ASSUME SessionsInv, CreateSession PROVE SessionsInv'
<1>1. PICK t \in Tokens \ drawn :
        /\ drawn' = drawn \cup {t} /\ InsertSession(t)
        /\ login.at = "session" /\ login' = NoLogin /\ UNCHANGED <<aTime, generation>>
  BY DEF CreateSession, Set
<1>2. login # NoLogin BY <1>1 DEF NoLogin
<1>3. /\ login.gen \in Nat /\ login.gen <= generation /\ login.gen > 0
      /\ login.gen # generation => \A u \in DOMAIN sessionRows : ~Stale(u)
  BY <1>1, <1>2 DEF SessionsInv, LoginInv
<1>4. t \notin DOMAIN sessionRows BY <1>1 DEF SessionsInv
<1>5. /\ DOMAIN sessionRows' = DOMAIN sessionRows \cup {t} /\ sessionRows'[t] = NewSession
      /\ \A u \in DOMAIN sessionRows : sessionRows'[u] = sessionRows[u]
      /\ sessionRows' = [u \in DOMAIN sessionRows' |-> sessionRows'[u]]
  BY <1>1, <1>4 DEF InsertSession
<1>6. NewSession.gen = login.gen /\ SessionInv(NewSession)
  <2>1. /\ NewSession.gen = login.gen /\ NewSession.created = aTime /\ NewSession.seen = aTime
        /\ NewSession.expires = aTime + IdleTime /\ NewSession.absolute = aTime + AbsoluteTime
        /\ NewSession.late = (login.gen # generation)
        /\ NewSession = [created |-> NewSession.created, seen |-> NewSession.seen, expires |-> NewSession.expires,
                         absolute |-> NewSession.absolute, gen |-> NewSession.gen, late |-> NewSession.late]
    BY DEF NewSession
  <2>2. NewSession.gen # generation => NewSession.late BY <2>1
  <2> QED BY <2>1, <2>2, SessionsAssumption DEF SessionInv, SessionsInv
<1> QED BY <1>1, <1>5, <1>6, <1>3 DEF SessionsInv, LoginInv, SessionInv, Stale

\* A request with a session that is live puts off its end; the others end.
LEMMA SessionRequestKeeps ==
    ASSUME SessionsInv, NEW t \in Tokens, RequireSession(t) \/ DestroySession(t)
    PROVE  /\ SessionsInv'
           /\ \A u \in DOMAIN sessionRows \cap DOMAIN sessionRows' :
                sessionRows'[u].seen # sessionRows[u].seen => u = t /\ Live(t)
<1>1. /\ t \in DOMAIN sessionRows /\ login = NoLogin
      /\ UNCHANGED <<aTime, generation, login, drawn>>
      /\ \/ sessionRows' = Without(t)
         \/ Live(t) /\ sessionRows' = [sessionRows EXCEPT ![t] = Touched(sessionRows[t])]
  BY DEF RequireSession, DestroySession, FindSession
<1>2. CASE sessionRows' = Without(t)
  BY <1>2, <1>1 DEF Without, SessionsInv, SessionInv, LoginInv, Stale
<1>3. CASE Live(t) /\ sessionRows' = [sessionRows EXCEPT ![t] = Touched(sessionRows[t])]
  <2> DEFINE s == sessionRows[t]
             end == Min({aTime + IdleTime, s.absolute})
  <2>1. aTime + IdleTime \in Int /\ s.absolute \in Int /\ SessionInv(s)
    BY <1>1, SessionsAssumption DEF SessionsInv, SessionInv
  <2>2. end \in Int /\ end <= aTime + IdleTime
    <3> HIDE DEF s
    <3> QED BY <2>1 DEF Min
  <2> HIDE DEF end
  <2>3. Touched(s) = [s EXCEPT !.seen = aTime, !.expires = end] BY DEF Touched, end
  <2>4. SessionInv(Touched(s)) /\ Touched(s).gen = s.gen
    <3> HIDE DEF s
    <3>1. aTime \in Int BY DEF SessionsInv
    <3> QED BY <2>1, <2>2, <2>3, <3>1 DEF SessionInv
  <2>5. /\ DOMAIN sessionRows' = DOMAIN sessionRows /\ sessionRows'[t] = Touched(s)
        /\ \A u \in DOMAIN sessionRows : u # t => sessionRows'[u] = sessionRows[u]
        /\ sessionRows' = [u \in DOMAIN sessionRows' |-> sessionRows'[u]]
    BY <1>1, <1>3
  <2>6. \A u \in DOMAIN sessionRows' : SessionInv(sessionRows[u])' /\ sessionRows'[u].gen = sessionRows[u].gen
    BY <1>1, <2>4, <2>5, SMTT(20) DEF SessionsInv, SessionInv
  <2>7. SessionsInv' BY <1>1, <2>5, <2>6 DEF SessionsInv, LoginInv, Stale
  <2> QED BY <1>3, <2>5, <2>7
<1> QED BY <1>1, <1>2, <1>3

LEMMA SessionsStep == SessionsInv /\ [AuthNext]_authVars => SessionsInv'
<1> SUFFICES ASSUME SessionsInv, [AuthNext]_authVars PROVE SessionsInv' OBVIOUS
<1>1. CASE AuthTick BY <1>1, OtherStepKeeps DEF AuthTick, SessionsInv, LoginInv, Stale
<1>2. CASE UNCHANGED authVars BY <1>2, OtherStepKeeps DEF authVars, SessionsInv, LoginInv, Stale
<1> QED BY <1>1, <1>2, CommandKeeps, LoginKeeps, SessionCreateKeeps, SessionRequestKeeps DEF AuthNext

LEMMA ServedIsCurrent ==
    SessionsInv /\ [AuthNext]_authVars =>
        [/\ \A t \in DOMAIN sessionRows \cap DOMAIN sessionRows' :
               sessionRows'[t].seen # sessionRows[t].seen =>
                   /\ sessionRows[t].gen = generation \/ sessionRows[t].late
                   /\ aTime - sessionRows[t].seen < IdleTime
                   /\ aTime - sessionRows[t].created < AbsoluteTime
         /\ Cardinality({t \in DOMAIN sessionRows : sessionRows[t].gen # generation}) <= 1]_authVars
<1> SUFFICES ASSUME SessionsInv, AuthNext
             PROVE  /\ \A t \in DOMAIN sessionRows \cap DOMAIN sessionRows' :
                         sessionRows'[t].seen # sessionRows[t].seen =>
                             /\ sessionRows[t].gen = generation \/ sessionRows[t].late
                             /\ aTime - sessionRows[t].seen < IdleTime
                             /\ aTime - sessionRows[t].created < AbsoluteTime
                    /\ Cardinality({t \in DOMAIN sessionRows : sessionRows[t].gen # generation}) <= 1
  BY DEF authVars
<1>1. ASSUME NEW t \in DOMAIN sessionRows \cap DOMAIN sessionRows', sessionRows'[t].seen # sessionRows[t].seen
      PROVE  Live(t)
  <2>1. ASSUME UNCHANGED sessionRows PROVE FALSE BY <1>1, <2>1
  <2>2. ASSUME RecoverAccount PROVE FALSE BY <1>1, <2>2 DEF RecoverAccount, RecoverAccountCredentials, NoSessions
  <2>3. ASSUME CreateSession PROVE FALSE BY <1>1, <2>3 DEF CreateSession, InsertSession, SessionsInv
  <2>4. ASSUME NEW u \in Tokens, RequireSession(u) \/ DestroySession(u) PROVE Live(t)
    BY <1>1, <2>4, SessionRequestKeeps
  <2> QED BY <2>1, <2>2, <2>3, <2>4 DEF AuthNext, AuthTick, ProvisionAccount, FindAccountByUsername,
    CountRecentFailedLogins, RecordLoginAttempt
<1>2. ASSUME NEW t \in DOMAIN sessionRows, Live(t)
      PROVE  /\ sessionRows[t].gen = generation \/ sessionRows[t].late
             /\ aTime - sessionRows[t].seen < IdleTime
             /\ aTime - sessionRows[t].created < AbsoluteTime
  BY <1>2, SessionsAssumption DEF SessionsInv, SessionInv, Live
<1>3. Cardinality({t \in DOMAIN sessionRows : sessionRows[t].gen # generation}) <= 1
  <2> DEFINE S == {t \in DOMAIN sessionRows : sessionRows[t].gen # generation}
  <2>1. \A t, u \in S : t = u BY DEF SessionsInv, Stale
  <2>2. S = {} \/ \E t : S = {t}
    <3> HIDE DEF S
    <3> QED BY <2>1
  <2> HIDE DEF S
  <2>3. Cardinality(S) = 0 \/ Cardinality(S) = 1 BY <2>2, FS_EmptySet, FS_Singleton
  <2>4. Cardinality(S) <= 1 BY <2>3
  <2> QED BY <2>4 DEF S
<1> QED BY <1>1, <1>2, <1>3

\* A request is served only by a session within its idle and its absolute
\* limit, and of the credentials an account had before at most one session is
\* left, by the login its recovery fell into; for any tokens, limits, logins
\* and recoveries.
THEOREM SessionsCurrent == AuthSpec => ServedSessionIsCurrent
<1>1. AuthSpec => []SessionsInv BY SessionsInitially, SessionsStep, PTL DEF AuthSpec
<1> QED BY <1>1, ServedIsCurrent, PTL DEF AuthSpec, ServedSessionIsCurrent

(* The collector: one cycle after the other, with crashes and cycles given
   up. KeyKnown says that the active incident is the one the remembered
   samples name last; OutageInv what the samples of a monitor with one
   reason say of its outage; DeliveriesFollow counts what was announced. *)

LEMMA HasLeast == ASSUME NEW T, T \subseteq Nat, T # {} PROVE \E x \in T : \A y \in T : x <= y
<1> DEFINE R == OpToRel(<, Nat)
<1>1. IsWellFoundedOn(R, Nat) BY NatLessThanWellFounded
<1>2. \A x, y \in Nat : y < x => <<y, x>> \in R BY DEF OpToRel
<1> HIDE DEF R
<1>3. PICK x \in T : \A y \in T : ~(<<y, x>> \in R) BY <1>1, WFMin
<1>4. x \in Nat /\ \A y \in T : y \in Nat /\ ~(y < x) BY <1>2, <1>3
<1>5. \A y \in T : x <= y BY <1>4
<1> QED BY <1>5

LEMMA HasGreatest ==
    ASSUME NEW n \in Nat, NEW T, T \subseteq 0..n, T # {}
    PROVE  Max(T) \in T /\ \A y \in T : y <= Max(T)
<1> DEFINE U == {n - y : y \in T}
<1>0. \A y \in T : y \in 0..n /\ n - y \in Nat OBVIOUS
<1>1. U \subseteq Nat /\ U # {} BY <1>0
<1>2. PICK u \in U : \A v \in U : u <= v BY <1>1, HasLeast
<1>3. PICK x \in T : u = n - x BY <1>2
<1>4. \A y \in T : n - x <= n - y BY <1>2, <1>3
<1>5. \A y \in T : x >= y BY <1>0, <1>4
<1>6. \E m \in T : \A y \in T : m >= y BY <1>5
<1>7. Max(T) \in T /\ \A y \in T : Max(T) >= y BY <1>6 DEF Max
<1> QED BY <1>0, <1>7

\* Sequences, known by their positions.
IsList(s) == Len(s) \in Nat /\ s = [k \in 1..Len(s) |-> s[k]]

IncidentRow(r) ==
    r = [key |-> r.key, level |-> r.level, state |-> r.state] /\ r.state \in {"open", "acknowledged", "recovered"}
Evaluations == {"reconcile", "upsert", "queue"}
LastLevel == EffectiveLevel(history, Len(history))
LastName == history[Max(NamedAt)].key
Announces == ev.transition # "none"

\* A cycle works on the sample it has just remembered.
CycleTypes ==
    /\ IsList(history) /\ IsList(incidents) /\ \A i \in DOMAIN incidents : IncidentRow(incidents[i])
    /\ pc \in {"idle", "claim", "send"} \cup Evaluations
    /\ ev = [level |-> ev.level, transition |-> ev.transition, key |-> ev.key, old |-> ev.old,
             from |-> ev.from, code |-> ev.code, inc |-> ev.inc]
    /\ skipped \in BOOLEAN /\ nameless \in BOOLEAN /\ crashes \in Nat /\ busy \in Nat
    /\ acknowledging \in {0} \cup DOMAIN incidents /\ reopened \subseteq DOMAIN incidents
    /\ pc \in Evaluations =>
          /\ recorded = ev.level /\ LastLevel = ev.level
          /\ ev.transition = "recovered" => ev.level = "healthy" /\ ev.from \in AlertLevels
          /\ ev.transition \notin {"none", "recovered"} => ev.level \in AlertLevels
          /\ ev.level \in AlertLevels /\ NamedAt # {} => ActiveKey = LastName

\* The open incident is the one whose key the history names last.
KeyKnown ==
    /\ pc \notin {"reconcile", "upsert"} /\ ~skipped /\ LastLevel \in AlertLevels /\ NamedAt # {} =>
          \A i \in DOMAIN incidents : Open(i) => incidents[i].key = LastName
    /\ pc \in {"reconcile", "upsert"} /\ ev.transition = "recovered" /\ ~skipped /\ ~nameless =>
          \A i \in DOMAIN incidents : Open(i) => incidents[i].key = ev.old
    /\ pc = "upsert" => \A i \in DOMAIN incidents : Open(i) =>
          /\ ev.level \in AlertLevels => incidents[i].key = ActiveKey
          /\ ev.level = "healthy" => ev.transition = "recovered"

\* It is the latest of its key: upsertIncident takes it, and never one of that
\* key that an acknowledgement has made active again.
OpenIsLatest ==
    \A i, j \in DOMAIN incidents : Open(i) /\ incidents[j].key = incidents[i].key => j <= i

CollectorInv == CycleTypes /\ KeyKnown /\ OpenIsLatest /\ OneActiveIncident /\ IncidentMatchesLevel

\* The samples of a monitor with one reason, and what was made of them.
ReasonOf(m) ==
    IF m = "cron" THEN "cron_failure" ELSE IF m = "app_process" THEN "process_unavailable" ELSE "app_unreachable"
ItemsAreTrue ==
    mon \in OneReason => \A k \in DOMAIN history :
        /\ history[k].level \in {"healthy", "critical"} /\ history[k].eff \in {"unknown", "healthy", "critical"}
        /\ history[k].clear = (history[k].level = "healthy")
        /\ k > 1 /\ history[k - 1].eff \in AlertLevels /\ history[k].eff \notin AlertLevels =>
              IsHealthy(history[k - 1]) /\ IsHealthy(history[k])

\* The name of such an outage is its reason.
NamesAreTrue ==
    mon \in OneReason =>
        /\ LastLevel \in AlertLevels /\ NamedAt # {} => LastName = ReasonOf(mon)
        /\ ~nameless => \A i \in DOMAIN incidents : incidents[i].key = ReasonOf(mon)
        /\ pc \in {"reconcile", "upsert"} =>
              /\ ~nameless /\ ev.level \in AlertLevels => ActiveKey = ReasonOf(mon)
              /\ ~nameless /\ ev.transition = "recovered" => ev.old = ReasonOf(mon)
              /\ ev.transition = "recovered" => Recovered(history)
              /\ ev.from \in AlertLevels /\ ev.level \in AlertLevels => ~Announces
              /\ ev.level \in AlertLevels /\ ~Announces => ev.from \in AlertLevels
              /\ ev.from \in AlertLevels /\ ev.level \notin AlertLevels => ev.transition = "recovered"

\* As long as nothing fails an incident is active while the level alerts, and
\* none is open else.
ActiveWhile(level) ==
    /\ level \in AlertLevels => \E i \in DOMAIN incidents : Active(i)
    /\ \A i \in DOMAIN incidents : Open(i) => level \in AlertLevels
ActiveWhileAlerting ==
    Undisturbed =>
        /\ ~skipped
        /\ pc \in {"reconcile", "upsert"} => ActiveWhile(ev.from)
        /\ pc \notin {"reconcile", "upsert"} => ActiveWhile(LastLevel)

OutageInv == ItemsAreTrue /\ NamesAreTrue /\ ActiveWhileAlerting

\* What was announced.
Told(i) == \E d \in DOMAIN deliveries : deliveries[d].inc = i
RecoveryOf(i) == {d \in DOMAIN deliveries : deliveries[d].inc = i /\ deliveries[d].kind = "recovered"}
Announcing(i) == pc = "queue" /\ Announces /\ ev.inc = i
DeliveryRow(r) ==
    /\ r = [inc |-> r.inc, kind |-> r.kind, state |-> r.state, attempts |-> r.attempts, due |-> r.due, at |-> r.at]
    /\ r.inc \in DOMAIN incidents /\ r.at \in Nat
DeliveriesFollow ==
    /\ IsList(deliveries) /\ now \in Nat
    /\ \A d \in DOMAIN deliveries : DeliveryRow(deliveries[d])
    /\ pc = "queue" /\ Announces => ev.inc \in DOMAIN incidents
    /\ Undisturbed => \A i \in DOMAIN incidents :
          /\ Open(i) => RecoveryOf(i) = {}
          /\ Open(i) /\ Recipients # {} => Told(i) \/ Announcing(i)
          /\ ~Open(i) => \/ Cardinality(RecoveryOf(i)) = Cardinality(Recipients)
                         \/ Announcing(i) /\ RecoveryOf(i) = {} /\ ev.transition = "recovered"
          /\ Announcing(i) /\ ev.transition = "recovered" => ~Open(i)
LEMMA ListOf ==
    ASSUME NEW n \in Nat, NEW f, f = [k \in 1..n |-> f[k]]
    PROVE  IsList(f) /\ Len(f) = n /\ DOMAIN f = 1..n
<1>1. f \in Seq({f[k] : k \in 1..n}) /\ DOMAIN f = 1..n OBVIOUS
<1>2. Len(f) = n BY <1>1
<1> QED BY <1>1, <1>2 DEF IsList

LEMMA ListIs == ASSUME NEW s, IsList(s) PROVE s \in Seq({s[k] : k \in 1..Len(s)}) /\ DOMAIN s = 1..Len(s) /\ Len(s) \in Nat
  BY DEF IsList

LEMMA ListIn ==
    ASSUME NEW s, IsList(s), NEW S, \A k \in 1..Len(s) : s[k] \in S
    PROVE  s \in Seq(S) /\ DOMAIN s = 1..Len(s) /\ Len(s) \in Nat
  BY DEF IsList

LEMMA SeqIsList == ASSUME NEW S, NEW s \in Seq(S) PROVE IsList(s) /\ DOMAIN s = 1..Len(s)
  BY DEF IsList

LEMMA Appended ==
    ASSUME NEW s, IsList(s), NEW x
    PROVE  /\ IsList(Append(s, x)) /\ Len(Append(s, x)) = Len(s) + 1 /\ DOMAIN Append(s, x) = 1..(Len(s) + 1)
           /\ Append(s, x)[Len(s) + 1] = x /\ \A k \in 1..Len(s) : Append(s, x)[k] = s[k]
<1> DEFINE S == {s[k] : k \in 1..Len(s)} \cup {x}
<1>1. s \in Seq(S) /\ x \in S /\ Len(s) \in Nat BY ListIn
<1> HIDE DEF S
<1>2. Append(s, x) \in Seq(S) /\ Len(Append(s, x)) = Len(s) + 1 BY <1>1
<1>3. Append(s, x)[Len(s) + 1] = x /\ \A k \in 1..Len(s) : Append(s, x)[k] = s[k] BY <1>1
<1> QED BY <1>1, <1>2, <1>3, SeqIsList

LEMMA TailIs ==
    ASSUME NEW s, IsList(s), Len(s) > 0
    PROVE  /\ IsList(Tail(s)) /\ Len(Tail(s)) = Len(s) - 1 /\ DOMAIN Tail(s) = 1..(Len(s) - 1)
           /\ \A k \in 1..(Len(s) - 1) : Tail(s)[k] = s[k + 1]
<1> DEFINE S == {s[k] : k \in 1..Len(s)}
<1>1. s \in Seq(S) /\ Len(s) \in Nat /\ s # <<>> BY ListIs
<1> HIDE DEF S
<1>2. Tail(s) \in Seq(S) /\ Len(Tail(s)) = Len(s) - 1 BY <1>1
<1>3. \A k \in 1..(Len(s) - 1) : Tail(s)[k] = s[k + 1] BY <1>1
<1> QED BY <1>1, <1>2, <1>3, SeqIsList

LEMMA Joined ==
    ASSUME NEW s, IsList(s), NEW t, IsList(t)
    PROVE  /\ IsList(s \o t) /\ Len(s \o t) = Len(s) + Len(t) /\ DOMAIN (s \o t) = 1..(Len(s) + Len(t))
           /\ \A k \in 1..Len(s) : (s \o t)[k] = s[k]
           /\ \A k \in (Len(s) + 1)..(Len(s) + Len(t)) : (s \o t)[k] = t[k - Len(s)]
<1> DEFINE S == {s[k] : k \in 1..Len(s)} \cup {t[k] : k \in 1..Len(t)}
<1>1. s \in Seq(S) /\ t \in Seq(S) /\ Len(s) \in Nat /\ Len(t) \in Nat BY ListIn
<1> HIDE DEF S
<1>2. s \o t \in Seq(S) /\ Len(s \o t) = Len(s) + Len(t) BY <1>1
<1>3. /\ \A k \in 1..Len(s) : (s \o t)[k] = s[k]
      /\ \A k \in (Len(s) + 1)..(Len(s) + Len(t)) : (s \o t)[k] = t[k - Len(s)]
  BY <1>1
<1> QED BY <1>1, <1>2, <1>3, SeqIsList

\* Two samples at the end are what they are counted for.
LEMMA TrailingTwo ==
    ASSUME NEW s, IsList(s), Len(s) > 0, NEW P
    PROVE  /\ Trailing(s, P) >= 2 <=> (Len(s) > 1 /\ Len(s) \in P /\ Len(s) - 1 \in P)
           /\ Trailing(s, P) >= 1 <=> Len(s) \in P
           /\ Trailing(s, P) \in Nat
<1> DEFINE T == {0} \cup (DOMAIN s \ P)
<1>1. DOMAIN s = 1..Len(s) /\ Len(s) \in Nat BY ListIs
<1>2. T \subseteq 0..Len(s) /\ T # {} BY <1>1
<1>3. Max(T) \in T /\ \A y \in T : y <= Max(T) BY <1>1, <1>2, HasGreatest
<1>4. Max(T) \in 0..Len(s) /\ Trailing(s, P) = Len(s) - Max(T) BY <1>2, <1>3 DEF Trailing
<1>5. \A y \in 1..Len(s) : y \notin P => y <= Max(T) BY <1>1, <1>3
<1>6. Max(T) = 0 \/ (Max(T) \in 1..Len(s) /\ Max(T) \notin P) BY <1>1, <1>3
<1> HIDE DEF T
<1> QED BY <1>1, <1>4, <1>5, <1>6
LEMMA EvaluationShape ==
    ASSUME NEW m, NEW h, NEW s
    PROVE  LET e == EvaluateMonitor(m, h, s)
           IN  /\ e.transition = "recovered" => e.level = "healthy" /\ EffectiveLevel(h, Len(h)) \in AlertLevels
               /\ e.transition \notin {"none", "recovered"} => e.level \in AlertLevels
<1>1. CASE m \in HostMonitors
  BY <1>1 DEF EvaluateMonitor, EvaluateHost, InfrastructureRecovery, LevelTransition
<1>2. CASE m \notin HostMonitors BY <1>2 DEF EvaluateMonitor, EvaluateApplication, LevelTransition
<1> QED BY <1>1, <1>2

\* What a history has after one more sample.
Pushed(h, g, item) ==
    \E d \in {0, 1} :
        /\ IsList(h) /\ IsList(g) /\ Len(g) = Len(h) + 1 - d /\ Len(g) > 0
        /\ Len(h) > 0 => Len(g) > 1
        /\ g[Len(g)] = item /\ \A k \in 1..(Len(g) - 1) : g[k] = h[k + d]

LEMMA PushedSample ==
    ASSUME IsList(history), NEW item
    PROVE  Pushed(history, IF Len(Append(history, item)) > HistoryLimit THEN Tail(Append(history, item))
                           ELSE Append(history, item), item)
<1> DEFINE longer == Append(history, item)
<1>1. /\ IsList(longer) /\ Len(longer) = Len(history) + 1 /\ Len(history) \in Nat
      /\ longer[Len(history) + 1] = item /\ \A k \in 1..Len(history) : longer[k] = history[k]
  BY Appended, ListIs
<1>2. HistoryLimit \in Nat /\ HistoryLimit > 1 BY CollectorAssumption
<1> HIDE DEF longer
<1>3. CASE Len(longer) > HistoryLimit
  <2>2. Len(history) > 1 BY <1>1, <1>2, <1>3
  <2>4. Pushed(history, Tail(longer), item) BY <1>1, TailIs, <2>2 DEF Pushed
  <2> QED BY <1>3, <2>4 DEF longer
<1>4. CASE ~(Len(longer) > HistoryLimit)
  <2>1. Pushed(history, longer, item) BY <1>1 DEF Pushed
  <2> QED BY <1>4, <2>1 DEF longer
<1> QED BY <1>3, <1>4

LEMMA NamesIn ==
    ASSUME NEW h, IsList(h), NEW N, N = {k \in DOMAIN h : h[k].key # Awaiting}, N # {}
    PROVE  Max(N) \in 1..Len(h) /\ h[Max(N)].key # Awaiting /\ \A k \in 1..Len(h) : h[k].key # Awaiting => k <= Max(N)
<1>1. DOMAIN h = 1..Len(h) /\ Len(h) \in Nat BY ListIs
<1>2. N \subseteq 0..Len(h) BY <1>1
<1> QED BY <1>1, <1>2, HasGreatest

LEMMA NameAfter ==
    ASSUME NEW h, NEW g, NEW item, Pushed(h, g, item),
           NEW N, N = {k \in DOMAIN h : h[k].key # Awaiting}, NEW M, M = {k \in DOMAIN g : g[k].key # Awaiting}
    PROVE  /\ item.key # Awaiting => M # {} /\ g[Max(M)].key = item.key
           /\ item.key = Awaiting /\ M # {} => N # {} /\ g[Max(M)].key = h[Max(N)].key
<1>1. PICK d \in {0, 1} :
        /\ IsList(h) /\ IsList(g) /\ Len(g) = Len(h) + 1 - d /\ Len(g) > 0
        /\ g[Len(g)] = item /\ \A k \in 1..(Len(g) - 1) : g[k] = h[k + d]
  BY DEF Pushed
<1>2. Len(h) \in Nat /\ Len(g) \in Nat /\ DOMAIN h = 1..Len(h) /\ DOMAIN g = 1..Len(g) BY <1>1, ListIs
<1>3. M # {} =>
        Max(M) \in 1..Len(g) /\ g[Max(M)].key # Awaiting /\ \A k \in 1..Len(g) : g[k].key # Awaiting => k <= Max(M)
  BY <1>1, NamesIn
<1>4. N # {} =>
        Max(N) \in 1..Len(h) /\ h[Max(N)].key # Awaiting /\ \A k \in 1..Len(h) : h[k].key # Awaiting => k <= Max(N)
  BY <1>1, NamesIn
<1>5. ASSUME item.key # Awaiting PROVE M # {} /\ g[Max(M)].key = item.key BY <1>1, <1>2, <1>5, <1>3
<1>6. ASSUME item.key = Awaiting, M # {} PROVE N # {} /\ g[Max(M)].key = h[Max(N)].key
  <2>1. Max(M) \in 1..(Len(g) - 1) BY <1>1, <1>2, <1>3, <1>6
  <2> DEFINE top == Max(M)
             first == Max(N)
  <2>0. top \in Int /\ d \in Int /\ Len(h) \in Int /\ Len(g) = Len(h) + 1 - d BY <1>1, <1>2, <2>1
  <2>b. top + d \in 1..Len(h) BY <1>1, <2>0, <2>1
  <2>2. top + d \in N BY <1>2, <1>1, <1>3, <1>6, <2>1, <2>b
  <2>3. Max(N) \in 1..Len(h) /\ Max(M) + d <= Max(N) BY <1>2, <1>4, <2>2
  <2>c. first - d \in 1..(Len(g) - 1) BY <1>1, <2>0, <2>1, <2>3
  <2>d. g[first - d] = h[(first - d) + d] /\ (first - d) + d = first BY <1>1, <2>0, <2>3, <2>c, SMTT(20)
  <2>4. Max(N) - d \in 1..(Len(g) - 1) /\ g[Max(N) - d] = h[Max(N)] BY <2>c, <2>d
  <2>5. Max(N) - d <= Max(M) BY <1>2, <1>3, <1>4, <1>6, <2>2, <2>4
  <2>6. Max(M) = Max(N) - d BY <1>2, <2>1, <2>3, <2>5
  <2> QED BY <2>2, <2>4, <2>6
<1> QED BY <1>5, <1>6
LEMMA SameHistory == ASSUME UNCHANGED history PROVE NamedAt' = NamedAt /\ LastLevel' = LastLevel /\ LastName' = LastName
  BY DEF NamedAt, LastLevel, LastName, EffectiveLevel

LEMMA CollectorStart == CollectorInit => CollectorInv
<1> SUFFICES ASSUME CollectorInit PROVE CollectorInv OBVIOUS
<1>1. <<>> \in Seq({}) OBVIOUS
<1>2. IsList(<<>>) /\ DOMAIN <<>> = 1..Len(<<>>) /\ Len(<<>>) = 0 BY <1>1, SeqIsList
<1>3. history = <<>> /\ incidents = <<>> /\ DOMAIN history = {} /\ DOMAIN incidents = {} /\ IsList(history) /\ IsList(incidents)
  BY <1>2 DEF CollectorInit
<1>4. /\ pc = "idle" /\ crashes = 0 /\ busy = 0 /\ skipped = FALSE /\ nameless = FALSE
      /\ acknowledging = 0 /\ reopened = {}
  BY DEF CollectorInit
<1>5. ev = [level |-> ev.level, transition |-> ev.transition, key |-> ev.key, old |-> ev.old,
            from |-> ev.from, code |-> ev.code, inc |-> ev.inc]
  BY DEF CollectorInit, NoEval
<1>6. CycleTypes BY <1>3, <1>4, <1>5 DEF CycleTypes, Evaluations
<1> QED
  BY <1>6, <1>3, <1>4 DEF CollectorInv, KeyKnown, OpenIsLatest, OneActiveIncident,
    IncidentMatchesLevel

\* What remember makes of a sample and its evaluation.
RememberedAs(s, e, item) ==
    /\ Pushed(history, history', item)
    /\ item = [level |-> s.level, code |-> s.code, met |-> s.met, eff |-> e.level, clear |-> e.clear, key |-> e.key]
    /\ ev' = [level |-> e.level, transition |-> e.transition, key |-> e.key,
              old |-> IF NamedAt = {} THEN e.key ELSE LastName, from |-> LastLevel, code |-> s.code, inc |-> 0]
    /\ recorded' = e.level
    /\ nameless' = (nameless \/ (NamedAt = {} /\ (e.key = Awaiting \/ e.transition = "recovered")))
    /\ LastLevel' = e.level
    /\ e.key # Awaiting => NamedAt' # {} /\ LastName' = e.key
    /\ e.key = Awaiting /\ NamedAt' # {} => NamedAt # {} /\ LastName' = LastName

LEMMA Remembered ==
    ASSUME CollectorInv, Observe
    PROVE  \E s \in Samples(mon) : \E item : RememberedAs(s, EvaluateMonitor(mon, history, s), item)
<1>1. PICK s \in Samples(mon) : Probe(s) /\ Remember(s) BY DEF Observe
<1> DEFINE e == EvaluateMonitor(mon, history, s)
           item == [level |-> s.level, code |-> s.code, met |-> s.met, eff |-> e.level, clear |-> e.clear, key |-> e.key]
<1>2. Pushed(history, history', item) BY <1>1, PushedSample DEF Remember, CollectorInv, CycleTypes
<1>3. LastLevel' = e.level BY <1>2, ListIs DEF Pushed, LastLevel, EffectiveLevel
<1>4. /\ e.key # Awaiting => NamedAt' # {} /\ LastName' = e.key
      /\ e.key = Awaiting /\ NamedAt' # {} => NamedAt # {} /\ LastName' = LastName
  <2>1. item.key = e.key OBVIOUS
  <2> HIDE DEF item
  <2> QED BY <1>2, <2>1, NameAfter DEF NamedAt, LastName
<1>5. /\ ev' = [level |-> e.level, transition |-> e.transition, key |-> e.key,
                old |-> IF NamedAt = {} THEN e.key ELSE LastName, from |-> LastLevel, code |-> s.code, inc |-> 0]
      /\ recorded' = e.level
      /\ nameless' = (nameless \/ (NamedAt = {} /\ (e.key = Awaiting \/ e.transition = "recovered")))
  BY <1>1 DEF Remember, PreviousKey, LastName, LastLevel
<1> HIDE DEF e
<1>6. RememberedAs(s, e, item) BY <1>2, <1>3, <1>4, <1>5 DEF RememberedAs
<1> QED BY <1>6 DEF e

LEMMA ObserveKeeps == CollectorInv /\ Observe => CollectorInv'
<1> SUFFICES ASSUME CollectorInv, Observe PROVE CollectorInv' OBVIOUS
<1>0. PICK s \in Samples(mon) : \E item : RememberedAs(s, EvaluateMonitor(mon, history, s), item) BY Remembered
<1> DEFINE e == EvaluateMonitor(mon, history, s)
<1>2. /\ e.transition = "recovered" => e.level = "healthy" /\ LastLevel \in AlertLevels
      /\ e.transition \notin {"none", "recovered"} => e.level \in AlertLevels
  BY EvaluationShape DEF LastLevel
<1>3. /\ ev' = [level |-> e.level, transition |-> e.transition, key |-> e.key,
                old |-> IF NamedAt = {} THEN e.key ELSE LastName, from |-> LastLevel, code |-> s.code, inc |-> 0]
      /\ recorded' = e.level
      /\ nameless' = (nameless \/ (NamedAt = {} /\ (e.key = Awaiting \/ e.transition = "recovered")))
      /\ LastLevel' = e.level
      /\ e.key # Awaiting => NamedAt' # {} /\ LastName' = e.key
      /\ e.key = Awaiting /\ NamedAt' # {} => NamedAt # {} /\ LastName' = LastName
      /\ IsList(history')
  BY <1>0 DEF RememberedAs, Pushed
<1> HIDE DEF e
<1>4. pc = "idle" /\ pc' = "reconcile" /\ UNCHANGED <<incidents, crashes, busy, skipped, acknowledging, reopened>>
  BY DEF Observe
<1> QED
  BY <1>4, <1>2, <1>3 DEF CollectorInv, IncidentMatchesLevel, OpenIsLatest, OneActiveIncident, Open,
    Active, CycleTypes, KeyKnown, Evaluations, ActiveKey
LEMMA Closed ==
    ASSUME CycleTypes, NEW closed, Close(closed)
    PROVE  /\ IsList(incidents') /\ DOMAIN incidents' = DOMAIN incidents
           /\ \A i \in DOMAIN incidents :
                /\ IncidentRow(incidents'[i])
                /\ incidents'[i].key = incidents[i].key /\ incidents'[i].level = incidents[i].level
                /\ incidents'[i].state = IF i \in closed THEN "recovered" ELSE incidents[i].state
<1>1. IsList(incidents) /\ \A i \in DOMAIN incidents : IncidentRow(incidents[i]) BY DEF CycleTypes
<1>2. Len(incidents) \in Nat /\ DOMAIN incidents = 1..Len(incidents) BY <1>1, ListIs
<1>3. incidents' = [i \in 1..Len(incidents) |->
                    IF i \in closed THEN [incidents[i] EXCEPT !.state = "recovered"] ELSE incidents[i]]
  BY <1>2 DEF Close
<1>6. ASSUME NEW i \in DOMAIN incidents
      PROVE  /\ IncidentRow(incidents'[i])
             /\ incidents'[i].key = incidents[i].key /\ incidents'[i].level = incidents[i].level
             /\ incidents'[i].state = IF i \in closed THEN "recovered" ELSE incidents[i].state
  BY <1>1, <1>2, <1>3, <1>6 DEF IncidentRow
<1> QED BY <1>2, <1>3, ListOf, <1>6

\* What upsertIncident leaves: the latest active row of the key, or a new one.
UpsertedAs(id, key, level, state) ==
    /\ ev' = [ev EXCEPT !.inc = id]
    /\ IsList(incidents') /\ DOMAIN incidents' = DOMAIN incidents \cup {id}
    /\ incidents'[id] = [key |-> key, level |-> level, state |-> state]
    /\ \A i \in DOMAIN incidents : i # id => incidents'[i] = incidents[i]
    /\ \/ /\ id \in DOMAIN incidents /\ incidents[id].key = key /\ Active(id)
          /\ \A i \in DOMAIN incidents : incidents[i].key = key /\ Active(i) => i <= id
       \/ /\ id \notin DOMAIN incidents /\ \A i \in DOMAIN incidents : i <= id
          /\ \A i \in DOMAIN incidents : incidents[i].key = key => ~Active(i)

LEMMA Upserted ==
    ASSUME CycleTypes, NEW key, NEW level, NEW state, UpsertIncident(key, level, state)
    PROVE  \E id : UpsertedAs(id, key, level, state)
<1> DEFINE active == {i \in DOMAIN incidents : incidents[i].key = key /\ Active(i)}
           id == IF active # {} THEN Max(active) ELSE Len(incidents) + 1
           row == [key |-> key, level |-> level, state |-> state]
<1>1. /\ incidents' = IF active # {} THEN [incidents EXCEPT ![id] = row] ELSE Append(incidents, row)
      /\ ev' = [ev EXCEPT !.inc = id]
  BY DEF UpsertIncident
<1>2. IsList(incidents) /\ Len(incidents) \in Nat /\ DOMAIN incidents = 1..Len(incidents) BY ListIs DEF CycleTypes
<1>3. CASE active # {}
  <2>1. active \subseteq 0..Len(incidents) BY <1>2
  <2>2. id \in active /\ \A i \in active : i <= id BY <1>2, <1>3, <2>1, HasGreatest
  <2> HIDE DEF id, row
  <2> QED BY <1>1, <2>2, <1>2, <1>3, ListOf DEF row, UpsertedAs
<1>4. CASE active = {}
  <2>1. id = Len(incidents) + 1 /\ incidents' = Append(incidents, row) BY <1>1, <1>4
  <2>2. \A i \in DOMAIN incidents : incidents[i].key = key => ~Active(i) BY <1>4
  <2> HIDE DEF id, row, active
  <2>3. /\ IsList(incidents') /\ DOMAIN incidents' = 1..(Len(incidents) + 1)
        /\ incidents'[Len(incidents) + 1] = row /\ \A k \in 1..Len(incidents) : incidents'[k] = incidents[k]
    BY <1>2, <2>1, Appended
  <2>4. /\ DOMAIN incidents' = DOMAIN incidents \cup {id} /\ id \notin DOMAIN incidents
        /\ \A i \in DOMAIN incidents : i <= id
    BY <1>2, <2>1, <2>3
  <2> QED BY <1>1, <1>2, <2>1, <2>2, <2>3, <2>4 DEF row, UpsertedAs
<1> QED BY <1>3, <1>4

\* What a step leaves of a cycle that has not evaluated anything.
LEMMA BetweenCycles ==
    ASSUME CollectorInv, pc' \notin Evaluations, pc' \in {"idle", "claim", "send"},
           UNCHANGED <<history, incidents, recorded, nameless, acknowledging, reopened>>,
           skipped' \in BOOLEAN, crashes' \in Nat, busy' \in Nat,
           skipped' = (skipped \/ pc = "reconcile") \/ (skipped' = skipped /\ pc \notin {"reconcile", "upsert"}),
           ev' = [level |-> ev.level, transition |-> ev.transition, key |-> ev.key, old |-> ev.old,
                  from |-> ev.from, code |-> ev.code, inc |-> ev.inc]'
    PROVE  CollectorInv'
<1> QED
  BY SameHistory DEF CollectorInv, OpenIsLatest, OneActiveIncident, IncidentMatchesLevel, Open,
    Active, Evaluations, CycleTypes, KeyKnown

LEMMA ReconcileKeeps == CollectorInv /\ Reconcile => CollectorInv'
<1> SUFFICES ASSUME CollectorInv, Reconcile PROVE CollectorInv' OBVIOUS
<1>1. /\ pc = "reconcile" /\ pc' = "upsert"
      /\ UNCHANGED <<history, ev, recorded, crashes, busy, nameless, acknowledging, reopened>>
      /\ ShouldReconcile => Close({i \in Others : Active(i)}) /\ skipped' = FALSE
      /\ ~ShouldReconcile => UNCHANGED <<incidents, skipped>>
  BY DEF Reconcile, ReconcileIncidents, memory
<1>2. /\ NamedAt' = NamedAt /\ LastLevel' = LastLevel /\ LastName' = LastName
      /\ ActiveKey' = ActiveKey
  BY <1>1, SameHistory DEF ActiveKey
<1>3. /\ IsList(incidents') /\ DOMAIN incidents' = DOMAIN incidents
      /\ \A i \in DOMAIN incidents :
            /\ IncidentRow(incidents'[i]) /\ incidents'[i].key = incidents[i].key
            /\ Open(i)' => Open(i) /\ (ShouldReconcile => i \notin Others)
  BY <1>1, Closed DEF CollectorInv, Open, Active, CycleTypes
<1>4. CycleTypes' BY <1>1, <1>2, <1>3 DEF CollectorInv, CycleTypes, Evaluations
<1>5. KeyKnown'
  BY <1>1, <1>3, <1>2 DEF CollectorInv, CycleTypes, KeyKnown, ShouldReconcile, Evaluations,
    AlertLevels, Others
<1> QED
  BY <1>1, <1>4, <1>5, <1>3 DEF CollectorInv, IncidentMatchesLevel, OneActiveIncident, OpenIsLatest
Worst == IF ev.from = "warning" THEN "warning" ELSE "critical"

\* The rows after upsertIncident, however it was called.
LEMMA UpsertedTypes ==
    ASSUME CycleTypes, NEW id, NEW key, NEW level, NEW state, state \in {"open", "recovered"},
           UpsertedAs(id, key, level, state), pc' \in Evaluations, pc \in Evaluations,
           UNCHANGED <<history, recorded, crashes, busy, skipped, nameless, acknowledging, reopened>>
    PROVE  /\ CycleTypes' /\ ev'.inc = id /\ ev'.transition = ev.transition
           /\ \A i \in DOMAIN incidents : incidents'[i].key = incidents[i].key
           /\ \A i \in DOMAIN incidents : i # id => (Open(i)' <=> Open(i))
           /\ Active(id)' <=> state = "open"
           /\ Open(id)' <=> state = "open" /\ (id \in DOMAIN incidents => Open(id))
           /\ id \in DOMAIN incidents'
<1>1. /\ DOMAIN incidents' = DOMAIN incidents \cup {id} /\ IsList(incidents')
      /\ incidents'[id] = [key |-> key, level |-> level, state |-> state]
      /\ \A i \in DOMAIN incidents : i # id => incidents'[i] = incidents[i]
      /\ id \in DOMAIN incidents => incidents[id].key = key /\ Active(id)
  BY DEF UpsertedAs
<1>2. ev' = [level |-> ev.level, transition |-> ev.transition, key |-> ev.key, old |-> ev.old,
             from |-> ev.from, code |-> ev.code, inc |-> id]
  BY DEF UpsertedAs, CycleTypes
<1>5. CycleTypes' BY <1>1, <1>2, SameHistory DEF CycleTypes, ActiveKey, IncidentRow
<1> QED BY <1>1, <1>2, <1>5 DEF Open, Active, CycleTypes

LEMMA UpsertKeeps == CollectorInv /\ Upsert => CollectorInv'
<1> SUFFICES ASSUME CollectorInv, Upsert PROVE CollectorInv' OBVIOUS
<1>1. /\ pc = "upsert" /\ pc' = "queue"
      /\ UNCHANGED <<history, recorded, crashes, busy, skipped, nameless, acknowledging, reopened>>
      /\ ev.level \in AlertLevels => UpsertIncident(ActiveKey, ev.level, "open")
      /\ ev.level \notin AlertLevels /\ ev.transition = "recovered" => UpsertIncident(ev.old, Worst, "recovered")
      /\ ev.level \notin AlertLevels /\ ev.transition # "recovered" => UNCHANGED <<incidents, ev>>
  BY DEF Upsert, collectorHistory, Worst
<1>2. /\ NamedAt' = NamedAt /\ LastLevel' = LastLevel /\ LastName' = LastName
      /\ recorded = ev.level /\ LastLevel = ev.level /\ pc \in Evaluations /\ pc' \in Evaluations /\ CycleTypes
  BY <1>1, SameHistory DEF CollectorInv, CycleTypes, Evaluations
<1>3. CASE ev.level \in AlertLevels
  <2>1. PICK id : UpsertedAs(id, ActiveKey, ev.level, "open") BY <1>1, <1>2, <1>3, Upserted
  <2>2. /\ CycleTypes' /\ \A i \in DOMAIN incidents : incidents'[i].key = incidents[i].key
        /\ \A i \in DOMAIN incidents : i # id => (Open(i)' <=> Open(i))
        /\ Active(id)' /\ (Open(id)' <=> (id \in DOMAIN incidents => Open(id))) /\ id \in DOMAIN incidents'
    BY <1>1, <1>2, <2>1, UpsertedTypes
  <2>3. /\ DOMAIN incidents' = DOMAIN incidents \cup {id} /\ incidents'[id].key = ActiveKey
        /\ incidents'[id].level = ev.level
        /\ \/ id \in DOMAIN incidents /\ incidents[id].key = ActiveKey
              /\ \A i \in DOMAIN incidents : incidents[i].key = ActiveKey /\ Active(i) => i <= id
           \/ /\ id \notin DOMAIN incidents /\ \A i \in DOMAIN incidents : i <= id
              /\ \A i \in DOMAIN incidents : incidents[i].key = ActiveKey => ~Active(i)
    BY <2>1 DEF UpsertedAs
  <2>4. id \in Nat /\ \A i \in DOMAIN incidents : i \in Nat
    <3>1. DOMAIN incidents = 1..Len(incidents) /\ DOMAIN incidents' = 1..Len(incidents')
      BY <1>2, <2>2, ListIs DEF CycleTypes
    <3> QED BY <2>2, <3>1
  <2>6. \A i \in DOMAIN incidents' : Open(i)' => i = id
    BY <2>2, <2>3, <1>1, <1>3, <2>4 DEF CollectorInv, OpenIsLatest, KeyKnown, Open
  <2>7. OpenIsLatest' BY <2>2, <2>3, <2>4, <2>6 DEF OpenIsLatest, CollectorInv
  <2>8. ActiveKey = LastName \/ NamedAt = {} BY <1>1, <1>3 DEF CollectorInv, CycleTypes, Evaluations
  <2>9. KeyKnown' BY <1>1, <1>2, <2>3, <2>6, <2>8 DEF KeyKnown
  <2>10. OneActiveIncident' BY <2>6 DEF OneActiveIncident
  <2>11. IncidentMatchesLevel' BY <1>1, <1>2, <1>3, <2>2, <2>3 DEF IncidentMatchesLevel, AlertLevels
  <2> QED BY <2>2, <2>7, <2>9, <2>10, <2>11 DEF CollectorInv
<1>4. CASE ev.level \notin AlertLevels /\ ev.transition = "recovered"
  <2>1. PICK id : UpsertedAs(id, ev.old, Worst, "recovered") BY <1>1, <1>2, <1>4, Upserted
  <2>2. /\ CycleTypes' /\ \A i \in DOMAIN incidents : incidents'[i].key = incidents[i].key
        /\ \A i \in DOMAIN incidents : i # id => (Open(i)' <=> Open(i))
        /\ ~Open(id)' /\ ev'.transition = "recovered"
    BY <1>1, <1>2, <1>4, <2>1, UpsertedTypes
  <2>3. /\ DOMAIN incidents' = DOMAIN incidents \cup {id} /\ incidents'[id].key = ev.old
        /\ \/ id \in DOMAIN incidents /\ incidents[id].key = ev.old
              /\ \A i \in DOMAIN incidents : incidents[i].key = ev.old /\ Active(i) => i <= id
           \/ \A i \in DOMAIN incidents : incidents[i].key = ev.old => ~Active(i)
    BY <2>1 DEF UpsertedAs
  <2>4. \A i \in DOMAIN incidents' : Open(i)' => i \in DOMAIN incidents /\ i # id /\ Open(i) /\ Active(i)
    BY <2>2, <2>3 DEF Open
  <2>5. OpenIsLatest' BY <2>2, <2>4, <2>3 DEF OpenIsLatest, CollectorInv
  <2>6. KeyKnown' BY <1>1, <1>2, <1>4 DEF KeyKnown
  <2>7. OneActiveIncident' BY <2>4 DEF CollectorInv, OneActiveIncident
  <2>8. IncidentMatchesLevel'
    <3>1. ASSUME ~skipped, ~nameless, NEW i \in DOMAIN incidents, Open(i), Active(i), i # id PROVE FALSE
      <4>1. incidents[i].key = ev.old BY <1>1, <1>4, <3>1 DEF CollectorInv, KeyKnown
      <4>2. id \in DOMAIN incidents /\ incidents[id].key = incidents[i].key /\ i <= id BY <2>3, <3>1, <4>1
      <4>3. id <= i BY <3>1, <4>2 DEF CollectorInv, OpenIsLatest
      <4>4. DOMAIN incidents = 1..Len(incidents) BY <1>2, ListIs DEF CycleTypes
      <4> QED BY <3>1, <4>2, <4>3, <4>4
    <3> QED BY <1>1, <1>2, <1>4, <2>2, <2>4, <3>1 DEF IncidentMatchesLevel
  <2> QED BY <2>2, <2>5, <2>6, <2>7, <2>8 DEF CollectorInv
<1>5. CASE ev.level \notin AlertLevels /\ ev.transition # "recovered"
  BY <1>1, <1>5, <1>2 DEF CollectorInv, CycleTypes, Evaluations, ActiveKey, KeyKnown,
    OneActiveIncident, OpenIsLatest, Open, Active, IncidentMatchesLevel
<1> QED BY <1>3, <1>4, <1>5

LEMMA QuietKeeps == CollectorInv /\ (Queue \/ Claim \/ Send \/ EndCycle \/ QuietCycle) => CollectorInv'
<1> SUFFICES ASSUME CollectorInv, Queue \/ Claim \/ Send \/ EndCycle \/ QuietCycle PROVE CollectorInv' OBVIOUS
<1>1. /\ pc' \notin Evaluations /\ pc' \in {"idle", "claim", "send"} /\ pc \notin {"reconcile", "upsert"}
      /\ UNCHANGED <<history, incidents, recorded, nameless, skipped, crashes, busy, acknowledging, reopened>>
      /\ ev' = ev \/ ev' = NoEval
  BY DEF Queue, Claim, Send, EndCycle, QuietCycle, memory, tables, collectorHistory, Evaluations
<1> QED BY <1>1, BetweenCycles DEF CollectorInv, CycleTypes, NoEval

LEMMA FaultKeeps == CollectorInv /\ (DatabaseBusy \/ Crash) => CollectorInv'
<1> SUFFICES ASSUME CollectorInv, DatabaseBusy \/ Crash PROVE CollectorInv' OBVIOUS
<1>1. CASE DatabaseBusy
  BY <1>1, BetweenCycles DEF DatabaseBusy, tables, CollectorInv, CycleTypes, NoEval, Evaluations
<1>2. CASE Crash
  <2>1. /\ pc' = "idle" /\ ev' = NoEval /\ history' = <<>> /\ skipped' = FALSE /\ crashes' = crashes + 1
        /\ UNCHANGED <<incidents, recorded, nameless, busy, acknowledging, reopened>>
    BY <1>2 DEF Crash, tables
  <2>2. <<>> \in Seq({}) /\ DOMAIN <<>> = {} OBVIOUS
  <2>3. IsList(history') /\ NamedAt' = {} BY <2>1, <2>2, SeqIsList DEF NamedAt
  <2>4. CycleTypes'
    <3>1. crashes' \in Nat /\ busy' \in Nat /\ nameless' \in BOOLEAN BY <2>1 DEF CollectorInv, CycleTypes
    <3> QED BY <2>1, <2>3, <3>1 DEF CycleTypes, Evaluations, CollectorInv, NoEval
  <2> QED
    BY <2>1, <2>3, <2>4 DEF CollectorInv, KeyKnown, IncidentMatchesLevel, OpenIsLatest,
      OneActiveIncident, Open, Active
<1> QED BY <1>1, <1>2

WebStep == CheckAcknowledge \/ Acknowledge \/ AcknowledgeFails

\* An acknowledgement opens and closes no incident.
LEMMA WebStepKeepsRows ==
    ASSUME CycleTypes, WebStep
    PROVE  /\ UNCHANGED <<mon, pc, history, ev, recorded, deliveries, now, crashes, busy, skipped, nameless>>
           /\ IsList(incidents') /\ DOMAIN incidents' = DOMAIN incidents
           /\ acknowledging' \in {0} \cup DOMAIN incidents /\ reopened' \subseteq DOMAIN incidents
           /\ \A j \in DOMAIN incidents :
                /\ IncidentRow(incidents'[j]) /\ incidents'[j].key = incidents[j].key /\ incidents'[j].level = incidents[j].level
                /\ (Active(j) => Active(j)') /\ (Open(j)' <=> Open(j))
<1>1. /\ IsList(incidents) /\ Len(incidents) \in Nat /\ DOMAIN incidents = 1..Len(incidents)
      /\ \A j \in DOMAIN incidents : IncidentRow(incidents[j])
      /\ acknowledging \in {0} \cup DOMAIN incidents /\ reopened \subseteq DOMAIN incidents
  BY ListIs DEF CycleTypes
<1>2. CASE CheckAcknowledge \/ AcknowledgeFails
  BY <1>1, <1>2 DEF CheckAcknowledge, AcknowledgeFails, memory, tables, collectorHistory, Open, Active
<1>3. CASE Acknowledge
  <2>1. /\ acknowledging \in DOMAIN incidents /\ acknowledging' = 0
        /\ incidents' = [incidents EXCEPT ![acknowledging].state = "acknowledged"]
        /\ reopened' = reopened \cup {i \in {acknowledging} : ~Active(i)}
    BY <1>1, <1>3 DEF Acknowledge
  <2>4. ASSUME NEW j \in DOMAIN incidents
        PROVE  /\ IncidentRow(incidents'[j]) /\ incidents'[j].key = incidents[j].key
               /\ incidents'[j].level = incidents[j].level
               /\ incidents'[j].state = IF j = acknowledging THEN "acknowledged" ELSE incidents[j].state
    BY <1>1, <2>1, <2>4 DEF IncidentRow
  <2> QED BY <1>1, <1>3, <2>1, ListOf, <2>4 DEF Acknowledge, memory, Active, Open
<1> QED BY <1>2, <1>3 DEF WebStep

LEMMA AcknowledgeKeeps == CollectorInv /\ WebStep => CollectorInv'
<1> SUFFICES ASSUME CollectorInv, WebStep PROVE CollectorInv' OBVIOUS
<1>1. CycleTypes BY DEF CollectorInv
<1>2. /\ UNCHANGED <<pc, history, ev, recorded, crashes, busy, skipped, nameless>>
      /\ IsList(incidents') /\ DOMAIN incidents' = DOMAIN incidents
      /\ acknowledging' \in {0} \cup DOMAIN incidents /\ reopened' \subseteq DOMAIN incidents
      /\ \A j \in DOMAIN incidents :
            /\ IncidentRow(incidents'[j]) /\ incidents'[j].key = incidents[j].key /\ incidents'[j].level = incidents[j].level
            /\ (Active(j) => Active(j)') /\ (Open(j)' <=> Open(j))
  BY <1>1, WebStepKeepsRows
<1>3. /\ NamedAt' = NamedAt /\ LastLevel' = LastLevel /\ LastName' = LastName /\ ActiveKey' = ActiveKey
  BY <1>2, SameHistory DEF ActiveKey
<1>4. CycleTypes' BY <1>1, <1>2, <1>3 DEF CycleTypes
<1>6. IncidentMatchesLevel' BY <1>2 DEF CollectorInv, IncidentMatchesLevel
<1> QED BY <1>4, <1>2, <1>3, <1>6 DEF CollectorInv, KeyKnown, OpenIsLatest, OneActiveIncident

LEMMA CollectorStep == CollectorInv /\ [CollectorNext]_collectorVars => CollectorInv'
<1> SUFFICES ASSUME CollectorInv, [CollectorNext]_collectorVars PROVE CollectorInv' OBVIOUS
<1>1. CASE Restart \/ UNCHANGED collectorVars
  <2>1. UNCHANGED <<pc, history, ev, recorded, incidents, crashes, busy, skipped, nameless, acknowledging, reopened>>
    BY <1>1 DEF Restart, collectorVars, memory, tables, collectorHistory
  <2>2. /\ NamedAt' = NamedAt /\ LastLevel' = LastLevel /\ LastName' = LastName /\ ActiveKey' = ActiveKey
    BY <2>1, SameHistory DEF ActiveKey
  <2>3. CycleTypes' BY <2>1, <2>2 DEF CollectorInv, CycleTypes
  <2> QED BY <2>1, <2>2, <2>3 DEF CollectorInv, KeyKnown, OpenIsLatest, OneActiveIncident, IncidentMatchesLevel, Open, Active
<1> QED BY <1>1, ObserveKeeps, ReconcileKeeps, UpsertKeeps, QuietKeeps, FaultKeeps, AcknowledgeKeeps
  DEF CollectorNext, Cycle, WebStep
LEMMA OutageSamples ==
    ASSUME mon \in OneReason, NEW s \in Samples(mon)
    PROVE  /\ s.level \in {"healthy", "critical"} /\ (IsHealthy(s) <=> s.level = "healthy")
           /\ s.level = "critical" => s.code = ReasonOf(mon)
           /\ s.code # Awaiting /\ DOMAIN s.met = {}
           /\ mon \notin HostMonitors /\ mon # "postgres" /\ (mon \in AppMonitors \/ mon = "cron")
           /\ mon \in AppMonitors => mon \in ProbeMonitors /\ mon \notin PassiveMonitors
           /\ mon = "cron" => mon \notin ProbeMonitors /\ mon \in PassiveMonitors
           /\ ReasonOf(mon) # Awaiting
<1>1. s \in {Sample(mon, "healthy", "none"), Sample(mon, "critical", ReasonOf(mon))}
  BY DEF Samples, ReasonOf, HostMonitors, AppSamples, ProcessSamples, CronSamples, OneReason,
    AppMonitors
<1>2. Metrics(mon) = {} BY DEF OneReason, AppMonitors, Metrics
<1> QED BY <1>1, <1>2 DEF Sample, IsHealthy, ReasonOf, Awaiting, OneReason, AppMonitors, ProbeMonitors, HostMonitors,
  PassiveMonitors

LEMMA OutageTrailing ==
    ASSUME NEW h, IsList(h), NEW s
    PROVE  /\ Trailing(Append(h, s), FailedAt(Append(h, s))) >= 2 <=> (Len(h) > 0 /\ Failed(s) /\ Failed(h[Len(h)]))
           /\ Trailing(Append(h, s), DOMAIN Append(h, s) \ FailedAt(Append(h, s))) >= 2
                 <=> (Len(h) > 0 /\ ~Failed(s) /\ ~Failed(h[Len(h)]))
           /\ Trailing(Append(h, s), FailedAt(Append(h, s))) \in Nat
           /\ Trailing(Append(h, s), DOMAIN Append(h, s) \ FailedAt(Append(h, s))) \in Nat
<1> DEFINE withNew == Append(h, s)
<1>1. /\ IsList(withNew) /\ Len(withNew) = Len(h) + 1 /\ DOMAIN withNew = 1..(Len(h) + 1) /\ Len(h) \in Nat
      /\ withNew[Len(h) + 1] = s /\ \A k \in 1..Len(h) : withNew[k] = h[k]
  BY Appended, ListIs
<1> HIDE DEF withNew
<1>2. \A P : /\ Trailing(withNew, P) >= 2 <=> (Len(withNew) > 1 /\ Len(withNew) \in P /\ Len(withNew) - 1 \in P)
             /\ Trailing(withNew, P) \in Nat
  BY <1>1, TrailingTwo
<1>3. Len(h) + 1 \in FailedAt(withNew) <=> Failed(s) BY <1>1 DEF FailedAt
<1> QED BY <1>1, <1>2, <1>3 DEF withNew, FailedAt

LEMMA OutageRun ==
    ASSUME NEW h, IsList(h), Len(h) > 0, NEW s
    PROVE  /\ ClearRun(h, s) >= 2 <=> (IsHealthy(s) /\ h[Len(h)].clear)
           /\ IsHealthy(s) /\ ~(ClearRun(h, s) >= 2) => ClearRun(h, s) = 1
           /\ ClearRun(h, s) \in Nat
<1> DEFINE clears == {i \in DOMAIN h : h[i].clear}
<1>1. Len(h) \in clears <=> h[Len(h)].clear BY ListIs
<1> HIDE DEF clears
<1> QED BY <1>1, TrailingTwo DEF ClearRun, clears

\* What a sample of such a monitor makes of the history before it.
LEMMA OutageEvaluation ==
    ASSUME mon \in OneReason, IsList(history), ItemsAreTrue, NEW s \in Samples(mon)
    PROVE  LET e == EvaluateMonitor(mon, history, s)
               alerting == LastLevel \in AlertLevels
           IN  /\ e.clear = IsHealthy(s) /\ e.level \in {"unknown", "healthy", "critical"}
               /\ e.level \in AlertLevels => e.key = ReasonOf(mon) \/ (e.key = Awaiting /\ alerting)
               /\ e.level \in AlertLevels => (e.transition = "none" <=> alerting)
               /\ alerting /\ e.level \notin AlertLevels => e.transition = "recovered"
               /\ e.transition = "recovered" =>
                     alerting /\ IsHealthy(s) /\ Len(history) > 0 /\ IsHealthy(history[Len(history)])
<1> DEFINE n == Len(history)
           verdict == IF mon = "cron" THEN PassiveRule(s, ProbeRule(mon, history, s, LastLevel))
                      ELSE ProbeRule(mon, history, s, LastLevel)
           clearing == ClearRun(history, s)
           before == EffectiveLevel(history, n + 1 - clearing)
           alerting == LastLevel \in AlertLevels
           good == IsHealthy(s) /\ n > 0 /\ IsHealthy(history[n])
           hold == IsHealthy(s) /\ verdict.level = "healthy" /\ clearing < 2 /\ (alerting \/ before \in AlertLevels)
           recovered == IsHealthy(s) /\ verdict.level = "healthy" /\ alerting /\ clearing >= 2
           level == IF hold THEN IF alerting THEN LastLevel ELSE before ELSE verdict.level
           e == EvaluateMonitor(mon, history, s)
<1>1. /\ s.level \in {"healthy", "critical"} /\ (IsHealthy(s) <=> s.level = "healthy")
      /\ s.level = "critical" => s.code = ReasonOf(mon)
      /\ s.code # Awaiting /\ DOMAIN s.met = {}
      /\ mon \notin HostMonitors /\ mon # "postgres" /\ (mon \in AppMonitors \/ mon = "cron")
      /\ mon \in AppMonitors => mon \in ProbeMonitors /\ mon \notin PassiveMonitors
      /\ mon = "cron" => mon \notin ProbeMonitors /\ mon \in PassiveMonitors
      /\ ReasonOf(mon) # Awaiting
  BY OutageSamples
<1>2. ConditionHealthy(s) = IsHealthy(s) BY <1>1 DEF ConditionHealthy, IsHealthy
<1>3. e = IF recovered
          THEN [level |-> "healthy", transition |-> "recovered", clear |-> ConditionHealthy(s), key |-> verdict.reason]
          ELSE [level |-> level, transition |-> LevelTransition(level, LastLevel), clear |-> ConditionHealthy(s),
                key |-> IF hold THEN Awaiting ELSE verdict.reason]
  BY <1>1, <1>2 DEF EvaluateMonitor, EvaluateApplication, LastLevel
<1>4. n \in Nat /\ DOMAIN history = 1..n BY ListIs
<1>5. \A k \in 1..n : history[k].eff \in {"unknown", "healthy", "critical"} /\ (history[k].clear <=> IsHealthy(history[k]))
  BY <1>4 DEF ItemsAreTrue, IsHealthy
<1>6. LastLevel \in {"unknown", "healthy", "critical"} /\ before \in {"unknown", "healthy", "critical"}
      /\ (alerting => n > 0 /\ LastLevel = "critical") /\ (n = 0 => before = "unknown")
  <2> HIDE DEF before
  <2> QED BY <1>4, <1>5 DEF AlertLevels, LastLevel, before, EffectiveLevel
<1>7. /\ n > 0 => clearing \in Nat
      /\ n > 0 => (clearing >= 2 <=> good)
      /\ n > 0 /\ IsHealthy(s) /\ ~good => clearing = 1
  BY <1>4, <1>5, OutageRun
<1>8. /\ verdict.level \in {"unknown", "healthy", "critical"}
      /\ verdict.level = "critical" => verdict.reason = ReasonOf(mon) \/ (verdict.reason = Awaiting /\ alerting)
      /\ alerting /\ verdict.level # "critical" => IsHealthy(s) /\ verdict.level = "healthy" /\ (mon \in AppMonitors => good)
      /\ verdict.level = "healthy" => IsHealthy(s)
  <2> DEFINE probe == ProbeRule(mon, history, s, LastLevel)
  <2>1. CASE mon = "cron"
    <3>1. probe = [level |-> IF IsHealthy(s) THEN "healthy" ELSE "unknown", reason |-> IF s.code = "none" THEN "state" ELSE s.code]
      BY <1>1, <2>1 DEF ProbeRule
    <3>3. verdict = IF IsHealthy(s) THEN probe ELSE [level |-> s.level, reason |-> s.code]
      BY <2>1, <1>1 DEF PassiveRule, Metric
    <3> HIDE DEF verdict, probe
    <3> QED BY <1>1, <2>1, <3>1, <3>3 DEF AppMonitors
  <2>2. CASE mon \in AppMonitors
    <3> DEFINE withNew == Append(history, s)
               failing == Trailing(withNew, FailedAt(withNew))
               holding == Trailing(withNew, DOMAIN withNew \ FailedAt(withNew))
    <3>1. /\ failing >= 2 <=> (n > 0 /\ Failed(s) /\ Failed(history[n]))
          /\ holding >= 2 <=> (n > 0 /\ ~Failed(s) /\ ~Failed(history[n]))
          /\ failing \in Nat /\ holding \in Nat
      BY OutageTrailing
    <3>2. verdict = CASE failing >= 2 -> [level |-> "critical", reason |-> s.code]
                      [] failing < 2 /\ LastLevel = "critical" /\ holding < 2 -> [level |-> "critical", reason |-> Awaiting]
                      [] OTHER -> [level |-> IF IsHealthy(s) THEN "healthy" ELSE "unknown",
                                   reason |-> IF s.code = "none" THEN "state" ELSE s.code]
      BY <1>1, <2>2 DEF ProbeRule, AppMonitors
    <3> HIDE DEF verdict, failing, holding
    <3>3. CASE failing >= 2 BY <1>1, <3>1, <3>2, <3>3 DEF Failed
    <3>4. CASE failing < 2 /\ LastLevel = "critical" /\ holding < 2
      BY <3>1, <3>4, <3>2 DEF AlertLevels
    <3>5. CASE failing < 2 /\ ~(LastLevel = "critical" /\ holding < 2)
      BY <3>1, <3>5, <3>2, <1>6 DEF Failed
    <3> QED BY <3>1, <3>3, <3>4, <3>5
  <2> QED BY <1>1, <2>1, <2>2
<1>9. hold => alerting
  <2>1. ASSUME hold, ~alerting PROVE FALSE BY <1>6, <2>1, <1>7, <1>4 DEF AlertLevels, LastLevel
  <2> QED BY <2>1
<1> HIDE DEF verdict, clearing, before, e
<1>11. ASSUME recovered
      PROVE  /\ e.clear = IsHealthy(s) /\ e.level \in {"unknown", "healthy", "critical"}
             /\ e.level \in AlertLevels => e.key = ReasonOf(mon) \/ (e.key = Awaiting /\ alerting)
             /\ e.level \in AlertLevels => (e.transition = "none" <=> alerting)
             /\ alerting /\ e.level \notin AlertLevels => e.transition = "recovered"
             /\ e.transition = "recovered" => alerting /\ good
  BY <1>7, <1>6, <1>11, <1>3, <1>2 DEF AlertLevels
<1>12. ASSUME ~recovered
      PROVE  /\ e.clear = IsHealthy(s) /\ e.level \in {"unknown", "healthy", "critical"}
             /\ e.level \in AlertLevels => e.key = ReasonOf(mon) \/ (e.key = Awaiting /\ alerting)
             /\ e.level \in AlertLevels => (e.transition = "none" <=> alerting)
             /\ alerting /\ e.level \notin AlertLevels => e.transition = "recovered"
             /\ e.transition = "recovered" => alerting /\ good
  <2>1. /\ e.level = level /\ e.transition = LevelTransition(level, LastLevel) /\ e.clear = ConditionHealthy(s)
        /\ e.key = IF hold THEN Awaiting ELSE verdict.reason
    BY <1>3, <1>12
  <2>2. level = IF hold THEN LastLevel ELSE verdict.level BY <1>9
  <2> HIDE DEF level
  <2>3. level \in {"unknown", "healthy", "critical"} BY <1>6, <1>8, <2>2
  <2>6. alerting => level \in AlertLevels BY <1>6, <1>8, <1>7, <1>12, <2>2 DEF AlertLevels
  <2> QED BY <1>2, <2>1, <2>3, <1>8, <1>9, <2>2, <1>6, <2>6 DEF LevelTransition, AlertLevels
<1> QED BY <1>11, <1>12 DEF e
LEMMA OutageStart == CollectorInit => OutageInv
<1> SUFFICES ASSUME CollectorInit PROVE OutageInv OBVIOUS
<1>1. history = <<>> /\ incidents = <<>> /\ pc = "idle" /\ skipped = FALSE BY DEF CollectorInit
<1>2. DOMAIN <<>> = {} /\ Len(<<>>) = 0 /\ <<>> \in Seq({}) OBVIOUS
<1>3. LastLevel = "unknown" BY <1>1, <1>2 DEF LastLevel, EffectiveLevel
<1> QED BY <1>1, <1>2, <1>3 DEF OutageInv, ItemsAreTrue, NamesAreTrue, ActiveWhileAlerting, ActiveWhile, AlertLevels

LEMMA ObserveOutage == CollectorInv /\ OutageInv /\ Observe => OutageInv'
<1> SUFFICES ASSUME CollectorInv, OutageInv, Observe, mon \in OneReason PROVE OutageInv'
  BY DEF OutageInv, ItemsAreTrue, NamesAreTrue, ActiveWhileAlerting, Undisturbed, Observe
<1>1. PICK s \in Samples(mon) : \E item : RememberedAs(s, EvaluateMonitor(mon, history, s), item) BY Remembered
<1> DEFINE e == EvaluateMonitor(mon, history, s)
           alerting == LastLevel \in AlertLevels
<1>2. /\ e.clear = IsHealthy(s) /\ e.level \in {"unknown", "healthy", "critical"}
      /\ e.level \in AlertLevels => e.key = ReasonOf(mon) \/ (e.key = Awaiting /\ alerting)
      /\ e.level \in AlertLevels => (e.transition = "none" <=> alerting)
      /\ alerting /\ e.level \notin AlertLevels => e.transition = "recovered"
      /\ e.transition = "recovered" =>
            alerting /\ IsHealthy(s) /\ Len(history) > 0 /\ IsHealthy(history[Len(history)])
  BY OutageEvaluation DEF CollectorInv, CycleTypes, OutageInv
<1>3. e.transition = "recovered" => e.level = "healthy" BY EvaluationShape
<1>4. PICK item :
         /\ Pushed(history, history', item)
         /\ item.level = s.level /\ item.eff = e.level /\ item.clear = e.clear
         /\ ev'.level = e.level /\ ev'.transition = e.transition /\ ev'.key = e.key
         /\ ev'.old = (IF NamedAt = {} THEN e.key ELSE LastName) /\ ev'.from = LastLevel
         /\ nameless' = (nameless \/ (NamedAt = {} /\ (e.key = Awaiting \/ e.transition = "recovered")))
         /\ LastLevel' = e.level
         /\ e.key # Awaiting => NamedAt' # {} /\ LastName' = e.key
         /\ e.key = Awaiting /\ NamedAt' # {} => NamedAt # {} /\ LastName' = LastName
  BY <1>1 DEF RememberedAs
<1> HIDE DEF e
<1>5. /\ pc = "idle" /\ pc' = "reconcile" /\ UNCHANGED <<mon, incidents, skipped, crashes, busy, reopened>>
      /\ s.level \in {"healthy", "critical"} /\ ReasonOf(mon) # Awaiting
  BY OutageSamples DEF Observe
<1>6. PICK d \in {0, 1} :
        /\ IsList(history) /\ IsList(history') /\ Len(history') = Len(history) + 1 - d /\ Len(history') > 0
        /\ Len(history) > 0 => Len(history') > 1
        /\ history'[Len(history')] = item /\ \A k \in 1..(Len(history') - 1) : history'[k] = history[k + d]
  BY <1>4 DEF Pushed
<1>7. /\ Len(history) \in Nat /\ Len(history') \in Nat
      /\ DOMAIN history = 1..Len(history) /\ DOMAIN history' = 1..Len(history')
  BY <1>6, ListIs
<1>8. ItemsAreTrue'
  <2> SUFFICES ASSUME NEW k \in DOMAIN history'
               PROVE  /\ history'[k].level \in {"healthy", "critical"} /\ history'[k].eff \in {"unknown", "healthy", "critical"}
                      /\ history'[k].clear = (history'[k].level = "healthy")
                      /\ k > 1 /\ history'[k - 1].eff \in AlertLevels /\ history'[k].eff \notin AlertLevels =>
                            IsHealthy(history'[k - 1]) /\ IsHealthy(history'[k])
    BY DEF ItemsAreTrue, IsHealthy
  <2>1. CASE k < Len(history')
    <3>1. k + d \in DOMAIN history /\ history'[k] = history[k + d]
      <4>1. k \in 1..(Len(history') - 1) /\ k + d \in 1..Len(history) BY <1>6, <1>7, <2>1
      <4> QED BY <1>6, <1>7, <4>1
    <3>2. k > 1 => k + d > 1 /\ history'[k - 1] = history[(k + d) - 1] BY <1>7, <2>1, <1>6
    <3> QED BY <3>1, <3>2 DEF OutageInv, ItemsAreTrue
  <2>2. CASE k = Len(history')
    BY <1>2, <1>4, <1>6, <2>2, <1>7, <1>5 DEF IsHealthy, LastLevel, EffectiveLevel
  <2> QED BY <1>7, <2>1, <2>2
<1>9. NamesAreTrue'
  <2>2. ~nameless' => ~nameless /\ (e.key = Awaiting \/ e.transition = "recovered" => NamedAt # {}) BY <1>4
  <2>3. ~nameless' => \A i \in DOMAIN incidents' : incidents'[i].key = ReasonOf(mon)
    BY <1>5, <2>2 DEF OutageInv, NamesAreTrue
  <2>4. ~nameless' /\ ev'.level \in AlertLevels => ActiveKey' = ReasonOf(mon)
    BY <1>2, <1>4, <1>5, <2>2 DEF OutageInv, NamesAreTrue, ActiveKey
  <2>6. ev'.transition = "recovered" => Recovered(history')
    <3> SUFFICES ASSUME ev'.transition = "recovered" PROVE Recovered(history') OBVIOUS
    <3>1. IsHealthy(s) /\ Len(history) > 0 /\ IsHealthy(history[Len(history)]) /\ e.level = "healthy"
      BY <1>2, <1>3, <1>4
    <3>3. IsHealthy(history'[Len(history')]) /\ history'[Len(history')].eff \notin AlertLevels
      BY <1>4, <1>6, <3>1 DEF IsHealthy, AlertLevels
    <3>4. \A later \in Len(history')..Len(history') : later = Len(history')
      <4>1. \A n \in Nat : \A later \in n..n : later = n OBVIOUS
      <4> QED BY <1>7, <4>1
    <3> QED BY <3>1, <1>6, <1>7, <3>3, <3>4 DEF Recovered
  <2>8. ReasonOf(mon') = ReasonOf(mon) BY <1>5
  <2> QED BY <1>2, <1>4, <1>5, <2>3, <2>4, <2>2, <2>6, <2>8 DEF NamesAreTrue, Announces, OutageInv
<1>10. ActiveWhileAlerting'
  BY <1>4, <1>5 DEF Undisturbed, OutageInv, ActiveWhileAlerting, ActiveWhile, Open, Active
<1> QED BY <1>8, <1>9, <1>10 DEF OutageInv

LEMMA ReconcileOutage == CollectorInv /\ OutageInv /\ Reconcile => OutageInv'
<1> SUFFICES ASSUME CollectorInv, OutageInv, Reconcile, mon \in OneReason PROVE OutageInv'
  BY DEF OutageInv, ItemsAreTrue, NamesAreTrue, ActiveWhileAlerting, Undisturbed, Reconcile
<1>1. /\ pc = "reconcile" /\ pc' = "upsert" /\ UNCHANGED <<mon, history, ev, crashes, busy, nameless, reopened>>
      /\ ShouldReconcile => Close({i \in Others : Active(i)}) /\ skipped' = FALSE
      /\ ~ShouldReconcile => UNCHANGED <<incidents, skipped>>
  BY DEF Reconcile, ReconcileIncidents, memory
<1>3. /\ DOMAIN incidents' = DOMAIN incidents
      /\ \A i \in DOMAIN incidents :
            /\ incidents'[i].key = incidents[i].key
            /\ Active(i)' <=> Active(i) /\ ~(ShouldReconcile /\ i \in Others)
            /\ Open(i)' => Open(i) BY <1>1, Closed DEF CollectorInv, Open, Active
<1>4. ItemsAreTrue' BY <1>1 DEF OutageInv, ItemsAreTrue
<1>5. NamesAreTrue' BY <1>1, SameHistory, <1>3 DEF OutageInv, NamesAreTrue, ActiveKey, Announces
<1>6. ActiveWhileAlerting'
  BY <1>1, <1>3 DEF ActiveWhileAlerting, Undisturbed, OutageInv, NamesAreTrue, Others,
    ShouldReconcile, ActiveWhile
<1> QED BY <1>4, <1>5, <1>6 DEF OutageInv

LEMMA UpsertOutage == CollectorInv /\ OutageInv /\ Upsert => OutageInv'
<1> SUFFICES ASSUME CollectorInv, OutageInv, Upsert, mon \in OneReason PROVE OutageInv'
  BY DEF OutageInv, ItemsAreTrue, NamesAreTrue, ActiveWhileAlerting, Undisturbed, Upsert
<1>1. /\ pc = "upsert" /\ pc' = "queue"
      /\ UNCHANGED <<mon, history, recorded, crashes, busy, skipped, nameless, acknowledging, reopened>>
      /\ ev.level \in AlertLevels => UpsertIncident(ActiveKey, ev.level, "open")
      /\ ev.level \notin AlertLevels /\ ev.transition = "recovered" => UpsertIncident(ev.old, Worst, "recovered")
      /\ ev.level \notin AlertLevels /\ ev.transition # "recovered" => UNCHANGED <<incidents, ev>>
  BY DEF Upsert, collectorHistory, Worst
<1>2. /\ NamedAt' = NamedAt /\ LastLevel' = LastLevel /\ LastName' = LastName /\ ReasonOf(mon') = ReasonOf(mon)
      /\ recorded = ev.level /\ LastLevel = ev.level /\ pc \in Evaluations /\ pc' \in Evaluations /\ CycleTypes
  BY <1>1, SameHistory DEF CollectorInv, CycleTypes, Evaluations
<1>3. ItemsAreTrue' BY <1>1 DEF OutageInv, ItemsAreTrue
<1>4. \E id, key :
         /\ \A i \in DOMAIN incidents' : i # id => i \in DOMAIN incidents
         /\ \A i \in DOMAIN incidents : incidents'[i].key = incidents[i].key
         /\ ev.level \in AlertLevels => Active(id)' /\ id \in DOMAIN incidents' /\ incidents'[id].key = ActiveKey
         /\ ev.level \notin AlertLevels /\ ev.transition = "recovered" =>
               incidents'[id].key = ev.old /\ ev'.transition = "recovered"
         /\ ev.level \notin AlertLevels /\ ev.transition # "recovered" => UNCHANGED incidents
  <2>1. CASE ev.level \in AlertLevels
    <3>1. PICK id : UpsertedAs(id, ActiveKey, ev.level, "open") BY <1>1, <1>2, <2>1, Upserted
    <3> QED BY <2>1, <3>1, <1>1, <1>2, UpsertedTypes DEF UpsertedAs
  <2>2. CASE ev.level \notin AlertLevels /\ ev.transition = "recovered"
    <3>1. PICK id : UpsertedAs(id, ev.old, Worst, "recovered") BY <1>1, <1>2, <2>2, Upserted
    <3> QED BY <2>2, <3>1, <1>1, <1>2, UpsertedTypes DEF UpsertedAs
  <2>3. CASE ev.level \notin AlertLevels /\ ev.transition # "recovered" BY <1>1, <2>3
  <2> QED BY <2>1, <2>2, <2>3
<1>5. NamesAreTrue' BY <1>1, <1>4, <1>2 DEF OutageInv, NamesAreTrue
<1>6. ActiveWhileAlerting'
  <2> SUFFICES ASSUME Undisturbed, ~nameless PROVE ~skipped /\ ActiveWhile(LastLevel)'
    BY <1>1, <1>2 DEF ActiveWhileAlerting, Undisturbed
  <2>1. ~skipped /\ ActiveWhile(ev.from) BY <1>1 DEF OutageInv, ActiveWhileAlerting
  <2>2. CASE ev.level \in AlertLevels BY <1>2, <1>4, <2>1, <2>2 DEF ActiveWhile
  <2>3. CASE ev.level \notin AlertLevels /\ ev.transition = "recovered"
    BY UpsertKeeps, <1>1, <1>4, <2>3, <1>2, <2>1 DEF CollectorInv, CycleTypes, Evaluations,
      IncidentMatchesLevel, ActiveWhile
  <2>4. CASE ev.level \notin AlertLevels /\ ev.transition # "recovered"
    BY <1>1, <2>4, <1>2, <2>1 DEF OutageInv, NamesAreTrue, ActiveWhile, Open, Active
  <2> QED BY <2>2, <2>3, <2>4
<1> QED BY <1>3, <1>5, <1>6 DEF OutageInv
LEMMA RestOutage ==
    CollectorInv /\ OutageInv /\ (Queue \/ Claim \/ Send \/ EndCycle \/ QuietCycle \/ DatabaseBusy \/ Crash) => OutageInv'
<1> SUFFICES ASSUME CollectorInv, OutageInv, Queue \/ Claim \/ Send \/ EndCycle \/ QuietCycle \/ DatabaseBusy \/ Crash
             PROVE  OutageInv'
  OBVIOUS
<1>1. /\ pc' \notin {"reconcile", "upsert"} /\ UNCHANGED <<mon, incidents, nameless, reopened>>
      /\ crashes \in Nat /\ busy \in Nat
      /\ \/ pc \notin {"reconcile", "upsert"} /\ UNCHANGED <<history, skipped, crashes, busy>>
         \/ busy' = busy + 1 /\ UNCHANGED history
         \/ crashes' = crashes + 1 /\ history' = <<>>
  BY DEF Queue, Claim, Send, EndCycle, QuietCycle, DatabaseBusy, Crash, memory, tables, collectorHistory,
    CollectorInv, CycleTypes
<1>2. ASSUME UNCHANGED history PROVE OutageInv'
  BY <1>2, SameHistory, <1>1 DEF OutageInv, ActiveWhileAlerting, ActiveWhile, Open, Active,
    Undisturbed, ItemsAreTrue, NamesAreTrue
<1>3. ASSUME crashes' = crashes + 1, history' = <<>> PROVE OutageInv'
  <2>1. DOMAIN <<>> = {} /\ Len(<<>>) = 0 OBVIOUS
  <2>2. DOMAIN history' = {} /\ NamedAt' = {} BY <1>3, <2>1 DEF NamedAt
  <2>3. ~Undisturbed' BY <1>1, <1>3 DEF Undisturbed
  <2>4. ReasonOf(mon') = ReasonOf(mon) BY <1>1
  <2>5. ItemsAreTrue' BY <2>2 DEF ItemsAreTrue
  <2>6. NamesAreTrue' BY <1>1, <2>2, <2>4 DEF OutageInv, NamesAreTrue
  <2> QED BY <2>3, <2>5, <2>6 DEF OutageInv, ActiveWhileAlerting
<1> QED BY <1>1, <1>2, <1>3

LEMMA AcknowledgeOutage == CollectorInv /\ OutageInv /\ WebStep => OutageInv'
<1> SUFFICES ASSUME CollectorInv, OutageInv, WebStep PROVE OutageInv' OBVIOUS
<1>1. /\ UNCHANGED <<mon, pc, history, ev, crashes, busy, skipped, nameless>> /\ DOMAIN incidents' = DOMAIN incidents
      /\ \A j \in DOMAIN incidents :
            incidents'[j].key = incidents[j].key /\ (Active(j) => Active(j)') /\ (Open(j)' <=> Open(j))
  BY WebStepKeepsRows DEF CollectorInv
<1>2. /\ NamedAt' = NamedAt /\ LastLevel' = LastLevel /\ LastName' = LastName /\ ActiveKey' = ActiveKey
      /\ ReasonOf(mon') = ReasonOf(mon) /\ Recovered(history') = Recovered(history) /\ (Announces' <=> Announces)
  BY <1>1, SameHistory DEF ActiveKey, Announces
<1>3. ItemsAreTrue' /\ NamesAreTrue' BY <1>1, <1>2 DEF OutageInv, ItemsAreTrue, NamesAreTrue
<1>5. ActiveWhileAlerting'
  BY <1>1, <1>2 DEF OutageInv, ActiveWhileAlerting, Undisturbed, ActiveWhile
<1> QED BY <1>3, <1>5 DEF OutageInv

LEMMA OutageStep == CollectorInv /\ OutageInv /\ [CollectorNext]_collectorVars => OutageInv'
<1> SUFFICES ASSUME CollectorInv, OutageInv, [CollectorNext]_collectorVars PROVE OutageInv' OBVIOUS
<1>1. CASE Restart \/ UNCHANGED collectorVars
  <2>1. UNCHANGED <<mon, pc, history, ev, incidents, crashes, busy, skipped, nameless, reopened>>
    BY <1>1 DEF Restart, collectorVars, memory, tables, collectorHistory
  <2>2. /\ NamedAt' = NamedAt /\ LastLevel' = LastLevel /\ LastName' = LastName /\ ActiveKey' = ActiveKey
        /\ ReasonOf(mon') = ReasonOf(mon) /\ Recovered(history') = Recovered(history) /\ (Announces' <=> Announces)
    BY <2>1, SameHistory DEF ActiveKey, Announces
  <2>4. ActiveWhileAlerting' BY <2>1, <2>2 DEF OutageInv, ActiveWhileAlerting, ActiveWhile, Undisturbed, Open, Active
  <2> QED BY <2>1, <2>2, <2>4 DEF OutageInv, ItemsAreTrue, NamesAreTrue
<1> QED BY <1>1, ObserveOutage, ReconcileOutage, UpsertOutage, RestOutage, AcknowledgeOutage
  DEF CollectorNext, Cycle, WebStep

\* The samples since the last alert of such a history.
LEMMA SinceTheAlert ==
    ASSUME mon \in OneReason, CollectorInv, OutageInv, LastLevel \notin AlertLevels,
           NEW a \in DOMAIN history, history[a].eff \in AlertLevels
    PROVE  Recovered(history)
<1>1. Len(history) \in Nat /\ DOMAIN history = 1..Len(history) BY ListIs DEF CollectorInv, CycleTypes
<1> DEFINE alerts == {k \in DOMAIN history : history[k].eff \in AlertLevels}
           last == Max(alerts)
<1>2. alerts \subseteq 0..Len(history) /\ a \in alerts BY <1>1
<1>3. last \in alerts /\ \A y \in alerts : y <= last BY <1>1, <1>2, HasGreatest
<1> HIDE DEF last
<1>4. last \in 1..Len(history) /\ history[last].eff \in AlertLevels BY <1>1, <1>3
<1>5. last # Len(history) BY <1>1, <1>4 DEF LastLevel, EffectiveLevel
<1>6. /\ last + 1 \in 2..Len(history) /\ last + 1 \in DOMAIN history /\ (last + 1) - 1 = last /\ last + 1 > 1
  <2>0. \A n \in Nat : \A x \in 1..n : x # n => x \in Int /\ x >= 1 /\ x < n OBVIOUS
  <2>1. last \in Int /\ last >= 1 /\ last < Len(history) BY <1>1, <1>4, <1>5, <2>0
  <2> QED BY <1>1, <2>1
<1> QED BY <1>6, <1>1, <1>4, <1>3 DEF Recovered, OutageInv, ItemsAreTrue

ClosesOutage(i) == mon \in OneReason /\ ~nameless /\ Open(i) /\ incidents'[i].state = "recovered"

LEMMA ClosedBySamples ==
    ASSUME CollectorInv, OutageInv, [CollectorNext]_collectorVars, NEW i \in DOMAIN incidents, ClosesOutage(i)
    PROVE  \/ Recovered(history)
           \/ crashes + busy > 0 /\ \A k \in DOMAIN history : history[k].eff \notin AlertLevels
<1>1. mon \in OneReason /\ ~nameless /\ Open(i) /\ Active(i) /\ incidents'[i].state = "recovered"
  BY DEF ClosesOutage, Open
<1>2. Reconcile \/ Upsert
  <2>1. ~WebStep BY <1>1, WebStepKeepsRows DEF CollectorInv, Active
  <2>2. incidents' # incidents BY <1>1 DEF Active
  <2> QED BY <2>1, <2>2 DEF CollectorNext, Cycle, Observe, Queue, Claim, Send, EndCycle, QuietCycle, DatabaseBusy,
    Crash, Restart, WebStep, collectorVars, memory, tables
<1>3. CASE Upsert
  <2>1. /\ pc = "upsert" /\ (ev.level \in AlertLevels \/ ev.transition = "recovered")
        /\ ev.level \in AlertLevels => UpsertIncident(ActiveKey, ev.level, "open")
    BY <1>1, <1>3 DEF Upsert, Active
  <2>2. CASE ev.level \in AlertLevels
    <3>1. PICK id : UpsertedAs(id, ActiveKey, ev.level, "open") BY <2>1, <2>2, Upserted DEF CollectorInv
    <3> QED BY <1>1, <3>1 DEF UpsertedAs, Active
  <2>3. CASE ev.level \notin AlertLevels BY <1>1, <2>1, <2>3 DEF OutageInv, NamesAreTrue
  <2> QED BY <2>2, <2>3
<1>4. CASE Reconcile
  <2>1. /\ pc = "reconcile" /\ ShouldReconcile /\ Close({j \in Others : Active(j)})
    BY <1>1, <1>4 DEF Reconcile, ReconcileIncidents, Active
  <2>2. i \in Others BY <1>1, <2>1, Closed DEF CollectorInv, Active
  <2>3. ev.level \notin AlertLevels BY <1>1, <2>1, <2>2 DEF OutageInv, NamesAreTrue, Others
  <2>4. ev.transition # "recovered" /\ LastLevel = ev.level
    BY <2>1, <2>3 DEF ShouldReconcile, CollectorInv, CycleTypes, Evaluations
  <2>5. ev.from \notin AlertLevels BY <1>1, <2>1, <2>3, <2>4 DEF OutageInv, NamesAreTrue
  <2>6. crashes # 0 \/ busy # 0 BY <1>1, <2>1, <2>5 DEF OutageInv, ActiveWhileAlerting, ActiveWhile, Undisturbed
  <2>7. crashes + busy > 0 BY <2>6 DEF CollectorInv, CycleTypes
  <2>8. ASSUME NEW a \in DOMAIN history, history[a].eff \in AlertLevels PROVE Recovered(history)
    BY <1>1, <2>3, <2>4, <2>8, SinceTheAlert
  <2> QED BY <2>7, <2>8
<1> QED BY <1>2, <1>3, <1>4
LEMMA DeliveriesStart == CollectorInit => DeliveriesFollow
<1> SUFFICES ASSUME CollectorInit PROVE DeliveriesFollow OBVIOUS
<1>1. deliveries = <<>> /\ incidents = <<>> /\ pc = "idle" /\ now = 0 BY DEF CollectorInit
<1>2. DOMAIN <<>> = {} /\ <<>> \in Seq({}) OBVIOUS
<1>3. IsList(deliveries) BY <1>1, <1>2, SeqIsList
<1> QED BY <1>1, <1>2, <1>3 DEF DeliveriesFollow

\* A step that announces nothing, and opens and closes no incident.
LEMMA FollowFrame ==
    ASSUME DeliveriesFollow, now' \in Nat, IsList(deliveries'),
           DOMAIN deliveries' = DOMAIN deliveries, DOMAIN incidents' = DOMAIN incidents,
           \A d \in DOMAIN deliveries :
               /\ deliveries'[d] = [inc |-> deliveries[d].inc, kind |-> deliveries[d].kind, state |-> deliveries'[d].state,
                                    attempts |-> deliveries'[d].attempts, due |-> deliveries'[d].due, at |-> deliveries[d].at],
           Undisturbed' => Undisturbed /\ \A i \in DOMAIN incidents : Open(i)' <=> Open(i),
           ((pc # "queue" \/ ~Announces) /\ pc' # "queue") \/ UNCHANGED <<pc, ev>>
    PROVE  DeliveriesFollow'
<1>1. \A d \in DOMAIN deliveries :
        /\ deliveries'[d].inc = deliveries[d].inc /\ deliveries'[d].kind = deliveries[d].kind /\ deliveries'[d].at = deliveries[d].at
  OBVIOUS
<1>7. ASSUME Undisturbed', NEW i \in DOMAIN incidents
      PROVE  /\ Open(i)' => RecoveryOf(i)' = {}
             /\ Open(i)' /\ Recipients # {} => Told(i)' \/ Announcing(i)'
             /\ ~Open(i)' => \/ Cardinality(RecoveryOf(i)') = Cardinality(Recipients)
                             \/ Announcing(i)' /\ RecoveryOf(i)' = {} /\ ev'.transition = "recovered"
             /\ Announcing(i)' /\ ev'.transition = "recovered" => ~Open(i)'
  BY <1>1, <1>7 DEF DeliveriesFollow, Announcing, Announces, RecoveryOf, Told
<1> QED BY <1>1, <1>7 DEF DeliveriesFollow, Announces, DeliveryRow

LEMMA RowsStay ==
    ASSUME DeliveriesFollow, UNCHANGED deliveries
    PROVE  /\ IsList(deliveries') /\ DOMAIN deliveries' = DOMAIN deliveries
           /\ \A d \in DOMAIN deliveries :
                deliveries'[d] = [inc |-> deliveries[d].inc, kind |-> deliveries[d].kind, state |-> deliveries'[d].state,
                                  attempts |-> deliveries'[d].attempts, due |-> deliveries'[d].due, at |-> deliveries[d].at]
  BY DEF DeliveriesFollow, DeliveryRow

\* Reconciling closes nothing, as long as nothing has failed.
LEMMA ReconcileFollows == CollectorInv /\ OutageInv /\ DeliveriesFollow /\ Reconcile => DeliveriesFollow'
<1> SUFFICES ASSUME CollectorInv, OutageInv, DeliveriesFollow, Reconcile PROVE DeliveriesFollow' OBVIOUS
<1>1. /\ pc = "reconcile" /\ pc' = "upsert" /\ UNCHANGED <<mon, ev, deliveries, now, crashes, busy, nameless, reopened>>
      /\ ShouldReconcile => Close({i \in Others : Active(i)})
      /\ ~ShouldReconcile => UNCHANGED incidents
  BY DEF Reconcile, ReconcileIncidents, memory
<1>3. ASSUME Undisturbed, NEW i \in DOMAIN incidents, Open(i), ShouldReconcile, i \in Others PROVE FALSE
  BY <1>1, <1>3 DEF Undisturbed, OutageInv, ActiveWhileAlerting, ActiveWhile, NamesAreTrue, Others,
    ShouldReconcile
<1>5. now' \in Nat BY <1>1 DEF DeliveriesFollow
<1> QED
  BY <1>1, Closed, <1>3, <1>5, RowsStay, FollowFrame DEF Undisturbed, CollectorInv, Open, Active

LEMMA OtherFollows ==
    CollectorInv /\ DeliveriesFollow /\ (Observe \/ EndCycle \/ QuietCycle \/ DatabaseBusy \/ Crash \/ Restart \/ WebStep
        \/ UNCHANGED collectorVars) => DeliveriesFollow'
<1> SUFFICES ASSUME CollectorInv, DeliveriesFollow, Observe \/ EndCycle \/ QuietCycle \/ DatabaseBusy \/ Crash \/ Restart
                       \/ WebStep \/ UNCHANGED collectorVars
             PROVE  DeliveriesFollow'
  OBVIOUS
<1>1. CASE Observe \/ EndCycle \/ QuietCycle \/ Restart \/ UNCHANGED collectorVars
  <2>1. /\ UNCHANGED <<mon, incidents, deliveries, crashes, busy, reopened>> /\ now' \in {now, now + 1}
        /\ ~nameless' => ~nameless
        /\ (pc # "queue" /\ pc' # "queue") \/ UNCHANGED <<pc, ev>>
    <3>1. CASE Observe BY <3>1 DEF Observe, Remember
    <3>2. CASE EndCycle \/ QuietCycle BY <3>2 DEF EndCycle, QuietCycle, memory, tables, collectorHistory
    <3>3. CASE Restart \/ UNCHANGED collectorVars
      BY <3>3 DEF Restart, collectorVars, memory, tables, collectorHistory
    <3> QED BY <1>1, <3>1, <3>2, <3>3
  <2>3. now' \in Nat BY <2>1 DEF DeliveriesFollow
  <2> QED BY <2>1, <2>3, RowsStay, FollowFrame DEF Undisturbed, Open, Active
<1>2. CASE DatabaseBusy \/ Crash
  BY <1>2 DEF DatabaseBusy, Crash, tables, Undisturbed, CollectorInv, CycleTypes, DeliveriesFollow,
    DeliveryRow
<1>3. CASE WebStep
  BY <1>3, WebStepKeepsRows, RowsStay, FollowFrame DEF CollectorInv, Undisturbed, DeliveriesFollow
<1> QED BY <1>1, <1>2, <1>3

LEMMA SendFollows == DeliveriesFollow /\ (Claim \/ Send) => DeliveriesFollow'
<1> SUFFICES ASSUME DeliveriesFollow, Claim \/ Send PROVE DeliveriesFollow' OBVIOUS
<1>1. /\ UNCHANGED <<mon, incidents, now, crashes, busy, nameless, reopened>> /\ pc # "queue" /\ pc' # "queue"
  BY DEF Claim, Send, collectorHistory
<1>2. /\ IsList(deliveries) /\ Len(deliveries) \in Nat /\ DOMAIN deliveries = 1..Len(deliveries)
      /\ \A d \in DOMAIN deliveries : DeliveryRow(deliveries[d])
  BY ListIs DEF DeliveriesFollow
<1>3. /\ deliveries' = [d \in 1..Len(deliveries) |-> deliveries'[d]]
      /\ \A d \in DOMAIN deliveries :
            deliveries'[d] = [inc |-> deliveries[d].inc, kind |-> deliveries[d].kind, state |-> deliveries'[d].state,
                              attempts |-> deliveries'[d].attempts, due |-> deliveries'[d].due, at |-> deliveries[d].at]
  <2>1. CASE Claim
    <3>1. deliveries' = [d \in DOMAIN deliveries |->
                            IF Due(d) THEN [deliveries[d] EXCEPT !.state = "sending", !.attempts = @ + 1] ELSE deliveries[d]]
      BY <2>1 DEF Claim
    <3>3. ASSUME NEW d \in DOMAIN deliveries
          PROVE  deliveries'[d] = deliveries[d]
                   \/ deliveries'[d] = [deliveries[d] EXCEPT !.state = "sending", !.attempts = deliveries[d].attempts + 1]
      BY <1>2, <3>1 DEF DeliveryRow
    <3>4. ASSUME NEW d \in DOMAIN deliveries
          PROVE  deliveries'[d] = [inc |-> deliveries[d].inc, kind |-> deliveries[d].kind, state |-> deliveries'[d].state,
                                   attempts |-> deliveries'[d].attempts, due |-> deliveries'[d].due, at |-> deliveries[d].at]
      BY <1>2, <3>3 DEF DeliveryRow
    <3> QED BY <1>2, <3>1, <3>4
  <2>2. CASE Send
    <3>1. PICK c, state, due :
            \/ deliveries' = [deliveries EXCEPT ![c].state = state]
            \/ deliveries' = [deliveries EXCEPT ![c].state = state, ![c].due = due]
      BY <2>2 DEF Send, SendOutcome, CompleteDelivery, FailDelivery
    <3>3. ASSUME NEW d \in DOMAIN deliveries
          PROVE  deliveries'[d] = deliveries[d] \/ deliveries'[d] = [deliveries[d] EXCEPT !.state = state]
                   \/ deliveries'[d] = [deliveries[d] EXCEPT !.state = state, !.due = due]
      BY <3>1
    <3>4. ASSUME NEW d \in DOMAIN deliveries
          PROVE  deliveries'[d] = [inc |-> deliveries[d].inc, kind |-> deliveries[d].kind, state |-> deliveries'[d].state,
                                   attempts |-> deliveries'[d].attempts, due |-> deliveries'[d].due, at |-> deliveries[d].at]
      BY <1>2, <3>3, ZenonT(40) DEF DeliveryRow
    <3> QED BY <1>2, <3>1, <3>4
  <2> QED BY <2>1, <2>2
<1>6. now' \in Nat BY <1>1 DEF DeliveriesFollow
<1> QED BY <1>1, <1>3, <1>2, ListOf, <1>6, FollowFrame DEF Undisturbed, Open, Active
LEMMA UpsertFollows == CollectorInv /\ OutageInv /\ DeliveriesFollow /\ Upsert => DeliveriesFollow'
<1> SUFFICES ASSUME CollectorInv, OutageInv, DeliveriesFollow, Upsert PROVE DeliveriesFollow' OBVIOUS
<1>1. /\ pc = "upsert" /\ pc' = "queue" /\ UNCHANGED <<mon, deliveries, now>>
      /\ UNCHANGED <<history, recorded, crashes, busy, skipped, nameless, acknowledging, reopened>>
      /\ ev.level \in AlertLevels => UpsertIncident(ActiveKey, ev.level, "open")
      /\ ev.level \notin AlertLevels /\ ev.transition = "recovered" => UpsertIncident(ev.old, Worst, "recovered")
      /\ ev.level \notin AlertLevels /\ ev.transition # "recovered" => UNCHANGED <<incidents, ev>>
  BY DEF Upsert, collectorHistory, Worst
<1>2. /\ Undisturbed' <=> Undisturbed
      /\ \A i : RecoveryOf(i)' = RecoveryOf(i) /\ (Told(i)' <=> Told(i))
      /\ pc \in Evaluations /\ pc' \in Evaluations /\ CycleTypes
  BY <1>1 DEF Undisturbed, RecoveryOf, Told, Evaluations, CollectorInv
<1>3. /\ \A d \in DOMAIN deliveries : DeliveryRow(deliveries[d])
      /\ \A i : i \notin DOMAIN incidents => RecoveryOf(i) = {}
  BY DEF DeliveriesFollow, DeliveryRow, RecoveryOf
<1>4. ASSUME Undisturbed
      PROVE  /\ \A i \in DOMAIN incidents :
                  /\ incidents[i].key = ReasonOf(mon)
                  /\ Open(i) => RecoveryOf(i) = {} /\ (Recipients # {} => Told(i))
                  /\ ~Open(i) => Cardinality(RecoveryOf(i)) = Cardinality(Recipients)
             /\ ev.from \in AlertLevels => \E i \in DOMAIN incidents : Active(i)
             /\ ev.level \in AlertLevels => ActiveKey = ReasonOf(mon) /\ (~Announces => ev.from \in AlertLevels)
             /\ ev.transition = "recovered" => ev.old = ReasonOf(mon) /\ ev.from \in AlertLevels
  BY <1>4, <1>1 DEF Undisturbed, Announcing, CollectorInv, CycleTypes, Evaluations,
    DeliveriesFollow, OutageInv, NamesAreTrue, ActiveWhileAlerting, ActiveWhile
<1>5. /\ ev.transition = "recovered" => ev.level \notin AlertLevels
      /\ ev.transition \notin {"none", "recovered"} => ev.level \in AlertLevels
  BY <1>1 DEF CollectorInv, CycleTypes, Evaluations, AlertLevels
<1>6. CASE ev.level \in AlertLevels
  <2>1. PICK id : UpsertedAs(id, ActiveKey, ev.level, "open") BY <1>1, <1>2, <1>6, Upserted
  <2>2. /\ ev'.inc = id /\ ev'.transition = ev.transition /\ id \in DOMAIN incidents'
        /\ \A i \in DOMAIN incidents : i # id => (Open(i)' <=> Open(i))
        /\ Open(id)' <=> (id \in DOMAIN incidents => Open(id))
    BY <1>1, <1>2, <2>1, UpsertedTypes
  <2>3. /\ DOMAIN incidents' = DOMAIN incidents \cup {id}
        /\ id \notin DOMAIN incidents => \A i \in DOMAIN incidents : incidents[i].key = ActiveKey => ~Active(i)
    BY <2>1 DEF UpsertedAs
  <2>5. ASSUME Undisturbed, NEW i \in DOMAIN incidents'
        PROVE  /\ Open(i)' => RecoveryOf(i) = {}
               /\ Open(i)' /\ Recipients # {} => Told(i) \/ Announcing(i)'
               /\ ~Open(i)' => Cardinality(RecoveryOf(i)) = Cardinality(Recipients)
    BY <1>4, <2>2, <2>5, <2>3, <1>6, <1>3, <1>1 DEF Announcing, Announces
  <2> QED BY <1>1, <1>2, <2>2, <2>5, <1>3, <2>3, <1>5, <1>6 DEF DeliveriesFollow, DeliveryRow
<1>7. CASE ev.level \notin AlertLevels /\ ev.transition = "recovered"
  <2>1. PICK id : UpsertedAs(id, ev.old, Worst, "recovered") BY <1>1, <1>2, <1>7, Upserted
  <2>2. /\ ev'.inc = id /\ ev'.transition = "recovered" /\ id \in DOMAIN incidents'
        /\ \A i \in DOMAIN incidents : i # id => (Open(i)' <=> Open(i))
        /\ ~Open(id)'
    BY <1>1, <1>2, <1>7, <2>1, UpsertedTypes
  <2>3. /\ DOMAIN incidents' = DOMAIN incidents \cup {id}
        /\ id \notin DOMAIN incidents => \A i \in DOMAIN incidents : incidents[i].key = ev.old => ~Active(i)
    BY <2>1 DEF UpsertedAs
  <2>4. \A i : Announcing(i)' <=> i = id BY <1>1, <2>2 DEF Announcing, Announces
  <2>5. ASSUME Undisturbed, NEW i \in DOMAIN incidents'
        PROVE  /\ Open(i)' => RecoveryOf(i) = {} /\ (Recipients # {} => Told(i))
               /\ ~Open(i)' => \/ Cardinality(RecoveryOf(i)) = Cardinality(Recipients)
                               \/ Announcing(i)' /\ RecoveryOf(i) = {}
    BY <1>4, <1>7, <2>3, <2>5, <2>2, <2>4
  <2>8. \A i : Announcing(i)' => ~Open(i)' BY <2>2, <2>4
  <2> QED BY <1>1, <1>2, <2>2, <2>5, <1>3, <2>3, <2>8 DEF DeliveriesFollow, DeliveryRow
<1>8. CASE ev.level \notin AlertLevels /\ ev.transition # "recovered"
  BY <1>1, <1>5, <1>8, <1>3, <1>2, <1>4 DEF Announces, Announcing, Open, Active, DeliveryRow,
    DeliveriesFollow
<1> QED BY <1>6, <1>7, <1>8

LEMMA CardinalityOfInterval ==
    ASSUME NEW a \in Nat, NEW n \in Nat PROVE IsFiniteSet((a + 1)..(a + n)) /\ Cardinality((a + 1)..(a + n)) = n
<1>1. a + 1 \in Int /\ a + n \in Int OBVIOUS
<1>2. IsFiniteSet((a + 1)..(a + n)) /\ Cardinality((a + 1)..(a + n)) = IF a + 1 > a + n THEN 0 ELSE (a + n) - (a + 1) + 1
  BY <1>1, FS_Interval, ZenonT(30)
<1> QED BY <1>2

LEMMA QueueFollows == CollectorInv /\ DeliveriesFollow /\ Queue => DeliveriesFollow'
<1> SUFFICES ASSUME CollectorInv, DeliveriesFollow, Queue PROVE DeliveriesFollow' OBVIOUS
<1>1. /\ pc = "queue" /\ pc' = "claim" /\ UNCHANGED <<mon, ev, incidents, now, crashes, busy, nameless, reopened>>
      /\ IF Announces THEN QueueTransition(ev.inc, ev.transition = "recovered") ELSE UNCHANGED deliveries
  BY DEF Queue, Announces, memory, collectorHistory
<1>2. Undisturbed' => Undisturbed /\ \A i \in DOMAIN incidents : Open(i)' <=> Open(i)
  BY <1>1 DEF Undisturbed, Open, Active
<1>3. now' \in Nat BY <1>1 DEF DeliveriesFollow
<1>4. CASE ~Announces BY <1>1, <1>2, <1>3, <1>4, RowsStay, FollowFrame
<1>5. CASE Announces
  <2> DEFINE inc == ev.inc
             recovered == ev.transition = "recovered"
             kind == IF recovered THEN "recovered" ELSE IF HasDelivery(inc, "opened", 0) THEN "reminder" ELSE "opened"
             quiet == IF recovered THEN HasDelivery(inc, "recovered", 0) ELSE HasDelivery(inc, "opened", now - QuietTime)
             n == Cardinality(Recipients)
             rows == [r \in 1..n |-> EnqueueDelivery(inc, kind)]
             m == Len(deliveries)
  <2>1. deliveries' = IF quiet THEN deliveries ELSE deliveries \o rows BY <1>1, <1>5 DEF QueueTransition
  <2>2. n \in Nat /\ (Recipients # {} => n > 0) BY CollectorAssumption, FS_CardinalityType, FS_EmptySet
  <2>3. /\ IsList(deliveries) /\ m \in Nat /\ DOMAIN deliveries = 1..m
        /\ \A d \in DOMAIN deliveries : DeliveryRow(deliveries[d])
        /\ inc \in DOMAIN incidents /\ now \in Nat
    BY <1>1, <1>5, ListIs DEF DeliveriesFollow
  <2>4. \A i : ~Announcing(i)' /\ (Announcing(i) <=> i = inc) BY <1>1, <1>5 DEF Announcing
  <2>5. (recovered => kind = "recovered") /\ (~recovered => kind # "recovered") OBVIOUS
  <2>6. /\ quiet => Told(inc)
        /\ recovered => (quiet <=> RecoveryOf(inc) # {})
    BY <2>3 DEF HasDelivery, RecoveryOf, DeliveryRow, Told
  <2> HIDE DEF inc, kind, quiet, n, m
  <2>7. ASSUME quiet PROVE DeliveriesFollow'
    <3>1. deliveries' = deliveries BY <2>1, <2>7
    <3>4. IsList(deliveries') BY <2>3, <3>1
    <3>5. ASSUME Undisturbed', NEW i \in DOMAIN incidents'
          PROVE  /\ Open(i)' => RecoveryOf(i)' = {}
                 /\ Open(i)' /\ Recipients # {} => Told(i)'
                 /\ ~Open(i)' => Cardinality(RecoveryOf(i)') = Cardinality(Recipients)
      BY <1>1, <1>2, <2>4, <2>6, <2>7, <3>1, <3>5 DEF DeliveriesFollow, RecoveryOf, Told
    <3> QED BY <1>1, <1>3, <2>4, <2>3, <3>1, <3>4, <3>5 DEF DeliveriesFollow, DeliveryRow
  <2>8. ASSUME ~quiet PROVE DeliveriesFollow'
    <3>1. /\ IsList(rows) /\ Len(rows) = n /\ \A r \in 1..n : rows[r] = EnqueueDelivery(inc, kind)
      <4>1. rows = [r \in 1..n |-> rows[r]] OBVIOUS
      <4> HIDE DEF rows
      <4>2. IsList(rows) /\ Len(rows) = n BY <2>2, <4>1, ListOf
      <4> USE DEF rows
      <4> QED BY <4>2
    <3> HIDE DEF rows
    <3>2. /\ IsList(deliveries') /\ DOMAIN deliveries' = 1..(m + n)
          /\ \A k \in 1..m : deliveries'[k] = deliveries[k]
          /\ \A k \in (m + 1)..(m + n) : deliveries'[k] = EnqueueDelivery(inc, kind)
      <4>1. deliveries' = deliveries \o rows BY <2>1, <2>8
      <4>2. /\ IsList(deliveries') /\ DOMAIN deliveries' = 1..(m + n)
            /\ \A k \in 1..m : deliveries'[k] = deliveries[k]
            /\ \A k \in (m + 1)..(m + n) : deliveries'[k] = rows[k - m]
        BY <2>3, <3>1, <4>1, Joined DEF m
      <4>3. \A k \in (m + 1)..(m + n) : k - m \in 1..n BY <2>2, <2>3
      <4> QED BY <3>1, <4>2, <4>3
    <3>3. \A k \in (m + 1)..(m + n) : deliveries'[k].inc = inc /\ deliveries'[k].kind = kind /\ deliveries'[k].at = now
      BY <3>2 DEF EnqueueDelivery
    <3>4. \A d \in DOMAIN deliveries' : d \in 1..m \/ d \in (m + 1)..(m + n) BY <2>2, <2>3, <3>2
    <3>6. \A i : Told(i) => Told(i)' BY <2>2, <2>3, <3>2 DEF Told
    <3>7. \A i : i = inc /\ Recipients # {} => Told(i)'
      <4>1. n > 0 => m + 1 \in (m + 1)..(m + n) /\ m + 1 \in DOMAIN deliveries' BY <2>2, <2>3, <3>2
      <4> QED BY <2>2, <3>3, <4>1 DEF Told
    <3>8. \A i : RecoveryOf(i)' = IF i = inc /\ kind = "recovered" THEN RecoveryOf(i) \cup ((m + 1)..(m + n)) ELSE RecoveryOf(i)
      BY <2>2, <2>3, <3>2, <3>3, <3>4 DEF RecoveryOf
    <3>9. ASSUME Undisturbed', NEW i \in DOMAIN incidents'
          PROVE  /\ Open(i)' => RecoveryOf(i)' = {}
                 /\ Open(i)' /\ Recipients # {} => Told(i)'
                 /\ ~Open(i)' => Cardinality(RecoveryOf(i)') = Cardinality(Recipients)
      <4>1. /\ Open(i)' <=> Open(i)
            /\ Open(i) => RecoveryOf(i) = {}
            /\ Open(i) /\ Recipients # {} => Told(i) \/ i = inc
            /\ ~Open(i) => \/ Cardinality(RecoveryOf(i)) = Cardinality(Recipients)
                           \/ i = inc /\ RecoveryOf(i) = {} /\ recovered
            /\ i = inc /\ recovered => ~Open(i)
        BY <1>1, <1>2, <2>4, <3>9 DEF DeliveriesFollow
      <4>2. CASE i # inc BY <3>6, <3>8, <4>1, <4>2
      <4>3. CASE i = inc /\ Open(i) BY <2>5, <3>7, <3>8, <4>1, <4>3
      <4>4. CASE i = inc /\ ~Open(i) /\ recovered
        <5>2. Cardinality((m + 1)..(m + n)) = n BY <2>2, <2>3, CardinalityOfInterval
        <5> QED BY <4>1, <4>4, <2>5, <2>6, <2>8, <3>8, <5>2 DEF n
      <4>5. CASE i = inc /\ ~Open(i) /\ ~recovered BY <2>5, <3>8, <4>1, <4>5
      <4> QED BY <4>2, <4>3, <4>4, <4>5
    <3> QED
      BY <1>1, <1>3, <2>4, <3>2, <2>3, <3>4, <3>9 DEF DeliveriesFollow, DeliveryRow, EnqueueDelivery
  <2> QED BY <2>7, <2>8
<1> QED BY <1>4, <1>5

LEMMA FollowStep ==
    CollectorInv /\ OutageInv /\ DeliveriesFollow /\ [CollectorNext]_collectorVars => DeliveriesFollow'
  BY ReconcileFollows, OtherFollows, SendFollows, UpsertFollows, QueueFollows DEF CollectorNext, Cycle, WebStep

LEMMA CollectorAlways == CollectorSpec => [](CollectorInv /\ OutageInv /\ DeliveriesFollow)
<1>1. CollectorInit => CollectorInv /\ OutageInv /\ DeliveriesFollow BY CollectorStart, OutageStart, DeliveriesStart
<1>2. CollectorInv /\ OutageInv /\ DeliveriesFollow /\ [CollectorNext]_collectorVars
         => (CollectorInv /\ OutageInv /\ DeliveriesFollow)'
  BY CollectorStep, OutageStep, FollowStep
<1> QED BY <1>1, <1>2, PTL DEF CollectorSpec

LEMMA AlertsFollow == CollectorInv /\ DeliveriesFollow => AlertsFollowIncidents
<1> SUFFICES ASSUME DeliveriesFollow, pc = "claim", Undisturbed PROVE
       \A i \in DOMAIN incidents :
          /\ Open(i) /\ Recipients # {} => \E d \in DOMAIN deliveries : deliveries[d].inc = i
          /\ ~Active(i) => Cardinality({d \in DOMAIN deliveries : deliveries[d].inc = i /\ deliveries[d].kind = "recovered"})
                              = Cardinality(Recipients)
  BY DEF AlertsFollowIncidents, ActiveIsAlerted, RecoveryIsAnnounced
<1> QED BY DEF DeliveriesFollow, Told, RecoveryOf, Announcing, Open

\* The table of incidents tells what a monitor has found, and what happened to
\* an incident reached the outbox, for any monitor, recipients, histories and
\* faults, next to those that a late acknowledgement has made active
\* again (statusMachine.ts, collector.ts, alertService.ts, store.ts).
THEOREM CollectorSound == CollectorSpec => []CollectorIsSound
<1>1. CollectorInv => IncidentsConsistent BY DEF CollectorInv, IncidentsConsistent
<1>3. CollectorInv /\ OutageInv /\ DeliveriesFollow => CollectorIsSound
  BY <1>1, AlertsFollow DEF CollectorIsSound
<1> QED BY <1>3, CollectorAlways, PTL

\* An incident of a monitor with one reason is closed by two healthy samples in
\* a row, however the probes alternate, unless a fault made the collector
\* forget the outage, or a late acknowledgement had made it active again
\* (statusMachine.ts, collector.ts, collector-main.ts, store.ts).
THEOREM IncidentsDoNotFlap == CollectorSpec => NoFlapping
<1> DEFINE closes == \A i \in DOMAIN incidents :
              mon \in OneReason /\ ~nameless /\ Open(i) /\ incidents'[i].state = "recovered" =>
                  \/ Recovered(history)
                  \/ crashes + busy > 0 /\ \A k \in DOMAIN history : history[k].eff \notin AlertLevels
<1>2. CollectorInv /\ OutageInv /\ [CollectorNext]_collectorVars => [closes]_collectorVars
  BY ClosedBySamples DEF ClosesOutage
<1> HIDE DEF closes
<1>3. CollectorSpec => [][closes]_collectorVars BY <1>2, CollectorAlways, PTL DEF CollectorSpec
<1> QED BY <1>3 DEF NoFlapping, closes
======

------ MODULE ZaloLinks ------
(* Linking a Zalo chat to an account of the legacy monitor: link codes of
   the browser API, the bot's webhook, which the provider may deliver more
   than once, and unlinking.  Sources: apps/web/src/server/http/
   zaloRoutes.ts, security/zaloLink.ts and storage/store.ts. *)
EXTENDS Integers

CONSTANTS
    Principals,    \* accounts
    Codes,         \* link codes that may be drawn (random, never drawn twice)
    Chats,         \* private chats with the bot
    Messages,      \* message ids of the provider
    CodeTtl,       \* linkTtlSeconds
    MaxZaloTime    \* bound on the clock

VARIABLES
    zTime,
    zCodes,        \* table zalo_link_codes, by code
    zLinks,        \* table zalo_links, by principal
    zEvents,       \* table zalo_webhook_events: message id -> principal
    sentLinks      \* messages people have sent the bot: id -> [code, chat]

zaloVars == <<zTime, zCodes, zLinks, zEvents, sentLinks>>

NoFunction == [x \in {} |-> x]
With(f, k, v) == [x \in DOMAIN f \cup {k} |-> IF x = k THEN v ELSE f[x]]

ZaloInit ==
    /\ zTime = 0 /\ zCodes = NoFunction /\ zLinks = NoFunction
    /\ zEvents = NoFunction /\ sentLinks = NoFunction

ZaloTick == zTime < MaxZaloTime /\ zTime' = zTime + 1 /\ UNCHANGED <<zCodes, zLinks, zEvents, sentLinks>>

InsertCode(p, c) ==
    zCodes' = With(zCodes, c, [owner |-> p, expires |-> zTime + CodeTtl, consumed |-> FALSE])

CreateZaloLinkCode(p, c) ==
    /\ c \notin DOMAIN zCodes
    /\ InsertCode(p, c)
    /\ UNCHANGED <<zTime, zLinks, zEvents, sentLinks>>

\* Somebody sends the bot a /link command with a code.
SendLinkCommand(m, c, chat) ==
    /\ m \notin DOMAIN sentLinks
    /\ sentLinks' = With(sentLinks, m, [code |-> c, chat |-> chat])
    /\ UNCHANGED <<zTime, zCodes, zLinks, zEvents>>

ValidCode(c) == c \in DOMAIN zCodes /\ ~zCodes[c].consumed /\ zCodes[c].expires > zTime

ClaimedByOther(chat, p) == \E q \in DOMAIN zLinks : zLinks[q].chat = chat /\ zLinks[q].active /\ q # p

\* chat_id_hash is UNIQUE over disabled rows as well: the insert of a second
\* principal aborts the transaction.
ChatOfOther(chat, p) == \E q \in DOMAIN zLinks : zLinks[q].chat = chat /\ q # p

NewEvent(m) == m \notin DOMAIN zEvents

\* Mutant of ConsumeZaloLink: the code is not marked as used.
ConsumeKeepsCode(m) ==
    /\ m \in DOMAIN sentLinks /\ NewEvent(m)
    /\ LET c == sentLinks[m].code
           chat == sentLinks[m].chat
           p == zCodes[c].owner
       IN  /\ ValidCode(c) /\ ~ClaimedByOther(chat, p) /\ ~ChatOfOther(chat, p)
           /\ zLinks' = With(zLinks, p, [chat |-> chat, active |-> TRUE])
           /\ zEvents' = With(zEvents, m, p)
    /\ UNCHANGED <<zTime, zCodes, sentLinks>>

\* consumeZaloLink: one transaction, whose refusals leave nothing behind.
ConsumeZaloLink(m) ==
    /\ m \in DOMAIN sentLinks /\ NewEvent(m)
    /\ LET c == sentLinks[m].code
           chat == sentLinks[m].chat
           p == zCodes[c].owner
       IN  /\ ValidCode(c) /\ ~ClaimedByOther(chat, p) /\ ~ChatOfOther(chat, p)
           /\ zLinks' = With(zLinks, p, [chat |-> chat, active |-> TRUE])
           /\ zCodes' = [zCodes EXCEPT ![c].consumed = TRUE]
           /\ zEvents' = With(zEvents, m, p)
    /\ UNCHANGED <<zTime, sentLinks>>

LinkActive(p) == p \in DOMAIN zLinks /\ zLinks[p].active

DisableRow(p) == zLinks' = [zLinks EXCEPT ![p].active = FALSE]

DisableZaloLink(p) ==
    /\ LinkActive(p) /\ DisableRow(p)
    /\ UNCHANGED <<zTime, zCodes, zEvents, sentLinks>>

ZaloNext ==
    \/ ZaloTick
    \/ \E p \in Principals, c \in Codes : CreateZaloLinkCode(p, c)
    \/ \E m \in Messages, c \in Codes, chat \in Chats : SendLinkCommand(m, c, chat)
    \/ \E m \in Messages : ConsumeZaloLink(m)
    \/ \E p \in Principals : DisableZaloLink(p)

ZaloSpec == ZaloInit /\ [][ZaloNext]_zaloVars

\* Alerts of an account go only to a chat from which a code of that account
\* was sent, no chat gets the alerts of two accounts,
\* and a code links once, however many messages carry it and however often the
\* provider delivers them.
LinkIsProved ==
    /\ \A p \in DOMAIN zLinks :
         /\ \E m \in DOMAIN zEvents :
               zEvents[m] = p /\ sentLinks[m].chat = zLinks[p].chat /\ zCodes[sentLinks[m].code].owner = p
         /\ \A q \in DOMAIN zLinks : zLinks[q].chat = zLinks[p].chat => q = p
    /\ \A m, n \in DOMAIN zEvents : sentLinks[m].code = sentLinks[n].code => m = n

======

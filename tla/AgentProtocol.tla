------ MODULE AgentProtocol ------
(* One request of the API to the configuration agent:
   apps/api/src/infrastructure/configAgentClient.ts and
   apps/config-agent/src/protocol/authenticatedServer.ts with the frames
   of packages/config-contracts/src/framing.ts.  Every request takes a
   connection of its own to the agent's socket on the same host, so both
   sides read one clock.  A frame arrives in two chunks.  The client gives
   up by one of three timers while the handler goes on; a copy of a signed
   frame may arrive on another connection; the agent may be restarted. *)
EXTENDS Integers, FiniteSets, FiniteSetsExt

CONSTANTS
    Exchanges,        \* requests, each with its own id
    ConnectTimeout, ReadTimeout, TotalTimeout,   \* timers of the client
    RequestTtl, ClockSkew,                       \* what the agent accepts
    ReplayLimit,      \* ids the agent remembers (2048)
    MaxProtocolTime, MaxFrameCopies,   \* bounds
    MaxProtocolMishaps   \* copies of a frame and restarts of the agent

ASSUME AgentProtocolAssumption ==
    /\ {ConnectTimeout, ReadTimeout, TotalTimeout, RequestTtl, ReplayLimit} \subseteq Nat \ {0}
    /\ {ClockSkew, MaxProtocolTime, MaxFrameCopies, MaxProtocolMishaps} \subseteq Nat

VARIABLES
    protocolTime,
    client,       \* the client's side of every exchange
    conn,         \* the agent's side of every connection
    replayed,     \* replayedRequests: [id, expires, place], in order of their places
    protocolMishaps,
    handled,      \* history: how often the request was handed to its handler
    excused       \* history: requests whose id the agent could not know any more

clientSide == <<client>>
agentSide == <<conn, replayed, handled, excused>>
protocolVars == <<protocolTime, clientSide, agentSide, protocolMishaps>>

\* Connection 0 is the client's, the others carry copies of its frame.
Connections == Exchanges \X (0..MaxFrameCopies)
NoClient == [pc |-> "idle", issued |-> 0, readBy |-> 0, answer |-> "none", answered |-> 0]
NoConnection == [pc |-> "none", now |-> 0]
ClosedConnection == [pc |-> "closed", now |-> 0]

\* Requests expire with the client's total timer.
ExpiresAt(x) == client[x].issued + TotalTimeout

ProtocolInit ==
    /\ protocolTime = 0
    /\ client = [x \in Exchanges |-> NoClient]
    /\ conn = [k \in Connections |-> NoConnection]
    /\ replayed = {} /\ protocolMishaps = 0
    /\ handled = [x \in Exchanges |-> 0] /\ excused = {}

-----
\* The client.
\* The timers are cleared.
SettleClient(x, answer) == client' = [client EXCEPT ![x].pc = "settled", ![x].answer = answer, ![x].readBy = 0]

Request(x) ==
    /\ client[x].pc = "idle"
    /\ client' = [client EXCEPT ![x].pc = "connecting", ![x].issued = protocolTime]
    /\ UNCHANGED <<protocolTime, agentSide, protocolMishaps>>

\* The connection is made: the frame is written and the read timer armed.
Connected(x) ==
    /\ client[x].pc = "connecting"
    /\ client' = [client EXCEPT ![x].pc = "waiting", ![x].readBy = protocolTime + ReadTimeout]
    /\ conn' = [conn EXCEPT ![<<x, 0>>] = [NoConnection EXCEPT !.pc = "empty"]]
    /\ UNCHANGED <<protocolTime, replayed, handled, excused, protocolMishaps>>

\* The first chunk of the answer arms the read timer again.
FirstChunk(x) ==
    /\ client[x].pc = "waiting" /\ conn[<<x, 0>>].pc \in {"answered", "failed"}
    /\ client' = [client EXCEPT ![x].pc = "receiving", ![x].readBy = protocolTime + ReadTimeout]
    /\ UNCHANGED <<protocolTime, agentSide, protocolMishaps>>

\* What the answer says is checked last: negotiate compares the versions, the
\* catalog and the operations the agent offers, every other call parses the body
\* it asked for; rejectResponse maps the code of a failed call.
CallEnds(failed) == IF failed THEN {"CONFIG_AGENT_REJECTED"} ELSE {"ok", "CONFIG_AGENT_REJECTED"}

\* The frame is complete and the agent has ended the connection: request
\* checks the answer, which names the agent's time when the request came.
EndOfAnswer(x) ==
    /\ client[x].pc = "receiving" /\ conn[<<x, 0>>].pc \in {"answered", "failed"}
    /\ \E answer \in IF conn[<<x, 0>>].now + RequestTtl <= protocolTime
                     THEN {"AGENT_RESPONSE_EXPIRED"} ELSE CallEnds(conn[<<x, 0>>].pc = "failed") :
          client' = [client EXCEPT ![x].pc = "settled", ![x].answered = conn[<<x, 0>>].now, ![x].answer = answer, ![x].readBy = 0]
    /\ conn' = [conn EXCEPT ![<<x, 0>>] = ClosedConnection]
    /\ UNCHANGED <<protocolTime, replayed, handled, excused, protocolMishaps>>

\* The connection closes without an answer, or in the middle of one.
Closed(x) ==
    /\ client[x].pc \in {"waiting", "receiving"} /\ conn[<<x, 0>>].pc = "closed"
    /\ SettleClient(x, IF client[x].pc = "waiting" THEN "AGENT_EMPTY_RESPONSE" ELSE "AGENT_TRAILING_FRAME")
    /\ UNCHANGED <<protocolTime, agentSide, protocolMishaps>>

ConnectFails(x) ==
    /\ client[x].pc = "connecting"
    /\ SettleClient(x, "AGENT_CONNECT_FAILED")
    /\ UNCHANGED <<protocolTime, agentSide, protocolMishaps>>

\* Each timer destroys the socket; the agent learns of it when it answers.
TimerFires(x) ==
    /\ \/ client[x].pc = "connecting" /\ protocolTime >= client[x].issued + ConnectTimeout
       \/ client[x].pc \in {"waiting", "receiving"} /\ protocolTime >= client[x].readBy
       \/ client[x].pc \in {"connecting", "waiting", "receiving"} /\ protocolTime >= client[x].issued + TotalTimeout
    /\ SettleClient(x, "AGENT_TIMEOUT")
    /\ UNCHANGED <<protocolTime, agentSide, protocolMishaps>>

-----
\* The agent.  A peer that is not the configured user or group, or cannot be
\* told, is cut off before anything is read.
RefusePeer(k) ==
    /\ conn[k].pc = "empty"
    /\ conn' = [conn EXCEPT ![k] = ClosedConnection]
    /\ UNCHANGED <<protocolTime, clientSide, replayed, handled, excused, protocolMishaps>>

\* A chunk that completes no frame is kept by the decoder.
PushChunk(k) ==
    /\ conn[k].pc = "empty"
    /\ conn' = [conn EXCEPT ![k].pc = "half"]
    /\ UNCHANGED <<protocolTime, clientSide, replayed, handled, excused, protocolMishaps>>

InWindow(x, now) ==
    /\ client[x].issued <= now + ClockSkew
    /\ client[x].issued >= now - RequestTtl - ClockSkew
    /\ ExpiresAt(x) > client[x].issued
    /\ ExpiresAt(x) >= now
    /\ ExpiresAt(x) <= now + RequestTtl + ClockSkew

\* Mutant of Unexpired: ids are forgotten a tick before their request expires.
UnexpiredBriefly(now) == {entry \in replayed : entry.expires > now + 1}

Unexpired(now) == {entry \in replayed : entry.expires > now}

Ids(entries) == {entry.id : entry \in entries}

\* A request whose id goes in the very instant in which it expires is still in
\* its window.
Lapsed(now) == Ids({entry \in replayed : entry.expires = now})

\* What is left of the known ids when one more is to be remembered: at the
\* limit, the one in the first place goes.
WithRoom(known) ==
    IF Cardinality(known) < ReplayLimit THEN {known}
    ELSE {known \ {oldest} : oldest \in {entry \in known : \A other \in known : entry.place <= other.place}}

NextPlace(known) == Max({0} \cup {entry.place : entry \in known}) + 1

\* dispatch: the window and the signature, then the id.  What is refused
\* closes the connection.
Accept(k) ==
    LET x == k[1]
        known == Unexpired(protocolTime)
    IN  /\ InWindow(x, protocolTime) /\ x \notin Ids(known)
        /\ conn' = [conn EXCEPT ![k] = [pc |-> "handling", now |-> protocolTime]]
        /\ handled' = [handled EXCEPT ![x] = @ + 1]
        /\ \E kept \in WithRoom(known) :
              /\ replayed' = kept \cup {[id |-> x, expires |-> ExpiresAt(x), place |-> NextPlace(known)]}
              /\ excused' = excused \cup Lapsed(protocolTime) \cup Ids(known \ kept)

Refuse(k) ==
    /\ conn' = [conn EXCEPT ![k] = ClosedConnection] /\ UNCHANGED handled
    /\ \/ ~InWindow(k[1], protocolTime) /\ UNCHANGED <<replayed, excused>>
       \/ /\ InWindow(k[1], protocolTime) /\ k[1] \in Ids(Unexpired(protocolTime))
          /\ replayed' = Unexpired(protocolTime)
          /\ excused' = excused \cup Lapsed(protocolTime)

Dispatch(k) ==
    /\ conn[k].pc = "half" /\ (Accept(k) \/ Refuse(k))
    /\ UNCHANGED <<protocolTime, clientSide, protocolMishaps>>

\* What was dispatched is answered, if anyone still listens.
Answer(k, answer) ==
    /\ conn[k].pc = "handling"
    /\ conn' = [conn EXCEPT ![k] = IF k[2] = 0 /\ client[k[1]].pc = "waiting" THEN [@ EXCEPT !.pc = answer]
                                   ELSE ClosedConnection]
    /\ UNCHANGED <<protocolTime, clientSide, replayed, handled, excused, protocolMishaps>>

\* No handler is installed for the operation: it is refused like one that threw.
NoHandler(k) == Answer(k, "failed")

\* The handler returns; a body that holds a value, or is not of the operation's
\* schema, is not handed out.
HandlerReturns(k) == \E answer \in {"answered", "failed"} : Answer(k, answer)

\* The handler throws: a code is made of what it threw or of the operation.
HandlerThrows(k) == Answer(k, "failed")

HandlerEnds(k) == NoHandler(k) \/ HandlerReturns(k) \/ HandlerThrows(k)

-----
\* A frame that was sent arrives again, on a connection of its own.
CopyFrame(x) ==
    \E n \in 1..MaxFrameCopies :
        /\ protocolMishaps < MaxProtocolMishaps /\ protocolMishaps' = protocolMishaps + 1
        /\ client[x].pc \notin {"idle", "connecting"} /\ conn[<<x, n>>] = NoConnection
        /\ conn' = [conn EXCEPT ![<<x, n>>].pc = "empty"]
        /\ UNCHANGED <<protocolTime, clientSide, replayed, handled, excused>>

\* The agent is killed and started again: it knows no ids.  An answer it has
\* sent may be lost or not.
RestartAgent ==
    /\ protocolMishaps < MaxProtocolMishaps /\ protocolMishaps' = protocolMishaps + 1
    /\ \E sent \in SUBSET {k \in Connections : conn[k].pc \in {"answered", "failed"}} :
          conn' = [k \in Connections |-> IF k \in sent \/ conn[k] = NoConnection THEN conn[k]
                                         ELSE ClosedConnection]
    /\ replayed' = {} /\ excused' = excused \cup Ids(replayed)
    /\ UNCHANGED <<protocolTime, clientSide, handled>>

ProtocolTick ==
    /\ protocolTime < MaxProtocolTime /\ protocolTime' = protocolTime + 1
    /\ UNCHANGED <<clientSide, agentSide, protocolMishaps>>

ClientStep(x) ==
    Connected(x) \/ FirstChunk(x) \/ EndOfAnswer(x) \/ Closed(x) \/ ConnectFails(x) \/ TimerFires(x)
AgentStep(k) == RefusePeer(k) \/ PushChunk(k) \/ Dispatch(k) \/ HandlerEnds(k)

ProtocolNext ==
    \/ \E x \in Exchanges : Request(x) \/ ClientStep(x) \/ CopyFrame(x)
    \/ \E k \in Connections : AgentStep(k)
    \/ RestartAgent \/ ProtocolTick

ProtocolSpec == ProtocolInit /\ [][ProtocolNext]_protocolVars

-----
\* The handler runs at most once for a request, however often and late its
\* frame arrives, unless the agent was restarted, had to make place for other
\* ids, or got the copy in the very instant in which the request expires.
HandledOnce == \A x \in Exchanges : handled[x] <= 1 \/ x \in excused

\* A client that was told "ok" was answered for its own request, which the
\* agent took while the client was waiting and not before it was issued.
AnswerIsTrue ==
    \A x \in Exchanges : client[x].pc = "settled" /\ client[x].answer = "ok" =>
        handled[x] >= 1 /\ client[x].answered \in client[x].issued..ExpiresAt(x)

\* The agent never remembers more ids than its limit, nor one twice.
ReplayIsBounded ==
    /\ Cardinality(replayed) <= ReplayLimit
    /\ \A e, f \in replayed : e.id = f.id => e = f

ProtocolIsSafe == HandledOnce /\ AnswerIsTrue /\ ReplayIsBounded
======

------ MODULE Operations_proofs ------
(* What the agent and its clients guarantee over the signed socket, for
   any number of requests, copies and late frames; what the agent keeps on
   disk, for any number of artifacts, files, calls and interruptions; and
   how variables are changed, from the inventory of the sources to the
   page, for any sources, edits, clicks and answers. *)
EXTENDS MCOperations, FiniteSetTheorems, FunctionTheorems, SequenceTheorems, WellFoundedInduction, TLAPS

-----
(* The agent's protocol. *)
ProtocolAnswers ==
    {"none", "ok", "AGENT_RESPONSE_EXPIRED", "CONFIG_AGENT_REJECTED", "AGENT_EMPTY_RESPONSE",
     "AGENT_TRAILING_FRAME", "AGENT_CONNECT_FAILED", "AGENT_TIMEOUT"}

Clients ==
    [pc : {"idle", "connecting", "waiting", "receiving", "settled"},
     issued : Nat, readBy : Nat, answer : ProtocolAnswers, answered : Nat]

ServerSides ==
    [pc : {"none", "empty", "half", "handling", "answered", "failed", "closed"}, now : Nat]

ProtocolTypeOK ==
    /\ protocolTime \in Nat
    /\ client \in [Exchanges -> Clients]
    /\ conn \in [Connections -> ServerSides]
    /\ handled \in [Exchanges -> Nat]

\* A request is issued before it is sent, and sent before it is handled.
SentInv ==
    \A x \in Exchanges :
        /\ client[x].issued <= protocolTime
        /\ client[x].pc = "idle" =>
              handled[x] = 0 /\ \A n \in 0..MaxFrameCopies : conn[<<x, n>>] = NoConnection

\* What the agent remembers is of requests that were sent.
EntriesInv ==
    /\ IsFiniteSet(replayed)
    /\ \A e \in replayed :
          /\ e.id \in Exchanges /\ client[e.id].pc # "idle"
          /\ e.expires = ExpiresAt(e.id)

\* A request that was handled is remembered as long as it is accepted.
RememberedInv ==
    \A x \in Exchanges : handled[x] >= 1 =>
        x \in excused \/ x \in Ids(replayed) \/ ExpiresAt(x) < protocolTime

\* What is on the client's own connection was handled in the request's time.
InTimeInv ==
    \A x \in Exchanges : conn[<<x, 0>>].pc \in {"handling", "answered", "failed"} =>
        handled[x] >= 1 /\ conn[<<x, 0>>].now \in client[x].issued..ExpiresAt(x)

ProtocolInv ==
    /\ ProtocolTypeOK /\ SentInv /\ EntriesInv /\ RememberedInv /\ InTimeInv
    /\ HandledOnce /\ AnswerIsTrue /\ ReplayIsBounded

LEMMA ConnectionOf == \A x \in Exchanges : \A n \in 0..MaxFrameCopies : <<x, n>> \in Connections
  BY DEF Connections

LEMMA FirstConnection == \A x \in Exchanges : <<x, 0>> \in Connections
  BY AgentProtocolAssumption DEF Connections

LEMMA ProtocolStart == ProtocolInit => ProtocolInv
<1> SUFFICES ASSUME ProtocolInit PROVE ProtocolInv  OBVIOUS
<1>0. NoClient \in Clients /\ NoConnection \in ServerSides
  BY DEF NoClient, NoConnection, Clients, ServerSides, ProtocolAnswers
<1>1. ProtocolTypeOK  BY <1>0 DEF ProtocolInit, ProtocolTypeOK
<1>3. SentInv /\ RememberedInv /\ HandledOnce
  BY ConnectionOf DEF ProtocolInit, SentInv, RememberedInv, HandledOnce, NoClient
<1>4. InTimeInv /\ AnswerIsTrue  BY FirstConnection DEF ProtocolInit, InTimeInv, AnswerIsTrue, NoClient, NoConnection
<1>2. EntriesInv /\ ReplayIsBounded
  BY FS_EmptySet, AgentProtocolAssumption DEF ProtocolInit, EntriesInv, ReplayIsBounded
<1> QED BY <1>1, <1>2, <1>3, <1>4 DEF ProtocolInv

\* What the client does on its own side: it leaves the time, and what the
\* agent knows, as they are.
ClientMoves(x) ==
    Request(x) \/ Connected(x) \/ FirstChunk(x) \/ EndOfAnswer(x) \/ Closed(x) \/ ConnectFails(x) \/ TimerFires(x)

\* How the client's side of an exchange moves.
LEMMA ClientMove ==
    ASSUME ProtocolInv, NEW x \in Exchanges, ClientMoves(x)
    PROVE  /\ client' \in [Exchanges -> Clients] /\ conn' \in [Connections -> ServerSides]
           /\ client'[x].pc # "idle" /\ client'[x].issued <= protocolTime
           /\ client[x].pc # "idle" => client'[x].issued = client[x].issued
           /\ \A y \in Exchanges : y # x => client'[y] = client[y]
           /\ \A k \in Connections : k # <<x, 0>> => conn'[k] = conn[k]
           /\ \/ conn' = conn
              \/ conn'[<<x, 0>>].pc \in {"empty", "closed"}
           /\ client'[x].pc = "settled" /\ client'[x].answer = "ok" =>
                 handled[x] >= 1 /\ client'[x].answered \in client[x].issued..ExpiresAt(x)
           /\ UNCHANGED <<protocolTime, replayed, handled, excused>>
<1>0. /\ protocolTime \in Nat /\ client \in [Exchanges -> Clients] /\ conn \in [Connections -> ServerSides]
      /\ client[x].issued <= protocolTime /\ ReadTimeout \in Nat
      /\ <<x, 0>> \in Connections
  BY FirstConnection, AgentProtocolAssumption DEF ProtocolInv, ProtocolTypeOK, SentInv
<1>p. PICK c \in Clients : c = client[x]  BY <1>0
<1>q. PICK s \in ServerSides : s = conn[<<x, 0>>]  BY <1>0
<1>t. /\ c.pc \in {"idle", "connecting", "waiting", "receiving", "settled"} /\ c.issued \in Nat
      /\ c.readBy \in Nat /\ c.answer \in ProtocolAnswers /\ c.answered \in Nat /\ s.now \in Nat
      /\ c.issued <= protocolTime /\ protocolTime + ReadTimeout \in Nat /\ c.pc = client[x].pc /\ c.issued = client[x].issued
  BY <1>0, <1>p, <1>q DEF Clients, ServerSides
<1>1. CASE Request(x)
  <2>1. client' = [client EXCEPT ![x] = [c EXCEPT !.pc = "connecting", !.issued = protocolTime]]
        /\ conn' = conn /\ UNCHANGED <<protocolTime, replayed, handled, excused>> /\ c.pc = "idle"
    BY <1>0, <1>1, <1>p DEF Request, agentSide
  <2>2. [c EXCEPT !.pc = "connecting", !.issued = protocolTime] \in Clients
    BY <1>0, <1>t DEF Clients, ProtocolAnswers
  <2>3. PICK d \in Clients : d = [c EXCEPT !.pc = "connecting", !.issued = protocolTime]  BY <2>2
  <2>4. d.pc = "connecting" /\ d.issued = protocolTime  BY <2>3 DEF Clients
  <2>5. client' = [client EXCEPT ![x] = d]  BY <2>1, <2>3
  <2> HIDE <2>1, <2>3
  <2> QED BY <1>0, <1>t, <2>1, <2>4, <2>5
<1>2. CASE Connected(x)
  <2>1. /\ client' = [client EXCEPT ![x] = [c EXCEPT !.pc = "waiting", !.readBy = protocolTime + ReadTimeout]]
        /\ conn' = [conn EXCEPT ![<<x, 0>>] = [NoConnection EXCEPT !.pc = "empty"]]
        /\ UNCHANGED <<protocolTime, replayed, handled, excused>> /\ c.pc = "connecting"
    BY <1>0, <1>2, <1>p DEF Connected
  <2>2. [c EXCEPT !.pc = "waiting", !.readBy = protocolTime + ReadTimeout] \in Clients
    BY <1>0, <1>t DEF Clients, ProtocolAnswers
  <2>3. PICK d \in Clients : d = [c EXCEPT !.pc = "waiting", !.readBy = protocolTime + ReadTimeout]  BY <2>2
  <2>4. d.pc = "waiting" /\ d.issued = c.issued  BY <2>3 DEF Clients
  <2>5. client' = [client EXCEPT ![x] = d]  BY <2>1, <2>3
  <2>6. PICK e \in ServerSides : e = [NoConnection EXCEPT !.pc = "empty"] /\ e.pc = "empty"
    <3>1. [NoConnection EXCEPT !.pc = "empty"] = [pc |-> "empty", now |-> 0]  BY DEF NoConnection
    <3>2. [pc |-> "empty", now |-> 0] \in ServerSides  BY DEF ServerSides
    <3> QED BY <3>1, <3>2
  <2>7. conn' = [conn EXCEPT ![<<x, 0>>] = e]  BY <2>1, <2>6
  <2>8. UNCHANGED <<protocolTime, replayed, handled, excused>> /\ c.pc = "connecting" /\ e.pc = "empty"  BY <2>1, <2>6
  <2> HIDE <2>1, <2>3, <2>6
  <2> QED BY <1>0, <1>t, <2>4, <2>5, <2>7, <2>8
<1>3. CASE FirstChunk(x)
  <2>1. client' = [client EXCEPT ![x] = [c EXCEPT !.pc = "receiving", !.readBy = protocolTime + ReadTimeout]]
        /\ conn' = conn /\ UNCHANGED <<protocolTime, replayed, handled, excused>> /\ c.pc = "waiting"
    BY <1>0, <1>3, <1>p DEF FirstChunk, agentSide
  <2>2. [c EXCEPT !.pc = "receiving", !.readBy = protocolTime + ReadTimeout] \in Clients
    BY <1>0, <1>t DEF Clients, ProtocolAnswers
  <2>3. PICK d \in Clients : d = [c EXCEPT !.pc = "receiving", !.readBy = protocolTime + ReadTimeout]  BY <2>2
  <2>4. d.pc = "receiving" /\ d.issued = c.issued  BY <2>3 DEF Clients
  <2>5. client' = [client EXCEPT ![x] = d]  BY <2>1, <2>3
  <2> HIDE <2>1, <2>3
  <2> QED BY <1>0, <1>t, <2>1, <2>4, <2>5
<1>4. CASE EndOfAnswer(x)
  <2>1. PICK answer \in {"ok", "AGENT_RESPONSE_EXPIRED", "CONFIG_AGENT_REJECTED"} :
           client' = [client EXCEPT ![x] = [c EXCEPT !.pc = "settled", !.answered = s.now, !.answer = answer, !.readBy = 0]]
    <3>1. CallEnds(TRUE) \cup CallEnds(FALSE) \subseteq {"ok", "CONFIG_AGENT_REJECTED"}  BY DEF CallEnds
    <3>2. PICK answer \in {"ok", "AGENT_RESPONSE_EXPIRED", "CONFIG_AGENT_REJECTED"} :
             client' = [client EXCEPT ![x].pc = "settled", ![x].answered = s.now, ![x].answer = answer, ![x].readBy = 0]
      BY <1>4, <1>q, <3>1 DEF EndOfAnswer
    <3> QED BY <1>0, <1>p, <3>2
  <2>6. /\ conn' = [conn EXCEPT ![<<x, 0>>] = ClosedConnection]
        /\ UNCHANGED <<protocolTime, replayed, handled, excused>>
        /\ c.pc = "receiving" /\ s.pc \in {"answered", "failed"}
    BY <1>4, <1>p, <1>q DEF EndOfAnswer
  <2>8. ClosedConnection \in ServerSides /\ ClosedConnection.pc = "closed"  BY DEF ClosedConnection, ServerSides
  <2>7. handled[x] >= 1 /\ s.now \in client[x].issued..ExpiresAt(x)  BY <1>q, <2>6 DEF ProtocolInv, InTimeInv
  <2>2. [c EXCEPT !.pc = "settled", !.answered = s.now, !.answer = answer, !.readBy = 0] \in Clients
    BY <1>0, <1>t DEF Clients, ProtocolAnswers
  <2>3. PICK d \in Clients : d = [c EXCEPT !.pc = "settled", !.answered = s.now, !.answer = answer, !.readBy = 0]
    BY <2>2
  <2>4. d.pc = "settled" /\ d.issued = c.issued /\ d.answered = s.now  BY <2>3 DEF Clients
  <2>5. client' = [client EXCEPT ![x] = d]  BY <2>1, <2>3
  <2> HIDE <2>1, <2>3
  <2> QED BY <1>0, <1>t, <2>4, <2>5, <2>6, <2>7, <2>8
<1>5. CASE Closed(x) \/ ConnectFails(x) \/ TimerFires(x)
  <2>1. PICK answer \in {"AGENT_EMPTY_RESPONSE", "AGENT_TRAILING_FRAME", "AGENT_CONNECT_FAILED", "AGENT_TIMEOUT"} :
           client' = [client EXCEPT ![x] = [c EXCEPT !.pc = "settled", !.answer = answer, !.readBy = 0]]
    BY <1>0, <1>5, <1>p DEF Closed, ConnectFails, TimerFires, SettleClient
  <2>6. conn' = conn /\ UNCHANGED <<protocolTime, replayed, handled, excused>> /\ c.pc # "idle"
    BY <1>5, <1>p DEF Closed, ConnectFails, TimerFires, agentSide
  <2>2. [c EXCEPT !.pc = "settled", !.answer = answer, !.readBy = 0] \in Clients
    BY <1>0, <1>t DEF Clients, ProtocolAnswers
  <2>3. PICK d \in Clients : d = [c EXCEPT !.pc = "settled", !.answer = answer, !.readBy = 0]  BY <2>2
  <2>4. d.pc = "settled" /\ d.issued = c.issued /\ d.answer # "ok"  BY <2>3 DEF Clients
  <2>5. client' = [client EXCEPT ![x] = d]  BY <2>1, <2>3
  <2> HIDE <2>1, <2>3
  <2> QED BY <1>0, <1>t, <2>4, <2>5, <2>6
<1> QED BY <1>1, <1>2, <1>3, <1>4, <1>5 DEF ClientMoves

LEMMA ClientMoveKeeps ==
    ASSUME ProtocolInv, NEW x \in Exchanges, ClientMoves(x)
    PROVE  ProtocolInv'
<1>0. /\ client \in [Exchanges -> Clients] /\ conn \in [Connections -> ServerSides]
      /\ protocolTime \in Nat /\ handled \in [Exchanges -> Nat]
  BY DEF ProtocolInv, ProtocolTypeOK
<1>1. /\ client' \in [Exchanges -> Clients] /\ conn' \in [Connections -> ServerSides]
      /\ client'[x].pc # "idle" /\ client'[x].issued <= protocolTime
      /\ client[x].pc # "idle" => client'[x].issued = client[x].issued
      /\ \A y \in Exchanges : y # x => client'[y] = client[y]
      /\ \A k \in Connections : k # <<x, 0>> => conn'[k] = conn[k]
      /\ conn' = conn \/ conn'[<<x, 0>>].pc \in {"empty", "closed"}
      /\ client'[x].pc = "settled" /\ client'[x].answer = "ok" =>
            handled[x] >= 1 /\ client'[x].answered \in client[x].issued..ExpiresAt(x)
      /\ protocolTime' = protocolTime /\ replayed' = replayed /\ handled' = handled /\ excused' = excused
  BY ClientMove
<1>2. \A y \in Exchanges : handled[y] >= 1 => ExpiresAt(y)' = ExpiresAt(y) /\ client'[y].issued = client[y].issued
  BY <1>0, <1>1 DEF ExpiresAt, ProtocolInv, SentInv
<1>3. ProtocolTypeOK'  BY <1>0, <1>1 DEF ProtocolTypeOK
<1>4. SentInv'  BY <1>0, <1>1, ConnectionOf DEF ProtocolInv, SentInv
<1>5. EntriesInv'  BY <1>1 DEF ProtocolInv, EntriesInv, ExpiresAt
<1>6. RememberedInv'  BY <1>1, <1>2 DEF ProtocolInv, RememberedInv, Ids
<1>7. InTimeInv'  BY <1>1, <1>2, FirstConnection DEF ProtocolInv, InTimeInv
<1>8. HandledOnce' /\ ReplayIsBounded'  BY <1>1 DEF ProtocolInv, HandledOnce, ReplayIsBounded
<1>9. AnswerIsTrue'  BY <1>1, <1>2 DEF ProtocolInv, AnswerIsTrue
<1> QED BY <1>3, <1>4, <1>5, <1>6, <1>7, <1>8, <1>9 DEF ProtocolInv

LEMMA ConnectionParts ==
    ASSUME NEW k \in Connections
    PROVE  k[1] \in Exchanges /\ k[2] \in 0..MaxFrameCopies /\ k = <<k[1], k[2]>>
BY DEF Connections

\* A connection that was made is of a request that was sent.
LEMMA SentConnection ==
    ASSUME ProtocolInv, NEW k \in Connections, conn[k].pc # "none"
    PROVE  client[k[1]].pc # "idle"
BY ConnectionParts DEF ProtocolInv, SentInv, NoConnection

\* What the agent does with one connection, without looking at the request:
\* the connection is at work only if it was.
LEMMA ConnectionMoveKeeps ==
    ASSUME ProtocolInv, NEW k \in Connections, NEW s \in ServerSides,
           conn' = [conn EXCEPT ![k] = s], client[k[1]].pc # "idle",
           s.pc \in {"handling", "answered", "failed"} => conn[k].pc = "handling" /\ s.now = conn[k].now,
           UNCHANGED <<protocolTime, client, replayed, handled, excused>>
    PROVE  ProtocolInv'
<1>0. conn \in [Connections -> ServerSides]  BY DEF ProtocolInv, ProtocolTypeOK
<1>1. /\ conn' \in [Connections -> ServerSides] /\ conn'[k] = s
      /\ \A j \in Connections : j # k => conn'[j] = conn[j]
  BY <1>0
<1>2. \A x : ExpiresAt(x)' = ExpiresAt(x)  BY DEF ExpiresAt
<1>3. ProtocolTypeOK'  BY <1>1 DEF ProtocolInv, ProtocolTypeOK
<1>4. SentInv'  BY <1>1, ConnectionOf, ConnectionParts DEF ProtocolInv, SentInv
<1>5. EntriesInv' /\ RememberedInv' /\ HandledOnce' /\ ReplayIsBounded' /\ AnswerIsTrue'
  BY <1>2 DEF ProtocolInv, EntriesInv, RememberedInv, HandledOnce, ReplayIsBounded, AnswerIsTrue, Ids
<1>6. InTimeInv'  BY <1>1, <1>2, FirstConnection DEF ProtocolInv, InTimeInv
<1> QED BY <1>3, <1>4, <1>5, <1>6 DEF ProtocolInv

LEMMA AtPc ==
    ASSUME NEW c \in ServerSides, NEW at \in {"half", "answered", "failed"}
    PROVE  /\ [c EXCEPT !.pc = at] \in ServerSides
           /\ [c EXCEPT !.pc = at].pc = at /\ [c EXCEPT !.pc = at].now = c.now
BY DEF ServerSides

LEMMA ServerSteps ==
    ASSUME ProtocolInv, NEW k \in Connections,
           RefusePeer(k) \/ PushChunk(k) \/ HandlerEnds(k)
    PROVE  ProtocolInv'
<1>0. conn \in [Connections -> ServerSides]  BY DEF ProtocolInv, ProtocolTypeOK
<1>1. ClosedConnection \in ServerSides /\ ClosedConnection.pc = "closed"  BY DEF ClosedConnection, ServerSides
<1>p. PICK c \in ServerSides : c = conn[k]  BY <1>0
<1>2. CASE RefusePeer(k)
  <2>1. /\ conn' = [conn EXCEPT ![k] = ClosedConnection] /\ conn[k].pc # "none"
        /\ UNCHANGED <<protocolTime, client, replayed, handled, excused>>
    BY <1>2 DEF RefusePeer, clientSide
  <2> QED BY <1>1, <2>1, SentConnection, ConnectionMoveKeeps
<1>3. CASE PushChunk(k)
  <2>1. PICK s \in ServerSides : s = [c EXCEPT !.pc = "half"] /\ s.pc = "half"  BY AtPc
  <2>2. /\ conn' = [conn EXCEPT ![k] = s] /\ conn[k].pc # "none"
        /\ UNCHANGED <<protocolTime, client, replayed, handled, excused>>
    BY <1>0, <1>3, <1>p, <2>1 DEF PushChunk, clientSide
  <2> QED BY <2>1, <2>2, SentConnection, ConnectionMoveKeeps
<1>4. CASE HandlerEnds(k)
  <2>1. PICK answer \in {"answered", "failed"} : Answer(k, answer)
    BY <1>4 DEF HandlerEnds, NoHandler, HandlerReturns, HandlerThrows
  <2>2. PICK s \in ServerSides : s = [c EXCEPT !.pc = answer] /\ s.pc = answer /\ s.now = c.now
    <3>1. /\ [c EXCEPT !.pc = answer] \in ServerSides
          /\ [c EXCEPT !.pc = answer].pc = answer /\ [c EXCEPT !.pc = answer].now = c.now
      BY AtPc
    <3> QED BY <3>1
  <2>3. /\ conn' = [conn EXCEPT ![k] = s] \/ conn' = [conn EXCEPT ![k] = ClosedConnection]
        /\ conn[k].pc = "handling" /\ UNCHANGED <<protocolTime, client, replayed, handled, excused>>
    BY <1>0, <1>p, <2>1, <2>2 DEF Answer, clientSide
  <2>4. client[k[1]].pc # "idle"  BY <2>3, SentConnection
  <2>5. CASE conn' = [conn EXCEPT ![k] = s]  BY <1>p, <2>2, <2>3, <2>4, <2>5, ConnectionMoveKeeps
  <2>6. CASE conn' = [conn EXCEPT ![k] = ClosedConnection]  BY <1>1, <2>3, <2>4, <2>6, ConnectionMoveKeeps
  <2> QED BY <2>3, <2>5, <2>6
<1> QED BY <1>2, <1>3, <1>4

LEMMA CopyKeeps ==
    ASSUME ProtocolInv, NEW x \in Exchanges, CopyFrame(x)
    PROVE  ProtocolInv'
<1>1. PICK n \in 1..MaxFrameCopies :
         /\ client[x].pc \notin {"idle", "connecting"} /\ conn[<<x, n>>] = NoConnection
         /\ conn' = [conn EXCEPT ![<<x, n>>].pc = "empty"]
         /\ UNCHANGED <<protocolTime, client, replayed, handled, excused>>
  BY DEF CopyFrame, clientSide
<1>2. <<x, n>> \in Connections /\ <<x, n>>[1] = x  BY ConnectionOf, AgentProtocolAssumption
<1>3. PICK s \in ServerSides : s = [NoConnection EXCEPT !.pc = "empty"] /\ s.pc = "empty"
  <2>1. [NoConnection EXCEPT !.pc = "empty"] = [pc |-> "empty", now |-> 0]  BY DEF NoConnection
  <2>2. [pc |-> "empty", now |-> 0] \in ServerSides  BY DEF ServerSides
  <2> QED BY <2>1, <2>2
<1>4. conn' = [conn EXCEPT ![<<x, n>>] = s]  BY <1>1, <1>2, <1>3 DEF ProtocolInv, ProtocolTypeOK
<1> QED BY <1>1, <1>2, <1>3, <1>4, ConnectionMoveKeeps

\* What is forgotten of the expired ids is late for the window, or on record.
LEMMA Forgetting ==
    ASSUME ProtocolInv, NEW known, known = Unexpired(protocolTime),
           NEW x \in Exchanges, handled[x] >= 1
    PROVE  x \in excused \cup Lapsed(protocolTime) \cup Ids(known) \/ ExpiresAt(x) < protocolTime
<1>1. CASE x \in Ids(replayed)
  <2>1. PICK e \in replayed : e.id = x /\ e.expires = ExpiresAt(x)  BY <1>1 DEF Ids, ProtocolInv, EntriesInv
  <2>2. ExpiresAt(x) \in Nat /\ protocolTime \in Nat
    <3>1. client[x] \in Clients /\ protocolTime \in Nat /\ TotalTimeout \in Nat
      BY AgentProtocolAssumption DEF ProtocolInv, ProtocolTypeOK
    <3> QED BY <3>1 DEF ExpiresAt, Clients
  <2>3. CASE e.expires > protocolTime  BY <2>1, <2>3 DEF Unexpired, Ids
  <2>4. CASE e.expires = protocolTime  BY <2>1, <2>4 DEF Lapsed, Ids
  <2> QED BY <2>1, <2>2, <2>3, <2>4
<1> QED BY <1>1 DEF ProtocolInv, RememberedInv

LEMMA KnownEntries ==
    ASSUME ProtocolInv, NEW known, known = Unexpired(protocolTime)
    PROVE  /\ known \subseteq replayed /\ IsFiniteSet(known)
           /\ Cardinality(known) \in Nat /\ Cardinality(known) <= ReplayLimit
<1>1. known \subseteq replayed  BY DEF Unexpired
<1>2. IsFiniteSet(replayed) /\ Cardinality(replayed) <= ReplayLimit /\ ReplayLimit \in Nat
  BY AgentProtocolAssumption DEF ProtocolInv, EntriesInv, ReplayIsBounded
<1>3. IsFiniteSet(known) /\ Cardinality(known) <= Cardinality(replayed)  BY <1>1, <1>2, FS_Subset
<1> QED BY <1>1, <1>2, <1>3, FS_CardinalityType

LEMMA RefuseKeeps ==
    ASSUME ProtocolInv, NEW k \in Connections, conn[k].pc = "half", Refuse(k),
           UNCHANGED <<protocolTime, client>>
    PROVE  ProtocolInv'
<1>0. conn \in [Connections -> ServerSides] /\ client[k[1]].pc # "idle"
  BY SentConnection DEF ProtocolInv, ProtocolTypeOK
<1>1. ClosedConnection \in ServerSides /\ ClosedConnection.pc = "closed"  BY DEF ClosedConnection, ServerSides
<1>2. CASE UNCHANGED <<replayed, excused>>  BY <1>0, <1>1, <1>2, ConnectionMoveKeeps DEF Refuse
<1>3. CASE replayed' = Unexpired(protocolTime) /\ excused' = excused \cup Lapsed(protocolTime)
  <2>1. PICK known : known = Unexpired(protocolTime)  OBVIOUS
  <2>2. /\ conn' \in [Connections -> ServerSides] /\ conn'[k] = ClosedConnection
        /\ \A j \in Connections : j # k => conn'[j] = conn[j]
        /\ handled' = handled
    BY <1>0, <1>1 DEF Refuse
  <2>3. \A x : ExpiresAt(x)' = ExpiresAt(x)  BY DEF ExpiresAt
  <2>4. known \subseteq replayed /\ IsFiniteSet(known) /\ Cardinality(known) <= ReplayLimit  BY <2>1, KnownEntries
  <2>5. ProtocolTypeOK'  BY <2>2 DEF ProtocolInv, ProtocolTypeOK
  <2>6. SentInv'  BY <1>0, <2>2, ConnectionOf, ConnectionParts DEF ProtocolInv, SentInv
  <2>7. EntriesInv' /\ ReplayIsBounded'  BY <1>3, <2>1, <2>3, <2>4 DEF ProtocolInv, EntriesInv, ReplayIsBounded
  <2>8. RememberedInv'  BY <1>3, <2>1, <2>2, <2>3, Forgetting DEF RememberedInv, Ids
  <2>9. HandledOnce' /\ AnswerIsTrue'  BY <1>3, <2>2, <2>3 DEF ProtocolInv, HandledOnce, AnswerIsTrue
  <2>10. InTimeInv'  BY <1>1, <2>2, <2>3, FirstConnection DEF ProtocolInv, InTimeInv
  <2> QED BY <2>5, <2>6, <2>7, <2>8, <2>9, <2>10 DEF ProtocolInv
<1> QED BY <1>2, <1>3 DEF Refuse

LEMMA AcceptKeeps ==
    ASSUME ProtocolInv, NEW k \in Connections, conn[k].pc = "half", Accept(k),
           UNCHANGED <<protocolTime, client>>
    PROVE  ProtocolInv'
<1>0. /\ conn \in [Connections -> ServerSides] /\ client[k[1]].pc # "idle"
      /\ client \in [Exchanges -> Clients] /\ handled \in [Exchanges -> Nat] /\ protocolTime \in Nat
  BY SentConnection DEF ProtocolInv, ProtocolTypeOK
<1>x. PICK x \in Exchanges : x = k[1]  BY ConnectionParts
<1>1. PICK known, kept, entry :
         /\ known = Unexpired(protocolTime) /\ x \notin Ids(known) /\ kept \in WithRoom(known)
         /\ entry = [id |-> x, expires |-> ExpiresAt(x), place |-> NextPlace(known)]
         /\ replayed' = kept \cup {entry}
         /\ excused' = excused \cup Lapsed(protocolTime) \cup Ids(known \ kept)
  BY <1>x DEF Accept
<1>2. /\ handled' = [handled EXCEPT ![x] = @ + 1] /\ InWindow(x, protocolTime)
      /\ conn' = [conn EXCEPT ![k] = [pc |-> "handling", now |-> protocolTime]]
  BY <1>x DEF Accept
<1>3. entry.id = x /\ entry.expires = ExpiresAt(x)  BY <1>1
<1>4. PICK s \in ServerSides : s = [pc |-> "handling", now |-> protocolTime] /\ s.now = protocolTime
  <2>1. [pc |-> "handling", now |-> protocolTime] \in ServerSides  BY <1>0 DEF ServerSides
  <2> QED BY <2>1
<1>5. /\ conn' \in [Connections -> ServerSides] /\ conn'[k] = s
      /\ \A j \in Connections : j # k => conn'[j] = conn[j]
  BY <1>0, <1>2, <1>4
<1>6. /\ handled' \in [Exchanges -> Nat] /\ handled'[x] = handled[x] + 1
      /\ \A y \in Exchanges : y # x => handled'[y] = handled[y]
  BY <1>0, <1>2
<1>7. \A y : ExpiresAt(y)' = ExpiresAt(y)  BY DEF ExpiresAt
<1>8. client[x].issued <= protocolTime /\ protocolTime <= ExpiresAt(x) /\ ExpiresAt(x) \in Nat
      /\ client[x].issued \in Nat
  <2>1. client[x] \in Clients /\ TotalTimeout \in Nat  BY <1>0, AgentProtocolAssumption
  <2>2. client[x].issued \in Nat /\ ExpiresAt(x) \in Nat  BY <2>1 DEF Clients, ExpiresAt
  <2> QED BY <1>0, <1>2, <2>2 DEF InWindow, ProtocolInv, SentInv
<1>9. handled[x] >= 1 => x \in excused'
  <2>1. handled[x] >= 1 => x \in excused \cup Lapsed(protocolTime) \cup Ids(known) \/ ExpiresAt(x) < protocolTime
    BY <1>1, Forgetting
  <2> QED BY <1>0, <1>1, <1>8, <2>1
<1>10. /\ kept \subseteq known /\ known \subseteq replayed
       /\ IsFiniteSet(kept) /\ Cardinality(kept) \in Nat /\ Cardinality(kept) < ReplayLimit
  <2>1. /\ known \subseteq replayed /\ IsFiniteSet(known) /\ ReplayLimit \in Nat
        /\ Cardinality(known) \in Nat /\ Cardinality(known) <= ReplayLimit
    BY <1>1, KnownEntries, AgentProtocolAssumption
  <2>2. CASE Cardinality(known) < ReplayLimit  BY <1>1, <2>1, <2>2 DEF WithRoom
  <2>3. CASE ~(Cardinality(known) < ReplayLimit)
    <3>1. PICK oldest \in known : kept = known \ {oldest}  BY <1>1, <2>3 DEF WithRoom
    <3>2. IsFiniteSet(kept) /\ Cardinality(kept) = Cardinality(known) - 1  BY <2>1, <3>1, FS_RemoveElement
    <3> QED BY <2>1, <3>1, <3>2, FS_CardinalityType
  <2> QED BY <2>2, <2>3
<1>11. x \notin Ids(kept)  BY <1>1, <1>10 DEF Ids
<1>12. ProtocolTypeOK'  BY <1>0, <1>5, <1>6 DEF ProtocolTypeOK
<1>13. SentInv'  BY <1>0, <1>x, <1>5, <1>6, ConnectionOf, ConnectionParts DEF ProtocolInv, SentInv
<1>14. EntriesInv'
  <2>1. IsFiniteSet(replayed')  BY <1>1, <1>10, FS_AddElement
  <2> QED BY <1>0, <1>x, <1>1, <1>3, <1>7, <1>10, <2>1 DEF ProtocolInv, EntriesInv
<1>15. ReplayIsBounded'
  <2>1. Cardinality(replayed') <= Cardinality(kept) + 1 /\ Cardinality(replayed') \in Nat
    <3>1. Cardinality(kept \cup {entry}) = IF entry \in kept THEN Cardinality(kept) ELSE Cardinality(kept) + 1
      BY <1>10, FS_AddElement
    <3> QED BY <1>1, <1>10, <3>1
  <2>2. Cardinality(replayed') <= ReplayLimit  BY <1>10, <2>1, AgentProtocolAssumption
  <2>3. \A e, f \in replayed' : e.id = f.id => e = f
    BY <1>1, <1>3, <1>10, <1>11 DEF ProtocolInv, ReplayIsBounded, Ids
  <2> QED BY <2>2, <2>3 DEF ReplayIsBounded
<1>16. RememberedInv'
  <2> SUFFICES ASSUME NEW y \in Exchanges, handled'[y] >= 1
               PROVE  y \in excused' \/ y \in Ids(replayed)' \/ ExpiresAt(y) < protocolTime
    BY <1>7 DEF RememberedInv
  <2>1. CASE y = x  BY <1>1, <1>3, <2>1 DEF Ids
  <2>2. CASE y # x
    <3>1. y \in excused \cup Lapsed(protocolTime) \cup Ids(known) \/ ExpiresAt(y) < protocolTime
      BY <1>1, <1>6, <2>2, Forgetting
    <3>2. Ids(known) \subseteq Ids(kept) \cup Ids(known \ kept) /\ Ids(kept) \subseteq Ids(replayed)'  BY <1>1 DEF Ids
    <3> QED BY <1>1, <3>1, <3>2
  <2> QED BY <2>1, <2>2
<1>17. HandledOnce'  BY <1>0, <1>1, <1>6, <1>9 DEF ProtocolInv, HandledOnce
<1>18. AnswerIsTrue'  BY <1>0, <1>6, <1>7 DEF ProtocolInv, AnswerIsTrue
<1>19. InTimeInv'
  <2> SUFFICES ASSUME NEW y \in Exchanges, conn'[<<y, 0>>].pc \in {"handling", "answered", "failed"}
               PROVE  handled'[y] >= 1 /\ conn'[<<y, 0>>].now \in client[y].issued..ExpiresAt(y)
    BY <1>7 DEF InTimeInv
  <2>1. CASE <<y, 0>> = k
    <3>1. y = x  BY <1>x, <2>1
    <3> QED BY <1>0, <1>4, <1>5, <1>6, <1>8, <2>1, <3>1
  <2>2. CASE <<y, 0>> # k
    <3>1. conn'[<<y, 0>>] = conn[<<y, 0>>]  BY <1>5, <2>2, FirstConnection
    <3> QED BY <1>0, <1>6, <3>1 DEF ProtocolInv, InTimeInv
  <2> QED BY <2>1, <2>2
<1> QED BY <1>12, <1>13, <1>14, <1>15, <1>16, <1>17, <1>18, <1>19 DEF ProtocolInv

LEMMA RestartKeeps == ProtocolInv /\ RestartAgent => ProtocolInv'
<1> SUFFICES ASSUME ProtocolInv, RestartAgent PROVE ProtocolInv'  OBVIOUS
<1>0. conn \in [Connections -> ServerSides] /\ ClosedConnection \in ServerSides /\ ClosedConnection.pc = "closed"
  BY DEF ProtocolInv, ProtocolTypeOK, ClosedConnection, ServerSides
<1>1. /\ conn' \in [Connections -> ServerSides]
      /\ \A k \in Connections : conn'[k] = conn[k] \/ (conn[k] # NoConnection /\ conn'[k] = ClosedConnection)
      /\ replayed' = {} /\ excused' = excused \cup Ids(replayed)
      /\ UNCHANGED <<protocolTime, client, handled>>
  <2>1. PICK sent \in SUBSET Connections :
           conn' = [k \in Connections |-> IF k \in sent \/ conn[k] = NoConnection THEN conn[k]
                                          ELSE ClosedConnection]
    BY DEF RestartAgent
  <2>2. conn' \in [Connections -> ServerSides]  BY <1>0, <2>1
  <2>3. \A k \in Connections : conn'[k] = conn[k] \/ (conn[k] # NoConnection /\ conn'[k] = ClosedConnection)
    <3> TAKE k \in Connections
    <3>1. conn'[k] = IF k \in sent \/ conn[k] = NoConnection THEN conn[k] ELSE ClosedConnection  BY <2>1
    <3> QED BY <3>1
  <2>4. replayed' = {} /\ excused' = excused \cup Ids(replayed) /\ UNCHANGED <<protocolTime, client, handled>>
    BY DEF RestartAgent, clientSide
  <2> QED BY <2>2, <2>3, <2>4
<1>2. \A y : ExpiresAt(y)' = ExpiresAt(y)  BY <1>1 DEF ExpiresAt
<1>3. ProtocolTypeOK'  BY <1>1 DEF ProtocolInv, ProtocolTypeOK
<1>4. SentInv'  BY <1>1, ConnectionOf DEF ProtocolInv, SentInv
<1>5. EntriesInv' /\ ReplayIsBounded'  BY <1>1, FS_EmptySet, AgentProtocolAssumption DEF EntriesInv, ReplayIsBounded
<1>6. RememberedInv' /\ HandledOnce' /\ AnswerIsTrue'
  BY <1>1, <1>2 DEF ProtocolInv, RememberedInv, HandledOnce, AnswerIsTrue
<1>7. InTimeInv'  BY <1>0, <1>1, <1>2, FirstConnection DEF ProtocolInv, InTimeInv
<1> QED BY <1>3, <1>4, <1>5, <1>6, <1>7 DEF ProtocolInv

LEMMA TickKeeps == ProtocolInv /\ ProtocolTick => ProtocolInv'
<1> SUFFICES ASSUME ProtocolInv, ProtocolTick PROVE ProtocolInv'  OBVIOUS
<1>1. /\ protocolTime \in Nat /\ protocolTime' = protocolTime + 1
      /\ UNCHANGED <<client, conn, replayed, handled, excused>>
  BY DEF ProtocolTick, ProtocolInv, ProtocolTypeOK, clientSide, agentSide
<1>2. \A y \in Exchanges : ExpiresAt(y)' = ExpiresAt(y) /\ ExpiresAt(y) \in Nat /\ client[y].issued \in Nat
  <2> SUFFICES ASSUME NEW y \in Exchanges
               PROVE  ExpiresAt(y)' = ExpiresAt(y) /\ ExpiresAt(y) \in Nat /\ client[y].issued \in Nat
    OBVIOUS
  <2>1. client[y] \in Clients /\ TotalTimeout \in Nat  BY AgentProtocolAssumption DEF ProtocolInv, ProtocolTypeOK
  <2> QED BY <1>1, <2>1 DEF ExpiresAt, Clients
<1>3. ProtocolTypeOK' /\ SentInv'  BY <1>1, <1>2 DEF ProtocolInv, ProtocolTypeOK, SentInv
<1>4. EntriesInv' /\ ReplayIsBounded'  BY <1>1, <1>2 DEF ProtocolInv, EntriesInv, ReplayIsBounded
<1>5. RememberedInv'  BY <1>1, <1>2 DEF ProtocolInv, RememberedInv, Ids
<1>6. HandledOnce' /\ AnswerIsTrue' /\ InTimeInv'  BY <1>1, <1>2 DEF ProtocolInv, HandledOnce, AnswerIsTrue, InTimeInv
<1> QED BY <1>3, <1>4, <1>5, <1>6 DEF ProtocolInv

\* A request reaches its handler once, however often and late its frame
\* arrives, unless the agent was restarted, had to make place for other
\* requests, or got the copy in the instant in which the request expires; a
\* client that was told "ok" was answered for its own request, taken in its
\* time; and the agent never remembers more than its limit
\* (authenticatedServer.ts:347, configAgentClient.ts:339).
THEOREM ProtocolSafe == ProtocolSpec => []ProtocolIsSafe
<1>1. ProtocolInv /\ [ProtocolNext]_protocolVars => ProtocolInv'
  <2> SUFFICES ASSUME ProtocolInv, [ProtocolNext]_protocolVars PROVE ProtocolInv'  OBVIOUS
  <2>1. ASSUME NEW x \in Exchanges, Request(x) \/ ClientStep(x) PROVE ProtocolInv'
    BY <2>1, ClientMoveKeeps DEF ClientStep, ClientMoves
  <2>2. ASSUME NEW x \in Exchanges, CopyFrame(x) PROVE ProtocolInv'  BY <2>2, CopyKeeps
  <2>3. ASSUME NEW k \in Connections, AgentStep(k) PROVE ProtocolInv'
    <3>1. CASE Dispatch(k)  BY <3>1, AcceptKeeps, RefuseKeeps DEF Dispatch, clientSide
    <3> QED BY <2>3, <3>1, ServerSteps DEF AgentStep
  <2>4. CASE UNCHANGED protocolVars
    <3>1. \A y : ExpiresAt(y)' = ExpiresAt(y)  BY <2>4 DEF protocolVars, clientSide, ExpiresAt
    <3> QED BY <2>4, <3>1 DEF protocolVars, clientSide, agentSide, ProtocolInv, ProtocolTypeOK, SentInv, EntriesInv,
      RememberedInv, InTimeInv, HandledOnce, AnswerIsTrue, ReplayIsBounded, Ids
  <2> QED BY <2>1, <2>2, <2>3, <2>4, RestartKeeps, TickKeeps DEF ProtocolNext
<1>2. ProtocolInv => ProtocolIsSafe  BY DEF ProtocolInv, ProtocolIsSafe
<1> QED BY <1>1, <1>2, ProtocolStart, PTL DEF ProtocolSpec

\* What a call may be about, and the steps it is at.
CleanupCalls == {DeleteValue(d) : d \in Directories}
StepNames == {"put", "load", "add", "unlink", "remove", "lookup", "open", "mark", "release"}
IndexEntries == [expires : Nat, kept : BOOLEAN]
TaskRecords ==
    [call : Calls \cup CleanupCalls \cup {<<>>}, at : Nat, ids : SUBSET ArtifactIds, now : Nat,
     entries : [ArtifactIds -> IndexEntries]]

TaskOK(t) ==
    Busy(t) =>
        /\ task[t].at \in 1..Len(task[t].call) /\ task[t].now \in 1..storeDay
        /\ t = "cleanup" => task[t].call \in CleanupCalls
        /\ t # "cleanup" => task[t].call \in Calls /\ \E id \in ArtifactIds : task[t].ids = {id}

StoreTypeOK ==
    /\ files \in [Directories -> [ArtifactIds -> Nat]]
    /\ index \in [Directories -> [ArtifactIds -> IndexEntries]]
    /\ task \in [AllTasks -> TaskRecords]
    /\ storeDay \in Nat \ {0}
    /\ \A t \in AllTasks : TaskOK(t)

\* A file was changed and its entry not yet.
About(t, d, id) == Busy(t) /\ Step(t)[2] = d /\ id \in task[t].ids
Update(t) == task[t].call[task[t].at + 1][1]
Adds(t, d, id) == About(t, d, id) /\ (Step(t)[1] = "add" \/ (Step(t)[1] = "load" /\ Update(t) = "add"))
Removes(t, d, id) == About(t, d, id) /\ (Step(t)[1] = "remove" \/ (Step(t)[1] = "load" /\ Update(t) = "remove"))
Contested(d, id) == <<d, id>> \in contested

FilesBetween ==
    \A t \in AllTasks, d \in Directories, id \in ArtifactIds : ~Contested(d, id) =>
        /\ Adds(t, d, id) => files[d][id] # 0
        /\ Removes(t, d, id) => files[d][id] = 0

EntriesFollow ==
    \A d \in Directories, id \in ArtifactIds :
        ~Contested(d, id) /\ (\A t \in AllTasks : ~Adds(t, d, id) /\ ~Removes(t, d, id)) =>
            ((files[d][id] # 0) = (index[d][id] # NoEntry))

\* A snapshot is written once, and cleaned only when it is expired and no evidence.
Writes(t, id) == task[t].call = WriteValue("snapshots") /\ id \in task[t].ids
Cleans(id) == task["cleanup"].call = DeleteValue("snapshots") /\ id \in task["cleanup"].ids

SnapshotsOnce ==
    \A t \in StoreTasks, id \in ArtifactIds : Writes(t, id) =>
        /\ ~Contested("snapshots", id) => index["snapshots"][id] = NoEntry
        /\ \A other \in StoreTasks : Writes(other, id) => other = t

CleanedAreExpired ==
    \A id \in ArtifactIds : Cleans(id) /\ ~Contested("snapshots", id) =>
        /\ index["snapshots"][id] # NoEntry /\ index["snapshots"][id].expires <= storeDay
        /\ id \notin evidence

SealedAreStaged ==
    \A t \in AllTasks, id \in ArtifactIds : Sealing(t, id) /\ id \in accepted => files["staged"][id] # 0

ArtifactInv ==
    /\ StoreTypeOK /\ evidence \subseteq ArtifactIds /\ accepted \subseteq ArtifactIds
    /\ FilesBetween /\ EntriesFollow /\ SnapshotsOnce /\ CleanedAreExpired /\ EvidenceIsKept
    /\ SealedAreStaged /\ SealKeepsTheChange

\* The steps of the calls, one after the other.
LEMMA SealSteps ==
    /\ Len(SealDraft) = 8 /\ SealDraft # <<>>
    /\ SealDraft[1] = <<"lookup", "drafts">> /\ SealDraft[2] = <<"open", "drafts">>
    /\ SealDraft[3] = <<"put", "staged">> /\ SealDraft[4] = <<"load", "staged">> /\ SealDraft[5] = <<"add", "staged">>
    /\ SealDraft[6] = <<"unlink", "drafts">> /\ SealDraft[7] = <<"load", "drafts">> /\ SealDraft[8] = <<"remove", "drafts">>
  BY DEF SealDraft

LEMMA ShortSteps ==
    \A d \in Directories :
        /\ Len(WriteValue(d)) = 3 /\ WriteValue(d) # <<>>
        /\ WriteValue(d)[1] = <<"put", d>> /\ WriteValue(d)[2] = <<"load", d>> /\ WriteValue(d)[3] = <<"add", d>>
        /\ Len(DeleteValue(d)) = 3 /\ DeleteValue(d) # <<>>
        /\ DeleteValue(d)[1] = <<"unlink", d>> /\ DeleteValue(d)[2] = <<"load", d>> /\ DeleteValue(d)[3] = <<"remove", d>>
  BY DEF WriteValue, DeleteValue

LEMMA MarkSteps ==
    \A mark \in {"mark", "release"} :
        /\ Len(MarkValue(mark)) = 3 /\ MarkValue(mark) # <<>>
        /\ MarkValue(mark)[1] = <<"lookup", "snapshots">> /\ MarkValue(mark)[2] = <<"load", "snapshots">>
        /\ MarkValue(mark)[3] = <<mark, "snapshots">>
  BY DEF MarkValue

\* What follows a step of a call.
FollowedBy(steps, i) ==
    /\ steps[i] = <<steps[i][1], steps[i][2]>> /\ steps[i][1] \in StepNames /\ steps[i][2] \in Directories
    /\ i < Len(steps) => steps[i + 1][1] \in StepNames /\ steps[i + 1][2] \in Directories
    /\ steps[i][1] = "put" => i + 2 <= Len(steps) /\ steps[i + 1] = <<"load", steps[i][2]>> /\ steps[i + 2][1] = "add"
    /\ steps[i][1] = "unlink" => i + 2 <= Len(steps) /\ steps[i + 1] = <<"load", steps[i][2]>> /\ steps[i + 2][1] = "remove"
    /\ steps[i][1] = "load" =>
          i < Len(steps) /\ steps[i + 1][2] = steps[i][2] /\ steps[i + 1][1] \in {"add", "remove", "mark", "release"}
    /\ steps[i][1] = "add" => i = Len(steps) \/ steps[i + 1][1] = "unlink"
    /\ steps[i][1] \in {"remove", "mark", "release"} => i = Len(steps)
    /\ steps[i][1] = "lookup" => i < Len(steps) /\
          (steps[i + 1][1] = "open"
           \/ (steps[i + 1][1] = "load" /\ i + 2 <= Len(steps) /\ steps[i + 2][1] \in {"mark", "release"}))
    /\ steps[i][1] = "open" => i < Len(steps) /\ steps[i + 1][1] = "put"

LEMMA StepsFollow ==
    ASSUME NEW steps \in Calls \cup CleanupCalls, NEW i \in 1..Len(steps)
    PROVE  FollowedBy(steps, i)
<1> USE DEF StepNames, Directories
<1>1. CASE \E d \in Directories : steps = WriteValue(d) \/ steps = DeleteValue(d)
  <2>1. PICK d \in Directories : steps = WriteValue(d) \/ steps = DeleteValue(d)  BY <1>1
  <2>2. Len(steps) = 3  BY <2>1, ShortSteps
  <2>3. i \in {1, 2, 3}  BY <2>2
  <2>4. CASE steps = WriteValue(d)
    <3>1. steps[1] = <<"put", d>> /\ steps[2] = <<"load", d>> /\ steps[3] = <<"add", d>>  BY <2>4, ShortSteps
    <3> QED  BY <2>2, <2>3, <3>1 DEF FollowedBy
  <2>5. CASE steps = DeleteValue(d)
    <3>1. steps[1] = <<"unlink", d>> /\ steps[2] = <<"load", d>> /\ steps[3] = <<"remove", d>>  BY <2>5, ShortSteps
    <3> QED  BY <2>2, <2>3, <3>1 DEF FollowedBy
  <2> QED  BY <2>1, <2>4, <2>5
<1>2. CASE \E mark \in {"mark", "release"} : steps = MarkValue(mark)
  <2>1. PICK mark \in {"mark", "release"} : steps = MarkValue(mark)  BY <1>2
  <2>2. Len(steps) = 3 /\ steps[1] = <<"lookup", "snapshots">> /\ steps[2] = <<"load", "snapshots">>
        /\ steps[3] = <<mark, "snapshots">>
    BY <2>1, MarkSteps
  <2>3. i \in {1, 2, 3}  BY <2>2
  <2> QED  BY <2>2, <2>3 DEF FollowedBy
<1>3. CASE steps = SealDraft
  <2>1. i \in {1, 2, 3, 4, 5, 6, 7, 8}  BY <1>3, SealSteps
  <2> QED  BY <1>3, <2>1, SealSteps DEF FollowedBy
<1> QED  BY <1>1, <1>2, <1>3 DEF Calls, CleanupCalls

\* Where a call starts, and which calls touch which file.
LEMMA FirstSteps ==
    ASSUME NEW steps \in Calls \cup CleanupCalls
    PROVE  /\ steps # <<>> /\ 1 \in 1..Len(steps) /\ Len(steps) \in Nat
           /\ steps[1][1] \in {"put", "unlink", "lookup"}
<1> USE DEF Directories
<1>1. CASE \E d \in Directories : steps = WriteValue(d) \/ steps = DeleteValue(d)  BY <1>1, ShortSteps
<1>2. CASE \E mark \in {"mark", "release"} : steps = MarkValue(mark)  BY <1>2, MarkSteps
<1>3. CASE steps = SealDraft  BY <1>3, SealSteps
<1> QED  BY <1>1, <1>2, <1>3 DEF Calls, CleanupCalls

LEMMA OfSnapshots ==
    ASSUME NEW steps \in Calls, NEW i \in 1..Len(steps)
    PROVE  /\ steps[i] \in {<<"put", "snapshots">>, <<"add", "snapshots">>} => steps = WriteValue("snapshots")
           /\ steps[i] \notin {<<"unlink", "snapshots">>, <<"remove", "snapshots">>}
           /\ steps[i] = <<"load", "snapshots">> /\ steps[i + 1][1] \in {"add", "remove"} => steps = WriteValue("snapshots")
<1>1. CASE \E d \in {"drafts", "snapshots"} : steps = WriteValue(d)
  <2>1. PICK d \in {"drafts", "snapshots"} : steps = WriteValue(d)  BY <1>1
  <2>2. Len(steps) = 3 /\ steps[1] = <<"put", d>> /\ steps[2] = <<"load", d>> /\ steps[3] = <<"add", d>>
    BY <2>1, ShortSteps DEF Directories
  <2>3. i \in {1, 2, 3}  BY <2>2
  <2> QED  BY <2>1, <2>2, <2>3
<1>2. CASE \E d \in {"drafts", "staged"} : steps = DeleteValue(d)
  <2>1. PICK d \in {"drafts", "staged"} : steps = DeleteValue(d)  BY <1>2
  <2>2. Len(steps) = 3 /\ steps[1] = <<"unlink", d>> /\ steps[2] = <<"load", d>> /\ steps[3] = <<"remove", d>>
    BY <2>1, ShortSteps DEF Directories
  <2>3. i \in {1, 2, 3}  BY <2>2
  <2> QED  BY <2>2, <2>3
<1>3. CASE \E mark \in {"mark", "release"} : steps = MarkValue(mark)
  <2>1. PICK mark \in {"mark", "release"} : steps = MarkValue(mark)  BY <1>3
  <2>2. Len(steps) = 3 /\ steps[1] = <<"lookup", "snapshots">> /\ steps[2] = <<"load", "snapshots">>
        /\ steps[3] = <<mark, "snapshots">>
    BY <2>1, MarkSteps
  <2>3. i \in {1, 2, 3}  BY <2>2
  <2> QED  BY <2>2, <2>3
<1>4. CASE steps = SealDraft
  <2>1. i \in {1, 2, 3, 4, 5, 6, 7, 8}  BY <1>4, SealSteps
  <2> QED  BY <1>4, <2>1, SealSteps
<1> QED  BY <1>1, <1>2, <1>3, <1>4 DEF Calls

\* The steps of a seal that move a file.
LEMMA SealMoves ==
    ASSUME NEW i \in 1..Len(SealDraft)
    PROVE  /\ SealDraft[i][1] = "put" => i = 3 /\ SealDraft[i][2] = "staged"
           /\ SealDraft[i][1] = "unlink" => i = 6 /\ SealDraft[i][2] = "drafts"
           /\ SealDraft[i][1] = "lookup" => i = 1
           /\ SealDraft[i][1] = "open" => i = 2
           /\ i = 3 => SealDraft[i][1] = "put"
           /\ i = 6 => SealDraft[i][1] = "unlink"
<1>1. i \in {1, 2, 3, 4, 5, 6, 7, 8}  BY SealSteps
<1> QED  BY <1>1, SealSteps
LEMMA CallsDiffer ==
    /\ \A d, e \in Directories : WriteValue(d) # DeleteValue(e)
    /\ \A d \in Directories : WriteValue(d) # SealDraft /\ DeleteValue(d) # SealDraft
    /\ \A d, e \in Directories : WriteValue(d) = WriteValue(e) \/ DeleteValue(d) = DeleteValue(e) => d = e
  BY ShortSteps, SealSteps

LEMMA BusySteps ==
    ASSUME StoreTypeOK, NEW t \in AllTasks, Busy(t)
    PROVE  /\ task[t] \in TaskRecords /\ task[t].call \in Calls \cup CleanupCalls
           /\ task[t].at \in 1..Len(task[t].call) /\ Len(task[t].call) \in Nat
           /\ FollowedBy(task[t].call, task[t].at) /\ Step(t)[1] \in StepNames /\ Step(t)[2] \in Directories
           /\ task[t].now \in 1..storeDay /\ task[t].ids \subseteq ArtifactIds
<1>1. task[t] \in TaskRecords /\ TaskOK(t)  BY DEF StoreTypeOK
<1>2. task[t].call \in Calls \cup CleanupCalls  BY <1>1 DEF TaskOK
<1>3. FollowedBy(task[t].call, task[t].at)  BY <1>1, <1>2, StepsFollow DEF TaskOK
<1>4. Len(task[t].call) \in Nat  BY <1>2, FirstSteps
<1> QED  BY <1>1, <1>2, <1>3, <1>4 DEF TaskOK, TaskRecords, Step, FollowedBy

LEMMA NoCallType == NoCall \in TaskRecords /\ NoCall.call = <<>>
  BY DEF NoCall, TaskRecords, NoEntry, IndexEntries

\* What a call does with its place: it ends, or goes to its next step.
Proceeds(t, entries) ==
    /\ task[t].at < Len(task[t].call)
    /\ task'[t].call = task[t].call /\ task'[t].at = task[t].at + 1 /\ task'[t].ids = task[t].ids
    /\ task'[t].now = task[t].now /\ task'[t].entries = entries
Ends(t) == task'[t] = NoCall
OnlyMoves(t) ==
    task' \in [AllTasks -> TaskRecords] /\ \A other \in AllTasks : other # t => task'[other] = task[other]

LEMMA FinishMoves ==
    ASSUME StoreTypeOK, NEW t \in AllTasks, Finish(t)
    PROVE  OnlyMoves(t) /\ Ends(t)
  BY NoCallType DEF StoreTypeOK, Finish, OnlyMoves, Ends

LEMMA AdvanceMoves ==
    ASSUME StoreTypeOK, NEW t \in AllTasks, Busy(t), NEW entries \in [ArtifactIds -> IndexEntries],
           Advance(t, entries), task[t].at < Len(task[t].call)
    PROVE  OnlyMoves(t) /\ Proceeds(t, entries)
<1> DEFINE next == [call |-> task[t].call, at |-> task[t].at + 1, ids |-> task[t].ids, now |-> task[t].now, entries |-> entries]
<1>1. task \in [AllTasks -> TaskRecords] /\ task[t] \in TaskRecords  BY DEF StoreTypeOK
<1>2. next \in TaskRecords  BY <1>1 DEF TaskRecords
<1>3. task' = [task EXCEPT ![t] = next]  BY DEF Advance
<1>4. task'[t] = next /\ OnlyMoves(t)  BY <1>1, <1>2, <1>3 DEF OnlyMoves
<1> QED  BY <1>4 DEF Proceeds

LEMMA ContinueMoves ==
    ASSUME StoreTypeOK, NEW t \in AllTasks, Busy(t), Continue(t)
    PROVE  OnlyMoves(t) /\ (IF task[t].at = Len(task[t].call) THEN Ends(t) ELSE Proceeds(t, task[t].entries))
<1>1. task[t].at \in 1..Len(task[t].call) /\ task[t].entries \in [ArtifactIds -> IndexEntries] /\ Len(task[t].call) \in Nat
  BY BusySteps DEF TaskRecords
<1>2. CASE task[t].at = Len(task[t].call)  BY <1>2, FinishMoves DEF Continue
<1>3. CASE task[t].at # Len(task[t].call)  BY <1>1, <1>3, AdvanceMoves DEF Continue
<1> QED  BY <1>2, <1>3

LEMMA MovedTypes ==
    ASSUME StoreTypeOK, NEW t \in AllTasks, Busy(t), OnlyMoves(t), NEW entries, Ends(t) \/ Proceeds(t, entries),
           storeDay' = storeDay
    PROVE  task' \in [AllTasks -> TaskRecords] /\ \A other \in AllTasks : TaskOK(other)'
<1>1. \A other \in AllTasks : TaskOK(other)  BY DEF StoreTypeOK
<1>2. ASSUME NEW other \in AllTasks, other # t PROVE TaskOK(other)'  BY <1>1, <1>2 DEF OnlyMoves, TaskOK, Busy
<1>3. TaskOK(t)'
  <2>1. CASE Ends(t)  BY <2>1, NoCallType DEF Ends, TaskOK, Busy
  <2>2. CASE Proceeds(t, entries)  BY <1>1, <2>2, BusySteps DEF Proceeds, TaskOK, Busy
  <2> QED  BY <2>1, <2>2
<1> QED  BY <1>2, <1>3 DEF OnlyMoves

\* What the others are about stays.
LEMMA OthersStay ==
    ASSUME NEW t \in AllTasks, OnlyMoves(t), NEW other \in AllTasks, other # t, NEW d, NEW id
    PROVE  /\ Adds(other, d, id)' = Adds(other, d, id) /\ Removes(other, d, id)' = Removes(other, d, id)
           /\ Sealing(other, id)' = Sealing(other, id) /\ Writes(other, id)' = Writes(other, id)
           /\ (other = "cleanup" => Cleans(id)' = Cleans(id))
  BY DEF OnlyMoves, Adds, Removes, About, Update, Busy, Step, Sealing, Writes, Cleans

LEMMA EndedIsAboutNothing ==
    ASSUME NEW t \in AllTasks, Ends(t), NEW d, NEW id
    PROVE  /\ ~Adds(t, d, id)' /\ ~Removes(t, d, id)' /\ ~Sealing(t, id)' /\ ~Writes(t, id)'
           /\ (t = "cleanup" => ~Cleans(id)')
  BY NoCallType, ShortSteps, SealSteps DEF Ends, Adds, Removes, About, Busy, Sealing, Writes, Cleans, Directories

LEMMA ProceedsTo ==
    ASSUME StoreTypeOK, NEW t \in AllTasks, Busy(t), NEW entries, Proceeds(t, entries)
    PROVE  /\ Busy(t)' /\ Step(t)' = task[t].call[task[t].at + 1] /\ Update(t)' = task[t].call[task[t].at + 2][1]
           /\ \A id : Writes(t, id)' = Writes(t, id) /\ (t = "cleanup" => Cleans(id)' = Cleans(id))
<1>1. task[t].at \in Nat /\ task[t].at + 1 + 1 = task[t].at + 2  BY BusySteps
<1> QED  BY <1>1 DEF Proceeds, Busy, Step, Update, Writes, Cleans

LEMMA ArtifactInitInv == ArtifactInit => ArtifactInv
<1> SUFFICES ASSUME ArtifactInit PROVE ArtifactInv  OBVIOUS
<1>1. \A d \in Directories : TtlOf(d) \in Nat \ {0}  BY ArtifactStoreAssumption DEF TtlOf
<1>2. files \in [Directories -> [ArtifactIds -> Nat]]  BY <1>1 DEF ArtifactInit
<1>3. index \in [Directories -> [ArtifactIds -> IndexEntries]]
      /\ \A d \in Directories, id \in ArtifactIds : index[d][id] = [expires |-> files[d][id], kept |-> FALSE]
  BY <1>2 DEF ArtifactInit, IndexEntries
<1>4. \A t \in AllTasks : task[t] = NoCall  BY DEF ArtifactInit
<1>5. task \in [AllTasks -> TaskRecords]  BY NoCallType DEF ArtifactInit
<1>6. \A t \in AllTasks : ~Busy(t) /\ \A d, id : ~Adds(t, d, id) /\ ~Removes(t, d, id)
  BY <1>4, NoCallType DEF Busy, Adds, Removes, About
<1>7. StoreTypeOK /\ evidence \subseteq ArtifactIds /\ accepted \subseteq ArtifactIds
  BY <1>2, <1>3, <1>5, <1>6 DEF ArtifactInit, StoreTypeOK, TaskOK
<1>8. FilesBetween  BY <1>6 DEF FilesBetween
<1>9. EntriesFollow
  <2>1. \A d \in Directories, id \in ArtifactIds : (files[d][id] # 0) = (index[d][id] # NoEntry)
    <3>1. ASSUME NEW d \in Directories, NEW id \in ArtifactIds PROVE (files[d][id] # 0) = (index[d][id] # NoEntry)
      <4>1. index[d][id] = [expires |-> files[d][id], kept |-> FALSE]  BY <1>3
      <4>2. CASE files[d][id] = 0  BY <4>1, <4>2 DEF NoEntry
      <4>3. CASE files[d][id] # 0
        <5>1. index[d][id].expires # NoEntry.expires  BY <4>1, <4>3 DEF NoEntry
        <5> QED  BY <4>3, <5>1
      <4> QED  BY <4>2, <4>3
    <3> QED  BY <3>1
  <2> QED  BY <2>1 DEF EntriesFollow
<1>10. \A t \in AllTasks, id \in ArtifactIds : ~Writes(t, id) /\ ~Sealing(t, id) /\ ~Cleans(id)
  <2>1. "cleanup" \in AllTasks /\ "snapshots" \in Directories  BY DEF AllTasks, Directories
  <2> QED  BY <1>4, <2>1, NoCallType, ShortSteps, SealSteps DEF Writes, Sealing, Cleans
<1>11. SnapshotsOnce /\ CleanedAreExpired /\ SealedAreStaged /\ EvidenceIsKept
  <2>1. "cleanup" \in AllTasks /\ StoreTasks \subseteq AllTasks  BY DEF AllTasks
  <2> QED  BY <1>10, <2>1 DEF ArtifactInit, SnapshotsOnce, CleanedAreExpired, SealedAreStaged, EvidenceIsKept
<1>12. SealKeepsTheChange
  <2>1. \A id \in ArtifactIds : <<"drafts", id>> \in Stored => files["drafts"][id] = 1 + TtlOf("drafts")
    BY DEF ArtifactInit, Directories
  <2>2. "drafts" \in Directories  BY DEF Directories
  <2> QED  BY <1>1, <2>1, <2>2 DEF ArtifactInit, SealKeepsTheChange
<1> QED  BY <1>7, <1>8, <1>9, <1>11, <1>12 DEF ArtifactInv

\* A step that changes neither a file nor an entry.
FilesRest ==
    /\ UNCHANGED <<files, index, evidence, accepted>> /\ contested \subseteq contested'
    /\ storeDay' \in Nat /\ storeDay <= storeDay'

LEMMA RestInv ==
    ASSUME ArtifactInv, StoreTypeOK', FilesRest, SnapshotsOnce', CleanedAreExpired',
           \A t \in AllTasks, d \in Directories, id \in ArtifactIds :
              /\ Adds(t, d, id)' => Adds(t, d, id)
              /\ Removes(t, d, id)' => Removes(t, d, id)
              /\ Adds(t, d, id) \/ Removes(t, d, id) => Adds(t, d, id)' \/ Removes(t, d, id)' \/ Contested(d, id)',
           \A t \in AllTasks, id \in ArtifactIds : Sealing(t, id)' => Sealing(t, id)
    PROVE  ArtifactInv'
<1>1. \A d \in Directories, id \in ArtifactIds : ~Contested(d, id)' => ~Contested(d, id)  BY DEF Contested, FilesRest
<1>2. FilesBetween'  BY <1>1 DEF ArtifactInv, FilesBetween, FilesRest
<1>3. EntriesFollow'  BY <1>1 DEF ArtifactInv, EntriesFollow, FilesRest
<1>4. EvidenceIsKept' /\ SealedAreStaged' /\ SealKeepsTheChange'
  BY DEF ArtifactInv, EvidenceIsKept, SealedAreStaged, SealKeepsTheChange, FilesRest
<1> QED  BY <1>2, <1>3, <1>4 DEF ArtifactInv, FilesRest

LEMMA SnapshotsRest ==
    ASSUME ArtifactInv, FilesRest,
           \A t \in StoreTasks, id \in ArtifactIds : Writes(t, id)' => Writes(t, id),
           \A id \in ArtifactIds : Cleans(id)' => Cleans(id)
    PROVE  SnapshotsOnce' /\ CleanedAreExpired'
<1>1. \A d, id : ~Contested(d, id)' => ~Contested(d, id)  BY DEF Contested, FilesRest
<1>2. SnapshotsOnce'  BY <1>1 DEF ArtifactInv, SnapshotsOnce, FilesRest
<1>3. CleanedAreExpired'
  <2>1. ASSUME NEW id \in ArtifactIds, Cleans(id)', ~Contested("snapshots", id)'
        PROVE  index["snapshots"][id] # NoEntry /\ index["snapshots"][id].expires <= storeDay' /\ id \notin evidence
    <3>1. index["snapshots"][id] # NoEntry /\ index["snapshots"][id].expires <= storeDay /\ id \notin evidence
      BY <1>1, <2>1 DEF ArtifactInv, CleanedAreExpired
    <3>2. index["snapshots"][id].expires \in Nat /\ storeDay \in Nat
      BY DEF ArtifactInv, StoreTypeOK, IndexEntries, Directories
    <3> QED  BY <3>1, <3>2 DEF FilesRest
  <2> QED  BY <2>1 DEF CleanedAreExpired, FilesRest
<1> QED  BY <1>2, <1>3

\* A step of one call that only goes on or ends.
LEMMA ProgressInv ==
    ASSUME ArtifactInv, NEW t \in AllTasks, Busy(t), Step(t)[1] \in {"lookup", "open", "load"}, NEW entries,
           OnlyMoves(t), Ends(t) \/ Proceeds(t, entries), Step(t)[1] = "load" => ~Ends(t),
           FilesRest, storeDay' = storeDay, UNCHANGED contested
    PROVE  ArtifactInv'
<1>1. StoreTypeOK'
  <2>1. task' \in [AllTasks -> TaskRecords] /\ \A other \in AllTasks : TaskOK(other)'  BY MovedTypes DEF ArtifactInv
  <2> QED  BY <2>1 DEF ArtifactInv, StoreTypeOK, FilesRest
<1>2. CASE Ends(t)
  <2>1. \A d, id : ~Adds(t, d, id) /\ ~Removes(t, d, id)  BY <1>2 DEF Adds, Removes
  <2>2. \A other \in AllTasks : \A d, id :
            (Adds(other, d, id)' <=> Adds(other, d, id)) /\ (Removes(other, d, id)' <=> Removes(other, d, id))
    <3>1. \A d, id : ~Adds(t, d, id)' /\ ~Removes(t, d, id)'  BY <1>2, EndedIsAboutNothing
    <3>2. ASSUME NEW other \in AllTasks, NEW d, NEW id
          PROVE  (Adds(other, d, id)' <=> Adds(other, d, id)) /\ (Removes(other, d, id)' <=> Removes(other, d, id))
      <4>1. CASE other = t  BY <2>1, <3>1, <4>1
      <4>2. CASE other # t  BY <4>2, OthersStay
      <4> QED  BY <4>1, <4>2
    <3> QED  BY <3>2
  <2>3. \A other \in AllTasks : \A id : (Sealing(other, id)' => Sealing(other, id)) /\ (Writes(other, id)' => Writes(other, id))
    BY <1>2, OthersStay, EndedIsAboutNothing
  <2>4. \A id : Cleans(id)' => Cleans(id)  BY <1>2, OthersStay, EndedIsAboutNothing DEF AllTasks
  <2>5. SnapshotsOnce' /\ CleanedAreExpired'  BY <2>3, <2>4, SnapshotsRest DEF AllTasks
  <2> QED  BY <1>1, <2>2, <2>3, <2>5, RestInv
<1>3. CASE Proceeds(t, entries)
  <2> DEFINE steps == task[t].call
             i == task[t].at
  <2>1. /\ StoreTypeOK /\ FollowedBy(steps, i) /\ i \in 1..Len(steps) /\ Step(t) = steps[i]
    BY BusySteps DEF ArtifactInv, Step
  <2>2. /\ Busy(t)' /\ Step(t)' = steps[i + 1] /\ Update(t)' = steps[i + 2][1] /\ Update(t) = steps[i + 1][1]
        /\ task'[t].ids = task[t].ids
    BY <1>3, <2>1, ProceedsTo DEF Update, Proceeds
  <2>3. \A d, id : Adds(t, d, id)' = Adds(t, d, id) /\ Removes(t, d, id)' = Removes(t, d, id)
    <3>1. CASE Step(t)[1] = "load"
      <4>1. Step(t)'[2] = Step(t)[2] /\ Step(t)'[1] = Update(t) /\ Update(t) # "load"
        BY <2>1, <2>2, <3>1 DEF FollowedBy
      <4> QED  BY <2>2, <3>1, <4>1 DEF Adds, Removes, About
    <3>2. CASE Step(t)[1] = "open"
      <4>1. Step(t)'[1] = "put"  BY <2>1, <2>2, <3>2 DEF FollowedBy
      <4> QED  BY <2>2, <3>2, <4>1 DEF Adds, Removes, About
    <3>3. CASE Step(t)[1] = "lookup"
      <4>1. Step(t)'[1] = "open" \/ (Step(t)'[1] = "load" /\ Update(t)' \in {"mark", "release"})
        BY <2>1, <2>2, <3>3 DEF FollowedBy
      <4> QED  BY <2>2, <3>3, <4>1 DEF Adds, Removes, About
    <3> QED  BY <3>1, <3>2, <3>3
  <2>4. \A id : Sealing(t, id)' => Sealing(t, id)
    <3>1. ASSUME NEW id, Sealing(t, id)' PROVE Sealing(t, id)
      <4>1. steps = SealDraft /\ i + 1 \in 4..6 /\ id \in task[t].ids  BY <1>3, <3>1 DEF Sealing, Proceeds
      <4>2. i # 3  BY <4>1, <2>1, SealMoves
      <4> QED  BY <2>1, <4>1, <4>2 DEF Sealing
    <3> QED  BY <3>1
  <2>5. \A id : Writes(t, id)' = Writes(t, id) /\ (t = "cleanup" => Cleans(id)' = Cleans(id))
    BY <1>3, <2>1, ProceedsTo
  <2>6. \A other \in AllTasks : \A d, id :
            Adds(other, d, id)' = Adds(other, d, id) /\ Removes(other, d, id)' = Removes(other, d, id)
    BY <2>3, OthersStay
  <2>7. \A other \in AllTasks : \A id : (Sealing(other, id)' => Sealing(other, id)) /\ (Writes(other, id)' => Writes(other, id))
    BY <2>4, <2>5, OthersStay
  <2>8. \A id : Cleans(id)' => Cleans(id)  BY <2>5, OthersStay DEF AllTasks
  <2>9. SnapshotsOnce' /\ CleanedAreExpired'  BY <2>7, <2>8, SnapshotsRest DEF AllTasks
  <2> QED  BY <1>1, <2>6, <2>7, <2>9, RestInv
<1> QED  BY <1>2, <1>3

LEMMA BegunTask ==
    ASSUME ArtifactInv, NEW t \in AllTasks, task[t] = NoCall, NEW steps \in Calls \cup CleanupCalls, NEW ids \in SUBSET ArtifactIds,
           t = "cleanup" => steps \in CleanupCalls,
           t # "cleanup" => steps \in Calls /\ \E id \in ArtifactIds : ids = {id},
           task' = [task EXCEPT ![t] = Begun(steps, ids)], storeDay' = storeDay
    PROVE  /\ OnlyMoves(t) /\ \A other \in AllTasks : TaskOK(other)'
           /\ \A d, id : ~Adds(t, d, id) /\ ~Removes(t, d, id) /\ ~Adds(t, d, id)' /\ ~Removes(t, d, id)'
           /\ \A id : ~Sealing(t, id)'
           /\ task'[t].call = steps /\ task'[t].ids = ids
<1>1. /\ StoreTypeOK /\ task \in [AllTasks -> TaskRecords] /\ storeDay \in Nat \ {0}
      /\ \A other \in AllTasks : TaskOK(other)
  BY DEF ArtifactInv, StoreTypeOK
<1>2. steps # <<>> /\ 1 \in 1..Len(steps) /\ steps[1][1] \in {"put", "unlink", "lookup"}  BY FirstSteps
<1>3. Begun(steps, ids) \in TaskRecords  BY <1>1, NoCallType DEF Begun, TaskRecords
<1>4. task'[t] = Begun(steps, ids) /\ OnlyMoves(t)  BY <1>1, <1>3 DEF OnlyMoves
<1>5. /\ task'[t].call = steps /\ task'[t].at = 1 /\ task'[t].ids = ids /\ task'[t].now = storeDay  BY <1>4 DEF Begun
<1>6. TaskOK(t)'  BY <1>1, <1>2, <1>5 DEF TaskOK, Busy
<1>7. ASSUME NEW other \in AllTasks, other # t PROVE TaskOK(other)'  BY <1>1, <1>4, <1>7 DEF OnlyMoves, TaskOK, Busy
<1>8. \A d, id : ~Adds(t, d, id) /\ ~Removes(t, d, id)  BY NoCallType DEF Adds, Removes, About, Busy
<1>9. \A d, id : ~Adds(t, d, id)' /\ ~Removes(t, d, id)'  BY <1>2, <1>5 DEF Adds, Removes, About, Step
<1>10. \A id : ~Sealing(t, id)'  BY <1>5 DEF Sealing
<1> QED  BY <1>4, <1>5, <1>6, <1>7, <1>8, <1>9, <1>10

\* What starting a call leaves as it is.
LEMMA BegunRests ==
    ASSUME ArtifactInv, NEW t \in AllTasks, OnlyMoves(t), \A other \in AllTasks : TaskOK(other)',
           \A d, id : ~Adds(t, d, id) /\ ~Removes(t, d, id) /\ ~Adds(t, d, id)' /\ ~Removes(t, d, id)',
           \A id : ~Sealing(t, id)',
           UNCHANGED <<files, index, storeDay, evidence, accepted, contested>>, SnapshotsOnce', CleanedAreExpired'
    PROVE  ArtifactInv'
<1>1. FilesRest /\ StoreTypeOK'  BY DEF ArtifactInv, StoreTypeOK, FilesRest, OnlyMoves
<1>2. ASSUME NEW other \in AllTasks, NEW d, NEW id
      PROVE  /\ Adds(other, d, id)' <=> Adds(other, d, id)
             /\ Removes(other, d, id)' <=> Removes(other, d, id)
             /\ Sealing(other, id)' => Sealing(other, id)
  <2>1. CASE other = t  BY <2>1
  <2>2. CASE other # t  BY <2>2, OthersStay
  <2> QED  BY <2>1, <2>2
<1> QED  BY <1>1, <1>2, RestInv

LEMMA StartCallInv == ASSUME ArtifactInv, NEW t \in StoreTasks, StartCall(t) PROVE ArtifactInv'
<1>1. PICK steps \in Calls, id \in ArtifactIds :
          /\ task[t] = NoCall
          /\ steps = WriteValue("snapshots") =>
                /\ index["snapshots"][id] = NoEntry
                /\ \A other \in StoreTasks : id \in task[other].ids => Step(other)[2] # "snapshots"
          /\ task' = [task EXCEPT ![t] = Begun(steps, {id})]
          /\ UNCHANGED <<files, index, storeDay, evidence, accepted, contested>>
  BY DEF StartCall, artifactHistory
<1>2. t \in AllTasks /\ t # "cleanup" /\ "cleanup" \in AllTasks /\ StoreTasks \subseteq AllTasks
  BY ArtifactStoreAssumption DEF AllTasks
<1>3. /\ OnlyMoves(t) /\ \A other \in AllTasks : TaskOK(other)'
      /\ \A d, i : ~Adds(t, d, i) /\ ~Removes(t, d, i) /\ ~Adds(t, d, i)' /\ ~Removes(t, d, i)'
      /\ \A i : ~Sealing(t, i)'
      /\ task'[t].call = steps /\ task'[t].ids = {id}
  <2>1. {id} \in SUBSET ArtifactIds /\ steps \in Calls \cup CleanupCalls /\ \E i \in ArtifactIds : {id} = {i}  BY <1>1
  <2>2. storeDay' = storeDay  BY <1>1
  <2> QED  BY <1>1, <1>2, <2>1, <2>2, BegunTask
<1>4. \A i : Cleans(i)' = Cleans(i)  BY <1>2, <1>3, OthersStay
<1>5. CleanedAreExpired'  BY <1>1, <1>4 DEF ArtifactInv, CleanedAreExpired, Contested
<1>6. \A other \in StoreTasks, i \in ArtifactIds : Writes(other, i) => Step(other)[2] = "snapshots"
  <2>1. ASSUME NEW other \in StoreTasks, NEW i \in ArtifactIds, Writes(other, i) PROVE Step(other)[2] = "snapshots"
    <3>1. task[other].call = WriteValue("snapshots") /\ TaskOK(other)
      BY <2>1, <1>2 DEF Writes, ArtifactInv, StoreTypeOK
    <3>2. Len(task[other].call) = 3 /\ Busy(other)  BY <3>1, ShortSteps DEF Busy, Directories
    <3>3. task[other].at \in {1, 2, 3}
      <4>1. task[other].at \in 1..Len(task[other].call)  BY <3>1, <3>2 DEF TaskOK
      <4> QED  BY <3>2, <4>1
    <3> QED  BY <3>1, <3>3, ShortSteps DEF Step, Directories
  <2> QED  BY <2>1
<1>7. SnapshotsOnce'
  <2> SUFFICES ASSUME NEW a \in StoreTasks, NEW i \in ArtifactIds, Writes(a, i)'
               PROVE  /\ ~Contested("snapshots", i)' => index'["snapshots"][i] = NoEntry
                      /\ \A b \in StoreTasks : Writes(b, i)' => b = a
    BY DEF SnapshotsOnce
  <2>1. \A b \in StoreTasks : b # t => Writes(b, i)' = Writes(b, i)  BY <1>2, <1>3, OthersStay
  <2>2. CASE steps = WriteValue("snapshots") /\ i = id
    <3>1. \A b \in StoreTasks : b # t => ~Writes(b, i)
      <4>1. ASSUME NEW b \in StoreTasks, Writes(b, i) PROVE FALSE
        <5>1. i \in task[b].ids /\ Step(b)[2] = "snapshots"  BY <4>1, <1>6 DEF Writes
        <5> QED  BY <1>1, <2>2, <5>1
      <4> QED  BY <4>1
    <3>2. a = t /\ \A b \in StoreTasks : Writes(b, i)' => b = t  BY <2>1, <3>1
    <3> QED  BY <1>1, <2>2, <3>2
  <2>3. CASE ~(steps = WriteValue("snapshots") /\ i = id)
    <3>1. ~Writes(t, i)'  BY <1>3, <2>3 DEF Writes
    <3>2. a # t /\ Writes(a, i) /\ \A b \in StoreTasks : Writes(b, i)' => Writes(b, i)  BY <2>1, <3>1
    <3> QED  BY <1>1, <3>2 DEF ArtifactInv, SnapshotsOnce, Contested
  <2> QED  BY <2>2, <2>3
<1> QED  BY <1>1, <1>2, <1>3, <1>5, <1>7, BegunRests

LEMMA CleanupInv == ASSUME ArtifactInv, RemoveExpiredDirectory PROVE ArtifactInv'
<1>1. PICK d \in Directories :
          /\ task["cleanup"] = NoCall
          /\ task' = [task EXCEPT !["cleanup"] =
                         Begun(DeleteValue(d), {id \in ArtifactIds : Eligible(d, index[d][id], storeDay)})]
          /\ UNCHANGED <<files, index, storeDay, evidence, accepted, contested>>
  BY DEF RemoveExpiredDirectory, artifactHistory
<1> DEFINE expired == {id \in ArtifactIds : Eligible(d, index[d][id], storeDay)}
<1>2. "cleanup" \in AllTasks /\ StoreTasks \subseteq AllTasks /\ "cleanup" \notin StoreTasks
  BY ArtifactStoreAssumption DEF AllTasks
<1>3. /\ OnlyMoves("cleanup") /\ \A other \in AllTasks : TaskOK(other)'
      /\ \A e, i : ~Adds("cleanup", e, i) /\ ~Removes("cleanup", e, i) /\ ~Adds("cleanup", e, i)' /\ ~Removes("cleanup", e, i)'
      /\ \A i : ~Sealing("cleanup", i)'
      /\ task'["cleanup"].call = DeleteValue(d) /\ task'["cleanup"].ids = expired
  <2>1. DeleteValue(d) \in CleanupCalls /\ expired \in SUBSET ArtifactIds  BY DEF CleanupCalls
  <2> HIDE DEF expired
  <2> QED  BY <1>1, <1>2, <2>1, BegunTask DEF expired
<1>4. \A t \in StoreTasks, i \in ArtifactIds : Writes(t, i)' = Writes(t, i)  BY <1>2, <1>3, OthersStay
<1>5. SnapshotsOnce'  BY <1>1, <1>4 DEF ArtifactInv, SnapshotsOnce, Contested
<1>6. CleanedAreExpired'
  <2> SUFFICES ASSUME NEW i \in ArtifactIds, Cleans(i)', ~Contested("snapshots", i)
               PROVE  /\ index["snapshots"][i] # NoEntry /\ index["snapshots"][i].expires <= storeDay
                      /\ i \notin evidence
    BY <1>1 DEF CleanedAreExpired, Contested
  <2>1. DeleteValue(d) = DeleteValue("snapshots") /\ i \in expired  BY <1>3 DEF Cleans
  <2>2. d = "snapshots"  BY <2>1, CallsDiffer DEF Directories
  <2>3. Eligible("snapshots", index["snapshots"][i], storeDay)  BY <2>1, <2>2
  <2> QED  BY <2>3 DEF Eligible, ArtifactInv, EvidenceIsKept, Contested
<1> QED  BY <1>1, <1>2, <1>3, <1>5, <1>6, BegunRests

LEMMA ReadInv ==
    ASSUME ArtifactInv, NEW t \in AllTasks, LookUp(t) \/ ReadSecureArtifact(t) \/ ReadArtifactIndex(t)
    PROVE  ArtifactInv'
<1>1. /\ Busy(t) /\ Step(t)[1] \in {"lookup", "open", "load"} /\ StoreTypeOK
      /\ UNCHANGED <<files, index, storeDay, evidence, accepted, contested>>
  BY DEF LookUp, ReadSecureArtifact, ReadArtifactIndex, At, artifactHistory, ArtifactInv
<1>2. FilesRest  BY <1>1 DEF FilesRest, StoreTypeOK
<1>3. CASE LookUp(t) \/ ReadSecureArtifact(t)
  <2>1. Step(t)[1] # "load" /\ (Finish(t) \/ Continue(t))  BY <1>3 DEF LookUp, ReadSecureArtifact, At
  <2>2. OnlyMoves(t) /\ (Ends(t) \/ Proceeds(t, task[t].entries))  BY <1>1, <2>1, FinishMoves, ContinueMoves
  <2> QED  BY <1>1, <1>2, <2>1, <2>2, ProgressInv
<1>4. CASE ReadArtifactIndex(t)
  <2>1. Step(t)[1] = "load" /\ Advance(t, index[Step(t)[2]])  BY <1>4 DEF ReadArtifactIndex, At
  <2>2. index[Step(t)[2]] \in [ArtifactIds -> IndexEntries] /\ task[t].at < Len(task[t].call)
    BY <1>1, <2>1, BusySteps DEF StoreTypeOK, FollowedBy, Step
  <2>3. OnlyMoves(t) /\ Proceeds(t, index[Step(t)[2]])  BY <1>1, <2>1, <2>2, AdvanceMoves
  <2>4. ~Ends(t)  BY <1>1, <2>3, NoCallType DEF Ends, Proceeds, Busy
  <2> QED  BY <1>1, <1>2, <2>3, <2>4, ProgressInv
<1> QED  BY <1>3, <1>4

LEMMA InterruptInv == ASSUME ArtifactInv, NEW t \in AllTasks, Interrupt(t) PROVE ArtifactInv'
<1>1. /\ Busy(t) /\ StoreTypeOK /\ Finish(t) /\ UNCHANGED <<files, index, storeDay, evidence, accepted>>
      /\ contested' = contested \cup (IF Open(t) THEN {<<Step(t)[2], id>> : id \in task[t].ids} ELSE {})
  BY DEF Interrupt, ArtifactInv
<1>2. OnlyMoves(t) /\ Ends(t)  BY <1>1, FinishMoves
<1>3. FilesRest  BY <1>1 DEF FilesRest, StoreTypeOK
<1>4. StoreTypeOK'  BY <1>1, <1>2, MovedTypes DEF StoreTypeOK
<1>5. \A d, id : ~Adds(t, d, id)' /\ ~Removes(t, d, id)' /\ ~Sealing(t, id)' /\ ~Writes(t, id)' /\ (t = "cleanup" => ~Cleans(id)')
  BY <1>2, EndedIsAboutNothing
<1>6. \A d, id : Adds(t, d, id) \/ Removes(t, d, id) => Contested(d, id)'
  BY <1>1 DEF Adds, Removes, About, Open, Contested
<1>7. ASSUME NEW other \in AllTasks, NEW d, NEW id
      PROVE  /\ Adds(other, d, id)' => Adds(other, d, id)
             /\ Removes(other, d, id)' => Removes(other, d, id)
             /\ Adds(other, d, id) \/ Removes(other, d, id) =>
                   Adds(other, d, id)' \/ Removes(other, d, id)' \/ Contested(d, id)'
             /\ Sealing(other, id)' => Sealing(other, id)
             /\ Writes(other, id)' => Writes(other, id)
  <2>1. CASE other = t  BY <1>5, <1>6, <2>1
  <2>2. CASE other # t  BY <1>2, <2>2, OthersStay
  <2> QED  BY <2>1, <2>2
<1>8. \A id : Cleans(id)' => Cleans(id)  BY <1>2, <1>5, OthersStay DEF AllTasks
<1>9. SnapshotsOnce' /\ CleanedAreExpired'  BY <1>3, <1>7, <1>8, SnapshotsRest DEF AllTasks
<1> QED  BY <1>3, <1>4, <1>7, <1>9, RestInv

LEMMA DayInv == ASSUME ArtifactInv, StoreDayPasses PROVE ArtifactInv'
<1>1. /\ storeDay' = storeDay + 1 /\ UNCHANGED <<files, index, task, evidence, accepted, contested>>
      /\ StoreTypeOK /\ storeDay \in Nat
  BY DEF StoreDayPasses, artifactHistory, ArtifactInv, StoreTypeOK
<1>2. FilesRest  BY <1>1 DEF FilesRest
<1>3. StoreTypeOK'
  <2>1. ASSUME NEW t \in AllTasks PROVE TaskOK(t)'
    <3>1. TaskOK(t) /\ (Busy(t)' = Busy(t)) /\ task'[t] = task[t]  BY <1>1 DEF StoreTypeOK, Busy
    <3>2. \A n \in 1..storeDay : n \in 1..storeDay'  BY <1>1
    <3> QED  BY <3>1, <3>2 DEF TaskOK
  <2>2. storeDay' \in Nat \ {0}  BY <1>1
  <2> QED  BY <1>1, <2>1, <2>2 DEF StoreTypeOK
<1>4. \A t, d, id : /\ Adds(t, d, id)' = Adds(t, d, id) /\ Removes(t, d, id)' = Removes(t, d, id)
                    /\ Sealing(t, id)' = Sealing(t, id) /\ Writes(t, id)' = Writes(t, id) /\ Cleans(id)' = Cleans(id)
  BY <1>1 DEF Adds, Removes, About, Update, Step, Busy, Sealing, Writes, Cleans
<1>5. SnapshotsOnce' /\ CleanedAreExpired'  BY <1>2, <1>4, SnapshotsRest
<1> QED  BY <1>2, <1>3, <1>4, <1>5, RestInv

LEMMA TtlIsPositive == \A d \in Directories : TtlOf(d) \in Nat \ {0}
  BY ArtifactStoreAssumption DEF TtlOf

\* A task that is at neither of the two steps between a file and its entry.
LEMMA NotBetween ==
    ASSUME NEW t, Step(t)[1] \notin {"load", "add", "remove"}
    PROVE  \A d, id : ~Adds(t, d, id) /\ ~Removes(t, d, id)
  BY DEF Adds, Removes

\* Which tasks touch a snapshot.
LEMMA CleanupOf ==
    ASSUME NEW steps \in CleanupCalls, NEW i \in 1..Len(steps), NEW d, steps[i][2] = d
    PROVE  steps = DeleteValue(d) /\ steps[i][1] \in {"unlink", "load", "remove"}
           /\ (steps[i][1] = "load" => steps[i + 1][1] = "remove") /\ (steps[i][1] = "remove" => i = Len(steps))
<1>1. PICK e \in Directories : steps = DeleteValue(e)  BY DEF CleanupCalls
<1>2. Len(steps) = 3 /\ steps[1] = <<"unlink", e>> /\ steps[2] = <<"load", e>> /\ steps[3] = <<"remove", e>>
  BY <1>1, ShortSteps
<1>3. i \in {1, 2, 3}  BY <1>2
<1> QED  BY <1>1, <1>2, <1>3

LEMMA SnapshotTasks ==
    ASSUME StoreTypeOK, NEW t \in AllTasks, NEW id, About(t, "snapshots", id)
    PROVE  /\ t = "cleanup" => Cleans(id)
           /\ t # "cleanup" => t \in StoreTasks /\ ~Removes(t, "snapshots", id) /\ Step(t)[1] \notin {"unlink", "remove"}
           /\ Step(t)[1] \in {"put", "add"} => t \in StoreTasks /\ Writes(t, id)
<1>1. /\ Busy(t) /\ TaskOK(t) /\ Step(t)[2] = "snapshots" /\ id \in task[t].ids /\ Step(t) = task[t].call[task[t].at]
      /\ task[t].at \in 1..Len(task[t].call) /\ Step(t)[1] \in StepNames
      /\ FollowedBy(task[t].call, task[t].at)
  BY BusySteps DEF About, Step, StoreTypeOK
<1>2. CASE t = "cleanup"
  <2>1. task[t].call \in CleanupCalls  BY <1>1, <1>2 DEF TaskOK
  <2>2. task[t].call = DeleteValue("snapshots") /\ Step(t)[1] \in {"unlink", "load", "remove"}
    BY <1>1, <2>1, CleanupOf
  <2> QED  BY <1>1, <1>2, <2>2 DEF Cleans
<1>3. CASE t # "cleanup"
  <2>1. t \in StoreTasks /\ task[t].call \in Calls  BY <1>1, <1>3 DEF TaskOK, AllTasks
  <2>2. \E step : Step(t) = <<step, "snapshots">> /\ step = Step(t)[1]  BY <1>1 DEF FollowedBy
  <2>3. Step(t)[1] \in {"put", "add"} => task[t].call = WriteValue("snapshots")  BY <1>1, <2>1, <2>2, OfSnapshots
  <2>4. Step(t)[1] \notin {"unlink", "remove"}  BY <1>1, <2>1, <2>2, OfSnapshots
  <2>5. ~(Step(t)[1] = "load" /\ Update(t) = "remove")
    <3>1. ASSUME Step(t)[1] = "load", Update(t) = "remove" PROVE FALSE
      <4>1. task[t].call = WriteValue("snapshots")  BY <1>1, <2>1, <2>2, <3>1, OfSnapshots DEF Update
      <4>2. Len(task[t].call) = 3  BY <4>1, ShortSteps DEF Directories
      <4>3. task[t].at \in {1, 2, 3}  BY <1>1, <4>2
      <4> QED  BY <1>1, <3>1, <4>1, <4>3, ShortSteps DEF Update, Directories
    <3> QED  BY <3>1
  <2> QED  BY <1>1, <1>3, <2>1, <2>3, <2>4, <2>5 DEF Writes, Removes
<1> QED  BY <1>2, <1>3

\* The write of a file: its entry comes next.
LEMMA PutInv == ASSUME ArtifactInv, NEW t \in AllTasks, WriteAtomicSecureArtifact(t) PROVE ArtifactInv'
<1>1. PICK d : d = Step(t)[2]  OBVIOUS
<1>2. /\ Busy(t) /\ Step(t)[1] = "put" /\ StoreTypeOK /\ Continue(t)
      /\ files' = [files EXCEPT ![d] = [id \in ArtifactIds |->
                      IF id \in task[t].ids THEN task[t].now + TtlOf(d) ELSE files[d][id]]]
      /\ contested' = contested \cup Contend(d, task[t].ids, t)
      /\ accepted' = accepted \cup {id \in task[t].ids : d = "drafts" /\ \A other \in AllTasks : ~Sealing(other, id)}
      /\ UNCHANGED <<index, storeDay, evidence>>
  BY <1>1 DEF WriteAtomicSecureArtifact, At, ArtifactInv
<1>3. /\ d \in Directories /\ task[t].ids \subseteq ArtifactIds /\ task[t].now \in Nat
      /\ Step(t) = task[t].call[task[t].at] /\ FollowedBy(task[t].call, task[t].at)
      /\ task[t].at \in 1..Len(task[t].call) /\ Len(task[t].call) \in Nat
  BY <1>1, <1>2, BusySteps DEF Step, TaskRecords
<1>4. /\ task[t].at + 2 <= Len(task[t].call) /\ task[t].call[task[t].at + 1] = <<"load", d>>
      /\ task[t].call[task[t].at + 2][1] = "add"
  BY <1>1, <1>2, <1>3 DEF FollowedBy
<1>5. OnlyMoves(t) /\ Proceeds(t, task[t].entries)  BY <1>2, <1>3, <1>4, ContinueMoves
<1>6. /\ Busy(t)' /\ Step(t)' = <<"load", d>> /\ Update(t)' = "add" /\ task'[t].ids = task[t].ids
      /\ \A id : Writes(t, id)' = Writes(t, id) /\ (t = "cleanup" => Cleans(id)' = Cleans(id))
  BY <1>2, <1>4, <1>5, ProceedsTo DEF Proceeds
<1>7. \A e, id : (Adds(t, e, id)' <=> e = d /\ id \in task[t].ids) /\ ~Removes(t, e, id)'
  BY <1>6 DEF Adds, Removes, About
<1>8. \A e, id : ~Adds(t, e, id) /\ ~Removes(t, e, id)  BY <1>2, NotBetween
<1>9. /\ files' \in [Directories -> [ArtifactIds -> Nat]]
      /\ \A e \in Directories, id \in ArtifactIds :
            /\ e = d /\ id \in task[t].ids => files'[e][id] # 0
            /\ ~(e = d /\ id \in task[t].ids) => files'[e][id] = files[e][id]
  <2>1. TtlOf(d) \in Nat \ {0} /\ files \in [Directories -> [ArtifactIds -> Nat]]
    BY <1>2, <1>3, TtlIsPositive DEF StoreTypeOK
  <2>2. task[t].now + TtlOf(d) \in Nat \ {0}  BY <1>3, <2>1
  <2> HIDE DEF TtlOf
  <2> QED  BY <1>2, <1>3, <2>1, <2>2
<1>10. /\ \A e, id : ~Contested(e, id)' => ~Contested(e, id)
       /\ \A u \in AllTasks, id \in task[t].ids : u # t /\ (Adds(u, d, id) \/ Removes(u, d, id)) => Contested(d, id)'
  BY <1>2 DEF Contested, Contend, Touches, Open, Adds, Removes, About
<1>11. StoreTypeOK'  BY <1>2, <1>5, <1>9, MovedTypes DEF StoreTypeOK
<1>12. FilesBetween'
  <2> SUFFICES ASSUME NEW u \in AllTasks, NEW e \in Directories, NEW id \in ArtifactIds, ~Contested(e, id)'
               PROVE  (Adds(u, e, id)' => files'[e][id] # 0) /\ (Removes(u, e, id)' => files'[e][id] = 0)
    BY DEF FilesBetween
  <2>1. CASE u = t  BY <1>7, <1>9, <2>1
  <2>2. CASE u # t
    <3>1. (Adds(u, e, id)' = Adds(u, e, id)) /\ (Removes(u, e, id)' = Removes(u, e, id))  BY <1>5, <2>2, OthersStay
    <3>2. (Adds(u, e, id) => files[e][id] # 0) /\ (Removes(u, e, id) => files[e][id] = 0)
      BY <1>10 DEF ArtifactInv, FilesBetween
    <3>3. Adds(u, e, id) \/ Removes(u, e, id) => ~(e = d /\ id \in task[t].ids)  BY <1>10, <2>2
    <3> QED  BY <1>9, <3>1, <3>2, <3>3
  <2> QED  BY <2>1, <2>2
<1>13. EntriesFollow'
  <2> SUFFICES ASSUME NEW e \in Directories, NEW id \in ArtifactIds, ~Contested(e, id)',
                      \A u \in AllTasks : ~Adds(u, e, id)' /\ ~Removes(u, e, id)'
               PROVE  (files'[e][id] # 0) = (index'[e][id] # NoEntry)
    BY DEF EntriesFollow
  <2>1. files'[e][id] = files[e][id]  BY <1>7, <1>9
  <2>2. \A u \in AllTasks : ~Adds(u, e, id) /\ ~Removes(u, e, id)  BY <1>5, <1>8, OthersStay
  <2>3. (files[e][id] # 0) = (index[e][id] # NoEntry)  BY <1>10, <2>2 DEF ArtifactInv, EntriesFollow
  <2> QED  BY <1>2, <2>1, <2>3
<1>14. SnapshotsOnce' /\ CleanedAreExpired'
  <2>1. \A u \in AllTasks : \A id : Writes(u, id)' = Writes(u, id)  BY <1>5, <1>6, OthersStay
  <2>2. \A id : Cleans(id)' = Cleans(id)  BY <1>5, <1>6, OthersStay DEF AllTasks
  <2> QED  BY <1>2, <1>10, <2>1, <2>2 DEF ArtifactInv, SnapshotsOnce, CleanedAreExpired, AllTasks
<1>15. EvidenceIsKept' /\ SealKeepsTheChange'
  <2>1. \A e \in Directories, id \in ArtifactIds : files[e][id] # 0 => files'[e][id] # 0  BY <1>9
  <2>2. "snapshots" \in Directories /\ "drafts" \in Directories /\ "staged" \in Directories  BY DEF Directories
  <2>3. EvidenceIsKept'  BY <1>2, <1>10, <2>1, <2>2 DEF ArtifactInv, EvidenceIsKept, Contested
  <2>4. SealKeepsTheChange'  BY <1>2, <1>3, <1>9, <2>1, <2>2 DEF ArtifactInv, SealKeepsTheChange
  <2> QED  BY <2>3, <2>4
<1>16. SealedAreStaged'
  <2> SUFFICES ASSUME NEW u \in AllTasks, NEW id \in ArtifactIds, Sealing(u, id)', id \in accepted'
               PROVE  files'["staged"][id] # 0
    BY DEF SealedAreStaged
  <2>1. "staged" \in Directories  BY DEF Directories
  <2>2. CASE u = t
    <3>1. task[t].call = SealDraft /\ id \in task[t].ids  BY <1>5, <2>2 DEF Sealing, Proceeds
    <3>2. d = "staged"  BY <1>1, <1>2, <1>3, <3>1, SealMoves
    <3> QED  BY <1>9, <2>1, <3>1, <3>2
  <2>3. CASE u # t
    <3>1. Sealing(u, id)  BY <1>5, <2>3, OthersStay
    <3>2. id \in accepted  BY <1>2, <3>1
    <3>3. files["staged"][id] # 0  BY <3>1, <3>2 DEF ArtifactInv, SealedAreStaged
    <3> QED  BY <1>9, <2>1, <3>3
  <2> QED  BY <2>2, <2>3
<1>17. evidence' \subseteq ArtifactIds /\ accepted' \subseteq ArtifactIds  BY <1>2, <1>3 DEF ArtifactInv
<1> QED  BY <1>11, <1>12, <1>13, <1>14, <1>15, <1>16, <1>17 DEF ArtifactInv

\* The removal of a file: its entry comes next, or there was nothing to remove.
LEMMA UnlinkInv == ASSUME ArtifactInv, NEW t \in AllTasks, DeleteSecureArtifact(t) PROVE ArtifactInv'
<1>1. PICK d : d = Step(t)[2]  OBVIOUS
<1>2. /\ Busy(t) /\ Step(t)[1] = "unlink" /\ StoreTypeOK
      /\ files' = [files EXCEPT ![d] = [id \in ArtifactIds |->
                      IF id \in {i \in task[t].ids : files[d][i] # 0} THEN 0 ELSE files[d][id]]]
      /\ contested' = contested \cup Contend(d, {i \in task[t].ids : files[d][i] # 0}, t)
      /\ accepted' = IF task[t].call = SealDraft THEN accepted ELSE accepted \ task[t].ids
      /\ IF {i \in task[t].ids : files[d][i] # 0} = {} /\ t # "cleanup" THEN Finish(t) ELSE Continue(t)
      /\ UNCHANGED <<index, storeDay, evidence>>
  BY <1>1 DEF DeleteSecureArtifact, At, ArtifactInv
<1>3. /\ d \in Directories /\ task[t].ids \subseteq ArtifactIds
      /\ Step(t) = task[t].call[task[t].at] /\ FollowedBy(task[t].call, task[t].at)
      /\ task[t].at \in 1..Len(task[t].call) /\ Len(task[t].call) \in Nat
  BY <1>1, <1>2, BusySteps DEF Step, TaskRecords
<1>4. /\ task[t].at + 2 <= Len(task[t].call) /\ task[t].call[task[t].at + 1] = <<"load", d>>
      /\ task[t].call[task[t].at + 2][1] = "remove"
  BY <1>1, <1>2, <1>3 DEF FollowedBy
<1>5. /\ OnlyMoves(t)
      /\ \/ Ends(t) /\ \A id \in task[t].ids : files[d][id] = 0
         \/ Proceeds(t, task[t].entries)
  <2>1. CASE Finish(t) /\ \A id \in task[t].ids : files[d][id] = 0  BY <1>2, <2>1, FinishMoves
  <2>2. CASE Continue(t)  BY <1>2, <1>3, <1>4, <2>2, ContinueMoves
  <2> QED  BY <1>2, <2>1, <2>2
<1>6. \A e, id : /\ ~Adds(t, e, id)'
                 /\ Removes(t, e, id)' => e = d /\ id \in task[t].ids
                 /\ ~Removes(t, e, id)' /\ e = d /\ id \in task[t].ids => files[d][id] = 0
                 /\ Writes(t, id)' => Writes(t, id)
                 /\ t = "cleanup" /\ Cleans(id)' => Cleans(id)
                 /\ Sealing(t, id)' => Sealing(t, id)
  <2>1. CASE Ends(t) /\ \A id \in task[t].ids : files[d][id] = 0  BY <2>1, EndedIsAboutNothing
  <2>2. CASE Proceeds(t, task[t].entries)
    <3>1. /\ Busy(t)' /\ Step(t)' = <<"load", d>> /\ Update(t)' = "remove" /\ task'[t].ids = task[t].ids
          /\ task'[t].call = task[t].call /\ task'[t].at = task[t].at + 1
          /\ \A id : Writes(t, id)' = Writes(t, id) /\ (t = "cleanup" => Cleans(id)' = Cleans(id))
      BY <1>2, <1>4, <2>2, ProceedsTo DEF Proceeds
    <3>2. \A e, id : ~Adds(t, e, id)' /\ (Removes(t, e, id)' <=> e = d /\ id \in task[t].ids)
      BY <3>1 DEF Adds, Removes, About
    <3>3. ASSUME NEW id, Sealing(t, id)' PROVE Sealing(t, id)
      <4>1. task[t].call = SealDraft /\ task[t].at + 1 \in 4..6 /\ id \in task[t].ids  BY <3>1, <3>3 DEF Sealing
      <4>2. task[t].at # 3  BY <1>2, <1>3, <4>1, SealMoves
      <4> QED  BY <1>3, <4>1, <4>2 DEF Sealing
    <3> QED  BY <3>1, <3>2, <3>3
  <2> QED  BY <1>5, <2>1, <2>2
<1>7. \A e, id : ~Adds(t, e, id) /\ ~Removes(t, e, id)  BY <1>2, NotBetween
<1>8. /\ files' \in [Directories -> [ArtifactIds -> Nat]]
      /\ \A e \in Directories, id \in ArtifactIds :
            /\ e = d /\ id \in task[t].ids => files'[e][id] = 0
            /\ ~(e = d /\ id \in task[t].ids) => files'[e][id] = files[e][id]
  <2>1. files \in [Directories -> [ArtifactIds -> Nat]]  BY <1>2 DEF StoreTypeOK
  <2> QED  BY <1>2, <1>3, <2>1
<1>9. /\ \A e, id : ~Contested(e, id)' => ~Contested(e, id)
      /\ \A u \in AllTasks, id \in task[t].ids :
            u # t /\ (Adds(u, d, id) \/ Removes(u, d, id)) /\ files[d][id] # 0 => Contested(d, id)'
  BY <1>2 DEF Contested, Contend, Touches, Open, Adds, Removes, About
<1>10. StoreTypeOK'
  <2>1. task' \in [AllTasks -> TaskRecords] /\ \A other \in AllTasks : TaskOK(other)'  BY <1>2, <1>5, MovedTypes
  <2> QED  BY <1>2, <1>8, <2>1 DEF StoreTypeOK
<1>11. FilesBetween'
  <2> SUFFICES ASSUME NEW u \in AllTasks, NEW e \in Directories, NEW id \in ArtifactIds, ~Contested(e, id)'
               PROVE  (Adds(u, e, id)' => files'[e][id] # 0) /\ (Removes(u, e, id)' => files'[e][id] = 0)
    BY DEF FilesBetween
  <2>1. CASE u = t  BY <1>6, <1>8, <2>1
  <2>2. CASE u # t
    <3>1. (Adds(u, e, id)' = Adds(u, e, id)) /\ (Removes(u, e, id)' = Removes(u, e, id))  BY <1>5, <2>2, OthersStay
    <3>2. (Adds(u, e, id) => files[e][id] # 0) /\ (Removes(u, e, id) => files[e][id] = 0)
      BY <1>9 DEF ArtifactInv, FilesBetween
    <3>3. Adds(u, e, id) => ~(e = d /\ id \in task[t].ids)  BY <1>9, <2>2, <3>2
    <3> QED  BY <1>8, <3>1, <3>2, <3>3
  <2> QED  BY <2>1, <2>2
<1>12. EntriesFollow'
  <2> SUFFICES ASSUME NEW e \in Directories, NEW id \in ArtifactIds, ~Contested(e, id)',
                      \A u \in AllTasks : ~Adds(u, e, id)' /\ ~Removes(u, e, id)'
               PROVE  (files'[e][id] # 0) = (index'[e][id] # NoEntry)
    BY DEF EntriesFollow
  <2>1. files'[e][id] = files[e][id]  BY <1>6, <1>8
  <2>2. \A u \in AllTasks : ~Adds(u, e, id) /\ ~Removes(u, e, id)  BY <1>5, <1>7, OthersStay
  <2>3. (files[e][id] # 0) = (index[e][id] # NoEntry)  BY <1>9, <2>2 DEF ArtifactInv, EntriesFollow
  <2> QED  BY <1>2, <2>1, <2>3
<1>13. SnapshotsOnce' /\ CleanedAreExpired'
  <2>1. \A u \in AllTasks : \A id : Writes(u, id)' => Writes(u, id)  BY <1>5, <1>6, OthersStay
  <2>2. \A id : Cleans(id)' => Cleans(id)  BY <1>5, <1>6, OthersStay DEF AllTasks
  <2>3. SnapshotsOnce'  BY <1>2, <1>9, <2>1 DEF ArtifactInv, SnapshotsOnce, AllTasks
  <2>4. CleanedAreExpired'  BY <1>2, <1>9, <2>2 DEF ArtifactInv, CleanedAreExpired
  <2> QED  BY <2>3, <2>4
<1>14. EvidenceIsKept'
  <2> SUFFICES ASSUME NEW id \in evidence, ~Contested("snapshots", id)'
               PROVE  files'["snapshots"][id] # 0 /\ index'["snapshots"][id].kept
    BY <1>2 DEF EvidenceIsKept, Contested
  <2>1. ~Contested("snapshots", id) /\ id \in ArtifactIds /\ "snapshots" \in Directories
    BY <1>9 DEF ArtifactInv, Directories
  <2>2. files["snapshots"][id] # 0 /\ index["snapshots"][id].kept  BY <2>1 DEF ArtifactInv, EvidenceIsKept, Contested
  <2>3. ~(d = "snapshots" /\ id \in task[t].ids)
    <3>1. ASSUME d = "snapshots", id \in task[t].ids PROVE FALSE
      <4>1. About(t, "snapshots", id)  BY <1>1, <1>2, <3>1 DEF About
      <4>2. Cleans(id)  BY <1>2, <4>1, SnapshotTasks
      <4> QED  BY <2>1, <4>2 DEF ArtifactInv, CleanedAreExpired
    <3> QED  BY <3>1
  <2> QED  BY <1>2, <1>8, <2>1, <2>2, <2>3
<1>15. task[t].call = SealDraft => d = "drafts" /\ task[t].at = 6  BY <1>1, <1>2, <1>3, SealMoves, SMTT(20)
<1>16. SealedAreStaged'
  <2> SUFFICES ASSUME NEW u \in AllTasks, NEW id \in ArtifactIds, Sealing(u, id)', id \in accepted'
               PROVE  files'["staged"][id] # 0
    BY DEF SealedAreStaged
  <2>1. Sealing(u, id)  BY <1>5, <1>6, OthersStay
  <2>2. id \in accepted /\ files["staged"][id] # 0  BY <1>2, <2>1 DEF ArtifactInv, SealedAreStaged
  <2>3. ~(d = "staged" /\ id \in task[t].ids)  BY <1>2, <1>15
  <2> QED  BY <1>8, <2>2, <2>3 DEF Directories
<1>17. SealKeepsTheChange'
  <2> SUFFICES ASSUME NEW id \in accepted' PROVE files'["drafts"][id] # 0 \/ files'["staged"][id] # 0
    BY DEF SealKeepsTheChange
  <2>1. /\ id \in accepted /\ id \in ArtifactIds /\ "drafts" \in Directories /\ "staged" \in Directories
        /\ (files["drafts"][id] # 0 \/ files["staged"][id] # 0)
    BY <1>2 DEF ArtifactInv, SealKeepsTheChange, Directories
  <2>2. CASE id \notin task[t].ids  BY <1>8, <2>1, <2>2
  <2>3. CASE id \in task[t].ids
    <3>1. task[t].call = SealDraft  BY <1>2, <2>3
    <3>2. Sealing(t, id)  BY <1>15, <2>3, <3>1 DEF Sealing
    <3>3. files["staged"][id] # 0  BY <2>1, <3>2 DEF ArtifactInv, SealedAreStaged
    <3> QED  BY <1>8, <1>15, <2>1, <3>1, <3>3
  <2> QED  BY <2>2, <2>3
<1>18. evidence' \subseteq ArtifactIds /\ accepted' \subseteq ArtifactIds  BY <1>2 DEF ArtifactInv
<1> QED  BY <1>10, <1>11, <1>12, <1>13, <1>14, <1>16, <1>17, <1>18 DEF ArtifactInv

\* What a call makes of an entry.
LEMMA UpdatedEntry ==
    ASSUME NEW d \in Directories, NEW entry \in IndexEntries, NEW now \in Nat \ {0}, NEW do
    PROVE  LET new == Updated(do, d, entry, now)
           IN  /\ new \in IndexEntries
               /\ do = "add" => new # NoEntry
               /\ do = "remove" => new = NoEntry
               /\ do \in {"mark", "release"} => (new = NoEntry <=> entry = NoEntry)
               /\ do = "mark" /\ entry # NoEntry => new.kept /\ new.expires = entry.expires
               /\ do = "release" /\ entry # NoEntry => new.expires \in {now, entry.expires}
<1> DEFINE new == Updated(do, d, entry, now)
<1>1. TtlOf(d) \in Nat \ {0} /\ NoEntry \in IndexEntries  BY TtlIsPositive DEF NoEntry, IndexEntries
<1> HIDE DEF TtlOf
<1>2. CASE do = "add"
  <2>1. new = [expires |-> now + TtlOf(d), kept |-> FALSE]  BY <1>2 DEF Updated
  <2>2. new \in IndexEntries /\ new.expires # 0  BY <1>1, <2>1 DEF IndexEntries
  <2>3. new # NoEntry  BY <2>2 DEF NoEntry
  <2> QED  BY <1>2, <2>2, <2>3
<1>3. CASE do = "remove"  BY <1>1, <1>3 DEF Updated
<1>4. CASE do = "mark"
  <2>1. CASE entry = NoEntry  BY <1>1, <1>4, <2>1 DEF Updated
  <2>2. CASE entry # NoEntry
    <3>1. new = [entry EXCEPT !.kept = TRUE]  BY <1>4, <2>2 DEF Updated
    <3>2. new \in IndexEntries /\ new.kept /\ new.expires = entry.expires  BY <3>1 DEF IndexEntries
    <3>3. new # NoEntry  BY <3>2 DEF NoEntry
    <3> QED  BY <1>4, <2>2, <3>2, <3>3
  <2> QED  BY <2>1, <2>2
<1>5. CASE do = "release"
  <2>1. CASE entry = NoEntry  BY <1>1, <1>5, <2>1 DEF Updated
  <2>2. CASE entry # NoEntry
    <3>1. new = [expires |-> IF entry.expires <= now THEN now ELSE entry.expires, kept |-> FALSE]
      BY <1>5, <2>2 DEF Updated
    <3>2. entry.expires \in Nat  BY DEF IndexEntries
    <3>3. new \in IndexEntries /\ new.expires \in {now, entry.expires} /\ new.expires # 0
      BY <3>1, <3>2 DEF IndexEntries
    <3>4. new # NoEntry  BY <3>3 DEF NoEntry
    <3> QED  BY <1>5, <2>2, <3>3, <3>4
  <2> QED  BY <2>1, <2>2
<1>6. CASE do \notin {"add", "remove", "mark", "release"}  BY <1>1, <1>6 DEF Updated
<1> QED  BY <1>2, <1>3, <1>4, <1>5, <1>6

\* Only snapshots are marked.
LEMMA Marks ==
    ASSUME StoreTypeOK, NEW t \in AllTasks, Busy(t), Step(t)[1] \in {"mark", "release"}
    PROVE  Step(t)[2] = "snapshots"
<1>1. TaskOK(t) /\ task[t].at \in 1..Len(task[t].call) /\ Step(t) = task[t].call[task[t].at]
  BY BusySteps DEF StoreTypeOK, Step
<1>2. task[t].call \notin CleanupCalls  BY <1>1, CleanupOf
<1>3. task[t].call \in Calls  BY <1>1, <1>2 DEF TaskOK
<1>4. CASE \E d \in {"drafts", "snapshots"} : task[t].call = WriteValue(d)
  <2>1. PICK d \in Directories : task[t].call = WriteValue(d)  BY <1>4 DEF Directories
  <2>2. Len(task[t].call) = 3 /\ \A i \in 1..3 : task[t].call[i][1] \in {"put", "load", "add"}  BY <2>1, ShortSteps
  <2> QED  BY <1>1, <2>2
<1>5. CASE \E d \in {"drafts", "staged"} : task[t].call = DeleteValue(d)  BY <1>2, <1>5 DEF CleanupCalls, Directories
<1>6. CASE \E mark \in {"mark", "release"} : task[t].call = MarkValue(mark)
  <2>1. Len(task[t].call) = 3 /\ \A i \in 1..3 : task[t].call[i][2] = "snapshots"  BY <1>6, MarkSteps
  <2> QED  BY <1>1, <2>1
<1>7. CASE task[t].call = SealDraft
  <2>1. task[t].at \in {1, 2, 3, 4, 5, 6, 7, 8}  BY <1>1, <1>7, SealSteps
  <2> QED  BY <1>1, <1>7, <2>1, SealSteps
<1> QED  BY <1>3, <1>4, <1>5, <1>6, <1>7 DEF Calls

\* The write of an index: where nobody wrote in between, one entry changes.
LEMMA IndexStep ==
    ASSUME ArtifactInv, NEW t \in AllTasks, WriteArtifactIndex(t), NEW do, NEW d, do = Step(t)[1], d = Step(t)[2]
    PROVE  /\ Busy(t) /\ do \in {"add", "remove", "mark", "release"} /\ d \in Directories /\ task[t].ids \subseteq ArtifactIds
           /\ UNCHANGED <<files, storeDay, accepted>> /\ OnlyMoves(t)
           /\ StoreTypeOK'
           /\ \A e, id : /\ ~Adds(t, e, id)' /\ ~Removes(t, e, id)'
                         /\ Sealing(t, id)' => Sealing(t, id)
                         /\ Writes(t, id)' => Writes(t, id) /\ do \in {"mark", "release"}
                         /\ t = "cleanup" /\ Cleans(id)' => Cleans(id) /\ do # "remove"
           /\ \A e, id : ~Contested(e, id)' => ~Contested(e, id)
           /\ \A e \in Directories, id \in ArtifactIds :
                 /\ ~Contested(e, id)' /\ e = d /\ id \in task[t].ids => index'[e][id] = Updated(do, d, index[e][id], task[t].now)
                 /\ ~Contested(e, id)' /\ ~(e = d /\ id \in task[t].ids) => index'[e][id] = index[e][id]
           /\ \A id : id \in evidence' =>
                 \/ id \in evidence /\ ~(do = "release" /\ id \in task[t].ids)
                 \/ do = "mark" /\ id \in task[t].ids /\ index'[d][id].expires > storeDay
<1>1. do = Step(t)[1] /\ d = Step(t)[2]  OBVIOUS
<1>2. /\ StoreTypeOK /\ Busy(t) /\ do \in {"add", "remove", "mark", "release"}
      /\ index' = [index EXCEPT ![d] = [id \in ArtifactIds |->
                      IF id \in task[t].ids THEN Updated(do, d, task[t].entries[id], task[t].now) ELSE task[t].entries[id]]]
      /\ contested' = contested \cup {<<d, id>> : id \in {i \in ArtifactIds : index[d][i] # task[t].entries[i]}}
      /\ evidence' = CASE do = "mark" -> evidence \cup {id \in task[t].ids : index'[d][id].expires > storeDay}
                       [] do = "release" -> evidence \ task[t].ids
                       [] OTHER -> evidence
      /\ Continue(t) /\ UNCHANGED <<files, storeDay, accepted>>
  BY <1>1 DEF WriteArtifactIndex, At, ArtifactInv
<1>3. /\ d \in Directories /\ task[t].ids \subseteq ArtifactIds /\ task[t].now \in Nat \ {0}
      /\ task[t].entries \in [ArtifactIds -> IndexEntries] /\ storeDay \in Nat
      /\ Step(t) = task[t].call[task[t].at] /\ FollowedBy(task[t].call, task[t].at)
      /\ task[t].at \in 1..Len(task[t].call) /\ Len(task[t].call) \in Nat
  <2>1. /\ task[t] \in TaskRecords /\ task[t].ids \subseteq ArtifactIds /\ task[t].now \in 1..storeDay
        /\ FollowedBy(task[t].call, task[t].at) /\ task[t].at \in 1..Len(task[t].call) /\ Len(task[t].call) \in Nat
        /\ storeDay \in Nat
    BY <1>1, <1>2, BusySteps DEF StoreTypeOK
  <2>2. task[t].entries \in [ArtifactIds -> IndexEntries]  BY <2>1 DEF TaskRecords
  <2>3. task[t].now \in Nat \ {0}  BY <2>1
  <2>4. Step(t)[2] \in Directories  BY <1>2, BusySteps
  <2>5. d \in Directories  BY <1>1, <2>4
  <2>6. Step(t) = task[t].call[task[t].at]  BY DEF Step
  <2> QED  BY <2>1, <2>2, <2>3, <2>5, <2>6
<1>4. OnlyMoves(t) /\ (IF task[t].at = Len(task[t].call) THEN Ends(t) ELSE Proceeds(t, task[t].entries))
  BY <1>2, ContinueMoves
<1>5. \A e, id : /\ ~Adds(t, e, id)' /\ ~Removes(t, e, id)'
                 /\ Sealing(t, id)' => Sealing(t, id)
                 /\ Writes(t, id)' => Writes(t, id) /\ do \in {"mark", "release"}
                 /\ t = "cleanup" /\ Cleans(id)' => Cleans(id) /\ do # "remove"
  <2>1. CASE Ends(t)  BY <2>1, EndedIsAboutNothing
  <2>2. CASE task[t].at # Len(task[t].call) /\ Proceeds(t, task[t].entries)
    <3>1. /\ do = "add" /\ Step(t)'[1] = "unlink" /\ Busy(t)'
          /\ task'[t].ids = task[t].ids /\ task'[t].call = task[t].call /\ task'[t].at = task[t].at + 1
          /\ \A id : Writes(t, id)' = Writes(t, id) /\ (t = "cleanup" => Cleans(id)' = Cleans(id))
      BY <1>1, <1>2, <1>3, <2>2, ProceedsTo DEF Proceeds, FollowedBy
    <3>2. \A e, id : ~Adds(t, e, id)' /\ ~Removes(t, e, id)'  BY <3>1 DEF Adds, Removes
    <3>3. ASSUME NEW id, Sealing(t, id)' PROVE Sealing(t, id)
      <4>1. task[t].call = SealDraft /\ task[t].at + 1 \in 4..6 /\ id \in task[t].ids  BY <3>1, <3>3 DEF Sealing
      <4>2. task[t].at # 3  BY <1>1, <1>2, <1>3, <4>1, SealMoves, SMTT(20)
      <4> QED  BY <1>3, <4>1, <4>2 DEF Sealing
    <3>4. \A id : ~Writes(t, id)
      <4>1. ASSUME task[t].call = WriteValue("snapshots") PROVE FALSE
        <5>1. Len(task[t].call) = 3 /\ "snapshots" \in Directories  BY <4>1, ShortSteps DEF Directories
        <5>2. task[t].at \in {1, 2}  BY <1>3, <2>2, <5>1
        <5> QED  BY <1>1, <1>3, <3>1, <4>1, <5>1, <5>2, ShortSteps
      <4> QED  BY <4>1 DEF Writes
    <3> QED  BY <3>1, <3>2, <3>3, <3>4
  <2> QED  BY <1>4, <2>1, <2>2
<1>6. \A id \in ArtifactIds : Updated(do, d, task[t].entries[id], task[t].now) \in IndexEntries  BY <1>3, UpdatedEntry
<1>7. index' \in [Directories -> [ArtifactIds -> IndexEntries]]
  <2>1. index \in [Directories -> [ArtifactIds -> IndexEntries]]  BY <1>2 DEF StoreTypeOK
  <2>2. \A id \in ArtifactIds : task[t].entries[id] \in IndexEntries  BY <1>3
  <2> HIDE DEF Updated, IndexEntries
  <2> QED  BY <1>2, <1>3, <1>6, <2>1, <2>2
<1>8. StoreTypeOK'
  <2>1. task' \in [AllTasks -> TaskRecords] /\ \A other \in AllTasks : TaskOK(other)'  BY <1>2, <1>4, MovedTypes
  <2> QED  BY <1>2, <1>7, <2>1 DEF StoreTypeOK
<1>9. \A e, id : ~Contested(e, id)' => ~Contested(e, id)  BY <1>2 DEF Contested
<1>10. \A id \in ArtifactIds : ~Contested(d, id)' => index[d][id] = task[t].entries[id]  BY <1>2 DEF Contested
<1>11. \A e \in Directories, id \in ArtifactIds :
          /\ ~Contested(e, id)' /\ e = d /\ id \in task[t].ids => index'[e][id] = Updated(do, d, index[e][id], task[t].now)
          /\ ~Contested(e, id)' /\ ~(e = d /\ id \in task[t].ids) => index'[e][id] = index[e][id]
  <2>1. index \in [Directories -> [ArtifactIds -> IndexEntries]]  BY <1>2 DEF StoreTypeOK
  <2>2. index'[d] = [id \in ArtifactIds |->
            IF id \in task[t].ids THEN Updated(do, d, task[t].entries[id], task[t].now) ELSE task[t].entries[id]]
    BY <1>2, <1>3, <2>1
  <2>3. \A e \in Directories : e # d => index'[e] = index[e]  BY <1>2, <2>1
  <2> QED  BY <1>10, <2>2, <2>3
<1>12. \A id : id \in evidence' =>
          \/ id \in evidence /\ ~(do = "release" /\ id \in task[t].ids)
          \/ do = "mark" /\ id \in task[t].ids /\ index'[d][id].expires > storeDay
  <2>1. CASE do = "mark"  BY <1>2, <2>1
  <2>2. CASE do = "release"  BY <1>2, <2>2
  <2>3. CASE do \notin {"mark", "release"}  BY <1>2, <2>3
  <2> QED  BY <2>1, <2>2, <2>3
<1> QED  BY <1>1, <1>2, <1>3, <1>4, <1>5, <1>8, <1>9, <1>11, <1>12

LEMMA IndexInv == ASSUME ArtifactInv, NEW t \in AllTasks, WriteArtifactIndex(t) PROVE ArtifactInv'
<1>1. PICK do, d : do = Step(t)[1] /\ d = Step(t)[2]  OBVIOUS
<1> DEFINE ids == task[t].ids
<1>2. /\ Busy(t) /\ do \in {"add", "remove", "mark", "release"} /\ d \in Directories /\ ids \subseteq ArtifactIds
      /\ UNCHANGED <<files, storeDay, accepted>> /\ OnlyMoves(t)
      /\ StoreTypeOK'
  BY <1>1, IndexStep
<1>3. \A e, id : /\ ~Adds(t, e, id)' /\ ~Removes(t, e, id)'
                 /\ Sealing(t, id)' => Sealing(t, id)
                 /\ Writes(t, id)' => Writes(t, id) /\ do \in {"mark", "release"}
                 /\ t = "cleanup" /\ Cleans(id)' => Cleans(id) /\ do # "remove"
  BY <1>1, IndexStep
<1>4. \A e, id : ~Contested(e, id)' => ~Contested(e, id)  BY <1>1, IndexStep
<1>5. \A e \in Directories, id \in ArtifactIds :
          /\ ~Contested(e, id)' /\ e = d /\ id \in ids => index'[e][id] = Updated(do, d, index[e][id], task[t].now)
          /\ ~Contested(e, id)' /\ ~(e = d /\ id \in ids) => index'[e][id] = index[e][id]
  BY <1>1, IndexStep
<1>6. \A id : id \in evidence' =>
          \/ id \in evidence /\ ~(do = "release" /\ id \in ids)
          \/ do = "mark" /\ id \in ids /\ index'[d][id].expires > storeDay
  BY <1>1, IndexStep
<1>7. StoreTypeOK /\ index \in [Directories -> [ArtifactIds -> IndexEntries]] /\ storeDay \in Nat /\ "snapshots" \in Directories
      /\ task[t].now \in Nat \ {0} /\ task[t].now <= storeDay
  BY <1>2, BusySteps DEF ArtifactInv, StoreTypeOK, Directories
<1>8. do \in {"mark", "release"} => d = "snapshots"  BY <1>1, <1>2, <1>7, Marks
<1>9. \A id \in ids : About(t, d, id)  BY <1>1, <1>2 DEF About
<1>10. \A u \in AllTasks : \A e, id : u # t => (Adds(u, e, id)' <=> Adds(u, e, id)) /\ (Removes(u, e, id)' <=> Removes(u, e, id))
  BY <1>2, OthersStay
<1>11. \A u \in AllTasks : \A id : (Sealing(u, id)' => Sealing(u, id)) /\ (Writes(u, id)' => Writes(u, id))
  BY <1>2, <1>3, OthersStay
<1>12. \A id : Cleans(id)' => Cleans(id)  BY <1>2, <1>3, OthersStay DEF AllTasks
<1>13. \A e \in Directories, id \in ArtifactIds : LET new == Updated(do, d, index[e][id], task[t].now) IN
           /\ new \in IndexEntries
           /\ do = "add" => new # NoEntry
           /\ do = "remove" => new = NoEntry
           /\ do \in {"mark", "release"} => (new = NoEntry <=> index[e][id] = NoEntry)
           /\ do = "mark" /\ index[e][id] # NoEntry => new.kept /\ new.expires = index[e][id].expires
           /\ do = "release" /\ index[e][id] # NoEntry => new.expires \in {task[t].now, index[e][id].expires}
  BY <1>2, <1>7, UpdatedEntry
<1> HIDE DEF ids
<1>14. \A id \in ArtifactIds : d = "snapshots" /\ id \in ids =>
          /\ do = "add" => t \in StoreTasks /\ Writes(t, id)
          /\ do = "remove" => t = "cleanup" /\ Cleans(id)
  <2> SUFFICES ASSUME NEW id \in ArtifactIds, d = "snapshots", id \in ids
               PROVE  /\ do = "add" => t \in StoreTasks /\ Writes(t, id)
                      /\ do = "remove" => t = "cleanup" /\ Cleans(id)
    OBVIOUS
  <2>1. About(t, "snapshots", id)  BY <1>9
  <2> QED  BY <1>1, <1>7, <2>1, SnapshotTasks
<1>15. FilesBetween'
  <2> SUFFICES ASSUME NEW u \in AllTasks, NEW e \in Directories, NEW id \in ArtifactIds, ~Contested(e, id)'
               PROVE  (Adds(u, e, id)' => files'[e][id] # 0) /\ (Removes(u, e, id)' => files'[e][id] = 0)
    BY DEF FilesBetween
  <2>1. CASE u = t  BY <1>3, <2>1
  <2>2. CASE u # t  BY <1>2, <1>4, <1>10, <2>2 DEF ArtifactInv, FilesBetween
  <2> QED  BY <2>1, <2>2
<1>16. EntriesFollow'
  <2> SUFFICES ASSUME NEW e \in Directories, NEW id \in ArtifactIds, ~Contested(e, id)',
                      \A u \in AllTasks : ~Adds(u, e, id)' /\ ~Removes(u, e, id)'
               PROVE  (files[e][id] # 0) = (index'[e][id] # NoEntry)
    BY <1>2 DEF EntriesFollow
  <2>1. \A u \in AllTasks : u # t => ~Adds(u, e, id) /\ ~Removes(u, e, id)  BY <1>10
  <2>2. CASE ~(e = d /\ id \in ids)
    <3>1. ~Adds(t, e, id) /\ ~Removes(t, e, id)  BY <1>1, <2>2 DEF Adds, Removes, About, ids
    <3>2. (files[e][id] # 0) = (index[e][id] # NoEntry)  BY <1>4, <2>1, <3>1 DEF ArtifactInv, EntriesFollow
    <3> QED  BY <1>5, <2>2, <3>2
  <2>3. CASE e = d /\ id \in ids
    <3>1. index'[e][id] = Updated(do, d, index[e][id], task[t].now)  BY <1>5, <2>3
    <3>2. CASE do = "add"
      <4>1. Adds(t, e, id)  BY <1>1, <1>9, <2>3, <3>2 DEF Adds
      <4>2. files[e][id] # 0  BY <1>4, <4>1 DEF ArtifactInv, FilesBetween
      <4> QED  BY <1>13, <3>1, <3>2, <4>2
    <3>3. CASE do = "remove"
      <4>1. Removes(t, e, id)  BY <1>1, <1>9, <2>3, <3>3 DEF Removes
      <4>2. files[e][id] = 0  BY <1>4, <4>1 DEF ArtifactInv, FilesBetween
      <4> QED  BY <1>13, <3>1, <3>3, <4>2
    <3>4. CASE do \in {"mark", "release"}
      <4>1. ~Adds(t, e, id) /\ ~Removes(t, e, id)  BY <1>1, <3>4 DEF Adds, Removes
      <4>2. (files[e][id] # 0) = (index[e][id] # NoEntry)  BY <1>4, <2>1, <4>1 DEF ArtifactInv, EntriesFollow
      <4> QED  BY <1>13, <3>1, <3>4, <4>2
    <3> QED  BY <1>2, <3>2, <3>3, <3>4
  <2> QED  BY <2>2, <2>3
<1>17. SnapshotsOnce'
  <2> SUFFICES ASSUME NEW u \in StoreTasks, NEW id \in ArtifactIds, Writes(u, id)'
               PROVE  /\ ~Contested("snapshots", id)' => index'["snapshots"][id] = NoEntry
                      /\ \A other \in StoreTasks : Writes(other, id)' => other = u
    BY DEF SnapshotsOnce
  <2>1. StoreTasks \subseteq AllTasks  BY DEF AllTasks
  <2>2. Writes(u, id) /\ \A other \in StoreTasks : Writes(other, id) => other = u
    BY <1>11, <2>1 DEF ArtifactInv, SnapshotsOnce
  <2>3. ASSUME ~Contested("snapshots", id)' PROVE index'["snapshots"][id] = NoEntry
    <3>1. index["snapshots"][id] = NoEntry  BY <1>4, <2>2, <2>3 DEF ArtifactInv, SnapshotsOnce
    <3>2. CASE ~(d = "snapshots" /\ id \in ids)  BY <1>5, <1>7, <2>3, <3>1, <3>2
    <3>3. CASE d = "snapshots" /\ id \in ids
      <4>1. do # "add"  BY <1>3, <1>14, <2>2, <3>3
      <4>2. index'["snapshots"][id] = Updated(do, d, index["snapshots"][id], task[t].now)  BY <1>5, <1>7, <2>3, <3>3
      <4> QED  BY <1>2, <1>7, <1>13, <3>1, <4>1, <4>2
    <3> QED  BY <3>2, <3>3
  <2> QED  BY <1>11, <2>1, <2>2, <2>3
<1>18. CleanedAreExpired'
  <2> SUFFICES ASSUME NEW id \in ArtifactIds, Cleans(id)', ~Contested("snapshots", id)'
               PROVE  /\ index'["snapshots"][id] # NoEntry /\ index'["snapshots"][id].expires <= storeDay
                      /\ id \notin evidence'
    BY <1>2 DEF CleanedAreExpired
  <2>1. /\ Cleans(id) /\ ~Contested("snapshots", id)
        /\ index["snapshots"][id] # NoEntry /\ index["snapshots"][id].expires <= storeDay /\ id \notin evidence
    BY <1>4, <1>12 DEF ArtifactInv, CleanedAreExpired
  <2>2. CASE ~(d = "snapshots" /\ id \in ids)  BY <1>5, <1>6, <1>7, <1>8, <2>1, <2>2
  <2>3. CASE d = "snapshots" /\ id \in ids
    <3>1. index'["snapshots"][id] = Updated(do, d, index["snapshots"][id], task[t].now)  BY <1>5, <1>7, <2>3
    <3>2. do # "add"  BY <1>14, <2>1, <2>3 DEF ArtifactInv, SnapshotsOnce
    <3>3. do # "remove"  BY <1>3, <1>14, <2>3
    <3>4. index["snapshots"][id].expires \in Nat  BY <1>7 DEF IndexEntries
    <3>5. index'["snapshots"][id] # NoEntry /\ index'["snapshots"][id].expires <= storeDay
      BY <1>2, <1>7, <1>13, <2>1, <3>1, <3>2, <3>3
    <3>6. index'[d][id].expires \in Nat  BY <1>2, <1>7 DEF StoreTypeOK, IndexEntries
    <3> QED  BY <1>6, <1>7, <2>1, <2>3, <3>5, <3>6
  <2> QED  BY <2>2, <2>3

<1>19. EvidenceIsKept'
  <2> SUFFICES ASSUME NEW id \in evidence', ~Contested("snapshots", id)'
               PROVE  files["snapshots"][id] # 0 /\ index'["snapshots"][id].kept
    BY <1>2 DEF EvidenceIsKept, Contested
  <2>1. ~Contested("snapshots", id)  BY <1>4
  <2>2. CASE id \in evidence /\ ~(do = "release" /\ id \in ids)
    <3>1. id \in ArtifactIds /\ files["snapshots"][id] # 0 /\ index["snapshots"][id].kept
      BY <2>1, <2>2 DEF ArtifactInv, EvidenceIsKept, Contested
    <3>2. CASE ~(d = "snapshots" /\ id \in ids)  BY <1>5, <1>7, <3>1, <3>2
    <3>3. CASE d = "snapshots" /\ id \in ids
      <4>1. index["snapshots"][id] # NoEntry  BY <3>1 DEF NoEntry
      <4>2. do # "add"  BY <1>14, <2>1, <3>1, <3>3, <4>1 DEF ArtifactInv, SnapshotsOnce
      <4>3. do # "remove"  BY <1>14, <2>1, <2>2, <3>1, <3>3 DEF ArtifactInv, CleanedAreExpired
      <4>4. do = "mark"  BY <1>2, <2>2, <3>3, <4>2, <4>3
      <4> QED  BY <1>5, <1>7, <1>13, <3>1, <3>3, <4>1, <4>4
    <3> QED  BY <3>2, <3>3
  <2>3. CASE do = "mark" /\ id \in ids /\ index'[d][id].expires > storeDay
    <3>1. d = "snapshots" /\ id \in ArtifactIds  BY <1>2, <1>8, <2>3 DEF ids
    <3>2. index'["snapshots"][id] = Updated(do, d, index["snapshots"][id], task[t].now)  BY <1>5, <1>7, <2>3, <3>1
    <3>3. index["snapshots"][id] # NoEntry
      <4>1. NoEntry.expires = 0 /\ ~(0 > storeDay)  BY <1>7 DEF NoEntry
      <4> QED  BY <1>7, <1>13, <2>3, <3>1, <3>2, <4>1
    <3>4. index'["snapshots"][id].kept /\ index["snapshots"][id].expires > storeDay
      BY <1>7, <1>13, <2>3, <3>1, <3>2, <3>3
    <3>5. files["snapshots"][id] # 0
      <4>1. CASE \E u \in AllTasks : Adds(u, "snapshots", id)  BY <1>7, <2>1, <3>1, <4>1 DEF ArtifactInv, FilesBetween
      <4>2. CASE \E u \in AllTasks : Removes(u, "snapshots", id)
        <5>1. PICK u \in AllTasks : Removes(u, "snapshots", id)  BY <4>2
        <5>2. About(u, "snapshots", id)  BY <5>1 DEF Removes
        <5>3. Cleans(id)  BY <1>7, <5>1, <5>2, SnapshotTasks
        <5>4. index["snapshots"][id].expires <= storeDay /\ index["snapshots"][id].expires \in Nat
          BY <1>7, <2>1, <3>1, <5>3 DEF ArtifactInv, CleanedAreExpired, IndexEntries
        <5> QED  BY <1>7, <3>4, <5>4
      <4>3. CASE \A u \in AllTasks : ~Adds(u, "snapshots", id) /\ ~Removes(u, "snapshots", id)
        BY <1>7, <2>1, <3>1, <3>3, <4>3 DEF ArtifactInv, EntriesFollow
      <4> QED  BY <4>1, <4>2, <4>3
    <3> QED  BY <3>4, <3>5
  <2> QED  BY <1>6, <2>2, <2>3
<1>20. SealedAreStaged' /\ SealKeepsTheChange'  BY <1>2, <1>11 DEF ArtifactInv, SealedAreStaged, SealKeepsTheChange
<1>21. evidence' \subseteq ArtifactIds /\ accepted' \subseteq ArtifactIds  BY <1>2, <1>6 DEF ArtifactInv, ids
<1> QED  BY <1>2, <1>15, <1>16, <1>17, <1>18, <1>19, <1>20, <1>21 DEF ArtifactInv

LEMMA ArtifactStep == ArtifactInv /\ [ArtifactNext]_artifactVars => ArtifactInv'
<1> SUFFICES ASSUME ArtifactInv, [ArtifactNext]_artifactVars PROVE ArtifactInv'  OBVIOUS
<1>1. CASE \E t \in StoreTasks : StartCall(t)  BY <1>1, StartCallInv
<1>2. ASSUME NEW t \in AllTasks, TaskStep(t) PROVE ArtifactInv'
  BY <1>2, PutInv, UnlinkInv, ReadInv, IndexInv DEF TaskStep
<1>3. CASE \E t \in AllTasks : Interrupt(t)  BY <1>3, InterruptInv
<1>4. CASE RemoveExpiredDirectory  BY <1>4, CleanupInv
<1>5. CASE StoreDayPasses  BY <1>5, DayInv
<1>6. CASE UNCHANGED artifactVars
  <2> USE <1>6 DEF artifactVars, artifactHistory
  <2>1. UNCHANGED <<files, index, task, storeDay, contested, evidence, accepted>>  OBVIOUS
  <2>2. \A t, d, id :
            /\ Busy(t)' = Busy(t) /\ Adds(t, d, id)' = Adds(t, d, id) /\ Removes(t, d, id)' = Removes(t, d, id)
            /\ Sealing(t, id)' = Sealing(t, id) /\ Writes(t, id)' = Writes(t, id) /\ Cleans(id)' = Cleans(id)
            /\ Contested(d, id)' = Contested(d, id)
    BY <2>1 DEF Adds, Removes, About, Update, Step, Busy, Sealing, Writes, Cleans, Contested
  <2>3. StoreTypeOK' /\ FilesRest  BY <2>1, <2>2 DEF ArtifactInv, StoreTypeOK, TaskOK, FilesRest
  <2>4. SnapshotsOnce' /\ CleanedAreExpired'  BY <2>2, <2>3, SnapshotsRest
  <2> QED  BY <2>2, <2>3, <2>4, RestInv
<1> QED  BY <1>1, <1>2, <1>3, <1>4, <1>5, <1>6 DEF ArtifactNext

\* However calls, the cleanup, interruptions and days interleave: marked
\* evidence stays, the index follows the files, and a seal that fails half way
\* keeps the draft or its staged copy.
THEOREM ArtifactsSound == ArtifactSpec => []ArtifactsAreSafe
<1>1. ArtifactInv => ArtifactsAreSafe
  <2> SUFFICES ASSUME ArtifactInv PROVE ArtifactsAreSafe  OBVIOUS
  <2>1. IndexFollowsFiles
    <3> SUFFICES ASSUME NEW d \in Directories, NEW id \in ArtifactIds, <<d, id>> \notin contested,
                        \A t \in AllTasks : ~Touches(t, d, id)
                 PROVE  (files[d][id] # 0) = (index[d][id] # NoEntry)
      BY DEF IndexFollowsFiles
    <3>1. \A t \in AllTasks : ~Adds(t, d, id) /\ ~Removes(t, d, id)  BY DEF Touches, Open, Adds, Removes, About
    <3> QED  BY <3>1 DEF ArtifactInv, EntriesFollow, Contested
  <2> QED  BY <2>1 DEF ArtifactInv, ArtifactsAreSafe
<1> QED  BY <1>1, ArtifactInitInv, ArtifactStep, PTL DEF ArtifactSpec

\* The steps of a read and of a write, by what they may rely on.
Comparing == {"first", "second", "after"}
Reading == {"open"} \cup Comparing
Writing == {"target", "temporary", "rename"}
HasInode == Reading \cup Writing \cup {"path", "verified"}
LinkRead == {"walk"} \cup HasInode
FileSteps == {"release"} \cup LinkRead
Halves == {"old", "new", "op"} \X {"old", "new", "op"}
InodeRecords == [regular : BOOLEAN, nlink : Int, fits : BOOLEAN, mtime : Nat, bytes : Halves]
FileCalls ==
    [kind : {"none", "read", "write", "restore"}, pc : {"idle", "resolve"} \cup FileSteps,
     release : SourceReleases \cup {"none"}, linkIno : Nat, ino : Nat, stat : Nat,
     got : Halves, renamed : BOOLEAN, touched : BOOLEAN, switched : BOOLEAN]

\* The file that the call has open, the one its release names, and what the
\* writer leaves in it.
Opened == inodes[fileCall.ino]
NamedFile == inodes[names[fileCall.release]]
Written == IF fileCall.kind = "write" THEN <<"new", "new">> ELSE <<"old", "old">>

FilesTypeOK ==
    /\ current \in [ino : Nat, target : SourceReleases]
    /\ DOMAIN inodes \subseteq 1..MaxInodes /\ inodes \in [DOMAIN inodes -> InodeRecords]
    /\ names \in [SourceReleases -> DOMAIN inodes]
    /\ \A r, s \in SourceReleases : names[r] = names[s] => r = s

CallTypeOK ==
    /\ fileCall \in FileCalls /\ lostEdit \in BOOLEAN
    /\ fileCall.pc # "idle" => fileCall.kind # "none"
    /\ fileCall.pc \in FileSteps => fileCall.release \in SourceReleases
    /\ fileCall.pc \in HasInode => fileCall.ino \in DOMAIN inodes
    /\ fileCall.pc \in Writing => ~fileCall.renamed /\ fileCall.kind \in {"write", "restore"}
    /\ fileCall.pc = "idle" => ~fileCall.renamed
    /\ fileCall.pc = "verified" => fileCall.renamed

\* What the file of the resolved release held is remembered; a read that has
\* seen no other modification time has read one of it.
ReadSoFar ==
    /\ fileCall.pc \in FileSteps => NamedFile.bytes \in held
    /\ fileCall.pc \in Reading =>
          /\ fileCall.stat <= Opened.mtime
          /\ fileCall.stat = Opened.mtime => Opened.bytes \in held
    /\ fileCall.pc = "second" /\ fileCall.stat = Opened.mtime => fileCall.got[1] = Opened.bytes[1]
    /\ fileCall.pc = "after" /\ fileCall.stat = Opened.mtime => fileCall.got = Opened.bytes
    /\ fileCall.pc \in {"path", "target", "verified"} => fileCall.got \in held

\* What was compared and is untouched since is what was read.
PlannedIsThere ==
    /\ fileCall.pc = "path" /\ ~fileCall.touched => Opened.bytes = fileCall.got
    /\ fileCall.pc = "target" /\ ~fileCall.touched =>
          /\ fileCall.stat <= Opened.mtime
          /\ fileCall.stat = Opened.mtime => Opened.bytes = fileCall.got
    /\ fileCall.pc \in {"temporary", "rename"} /\ fileCall.kind = "write" /\ ~fileCall.touched =>
          NamedFile.regular /\ NamedFile.fits /\ NamedFile.nlink = 1 /\ NamedFile.bytes = fileCall.got

\* Unless it switches, the link names the release that was resolved.
LinkStays ==
    /\ fileCall.pc = "release" => fileCall.linkIno <= current.ino
    /\ fileCall.pc = "release" /\ fileCall.linkIno = current.ino => fileCall.release = current.target
    /\ fileCall.pc \in LinkRead /\ ~fileCall.switched => fileCall.release = current.target

\* Once the new file has the name, and until somebody touches it, the name
\* stands for what was written, and so does what is read.
WrittenStays ==
    fileCall.renamed /\ ~fileCall.touched /\ ~fileCall.switched =>
        /\ inodes[names[current.target]].bytes = Written
        /\ fileCall.pc \in HasInode => fileCall.ino = names[current.target]
        /\ fileCall.pc \in {"path", "verified"} => fileCall.got = Written

SourceFileInv ==
    FilesTypeOK /\ CallTypeOK /\ ReadSoFar /\ PlannedIsThere /\ LinkStays /\ WrittenStays /\ NoEditIsLost

LEMMA HalvesStayHalves ==
    /\ \A pair \in Halves : \A half \in {1, 2} : \A value \in {"old", "new", "op"} : WithHalf(pair, half, value) \in Halves
    /\ \A pair \in Halves : pair = <<pair[1], pair[2]>> /\ pair[1] \in {"old", "new", "op"} /\ pair[2] \in {"old", "new", "op"}
    /\ <<"old", "old">> \in Halves /\ <<"new", "new">> \in Halves /\ <<"op", "op">> \in Halves
  BY DEF Halves, WithHalf

LEMMA NewInodeIsNew ==
    ASSUME FilesTypeOK, Cardinality(DOMAIN inodes) < MaxInodes
    PROVE  NewInode \in 1..MaxInodes /\ NewInode \notin DOMAIN inodes
<1>1. MaxInodes \in Nat /\ Cardinality(1..MaxInodes) = MaxInodes  BY SourceFileAssumption, FS_Interval
<1>2. DOMAIN inodes # 1..MaxInodes  BY <1>1
<1>3. \E i \in 1..MaxInodes : i \notin DOMAIN inodes  BY <1>2 DEF FilesTypeOK
<1> QED  BY <1>3 DEF NewInode

LEMMA SourceFileInitInv == SourceFileInit => SourceFileInv
<1> SUFFICES ASSUME SourceFileInit PROVE SourceFileInv  OBVIOUS
<1> DEFINE n == Cardinality(SourceReleases)
<1>1. n \in Nat /\ MaxInodes \in Nat /\ n < MaxInodes  BY SourceFileAssumption, FS_CardinalityType
<1>2. PICK f \in Bijection(SourceReleases, 1..n) : TRUE
  BY SourceFileAssumption, FS_CardinalityType, Fun_ExistsBijSymmetric, <1>1 DEF ExistsBijection
<1>3. /\ f \in [SourceReleases -> 1..n]
      /\ \A r, s \in SourceReleases : r # s => f[r] # f[s]
  BY <1>2, Fun_BijectionProperties
<1>4. /\ names \in [SourceReleases -> 1..n]
      /\ \A r, s \in SourceReleases : r # s => names[r] # names[s]
  <2> DEFINE Good(g) == \A r, s \in SourceReleases : r # s => g[r] # g[s]
  <2>1. names = CHOOSE g \in [SourceReleases -> 1..n] : Good(g)  BY DEF SourceFileInit
  <2>2. Good(f)  BY <1>3
  <2> HIDE DEF Good
  <2>3. names \in [SourceReleases -> 1..n] /\ Good(names)  BY <1>3, <2>1, <2>2
  <2> QED  BY <2>3 DEF Good
<1>5. DOMAIN inodes = 1..n /\ inodes \in [1..n -> InodeRecords]  BY HalvesStayHalves DEF SourceFileInit, InodeRecords
<1>6. FilesTypeOK
  <2>1. current \in [ino : Nat, target : SourceReleases]  BY DEF SourceFileInit
  <2>2. DOMAIN inodes \subseteq 1..MaxInodes  BY <1>1, <1>5
  <2> HIDE DEF n
  <2> QED  BY <1>4, <1>5, <2>1, <2>2 DEF FilesTypeOK
<1>7. CallTypeOK
  BY HalvesStayHalves DEF SourceFileInit, CallTypeOK, NoFileCall, FileCalls, FileSteps, LinkRead, HasInode, Reading,
    Comparing, Writing
<1>8. ReadSoFar /\ PlannedIsThere /\ LinkStays /\ WrittenStays /\ NoEditIsLost
  BY DEF SourceFileInit, ReadSoFar, PlannedIsThere, LinkStays, WrittenStays, NoEditIsLost, NoFileCall, FileSteps,
    LinkRead, HasInode, Reading, Comparing, Writing
<1> QED  BY <1>6, <1>7, <1>8 DEF SourceFileInv

\* What every step of the call keeps, the files being what they were.
LEMMA FilesStay == FilesTypeOK /\ UNCHANGED fileWorld => FilesTypeOK'
  BY DEF FilesTypeOK, fileWorld

\* A call that ends, or that has not begun to read, relies on nothing.
LEMMA EndedInv ==
    ASSUME SourceFileInv, UNCHANGED <<fileWorld, lostEdit>>, fileCall' = NoFileCall
    PROVE  SourceFileInv'
<1>1. FilesTypeOK'  BY FilesStay DEF SourceFileInv
<1>2. CallTypeOK'
  BY HalvesStayHalves DEF SourceFileInv, CallTypeOK, NoFileCall, FileCalls, FileSteps, LinkRead, HasInode, Reading,
    Comparing, Writing
<1>3. ReadSoFar' /\ PlannedIsThere' /\ LinkStays' /\ WrittenStays' /\ NoEditIsLost'
  BY DEF SourceFileInv, ReadSoFar, PlannedIsThere, LinkStays, WrittenStays, NoEditIsLost, NoFileCall, FileSteps,
    LinkRead, HasInode, Reading, Comparing, Writing
<1> QED  BY <1>1, <1>2, <1>3 DEF SourceFileInv

\* A step of the agent that reads: the files and what is remembered of them stay.
LEMMA BeginInv ==
    ASSUME SourceFileInv,
           (\E kind \in {"read", "write", "restore"} : StartFileCall(kind)) \/ ReadLink \/ ResolveActiveReleaseLink
    PROVE  SourceFileInv'
<1> USE DEF FileSteps, LinkRead, HasInode, Reading, Comparing, Writing
<1>1. CASE \E kind \in {"read", "write", "restore"} : StartFileCall(kind)
  <2>1. PICK kind \in {"read", "write", "restore"} : StartFileCall(kind)  BY <1>1
  <2>2. /\ fileCall'.pc = "resolve" /\ fileCall'.kind = kind /\ fileCall'.release = "none" /\ ~fileCall'.renamed
        /\ fileCall' \in FileCalls
    BY <2>1, HalvesStayHalves DEF StartFileCall, NoFileCall, FileCalls
  <2>3. UNCHANGED <<fileWorld, held, lostEdit>>  BY <2>1 DEF StartFileCall
  <2>4. FilesTypeOK'  BY <2>3, FilesStay DEF SourceFileInv
  <2>5. CallTypeOK'  BY <2>2, <2>3 DEF SourceFileInv, CallTypeOK
  <2>6. ReadSoFar' /\ PlannedIsThere' /\ LinkStays' /\ WrittenStays' /\ NoEditIsLost'
    BY <2>2, <2>3 DEF SourceFileInv, ReadSoFar, PlannedIsThere, LinkStays, WrittenStays, NoEditIsLost
  <2> QED  BY <2>4, <2>5, <2>6 DEF SourceFileInv
<1>2. CASE ReadLink
  <2>1. /\ fileCall.pc = "resolve" /\ fileCall \in FileCalls /\ current \in [ino : Nat, target : SourceReleases]
        /\ fileCall' = [fileCall EXCEPT !.pc = "release", !.release = current.target, !.linkIno = current.ino]
        /\ held' = {inodes[names[current.target]].bytes} /\ UNCHANGED <<fileWorld, lostEdit>>
    BY <1>2 DEF ReadLink, Bytes, SourceFileInv, CallTypeOK, FilesTypeOK
  <2>2. /\ fileCall'.pc = "release" /\ fileCall'.release = current.target /\ fileCall'.linkIno = current.ino
        /\ fileCall'.kind = fileCall.kind /\ fileCall'.renamed = fileCall.renamed
        /\ fileCall'.touched = fileCall.touched /\ fileCall'.switched = fileCall.switched
        /\ fileCall' \in FileCalls
    BY <2>1 DEF FileCalls
  <2>3. FilesTypeOK'  BY <2>1, FilesStay DEF SourceFileInv
  <2>4. CallTypeOK'  BY <2>1, <2>2 DEF SourceFileInv, CallTypeOK
  <2>5. ReadSoFar' /\ PlannedIsThere' /\ LinkStays'
    BY <2>1, <2>2 DEF ReadSoFar, PlannedIsThere, LinkStays, NamedFile, fileWorld
  <2>6. WrittenStays' /\ NoEditIsLost'
    BY <2>1, <2>2 DEF SourceFileInv, WrittenStays, NoEditIsLost, Written, fileWorld
  <2> QED  BY <2>3, <2>4, <2>5, <2>6 DEF SourceFileInv
<1>3. CASE ResolveActiveReleaseLink
  <2>1. CASE fileCall' = NoFileCall  BY <1>3, <2>1, EndedInv DEF ResolveActiveReleaseLink, Quiet
  <2>2. CASE fileCall' # NoFileCall
    <3>1. /\ fileCall.pc = "release" /\ fileCall \in FileCalls
          /\ current = [ino |-> fileCall.linkIno, target |-> fileCall.release]
          /\ fileCall' = [fileCall EXCEPT !.pc = "walk"]
          /\ UNCHANGED <<fileWorld, held, lostEdit>>
      BY <1>3, <2>2 DEF ResolveActiveReleaseLink, Go, EndFileCall, Quiet, SourceFileInv, CallTypeOK
    <3>2. /\ fileCall'.pc = "walk" /\ fileCall'.release = fileCall.release
          /\ fileCall'.kind = fileCall.kind /\ fileCall'.renamed = fileCall.renamed
          /\ fileCall'.touched = fileCall.touched /\ fileCall'.switched = fileCall.switched
          /\ fileCall' \in FileCalls
      BY <3>1 DEF FileCalls
    <3>3. FilesTypeOK'  BY <3>1, FilesStay DEF SourceFileInv
    <3>4. CallTypeOK'  BY <3>1, <3>2 DEF SourceFileInv, CallTypeOK
    <3>5. ReadSoFar' /\ PlannedIsThere' /\ LinkStays'
      BY <3>1, <3>2 DEF SourceFileInv, ReadSoFar, PlannedIsThere, LinkStays, NamedFile, fileWorld
    <3>6. WrittenStays' /\ NoEditIsLost'
      BY <3>1, <3>2 DEF SourceFileInv, WrittenStays, NoEditIsLost, Written, fileWorld
    <3> QED  BY <3>3, <3>4, <3>5, <3>6 DEF SourceFileInv
  <2> QED  BY <2>1, <2>2
<1> QED  BY <1>1, <1>2, <1>3

LEMMA WalkInv ==
    ASSUME SourceFileInv, WalkNoSymlink \/ OpenDescriptorRelative
    PROVE  SourceFileInv'
<1> USE DEF FileSteps, LinkRead, HasInode, Reading, Comparing, Writing
<1>0. fileCall \in FileCalls /\ names \in [SourceReleases -> DOMAIN inodes] /\ inodes \in [DOMAIN inodes -> InodeRecords]
  BY DEF SourceFileInv, CallTypeOK, FilesTypeOK
<1>1. CASE fileCall' = NoFileCall  BY <1>1, EndedInv DEF WalkNoSymlink, OpenDescriptorRelative, Quiet
<1>2. CASE WalkNoSymlink /\ fileCall' # NoFileCall
  <2> DEFINE i == names[fileCall.release]
  <2>1. /\ fileCall.pc = "walk" /\ UNCHANGED <<fileWorld, held, lostEdit>>
        /\ fileCall' = [fileCall EXCEPT !.pc = "open", !.ino = i, !.stat = inodes[i].mtime]
    BY <1>2 DEF WalkNoSymlink, EndFileCall, Quiet
  <2>2. fileCall.release \in SourceReleases  BY <2>1 DEF SourceFileInv, CallTypeOK
  <2>3. i \in DOMAIN inodes /\ i \in Nat /\ inodes[i].mtime \in Nat
    BY <1>0, <2>2 DEF SourceFileInv, FilesTypeOK, InodeRecords
  <2> HIDE DEF i
  <2>4. /\ fileCall'.pc = "open" /\ fileCall'.release = fileCall.release
        /\ fileCall'.ino = i /\ fileCall'.stat = inodes[i].mtime
        /\ fileCall'.kind = fileCall.kind /\ fileCall'.renamed = fileCall.renamed
        /\ fileCall'.touched = fileCall.touched /\ fileCall'.switched = fileCall.switched
        /\ fileCall' \in FileCalls
    BY <1>0, <2>1, <2>3 DEF FileCalls
  <2>5. FilesTypeOK'  BY <2>1, FilesStay DEF SourceFileInv
  <2>6. CallTypeOK'  BY <2>1, <2>2, <2>3, <2>4 DEF SourceFileInv, CallTypeOK, fileWorld
  <2>7. ReadSoFar' /\ PlannedIsThere' /\ LinkStays'
    <3>1. inodes[i].bytes \in held  BY <2>1 DEF SourceFileInv, ReadSoFar, NamedFile, i
    <3>2. Opened' = inodes[i] /\ NamedFile' = inodes[i]  BY <2>1, <2>4 DEF Opened, NamedFile, fileWorld, i
    <3> QED  BY <2>1, <2>3, <2>4, <3>1, <3>2 DEF SourceFileInv, ReadSoFar, PlannedIsThere, LinkStays, fileWorld
  <2>8. WrittenStays' /\ NoEditIsLost'
    BY <2>1, <2>4 DEF SourceFileInv, WrittenStays, NoEditIsLost, LinkStays, Written, fileWorld, i
  <2> QED  BY <2>5, <2>6, <2>7, <2>8 DEF SourceFileInv
<1>3. CASE OpenDescriptorRelative /\ fileCall' # NoFileCall
  <2>1. /\ fileCall.pc = "open" /\ UNCHANGED <<fileWorld, held, lostEdit>> /\ fileCall' = [fileCall EXCEPT !.pc = "first"]
    BY <1>3 DEF OpenDescriptorRelative, Go, EndFileCall, Quiet
  <2>2. /\ fileCall'.pc = "first" /\ fileCall'.release = fileCall.release
        /\ fileCall'.ino = fileCall.ino /\ fileCall'.stat = fileCall.stat
        /\ fileCall'.kind = fileCall.kind /\ fileCall'.renamed = fileCall.renamed
        /\ fileCall'.touched = fileCall.touched /\ fileCall'.switched = fileCall.switched
        /\ fileCall' \in FileCalls
    BY <1>0, <2>1 DEF FileCalls
  <2>3. FilesTypeOK'  BY <2>1, FilesStay DEF SourceFileInv
  <2>4. CallTypeOK'  BY <2>1, <2>2 DEF SourceFileInv, CallTypeOK, fileWorld
  <2>5. ReadSoFar' /\ PlannedIsThere' /\ LinkStays'
    BY <2>1, <2>2 DEF SourceFileInv, ReadSoFar, PlannedIsThere, LinkStays, NamedFile, Opened, fileWorld
  <2>6. WrittenStays' /\ NoEditIsLost'
    BY <2>1, <2>2 DEF SourceFileInv, WrittenStays, NoEditIsLost, Written, fileWorld
  <2> QED  BY <2>3, <2>4, <2>5, <2>6 DEF SourceFileInv
<1> QED  BY <1>1, <1>2, <1>3

LEMMA ReadHalfInv ==
    ASSUME SourceFileInv, ReadHalf(1, "first", "second") \/ ReadHalf(2, "second", "after")
    PROVE  SourceFileInv'
<1> USE DEF FileSteps, LinkRead, HasInode, Reading, Comparing, Writing
<1>0. PICK half \in {1, 2} : \E next \in {"second", "after"} :
          /\ (half = 1 /\ next = "second" /\ fileCall.pc = "first") \/ (half = 2 /\ next = "after" /\ fileCall.pc = "second")
          /\ fileCall' = [fileCall EXCEPT !.pc = next, !.got = WithHalf(fileCall.got, half, Opened.bytes[half])]
          /\ UNCHANGED <<fileWorld, held, lostEdit>>
  BY DEF ReadHalf, Quiet, Bytes, Opened
<1>1. PICK next \in {"second", "after"} :
          /\ (half = 1 /\ next = "second" /\ fileCall.pc = "first") \/ (half = 2 /\ next = "after" /\ fileCall.pc = "second")
          /\ fileCall' = [fileCall EXCEPT !.pc = next, !.got = WithHalf(fileCall.got, half, Opened.bytes[half])]
          /\ UNCHANGED <<fileWorld, held, lostEdit>>
  BY <1>0
<1> DEFINE got == WithHalf(fileCall.got, half, Opened.bytes[half])
<1>2. /\ fileCall \in FileCalls /\ fileCall.got \in Halves /\ fileCall.ino \in DOMAIN inodes /\ Opened.bytes \in Halves
  BY <1>1 DEF SourceFileInv, CallTypeOK, FilesTypeOK, FileCalls, InodeRecords, Opened
<1>3. got \in Halves  BY <1>2, HalvesStayHalves
<1>4. got[half] = Opened.bytes[half] /\ (half = 2 => got[1] = fileCall.got[1])  BY DEF WithHalf
<1>5. half = 2 /\ fileCall.got[1] = Opened.bytes[1] => got = Opened.bytes  BY <1>2, HalvesStayHalves DEF WithHalf
<1> HIDE DEF got
<1>6. /\ fileCall'.pc = next /\ fileCall'.release = fileCall.release /\ fileCall'.got = got
      /\ fileCall'.ino = fileCall.ino /\ fileCall'.stat = fileCall.stat
      /\ fileCall'.kind = fileCall.kind /\ fileCall'.renamed = fileCall.renamed
      /\ fileCall'.touched = fileCall.touched /\ fileCall'.switched = fileCall.switched
      /\ fileCall' \in FileCalls
  BY <1>1, <1>2, <1>3 DEF FileCalls, got
<1>7. FilesTypeOK'  BY <1>1, FilesStay DEF SourceFileInv
<1>8. CallTypeOK'  BY <1>1, <1>6 DEF SourceFileInv, CallTypeOK, fileWorld
<1>9. ReadSoFar'
  <2>1. Opened' = Opened /\ NamedFile' = NamedFile  BY <1>1, <1>6 DEF Opened, NamedFile, fileWorld
  <2> QED  BY <1>1, <1>4, <1>5, <1>6, <2>1 DEF SourceFileInv, ReadSoFar
<1>10. PlannedIsThere' /\ LinkStays' /\ WrittenStays' /\ NoEditIsLost'
  BY <1>1, <1>6 DEF SourceFileInv, PlannedIsThere, LinkStays, WrittenStays, NoEditIsLost, Written, fileWorld
<1> QED  BY <1>7, <1>8, <1>9, <1>10 DEF SourceFileInv

LEMMA ComparedInv ==
    ASSUME SourceFileInv, AfterRead \/ WalkAgain
    PROVE  SourceFileInv'
<1> USE DEF FileSteps, LinkRead, HasInode, Reading, Comparing, Writing
<1>0. fileCall \in FileCalls /\ names \in [SourceReleases -> DOMAIN inodes] /\ inodes \in [DOMAIN inodes -> InodeRecords]
  BY DEF SourceFileInv, CallTypeOK, FilesTypeOK
<1>1. CASE fileCall' = NoFileCall  BY <1>1, EndedInv DEF AfterRead, WalkAgain, Quiet
<1>2. CASE AfterRead /\ fileCall' # NoFileCall
  <2>1. /\ fileCall.pc = "after" /\ UNCHANGED <<fileWorld, held, lostEdit>> /\ fileCall' = [fileCall EXCEPT !.pc = "path"]
        /\ Opened.mtime = fileCall.stat
    BY <1>2 DEF AfterRead, Go, EndFileCall, Quiet, Opened
  <2>2. /\ fileCall'.pc = "path" /\ fileCall'.release = fileCall.release /\ fileCall'.got = fileCall.got
        /\ fileCall'.ino = fileCall.ino /\ fileCall'.stat = fileCall.stat
        /\ fileCall'.kind = fileCall.kind /\ fileCall'.renamed = fileCall.renamed
        /\ fileCall'.touched = fileCall.touched /\ fileCall'.switched = fileCall.switched
        /\ fileCall' \in FileCalls
    BY <1>0, <2>1 DEF FileCalls
  <2>3. FilesTypeOK'  BY <2>1, FilesStay DEF SourceFileInv
  <2>4. CallTypeOK'  BY <2>1, <2>2 DEF SourceFileInv, CallTypeOK, fileWorld
  <2>5. Opened' = Opened /\ NamedFile' = NamedFile /\ fileCall.got = Opened.bytes /\ Opened.bytes \in held
    BY <2>1, <2>2 DEF SourceFileInv, ReadSoFar, NamedFile, Opened, fileWorld
  <2>6. ReadSoFar' /\ PlannedIsThere' /\ LinkStays'
    BY <2>1, <2>2, <2>5 DEF SourceFileInv, ReadSoFar, PlannedIsThere, LinkStays, fileWorld
  <2>7. WrittenStays' /\ NoEditIsLost'
    BY <2>1, <2>2, <2>5 DEF SourceFileInv, WrittenStays, NoEditIsLost, Written, Opened, fileWorld
  <2> QED  BY <2>3, <2>4, <2>6, <2>7 DEF SourceFileInv
<1>3. CASE WalkAgain /\ fileCall' # NoFileCall
  <2> DEFINE i == names[fileCall.release]
  <2>1. /\ fileCall.pc = "path" /\ UNCHANGED <<fileWorld, held, lostEdit>>
        /\ i = fileCall.ino /\ fileCall.kind # "read"
        /\ \/ fileCall.renamed /\ fileCall' = [fileCall EXCEPT !.pc = "verified"]
           \/ ~fileCall.renamed /\ fileCall' = [fileCall EXCEPT !.pc = "target", !.stat = inodes[i].mtime]
    BY <1>3 DEF WalkAgain, Go, EndFileCall, Quiet
  <2>2. fileCall.release \in SourceReleases /\ fileCall.ino \in DOMAIN inodes /\ inodes[i].mtime \in Nat
    BY <1>0, <2>1 DEF SourceFileInv, CallTypeOK, InodeRecords
  <2>3. fileCall.kind \in {"write", "restore"}  BY <1>0, <2>1 DEF SourceFileInv, CallTypeOK, FileCalls
  <2> HIDE DEF i
  <2>4. /\ fileCall'.pc = (IF fileCall.renamed THEN "verified" ELSE "target")
        /\ fileCall'.pc = "target" => fileCall'.stat = inodes[i].mtime
        /\ fileCall'.release = fileCall.release /\ fileCall'.got = fileCall.got /\ fileCall'.ino = fileCall.ino
        /\ fileCall'.kind = fileCall.kind /\ fileCall'.renamed = fileCall.renamed
        /\ fileCall'.touched = fileCall.touched /\ fileCall'.switched = fileCall.switched
        /\ fileCall' \in FileCalls
    BY <1>0, <2>1, <2>2 DEF FileCalls
  <2>5. FilesTypeOK'  BY <2>1, FilesStay DEF SourceFileInv
  <2>6. CallTypeOK'  BY <2>1, <2>2, <2>3, <2>4 DEF SourceFileInv, CallTypeOK, fileWorld
  <2>7. Opened' = Opened /\ NamedFile' = NamedFile /\ Opened = inodes[i]
    BY <2>1, <2>4 DEF NamedFile, Opened, fileWorld
  <2>8. ReadSoFar' /\ PlannedIsThere' /\ LinkStays'
    BY <2>1, <2>2, <2>4, <2>7 DEF SourceFileInv, ReadSoFar, PlannedIsThere, LinkStays, fileWorld
  <2>9. WrittenStays' /\ NoEditIsLost'
    BY <2>1, <2>4, <2>7 DEF SourceFileInv, WrittenStays, NoEditIsLost, Written, fileWorld
  <2> QED  BY <2>5, <2>6, <2>8, <2>9 DEF SourceFileInv
<1> QED  BY <1>1, <1>2, <1>3

LEMMA WriterInv ==
    ASSUME SourceFileInv, AssertTarget \/ WriteTemporary \/ ReportWritten \/ FileFault
    PROVE  SourceFileInv'
<1> USE DEF FileSteps, LinkRead, HasInode, Reading, Comparing, Writing
<1>0. fileCall \in FileCalls /\ names \in [SourceReleases -> DOMAIN inodes] /\ inodes \in [DOMAIN inodes -> InodeRecords]
  BY DEF SourceFileInv, CallTypeOK, FilesTypeOK
<1>1. CASE fileCall' = NoFileCall  BY <1>1, EndedInv DEF AssertTarget, WriteTemporary, ReportWritten, FileFault, Quiet
<1>2. ReportWritten \/ FileFault => fileCall' = NoFileCall  BY DEF ReportWritten, FileFault, EndFileCall
<1>3. CASE AssertTarget /\ fileCall' # NoFileCall
  <2>1. /\ fileCall.pc = "target" /\ UNCHANGED <<fileWorld, held, lostEdit>> /\ fileCall' = [fileCall EXCEPT !.pc = "temporary"]
        /\ NamedFile.regular /\ NamedFile.nlink = 1
        /\ \/ fileCall.kind = "restore"
           \/ NamedFile = Opened /\ NamedFile.mtime = fileCall.stat /\ NamedFile.fits
    BY <1>3 DEF AssertTarget, Go, EndFileCall, Quiet, Opened, NamedFile
  <2>2. /\ fileCall'.pc = "temporary" /\ fileCall'.release = fileCall.release /\ fileCall'.got = fileCall.got
        /\ fileCall'.ino = fileCall.ino /\ fileCall'.stat = fileCall.stat
        /\ fileCall'.kind = fileCall.kind /\ fileCall'.renamed = fileCall.renamed
        /\ fileCall'.touched = fileCall.touched /\ fileCall'.switched = fileCall.switched
        /\ fileCall' \in FileCalls
    BY <1>0, <2>1 DEF FileCalls
  <2>3. FilesTypeOK'  BY <2>1, FilesStay DEF SourceFileInv
  <2>4. CallTypeOK'  BY <2>1, <2>2 DEF SourceFileInv, CallTypeOK, fileWorld
  <2>5. NamedFile' = NamedFile  BY <2>1, <2>2 DEF NamedFile, fileWorld
  <2>6. ReadSoFar' /\ LinkStays'  BY <2>1, <2>2, <2>5 DEF SourceFileInv, ReadSoFar, LinkStays, fileWorld
  <2>7. fileCall.kind = "write" /\ ~fileCall.touched => NamedFile.bytes = fileCall.got /\ NamedFile.fits
    BY <2>1 DEF SourceFileInv, PlannedIsThere
  <2>8. PlannedIsThere'  BY <2>1, <2>2, <2>5, <2>7 DEF PlannedIsThere
  <2>9. WrittenStays' /\ NoEditIsLost'
    BY <2>1, <2>2 DEF SourceFileInv, WrittenStays, NoEditIsLost, CallTypeOK, fileWorld
  <2> QED  BY <2>3, <2>4, <2>6, <2>8, <2>9 DEF SourceFileInv
<1>4. CASE WriteTemporary /\ fileCall' # NoFileCall
  <2>1. /\ fileCall.pc = "temporary" /\ UNCHANGED <<fileWorld, held, lostEdit>> /\ fileCall' = [fileCall EXCEPT !.pc = "rename"]
    BY <1>4 DEF WriteTemporary, Go, EndFileCall, Quiet
  <2>2. /\ fileCall'.pc = "rename" /\ fileCall'.release = fileCall.release /\ fileCall'.got = fileCall.got
        /\ fileCall'.ino = fileCall.ino /\ fileCall'.stat = fileCall.stat
        /\ fileCall'.kind = fileCall.kind /\ fileCall'.renamed = fileCall.renamed
        /\ fileCall'.touched = fileCall.touched /\ fileCall'.switched = fileCall.switched
        /\ fileCall' \in FileCalls
    BY <1>0, <2>1 DEF FileCalls
  <2>3. FilesTypeOK'  BY <2>1, FilesStay DEF SourceFileInv
  <2>4. CallTypeOK'  BY <2>1, <2>2 DEF SourceFileInv, CallTypeOK, fileWorld
  <2>5. NamedFile' = NamedFile  BY <2>1, <2>2 DEF NamedFile, fileWorld
  <2>6. ReadSoFar' /\ LinkStays' /\ PlannedIsThere'
    BY <2>1, <2>2, <2>5 DEF SourceFileInv, ReadSoFar, LinkStays, PlannedIsThere, fileWorld
  <2>7. WrittenStays' /\ NoEditIsLost'
    BY <2>1, <2>2 DEF SourceFileInv, WrittenStays, NoEditIsLost, CallTypeOK, fileWorld
  <2> QED  BY <2>3, <2>4, <2>6, <2>7 DEF SourceFileInv
<1> QED  BY <1>1, <1>2, <1>3, <1>4

\* The rename: the new file has the name, the old one is another inode's.
LEMMA RenameInv == ASSUME SourceFileInv, RenameOver PROVE SourceFileInv'
<1> USE DEF FileSteps, LinkRead, HasInode, Reading, Comparing, Writing
<1> DEFINE r == fileCall.release
           i == names[r]
           file == [regular |-> TRUE, nlink |-> 1, fits |-> TRUE, mtime |-> inodes[i].mtime, bytes |-> Written]
<1>0. /\ fileCall \in FileCalls /\ names \in [SourceReleases -> DOMAIN inodes] /\ inodes \in [DOMAIN inodes -> InodeRecords]
      /\ fileCall.pc = "rename" /\ r \in SourceReleases /\ ~fileCall.renamed /\ fileCall.kind \in {"write", "restore"}
      /\ Cardinality(DOMAIN inodes) < MaxInodes /\ DOMAIN inodes \subseteq 1..MaxInodes
  BY DEF RenameOver, SourceFileInv, CallTypeOK, FilesTypeOK
<1>1. /\ names' = [names EXCEPT ![r] = NewInode]
      /\ inodes' = [j \in DOMAIN inodes \cup {NewInode} |->
                       IF j = NewInode THEN file
                       ELSE IF j = i THEN [inodes[i] EXCEPT !.nlink = @ - 1] ELSE inodes[j]]
      /\ fileCall' = [fileCall EXCEPT !.pc = "resolve", !.renamed = TRUE]
      /\ UNCHANGED <<current, held>>
  BY DEF RenameOver, Written
<1>2. NewInode \in 1..MaxInodes /\ NewInode \notin DOMAIN inodes  BY <1>0, NewInodeIsNew DEF SourceFileInv
<1>3. i \in DOMAIN inodes /\ inodes[i] \in InodeRecords /\ file \in InodeRecords
      /\ [inodes[i] EXCEPT !.nlink = @ - 1] \in InodeRecords
  <2>1. i \in DOMAIN inodes /\ inodes[i] \in InodeRecords  BY <1>0
  <2>2. Written \in Halves /\ inodes[i].mtime \in Nat  BY <2>1, HalvesStayHalves DEF Written, InodeRecords
  <2> HIDE DEF i
  <2>3. file \in InodeRecords  BY <2>2 DEF InodeRecords
  <2>4. [inodes[i] EXCEPT !.nlink = @ - 1] \in InodeRecords  BY <2>1 DEF InodeRecords
  <2> QED  BY <2>1, <2>3, <2>4
<1>4. lostEdit' = FALSE
  <2>1. fileCall.kind = "write" /\ ~fileCall.touched => Bytes(i) = fileCall.got /\ AssertExpectation(Stat(i))
    BY <1>0 DEF SourceFileInv, PlannedIsThere, NamedFile, Bytes, Stat, AssertExpectation
  <2> QED  BY <2>1 DEF RenameOver, SourceFileInv, NoEditIsLost
<1>5. /\ fileCall'.pc = "resolve" /\ fileCall'.release = r /\ fileCall'.kind = fileCall.kind /\ fileCall'.renamed
      /\ fileCall'.touched = fileCall.touched /\ fileCall'.switched = fileCall.switched
      /\ fileCall' \in FileCalls
  BY <1>0, <1>1 DEF FileCalls
<1>6. inodes'[names'[r]].bytes = Written  BY <1>0, <1>1
<1>7. FilesTypeOK'
  <2> HIDE DEF file
  <2>1. inodes' \in [DOMAIN inodes \cup {NewInode} -> InodeRecords] /\ DOMAIN inodes' = DOMAIN inodes \cup {NewInode}
    BY <1>1, <1>3, <1>0
  <2>2. names' \in [SourceReleases -> DOMAIN inodes']  BY <1>0, <1>1, <2>1
  <2>3. \A q, s \in SourceReleases : names'[q] = names'[s] => q = s
    BY <1>0, <1>1, <1>2 DEF SourceFileInv, FilesTypeOK
  <2>4. DOMAIN inodes' \subseteq 1..MaxInodes /\ current' \in [ino : Nat, target : SourceReleases]
    BY <1>0, <1>1, <1>2, <2>1 DEF SourceFileInv, FilesTypeOK
  <2> QED  BY <2>1, <2>2, <2>3, <2>4 DEF FilesTypeOK
<1>8. CallTypeOK' /\ NoEditIsLost'  BY <1>0, <1>4, <1>5 DEF CallTypeOK, NoEditIsLost, FileCalls
<1>9. ReadSoFar' /\ PlannedIsThere' /\ LinkStays'  BY <1>5 DEF ReadSoFar, PlannedIsThere, LinkStays
<1>10. WrittenStays'
  <2>1. ~fileCall'.switched => current'.target = r  BY <1>0, <1>1, <1>5 DEF SourceFileInv, LinkStays
  <2>2. Written' = Written  BY <1>5 DEF Written
  <2> QED  BY <1>5, <1>6, <2>1, <2>2 DEF WrittenStays
<1> QED  BY <1>7, <1>8, <1>9, <1>10 DEF SourceFileInv

\* What the operator may do to the files: the other releases keep theirs, and an
\* inode with other bytes has another modification time.
FilesTouched(r) ==
    /\ UNCHANGED <<current, lostEdit>> /\ held \subseteq held'
    /\ \A q \in SourceReleases : q # r => inodes'[names'[q]] = inodes[names[q]]
    /\ r = fileCall.release => inodes'[names'[r]].bytes \in held'
    /\ \A j \in DOMAIN inodes :
          /\ j \in DOMAIN inodes' /\ inodes[j].mtime <= inodes'[j].mtime
          /\ inodes'[j].mtime = inodes[j].mtime => inodes'[j].bytes = inodes[j].bytes

\* What the call notices of it.
CallTouched ==
    /\ fileCall' \in FileCalls
    /\ fileCall'.pc = fileCall.pc /\ fileCall'.kind = fileCall.kind /\ fileCall'.release = fileCall.release
    /\ fileCall'.linkIno = fileCall.linkIno /\ fileCall'.ino = fileCall.ino /\ fileCall'.stat = fileCall.stat
    /\ fileCall'.got = fileCall.got /\ fileCall'.renamed = fileCall.renamed
    /\ fileCall.switched => fileCall'.switched
    /\ fileCall.touched => fileCall'.touched

LEMMA TouchedInv ==
    ASSUME SourceFileInv, NEW r \in SourceReleases, FilesTypeOK', FilesTouched(r), CallTouched,
           fileCall'.switched = fileCall.switched,
           fileCall.pc \in {"temporary", "rename"} \/ fileCall.renamed => fileCall'.touched,
           fileCall.pc = "path" => fileCall'.touched \/ \A j \in DOMAIN inodes : inodes'[j].bytes = inodes[j].bytes
    PROVE  SourceFileInv'
<1> USE DEF FileSteps, LinkRead, HasInode, Reading, Comparing, Writing
<1>1. CallTypeOK' /\ NoEditIsLost'  BY DEF SourceFileInv, CallTypeOK, NoEditIsLost, FilesTouched, CallTouched
<1>2. fileCall.pc \in FileSteps => NamedFile'.bytes \in held'
  <2>1. fileCall.pc \in FileSteps => fileCall.release \in SourceReleases /\ NamedFile.bytes \in held
    BY DEF SourceFileInv, CallTypeOK, ReadSoFar
  <2> QED  BY <2>1 DEF NamedFile, FilesTouched, CallTouched
<1>3. fileCall.pc \in HasInode =>
          /\ Opened.mtime \in Nat /\ Opened'.mtime \in Nat /\ Opened.mtime <= Opened'.mtime /\ fileCall.stat \in Nat
          /\ Opened'.mtime = Opened.mtime => Opened'.bytes = Opened.bytes
  <2>1. fileCall.pc \in HasInode => fileCall.ino \in DOMAIN inodes /\ fileCall.ino \in DOMAIN inodes'
    BY DEF SourceFileInv, CallTypeOK, FilesTouched
  <2>2. fileCall.pc \in HasInode => inodes[fileCall.ino] \in InodeRecords /\ inodes'[fileCall.ino] \in InodeRecords
    BY <2>1 DEF SourceFileInv, FilesTypeOK
  <2> QED  BY <2>1, <2>2 DEF Opened, InodeRecords, FilesTouched, CallTouched, SourceFileInv, CallTypeOK, FileCalls
<1>4. ReadSoFar'  BY <1>2, <1>3 DEF SourceFileInv, ReadSoFar, FilesTouched, CallTouched
<1>5. PlannedIsThere'
  <2>1. CASE fileCall.pc = "path"
    <3>1. ~fileCall'.touched => Opened'.bytes = Opened.bytes
      BY <2>1 DEF Opened, CallTouched, SourceFileInv, CallTypeOK
    <3> QED  BY <2>1, <3>1 DEF SourceFileInv, PlannedIsThere, CallTouched
  <2>2. CASE fileCall.pc # "path"  BY <2>2, <1>3 DEF SourceFileInv, PlannedIsThere, CallTouched
  <2> QED  BY <2>1, <2>2
<1>6. LinkStays' /\ WrittenStays'  BY DEF SourceFileInv, LinkStays, WrittenStays, FilesTouched, CallTouched
<1> QED  BY <1>1, <1>4, <1>5, <1>6 DEF SourceFileInv

LEMMA TouchFlags ==
    ASSUME SourceFileInv, NEW r, NEW unseen, Touch(r, "touched", unseen)
    PROVE  /\ CallTouched /\ fileCall'.switched = fileCall.switched
           /\ fileCall.pc \in unseen \/ fileCall.renamed => fileCall'.touched
           /\ lostEdit' = lostEdit /\ held \subseteq held'
           /\ r = fileCall.release => inodes'[names'[r]].bytes \in held'
<1>1. fileCall \in FileCalls /\ fileCall' = [fileCall EXCEPT !.touched = fileCall.touched \/ fileCall.pc \in unseen \/ fileCall.renamed]
  BY DEF Touch, SourceFileInv, CallTypeOK
<1>2. (fileCall.touched \/ fileCall.pc \in unseen \/ fileCall.renamed) \in BOOLEAN  OBVIOUS
<1>3. CallTouched /\ fileCall'.switched = fileCall.switched  BY <1>1, <1>2 DEF CallTouched, FileCalls
<1>4. fileCall.pc \in unseen \/ fileCall.renamed => fileCall'.touched  BY <1>1 DEF FileCalls
<1> QED  BY <1>3, <1>4 DEF Touch

LEMMA SwitchFlags ==
    ASSUME SourceFileInv, NEW r, NEW unseen, Touch(r, "switched", unseen)
    PROVE  /\ CallTouched /\ fileCall'.touched = fileCall.touched
           /\ fileCall.pc \in unseen \/ fileCall.renamed => fileCall'.switched
           /\ lostEdit' = lostEdit /\ held \subseteq held'
<1>1. fileCall \in FileCalls /\ fileCall' = [fileCall EXCEPT !.switched = fileCall.switched \/ fileCall.pc \in unseen \/ fileCall.renamed]
  BY DEF Touch, SourceFileInv, CallTypeOK
<1>2. (fileCall.switched \/ fileCall.pc \in unseen \/ fileCall.renamed) \in BOOLEAN  OBVIOUS
<1>3. CallTouched /\ fileCall'.touched = fileCall.touched  BY <1>1, <1>2 DEF CallTouched, FileCalls
<1>4. fileCall.pc \in unseen \/ fileCall.renamed => fileCall'.switched  BY <1>1 DEF FileCalls
<1> QED  BY <1>3, <1>4 DEF Touch

\* A change of the inode that a name stands for.
LEMMA InodeChanged ==
    ASSUME SourceFileInv, NEW r \in SourceReleases, NEW file \in InodeRecords,
           inodes' = [inodes EXCEPT ![names[r]] = file], UNCHANGED <<current, names>>,
           inodes[names[r]].mtime <= file.mtime,
           file.mtime = inodes[names[r]].mtime => file.bytes = inodes[names[r]].bytes
    PROVE  /\ FilesTypeOK'
           /\ \A q \in SourceReleases : q # r => inodes'[names'[q]] = inodes[names[q]]
           /\ \A j \in DOMAIN inodes :
                 /\ j \in DOMAIN inodes' /\ inodes[j].mtime <= inodes'[j].mtime
                 /\ inodes'[j].mtime = inodes[j].mtime => inodes'[j].bytes = inodes[j].bytes
<1>1. names \in [SourceReleases -> DOMAIN inodes] /\ inodes \in [DOMAIN inodes -> InodeRecords]
      /\ names[r] \in DOMAIN inodes /\ \A q \in SourceReleases : q # r => names[q] # names[r] /\ names[q] \in DOMAIN inodes
  BY DEF SourceFileInv, FilesTypeOK
<1>2. DOMAIN inodes' = DOMAIN inodes /\ inodes' \in [DOMAIN inodes -> InodeRecords]  BY <1>1
<1>3. FilesTypeOK'  BY <1>1, <1>2 DEF SourceFileInv, FilesTypeOK
<1>4. \A j \in DOMAIN inodes : inodes[j].mtime <= inodes[j].mtime  BY <1>1 DEF InodeRecords
<1>5. \A j \in DOMAIN inodes :
          /\ j \in DOMAIN inodes' /\ inodes[j].mtime <= inodes'[j].mtime
          /\ inodes'[j].mtime = inodes[j].mtime => inodes'[j].bytes = inodes[j].bytes
  BY <1>1, <1>2, <1>4
<1> QED  BY <1>1, <1>3, <1>5

LEMMA EditInv ==
    ASSUME SourceFileInv, NEW r \in SourceReleases, NEW half \in 1..2, EditInPlace(r, half)
    PROVE  SourceFileInv'
<1> DEFINE old == inodes[names[r]]
           edited == [regular |-> old.regular, nlink |-> old.nlink, fits |-> old.fits,
                      mtime |-> old.mtime + 1, bytes |-> WithHalf(old.bytes, half, "op")]
<1>1. Touch(r, "touched", {"path", "temporary", "rename"}) /\ UNCHANGED <<current, names>>
      /\ inodes' = [inodes EXCEPT ![names[r]] = edited]
  BY DEF EditInPlace, Bytes
<1>2. old \in InodeRecords  BY DEF SourceFileInv, FilesTypeOK
<1>3. old.mtime \in Nat /\ WithHalf(old.bytes, half, "op") \in Halves  BY <1>2, HalvesStayHalves DEF InodeRecords
<1> HIDE DEF old
<1>4. edited \in InodeRecords /\ old.mtime <= edited.mtime /\ edited.mtime # old.mtime  BY <1>2, <1>3 DEF InodeRecords
<1> HIDE DEF edited
<1>5. /\ FilesTypeOK'
      /\ \A q \in SourceReleases : q # r => inodes'[names'[q]] = inodes[names[q]]
      /\ \A j \in DOMAIN inodes :
            /\ j \in DOMAIN inodes' /\ inodes[j].mtime <= inodes'[j].mtime
            /\ inodes'[j].mtime = inodes[j].mtime => inodes'[j].bytes = inodes[j].bytes
  BY <1>1, <1>4, InodeChanged DEF old
<1>6. FilesTouched(r)  BY <1>1, <1>5, TouchFlags DEF FilesTouched
<1> QED  BY <1>1, <1>5, <1>6, TouchFlags, TouchedInv

LEMMA ModeInv ==
    ASSUME SourceFileInv, NEW r \in SourceReleases, NEW file,
           file \in {[inodes[names[r]] EXCEPT !.fits = ~@], [inodes[names[r]] EXCEPT !.nlink = 3 - @]},
           SetMode(r, file)
    PROVE  SourceFileInv'
<1> DEFINE old == inodes[names[r]]
<1>1. Touch(r, "touched", {"temporary", "rename"}) /\ UNCHANGED <<current, names>>
      /\ inodes' = [inodes EXCEPT ![names[r]] = file]
  BY DEF SetMode
<1>2. old \in InodeRecords /\ names[r] \in DOMAIN inodes  BY DEF SourceFileInv, FilesTypeOK
<1>3. file \in InodeRecords /\ file.mtime = old.mtime /\ file.bytes = old.bytes /\ old.mtime \in Nat
  <2>1. CASE file = [old EXCEPT !.fits = ~@]  BY <1>2, <2>1 DEF InodeRecords
  <2>2. CASE file = [old EXCEPT !.nlink = 3 - @]  BY <1>2, <2>2 DEF InodeRecords
  <2> QED  BY <2>1, <2>2
<1>4. /\ FilesTypeOK'
      /\ \A q \in SourceReleases : q # r => inodes'[names'[q]] = inodes[names[q]]
      /\ \A j \in DOMAIN inodes :
            /\ j \in DOMAIN inodes' /\ inodes[j].mtime <= inodes'[j].mtime
            /\ inodes'[j].mtime = inodes[j].mtime => inodes'[j].bytes = inodes[j].bytes
  <2>1. old.mtime <= file.mtime  BY <1>3
  <2> QED  BY <1>1, <1>3, <2>1, InodeChanged
<1>5. \A j \in DOMAIN inodes : inodes'[j].bytes = inodes[j].bytes  BY <1>1, <1>2, <1>3 DEF SourceFileInv, FilesTypeOK
<1>6. FilesTouched(r)  BY <1>1, <1>4, TouchFlags DEF FilesTouched
<1> QED  BY <1>1, <1>4, <1>5, <1>6, TouchFlags, TouchedInv

LEMMA MoveInv ==
    ASSUME SourceFileInv, NEW r \in SourceReleases, NEW regular \in BOOLEAN, MoveOver(r, regular)
    PROVE  SourceFileInv'
<1> DEFINE i == names[r]
           file == [regular |-> regular, nlink |-> 1, fits |-> TRUE, mtime |-> inodes[i].mtime + 1, bytes |-> <<"op", "op">>]
<1>1. /\ Touch(r, "touched", {"temporary", "rename"}) /\ UNCHANGED current
      /\ Cardinality(DOMAIN inodes) < MaxInodes
      /\ names' = [names EXCEPT ![r] = NewInode]
      /\ inodes' = [j \in DOMAIN inodes \cup {NewInode} |->
                       IF j = NewInode THEN file
                       ELSE IF j = i THEN [inodes[j] EXCEPT !.nlink = @ - 1] ELSE inodes[j]]
  BY DEF MoveOver
<1>2. NewInode \in 1..MaxInodes /\ NewInode \notin DOMAIN inodes  BY <1>1, NewInodeIsNew DEF SourceFileInv
<1>3. /\ names \in [SourceReleases -> DOMAIN inodes] /\ inodes \in [DOMAIN inodes -> InodeRecords]
      /\ i \in DOMAIN inodes /\ inodes[i] \in InodeRecords /\ inodes[i].mtime \in Nat
  BY DEF SourceFileInv, FilesTypeOK, InodeRecords
<1>4. file \in InodeRecords
  <2> HIDE DEF i
  <2> QED  BY <1>3, HalvesStayHalves DEF InodeRecords
<1>5. \A j \in DOMAIN inodes :
          /\ [inodes[j] EXCEPT !.nlink = @ - 1] \in InodeRecords
          /\ [inodes[j] EXCEPT !.nlink = @ - 1].mtime = inodes[j].mtime
          /\ [inodes[j] EXCEPT !.nlink = @ - 1].bytes = inodes[j].bytes
          /\ inodes[j].mtime \in Nat
  BY <1>3 DEF InodeRecords
<1> HIDE DEF file
<1>6. inodes' \in [DOMAIN inodes \cup {NewInode} -> InodeRecords] /\ DOMAIN inodes' = DOMAIN inodes \cup {NewInode}
  BY <1>1, <1>3, <1>4, <1>5
<1>7. \A j \in DOMAIN inodes : j \in DOMAIN inodes' /\ inodes'[j].mtime = inodes[j].mtime /\ inodes'[j].bytes = inodes[j].bytes
  BY <1>1, <1>2, <1>5
<1>8. \A q \in SourceReleases : q # r => inodes'[names'[q]] = inodes[names[q]]
  BY <1>1, <1>2, <1>3 DEF SourceFileInv, FilesTypeOK
<1>9. FilesTypeOK'
  <2>1. names' \in [SourceReleases -> DOMAIN inodes']  BY <1>1, <1>3, <1>6
  <2>2. \A q, s \in SourceReleases : names'[q] = names'[s] => q = s
    BY <1>1, <1>2, <1>3 DEF SourceFileInv, FilesTypeOK
  <2>3. DOMAIN inodes' \subseteq 1..MaxInodes /\ current' \in [ino : Nat, target : SourceReleases]
    BY <1>1, <1>2, <1>6 DEF SourceFileInv, FilesTypeOK
  <2> QED  BY <1>6, <2>1, <2>2, <2>3 DEF FilesTypeOK
<1>10. FilesTouched(r)
  <2>1. lostEdit' = lostEdit /\ held \subseteq held' /\ (r = fileCall.release => inodes'[names'[r]].bytes \in held')
    BY <1>1, TouchFlags
  <2>2. \A j \in DOMAIN inodes : inodes[j].mtime <= inodes'[j].mtime
    <3>1. \A j \in DOMAIN inodes : inodes[j].mtime \in Nat /\ inodes'[j].mtime = inodes[j].mtime
      BY <1>3, <1>7 DEF InodeRecords
    <3>2. \A n \in Nat : n <= n  OBVIOUS
    <3> QED  BY <3>1, <3>2
  <2> QED  BY <1>1, <1>7, <1>8, <2>1, <2>2 DEF FilesTouched
<1> QED  BY <1>1, <1>7, <1>9, <1>10, TouchFlags, TouchedInv

LEMMA LinkSwitchInv ==
    ASSUME SourceFileInv, NEW r \in SourceReleases, SwitchRelease(r)
    PROVE  SourceFileInv'
<1> USE DEF FileSteps, LinkRead, HasInode, Reading, Comparing, Writing
<1>1. /\ current' = [ino |-> current.ino + 1, target |-> r] /\ UNCHANGED <<names, inodes>>
      /\ CallTouched /\ fileCall'.touched = fileCall.touched
      /\ fileCall.pc \in LinkRead \ {"verified"} \/ fileCall.renamed => fileCall'.switched
      /\ lostEdit' = lostEdit /\ held \subseteq held'
  BY SwitchFlags DEF SwitchRelease
<1>2. current.ino \in Nat  BY DEF SourceFileInv, FilesTypeOK
<1>3. FilesTypeOK'  BY <1>1, <1>2 DEF SourceFileInv, FilesTypeOK
<1>4. CallTypeOK' /\ NoEditIsLost'  BY <1>1 DEF SourceFileInv, CallTypeOK, NoEditIsLost, CallTouched
<1>5. Opened' = Opened /\ NamedFile' = NamedFile  BY <1>1 DEF Opened, NamedFile, CallTouched
<1>6. ReadSoFar' /\ PlannedIsThere'  BY <1>1, <1>5 DEF SourceFileInv, ReadSoFar, PlannedIsThere, CallTouched
<1>7. LinkStays'
  <2>1. fileCall.pc = "release" => fileCall.linkIno <= current.ino /\ fileCall.linkIno \in Nat
    BY DEF SourceFileInv, LinkStays, CallTypeOK, FileCalls
  <2>2. fileCall.pc \in LinkRead => fileCall'.switched  BY <1>1 DEF SourceFileInv, CallTypeOK
  <2> QED  BY <1>1, <1>2, <2>1, <2>2 DEF LinkStays, CallTouched
<1>8. WrittenStays'  BY <1>1 DEF WrittenStays, CallTouched
<1> QED  BY <1>3, <1>4, <1>6, <1>7, <1>8 DEF SourceFileInv

LEMMA OperatorInv == ASSUME SourceFileInv, Operator PROVE SourceFileInv'
<1>1. PICK r \in SourceReleases :
          \/ \E half \in 1..2 : EditInPlace(r, half)
          \/ SetMode(r, [inodes[names[r]] EXCEPT !.fits = ~@])
          \/ SetMode(r, [inodes[names[r]] EXCEPT !.nlink = 3 - @])
          \/ \E regular \in BOOLEAN : MoveOver(r, regular)
          \/ SwitchRelease(r)
  BY DEF Operator
<1>2. CASE \E half \in 1..2 : EditInPlace(r, half)  BY <1>2, EditInv
<1>3. CASE SetMode(r, [inodes[names[r]] EXCEPT !.fits = ~@]) \/ SetMode(r, [inodes[names[r]] EXCEPT !.nlink = 3 - @])
  BY <1>3, ModeInv
<1>4. CASE \E regular \in BOOLEAN : MoveOver(r, regular)  BY <1>4, MoveInv
<1>5. CASE SwitchRelease(r)  BY <1>5, LinkSwitchInv
<1> QED  BY <1>1, <1>2, <1>3, <1>4, <1>5

\* A read hands out what the file was as a whole at one moment of it, a write
\* replaces only what it was planned for, and a write that reports success has
\* read back its own bytes (safeSourceFile.ts, atomicSourceWriter.ts), whatever
\* an operator does to the file and the release between the system calls.
THEOREM SourceFileSound == SourceFileSpec => []SourceFileIsSafe
<1>1. SourceFileInv /\ [SourceFileNext]_fileVars => SourceFileInv'
  <2> SUFFICES ASSUME SourceFileInv, [SourceFileNext]_fileVars PROVE SourceFileInv'  OBVIOUS
  <2>1. CASE SourceFileNext
    BY <2>1, BeginInv, WalkInv, ReadHalfInv, ComparedInv, WriterInv, RenameInv, OperatorInv DEF SourceFileNext
  <2>2. CASE UNCHANGED fileVars
    <3>1. FilesTypeOK' /\ CallTypeOK' /\ ReadSoFar'
      BY <2>2, FilesStay DEF fileVars, fileWorld, SourceFileInv, CallTypeOK, ReadSoFar, NamedFile, Opened
    <3>2. PlannedIsThere' /\ LinkStays' /\ WrittenStays' /\ NoEditIsLost'
      BY <2>2 DEF fileVars, fileWorld, SourceFileInv, PlannedIsThere, LinkStays, WrittenStays, NoEditIsLost,
        NamedFile, Opened, Written
    <3> QED  BY <3>1, <3>2 DEF SourceFileInv
  <2> QED  BY <2>1, <2>2
<1>2. SourceFileInv => SourceFileIsSafe
  <2> SUFFICES ASSUME SourceFileInv PROVE SourceFileIsSafe  OBVIOUS
  <2>1. ReadIsWhole /\ NoEditIsLost  BY DEF SourceFileInv, ReadSoFar, ReadIsWhole
  <2>2. SuccessIsWritten  BY DEF SourceFileInv, CallTypeOK, WrittenStays, SuccessIsWritten, Written
  <2> QED  BY <2>1, <2>2 DEF SourceFileIsSafe
<1> QED  BY SourceFileInitInv, <1>1, <1>2, PTL DEF SourceFileSpec

\* What the agent keeps on disk is safe, its own artifacts and the sources of
\* the applications it edits, for any number of artifacts, files, calls,
\* interruptions and days (artifactStorage.ts, draftStore.ts, snapshotStore.ts,
\* retentionService.ts, safeSourceFile.ts, atomicSourceWriter.ts).
THEOREM AgentFilesSafe == ArtifactSpec /\ SourceFileSpec => []AgentFilesAreSafe
<1>1. ArtifactsAreSafe /\ SourceFileIsSafe => AgentFilesAreSafe  BY DEF AgentFilesAreSafe
<1> QED  BY <1>1, ArtifactsSound, SourceFileSound, PTL

\* What the page and its requests hold.
RowStates == {"none", "DRAFT", "INVALID", "READY", "SAVED", "APPLYING"} \cup Final
RowRequests == {"items", "validate", "save", "authorize", "apply", "status"}
ViewRecords ==
    [unlocked : BOOLEAN, items : 0..MaxUnlocks, loading : BOOLEAN,
     staged : [id : 0..MaxDrafts, state : RowStates, digest : Drafts], draft : Drafts, confirm : BOOLEAN]
CallRecords ==
    [req : {"idle", "unlock", "inventory", "lock", "create"} \cup RowRequests, at : 0..2, gone : BOOLEAN,
     answer : {"none", "ok", "err"}, id : Nat, digest : Drafts, items : Drafts, grant : Nat, state : RowStates]

ViewOK(v) == v \in ViewRecords /\ (v.staged.id = 0 => v.staged.state = "none" /\ v.staged.digest = NoEdits)
CallOK(c) ==
    /\ c \in CallRecords
    /\ c.req = "create" => c.id \in 0..MaxDrafts /\ (c.answer = "ok" => c.id # 0)
    /\ c.req \in RowRequests => c.id \in Changes
    /\ c.req = "inventory" => c.grant \in 0..MaxUnlocks
    /\ c.req = "unlock" /\ c.answer = "ok" => c.at = 1

PageTypes ==
    /\ ViewOK(view)
    /\ call \in [PageCalls -> CallRecords] /\ \A t \in PageCalls : CallOK(call[t])
    /\ unlocks \in [1..MaxUnlocks -> {"none", "live", "dead"}]
    /\ bound \in 0..MaxUnlocks
    /\ proofs \in [1..MaxProofs -> [state : {"none", "live", "dead", "used"}, digest : Drafts]]
    /\ authorized \in [Drafts -> 0..MaxProofs]
    /\ change \in [Changes -> [state : RowStates, digest : Drafts]]
    /\ agentHas \in [Changes -> [draft : Drafts, envelope : Drafts]]
    /\ launched \subseteq [change : Changes, items : Drafts, grant : 1..MaxProofs]
    /\ opened \subseteq 1..MaxUnlocks

\* The unlocks.  Of those the page waits for there is one, and it is newer than
\* all the page was told of; a lock that has looked and found nothing finds
\* nothing it was started for later.  What the routes remember was granted.
Unlocking(c) == c.req = "unlock" /\ c.at = 1
Looked(c) == c.req = "lock" /\ ((c.at = 1 /\ c.grant = 0 /\ c.answer = "none") \/ c.answer = "ok")
Granting(g) == g # 0 => g \in 1..MaxUnlocks /\ unlocks[g] # "none"
Pending(c) ==
    /\ c.grant \in 1..MaxUnlocks /\ unlocks[c.grant] # "none"
    /\ c.answer = "none" => c.grant \notin opened
    /\ ~c.gone => \A g \in opened : g < c.grant

UnlockInv ==
    /\ closed \subseteq opened /\ \A g \in closed : bound # g
    /\ \A g \in 1..MaxUnlocks : unlocks[g] # "none" => \A h \in 1..(g - 1) : unlocks[h] # "none"
    /\ \A g \in opened : unlocks[g] # "none"
    /\ Granting(bound)
    /\ \A t \in PageCalls : call[t].req = "lock" /\ call[t].at = 1 => Granting(call[t].grant)
    /\ \A t \in PageCalls : Unlocking(call[t]) => Pending(call[t])
    /\ \A t, u \in PageCalls : Unlocking(call[t]) /\ Unlocking(call[u]) /\ t # u => call[t].grant # call[u].grant
    /\ \A t, u \in PageCalls :
          call[t].req = "unlock" /\ call[u].req = "unlock" /\ ~call[t].gone /\ ~call[u].gone => t = u
    /\ \A t \in PageCalls : call[t].req = "lock" => call[t].id \in opened
    /\ \A t \in PageCalls : Looked(call[t]) => \A g \in opened : g <= call[t].id => bound # g

\* The proofs.  Each is for one digest, and what was consumed starts one run.
ForDigest(g, d) == g \in 1..MaxProofs /\ proofs[g].state # "none" /\ proofs[g].digest = d
Consumed(c) == c.req = "apply" /\ c.at = 2 /\ c.answer = "none"

ProofInv ==
    /\ \A t \in PageCalls : call[t].req \in {"authorize", "apply"} => <<call[t].id, call[t].digest>> \in confirmed
    /\ \A t \in PageCalls : call[t].req \in {"authorize", "apply"} /\ call[t].at = 1 => ForDigest(call[t].grant, call[t].digest)
    /\ \A d \in Drafts : authorized[d] # 0 => ForDigest(authorized[d], d)
    /\ \A t \in PageCalls : Consumed(call[t]) =>
          /\ call[t].grant \in 1..MaxProofs /\ proofs[call[t].grant] = [state |-> "used", digest |-> call[t].digest]
          /\ \A l \in launched : l.grant # call[t].grant
    /\ \A t, u \in PageCalls : Consumed(call[t]) /\ Consumed(call[u]) /\ t # u => call[t].grant # call[u].grant
    /\ AppliedAsConfirmed /\ OneRunPerProof /\ AppliedRowKeepsDigest

PageInv == PageTypes /\ UnlockInv /\ ProofInv

LEMMA NoEditsType == NoEdits \in Drafts /\ Idle \in CallRecords /\ CallOK(Idle) /\ ViewOK(Cleared)
<1>1. NoEdits \in Drafts  BY DEF NoEdits, Drafts
<1> HIDE DEF Drafts
<1>2. Idle \in CallRecords /\ Idle.req = "idle"  BY <1>1 DEF Idle, CallRecords, RowStates
<1>3. CallOK(Idle)  BY <1>2 DEF CallOK, RowRequests
<1>4. ViewOK(Cleared)  BY <1>1, VariablesPageAssumption DEF ViewOK, ViewRecords, Cleared, NoChange, RowStates
<1> QED  BY <1>1, <1>2, <1>3, <1>4

\* A request that starts, with what it is about.
LEMMA Requests ==
    ASSUME NEW name \in {"unlock", "inventory", "lock", "create"} \cup RowRequests, NEW id \in Nat,
           NEW asked \in Drafts, NEW digest \in Drafts,
           NEW r, r.req = name, r.at = 0, r.gone = FALSE, r.answer = "none", r.id = id, r.items = asked,
           r.digest = digest, r.grant = 0, r.state = "none", r \in CallRecords,
           name = "create" => id <= MaxDrafts, name \in RowRequests => id \in Changes
    PROVE  CallOK(r)
  BY VariablesPageAssumption DEF CallOK, RowRequests

Moves(t, r) == call' = [call EXCEPT ![t] = r]

LEMMA MovesTo ==
    ASSUME PageTypes, NEW t \in PageCalls, NEW r, CallOK(r), Moves(t, r)
    PROVE  /\ call' \in [PageCalls -> CallRecords] /\ \A u \in PageCalls : CallOK(call'[u])
           /\ call'[t] = r /\ \A u \in PageCalls : u # t => call'[u] = call[u]
  BY DEF PageTypes, Moves, CallOK

\* How a request is answered.
LEMMA OneAnswer ==
    ASSUME NEW c, CallOK(c), NEW answer \in {"ok", "err"},
           answer = "ok" => c.req # "create" /\ (c.req = "unlock" => c.at = 1)
    PROVE  LET r == [c EXCEPT !.answer = answer]
           IN  /\ CallOK(r) /\ r.req = c.req /\ r.at = c.at /\ r.gone = c.gone /\ r.id = c.id /\ r.digest = c.digest
               /\ r.items = c.items /\ r.grant = c.grant /\ r.answer = answer
<1> DEFINE r == [c EXCEPT !.answer = answer]
<1>1. /\ r \in CallRecords /\ r.req = c.req /\ r.at = c.at /\ r.gone = c.gone /\ r.id = c.id /\ r.digest = c.digest
      /\ r.items = c.items /\ r.grant = c.grant /\ r.answer = answer
  BY DEF CallOK, CallRecords
<1> HIDE DEF r
<1>2. CallOK(r)  BY <1>1 DEF CallOK
<1> QED  BY <1>1, <1>2 DEF r

LEMMA AnswerKinds ==
    ASSUME PageTypes, NEW t \in PageCalls
    PROVE  /\ Denies(t) => \/ Moves(t, Idle)
                           \/ call[t].req \in {"unlock", "inventory"} /\ Moves(t, [call[t] EXCEPT !.answer = "err"])
           /\ Accepts(t) => Moves(t, Idle) \/ Moves(t, [call[t] EXCEPT !.answer = "ok"])
  BY DEF Denies, Accepts, Replies, Moves

\* What leaves the unlocks as they are, and the proofs.
SameUnlock(t) ==
    call'[t].req \in {"unlock", "lock"} =>
        /\ call'[t].req = call[t].req /\ call'[t].id = call[t].id /\ call'[t].at = call[t].at
        /\ call'[t].grant = call[t].grant /\ (~call'[t].gone => ~call[t].gone)
        /\ call'[t].answer \in {call[t].answer, "err"}
SameProof(t) ==
    call'[t].req \in {"authorize", "apply"} =>
        /\ call'[t].req = call[t].req /\ call'[t].id = call[t].id /\ call'[t].digest = call[t].digest
        /\ call'[t].at = call[t].at /\ call'[t].grant = call[t].grant
        /\ call'[t].answer \in {call[t].answer, "ok", "err"}
RunsStay ==
    \A c \in Changes : change[c].state \in {"APPLYING"} \cup Final =>
        change'[c].digest = change[c].digest /\ change'[c].state \in {"APPLYING"} \cup Final

LEMMA UnlockRest ==
    ASSUME PageTypes, PageTypes', UnlockInv, UNCHANGED <<opened, closed>>, bound' \in {bound, 0},
           \A g \in 1..MaxUnlocks : unlocks'[g] = "none" <=> unlocks[g] = "none",
           \A t \in PageCalls : SameUnlock(t)
    PROVE  UnlockInv'
<1>1. \A g \in opened : g \in 1..MaxUnlocks /\ g # 0  BY DEF PageTypes
<1>2. \A t \in PageCalls :
          /\ Unlocking(call'[t]) => Unlocking(call[t]) /\ call'[t].grant = call[t].grant
          /\ call'[t].req = "unlock" /\ ~call'[t].gone => call[t].req = "unlock" /\ ~call[t].gone
          /\ call'[t].req = "lock" => call[t].req = "lock" /\ call'[t].id = call[t].id
          /\ Looked(call'[t]) => Looked(call[t])
  BY DEF SameUnlock, Unlocking, Looked
<1>3. \A t \in PageCalls : Unlocking(call'[t]) => Pending(call[t])' 
  <2> SUFFICES ASSUME NEW t \in PageCalls, Unlocking(call'[t]) PROVE Pending(call[t])'  OBVIOUS
  <2>1. Pending(call[t]) /\ call'[t].grant = call[t].grant /\ (~call'[t].gone => ~call[t].gone)
        /\ call'[t].answer \in {call[t].answer, "err"}
    BY <1>2 DEF UnlockInv, SameUnlock, Unlocking
  <2> QED  BY <2>1 DEF Pending
<1>4. \A g \in 1..MaxUnlocks : unlocks'[g] # "none" => \A h \in 1..(g - 1) : unlocks'[h] # "none"
  <2>1. \A g \in 1..MaxUnlocks : \A h \in 1..(g - 1) : h \in 1..MaxUnlocks  BY VariablesPageAssumption
  <2> QED  BY <2>1 DEF UnlockInv
<1>5. \A g \in closed : bound' # g  BY <1>1 DEF UnlockInv
<1>6. \A g \in opened : unlocks'[g] # "none"  BY <1>1 DEF UnlockInv
<1>7. \A t \in PageCalls : Looked(call'[t]) => \A g \in opened : g <= call'[t].id => bound' # g
  <2> SUFFICES ASSUME NEW t \in PageCalls, Looked(call'[t]), NEW g \in opened, g <= call'[t].id PROVE bound' # g
    OBVIOUS
  <2>1. Looked(call[t]) /\ call'[t].id = call[t].id  BY <1>2 DEF Looked, SameUnlock
  <2> QED  BY <1>1, <2>1 DEF UnlockInv
<1>8. \A g : Granting(g) => Granting(g)'  BY DEF Granting
<1>9. Granting(bound)'  BY <1>8 DEF UnlockInv, Granting
<1>10. \A t \in PageCalls : call'[t].req = "lock" /\ call'[t].at = 1 => Granting(call[t].grant)'
  <2>1. \A t \in PageCalls : call'[t].req = "lock" /\ call'[t].at = 1 => Granting(call[t].grant) /\ call'[t].grant = call[t].grant
    BY DEF UnlockInv, SameUnlock
  <2> QED  BY <2>1 DEF Granting
<1> QED  BY <1>2, <1>3, <1>4, <1>5, <1>6, <1>7, <1>9, <1>10 DEF UnlockInv

LEMMA RunsStayed ==
    ASSUME PageTypes, AppliedRowKeepsDigest, RunsStay, UNCHANGED launched
    PROVE  AppliedRowKeepsDigest'
  BY DEF PageTypes, AppliedRowKeepsDigest, RunsStay

LEMMA ProofRest ==
    ASSUME PageTypes, PageTypes', ProofInv, UNCHANGED <<proofs, authorized, launched, confirmed>>, RunsStay,
           \A t \in PageCalls : SameProof(t)
    PROVE  ProofInv'
<1>1. AppliedRowKeepsDigest'  BY RunsStayed DEF ProofInv
<1>2. \A g, d : ForDigest(g, d)' = ForDigest(g, d)  BY DEF ForDigest
<1>3. \A t \in PageCalls :
          /\ call'[t].req \in {"authorize", "apply"} =>
                /\ call[t].req \in {"authorize", "apply"} /\ call'[t].id = call[t].id /\ call'[t].digest = call[t].digest
                /\ call'[t].at = call[t].at /\ call'[t].grant = call[t].grant
          /\ Consumed(call'[t]) => Consumed(call[t]) /\ call'[t].grant = call[t].grant /\ call'[t].digest = call[t].digest
  BY DEF SameProof, Consumed
<1>4. /\ \A t \in PageCalls : call'[t].req \in {"authorize", "apply"} => <<call'[t].id, call'[t].digest>> \in confirmed
      /\ \A t \in PageCalls : call'[t].req \in {"authorize", "apply"} /\ call'[t].at = 1 =>
            ForDigest(call'[t].grant, call'[t].digest)
  BY <1>3 DEF ProofInv
<1>5. \A t \in PageCalls : Consumed(call'[t]) =>
          /\ call'[t].grant \in 1..MaxProofs /\ proofs[call'[t].grant] = [state |-> "used", digest |-> call'[t].digest]
          /\ \A l \in launched : l.grant # call'[t].grant
  BY <1>3 DEF ProofInv
<1>6. \A t, u \in PageCalls : Consumed(call'[t]) /\ Consumed(call'[u]) /\ t # u => call'[t].grant # call'[u].grant
  BY <1>3 DEF ProofInv
<1>7. AppliedAsConfirmed' /\ OneRunPerProof'  BY DEF ProofInv, AppliedAsConfirmed, OneRunPerProof
<1>8. \A t \in PageCalls : call'[t].req \in {"authorize", "apply"} /\ call'[t].at = 1 =>
          ForDigest(call[t].grant, call[t].digest)'
  BY <1>4 DEF ForDigest
<1>9. \A d \in Drafts : authorized'[d] # 0 => ForDigest(authorized[d], d)'  BY DEF ProofInv, ForDigest
<1> QED  BY <1>1, <1>4, <1>5, <1>6, <1>7, <1>8, <1>9 DEF ProofInv

\* A request that starts, in the forms the page sends.
Fresh(r, name, id) ==
    CallOK(r) /\ r.req = name /\ r.id = id /\ r.at = 0 /\ r.gone = FALSE /\ r.answer = "none"

LEMMA Blank ==
    ASSUME NEW name \in {"unlock", "inventory", "lock", "create"} \cup RowRequests
    PROVE  /\ PageRequest(name) \in CallRecords /\ PageRequest(name).req = name /\ PageRequest(name).at = 0
           /\ PageRequest(name).gone = FALSE /\ PageRequest(name).answer = "none" /\ PageRequest(name).id = 0
           /\ PageRequest(name).grant = 0 /\ PageRequest(name).state = "none"
           /\ PageRequest(name).items = NoEdits /\ PageRequest(name).digest = NoEdits
<1>1. Idle \in CallRecords /\ NoEdits \in Drafts  BY NoEditsType
<1>2. /\ Idle.at = 0 /\ Idle.gone = FALSE /\ Idle.answer = "none" /\ Idle.id = 0 /\ Idle.grant = 0
      /\ Idle.state = "none" /\ Idle.items = NoEdits /\ Idle.digest = NoEdits
  BY DEF Idle
<1> QED  BY <1>1, <1>2 DEF PageRequest, CallRecords

LEMMA Formed ==
    ASSUME NEW name \in {"unlock", "inventory", "lock", "create"} \cup RowRequests, NEW id \in Nat,
           NEW asked \in Drafts, NEW digest \in Drafts,
           name = "create" => id <= MaxDrafts, name \in RowRequests => id \in Changes
    PROVE  /\ Fresh([PageRequest(name) EXCEPT !.id = id], name, id)
           /\ Fresh([PageRequest(name) EXCEPT !.id = id, !.items = asked], name, id)
           /\ Fresh([PageRequest(name) EXCEPT !.id = id, !.digest = digest], name, id)
           /\ [PageRequest(name) EXCEPT !.id = id, !.digest = digest].digest = digest
           /\ (name \notin RowRequests => Fresh(PageRequest(name), name, 0))
<1> DEFINE p == PageRequest(name)
<1>1. /\ p \in CallRecords /\ p.req = name /\ p.at = 0 /\ p.gone = FALSE /\ p.answer = "none" /\ p.id = 0
      /\ p.grant = 0 /\ p.state = "none" /\ p.items = NoEdits /\ p.digest = NoEdits /\ NoEdits \in Drafts
  BY Blank, NoEditsType
<1> HIDE DEF p
<1> DEFINE q == [p EXCEPT !.id = id]
<1> DEFINE i == [p EXCEPT !.id = id, !.items = asked]
<1> DEFINE d == [p EXCEPT !.id = id, !.digest = digest]
<1>2. /\ q \in CallRecords /\ q.req = name /\ q.at = 0 /\ q.gone = FALSE /\ q.answer = "none" /\ q.id = id
      /\ q.grant = 0 /\ q.state = "none" /\ q.items = NoEdits /\ q.digest = NoEdits
  BY <1>1 DEF CallRecords
<1>3. /\ i \in CallRecords /\ i.req = name /\ i.at = 0 /\ i.gone = FALSE /\ i.answer = "none" /\ i.id = id
      /\ i.grant = 0 /\ i.state = "none" /\ i.items = asked /\ i.digest = NoEdits
  BY <1>1 DEF CallRecords
<1>4. /\ d \in CallRecords /\ d.req = name /\ d.at = 0 /\ d.gone = FALSE /\ d.answer = "none" /\ d.id = id
      /\ d.grant = 0 /\ d.state = "none" /\ d.items = NoEdits /\ d.digest = digest
  BY <1>1 DEF CallRecords
<1> HIDE DEF q, i, d
<1>5. Fresh(q, name, id)  BY <1>1, <1>2, Requests DEF Fresh
<1>6. Fresh(i, name, id)  BY <1>1, <1>3, Requests DEF Fresh
<1>7. Fresh(d, name, id) /\ d.digest = digest  BY <1>1, <1>4, Requests DEF Fresh
<1>8. ASSUME name \notin RowRequests PROVE Fresh(p, name, 0)
  <2>1. 0 \in Nat /\ (name = "create" => 0 <= MaxDrafts)  BY VariablesPageAssumption
  <2> QED  BY <1>1, <1>8, <2>1, Requests DEF Fresh
<1> QED  BY <1>5, <1>6, <1>7, <1>8 DEF p, q, i, d

\* What a request keeps when its place or answer changes.
KeepsUnlock(c, r) ==
    r.req \in {"unlock", "lock"} =>
        /\ r.req = c.req /\ r.id = c.id /\ r.at = c.at /\ r.grant = c.grant
        /\ (~r.gone => ~c.gone) /\ r.answer \in {c.answer, "err"}
KeepsProof(c, r) ==
    r.req \in {"authorize", "apply"} =>
        /\ r.req = c.req /\ r.id = c.id /\ r.digest = c.digest /\ r.at = c.at /\ r.grant = c.grant
        /\ r.answer \in {c.answer, "ok", "err"}

LEMMA MovesKeep ==
    ASSUME PageTypes, NEW t \in PageCalls, NEW r, CallOK(r), Moves(t, r)
    PROVE  /\ KeepsUnlock(call[t], r) => \A u \in PageCalls : SameUnlock(u)
           /\ KeepsProof(call[t], r) => \A u \in PageCalls : SameProof(u)
<1>1. call'[t] = r /\ \A u \in PageCalls : u # t => call'[u] = call[u]  BY MovesTo
<1>2. \A u \in PageCalls : u # t => SameUnlock(u) /\ SameProof(u)  BY <1>1 DEF SameUnlock, SameProof
<1> QED  BY <1>1, <1>2 DEF KeepsUnlock, KeepsProof, SameUnlock, SameProof

\* The rows and what the agent holds.
RowsOK(next, kept) ==
    /\ next \in [Changes -> [state : RowStates, digest : Drafts]]
    /\ kept \in [Changes -> [draft : Drafts, envelope : Drafts]]

\* Most steps move one request and leave the grants as they are.
LEMMA QuietTypes ==
    ASSUME PageTypes, NEW t \in PageCalls, NEW r, CallOK(r), Moves(t, r), ViewOK(view'),
           UNCHANGED <<unlocks, proofs, authorized, pageHistory>>, bound' \in {bound, 0}, RowsOK(change', agentHas')
    PROVE  PageTypes'
<1>1. call' \in [PageCalls -> CallRecords] /\ \A u \in PageCalls : CallOK(call'[u])  BY MovesTo
<1>2. bound' \in 0..MaxUnlocks  BY VariablesPageAssumption DEF PageTypes
<1>3. (\A u \in PageCalls : CallOK(call[u]))'  BY <1>1
<1>4. launched' = launched /\ opened' = opened  BY DEF pageHistory
<1>5. ViewOK(view)'  OBVIOUS
<1>6. RowsOK(change, agentHas)'  OBVIOUS
<1> QED  BY <1>1, <1>2, <1>3, <1>4, <1>5 DEF PageTypes, RowsOK

LEMMA QuietStep ==
    ASSUME PageInv, NEW t \in PageCalls, NEW r, CallOK(r), Moves(t, r),
           KeepsUnlock(call[t], r), KeepsProof(call[t], r), ViewOK(view'),
           UNCHANGED <<unlocks, proofs, authorized, pageHistory>>, bound' \in {bound, 0},
           RowsOK(change', agentHas'), RunsStay
    PROVE  PageInv'
<1>1. PageTypes'  BY QuietTypes DEF PageInv
<1>2. \A u \in PageCalls : SameUnlock(u) /\ SameProof(u)  BY MovesKeep DEF PageInv
<1>3. UNCHANGED <<opened, closed, confirmed, launched>>  BY DEF pageHistory
<1>4. UnlockInv'  BY <1>1, <1>2, <1>3, UnlockRest DEF PageInv
<1>5. ProofInv'  BY <1>1, <1>2, <1>3, ProofRest DEF PageInv
<1> QED  BY <1>1, <1>4, <1>5 DEF PageInv

\* The rows and what the agent holds stay.
LEMMA RowsRest ==
    ASSUME PageInv, UNCHANGED changeState
    PROVE  RowsOK(change', agentHas') /\ RunsStay
  BY DEF PageInv, PageTypes, changeState, RunsStay, RowsOK

LEMMA ViewStep ==
    ASSUME PageInv, ViewOK(view'), UNCHANGED <<call, grantState, changeState, pageHistory>>
    PROVE  PageInv'
<1>1. PageTypes'  BY DEF PageInv, PageTypes, grantState, changeState, pageHistory
<1>2. \A u \in PageCalls : SameUnlock(u) /\ SameProof(u)  BY DEF SameUnlock, SameProof
<1>3. UnlockInv'  BY <1>1, <1>2, UnlockRest DEF PageInv, grantState, pageHistory
<1>4. ProofInv'  BY <1>1, <1>2, RowsRest, ProofRest DEF PageInv, grantState, pageHistory
<1> QED  BY <1>1, <1>3, <1>4 DEF PageInv

LEMMA MergedType ==
    ASSUME PageInv, NEW state \in RowStates, NEW digest \in Drafts
    PROVE  /\ Merged(state, digest) \in [id : 0..MaxDrafts, state : RowStates, digest : Drafts]
           /\ Merged(state, digest).id = view.staged.id
           /\ (view.staged.id = 0 => Merged(state, digest) = view.staged)
  BY DEF PageInv, PageTypes, ViewOK, ViewRecords, Merged

LEMMA MergedView ==
    ASSUME PageInv, NEW state \in RowStates, NEW digest \in Drafts
    PROVE  /\ ViewOK([view EXCEPT !.staged = Merged(state, digest)])
           /\ ViewOK([view EXCEPT !.confirm = FALSE, !.staged = Merged(state, digest)])
<1> DEFINE staged == Merged(state, digest)
<1>1. /\ staged \in [id : 0..MaxDrafts, state : RowStates, digest : Drafts]
      /\ staged.id = view.staged.id /\ (view.staged.id = 0 => staged = view.staged)
  BY MergedType
<1> HIDE DEF staged
<1>2. view \in ViewRecords /\ (view.staged.id = 0 => view.staged.state = "none" /\ view.staged.digest = NoEdits)
  BY DEF PageInv, PageTypes, ViewOK
<1>3. ViewOK([view EXCEPT !.staged = staged])  BY <1>1, <1>2 DEF ViewOK, ViewRecords
<1>4. ViewOK([view EXCEPT !.confirm = FALSE, !.staged = staged])  BY <1>1, <1>2 DEF ViewOK, ViewRecords
<1> QED  BY <1>3, <1>4 DEF staged

\* The fields of the page that an edit or a reading sets.
LEMMA ViewFields ==
    ASSUME PageInv, NEW asked \in 0..MaxUnlocks, NEW loading \in BOOLEAN
    PROVE  /\ ViewOK([view EXCEPT !.items = asked, !.loading = loading])
           /\ ViewOK([view EXCEPT !.unlocked = TRUE, !.items = asked, !.loading = loading])
<1>1. view \in ViewRecords /\ (view.staged.id = 0 => view.staged.state = "none" /\ view.staged.digest = NoEdits)
  BY DEF PageInv, PageTypes, ViewOK
<1> QED  BY <1>1 DEF ViewOK, ViewRecords

LEMMA ViewDraft ==
    ASSUME PageInv, NEW drawn \in Drafts, NEW id \in Changes
    PROVE  /\ ViewOK([view EXCEPT !.draft = drawn])
           /\ ViewOK([view EXCEPT !.draft = drawn, !.staged = [id |-> id, state |-> "DRAFT", digest |-> NoEdits]])
<1>1. view \in ViewRecords /\ (view.staged.id = 0 => view.staged.state = "none" /\ view.staged.digest = NoEdits)
  BY DEF PageInv, PageTypes, ViewOK
<1>2. NoEdits \in Drafts  BY NoEditsType
<1> DEFINE staged == [id |-> id, state |-> "DRAFT", digest |-> NoEdits]
<1>3. staged \in [id : 0..MaxDrafts, state : RowStates, digest : Drafts] /\ staged.id # 0
  BY <1>2, VariablesPageAssumption DEF RowStates, Changes
<1> HIDE DEF staged
<1>4. ViewOK([view EXCEPT !.draft = drawn])  BY <1>1 DEF ViewOK, ViewRecords
<1>5. ViewOK([view EXCEPT !.draft = drawn, !.staged = staged])  BY <1>1, <1>3 DEF ViewOK, ViewRecords
<1> QED  BY <1>4, <1>5 DEF staged

\* The page alone.
LEMMA ViewInv ==
    ASSUME PageInv, ClickApply \/ CancelApply \/ StreamEvent \/ DeadlineClears
    PROVE  PageInv'
<1>1. ViewOK(view) /\ view \in ViewRecords  BY DEF PageInv, PageTypes, ViewOK
<1>2. CASE ClickApply \/ CancelApply
  <2>1. view' \in {[view EXCEPT !.confirm = TRUE], [view EXCEPT !.confirm = FALSE]}
    BY <1>2 DEF ClickApply, CancelApply
  <2>2. ViewOK(view')  BY <1>1, <2>1, ZenonT(40) DEF ViewOK, ViewRecords
  <2> QED  BY <1>2, <2>2, ViewStep DEF ClickApply, CancelApply
<1>3. CASE StreamEvent
  <2>1. view.staged.id \in Changes  BY <1>1, <1>3 DEF StreamEvent, ViewRecords, Changes
  <2>2. change[view.staged.id].state \in RowStates /\ change[view.staged.id].digest \in Drafts
    BY <2>1 DEF PageInv, PageTypes
  <2>3. ViewOK(view')  BY <1>3, <2>2, MergedView DEF StreamEvent
  <2> QED  BY <1>3, <2>3, ViewStep DEF StreamEvent
<1>4. CASE DeadlineClears  BY <1>4, NoEditsType, ViewStep DEF DeadlineClears
<1> QED  BY <1>2, <1>3, <1>4

\* A request starts.
LEMMA SendsMoves ==
    ASSUME PageInv, NEW t \in PageCalls, NEW r, Sends(t, r)
    PROVE  Moves(t, r) /\ call[t] = Idle
  BY DEF Sends, Moves

LEMMA EditedType ==
    ASSUME PageInv, NEW n \in Names, NEW v \in Values
    PROVE  Edited(n, v) \in Drafts
<1>1. view.draft \in Drafts /\ NoEdits \in Drafts  BY NoEditsType DEF PageInv, PageTypes, ViewOK, ViewRecords
<1> QED  BY <1>1 DEF Edited, Drafts

LEMMA ClickInv ==
    ASSUME PageInv, NEW t \in PageCalls,
           \/ ClickRefresh(t) \/ ClickValidate(t) \/ ClickSave(t)
           \/ \E n \in Names, v \in Values : ClickStageNew(t, n, v) \/ ClickStageMore(t, n, v)
    PROVE  PageInv'
<1>1. /\ ViewOK(view) /\ view.draft \in Drafts /\ view.staged.id \in 0..MaxDrafts /\ view.staged.digest \in Drafts
      /\ NoEdits \in Drafts /\ MaxDrafts \in Nat /\ 0 \in 0..MaxUnlocks
      /\ (view.staged.id = 0 => view.staged.state = "none" /\ view.staged.digest = NoEdits)
  <2>1. ViewOK(view) /\ NoEdits \in Drafts  BY NoEditsType DEF PageInv, PageTypes
  <2> QED  BY <2>1, VariablesPageAssumption DEF ViewOK, ViewRecords
<1>2. view.staged.id \in Nat /\ (view.staged.id # 0 => view.staged.id \in Changes)  BY <1>1 DEF Changes
<1> DEFINE LeavesGrants == \E r : /\ CallOK(r) /\ Moves(t, r) /\ r.req \notin {"unlock", "lock", "authorize", "apply"}
                           /\ ViewOK(view') /\ UNCHANGED <<grantState, changeState, pageHistory>>
<1>3. ASSUME LeavesGrants PROVE PageInv'
  <2>1. PICK r : /\ CallOK(r) /\ Moves(t, r) /\ r.req \notin {"unlock", "lock", "authorize", "apply"}
                 /\ ViewOK(view') /\ UNCHANGED <<grantState, changeState, pageHistory>>
    BY <1>3
  <2>2. RowsOK(change', agentHas') /\ RunsStay  BY <2>1, RowsRest
  <2>3. KeepsUnlock(call[t], r) /\ KeepsProof(call[t], r)  BY <2>1 DEF KeepsUnlock, KeepsProof
  <2>4. UNCHANGED <<unlocks, proofs, authorized, bound, pageHistory>>  BY <2>1 DEF grantState
  <2> QED  BY <2>1, <2>2, <2>3, <2>4, QuietStep
<1>4. ASSUME ClickRefresh(t) PROVE LeavesGrants
  <2>1. Fresh(PageRequest("inventory"), "inventory", 0)  BY <1>1, Formed DEF RowRequests
  <2>2. ViewOK([view EXCEPT !.items = 0, !.loading = TRUE])  BY <1>1 DEF ViewOK, ViewRecords
  <2> QED  BY <1>4, <2>1, <2>2, SendsMoves DEF ClickRefresh, Fresh
<1>5. ASSUME NEW n \in Names, NEW v \in Values, ClickStageNew(t, n, v) PROVE LeavesGrants
  <2> DEFINE r == [PageRequest("create") EXCEPT !.id = view.staged.id, !.items = Edited(n, v)]
  <2>1. Edited(n, v) \in Drafts  BY EditedType
  <2>2. view.staged.id <= MaxDrafts /\ "create" \notin RowRequests  BY <1>1, <1>2 DEF RowRequests
  <2>3. Fresh(r, "create", view.staged.id)  BY <1>1, <1>2, <2>1, <2>2, Formed
  <2> HIDE DEF r
  <2>4. Sends(t, r) /\ UNCHANGED <<view, grantState, changeState, pageHistory>>  BY <1>5 DEF ClickStageNew, r
  <2> QED  BY <1>1, <2>3, <2>4, SendsMoves DEF Fresh
<1>6. ASSUME NEW n \in Names, NEW v \in Values, ClickStageMore(t, n, v) PROVE LeavesGrants
  <2> DEFINE r == [PageRequest("items") EXCEPT !.id = view.staged.id, !.items = Edited(n, v)]
  <2>1. Edited(n, v) \in Drafts  BY EditedType
  <2>2. view.staged.id \in Changes  BY <1>1, <1>2, <1>6 DEF ClickStageMore
  <2>3. Fresh(r, "items", view.staged.id)  BY <1>1, <1>2, <2>1, <2>2, Formed DEF RowRequests
  <2> HIDE DEF r
  <2>4. Sends(t, r) /\ view' = [view EXCEPT !.draft = Edited(n, v)] /\ UNCHANGED <<grantState, changeState, pageHistory>>
    BY <1>6 DEF ClickStageMore, r
  <2>5. ViewOK(view')  BY <2>1, <2>2, <2>4, ViewDraft
  <2> QED  BY <2>3, <2>4, <2>5, SendsMoves DEF Fresh
<1>7. ASSUME ClickValidate(t) PROVE LeavesGrants
  <2> DEFINE r == [PageRequest("validate") EXCEPT !.id = view.staged.id, !.items = view.draft]
  <2>1. view.staged.id \in Changes  BY <1>1, <1>2, <1>7 DEF ClickValidate, ValidateOffered
  <2>2. Fresh(r, "validate", view.staged.id)  BY <1>1, <1>2, <2>1, Formed DEF RowRequests
  <2> HIDE DEF r
  <2>3. Sends(t, r) /\ UNCHANGED <<view, grantState, changeState, pageHistory>>  BY <1>7 DEF ClickValidate, r
  <2> QED  BY <1>1, <2>2, <2>3, SendsMoves DEF Fresh
<1>8. ASSUME ClickSave(t) PROVE LeavesGrants
  <2> DEFINE r == [PageRequest("save") EXCEPT !.id = view.staged.id, !.digest = view.staged.digest]
  <2>1. view.staged.id \in Changes  BY <1>1, <1>2, <1>8 DEF ClickSave, SaveOffered
  <2>2. Fresh(r, "save", view.staged.id)  BY <1>1, <1>2, <2>1, Formed DEF RowRequests
  <2> HIDE DEF r
  <2>3. Sends(t, r) /\ UNCHANGED <<view, grantState, changeState, pageHistory>>  BY <1>8 DEF ClickSave, r
  <2> QED  BY <1>1, <2>2, <2>3, SendsMoves DEF Fresh
<1> HIDE DEF LeavesGrants
<1> QED  BY <1>3, <1>4, <1>5, <1>6, <1>7, <1>8

\* A request moves, and the grants stay.
LeavesGrants(t) == \E r : CallOK(r) /\ Moves(t, r) /\ KeepsUnlock(call[t], r) /\ KeepsProof(call[t], r)

LEMMA QuietInv ==
    ASSUME PageInv, NEW t \in PageCalls, LeavesGrants(t), ViewOK(view'),
           UNCHANGED <<unlocks, proofs, authorized, pageHistory>>, bound' \in {bound, 0},
           RowsOK(change', agentHas'), RunsStay
    PROVE  PageInv'
<1>1. PICK r : CallOK(r) /\ Moves(t, r) /\ KeepsUnlock(call[t], r) /\ KeepsProof(call[t], r)  BY DEF LeavesGrants
<1> QED  BY <1>1, QuietStep

LEMMA PageCall ==
    ASSUME PageInv, NEW t \in PageCalls
    PROVE  CallOK(call[t]) /\ call[t] \in CallRecords /\ ViewOK(view)
  BY DEF PageInv, PageTypes

LEMMA QuietOther ==
    ASSUME NEW t \in PageCalls, NEW r, CallOK(r), Moves(t, r), r.req \notin {"unlock", "lock", "authorize", "apply"}
    PROVE  LeavesGrants(t)
  BY DEF LeavesGrants, KeepsUnlock, KeepsProof

LEMMA QuietReplies ==
    ASSUME PageInv, NEW t \in PageCalls
    PROVE  /\ Moves(t, Idle) => LeavesGrants(t)
           /\ Denies(t) => LeavesGrants(t)
           /\ Accepts(t) /\ call[t].req \notin {"unlock", "lock", "create"} => LeavesGrants(t)
<1>1. ASSUME Moves(t, Idle) PROVE LeavesGrants(t)
  <2>1. CallOK(Idle) /\ Idle.req = "idle"  BY NoEditsType DEF Idle
  <2> QED  BY <1>1, <2>1, QuietOther
<1>2. CallOK(call[t])  BY PageCall
<1>3. ASSUME call[t].req \in {"unlock", "inventory"}, Moves(t, [call[t] EXCEPT !.answer = "err"]) PROVE LeavesGrants(t)
  <2> DEFINE r == [call[t] EXCEPT !.answer = "err"]
  <2>1. CallOK(r) /\ r.req = call[t].req /\ r.at = call[t].at /\ r.gone = call[t].gone /\ r.id = call[t].id
        /\ r.grant = call[t].grant /\ r.answer = "err"
    BY <1>2, OneAnswer
  <2> HIDE DEF r
  <2>2. KeepsUnlock(call[t], r) /\ KeepsProof(call[t], r)  BY <1>3, <2>1 DEF KeepsUnlock, KeepsProof
  <2>3. Moves(t, r)  BY <1>3 DEF r
  <2> QED  BY <2>1, <2>2, <2>3 DEF LeavesGrants
<1>4. ASSUME call[t].req \notin {"unlock", "lock", "create"}, Moves(t, [call[t] EXCEPT !.answer = "ok"]) PROVE LeavesGrants(t)
  <2> DEFINE r == [call[t] EXCEPT !.answer = "ok"]
  <2>1. CallOK(r) /\ r.req = call[t].req /\ r.at = call[t].at /\ r.id = call[t].id /\ r.digest = call[t].digest
        /\ r.grant = call[t].grant /\ r.answer = "ok"
    BY <1>2, <1>4, OneAnswer
  <2> HIDE DEF r
  <2>2. KeepsUnlock(call[t], r) /\ KeepsProof(call[t], r)  BY <1>4, <2>1 DEF KeepsUnlock, KeepsProof
  <2>3. Moves(t, r)  BY <1>4 DEF r
  <2> QED  BY <2>1, <2>2, <2>3 DEF LeavesGrants
<1>5. PageTypes  BY DEF PageInv
<1> QED  BY <1>1, <1>3, <1>4, <1>5, AnswerKinds

\* How the place of a request and what it was granted change.
Granted(c, at, grant) == [c EXCEPT !.at = at, !.grant = grant]
Placed(c, at) == [c EXCEPT !.at = at]
Digested(c, at, digest) == [c EXCEPT !.at = at, !.digest = digest]

LEMMA GrantedType ==
    ASSUME NEW c, CallOK(c), NEW at \in 0..2, NEW grant \in Nat,
           c.req = "inventory" => grant \in 0..MaxUnlocks, c.answer = "none"
    PROVE  LET r == Granted(c, at, grant)
           IN  /\ CallOK(r) /\ r.req = c.req /\ r.id = c.id /\ r.digest = c.digest /\ r.gone = c.gone
               /\ r.answer = "none" /\ r.at = at /\ r.grant = grant
<1> DEFINE r == Granted(c, at, grant)
<1>1. /\ r \in CallRecords /\ r.req = c.req /\ r.id = c.id /\ r.digest = c.digest /\ r.gone = c.gone
      /\ r.answer = "none" /\ r.at = at /\ r.grant = grant
  BY DEF CallOK, CallRecords, Granted
<1> HIDE DEF r
<1>2. CallOK(r)  BY <1>1 DEF CallOK
<1> QED  BY <1>1, <1>2 DEF r

LEMMA PlacedType ==
    ASSUME NEW c, CallOK(c), NEW at \in 0..2, c.answer = "none"
    PROVE  LET r == Placed(c, at)
           IN  /\ CallOK(r) /\ r.req = c.req /\ r.id = c.id /\ r.digest = c.digest /\ r.gone = c.gone
               /\ r.answer = "none" /\ r.at = at /\ r.grant = c.grant
<1> DEFINE r == Placed(c, at)
<1>1. /\ r \in CallRecords /\ r.req = c.req /\ r.id = c.id /\ r.digest = c.digest /\ r.gone = c.gone
      /\ r.answer = "none" /\ r.at = at /\ r.grant = c.grant
  BY DEF CallOK, CallRecords, Placed
<1> HIDE DEF r
<1>2. CallOK(r)  BY <1>1 DEF CallOK
<1> QED  BY <1>1, <1>2 DEF r

LEMMA DigestedType ==
    ASSUME NEW c, CallOK(c), NEW at \in 0..2, NEW digest \in Drafts, c.answer = "none"
    PROVE  CallOK(Digested(c, at, digest)) /\ Digested(c, at, digest).req = c.req
<1> DEFINE r == Digested(c, at, digest)
<1>1. r \in CallRecords /\ r.req = c.req /\ r.id = c.id /\ r.answer = "none" /\ r.grant = c.grant
  BY DEF CallOK, CallRecords, Digested
<1> HIDE DEF r
<1>2. CallOK(r)  BY <1>1 DEF CallOK
<1> QED  BY <1>1, <1>2 DEF r

\* How a row changes.
LEMMA RowChanges ==
    ASSUME PageInv, NEW c \in Changes, NEW state \in RowStates, NEW digest \in Drafts, UNCHANGED agentHas,
           change[c].state \notin {"APPLYING"} \cup Final \/ state \in Final
    PROVE  /\ change' = [change EXCEPT ![c].state = state] => RowsOK(change', agentHas') /\ RunsStay
           /\ change' = [change EXCEPT ![c] = [state |-> state, digest |-> digest]]
              /\ change[c].state \notin {"APPLYING"} \cup Final => RowsOK(change', agentHas') /\ RunsStay
<1>1. /\ change \in [Changes -> [state : RowStates, digest : Drafts]]
      /\ agentHas \in [Changes -> [draft : Drafts, envelope : Drafts]]
  BY DEF PageInv, PageTypes
<1>2. ASSUME change' = [change EXCEPT ![c].state = state] PROVE RowsOK(change', agentHas') /\ RunsStay
  <2>1. /\ change' \in [Changes -> [state : RowStates, digest : Drafts]]
        /\ change'[c].state = state /\ change'[c].digest = change[c].digest
        /\ \A e \in Changes : e # c => change'[e] = change[e]
    BY <1>1, <1>2
  <2> QED  BY <1>1, <2>1 DEF RowsOK, RunsStay
<1>3. ASSUME change' = [change EXCEPT ![c] = [state |-> state, digest |-> digest]],
             change[c].state \notin {"APPLYING"} \cup Final
      PROVE  RowsOK(change', agentHas') /\ RunsStay
  <2>1. /\ change' \in [Changes -> [state : RowStates, digest : Drafts]]
        /\ \A e \in Changes : e # c => change'[e] = change[e]
    BY <1>1, <1>3
  <2> QED  BY <1>1, <1>3, <2>1 DEF RowsOK, RunsStay
<1> QED  BY <1>2, <1>3

\* An answer that goes into the page, and what the page then asks.
LEMMA AnsweredInv ==
    ASSUME PageInv, NEW t \in PageCalls,
           \/ InventoryAnswered(t) \/ CreateAnswered(t) \/ ItemsAnswered(t) \/ SaveAnswered(t) \/ ApplyAnswered(t)
           \/ StatusAnswered(t) \/ PageFails(t) \/ AnswerLost(t)
    PROVE  PageInv'
<1>1. CallOK(call[t]) /\ call[t] \in CallRecords /\ ViewOK(view)  BY PageCall
<1>2. /\ call[t].id \in Nat /\ call[t].items \in Drafts /\ call[t].digest \in Drafts /\ call[t].state \in RowStates
      /\ call[t].gone \in BOOLEAN
  BY <1>1 DEF CallRecords
<1>3. view.staged.digest \in Drafts /\ ViewOK(Cleared)  BY <1>1, NoEditsType DEF ViewOK, ViewRecords
<1>4. SUFFICES LeavesGrants(t) /\ ViewOK(view') /\ UNCHANGED <<grantState, changeState, pageHistory>>
  BY <1>4, RowsRest, QuietInv DEF grantState
<1>5. Moves(t, Idle) => LeavesGrants(t)  BY QuietReplies
<1>6. CASE InventoryAnswered(t)
  <2>1. call[t].grant \in 0..MaxUnlocks  BY <1>1, <1>6 DEF InventoryAnswered, Answered, CallOK
  <2>2. ViewOK([view EXCEPT !.items = call[t].grant, !.loading = FALSE])  BY <1>1, <2>1 DEF ViewOK, ViewRecords
  <2> QED  BY <1>5, <1>6, <2>2 DEF InventoryAnswered, GoesOn, Moves
<1>7. CASE CreateAnswered(t)
  <2>1. call[t].id \in Changes  BY <1>1, <1>7 DEF CreateAnswered, Answered, CallOK, Changes
  <2> DEFINE r == [PageRequest("items") EXCEPT !.id = call[t].id, !.items = call[t].items]
  <2>2. Fresh(r, "items", call[t].id)  BY <1>2, <2>1, Formed DEF RowRequests
  <2> HIDE DEF r
  <2>3. Moves(t, r)  BY <1>7 DEF CreateAnswered, GoesOn, Moves, r
  <2>4. LeavesGrants(t)  BY <2>2, <2>3, QuietOther DEF Fresh
  <2>5. view' = [view EXCEPT !.draft = call[t].items, !.staged = [id |-> call[t].id, state |-> "DRAFT", digest |-> NoEdits]]
    BY <1>7 DEF CreateAnswered
  <2>6. ViewOK(view')  BY <1>2, <1>3, <1>1, <2>1, <2>5, ViewDraft
  <2> QED  BY <1>7, <2>4, <2>6 DEF CreateAnswered
<1>8. CASE ItemsAnswered(t)
  <2>1. ViewOK([view EXCEPT !.staged = Merged("READY", call[t].digest)])  BY <1>2, MergedView DEF RowStates
  <2> QED  BY <1>5, <1>8, <2>1 DEF ItemsAnswered, GoesOn, Moves
<1>9. CASE SaveAnswered(t)
  <2>1. ViewOK([view EXCEPT !.staged = Merged("SAVED", view.staged.digest)])  BY <1>3, MergedView DEF RowStates
  <2> QED  BY <1>5, <1>9, <2>1 DEF SaveAnswered, GoesOn, Moves
<1>10. CASE ApplyAnswered(t)
  <2>1. call[t].id \in Changes  BY <1>1, <1>10 DEF ApplyAnswered, Answered, CallOK, RowRequests
  <2> DEFINE r == [PageRequest("status") EXCEPT !.id = call[t].id]
  <2>2. Fresh(r, "status", call[t].id)  BY <1>2, <2>1, Formed DEF RowRequests
  <2> HIDE DEF r
  <2>3. Moves(t, r)  BY <1>10 DEF ApplyAnswered, GoesOn, Moves, r
  <2>4. LeavesGrants(t)  BY <2>2, <2>3, QuietOther DEF Fresh
  <2>5. ViewOK([view EXCEPT !.confirm = FALSE, !.staged = Merged("APPLYING", view.staged.digest)])
    BY <1>3, MergedView DEF RowStates
  <2> QED  BY <1>10, <2>4, <2>5 DEF ApplyAnswered
<1>11. CASE StatusAnswered(t)
  <2>1. ViewOK([view EXCEPT !.staged = Merged(call[t].state, call[t].digest)])  BY <1>2, MergedView
  <2> QED  BY <1>5, <1>11, <2>1 DEF StatusAnswered, GoesOn, Moves
<1>12. CASE PageFails(t)  BY <1>1, <1>3, <1>5, <1>12 DEF PageFails, GoesOn, Moves, AfterError
<1>13. CASE AnswerLost(t)
  <2> DEFINE r == [call[t] EXCEPT !.gone = TRUE]
  <2>1. /\ r \in CallRecords /\ r.req = call[t].req /\ r.id = call[t].id /\ r.digest = call[t].digest
        /\ r.at = call[t].at /\ r.grant = call[t].grant /\ r.gone = TRUE /\ r.answer = call[t].answer
    BY <1>1 DEF CallRecords
  <2> HIDE DEF r
  <2>2. CallOK(r)  BY <1>1, <2>1 DEF CallOK
  <2>3. KeepsUnlock(call[t], r) /\ KeepsProof(call[t], r)  BY <2>1 DEF KeepsUnlock, KeepsProof
  <2>4. Moves(t, r)  BY <1>13 DEF AnswerLost, GoesOn, Moves, r
  <2>5. LeavesGrants(t)  BY <2>2, <2>3, <2>4 DEF LeavesGrants
  <2> QED  BY <1>1, <1>3, <1>13, <2>5 DEF AnswerLost, AfterError
<1> QED  BY <1>6, <1>7, <1>8, <1>9, <1>10, <1>11, <1>12, <1>13

\* A route that leaves the grants, or forgets a dead unlock.
LEMMA ServedInv ==
    ASSUME PageInv, NEW t \in PageCalls,
           \/ ValuesRouteRefuses(t) \/ ChangeRouteRefuses(t) \/ InventoryLooks(t) \/ InventoryReads(t) \/ StatusReads(t)
    PROVE  PageInv'
<1>1. CallOK(call[t]) /\ call[t] \in CallRecords /\ ViewOK(view) /\ bound \in 0..MaxUnlocks
  BY PageCall DEF PageInv, PageTypes
<1>2. ASSUME LeavesGrants(t), UNCHANGED <<view, unlocks, proofs, authorized, changeState, pageHistory>>, bound' \in {bound, 0}
      PROVE  PageInv'
  BY <1>1, <1>2, RowsRest, QuietInv
<1>3. Denies(t) => LeavesGrants(t)  BY QuietReplies
<1>4. CASE ValuesRouteRefuses(t) \/ ChangeRouteRefuses(t)
  BY <1>2, <1>3, <1>4 DEF ValuesRouteRefuses, ChangeRouteRefuses, Refuses, grantState
<1>5. CASE InventoryLooks(t)
  <2>1. ASSUME bound # 0 PROVE LeavesGrants(t)
    <3> DEFINE r == Granted(call[t], 1, bound)
    <3>1. call[t].req = "inventory" /\ call[t].answer = "none" /\ bound \in Nat /\ bound \in 0..MaxUnlocks
      BY <1>1, <1>5, VariablesPageAssumption DEF InventoryLooks, Serves
    <3>2. 1 \in 0..2  OBVIOUS
    <3> HIDE DEF r
    <3>3. CallOK(r) /\ r.req = "inventory"  BY <1>1, <3>1, <3>2, GrantedType DEF r
    <3>4. Moves(t, r)  BY <1>5, <2>1 DEF InventoryLooks, Awaits, Moves, r, Granted
    <3> QED  BY <3>3, <3>4, QuietOther
  <2> QED  BY <1>2, <1>3, <1>5, <2>1 DEF InventoryLooks, grantState
<1>6. CASE InventoryReads(t)
  <2>1. Accepts(t) => LeavesGrants(t)  BY <1>6, QuietReplies DEF InventoryReads, Serves
  <2> QED  BY <1>2, <1>3, <1>6, <2>1 DEF InventoryReads
<1>7. CASE StatusReads(t)
  <2>1. call[t].req = "status" /\ call[t].id \in Changes /\ call[t].answer = "none"
    BY <1>1, <1>7 DEF StatusReads, Serves, CallOK, RowRequests
  <2>2. change[call[t].id].state \in RowStates /\ change[call[t].id].digest \in Drafts  BY <2>1 DEF PageInv, PageTypes
  <2> DEFINE r == [call[t] EXCEPT !.answer = "ok", !.state = change[call[t].id].state, !.digest = change[call[t].id].digest]
  <2>3. r \in CallRecords /\ r.req = call[t].req /\ r.id = call[t].id  BY <1>1, <2>2 DEF CallRecords
  <2> HIDE DEF r
  <2>4. CallOK(r)  BY <2>1, <2>3 DEF CallOK
  <2>5. Moves(t, Idle) \/ Moves(t, r)  BY <1>7 DEF StatusReads, Replies, Moves, r
  <2>6. LeavesGrants(t)  BY <2>1, <2>3, <2>4, <2>5, QuietOther, QuietReplies
  <2> QED  BY <1>2, <1>7, <2>6 DEF StatusReads, grantState
<1> QED  BY <1>4, <1>5, <1>6, <1>7

\* A route that works on a row.
LEMMA RowInv ==
    ASSUME PageInv, NEW t \in PageCalls,
           CreateChange(t) \/ ValidateAtAgent(t) \/ UpdateValidation(t) \/ SaveAtAgent(t) \/ MarkSaved(t)
    PROVE  PageInv'
<1>1. CallOK(call[t]) /\ call[t] \in CallRecords /\ ViewOK(view)  BY PageCall
<1>2. ASSUME LeavesGrants(t), UNCHANGED <<view, grantState, pageHistory>>, RowsOK(change', agentHas'), RunsStay
      PROVE  PageInv'
  BY <1>1, <1>2, QuietInv DEF grantState
<1>3. Denies(t) => LeavesGrants(t)  BY QuietReplies
<1>4. call[t].items \in Drafts /\ call[t].digest \in Drafts /\ NoEdits \in Drafts /\ call[t].id \in Nat /\ call[t].grant \in Nat
  BY <1>1, NoEditsType DEF CallRecords
<1>5. CASE CreateChange(t)
  <2>1. call[t].req = "create"  BY <1>5 DEF CreateChange, Serves
  <2>2. CASE call[t].id # 0 /\ ~Supersedable(call[t].id)
    <3>1. UNCHANGED changeState /\ LeavesGrants(t)  BY <1>3, <1>5, <2>2 DEF CreateChange, changeState
    <3> QED  BY <1>2, <1>5, <3>1, RowsRest DEF CreateChange
  <2>3. CASE ~(call[t].id # 0 /\ ~Supersedable(call[t].id))
    <3>1. PICK new \in Changes : /\ NextChange(new) /\ change' = [change EXCEPT ![new].state = "DRAFT"]
                                 /\ Replies(t, [call[t] EXCEPT !.answer = "ok", !.id = new])
      BY <1>5, <2>3 DEF CreateChange
    <3> DEFINE r == [call[t] EXCEPT !.answer = "ok", !.id = new]
    <3>2. new \in Nat /\ new # 0 /\ new \in 0..MaxDrafts  BY VariablesPageAssumption DEF Changes
    <3>3. r \in CallRecords /\ r.req = call[t].req /\ r.id = new  BY <1>1, <3>2 DEF CallRecords
    <3> HIDE DEF r
    <3>4. CallOK(r)  BY <2>1, <3>2, <3>3 DEF CallOK, RowRequests
    <3>5. Moves(t, Idle) \/ Moves(t, r)  BY <3>1 DEF Replies, Moves, r
    <3>6. LeavesGrants(t)  BY <2>1, <3>3, <3>4, <3>5, QuietOther, QuietReplies
    <3>7. change[new].state \notin {"APPLYING"} \cup Final /\ "DRAFT" \in RowStates
      BY <3>1 DEF NextChange, RowStates, Final
    <3>8. RowsOK(change', agentHas') /\ RunsStay  BY <1>4, <1>5, <3>1, <3>7, RowChanges DEF CreateChange
    <3> QED  BY <1>2, <1>5, <3>6, <3>8 DEF CreateChange
  <2> QED  BY <2>2, <2>3
<1>6. CASE ValidateAtAgent(t)
  <2>1. call[t].req \in {"items", "validate"} /\ call[t].id \in Changes /\ call[t].answer = "none"
    BY <1>1, <1>6 DEF ValidateAtAgent, Serves, CallOK, RowRequests
  <2> DEFINE r == Digested(call[t], 1, call[t].items)
  <2> HIDE DEF r
  <2>2. CallOK(r) /\ r.req = call[t].req  BY <1>1, <1>4, <2>1, DigestedType DEF r
  <2>3. Moves(t, r)  BY <1>6 DEF ValidateAtAgent, Awaits, Moves, r, Digested
  <2>4. LeavesGrants(t)  BY <2>1, <2>2, <2>3, QuietOther
  <2>5. RowsOK(change', agentHas') /\ RunsStay
    BY <1>4, <1>6, <2>1 DEF ValidateAtAgent, PageInv, PageTypes, RowsOK, RunsStay
  <2> QED  BY <1>2, <1>6, <2>4, <2>5 DEF ValidateAtAgent
<1>7. CASE UpdateValidation(t)
  <2>1. call[t].req \in {"items", "validate"} /\ call[t].id \in Changes
    BY <1>1, <1>7 DEF UpdateValidation, Serves, CallOK, RowRequests
  <2>2. LeavesGrants(t)  BY <1>3, <1>7, <2>1, QuietReplies DEF UpdateValidation
  <2>3. CASE change[call[t].id].state \in {"DRAFT", "INVALID"}
    <3>1. change[call[t].id].state \notin {"APPLYING"} \cup Final /\ "READY" \in RowStates
      BY <2>3 DEF RowStates, Final
    <3>2. RowsOK(change', agentHas') /\ RunsStay  BY <1>4, <1>7, <2>1, <2>3, <3>1, RowChanges DEF UpdateValidation
    <3> QED  BY <1>2, <1>7, <2>2, <3>2 DEF UpdateValidation
  <2>4. CASE change[call[t].id].state \notin {"DRAFT", "INVALID"}
    <3>1. UNCHANGED changeState  BY <1>7, <2>4 DEF UpdateValidation, changeState
    <3> QED  BY <1>2, <1>7, <2>2, <3>1, RowsRest DEF UpdateValidation
  <2> QED  BY <2>3, <2>4
<1>8. CASE SaveAtAgent(t)
  <2>1. call[t].req = "save" /\ call[t].id \in Changes /\ call[t].answer = "none"
    BY <1>1, <1>8 DEF SaveAtAgent, Serves, CallOK, RowRequests
  <2> DEFINE c == call[t].id
  <2> DEFINE r == Placed(call[t], 1)
  <2> HIDE DEF r
  <2>2. CallOK(r) /\ r.req = "save"  BY <1>1, <1>4, <2>1, PlacedType DEF r
  <2>3. Moves(t, r) => LeavesGrants(t)  BY <2>2, QuietOther
  <2>4. LeavesGrants(t)  BY <1>3, <1>8, <2>3 DEF SaveAtAgent, Awaits, Moves, r, Placed
  <2>5. agentHas' = agentHas \/ agentHas' = [agentHas EXCEPT ![c] = [draft |-> NoEdits, envelope |-> agentHas[c].draft]]
    BY <1>8 DEF SaveAtAgent
  <2>6. agentHas[c].draft \in Drafts /\ agentHas \in [Changes -> [draft : Drafts, envelope : Drafts]]
    BY <2>1 DEF PageInv, PageTypes
  <2>7. agentHas' \in [Changes -> [draft : Drafts, envelope : Drafts]]  BY <1>4, <2>1, <2>5, <2>6
  <2>8. RowsOK(change', agentHas') /\ RunsStay  BY <1>8, <2>7 DEF SaveAtAgent, PageInv, PageTypes, RowsOK, RunsStay
  <2> QED  BY <1>2, <1>8, <2>4, <2>8 DEF SaveAtAgent
<1>9. CASE MarkSaved(t)
  <2>1. call[t].req = "save" /\ call[t].id \in Changes  BY <1>1, <1>9 DEF MarkSaved, Serves, CallOK, RowRequests
  <2>2. LeavesGrants(t)  BY <1>3, <1>9, <2>1, QuietReplies DEF MarkSaved
  <2>3. CASE change[call[t].id] = [state |-> "READY", digest |-> call[t].digest]
    <3>1. change[call[t].id].state \notin {"APPLYING"} \cup Final /\ "SAVED" \in RowStates
      BY <2>3 DEF RowStates, Final
    <3>2. RowsOK(change', agentHas') /\ RunsStay  BY <1>4, <1>9, <2>1, <2>3, <3>1, RowChanges DEF MarkSaved
    <3> QED  BY <1>2, <1>9, <2>2, <3>2 DEF MarkSaved
  <2>4. CASE change[call[t].id] # [state |-> "READY", digest |-> call[t].digest]
    <3>1. UNCHANGED changeState  BY <1>9, <2>4 DEF MarkSaved, changeState
    <3> QED  BY <1>2, <1>9, <2>2, <3>1, RowsRest DEF MarkSaved
  <2> QED  BY <2>3, <2>4
<1> QED  BY <1>5, <1>6, <1>7, <1>8, <1>9

\* The steps that touch the unlocks leave the proofs as they are.
LEMMA UnlockFrame ==
    ASSUME PageInv, NEW t \in PageCalls, NEW r, CallOK(r), Moves(t, r), KeepsProof(call[t], r), ViewOK(view'),
           UNCHANGED <<proofs, authorized, changeState, confirmed, launched>>,
           unlocks' \in [1..MaxUnlocks -> {"none", "live", "dead"}], bound' \in 0..MaxUnlocks,
           opened' \subseteq 1..MaxUnlocks
    PROVE  /\ PageTypes' /\ ProofInv' /\ call'[t] = r /\ \A u \in PageCalls : u # t => call'[u] = call[u]
<1>1. /\ call' \in [PageCalls -> CallRecords] /\ \A u \in PageCalls : CallOK(call'[u])
      /\ call'[t] = r /\ \A u \in PageCalls : u # t => call'[u] = call[u]
  BY MovesTo DEF PageInv
<1>2. (\A u \in PageCalls : CallOK(call[u]))' /\ ViewOK(view)'  BY <1>1
<1>3. PageTypes'  BY <1>1, <1>2 DEF PageInv, PageTypes, changeState
<1>4. \A u \in PageCalls : SameProof(u)  BY MovesKeep DEF PageInv
<1>5. ProofInv'  BY <1>3, <1>4, RowsRest, ProofRest DEF PageInv
<1> QED  BY <1>1, <1>3, <1>5

LEMMA ClickUnlockInv ==
    ASSUME PageInv, NEW t \in PageCalls, ClickUnlock(t)
    PROVE  PageInv'
<1> DEFINE r == PageRequest("unlock")
<1>1. Fresh(r, "unlock", 0)  BY NoEditsType, VariablesPageAssumption, Formed DEF RowRequests
<1>2. Moves(t, r) /\ view' = Cleared /\ UNCHANGED <<grantState, changeState, pageHistory>> /\ UnlockOffered
  BY SendsMoves DEF ClickUnlock
<1> HIDE DEF r
<1>3. /\ PageTypes' /\ ProofInv' /\ call'[t] = r /\ \A u \in PageCalls : u # t => call'[u] = call[u]
  <2>1. ViewOK(view') /\ KeepsProof(call[t], r) /\ CallOK(r)  BY <1>1, <1>2, NoEditsType DEF KeepsProof, Fresh
  <2> QED  BY <1>2, <2>1, UnlockFrame DEF grantState, pageHistory, PageInv, PageTypes
<1>4. UNCHANGED <<unlocks, bound, opened, closed>> /\ r.req = "unlock" /\ r.at = 0
  BY <1>1, <1>2 DEF grantState, pageHistory, Fresh
<1>5. \A u \in PageCalls : u # t /\ call'[u].req = "unlock" => call'[u].gone  BY <1>2, <1>3 DEF UnlockOffered
<1>6. \A u \in PageCalls : call[u].gone \in BOOLEAN  BY PageCall DEF CallRecords
<1>7. UnlockInv'  BY <1>3, <1>4, <1>5, <1>6 DEF PageInv, UnlockInv, Unlocking, Pending, Looked, Granting
<1> QED  BY <1>3, <1>7 DEF PageInv

LEMMA ClickLockInv ==
    ASSUME PageInv, NEW t \in PageCalls, ClickLock(t)
    PROVE  PageInv'
<1>1. PICK newest \in opened : Sends(t, [PageRequest("lock") EXCEPT !.id = newest])  BY DEF ClickLock
<1> DEFINE r == [PageRequest("lock") EXCEPT !.id = newest]
<1>2. Fresh(r, "lock", newest)
  <2>1. newest \in Nat /\ NoEdits \in Drafts /\ "lock" \notin RowRequests
    BY NoEditsType DEF PageInv, PageTypes, RowRequests
  <2> QED  BY <2>1, Formed
<1>3. Moves(t, r) /\ view' = Cleared /\ UNCHANGED <<grantState, changeState, pageHistory>>
  BY <1>1, SendsMoves DEF ClickLock
<1> HIDE DEF r
<1>4. /\ PageTypes' /\ ProofInv' /\ call'[t] = r /\ \A u \in PageCalls : u # t => call'[u] = call[u]
  <2>1. ViewOK(view') /\ KeepsProof(call[t], r) /\ CallOK(r)  BY <1>2, <1>3, NoEditsType DEF KeepsProof, Fresh
  <2> QED  BY <1>3, <2>1, UnlockFrame DEF grantState, pageHistory, PageInv, PageTypes
<1>5. UNCHANGED <<unlocks, bound, opened, closed>> /\ r.req = "lock" /\ r.at = 0 /\ r.answer = "none" /\ r.id = newest
  BY <1>2, <1>3 DEF grantState, pageHistory, Fresh
<1>6. UnlockInv'  BY <1>4, <1>5 DEF PageInv, UnlockInv, Unlocking, Pending, Looked, Granting
<1> QED  BY <1>4, <1>6 DEF PageInv

LEMMA UnlockAnsweredInv ==
    ASSUME PageInv, NEW t \in PageCalls, UnlockAnswered(t)
    PROVE  PageInv'
<1>1. /\ CallOK(call[t]) /\ ViewOK(view) /\ call[t].req = "unlock" /\ call[t].answer = "ok" /\ ~call[t].gone
      /\ UNCHANGED <<grantState, changeState, confirmed, launched, closed>>
  BY PageCall DEF UnlockAnswered, Answered
<1>2. Unlocking(call[t]) /\ Pending(call[t])  BY <1>1 DEF CallOK, Unlocking, PageInv, UnlockInv
<1>3. CASE /\ GoesOn(t, PageRequest("inventory"))
           /\ view' = [view EXCEPT !.unlocked = TRUE, !.items = 0, !.loading = TRUE]
           /\ opened' = opened \cup {call[t].grant}
  <2> DEFINE r == PageRequest("inventory")
  <2> DEFINE g == call[t].grant
  <2>1. Fresh(r, "inventory", 0)  BY NoEditsType, VariablesPageAssumption, Formed DEF RowRequests
  <2>2. Moves(t, r) /\ 0 \in 0..MaxUnlocks  BY <1>3, VariablesPageAssumption DEF GoesOn, Moves
  <2> HIDE DEF r
  <2>3. g \in 1..MaxUnlocks /\ unlocks[g] # "none" /\ \A h \in opened : h < g  BY <1>1, <1>2 DEF Pending
  <2>4. /\ PageTypes' /\ ProofInv' /\ call'[t] = r /\ \A u \in PageCalls : u # t => call'[u] = call[u]
    <3>1. ViewOK(view')  BY <1>3, <2>2, ViewFields
    <3>2. KeepsProof(call[t], r) /\ CallOK(r)  BY <2>1 DEF KeepsProof, Fresh
    <3>3. opened' \subseteq 1..MaxUnlocks  BY <1>3, <2>3 DEF PageInv, PageTypes
    <3> QED  BY <1>1, <2>2, <3>1, <3>2, <3>3, UnlockFrame DEF grantState, PageInv, PageTypes
  <2>5. UNCHANGED <<unlocks, bound, closed>> /\ r.req = "inventory" /\ opened' = opened \cup {g}
    BY <1>1, <1>3, <2>1 DEF grantState, Fresh
  <2>6. \A u \in PageCalls : u # t /\ call[u].req = "unlock" => call[u].gone  BY <1>1 DEF PageInv, UnlockInv
  <2>7. \A u \in PageCalls : u # t /\ Unlocking(call[u]) => Pending(call[u]) /\ call[u].grant # g
    BY <1>2 DEF PageInv, UnlockInv
  <2>8. (\A u \in PageCalls : Unlocking(call[u]) => Pending(call[u]))'
    BY <2>4, <2>5, <2>6, <2>7 DEF Unlocking, Pending
  <2>9. (\A u \in PageCalls : Looked(call[u]) => \A h \in opened : h <= call[u].id => bound # h)'
    <3> SUFFICES ASSUME NEW u \in PageCalls, Looked(call'[u]), NEW h \in opened', h <= call'[u].id PROVE bound # h
      BY <2>5 DEF Looked
    <3>1. u # t /\ Looked(call[u]) /\ call'[u] = call[u] /\ call[u].req = "lock"  BY <2>4, <2>5 DEF Looked
    <3>2. call[u].id \in opened  BY <3>1 DEF PageInv, UnlockInv
    <3>3. call[u].id \in 1..MaxUnlocks  BY <3>2 DEF PageInv, PageTypes
    <3>5. ~(g <= call[u].id)  BY <2>3, <3>2, <3>3
    <3>4. h \in opened  BY <2>5, <3>1, <3>5
    <3> QED  BY <3>1, <3>4 DEF PageInv, UnlockInv
  <2>10. UnlockInv'  BY <2>3, <2>4, <2>5, <2>8, <2>9 DEF PageInv, UnlockInv, Unlocking, Granting
  <2> QED  BY <2>4, <2>10 DEF PageInv
<1>4. CASE GoesOn(t, Idle) /\ view' = Cleared /\ UNCHANGED opened
  <2>1. LeavesGrants(t)  BY <1>4, QuietReplies DEF GoesOn, Moves
  <2>2. ViewOK(view')  BY <1>4, NoEditsType
  <2> QED  BY <1>1, <1>4, <2>1, <2>2, RowsRest, QuietInv DEF grantState, pageHistory
<1> QED  BY <1>3, <1>4 DEF UnlockAnswered

LEMMA LockAnsweredInv ==
    ASSUME PageInv, NEW t \in PageCalls, LockAnswered(t)
    PROVE  PageInv'
<1>1. /\ CallOK(call[t]) /\ ViewOK(view') /\ Looked(call[t])
      /\ UNCHANGED <<unlocks, bound, proofs, authorized, changeState, confirmed, launched, opened>>
      /\ closed' = closed \cup {g \in opened : g <= call[t].id} /\ Moves(t, Idle)
  BY PageCall DEF LockAnswered, Answered, Looked, GoesOn, Moves, grantState
<1>2. CallOK(Idle) /\ Idle.req = "idle"  BY NoEditsType DEF Idle
<1> HIDE DEF Idle
<1>3. /\ PageTypes' /\ ProofInv' /\ call'[t] = Idle /\ \A u \in PageCalls : u # t => call'[u] = call[u]
  <2>1. KeepsProof(call[t], Idle)  BY <1>2 DEF KeepsProof
  <2> QED  BY <1>1, <1>2, <2>1, UnlockFrame DEF PageInv, PageTypes
<1>4. closed' \subseteq opened' /\ \A g \in closed' : bound' # g  BY <1>1 DEF PageInv, UnlockInv
<1>5. UnlockInv'  BY <1>1, <1>2, <1>3, <1>4 DEF PageInv, UnlockInv, Unlocking, Pending, Looked, Granting
<1> QED  BY <1>3, <1>5 DEF PageInv

LEMMA UnlockGrantsInv ==
    ASSUME PageInv, NEW t \in PageCalls, UnlockGrants(t)
    PROVE  PageInv'
<1>1. /\ CallOK(call[t]) /\ ViewOK(view') /\ call[t].req = "unlock" /\ call[t].at = 0 /\ call[t].answer = "none"
      /\ UNCHANGED <<bound, proofs, authorized, changeState, pageHistory>>
  BY PageCall DEF UnlockGrants, Serves
<1>2. PICK new \in 1..MaxUnlocks :
          /\ NextUnlock(new) /\ unlocks' = UnlocksWithNew(new) /\ Awaits(t, [call[t] EXCEPT !.at = 1, !.grant = new])
  BY DEF UnlockGrants
<1> DEFINE r == Granted(call[t], 1, new)
<1>3. CallOK(r) /\ r.req = "unlock" /\ r.at = 1 /\ r.grant = new /\ r.answer = "none" /\ r.gone = call[t].gone
  BY <1>1, GrantedType, SMTT(20)
<1> HIDE DEF r
<1>4. Moves(t, r)  BY <1>2 DEF Awaits, Moves, r, Granted
<1>5. unlocks \in [1..MaxUnlocks -> {"none", "live", "dead"}] /\ opened \subseteq 1..MaxUnlocks /\ bound \in 0..MaxUnlocks
  BY DEF PageInv, PageTypes
<1>6. /\ unlocks' \in [1..MaxUnlocks -> {"none", "live", "dead"}]
      /\ \A g \in 1..MaxUnlocks : unlocks'[g] = "none" <=> g # new /\ unlocks[g] = "none"
  BY <1>2, <1>5 DEF UnlocksWithNew
<1>7. /\ PageTypes' /\ ProofInv' /\ call'[t] = r /\ \A u \in PageCalls : u # t => call'[u] = call[u]
  <2>1. KeepsProof(call[t], r)  BY <1>3 DEF KeepsProof
  <2> QED  BY <1>1, <1>3, <1>4, <1>5, <1>6, <2>1, UnlockFrame DEF pageHistory
<1>8. UNCHANGED <<bound, opened, closed>>  BY <1>1 DEF pageHistory
<1>9. unlocks[new] = "none" /\ \A h \in 1..(new - 1) : unlocks[h] # "none"  BY <1>2 DEF NextUnlock
<1>10. \A g \in opened : g < new
  <2>1. \A g \in 1..MaxUnlocks : unlocks[g] # "none" => \A h \in 1..(g - 1) : unlocks[h] # "none"
    BY DEF PageInv, UnlockInv
  <2>2. ASSUME NEW g \in opened PROVE g < new
    <3>1. g \in 1..MaxUnlocks /\ unlocks[g] # "none"  BY <1>5 DEF PageInv, UnlockInv
    <3>2. new > g \/ new = g \/ new \in 1..(g - 1)  BY <3>1
    <3> QED  BY <1>9, <2>1, <3>1, <3>2
  <2> QED  BY <2>2
<1>11. \A g : Granting(g) => Granting(g)'  BY <1>6 DEF Granting
<1>12. (\A u \in PageCalls : Unlocking(call[u]) => Pending(call[u]) /\ (u # t => call[u].grant # new))'
  <2> SUFFICES ASSUME NEW u \in PageCalls, Unlocking(call'[u])
               PROVE  Pending(call[u])' /\ (u # t => call'[u].grant # new)
    BY DEF Unlocking
  <2>1. CASE u = t
    <3>1. new \notin opened  BY <1>10, <1>5
    <3> QED  BY <1>3, <1>6, <1>7, <1>8, <1>10, <2>1, <3>1 DEF Pending
  <2>2. CASE u # t
    <3>1. Pending(call[u])  BY <1>7, <2>2 DEF PageInv, UnlockInv, Unlocking
    <3> QED  BY <1>6, <1>7, <1>8, <1>9, <2>2, <3>1 DEF Pending
  <2> QED  BY <2>1, <2>2
<1>13. \A g \in 1..MaxUnlocks : unlocks'[g] # "none" => \A h \in 1..(g - 1) : unlocks'[h] # "none"
  <2> SUFFICES ASSUME NEW g \in 1..MaxUnlocks, unlocks'[g] # "none", NEW h \in 1..(g - 1) PROVE unlocks'[h] # "none"
    OBVIOUS
  <2>1. h \in 1..MaxUnlocks  BY VariablesPageAssumption
  <2>2. g = new \/ unlocks[g] # "none"  BY <1>6
  <2>3. unlocks[h] # "none"  BY <1>9, <2>2 DEF PageInv, UnlockInv
  <2> QED  BY <1>6, <2>1, <2>3
<1>14. \A g \in opened : unlocks'[g] # "none"  BY <1>5, <1>6 DEF PageInv, UnlockInv
<1>15. \A u, w \in PageCalls : Unlocking(call'[u]) /\ Unlocking(call'[w]) /\ u # w => call'[u].grant # call'[w].grant
  <2> SUFFICES ASSUME NEW u \in PageCalls, NEW w \in PageCalls, Unlocking(call'[u]), Unlocking(call'[w]), u # w
               PROVE  call'[u].grant # call'[w].grant
    OBVIOUS
  <2>1. CASE u = t \/ w = t  BY <1>3, <1>7, <1>12, <2>1 DEF Unlocking
  <2>2. CASE u # t /\ w # t  BY <1>7, <2>2 DEF PageInv, UnlockInv
  <2> QED  BY <2>1, <2>2
<1>16. UnlockInv'
  <2>1. /\ \A u \in PageCalls : call'[u].req = "lock" => u # t /\ call'[u] = call[u]
        /\ \A u \in PageCalls : call'[u].req = "unlock" /\ ~call'[u].gone => call[u].req = "unlock" /\ ~call[u].gone
    BY <1>1, <1>3, <1>7
  <2>2. (\A u \in PageCalls : call[u].req = "lock" /\ call[u].at = 1 => Granting(call[u].grant))'
    BY <1>11, <2>1 DEF PageInv, UnlockInv, Granting
  <2>3. (\A u \in PageCalls : Looked(call[u]) => \A g \in opened : g <= call[u].id => bound # g)'
    BY <1>8, <2>1 DEF PageInv, UnlockInv, Looked
  <2>4. Granting(bound)'  BY <1>8, <1>11 DEF PageInv, UnlockInv, Granting
  <2>5. /\ \A u, w \in PageCalls :
             call'[u].req = "unlock" /\ call'[w].req = "unlock" /\ ~call'[u].gone /\ ~call'[w].gone => u = w
        /\ \A u \in PageCalls : call'[u].req = "lock" => call'[u].id \in opened'
        /\ closed' \subseteq opened' /\ \A g \in closed' : bound' # g
    BY <1>8, <2>1 DEF PageInv, UnlockInv
  <2> QED  BY <1>8, <1>12, <1>13, <1>14, <1>15, <2>2, <2>3, <2>4, <2>5 DEF UnlockInv, Unlocking
<1> QED  BY <1>7, <1>16 DEF PageInv

LEMMA UnlockBindsInv ==
    ASSUME PageInv, NEW t \in PageCalls, UnlockBinds(t)
    PROVE  PageInv'
<1>1. /\ CallOK(call[t]) /\ ViewOK(view') /\ call[t].req = "unlock" /\ call[t].at = 1 /\ call[t].answer = "none"
      /\ UNCHANGED <<unlocks, proofs, authorized, changeState, confirmed, launched, opened, closed>>
      /\ bound' = call[t].grant
  BY PageCall DEF UnlockBinds, Serves, pageHistory
<1>2. Pending(call[t]) /\ call[t].grant \in 1..MaxUnlocks /\ unlocks[call[t].grant] # "none" /\ call[t].grant \notin opened
  BY <1>1 DEF Pending, Unlocking, PageInv, UnlockInv
<1>3. PICK r : /\ CallOK(r) /\ Moves(t, r)
               /\ \/ r.req = "idle"
                  \/ /\ r.req = "unlock" /\ r.at = 1 /\ r.grant = call[t].grant /\ r.gone = call[t].gone
                     /\ r.answer # "none"
  <2>1. PageTypes /\ CallOK(Idle) /\ Idle.req = "idle"  BY NoEditsType DEF PageInv, Idle
  <2>2. \A answer \in {"ok", "err"} :
           LET r == [call[t] EXCEPT !.answer = answer]
           IN  CallOK(r) /\ r.req = "unlock" /\ r.at = 1 /\ r.grant = call[t].grant /\ r.gone = call[t].gone /\ r.answer # "none"
    BY <1>1, OneAnswer, ZenonT(40)
  <2>3. Accepts(t) \/ Denies(t)  BY DEF UnlockBinds
  <2>4. Moves(t, Idle) \/ \E answer \in {"ok", "err"} : Moves(t, [call[t] EXCEPT !.answer = answer])
    BY <2>1, <2>3, AnswerKinds
  <2> QED  BY <2>1, <2>2, <2>4
<1>4. /\ PageTypes' /\ ProofInv' /\ call'[t] = r /\ \A u \in PageCalls : u # t => call'[u] = call[u]
  <2>1. KeepsProof(call[t], r)  BY <1>3 DEF KeepsProof
  <2>2. bound' \in 0..MaxUnlocks  BY <1>1, <1>2, VariablesPageAssumption
  <2> QED  BY <1>1, <1>3, <2>1, <2>2, UnlockFrame DEF PageInv, PageTypes
<1>5. \A g \in opened : bound' # g  BY <1>1, <1>2
<1>6. \A u \in PageCalls : call'[u].req = "lock" => u # t /\ call'[u] = call[u]  BY <1>3, <1>4
<1>7. \A u \in PageCalls : Unlocking(call'[u]) =>
          /\ Unlocking(call[u]) /\ call'[u].grant = call[u].grant /\ call'[u].gone = call[u].gone
          /\ call'[u].answer = "none" => call[u].answer = "none"
  BY <1>1, <1>3, <1>4 DEF Unlocking
<1>8. (\A u \in PageCalls : Unlocking(call[u]) => Pending(call[u]))'
  <2>1. \A u \in PageCalls : Unlocking(call'[u]) => Pending(call[u])  BY <1>7 DEF PageInv, UnlockInv
  <2> QED  BY <1>1, <1>7, <2>1 DEF Pending, Unlocking
<1>9. (\A u \in PageCalls : call[u].req = "lock" /\ call[u].at = 1 => Granting(call[u].grant))'
  BY <1>1, <1>6 DEF PageInv, UnlockInv, Granting
<1>10. Granting(bound)'  BY <1>1, <1>2 DEF Granting
<1>11. (\A u \in PageCalls : Looked(call[u]) => \A g \in opened : g <= call[u].id => bound # g)'  BY <1>1, <1>5
<1>12. /\ \A u, w \in PageCalls : Unlocking(call'[u]) /\ Unlocking(call'[w]) /\ u # w => call'[u].grant # call'[w].grant
       /\ \A u, w \in PageCalls :
             call'[u].req = "unlock" /\ call'[w].req = "unlock" /\ ~call'[u].gone /\ ~call'[w].gone => u = w
       /\ \A u \in PageCalls : call'[u].req = "lock" => call'[u].id \in opened'
       /\ closed' \subseteq opened' /\ \A g \in closed' : bound' # g
  <2>1. \A u \in PageCalls : call'[u].req = "unlock" /\ ~call'[u].gone => call[u].req = "unlock" /\ ~call[u].gone
    BY <1>1, <1>3, <1>4
  <2> QED  BY <1>1, <1>5, <1>6, <1>7, <2>1 DEF PageInv, UnlockInv
<1>13. /\ \A g \in 1..MaxUnlocks : unlocks'[g] # "none" => \A h \in 1..(g - 1) : unlocks'[h] # "none"
       /\ \A g \in opened' : unlocks'[g] # "none"
  BY <1>1 DEF PageInv, UnlockInv
<1>14. UnlockInv'  BY <1>8, <1>9, <1>10, <1>11, <1>12, <1>13 DEF UnlockInv, Unlocking
<1> QED  BY <1>4, <1>14 DEF PageInv

LEMMA LockServedInv ==
    ASSUME PageInv, NEW t \in PageCalls, LockLooks(t) \/ LockRevokes(t)
    PROVE  PageInv'
<1>1. /\ CallOK(call[t]) /\ ViewOK(view') /\ call[t].req = "lock" /\ call[t].answer = "none" /\ PageTypes
      /\ UNCHANGED <<proofs, authorized, changeState, confirmed, launched, opened, closed>>
      /\ unlocks \in [1..MaxUnlocks -> {"none", "live", "dead"}] /\ opened \subseteq 1..MaxUnlocks /\ bound \in 0..MaxUnlocks
      /\ call[t].id \in opened
  BY PageCall DEF LockLooks, LockRevokes, Serves, pageHistory, grantState, PageInv, PageTypes, UnlockInv
\* What the two steps have in common.
<1>2. ASSUME NEW r, CallOK(r), Moves(t, r),
             r.req = "idle" \/ (r.req = "lock" /\ r.id = call[t].id /\ r.at = 1),
             bound' \in {0, bound}, unlocks' \in [1..MaxUnlocks -> {"none", "live", "dead"}],
             \A g \in 1..MaxUnlocks : unlocks'[g] = "none" <=> unlocks[g] = "none",
             r.req = "lock" => Granting(r.grant),
             Looked(r) => \A g \in opened : g <= r.id => bound' # g
      PROVE  PageInv'
  <2>1. /\ PageTypes' /\ ProofInv' /\ call'[t] = r /\ \A u \in PageCalls : u # t => call'[u] = call[u]
    <3>1. KeepsProof(call[t], r)  BY <1>2 DEF KeepsProof
    <3>2. bound' \in 0..MaxUnlocks  BY <1>1, <1>2, VariablesPageAssumption
    <3> QED  BY <1>1, <1>2, <3>1, <3>2, UnlockFrame
  <2>2. \A u \in PageCalls : call'[u].req = "unlock" => u # t /\ call'[u] = call[u]  BY <1>2, <2>1
  <2>3. \A g : Granting(g) => Granting(g)'  BY <1>2 DEF Granting
  <2>4. (\A u \in PageCalls : Unlocking(call[u]) => Pending(call[u]))'
    <3>1. \A u \in PageCalls : Unlocking(call'[u]) => Pending(call[u]) /\ call'[u] = call[u]
      BY <2>2 DEF PageInv, UnlockInv, Unlocking
    <3> QED  BY <1>1, <1>2, <3>1 DEF Pending, Unlocking
  <2>5. (\A u \in PageCalls : call[u].req = "lock" /\ call[u].at = 1 => Granting(call[u].grant))'
    BY <1>2, <2>1, <2>3 DEF PageInv, UnlockInv, Granting
  <2>6. Granting(bound)'  BY <1>2, <2>3 DEF PageInv, UnlockInv, Granting
  <2>7. \A g \in opened : g # 0  BY <1>1
  <2>8. (\A u \in PageCalls : Looked(call[u]) => \A g \in opened : g <= call[u].id => bound # g)'
    <3> SUFFICES ASSUME NEW u \in PageCalls, Looked(call'[u]), NEW g \in opened, g <= call'[u].id PROVE bound' # g
      BY <1>1 DEF Looked
    <3> QED  BY <1>2, <2>1, <2>7 DEF PageInv, UnlockInv
  <2>9. /\ \A u, w \in PageCalls : Unlocking(call'[u]) /\ Unlocking(call'[w]) /\ u # w => call'[u].grant # call'[w].grant
        /\ \A u, w \in PageCalls :
              call'[u].req = "unlock" /\ call'[w].req = "unlock" /\ ~call'[u].gone /\ ~call'[w].gone => u = w
        /\ closed' \subseteq opened' /\ \A g \in closed' : bound' # g
    BY <1>1, <1>2, <2>2, <2>7 DEF PageInv, UnlockInv, Unlocking
  <2>10. \A u \in PageCalls : call'[u].req = "lock" => call'[u].id \in opened'
    BY <1>1, <1>2, <2>1 DEF PageInv, UnlockInv
  <2>11. \A g \in 1..MaxUnlocks : unlocks'[g] # "none" => \A h \in 1..(g - 1) : unlocks'[h] # "none"
    <3>1. \A g \in 1..MaxUnlocks : \A h \in 1..(g - 1) : h \in 1..MaxUnlocks  BY VariablesPageAssumption
    <3> QED  BY <1>2, <3>1 DEF PageInv, UnlockInv
  <2>12. \A g \in opened' : unlocks'[g] # "none"  BY <1>1, <1>2 DEF PageInv, UnlockInv
  <2>13. UnlockInv'  BY <2>4, <2>5, <2>6, <2>8, <2>9, <2>10, <2>11, <2>12 DEF UnlockInv, Unlocking
  <2> QED  BY <2>1, <2>13 DEF PageInv
<1>3. CASE LockLooks(t)
  <2> DEFINE r == Granted(call[t], 1, bound)
  <2>1. CallOK(r) /\ r.req = "lock" /\ r.id = call[t].id /\ r.at = 1 /\ r.grant = bound /\ r.answer = "none"
    <3>1. bound \in Nat  BY <1>1, VariablesPageAssumption
    <3> QED  BY <1>1, <3>1, GrantedType, SMTT(20)
  <2> HIDE DEF r
  <2>2. Moves(t, r) /\ UNCHANGED <<unlocks, bound>>  BY <1>3 DEF LockLooks, Awaits, Moves, r, Granted, grantState
  <2>3. Looked(r) => \A g \in opened : g <= r.id => bound' # g  BY <1>1, <2>1, <2>2 DEF Looked
  <2>4. Granting(r.grant)  BY <2>1 DEF PageInv, UnlockInv
  <2> QED  BY <1>1, <1>2, <2>1, <2>2, <2>3, <2>4
<1>4. CASE LockRevokes(t)
  <2>1. call[t].at = 1 /\ Granting(call[t].grant)  BY <1>1, <1>4 DEF LockRevokes, Serves, PageInv, UnlockInv
  <2>2. CallOK(Idle) /\ Idle.req = "idle" /\ Idle.answer = "none"  BY NoEditsType DEF Idle
  <2> HIDE DEF Idle
  <2>3. CASE /\ unlocks' = [g \in 1 .. MaxUnlocks |-> IF g = call[t].grant THEN "dead" ELSE unlocks[g]]
             /\ bound' = IF call[t].grant = 0 THEN bound ELSE 0
             /\ Accepts(t)
    <3> DEFINE r == [call[t] EXCEPT !.answer = "ok"]
    <3>1. CallOK(r) /\ r.req = "lock" /\ r.id = call[t].id /\ r.at = 1 /\ r.grant = call[t].grant /\ r.answer = "ok"
      BY <1>1, <2>1, OneAnswer
    <3> HIDE DEF r
    <3>2. Moves(t, Idle) \/ Moves(t, r)  BY <1>1, <2>3, AnswerKinds DEF r
    <3>3. unlocks' \in [1..MaxUnlocks -> {"none", "live", "dead"}] /\ bound' \in {0, bound}  BY <1>1, <2>3
    <3>4. \A g \in 1..MaxUnlocks : unlocks'[g] = "none" <=> unlocks[g] = "none"  BY <2>1, <2>3 DEF Granting
    <3>5. \A g \in opened : g <= call[t].id => bound' # g
      <4>1. CASE call[t].grant = 0  BY <1>1, <2>1, <2>3, <4>1 DEF PageInv, UnlockInv, Looked
      <4>2. CASE call[t].grant # 0  BY <1>1, <2>3, <4>2
      <4> QED  BY <4>1, <4>2
    <3>6. CASE Moves(t, Idle)  BY <1>2, <2>2, <3>3, <3>4, <3>6 DEF Looked
    <3>7. CASE Moves(t, r)  BY <1>2, <2>1, <3>1, <3>3, <3>4, <3>5, <3>7
    <3> QED  BY <3>2, <3>6, <3>7
  <2>4. CASE call[t].grant # 0 /\ Denies(t) /\ UNCHANGED <<unlocks, bound>>
    <3>1. Moves(t, Idle)  BY <1>1, <2>4, AnswerKinds
    <3> QED  BY <1>1, <1>2, <2>2, <2>4, <3>1 DEF Looked
  <2> QED  BY <1>4, <2>3, <2>4 DEF LockRevokes
<1> QED  BY <1>3, <1>4

LEMMA UnlockExpiresInv ==
    ASSUME PageInv, NEW g \in 1..MaxUnlocks, UnlockExpires(g)
    PROVE  PageInv'
<1>1. /\ UNCHANGED <<view, call, bound, proofs, authorized, change, agentHas, confirmed, launched, opened, closed>>
      /\ unlocks[g] = "live" /\ unlocks' = [unlocks EXCEPT ![g] = "dead"]
  BY DEF UnlockExpires, pageState, changeState, pageHistory
<1>2. PageTypes'  BY <1>1 DEF PageInv, PageTypes
<1>3. \A u \in PageCalls : SameUnlock(u) /\ SameProof(u)  BY <1>1 DEF SameUnlock, SameProof
<1>4. \A h \in 1..MaxUnlocks : unlocks'[h] = "none" <=> unlocks[h] = "none"  BY <1>1 DEF PageInv, PageTypes
<1>5. UnlockInv'  BY <1>1, <1>2, <1>3, <1>4, UnlockRest DEF PageInv
<1>6. ProofInv'  BY <1>1, <1>2, <1>3, ProofRest DEF PageInv, RunsStay
<1> QED  BY <1>2, <1>5, <1>6 DEF PageInv

\* The steps that touch the proofs leave the unlocks as they are.
LEMMA ProofFrame ==
    ASSUME PageInv, NEW t \in PageCalls, NEW r, CallOK(r), Moves(t, r), KeepsUnlock(call[t], r), ViewOK(view'),
           UNCHANGED <<unlocks, bound, opened, closed>>,
           proofs' \in [1..MaxProofs -> [state : {"none", "live", "dead", "used"}, digest : Drafts]],
           authorized' \in [Drafts -> 0..MaxProofs], RowsOK(change', agentHas'),
           launched' \subseteq [change : Changes, items : Drafts, grant : 1..MaxProofs]
    PROVE  /\ PageTypes' /\ UnlockInv' /\ call'[t] = r /\ \A u \in PageCalls : u # t => call'[u] = call[u]
<1>1. /\ call' \in [PageCalls -> CallRecords] /\ \A u \in PageCalls : CallOK(call'[u])
      /\ call'[t] = r /\ \A u \in PageCalls : u # t => call'[u] = call[u]
  BY MovesTo DEF PageInv
<1>2. (\A u \in PageCalls : CallOK(call[u]))' /\ ViewOK(view)'  BY <1>1
<1>3. PageTypes'  BY <1>1, <1>2 DEF PageInv, PageTypes, RowsOK
<1>4. \A u \in PageCalls : SameUnlock(u)  BY MovesKeep DEF PageInv
<1>5. UnlockInv'  BY <1>3, <1>4, UnlockRest DEF PageInv, PageTypes
<1> QED  BY <1>1, <1>3, <1>5

LEMMA PageFacts ==
    ASSUME PageInv
    PROVE  /\ PageTypes /\ ViewOK(view) /\ RowsOK(change, agentHas)
           /\ proofs \in [1..MaxProofs -> [state : {"none", "live", "dead", "used"}, digest : Drafts]]
           /\ authorized \in [Drafts -> 0..MaxProofs]
           /\ launched \subseteq [change : Changes, items : Drafts, grant : 1..MaxProofs]
  BY DEF PageInv, PageTypes, RowsOK

\* A proof is given: the call starts, or goes on to ask for the apply.
LEMMA ConfirmInv ==
    ASSUME PageInv, NEW t \in PageCalls, ClickConfirm(t) \/ AuthorizeAnswered(t)
    PROVE  PageInv'
<1>1. ASSUME NEW r, NEW name \in {"authorize", "apply"}, NEW id, Fresh(r, name, id), Moves(t, r), ViewOK(view'),
             confirmed \subseteq confirmed', <<id, r.digest>> \in confirmed',
             UNCHANGED <<grantState, changeState, launched, opened, closed>>
      PROVE  PageInv'
  <2>1. UNCHANGED <<unlocks, bound, proofs, authorized, change, agentHas>>  BY <1>1 DEF grantState, changeState
  <2>2. CallOK(r) /\ r.req = name /\ r.id = id /\ r.at = 0  BY <1>1 DEF Fresh
  <2>3. KeepsUnlock(call[t], r)  BY <2>2 DEF KeepsUnlock
  <2>4. /\ PageTypes' /\ UnlockInv' /\ call'[t] = r /\ \A u \in PageCalls : u # t => call'[u] = call[u]
    BY <1>1, <2>1, <2>2, <2>3, PageFacts, ProofFrame
  <2>5. \A u \in PageCalls : call'[u].req \in {"authorize", "apply"} => <<call'[u].id, call'[u].digest>> \in confirmed'
    BY <1>1, <2>2, <2>4 DEF PageInv, ProofInv
  <2>6. (\A u \in PageCalls : call[u].req \in {"authorize", "apply"} /\ call[u].at = 1 => ForDigest(call[u].grant, call[u].digest))'
    BY <2>1, <2>2, <2>4 DEF PageInv, ProofInv, ForDigest
  <2>7. (\A d \in Drafts : authorized[d] # 0 => ForDigest(authorized[d], d))'
    BY <2>1 DEF PageInv, ProofInv, ForDigest
  <2>8. \A u \in PageCalls : Consumed(call'[u]) => Consumed(call[u]) /\ call'[u] = call[u]  BY <2>2, <2>4 DEF Consumed
  <2>9. /\ \A u \in PageCalls : Consumed(call'[u]) =>
             /\ call'[u].grant \in 1..MaxProofs /\ proofs'[call'[u].grant] = [state |-> "used", digest |-> call'[u].digest]
             /\ \A l \in launched' : l.grant # call'[u].grant
        /\ \A u, w \in PageCalls : Consumed(call'[u]) /\ Consumed(call'[w]) /\ u # w => call'[u].grant # call'[w].grant
    BY <1>1, <2>1, <2>8 DEF PageInv, ProofInv
  <2>10. AppliedAsConfirmed' /\ OneRunPerProof' /\ AppliedRowKeepsDigest'
    BY <1>1, <2>1 DEF PageInv, ProofInv, AppliedAsConfirmed, OneRunPerProof, AppliedRowKeepsDigest
  <2> QED  BY <2>4, <2>5, <2>6, <2>7, <2>9, <2>10 DEF PageInv, ProofInv, Consumed
<1>2. CASE ClickConfirm(t)
  <2> DEFINE id == view.staged.id
  <2> DEFINE d == view.staged.digest
  <2>1. id \in 0..MaxDrafts /\ d \in Drafts /\ (id = 0 => d = NoEdits) /\ d # NoEdits /\ ViewOK(view)
    BY <1>2, PageFacts DEF ViewOK, ViewRecords, ClickConfirm, ConfirmOffered
  <2>2. id \in Changes /\ id \in Nat  BY <2>1, VariablesPageAssumption DEF Changes
  <2> DEFINE r == [PageRequest("authorize") EXCEPT !.id = id, !.digest = d]
  <2>3. Fresh(r, "authorize", id) /\ r.digest = d
    <3>1. Fresh(r, "authorize", id)  BY <2>1, <2>2, NoEditsType, Formed DEF RowRequests
    <3>2. PageRequest("authorize") \in CallRecords  BY Blank DEF RowRequests
    <3>3. r.digest = d  BY <3>2 DEF CallRecords
    <3> QED  BY <3>1, <3>3
  <2> HIDE DEF r
  <2>4. Sends(t, r)  BY <1>2 DEF ClickConfirm, r
  <2>5. Moves(t, r)  BY <2>4, SendsMoves
  <2> QED  BY <1>1, <1>2, <2>1, <2>3, <2>5 DEF ClickConfirm
<1>3. CASE AuthorizeAnswered(t)
  <2>1. /\ CallOK(call[t]) /\ call[t] \in CallRecords /\ call[t].req = "authorize"
        /\ UNCHANGED <<view, grantState, changeState, pageHistory>>
    BY <1>3, PageCall DEF AuthorizeAnswered, Answered
  <2>2. call[t].id \in Changes /\ call[t].id \in Nat /\ call[t].digest \in Drafts
    BY <2>1 DEF CallOK, RowRequests, CallRecords
  <2> DEFINE r == [PageRequest("apply") EXCEPT !.id = call[t].id, !.digest = call[t].digest]
  <2>3. Fresh(r, "apply", call[t].id) /\ r.digest = call[t].digest
    <3>1. Fresh(r, "apply", call[t].id)  BY <2>2, NoEditsType, Formed DEF RowRequests
    <3>2. PageRequest("apply") \in CallRecords  BY Blank DEF RowRequests
    <3>3. r.digest = call[t].digest  BY <3>2 DEF CallRecords
    <3> QED  BY <3>1, <3>3
  <2> HIDE DEF r
  <2>4. Moves(t, r)  BY <1>3 DEF AuthorizeAnswered, GoesOn, Moves, r
  <2>5. <<call[t].id, call[t].digest>> \in confirmed  BY <2>1 DEF PageInv, ProofInv
  <2>6. ViewOK(view') /\ UNCHANGED <<confirmed, launched, opened, closed>>  BY <2>1, PageFacts DEF pageHistory
  <2> QED  BY <1>1, <2>1, <2>3, <2>4, <2>5, <2>6
<1> QED  BY <1>2, <1>3

\* A step of the server on a proof: what is left to show of it.
LEMMA ProofServed ==
    ASSUME PageInv, NEW t \in PageCalls, NEW r, CallOK(r), Moves(t, r),
           r.req = "idle" \/ (r.req \in {"authorize", "apply"} /\ r.req = call[t].req /\ r.id = call[t].id /\ r.digest = call[t].digest),
           ~Consumed(r), ~Consumed(call[t]),
           \A g, d : r.req # "idle" /\ r.at = 1 /\ g = r.grant /\ d = r.digest => ForDigest(g, d)',
           \A g, d : ForDigest(g, d) => ForDigest(g, d)',
           \A g \in 1..MaxProofs : proofs[g].state = "used" => proofs'[g] = proofs[g],
           \A d \in Drafts : authorized'[d] # 0 => ForDigest(authorized[d], d)',
           proofs' \in [1..MaxProofs -> [state : {"none", "live", "dead", "used"}, digest : Drafts]],
           authorized' \in [Drafts -> 0..MaxProofs],
           UNCHANGED <<view, unlocks, bound, changeState, pageHistory>>
    PROVE  PageInv'
<1>1. UNCHANGED <<change, agentHas, confirmed, launched, opened, closed>>  BY DEF changeState, pageHistory
<1>2. /\ PageTypes' /\ UnlockInv' /\ call'[t] = r /\ \A u \in PageCalls : u # t => call'[u] = call[u]
  <2>1. KeepsUnlock(call[t], r)  BY DEF KeepsUnlock
  <2> QED  BY <1>1, <2>1, PageFacts, ProofFrame
<1>3. \A u \in PageCalls : call'[u].req \in {"authorize", "apply"} => <<call'[u].id, call'[u].digest>> \in confirmed'
  BY <1>1, <1>2 DEF PageInv, ProofInv
<1>4. (\A u \in PageCalls : call[u].req \in {"authorize", "apply"} /\ call[u].at = 1 => ForDigest(call[u].grant, call[u].digest))'
  <2>1. \A u \in PageCalls : u # t /\ call[u].req \in {"authorize", "apply"} /\ call[u].at = 1 => ForDigest(call[u].grant, call[u].digest)
    BY DEF PageInv, ProofInv
  <2>2. r.req \in {"authorize", "apply"} /\ r.at = 1 => ForDigest(r.grant, r.digest)'  BY DEF ForDigest
  <2> QED  BY <1>2, <2>1, <2>2 DEF ForDigest
<1>5. \A u \in PageCalls : Consumed(call'[u]) => u # t /\ Consumed(call[u]) /\ call'[u] = call[u]  BY <1>2
<1>6. /\ \A u \in PageCalls : Consumed(call'[u]) =>
           /\ call'[u].grant \in 1..MaxProofs /\ proofs'[call'[u].grant] = [state |-> "used", digest |-> call'[u].digest]
           /\ \A l \in launched' : l.grant # call'[u].grant
  BY <1>1, <1>5 DEF PageInv, ProofInv
<1>7. \A u, w \in PageCalls : Consumed(call'[u]) /\ Consumed(call'[w]) /\ u # w => call'[u].grant # call'[w].grant
  BY <1>5 DEF PageInv, ProofInv
<1>8. AppliedAsConfirmed' /\ AppliedRowKeepsDigest'
  BY <1>1 DEF PageInv, ProofInv, AppliedAsConfirmed, AppliedRowKeepsDigest
<1>9. OneRunPerProof'
  <2>1. \A l \in launched : l.grant \in 1..MaxProofs  BY PageFacts
  <2> QED  BY <1>1, <2>1 DEF PageInv, ProofInv, OneRunPerProof
<1>10. (\A d \in Drafts : authorized[d] # 0 => ForDigest(authorized[d], d))'  BY DEF ForDigest
<1> QED  BY <1>2, <1>3, <1>4, <1>6, <1>7, <1>8, <1>9, <1>10 DEF PageInv, ProofInv, Consumed

LEMMA ProofExpiresInv ==
    ASSUME PageInv, NEW g \in 1..MaxProofs, ProofExpires(g)
    PROVE  PageInv'
<1>1. /\ UNCHANGED <<view, call, unlocks, bound, authorized, change, agentHas, confirmed, launched, opened, closed>>
      /\ proofs[g].state = "live" /\ proofs' = [proofs EXCEPT ![g].state = "dead"]
  BY DEF ProofExpires, pageState, changeState, pageHistory
<1>2. /\ proofs' \in [1..MaxProofs -> [state : {"none", "live", "dead", "used"}, digest : Drafts]]
      /\ \A h \in 1..MaxProofs : proofs'[h].digest = proofs[h].digest /\ (proofs'[h].state = "none" <=> proofs[h].state = "none")
      /\ \A h \in 1..MaxProofs : h # g => proofs'[h] = proofs[h]
  BY <1>1, PageFacts
<1>3. PageTypes'  BY <1>1, <1>2 DEF PageInv, PageTypes
<1>4. \A u \in PageCalls : SameUnlock(u)  BY <1>1 DEF SameUnlock
<1>5. UnlockInv'  BY <1>1, <1>3, <1>4, UnlockRest DEF PageInv, PageTypes
<1>6. \A h, d : ForDigest(h, d) => ForDigest(h, d)'  BY <1>2 DEF ForDigest
<1>7. \A u \in PageCalls : Consumed(call[u]) => call[u].grant \in 1..MaxProofs /\ proofs'[call[u].grant] = [state |-> "used", digest |-> call[u].digest]
  BY <1>1, <1>2 DEF PageInv, ProofInv
<1>8. OneRunPerProof'
  <2>1. \A l \in launched : l.grant \in 1..MaxProofs  BY PageFacts
  <2> QED  BY <1>1, <1>2, <2>1 DEF PageInv, ProofInv, OneRunPerProof
<1>9. AppliedAsConfirmed' /\ AppliedRowKeepsDigest'
  BY <1>1 DEF PageInv, ProofInv, AppliedAsConfirmed, AppliedRowKeepsDigest
<1>10. ProofInv'  BY <1>1, <1>6, <1>7, <1>8, <1>9 DEF PageInv, ProofInv, Consumed
<1> QED  BY <1>3, <1>5, <1>10 DEF PageInv

LEMMA RunEndsInv ==
    ASSUME PageInv, NEW c \in Changes, RunEnds(c)
    PROVE  PageInv'
<1>1. /\ UNCHANGED <<view, call, unlocks, bound, proofs, authorized, agentHas, confirmed, launched, opened, closed>>
      /\ \E end \in Final : change' = [change EXCEPT ![c].state = end]
  BY DEF RunEnds, pageState, grantState, pageHistory
<1>2. RowsOK(change', agentHas') /\ RunsStay  BY <1>1, NoEditsType, RowChanges DEF RowStates
<1>3. PageTypes'  BY <1>1, <1>2 DEF PageInv, PageTypes, RowsOK
<1>4. \A u \in PageCalls : SameUnlock(u) /\ SameProof(u)  BY <1>1 DEF SameUnlock, SameProof
<1>5. UnlockInv'  BY <1>1, <1>3, <1>4, UnlockRest DEF PageInv
<1>6. ProofInv'  BY <1>1, <1>2, <1>3, <1>4, ProofRest DEF PageInv
<1> QED  BY <1>3, <1>5, <1>6 DEF PageInv

\* How a request for a proof is answered.
LEMMA ProofReplies ==
    ASSUME PageInv, NEW t \in PageCalls, call[t].req \in {"authorize", "apply"}, Accepts(t) \/ Denies(t)
    PROVE  \E r : /\ CallOK(r) /\ Moves(t, r) /\ ~Consumed(r)
                  /\ \/ r.req = "idle"
                     \/ /\ r.req = call[t].req /\ r.id = call[t].id /\ r.digest = call[t].digest /\ r.at = call[t].at
                        /\ r.grant = call[t].grant
<1>1. PageTypes /\ CallOK(call[t]) /\ CallOK(Idle) /\ Idle.req = "idle"  BY PageCall, NoEditsType DEF PageInv, Idle
<1>2. CASE Moves(t, Idle)  BY <1>1, <1>2 DEF Consumed
<1>3. CASE Moves(t, [call[t] EXCEPT !.answer = "ok"])
  <2> DEFINE r == [call[t] EXCEPT !.answer = "ok"]
  <2>1. CallOK(r) /\ r.req = call[t].req /\ r.at = call[t].at /\ r.id = call[t].id /\ r.digest = call[t].digest
        /\ r.grant = call[t].grant /\ r.answer = "ok"
    BY <1>1, OneAnswer
  <2> HIDE DEF r
  <2>2. Moves(t, r)  BY <1>3 DEF r
  <2> QED  BY <2>1, <2>2 DEF Consumed
<1>4. call[t].req \notin {"unlock", "inventory"}  OBVIOUS
<1> QED  BY <1>1, <1>2, <1>3, <1>4, AnswerKinds

\* The routes of a proof up to its consumption.
LEMMA AuthorizeInv ==
    ASSUME PageInv, NEW t \in PageCalls, AuthorizeGrants(t) \/ AuthorizeBinds(t) \/ ApplyLooks(t)
    PROVE  PageInv'
<1>1. /\ CallOK(call[t]) /\ call[t] \in CallRecords /\ call[t].req \in {"authorize", "apply"} /\ call[t].answer = "none"
      /\ UNCHANGED <<view, unlocks, bound, changeState, pageHistory>> /\ call[t].at \in {0, 1} /\ ~Consumed(call[t])
  <2>1. CASE AuthorizeGrants(t)  BY <2>1, PageCall DEF AuthorizeGrants, Serves, Consumed
  <2>2. CASE AuthorizeBinds(t)  BY <2>2, PageCall DEF AuthorizeBinds, Serves, Consumed
  <2>3. CASE ApplyLooks(t)  BY <2>3, PageCall DEF ApplyLooks, Serves, grantState, Consumed
  <2> QED  BY <2>1, <2>2, <2>3
<1>2. call[t].digest \in Drafts  BY <1>1 DEF CallRecords
<1>3. /\ proofs \in [1..MaxProofs -> [state : {"none", "live", "dead", "used"}, digest : Drafts]]
      /\ authorized \in [Drafts -> 0..MaxProofs]
      /\ \A d \in Drafts : authorized[d] # 0 => ForDigest(authorized[d], d)
  BY PageFacts DEF PageInv, ProofInv
<1>4. CASE AuthorizeGrants(t)
  <2>1. PICK new \in 1..MaxProofs :
            /\ NextProof(new)
            /\ proofs' = [g \in 1 .. MaxProofs |->
                  IF g = new THEN [state |-> "live", digest |-> call[t].digest]
                  ELSE IF proofs[g] = [state |-> "live", digest |-> call[t].digest]
                  THEN [proofs[g] EXCEPT !.state = "dead"] ELSE proofs[g]]
            /\ Awaits(t, [call[t] EXCEPT !.at = 1, !.grant = new])
    BY <1>4 DEF AuthorizeGrants
  <2> DEFINE r == Granted(call[t], 1, new)
  <2>2. CallOK(r) /\ r.req = call[t].req /\ r.id = call[t].id /\ r.digest = call[t].digest /\ r.at = 1 /\ r.grant = new
    <3>1. new \in Nat  OBVIOUS
    <3> QED  BY <1>1, <3>1, GrantedType
  <2> HIDE DEF r
  <2>3. Moves(t, r) /\ ~Consumed(r)  BY <2>1, <2>2 DEF Awaits, Moves, r, Granted, Consumed
  <2>4. \A g \in 1..MaxProofs : [proofs[g] EXCEPT !.state = "dead"] = [state |-> "dead", digest |-> proofs[g].digest]
    BY <1>3
  <2>5. \A g \in 1..MaxProofs :
            proofs'[g] = IF g = new THEN [state |-> "live", digest |-> call[t].digest]
                         ELSE IF proofs[g] = [state |-> "live", digest |-> call[t].digest]
                         THEN [state |-> "dead", digest |-> proofs[g].digest] ELSE proofs[g]
    BY <2>1, <2>4
  <2>6. DOMAIN proofs' = 1..MaxProofs /\ proofs' = [g \in 1..MaxProofs |-> proofs'[g]]  BY <2>1
  <2>8. proofs[new].state = "none"  BY <2>1 DEF NextProof
  <2>7. \A g \in 1..MaxProofs :
            /\ proofs'[g] \in [state : {"none", "live", "dead", "used"}, digest : Drafts]
            /\ proofs[g].state # "none" => proofs'[g].state # "none" /\ proofs'[g].digest = proofs[g].digest
            /\ proofs[g].state = "used" => proofs'[g] = proofs[g]
    <3> SUFFICES ASSUME NEW g \in 1..MaxProofs
                 PROVE  /\ proofs'[g] \in [state : {"none", "live", "dead", "used"}, digest : Drafts]
                        /\ proofs[g].state # "none" => proofs'[g].state # "none" /\ proofs'[g].digest = proofs[g].digest
                        /\ proofs[g].state = "used" => proofs'[g] = proofs[g]
      OBVIOUS
    <3>1. CASE g = new
      <4>1. proofs'[g] = [state |-> "live", digest |-> call[t].digest] /\ proofs[g].state = "none"
        BY <2>5, <2>8, <3>1
      <4> QED  BY <1>2, <4>1
    <3>2. CASE g # new /\ proofs[g] = [state |-> "live", digest |-> call[t].digest]
      <4>1. proofs'[g] = [state |-> "dead", digest |-> call[t].digest] /\ proofs[g].digest = call[t].digest
        BY <2>5, <3>2
      <4> QED  BY <1>2, <3>2, <4>1
    <3>3. CASE g # new /\ proofs[g] # [state |-> "live", digest |-> call[t].digest]
      <4>1. proofs'[g] = proofs[g]  BY <2>5, <3>3
      <4> QED  BY <1>3, <4>1
    <3> QED  BY <3>1, <3>2, <3>3
  <2>14. proofs' \in [1..MaxProofs -> [state : {"none", "live", "dead", "used"}, digest : Drafts]]  BY <2>6, <2>7
  <2>9. \A g, d : ForDigest(g, d) => ForDigest(g, d)'  BY <2>7 DEF ForDigest
  <2>10. \A g \in 1..MaxProofs : proofs[g].state = "used" => proofs'[g] = proofs[g]  BY <2>7
  <2>11. \A g, d : r.req # "idle" /\ r.at = 1 /\ g = r.grant /\ d = r.digest => ForDigest(g, d)'
    <3>1. proofs'[new] = [state |-> "live", digest |-> call[t].digest]  BY <2>5
    <3>2. r.grant = new /\ r.digest = call[t].digest  BY <2>2
    <3> QED  BY <3>1, <3>2 DEF ForDigest
  <2>12. authorized' = authorized  BY <1>4 DEF AuthorizeGrants
  <2>13. \A d \in Drafts : authorized'[d] # 0 => ForDigest(authorized[d], d)'  BY <1>3, <2>9, <2>12
  <2> QED  BY <1>1, <1>3, <2>2, <2>3, <2>14, <2>9, <2>10, <2>11, <2>12, <2>13, ProofServed
<1>5. CASE AuthorizeBinds(t)
  <2>1. call[t].at = 1 /\ ForDigest(call[t].grant, call[t].digest) /\ UNCHANGED proofs /\ Accepts(t)
    BY <1>1, <1>5 DEF AuthorizeBinds, Serves, PageInv, ProofInv
  <2>2. authorized' = [d \in Drafts |->
            IF d = call[t].digest THEN call[t].grant
            ELSE IF authorized[d] # 0 /\ proofs[authorized[d]].state = "dead" THEN 0 ELSE authorized[d]]
    BY <1>5 DEF AuthorizeBinds
  <2>3. authorized' \in [Drafts -> 0..MaxProofs]
    <3>1. call[t].grant \in 0..MaxProofs /\ 0 \in 0..MaxProofs  BY <2>1, VariablesPageAssumption DEF ForDigest
    <3> QED  BY <1>3, <2>2, <3>1
  <2>4. \A d \in Drafts : authorized'[d] # 0 => ForDigest(authorized'[d], d)  BY <1>3, <2>1, <2>2
  <2>5. \A d \in Drafts : authorized'[d] # 0 => ForDigest(authorized[d], d)'  BY <2>1, <2>4 DEF ForDigest
  <2>6. PICK r : /\ CallOK(r) /\ Moves(t, r) /\ ~Consumed(r)
                 /\ \/ r.req = "idle"
                    \/ /\ r.req = call[t].req /\ r.id = call[t].id /\ r.digest = call[t].digest /\ r.at = call[t].at
                       /\ r.grant = call[t].grant
    BY <1>1, <2>1, ProofReplies
  <2>7. \A g, d : r.req # "idle" /\ r.at = 1 /\ g = r.grant /\ d = r.digest => ForDigest(g, d)'
    BY <2>1, <2>6 DEF ForDigest
  <2>8. /\ \A g, d : ForDigest(g, d) => ForDigest(g, d)'
        /\ \A g \in 1..MaxProofs : proofs[g].state = "used" => proofs'[g] = proofs[g]
        /\ proofs' \in [1..MaxProofs -> [state : {"none", "live", "dead", "used"}, digest : Drafts]]
    BY <1>3, <2>1 DEF ForDigest
  <2> QED  BY <1>1, <2>3, <2>5, <2>6, <2>7, <2>8, ProofServed
<1>6. CASE ApplyLooks(t)
  <2>1. UNCHANGED <<proofs, authorized>> /\ call[t].at = 0  BY <1>6 DEF ApplyLooks, grantState, Serves
  <2>2. /\ \A g, d : ForDigest(g, d) => ForDigest(g, d)'
        /\ \A g \in 1..MaxProofs : proofs[g].state = "used" => proofs'[g] = proofs[g]
        /\ \A d \in Drafts : authorized'[d] # 0 => ForDigest(authorized[d], d)'
    BY <1>3, <2>1 DEF ForDigest
  <2>3. CASE authorized[call[t].digest] = 0
    <3>1. PICK r : /\ CallOK(r) /\ Moves(t, r) /\ ~Consumed(r)
                   /\ \/ r.req = "idle"
                      \/ /\ r.req = call[t].req /\ r.id = call[t].id /\ r.digest = call[t].digest /\ r.at = call[t].at
                         /\ r.grant = call[t].grant
      BY <1>1, <1>6, <2>3, ProofReplies DEF ApplyLooks
    <3>2. \A h, d : r.req # "idle" /\ r.at = 1 /\ h = r.grant /\ d = r.digest => ForDigest(h, d)'  BY <2>1, <3>1
    <3> QED  BY <1>1, <1>3, <2>1, <2>2, <3>1, <3>2, ProofServed
  <2>4. CASE authorized[call[t].digest] # 0
    <3> DEFINE g == authorized[call[t].digest]
    <3> DEFINE r == Granted(call[t], 1, g)
    <3>1. g \in Nat /\ ForDigest(g, call[t].digest)  BY <1>2, <1>3, <2>4, VariablesPageAssumption
    <3> HIDE DEF g
    <3>2. CallOK(r) /\ r.req = call[t].req /\ r.id = call[t].id /\ r.digest = call[t].digest /\ r.at = 1 /\ r.grant = g
      BY <1>1, <3>1, GrantedType
    <3> HIDE DEF r
    <3>3. Moves(t, r) /\ ~Consumed(r)  BY <1>6, <2>4, <3>2 DEF ApplyLooks, Awaits, Moves, r, Granted, Consumed, g
    <3>4. \A h, d : r.req # "idle" /\ r.at = 1 /\ h = r.grant /\ d = r.digest => ForDigest(h, d)'  BY <2>2, <3>1, <3>2
    <3> QED  BY <1>1, <1>3, <2>1, <2>2, <3>2, <3>3, <3>4, ProofServed
  <2> QED  BY <2>3, <2>4
<1> QED  BY <1>4, <1>5, <1>6

\* A proof is consumed, for one run.
LEMMA ApplyConsumesInv ==
    ASSUME PageInv, NEW t \in PageCalls, ApplyConsumes(t)
    PROVE  PageInv'
<1>1. /\ CallOK(call[t]) /\ call[t] \in CallRecords /\ call[t].req = "apply" /\ call[t].answer = "none" /\ call[t].at = 1
      /\ UNCHANGED <<view, unlocks, bound, changeState, pageHistory>> /\ ~Consumed(call[t])
      /\ authorized' = [authorized EXCEPT ![call[t].digest] = 0]
  BY PageCall DEF ApplyConsumes, Serves, Consumed
<1> DEFINE g == call[t].grant
<1> DEFINE dg == call[t].digest
<1>2. dg \in Drafts /\ ForDigest(g, dg) /\ g \in 1..MaxProofs /\ proofs[g].digest = dg /\ proofs[g].state # "none"
  BY <1>1 DEF CallRecords, PageInv, ProofInv, ForDigest
<1>3. /\ proofs \in [1..MaxProofs -> [state : {"none", "live", "dead", "used"}, digest : Drafts]]
      /\ authorized \in [Drafts -> 0..MaxProofs]
      /\ \A d \in Drafts : authorized[d] # 0 => ForDigest(authorized[d], d)
  BY PageFacts DEF PageInv, ProofInv
<1>4. /\ authorized' \in [Drafts -> 0..MaxProofs]
      /\ \A d \in Drafts : authorized'[d] # 0 => authorized'[d] = authorized[d]
  BY <1>1, <1>2, <1>3, VariablesPageAssumption
<1>5. CASE Consumable(g)
  <2> DEFINE r == Placed(call[t], 2)
  <2>1. /\ CallOK(r) /\ r.req = "apply" /\ r.id = call[t].id /\ r.digest = dg /\ r.answer = "none" /\ r.at = 2 /\ r.grant = g
    BY <1>1, PlacedType
  <2> HIDE DEF r
  <2>2. Moves(t, r)  BY <1>5 DEF ApplyConsumes, Awaits, Moves, r, Placed
  <2>3. proofs' = [proofs EXCEPT ![g].state = "used"] /\ proofs[g].state = "live"
    BY <1>5 DEF ApplyConsumes, Consumable
  <2> HIDE DEF g, dg
  <2>4. /\ proofs' \in [1..MaxProofs -> [state : {"none", "live", "dead", "used"}, digest : Drafts]]
        /\ proofs'[g] = [state |-> "used", digest |-> dg]
        /\ \A h \in 1..MaxProofs : h # g => proofs'[h] = proofs[h]
    BY <1>2, <1>3, <2>3
  <2>5. UNCHANGED <<change, agentHas, confirmed, launched, opened, closed>>  BY <1>1 DEF changeState, pageHistory
  <2>6. /\ PageTypes' /\ UnlockInv' /\ call'[t] = r /\ \A u \in PageCalls : u # t => call'[u] = call[u]
    <3>1. KeepsUnlock(call[t], r)  BY <2>1 DEF KeepsUnlock
    <3> QED  BY <1>1, <1>4, <2>1, <2>2, <2>4, <2>5, <3>1, PageFacts, ProofFrame
  <2>7. \A h, d : ForDigest(h, d) => ForDigest(h, d)'  BY <1>2, <2>4 DEF ForDigest
  <2>8. \A l \in launched : l.grant \in 1..MaxProofs /\ l.grant # g
    <3>1. \A l \in launched : proofs[l.grant].state = "used"
      <4>1. \A l \in launched : proofs[l.grant] = [state |-> "used", digest |-> l.items]
        BY DEF PageInv, ProofInv, OneRunPerProof
      <4> SUFFICES ASSUME NEW l \in launched PROVE proofs[l.grant].state = "used"  OBVIOUS
      <4>2. proofs[l.grant] = [state |-> "used", digest |-> l.items]  BY <4>1
      <4> QED  BY <4>2
    <3> QED  BY <2>3, <3>1, PageFacts
  <2>9. \A u \in PageCalls : Consumed(call'[u]) => u = t \/ (Consumed(call[u]) /\ call'[u] = call[u] /\ call[u].grant # g)
    <3>1. \A u \in PageCalls : Consumed(call[u]) => proofs[call[u].grant].state = "used"
      <4>1. \A u \in PageCalls : Consumed(call[u]) => proofs[call[u].grant] = [state |-> "used", digest |-> call[u].digest]
        BY DEF PageInv, ProofInv
      <4> SUFFICES ASSUME NEW u \in PageCalls, Consumed(call[u]) PROVE proofs[call[u].grant].state = "used"  OBVIOUS
      <4>2. proofs[call[u].grant] = [state |-> "used", digest |-> call[u].digest]  BY <4>1
      <4> QED  BY <4>2
    <3>2. ASSUME NEW u \in PageCalls, u # t, Consumed(call'[u]) PROVE Consumed(call[u]) /\ call'[u] = call[u] /\ call[u].grant # g
      <4>1. call'[u] = call[u]  BY <2>6, <3>2
      <4> QED  BY <2>3, <3>1, <3>2, <4>1
    <3> QED  BY <3>2
  <2>10. \A u \in PageCalls : Consumed(call'[u]) =>
             /\ call'[u].grant \in 1..MaxProofs /\ proofs'[call'[u].grant] = [state |-> "used", digest |-> call'[u].digest]
             /\ \A l \in launched' : l.grant # call'[u].grant
    <3> SUFFICES ASSUME NEW u \in PageCalls, Consumed(call'[u])
                 PROVE  /\ call'[u].grant \in 1..MaxProofs /\ proofs'[call'[u].grant] = [state |-> "used", digest |-> call'[u].digest]
                        /\ \A l \in launched' : l.grant # call'[u].grant
      OBVIOUS
    <3>1. CASE u = t  BY <1>2, <2>1, <2>4, <2>5, <2>6, <2>8, <3>1
    <3>2. CASE u # t  BY <2>4, <2>5, <2>9, <3>2 DEF PageInv, ProofInv
    <3> QED  BY <3>1, <3>2
  <2>11. \A u, w \in PageCalls : Consumed(call'[u]) /\ Consumed(call'[w]) /\ u # w => call'[u].grant # call'[w].grant
    <3> SUFFICES ASSUME NEW u \in PageCalls, NEW w \in PageCalls, Consumed(call'[u]), Consumed(call'[w]), u # w
                 PROVE  call'[u].grant # call'[w].grant
      OBVIOUS
    <3>1. CASE u = t \/ w = t  BY <2>1, <2>6, <2>9, <3>1
    <3>2. CASE u # t /\ w # t  BY <2>9, <3>2 DEF PageInv, ProofInv
    <3> QED  BY <3>1, <3>2
  <2>12. \A u \in PageCalls : call'[u].req \in {"authorize", "apply"} => <<call'[u].id, call'[u].digest>> \in confirmed'
    <3>1. <<call[t].id, dg>> \in confirmed  BY <1>1 DEF PageInv, ProofInv, dg
    <3> QED  BY <2>1, <2>5, <2>6, <3>1 DEF PageInv, ProofInv
  <2>13. (\A u \in PageCalls : call[u].req \in {"authorize", "apply"} /\ call[u].at = 1 => ForDigest(call[u].grant, call[u].digest))'
    <3>1. \A u \in PageCalls : call'[u].req \in {"authorize", "apply"} /\ call'[u].at = 1 =>
              call'[u] = call[u] /\ ForDigest(call[u].grant, call[u].digest)
      BY <2>1, <2>6 DEF PageInv, ProofInv
    <3> QED  BY <2>7, <3>1 DEF ForDigest
  <2>14. (\A d \in Drafts : authorized[d] # 0 => ForDigest(authorized[d], d))'  BY <1>3, <1>4, <2>7 DEF ForDigest
  <2>15. OneRunPerProof'  BY <2>4, <2>5, <2>8 DEF PageInv, ProofInv, OneRunPerProof
  <2>16. AppliedAsConfirmed' /\ AppliedRowKeepsDigest'
    BY <2>5 DEF PageInv, ProofInv, AppliedAsConfirmed, AppliedRowKeepsDigest
  <2> QED  BY <2>6, <2>10, <2>11, <2>12, <2>13, <2>14, <2>15, <2>16 DEF PageInv, ProofInv, Consumed
<1>6. CASE ~Consumable(g)
  <2>1. Denies(t) /\ UNCHANGED proofs  BY <1>6 DEF ApplyConsumes
  <2>2. Moves(t, Idle) /\ CallOK(Idle) /\ Idle.req = "idle"
    BY <1>1, <2>1, PageFacts, AnswerKinds, NoEditsType DEF Idle
  <2> HIDE DEF Idle
  <2>3. /\ \A h, d : ForDigest(h, d) => ForDigest(h, d)'
        /\ \A h \in 1..MaxProofs : proofs[h].state = "used" => proofs'[h] = proofs[h]
    BY <2>1 DEF ForDigest
  <2>4. \A d \in Drafts : authorized'[d] # 0 => ForDigest(authorized[d], d)'  BY <1>3, <1>4, <2>1 DEF ForDigest
  <2> QED  BY <1>1, <1>3, <1>4, <2>1, <2>2, <2>3, <2>4, ProofServed DEF Consumed
<1> QED  BY <1>5, <1>6

LEMMA ApplyStartsInv ==
    ASSUME PageInv, NEW t \in PageCalls, ApplyStarts(t)
    PROVE  PageInv'
<1> DEFINE c == call[t].id
<1> DEFINE g == call[t].grant
<1> DEFINE dg == call[t].digest
<1> DEFINE taken == change[c] = [state |-> "SAVED", digest |-> dg]
<1> DEFINE starts == taken /\ agentHas[c].envelope = dg
<1> DEFINE run == [change |-> c, items |-> agentHas[c].envelope, grant |-> g]
<1>1. /\ CallOK(call[t]) /\ call[t] \in CallRecords /\ Consumed(call[t]) /\ call[t].req = "apply" /\ call[t].at = 2
      /\ UNCHANGED <<view, unlocks, bound, proofs, authorized, agentHas, confirmed, opened, closed>>
  BY PageCall DEF ApplyStarts, Serves, Consumed, grantState
<1>2. /\ change' = IF taken THEN [change EXCEPT ![c].state = IF starts THEN "APPLYING" ELSE "ROLLBACK_FAILED"] ELSE change
      /\ launched' = IF starts THEN launched \cup {run} ELSE launched
      /\ Accepts(t) \/ Denies(t)
  BY DEF ApplyStarts
<1>3. c \in Changes /\ dg \in Drafts  BY <1>1 DEF CallOK, RowRequests, CallRecords
<1>4. /\ g \in 1..MaxProofs /\ proofs[g] = [state |-> "used", digest |-> dg]
      /\ \A l \in launched : l.grant # g
      /\ <<c, dg>> \in confirmed
  BY <1>1 DEF PageInv, ProofInv
<1>5. PICK r : /\ CallOK(r) /\ Moves(t, r) /\ ~Consumed(r)
               /\ \/ r.req = "idle"
                  \/ /\ r.req = call[t].req /\ r.id = call[t].id /\ r.digest = call[t].digest /\ r.at = call[t].at
                     /\ r.grant = call[t].grant
  BY <1>1, <1>2, ProofReplies
<1> HIDE DEF c, g, dg, starts, run
<1>6. /\ change' \in [Changes -> [state : RowStates, digest : Drafts]]
      /\ change'[c].digest = change[c].digest
      /\ taken => change'[c].state = IF starts THEN "APPLYING" ELSE "ROLLBACK_FAILED"
      /\ ~taken => change'[c] = change[c]
      /\ \A e \in Changes : e # c => change'[e] = change[e]
  <2>1. change \in [Changes -> [state : RowStates, digest : Drafts]]  BY PageFacts DEF RowsOK
  <2>2. (IF starts THEN "APPLYING" ELSE "ROLLBACK_FAILED") \in RowStates  BY DEF RowStates, Final
  <2> HIDE DEF taken
  <2> QED  BY <1>2, <1>3, <2>1, <2>2
<1>7. RowsOK(change', agentHas')  BY <1>1, <1>6, PageFacts DEF RowsOK
<1>8. launched' \subseteq launched \cup {run} /\ (~starts => launched' = launched)
      /\ run \in [change : Changes, items : Drafts, grant : 1..MaxProofs] /\ run.change = c /\ run.grant = g
      /\ (starts => run.items = dg /\ taken)
  BY <1>2, <1>3, <1>4, PageFacts DEF run, starts, RowsOK
<1>9. /\ PageTypes' /\ UnlockInv' /\ call'[t] = r /\ \A u \in PageCalls : u # t => call'[u] = call[u]
  <2>1. KeepsUnlock(call[t], r)  BY <1>1, <1>5 DEF KeepsUnlock
  <2>2. launched' \subseteq [change : Changes, items : Drafts, grant : 1..MaxProofs]  BY <1>8, PageFacts
  <2> QED  BY <1>1, <1>5, <1>7, <2>1, <2>2, PageFacts, ProofFrame
<1>10. \A u \in PageCalls : call'[u].req \in {"authorize", "apply"} => <<call'[u].id, call'[u].digest>> \in confirmed'
  BY <1>1, <1>4, <1>5, <1>9 DEF PageInv, ProofInv, c, dg
<1>11. (\A u \in PageCalls : call[u].req \in {"authorize", "apply"} /\ call[u].at = 1 => ForDigest(call[u].grant, call[u].digest))'
  <2>1. \A u \in PageCalls : call'[u].req \in {"authorize", "apply"} /\ call'[u].at = 1 =>
            call'[u] = call[u] /\ ForDigest(call[u].grant, call[u].digest)
    BY <1>1, <1>5, <1>9 DEF PageInv, ProofInv
  <2> QED  BY <1>1, <2>1 DEF ForDigest
<1>12. (\A d \in Drafts : authorized[d] # 0 => ForDigest(authorized[d], d))'  BY <1>1 DEF PageInv, ProofInv, ForDigest
<1>13. \A u \in PageCalls : Consumed(call'[u]) => u # t /\ Consumed(call[u]) /\ call'[u] = call[u] /\ call[u].grant # g
  BY <1>1, <1>5, <1>9 DEF PageInv, ProofInv, g
<1>14. \A u \in PageCalls : Consumed(call'[u]) =>
           /\ call'[u].grant \in 1..MaxProofs /\ proofs'[call'[u].grant] = [state |-> "used", digest |-> call'[u].digest]
           /\ \A l \in launched' : l.grant # call'[u].grant
  BY <1>1, <1>8, <1>13 DEF PageInv, ProofInv
<1>15. \A u, w \in PageCalls : Consumed(call'[u]) /\ Consumed(call'[w]) /\ u # w => call'[u].grant # call'[w].grant
  BY <1>13 DEF PageInv, ProofInv
<1>16. \A l \in launched : l.change = c => ~taken
  <2>1. \A l \in launched : change[l.change].state \in {"APPLYING"} \cup Final
    BY DEF PageInv, ProofInv, AppliedRowKeepsDigest
  <2>2. taken => change[c].state = "SAVED"  OBVIOUS
  <2> QED  BY <2>1, <2>2 DEF Final
<1>17. AppliedAsConfirmed'  BY <1>1, <1>4, <1>8 DEF PageInv, ProofInv, AppliedAsConfirmed
<1>18. OneRunPerProof'
  <2>1. \A l \in launched' : proofs'[l.grant] = [state |-> "used", digest |-> l.items]
    BY <1>1, <1>4, <1>8 DEF PageInv, ProofInv, OneRunPerProof
  <2>2. \A l, m \in launched : l.grant = m.grant \/ l.change = m.change => l = m
    BY DEF PageInv, ProofInv, OneRunPerProof
  <2>3. starts => \A l \in launched : l.grant # run.grant /\ l.change # run.change  BY <1>4, <1>8, <1>16
  <2>4. \A l, m \in launched' : l.grant = m.grant \/ l.change = m.change => l = m  BY <1>8, <2>2, <2>3
  <2> QED  BY <2>1, <2>4 DEF OneRunPerProof
<1>19. AppliedRowKeepsDigest'
  <2>1. \A l \in launched : l.change \in Changes  BY PageFacts
  <2>2. ASSUME NEW l \in launched'
        PROVE  change'[l.change].digest = l.items /\ change'[l.change].state \in {"APPLYING"} \cup Final
    <3>1. CASE l \in launched
      <4>1. change[l.change].digest = l.items /\ change[l.change].state \in {"APPLYING"} \cup Final
        BY <3>1 DEF PageInv, ProofInv, AppliedRowKeepsDigest
      <4>2. change'[l.change] = change[l.change]  BY <1>6, <1>16, <2>1, <3>1
      <4> QED  BY <4>1, <4>2
    <3>2. CASE l \notin launched
      <4>1. l = run /\ starts /\ taken  BY <1>8, <2>2, <3>2
      <4>2. change'[c].state = "APPLYING" /\ change'[c].digest = dg  BY <1>6, <4>1
      <4> QED  BY <1>8, <4>1, <4>2
    <3> QED  BY <3>1, <3>2
  <2> QED  BY <2>2 DEF AppliedRowKeepsDigest
<1> QED  BY <1>9, <1>10, <1>11, <1>12, <1>14, <1>15, <1>17, <1>18, <1>19 DEF PageInv, ProofInv, Consumed

LEMMA PageStart == VariablesPageInit => PageInv
<1> SUFFICES ASSUME VariablesPageInit PROVE PageInv  OBVIOUS
<1> USE VariablesPageAssumption
<1>1. /\ clicks = 0 /\ mishaps = 0 /\ call = [t \in PageCalls |-> Idle]
      /\ proofs = [g \in 1..MaxProofs |-> [state |-> "none", digest |-> NoEdits]]
      /\ authorized = [d \in Drafts |-> 0] /\ change = [c \in Changes |-> [state |-> "none", digest |-> NoEdits]]
      /\ agentHas = [c \in Changes |-> [draft |-> NoEdits, envelope |-> NoEdits]]
      /\ confirmed = {} /\ launched = {} /\ closed = {}
  BY DEF VariablesPageInit
<1>2. \/ /\ view = Cleared /\ bound = 0 /\ opened = {}
         /\ unlocks = [g \in 1 .. MaxUnlocks |-> "none"]
      \/ /\ view = [Cleared EXCEPT !.unlocked = TRUE, !.items = MaxUnlocks]
         /\ bound = MaxUnlocks /\ opened = {MaxUnlocks}
         /\ unlocks = [g \in 1 .. MaxUnlocks |-> IF g = MaxUnlocks THEN "live" ELSE "dead"]
  BY DEF VariablesPageInit
<1>3. NoEdits \in Drafts /\ Idle \in CallRecords /\ CallOK(Idle) /\ ViewOK(Cleared) /\ Idle.req = "idle"
  BY NoEditsType DEF Idle
<1> HIDE DEF Idle
<1>4. ViewOK([Cleared EXCEPT !.unlocked = TRUE, !.items = MaxUnlocks])
  <2>1. Cleared \in ViewRecords /\ (Cleared.staged.id = 0 => Cleared.staged.state = "none" /\ Cleared.staged.digest = NoEdits)
    BY <1>3 DEF ViewOK
  <2> DEFINE v == [Cleared EXCEPT !.unlocked = TRUE, !.items = MaxUnlocks]
  <2>4. MaxUnlocks \in 0..MaxUnlocks  OBVIOUS
  <2>5. v \in ViewRecords  BY <2>1, <2>4 DEF ViewRecords
  <2>6. v.staged = Cleared.staged  BY <2>1 DEF ViewRecords
  <2>2. v \in ViewRecords /\ v.staged = Cleared.staged  BY <2>5, <2>6
  <2> HIDE DEF v
  <2>3. ViewOK(v)  BY <2>1, <2>2 DEF ViewOK
  <2> QED  BY <2>3 DEF v
<1>5. /\ unlocks \in [1..MaxUnlocks -> {"none", "live", "dead"}] /\ bound \in 0..MaxUnlocks /\ opened \subseteq 1..MaxUnlocks
      /\ ViewOK(view) /\ (\A g \in opened : unlocks[g] # "none") /\ Granting(bound)
      /\ \A g \in 1..MaxUnlocks : unlocks[g] # "none" => \A h \in 1..(g - 1) : unlocks[h] # "none"
  <2>1. CASE /\ view = Cleared /\ bound = 0 /\ opened = {} /\ unlocks = [g \in 1 .. MaxUnlocks |-> "none"]
    BY <1>3, <2>1 DEF Granting
  <2>2. CASE /\ view = [Cleared EXCEPT !.unlocked = TRUE, !.items = MaxUnlocks]
             /\ bound = MaxUnlocks /\ opened = {MaxUnlocks}
             /\ unlocks = [g \in 1 .. MaxUnlocks |-> IF g = MaxUnlocks THEN "live" ELSE "dead"]
    <3>1. MaxUnlocks \in 1..MaxUnlocks /\ \A g \in 1..MaxUnlocks : \A h \in 1..(g - 1) : h \in 1..MaxUnlocks  OBVIOUS
    <3> QED  BY <1>4, <2>2, <3>1 DEF Granting
  <2> QED  BY <1>2, <2>1, <2>2
<1>6. PageTypes
  <2>1. change \in [Changes -> [state : RowStates, digest : Drafts]]  BY <1>1, <1>3 DEF RowStates
  <2>2. /\ proofs \in [1..MaxProofs -> [state : {"none", "live", "dead", "used"}, digest : Drafts]]
        /\ authorized \in [Drafts -> 0..MaxProofs]
        /\ agentHas \in [Changes -> [draft : Drafts, envelope : Drafts]]
        /\ call \in [PageCalls -> CallRecords] /\ \A t \in PageCalls : CallOK(call[t])
    BY <1>1, <1>3
  <2>3. launched \subseteq [change : Changes, items : Drafts, grant : 1..MaxProofs]  BY <1>1
  <2> QED  BY <1>5, <2>1, <2>2, <2>3 DEF PageTypes
<1>7. \A t \in PageCalls : call[t].req = "idle"  BY <1>1, <1>3
<1>8. UnlockInv  BY <1>1, <1>5, <1>7 DEF UnlockInv, Unlocking, Looked
<1>9. ProofInv
  <2>1. AppliedAsConfirmed /\ OneRunPerProof /\ AppliedRowKeepsDigest
    BY <1>1 DEF AppliedAsConfirmed, OneRunPerProof, AppliedRowKeepsDigest
  <2> QED  BY <1>1, <1>7, <2>1 DEF ProofInv, Consumed
<1> QED  BY <1>6, <1>8, <1>9 DEF PageInv

LEMMA PageStep == PageInv /\ [VariablesPageNext]_variablesPageVars => PageInv'
<1> SUFFICES ASSUME PageInv, [VariablesPageNext]_variablesPageVars PROVE PageInv'  OBVIOUS
<1>1. ASSUME NEW t \in PageCalls, OwnerClicks(t) PROVE PageInv'
  BY <1>1, ClickUnlockInv, ClickInv, ClickLockInv, ConfirmInv DEF OwnerClicks
<1>2. ASSUME NEW t \in PageCalls, PageGoesOn(t) PROVE PageInv'
  BY <1>2, UnlockAnsweredInv, AnsweredInv, LockAnsweredInv, ConfirmInv DEF PageGoesOn
<1>3. ASSUME NEW t \in PageCalls, ServerServes(t) PROVE PageInv'
  BY <1>3, ServedInv, UnlockGrantsInv, UnlockBindsInv, LockServedInv, RowInv, AuthorizeInv, ApplyConsumesInv,
    ApplyStartsInv DEF ServerServes
<1>4. ASSUME Mishap PROVE PageInv'  BY <1>4, ViewInv, AnsweredInv, UnlockExpiresInv, ProofExpiresInv DEF Mishap
<1>5. CASE UNCHANGED variablesPageVars
  <2>1. ViewOK(view') /\ UNCHANGED <<call, grantState, changeState, pageHistory>>
    BY <1>5, PageFacts DEF variablesPageVars, pageState
  <2> QED  BY <2>1, ViewStep
<1> QED  BY <1>1, <1>2, <1>3, <1>4, <1>5, ViewInv, RunEndsInv DEF VariablesPageNext

LEMMA PageSafe == PageInv => VariablesPageIsSafe
<1> SUFFICES ASSUME PageInv PROVE VariablesPageIsSafe  OBVIOUS
<1>1. VariablesPageTypeOK
  <2>1. view.staged.id \in 0 .. MaxDrafts /\ view.draft \in Drafts /\ view.items \in 0 .. MaxUnlocks
    BY DEF PageInv, PageTypes, ViewOK, ViewRecords
  <2>2. \A t \in PageCalls : call[t].id \in Nat /\ call[t].items \in Drafts /\ call[t].digest \in Drafts
    BY DEF PageInv, PageTypes, CallRecords
  <2> QED  BY <2>1, <2>2 DEF VariablesPageTypeOK, PageInv, PageTypes
<1> QED  BY <1>1 DEF VariablesPageIsSafe, PageInv, UnlockInv, ProofInv, LockEndsReading

\* What the agent is told to apply was on the screen when a proof was given,
\* a proof starts one run, and a lock that was answered ends the reading of the
\* unlocks the page knew of, for any number of requests, changes, unlocks and
\* proofs, in any order of their answers (VariablesPage.tsx,
\* variablesSecurityRoutes.ts, postgresConfigChangeRepository.ts).
THEOREM VariablesPageSafe == VariablesPageSpec => []VariablesPageIsSafe
<1> QED  BY PageStart, PageStep, PageSafe, PTL DEF VariablesPageSpec

\* What the inventory read, what the client was shown of it and asks for, and
\* what the validation found of it.
IsSequence(s) == s \in Seq(ToSet(s))
Read == DOMAIN content = Manifest /\ (\A s \in Manifest : IsSequence(content[s]))
        /\ DOMAIN seen \subseteq Manifest /\ \A s \in DOMAIN seen : IsSequence(seen[s])
ShownIsRead ==
    /\ inventory # {} => DOMAIN seen = Manifest
    /\ \A shown \in inventory :
          /\ shown.definition \in Definitions(seen)
          /\ shown.effective = Effective(shown.definition, Definitions(seen))
          /\ shown.sourceFingerprint = seen[shown.definition.source]
Asked ==
    {item \in [definition : Definitions(seen), operation : {"set", "delete"}, value : NewValues \cup {"none"},
               sourceFingerprint : {seen[s] : s \in DOMAIN seen}] :
        item.sourceFingerprint = seen[item.definition.source]}
Found(item, reads) ==
    /\ item.definition.source \in DOMAIN reads /\ reads[item.definition.source] = item.sourceFingerprint
    /\ Cardinality(Named(reads[item.definition.source], item.definition.name)) = 1
Validated ==
    /\ DOMAIN validation = {"pc", "at", "reads", "warned"} /\ validation.at \in Nat \ {0}
    /\ validation.pc \in {"idle", "items", "store", "ready", "refused"}
    /\ validation.pc = "idle" => validation = NoValidation
    /\ validation.pc \in {"items", "store", "ready"} =>
          /\ \A i \in DOMAIN items : i < validation.at => Found(items[i], validation.reads)
          /\ \A s \in DOMAIN validation.reads : \E i \in DOMAIN items : items[i].definition.source = s
    /\ validation.pc \in {"store", "ready"} => validation.at > Len(items)
DraftInv ==
    /\ Read /\ ShownIsRead /\ items \in Seq(Asked) /\ (inventory = {} => items = <<>>) /\ Validated
    /\ draft # NoDraft => validation.pc = "ready" /\ draft.items = items /\ draft.plan.sources = DOMAIN validation.reads

LEMMA Sequences == ASSUME NEW S, NEW s \in Seq(S) PROVE IsSequence(s)
<1>1. \A i \in 1..Len(s) : s[i] \in ToSet(s)  BY DEF ToSet
<1>2. SubSeq(s, 1, Len(s)) \in Seq(ToSet(s))  BY <1>1, SubSeqProperties
<1> QED  BY <1>2, SubSeqFull DEF IsSequence

\* The definitions of one name, in the order of the source.
LEMMA Ordinals ==
    ASSUME NEW s, IsSequence(s), NEW p \in DOMAIN s, NEW q \in DOMAIN s, s[p].name = s[q].name
    PROVE  Ordinal(s, p) > Ordinal(s, q) <=> p > q
<1> DEFINE E(n) == {earlier \in 1..(n - 1) : s[earlier].name = s[p].name}
<1>1. DOMAIN s = 1..Len(s) /\ Len(s) \in Nat  BY DEF IsSequence
<1>2. \A n \in DOMAIN s : IsFiniteSet(E(n)) /\ Cardinality(E(n)) \in Nat
  <2> TAKE n \in DOMAIN s
  <2>1. IsFiniteSet(1..(n - 1)) /\ E(n) \subseteq 1..(n - 1)
    <3>1. 1 \in Int /\ n - 1 \in Int  BY <1>1
    <3>2. IsFiniteSet(1..(n - 1))  BY <3>1, FS_Interval, Zenon
    <3> QED  BY <3>2
  <2>2. IsFiniteSet(E(n))  BY <2>1, FS_Subset
  <2> QED  BY <2>2, FS_CardinalityType
<1>3. Ordinal(s, p) = Cardinality(E(p)) /\ Ordinal(s, q) = Cardinality(E(q))  BY DEF Ordinal
<1>4. ASSUME p > q PROVE Cardinality(E(p)) > Cardinality(E(q))
  <2>1. E(q) \subseteq E(p) /\ q \in E(p) /\ q \notin E(q)  BY <1>1, <1>4
  <2>2. E(q) # E(p)  BY <2>1
  <2> HIDE DEF E
  <2>3. Cardinality(E(q)) <= Cardinality(E(p)) /\ Cardinality(E(q)) # Cardinality(E(p))
    BY <1>2, <2>1, <2>2, FS_Subset
  <2> QED  BY <1>2, <2>3
<1>5. ASSUME ~(p > q) PROVE Cardinality(E(p)) <= Cardinality(E(q))
  <2>1. E(p) \subseteq E(q)  BY <1>1, <1>5
  <2> HIDE DEF E
  <2> QED  BY <1>2, <2>1, FS_Subset
<1> HIDE DEF E
<1> QED  BY <1>2, <1>3, <1>4, <1>5

LEMMA Positions ==
    ASSUME NEW s \in Manifest PROVE Position(s) \in DOMAIN ManifestOrder /\ ManifestOrder[Position(s)] = s
  BY DEF Manifest, ToSet, Position

LEMMA ManifestSize == IsFiniteSet(Manifest) /\ Cardinality(Manifest) = Len(ManifestOrder)
<1> DEFINE n == Len(ManifestOrder)
<1>1. n \in Nat /\ DOMAIN ManifestOrder = 1..n  BY VariableDraftAssumption
<1>2. Cardinality(1..n) = n /\ IsFiniteSet(1..n)
  <2>1. 1 \in Int /\ n \in Int  BY <1>1
  <2> HIDE DEF n
  <2>2. IsFiniteSet(1..n) /\ Cardinality(1..n) = IF 1 > n THEN 0 ELSE n - 1 + 1  BY <2>1, FS_Interval, Zenon
  <2> QED  BY <1>1, <2>2
<1>3. ManifestOrder \in Bijection(1..n, Manifest)
  <2>1. ManifestOrder \in [1..n -> Manifest]  BY <1>1, VariableDraftAssumption
  <2>2. \A p, q \in 1..n : ManifestOrder[p] = ManifestOrder[q] => p = q  BY <1>1, VariableDraftAssumption
  <2>3. \A s \in Manifest : \E p \in 1..n : ManifestOrder[p] = s  BY <1>1 DEF Manifest, ToSet
  <2> QED  BY <2>1, <2>2, <2>3 DEF Bijection, Injection, Surjection, IsInjective
<1>4. ExistsBijection(1..n, Manifest)  BY <1>3 DEF ExistsBijection
<1> QED  BY <1>2, <1>4, FS_Bijection

\* A definition has a place in the source it was read from.
LEMMA DefinitionsPlace ==
    ASSUME NEW reads, NEW d \in Definitions(reads)
    PROVE  /\ d.source \in DOMAIN reads /\ d.at \in DOMAIN reads[d.source]
           /\ d.name = reads[d.source][d.at].name /\ d.value = reads[d.source][d.at].value
           /\ d.ordinal = Ordinal(reads[d.source], d.at)
  BY DEF Definitions

\* The agent's order of precedence is the order of loading.
LEMMA PrecedenceIsOrder ==
    ASSUME NEW reads, DOMAIN reads \subseteq Manifest, \A s \in DOMAIN reads : IsSequence(reads[s]),
           NEW a \in Definitions(reads), NEW b \in Definitions(reads), a.name = b.name
    PROVE  LoadedAfter(a, b) <=> IsHigherPrecedence(a, b)
<1>1. a.source = b.source => (a.ordinal > b.ordinal <=> a.at > b.at)
  <2> HAVE a.source = b.source
  <2> QED  BY DefinitionsPlace, Ordinals
<1>2. Position(a.source) = Position(b.source) <=> a.source = b.source  BY DefinitionsPlace, Positions
<1>3. ~(Position(a.source) > Position(a.source))  BY DefinitionsPlace, Positions, VariableDraftAssumption
<1> QED  BY <1>1, <1>2, <1>3 DEF LoadedAfter, IsHigherPrecedence

\* A change to a source leaves it a sequence.
LEMMA Edits ==
    ASSUME Read, NEW s \in Manifest, EditSource(s)
    PROVE  DOMAIN content' = Manifest /\ \A t \in Manifest : IsSequence(content'[t])
<1> DEFINE defs == content[s]
<1>1. PICK at \in DOMAIN defs :
          \/ content' = [content EXCEPT ![s][at].value = "edited"]
          \/ content' = [content EXCEPT ![s] = Append(@, [content[s][at] EXCEPT !.value = "again"])]
          \/ content' = [content EXCEPT ![s] = SubSeq(@, 1, at - 1) \o SubSeq(@, at + 1, Len(@))]
  BY DEF EditSource
<1>2. IsSequence(defs) /\ defs \in Seq(ToSet(defs)) /\ at \in 1..Len(defs) /\ Len(defs) \in Nat /\ s \in DOMAIN content
  BY DEF Read, IsSequence
<1>3. DOMAIN content' = Manifest /\ \A t \in Manifest : t # s => content'[t] = content[t]  BY <1>1 DEF Read
<1>4. IsSequence(content'[s])
  <2>1. CASE content' = [content EXCEPT ![s][at].value = "edited"]
    <3> DEFINE e == [defs[at] EXCEPT !.value = "edited"]
    <3> DEFINE S == ToSet(defs) \cup {e}
    <3>1. content'[s] = [defs EXCEPT ![at] = e]  BY <1>2, <2>1
    <3>2. e \in S /\ defs \in Seq(S)  BY <1>2
    <3> HIDE DEF S, e, defs
    <3>3. [defs EXCEPT ![at] = e] \in Seq(S)  BY <1>2, <3>2, ExceptSeq
    <3> QED  BY <3>1, <3>3, Sequences
  <2>2. CASE content' = [content EXCEPT ![s] = Append(@, [content[s][at] EXCEPT !.value = "again"])]
    <3> DEFINE e == [defs[at] EXCEPT !.value = "again"]
    <3> DEFINE S == ToSet(defs) \cup {e}
    <3>1. content'[s] = Append(defs, e)  BY <1>2, <2>2
    <3>2. e \in S /\ defs \in Seq(S)  BY <1>2
    <3> HIDE DEF S, e, defs
    <3>3. Append(defs, e) \in Seq(S)  BY <3>2, AppendProperties
    <3> QED  BY <3>1, <3>3, Sequences
  <2>3. CASE content' = [content EXCEPT ![s] = SubSeq(@, 1, at - 1) \o SubSeq(@, at + 1, Len(@))]
    <3> DEFINE S == ToSet(defs)
    <3>1. content'[s] = SubSeq(defs, 1, at - 1) \o SubSeq(defs, at + 1, Len(defs))  BY <1>2, <2>3
    <3>2. /\ \A i \in 1..(at - 1) : defs[i] \in S
          /\ \A i \in (at + 1)..Len(defs) : defs[i] \in S
      BY <1>2 DEF ToSet
    <3> HIDE DEF S, defs
    <3>3. SubSeq(defs, 1, at - 1) \in Seq(S) /\ SubSeq(defs, at + 1, Len(defs)) \in Seq(S)
      BY <1>2, <3>2, SubSeqProperties
    <3>4. SubSeq(defs, 1, at - 1) \o SubSeq(defs, at + 1, Len(defs)) \in Seq(S)  BY <3>3, ConcatProperties
    <3> QED  BY <3>1, <3>4, Sequences
  <2> QED  BY <1>1, <2>1, <2>2, <2>3
<1>5. \A t \in Manifest : IsSequence(content[t])  BY DEF Read
<1> QED  BY <1>3, <1>4, <1>5

\* What only depends on the reading of the inventory and the request stays while
\* they do.
SameRequest == UNCHANGED <<seen, inventory, items>>
LEMMA RequestStays ==
    ASSUME DraftInv, SameRequest
    PROVE  /\ ShownIsRead' /\ (items \in Seq(Asked))' /\ (inventory = {} => items = <<>>)'
           /\ UNCHANGED content => Read'
<1>1. ShownIsRead'  BY DEF DraftInv, ShownIsRead, SameRequest
<1>2. (items \in Seq(Asked))'  BY DEF DraftInv, Asked, SameRequest
<1> QED  BY <1>1, <1>2 DEF DraftInv, Read, SameRequest

\* The validation was refused, or has not got to the draft.
LEMMA NoDraftYet == DraftInv /\ validation.pc # "ready" => draft = NoDraft
  BY DEF DraftInv

LEMMA Refused ==
    ASSUME DraftInv, UNCHANGED <<content, draft>>, SameRequest, draft = NoDraft,
           validation' = [NoValidation EXCEPT !.pc = "refused"]
    PROVE  DraftInv'
<1>1. Validated'  BY DEF Validated, NoValidation
<1> QED  BY <1>1, RequestStays, NoDraftYet DEF DraftInv

LEMMA DraftStart == VariableDraftInit => DraftInv
<1> SUFFICES ASSUME VariableDraftInit PROVE DraftInv  OBVIOUS
<1>1. Read  BY VariableDraftAssumption DEF Read, VariableDraftInit, Nothing, IsSequence
<1>2. ShownIsRead /\ items = <<>> /\ draft = NoDraft  BY DEF ShownIsRead, VariableDraftInit
<1>3. Validated  BY <1>2 DEF Validated, VariableDraftInit, NoValidation
<1>4. items \in Seq(Asked)  BY <1>2
<1> QED  BY <1>1, <1>2, <1>3, <1>4 DEF DraftInv

LEMMA ReadSourceInv == DraftInv /\ ReadInventorySource => DraftInv'
<1> SUFFICES ASSUME DraftInv, ReadInventorySource PROVE DraftInv'  OBVIOUS
<1> DEFINE s == ManifestOrder[Cardinality(DOMAIN seen) + 1]
<1>1. /\ Cardinality(DOMAIN seen) < Len(ManifestOrder)
      /\ seen' = [t \in DOMAIN seen \cup {s} |-> IF t = s THEN content[s] ELSE seen[t]]
      /\ UNCHANGED <<content, inventory, items, validation, draft>>
  BY DEF ReadInventorySource
<1>2. inventory = {} /\ items = <<>>  BY <1>1, ManifestSize, VariableDraftAssumption DEF DraftInv, ShownIsRead
<1>3. s \in Manifest
  <2>1. IsFiniteSet(DOMAIN seen)
    <3>1. IsFiniteSet(Manifest)  BY ManifestSize
    <3> QED  BY <3>1, FS_Subset DEF DraftInv, Read
  <2>2. Cardinality(DOMAIN seen) \in Nat  BY <2>1, FS_CardinalityType
  <2>3. Cardinality(DOMAIN seen) + 1 \in DOMAIN ManifestOrder  BY <1>1, <2>2, VariableDraftAssumption
  <2> QED  BY <2>3 DEF Manifest, ToSet
<1> HIDE DEF s
<1>4. Read'  BY <1>1, <1>3 DEF DraftInv, Read
<1>5. ShownIsRead' /\ (items \in Seq(Asked))' /\ items' = <<>>  BY <1>1, <1>2 DEF ShownIsRead
<1>6. Validated'  BY <1>1 DEF DraftInv, Validated
<1> QED  BY <1>1, <1>4, <1>5, <1>6 DEF DraftInv

LEMMA AnswerInv == ASSUME DraftInv, NEW apps, AnswerInventory(apps) PROVE DraftInv'
<1>1. /\ DOMAIN seen = Manifest /\ inventory = {}
      /\ inventory' = {[definition |-> d, effective |-> Effective(d, Definitions(seen)),
                        sourceFingerprint |-> seen[d.source]] :
                           d \in {e \in Definitions(seen) : SourceRecord[e.source].app \in apps}}
      /\ UNCHANGED <<content, seen, items, validation, draft>>
  BY DEF AnswerInventory
<1>2. items = <<>>  BY <1>1 DEF DraftInv
<1>3. ShownIsRead'
  <2>1. \A shown \in inventory' :
            /\ shown.definition \in Definitions(seen)
            /\ shown.effective = Effective(shown.definition, Definitions(seen))
            /\ shown.sourceFingerprint = seen[shown.definition.source]
    BY <1>1
  <2>2. Definitions(seen)' = Definitions(seen)  BY <1>1 DEF Definitions
  <2>3. \A d : Effective(d, Definitions(seen))' <=> Effective(d, Definitions(seen))  BY <2>2 DEF Effective
  <2> QED  BY <1>1, <2>1, <2>2, <2>3 DEF ShownIsRead
<1>4. (items \in Seq(Asked))' /\ items' = <<>>  BY <1>1, <1>2
<1>5. Read' /\ Validated'  BY <1>1 DEF DraftInv, Read, Validated
<1> QED  BY <1>1, <1>3, <1>4, <1>5 DEF DraftInv

LEMMA ComposeInv == DraftInv /\ ComposeItem => DraftInv'
<1> SUFFICES ASSUME DraftInv, ComposeItem PROVE DraftInv'  OBVIOUS
<1>1. PICK shown \in inventory, operation \in {"set", "delete"}, value \in NewValues :
          /\ validation = NoValidation
          /\ items' = Append(items, [definition |-> shown.definition, operation |-> operation,
                                     value |-> IF operation = "set" THEN value ELSE "none",
                                     sourceFingerprint |-> shown.sourceFingerprint])
          /\ UNCHANGED <<content, seen, inventory, validation, draft>>
  BY DEF ComposeItem
<1> DEFINE item == [definition |-> shown.definition, operation |-> operation,
                    value |-> IF operation = "set" THEN value ELSE "none", sourceFingerprint |-> shown.sourceFingerprint]
<1>2. shown.definition \in Definitions(seen) /\ shown.sourceFingerprint = seen[shown.definition.source]
  BY DEF DraftInv, ShownIsRead
<1>3. item \in Asked
  <2>1. shown.definition.source \in DOMAIN seen  BY <1>2, DefinitionsPlace
  <2> QED  BY <1>2, <2>1 DEF Asked
<1> HIDE DEF item
<1>4. items' \in Seq(Asked) /\ Asked' = Asked
  <2>1. items' = Append(items, item)  BY <1>1 DEF item
  <2>2. items' \in Seq(Asked)  BY <1>3, <2>1, AppendProperties DEF DraftInv
  <2> QED  BY <1>1, <2>2 DEF Asked
<1>5. validation.pc = "idle" /\ draft = NoDraft  BY <1>1, NoDraftYet DEF NoValidation
<1>6. Validated'  BY <1>1, <1>5 DEF DraftInv, Validated
<1>7. Read' /\ ShownIsRead'  BY <1>1 DEF DraftInv, Read, ShownIsRead
<1> QED  BY <1>1, <1>4, <1>5, <1>6, <1>7 DEF DraftInv

\* The steps of the validation that only advance it.
LEMMA Advances ==
    ASSUME DraftInv, UNCHANGED <<content, draft>>, SameRequest, draft = NoDraft, Validated'
    PROVE  DraftInv'
  BY RequestStays, NoDraftYet DEF DraftInv

LEMMA StartInv == DraftInv /\ StartValidation => DraftInv'
<1> SUFFICES ASSUME DraftInv, StartValidation PROVE DraftInv'  OBVIOUS
<1>1. /\ validation = NoValidation /\ validation' = [validation EXCEPT !.pc = "items"]
      /\ UNCHANGED <<content, draft>> /\ SameRequest
  BY DEF StartValidation, SameRequest
<1>2. draft = NoDraft  BY <1>1, NoDraftYet DEF NoValidation
<1>3. Validated'
  <2>1. DOMAIN validation' = {"pc", "at", "reads", "warned"} /\ validation'.pc = "items" /\ validation'.at = 1
    BY <1>1 DEF NoValidation
  <2>2. Len(items) \in Nat /\ DOMAIN items = 1..Len(items)  BY DEF DraftInv
  <2>3. validation'.reads = Nothing  BY <1>1 DEF NoValidation
  <2> QED  BY <1>1, <2>1, <2>2, <2>3 DEF Validated, SameRequest, Nothing
<1> QED  BY <1>1, <1>2, <1>3, Advances

LEMMA RefuseInv == DraftInv /\ RefuseRequest => DraftInv'
<1> SUFFICES ASSUME DraftInv, RefuseRequest PROVE DraftInv'  OBVIOUS
<1>1. validation = NoValidation /\ validation.pc = "idle"  BY DEF RefuseRequest, NoValidation
<1> QED  BY <1>1, NoDraftYet, Refused DEF RefuseRequest, SameRequest

LEMMA FailsInv == ASSUME DraftInv, NEW pc \in {"items", "store"}, FailsAt(pc) PROVE DraftInv'
<1>1. draft = NoDraft  BY NoDraftYet DEF FailsAt
<1> QED  BY <1>1, Refused DEF FailsAt, SameRequest

LEMMA ValidateInv == DraftInv /\ ValidateItem => DraftInv'
<1> SUFFICES ASSUME DraftInv, ValidateItem PROVE DraftInv'  OBVIOUS
<1> DEFINE item == items[validation.at]
           s == item.definition.source
           read == IF s \in DOMAIN validation.reads THEN validation.reads[s] ELSE content[s]
           exposes == item.operation = "delete" /\ \E t \in Manifest \ {s} :
               SourceRecord[t].app = SourceRecord[s].app /\ SourceRecord[t].rank < SourceRecord[s].rank
           reads == [t \in DOMAIN validation.reads \cup {s} |-> IF t = s THEN read ELSE validation.reads[t]]
<1>1. /\ validation.pc = "items" /\ validation.at <= Len(items)
      /\ UNCHANGED <<content, draft>> /\ SameRequest
      /\ validation' = IF Allowed(item) /\ Matches(item, read)
                       THEN [validation EXCEPT !.at = @ + 1, !.warned = @ \/ exposes, !.reads = reads]
                       ELSE [NoValidation EXCEPT !.pc = "refused"]
  BY DEF ValidateItem, SameRequest
<1>2. draft = NoDraft /\ Validated  BY <1>1, NoDraftYet DEF DraftInv
<1>3. ASSUME Matches(item, read), validation' = [validation EXCEPT !.at = @ + 1, !.warned = @ \/ exposes, !.reads = reads]
      PROVE  DraftInv'
  <2>1. read = item.sourceFingerprint /\ Cardinality(Named(read, item.definition.name)) = 1  BY <1>3 DEF Matches
  <2>2. /\ reads[s] = read /\ s \in DOMAIN reads
        /\ \A t \in DOMAIN validation.reads : t \in DOMAIN reads /\ reads[t] = validation.reads[t]
    OBVIOUS
  <2>3. Found(item, reads)  BY <2>1, <2>2 DEF Found
  <2>4. \A i \in DOMAIN items : i < validation.at => Found(items[i], reads)  BY <1>1, <1>2, <2>2 DEF Validated, Found
  <2>9. \A t \in DOMAIN reads : \E i \in DOMAIN items : items[i].definition.source = t
    <3>1. \A t \in DOMAIN validation.reads : \E i \in DOMAIN items : items[i].definition.source = t
      BY <1>1, <1>2 DEF Validated
    <3>2. validation.at \in DOMAIN items  BY <1>1, <1>2, SMTT(20) DEF Validated, DraftInv
    <3> QED  BY <3>1, <3>2
  <2> HIDE DEF reads, exposes
  <2>5. DOMAIN validation' = {"pc", "at", "reads", "warned"} /\ validation'.pc = "items"
        /\ validation'.at = validation.at + 1 /\ validation'.reads = reads
    BY <1>1, <1>2, <1>3 DEF Validated
  <2>6. validation.at \in Nat /\ DOMAIN items \subseteq Nat  BY <1>2 DEF Validated, DraftInv
  <2>7. \A i \in DOMAIN items : i < validation.at + 1 => Found(items[i], reads)
    <3> TAKE i \in DOMAIN items
    <3>1. i < validation.at + 1 => i < validation.at \/ i = validation.at  BY <2>6
    <3> QED  BY <2>3, <2>4, <3>1
  <2>10. items' = items /\ validation'.pc # "idle" /\ validation'.pc \notin {"store", "ready"} /\ validation'.at \in Nat \ {0}
    BY <1>1, <2>5, <2>6, SMTT(20) DEF SameRequest
  <2>11. \A i \in DOMAIN items' : i < validation'.at => Found(items'[i], validation'.reads)  BY <2>5, <2>7, <2>10
  <2>12. \A t \in DOMAIN validation'.reads : \E i \in DOMAIN items' : items'[i].definition.source = t
    BY <2>5, <2>9, <2>10
  <2>8. Validated'  BY <2>5, <2>10, <2>11, <2>12 DEF Validated
  <2> QED  BY <1>1, <1>2, <2>8, Advances
<1> HIDE DEF item, read, reads, exposes
<1> QED  BY <1>1, <1>2, <1>3, Refused

LEMMA ApplicationInv == ASSUME DraftInv, NEW accepts, ApplicationValidator(accepts) PROVE DraftInv'
<1>1. /\ validation.pc = "items" /\ validation.at > Len(items) /\ UNCHANGED <<content, draft>> /\ SameRequest
      /\ validation' = IF accepts /\ BuildAllowed THEN [validation EXCEPT !.pc = "store"]
                       ELSE [NoValidation EXCEPT !.pc = "refused"]
  BY DEF ApplicationValidator, SameRequest
<1>2. draft = NoDraft /\ Validated  BY <1>1, NoDraftYet DEF DraftInv
<1>3. ASSUME validation' = [validation EXCEPT !.pc = "store"] PROVE DraftInv'
  <2>1. Validated'  BY <1>1, <1>2, <1>3 DEF Validated, SameRequest
  <2> QED  BY <1>1, <1>2, <2>1, Advances
<1> QED  BY <1>1, <1>2, <1>3, Refused

LEMMA ReplaceInv == DraftInv /\ ReplaceDraft => DraftInv'
<1> SUFFICES ASSUME DraftInv, ReplaceDraft PROVE DraftInv'  OBVIOUS
<1>1. /\ validation.pc = "store" /\ validation' = [validation EXCEPT !.pc = "ready"] /\ draft'.items = items
      /\ draft'.plan.sources = DOMAIN validation.reads
      /\ UNCHANGED content /\ SameRequest
  BY DEF ReplaceDraft, SameRequest, ImpactPlan
<1>2. Validated' /\ validation'.pc = "ready" /\ validation'.reads = validation.reads
  BY <1>1 DEF DraftInv, Validated, SameRequest
<1> QED  BY <1>1, <1>2, RequestStays DEF DraftInv, SameRequest

LEMMA DraftStep == DraftInv /\ [VariableDraftNext]_draftVars => DraftInv'
<1> SUFFICES ASSUME DraftInv, [VariableDraftNext]_draftVars PROVE DraftInv'  OBVIOUS
<1>1. ASSUME NEW s \in Manifest, EditSource(s) PROVE DraftInv'
  <2>1. SameRequest /\ UNCHANGED <<validation, draft>>  BY <1>1 DEF EditSource, SameRequest
  <2>2. Read'  BY <1>1, <2>1, Edits DEF DraftInv, Read, SameRequest
  <2>3. Validated'  BY <2>1 DEF DraftInv, Validated, SameRequest
  <2> QED  BY <2>1, <2>2, <2>3, RequestStays DEF DraftInv, SameRequest
<1>2. ASSUME ReadFails \/ ParseFails \/ StoreFails PROVE DraftInv'
  BY <1>2, FailsInv DEF ReadFails, ParseFails, StoreFails
<1>3. CASE UNCHANGED draftVars
  <2>1. SameRequest /\ UNCHANGED <<content, validation, draft>>  BY <1>3 DEF draftVars, SameRequest
  <2>2. Validated'  BY <2>1 DEF DraftInv, Validated, SameRequest
  <2> QED  BY <2>1, <2>2, RequestStays DEF DraftInv, SameRequest
<1> QED  BY <1>1, <1>2, <1>3, ReadSourceInv, AnswerInv, ComposeInv, StartInv, RefuseInv, ValidateInv, ApplicationInv,
  ReplaceInv DEF VariableDraftNext

LEMMA EffectiveIsRight == DraftInv => EffectiveIsLoadedLast
<1> SUFFICES ASSUME DraftInv, NEW shown \in inventory, NEW other \in Definitions(seen) \ {shown.definition},
                    other.name = shown.definition.name
             PROVE  IF shown.effective
                    THEN LoadedAfter(other, shown.definition) => ~Intersects(Consumers(other), Consumers(shown.definition))
                    ELSE \E later \in Definitions(seen) : later.name = other.name /\ LoadedAfter(later, shown.definition)
  BY DEF EffectiveIsLoadedLast
<1> DEFINE d == shown.definition
<1>1. d \in Definitions(seen) /\ shown.effective = Effective(d, Definitions(seen))  BY DEF DraftInv, ShownIsRead
<1>2. \A c \in Definitions(seen) : c.name = d.name => (LoadedAfter(c, d) <=> IsHigherPrecedence(c, d))
  BY <1>1, PrecedenceIsOrder DEF DraftInv, Read
<1> HIDE DEF d
<1>3. shown.effective <=> ~\E c \in Definitions(seen) : /\ c # d /\ c.name = d.name
          /\ Intersects(Consumers(c), Consumers(d)) /\ IsHigherPrecedence(c, d)
  BY <1>1 DEF Effective
<1>4. other # d /\ other.name = d.name  BY DEF d
<1>5. IF shown.effective
      THEN LoadedAfter(other, d) => ~Intersects(Consumers(other), Consumers(d))
      ELSE \E later \in Definitions(seen) : later.name = other.name /\ LoadedAfter(later, d)
  BY <1>2, <1>3, <1>4
<1> QED  BY <1>5 DEF d

LEMMA ReplacedIsShown == DraftInv => ShownIsReplaced
<1> SUFFICES ASSUME DraftInv, draft # NoDraft, NEW i \in DOMAIN draft.items
             PROVE  LET item == draft.items[i]
                        defs == validation.reads[item.definition.source]
                    IN  Named(defs, item.definition.name) = {item.definition.at}
                        /\ defs[item.definition.at].value = item.definition.value
  BY DEF ShownIsReplaced
<1> DEFINE item == draft.items[i]
           defs == validation.reads[item.definition.source]
<1>1. draft.items = items /\ validation.pc = "ready" /\ i \in DOMAIN items /\ item = items[i]  BY DEF DraftInv
<1>2. item \in Asked /\ i < validation.at  BY <1>1 DEF DraftInv, Validated
<1>3. Found(item, validation.reads)  BY <1>1, <1>2 DEF DraftInv, Validated
<1> DEFINE d == item.definition
<1>4. d \in Definitions(seen) /\ defs = seen[d.source]  BY <1>2, <1>3 DEF Asked, Found
<1>5. d.at \in DOMAIN defs /\ d.name = defs[d.at].name /\ d.value = defs[d.at].value /\ d.source \in DOMAIN seen
  BY <1>4, DefinitionsPlace, SMTT(20)
<1>6. IsSequence(defs) /\ Cardinality(Named(defs, d.name)) = 1  BY <1>3, <1>4, <1>5 DEF Found, DraftInv, Read
<1> HIDE DEF defs, d
<1>7. IsFiniteSet(Named(defs, d.name)) /\ d.at \in Named(defs, d.name)
  <2>1. Len(defs) \in Nat /\ DOMAIN defs = 1..Len(defs)  BY <1>6 DEF IsSequence
  <2>2. 1 \in Int /\ Len(defs) \in Int  BY <2>1
  <2>3. IsFiniteSet(1..Len(defs))  BY <2>2, FS_Interval, Zenon
  <2>4. Named(defs, d.name) \subseteq 1..Len(defs)  BY <2>1 DEF Named
  <2>5. IsFiniteSet(Named(defs, d.name))  BY <2>3, <2>4, FS_Subset
  <2> QED  BY <1>5, <2>5 DEF Named
<1>8. Named(defs, d.name) = {d.at}
  <2>1. PICK x : Named(defs, d.name) = {x}  BY <1>6, <1>7, FS_Singleton
  <2> QED  BY <1>7, <2>1
<1> QED  BY <1>5, <1>8 DEF d, defs

LEMMA PlanIsRight == DraftInv => PlanIsExact
<1> SUFFICES ASSUME DraftInv, draft # NoDraft
             PROVE  draft.plan.sources = {draft.items[i].definition.source : i \in DOMAIN draft.items}
  BY DEF PlanIsExact
<1>1. draft.items = items /\ validation.pc = "ready" /\ draft.plan.sources = DOMAIN validation.reads  BY DEF DraftInv
<1>2. /\ \A s \in DOMAIN validation.reads : \E i \in DOMAIN items : items[i].definition.source = s
      /\ \A i \in DOMAIN items : i < validation.at => items[i].definition.source \in DOMAIN validation.reads
  BY <1>1 DEF DraftInv, Validated, Found
<1>3. \A i \in DOMAIN items : i < validation.at  BY <1>1 DEF DraftInv, Validated
<1> QED  BY <1>1, <1>2, <1>3

\* What a draft is checked for is what its client was shown: the definitions
\* the inventory calls effective are the last ones loaded, a draft replaces the
\* definitions that were shown, and its plan covers the sources it changes, for
\* any manifest, catalogue, content and rules (inventoryService.ts,
\* validationService.ts).
LEMMA DraftSafe == VariableDraftSpec => []VariableDraftIsSound
<1>1. DraftInv => VariableDraftIsSound  BY EffectiveIsRight, ReplacedIsShown, PlanIsRight DEF VariableDraftIsSound
<1> QED  BY <1>1, DraftStart, DraftStep, PTL DEF VariableDraftSpec

LEMMA HasLeast == ASSUME NEW T, T \subseteq Nat, T # {} PROVE \E x \in T : \A y \in T : x <= y
<1> DEFINE R == OpToRel(<, Nat)
<1>1. IsWellFoundedOn(R, Nat)  BY NatLessThanWellFounded
<1>2. \A x, y \in Nat : y < x => <<y, x>> \in R  BY DEF OpToRel
<1> HIDE DEF R
<1>3. PICK x \in T : \A y \in T : ~(<<y, x>> \in R)  BY <1>1, WFMin
<1>4. x \in Nat /\ \A y \in T : y \in Nat /\ ~(y < x)  BY <1>2, <1>3
<1>5. \A y \in T : x <= y  BY <1>4
<1> QED  BY <1>5

\* A sequence without one of its elements.
LEMMA OneOut ==
    ASSUME NEW S, NEW r \in Seq(S), NEW p \in 1..Len(r)
    PROVE  LET t == SubSeq(r, 1, p - 1) \o SubSeq(r, p + 1, Len(r))
           IN  /\ t \in Seq(S) /\ Len(t) = Len(r) - 1
               /\ \A i \in 1..(Len(r) - 1) : t[i] = IF i < p THEN r[i] ELSE r[i + 1]
<1>1. /\ Len(r) \in Nat /\ p - 1 \in Int /\ p + 1 \in Int /\ p \in Int /\ 1 \in Int
      /\ (\A i \in 1..(p - 1) : r[i] \in S) /\ \A i \in (p + 1)..Len(r) : r[i] \in S
  OBVIOUS
<1> DEFINE a == SubSeq(r, 1, p - 1)
           b == SubSeq(r, p + 1, Len(r))
<1>2. a \in Seq(S) /\ Len(a) = p - 1 /\ \A i \in 1..(p - 1) : a[i] = r[i]
  <2>1. /\ a \in Seq(S) /\ Len(a) = IF 1 <= p - 1 THEN p - 1 - 1 + 1 ELSE 0
        /\ \A i \in 1..(p - 1 - 1 + 1) : a[i] = r[1 + i - 1]
    BY <1>1, SubSeqProperties
  <2> QED  BY <1>1, <2>1
<1>3. b \in Seq(S) /\ Len(b) = Len(r) - p /\ \A i \in 1..(Len(r) - p) : b[i] = r[p + i]
  <2>1. /\ b \in Seq(S) /\ Len(b) = IF p + 1 <= Len(r) THEN Len(r) - (p + 1) + 1 ELSE 0
        /\ \A i \in 1..(Len(r) - (p + 1) + 1) : b[i] = r[p + 1 + i - 1]
    BY <1>1, SubSeqProperties
  <2> QED  BY <1>1, <2>1
<1> HIDE DEF a, b
<1>4. /\ a \o b \in Seq(S) /\ Len(a \o b) = Len(a) + Len(b)
      /\ \A i \in 1..Len(a) + Len(b) : (a \o b)[i] = IF i <= Len(a) THEN a[i] ELSE b[i - Len(a)]
  BY <1>2, <1>3, ConcatProperties
<1>5. \A i \in 1..(Len(r) - 1) : (a \o b)[i] = IF i < p THEN r[i] ELSE r[i + 1]
  <2> TAKE i \in 1..(Len(r) - 1)
  <2>1. CASE i < p  BY <1>1, <1>2, <1>3, <1>4, <2>1
  <2>2. CASE ~(i < p)
    <3>1. (a \o b)[i] = b[i - (p - 1)] /\ i - (p - 1) \in 1..(Len(r) - p)  BY <1>1, <1>2, <1>3, <1>4, <2>2
    <3>2. b[i - (p - 1)] = r[p + (i - (p - 1))] /\ p + (i - (p - 1)) = i + 1  BY <1>1, <1>3, <3>1, SMTT(20)
    <3> QED  BY <2>2, <3>1, <3>2
  <2> QED  BY <2>1, <2>2
<1>6. Len(a \o b) = Len(r) - 1  BY <1>1, <1>2, <1>3, <1>4
<1> QED  BY <1>4, <1>5, <1>6 DEF a, b

\* The replacements of a source, one per place, can be put in order.
LEMMA ReplacementsInOrder ==
    ASSUME NEW len \in Nat, NEW operations, IsFiniteSet(operations),
           \A c \in operations : Place(c) \in 1..len, \A c, d \in operations : Place(c) = Place(d) => c = d
    PROVE  LET n == Cardinality(operations)
               q == FromTheEnd(operations)
           IN  /\ n \in Nat /\ q \in [1..n -> operations]
               /\ \A i, j \in 1..n : i < j => Place(q[i]) > Place(q[j])
               /\ \A c \in operations : \E i \in 1..n : q[i] = c
<1> DEFINE n == Cardinality(operations)
           Sorted(q, k) == /\ q \in [1..k -> operations] /\ \A i, j \in 1..k : i < j => Place(q[i]) > Place(q[j])
                           /\ \A c \in operations : (\E i \in 1..k : q[i] = c) \/ \A i \in 1..k : Place(c) < Place(q[i])
           T == {k \in 0..n : ~\E q : Sorted(q, k)}
<1>1. n \in Nat /\ \A k \in 0..n : k \in Nat /\ IsFiniteSet(1..k) /\ Cardinality(1..k) = k
  <2>1. n \in Nat  BY FS_CardinalityType
  <2> HIDE DEF n
  <2> SUFFICES ASSUME NEW k \in 0..n PROVE k \in Nat /\ IsFiniteSet(1..k) /\ Cardinality(1..k) = k  BY <2>1
  <2>2. k \in Nat /\ k \in Int /\ 1 \in Int  BY <2>1
  <2>3. IsFiniteSet(1..k) /\ Cardinality(1..k) = IF 1 > k THEN 0 ELSE k - 1 + 1  BY <2>2, FS_Interval, Zenon
  <2> QED  BY <2>2, <2>3
<1>2. T = {}
  <2> SUFFICES ASSUME T # {} PROVE FALSE  OBVIOUS
  <2>1. PICK k \in T : \A j \in T : k <= j
    <3>1. T \subseteq Nat  BY <1>1
    <3> HIDE DEF T
    <3> QED  BY <3>1, HasLeast
  <2>2. k \in 0..n /\ ~\E q : Sorted(q, k)  OBVIOUS
  <2>3. k # 0
    <3>1. Sorted([i \in 1..0 |-> 0], 0)  OBVIOUS
    <3> QED  BY <2>2, <3>1
  <2>4. k - 1 \in 0..n /\ k - 1 \in Nat /\ ~(k <= k - 1)  BY <1>1, <2>2, <2>3
  <2>5. PICK q : Sorted(q, k - 1)  BY <2>1, <2>4
  <2> DEFINE D == {c \in operations : ~\E i \in 1..(k - 1) : q[i] = c}
             U == {len - Place(c) : c \in D}
  <2>6. D # {}
    <3> SUFFICES ASSUME D = {} PROVE FALSE  OBVIOUS
    <3>1. q \in Surjection(1..(k - 1), operations)  BY <2>5 DEF Surjection
    <3>2. n <= k - 1  BY <1>1, <2>4, <3>1, FS_Surjection
    <3> QED  BY <1>1, <2>2, <2>4, <3>2
  <2>7. PICK c \in D : \A d \in D : Place(d) <= Place(c)
    <3>1. \A d \in D : Place(d) \in 1..len  OBVIOUS
    <3> HIDE DEF D
    <3>2. U \subseteq Nat /\ U # {}  BY <2>6, <3>1
    <3>3. PICK u \in U : \A v \in U : u <= v
      <4> HIDE DEF U
      <4> QED  BY <3>2, HasLeast
    <3>4. PICK c \in D : u = len - Place(c)  OBVIOUS
    <3>5. \A d \in D : len - Place(c) <= len - Place(d)  BY <3>3, <3>4
    <3> QED  BY <3>1, <3>5
  <2> DEFINE next == [i \in 1..k |-> IF i = k THEN c ELSE q[i]]
  <2>8. c \in operations /\ \A i \in 1..(k - 1) : Place(c) < Place(q[i])  BY <2>5, <2>7
  <2>9. \A i \in 1..k : i = k \/ i \in 1..(k - 1)  BY <2>4
  <2>10. next \in [1..k -> operations]  BY <2>5, <2>8, <2>9
  <2>11. \A i, j \in 1..k : i < j => Place(next[i]) > Place(next[j])  BY <2>4, <2>5, <2>8, <2>9
  <2>12. ASSUME NEW d \in operations PROVE (\E i \in 1..k : next[i] = d) \/ \A i \in 1..k : Place(d) < Place(next[i])
    <3>1. CASE \E i \in 1..(k - 1) : q[i] = d  BY <2>4, <3>1
    <3>2. CASE d = c  BY <2>4, <2>3, <3>2
    <3>3. CASE d \in D /\ d # c
      <4>1. Place(d) <= Place(c) /\ Place(d) # Place(c) /\ Place(d) \in Nat /\ Place(c) \in Nat  BY <2>7, <2>8, <3>3
      <4>2. \A i \in 1..(k - 1) : Place(d) < Place(q[i])  BY <2>5, <3>3
      <4> QED  BY <2>9, <4>1, <4>2
    <3> QED  BY <3>1, <3>2, <3>3
  <2>13. Sorted(next, k)  BY <2>10, <2>11, <2>12
  <2> QED  BY <2>2, <2>13
<1> DEFINE q == FromTheEnd(operations)
<1>3. q \in [1..n -> operations] /\ \A i, j \in 1..n : i < j => Place(q[i]) > Place(q[j])
  <2>1. n \in 0..n  BY <1>1
  <2>2. PICK p : Sorted(p, n)  BY <1>2, <2>1
  <2>3. p \in [1..n -> operations] /\ \A i, j \in DOMAIN p : i < j => Place(p[i]) > Place(p[j])  BY <2>2
  <2>4. q \in [1..n -> operations] /\ \A i, j \in DOMAIN q : i < j => Place(q[i]) > Place(q[j])
    BY <2>3 DEF FromTheEnd
  <2> QED  BY <2>4
<1>4. q \in Surjection(1..n, operations)
  <2> HIDE DEF q, n
  <2>1. \A i, j \in 1..n : q[i] = q[j] => i = j
    <3> SUFFICES ASSUME NEW i \in 1..n, NEW j \in 1..n, i < j PROVE q[i] # q[j]  BY <1>1
    <3> QED  BY <1>3
  <2>2. q \in Injection(1..n, operations)  BY <1>3, <2>1 DEF Injection, IsInjective
  <2>3. n \in 0..n  BY <1>1
  <2> QED  BY <1>1, <2>2, <2>3, FS_Injection DEF n
<1> HIDE DEF q
<1>5. \A c \in operations : \E i \in 1..n : q[i] = c  BY <1>4 DEF Surjection
<1> QED  BY <1>1, <1>3, <1>5 DEF q

\* What a source becomes, replacement by replacement.
Turns(g, n, defs, order) ==
    g = [k \in 0..n |-> IF k = 0 THEN defs ELSE Replaced(g[k - 1], order[k], Place(order[k]))]
InTurn(n, defs, order) == CHOOSE g : Turns(g, n, defs, order)

LEMMA ReplacedInTurn ==
    ASSUME NEW n \in Nat, NEW defs, NEW order PROVE Turns(InTurn(n, defs, order), n, defs, order)
<1> DEFINE T == {m \in 0..n : ~\E g : Turns(g, m, defs, order)}
<1>1. T = {}
  <2> SUFFICES ASSUME T # {} PROVE FALSE  OBVIOUS
  <2>1. PICK m \in T : \A j \in T : m <= j
    <3>1. T \subseteq Nat  OBVIOUS
    <3> HIDE DEF T
    <3> QED  BY <3>1, HasLeast
  <2>2. m \in 0..n /\ ~\E g : Turns(g, m, defs, order)  OBVIOUS
  <2>3. m # 0
    <3>1. Turns([k \in 0..0 |-> defs], 0, defs, order)  BY DEF Turns
    <3> QED  BY <2>2, <3>1
  <2>4. m - 1 \in 0..n /\ m - 1 \in Nat /\ ~(m <= m - 1)  BY <2>2, <2>3
  <2>5. PICK g : Turns(g, m - 1, defs, order)  BY <2>1, <2>4
  <2> DEFINE next == [k \in 0..m |-> IF k = m THEN Replaced(g[m - 1], order[m], Place(order[m])) ELSE g[k]]
  <2>6. \A k \in 0..m : k = m \/ k \in 0..(m - 1)  BY <2>4
  <2>7. \A k \in 0..m : k # 0 => k - 1 \in 0..(m - 1) /\ k - 1 \in 0..m /\ k - 1 # m  BY <2>4
  <2>8. ASSUME NEW k \in 0..m
        PROVE  next[k] = IF k = 0 THEN defs ELSE Replaced(next[k - 1], order[k], Place(order[k]))
    <3>1. CASE k = m  BY <2>3, <2>7, <3>1
    <3>2. CASE k # m
      <4>1. next[k] = g[k] /\ k \in 0..(m - 1)  BY <2>6, <3>2
      <4>2. g[k] = IF k = 0 THEN defs ELSE Replaced(g[k - 1], order[k], Place(order[k]))  BY <2>5, <4>1 DEF Turns
      <4>3. k # 0 => next[k - 1] = g[k - 1]  BY <2>7
      <4> QED  BY <4>1, <4>2, <4>3
    <3> QED  BY <3>1, <3>2
  <2>9. next = [k \in 0..m |-> next[k]]  OBVIOUS
  <2> HIDE DEF next
  <2>10. Turns(next, m, defs, order)  BY <2>8, <2>9 DEF Turns
  <2> QED  BY <2>2, <2>10
<1>2. n \in 0..n  OBVIOUS
<1>3. \E g : Turns(g, n, defs, order)  BY <1>1, <1>2
<1> QED  BY <1>3, Zenon DEF InTurn

\* The replacements from the end to the beginning make the text that has them all
\* and nothing else: up to the place that was replaced last, it is still the source.
LEMMA SerializedIsExact ==
    ASSUME NEW defs, IsSequence(defs), NEW operations, IsFiniteSet(operations),
           \A c \in operations : Place(c) \in DOMAIN defs /\ c.operation \in {"set", "delete"},
           \A c, d \in operations : Place(c) = Place(d) => c = d
    PROVE  Follows(SerializeUpdatedSource(defs, operations), defs, operations)
<1> DEFINE n == Cardinality(operations)
           order == FromTheEnd(operations)
           rest[k \in 0..n] == IF k = 0 THEN defs ELSE Replaced(rest[k - 1], order[k], Place(order[k]))
           new(c) == [defs[Place(c)] EXCEPT !.value = c.value]
           V == ToSet(defs) \cup {new(c) : c \in operations}
           left(k) == {at \in DOMAIN defs : \A i \in 1..k : Place(order[i]) = at => order[i].operation # "delete"}
           before(k) == IF k = 0 THEN Len(defs) + 1 ELSE Place(order[k])
           Holds(k, t, o) ==
               /\ t \in Seq(V) /\ o \in [1..Len(t) -> left(k)]
               /\ \A i, j \in 1..Len(t) : i < j => o[i] < o[j]
               /\ \A at \in left(k) : \E i \in 1..Len(t) : o[i] = at
               /\ \A i \in 1..Len(t) :
                     /\ \A j \in 1..k : Place(order[j]) = o[i] => t[i] = new(order[j])
                     /\ (\A j \in 1..k : Place(order[j]) # o[i]) => t[i] = defs[o[i]]
               /\ \A i \in 1..(before(k) - 1) : i <= Len(t) /\ o[i] = i
           T == {k \in 0..n : ~\E o : Holds(k, rest[k], o)}
<1>1. Len(defs) \in Nat /\ DOMAIN defs = 1..Len(defs) /\ defs \in Seq(ToSet(defs)) /\ defs \in Seq(V)
  BY DEF IsSequence
<1>2. /\ n \in Nat /\ order \in [1..n -> operations]
      /\ \A i, j \in 1..n : i < j => Place(order[i]) > Place(order[j])
      /\ \A c \in operations : \E i \in 1..n : order[i] = c
  <2>1. \A c \in operations : Place(c) \in 1..Len(defs)  BY <1>1
  <2> QED  BY <1>1, <2>1, ReplacementsInOrder, Zenon
<1> HIDE DEF n, order
<1>3. rest = [k \in 0..n |-> IF k = 0 THEN defs ELSE Replaced(rest[k - 1], order[k], Place(order[k]))]
  <2>1. rest = InTurn(n, defs, order)  BY DEF InTurn, Turns
  <2> HIDE DEF rest
  <2>2. n \in Nat  BY <1>2
  <2> HIDE DEF n, order
  <2>3. Turns(rest, n, defs, order)  BY <2>1, <2>2, ReplacedInTurn
  <2> QED  BY <2>3 DEF Turns
<1> HIDE DEF rest
<1>4. \A i \in 1..n : order[i] \in operations /\ Place(order[i]) \in 1..Len(defs) /\ new(order[i]) \in V
  BY <1>1, <1>2
<1> HIDE DEF V, new
<1>5. ASSUME NEW k \in 1..n, NEW t, NEW o, Holds(k - 1, t, o)
      PROVE  \E u : Holds(k, Replaced(t, order[k], Place(order[k])), u)
  <2> DEFINE p == Place(order[k])
             r == Replaced(t, order[k], p)
  <2>1. k \in Nat /\ k - 1 \in Nat /\ \A j \in 1..k : j = k \/ j \in 1..(k - 1)  BY <1>2
  <2>2. p \in 1..Len(defs) /\ \A j \in 1..(k - 1) : Place(order[j]) > p  BY <1>2, <1>4
  <2>3. p < before(k - 1)
    <3>1. CASE k = 1  BY <1>1, <2>2, <3>1
    <3>2. CASE k # 1
      <4>1. k - 1 \in 1..(k - 1) /\ k - 1 # 0  BY <2>1, <3>2
      <4> QED  BY <2>2, <4>1
    <3> QED  BY <3>1, <3>2
  <2>4. before(k - 1) \in Nat /\ before(k) = p
    <3>1. k # 0  BY <2>1
    <3>2. k - 1 # 0 => Place(order[k - 1]) \in Nat  BY <1>1, <1>2, <1>4, <2>1
    <3> QED  BY <1>1, <3>1, <3>2
  <2>5. Len(t) \in Nat /\ t \in Seq(V)  BY <1>5
  <2>6. p \in 1..Len(t) /\ o[p] = p /\ \A i \in 1..(p - 1) : i \in 1..Len(t) /\ o[i] = i
    BY <1>1, <1>5, <2>2, <2>3, <2>4, <2>5
  <2>7. t[p] = defs[p]
    <3>1. \A j \in 1..(k - 1) : Place(order[j]) # o[p]  BY <1>1, <1>2, <1>4, <2>1, <2>2, <2>6
    <3> QED  BY <1>5, <2>6, <3>1
  <2>8. \A i \in 1..Len(t) : o[i] \in left(k - 1) /\ o[i] \in DOMAIN defs /\ o[i] \in Nat  BY <1>1, <1>5
  <2>9. \A i \in 1..Len(t) : i # p => o[i] # p
    <3> SUFFICES ASSUME NEW i \in 1..Len(t), i # p PROVE o[i] # p  OBVIOUS
    <3>1. i < p \/ p < i  BY <2>5, <2>6
    <3>2. o[i] < o[p] \/ o[p] < o[i]  BY <1>5, <2>6, <3>1
    <3> QED  BY <2>6, <2>8, <3>2
  <2>10. CASE order[k].operation = "set"
    <3>1. r = [t EXCEPT ![p].value = order[k].value]  BY <2>10 DEF Replaced
    <3>2. r = [t EXCEPT ![p] = new(order[k])]  BY <2>5, <2>6, <2>7, <3>1 DEF new
    <3>3. r \in Seq(V) /\ Len(r) = Len(t) /\ \A i \in 1..Len(t) : r[i] = IF i = p THEN new(order[k]) ELSE t[i]
      <4> HIDE DEF p
      <4> QED  BY <1>4, <2>5, <2>6, <3>2, ExceptSeq
    <3>4. left(k) = left(k - 1)  BY <2>1, <2>10
    <3> HIDE DEF left, r
    <3>5. ASSUME NEW i \in 1..Len(t)
          PROVE  /\ \A j \in 1..k : Place(order[j]) = o[i] => r[i] = new(order[j])
                 /\ (\A j \in 1..k : Place(order[j]) # o[i]) => r[i] = defs[o[i]]
      <4>1. CASE i = p
        <5>1. \A j \in 1..k : Place(order[j]) = o[i] => j = k  BY <1>1, <1>2, <1>4, <2>1, <2>2, <2>6, <4>1
        <5>2. r[i] = new(order[k]) /\ Place(order[k]) = o[i] /\ k \in 1..k  BY <2>1, <2>6, <3>3, <4>1
        <5> QED  BY <5>1, <5>2
      <4>2. CASE i # p
        <5>1. r[i] = t[i] /\ Place(order[k]) # o[i]  BY <2>9, <3>3, <4>2
        <5> QED  BY <1>5, <2>1, <5>1
      <4> QED  BY <4>1, <4>2
    <3>6. \A i \in 1..(before(k) - 1) : i <= Len(r) /\ o[i] = i  BY <2>4, <2>6, <3>3
    <3>7. Holds(k, r, o)
      <4> HIDE DEF before, p
      <4> QED  BY <1>5, <3>3, <3>4, <3>5, <3>6
    <3> HIDE DEF Holds
    <3> QED  BY <3>7 DEF r
  <2>11. CASE order[k].operation = "delete"
    <3> DEFINE u == [i \in 1..(Len(t) - 1) |-> IF i < p THEN o[i] ELSE o[i + 1]]
               from(i) == IF i < p THEN i ELSE i + 1
    <3>1. r = SubSeq(t, 1, p - 1) \o SubSeq(t, p + 1, Len(t))  BY <2>11 DEF Replaced
    <3>2. r \in Seq(V) /\ Len(r) = Len(t) - 1 /\ \A i \in 1..(Len(t) - 1) : r[i] = IF i < p THEN t[i] ELSE t[i + 1]
      <4> HIDE DEF p, r
      <4> QED  BY <2>5, <2>6, <3>1, OneOut
    <3>3. ASSUME NEW i \in 1..(Len(t) - 1)
          PROVE  /\ from(i) \in 1..Len(t) /\ from(i) # p /\ r[i] = t[from(i)] /\ u[i] = o[from(i)]
      BY <2>5, <2>6, <3>2
    <3>4. \A i, j \in 1..(Len(t) - 1) : i < j => from(i) < from(j)  BY <2>5, <2>6
    <3>5. \A m \in 1..Len(t) : m # p => \E i \in 1..(Len(t) - 1) : from(i) = m
      <4> SUFFICES ASSUME NEW m \in 1..Len(t), m # p PROVE \E i \in 1..(Len(t) - 1) : from(i) = m  OBVIOUS
      <4>1. CASE m < p  BY <2>5, <2>6, <4>1
      <4>2. CASE ~(m < p)
        <5>1. m - 1 \in 1..(Len(t) - 1) /\ from(m - 1) = m  BY <2>5, <2>6, <4>2
        <5> QED  BY <5>1
      <4> QED  BY <4>1, <4>2
    <3>6. left(k) = left(k - 1) \ {p}  BY <2>1, <2>11
    <3>12. \A i \in 1..(before(k) - 1) : i <= Len(t) - 1 /\ u[i] = i  BY <2>4, <2>5, <2>6
    <3>13. u = [i \in 1..(Len(t) - 1) |-> u[i]]  OBVIOUS
    <3> HIDE DEF left, r, u, from, p
    <3>7. u \in [1..Len(r) -> left(k)]  BY <2>8, <2>9, <3>2, <3>3, <3>6, <3>13
    <3>8. \A i, j \in 1..Len(r) : i < j => u[i] < u[j]  BY <1>5, <3>2, <3>3, <3>4
    <3>9. \A at \in left(k) : \E i \in 1..Len(r) : u[i] = at
      <4> SUFFICES ASSUME NEW at \in left(k) PROVE \E i \in 1..Len(r) : u[i] = at  OBVIOUS
      <4>1. PICK m \in 1..Len(t) : o[m] = at  BY <1>5, <3>6
      <4>2. m # p  BY <2>6, <3>6, <4>1
      <4>3. PICK i \in 1..(Len(t) - 1) : from(i) = m  BY <3>5, <4>2
      <4> QED  BY <3>2, <3>3, <4>1, <4>3
    <3>10. ASSUME NEW i \in 1..Len(r)
           PROVE  /\ \A j \in 1..k : Place(order[j]) = u[i] => r[i] = new(order[j])
                  /\ (\A j \in 1..k : Place(order[j]) # u[i]) => r[i] = defs[u[i]]
      <4>1. from(i) \in 1..Len(t) /\ from(i) # p /\ r[i] = t[from(i)] /\ u[i] = o[from(i)]  BY <3>2, <3>3
      <4>2. Place(order[k]) # u[i]  BY <2>9, <4>1 DEF p
      <4> QED  BY <1>5, <2>1, <4>1, <4>2
    <3>11. Holds(k, r, u)
      <4> HIDE DEF before
      <4> QED  BY <3>2, <3>7, <3>8, <3>9, <3>10, <3>12
    <3> HIDE DEF Holds
    <3> QED  BY <3>11 DEF r, p
  <2> QED  BY <1>4, <2>10, <2>11
<1>6. T = {}
  <2> SUFFICES ASSUME T # {} PROVE FALSE  OBVIOUS
  <2>1. PICK k \in T : \A j \in T : k <= j
    <3>1. T \subseteq Nat  BY <1>2
    <3> HIDE DEF T
    <3> QED  BY <3>1, HasLeast
  <2>2. k \in 0..n /\ ~\E o : Holds(k, rest[k], o)  OBVIOUS
  <2>3. k # 0
    <3> SUFFICES ASSUME k = 0 PROVE FALSE  OBVIOUS
    <3> DEFINE o == [i \in 1..Len(defs) |-> i]
    <3>1. rest[0] = defs /\ left(0) = 1..Len(defs) /\ before(0) = Len(defs) + 1  BY <1>1, <1>2, <1>3
    <3>2. Holds(0, defs, o)  BY <1>1, <3>1
    <3> HIDE DEF Holds, o
    <3> QED  BY <2>2, <3>1, <3>2
  <2>4. k - 1 \in 0..n /\ ~(k <= k - 1) /\ k \in 1..n  BY <1>2, <2>2, <2>3
  <2>5. PICK o : Holds(k - 1, rest[k - 1], o)  BY <2>1, <2>4
  <2>6. rest[k] = Replaced(rest[k - 1], order[k], Place(order[k]))  BY <1>3, <2>2, <2>3
  <2> HIDE DEF Holds
  <2>7. \E u : Holds(k, Replaced(rest[k - 1], order[k], Place(order[k])), u)  BY <1>5, <2>4, <2>5
  <2> QED  BY <2>2, <2>6, <2>7
<1>7. PICK o : Holds(n, rest[n], o)
  <2>1. n \in 0..n  BY <1>2
  <2> QED  BY <1>6, <2>1
<1>8. SerializeUpdatedSource(defs, operations) = rest[n]  BY DEF SerializeUpdatedSource, rest, n, order
<1> DEFINE text == rest[n]
           rests == {at \in DOMAIN defs : \A c \in operations : c.definition.at = at => c.operation # "delete"}
<1>9. rests = left(n)  BY <1>2 DEF Place
<1>10. DOMAIN text = 1..Len(text)  BY <1>7
<1>11. ASSUME NEW i \in 1..Len(text)
       PROVE  /\ \A c \in operations : c.definition.at = o[i] => text[i] = [defs[o[i]] EXCEPT !.value = c.value]
              /\ (\A c \in operations : c.definition.at # o[i]) => text[i] = defs[o[i]]
  <2>1. \A c \in operations : c.definition.at = o[i] => text[i] = [defs[o[i]] EXCEPT !.value = c.value]
    <3> SUFFICES ASSUME NEW c \in operations, c.definition.at = o[i]
                 PROVE  text[i] = [defs[o[i]] EXCEPT !.value = c.value]
      OBVIOUS
    <3>1. PICK j \in 1..n : order[j] = c  BY <1>2
    <3>2. text[i] = new(c)  BY <1>7, <3>1 DEF Place
    <3> QED  BY <3>2 DEF new, Place
  <2>2. (\A c \in operations : c.definition.at # o[i]) => text[i] = defs[o[i]]
    <3> HAVE \A c \in operations : c.definition.at # o[i]
    <3>1. \A j \in 1..n : Place(order[j]) # o[i]  BY <1>4 DEF Place
    <3> QED  BY <1>7, <3>1
  <2> QED  BY <2>1, <2>2
<1>12. o \in [DOMAIN text -> rests] /\ (\A i, j \in DOMAIN text : i < j => o[i] < o[j])
       /\ \A at \in rests : \E i \in DOMAIN text : o[i] = at
  BY <1>7, <1>9, <1>10
<1>13. Follows(text, defs, operations)
  <2> HIDE DEF Holds, text
  <2> QED  BY <1>10, <1>11, <1>12 DEF Follows
<1> QED  BY <1>8, <1>13

\* What the draft would write, and that it asks for one change of a definition.
ProposedInv ==
    /\ \A i, j \in DOMAIN items :
          items[i].definition.source = items[j].definition.source /\ items[i].definition.name = items[j].definition.name => i = j
    /\ draft # NoDraft => \A s \in DOMAIN validation.reads :
           draft.proposed[s] = SerializeUpdatedSource(validation.reads[s], ItemsOf(s))

LEMMA ProposedStep == DraftInv /\ ProposedInv /\ [VariableDraftNext]_draftVars => ProposedInv'
<1> SUFFICES ASSUME DraftInv, ProposedInv, [VariableDraftNext]_draftVars PROVE ProposedInv'  OBVIOUS
<1>1. CASE UNCHANGED <<items, validation, draft>>
  <2>1. \A s \in DOMAIN validation.reads : ItemsOf(s)' = ItemsOf(s)  BY <1>1 DEF ItemsOf
  <2> QED  BY <1>1, <2>1 DEF ProposedInv
<1>2. CASE validation.pc # "ready" /\ UNCHANGED <<items, draft>>  BY <1>2, NoDraftYet DEF ProposedInv
<1>3. CASE ComposeItem
  <2>1. PICK shown \in inventory, operation \in {"set", "delete"}, value \in NewValues :
            /\ validation = NoValidation
            /\ \A i \in DOMAIN items : items[i].definition.source # shown.definition.source
                                       \/ items[i].definition.name # shown.definition.name
            /\ items' = Append(items, [definition |-> shown.definition, operation |-> operation,
                                       value |-> IF operation = "set" THEN value ELSE "none",
                                       sourceFingerprint |-> shown.sourceFingerprint])
            /\ draft' = draft
    BY <1>3 DEF ComposeItem
  <2> DEFINE item == [definition |-> shown.definition, operation |-> operation,
                      value |-> IF operation = "set" THEN value ELSE "none",
                      sourceFingerprint |-> shown.sourceFingerprint]
  <2>2. item.definition = shown.definition /\ items' = Append(items, item)  BY <2>1
  <2> HIDE DEF item
  <2>3. /\ DOMAIN items = 1..Len(items) /\ DOMAIN items' = 1..(Len(items) + 1) /\ Len(items) \in Nat
        /\ items'[Len(items) + 1] = item /\ \A i \in 1..Len(items) : items'[i] = items[i]
    BY <2>2 DEF DraftInv
  <2>4. \A i \in DOMAIN items' : i \in DOMAIN items \/ i = Len(items) + 1  BY <2>3
  <2>5. draft' = NoDraft  BY <2>1, NoDraftYet DEF NoValidation
  <2>6. ASSUME NEW i \in DOMAIN items', NEW j \in DOMAIN items',
               items'[i].definition.source = items'[j].definition.source,
               items'[i].definition.name = items'[j].definition.name
        PROVE  i = j
    <3>1. \A k \in DOMAIN items :
              /\ items'[k] = items[k]
              /\ items[k].definition.source # item.definition.source \/ items[k].definition.name # item.definition.name
      BY <2>1, <2>2, <2>3
    <3>2. CASE i \in DOMAIN items /\ j \in DOMAIN items
      <4>1. items'[i] = items[i] /\ items'[j] = items[j]  BY <3>1, <3>2
      <4> QED  BY <2>6, <3>2, <4>1 DEF ProposedInv
    <3>3. CASE i \notin DOMAIN items
      <4>1. i = Len(items) + 1 /\ items'[i] = item  BY <2>3, <2>4, <3>3
      <4>2. j \notin DOMAIN items  BY <2>6, <3>1, <4>1
      <4> QED  BY <2>4, <4>1, <4>2
    <3>4. CASE j \notin DOMAIN items
      <4>1. j = Len(items) + 1 /\ items'[j] = item  BY <2>3, <2>4, <3>4
      <4>2. i \notin DOMAIN items  BY <2>6, <3>1, <4>1
      <4> QED  BY <2>4, <4>1, <4>2
    <3> QED  BY <3>2, <3>3, <3>4
  <2> QED  BY <2>5, <2>6 DEF ProposedInv
<1>4. CASE ReplaceDraft
  <2>1. /\ items' = items /\ validation'.reads = validation.reads
        /\ \A s \in DOMAIN validation.reads :
              draft'.proposed[s] = SerializeUpdatedSource(validation.reads[s], ItemsOf(s))
    BY <1>4 DEF ReplaceDraft, DraftInv, Validated
  <2>2. \A s \in DOMAIN validation.reads : ItemsOf(s)' = ItemsOf(s)  BY <2>1 DEF ItemsOf
  <2>3. \A s \in DOMAIN validation'.reads :
            draft'.proposed[s] = SerializeUpdatedSource(validation'.reads[s], ItemsOf(s)')
    BY <2>1, <2>2
  <2> QED  BY <2>1, <2>3 DEF ProposedInv
<1>5. \/ UNCHANGED draftVars \/ ReadInventorySource
      \/ \E apps \in SUBSET {SourceRecord[s].app : s \in Manifest} : AnswerInventory(apps)
      \/ \E s \in Manifest : EditSource(s)
      => UNCHANGED <<items, validation, draft>>
  BY DEF draftVars, ReadInventorySource, AnswerInventory, EditSource
<1>6. StartValidation \/ RefuseRequest => validation.pc # "ready" /\ UNCHANGED <<items, draft>>
  BY DEF StartValidation, RefuseRequest, NoValidation
<1>7. ValidateItem => validation.pc # "ready" /\ UNCHANGED <<items, draft>>
  BY DEF ValidateItem
<1>8. ASSUME \E accepts \in BOOLEAN : ApplicationValidator(accepts)
      PROVE  validation.pc # "ready" /\ UNCHANGED <<items, draft>>
  BY <1>8 DEF ApplicationValidator
<1>9. ReadFails \/ ParseFails \/ StoreFails => validation.pc # "ready" /\ UNCHANGED <<items, draft>>
  BY DEF ReadFails, ParseFails, StoreFails, FailsAt
<1> QED  BY <1>1, <1>2, <1>3, <1>4, <1>5, <1>6, <1>7, <1>8, <1>9 DEF VariableDraftNext

LEMMA ProposedIsExact == DraftInv /\ ProposedInv => DraftIsExact
<1> SUFFICES ASSUME DraftInv, ProposedInv, draft # NoDraft, NEW s \in draft.plan.sources
             PROVE  Follows(draft.proposed[s], validation.reads[s], ItemsOf(s))
  BY DEF DraftIsExact, DraftInv, ItemsOf
<1> DEFINE I == {j \in DOMAIN items : items[j].definition.source = s}
           defs == validation.reads[s]
<1>1. validation.pc = "ready" /\ s \in DOMAIN validation.reads  BY DEF DraftInv
<1>2. Len(items) \in Nat /\ DOMAIN items = 1..Len(items) /\ \A i \in DOMAIN items : items[i] \in Asked  BY DEF DraftInv
<1>3. \A i \in DOMAIN items : Found(items[i], validation.reads)  BY <1>1, <1>2 DEF DraftInv, Validated
<1>4. PICK i \in DOMAIN items : items[i].definition.source = s  BY <1>1 DEF DraftInv, Validated
<1>5. ASSUME NEW j \in I
      PROVE  /\ defs = seen[s] /\ s \in DOMAIN seen /\ Place(items[j]) \in DOMAIN defs
             /\ items[j].operation \in {"set", "delete"}
             /\ defs[Place(items[j])].name = items[j].definition.name
  <2>1. items[j].definition \in Definitions(seen) /\ defs = seen[s]  BY <1>2, <1>3 DEF Asked, Found
  <2>2. items[j].operation \in {"set", "delete"}  BY <1>2 DEF Asked
  <2> QED  BY <2>1, <2>2, DefinitionsPlace DEF Place
<1>6. IsSequence(defs)  BY <1>4, <1>5 DEF DraftInv, Read
<1>7. IsFiniteSet(ItemsOf(s))
  <2>1. IsFiniteSet(1..Len(items))
    <3>1. 1 \in Int /\ Len(items) \in Int  BY <1>2
    <3> QED  BY <3>1, FS_Interval, Zenon
  <2>2. IsFiniteSet(I)  BY <1>2, <2>1, FS_Subset
  <2> DEFINE f == [j \in I |-> items[j]]
  <2>3. f \in Surjection(I, ItemsOf(s))  BY DEF Surjection, ItemsOf
  <2> HIDE DEF f, I
  <2> QED  BY <2>2, <2>3, FS_Surjection
<1>8. \A c \in ItemsOf(s) : Place(c) \in DOMAIN defs /\ c.operation \in {"set", "delete"}  BY <1>5 DEF ItemsOf
<1>9. \A c, d \in ItemsOf(s) : Place(c) = Place(d) => c = d
  <2> SUFFICES ASSUME NEW j \in I, NEW k \in I, Place(items[j]) = Place(items[k]) PROVE items[j] = items[k]  BY DEF ItemsOf
  <2>1. items[j].definition.name = items[k].definition.name  BY <1>5
  <2> QED  BY <2>1 DEF ProposedInv
<1>10. draft.proposed[s] = SerializeUpdatedSource(defs, ItemsOf(s))  BY <1>1 DEF ProposedInv
<1> HIDE DEF defs
<1>11. Follows(draft.proposed[s], defs, ItemsOf(s))  BY <1>6, <1>7, <1>8, <1>9, <1>10, SerializedIsExact
<1> QED  BY <1>11 DEF defs

\* What a draft would write to each source is the source with the changes that were
\* asked for and nothing else, in the order of the file, for any sources, edits and
\* changes (validationService.ts; serializeUpdatedSource of adapters/types.ts).
THEOREM DraftExact == VariableDraftSpec => []DraftIsExact
<1>1. VariableDraftInit => ProposedInv  BY DEF VariableDraftInit, ProposedInv
<1> QED  BY <1>1, DraftStart, DraftStep, ProposedStep, ProposedIsExact, PTL DEF VariableDraftSpec

\* What a draft is checked for, and what the owner is asked about it, is what the
\* agent later applies, for any sources, catalogue, edits, clicks and answers
\* (inventoryService.ts, validationService.ts, VariablesPage.tsx,
\* variablesSecurityRoutes.ts, postgresConfigChangeRepository.ts).
THEOREM VariableChangesSound == VariableDraftSpec /\ VariablesPageSpec => []VariableChangesAreSound
<1>1. VariableDraftIsSound /\ VariablesPageIsSafe => VariableChangesAreSound  BY DEF VariableChangesAreSound
<1> QED  BY <1>1, DraftSafe, VariablesPageSafe, PTL
======

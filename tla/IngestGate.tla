------ MODULE IngestGate ------
(* What a telemetry request passes before it is stored: apps/api/src/
   modules/ingest.  A server request carries a signature over a timestamp
   and a nonce, which is consumed in a table that forgets expired nonces;
   a browser request is counted per minute in up to three dimensions.
   Every table is reached by single statements, between which requests
   interleave; the network may deliver a request twice, and an operator
   may disable a client at any time. *)
EXTENDS Integers, Sequences, FiniteSets, FiniteSetsExt

CONSTANTS
    ServerRequests,   \* signed requests
    BatchOf,          \* the envelopes of each of them
    BrowserRequests,
    Window,           \* seconds a timestamp is valid (60)
    SessionOf,        \* the session of a browser request, or "none"
    RateLimit,        \* requests per minute in every dimension
    MaxSecond, MaxCopies,
    MaxArrivals,      \* copies of requests that arrive
    MaxRequestFaults  \* requests that fail on the way

ASSUME IngestGateAssumption ==
    {Window, RateLimit, MaxSecond, MaxCopies, MaxArrivals, MaxRequestFaults} \subseteq Nat

VARIABLES
    second,        \* the clock; a minute is MinuteLength seconds
    signedAt,      \* the timestamp of every server request, -1 before it is sent
    nonces,        \* ingest_nonces: [of, expires]
    counts,        \* ingest_rate_limits: requests per <<minute, dimension, value>>
    clientActive,  \* ingest_clients.status
    handler,       \* the requests being handled: copy -> [pc, now, todo]
    copies,        \* copies delivered of every request
    rawRows,       \* ingest_idempotency: the stored envelopes
    passes         \* history: [request, at] of the nonces that were accepted

gateVars == <<second, signedAt, nonces, counts, clientActive, handler, copies, rawRows, passes>>

GateRequests == ServerRequests \cup BrowserRequests
Copies == GateRequests \X (1..MaxCopies)
NotHandled == [pc |-> "none", now |-> 0, todo |-> {}]
MinuteLength == 2
Minute(t) == t \div MinuteLength

\* The dimensions of the rate limiter, in the order in which they are counted.
Dimensions(r) ==
    IF SessionOf[r] = "none" THEN <<"ip", "fingerprint">> ELSE <<"ip", "session", "fingerprint">>

GateInit ==
    /\ second = 0 /\ signedAt = [r \in ServerRequests |-> -1]
    /\ nonces = {} /\ counts = [k \in {} |-> 0] /\ clientActive = TRUE
    /\ handler = [c \in Copies |-> NotHandled] /\ copies = [r \in GateRequests |-> 0]
    /\ rawRows = {} /\ passes = {}

Goes(c, h) == handler' = [handler EXCEPT ![c] = h]
\* A copy is accepted (202), refused (401, 429), or it failed (500).
Answered(c, how) == Goes(c, [NotHandled EXCEPT !.pc = how])

-----
\* createSignedServerTransport signs with a fresh nonce and the time of the
\* sender, whose clock may be ahead or behind by a second.
Sign(r) ==
    /\ signedAt[r] = -1
    /\ \E t \in {second, second + 1} : signedAt' = [signedAt EXCEPT ![r] = t]
    /\ UNCHANGED <<second, nonces, counts, clientActive, handler, copies, rawRows, passes>>

\* The row of the client, read when the request arrives.
FindClient == clientActive

\* verifyServerIngestRequest, before it consumes the nonce.
VerifyTimestamp(r) == second - signedAt[r] \in -Window..Window

\* authenticate of a server request, and the checks of a browser request, which
\* carries no signature.  The signature, the origin and the envelope are right.
Authenticate(r) == FindClient /\ VerifyTimestamp(r)
BrowserChecks(r) == FindClient

\* A copy of a request arrives: the client is looked up, the time is read and,
\* for a server request, the window of the timestamp is checked.
Receive(r) ==
    /\ copies[r] < MaxCopies /\ MapThenSumSet(LAMBDA q : copies[q], GateRequests) < MaxArrivals
    /\ r \in ServerRequests => signedAt[r] # -1
    /\ copies' = [copies EXCEPT ![r] = @ + 1]
    /\ LET c == <<r, copies[r] + 1>>
       IN  IF ~(IF r \in ServerRequests THEN Authenticate(r) ELSE BrowserChecks(r))
           THEN Answered(c, "refused")
           ELSE /\ Goes(c, [pc |-> IF r \in ServerRequests THEN "forget" ELSE "count", now |-> second,
                            todo |-> IF r \in ServerRequests THEN {} ELSE {1}])
    /\ UNCHANGED <<second, signedAt, nonces, counts, clientActive, rawRows, passes>>

\* consume: expired nonces are deleted by one statement ...
ForgetNonces(c) ==
    /\ handler[c].pc = "forget"
    /\ nonces' = {n \in nonces : n.expires > handler[c].now}
    /\ Goes(c, [handler[c] EXCEPT !.pc = "consume"])
    /\ UNCHANGED <<second, signedAt, counts, clientActive, copies, rawRows, passes>>

\* Mutant of ConsumeNonce: the nonce expires with its timestamp.
ConsumeNonceBriefly(c) ==
    LET r == c[1] IN
    /\ handler[c].pc = "consume"
    /\ IF \E n \in nonces : n.of = r
       THEN Answered(c, "refused") /\ UNCHANGED <<nonces, passes>>
       ELSE /\ nonces' = nonces \cup {[of |-> r, expires |-> signedAt[r]]}
            /\ Goes(c, [handler[c] EXCEPT !.pc = "store", !.todo = BatchOf[r]])
            /\ passes' = passes \cup {[request |-> r, at |-> handler[c].now, copy |-> c[2]]}
    /\ UNCHANGED <<second, signedAt, counts, clientActive, copies, rawRows>>

\* ... and the nonce is inserted by the next, unless it is there.
ConsumeNonce(c) ==
    LET r == c[1] IN
    /\ handler[c].pc = "consume"
    /\ IF \E n \in nonces : n.of = r
       THEN Answered(c, "refused") /\ UNCHANGED <<nonces, passes>>
       ELSE /\ nonces' = nonces \cup {[of |-> r, expires |-> signedAt[r] + Window]}
            /\ Goes(c, [handler[c] EXCEPT !.pc = "store", !.todo = BatchOf[r]])
            /\ passes' = passes \cup {[request |-> r, at |-> handler[c].now, copy |-> c[2]]}
    /\ UNCHANGED <<second, signedAt, counts, clientActive, copies, rawRows>>

\* allow: one atomic upsert per dimension, the first at its limit refuses.
Increment(c) ==
    LET r == c[1]
        i == CHOOSE x \in handler[c].todo : TRUE
        key == <<Minute(handler[c].now), Dimensions(r)[i]>>
        count == IF key \in DOMAIN counts THEN counts[key] ELSE 0
    IN  /\ handler[c].pc = "count"
        /\ IF count >= RateLimit
           THEN Answered(c, "refused") /\ UNCHANGED counts
           ELSE /\ counts' = [k \in DOMAIN counts \cup {key} |-> IF k = key THEN count + 1 ELSE counts[k]]
                /\ Goes(c, IF i = Len(Dimensions(r)) THEN [handler[c] EXCEPT !.pc = "store", !.todo = {r}]
                           ELSE [handler[c] EXCEPT !.todo = {i + 1}])
        /\ UNCHANGED <<second, signedAt, nonces, clientActive, copies, rawRows, passes>>

\* insertRaw of one envelope; the envelopes of a batch are stored in any order.
StoreEnvelope(c) ==
    /\ handler[c].pc = "store"
    /\ \E x \in handler[c].todo :
        /\ rawRows' = rawRows \cup {x}
        /\ IF handler[c].todo = {x}
           THEN Answered(c, "accepted")
           ELSE Goes(c, [handler[c] EXCEPT !.todo = @ \ {x}])
    /\ UNCHANGED <<second, signedAt, nonces, counts, clientActive, copies, passes>>

\* The API dies, or one statement of a batch fails: no 202 is given.
RequestFails(c) ==
    /\ handler[c].pc \in {"forget", "consume", "count", "store"}
    /\ Cardinality({d \in Copies : handler[d].pc = "failed"}) < MaxRequestFaults
    /\ Answered(c, "failed")
    /\ UNCHANGED <<second, signedAt, nonces, counts, clientActive, copies, rawRows, passes>>

SecondPasses ==
    /\ second < MaxSecond /\ second' = second + 1
    /\ UNCHANGED <<signedAt, nonces, counts, clientActive, handler, copies, rawRows, passes>>

DisableClient ==
    /\ clientActive /\ clientActive' = FALSE
    /\ UNCHANGED <<second, signedAt, nonces, counts, handler, copies, rawRows, passes>>

GateNext ==
    \/ \E r \in ServerRequests : Sign(r)
    \/ \E r \in GateRequests : Receive(r)
    \/ \E c \in Copies : ForgetNonces(c) \/ ConsumeNonce(c) \/ Increment(c) \/ StoreEnvelope(c) \/ RequestFails(c)
    \/ SecondPasses \/ DisableClient

GateSpec == GateInit /\ [][GateNext]_gateVars

-----
\* As long as the window of its timestamp is open a signed request has passed
\* once, whoever deletes nonces meanwhile.  At the last instant of the window
\* the nonce is forgotten although the timestamp is still accepted, and a copy
\* that was checked earlier and is late may pass then too.
PassesOnce ==
    \A a, b \in passes :
        a.request = b.request /\ a.copy # b.copy => second >= signedAt[a.request] + Window

\* In no minute do more browser requests pass a dimension than its limit.
RateLimitHolds == \A k \in DOMAIN counts : counts[k] <= RateLimit

\* A 202 means that every envelope of the request is stored.
AnswerIsTrue ==
    \A c \in Copies : handler[c].pc = "accepted" =>
        (IF c[1] \in ServerRequests THEN BatchOf[c[1]] ELSE {c[1]}) \subseteq rawRows

GateHolds == PassesOnce /\ RateLimitHolds /\ AnswerIsTrue
======

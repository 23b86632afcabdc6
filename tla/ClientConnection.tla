-------------------------- MODULE ClientConnection --------------------------
(***************************************************************************)
(* Client connections of serviceimpl, behind the websocket handler of web  *)
(* and in front of the topic of one device in membroker.  Goroutines:      *)
(* handleOutbound, which handles the client's messages; sendInitMessages;  *)
(* once authenticated, one that passes on what the broker delivers and one *)
(* that warns of low pre keys; and the reader and the writer of the        *)
(* websocket.  All but the reader put messages into the bounded channel    *)
(* conn.in, which only the writer empties.  What the database, presence    *)
(* repository and attachments manager answer is a choice.                  *)
(***************************************************************************)
EXTENDS MemBroker, FiniteSets

CONSTANTS
  Conns,          \* connections; other subscribers transfer messages to
                  \* another host
  Other,          \* goroutines that publish what other hosts forward
  None,
  InCap,          \* capacity of conn.in (10 in the code)
  MaxRequests,    \* bound: requests a client sends on a connection
  MaxWarnings     \* bound: low pre key warnings on a connection

VARIABLES
  sock,           \* the websocket: none, open or closed
  rpc, rhand,     \* the reader of the handler, and the message it hands over
  wpc,            \* the writer of the handler
  closed,         \* conn.closeCh is closed
  identity,       \* conn.identityKey is set
  builder,        \* conn.mb.seq, without the numbers that nobody acks
  in,             \* conn.in
  unackedMessages,
  ops,            \* what the running handler has yet to do
  hpc,            \* handleOutbound runs or has ended
  init,           \* messages sendInitMessages has yet to send
  ipc,            \* the goroutine that startHandlingInbound starts
  warnings,       \* warnings that warnPreKeysLowIfNecessary may yet send
  push,           \* what the former waits to put into conn.in
  toAck,          \* what a consumer received and has not acked: the sequence
                  \* numbers, or of other subscribers the broker's messages
  asked,          \* how many requests the client has sent
  waiting,        \* requests that need an answer and have none yet
  received        \* history: the broker's messages that consumers received

web == <<sock, rpc, rhand, wpc, closed>>
handling == <<identity, unackedMessages, ops, hpc>>
pushers == <<builder, init, ipc, warnings, push>>
client == <<toAck, asked, waiting, received>>
connVars == <<web, in, handling, pushers, client>>
vars == <<brokerVars, connVars>>

(***************************************************************************)
(* Messages.  One from the client has a kind; an Ack has the sequence      *)
(* number it acks, any other its own.  One to the client answers a request *)
(* by its number or is one of the service's own; the numbers of these only *)
(* matter for inbound messages, which carry a message m of the broker.     *)
(* Requests with the same outcomes share a kind: Register and Unregister,  *)
(* and RequestPreKeys and both FindChatNumber requests.                    *)
(***************************************************************************)
Requests == {"AuthResponse", "Register", "RequestPreKeys",
             "RequestUploadAuthorizations", "OutboundMessage"}

MaxSequence == 2 * MaxMessages

Numbers == 0..(MaxSequence + MaxRequests)
FromClient == [kind : Requests \cup {"Ack"}, sequence : Numbers]
ToClient == [kind : {"answer", "error", "init", "inbound", "low"},
             sequence : Numbers, m : Message \cup {None}]

ASSUME ConnectionConstants ==
  /\ Conns \subseteq Subs
  /\ Other \notin Conns
  /\ Publishers = Conns \cup {Other}
  /\ Free \notin Publishers
  /\ None \notin FromClient
  /\ None \notin ToClient
  /\ InCap \in Nat \ {0}
  /\ MaxMessages \in Nat \ {0}
  /\ MaxRequests \in Nat
  /\ MaxWarnings \in Nat

Msg(kind, n, m) == [kind |-> kind, sequence |-> n, m |-> m]

Init ==
  /\ BrokerInit
  /\ sock = [c \in Conns |-> "none"]
  /\ rpc = [c \in Conns |-> "none"]
  /\ rhand = [c \in Conns |-> None]
  /\ wpc = [c \in Conns |-> "none"]
  /\ closed = [c \in Conns |-> FALSE]
  /\ identity = [c \in Conns |-> FALSE]
  /\ builder = [c \in Conns |-> 0]
  /\ in = [c \in Conns |-> <<>>]
  /\ unackedMessages = [c \in Conns |-> {}]
  /\ ops = [c \in Conns |-> <<>>]
  /\ hpc = [c \in Conns |-> "none"]
  /\ init = [c \in Conns |-> 0]
  /\ ipc = [c \in Conns |-> "none"]
  /\ warnings = [c \in Conns |-> 0]
  /\ push = [c \in Conns |-> None]
  /\ toAck = [s \in Subs |-> {}]
  /\ asked = [c \in Conns |-> 0]
  /\ waiting = [c \in Conns |-> {}]
  /\ received = {}

-----------------------------------------------------------------------------
(***************************************************************************)
(* conn.in and the goroutines that send to it.                             *)
(***************************************************************************)

Room(c) == Len(in[c]) < InCap

\* A send to conn.in.
Send(c, msg) == Room(c) /\ in' = [in EXCEPT ![c] = Append(@, msg)]

\* AuthChallenge and Configuration.
sendInitMessages(c) ==
  /\ init[c] > 0
  /\ Send(c, Msg("init", 0, None))
  /\ init' = [init EXCEPT ![c] = @ - 1]
  /\ UNCHANGED <<brokerVars, web, handling, builder, ipc, warnings, push, client>>

\* Mutant: the counter is read and not incremented.
BuildAgain(c) == builder' = builder

\* mb.Build takes the next sequence number.
Build(c) == builder' = [builder EXCEPT ![c] = @ + 1]

\* Mutant: the message is sent without its acker being kept.
handleInboundUnkept(c, m) ==
  /\ Build(c)
  /\ LET msg == Msg("inbound", builder[c], m)
     IN  IF Room(c) THEN Send(c, msg) /\ UNCHANGED push
                    ELSE push' = [push EXCEPT ![c] = msg] /\ UNCHANGED in
  /\ UNCHANGED unackedMessages

\* The acker of m is kept under the number the client will ack it by; then m is
\* sent, which blocks if conn.in is full.
handleInboundMessage(c, m) ==
  /\ Build(c)
  /\ LET msg == Msg("inbound", builder[c], m)
     IN  IF Room(c) THEN Send(c, msg) /\ UNCHANGED push
                    ELSE push' = [push EXCEPT ![c] = msg] /\ UNCHANGED in
  /\ unackedMessages' = [unackedMessages EXCEPT ![c] = @ \cup {<<builder[c], m>>}]

\* The goroutine of startHandlingInbound: a message of the broker, the end of a
\* send that blocked, or closeCh closed, which closes the subscriber.
HandleInbound(c) ==
  /\ ipc[c] = "select"
  /\ push[c] = None
  /\ builder[c] < MaxSequence
  /\ \E m \in Message : Receives(c, m) /\ handleInboundMessage(c, m)
  /\ UNCHANGED <<web, identity, ops, hpc, init, ipc, warnings, client>>

InboundResumes(c) ==
  /\ push[c] # None
  /\ Send(c, push[c])
  /\ push' = [push EXCEPT ![c] = None]
  /\ UNCHANGED <<brokerVars, web, handling, builder, init, ipc, warnings, client>>

InboundEnds(c) ==
  /\ ipc[c] = "select"
  /\ push[c] = None
  /\ closed[c]
  /\ ipc' = [ipc EXCEPT ![c] = "done"]
  /\ CloseSubscriber(c)
  /\ UNCHANGED <<web, in, handling, builder, init, warnings, push, client>>

\* A check finds too few pre keys; a warning may still follow closeCh.
warnPreKeysLowIfNecessary(c) ==
  /\ warnings[c] > 0
  /\ Send(c, Msg("low", 0, None))
  /\ warnings' = [warnings EXCEPT ![c] = @ - 1]
  /\ UNCHANGED <<brokerVars, web, handling, builder, init, ipc, push, client>>

-----------------------------------------------------------------------------
(***************************************************************************)
(* handleOutbound.  A handler is the set of the sequences of operations it *)
(* may perform, one for each way its calls can turn out.                   *)
(***************************************************************************)

error(n) == Msg("error", n, None)
answer(n) == Msg("answer", n, None)
close == Msg("close", 0, None)
subscribe == Msg("subscribe", 0, None)

\* getNumber fails in the last two, and the handler goes on; the subscriber
\* cannot be opened in the second and the fourth.
handleAuthResponse(n) ==
  {<<subscribe, answer(n)>>, <<error(n)>>,
   <<error(n), close, subscribe, answer(n)>>, <<error(n), close, error(n)>>}

\* Login is not a Login, has another nonce or a wrong signature.
refuseAuthResponse(n) == <<error(n), close>>

\* Also handleUnregister.
handleRegister(n) == {<<error(n)>>, <<answer(n)>>}

\* Mutant: the error is not sent.
handleRequestPreKeysSilently(n) == {<<>>, <<answer(n)>>}

handleRequestPreKeys(n) == {<<error(n)>>, <<answer(n)>>}

\* handleFindChatNumberByShortNumber and handleFindChatNumberByIdentityKey.
handleFindChatNumber(n) == {<<error(n)>>, <<answer(n)>>}

\* Nothing is sent when nothing was requested.
handleRequestUploadAuthorizations(n) == {<<error(n)>>, <<answer(n)>>, <<>>}

sendOutboundMessage(n) == {<<Msg("publish", n, None), answer(n)>>, <<error(n)>>}

handleACK(c, n) ==
  LET found == {e \in unackedMessages[c] : e[1] = n}
  IN  IF found = {} THEN {<<>>} ELSE {<<Msg("acker", n, e[2])>> : e \in found}

isAuthenticated(c) == identity[c]

\* Register and Unregister are for authenticated connections only, all other
\* requests for anonymous ones only.
Handlers(c, msg) ==
  LET n == msg.sequence
      allowed == (msg.kind = "Register") = isAuthenticated(c)
  IN  CASE msg.kind = "Ack" -> handleACK(c, n)
        [] msg.kind # "Ack" /\ ~allowed -> {<<error(n)>>}
        [] msg.kind = "AuthResponse" /\ allowed -> handleAuthResponse(n)
        [] msg.kind = "Register" /\ allowed -> handleRegister(n)
        [] msg.kind = "RequestPreKeys" /\ allowed ->
             handleRequestPreKeys(n) \cup handleFindChatNumber(n)
        [] msg.kind = "OutboundMessage" /\ allowed -> sendOutboundMessage(n)
        [] msg.kind = "RequestUploadAuthorizations" /\ allowed ->
             handleRequestUploadAuthorizations(n)

\* Both goroutines of the websocket have ended: ServeHTTP returns and closes
\* the connection.
HandlerReturns(c) ==
  closed' = [closed EXCEPT ![c] = @ \/ (rpc'[c] = "done" /\ wpc'[c] = "done")]

\* Mutant: the reader keeps the message it has handed over.
ReaderKeepsMessage(c) ==
  /\ rpc' = [rpc EXCEPT ![c] = IF sock[c] = "open" THEN "read" ELSE "done"]
  /\ UNCHANGED <<sock, wpc, rhand>>
  /\ HandlerReturns(c)

\* The reader, rid of its message, reads on, which fails once the socket is
\* closed; that closes stopCh.
ReaderGoesOn(c) ==
  /\ rpc' = [rpc EXCEPT ![c] = IF sock[c] = "open" THEN "read" ELSE "done"]
  /\ rhand' = [rhand EXCEPT ![c] = None]
  /\ UNCHANGED <<sock, wpc>>
  /\ HandlerReturns(c)

\* handleOutbound takes the message that the reader hands over.
doHandleOutboundMessage(c) ==
  /\ hpc[c] = "select"
  /\ ops[c] = <<>>
  /\ rpc[c] = "give"
  /\ ReaderGoesOn(c)
  /\ \/ /\ \E o \in Handlers(c, rhand[c]) : ops' = [ops EXCEPT ![c] = o]
        /\ identity' = [identity EXCEPT ![c] = @ \/ rhand[c].kind = "AuthResponse"]
     \/ /\ rhand[c].kind = "AuthResponse"
        /\ ~identity[c]
        /\ ops' = [ops EXCEPT ![c] = refuseAuthResponse(rhand[c].sequence)]
        /\ UNCHANGED identity
  /\ UNCHANGED <<brokerVars, in, unackedMessages, hpc, pushers, client>>

Doing(c, kinds) == ops[c] # <<>> /\ Head(ops[c]).kind \in kinds
Done(c) == ops' = [ops EXCEPT ![c] = Tail(@)]

\* conn.ack, conn.error and conn.send.
send(c) ==
  /\ Doing(c, {"answer", "error"})
  /\ Send(c, Head(ops[c]))
  /\ Done(c)
  /\ UNCHANGED <<brokerVars, web, identity, unackedMessages, hpc, pushers, client>>

Close(c) ==
  /\ Doing(c, {"close"})
  /\ closed' = [closed EXCEPT ![c] = TRUE]
  /\ Done(c)
  /\ UNCHANGED <<brokerVars, sock, rpc, rhand, wpc, in, identity,
                 unackedMessages, hpc, pushers, client>>

\* Two goroutines start: one for the subscriber, one that checks pre keys.
startHandlingInbound(c) ==
  /\ Doing(c, {"subscribe"})
  /\ NewSubscriber(c)
  /\ ipc' = [ipc EXCEPT ![c] = "select"]
  /\ warnings' = [warnings EXCEPT ![c] = MaxWarnings]
  /\ Done(c)
  /\ UNCHANGED <<web, in, identity, unackedMessages, hpc, builder, init, push,
                 client>>

\* publisher.Publish returns, or waits for room in the topic's channel; or the
\* topic is the one of another device or the forwarding topic.
PublishOutbound(c) ==
  /\ Doing(c, {"publish"})
  /\ mx # c
  /\ \/ Publish(c) /\ (IF mx' = c THEN UNCHANGED ops ELSE Done(c))
     \/ Done(c) /\ UNCHANGED brokerVars
  /\ UNCHANGED <<web, in, identity, unackedMessages, hpc, pushers, client>>

\* There is room for whoever waits, which may be a connection's handler.
PublishReturns(p) ==
  /\ PublishResumes(p)
  /\ ops' = [c \in Conns |-> IF c = p THEN Tail(ops[c]) ELSE ops[c]]
  /\ UNCHANGED <<web, in, identity, unackedMessages, hpc, pushers, client>>

\* The acker; its entry is kept if it fails, as redisbroker's may.
Acker(c) ==
  /\ Doing(c, {"acker"})
  /\ \/ /\ ack(Head(ops[c]).m)
        /\ unackedMessages' = [unackedMessages EXCEPT ![c] =
                                 @ \ {<<Head(ops[c]).sequence, Head(ops[c]).m>>}]
     \/ UNCHANGED <<brokerVars, unackedMessages>>
  /\ Done(c)
  /\ UNCHANGED <<web, in, identity, hpc, pushers, client>>

OutboundEnds(c) ==
  /\ hpc[c] = "select"
  /\ ops[c] = <<>>
  /\ closed[c]
  /\ hpc' = [hpc EXCEPT ![c] = "done"]
  /\ UNCHANGED <<brokerVars, web, in, identity, unackedMessages, ops, pushers,
                 client>>

-----------------------------------------------------------------------------
Connect(c) ==
  /\ hpc' = [hpc EXCEPT ![c] = "select"]
  /\ init' = [init EXCEPT ![c] = 2]

\* ServeHTTP: Connect starts two goroutines, an accepted websocket two more.
\* If it is not accepted the connection is closed at once.
ServeHTTP(c) ==
  /\ sock[c] = "none"
  /\ Connect(c)
  /\ \E accepted \in BOOLEAN :
       /\ sock' = [sock EXCEPT ![c] = IF accepted THEN "open" ELSE "closed"]
       /\ rpc' = [rpc EXCEPT ![c] = IF accepted THEN "read" ELSE "done"]
       /\ wpc' = [wpc EXCEPT ![c] = IF accepted THEN "select" ELSE "done"]
       /\ closed' = [closed EXCEPT ![c] = ~accepted]
  /\ UNCHANGED <<brokerVars, rhand, in, identity, unackedMessages, ops,
                 builder, ipc, warnings, push, client>>

\* The client sends msg, and the reader reads it.
Read(c, msg) ==
  /\ sock[c] = "open"
  /\ rpc[c] = "read"
  /\ rpc' = [rpc EXCEPT ![c] = "give"]
  /\ rhand' = [rhand EXCEPT ![c] = msg]
  /\ UNCHANGED <<brokerVars, sock, wpc, closed, in, handling, pushers, received>>

ClientAsks(c) ==
  /\ asked[c] < MaxRequests
  /\ \E kind \in Requests :
       /\ Read(c, [kind |-> kind, sequence |-> asked[c] + 1])
       /\ waiting' = [waiting EXCEPT ![c] =
                        IF kind = "RequestUploadAuthorizations" THEN @
                        ELSE @ \cup {asked[c] + 1}]
  /\ asked' = [asked EXCEPT ![c] = @ + 1]
  /\ UNCHANGED toAck

ClientAcks(c) ==
  \E n \in toAck[c] :
    /\ Read(c, [kind |-> "Ack", sequence |-> n])
    /\ toAck' = [toAck EXCEPT ![c] = @ \ {n}]
    /\ UNCHANGED <<asked, waiting>>

\* The client or the network closes the socket, or the client stays silent for
\* 60 seconds, does not answer a ping, or asks for the connection to be closed.
SocketCloses(c) ==
  /\ sock[c] = "open"
  /\ sock' = [sock EXCEPT ![c] = "closed"]
  /\ rpc' = [rpc EXCEPT ![c] = IF @ = "read" THEN "done" ELSE @]
  /\ UNCHANGED wpc
  /\ HandlerReturns(c)
  /\ UNCHANGED <<brokerVars, rhand, in, handling, pushers, client>>

\* The writer takes a message from conn.in and the client receives it.
Write(c) ==
  /\ wpc[c] = "select"
  /\ in[c] # <<>>
  /\ sock[c] = "open"
  /\ in' = [in EXCEPT ![c] = Tail(@)]
  /\ LET msg == Head(in[c])
     IN  IF msg.kind = "inbound"
         THEN /\ toAck' = [toAck EXCEPT ![c] = @ \cup {msg.sequence}]
              /\ received' = received \cup {msg.m}
              /\ UNCHANGED waiting
         ELSE /\ waiting' = [waiting EXCEPT ![c] = @ \ {msg.sequence}]
              /\ UNCHANGED <<toAck, received>>
  /\ UNCHANGED <<brokerVars, web, handling, pushers, asked>>

\* A write fails, with its message lost, or stopCh is closed.
WriterEnds(c) ==
  /\ wpc[c] = "select"
  /\ wpc' = [wpc EXCEPT ![c] = "done"]
  /\ \/ sock[c] = "closed" /\ in[c] # <<>> /\ in' = [in EXCEPT ![c] = Tail(@)]
     \/ rpc[c] = "done" /\ UNCHANGED in
  /\ UNCHANGED rpc
  /\ HandlerReturns(c)
  /\ UNCHANGED <<brokerVars, sock, rhand, handling, pushers, client>>

-----------------------------------------------------------------------------
Goroutines(c) ==
  \/ sendInitMessages(c)
  \/ HandleInbound(c)
  \/ InboundResumes(c)
  \/ InboundEnds(c)
  \/ warnPreKeysLowIfNecessary(c)
  \/ doHandleOutboundMessage(c)
  \/ send(c)
  \/ Close(c)
  \/ startHandlingInbound(c)
  \/ PublishOutbound(c)
  \/ Acker(c)
  \/ OutboundEnds(c)
  \/ Write(c)
  \/ WriterEnds(c)

Broker(s) == (process(s) \/ OfferTimesOut(s)) /\ UNCHANGED connVars

\* Whoever else publishes to the topic or subscribes to it.
OtherPublishes == Publish(Other) /\ UNCHANGED connVars

OtherSubscribes(s) == NewSubscriber(s) /\ UNCHANGED connVars

OtherReceives(s) ==
  /\ \E m \in Message : /\ Receives(s, m)
                        /\ toAck' = [toAck EXCEPT ![s] = @ \cup {m}]
                        /\ received' = received \cup {m}
  /\ UNCHANGED <<web, in, handling, pushers, asked, waiting>>

OtherAcks(s) ==
  /\ \E m \in toAck[s] : ack(m) /\ toAck' = [toAck EXCEPT ![s] = @ \ {m}]
  /\ UNCHANGED <<web, in, handling, pushers, asked, waiting, received>>

Next ==
  \/ OtherPublishes
  \/ \E p \in Publishers : PublishReturns(p)
  \/ \E s \in Subs : Broker(s)
  \/ \E c \in Conns : \/ ServeHTTP(c)
                      \/ ClientAsks(c)
                      \/ ClientAcks(c)
                      \/ SocketCloses(c)
                      \/ Goroutines(c)
  \/ \E s \in Subs \ Conns : \/ OtherSubscribes(s)
                             \/ OtherReceives(s)
                             \/ OtherAcks(s)

\* What the process itself does.  Its goroutines are scheduled and its timers
\* fire; nothing is assumed of clients, other publishers or other consumers.
System ==
  \/ \E p \in Publishers : PublishReturns(p)
  \/ \E s \in Subs : Broker(s)
  \/ \E c \in Conns : Goroutines(c)

Spec == Init /\ [][Next]_vars /\ WF_vars(System)

-----------------------------------------------------------------------------
(***************************************************************************)
(* Properties.                                                             *)
(***************************************************************************)

\* Every variable has its type; the reader has a message exactly while it
\* hands one over, and conn.in stays within its capacity.
TypeOK ==
  /\ BrokerTypeOK
  /\ sock \in [Conns -> {"none", "open", "closed"}]
  /\ rpc \in [Conns -> {"none", "read", "give", "done"}]
  /\ rhand \in [Conns -> FromClient \cup {None}]
  /\ \A c \in Conns : (rhand[c] # None) = (rpc[c] = "give")
  /\ wpc \in [Conns -> {"none", "select", "done"}]
  /\ closed \in [Conns -> BOOLEAN]
  /\ identity \in [Conns -> BOOLEAN]
  /\ builder \in [Conns -> 0..MaxSequence]
  /\ in \in [Conns -> Seq(ToClient)]
  /\ \A c \in Conns : Len(in[c]) <= InCap
  /\ unackedMessages \in [Conns -> SUBSET (Numbers \X Message)]
  /\ hpc \in [Conns -> {"none", "select", "done"}]
  /\ init \in [Conns -> 0..2]
  /\ ipc \in [Conns -> {"none", "select", "done"}]
  /\ warnings \in [Conns -> 0..MaxWarnings]
  /\ push \in [Conns -> ToClient \cup {None}]
  /\ toAck \in [Subs -> SUBSET Numbers]
  /\ asked \in [Conns -> 0..MaxRequests]
  /\ waiting \in [Conns -> SUBSET (1..MaxRequests)]
  /\ received \subseteq Message

\* handleACK removes from the broker only what the client has received: a
\* message that the topic no longer keeps has reached some consumer.
AckedWasReceived == 0..(seq - 1) \subseteq messages \cup received

\* A message that the topic keeps is on its way to a subscriber, can still be
\* acked on a connection or by a consumer, or was offered in vain for 15 seconds.
KeptIsPending ==
  messages \subseteq
    Underway \cup dropped
      \cup (UNION {{e[2] : e \in unackedMessages[c]} : c \in Conns})
      \cup (UNION {toAck[s] : s \in Subs \ Conns})

(***************************************************************************)
(* Where goroutines wait for ever.                                         *)
(***************************************************************************)
\* Nobody empties conn.in.
InStuck(c) == ~Room(c) /\ wpc[c] = "done"
\* The reader hands a message to handleOutbound, which has ended.
ReaderStuck(c) == rpc[c] = "give" /\ hpc[c] = "done"
\* process() sends old messages to a connection that no longer receives.
ReplayStuck(c) == spc[c] = "replay" /\ ipc[c] = "done"
\* Publish holds the mutex, waiting for room, and no subscriber takes messages.
TopicStuck ==
  /\ mx # Free
  /\ Len(ch) = ChCap
  /\ \A s \in Subs : spc[s] \in {"none", "copy", "replay", "done"}

\* Once the websocket is closed, all goroutines of the connection end and its
\* subscriber is closed, unless one of them waits for ever in one of four ways.
ConnectionEnds ==
  \A c \in Conns :
    sock[c] = "closed" ~>
      \/ /\ rpc[c] = "done" /\ wpc[c] = "done" /\ closed[c]
         /\ hpc[c] = "done" /\ init[c] = 0 /\ push[c] = None
         /\ ipc[c] \in {"none", "done"} /\ spc[c] \in {"none", "done"}
      \/ [](InStuck(c) \/ ReaderStuck(c) \/ ReplayStuck(c) \/ TopicStuck)

\* The client gets an answer to each request for which the handlers send one,
\* unless the socket is closed, the service had closed the connection without
\* closing the socket, or the topic is stuck.
AnswersArrive ==
  \A c \in Conns : \A r \in 1..MaxRequests :
    r \in waiting[c] ~>
      r \notin waiting[c] \/ sock[c] = "closed" \/ []ReaderStuck(c) \/ []TopicStuck

\* While an authenticated client stays connected every message of the topic
\* reaches a consumer, unless its offer times out or the topic is stuck.
MessagesArrive ==
  \A c \in Conns : \A m \in Message :
    m < seq /\ ipc[c] = "select" ~>
      \/ m \in received \cup dropped
      \/ sock[c] = "closed" \/ closed[c] \/ []TopicStuck
=============================================================================

----------------------- MODULE ClientConnectionProofs -----------------------
(***************************************************************************)
(* Proofs about ClientConnection: its types, that acks only remove what a  *)
(* consumer received, and that what the topic keeps is not forgotten.      *)
(***************************************************************************)
EXTENDS ClientConnection, TLAPS

(***************************************************************************)
(* AckedWasReceived follows the number of an inbound message from the map  *)
(* of ackers to conn.in, to the client, and back in an Ack to the acker.   *)
(***************************************************************************)

\* What a handler has yet to do; an acker is only called for a message that
\* some consumer received.
Ops ==
  [kind : {"answer", "error", "close", "subscribe", "publish"},
   sequence : Numbers, m : {None}]
  \cup [kind : {"acker"}, sequence : Numbers, m : received]

\* A handler that holds the mutex is in Publish, whose message has a number.
PublisherInv ==
  /\ mx # Free => seq > 0
  /\ ops \in [Conns -> Seq(Ops)]
  /\ \A c \in Conns : mx = c => ops[c] # <<>> /\ Head(ops[c]).kind = "publish"

\* Whether a connection has been served yet.
ServedInv == \A c \in Conns : sock[c] = "none" => rpc[c] # "give"

\* The numbers of ackers have been used up.
BuilderInv ==
  \A c \in Conns : \A e \in unackedMessages[c] : e[1] < builder[c]

\* An inbound message on its way to the client has the number under which the
\* acker of the broker's message is kept, unless it is not kept any more.
Carries(c, msg) ==
  msg.kind = "inbound" =>
    /\ msg.m \in Message
    /\ msg.sequence < builder[c]
    /\ \A e \in unackedMessages[c] : e[1] = msg.sequence => e[2] = msg.m

InTransit(c) == Range(in[c]) \cup ({push[c]} \ {None})

CarriesInv == \A c \in Conns : \A msg \in InTransit(c) : Carries(c, msg)

\* The number of a message that the client received: its acker is for a
\* message that was received.
Reached(c, n) ==
  /\ n < builder[c]
  /\ \A e \in unackedMessages[c] : e[1] = n => e[2] \in received

ReachedInv ==
  /\ \A c \in Conns : \A n \in toAck[c] : Reached(c, n)
  /\ \A c \in Conns :
       rhand[c] # None /\ rhand[c].kind = "Ack" => Reached(c, rhand[c].sequence)
  /\ \A s \in Subs \ Conns : toAck[s] \subseteq received

\* The inductive invariant.
ConnInv ==
  /\ TypeOK
  /\ PublisherInv
  /\ ServedInv
  /\ BuilderInv
  /\ CarriesInv
  /\ ReachedInv
  /\ AckedWasReceived

-----------------------------------------------------------------------------
(***************************************************************************)
(* Types, group by group: for each group of variables, the steps that      *)
(* change it, and that these keep its types.                               *)
(***************************************************************************)

\* The arithmetic of the bounds.
LEMMA Bounds ==
  /\ 0 \in Message /\ Message \subseteq Nat /\ Message \subseteq Numbers
  /\ MaxSequence \in Nat /\ 0..MaxSequence \subseteq Numbers
  /\ 1..MaxRequests \subseteq Numbers
  /\ \A n \in Nat : n < MaxMessages => n \in Message
  BY ConnectionConstants DEF Message, Numbers, MaxSequence

\* Steps of the topic and of its subscribers.
BrokerStep(s) ==
  \/ NewSubscriber(s)
  \/ process(s)
  \/ OfferTimesOut(s)
  \/ CloseSubscriber(s)
  \/ \E m \in Message : Receives(s, m)

\* The steps that change the topic or a subscriber.
LEMMA BrokerMoves ==
  ASSUME [Next]_vars
  PROVE  \/ UNCHANGED brokerVars
         \/ \E p \in Publishers : Publish(p) \/ PublishResumes(p)
         \/ \E m : ack(m)
         \/ \E s \in Subs : BrokerStep(s)
<1> USE ConnectionConstants
<1>1. CASE UNCHANGED vars
  BY <1>1 DEF vars
<1>2. CASE OtherPublishes
  BY <1>2 DEF OtherPublishes
<1>3. ASSUME NEW p \in Publishers, PublishReturns(p) PROVE PublishResumes(p)
  BY <1>3 DEF PublishReturns
<1>4. ASSUME NEW s \in Subs, Broker(s) PROVE BrokerStep(s)
  BY <1>4 DEF Broker, BrokerStep
<1>5. ASSUME NEW c \in Conns,
             ServeHTTP(c) \/ ClientAsks(c) \/ ClientAcks(c) \/ SocketCloses(c)
      PROVE  UNCHANGED brokerVars
  BY <1>5 DEF ServeHTTP, ClientAsks, ClientAcks, Read, SocketCloses
<1>6. ASSUME NEW c \in Conns, Goroutines(c)
      PROVE  \/ UNCHANGED brokerVars
             \/ Publish(c)
             \/ \E m : ack(m)
             \/ BrokerStep(c)
  <2>1. CASE HandleInbound(c)
    BY <2>1 DEF HandleInbound, BrokerStep
  <2>2. CASE InboundEnds(c)
    BY <2>2 DEF InboundEnds, BrokerStep
  <2>3. CASE startHandlingInbound(c)
    BY <2>3 DEF startHandlingInbound, BrokerStep
  <2>4. CASE PublishOutbound(c)
    BY <2>4 DEF PublishOutbound
  <2>5. CASE Acker(c)
    BY <2>5 DEF Acker
  <2>6. CASE \/ sendInitMessages(c) \/ InboundResumes(c)
             \/ warnPreKeysLowIfNecessary(c) \/ doHandleOutboundMessage(c)
             \/ send(c) \/ Close(c) \/ OutboundEnds(c) \/ Write(c) \/ WriterEnds(c)
    BY <2>6 DEF sendInitMessages, InboundResumes, warnPreKeysLowIfNecessary,
                doHandleOutboundMessage, send, Close, OutboundEnds, Write, WriterEnds
  <2> QED BY <1>6, <2>1, <2>2, <2>3, <2>4, <2>5, <2>6 DEF Goroutines
<1>7. ASSUME NEW s \in Subs \ Conns,
             OtherSubscribes(s) \/ OtherReceives(s) \/ OtherAcks(s)
      PROVE  BrokerStep(s) \/ \E m : ack(m)
  BY <1>7 DEF OtherSubscribes, OtherReceives, OtherAcks, BrokerStep
<1> QED BY <1>1, <1>2, <1>3, <1>4, <1>5, <1>6, <1>7 DEF Next

BrokerOK == BrokerTypeOK /\ (mx # Free => seq > 0)

\* Every step keeps the types of the topic and its subscribers.
LEMMA BrokerTyped == BrokerOK /\ [Next]_vars => BrokerOK'
<1> SUFFICES ASSUME BrokerOK, [Next]_vars PROVE BrokerOK'
  OBVIOUS
<1> USE ConnectionConstants
<1>1. CASE UNCHANGED brokerVars
  BY <1>1 DEF BrokerOK, BrokerTypeOK, brokerVars, topicVars, subVars
<1>2. ASSUME NEW p \in Publishers, Publish(p) PROVE BrokerOK'
  <2>1. seq \in Message /\ seq + 1 \in 0..MaxMessages /\ seq + 1 > 0
    BY <1>2, Bounds DEF Publish, BrokerOK, BrokerTypeOK
  <2>2. ch' \in Seq(Message)
    <3>1. ch \in Seq(Message) /\ Append(ch, seq) \in Seq(Message)
      BY <2>1 DEF BrokerOK, BrokerTypeOK
    <3>2. ch' = Append(ch, seq) \/ ch' = ch
      BY <1>2 DEF Publish
    <3> QED BY <3>1, <3>2
  <2> QED BY <1>2, <2>1, <2>2 DEF Publish, BrokerOK, BrokerTypeOK, subVars
<1>3. ASSUME NEW p \in Publishers, PublishResumes(p) PROVE BrokerOK'
  <2>1. seq - 1 \in Message
    BY <1>3, Bounds DEF PublishResumes, BrokerOK, BrokerTypeOK
  <2>2. ch' \in Seq(Message)
    BY <1>3, <2>1 DEF PublishResumes, BrokerOK, BrokerTypeOK
  <2> QED BY <1>3, <2>1, <2>2 DEF PublishResumes, BrokerOK, BrokerTypeOK, subVars
<1>4. ASSUME NEW m, ack(m) PROVE BrokerOK'
  BY <1>4 DEF ack, BrokerOK, BrokerTypeOK, subVars
<1>5. ASSUME NEW s \in Subs, BrokerStep(s) PROVE BrokerOK'
  <2>1. CASE NewSubscriber(s)
    BY <2>1 DEF NewSubscriber, BrokerOK, BrokerTypeOK, topicVars
  <2>2. CASE CopyExisting(s)
    BY <2>2 DEF CopyExisting, BrokerOK, BrokerTypeOK, topicVars
  <2>3. CASE Take(s)
    <3>1. Head(ch) \in Message /\ Tail(ch) \in Seq(Message)
      BY <2>3 DEF Take, BrokerOK, BrokerTypeOK
    <3> QED BY <2>3, <3>1 DEF Take, BrokerOK, BrokerTypeOK
  <2>4. CASE Lookup(s)
    BY <2>4 DEF Lookup, BrokerOK, BrokerTypeOK, topicVars
  <2>5. CASE ProcessEnds(s)
    BY <2>5 DEF ProcessEnds, BrokerOK, BrokerTypeOK, topicVars
  <2>6. CASE OfferTimesOut(s)
    BY <2>6 DEF OfferTimesOut, BrokerOK, BrokerTypeOK
  <2>7. CASE CloseSubscriber(s)
    BY <2>7 DEF CloseSubscriber, BrokerOK, BrokerTypeOK, topicVars
  <2>8. ASSUME NEW m \in Message, Replay(s, m) PROVE BrokerOK'
    BY <2>8 DEF Replay, BrokerOK, BrokerTypeOK, topicVars
  <2>9. ASSUME NEW m \in Message, Offer(s, m) PROVE BrokerOK'
    BY <2>9 DEF Offer, BrokerOK, BrokerTypeOK, topicVars
  <2> QED BY <1>5, <2>1, <2>2, <2>3, <2>4, <2>5, <2>6, <2>7, <2>8, <2>9
          DEF BrokerStep, process, Receives
<1> QED BY <1>1, <1>2, <1>3, <1>4, <1>5, BrokerMoves

-----------------------------------------------------------------------------
(***************************************************************************)
(* The numbers of inbound messages and the map of ackers.                  *)
(***************************************************************************)

\* The actions that neither build messages nor touch the map.
LEMMA EntriesMoves ==
  ASSUME [Next]_vars
  PROVE  \/ UNCHANGED <<builder, unackedMessages>>
         \/ \E c \in Conns : HandleInbound(c) \/ Acker(c)
<1>1. CASE UNCHANGED vars
  BY <1>1 DEF vars, connVars, handling, pushers
<1>2. CASE OtherPublishes
  BY <1>2 DEF OtherPublishes, connVars, handling, pushers
<1>3. ASSUME NEW p \in Publishers, PublishReturns(p)
      PROVE  UNCHANGED <<builder, unackedMessages>>
  BY <1>3 DEF PublishReturns, pushers
<1>4. ASSUME NEW s \in Subs, Broker(s) PROVE UNCHANGED <<builder, unackedMessages>>
  BY <1>4 DEF Broker, connVars, handling, pushers
<1>5. ASSUME NEW c \in Conns,
             ServeHTTP(c) \/ ClientAsks(c) \/ ClientAcks(c) \/ SocketCloses(c)
      PROVE  UNCHANGED <<builder, unackedMessages>>
  BY <1>5 DEF ServeHTTP, ClientAsks, ClientAcks, Read, SocketCloses, handling, pushers
<1>6. ASSUME NEW c \in Conns, Goroutines(c)
      PROVE  \/ UNCHANGED <<builder, unackedMessages>>
             \/ HandleInbound(c) \/ Acker(c)
  <2>1. CASE \/ sendInitMessages(c) \/ InboundResumes(c) \/ InboundEnds(c)
             \/ warnPreKeysLowIfNecessary(c) \/ doHandleOutboundMessage(c)
    BY <2>1 DEF sendInitMessages, InboundResumes, InboundEnds, handling, pushers,
                warnPreKeysLowIfNecessary, doHandleOutboundMessage
  <2>2. CASE \/ send(c) \/ Close(c) \/ startHandlingInbound(c) \/ PublishOutbound(c)
             \/ OutboundEnds(c) \/ Write(c) \/ WriterEnds(c)
    BY <2>2, Zenon DEF send, Close, startHandlingInbound, PublishOutbound, OutboundEnds,
                Write, WriterEnds, handling, pushers
  <2> QED BY <1>6, <2>1, <2>2 DEF Goroutines
<1>7. ASSUME NEW s \in Subs \ Conns,
             OtherSubscribes(s) \/ OtherReceives(s) \/ OtherAcks(s)
      PROVE  UNCHANGED <<builder, unackedMessages>>
  BY <1>7 DEF OtherSubscribes, OtherReceives, OtherAcks, connVars, handling, pushers
<1> QED BY <1>1, <1>2, <1>3, <1>4, <1>5, <1>6, <1>7 DEF Next

EntriesOK ==
  /\ builder \in [Conns -> 0..MaxSequence]
  /\ unackedMessages \in [Conns -> SUBSET (Numbers \X Message)]

\* A message is built with the next number, and its acker kept under it.
Built(c, m) ==
  /\ builder[c] \in Numbers
  /\ builder'[c] = builder[c] + 1
  /\ unackedMessages'[c] = unackedMessages[c] \cup {<<builder[c], m>>}

\* What a step does to the map of ackers.
LEMMA EntriesStep ==
  ASSUME EntriesOK, [Next]_vars
  PROVE  /\ EntriesOK'
         /\ \A c \in Conns :
              \/ builder'[c] = builder[c] /\ unackedMessages'[c] \subseteq unackedMessages[c]
              \/ \E m \in Message : Built(c, m)
<1> USE ConnectionConstants
<1>1. CASE UNCHANGED <<builder, unackedMessages>>
  BY <1>1 DEF EntriesOK
<1>2. ASSUME NEW c \in Conns, Acker(c)
      PROVE  /\ EntriesOK'
             /\ \A d \in Conns :
                  /\ builder'[d] = builder[d]
                  /\ unackedMessages'[d] \subseteq unackedMessages[d]
  <2>1. builder' = builder
    BY <1>2 DEF Acker, pushers
  <2>2. \/ unackedMessages' = unackedMessages
        \/ \E x : unackedMessages' = [unackedMessages EXCEPT ![c] = @ \ x]
    BY <1>2, Zenon DEF Acker
  <2> QED BY <2>1, <2>2 DEF EntriesOK
<1>3. ASSUME NEW c \in Conns, HandleInbound(c)
      PROVE  /\ EntriesOK'
             /\ \A d \in Conns :
                  \/ builder'[d] = builder[d] /\ unackedMessages'[d] \subseteq unackedMessages[d]
                  \/ \E m \in Message : Built(d, m)
  <2>1. PICK m \in Message : handleInboundMessage(c, m)
    BY <1>3 DEF HandleInbound
  <2>2. /\ builder' = [builder EXCEPT ![c] = @ + 1]
        /\ unackedMessages' = [unackedMessages EXCEPT ![c] = @ \cup {<<builder[c], m>>}]
        /\ builder[c] < MaxSequence
    BY <1>3, <2>1, Zenon DEF handleInboundMessage, Build, HandleInbound
  <2>3. builder[c] \in 0..MaxSequence /\ builder[c] + 1 \in 0..MaxSequence /\ builder[c] \in Numbers
    BY <2>2, Bounds DEF EntriesOK
  <2>4. EntriesOK'
    BY <2>2, <2>3 DEF EntriesOK
  <2>5. Built(c, m)
    BY <2>2, <2>3 DEF Built, EntriesOK
  <2>6. \A d \in Conns \ {c} : /\ builder'[d] = builder[d]
                               /\ unackedMessages'[d] = unackedMessages[d]
    BY <2>2 DEF EntriesOK
  <2> QED BY <2>4, <2>5, <2>6
<1> QED BY <1>1, <1>2, <1>3, EntriesMoves, Zenon

\* What holds of a number that was used holds as long as it did.
LEMMA CarriesKept ==
  ASSUME EntriesOK, [Next]_vars, NEW c \in Conns, NEW msg \in ToClient, Carries(c, msg)
  PROVE  Carries(c, msg)'
<1> SUFFICES ASSUME msg.kind = "inbound" PROVE Carries(c, msg)'
  BY DEF Carries
<1>1. /\ msg.m \in Message /\ msg.sequence < builder[c]
      /\ \A e \in unackedMessages[c] : e[1] = msg.sequence => e[2] = msg.m
  BY DEF Carries
<1>2. builder[c] \in Nat /\ msg.sequence \in Nat
  BY DEF EntriesOK, ToClient, Numbers
<1>3. CASE builder'[c] = builder[c] /\ unackedMessages'[c] \subseteq unackedMessages[c]
  BY <1>1, <1>3 DEF Carries
<1>4. ASSUME NEW m \in Message, Built(c, m) PROVE Carries(c, msg)'
  <2>1. msg.sequence < builder'[c]
    BY <1>1, <1>2, <1>4 DEF Built
  <2>2. <<builder[c], m>>[1] # msg.sequence
    BY <1>1, <1>2
  <2>3. \A e \in unackedMessages'[c] : e[1] = msg.sequence => e[2] = msg.m
    BY <1>1, <1>4, <2>2 DEF Built
  <2> QED BY <1>1, <2>1, <2>3 DEF Carries
<1> QED BY <1>3, <1>4, EntriesStep

\* A number that reached the client stays one.
LEMMA ReachedKept ==
  ASSUME EntriesOK, [Next]_vars, received \subseteq received',
         NEW c \in Conns, NEW n \in Numbers, Reached(c, n)
  PROVE  Reached(c, n)'
<1>1. n < builder[c] /\ \A e \in unackedMessages[c] : e[1] = n => e[2] \in received
  BY DEF Reached
<1>2. builder[c] \in Nat /\ n \in Nat
  BY DEF EntriesOK, Numbers
<1>3. CASE builder'[c] = builder[c] /\ unackedMessages'[c] \subseteq unackedMessages[c]
  BY <1>1, <1>3 DEF Reached
<1>4. ASSUME NEW m \in Message, Built(c, m) PROVE Reached(c, n)'
  <2>1. n < builder'[c]
    BY <1>1, <1>2, <1>4 DEF Built
  <2>2. <<builder[c], m>>[1] # n
    BY <1>1, <1>2
  <2>3. \A e \in unackedMessages'[c] : e[1] = n => e[2] \in received'
    BY <1>1, <1>4, <2>2 DEF Built
  <2> QED BY <2>1, <2>3 DEF Reached
<1> QED BY <1>3, <1>4, EntriesStep

\* Every number in the map has been used.
LEMMA BuilderStep ==
  ASSUME EntriesOK, BuilderInv, [Next]_vars
  PROVE  BuilderInv'
<1> SUFFICES ASSUME NEW c \in Conns, NEW e \in unackedMessages'[c]
             PROVE  e[1] < builder'[c]
  BY DEF BuilderInv
<1>1. builder[c] \in Nat /\ \A f \in unackedMessages[c] : f[1] \in Nat /\ f[1] < builder[c]
  BY DEF EntriesOK, BuilderInv, Numbers
<1>2. CASE builder'[c] = builder[c] /\ unackedMessages'[c] \subseteq unackedMessages[c]
  BY <1>1, <1>2
<1>3. ASSUME NEW m \in Message, Built(c, m) PROVE e[1] < builder'[c]
  BY <1>1, <1>3 DEF Built
<1> QED BY <1>2, <1>3, EntriesStep

-----------------------------------------------------------------------------
(***************************************************************************)
(* conn.in and the goroutines that send to it.                             *)
(***************************************************************************)

InOK ==
  /\ in \in [Conns -> Seq(ToClient)]
  /\ \A c \in Conns : Len(in[c]) <= InCap

\* A send adds one message to one channel, within its capacity.
LEMMA Sent ==
  ASSUME InOK, NEW c \in Conns, NEW msg \in ToClient, Send(c, msg)
  PROVE  /\ InOK'
         /\ Range(in'[c]) \subseteq Range(in[c]) \cup {msg}
         /\ \A d \in Conns : d # c => in'[d] = in[d]
<1>1. in[c] \in Seq(ToClient) /\ Len(in[c]) < InCap /\ Len(in[c]) \in Nat
  BY DEF InOK, Send, Room
<1>2. in' = [in EXCEPT ![c] = Append(in[c], msg)]
  BY DEF Send
<1>3. in'[c] = Append(in[c], msg) /\ \A d \in Conns : d # c => in'[d] = in[d]
  BY <1>2 DEF InOK
<1>4. /\ Append(in[c], msg) \in Seq(ToClient)
      /\ Len(Append(in[c], msg)) = Len(in[c]) + 1
      /\ \A j \in 1..(Len(in[c]) + 1) :
           Append(in[c], msg)[j] = IF j = Len(in[c]) + 1 THEN msg ELSE in[c][j]
  BY <1>1
<1>5. Range(in'[c]) \subseteq Range(in[c]) \cup {msg}
  <2> SUFFICES ASSUME NEW j \in 1..(Len(in[c]) + 1)
               PROVE  Append(in[c], msg)[j] \in Range(in[c]) \cup {msg}
    BY <1>3, <1>4 DEF Range
  <2>1. CASE j = Len(in[c]) + 1
    BY <1>4, <2>1
  <2>2. CASE j # Len(in[c]) + 1
    <3>1. j \in 1..Len(in[c])
      BY <1>1, <2>2
    <3> QED BY <1>1, <1>4, <2>2, <3>1 DEF Range
  <2> QED BY <2>1, <2>2
<1>6. InOK'
  <2>1. \A d \in Conns : in'[d] \in Seq(ToClient) /\ Len(in'[d]) <= InCap
    <3>1. in'[c] \in Seq(ToClient) /\ Len(in'[c]) = Len(in[c]) + 1
      BY <1>3, <1>4
    <3>2. Len(in[c]) + 1 <= InCap
      BY <1>1, ConnectionConstants
    <3>3. \A d \in Conns : d # c => in'[d] \in Seq(ToClient) /\ Len(in'[d]) <= InCap
      BY <1>3 DEF InOK
    <3> QED BY <3>1, <3>2, <3>3
  <2>2. in' = [d \in Conns |-> in'[d]]
    BY <1>2, Zenon DEF InOK
  <2> QED BY <2>1, <2>2 DEF InOK
<1> QED BY <1>3, <1>5, <1>6

\* The writer takes one.
LEMMA Taken ==
  ASSUME InOK, NEW c \in Conns, in[c] # <<>>, in' = [in EXCEPT ![c] = Tail(@)]
  PROVE  /\ InOK'
         /\ Head(in[c]) \in Range(in[c]) /\ Head(in[c]) \in ToClient
         /\ \A d \in Conns : Range(in'[d]) \subseteq Range(in[d])
<1>1. in[c] \in Seq(ToClient) /\ Len(in[c]) \in Nat /\ Len(in[c]) > 0
  BY DEF InOK
<1>2. in'[c] = Tail(in[c]) /\ \A d \in Conns : d # c => in'[d] = in[d]
  BY DEF InOK
<1>3. /\ Tail(in[c]) \in Seq(ToClient) /\ Len(Tail(in[c])) = Len(in[c]) - 1
      /\ \A j \in 1..(Len(in[c]) - 1) : Tail(in[c])[j] = in[c][j + 1]
  BY <1>1
<1>4. Range(in'[c]) \subseteq Range(in[c])
  <2> SUFFICES ASSUME NEW j \in 1..(Len(in[c]) - 1)
               PROVE  Tail(in[c])[j] \in Range(in[c])
    BY <1>2, <1>3 DEF Range
  <2>1. j + 1 \in 1..Len(in[c])
    BY <1>1
  <2> QED BY <1>1, <1>3, <2>1 DEF Range
<1>5. InOK'
  <2>1. \A d \in Conns : in'[d] \in Seq(ToClient) /\ Len(in'[d]) <= InCap
    BY <1>1, <1>2, <1>3, ConnectionConstants DEF InOK
  <2>2. in' = [d \in Conns |-> in'[d]]
    BY Zenon DEF InOK
  <2> QED BY <2>1, <2>2 DEF InOK
<1>6. Head(in[c]) = in[c][1] /\ 1 \in 1..Len(in[c])
  BY <1>1
<1>7. Head(in[c]) \in Range(in[c]) /\ Head(in[c]) \in ToClient
  BY <1>1, <1>6 DEF Range
<1> QED BY <1>2, <1>4, <1>5, <1>7

PushersOK ==
  /\ init \in [Conns -> 0..2]
  /\ ipc \in [Conns -> {"none", "select", "done"}]
  /\ warnings \in [Conns -> 0..MaxWarnings]
  /\ push \in [Conns -> ToClient \cup {None}]

\* Where a message that is on its way to the client after a step was before.
Origin(c, msg) ==
  \/ msg \in InTransit(c)
  \/ msg.kind # "inbound"
  \/ \E m \in Message : Built(c, m) /\ msg = Msg("inbound", builder[c], m)

\* The actions that leave the channel and the goroutines that send to it alone.
LEMMA ChannelMoves ==
  ASSUME [Next]_vars
  PROVE  \/ UNCHANGED <<in, init, ipc, warnings, push>>
         \/ \E c \in Conns : \/ ServeHTTP(c) \/ sendInitMessages(c) \/ HandleInbound(c)
                             \/ InboundResumes(c) \/ InboundEnds(c)
                             \/ warnPreKeysLowIfNecessary(c) \/ send(c)
                             \/ startHandlingInbound(c) \/ Write(c) \/ WriterEnds(c)
<1>1. CASE UNCHANGED vars
  BY <1>1 DEF vars, connVars, pushers
<1>2. CASE OtherPublishes
  BY <1>2 DEF OtherPublishes, connVars, pushers
<1>3. ASSUME NEW p \in Publishers, PublishReturns(p)
      PROVE  UNCHANGED <<in, init, ipc, warnings, push>>
  BY <1>3 DEF PublishReturns, pushers
<1>4. ASSUME NEW s \in Subs, Broker(s) PROVE UNCHANGED <<in, init, ipc, warnings, push>>
  BY <1>4 DEF Broker, connVars, pushers
<1>5. ASSUME NEW c \in Conns, ClientAsks(c) \/ ClientAcks(c) \/ SocketCloses(c)
      PROVE  UNCHANGED <<in, init, ipc, warnings, push>>
  BY <1>5, Zenon DEF ClientAsks, ClientAcks, Read, SocketCloses, pushers
<1>6. ASSUME NEW c \in Conns, \/ doHandleOutboundMessage(c) \/ Close(c)
                              \/ PublishOutbound(c) \/ Acker(c) \/ OutboundEnds(c)
      PROVE  UNCHANGED <<in, init, ipc, warnings, push>>
  BY <1>6 DEF doHandleOutboundMessage, Close, PublishOutbound, Acker, OutboundEnds, pushers
<1>7. ASSUME NEW s \in Subs \ Conns,
             OtherSubscribes(s) \/ OtherReceives(s) \/ OtherAcks(s)
      PROVE  UNCHANGED <<in, init, ipc, warnings, push>>
  BY <1>7 DEF OtherSubscribes, OtherReceives, OtherAcks, connVars, pushers
<1> QED BY <1>1, <1>2, <1>3, <1>4, <1>5, <1>6, <1>7 DEF Next, Goroutines

\* What the service sends of its own is a message to the client.
LEMMA OwnTyped ==
  ASSUME NEW kind \in {"init", "low"}
  PROVE  Msg(kind, 0, None) \in ToClient /\ Msg(kind, 0, None).kind # "inbound"
  BY Bounds DEF Msg, ToClient

\* So is what a handler sends.
LEMMA OpTyped ==
  ASSUME ops \in [Conns -> Seq(Ops)], NEW c \in Conns, ops[c] # <<>>
  PROVE  /\ Head(ops[c]) \in Ops /\ Tail(ops[c]) \in Seq(Ops)
         /\ Head(ops[c]).kind \in {"answer", "error"} =>
              Head(ops[c]) \in ToClient /\ Head(ops[c]).kind # "inbound"
         /\ Head(ops[c]).kind = "acker" =>
              Head(ops[c]).m \in received /\ Head(ops[c]).sequence \in Numbers
<1>1. ops[c] \in Seq(Ops)
  OBVIOUS
<1>2. Head(ops[c]) \in Ops /\ Tail(ops[c]) \in Seq(Ops)
  BY <1>1
<1>3. ASSUME NEW op \in Ops, op.kind \in {"answer", "error"}
      PROVE  op \in ToClient /\ op.kind # "inbound"
  BY <1>3 DEF Ops, ToClient
<1>4. ASSUME NEW op \in Ops, op.kind = "acker"
      PROVE  op.m \in received /\ op.sequence \in Numbers
  BY <1>4 DEF Ops
<1> QED BY <1>2, <1>3, <1>4

\* Steps keep the types of the channel and of what is sent to it, and any
\* inbound message in transit was there before or has just been built.
LEMMA ChannelStep ==
  ASSUME InOK, PushersOK, EntriesOK, ops \in [Conns -> Seq(Ops)], [Next]_vars
  PROVE  /\ InOK' /\ PushersOK'
         /\ \A c \in Conns : \A msg \in InTransit(c)' : Origin(c, msg)
<1> USE ConnectionConstants
<1> DEFINE Goal == /\ InOK' /\ PushersOK'
                   /\ \A c \in Conns : \A msg \in InTransit(c)' : Origin(c, msg)
<1>1. CASE UNCHANGED <<in, init, ipc, warnings, push>>
  BY <1>1, Zenon DEF InOK, PushersOK, InTransit, Origin
<1>2. ASSUME UNCHANGED <<in, push>>, PushersOK' PROVE Goal
  BY <1>2 DEF InOK, InTransit, Origin
<1>3. ASSUME NEW c \in Conns, NEW msg \in ToClient, msg.kind # "inbound",
             Send(c, msg), UNCHANGED push, PushersOK'
      PROVE  Goal
  <2>1. /\ InOK' /\ Range(in'[c]) \subseteq Range(in[c]) \cup {msg}
        /\ \A d \in Conns : d # c => in'[d] = in[d]
    BY <1>3, Sent
  <2> QED BY <1>3, <2>1, Zenon DEF InTransit, Origin
<1>4. ASSUME NEW c \in Conns, in[c] # <<>>, in' = [in EXCEPT ![c] = Tail(@)],
             UNCHANGED <<init, ipc, warnings, push>>
      PROVE  Goal
  <2>1. InOK' /\ \A d \in Conns : Range(in'[d]) \subseteq Range(in[d])
    BY <1>4, Taken, Zenon
  <2> QED BY <1>4, <2>1, Zenon DEF InTransit, Origin, PushersOK
<1>5. ASSUME NEW c \in Conns, ServeHTTP(c) PROVE Goal
  <2>1. UNCHANGED <<in, push>>
    BY <1>5 DEF ServeHTTP
  <2>2. PushersOK'
    BY <1>5 DEF ServeHTTP, Connect, PushersOK
  <2> QED BY <1>2, <2>1, <2>2
<1>6. ASSUME NEW c \in Conns, sendInitMessages(c) PROVE Goal
  <2>1. PushersOK'
    BY <1>6 DEF sendInitMessages, PushersOK
  <2>2. Send(c, Msg("init", 0, None)) /\ UNCHANGED push
    BY <1>6 DEF sendInitMessages
  <2> QED BY <1>3, <2>1, <2>2, OwnTyped
<1>7. ASSUME NEW c \in Conns, warnPreKeysLowIfNecessary(c) PROVE Goal
  <2>1. PushersOK'
    BY <1>7 DEF warnPreKeysLowIfNecessary, PushersOK
  <2>2. Send(c, Msg("low", 0, None)) /\ UNCHANGED push
    BY <1>7 DEF warnPreKeysLowIfNecessary
  <2> QED BY <1>3, <2>1, <2>2, OwnTyped
<1>8. ASSUME NEW c \in Conns, HandleInbound(c) PROVE Goal
  <2>1. PICK m \in Message : handleInboundMessage(c, m)
    BY <1>8, Zenon DEF HandleInbound
  <2>2. UNCHANGED <<init, ipc, warnings>> /\ builder[c] < MaxSequence /\ push[c] = None
    BY <1>8 DEF HandleInbound
  <2> DEFINE msg == Msg("inbound", builder[c], m)
  <2>3. builder[c] \in Numbers /\ Built(c, m)
    <3>1. builder[c] \in Numbers
      BY Bounds DEF EntriesOK
    <3> QED BY <2>1, <3>1 DEF handleInboundMessage, Build, Built, EntriesOK
  <2>4. msg \in ToClient /\ Origin(c, msg)
    BY <2>3, Zenon DEF Msg, ToClient, Origin
  <2>5. \/ Send(c, msg) /\ UNCHANGED push
        \/ push' = [push EXCEPT ![c] = msg] /\ UNCHANGED in
    BY <2>1 DEF handleInboundMessage
  <2> HIDE DEF msg
  <2>6. CASE Send(c, msg) /\ UNCHANGED push
    <3>1. /\ InOK' /\ Range(in'[c]) \subseteq Range(in[c]) \cup {msg}
          /\ \A d \in Conns : d # c => in'[d] = in[d]
      BY <2>4, <2>6, Sent
    <3>2. PushersOK'
      BY <2>2, <2>6 DEF PushersOK
    <3>3. \A d \in Conns : \A x \in InTransit(d)' : x \in InTransit(d) \/ (d = c /\ x = msg)
      BY <2>6, <3>1, Zenon DEF InTransit
    <3>4. \A d \in Conns : \A x \in InTransit(d)' : Origin(d, x)
      BY <2>4, <3>3 DEF Origin
    <3> QED BY <3>1, <3>2, <3>4
  <2>7. CASE push' = [push EXCEPT ![c] = msg] /\ UNCHANGED in
    <3>1. InOK' /\ PushersOK'
      BY <2>2, <2>4, <2>7 DEF InOK, PushersOK
    <3>2. push'[c] = msg /\ \A d \in Conns : d # c => push'[d] = push[d]
      BY <2>7 DEF PushersOK
    <3>3. \A d \in Conns : \A x \in InTransit(d)' : x \in InTransit(d) \/ (d = c /\ x = msg)
      BY <2>7, <3>2, Zenon DEF InTransit
    <3>4. \A d \in Conns : \A x \in InTransit(d)' : Origin(d, x)
      BY <2>4, <3>3 DEF Origin
    <3> QED BY <3>1, <3>4, Zenon
  <2> QED BY <2>5, <2>6, <2>7
<1>9. ASSUME NEW c \in Conns, InboundResumes(c) PROVE Goal
  <2>1. /\ push[c] # None /\ Send(c, push[c]) /\ push' = [push EXCEPT ![c] = None]
        /\ UNCHANGED <<init, ipc, warnings>>
    BY <1>9 DEF InboundResumes
  <2>2. push[c] \in ToClient /\ PushersOK'
    BY <2>1 DEF PushersOK
  <2>3. /\ InOK' /\ Range(in'[c]) \subseteq Range(in[c]) \cup {push[c]}
        /\ \A d \in Conns : d # c => in'[d] = in[d]
    BY <2>1, <2>2, Sent, Zenon
  <2>4. push'[c] = None /\ \A d \in Conns : d # c => push'[d] = push[d]
    BY <2>1 DEF PushersOK
  <2>5. \A d \in Conns : InTransit(d)' \subseteq InTransit(d)
    BY <2>1, <2>3, <2>4, Zenon DEF InTransit
  <2> QED BY <2>2, <2>3, <2>5 DEF Origin
<1>10. ASSUME NEW c \in Conns, InboundEnds(c) PROVE Goal
  <2>1. UNCHANGED <<in, push>> /\ PushersOK'
    BY <1>10, Zenon DEF InboundEnds, PushersOK
  <2> QED BY <1>2, <2>1
<1>11. ASSUME NEW c \in Conns, send(c) PROVE Goal
  <2>1. /\ ops[c] # <<>> /\ Head(ops[c]).kind \in {"answer", "error"}
        /\ Send(c, Head(ops[c])) /\ UNCHANGED <<init, ipc, warnings, push>>
    BY <1>11 DEF send, Doing, pushers
  <2>2. Head(ops[c]) \in ToClient /\ Head(ops[c]).kind # "inbound"
    BY <2>1, OpTyped
  <2>3. PushersOK'
    BY <2>1 DEF PushersOK
  <2> QED BY <1>3, <2>1, <2>2, <2>3
<1>12. ASSUME NEW c \in Conns, startHandlingInbound(c) PROVE Goal
  <2>1. UNCHANGED <<in, push>> /\ PushersOK'
    BY <1>12 DEF startHandlingInbound, PushersOK
  <2> QED BY <1>2, <2>1
<1>13. ASSUME NEW c \in Conns, Write(c) PROVE Goal
  BY <1>4, <1>13, Zenon DEF Write, pushers
<1>14. ASSUME NEW c \in Conns, WriterEnds(c) PROVE Goal
  <2>1. UNCHANGED <<init, ipc, warnings, push>>
    BY <1>14 DEF WriterEnds, pushers
  <2>2. \/ UNCHANGED in
        \/ in[c] # <<>> /\ in' = [in EXCEPT ![c] = Tail(@)]
    BY <1>14, Zenon DEF WriterEnds
  <2> QED BY <1>1, <1>4, <2>1, <2>2, Zenon
<1> HIDE DEF Goal
<1>15. Goal
  BY <1>1, <1>5, <1>6, <1>7, <1>8, <1>9, <1>10, <1>11, <1>12, <1>13, <1>14, ChannelMoves
     DEF Goal
<1> QED BY <1>15 DEF Goal

\* Inbound messages carry the numbers of their ackers.
LEMMA CarriesStep ==
  ASSUME InOK, InOK', PushersOK, PushersOK', EntriesOK, ops \in [Conns -> Seq(Ops)],
         BuilderInv, CarriesInv, [Next]_vars
  PROVE  CarriesInv'
<1> SUFFICES ASSUME NEW c \in Conns, NEW msg \in InTransit(c)'
             PROVE  Carries(c, msg)'
  BY DEF CarriesInv
<1>1. msg \in ToClient
  <2>1. in'[c] \in Seq(ToClient) /\ push'[c] \in ToClient \cup {None}
    BY DEF InOK, PushersOK
  <2>2. Range(in'[c]) \subseteq ToClient
    BY <2>1 DEF Range
  <2> QED BY <2>1, <2>2, Zenon DEF InTransit
<1>2. Origin(c, msg)
  BY ChannelStep
<1>3. CASE msg \in InTransit(c)
  BY <1>1, <1>3, CarriesKept DEF CarriesInv
<1>4. CASE msg.kind # "inbound"
  BY <1>4 DEF Carries
<1>5. ASSUME NEW m \in Message, Built(c, m), msg = Msg("inbound", builder[c], m)
      PROVE  Carries(c, msg)'
  <2>1. msg.m = m /\ msg.sequence = builder[c]
    BY <1>5 DEF Msg
  <2>2. builder[c] \in Nat /\ \A e \in unackedMessages[c] : e[1] # builder[c]
    BY DEF EntriesOK, BuilderInv, Numbers
  <2>3. \A e \in unackedMessages'[c] : e[1] = builder[c] => e[2] = m
    BY <1>5, <2>2 DEF Built
  <2>4. builder[c] < builder'[c]
    BY <1>5, <2>2 DEF Built
  <2> QED BY <2>1, <2>3, <2>4 DEF Carries
<1> QED BY <1>2, <1>3, <1>4, <1>5 DEF Origin

-----------------------------------------------------------------------------
(***************************************************************************)
(* The websocket.                                                          *)
(***************************************************************************)

WebOK ==
  /\ sock \in [Conns -> {"none", "open", "closed"}]
  /\ rpc \in [Conns -> {"none", "read", "give", "done"}]
  /\ rhand \in [Conns -> FromClient \cup {None}]
  /\ \A c \in Conns : (rhand[c] # None) = (rpc[c] = "give")
  /\ wpc \in [Conns -> {"none", "select", "done"}]
  /\ closed \in [Conns -> BOOLEAN]
  /\ ServedInv

\* The steps that change a websocket.
LEMMA WebMoves ==
  ASSUME [Next]_vars
  PROVE  \/ UNCHANGED web
         \/ \E c \in Conns : \/ ServeHTTP(c) \/ ClientAsks(c) \/ ClientAcks(c)
                             \/ SocketCloses(c) \/ doHandleOutboundMessage(c)
                             \/ Close(c) \/ WriterEnds(c)
<1>1. CASE UNCHANGED vars
  BY <1>1 DEF vars, connVars
<1>2. CASE OtherPublishes
  BY <1>2 DEF OtherPublishes, connVars
<1>3. ASSUME NEW p \in Publishers, PublishReturns(p) PROVE UNCHANGED web
  BY <1>3 DEF PublishReturns
<1>4. ASSUME NEW s \in Subs, Broker(s) PROVE UNCHANGED web
  BY <1>4 DEF Broker, connVars
<1>5. ASSUME NEW c \in Conns,
             \/ sendInitMessages(c) \/ HandleInbound(c) \/ InboundResumes(c)
             \/ InboundEnds(c) \/ warnPreKeysLowIfNecessary(c) \/ send(c)
      PROVE  UNCHANGED web
  BY <1>5, Zenon DEF sendInitMessages, HandleInbound, InboundResumes, InboundEnds,
              warnPreKeysLowIfNecessary, send
<1>6. ASSUME NEW c \in Conns,
             \/ startHandlingInbound(c) \/ PublishOutbound(c) \/ Acker(c)
             \/ OutboundEnds(c) \/ Write(c)
      PROVE  UNCHANGED web
  BY <1>6, Zenon DEF startHandlingInbound, PublishOutbound, Acker, OutboundEnds, Write
<1>7. ASSUME NEW s \in Subs \ Conns,
             OtherSubscribes(s) \/ OtherReceives(s) \/ OtherAcks(s)
      PROVE  UNCHANGED web
  BY <1>7 DEF OtherSubscribes, OtherReceives, OtherAcks, connVars
<1> QED BY <1>1, <1>2, <1>3, <1>4, <1>5, <1>6, <1>7 DEF Next, Goroutines

\* Every step keeps the types of the websockets.
LEMMA WebStep ==
  ASSUME WebOK, asked \in [Conns -> 0..MaxRequests], toAck \in [Subs -> SUBSET Numbers],
         [Next]_vars
  PROVE  WebOK'
<1> USE ConnectionConstants
<1>1. CASE UNCHANGED web
  BY <1>1 DEF web, WebOK, ServedInv
<1>2. ASSUME NEW c \in Conns, ServeHTTP(c) PROVE WebOK'
  <2>1. PICK accepted \in BOOLEAN :
          /\ sock' = [sock EXCEPT ![c] = IF accepted THEN "open" ELSE "closed"]
          /\ rpc' = [rpc EXCEPT ![c] = IF accepted THEN "read" ELSE "done"]
          /\ wpc' = [wpc EXCEPT ![c] = IF accepted THEN "select" ELSE "done"]
          /\ closed' = [closed EXCEPT ![c] = ~accepted]
    BY <1>2, Zenon DEF ServeHTTP
  <2>2. sock[c] = "none" /\ UNCHANGED rhand
    BY <1>2 DEF ServeHTTP
  <2>3. rhand[c] = None
    BY <2>2 DEF WebOK, ServedInv
  <2>4. closed' \in [Conns -> BOOLEAN]
    BY <2>1 DEF WebOK
  <2>5. /\ sock' \in [Conns -> {"none", "open", "closed"}]
        /\ rpc' \in [Conns -> {"none", "read", "give", "done"}]
        /\ wpc' \in [Conns -> {"none", "select", "done"}]
    BY <2>1 DEF WebOK
  <2>6. \A d \in Conns : (rhand'[d] # None) = (rpc'[d] = "give")
    BY <2>1, <2>2, <2>3 DEF WebOK
  <2>7. ServedInv'
    BY <2>1, <2>2 DEF WebOK, ServedInv
  <2> QED BY <2>2, <2>4, <2>5, <2>6, <2>7 DEF WebOK
<1>3. ASSUME NEW c \in Conns, NEW msg \in FromClient, Read(c, msg) PROVE WebOK'
  <2>1. /\ sock[c] = "open" /\ rpc' = [rpc EXCEPT ![c] = "give"]
        /\ rhand' = [rhand EXCEPT ![c] = msg] /\ UNCHANGED <<sock, wpc, closed>>
    BY <1>3, Zenon DEF Read
  <2>2. \A d \in Conns : (rhand'[d] # None) = (rpc'[d] = "give")
    BY <2>1 DEF WebOK
  <2>3. ServedInv'
    BY <2>1, Zenon DEF WebOK, ServedInv
  <2> QED BY <2>1, <2>2, <2>3 DEF WebOK
<1>4. ASSUME NEW c \in Conns, ClientAsks(c) PROVE WebOK'
  <2>1. PICK kind \in Requests : Read(c, [kind |-> kind, sequence |-> asked[c] + 1])
    BY <1>4 DEF ClientAsks
  <2>2. asked[c] + 1 \in Numbers
    <3>1. asked[c] < MaxRequests /\ asked[c] \in 0..MaxRequests
      BY <1>4 DEF ClientAsks
    <3>2. asked[c] + 1 \in 1..MaxRequests
      BY <3>1
    <3> QED BY <3>2, Bounds
  <2>3. [kind |-> kind, sequence |-> asked[c] + 1] \in FromClient
    BY <2>2 DEF FromClient
  <2> QED BY <1>3, <2>1, <2>3, Zenon
<1>5. ASSUME NEW c \in Conns, ClientAcks(c) PROVE WebOK'
  <2>1. PICK n \in toAck[c] : Read(c, [kind |-> "Ack", sequence |-> n])
    BY <1>5 DEF ClientAcks
  <2>2. [kind |-> "Ack", sequence |-> n] \in FromClient
    BY DEF FromClient
  <2> QED BY <1>3, <2>1, <2>2
<1>6. ASSUME NEW c \in Conns, SocketCloses(c) PROVE WebOK'
  <2>1. /\ sock' = [sock EXCEPT ![c] = "closed"]
        /\ rpc' = [rpc EXCEPT ![c] = IF @ = "read" THEN "done" ELSE @]
        /\ UNCHANGED <<wpc, rhand>>
        /\ HandlerReturns(c)
    BY <1>6 DEF SocketCloses
  <2>2. closed' \in [Conns -> BOOLEAN]
    BY <2>1 DEF HandlerReturns, WebOK
  <2>3. \A d \in Conns : (rpc'[d] = "give") = (rpc[d] = "give")
    BY <2>1 DEF WebOK
  <2>4. ServedInv'
    BY <2>1, <2>3 DEF WebOK, ServedInv
  <2> QED BY <2>1, <2>2, <2>3, <2>4, Zenon DEF WebOK
<1>7. ASSUME NEW c \in Conns, doHandleOutboundMessage(c) PROVE WebOK'
  <2>1. /\ rpc' = [rpc EXCEPT ![c] = IF sock[c] = "open" THEN "read" ELSE "done"]
        /\ rhand' = [rhand EXCEPT ![c] = None]
        /\ UNCHANGED <<sock, wpc>>
        /\ HandlerReturns(c)
    BY <1>7, Zenon DEF doHandleOutboundMessage, ReaderGoesOn
  <2>2. closed' \in [Conns -> BOOLEAN]
    BY <2>1 DEF HandlerReturns, WebOK
  <2>3. \A d \in Conns : (rhand'[d] # None) = (rpc'[d] = "give")
    BY <2>1 DEF WebOK
  <2>4. ServedInv'
    BY <2>1, Zenon DEF WebOK, ServedInv
  <2> QED BY <2>1, <2>2, <2>3, <2>4, Zenon DEF WebOK
<1>8. ASSUME NEW c \in Conns, Close(c) PROVE WebOK'
  BY <1>8 DEF Close, WebOK, ServedInv
<1>9. ASSUME NEW c \in Conns, WriterEnds(c) PROVE WebOK'
  <2>1. wpc' = [wpc EXCEPT ![c] = "done"] /\ UNCHANGED <<sock, rpc, rhand>> /\ HandlerReturns(c)
    BY <1>9, Zenon DEF WriterEnds
  <2>2. closed' \in [Conns -> BOOLEAN]
    BY <2>1, Zenon DEF HandlerReturns, WebOK
  <2> QED BY <2>1, <2>2, Zenon DEF WebOK, ServedInv
<1> QED BY <1>1, <1>2, <1>4, <1>5, <1>6, <1>7, <1>8, <1>9, WebMoves

-----------------------------------------------------------------------------
(***************************************************************************)
(* The clients and the other consumers.                                    *)
(***************************************************************************)

ClientOK ==
  /\ toAck \in [Subs -> SUBSET Numbers]
  /\ asked \in [Conns -> 0..MaxRequests]
  /\ waiting \in [Conns -> SUBSET (1..MaxRequests)]
  /\ received \subseteq Message

\* The steps that change what clients and other consumers know.
LEMMA ClientMoves ==
  ASSUME [Next]_vars
  PROVE  \/ UNCHANGED client
         \/ \E c \in Conns : ClientAsks(c) \/ ClientAcks(c) \/ Write(c)
         \/ \E s \in Subs \ Conns : OtherReceives(s) \/ OtherAcks(s)
<1>1. CASE UNCHANGED vars
  BY <1>1 DEF vars, connVars
<1>2. CASE OtherPublishes
  BY <1>2 DEF OtherPublishes, connVars
<1>3. ASSUME NEW p \in Publishers, PublishReturns(p) PROVE UNCHANGED client
  BY <1>3 DEF PublishReturns
<1>4. ASSUME NEW s \in Subs, Broker(s) PROVE UNCHANGED client
  BY <1>4 DEF Broker, connVars
<1>5. ASSUME NEW c \in Conns,
             \/ ServeHTTP(c) \/ SocketCloses(c)
             \/ sendInitMessages(c) \/ HandleInbound(c) \/ InboundResumes(c)
             \/ InboundEnds(c) \/ warnPreKeysLowIfNecessary(c) \/ send(c)
      PROVE  UNCHANGED client
  BY <1>5, Zenon DEF sendInitMessages, HandleInbound, InboundResumes, InboundEnds,
              warnPreKeysLowIfNecessary, send, ServeHTTP, SocketCloses
<1>6. ASSUME NEW c \in Conns,
             \/ startHandlingInbound(c) \/ PublishOutbound(c) \/ Acker(c)
             \/ OutboundEnds(c) \/ doHandleOutboundMessage(c) \/ Close(c) \/ WriterEnds(c)
      PROVE  UNCHANGED client
  BY <1>6, Zenon DEF startHandlingInbound, PublishOutbound, Acker, OutboundEnds,
              doHandleOutboundMessage, Close, WriterEnds
<1>7. ASSUME NEW s \in Subs \ Conns, OtherSubscribes(s) PROVE UNCHANGED client
  BY <1>7 DEF OtherSubscribes, connVars
<1> QED BY <1>1, <1>2, <1>3, <1>4, <1>5, <1>6, <1>7 DEF Next, Goroutines

\* What was received stays received.
LEMMA ReceivedGrows ==
  ASSUME [Next]_vars
  PROVE  received \subseteq received'
<1>1. CASE UNCHANGED client
  BY <1>1 DEF client
<1>2. ASSUME NEW c \in Conns, ClientAsks(c) \/ ClientAcks(c) PROVE received' = received
  BY <1>2 DEF ClientAsks, ClientAcks, Read
<1>3. ASSUME NEW c \in Conns, Write(c) PROVE received \subseteq received'
  BY <1>3 DEF Write
<1>4. ASSUME NEW s \in Subs \ Conns, OtherReceives(s) \/ OtherAcks(s)
      PROVE  received \subseteq received'
  BY <1>4 DEF OtherReceives, OtherAcks
<1> QED BY <1>1, <1>2, <1>3, <1>4, ClientMoves

\* The writer hands a message over: if it is an inbound one, the client has its
\* number, and the broker's message has been received.
LEMMA Written ==
  ASSUME InOK, CarriesInv, NEW c \in Conns, Write(c)
  PROVE  /\ Head(in[c]) \in ToClient /\ Carries(c, Head(in[c]))
         /\ Head(in[c]).kind = "inbound" =>
              /\ toAck' = [toAck EXCEPT ![c] = @ \cup {Head(in[c]).sequence}]
              /\ received' = received \cup {Head(in[c]).m}
              /\ waiting' = waiting
         /\ Head(in[c]).kind # "inbound" =>
              /\ waiting' = [waiting EXCEPT ![c] = @ \ {Head(in[c]).sequence}]
              /\ UNCHANGED <<toAck, received>>
<1>1. in[c] # <<>> /\ in' = [in EXCEPT ![c] = Tail(@)]
  BY Zenon DEF Write
<1>2. Head(in[c]) \in Range(in[c]) /\ Head(in[c]) \in ToClient
  BY <1>1, Taken, Zenon
<1>3. Carries(c, Head(in[c]))
  BY <1>2 DEF CarriesInv, InTransit
<1> QED BY <1>2, <1>3, Zenon DEF Write

\* Every step keeps the types of what clients and other consumers know.
LEMMA ClientStep ==
  ASSUME ClientOK, InOK, CarriesInv, [Next]_vars
  PROVE  ClientOK'
<1> USE ConnectionConstants
<1>1. CASE UNCHANGED client
  BY <1>1 DEF client, ClientOK
<1>2. ASSUME NEW c \in Conns, ClientAsks(c) PROVE ClientOK'
  <2>1. asked[c] \in 0..MaxRequests /\ asked[c] < MaxRequests
    BY <1>2, Zenon DEF ClientAsks, ClientOK
  <2>2. asked[c] + 1 \in 1..MaxRequests /\ asked[c] + 1 \in 0..MaxRequests
    BY <2>1
  <2>3. PICK kind \in Requests :
          waiting' = [waiting EXCEPT ![c] = IF kind = "RequestUploadAuthorizations" THEN @
                                            ELSE @ \cup {asked[c] + 1}]
    BY <1>2, Zenon DEF ClientAsks
  <2>4. asked' = [asked EXCEPT ![c] = @ + 1] /\ UNCHANGED <<toAck, received>>
    BY <1>2 DEF ClientAsks, Read
  <2>5. waiting' \in [Conns -> SUBSET (1..MaxRequests)]
    BY <2>2, <2>3 DEF ClientOK
  <2>6. asked' \in [Conns -> 0..MaxRequests]
    BY <2>2, <2>4, Zenon DEF ClientOK
  <2> QED BY <2>4, <2>5, <2>6 DEF ClientOK
<1>3. ASSUME NEW c \in Conns, ClientAcks(c) PROVE ClientOK'
  BY <1>3 DEF ClientAcks, Read, ClientOK
<1>4. ASSUME NEW c \in Conns, Write(c) PROVE ClientOK'
  <2>1. asked' = asked /\ Head(in[c]).sequence \in Numbers
    BY <1>4, Written, Zenon DEF Write, ToClient
  <2>2. CASE Head(in[c]).kind = "inbound"
    <3>1. Head(in[c]).m \in Message
      BY <1>4, <2>2, Written, Zenon DEF Carries
    <3>2. /\ toAck' = [toAck EXCEPT ![c] = @ \cup {Head(in[c]).sequence}]
          /\ received' = received \cup {Head(in[c]).m}
          /\ waiting' = waiting
      BY <1>4, <2>2, Written
    <3> QED BY <2>1, <3>1, <3>2 DEF ClientOK
  <2>3. CASE Head(in[c]).kind # "inbound"
    <3>1. /\ waiting' = [waiting EXCEPT ![c] = @ \ {Head(in[c]).sequence}]
          /\ UNCHANGED <<toAck, received>>
      BY <1>4, <2>3, Written
    <3> QED BY <2>1, <3>1, Zenon DEF ClientOK
  <2> QED BY <2>2, <2>3
<1>5. ASSUME NEW s \in Subs \ Conns, OtherReceives(s) PROVE ClientOK'
  <2>1. PICK m \in Message : /\ toAck' = [toAck EXCEPT ![s] = @ \cup {m}]
                             /\ received' = received \cup {m}
    BY <1>5, Zenon DEF OtherReceives
  <2>2. m \in Numbers /\ UNCHANGED <<asked, waiting>>
    BY <1>5, Bounds DEF OtherReceives
  <2> QED BY <2>1, <2>2 DEF ClientOK
<1>6. ASSUME NEW s \in Subs \ Conns, OtherAcks(s) PROVE ClientOK'
  BY <1>6 DEF OtherAcks, ClientOK
<1> QED BY <1>1, <1>2, <1>3, <1>4, <1>5, <1>6, ClientMoves

\* A number that a client can ack after a step it could ack before, or the
\* message has just reached it.
LEMMA ToAckStep ==
  ASSUME ClientOK, InOK, CarriesInv, [Next]_vars
  PROVE  /\ \A c \in Conns : \A n \in toAck'[c] :
              \/ n \in toAck[c]
              \/ \E msg \in ToClient : /\ Carries(c, msg) /\ msg.kind = "inbound"
                                       /\ msg.sequence = n /\ msg.m \in received'
         /\ \A s \in Subs \ Conns : toAck'[s] \subseteq toAck[s] \cup received'
<1> USE ConnectionConstants
<1> DEFINE Arrived(c, n) ==
             \E msg \in ToClient : /\ Carries(c, msg) /\ msg.kind = "inbound"
                                   /\ msg.sequence = n /\ msg.m \in received'
           Goal == /\ \A c \in Conns : \A n \in toAck'[c] : n \in toAck[c] \/ Arrived(c, n)
                   /\ \A s \in Subs \ Conns : toAck'[s] \subseteq toAck[s] \cup received'
<1>1. CASE toAck' = toAck
  BY <1>1
<1>2. ASSUME NEW c \in Conns, ClientAcks(c) PROVE Goal
  <2>1. PICK n : toAck' = [toAck EXCEPT ![c] = @ \ {n}]
    BY <1>2, Zenon DEF ClientAcks
  <2>2. \A s \in Subs : toAck'[s] \subseteq toAck[s]
    BY <2>1 DEF ClientOK
  <2> QED BY <2>2
<1>3. ASSUME NEW c \in Conns, Write(c), Head(in[c]).kind = "inbound" PROVE Goal
  <2> DEFINE msg == Head(in[c])
  <2>1. /\ toAck' = [toAck EXCEPT ![c] = @ \cup {msg.sequence}]
        /\ received' = received \cup {msg.m}
        /\ msg \in ToClient /\ Carries(c, msg)
    BY <1>3, Written, Zenon
  <2> HIDE DEF msg
  <2>2. Arrived(c, msg.sequence)
    BY <1>3, <2>1 DEF msg
  <2>3. /\ toAck'[c] = toAck[c] \cup {msg.sequence}
        /\ \A s \in Subs : s # c => toAck'[s] = toAck[s]
    BY <2>1 DEF ClientOK
  <2> HIDE DEF Arrived
  <2> QED BY <2>2, <2>3, Zenon
<1>4. ASSUME NEW s \in Subs \ Conns, OtherReceives(s) PROVE Goal
  <2>1. PICK m \in Message : /\ toAck' = [toAck EXCEPT ![s] = @ \cup {m}]
                             /\ received' = received \cup {m}
    BY <1>4, Zenon DEF OtherReceives
  <2>2. /\ toAck'[s] = toAck[s] \cup {m} /\ m \in received'
        /\ \A t \in Subs : t # s => toAck'[t] = toAck[t]
    BY <2>1 DEF ClientOK
  <2>3. \A c \in Conns : toAck'[c] = toAck[c]
    BY <2>2
  <2>4. \A t \in Subs \ Conns : toAck'[t] \subseteq toAck[t] \cup received'
    BY <2>2
  <2> HIDE DEF Arrived
  <2> QED BY <2>3, <2>4, Zenon
<1>5. ASSUME NEW s \in Subs \ Conns, OtherAcks(s) PROVE Goal
  <2>1. PICK n : toAck' = [toAck EXCEPT ![s] = @ \ {n}]
    BY <1>5, Zenon DEF OtherAcks
  <2>2. \A t \in Subs : toAck'[t] \subseteq toAck[t]
    BY <2>1 DEF ClientOK
  <2> QED BY <2>2
<1>6. ASSUME NEW c \in Conns, ClientAsks(c) PROVE toAck' = toAck
  BY <1>6 DEF ClientAsks
<1>7. ASSUME NEW c \in Conns, Write(c), Head(in[c]).kind # "inbound" PROVE toAck' = toAck
  BY <1>7, Written
<1>8. UNCHANGED client => toAck' = toAck
  BY DEF client
<1> HIDE DEF Goal
<1>9. Goal
  <2>1. (toAck' = toAck) => Goal
    BY <1>1 DEF Goal
  <2> QED BY <1>2, <1>3, <1>4, <1>5, <1>6, <1>7, <1>8, <2>1, ClientMoves, ZenonT(30)
<1> QED BY <1>9 DEF Goal, Arrived

\* The message that the reader hands over after a step it handed over before,
\* or it is new, and an Ack has a number that the client could ack.
LEMMA ReaderStep ==
  ASSUME WebOK, [Next]_vars
  PROVE  \A c \in Conns : \/ rhand'[c] = rhand[c] \/ rhand'[c] = None
                          \/ rhand'[c].kind # "Ack" \/ rhand'[c].sequence \in toAck[c]
<1> DEFINE Goal == \A c \in Conns : \/ rhand'[c] = rhand[c] \/ rhand'[c] = None
                                    \/ rhand'[c].kind # "Ack"
                                    \/ rhand'[c].sequence \in toAck[c]
<1>1. CASE UNCHANGED rhand
  BY <1>1
<1>2. UNCHANGED web => UNCHANGED rhand
  BY DEF web
<1>3. ASSUME NEW c \in Conns, ServeHTTP(c) \/ SocketCloses(c) \/ Close(c) \/ WriterEnds(c)
      PROVE  UNCHANGED rhand
  BY <1>3 DEF ServeHTTP, SocketCloses, Close, WriterEnds
<1>4. ASSUME NEW c \in Conns, ClientAsks(c) PROVE Goal
  <2>1. PICK kind \in Requests :
          rhand' = [rhand EXCEPT ![c] = [kind |-> kind, sequence |-> asked[c] + 1]]
    BY <1>4, Zenon DEF ClientAsks, Read
  <2>2. kind # "Ack"
    BY Zenon DEF Requests
  <2> QED BY <2>1, <2>2, Zenon DEF WebOK
<1>5. ASSUME NEW c \in Conns, ClientAcks(c) PROVE Goal
  <2>1. PICK n \in toAck[c] : rhand' = [rhand EXCEPT ![c] = [kind |-> "Ack", sequence |-> n]]
    BY <1>5, Zenon DEF ClientAcks, Read
  <2> QED BY <2>1, Zenon DEF WebOK
<1>6. ASSUME NEW c \in Conns, doHandleOutboundMessage(c) PROVE Goal
  <2>1. rhand' = [rhand EXCEPT ![c] = None]
    BY <1>6, Zenon DEF doHandleOutboundMessage, ReaderGoesOn
  <2> QED BY <2>1 DEF WebOK
<1> QED BY <1>1, <1>2, <1>3, <1>4, <1>5, <1>6, WebMoves, Zenon

\* An Ack only comes back for what was received.
LEMMA ReachedStep ==
  ASSUME ClientOK, InOK, EntriesOK, EntriesOK', WebOK, WebOK', CarriesInv, ReachedInv,
         [Next]_vars
  PROVE  ReachedInv'
<1> USE ConnectionConstants
<1>0. received \subseteq received'
  BY ReceivedGrows
<1>1. ASSUME NEW c \in Conns, NEW n \in toAck[c] PROVE Reached(c, n)'
  <2>1. n \in Numbers /\ Reached(c, n)
    BY DEF ClientOK, ReachedInv
  <2> QED BY <1>0, <2>1, ReachedKept, Zenon
<1>2. ASSUME NEW c \in Conns, NEW n \in toAck'[c] PROVE Reached(c, n)'
  <2>1. CASE n \in toAck[c]
    BY <1>1, <2>1, Zenon
  <2>2. ASSUME NEW msg \in ToClient, Carries(c, msg), msg.kind = "inbound",
               msg.sequence = n, msg.m \in received'
        PROVE  Reached(c, n)'
    <3>1. Carries(c, msg)'
      BY <2>2, CarriesKept, Zenon
    <3> QED BY <2>2, <3>1, Zenon DEF Carries, Reached
  <2> QED BY <2>1, <2>2, ToAckStep, Zenon
<1>3. ASSUME NEW c \in Conns, rhand'[c] # None, rhand'[c].kind = "Ack"
      PROVE  Reached(c, rhand[c].sequence)'
  <2>1. PICK n \in Numbers : n = rhand'[c].sequence
    BY <1>3 DEF WebOK, FromClient
  <2>2. CASE rhand'[c] = rhand[c]
    <3>1. Reached(c, n)
      BY <1>3, <2>1, <2>2, Zenon DEF ReachedInv
    <3>2. Reached(c, n)'
      BY <1>0, <3>1, ReachedKept
    <3> QED BY <2>1, <3>2, Zenon DEF Reached
  <2>3. CASE rhand'[c].sequence \in toAck[c]
    <3>1. Reached(c, n)'
      BY <1>1, <2>1, <2>3, Zenon
    <3> QED BY <2>1, <3>1, Zenon DEF Reached
  <2> QED BY <1>3, <2>2, <2>3, ReaderStep, Zenon
<1>4. ASSUME NEW s \in Subs \ Conns PROVE toAck'[s] \subseteq received'
  BY <1>0, ToAckStep DEF ReachedInv
<1> QED BY <1>2, <1>3, <1>4, Zenon DEF ReachedInv

-----------------------------------------------------------------------------
(***************************************************************************)
(* handleOutbound.                                                         *)
(***************************************************************************)

HandlingOK ==
  /\ identity \in [Conns -> BOOLEAN]
  /\ hpc \in [Conns -> {"none", "select", "done"}]
  /\ ops \in [Conns -> Seq(Ops)]
  /\ \A c \in Conns : mx = c => ops[c] # <<>> /\ Head(ops[c]).kind = "publish"

\* The operations of a handler other than handleACK.
LEMMA OpsTyped ==
  ASSUME NEW n \in Numbers
  PROVE  /\ error(n) \in Ops /\ answer(n) \in Ops /\ Msg("publish", n, None) \in Ops
         /\ close \in Ops /\ subscribe \in Ops
  BY Bounds, Zenon DEF error, answer, close, subscribe, Msg, Ops

\* What a handler does are operations, and the acker that handleACK calls is
\* for a message that was received.
LEMMA HandlersTyped ==
  ASSUME EntriesOK, NEW c \in Conns, NEW msg \in FromClient,
         msg.kind = "Ack" => Reached(c, msg.sequence)
  PROVE  Handlers(c, msg) \subseteq Seq(Ops) /\ refuseAuthResponse(msg.sequence) \in Seq(Ops)
<1> DEFINE n == msg.sequence
<1>1. n \in Numbers /\ msg.kind \in Requests \cup {"Ack"}
  BY DEF FromClient
<1> HIDE DEF n
<1>2. /\ error(n) \in Ops /\ answer(n) \in Ops /\ Msg("publish", n, None) \in Ops
      /\ close \in Ops /\ subscribe \in Ops
  BY <1>1, OpsTyped
<1>3. /\ <<error(n)>> \in Seq(Ops) /\ <<answer(n)>> \in Seq(Ops) /\ <<>> \in Seq(Ops)
      /\ <<error(n), close>> \in Seq(Ops)
      /\ <<subscribe, answer(n)>> \in Seq(Ops)
      /\ <<Msg("publish", n, None), answer(n)>> \in Seq(Ops)
      /\ <<error(n), close, error(n)>> \in Seq(Ops)
      /\ <<error(n), close, subscribe, answer(n)>> \in Seq(Ops)
  BY <1>2
<1>4. refuseAuthResponse(n) \in Seq(Ops)
  BY <1>3 DEF refuseAuthResponse
<1>5. CASE msg.kind = "Ack"
  <2>1. Handlers(c, msg) = handleACK(c, n)
    BY <1>5 DEF Handlers, n
  <2>2. ASSUME NEW e \in unackedMessages[c], e[1] = n
        PROVE  <<Msg("acker", n, e[2])>> \in Seq(Ops)
    <3>1. e[2] \in received
      BY <1>5, <2>2, Zenon DEF Reached, n
    <3>2. Msg("acker", n, e[2]) \in Ops
      BY <1>1, <3>1 DEF Msg, Ops
    <3> QED BY <3>2
  <2>3. handleACK(c, n) \subseteq Seq(Ops)
    BY <1>3, <2>2, Zenon DEF handleACK
  <2> QED BY <1>4, <2>1, <2>3 DEF n
<1>6. CASE msg.kind # "Ack"
  <2>1. /\ {<<error(n)>>} \subseteq Seq(Ops)
        /\ handleAuthResponse(n) \subseteq Seq(Ops)
        /\ handleRegister(n) \subseteq Seq(Ops)
        /\ handleRequestPreKeys(n) \cup handleFindChatNumber(n) \subseteq Seq(Ops)
        /\ sendOutboundMessage(n) \subseteq Seq(Ops)
        /\ handleRequestUploadAuthorizations(n) \subseteq Seq(Ops)
    BY <1>3 DEF handleAuthResponse, handleRegister, handleRequestPreKeys,
                handleFindChatNumber, sendOutboundMessage,
                handleRequestUploadAuthorizations
  <2>2. Handlers(c, msg) \in {{<<error(n)>>}, handleAuthResponse(n), handleRegister(n),
                              handleRequestPreKeys(n) \cup handleFindChatNumber(n),
                              sendOutboundMessage(n), handleRequestUploadAuthorizations(n)}
    BY <1>1, <1>6 DEF Handlers, Requests, n
  <2> QED BY <1>4, <2>1, <2>2, Zenon DEF n
<1> QED BY <1>5, <1>6

\* The actions that leave handleOutbound alone, and the mutex with whom it was
\* unless it is Free.
LEMMA HandlingMoves ==
  ASSUME [Next]_vars
  PROVE  \/ /\ UNCHANGED <<identity, ops, hpc>>
            /\ mx' \in {mx, Free, Other}
         \/ \E p \in Publishers : PublishReturns(p)
         \/ \E c \in Conns : \/ ServeHTTP(c) \/ doHandleOutboundMessage(c) \/ send(c)
                             \/ Close(c) \/ startHandlingInbound(c) \/ PublishOutbound(c)
                             \/ Acker(c) \/ OutboundEnds(c)
<1>1. CASE UNCHANGED vars
  BY <1>1 DEF vars, brokerVars, topicVars, connVars, handling
<1>2. CASE OtherPublishes
  BY <1>2 DEF OtherPublishes, Publish, connVars, handling
<1>3. ASSUME NEW s \in Subs, Broker(s) PROVE UNCHANGED <<identity, ops, hpc, mx>>
  BY <1>3, Zenon DEF Broker, process, CopyExisting, Take, Lookup, ProcessEnds, OfferTimesOut,
              topicVars, connVars, handling
<1>4. ASSUME NEW c \in Conns, ClientAsks(c) \/ ClientAcks(c) \/ SocketCloses(c)
      PROVE  UNCHANGED <<identity, ops, hpc, mx>>
  BY <1>4 DEF ClientAsks, ClientAcks, Read, SocketCloses, brokerVars, topicVars, handling
<1>5. ASSUME NEW c \in Conns,
             \/ sendInitMessages(c) \/ InboundResumes(c) \/ warnPreKeysLowIfNecessary(c)
             \/ Write(c) \/ WriterEnds(c)
      PROVE  UNCHANGED <<identity, ops, hpc, mx>>
  BY <1>5, Zenon DEF sendInitMessages, InboundResumes, warnPreKeysLowIfNecessary, Write,
              WriterEnds, brokerVars, topicVars, handling
<1>6. ASSUME NEW c \in Conns, HandleInbound(c) PROVE UNCHANGED <<identity, ops, hpc, mx>>
  BY <1>6, Zenon DEF HandleInbound, Receives, Replay, Offer, topicVars
<1>7. ASSUME NEW c \in Conns, InboundEnds(c) PROVE UNCHANGED <<identity, ops, hpc, mx>>
  BY <1>7, Zenon DEF InboundEnds, CloseSubscriber, topicVars, handling
<1>8. ASSUME NEW s \in Subs \ Conns,
             OtherSubscribes(s) \/ OtherReceives(s) \/ OtherAcks(s)
      PROVE  UNCHANGED <<identity, ops, hpc, mx>>
  BY <1>8 DEF OtherSubscribes, NewSubscriber, OtherReceives, Receives, Replay, Offer,
              OtherAcks, ack, topicVars, connVars, handling
<1> QED BY <1>1, <1>2, <1>3, <1>4, <1>5, <1>6, <1>7, <1>8, Zenon DEF Next, Goroutines

\* An operation is done: the handler goes on with the rest.
LEMMA DoneTyped ==
  ASSUME HandlingOK, NEW c \in Conns, ops[c] # <<>>, Done(c), Ops' = Ops, mx' # c,
         mx' \in {mx, Free, Other}
  PROVE  /\ ops' \in [Conns -> Seq(Ops')]
         /\ \A d \in Conns : mx' = d => ops'[d] # <<>> /\ Head(ops'[d]).kind = "publish"
<1>1. ops' = [ops EXCEPT ![c] = Tail(ops[c])] /\ Tail(ops[c]) \in Seq(Ops)
  BY OpTyped DEF Done, HandlingOK
<1>2. \A d \in Conns : d # c => ops'[d] = ops[d]
  BY <1>1 DEF HandlingOK
<1>3. \A d \in Conns : mx' = d => mx = d /\ d # c
  BY ConnectionConstants
<1>4. ops' \in [Conns -> Seq(Ops)]
  BY <1>1 DEF HandlingOK
<1> QED BY <1>2, <1>3, <1>4 DEF HandlingOK

\* Every step keeps the types of what handlers have to do.
LEMMA HandlingStep ==
  ASSUME HandlingOK, EntriesOK, WebOK, ReachedInv, [Next]_vars
  PROVE  HandlingOK'
<1> USE ConnectionConstants
<1>1. CASE UNCHANGED <<identity, ops, hpc>> /\ mx' \in {mx, Free, Other}
  <2>1. received \subseteq received'
    BY ReceivedGrows
  <2>2. Ops \subseteq Ops'
    BY <2>1 DEF Ops
  <2> HIDE DEF Ops
  <2>3. ops' \in [Conns -> Seq(Ops')]
    BY <1>1, <2>2 DEF HandlingOK
  <2>4. \A d \in Conns : mx' = d => mx = d
    BY <1>1
  <2> QED BY <1>1, <2>3, <2>4 DEF HandlingOK
<1>2. ASSUME received' = received PROVE Ops' = Ops
  BY <1>2 DEF Ops
<1>3. ASSUME NEW p \in Publishers, PublishReturns(p) PROVE HandlingOK'
  <2>1. /\ mx = p /\ mx' = Free /\ UNCHANGED <<identity, hpc, received>>
        /\ ops' = [c \in Conns |-> IF c = p THEN Tail(ops[c]) ELSE ops[c]]
    BY <1>3 DEF PublishReturns, PublishResumes, client
  <2>2. p \in Conns => Tail(ops[p]) \in Seq(Ops)
    BY <2>1, OpTyped DEF HandlingOK
  <2>3. ops' \in [Conns -> Seq(Ops)]
    BY <2>1, <2>2 DEF HandlingOK
  <2>4. \A c \in Conns : mx' # c
    BY <2>1
  <2> QED BY <1>2, <2>1, <2>3, <2>4, Zenon DEF HandlingOK
<1>4. ASSUME NEW c \in Conns, ServeHTTP(c) PROVE HandlingOK'
  <2>1. UNCHANGED <<identity, ops, mx, received>> /\ hpc' = [hpc EXCEPT ![c] = "select"]
    BY <1>4 DEF ServeHTTP, Connect, brokerVars, topicVars, client
  <2> QED BY <1>2, <2>1 DEF HandlingOK
<1>5. ASSUME NEW c \in Conns, doHandleOutboundMessage(c) PROVE HandlingOK'
  <2>1. ops[c] = <<>> /\ rpc[c] = "give" /\ UNCHANGED <<hpc, mx, received>>
    BY <1>5, Zenon DEF doHandleOutboundMessage, brokerVars, topicVars, client
  <2>2. rhand[c] \in FromClient /\ (rhand[c].kind = "Ack" => Reached(c, rhand[c].sequence))
    <3>1. rhand[c] # None /\ rhand[c] \in FromClient
      BY <2>1, Zenon DEF WebOK
    <3> QED BY <3>1, Zenon DEF ReachedInv
  <2>3. /\ Handlers(c, rhand[c]) \subseteq Seq(Ops)
        /\ refuseAuthResponse(rhand[c].sequence) \in Seq(Ops)
    BY <2>2, HandlersTyped
  <2>4. PICK o \in Seq(Ops) : ops' = [ops EXCEPT ![c] = o]
    BY <1>5, <2>3, Zenon DEF doHandleOutboundMessage
  <2>5. identity' \in [Conns -> BOOLEAN]
    <3>1. \/ identity' = [identity EXCEPT ![c] = @ \/ rhand[c].kind = "AuthResponse"]
          \/ identity' = identity
      BY <1>5, Zenon DEF doHandleOutboundMessage
    <3> QED BY <3>1, Zenon DEF HandlingOK
  <2>6. ops' \in [Conns -> Seq(Ops)]
    BY <2>4 DEF HandlingOK
  <2>7. \A d \in Conns : mx' = d => ops'[d] # <<>> /\ Head(ops'[d]).kind = "publish"
    <3>1. mx # c
      BY <2>1 DEF HandlingOK
    <3>2. \A d \in Conns : d # c => ops'[d] = ops[d]
      BY <2>4 DEF HandlingOK
    <3> QED BY <2>1, <3>1, <3>2 DEF HandlingOK
  <2> QED BY <1>2, <2>1, <2>5, <2>6, <2>7, Zenon DEF HandlingOK
<1>6. ASSUME NEW c \in Conns, ops[c] # <<>>, Done(c), mx' # c, mx' \in {mx, Free, Other},
             UNCHANGED <<identity, hpc, received>>
      PROVE  HandlingOK'
  <2>1. /\ ops' \in [Conns -> Seq(Ops')]
        /\ \A d \in Conns : mx' = d => ops'[d] # <<>> /\ Head(ops'[d]).kind = "publish"
    BY <1>2, <1>6, DoneTyped
  <2> QED BY <1>6, <2>1, Zenon DEF HandlingOK
<1>7. ASSUME NEW c \in Conns, send(c) \/ Close(c) \/ startHandlingInbound(c) \/ Acker(c)
      PROVE  HandlingOK'
  <2>1. /\ ops[c] # <<>> /\ Head(ops[c]).kind # "publish" /\ Done(c)
        /\ UNCHANGED <<identity, hpc, received, mx>>
    <3>1. CASE send(c)
      BY <3>1, Zenon DEF send, Doing, brokerVars, topicVars, client
    <3>2. CASE Close(c)
      BY <3>2, Zenon DEF Close, Doing, brokerVars, topicVars, client
    <3>3. CASE startHandlingInbound(c)
      BY <3>3, Zenon DEF startHandlingInbound, NewSubscriber, Doing, topicVars, client
    <3>4. CASE Acker(c)
      BY <3>4, Zenon DEF Acker, ack, Doing, brokerVars, topicVars, client
    <3> QED BY <1>7, <3>1, <3>2, <3>3, <3>4
  <2>2. mx # c
    BY <2>1 DEF HandlingOK
  <2> QED BY <1>6, <2>1, <2>2, ZenonT(30)
<1>8. ASSUME NEW c \in Conns, PublishOutbound(c) PROVE HandlingOK'
  <2>1. /\ ops[c] # <<>> /\ Head(ops[c]).kind = "publish" /\ mx # c
        /\ UNCHANGED <<identity, hpc, received>>
    BY <1>8, Zenon DEF PublishOutbound, Doing, client
  <2>2. CASE Publish(c) /\ mx' = c /\ UNCHANGED ops
    BY <1>2, <2>1, <2>2 DEF HandlingOK
  <2>3. CASE Publish(c) /\ mx' # c /\ Done(c)
    <3>1. mx' = mx
      BY <2>3 DEF Publish
    <3> QED BY <1>6, <2>1, <2>3, <3>1, Zenon
  <2>4. CASE Done(c) /\ UNCHANGED brokerVars
    <3>1. mx' = mx
      BY <2>4 DEF brokerVars, topicVars
    <3> QED BY <1>6, <2>1, <2>4, <3>1
  <2> QED BY <1>8, <2>2, <2>3, <2>4 DEF PublishOutbound
<1>9. ASSUME NEW c \in Conns, OutboundEnds(c) PROVE HandlingOK'
  <2>1. UNCHANGED <<identity, ops, mx, received>> /\ hpc' = [hpc EXCEPT ![c] = "done"]
    BY <1>9 DEF OutboundEnds, brokerVars, topicVars, client
  <2> QED BY <1>2, <2>1, Zenon DEF HandlingOK
<1> QED BY <1>1, <1>3, <1>4, <1>5, <1>7, <1>8, <1>9, HandlingMoves

-----------------------------------------------------------------------------
(***************************************************************************)
(* What acks remove, and what the topic keeps.                             *)
(***************************************************************************)

\* The actions, by what they do to the topic, to the map of ackers and to what
\* other consumers have yet to ack.
LEMMA KeepingMoves ==
  ASSUME toAck \in [Subs -> SUBSET Numbers], [Next]_vars
  PROVE  \/ /\ UNCHANGED <<brokerVars, unackedMessages>>
            /\ \A s \in Subs \ Conns : toAck'[s] = toAck[s]
         \/ /\ UNCHANGED <<unackedMessages, toAck>>
            /\ \/ \E p \in Publishers : Publish(p) \/ PublishResumes(p)
               \/ \E s \in Subs : \/ NewSubscriber(s) \/ process(s) \/ OfferTimesOut(s)
                                  \/ CloseSubscriber(s)
         \/ \E c \in Conns : Acker(c) \/ HandleInbound(c)
         \/ \E s \in Subs \ Conns : OtherReceives(s) \/ OtherAcks(s)
<1> USE ConnectionConstants
<1>1. CASE UNCHANGED vars
  BY <1>1 DEF vars, connVars, handling, client
<1>2. CASE OtherPublishes
  BY <1>2, Zenon DEF OtherPublishes, connVars, handling, client
<1>3. ASSUME NEW p \in Publishers, PublishReturns(p)
      PROVE  PublishResumes(p) /\ UNCHANGED <<unackedMessages, toAck>>
  BY <1>3, Zenon DEF PublishReturns, client
<1>4. ASSUME NEW s \in Subs, Broker(s)
      PROVE  (process(s) \/ OfferTimesOut(s)) /\ UNCHANGED <<unackedMessages, toAck>>
  BY <1>4, Zenon DEF Broker, connVars, handling, client
<1>5. ASSUME NEW c \in Conns, ServeHTTP(c) \/ ClientAsks(c) \/ SocketCloses(c)
      PROVE  UNCHANGED <<brokerVars, unackedMessages, toAck>>
  BY <1>5 DEF ServeHTTP, ClientAsks, Read, SocketCloses, handling, client
<1>6. ASSUME NEW c \in Conns, ClientAcks(c)
      PROVE  /\ UNCHANGED <<brokerVars, unackedMessages>>
             /\ \A s \in Subs \ Conns : toAck'[s] = toAck[s]
  BY <1>6, Zenon DEF ClientAcks, Read, handling
<1>7. ASSUME NEW c \in Conns,
             \/ sendInitMessages(c) \/ InboundResumes(c) \/ warnPreKeysLowIfNecessary(c)
             \/ doHandleOutboundMessage(c) \/ send(c) \/ Close(c) \/ OutboundEnds(c)
             \/ WriterEnds(c)
      PROVE  UNCHANGED <<brokerVars, unackedMessages, toAck>>
  BY <1>7, Zenon DEF sendInitMessages, InboundResumes, warnPreKeysLowIfNecessary,
              doHandleOutboundMessage, send, Close, OutboundEnds, WriterEnds, handling, client
<1>8. ASSUME NEW c \in Conns, Write(c)
      PROVE  /\ UNCHANGED <<brokerVars, unackedMessages>>
             /\ \A s \in Subs \ Conns : toAck'[s] = toAck[s]
  <2>1. UNCHANGED <<brokerVars, unackedMessages>>
    BY <1>8, Zenon DEF Write, handling
  <2>2. toAck' = toAck \/ \E n : toAck' = [toAck EXCEPT ![c] = @ \cup {n}]
    BY <1>8, Zenon DEF Write
  <2> QED BY <2>1, <2>2
<1>9. ASSUME NEW c \in Conns, InboundEnds(c) \/ startHandlingInbound(c)
      PROVE  /\ UNCHANGED <<unackedMessages, toAck>>
             /\ CloseSubscriber(c) \/ NewSubscriber(c)
  BY <1>9, Zenon DEF InboundEnds, startHandlingInbound, handling, client
<1>10. ASSUME NEW c \in Conns, PublishOutbound(c)
       PROVE  /\ UNCHANGED <<unackedMessages, toAck>>
              /\ Publish(c) \/ UNCHANGED brokerVars
  BY <1>10 DEF PublishOutbound, client
<1>11. ASSUME NEW s \in Subs \ Conns, OtherSubscribes(s)
       PROVE  NewSubscriber(s) /\ UNCHANGED <<unackedMessages, toAck>>
  BY <1>11, Zenon DEF OtherSubscribes, connVars, handling, client
<1> QED BY <1>1, <1>2, <1>3, <1>4, <1>5, <1>6, <1>7, <1>8, <1>9, <1>10, <1>11, Zenon
        DEF Next, Goroutines

\* An ack only takes a message that was received from the topic.
LEMMA AckedStep ==
  ASSUME BrokerOK, ClientOK, HandlingOK, ReachedInv, AckedWasReceived, [Next]_vars
  PROVE  AckedWasReceived'
<1> USE ConnectionConstants
<1>0. received \subseteq received' /\ seq \in Nat
  BY ReceivedGrows DEF BrokerOK, BrokerTypeOK
<1>1. ASSUME UNCHANGED <<seq, messages>> PROVE AckedWasReceived'
  BY <1>0, <1>1 DEF AckedWasReceived
<1>2. ASSUME NEW p, Publish(p) PROVE AckedWasReceived'
  <2>1. seq' = seq + 1 /\ messages' = messages \cup {seq}
    BY <1>2 DEF Publish
  <2>2. 0..(seq' - 1) \subseteq 0..(seq - 1) \cup {seq}
    BY <1>0, <2>1
  <2> QED BY <1>0, <2>1, <2>2 DEF AckedWasReceived
<1>3. ASSUME NEW m \in received, ack(m) PROVE AckedWasReceived'
  BY <1>0, <1>3, Zenon DEF ack, AckedWasReceived
<1>4. ASSUME NEW c \in Conns, Acker(c) PROVE AckedWasReceived'
  <2>1. CASE ack(Head(ops[c]).m)
    <3>1. Head(ops[c]).m \in received
      BY <1>4, OpTyped, Zenon DEF Acker, Doing, HandlingOK
    <3> QED BY <1>3, <2>1, <3>1
  <2>2. CASE UNCHANGED brokerVars
    BY <1>1, <2>2, Zenon DEF brokerVars, topicVars
  <2> QED BY <1>4, <2>1, <2>2, Zenon DEF Acker
<1>5. ASSUME NEW s \in Subs \ Conns, OtherAcks(s) PROVE AckedWasReceived'
  BY <1>3, <1>5 DEF OtherAcks, ReachedInv
<1>6. ASSUME NEW s \in Subs, NewSubscriber(s) \/ process(s) \/ OfferTimesOut(s)
                             \/ CloseSubscriber(s) \/ \E m \in Message : Receives(s, m)
      PROVE  UNCHANGED <<seq, messages>>
  BY <1>6, Zenon DEF NewSubscriber, process, CopyExisting, Take, Lookup, ProcessEnds, OfferTimesOut,
              CloseSubscriber, Receives, Replay, Offer, topicVars
<1>7. ASSUME NEW p \in Publishers, PublishResumes(p) PROVE UNCHANGED <<seq, messages>>
  BY <1>7 DEF PublishResumes
<1>8. ASSUME NEW c \in Conns, HandleInbound(c) PROVE \E m \in Message : Receives(c, m)
  BY <1>8, Zenon DEF HandleInbound
<1>9. ASSUME NEW s \in Subs \ Conns, OtherReceives(s) PROVE \E m \in Message : Receives(s, m)
  BY <1>9 DEF OtherReceives
<1>10. UNCHANGED brokerVars => UNCHANGED <<seq, messages>>
  BY DEF brokerVars, topicVars
<1> HIDE DEF AckedWasReceived
<1> QED BY <1>1, <1>2, <1>4, <1>5, <1>6, <1>7, <1>8, <1>9, <1>10, KeepingMoves DEF ClientOK

-----------------------------------------------------------------------------
\* The invariant, by groups.
LEMMA ConnInvGroups ==
  ConnInv <=> /\ BrokerOK /\ WebOK /\ EntriesOK /\ InOK /\ PushersOK /\ ClientOK
              /\ HandlingOK /\ BuilderInv /\ CarriesInv /\ ReachedInv /\ AckedWasReceived
  BY Zenon DEF ConnInv, TypeOK, PublisherInv, BrokerOK, WebOK, EntriesOK, InOK, PushersOK,
         ClientOK, HandlingOK

\* At the start there is no connection and no message.
LEMMA ConnInvInit == Init => ConnInv
<1> SUFFICES ASSUME Init PROVE ConnInv
  OBVIOUS
<1> USE ConnectionConstants
<1>1. BrokerOK
  BY Bounds DEF Init, BrokerInit, BrokerOK, BrokerTypeOK
<1>2. WebOK /\ PushersOK /\ ClientOK
  BY DEF Init, WebOK, ServedInv, PushersOK, ClientOK
<1>3. EntriesOK
  BY Bounds DEF Init, EntriesOK
<1>4. InOK
  BY DEF Init, InOK
<1>5. HandlingOK
  BY DEF Init, BrokerInit, HandlingOK
<1>6. BuilderInv /\ ReachedInv
  BY DEF Init, BuilderInv, ReachedInv
<1>7. CarriesInv
  BY DEF Init, CarriesInv, InTransit, Range
<1>8. AckedWasReceived
  BY DEF Init, BrokerInit, AckedWasReceived
<1> QED BY <1>1, <1>2, <1>3, <1>4, <1>5, <1>6, <1>7, <1>8, ConnInvGroups

\* Every step keeps the inductive invariant.
LEMMA ConnInvStep == ConnInv /\ [Next]_vars => ConnInv'
<1> SUFFICES ASSUME ConnInv, [Next]_vars PROVE ConnInv'
  OBVIOUS
<1>0. /\ BrokerOK /\ WebOK /\ EntriesOK /\ InOK /\ PushersOK /\ ClientOK
      /\ HandlingOK /\ BuilderInv /\ CarriesInv /\ ReachedInv /\ AckedWasReceived
  BY ConnInvGroups
<1>1. BrokerOK'
  BY <1>0, BrokerTyped
<1>2. EntriesOK' /\ BuilderInv'
  BY <1>0, EntriesStep, BuilderStep
<1>3. ops \in [Conns -> Seq(Ops)]
  BY <1>0 DEF HandlingOK
<1>4. InOK' /\ PushersOK'
  BY <1>0, <1>3, ChannelStep
<1>5. CarriesInv'
  BY <1>0, <1>3, <1>4, CarriesStep
<1>6. WebOK'
  BY <1>0, WebStep DEF ClientOK
<1>7. ClientOK'
  BY <1>0, ClientStep
<1>8. ReachedInv'
  BY <1>0, <1>2, <1>6, ReachedStep
<1>9. HandlingOK'
  BY <1>0, HandlingStep
<1>10. AckedWasReceived'
  BY <1>0, AckedStep
<1>11. (ConnInv <=> /\ BrokerOK /\ WebOK /\ EntriesOK /\ InOK /\ PushersOK /\ ClientOK
                    /\ HandlingOK /\ BuilderInv /\ CarriesInv /\ ReachedInv
                    /\ AckedWasReceived)'
  BY Zenon DEF ConnInv, TypeOK, PublisherInv, BrokerOK, WebOK, EntriesOK, InOK, PushersOK,
         ClientOK, HandlingOK
<1> QED BY <1>1, <1>2, <1>4, <1>5, <1>6, <1>7, <1>8, <1>9, <1>10, <1>11

\* The inductive invariant holds.
LEMMA ConnInvHolds == Spec => []ConnInv
<1>1. Init => ConnInv
  BY ConnInvInit
<1>2. ConnInv /\ [Next]_vars => ConnInv'
  BY ConnInvStep
<1> QED BY <1>1, <1>2, PTL DEF Spec

\* The variables of the connections, of their websockets and of the topic keep
\* their types; the reader has a message exactly while it hands one over, and
\* conn.in stays within its capacity.
THEOREM TypeCorrect == Spec => []TypeOK
<1>1. ConnInv => TypeOK
  BY DEF ConnInv
<1> QED BY <1>1, ConnInvHolds, PTL

\* handleACK, with its map of ackers by number, removes from the broker only
\* what some consumer received.
THEOREM AckedOnlyReceived == Spec => []AckedWasReceived
<1>1. ConnInv => AckedWasReceived
  BY DEF ConnInv
<1> QED BY <1>1, ConnInvHolds, PTL

-----------------------------------------------------------------------------
(***************************************************************************)
(* KeptIsPending, message by message.                                      *)
(***************************************************************************)

\* A message that no consumer received yet.
OnItsWay(m) ==
  \/ m \in Range(ch)
  \/ \E s \in Subs : m \in existing[s]
  \/ \E s \in Subs : spc[s] \in {"lookup", "offer"} /\ hand[s] = m
  \/ mx # Free /\ m = seq - 1

\* One that was received, or offered in vain.
Waits(m) ==
  \/ m \in dropped
  \/ \E c \in Conns : \E e \in unackedMessages[c] : e[2] = m
  \/ \E s \in Subs \ Conns : m \in toAck[s]

Pends == \A m \in messages : OnItsWay(m) \/ Waits(m)

\* This is KeptIsPending.
LEMMA PendsIsPending == Pends <=> KeptIsPending
<1>1. ASSUME NEW m PROVE m \in Underway <=> OnItsWay(m)
  <2> DEFINE Copied == UNION {existing[s] : s \in Subs}
             Hands == {hand[s] : s \in {t \in Subs : spc[t] \in {"lookup", "offer"}}}
             Held == IF mx = Free THEN {} ELSE {seq - 1}
  <2>1. m \in Copied <=> \E s \in Subs : m \in existing[s]
    BY Zenon
  <2>2. m \in Hands <=> \E s \in Subs : spc[s] \in {"lookup", "offer"} /\ hand[s] = m
    BY Zenon
  <2>3. m \in Held <=> mx # Free /\ m = seq - 1
    OBVIOUS
  <2>4. Underway = Range(ch) \cup Copied \cup Hands \cup Held
    BY ONLY Zenon DEF Underway
  <2> HIDE DEF Copied, Hands, Held
  <2> QED BY ONLY <2>1, <2>2, <2>3, <2>4, Zenon DEF OnItsWay
<1>2. ASSUME NEW m
      PROVE  m \in dropped
                     \cup (UNION {{e[2] : e \in unackedMessages[c]} : c \in Conns})
                     \cup (UNION {toAck[s] : s \in Subs \ Conns})
             <=> Waits(m)
  <2> DEFINE Entries(c) == {e[2] : e \in unackedMessages[c]}
             Kept == UNION {Entries(c) : c \in Conns}
             ToAck == UNION {toAck[s] : s \in Subs \ Conns}
  <2>1. m \in ToAck <=> \E s \in Subs \ Conns : m \in toAck[s]
    BY Zenon
  <2>2. \A c \in Conns : m \in Entries(c) <=> \E e \in unackedMessages[c] : e[2] = m
    BY Zenon
  <2> HIDE DEF Entries
  <2>3. m \in Kept <=> \E c \in Conns : m \in Entries(c)
    BY Zenon
  <2> HIDE DEF Kept, ToAck
  <2>4. m \in dropped \cup Kept \cup ToAck <=> Waits(m)
    BY ONLY <2>1, <2>2, <2>3 DEF Waits
  <2> QED BY ONLY <2>4, Zenon DEF Kept, ToAck, Entries
<1> QED BY ONLY <1>1, <1>2, Zenon DEF Pends, KeptIsPending

\* What no step of the topic is about.
Untouched == UNCHANGED <<unackedMessages, toAck>>

\* Publish puts its message into ch, at once or when it resumes.
LEMMA PendsPublish ==
  ASSUME BrokerOK, Pends, Untouched, NEW p \in Publishers, Publish(p) \/ PublishResumes(p)
  PROVE  Pends'
<1> USE ConnectionConstants
<1>1. ch \in Seq(Message) /\ seq \in 0..MaxMessages
  BY DEF BrokerOK, BrokerTypeOK
<1>2. ASSUME NEW x \in Message, ch' = Append(ch, x)
      PROVE  Range(ch) \subseteq Range(ch') /\ x \in Range(ch')
  <2>1. /\ DOMAIN ch = 1..Len(ch) /\ DOMAIN ch' = 1..(Len(ch) + 1) /\ Len(ch) \in Nat
        /\ ch'[Len(ch) + 1] = x /\ \A i \in 1..Len(ch) : ch'[i] = ch[i]
    BY <1>1, <1>2
  <2> QED BY ONLY <2>1 DEF Range
<1>3. ASSUME Publish(p) PROVE Pends'
  <2>1. /\ mx = Free /\ seq \in Message /\ seq' = seq + 1 /\ messages' = messages \cup {seq}
        /\ UNCHANGED <<dropped, subVars>>
    BY <1>1, <1>3 DEF Publish, Message
  <2>2. \A m \in messages : Waits(m) => Waits(m)'
    BY <2>1, Zenon DEF Untouched, Waits
  <2>3. Range(ch) \subseteq Range(ch')
    BY <1>2, <1>3, <2>1, Zenon DEF Publish
  <2>4. \A m \in messages : OnItsWay(m) => OnItsWay(m)'
    BY <2>1, <2>3, Zenon DEF OnItsWay, subVars
  <2>5. PICK n \in Message : n = seq
    BY <2>1
  <2>6. n \in Range(ch') \/ (mx' # Free /\ n = seq' - 1)
    BY <1>1, <1>2, <1>3, <2>1, <2>5 DEF Publish
  <2>7. OnItsWay(n)'
    BY <2>6, Zenon DEF OnItsWay
  <2> QED BY <2>1, <2>2, <2>4, <2>5, <2>7, Zenon DEF Pends
<1>4. ASSUME PublishResumes(p) PROVE Pends'
  <2>1. /\ mx # Free /\ ch' = Append(ch, seq - 1)
        /\ UNCHANGED <<messages, seq, dropped, subVars>>
    BY <1>4 DEF PublishResumes
  <2>2. seq - 1 \in Message
    BY <1>1, <2>1 DEF BrokerOK, Message
  <2>3. Range(ch) \subseteq Range(ch') /\ seq - 1 \in Range(ch')
    BY <1>2, <2>1, <2>2
  <2>4. \A m \in messages : Waits(m) => Waits(m)'
    BY <2>1, Zenon DEF Untouched, Waits
  <2>5. \A m \in messages : OnItsWay(m) => OnItsWay(m)'
    BY <2>1, <2>3 DEF OnItsWay, subVars
  <2> QED BY <2>1, <2>4, <2>5 DEF Pends
<1> QED BY <1>3, <1>4

\* process() loses no message: what it takes from ch it offers, unless it was
\* acked in the meantime.
LEMMA PendsProcess ==
  ASSUME BrokerOK, Pends, Untouched, NEW s \in Subs,
         NewSubscriber(s) \/ process(s) \/ OfferTimesOut(s) \/ CloseSubscriber(s)
  PROVE  Pends'
<1> USE ConnectionConstants
<1>0. /\ ch \in Seq(Message)
      /\ spc \in [Subs -> {"none", "copy", "replay", "select", "lookup", "offer", "done"}]
      /\ existing \in [Subs -> SUBSET Message]
      /\ hand \in [Subs -> Message]
  BY Zenon DEF BrokerOK, BrokerTypeOK
<1>1. ASSUME dropped \subseteq dropped', NEW m \in messages, Waits(m) PROVE Waits(m)'
  BY <1>1 DEF Untouched, Waits
<1>2. CASE NewSubscriber(s) \/ ProcessEnds(s) \/ CloseSubscriber(s)
  <2>1. /\ UNCHANGED <<topicVars, existing, hand>>
        /\ \A t \in Subs : spc[t] \in {"lookup", "offer"} => spc'[t] = spc[t]
    BY <1>0, <1>2 DEF NewSubscriber, ProcessEnds, CloseSubscriber
  <2>2. \A m \in messages : OnItsWay(m) => OnItsWay(m)'
    BY <2>1, Zenon DEF OnItsWay, topicVars
  <2> QED BY <1>1, <2>1, <2>2, Zenon DEF Pends, topicVars
<1>3. CASE CopyExisting(s)
  <2>1. UNCHANGED topicVars /\ existing'[s] = messages
    BY <1>0, <1>3 DEF CopyExisting
  <2>2. \A m \in messages' : OnItsWay(m)'
    BY <2>1, Zenon DEF OnItsWay, topicVars
  <2> QED BY <2>2 DEF Pends
<1>4. CASE Take(s)
  <2>1. /\ ch # <<>> /\ ch' = Tail(ch) /\ hand' = [hand EXCEPT ![s] = Head(ch)]
        /\ spc' = [spc EXCEPT ![s] = "lookup"] /\ spc[s] = "select"
        /\ UNCHANGED <<seq, messages, mx, dropped, existing>>
    BY <1>4 DEF Take
  <2>2. hand'[s] = Head(ch) /\ spc'[s] = "lookup"
    BY <1>0, <2>1
  <2>3. \A t \in Subs : t # s => hand'[t] = hand[t] /\ spc'[t] = spc[t]
    BY <1>0, <2>1, Zenon
  <2>4. \A m \in Range(ch) : m = Head(ch) \/ m \in Range(Tail(ch))
    <3>1. /\ Len(ch) \in Nat /\ Len(ch) > 0 /\ DOMAIN ch = 1..Len(ch) /\ Head(ch) = ch[1]
          /\ DOMAIN Tail(ch) = 1..(Len(ch) - 1)
          /\ \A i \in 1..(Len(ch) - 1) : Tail(ch)[i] = ch[i + 1]
      BY <1>0, <2>1
    <3>2. ASSUME NEW i \in 1..Len(ch) PROVE ch[i] = Head(ch) \/ ch[i] \in Range(Tail(ch))
      <4>1. CASE i = 1
        BY <3>1, <4>1
      <4>2. CASE i # 1
        <5>1. i - 1 \in 1..(Len(ch) - 1) /\ (i - 1) + 1 = i
          BY ONLY <3>1, <4>2, i \in 1..Len(ch)
        <5>2. Tail(ch)[i - 1] = ch[i] /\ i - 1 \in DOMAIN Tail(ch)
          BY <3>1, <5>1
        <5> QED BY ONLY <5>2, Zenon DEF Range
      <4> QED BY <4>1, <4>2, Zenon
    <3> QED BY ONLY <3>1, <3>2 DEF Range
  <2>5. \A m \in messages : OnItsWay(m) => OnItsWay(m)'
    BY <2>1, <2>2, <2>3, <2>4, Zenon DEF OnItsWay
  <2> QED BY <1>1, <2>1, <2>5 DEF Pends
<1>5. CASE Lookup(s)
  <2>1. /\ UNCHANGED <<topicVars, existing, hand>>
        /\ hand[s] \in messages => spc'[s] = "offer"
        /\ \A t \in Subs : t # s => spc'[t] = spc[t]
    BY <1>0, <1>5 DEF Lookup
  <2>2. \A m \in messages : OnItsWay(m) => OnItsWay(m)'
    BY <2>1, Zenon DEF OnItsWay, topicVars
  <2> QED BY <1>1, <2>1, <2>2, Zenon DEF Pends, topicVars
<1>6. CASE OfferTimesOut(s)
  <2>1. /\ UNCHANGED <<seq, ch, messages, mx, existing, hand>>
        /\ dropped' = dropped \cup {hand[s]}
        /\ \A t \in Subs : t # s => spc'[t] = spc[t]
    BY <1>0, <1>6 DEF OfferTimesOut
  <2>2. \A m \in messages : OnItsWay(m) => OnItsWay(m)' \/ m \in dropped'
    BY <2>1, Zenon DEF OnItsWay
  <2>3. \A m \in messages : m \in dropped' => Waits(m)'
    BY Zenon DEF Waits
  <2> QED BY <1>1, <2>1, <2>2, <2>3, Zenon DEF Pends
<1> QED BY <1>2, <1>3, <1>4, <1>5, <1>6 DEF process

\* A consumer that receives a message has yet to ack it: its acker is kept.
LEMMA PendsReceives ==
  ASSUME BrokerOK, Pends, NEW s \in Subs, NEW x \in Message, Receives(s, x),
         \A m \in Message : Waits(m) \/ m = x => Waits(m)'
  PROVE  Pends'
<1>1. /\ spc \in [Subs -> {"none", "copy", "replay", "select", "lookup", "offer", "done"}]
      /\ existing \in [Subs -> SUBSET Message]
      /\ messages \subseteq Message
  BY Zenon DEF BrokerOK, BrokerTypeOK
<1>2. UNCHANGED <<topicVars, hand>> /\ \A t \in Subs : t # s => spc'[t] = spc[t]
  BY <1>1, Zenon DEF Receives, Replay, Offer
<1>3. ASSUME NEW m \in messages, OnItsWay(m), m # x PROVE OnItsWay(m)'
  <2>1. CASE Replay(s, x)
    <3>1. /\ spc[s] \notin {"lookup", "offer"}
          /\ \A t \in Subs : existing[t] \ {x} \subseteq existing'[t]
      BY <1>1, <2>1 DEF Replay
    <3> QED BY <1>2, <1>3, <3>1, Zenon DEF OnItsWay, topicVars
  <2>2. CASE Offer(s, x)
    <3>1. x = hand[s] /\ existing' = existing
      BY <2>2 DEF Offer
    <3> QED BY <1>2, <1>3, <3>1, Zenon DEF OnItsWay, topicVars
  <2> QED BY <2>1, <2>2, Zenon DEF Receives
<1> QED BY <1>1, <1>2, <1>3 DEF Pends, topicVars

\* A message leaves the map of ackers only when it leaves the topic.
LEMMA PendsAcked ==
  ASSUME Pends, NEW x, ack(x),
         \A m : m # x /\ Waits(m) => Waits(m)'
  PROVE  Pends'
<1>1. messages' = messages \ {x} /\ UNCHANGED <<seq, ch, mx, dropped, subVars>>
  BY Zenon DEF ack
<1>2. \A m : OnItsWay(m) => OnItsWay(m)'
  BY <1>1, Zenon DEF OnItsWay, subVars
<1> QED BY <1>1, <1>2 DEF Pends

\* Every step leaves what the topic keeps on its way or with a consumer.
LEMMA PendsStep ==
  ASSUME BrokerOK, EntriesOK, ClientOK, HandlingOK, Pends, [Next]_vars
  PROVE  Pends'
<1> USE ConnectionConstants
<1>0. /\ toAck \in [Subs -> SUBSET Numbers]
      /\ unackedMessages \in [Conns -> SUBSET (Numbers \X Message)]
  BY Zenon DEF ClientOK, EntriesOK
<1>1. CASE /\ UNCHANGED <<brokerVars, unackedMessages>>
           /\ \A s \in Subs \ Conns : toAck'[s] = toAck[s]
  <2>1. \A m : OnItsWay(m) <=> OnItsWay(m)'
    BY <1>1, Zenon DEF OnItsWay, brokerVars, topicVars, subVars
  <2>2. \A m : Waits(m) => Waits(m)'
    BY <1>1, Zenon DEF Waits, brokerVars, topicVars
  <2> QED BY <1>1, <2>1, <2>2, Zenon DEF Pends, brokerVars, topicVars
<1>2. ASSUME UNCHANGED <<unackedMessages, toAck>>,
             \/ \E p \in Publishers : Publish(p) \/ PublishResumes(p)
             \/ \E s \in Subs : \/ NewSubscriber(s) \/ process(s) \/ OfferTimesOut(s)
                                \/ CloseSubscriber(s)
      PROVE  Pends'
  <2>1. Untouched
    BY <1>2 DEF Untouched
  <2> QED BY <1>2, <2>1, PendsPublish, PendsProcess
<1>3. ASSUME NEW c \in Conns, HandleInbound(c) PROVE Pends'
  <2>1. PICK x \in Message : Receives(c, x) /\ handleInboundMessage(c, x)
    BY <1>3, Zenon DEF HandleInbound
  <2>2. unackedMessages' = [unackedMessages EXCEPT ![c] = @ \cup {<<builder[c], x>>}]
    BY <2>1, Zenon DEF handleInboundMessage
  <2>3. toAck' = toAck /\ dropped' = dropped
    BY <1>3, <2>1, Zenon DEF HandleInbound, client, Receives, Replay, Offer, topicVars
  <2>4. /\ \A d \in Conns : unackedMessages[d] \subseteq unackedMessages'[d]
        /\ <<builder[c], x>> \in unackedMessages'[c]
    BY <1>0, <2>2, Zenon
  <2>5. \A m \in Message : Waits(m) => Waits(m)'
    BY <2>3, <2>4, Zenon DEF Waits
  <2>6. Waits(x)'
    <3>1. <<builder[c], x>>[2] = x
      OBVIOUS
    <3> QED BY <2>4, <3>1 DEF Waits
  <2> QED BY <2>1, <2>5, <2>6, PendsReceives, Zenon
<1>4. ASSUME NEW s \in Subs \ Conns, OtherReceives(s) PROVE Pends'
  <2>1. PICK x \in Message : Receives(s, x) /\ toAck' = [toAck EXCEPT ![s] = @ \cup {x}]
    BY <1>4, Zenon DEF OtherReceives
  <2>2. unackedMessages' = unackedMessages /\ dropped' = dropped
    BY <1>4, <2>1, Zenon DEF OtherReceives, handling, Receives, Replay, Offer, topicVars
  <2>3. x \in toAck'[s] /\ \A t \in Subs : toAck[t] \subseteq toAck'[t]
    BY <1>0, <2>1, Zenon
  <2>4. \A m \in Message : Waits(m) \/ m = x => Waits(m)'
    BY <2>2, <2>3, Zenon DEF Waits
  <2> QED BY <2>1, <2>4, PendsReceives
<1>5. ASSUME NEW s \in Subs \ Conns, OtherAcks(s) PROVE Pends'
  <2>1. PICK x \in toAck[s] : ack(x) /\ toAck' = [toAck EXCEPT ![s] = @ \ {x}]
    BY <1>5, Zenon DEF OtherAcks
  <2>2. unackedMessages' = unackedMessages /\ dropped' = dropped
    BY <1>5, <2>1 DEF OtherAcks, handling, ack
  <2>3. \A t \in Subs : toAck[t] \ {x} \subseteq toAck'[t]
    BY <1>0, <2>1
  <2>4. \A m : m # x /\ Waits(m) => Waits(m)'
    BY <2>2, <2>3, ZenonT(30) DEF Waits
  <2> QED BY <2>1, <2>4, PendsAcked
<1>6. ASSUME NEW c \in Conns, Acker(c) PROVE Pends'
  <2>1. toAck' = toAck
    BY <1>6 DEF Acker, client
  <2>2. CASE UNCHANGED <<brokerVars, unackedMessages>>
    BY <1>1, <2>1, <2>2
  <2>3. CASE /\ ack(Head(ops[c]).m)
             /\ unackedMessages' = [unackedMessages EXCEPT ![c] =
                                      @ \ {<<Head(ops[c]).sequence, Head(ops[c]).m>>}]
    <3>1. PICK n, x : n = Head(ops[c]).sequence /\ x = Head(ops[c]).m
      BY SMTT(20)
    <3>2. ack(x) /\ unackedMessages' = [unackedMessages EXCEPT ![c] = @ \ {<<n, x>>}]
      BY <2>3, <3>1
    <3>3. \A d \in Conns : unackedMessages[d] \ {<<n, x>>} \subseteq unackedMessages'[d]
      BY <1>0, <3>2
    <3>4. <<n, x>>[2] = x /\ dropped' = dropped
      BY <3>2, SMTT(20) DEF ack
    <3>5. \A m : m # x /\ Waits(m) => Waits(m)'
      BY <2>1, <3>3, <3>4 DEF Waits
    <3> QED BY <3>2, <3>5, PendsAcked
  <2> QED BY <1>6, <2>2, <2>3 DEF Acker
<1> HIDE DEF Pends
<1> QED BY <1>0, <1>1, <1>2, <1>3, <1>4, <1>5, <1>6, KeepingMoves

\* A message that the topic keeps is not forgotten: some subscriber has yet to
\* get it, a connection or a consumer that got it can still ack it, or it was
\* offered for 15 seconds in vain.
THEOREM KeptArePending == Spec => []KeptIsPending
<1>1. Init => Pends
  BY DEF Init, BrokerInit, Pends
<1>2. ConnInv /\ Pends /\ [Next]_vars => Pends'
  BY ConnInvGroups, PendsStep
<1>3. Pends => KeptIsPending
  BY PendsIsPending
<1> QED BY <1>1, <1>2, <1>3, ConnInvHolds, PTL DEF Spec

-----------------------------------------------------------------------------
(***************************************************************************)
(* Goroutines that wait for ever.                                          *)
(***************************************************************************)

\* Before ServeHTTP neither the writer nor handleOutbound has started.
UnservedInv ==
  \A c \in Conns : sock[c] = "none" => wpc[c] = "none" /\ hpc[c] = "none"

\* What a step does to the socket and the writer of a connection.
LEMMA WriterMoves ==
  ASSUME WebOK, [Next]_vars, NEW c \in Conns
  PROVE  \/ ServeHTTP(c) /\ sock'[c] # "none"
         \/ /\ sock'[c] \in {sock[c], "closed"}
            /\ wpc'[c] = wpc[c] \/ wpc[c] = "select"
<1>1. CASE UNCHANGED web
  BY <1>1 DEF web
<1>2. ASSUME NEW d \in Conns, ServeHTTP(d)
      PROVE  \/ ServeHTTP(c) /\ sock'[c] # "none"
             \/ sock'[c] = sock[c] /\ wpc'[c] = wpc[c]
  <2>1. \E x \in {"open", "closed"}, y \in {"select", "done"} :
          sock' = [sock EXCEPT ![d] = x] /\ wpc' = [wpc EXCEPT ![d] = y]
    BY <1>2, Zenon DEF ServeHTTP
  <2> QED BY <1>2, <2>1 DEF WebOK
<1>3. ASSUME NEW d \in Conns, \/ ClientAsks(d) \/ ClientAcks(d)
                              \/ doHandleOutboundMessage(d) \/ Close(d)
      PROVE  UNCHANGED <<sock, wpc>>
  BY <1>3, Zenon DEF ClientAsks, ClientAcks, Read, doHandleOutboundMessage, ReaderGoesOn, Close
<1>4. ASSUME NEW d \in Conns, SocketCloses(d)
      PROVE  sock'[c] \in {sock[c], "closed"} /\ wpc'[c] = wpc[c]
  BY <1>4 DEF SocketCloses, WebOK
<1>5. ASSUME NEW d \in Conns, WriterEnds(d)
      PROVE  sock'[c] = sock[c] /\ (wpc'[c] = wpc[c] \/ wpc[c] = "select")
  BY <1>5 DEF WriterEnds, WebOK
<1> QED BY <1>1, <1>2, <1>3, <1>4, <1>5, WebMoves, Zenon

\* handleOutbound is started by ServeHTTP, and ends where it selects.
LEMMA OutboundMoves ==
  ASSUME hpc \in [Conns -> {"none", "select", "done"}], [Next]_vars, NEW c \in Conns
  PROVE  ServeHTTP(c) \/ hpc'[c] = hpc[c] \/ hpc[c] = "select"
<1>1. CASE UNCHANGED hpc
  BY <1>1
<1>2. ASSUME NEW p \in Publishers, PublishReturns(p) PROVE UNCHANGED hpc
  BY <1>2 DEF PublishReturns
<1>3. ASSUME NEW d \in Conns, ServeHTTP(d) PROVE ServeHTTP(c) \/ hpc'[c] = hpc[c]
  <2>1. hpc' = [hpc EXCEPT ![d] = "select"]
    BY <1>3, Zenon DEF ServeHTTP, Connect
  <2> QED BY <1>3, <2>1, Zenon
<1>4. ASSUME NEW d \in Conns, \/ doHandleOutboundMessage(d) \/ send(d) \/ Close(d)
                              \/ startHandlingInbound(d) \/ PublishOutbound(d) \/ Acker(d)
      PROVE  UNCHANGED hpc
  BY <1>4, ZenonT(30) DEF doHandleOutboundMessage, send, Close, startHandlingInbound,
              PublishOutbound, Acker
<1>5. ASSUME NEW d \in Conns, OutboundEnds(d) PROVE hpc'[c] = hpc[c] \/ hpc[c] = "select"
  BY <1>5, ZenonT(30) DEF OutboundEnds
<1> QED BY <1>1, <1>2, <1>3, <1>4, <1>5, HandlingMoves

\* Every step keeps it so.
LEMMA UnservedStep ==
  ASSUME TypeOK, WebOK, UnservedInv, [Next]_vars
  PROVE  UnservedInv'
<1> SUFFICES ASSUME NEW c \in Conns, sock'[c] = "none"
             PROVE  wpc'[c] = "none" /\ hpc'[c] = "none"
  BY DEF UnservedInv
<1>1. hpc \in [Conns -> {"none", "select", "done"}]
  BY DEF TypeOK
<1>2. ServeHTTP(c) => sock'[c] # "none"
  BY DEF ServeHTTP, WebOK
<1>3. /\ sock[c] = "none"
      /\ wpc'[c] = wpc[c] \/ wpc[c] = "select"
  BY <1>2, WriterMoves
<1>4. hpc'[c] = hpc[c] \/ hpc[c] = "select"
  BY <1>1, <1>2, OutboundMoves
<1> QED BY <1>3, <1>4 DEF UnservedInv

\* With the writer gone nothing leaves conn.in, and while it is full nothing
\* enters it.
LEMMA InStuckStep ==
  ASSUME InOK, WebOK, UnservedInv, [Next]_vars, NEW c \in Conns, InStuck(c)
  PROVE  InStuck(c)'
<1>1. sock[c] # "none" /\ wpc[c] = "done" /\ ~Room(c)
  BY DEF InStuck, UnservedInv
<1>2. wpc'[c] = "done"
  BY <1>1, WriterMoves DEF ServeHTTP
<1>3. in'[c] = in[c]
  <2>1. ASSUME NEW d \in Conns, NEW msg, Send(d, msg) PROVE in'[c] = in[c]
    BY <1>1, <2>1 DEF Send, InOK
  <2>2. ASSUME NEW d \in Conns, ServeHTTP(d) \/ InboundEnds(d) \/ startHandlingInbound(d)
        PROVE  in' = in
    BY <2>2, Zenon DEF ServeHTTP, InboundEnds, startHandlingInbound
  <2>3. ASSUME NEW d \in Conns, sendInitMessages(d) PROVE in'[c] = in[c]
    BY <2>1, <2>3, Zenon DEF sendInitMessages
  <2>4. ASSUME NEW d \in Conns, HandleInbound(d) PROVE in'[c] = in[c]
    <3>1. in' = in \/ \E msg : Send(d, msg)
      BY <2>4, Zenon DEF HandleInbound, handleInboundMessage
    <3> QED BY <2>1, <3>1
  <2>5. ASSUME NEW d \in Conns, InboundResumes(d) PROVE in'[c] = in[c]
    BY <2>1, <2>5, Zenon DEF InboundResumes
  <2>6. ASSUME NEW d \in Conns, warnPreKeysLowIfNecessary(d) PROVE in'[c] = in[c]
    BY <2>1, <2>6, Zenon DEF warnPreKeysLowIfNecessary
  <2>7. ASSUME NEW d \in Conns, send(d) PROVE in'[c] = in[c]
    BY <2>1, <2>7, Zenon DEF send
  <2>8. ASSUME NEW d \in Conns, Write(d) \/ WriterEnds(d) PROVE in'[c] = in[c]
    <3>1. d # c
      BY <1>1, <2>8, Zenon DEF Write, WriterEnds
    <3>2. in' = in \/ in' = [in EXCEPT ![d] = Tail(@)]
      BY <2>8, Zenon DEF Write, WriterEnds
    <3> QED BY <3>1, <3>2 DEF InOK
  <2> QED BY <2>2, <2>3, <2>4, <2>5, <2>6, <2>7, <2>8, ChannelMoves, ZenonT(30)
<1> QED BY <1>1, <1>2, <1>3 DEF InStuck, Room

\* With handleOutbound gone nobody takes the message from the reader.
LEMMA ReaderStuckStep ==
  ASSUME TypeOK, WebOK, UnservedInv, [Next]_vars, NEW c \in Conns, ReaderStuck(c)
  PROVE  ReaderStuck(c)'
<1>1. sock[c] # "none" /\ hpc[c] = "done" /\ rpc[c] = "give"
  BY DEF ReaderStuck, UnservedInv
<1>2. hpc \in [Conns -> {"none", "select", "done"}]
  BY DEF TypeOK
<1>3. hpc'[c] = "done"
  BY <1>1, <1>2, OutboundMoves DEF ServeHTTP
<1>4. rpc'[c] = "give"
  <2>1. CASE UNCHANGED rpc
    BY <1>1, <2>1
  <2>2. ASSUME NEW d \in Conns, ServeHTTP(d) PROVE rpc'[c] = "give"
    <3>1. d # c /\ \E x : rpc' = [rpc EXCEPT ![d] = x]
      BY <1>1, <2>2, Zenon DEF ServeHTTP
    <3> QED BY <1>1, <3>1 DEF WebOK
  <2>3. ASSUME NEW d \in Conns, ClientAsks(d) \/ ClientAcks(d) PROVE rpc'[c] = "give"
    <3>1. rpc' = [rpc EXCEPT ![d] = "give"]
      BY <2>3, Zenon DEF ClientAsks, ClientAcks, Read
    <3> QED BY <1>1, <3>1 DEF WebOK
  <2>4. ASSUME NEW d \in Conns, SocketCloses(d) PROVE rpc'[c] = "give"
    BY <1>1, <2>4 DEF SocketCloses, WebOK
  <2>5. ASSUME NEW d \in Conns, doHandleOutboundMessage(d) PROVE rpc'[c] = "give"
    <3>1. d # c /\ \E x : rpc' = [rpc EXCEPT ![d] = x]
      BY <1>1, <2>5, Zenon DEF doHandleOutboundMessage, ReaderGoesOn
    <3> QED BY <1>1, <3>1 DEF WebOK
  <2>6. ASSUME NEW d \in Conns, Close(d) \/ WriterEnds(d) PROVE UNCHANGED rpc
    BY <2>6, ZenonT(30) DEF Close, WriterEnds
  <2> QED BY <2>1, <2>2, <2>3, <2>4, <2>5, <2>6, WebMoves, Zenon DEF web
<1> QED BY <1>3, <1>4 DEF ReaderStuck

\* With its receiver gone process() stays in the loop over old messages, and
\* no other receiver is started.
LEMMA ReplayStuckStep ==
  ASSUME TypeOK, [Next]_vars, NEW c \in Conns, ReplayStuck(c)
  PROVE  ReplayStuck(c)'
<1> USE ConnectionConstants
<1>1. spc[c] = "replay" /\ ipc[c] = "done" /\ c \in Subs
  BY SMTT(20) DEF ReplayStuck
<1>2. /\ ipc \in [Conns -> {"none", "select", "done"}]
      /\ DOMAIN spc = Subs
      /\ toAck \in [Subs -> SUBSET Numbers]
  BY DEF TypeOK, BrokerTypeOK
<1>3. ipc'[c] = "done"
  <2>1. ASSUME NEW d \in Conns, InboundEnds(d) PROVE ipc'[c] = "done"
    <3>1. ipc' = [ipc EXCEPT ![d] = "done"]
      BY <2>1, Zenon DEF InboundEnds
    <3> QED BY ONLY <1>1, <1>2, <3>1, c \in Conns
  <2>2. ASSUME NEW d \in Conns, startHandlingInbound(d) PROVE ipc'[c] = "done"
    <3>1. d # c /\ ipc' = [ipc EXCEPT ![d] = "select"]
      BY <1>1, <2>2, Zenon DEF startHandlingInbound, NewSubscriber
    <3> QED BY <1>1, <1>2, <3>1
  <2>3. ASSUME NEW d \in Conns,
               \/ ServeHTTP(d) \/ sendInitMessages(d) \/ HandleInbound(d)
               \/ InboundResumes(d) \/ warnPreKeysLowIfNecessary(d) \/ send(d)
               \/ Write(d) \/ WriterEnds(d)
        PROVE  UNCHANGED ipc
    BY <2>3, Zenon DEF ServeHTTP, sendInitMessages, HandleInbound, InboundResumes,
                warnPreKeysLowIfNecessary, send, Write, WriterEnds, pushers
  <2> QED BY <1>1, <2>1, <2>2, <2>3, ChannelMoves, Zenon
<1>4. spc'[c] = "replay"
  <2>1. ASSUME NEW s \in Subs, spc[s] # "replay" \/ s # c,
               \E x : spc' = [spc EXCEPT ![s] = x]
        PROVE  spc'[c] = "replay"
    BY <1>1, <1>2, <2>1, SMTT(20)
  <2>2. CASE UNCHANGED spc
    BY <1>1, <2>2
  <2>3. ASSUME NEW p \in Publishers, Publish(p) \/ PublishResumes(p) PROVE UNCHANGED spc
    BY <2>3, Zenon DEF Publish, PublishResumes, subVars
  <2>4. ASSUME NEW s \in Subs, NewSubscriber(s) \/ process(s) \/ OfferTimesOut(s)
        PROVE  spc'[c] = "replay"
    <3>1. spc[s] # "replay" /\ \E x : spc' = [spc EXCEPT ![s] = x]
      BY <2>4, Zenon DEF NewSubscriber, process, CopyExisting, Take, Lookup, ProcessEnds,
                  OfferTimesOut
    <3> QED BY <2>1, <3>1, Zenon
  <2>5. ASSUME NEW s \in Subs, CloseSubscriber(s) PROVE UNCHANGED spc
    BY <2>5 DEF CloseSubscriber
  <2>6. ASSUME NEW d \in Conns, Acker(d) PROVE UNCHANGED spc
    BY <2>6, Zenon DEF Acker, ack, brokerVars, subVars
  <2>7. ASSUME NEW d \in Conns, HandleInbound(d) PROVE spc'[c] = "replay"
    <3>1. d \in Subs /\ d # c /\ \E x : spc' = [spc EXCEPT ![d] = x]
      BY <1>1, <2>7, Zenon DEF HandleInbound, Receives, Replay, Offer
    <3> QED BY <2>1, <3>1, Zenon
  <2>8. ASSUME NEW s \in Subs \ Conns, OtherReceives(s) PROVE spc'[c] = "replay"
    <3>1. s \in Subs /\ s # c /\ \E x : spc' = [spc EXCEPT ![s] = x]
      BY <2>8, Zenon DEF OtherReceives, Receives, Replay, Offer
    <3> QED BY <2>1, <3>1, Zenon
  <2>9. ASSUME NEW s \in Subs \ Conns, OtherAcks(s) PROVE UNCHANGED spc
    BY <2>9, Zenon DEF OtherAcks, ack, subVars
  <2> QED BY <1>2, <2>2, <2>3, <2>4, <2>5, <2>6, <2>7, <2>8, <2>9, KeepingMoves, Zenon
          DEF brokerVars, subVars
<1> QED BY <1>3, <1>4, ZenonT(30) DEF ReplayStuck

\* A goroutine that a connection leaves behind is never freed: once conn.in is
\* full and the writer gone, or the reader holds a message and handleOutbound
\* is gone, or process() replays old messages and their receiver is gone, it
\* stays like this.
THEOREM LeaksLast ==
  ASSUME NEW c \in Conns
  PROVE  Spec => /\ [](InStuck(c) => []InStuck(c))
                 /\ [](ReaderStuck(c) => []ReaderStuck(c))
                 /\ [](ReplayStuck(c) => []ReplayStuck(c))
<1>1. Init => UnservedInv
  BY DEF Init, UnservedInv
<1>2. ConnInv => TypeOK /\ WebOK /\ InOK
  BY ConnInvGroups DEF ConnInv
<1>3. ConnInv /\ UnservedInv /\ [Next]_vars => UnservedInv'
  BY <1>2, UnservedStep
<1>4. ConnInv /\ UnservedInv /\ [Next]_vars /\ InStuck(c) => InStuck(c)'
  BY <1>2, InStuckStep
<1>5. ConnInv /\ UnservedInv /\ [Next]_vars /\ ReaderStuck(c) => ReaderStuck(c)'
  BY <1>2, ReaderStuckStep
<1>6. ConnInv /\ [Next]_vars /\ ReplayStuck(c) => ReplayStuck(c)'
  BY <1>2, ReplayStuckStep
<1> QED BY <1>1, <1>3, <1>4, <1>5, <1>6, ConnInvHolds, PTL DEF Spec
=============================================================================

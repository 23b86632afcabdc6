------------------------- MODULE RedisBrokerProofs --------------------------
(***************************************************************************)
(* Theorems about RedisBroker, for every value of its constants: types and *)
(* what is recorded; and the lemmas that publishers and the reader loop    *)
(* keep the inductive invariant behind AtLeastOnce, up to the read of the  *)
(* streams.  RedisBrokerDelivery goes on from there.                       *)
(***************************************************************************)
EXTENDS RedisBrokerInv, TLAPS, FiniteSetTheorems

\* What an action does to the variables is in these definitions.
USE DEF vars, redis, history, subscriber, reader, acker, trimmer

-----------------------------------------------------------------------------
(***************************************************************************)
(* Type correctness.                                                       *)
(***************************************************************************)

\* The types of what is kept for each stream.
LEMMA StreamTyped ==
  ASSUME TypeOK
  PROVE  /\ log \in [Streams -> SUBSET Id]
         /\ published \in [Streams -> SUBSET Id]
         /\ delivered \in [Streams -> SUBSET Id]
         /\ capped \in [Streams -> SUBSET Id]
         /\ batch \in [Streams -> SUBSET Id]
         /\ lastId \in [Streams -> Id]
         /\ stored \in [Streams -> Id \cup {NoOffset}]
         /\ want \in [Streams -> Id \cup {NoOffset}]
         /\ highest \in [Streams -> Id \cup {NoOffset}]
         /\ trimOffsets \in [Streams -> Id \cup {NoOffset}]
  BY Zenon DEF TypeOK

\* The types of what is kept for each subscriber.
LEMMA SubTyped ==
  ASSUME TypeOK
  PROVE  /\ offset \in [Subs -> Id]
         /\ todo \in [Subs -> SUBSET Id]
         /\ out \in [Subs -> Seq(Id)]
         /\ got \in [Subs -> Seq(Id)]
         /\ unacked \in [Subs -> SUBSET Id]
         /\ closed \in [Subs -> BOOLEAN]
         /\ pc \in [Subs -> {"none", "opening", "select", "batch", "exit", "gone"}]
  BY Zenon DEF TypeOK

\* The types of what is on its way to Redis, and of the sets loops run over.
LEMMA QueueTyped ==
  ASSUME TypeOK
  PROVE  /\ acks \in Seq(Ack)
         /\ ackBatch \in SUBSET Ack
         /\ visit \in SUBSET Subs
         /\ streamsLeft \in SUBSET Streams
         /\ trimLeft \in SUBSET Streams
         /\ crashes \in Nat
  BY Zenon DEF TypeOK

\* Each subscription is to one of the streams.
LEMMA Placement == StreamOf \in [Subs -> Streams]
  BY ConstantsAssumption

\* The offset "0" is an ID.
LEMMA MinOffsetIsId == minOffset \in Id
  BY DEF minOffset, Id

\* An assignment to an element of a map.
LEMMA Assigned ==
  ASSUME NEW S, NEW T, NEW f \in [S -> T], NEW x \in S, NEW v \in T
  PROVE  [f EXCEPT ![x] = v] \in [S -> T]
  BY Zenon

\* The steps of publishers and subscribers keep the types.
LEMMA SubscriberTypes ==
  ASSUME TypeOK, NEW s \in Subs, Process(s) \/ Consumer(s)
  PROVE  TypeOK'
<1> DEFINE PC == {"none", "opening", "select", "batch", "exit", "gone"}
<1>1. ASSUME NEW v \in PC PROVE [pc EXCEPT ![s] = v] \in [Subs -> PC]
  BY SubTyped, Assigned, Zenon
<1>2. ASSUME NEW v \in Id PROVE [offset EXCEPT ![s] = v] \in [Subs -> Id]
  BY SubTyped, Assigned, Zenon
<1>3. CASE NewSubscriber(s)
  <2>1. stored[StreamOf[s]] \in Id \cup {NoOffset}
    BY StreamTyped, Placement
  <2>2. pc' \in [Subs -> PC] /\ offset' \in [Subs -> Id]
    BY <1>1, <1>2, <1>3, <2>1, MinOffsetIsId DEF NewSubscriber
  <2> QED BY <1>3, <2>2, Zenon DEF TypeOK, NewSubscriber
<1>4. CASE newSubscriber(s)
  <2>1. pc' \in [Subs -> PC]
    BY <1>1, <1>4 DEF newSubscriber
  <2> QED BY <1>4, <2>1, Zenon DEF TypeOK, newSubscriber
<1>5. CASE ProcessMessage(s)
  <2>1. PICK m \in todo[s] :
           /\ todo' = [todo EXCEPT ![s] = @ \ {m}]
           /\ \/ /\ out' = [out EXCEPT ![s] = Append(@, m)]
                 /\ offset' = [offset EXCEPT ![s] = m]
              \/ UNCHANGED <<out, offset>>
    BY <1>5, Zenon DEF ProcessMessage
  <2>2. m \in Id /\ todo[s] \ {m} \in SUBSET Id /\ Append(out[s], m) \in Seq(Id)
    BY SubTyped
  <2>3. todo' \in [Subs -> SUBSET Id]
    BY <2>1, <2>2, SubTyped, Assigned, Zenon
  <2>4. out' \in [Subs -> Seq(Id)] /\ offset' \in [Subs -> Id]
    <3>1. /\ [out EXCEPT ![s] = Append(@, m)] \in [Subs -> Seq(Id)]
          /\ [offset EXCEPT ![s] = m] \in [Subs -> Id]
      BY <1>2, <2>2, SubTyped, Assigned, Zenon
    <3> QED BY <2>1, <3>1, SubTyped, Zenon
  <2> QED BY <1>5, <2>3, <2>4, Zenon DEF TypeOK, ProcessMessage
<1>6. CASE processedLastBatch(s)
  <2>1. pc' \in [Subs -> PC] /\ visit' \in SUBSET Subs
    BY <1>1, <1>6, QueueTyped DEF processedLastBatch
  <2> QED BY <1>6, <2>1, Zenon DEF TypeOK, processedLastBatch
<1>7. CASE ProcessClosed(s)
  <2>1. pc' \in [Subs -> PC]
    BY <1>1, <1>7 DEF ProcessClosed
  <2> QED BY <1>7, <2>1, Zenon DEF TypeOK, ProcessClosed
<1>8. CASE Deregister(s)
  <2>1. pc' \in [Subs -> PC] /\ offset' \in [Subs -> Id]
    BY <1>1, <1>2, <1>8, MinOffsetIsId DEF Deregister
  <2>2. << >> \in Seq(Id)
    OBVIOUS
  <2>3. out' \in [Subs -> Seq(Id)] /\ got' \in [Subs -> Seq(Id)]
    BY <1>8, <2>2, SubTyped, Assigned, Zenon DEF Deregister
  <2> QED BY <1>8, <2>1, <2>3, Zenon DEF TypeOK, Deregister
<1>9. CASE Messages(s)
  <2> DEFINE m == Head(out[s])
  <2>1. /\ out[s] # <<>>
        /\ got' = [got EXCEPT ![s] = Append(@, m)]
        /\ unacked' = [unacked EXCEPT ![s] = @ \cup {m}]
        /\ delivered' = [delivered EXCEPT ![StreamOf[s]] = @ \cup {m}]
        /\ out' = [out EXCEPT ![s] = Tail(@)]
    BY <1>9, Zenon DEF Messages
  <2>2. out[s] \in Seq(Id) /\ got[s] \in Seq(Id) /\ unacked[s] \in SUBSET Id
    BY SubTyped
  <2>3. StreamOf[s] \in Streams /\ delivered[StreamOf[s]] \in SUBSET Id
    BY StreamTyped, Placement
  <2>4. m \in Id /\ Tail(out[s]) \in Seq(Id)
    BY <2>1, <2>2
  <2> HIDE DEF m
  <2>5. /\ Append(got[s], m) \in Seq(Id)
        /\ unacked[s] \cup {m} \in SUBSET Id
        /\ delivered[StreamOf[s]] \cup {m} \in SUBSET Id
    BY <2>2, <2>3, <2>4
  <2>6. got' \in [Subs -> Seq(Id)] /\ out' \in [Subs -> Seq(Id)]
    BY <2>1, <2>4, <2>5, SubTyped, Assigned, Zenon
  <2>7. unacked' \in [Subs -> SUBSET Id] /\ delivered' \in [Streams -> SUBSET Id]
    BY <2>1, <2>3, <2>5, SubTyped, StreamTyped, Assigned, Zenon
  <2> QED BY <1>9, <2>6, <2>7, Zenon DEF TypeOK, Messages
<1>10. CASE Close(s)
  <2>1. closed' \in [Subs -> BOOLEAN]
    BY <1>10, SubTyped DEF Close
  <2> QED BY <1>10, <2>1, Zenon DEF TypeOK, Close
<1>11. ASSUME NEW m \in unacked[s], ack(s, m) PROVE TypeOK'
  <2>1. m \in Id /\ unacked[s] \ {m} \in SUBSET Id
    BY SubTyped
  <2>2. unacked' \in [Subs -> SUBSET Id]
    BY <1>11, <2>1, SubTyped, Assigned, Zenon DEF ack
  <2>3. acks' \in Seq(Ack)
    BY <1>11, <2>1, QueueTyped DEF ack, Ack
  <2> QED BY <1>11, <2>2, <2>3, Zenon DEF TypeOK, ack
<1> QED
  BY <1>3, <1>4, <1>5, <1>6, <1>7, <1>8, <1>9, <1>10, <1>11, Zenon DEF Process, Consumer

\* The steps of the reader loop keep the types.
LEMMA ReaderTypes ==
  ASSUME TypeOK, Reader
  PROVE  TypeOK'
<1>1. Registered \in SUBSET Subs
  BY DEF Registered
<1>2. [st \in Streams |-> NoOffset] \in [Streams -> Id \cup {NoOffset}]
  BY Zenon
<1>3. CASE gatherStreamsWithOffsets
  BY <1>1, <1>3, Zenon DEF TypeOK, gatherStreamsWithOffsets
<1>4. ASSUME NEW s \in Subs, GatherOffset(s) PROVE TypeOK'
  <2> DEFINE low == LowestOffset(want[StreamOf[s]], offset[s])
  <2>1. StreamOf[s] \in Streams /\ low \in Id \cup {NoOffset}
    BY StreamTyped, SubTyped, Placement DEF LowestOffset
  <2>2. want' \in [Streams -> Id \cup {NoOffset}]
    BY <1>4, <2>1, StreamTyped, Assigned, Zenon DEF GatherOffset
  <2>3. visit' \in SUBSET Subs /\ loop' \in {"idle", "gather", "read", "dispatch"}
    BY <1>4, QueueTyped DEF GatherOffset
  <2> QED BY <1>4, <2>2, <2>3, Zenon DEF TypeOK, GatherOffset
<1>5. CASE XRead
  <2>1. \A st \in Streams : XReadResult(st) \in SUBSET Id
    BY StreamTyped DEF XReadResult, Oldest
  <2>2. batch' \in [Streams -> SUBSET Id] /\ streamsLeft' \in SUBSET Streams
    BY <1>5, <2>1 DEF XRead
  <2> QED BY <1>2, <1>5, <2>2, Zenon DEF TypeOK, XRead
<1>6. CASE XReadNothing
  BY <1>2, <1>6, Zenon DEF TypeOK, XReadNothing
<1>7. ASSUME NEW st \in Streams, DispatchStream(st) PROVE TypeOK'
  <2>1. visit' \in SUBSET Subs /\ streamsLeft' \in SUBSET Streams
    BY <1>1, <1>7, QueueTyped DEF DispatchStream
  <2> QED BY <1>7, <2>1, Zenon DEF TypeOK, DispatchStream
<1>8. ASSUME NEW s \in Subs, SendToClosed(s) PROVE TypeOK'
  <2>1. visit' \in SUBSET Subs
    BY <1>8, QueueTyped DEF SendToClosed
  <2> QED BY <1>8, <2>1, Zenon DEF TypeOK, SendToClosed
<1>9. ASSUME NEW s \in Subs, SendBatch(s) PROVE TypeOK'
  <2>1. batch[StreamOf[s]] \in SUBSET Id
    BY StreamTyped, Placement
  <2>2. pc' \in [Subs -> {"none", "opening", "select", "batch", "exit", "gone"}]
    BY <1>9, SubTyped DEF SendBatch
  <2>3. todo' \in [Subs -> SUBSET Id]
    BY <1>9, <2>1, SubTyped, Assigned, Zenon DEF SendBatch
  <2> QED BY <1>9, <2>2, <2>3, Zenon DEF TypeOK, SendBatch
<1>10. CASE EndDispatch
  <2>1. batch' \in [Streams -> SUBSET Id]
    BY <1>10 DEF EndDispatch
  <2> QED BY <1>10, <2>1, Zenon DEF TypeOK, EndDispatch
<1> QED
  BY Reader, <1>3, <1>4, <1>5, <1>6, <1>7, <1>8, <1>9, <1>10, Zenon DEF Reader

\* The steps of processAcks and of the trimmer keep the types.
LEMMA AckerTypes ==
  ASSUME TypeOK, processAcks \/ Trimmer
  PROVE  TypeOK'
<1> DEFINE Offs == Id \cup {NoOffset}
<1>1. CASE CoalesceAck
  <2> DEFINE h == Head(acks)
  <2>1. /\ acks # <<>> /\ acks' = Tail(acks)
        /\ ackBatch' = ackBatch \cup {h}
        /\ highest' = [highest EXCEPT ![StreamOf[h.sub]] = HighestOffset(@, h.off)]
    BY <1>1, Zenon DEF CoalesceAck
  <2>2. h \in Ack /\ acks' \in Seq(Ack)
    BY <2>1, QueueTyped
  <2> HIDE DEF h
  <2>3. StreamOf[h.sub] \in Streams /\ h.off \in Id
    BY <2>2, Placement DEF Ack
  <2>4. HighestOffset(highest[StreamOf[h.sub]], h.off) \in Offs
    BY <2>3, StreamTyped DEF HighestOffset
  <2>5. highest' \in [Streams -> Offs]
    BY <2>1, <2>3, <2>4, StreamTyped, Assigned, Zenon
  <2>6. ackBatch' \in SUBSET Ack
    BY <2>1, <2>2, QueueTyped
  <2> QED BY <1>1, <2>2, <2>5, <2>6, Zenon DEF TypeOK, CoalesceAck
<1>2. CASE EndCoalesce
  BY <1>2, Zenon DEF TypeOK, EndCoalesce
<1>3. ASSUME NEW done \in SUBSET AckedStreams, NEW err \in BOOLEAN, ExecAcks(done, err)
      PROVE  TypeOK'
  <2>1. \A st \in Streams : ackScript(stored[st], highest[st]) \in Offs
    BY StreamTyped DEF ackScript
  <2>2. stored' \in [Streams -> Offs] /\ highest' \in [Streams -> Offs]
    BY <1>3, <2>1, StreamTyped DEF ExecAcks
  <2>3. \A s \in Subs : unacked[s] \cup {a.off : a \in {b \in ackBatch : b.sub = s}} \in SUBSET Id
    BY SubTyped, QueueTyped DEF Ack
  <2>4. unacked' \in [Subs -> SUBSET Id]
    BY <1>3, <2>3, SubTyped, Zenon DEF ExecAcks
  <2>5. {} \in SUBSET Ack
    OBVIOUS
  <2> QED BY <1>3, <2>2, <2>4, <2>5, Zenon DEF TypeOK, ExecAcks
<1>4. CASE TrimStreams
  <2>1. /\ trimLeft' \in SUBSET Streams /\ trimPc' \in {"idle", "minid", "maxlen", "panicked"}
        /\ trimOffsets' \in [Streams -> Offs]
    BY <1>4, StreamTyped DEF TrimStreams
  <2> QED BY <1>4, <2>1, Zenon DEF TypeOK, TrimStreams
<1>5. CASE TrimMGetError
  BY <1>5, Zenon DEF TypeOK, TrimMGetError
<1>6. ASSUME NEW st \in Streams, TrimMinId(st) PROVE TypeOK'
  <2> DEFINE T == {m \in log[st] : ~IdLess(m, idPlusOne(trimOffsets[st]))}
  <2>1. log' = [log EXCEPT ![st] = T] \/ log' = log
    BY <1>6, Zenon DEF TrimMinId
  <2>2. T \in SUBSET Id
    BY StreamTyped
  <2> HIDE DEF T
  <2>3. log' \in [Streams -> SUBSET Id]
    BY <2>1, <2>2, StreamTyped, Assigned, Zenon
  <2>4. trimLeft' \in SUBSET Streams /\ trimPc' \in {"idle", "minid", "maxlen", "panicked"}
    BY <1>6, QueueTyped DEF TrimMinId
  <2>5. NoOffset \in Offs
    OBVIOUS
  <2>6. trimOffsets' \in [Streams -> Offs]
    BY <1>6, <2>5, StreamTyped, Assigned, Zenon DEF TrimMinId
  <2> QED BY <1>6, <2>3, <2>4, <2>6, Zenon DEF TypeOK, TrimMinId
<1>7. ASSUME NEW st \in Streams, TrimMaxLen(st) PROVE TypeOK'
  <2> DEFINE T == Newest(log[st], MaxLen)
             C == capped[st] \cup (log[st] \ log'[st])
  <2>1. /\ log' = [log EXCEPT ![st] = T] \/ log' = log
        /\ capped' = [capped EXCEPT ![st] = C] \/ capped' = capped
    BY <1>7, Zenon DEF TrimMaxLen
  <2>2. T \in SUBSET Id /\ C \in SUBSET Id
    BY StreamTyped DEF Newest
  <2> HIDE DEF T, C
  <2>3. log' \in [Streams -> SUBSET Id] /\ capped' \in [Streams -> SUBSET Id]
    BY <2>1, <2>2, StreamTyped, Assigned, Zenon
  <2>4. trimLeft' \in SUBSET Streams /\ trimPc' \in {"idle", "minid", "maxlen", "panicked"}
    BY <1>7, QueueTyped DEF TrimMaxLen
  <2> QED BY <1>7, <2>3, <2>4, Zenon DEF TypeOK, TrimMaxLen
<1> QED BY <1>1, <1>2, <1>3, <1>4, <1>5, <1>6, <1>7, Zenon DEF processAcks, Trimmer

\* Every step of the broker keeps the types of the variables.
LEMMA TypeStep == TypeOK /\ [Next]_vars => TypeOK'
<1> SUFFICES ASSUME TypeOK, [Next]_vars PROVE TypeOK'
  OBVIOUS
<1>1. ASSUME NEW st \in Streams, Publish(st) PROVE TypeOK'
  <2>1. PICK m \in NextIds(lastId[st]) :
           /\ log' = [log EXCEPT ![st] = @ \cup {m}]
           /\ lastId' = [lastId EXCEPT ![st] = m]
           /\ published' = [published EXCEPT ![st] = @ \cup {m}]
    BY <1>1, Zenon DEF Publish
  <2>2. m \in Id
    BY StreamTyped DEF NextIds, Id
  <2>3. log[st] \cup {m} \in SUBSET Id /\ published[st] \cup {m} \in SUBSET Id
    BY <2>2, StreamTyped
  <2>4. /\ log' \in [Streams -> SUBSET Id] /\ published' \in [Streams -> SUBSET Id]
        /\ lastId' \in [Streams -> Id]
    BY <2>1, <2>2, <2>3, StreamTyped, Assigned, Zenon
  <2> QED BY <1>1, <2>4, Zenon DEF TypeOK, Publish
<1>2. CASE Crash
  <2>1. crashes' \in Nat /\ {} \in SUBSET Subs /\ {} \in SUBSET Streams /\ {} \in SUBSET Ack
    BY <1>2, QueueTyped DEF Crash
  <2>2. << >> \in Seq(Id) /\ << >> \in Seq(Ack) /\ {} \in SUBSET Id
    OBVIOUS
  <2>3. /\ unacked' \in [Subs -> SUBSET Id] /\ todo' \in [Subs -> SUBSET Id]
        /\ out' \in [Subs -> Seq(Id)] /\ got' \in [Subs -> Seq(Id)]
        /\ offset' \in [Subs -> Id] /\ closed' \in [Subs -> BOOLEAN]
        /\ pc' \in [Subs -> {"none", "opening", "select", "batch", "exit", "gone"}]
    BY <1>2, <2>2, MinOffsetIsId, Zenon DEF Crash
  <2>4. /\ want' \in [Streams -> Id \cup {NoOffset}] /\ highest' \in [Streams -> Id \cup {NoOffset}]
        /\ batch' \in [Streams -> SUBSET Id]
    BY <1>2, <2>2, Zenon DEF Crash
  <2> QED BY <1>2, <2>1, <2>2, <2>3, <2>4, Zenon DEF TypeOK, Crash
<1>3. CASE UNCHANGED vars
  BY <1>3, Zenon DEF TypeOK
<1> QED
  BY <1>1, <1>2, <1>3, SubscriberTypes, ReaderTypes, AckerTypes, Zenon DEF Next

\* The initial state has the types.
LEMMA TypeInit == Init => TypeOK
  BY ConstantsAssumption DEF Init, TypeOK, Id, minOffset, Ack

\* Whatever happens, the variables of the broker keep their types: offsets are
\* IDs or absent, and every goroutine is at one of the places the code has.
THEOREM TypeCorrect == Spec => []TypeOK
  BY TypeInit, TypeStep, PTL DEF Spec
-----------------------------------------------------------------------------
(***************************************************************************)
(* The recorded offset, with any number of subscriptions.                  *)
(***************************************************************************)

\* An element of a sequence over T is in T.
LEMMA SeqElement ==
  ASSUME NEW T, NEW q \in Seq(T), NEW i \in 1..Len(q)
  PROVE  q[i] \in T
  OBVIOUS

\* An element of an appended sequence is the one appended or one from before.
LEMMA AppendElement ==
  ASSUME NEW T, NEW q \in Seq(T), NEW x, x \in T, NEW i \in 1..Len(Append(q, x))
  PROVE  Append(q, x)[i] = x \/ (i \in 1..Len(q) /\ Append(q, x)[i] = q[i])
  OBVIOUS

\* At the start nothing is on record but FirstOffset, and nothing can be acked.
LEMMA RecordInit == Init => RecordInv
<1>1. Init => /\ stored = [st \in Streams |-> FirstOffset]
              /\ highest = [st \in Streams |-> NoOffset]
              /\ unacked = [s \in Subs |-> {}]
              /\ acks = <<>> /\ ackBatch = {}
  BY Zenon DEF Init
<1> QED BY ONLY <1>1 DEF RecordInv, RecordedWasDelivered

\* RecordInv is kept by every step.
LEMMA RecordStep ==
  ASSUME TypeOK, RecordInv, [Next]_vars
  PROVE  RecordInv'
<1> USE Placement
<1>1. ASSUME UNCHANGED <<stored, delivered, highest, unacked, acks, ackBatch>>
      PROVE  RecordInv'
  BY <1>1 DEF RecordInv, RecordedWasDelivered
<1>2. ASSUME NEW s \in Subs, Messages(s) PROVE RecordInv'
  <2>1. /\ UNCHANGED <<stored, highest, acks, ackBatch>>
        /\ unacked' = [unacked EXCEPT ![s] = @ \cup {Head(out[s])}]
        /\ delivered' = [delivered EXCEPT ![StreamOf[s]] = @ \cup {Head(out[s])}]
    BY <1>2, Zenon DEF Messages
  <2>2. \A st \in Streams : delivered[st] \subseteq delivered'[st]
    BY <2>1, StreamTyped
  <2>3. \A t \in Subs : unacked'[t] \subseteq delivered'[StreamOf[t]]
    BY <2>1, <2>2, SubTyped, StreamTyped DEF RecordInv
  <2>4. ASSUME NEW i \in 1..Len(acks), NEW a, a = acks[i]
        PROVE  a.off \in delivered'[StreamOf[a.sub]]
    <3>1. a \in Ack
      BY <2>4, SeqElement, QueueTyped
    <3>2. a.off \in delivered[StreamOf[a.sub]]
      BY <2>4 DEF RecordInv
    <3> QED BY <2>2, <3>1, <3>2 DEF Ack
  <2>5. \A a \in ackBatch : a.off \in delivered'[StreamOf[a.sub]]
    BY <2>2, QueueTyped DEF RecordInv, Ack
  <2>6. \A st \in Streams :
          /\ stored[st] \in delivered'[st] \cup {NoOffset, FirstOffset}
          /\ highest[st] \in delivered'[st] \cup {NoOffset}
    BY <2>2 DEF RecordInv, RecordedWasDelivered
  <2> QED BY <2>1, <2>3, <2>4, <2>5, <2>6, Zenon DEF RecordInv, RecordedWasDelivered
<1>3. ASSUME NEW s \in Subs, NEW m \in unacked[s], ack(s, m) PROVE RecordInv'
  <2> DEFINE new == [sub |-> s, off |-> m]
  <2>1. /\ UNCHANGED <<stored, delivered, highest, ackBatch>>
        /\ unacked' = [unacked EXCEPT ![s] = @ \ {m}]
        /\ acks' = Append(acks, new)
        /\ acks \in Seq(Ack)
    BY <1>3, QueueTyped, Zenon DEF ack
  <2>2. new.off \in delivered[StreamOf[new.sub]]
    BY DEF RecordInv
  <2> HIDE DEF new
  <2>3. ASSUME NEW i \in 1..Len(acks')
        PROVE  acks'[i].off \in delivered[StreamOf[acks'[i].sub]]
    <3>1. acks'[i] = new \/ (i \in 1..Len(acks) /\ acks'[i] = acks[i])
      BY <2>1
    <3> QED BY <2>2, <3>1 DEF RecordInv
  <2>4. \A t \in Subs : unacked'[t] \subseteq unacked[t]
    BY <2>1, SubTyped
  <2> QED BY <2>1, <2>3, <2>4 DEF RecordInv, RecordedWasDelivered
<1>4. CASE CoalesceAck
  <2> DEFINE h == acks[1]
             st == StreamOf[h.sub]
  <2>1. acks # <<>> /\ acks \in Seq(Ack) /\ Head(acks) = h
    BY <1>4, QueueTyped DEF CoalesceAck
  <2>2. /\ UNCHANGED <<stored, delivered, unacked>>
        /\ acks' = Tail(acks)
        /\ ackBatch' = ackBatch \cup {h}
        /\ highest' = [highest EXCEPT ![st] = HighestOffset(@, h.off)]
    BY <1>4, <2>1, Zenon DEF CoalesceAck
  <2>3. 1 \in 1..Len(acks)
    BY <2>1
  <2>4. h.off \in delivered[st]
    BY <2>3 DEF RecordInv
  <2>5. ASSUME NEW i \in 1..Len(acks')
        PROVE  i + 1 \in 1..Len(acks) /\ acks'[i] = acks[i + 1]
    BY <2>1, <2>2
  <2>6. \A i \in 1..Len(acks') : acks'[i].off \in delivered[StreamOf[acks'[i].sub]]
    BY <2>5 DEF RecordInv
  <2>7. \A a \in ackBatch' : a.off \in delivered[StreamOf[a.sub]]
    BY <2>2, <2>4 DEF RecordInv
  <2> HIDE DEF h, st
  <2>8. \A t \in Streams : highest'[t] \in delivered[t] \cup {NoOffset}
    BY <2>2, <2>4, StreamTyped DEF RecordInv, HighestOffset
  <2> QED BY <2>2, <2>6, <2>7, <2>8, Zenon DEF RecordInv, RecordedWasDelivered
<1>5. ASSUME NEW done \in SUBSET AckedStreams, NEW err \in BOOLEAN,
             ExecAcks(done, err)
      PROVE  RecordInv'
  <2>1. /\ stored' = [st \in Streams |->
             IF st \in done THEN ackScript(stored[st], highest[st])
                            ELSE stored[st]]
        /\ unacked' = IF ~err THEN unacked
                      ELSE [s \in Subs |-> unacked[s] \cup
                              {a.off : a \in {b \in ackBatch : b.sub = s}}]
        /\ ackBatch' = {}
        /\ highest' = [st \in Streams |-> NoOffset]
        /\ UNCHANGED <<acks, delivered>>
    BY <1>5, Zenon DEF ExecAcks
  <2>2. \A st \in Streams : stored'[st] \in {stored[st], highest[st]}
    BY <2>1 DEF ackScript
  <2>3. \A st \in Streams : stored'[st] \in delivered[st] \cup {NoOffset, FirstOffset}
    BY <2>2 DEF RecordInv, RecordedWasDelivered
  <2>4. \A s \in Subs : unacked'[s] \subseteq delivered[StreamOf[s]]
    BY <2>1 DEF RecordInv
  <2> QED BY <2>1, <2>3, <2>4 DEF RecordInv, RecordedWasDelivered
<1>6. CASE Crash
  <2>1. /\ UNCHANGED <<stored, delivered>>
        /\ highest' = [st \in Streams |-> NoOffset] /\ unacked' = [s \in Subs |-> {}]
        /\ 1..Len(acks') = {} /\ ackBatch' = {}
    BY <1>6 DEF Crash
  <2> QED BY <2>1 DEF RecordInv, RecordedWasDelivered
<1>7. CASE UNCHANGED vars
  BY <1>1, <1>7
<1> QED
  BY <1>1, <1>2, <1>3, <1>4, <1>5, <1>6, <1>7, ZenonT(30)
  DEF Next, Reader, Process, Consumer, processAcks, Trimmer, Publish,
      NewSubscriber, newSubscriber, gatherStreamsWithOffsets, GatherOffset,
      XRead, XReadNothing, DispatchStream, SendToClosed, SendBatch,
      EndDispatch, ProcessMessage, processedLastBatch, ProcessClosed,
      Deregister, Close, EndCoalesce, TrimStreams, TrimMGetError, TrimMinId,
      TrimMaxLen

\* With any number of subscriptions per stream, in any interleaving and with
\* any failures: the offset recorded for a stream is that of a message some
\* consumer received from this stream, or the one recorded at the start.
THEOREM RecordedOffsets == Spec => []RecordedWasDelivered
<1>1. Init => RecordInv
  BY RecordInit, Zenon
<1>2. TypeOK /\ RecordInv /\ [Next]_vars => RecordInv'
  BY RecordStep
<1>3. RecordInv => RecordedWasDelivered
  BY DEF RecordInv
<1> QED BY <1>1, <1>2, <1>3, TypeCorrect, PTL DEF Spec

-----------------------------------------------------------------------------
(***************************************************************************)
(* The order of IDs, and the operators built on it.                        *)
(***************************************************************************)


\* Redis orders the IDs of a stream strictly and totally.
LEMMA IdOrder ==
  ASSUME NEW a \in Id, NEW b \in Id
  PROVE  /\ ~IdLess(a, a)
         /\ IdLess(a, b) => ~IdLess(b, a)
         /\ a = b \/ IdLess(a, b) \/ IdLess(b, a)
         /\ \A c \in Id : IdLess(a, b) /\ IdLess(b, c) => IdLess(a, c)
  BY DEF Id, IdLess

\* A message that process() passes over is not above the offset.
LEMMA PassedOver ==
  ASSUME NEW a \in Id, NEW b \in Id, ~offsetLessThan(a, b)
  PROVE  IdLeq(b, a)
  BY DEF Id, IdLeq, IdLess, offsetLessThan

\* XTRIM MINID with idPlusOne(o) removes nothing above o.
LEMMA TrimmedNotAbove ==
  ASSUME NEW m \in Id, NEW o \in Id, IdLess(m, idPlusOne(o))
  PROVE  IdLeq(m, o)
  BY DEF Id, IdLeq, IdLess, idPlusOne

\* XADD chooses IDs above the last one.
LEMMA NextIdAbove ==
  ASSUME NEW l \in Id, NEW m \in NextIds(l)
  PROVE  /\ m \in Id
         /\ IdLess(l, m)
         /\ IdLess(minOffset, m)
<1>1. CASE m = <<l[1], l[2] + 1>>
  BY <1>1 DEF Id, IdLess, minOffset
<1>2. CASE m # <<l[1], l[2] + 1>>
  <2>1. PICK ms \in (l[1] + 1)..MaxMs : m = <<ms, 0>>
    BY <1>2 DEF NextIds
  <2>2. l[1] \in Nat /\ MaxMs \in Nat
    BY ConstantsAssumption DEF Id
  <2> QED BY <2>1, <2>2 DEF Id, IdLess, minOffset
<1> QED BY <1>1, <1>2

\* No offset is below the one a subscription without a record starts at.
LEMMA MinOffsetLowest ==
  /\ minOffset \in Id
  /\ \A a \in Id : IdLeq(minOffset, a)
  /\ \A a \in Id : IdLess(minOffset, a) => ~IdLeq(a, minOffset)
  BY DEF Id, IdLeq, IdLess, minOffset

\* XREAD with a COUNT returns the oldest entries: with an entry it returns all
\* the older ones it was asked for.
LEMMA OldestDownward ==
  ASSUME NEW S \in SUBSET Id, IsFiniteSet(S), NEW n \in Nat,
         NEW b \in Oldest(S, n), NEW k \in S, IdLeq(k, b)
  PROVE  k \in Oldest(S, n)
<1> DEFINE Below(x) == {j \in S : IdLess(j, x)}
<1>1. Below(k) \subseteq Below(b)
  BY IdOrder DEF Oldest, IdLeq
<1>2. IsFiniteSet(Below(b))
  BY FS_Subset
<1>3. Cardinality(Below(k)) <= Cardinality(Below(b))
  BY <1>1, <1>2, FS_Subset
<1>4. Cardinality(Below(b)) < n
  BY DEF Oldest
<1>5. Cardinality(Below(k)) \in Nat /\ Cardinality(Below(b)) \in Nat
  BY <1>1, <1>2, FS_Subset, FS_CardinalityType
<1>6. Cardinality(Below(k)) < n
  BY <1>3, <1>4, <1>5
<1> QED BY <1>6 DEF Oldest

-----------------------------------------------------------------------------
(***************************************************************************)
(* The parts of the invariant that a step does not disturb.                *)
(***************************************************************************)

\* A step that publishes nothing, and after which all that was settled is.
Grows ==
  /\ UNCHANGED <<lastId, published>>
  /\ \A st \in Streams : /\ delivered[st] \subseteq delivered'[st]
                         /\ capped[st] \subseteq capped'[st]

\* Such a step leaves a passed offset passed.
LEMMA PassedKept ==
  ASSUME Grows, NEW st \in Streams, NEW o, Passed(st, o)
  PROVE  Passed(st, o)'
  BY DEF Grows, Passed, Settled

\* ... and keeps each part of the invariant whose variables it leaves alone.
LEMMA StreamInvKept ==
  ASSUME StreamInv, Grows, log' = log
  PROVE  StreamInv'
  BY DEF StreamInv, Grows, Settled

\* A step that grows the streams and leaves the offsets keeps OffsetInv.
LEMMA OffsetInvKept ==
  ASSUME OffsetInv, Grows, UNCHANGED <<stored, highest, trimmer>>
  PROVE  OffsetInv'
  BY PassedKept DEF OffsetInv

\* A step that leaves the acks that are under way keeps AckInv.
LEMMA AckInvKept ==
  ASSUME TypeOK, AckInv, Grows, UNCHANGED <<unacked, acks, ackBatch>>
  PROVE  AckInv'
<1>4. acks \in Seq(Ack)
  BY QueueTyped
<1> USE Placement
<1>1. \A s \in Subs : \A m \in unacked[s] : Passed(StreamOf[s], m)'
  BY PassedKept, StreamTyped, SubTyped DEF AckInv
<1>2. ASSUME NEW i \in 1..Len(acks), NEW a, a = acks[i]
      PROVE  Passed(StreamOf[a.sub], a.off)'
  <2>1. a \in Ack
    BY <1>2, <1>4, SeqElement
  <2>2. Passed(StreamOf[a.sub], a.off)
    BY <1>2 DEF AckInv
  <2> QED BY <2>1, <2>2, PassedKept DEF Ack
<1>3. \A a \in ackBatch : Passed(StreamOf[a.sub], a.off)'
  BY PassedKept, QueueTyped DEF AckInv, Ack
<1> QED BY <1>1, <1>2, <1>3 DEF AckInv

\* A step that leaves the channels and the offsets keeps OutInv.
LEMMA OutInvKept ==
  ASSUME OutInv, Grows, UNCHANGED <<offset, out>>
  PROVE  OutInv'
<1> USE Placement
<1>1. \A s \in Subs : Settled(StreamOf[s]) \subseteq Settled(StreamOf[s])'
  BY DEF Grows, Settled
<1> QED BY <1>1 DEF OutInv, Grows

\* A step that leaves the loop and the places of the goroutines keeps
\* ControlInv.
LEMMA ControlInvKept ==
  ASSUME ControlInv, UNCHANGED <<loop, visit, streamsLeft, pc>>
  PROVE  ControlInv'
  BY DEF ControlInv, Registered

\* A step that leaves what is being gathered keeps GatherInv.
LEMMA GatherInvKept ==
  ASSUME GatherInv, UNCHANGED <<want, loop, visit, pc, offset>>
  PROVE  GatherInv'
  BY DEF GatherInv

\* A batch without gaps above an offset stays one while streams only grow.
LEMMA ContiguousKept ==
  ASSUME Grows, NEW s \in Subs, offset'[s] = offset[s], NEW S,
         Contiguous(s, S)
  PROVE  Contiguous(s, S)'
  BY Placement DEF Grows, Contiguous, Settled

\* A step that leaves the batch and the subscribers keeps BatchInv.
LEMMA BatchInvKept ==
  ASSUME BatchInv, Grows,
         UNCHANGED <<offset, loop, pc, visit, streamsLeft, batch, todo>>
  PROVE  BatchInv'
  BY ContiguousKept DEF BatchInv
-----------------------------------------------------------------------------
(***************************************************************************)
(* Each action keeps the invariant.                                        *)
(***************************************************************************)

\* Acks and trimming touch neither the subscribers nor the loop.
LEMMA ReaderKept ==
  ASSUME Inv, Grows, UNCHANGED <<pc, offset, todo, out, reader>>
  PROVE  OutInv' /\ ControlInv' /\ GatherInv' /\ BatchInv'
  BY OutInvKept, ControlInvKept, GatherInvKept, BatchInvKept DEF Inv

\* XADD appends above everything the invariant speaks of.
LEMMA PublishInv ==
  ASSUME Inv, TypeOK', NEW st \in Streams, Publish(st)
  PROVE  Inv'
<1> USE Placement
<1>1. PICK m \in NextIds(lastId[st]) :
         /\ log' = [log EXCEPT ![st] = @ \cup {m}]
         /\ lastId' = [lastId EXCEPT ![st] = m]
         /\ published' = [published EXCEPT ![st] = @ \cup {m}]
  BY Zenon DEF Publish
<1>2. lastId[st] \in Id
  BY StreamTyped DEF Inv
<1>3. m \in Id /\ IdLess(lastId[st], m) /\ IdLess(minOffset, m)
  BY <1>2, NextIdAbove
<1>4. UNCHANGED <<stored, delivered, capped, subscriber, reader, acker, trimmer>>
  BY DEF Publish
<1>5. TypeOK /\ StreamInv /\ OffsetInv /\ AckInv /\ OutInv /\ BatchInv
  BY DEF Inv
<1>6. \A t \in Streams : lastId[t] \in Id /\ IdLeq(lastId[t], lastId'[t])
  BY <1>1, <1>2, <1>3, <1>5, StreamTyped, SMTT(20) DEF IdLeq
<1>7. \A t \in Streams : \A o \in Id :
        IdLeq(o, lastId[t]) =>
          /\ IdLeq(o, lastId'[t])
          /\ \A k \in published'[t] : IdLeq(k, o) => k \in published[t]
  <2> SUFFICES ASSUME NEW t \in Streams, NEW o \in Id, IdLeq(o, lastId[t])
               PROVE  /\ IdLeq(o, lastId'[t])
                      /\ \A k \in published'[t] :
                           IdLeq(k, o) => k \in published[t]
    OBVIOUS
  <2>1. CASE t = st
    <3>1. lastId'[t] = m /\ published'[t] = published[t] \cup {m}
      BY <1>1, <1>5, <2>1, StreamTyped
    <3>2. IdLess(o, m)
      BY <1>2, <1>3, <2>1, IdOrder DEF IdLeq
    <3>3. ~IdLeq(m, o)
      BY <1>3, <3>2, IdOrder DEF IdLeq
    <3> QED BY <3>1, <3>2, <3>3 DEF IdLeq
  <2>2. CASE t # st
    BY <1>1, <1>5, <2>2, StreamTyped
  <2> QED BY <2>1, <2>2
<1>8. \A t \in Streams : \A o \in Id : Passed(t, o) => Passed(t, o)'
  BY <1>4, <1>7, Zenon DEF Passed, Settled
<1>9. StreamInv'
  <2> SUFFICES ASSUME NEW t \in Streams
               PROVE  /\ IsFiniteSet(published'[t])
                      /\ log'[t] \subseteq published'[t]
                      /\ published'[t] \ log'[t] \subseteq Settled(t)'
                      /\ \A k \in published'[t] :
                           IdLess(minOffset, k) /\ IdLeq(k, lastId'[t])
    BY ZenonT(30) DEF StreamInv
  <2>1. CASE t = st
    <3>1. /\ lastId'[t] = m
          /\ published'[t] = published[t] \cup {m}
          /\ log'[t] = log[t] \cup {m}
      BY <1>1, <1>5, <2>1, StreamTyped
    <3>2. IsFiniteSet(published[t] \cup {m})
      BY <1>5, FS_AddElement, Zenon DEF StreamInv
    <3>3. \A k \in published[t] : k \in Id /\ IdLeq(k, lastId[t])
      BY <1>5, StreamTyped DEF StreamInv
    <3>4. \A k \in published[t] : IdLeq(k, m)
      BY <1>2, <1>3, <2>1, <3>3, IdOrder DEF IdLeq
    <3>5. Settled(t)' = Settled(t)
      BY <1>4, Zenon DEF Settled
    <3> QED BY <1>3, <1>5, <3>1, <3>2, <3>4, <3>5 DEF StreamInv, IdLeq
  <2>2. CASE t # st
    BY <1>1, <1>4, <1>5, <2>2, StreamTyped DEF StreamInv, Settled
  <2> QED BY <2>1, <2>2, ZenonT(30)
<1>10. OffsetInv'
  BY <1>4, <1>5, <1>8, StreamTyped DEF OffsetInv
<1>11. AckInv'
  <2>1. \A s \in Subs : \A k \in unacked'[s] : Passed(StreamOf[s], k)'
    BY <1>4, <1>5, <1>8, Zenon DEF AckInv, TypeOK
  <2>2. ASSUME NEW i \in 1..Len(acks), NEW a, a = acks[i]
        PROVE  Passed(StreamOf[a.sub], a.off)'
    <3>1. a \in Ack
      BY <1>5, <2>2, SeqElement, QueueTyped
    <3>2. Passed(StreamOf[a.sub], a.off)
      BY <1>5, <2>2 DEF AckInv
    <3> QED BY <1>8, <3>1, <3>2 DEF Ack
  <2>3. \A a \in ackBatch' : Passed(StreamOf[a.sub], a.off)'
    BY <1>4, <1>5, <1>8, QueueTyped DEF AckInv, Ack
  <2> QED BY <1>4, <2>1, <2>2, <2>3, Zenon DEF AckInv
<1>12. OutInv'
  <2> SUFFICES ASSUME NEW s \in Subs, NEW t, t = StreamOf[s]
               PROVE  /\ IdLeq(offset[s], lastId'[t])
                      /\ \A k \in published'[t] :
                           IdLeq(k, offset[s]) =>
                             k \in Settled(t) \/ \E j \in 1..Len(out[s]) : out[s][j] = k
                      /\ \A i \in 1..Len(out[s]) :
                           /\ IdLeq(out[s][i], lastId'[t])
                           /\ \A k \in published'[t] :
                                IdLeq(k, out[s][i]) =>
                                  k \in Settled(t) \/ \E j \in 1..i : out[s][j] = k
    BY <1>4 DEF OutInv, Settled
  <2>1. t \in Streams /\ offset[s] \in Id /\ out[s] \in Seq(Id)
    BY <1>5, SubTyped
  <2>2. \A i \in 1..Len(out[s]) : out[s][i] \in Id
    BY <2>1, SeqElement
  <2>3. /\ IdLeq(offset[s], lastId'[t])
        /\ \A k \in published'[t] : IdLeq(k, offset[s]) => k \in published[t]
    BY <1>5, <1>7, <2>1, ZenonT(30) DEF OutInv
  <2>4. \A i \in 1..Len(out[s]) :
          /\ IdLeq(out[s][i], lastId'[t])
          /\ \A k \in published'[t] : IdLeq(k, out[s][i]) => k \in published[t]
    BY <1>5, <1>7, <2>1, <2>2, SMTT(20) DEF OutInv
  <2>5. /\ \A k \in published[t] :
             IdLeq(k, offset[s]) =>
               k \in Settled(t) \/ \E j \in 1..Len(out[s]) : out[s][j] = k
        /\ \A i \in 1..Len(out[s]) : \A k \in published[t] :
             IdLeq(k, out[s][i]) =>
               k \in Settled(t) \/ \E j \in 1..i : out[s][j] = k
    BY <1>5, SMTT(20) DEF OutInv
  <2> QED BY ONLY <2>3, <2>4, <2>5, ZenonT(30)
<1>13. \A s \in Subs : \A S : Contiguous(s, S) => Contiguous(s, S)'
  <2> SUFFICES ASSUME NEW s \in Subs, NEW S, Contiguous(s, S), NEW b \in S
               PROVE  /\ b \in published'[StreamOf[s]]
                      /\ IdLess(offset[s], b)
                      /\ \A k \in published'[StreamOf[s]] :
                           IdLess(offset[s], k) /\ IdLeq(k, b) =>
                             k \in S \cup Settled(StreamOf[s])
    BY <1>4, Zenon DEF Contiguous, Settled
  <2>1. StreamOf[s] \in Streams
    BY SMTT(20)
  <2>2. /\ b \in published[StreamOf[s]]
        /\ IdLess(offset[s], b)
        /\ \A k \in published[StreamOf[s]] :
             IdLess(offset[s], k) /\ IdLeq(k, b) => k \in S \cup Settled(StreamOf[s])
    BY DEF Contiguous
  <2>3. b \in Id /\ IdLeq(b, lastId[StreamOf[s]])
    BY <1>5, <2>1, <2>2, StreamTyped, Zenon DEF StreamInv
  <2>4. published[StreamOf[s]] \subseteq published'[StreamOf[s]]
    BY <1>1, <1>5, <2>1, StreamTyped
  <2> QED BY <1>7, <2>1, <2>2, <2>3, <2>4
<1>14. BatchInv'
  BY <1>4, <1>5, <1>13, Zenon DEF BatchInv
<1>15. ControlInv' /\ GatherInv'
  BY <1>4, ControlInvKept, GatherInvKept DEF Inv
<1> QED BY <1>9, <1>10, <1>11, <1>12, <1>14, <1>15 DEF Inv
\* The subscribers and the reading loop change nothing in Redis, and no ack.
LEMMA ReadingKeeps ==
  ASSUME Inv, UNCHANGED <<redis, history, acker, trimmer, unacked>>
  PROVE  Grows /\ StreamInv' /\ OffsetInv' /\ AckInv'
<1>1. Grows
  BY DEF Grows
<1> QED BY <1>1, StreamInvKept, OffsetInvKept, AckInvKept DEF Inv

\* A subscription starts from a passed offset, or below all messages.
LEMMA NewSubscriberInv ==
  ASSUME Inv, TypeOK', NEW s \in Subs, NewSubscriber(s)
  PROVE  Inv'
<1> USE Placement
<1>1. Grows /\ StreamInv' /\ OffsetInv' /\ AckInv'
  BY ReadingKeeps DEF NewSubscriber
<1>2. /\ TypeOK /\ pc[s] = "none" /\ StreamOf[s] \in Streams
      /\ pc' = [pc EXCEPT ![s] = "opening"]
      /\ offset' = [offset EXCEPT ![s] = offset'[s]]
      /\ UNCHANGED <<redis, history, out, todo, reader>>
  BY Zenon DEF Inv, TypeOK, NewSubscriber
<1>3. Passed(StreamOf[s], offset'[s])
  <2>1. CASE stored[StreamOf[s]] = NoOffset
    <3>1. offset'[s] = minOffset
      BY <1>2, <2>1, SubTyped DEF NewSubscriber
    <3>2. lastId[StreamOf[s]] \in Id
      BY <1>2, StreamTyped
    <3>3. \A k \in published[StreamOf[s]] : k \in Id /\ IdLess(minOffset, k)
      BY <1>2, Zenon DEF Inv, TypeOK, StreamInv
    <3> QED BY <3>1, <3>2, <3>3, MinOffsetLowest, Zenon DEF Passed
  <2>2. CASE stored[StreamOf[s]] # NoOffset
    <3>1. offset'[s] = stored[StreamOf[s]]
      BY <1>2, <2>2, SubTyped DEF NewSubscriber
    <3> QED BY <1>2, <2>2, <3>1, Zenon DEF Inv, OffsetInv
  <2> QED BY <2>1, <2>2
<1>4. OutInv'
  <2>1. \A t \in Subs : t # s => offset'[t] = offset[t]
    BY <1>2, SubTyped
  <2>2. \A t \in Subs : Settled(StreamOf[t])' = Settled(StreamOf[t])
    BY <1>2, Zenon DEF Settled
  <2>3. OutInv
    BY DEF Inv
  <2>4. lastId' = lastId /\ published' = published /\ out' = out
    BY <1>2
  <2> DEFINE Upto(o, last, pub, set, queue) ==
               /\ IdLeq(o, last)
               /\ \A k \in pub : IdLeq(k, o) =>
                    k \in set \/ \E j \in 1..Len(queue) : queue[j] = k
             Queue(last, pub, set, queue) ==
               \A i \in 1..Len(queue) :
                 /\ IdLeq(queue[i], last)
                 /\ \A k \in pub : IdLeq(k, queue[i]) =>
                      k \in set \/ \E j \in 1..i : queue[j] = k
  <2>5. ASSUME NEW t \in Subs
        PROVE  Upto(offset'[t], lastId[StreamOf[t]], published[StreamOf[t]],
                    Settled(StreamOf[t]), out[t])
    <3>1. CASE t = s
      BY <1>3, <3>1, SMTT(20) DEF Passed
    <3>2. CASE t # s
      <4>1. Upto(offset[t], lastId[StreamOf[t]], published[StreamOf[t]],
                 Settled(StreamOf[t]), out[t])
        BY <2>3 DEF OutInv
      <4> HIDE DEF Upto
      <4> QED BY <2>1, <3>2, <4>1, SMTT(20)
    <3> QED BY <3>1, <3>2
  <2>6. ASSUME NEW t \in Subs
        PROVE  Queue(lastId[StreamOf[t]], published[StreamOf[t]],
                     Settled(StreamOf[t]), out[t])
    BY <2>3 DEF OutInv
  <2>7. (\A t \in Subs :
           /\ Upto(offset'[t], lastId'[StreamOf[t]], published'[StreamOf[t]],
                   Settled(StreamOf[t])', out'[t])
           /\ Queue(lastId'[StreamOf[t]], published'[StreamOf[t]],
                    Settled(StreamOf[t])', out'[t])) => OutInv'
    BY Zenon DEF OutInv
  <2> HIDE DEF Upto, Queue
  <2> QED BY <2>2, <2>4, <2>5, <2>6, <2>7, Zenon
<1>5. ControlInv'
  BY <1>2, Zenon DEF Inv, ControlInv, Registered, TypeOK
<1>6. GatherInv'
  BY <1>2, Zenon DEF Inv, GatherInv, TypeOK
<1>7. BatchInv'
  <2>1. todo[s] = {}
    BY <1>2, Zenon DEF Inv, BatchInv
  <2>2. Contiguous(s, todo[s])'
    BY <1>2, <2>1, Zenon DEF Contiguous
  <2>3. ASSUME NEW t \in Subs, t # s, NEW S, Contiguous(t, S)
        PROVE  Contiguous(t, S)'
    BY <1>1, <1>2, <2>3, ContiguousKept, SubTyped
  <2> QED BY <1>2, <2>1, <2>2, <2>3, Zenon DEF Inv, BatchInv, TypeOK
<1> QED BY <1>1, <1>4, <1>5, <1>6, <1>7 DEF Inv

-----------------------------------------------------------------------------
\* Steps of the subscribers and the loop that move no message: registering,
\* finding the subscription closed, starting to gather, skipping a closed
\* subscriber, beginning and ending the dispatch of a stream.
LEMMA MovelessInv ==
  ASSUME OneSubscription, Inv, TypeOK',
         \/ gatherStreamsWithOffsets
         \/ XReadNothing
         \/ EndDispatch
         \/ \E st \in Streams : DispatchStream(st)
         \/ \E s \in Subs : \/ newSubscriber(s)
                            \/ ProcessClosed(s)
                            \/ SendToClosed(s)
                            \/ Close(s)
  PROVE  Inv'
<1> USE Placement
<1>1. UNCHANGED <<redis, history, acker, trimmer, unacked, offset, out, todo>>
  BY Zenon DEF gatherStreamsWithOffsets, XReadNothing, EndDispatch, DispatchStream,
         newSubscriber, ProcessClosed, SendToClosed, Close
<1>2. Grows /\ StreamInv' /\ OffsetInv' /\ AckInv'
  BY <1>1, ReadingKeeps
<1>3. OutInv'
  BY <1>1, <1>2, OutInvKept DEF Inv
<1>4. \A s \in Subs : \A S : Contiguous(s, S) => Contiguous(s, S)'
  BY <1>1, <1>2, ContiguousKept
<1>5. TypeOK /\ ControlInv /\ GatherInv /\ BatchInv
  BY DEF Inv
<1>6. CASE gatherStreamsWithOffsets
  BY <1>1, <1>2, <1>3, <1>4, <1>5, <1>6, Zenon
  DEF gatherStreamsWithOffsets, ControlInv, GatherInv, BatchInv, Registered, Inv
<1>7. CASE XReadNothing
  BY <1>1, <1>2, <1>3, <1>4, <1>5, <1>7, Zenon
  DEF XReadNothing, ControlInv, GatherInv, BatchInv, Registered, Inv
<1>8. CASE EndDispatch
  BY <1>1, <1>2, <1>3, <1>4, <1>5, <1>8, Zenon
  DEF EndDispatch, ControlInv, GatherInv, BatchInv, Registered, Inv
<1>9. ASSUME NEW st \in Streams, DispatchStream(st) PROVE Inv'
  <2>1. /\ loop = "dispatch" /\ visit = {} /\ st \in streamsLeft
        /\ visit' = {s \in Registered : StreamOf[s] = st}
        /\ streamsLeft' = streamsLeft \ {st}
        /\ UNCHANGED <<loop, pc, want, batch>>
    BY <1>9 DEF DispatchStream
  <2>2. ControlInv'
    BY <1>5, <2>1 DEF ControlInv, Registered
  <2>3. GatherInv'
    BY <1>1, <1>5, <2>1, Zenon DEF GatherInv
  <2>4. BatchInv'
    <3>1. ASSUME NEW s \in Subs PROVE Contiguous(s, todo[s])' /\ (pc[s] # "batch" => todo[s] = {})
      <4>1. Contiguous(s, todo[s]) /\ (pc[s] # "batch" => todo[s] = {})
        BY <1>5, Zenon DEF BatchInv
      <4>2. todo' = todo
        BY <1>1, Zenon
      <4> QED BY <1>4, <4>1, <4>2, Zenon
    <3>2. ASSUME NEW s \in Subs, pc[s] = "select", s \in visit' \/ StreamOf[s] \in streamsLeft'
          PROVE  Contiguous(s, batch[StreamOf[s]])'
      <4>1. StreamOf[s] \in streamsLeft
        BY ONLY <2>1, <3>2
      <4>2. Contiguous(s, batch[StreamOf[s]])
        BY <1>5, <2>1, <3>2, <4>1, Zenon DEF BatchInv
      <4> QED BY <1>4, <2>1, <4>2, Zenon
    <3> QED BY <1>1, <2>1, <3>1, <3>2, Zenon DEF BatchInv
  <2> QED BY <1>2, <1>3, <2>2, <2>3, <2>4 DEF Inv
<1>10. ASSUME NEW s \in Subs, newSubscriber(s) PROVE Inv'
  <2>1. /\ pc[s] = "opening" /\ loop \notin {"gather", "dispatch"}
        /\ pc' = [pc EXCEPT ![s] = "select"]
        /\ UNCHANGED reader
    BY <1>10 DEF newSubscriber, ReadLocked
  <2>2. ControlInv'
    BY <1>5, <2>1, Zenon DEF ControlInv, Registered, TypeOK
  <2>3. GatherInv'
    BY <1>1, <1>5, <2>1, Zenon DEF GatherInv, TypeOK
  <2>4. BatchInv'
    BY <1>1, <1>4, <1>5, <2>1, ZenonT(30) DEF BatchInv, TypeOK
  <2> QED BY <1>2, <1>3, <2>2, <2>3, <2>4 DEF Inv
<1>11. ASSUME NEW s \in Subs, ProcessClosed(s) PROVE Inv'
  <2>1. /\ pc[s] = "select"
        /\ pc' = [pc EXCEPT ![s] = "exit"]
        /\ UNCHANGED reader
    BY <1>11 DEF ProcessClosed
  <2>2. ControlInv'
    BY <1>5, <2>1, SubTyped DEF ControlInv, Registered
  <2>3. GatherInv'
    BY <1>1, <1>5, <2>1, SubTyped DEF GatherInv
  <2>4. BatchInv'
    BY <1>1, <1>4, <1>5, <2>1, ZenonT(30) DEF BatchInv, TypeOK
  <2> QED BY <1>2, <1>3, <2>2, <2>3, <2>4 DEF Inv
<1>12. ASSUME NEW s \in Subs, SendToClosed(s) PROVE Inv'
  <2>1. /\ loop = "dispatch" /\ ~Sending
        /\ visit' = visit \ {s}
        /\ UNCHANGED <<pc, loop, want, batch, streamsLeft>>
    BY <1>12 DEF SendToClosed
  <2>2. ControlInv'
    BY <1>5, <2>1, SubTyped DEF ControlInv, Registered, Sending
  <2>3. GatherInv'
    BY <1>1, <1>5, <2>1, Zenon DEF GatherInv
  <2>4. BatchInv'
    BY <1>1, <1>4, <1>5, <2>1, Zenon DEF BatchInv
  <2> QED BY <1>2, <1>3, <2>2, <2>3, <2>4 DEF Inv
<1>13. ASSUME NEW s \in Subs, Close(s) PROVE Inv'
  <2>1. UNCHANGED <<pc, reader>>
    BY <1>13 DEF Close
  <2> QED BY <1>1, <1>2, <1>3, <1>5, <2>1, ControlInvKept, GatherInvKept,
             BatchInvKept, SMTT(20) DEF Inv
<1> QED BY <1>6, <1>7, <1>8, <1>9, <1>10, <1>11, <1>12, <1>13

\* The offset gathered for a stream is that of its only subscriber.
LEMMA GatherOffsetInv ==
  ASSUME OneSubscription, Inv, TypeOK', NEW s \in Subs, GatherOffset(s)
  PROVE  Inv'
<1> USE Placement
<1>1. Grows /\ StreamInv' /\ OffsetInv' /\ AckInv'
  BY ReadingKeeps DEF GatherOffset
<1>2. /\ loop = "gather" /\ s \in visit
      /\ visit' = visit \ {s}
      /\ loop' \in {"gather", "read"}
      /\ loop' = "read" => visit' = {}
      /\ UNCHANGED <<offset, out, todo, pc, batch, streamsLeft>>
  BY DEF GatherOffset
<1>3. TypeOK /\ ControlInv /\ GatherInv /\ BatchInv /\ OutInv
  BY DEF Inv
<1>4. want[StreamOf[s]] = NoOffset
  BY <1>2, <1>3 DEF GatherInv
<1>5. want' = [want EXCEPT ![StreamOf[s]] = offset[s]]
  BY <1>4 DEF GatherOffset, LowestOffset
<1>6. pc[s] \in {"select", "exit"}
  BY <1>2, <1>3 DEF ControlInv, Registered
<1>7. OutInv'
  BY <1>1, <1>2, <1>3, OutInvKept
<1>8. ControlInv'
  BY <1>2, <1>3 DEF ControlInv, Registered
<1>9. GatherInv'
  <2> SUFFICES ASSUME NEW t \in Subs, want'[StreamOf[t]] # NoOffset
               PROVE  /\ loop' \in {"gather", "read"}
                      /\ t \notin visit'
                      /\ pc[t] \in {"select", "exit", "gone"}
                      /\ pc[t] = "select" => want'[StreamOf[t]] = offset[t]
    BY <1>2 DEF GatherInv
  <2>1. CASE t = s
    BY <1>2, <1>3, <1>5, <1>6, <2>1, Zenon DEF TypeOK
  <2>2. CASE t # s
    <3>1. StreamOf[t] # StreamOf[s]
      BY <2>2 DEF OneSubscription
    <3>2. want'[StreamOf[t]] = want[StreamOf[t]]
      BY <1>3, <1>5, <3>1, StreamTyped
    <3> QED BY <1>2, <1>3, <3>2, Zenon DEF GatherInv
  <2> QED BY <2>1, <2>2, SMTT(20)
<1>10. BatchInv'
  BY <1>1, <1>2, <1>3, ContiguousKept, Zenon DEF BatchInv
<1> QED BY <1>1, <1>7, <1>8, <1>9, <1>10 DEF Inv

\* What XREAD returns continues the offset it was given.
LEMMA XReadInv ==
  ASSUME Inv, TypeOK', XRead
  PROVE  Inv'
<1> USE Placement
<1>1. Grows /\ StreamInv' /\ OffsetInv' /\ AckInv'
  BY ReadingKeeps DEF XRead
<1>2. /\ loop = "read" /\ loop' = "dispatch"
      /\ batch' = [st \in Streams |-> XReadResult(st)]
      /\ want' = [st \in Streams |-> NoOffset]
      /\ streamsLeft' \subseteq Streams
      /\ UNCHANGED <<redis, history, offset, out, todo, pc, visit>>
  BY DEF XRead
<1>3. TypeOK /\ ControlInv /\ GatherInv /\ BatchInv /\ OutInv /\ StreamInv
  BY DEF Inv
<1>4. OutInv'
  BY <1>1, <1>2, <1>3, OutInvKept
<1>5. ControlInv'
  BY <1>2, <1>3, SMTT(20) DEF ControlInv, Registered
<1>6. GatherInv'
  BY <1>2 DEF GatherInv
<1>7. ASSUME NEW s \in Subs, pc[s] = "select"
      PROVE  Contiguous(s, XReadResult(StreamOf[s]))
  <2> DEFINE st == StreamOf[s]
             S == {m \in log[st] : IdLess(want[st], m)}
  <2>1. CASE want[st] = NoOffset
    BY <2>1, Zenon DEF XReadResult, Contiguous
  <2>2. CASE want[st] # NoOffset
    <3>1. want[st] = offset[s] /\ st \in Streams /\ offset[s] \in Id
      BY <1>3, <1>7, <2>2, SubTyped DEF GatherInv
    <3>2. XReadResult(st) = Oldest(S, ReadCount)
      BY <2>2, Zenon DEF XReadResult
    <3>3. S \in SUBSET Id /\ IsFiniteSet(S) /\ S \subseteq published[st]
      <4>1. S \subseteq published[st] /\ IsFiniteSet(published[st])
        BY <1>3, <3>1, Zenon DEF StreamInv
      <4>2. published[st] \subseteq Id
        BY <1>3, <3>1, StreamTyped
      <4> QED BY <4>1, <4>2, FS_Subset, Zenon
    <3> SUFFICES ASSUME NEW b \in Oldest(S, ReadCount)
                 PROVE  /\ b \in published[st]
                        /\ IdLess(offset[s], b)
                        /\ \A k \in published[st] :
                             IdLess(offset[s], k) /\ IdLeq(k, b) =>
                               k \in Oldest(S, ReadCount) \cup Settled(st)
      BY <3>2, Zenon DEF Contiguous
    <3>4. b \in S
      BY Zenon DEF Oldest
    <3>5. ASSUME NEW k \in published[st], IdLess(offset[s], k), IdLeq(k, b),
                 k \notin Settled(st)
          PROVE  k \in Oldest(S, ReadCount)
      <4>1. k \in log[st]
        BY <1>3, <3>1, <3>5, Zenon DEF StreamInv
      <4>2. k \in S
        BY <3>1, <3>5, <4>1, ZenonT(30)
      <4>3. ReadCount \in Nat
        BY ConstantsAssumption
      <4> HIDE DEF S
      <4> QED BY <3>3, <3>5, <4>2, <4>3, OldestDownward, Zenon
    <3> QED BY <3>1, <3>3, <3>4, <3>5, ZenonT(30)
  <2> QED BY <2>1, <2>2
<1>8. BatchInv'
  <2>1. ASSUME NEW s \in Subs, NEW S, Contiguous(s, S)
        PROVE  Contiguous(s, S)'
    BY <1>1, <1>2, <2>1, ContiguousKept
  <2>2. ASSUME NEW s \in Subs, pc[s] = "select", NEW S,
               S = XReadResult(StreamOf[s])
        PROVE  Contiguous(s, S)'
    BY <1>7, <2>1, <2>2
  <2>3. \A s \in Subs : batch'[StreamOf[s]] = XReadResult(StreamOf[s])
    BY <1>2
  <2> QED BY <1>2, <1>3, <2>1, <2>2, <2>3, Zenon DEF BatchInv
<1> QED BY <1>1, <1>4, <1>5, <1>6, <1>8 DEF Inv
=============================================================================

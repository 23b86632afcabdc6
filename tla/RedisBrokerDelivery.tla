------------------------ MODULE RedisBrokerDelivery -------------------------
(***************************************************************************)
(* At least once delivery: the steps of the loop from a read on, those of  *)
(* process(), of consumers, of processAcks and of the trimmer, and a       *)
(* restart keep the invariant too, and the invariant implies AtLeastOnce.  *)
(***************************************************************************)
EXTENDS RedisBrokerProofs

\* What an action does to the variables is in these definitions.
USE DEF vars, redis, history, subscriber, reader, acker, trimmer

-----------------------------------------------------------------------------
\* process() takes over the batch, and gives the loop its answer.
LEMMA SendBatchInv ==
  ASSUME Inv, TypeOK', NEW s \in Subs, SendBatch(s)
  PROVE  Inv'
<1> USE Placement
<1>1. Grows /\ StreamInv' /\ OffsetInv' /\ AckInv'
  BY ReadingKeeps DEF SendBatch
<1>2. /\ loop = "dispatch" /\ s \in visit /\ pc[s] = "select"
      /\ pc' = [pc EXCEPT ![s] = "batch"]
      /\ todo' = [todo EXCEPT ![s] = batch[StreamOf[s]]]
      /\ UNCHANGED <<offset, out, reader>>
  BY DEF SendBatch
<1>3. TypeOK /\ ControlInv /\ GatherInv /\ BatchInv /\ OutInv
  BY DEF Inv
<1>4. OutInv'
  BY <1>1, <1>2, <1>3, OutInvKept
<1>5. ControlInv'
  BY <1>2, <1>3 DEF ControlInv, Registered, TypeOK
<1>6. GatherInv'
  BY <1>2, <1>3 DEF GatherInv, TypeOK
<1>7. BatchInv'
  <2>1. ASSUME NEW t \in Subs, NEW S, Contiguous(t, S)
        PROVE  Contiguous(t, S)'
    BY <1>1, <1>2, <2>1, ContiguousKept
  <2>2. Contiguous(s, batch[StreamOf[s]])
    BY <1>2, <1>3 DEF BatchInv
  <2>3. todo'[s] = batch[StreamOf[s]] /\ pc'[s] = "batch"
    BY <1>2, <1>3 DEF TypeOK
  <2>4. \A t \in Subs : t # s => todo'[t] = todo[t] /\ pc'[t] = pc[t]
    BY <1>2, <1>3 DEF TypeOK
  <2> QED BY <1>2, <1>3, <2>1, <2>2, <2>3, <2>4 DEF BatchInv
<1> QED BY <1>1, <1>4, <1>5, <1>6, <1>7 DEF Inv

\* A subscriber that has deregistered has nothing in flight.
LEMMA DeregisterInv ==
  ASSUME Inv, TypeOK', NEW s \in Subs, Deregister(s)
  PROVE  Inv'
<1> USE Placement
<1>1. Grows /\ StreamInv' /\ OffsetInv' /\ AckInv'
  BY ReadingKeeps DEF Deregister
<1>2. /\ pc[s] = "exit" /\ loop \notin {"gather", "dispatch"}
      /\ pc' = [pc EXCEPT ![s] = "gone"]
      /\ offset' = [offset EXCEPT ![s] = minOffset]
      /\ out' = [out EXCEPT ![s] = <<>>]
      /\ UNCHANGED <<redis, history, todo, reader>>
  BY DEF Deregister, ReadLocked
<1>3. /\ TypeOK /\ StreamInv /\ ControlInv /\ GatherInv /\ BatchInv /\ OutInv
      /\ StreamOf[s] \in Streams
  BY DEF Inv
<1>4. /\ pc'[s] = "gone" /\ offset'[s] = minOffset /\ out'[s] = <<>>
      /\ \A t \in Subs : t # s => /\ pc'[t] = pc[t]
                                  /\ offset'[t] = offset[t]
                                  /\ out'[t] = out[t]
  BY <1>2, <1>3 DEF TypeOK
<1>5. OutInv'
  <2>1. \A t \in Subs : Settled(StreamOf[t])' = Settled(StreamOf[t])
    BY <1>2 DEF Settled
  <2>2. /\ IdLeq(minOffset, lastId[StreamOf[s]])
        /\ \A k \in published[StreamOf[s]] : ~IdLeq(k, minOffset)
    BY <1>3, MinOffsetLowest DEF StreamInv, TypeOK
  <2>3. UNCHANGED <<lastId, published>>
    BY <1>2
  <2> DEFINE Fits(o, off, last, pub, set) ==
        /\ IdLeq(off, last)
        /\ \A k \in pub : IdLeq(k, off) => k \in set \/ \E j \in 1..Len(o) : o[j] = k
        /\ \A i \in 1..Len(o) :
             /\ IdLeq(o[i], last)
             /\ \A k \in pub : IdLeq(k, o[i]) => k \in set \/ \E j \in 1..i : o[j] = k
  <2>4. \A t \in Subs : Fits(out[t], offset[t], lastId[StreamOf[t]],
                            published[StreamOf[t]], Settled(StreamOf[t]))
    BY <1>3 DEF OutInv
  <2> SUFFICES ASSUME NEW t \in Subs
               PROVE  Fits(out'[t], offset'[t], lastId'[StreamOf[t]],
                           published'[StreamOf[t]], Settled(StreamOf[t])')
    BY DEF OutInv
  <2>5. CASE t = s
    <3>1. offset'[t] = minOffset /\ 1..Len(out'[t]) = {}
      BY <1>4, <2>5
    <3> QED BY <2>2, <2>3, <2>5, <3>1
  <2> HIDE DEF Fits
  <2>6. CASE t # s
    <3>1. out'[t] = out[t] /\ offset'[t] = offset[t]
      BY <1>4, <2>6
    <3> QED BY <2>1, <2>3, <2>4, <3>1
  <2> QED BY <2>5, <2>6
<1>9. visit = {}
  BY <1>2, <1>3 DEF TypeOK, ControlInv
<1>6. ControlInv'
  BY <1>2, <1>3, <1>4, <1>9 DEF ControlInv, Registered
<1>7. GatherInv'
  BY <1>2, <1>3, <1>4 DEF GatherInv
<1>8. BatchInv'
  <2>1. todo[s] = {} /\ todo' = todo
    BY <1>2, <1>3 DEF BatchInv
  <2>2. Contiguous(s, todo[s])'
    BY <2>1 DEF Contiguous
  <2>3. \A t \in Subs : t # s => \A S : Contiguous(t, S) => Contiguous(t, S)'
    BY <1>1, <1>4, ContiguousKept
  <2> QED BY <1>2, <1>3, <1>4, <2>1, <2>2, <2>3, Zenon DEF BatchInv
<1> QED BY <1>1, <1>5, <1>6, <1>7, <1>8 DEF Inv

-----------------------------------------------------------------------------
\* process() reports a batch done: its subscriber has nothing left of it.
LEMMA ProcessedInv ==
  ASSUME Inv, TypeOK', NEW s \in Subs, processedLastBatch(s)
  PROVE  Inv'
<1> USE Placement
<1>1. Grows /\ StreamInv' /\ OffsetInv' /\ AckInv'
  BY ReadingKeeps DEF processedLastBatch
<1>2. /\ pc[s] = "batch" /\ todo[s] = {}
      /\ pc' = [pc EXCEPT ![s] = IF closed[s] THEN "exit" ELSE "select"]
      /\ visit' = visit \ {s}
      /\ UNCHANGED <<offset, out, todo, loop, want, batch, streamsLeft>>
  BY DEF processedLastBatch
<1>3. TypeOK /\ ControlInv /\ GatherInv /\ BatchInv /\ OutInv
  BY DEF Inv
<1>4. /\ pc'[s] \in {"exit", "select"}
      /\ \A t \in Subs : t # s => pc'[t] = pc[t]
  BY <1>2, <1>3 DEF TypeOK
<1>5. loop = "dispatch" /\ s \in visit /\ StreamOf[s] \notin streamsLeft
  BY <1>2, <1>3 DEF ControlInv
<1>6. OutInv'
  BY <1>1, <1>2, <1>3, OutInvKept
<1>7. ControlInv'
  BY <1>2, <1>3, <1>4, <1>5 DEF ControlInv, Registered
<1>8. GatherInv'
  BY <1>2, <1>3, <1>4, <1>5 DEF GatherInv
<1>9. BatchInv'
  BY <1>1, <1>2, <1>3, <1>4, <1>5, ContiguousKept DEF BatchInv
<1> QED BY <1>1, <1>6, <1>7, <1>8, <1>9 DEF Inv

\* A message that enters messagesOut leaves no hole between it and the offset.
LEMMA ProcessMessageInv ==
  ASSUME Inv, TypeOK', NEW s \in Subs, ProcessMessage(s)
  PROVE  Inv'
<1> USE Placement
<1>1. Grows /\ StreamInv' /\ OffsetInv' /\ AckInv'
  BY ReadingKeeps DEF ProcessMessage
<1>2. PICK m \in todo[s] :
        /\ \A k \in todo[s] : IdLeq(m, k)
        /\ todo' = [todo EXCEPT ![s] = @ \ {m}]
        /\ \/ /\ out' = [out EXCEPT ![s] = Append(@, m)]
              /\ offset' = [offset EXCEPT ![s] = m]
           \/ /\ ~offsetLessThan(offset[s], m)
              /\ UNCHANGED <<out, offset>>
  BY Zenon DEF ProcessMessage, FirstTodo
<1>3. pc[s] = "batch" /\ UNCHANGED <<redis, history, pc, reader>>
  BY DEF ProcessMessage
<1>4. TypeOK /\ StreamInv /\ ControlInv /\ GatherInv /\ BatchInv /\ OutInv
  BY DEF Inv
<1>5. loop = "dispatch" /\ StreamOf[s] \in Streams
  BY <1>3, <1>4 DEF ControlInv
<1> DEFINE st == StreamOf[s]
<1>6. /\ todo[s] \subseteq Id /\ m \in Id /\ offset[s] \in Id
      /\ out[s] \in Seq(Id) /\ lastId[st] \in Id /\ published[st] \subseteq Id
  BY <1>4, <1>5 DEF TypeOK
<1>7. /\ m \in published[st]
      /\ IdLess(offset[s], m)
      /\ IdLeq(m, lastId[st])
      /\ \A k \in published[st] :
           IdLess(offset[s], k) /\ IdLeq(k, m) => k \in todo[s] \cup Settled(st)
  BY <1>4, <1>5 DEF BatchInv, Contiguous, StreamInv
<1>8. /\ out' = [out EXCEPT ![s] = Append(@, m)]
      /\ offset' = [offset EXCEPT ![s] = m]
  <2>1. ASSUME ~offsetLessThan(offset[s], m) PROVE FALSE
    BY <1>6, <1>7, <2>1, PassedOver, IdOrder, SMTT(20) DEF IdLeq
  <2> QED BY <1>2, <2>1
<1>9. /\ offset'[s] = m
      /\ out'[s] = Append(out[s], m)
      /\ \A t \in Subs : t # s => /\ offset'[t] = offset[t]
                                  /\ out'[t] = out[t]
                                  /\ todo'[t] = todo[t]
      /\ todo'[s] = todo[s] \ {m}
  BY <1>2, <1>4, <1>8, SMTT(20) DEF TypeOK
<1>10. \A k \in published[st] :
         IdLeq(k, m) => \/ k \in Settled(st)
                        \/ \E j \in 1..Len(out[s]) : out[s][j] = k
                        \/ k = m
  <2> SUFFICES ASSUME NEW k \in published[st], IdLeq(k, m),
                      k \notin Settled(st), k # m
               PROVE  \E j \in 1..Len(out[s]) : out[s][j] = k
    OBVIOUS
  <2>1. ~IdLess(offset[s], k)
    <3> SUFFICES ASSUME IdLess(offset[s], k) PROVE FALSE
      OBVIOUS
    <3>1. k \in todo[s]
      BY <1>7
    <3>2. IdLeq(m, k)
      BY <1>2, <3>1
    <3> QED BY <1>6, <3>2, IdOrder DEF IdLeq
  <2>2. IdLeq(k, offset[s])
    BY <1>6, <2>1, IdOrder DEF IdLeq
  <2> QED BY <1>4, <2>2 DEF OutInv
<1>11. OutInv'
  <2>1. UNCHANGED <<lastId, published, delivered, capped>>
    BY <1>3, Zenon DEF redis, history
  <2> SUFFICES ASSUME NEW t \in Subs
               PROVE  /\ IdLeq(offset'[t], lastId[StreamOf[t]])
                      /\ \A k \in published[StreamOf[t]] :
                           IdLeq(k, offset'[t]) =>
                             \/ k \in Settled(StreamOf[t])'
                             \/ \E j \in 1..Len(out'[t]) : out'[t][j] = k
                      /\ \A i \in 1..Len(out'[t]) :
                           /\ IdLeq(out'[t][i], lastId[StreamOf[t]])
                           /\ \A k \in published[StreamOf[t]] :
                                IdLeq(k, out'[t][i]) =>
                                  \/ k \in Settled(StreamOf[t])'
                                  \/ \E j \in 1..i : out'[t][j] = k
    BY <2>1, ZenonT(30) DEF OutInv
  <2>4. Settled(StreamOf[t])' = Settled(StreamOf[t])
    BY <2>1, Zenon DEF Settled
  <2>2. CASE t # s
    <3>1. offset'[t] = offset[t] /\ out'[t] = out[t]
      BY <1>9, <2>2, Zenon
    <3>2. /\ IdLeq(offset[t], lastId[StreamOf[t]])
          /\ \A k \in published[StreamOf[t]] :
               IdLeq(k, offset[t]) =>
                 \/ k \in Settled(StreamOf[t])
                 \/ \E j \in 1..Len(out[t]) : out[t][j] = k
          /\ \A i \in 1..Len(out[t]) :
               /\ IdLeq(out[t][i], lastId[StreamOf[t]])
               /\ \A k \in published[StreamOf[t]] :
                    IdLeq(k, out[t][i]) =>
                      \/ k \in Settled(StreamOf[t])
                      \/ \E j \in 1..i : out[t][j] = k
      BY <1>4, Zenon DEF OutInv
    <3> QED BY ONLY <2>4, <3>1, <3>2
  <2>3. CASE t = s
    <3> DEFINE n == Len(out[s])
               o == out'[s]
    <3>1. /\ n \in Nat /\ Len(o) = n + 1 /\ o[n + 1] = m
          /\ \A j \in 1..n : o[j] = out[s][j]
      BY <1>6, <1>9
    <3>2. \A k \in published[st] :
            IdLeq(k, m) => k \in Settled(st) \/ \E j \in 1..(n + 1) : o[j] = k
      BY <1>10, <3>1
    <3>3. ASSUME NEW i \in 1..n
          PROVE  /\ IdLeq(o[i], lastId[st])
                 /\ \A k \in published[st] :
                      IdLeq(k, o[i]) =>
                        k \in Settled(st) \/ \E j \in 1..i : o[j] = k
      <4>1. /\ IdLeq(out[s][i], lastId[st])
            /\ \A k \in published[st] :
                 IdLeq(k, out[s][i]) =>
                   k \in Settled(st) \/ \E j \in 1..i : out[s][j] = k
        BY <1>4 DEF OutInv
      <4>2. \A j \in 1..i : j \in 1..n
        BY <3>1
      <4> HIDE DEF n, o
      <4> QED BY <3>1, <4>1, <4>2
    <3>4. \A i \in 1..Len(o) : i \in 1..n \/ i = n + 1
      BY <3>1
    <3> HIDE DEF o, n
    <3>5. \A i \in 1..Len(o) :
            /\ IdLeq(o[i], lastId[st])
            /\ \A k \in published[st] :
                 IdLeq(k, o[i]) =>
                   k \in Settled(st) \/ \E j \in 1..i : o[j] = k
      BY <1>7, <3>1, <3>2, <3>3, <3>4
    <3>6. \A k \in published[st] :
            IdLeq(k, m) =>
              k \in Settled(st) \/ \E j \in 1..Len(o) : o[j] = k
      BY <3>1, <3>2
    <3>7. offset'[t] = m /\ out'[t] = o /\ StreamOf[t] = st
      BY <1>9, <2>3 DEF o
    <3> HIDE DEF st
    <3> QED BY ONLY <1>7, <2>4, <3>5, <3>6, <3>7, SMTT(20)
  <2> QED BY <2>2, <2>3
<1>12. ControlInv'
  BY <1>3, <1>4, ControlInvKept
<1>13. GatherInv'
  BY <1>3, <1>4, <1>5 DEF GatherInv
<1>14. Contiguous(s, todo[s] \ {m})'
  <2> SUFFICES ASSUME NEW b \in (todo[s] \ {m})
               PROVE  /\ b \in published[st]
                      /\ IdLess(m, b)
                      /\ \A k \in published[st] :
                           IdLess(m, k) /\ IdLeq(k, b) =>
                             k \in (todo[s] \ {m}) \cup Settled(st)
    BY <1>3, <1>9 DEF Contiguous, Settled
  <2>1. /\ b \in published[st]
        /\ \A k \in published[st] :
             IdLess(offset[s], k) /\ IdLeq(k, b) => k \in todo[s] \cup Settled(st)
    BY <1>4, Zenon DEF BatchInv, Contiguous
  <2>2. IdLess(m, b)
    BY <1>2, <1>6, IdOrder, Zenon DEF IdLeq
  <2>3. \A k \in published[st] :
          IdLess(m, k) => IdLess(offset[s], k) /\ k # m
    BY <1>6, <1>7, IdOrder
  <2> QED BY <2>1, <2>2, <2>3
<1>15. BatchInv'
  <2>1. \A t \in Subs : t # s => \A S : Contiguous(t, S) => Contiguous(t, S)'
    BY <1>1, <1>9, ContiguousKept
  <2>2. Contiguous(s, todo[s])'
    BY <1>9, <1>14 DEF Contiguous
  <2>3. \A t \in Subs : t # s => Contiguous(t, todo[t])'
    BY <1>4, <1>9, <2>1 DEF BatchInv
  <2> QED BY <1>3, <1>4, <1>9, <2>1, <2>2, <2>3, Zenon DEF BatchInv
<1> QED BY <1>1, <1>11, <1>12, <1>13, <1>15 DEF Inv

\* When a consumer takes the head of messagesOut everything up to it is
\* settled, so that it may be acked.
LEMMA MessagesInv ==
  ASSUME Inv, TypeOK', NEW s \in Subs, Messages(s)
  PROVE  Inv'
<1> USE Placement
<1> DEFINE st == StreamOf[s]
           m == Head(out[s])
<1>1. /\ out[s] # <<>>
      /\ unacked' = [unacked EXCEPT ![s] = @ \cup {m}]
      /\ delivered' = [delivered EXCEPT ![st] = @ \cup {m}]
      /\ out' = [out EXCEPT ![s] = Tail(@)]
      /\ UNCHANGED <<redis, published, capped, pc, offset, todo, reader, acker,
                     trimmer>>
  BY DEF Messages
<1>2. /\ TypeOK /\ StreamInv /\ OffsetInv /\ AckInv /\ OutInv /\ ControlInv
      /\ GatherInv /\ BatchInv /\ st \in Streams
  BY DEF Inv
<1>3. delivered'[st] = delivered[st] \cup {m}
  BY <1>1, <1>2, ZenonT(30) DEF TypeOK
<1>4. Grows
  BY <1>1, <1>2 DEF Grows, TypeOK
<1>5. StreamInv' /\ OffsetInv' /\ ControlInv' /\ GatherInv' /\ BatchInv'
  BY <1>1, <1>2, <1>4, StreamInvKept, OffsetInvKept, ControlInvKept,
     GatherInvKept, BatchInvKept, ZenonT(30)
<1>6. /\ out[s] \in Seq(Id) /\ Len(out[s]) \in Nat /\ Len(out[s]) >= 1
      /\ m = out[s][1]
      /\ out'[s] = Tail(out[s])
  BY <1>1, <1>2 DEF TypeOK
<1>7. ASSUME NEW x, x = m
      PROVE  Passed(st, x)'
  <2>1. /\ IdLeq(m, lastId[st])
        /\ \A k \in published[st] :
             IdLeq(k, m) => k \in Settled(st) \/ \E j \in 1..1 : out[s][j] = k
    BY <1>2, <1>6 DEF OutInv
  <2>2. \A j \in 1..1 : out[s][j] = m
    BY <1>6
  <2>3. Settled(st)' = Settled(st) \cup {m}
    BY <1>1, <1>3 DEF Settled
  <2>4. UNCHANGED <<lastId, published>>
    BY <1>1
  <2> HIDE DEF m
  <2>5. /\ IdLeq(x, lastId'[st])
        /\ \A k \in published'[st] : IdLeq(k, x) => k \in Settled(st)'
    BY <1>7, <2>1, <2>2, <2>3, <2>4
  <2> QED BY <2>5 DEF Passed
<1>8. AckInv'
  <2>1. \A t \in Subs : \A x \in unacked[t] : Passed(StreamOf[t], x)'
    BY <1>2, <1>4, PassedKept, ZenonT(30) DEF AckInv
  <2>2. \A t \in Subs : \A x \in unacked'[t] :
          x \in unacked[t] \/ (t = s /\ x = m)
    BY <1>1, <1>2 DEF TypeOK
  <2>3. ASSUME NEW i \in 1..Len(acks), NEW a, a = acks[i]
        PROVE  Passed(StreamOf[a.sub], a.off)'
    <3>1. a \in Ack
      BY <1>2, <2>3, SeqElement DEF TypeOK
    <3>2. Passed(StreamOf[a.sub], a.off)
      BY <1>2, <2>3, Zenon DEF AckInv
    <3> QED BY <1>4, <3>1, <3>2, PassedKept, ZenonT(30) DEF Ack
  <2>4. \A a \in ackBatch : Passed(StreamOf[a.sub], a.off)'
    BY <1>2, <1>4, PassedKept, Zenon DEF AckInv, TypeOK, Ack
  <2>5. \A t \in Subs : \A x \in unacked'[t] : Passed(StreamOf[t], x)'
    BY <1>7, <2>1, <2>2
  <2> QED BY <1>1, <2>3, <2>4, <2>5, Zenon DEF AckInv
<1>9. OutInv'
  <2>1. \A t \in Subs : Settled(StreamOf[t]) \subseteq Settled(StreamOf[t])'
    BY <1>4 DEF Grows, Settled
  <2>2. m \in Settled(st)'
    BY <1>3 DEF Settled
  <2>5. UNCHANGED <<lastId, published, offset>>
    BY <1>1
  <2> SUFFICES ASSUME NEW t \in Subs
               PROVE  /\ IdLeq(offset[t], lastId[StreamOf[t]])
                      /\ \A k \in published[StreamOf[t]] :
                           IdLeq(k, offset[t]) =>
                             \/ k \in Settled(StreamOf[t])'
                             \/ \E j \in 1..Len(out'[t]) : out'[t][j] = k
                      /\ \A i \in 1..Len(out'[t]) :
                           /\ IdLeq(out'[t][i], lastId[StreamOf[t]])
                           /\ \A k \in published[StreamOf[t]] :
                                IdLeq(k, out'[t][i]) =>
                                  \/ k \in Settled(StreamOf[t])'
                                  \/ \E j \in 1..i : out'[t][j] = k
    BY <2>5, Zenon DEF OutInv
  <2>3. CASE t # s
    <3>1. out'[t] = out[t]
      BY <1>1, <1>2, <2>3, Zenon DEF TypeOK
    <3>2. Settled(StreamOf[t]) \subseteq Settled(StreamOf[t])'
      BY <2>1
    <3>3. /\ IdLeq(offset[t], lastId[StreamOf[t]])
          /\ \A k \in published[StreamOf[t]] :
               IdLeq(k, offset[t]) =>
                 \/ k \in Settled(StreamOf[t])
                 \/ \E j \in 1..Len(out[t]) : out[t][j] = k
      BY <1>2, Zenon DEF OutInv
    <3>4. \A i \in 1..Len(out[t]) :
            /\ IdLeq(out[t][i], lastId[StreamOf[t]])
            /\ \A k \in published[StreamOf[t]] :
                 IdLeq(k, out[t][i]) =>
                   \/ k \in Settled(StreamOf[t])
                   \/ \E j \in 1..i : out[t][j] = k
      BY <1>2, Zenon DEF OutInv
    <3>5. \A k \in published[StreamOf[t]] :
            IdLeq(k, offset[t]) =>
              \/ k \in Settled(StreamOf[t])'
              \/ \E j \in 1..Len(out[t]) : out[t][j] = k
      BY ONLY <3>2, <3>3, Zenon
    <3>6. \A i \in 1..Len(out[t]) :
            /\ IdLeq(out[t][i], lastId[StreamOf[t]])
            /\ \A k \in published[StreamOf[t]] :
                 IdLeq(k, out[t][i]) =>
                   \/ k \in Settled(StreamOf[t])'
                   \/ \E j \in 1..i : out[t][j] = k
      BY ONLY <3>2, <3>4, ZenonT(30)
    <3> QED BY ONLY <3>1, <3>3, <3>5, <3>6
  <2>4. CASE t = s
    <3> DEFINE q == out[s]
               r == out'[s]
    <3>1. /\ Len(r) = Len(q) - 1 /\ Len(q) \in Nat /\ Len(q) >= 1 /\ q[1] = m
          /\ \A i \in 1..Len(r) : r[i] = q[i + 1]
      BY <1>6
    <3>2. ASSUME NEW i \in 1..Len(q), NEW k, k \notin Settled(st)',
                 \E j \in 1..i : q[j] = k
          PROVE  \E j \in 1..(i - 1) : r[j] = k
      <4>1. PICK j \in 1..i : q[j] = k
        BY <3>2
      <4>2. j # 1
        BY <2>2, <3>1, <3>2, <4>1, SMTT(20)
      <4>3. j - 1 \in 1..(i - 1) /\ j - 1 \in 1..Len(r)
        BY <3>1, <4>2
      <4>4. r[j - 1] = k
        BY <3>1, <4>1, <4>3, SMTT(20)
      <4> QED BY <4>3, <4>4
    <3>3. /\ IdLeq(offset[s], lastId[st])
          /\ \A k \in published[st] :
               IdLeq(k, offset[s]) =>
                 k \in Settled(st) \/ \E j \in 1..Len(q) : q[j] = k
      BY <1>2, SMTT(20) DEF OutInv
    <3>4. \A i \in 1..Len(q) :
            /\ IdLeq(q[i], lastId[st])
            /\ \A k \in published[st] :
                 IdLeq(k, q[i]) =>
                   k \in Settled(st) \/ \E j \in 1..i : q[j] = k
      BY <1>2 DEF OutInv
    <3>5. Settled(st) \subseteq Settled(st)'
      BY <2>1
    <3>6. StreamOf[t] = st /\ out'[t] = r /\ offset[t] = offset[s]
      BY <2>4, SMTT(20)
    <3> HIDE DEF q, r, st, m
    <3>7. \A k \in published[st] :
            IdLeq(k, offset[s]) =>
              k \in Settled(st)' \/ \E j \in 1..Len(r) : r[j] = k
      <4>1. Len(q) \in 1..Len(q) /\ Len(q) - 1 = Len(r)
        BY <3>1
      <4> QED BY <3>2, <3>3, <3>5, <4>1
    <3>8. ASSUME NEW i \in 1..Len(r)
          PROVE  /\ IdLeq(r[i], lastId[st])
                 /\ \A k \in published[st] :
                      IdLeq(k, r[i]) =>
                        k \in Settled(st)' \/ \E j \in 1..i : r[j] = k
      <4>1. i + 1 \in 1..Len(q) /\ r[i] = q[i + 1] /\ (i + 1) - 1 = i
        BY <3>1, SMTT(20)
      <4>2. /\ IdLeq(r[i], lastId[st])
            /\ \A k \in published[st] :
                 IdLeq(k, r[i]) =>
                   k \in Settled(st) \/ \E j \in 1..(i + 1) : q[j] = k
        BY ONLY <3>4, <4>1
      <4>3. ASSUME NEW k, k \notin Settled(st)', \E j \in 1..(i + 1) : q[j] = k
            PROVE  \E j \in 1..i : r[j] = k
        <5>1. \E j \in 1..((i + 1) - 1) : r[j] = k
          BY <3>2, <4>1, <4>3, Zenon
        <5> QED BY ONLY <4>1, <5>1
      <4> QED BY ONLY <3>5, <4>2, <4>3, ZenonT(30)
    <3> QED BY ONLY <3>3, <3>6, <3>7, <3>8, SMTT(20)
  <2> QED BY <2>3, <2>4, Zenon
<1> QED BY <1>5, <1>8, <1>9 DEF Inv

-----------------------------------------------------------------------------
\* What consumers ack is passed when they ack it, and stays passed until its
\* offset is recorded.
LEMMA AckingInv ==
  ASSUME Inv, TypeOK',
         \/ \E s \in Subs : \E m \in unacked[s] : ack(s, m)
         \/ CoalesceAck
         \/ EndCoalesce
         \/ \E done \in SUBSET AckedStreams, err \in BOOLEAN :
              ExecAcks(done, err)
  PROVE  Inv'
<1> USE Placement
<1>1. /\ UNCHANGED <<log, lastId, history, pc, offset, todo, out, reader,
                     trimmer>>
      /\ TypeOK /\ OffsetInv /\ AckInv
  BY Zenon DEF ack, CoalesceAck, EndCoalesce, ExecAcks, Inv
<1>2. Grows
  BY <1>1, Zenon DEF Grows
<1>3. StreamInv' /\ OutInv' /\ ControlInv' /\ GatherInv' /\ BatchInv'
  BY <1>1, <1>2, StreamInvKept, ReaderKept DEF Inv
<1>4. \A st \in Streams : \A o : Passed(st, o)' <=> Passed(st, o)
  BY <1>1, ZenonT(30) DEF Passed, Settled
<1>5. \A i \in 1..Len(acks) :
        acks[i] \in Ack /\ Passed(StreamOf[acks[i].sub], acks[i].off)
  BY <1>1, SeqElement DEF TypeOK, AckInv
<1>6. ASSUME NEW s \in Subs, NEW m \in unacked[s], ack(s, m) PROVE Inv'
  <2> DEFINE new == [sub |-> s, off |-> m]
  <2>1. /\ unacked' = [unacked EXCEPT ![s] = @ \ {m}]
        /\ acks' = Append(acks, new)
        /\ UNCHANGED <<stored, highest, ackBatch>>
    BY <1>6, Zenon DEF ack
  <2>2. acks \in Seq(Ack) /\ new \in Ack
    BY <1>1 DEF TypeOK, Ack
  <2>3. Passed(StreamOf[new.sub], new.off)
    BY <1>1, ZenonT(30) DEF AckInv
  <2> HIDE DEF new
  <2>4. ASSUME NEW i \in 1..Len(acks')
        PROVE  acks'[i] = new \/ (i \in 1..Len(acks) /\ acks'[i] = acks[i])
    <3>1. i \in 1..Len(Append(acks, new))
      BY <2>1, <2>4
    <3>2. \/ Append(acks, new)[i] = new
          \/ i \in 1..Len(acks) /\ Append(acks, new)[i] = acks[i]
      BY ONLY <2>2, <3>1, AppendElement
    <3> QED BY ONLY <2>1, <3>2
  <2>5. ASSUME NEW i \in 1..Len(acks'), NEW a, a = acks'[i]
        PROVE  Passed(StreamOf[a.sub], a.off)'
    <3>1. a \in Ack /\ Passed(StreamOf[a.sub], a.off)
      BY <1>5, <2>2, <2>3, <2>4, <2>5, ZenonT(30)
    <3> QED BY <1>4, <3>1, Zenon DEF Ack
  <2>6. \A t \in Subs : \A k \in unacked'[t] : k \in unacked[t]
    BY <1>1, <2>1 DEF TypeOK
  <2>7. \A t \in Subs : \A k \in unacked'[t] : Passed(StreamOf[t], k)'
    BY <1>1, <1>4, <2>6, Zenon DEF AckInv
  <2>8. \A a \in ackBatch' : Passed(StreamOf[a.sub], a.off)'
    BY <1>1, <1>4, <2>1, Zenon DEF AckInv, TypeOK, Ack
  <2>9. AckInv'
    BY <2>5, <2>7, <2>8, Zenon DEF AckInv
  <2>10. OffsetInv'
    BY <1>1, <1>2, <2>1, OffsetInvKept
  <2> QED BY <1>3, <2>9, <2>10, Zenon DEF Inv
<1>7. CASE CoalesceAck
  <2> DEFINE h == acks[1]
             st == StreamOf[h.sub]
  <2>1. /\ acks # <<>> /\ acks \in Seq(Ack)
        /\ acks' = Tail(acks)
        /\ ackBatch' = ackBatch \cup {h}
        /\ highest' = [highest EXCEPT ![st] = HighestOffset(@, h.off)]
        /\ UNCHANGED <<stored, unacked>>
    <3>1. acks # <<>> /\ acks \in Seq(Ack)
      BY <1>1, <1>7, Zenon DEF CoalesceAck, TypeOK
    <3>2. Head(acks) = h
      BY <3>1
    <3> QED BY <1>7, <3>1, <3>2, Zenon DEF CoalesceAck
  <2>2. 1 \in 1..Len(acks)
    BY <2>1
  <2>3. h \in Ack /\ Passed(st, h.off)
    BY <1>5, <2>2
  <2>4. st \in Streams /\ h.off \in Id
    BY <2>3 DEF Ack
  <2>5. ASSUME NEW i \in 1..Len(acks')
        PROVE  i + 1 \in 1..Len(acks) /\ acks'[i] = acks[i + 1]
    <3>1. acks \in Seq(Ack) /\ acks # <<>> /\ acks' = Tail(acks)
      BY <2>1
    <3>2. Len(acks) \in Nat /\ Len(acks') = Len(acks) - 1
      BY ONLY <3>1
    <3>3. i + 1 \in 1..Len(acks)
      BY ONLY <3>2, i \in 1..Len(acks')
    <3> QED BY ONLY <3>1, <3>2, <3>3, i \in 1..Len(acks')
  <2> HIDE DEF h, st
  <2>6. ASSUME NEW i \in 1..Len(acks'), NEW a, a = acks'[i]
        PROVE  Passed(StreamOf[a.sub], a.off)'
    <3>1. a \in Ack /\ Passed(StreamOf[a.sub], a.off)
      BY <1>5, <2>5, <2>6
    <3> QED BY <1>4, <3>1, Zenon DEF Ack
  <2>7. \A t \in Subs : \A k \in unacked'[t] : Passed(StreamOf[t], k)'
    BY <1>1, <1>4, <2>1, Zenon DEF AckInv
  <2>8. \A a \in ackBatch' : Passed(StreamOf[a.sub], a.off)'
    <3>1. \A a \in ackBatch : a \in Ack /\ Passed(StreamOf[a.sub], a.off)
      BY <1>1, ZenonT(30) DEF AckInv, TypeOK
    <3>2. \A a \in ackBatch' : a \in Ack /\ Passed(StreamOf[a.sub], a.off)
      BY <2>1, <2>3, <3>1 DEF st
    <3> QED BY <1>4, <3>2 DEF Ack
  <2>9. AckInv'
    BY <2>6, <2>7, <2>8, Zenon DEF AckInv
  <2>10. \A t \in Streams :
           highest'[t] # NoOffset => Passed(t, highest'[t])
    <3>1. highest'[st] \in {highest[st], h.off}
      BY <1>1, <2>1, <2>4, Zenon DEF HighestOffset, TypeOK
    <3>2. \A t \in Streams : t # st => highest'[t] = highest[t]
      BY <1>1, <2>1, Zenon DEF TypeOK
    <3> QED BY <1>1, <2>3, <2>4, <3>1, <3>2, Zenon DEF OffsetInv
  <2>11. OffsetInv'
    BY <1>1, <1>4, <2>1, <2>10, Zenon DEF OffsetInv
  <2> QED BY <1>3, <2>9, <2>11 DEF Inv
<1>8. CASE EndCoalesce
  BY <1>1, <1>2, <1>3, <1>8, OffsetInvKept, AckInvKept, ZenonT(30) DEF EndCoalesce, Inv
<1>9. ASSUME NEW done \in SUBSET AckedStreams, NEW err \in BOOLEAN,
             ExecAcks(done, err)
      PROVE  Inv'
  <2>1. /\ stored' = [st \in Streams |->
             IF st \in done THEN ackScript(stored[st], highest[st])
                            ELSE stored[st]]
        /\ unacked' = IF ~err THEN unacked
                      ELSE [s \in Subs |-> unacked[s] \cup
                              {a.off : a \in {b \in ackBatch : b.sub = s}}]
        /\ ackBatch' = {}
        /\ highest' = [st \in Streams |-> NoOffset]
        /\ UNCHANGED acks
    BY <1>9, Zenon DEF ExecAcks
  <2>2. ASSUME NEW st \in Streams, stored'[st] # NoOffset
        PROVE  Passed(st, stored'[st])
    <3>1. stored'[st] = stored[st] \/
            (st \in done /\ stored'[st] = highest[st])
      BY <2>1, Zenon DEF ackScript
    <3>2. st \in done => highest[st] # NoOffset
      BY DEF AckedStreams
    <3> QED BY <1>1, <2>2, <3>1, <3>2, Zenon DEF OffsetInv
  <2>3. OffsetInv'
    BY <1>1, <1>4, <2>1, <2>2, ZenonT(30) DEF OffsetInv
  <2>4. \A t \in Subs : \A k \in unacked'[t] : Passed(StreamOf[t], k)
    <3>1. CASE ~err
      BY <1>1, <2>1, <3>1, Zenon DEF AckInv
    <3>2. CASE err
      <4>1. \A t \in Subs : \A k \in unacked'[t] :
              k \in unacked[t] \/ \E a \in ackBatch : a.sub = t /\ a.off = k
        BY <2>1, <3>2
      <4>2. /\ \A t \in Subs : \A k \in unacked[t] : Passed(StreamOf[t], k)
            /\ \A a \in ackBatch : Passed(StreamOf[a.sub], a.off)
        BY <1>1, Zenon DEF AckInv
      <4> QED BY ONLY <4>1, <4>2
    <3> QED BY <3>1, <3>2
  <2>5. \A t \in Subs : \A k \in unacked'[t] : Passed(StreamOf[t], k)'
    BY <1>4, <2>4, Zenon
  <2>6. ASSUME NEW i \in 1..Len(acks), NEW a, a = acks[i]
        PROVE  Passed(StreamOf[a.sub], a.off)'
    <3>1. a \in Ack /\ Passed(StreamOf[a.sub], a.off)
      BY <1>5, <2>6
    <3> QED BY <1>4, <3>1, Zenon DEF Ack
  <2>7. AckInv'
    BY <2>1, <2>5, <2>6, Zenon DEF AckInv
  <2> QED BY <1>3, <2>3, <2>7 DEF Inv
<1> QED BY <1>6, <1>7, <1>8, <1>9

\* TrimStreams removes passed messages, or caps.
LEMMA TrimmingInv ==
  ASSUME Inv, TypeOK',
         \/ TrimStreams
         \/ TrimMGetError
         \/ \E st \in Streams : TrimMinId(st) \/ TrimMaxLen(st)
  PROVE  Inv'
<1> USE Placement
<1>1. /\ UNCHANGED <<lastId, stored, published, delivered, pc, offset, todo,
                     out, unacked, reader, acker>>
      /\ TypeOK /\ OffsetInv /\ StreamInv
  BY Zenon DEF TrimStreams, TrimMGetError, TrimMinId, TrimMaxLen, Inv
<1>2. \A st \in Streams : capped[st] \subseteq capped'[st]
  <2>1. \/ capped' = capped
        \/ \E st \in Streams :
             capped' = [capped EXCEPT ![st] = @ \cup (log[st] \ log'[st])]
    BY Zenon DEF TrimStreams, TrimMGetError, TrimMinId, TrimMaxLen
  <2>2. capped \in [Streams -> SUBSET Id]
    BY <1>1 DEF TypeOK
  <2> QED BY <2>1, <2>2
<1>3. Grows
  BY <1>1, <1>2, Zenon DEF Grows
<1>4. AckInv' /\ OutInv' /\ ControlInv' /\ GatherInv' /\ BatchInv'
  BY <1>1, <1>3, AckInvKept, ReaderKept DEF Inv
<1>5. CASE TrimStreams
  <2>1. StreamInv'
    BY <1>1, <1>3, <1>5, StreamInvKept, Zenon DEF TrimStreams
  <2>2. /\ trimOffsets' = stored
        /\ trimPc' = "minid" => trimLeft' = {st \in Streams : stored[st] # NoOffset}
    BY <1>5 DEF TrimStreams
  <2>3. \A st \in Streams : \A o : Passed(st, o) => Passed(st, o)'
    BY <1>3, PassedKept
  <2>4. OffsetInv'
    BY <1>1, <2>2, <2>3, Zenon DEF OffsetInv
  <2> QED BY <1>4, <2>1, <2>4, Zenon DEF Inv
<1>6. CASE TrimMGetError
  <2>1. StreamInv'
    BY <1>1, <1>3, <1>6, StreamInvKept, Zenon DEF TrimMGetError
  <2>2. trimPc' = "panicked" /\ trimOffsets' = trimOffsets
    BY <1>6 DEF TrimMGetError
  <2>3. OffsetInv'
    BY <1>1, <1>3, <2>2, PassedKept, Zenon DEF OffsetInv
  <2> QED BY <1>4, <2>1, <2>3 DEF Inv
<1>7. ASSUME NEW st \in Streams, TrimMinId(st) PROVE Inv'
  <2>1. /\ trimOffsets[st] # NoOffset
        /\ trimOffsets[st] \in Id
        /\ Passed(st, trimOffsets[st])
    <3>1. trimPc = "minid" /\ st \in trimLeft
      BY <1>7 DEF TrimMinId
    <3>2. trimOffsets[st] # NoOffset /\ Passed(st, trimOffsets[st])
      BY <1>1, <3>1, Zenon DEF OffsetInv
    <3>3. trimOffsets \in [Streams -> Id \cup {NoOffset}]
      BY <1>1, Zenon DEF TypeOK
    <3> QED BY <3>2, <3>3
  <2> DEFINE T == {m \in log[st] : ~IdLess(m, idPlusOne(trimOffsets[st]))}
  <2>2. log' = [log EXCEPT ![st] = T] \/ log' = log
    BY <1>7, Zenon DEF TrimMinId
  <2>3. log[st] \ T \subseteq Settled(st)
    <3> SUFFICES ASSUME NEW m \in log[st], m \notin T PROVE m \in Settled(st)
      OBVIOUS
    <3>1. m \in Id /\ m \in published[st]
      BY <1>1, Zenon DEF TypeOK, StreamInv
    <3>2. IdLess(m, idPlusOne(trimOffsets[st]))
      OBVIOUS
    <3>3. IdLeq(m, trimOffsets[st])
      BY <2>1, <3>1, <3>2, TrimmedNotAbove, Zenon
    <3> QED BY <2>1, <3>1, <3>3, ZenonT(30) DEF Passed
  <2>4. T \subseteq log[st]
    OBVIOUS
  <2> HIDE DEF T
  <2>5. UNCHANGED <<history, lastId>>
    BY <1>7 DEF TrimMinId
  <2>6. \A t \in Streams : Settled(t)' = Settled(t)
    BY <2>5, Zenon DEF Settled
  <2>7. ASSUME NEW t \in Streams
        PROVE  log'[t] \subseteq log[t] /\ log[t] \ log'[t] \subseteq Settled(t)
    <3>1. log \in [Streams -> SUBSET Id]
      BY <1>1 DEF TypeOK
    <3>2. log'[t] = log[t] \/ (t = st /\ log'[t] = T)
      BY <2>2, <3>1
    <3> QED BY <2>3, <2>4, <3>2, ZenonT(30)
  <2>8. StreamInv'
    BY <1>1, <2>5, <2>6, <2>7, Zenon DEF StreamInv
  <2>9. /\ trimOffsets' = [trimOffsets EXCEPT ![st] = NoOffset]
        /\ trimPc' = "minid" => trimPc = "minid" /\ trimLeft' = trimLeft \ {st}
    BY <1>7 DEF TrimMinId
  <2>10. \A t \in Streams : t # st => trimOffsets'[t] = trimOffsets[t]
    BY <1>1, <2>9, ZenonT(30) DEF TypeOK
  <2>11. trimOffsets'[st] = NoOffset
    BY <1>1, <2>9 DEF TypeOK
  <2>12. \A t \in Streams : \A o : Passed(t, o) => Passed(t, o)'
    BY <1>3, PassedKept
  <2>13. OffsetInv'
    BY <1>1, <2>9, <2>10, <2>11, <2>12, ZenonT(30) DEF OffsetInv
  <2> QED BY <1>4, <2>8, <2>13 DEF Inv
<1>8. ASSUME NEW st \in Streams, TrimMaxLen(st) PROVE Inv'
  <2>1. /\ log' = [log EXCEPT ![st] = Newest(@, MaxLen)]
        /\ capped' = [capped EXCEPT ![st] = @ \cup (log[st] \ log'[st])]
        \/ UNCHANGED <<log, capped>>
    BY <1>8 DEF TrimMaxLen
  <2>2. Newest(log[st], MaxLen) \subseteq log[st]
    BY DEF Newest
  <2>3. ASSUME NEW t \in Streams
        PROVE  log'[t] \subseteq log[t] /\ log[t] \ log'[t] \subseteq capped'[t]
    <3>1. log \in [Streams -> SUBSET Id] /\ capped \in [Streams -> SUBSET Id]
      BY <1>1 DEF TypeOK
    <3>2. \/ log'[t] = log[t]
          \/ /\ t = st
             /\ log'[t] = Newest(log[t], MaxLen)
             /\ capped'[t] = capped[t] \cup (log[t] \ log'[t])
      BY <2>1, <3>1
    <3> QED BY <2>2, <3>2, ZenonT(30)
  <2>4. \A t \in Streams : Settled(t) \subseteq Settled(t)' /\ capped'[t] \subseteq Settled(t)'
    BY <1>1, <1>2, Zenon DEF Settled
  <2>5. StreamInv'
    BY <1>1, <2>3, <2>4, Zenon DEF StreamInv
  <2>6. trimPc' # "minid" /\ trimOffsets' = trimOffsets
    BY <1>8 DEF TrimMaxLen
  <2>7. \A t \in Streams : \A o : Passed(t, o) => Passed(t, o)'
    BY <1>3, PassedKept
  <2>8. OffsetInv'
    BY <1>1, <2>6, <2>7, Zenon DEF OffsetInv
  <2> QED BY <1>4, <2>5, <2>8 DEF Inv
<1> QED BY <1>5, <1>6, <1>7, <1>8

\* A restart begins with no subscriber; Redis is as it was.
LEMMA CrashInv ==
  ASSUME Inv, TypeOK', Crash
  PROVE  Inv'
<1> USE Placement
<1>1. /\ UNCHANGED <<redis, history, trimmer>>
      /\ TypeOK /\ OffsetInv /\ StreamInv
  BY DEF Crash, Inv
<1>2. Grows
  BY <1>1 DEF Grows
<1>3. StreamInv'
  BY <1>1, <1>2, StreamInvKept, ZenonT(30)
<1>4. OffsetInv'
  <2>1. \A st \in Streams : highest'[st] = NoOffset
    BY DEF Crash
  <2> QED BY <1>1, <1>2, <2>1, PassedKept DEF OffsetInv
<1>5. AckInv'
  <2>1. /\ unacked' = [s \in Subs |-> {}]
        /\ acks' = <<>>
        /\ ackBatch' = {}
    BY SMTT(20) DEF Crash
  <2> QED BY <2>1 DEF AckInv
<1>6. OutInv'
  <2>1. \A s \in Subs : offset'[s] = minOffset /\ out'[s] = <<>>
    BY ZenonT(30) DEF Crash
  <2>2. \A s \in Subs :
          /\ IdLeq(minOffset, lastId'[StreamOf[s]])
          /\ \A k \in published'[StreamOf[s]] : ~IdLeq(k, minOffset)
    BY <1>1, MinOffsetLowest DEF StreamInv, TypeOK
  <2> QED BY <2>1, <2>2 DEF OutInv
<1>7. ControlInv' /\ GatherInv' /\ BatchInv'
  BY Zenon DEF Crash, ControlInv, GatherInv, BatchInv, Contiguous, Registered
<1> QED BY <1>3, <1>4, <1>5, <1>6, <1>7 DEF Inv

\* The invariant holds to begin with.
LEMMA InvInit == Init => Inv
<1> SUFFICES ASSUME Init PROVE Inv
  OBVIOUS
<1> USE ConstantsAssumption
<1>1. TypeOK
  BY TypeInit
<1>2. StreamInv
  BY DEF Init, StreamInv, Settled
<1>3. \A st \in Streams : FirstOffset # NoOffset => Passed(st, FirstOffset)
  <2> SUFFICES ASSUME NEW st \in Streams, FirstOffset # NoOffset
               PROVE  Passed(st, FirstOffset)
    OBVIOUS
  <2>1. \A k \in Backlog : ~IdLeq(k, FirstOffset)
    BY IdOrder DEF IdLeq
  <2> QED BY <2>1 DEF Init, Passed
<1>4. OffsetInv
  BY <1>3 DEF Init, OffsetInv
<1>5. AckInv
  <2>1. /\ unacked = [s \in Subs |-> {}]
        /\ acks = <<>>
        /\ ackBatch = {}
    BY Zenon DEF Init
  <2> QED BY <2>1 DEF AckInv
<1>6. OutInv
  <2>1. /\ IdLeq(minOffset, FirstId)
        /\ \A k \in Backlog : ~IdLeq(k, minOffset)
    BY MinOffsetLowest, ZenonT(30)
  <2> QED BY <2>1 DEF Init, OutInv
<1>7. ControlInv /\ GatherInv /\ BatchInv
  BY DEF Init, ControlInv, GatherInv, BatchInv, Contiguous, Registered
<1> QED BY <1>1, <1>2, <1>4, <1>5, <1>6, <1>7 DEF Inv

\* Every step keeps it.
LEMMA InvStep ==
  ASSUME OneSubscription, Inv, [Next]_vars
  PROVE  Inv'
<1>1. TypeOK'
  BY TypeStep, Zenon DEF Inv
<1>2. CASE UNCHANGED vars
  <2>1. Grows
    BY <1>2, Zenon DEF Grows
  <2> QED BY <1>1, <1>2, <2>1, ReadingKeeps, ReaderKept DEF Inv
<1>3. CASE Next
  BY <1>1, <1>3, PublishInv, NewSubscriberInv, MovelessInv, GatherOffsetInv,
     XReadInv, SendBatchInv, ProcessedInv, ProcessMessageInv, DeregisterInv,
     MessagesInv, AckingInv, TrimmingInv, CrashInv, ZenonT(30)
  DEF Next, Reader, Process, Consumer, processAcks, Trimmer
<1> QED BY <1>2, <1>3

\* What is out of reach of future subscriptions is settled.
LEMMA InvAtLeastOnce == Inv => AtLeastOnce
  BY Zenon DEF Inv, AtLeastOnce, OutOfReach, StreamInv, OffsetInv, Passed, Settled

\* Where the offsets of subscribers, the batches on their way, the acks in
\* flight and the offsets on record are relative to each other, in every
\* reachable state: what the code relies on from one goroutine to the next.
THEOREM InvariantHolds ==
  ASSUME OneSubscription
  PROVE  Spec => []Inv
<1>1. Init => Inv
  BY InvInit
<1>2. Inv /\ [Next]_vars => Inv'
  BY InvStep
<1> QED BY <1>1, <1>2, PTL DEF Spec

\* At least once delivery, for any number of streams, messages, crashes and
\* trims, any IDs, channel capacities and interleaving: when no stream is
\* subscribed to twice in the life of a process, a message gets out of reach
\* only once a consumer received it or the cap removed it.
THEOREM AtLeastOnceDelivery ==
  ASSUME OneSubscription
  PROVE  Spec => []AtLeastOnce
<1>1. Spec => []Inv
  BY InvariantHolds
<1>2. Inv => AtLeastOnce
  BY InvAtLeastOnce
<1> QED BY <1>1, <1>2, PTL

-----------------------------------------------------------------------------
(***************************************************************************)
(* What a consumer receives.                                               *)
(***************************************************************************)

\* Every step publishes, or leaves what is published and settled.
LEMMA GrowsOrPublishes ==
  ASSUME TypeOK, [Next]_vars
  PROVE  Grows \/ \E st \in Streams : Publish(st)
<1> USE Placement
<1>1. ASSUME UNCHANGED <<lastId, published, delivered, capped>> PROVE Grows
  BY <1>1, ZenonT(30) DEF Grows
<1>2. ASSUME NEW s \in Subs, Messages(s) PROVE Grows
  <2>1. /\ UNCHANGED <<lastId, published, capped>>
        /\ delivered' = [delivered EXCEPT ![StreamOf[s]] = @ \cup {Head(out[s])}]
    BY <1>2, Zenon DEF Messages
  <2>2. \A st \in Streams : delivered[st] \subseteq delivered'[st]
    BY <2>1, StreamTyped
  <2> QED BY <2>1, <2>2, Zenon DEF Grows
<1>3. ASSUME NEW st \in Streams, TrimMaxLen(st) PROVE Grows
  <2>1. /\ UNCHANGED <<lastId, published, delivered>>
        /\ \/ capped' = [capped EXCEPT ![st] = @ \cup (log[st] \ log'[st])]
           \/ capped' = capped
    BY <1>3, Zenon DEF TrimMaxLen
  <2>2. \A t \in Streams : capped[t] \subseteq capped'[t]
    BY <2>1, StreamTyped
  <2> QED BY <2>1, <2>2, Zenon DEF Grows
<1>4. CASE Reader
  BY <1>1, <1>4, Zenon
     DEF Reader, gatherStreamsWithOffsets, GatherOffset, XRead, XReadNothing,
         DispatchStream, SendToClosed, SendBatch, EndDispatch
<1>5. ASSUME NEW s \in Subs, Process(s) PROVE Grows
  BY <1>1, <1>5, Zenon
     DEF Process, ProcessMessage, processedLastBatch, ProcessClosed, Deregister
<1>6. ASSUME NEW s \in Subs, Consumer(s) PROVE Grows
  BY <1>1, <1>2, <1>6, Zenon DEF Consumer, NewSubscriber, newSubscriber, Close, ack
<1>7. CASE processAcks
  BY <1>1, <1>7, Zenon DEF processAcks, CoalesceAck, EndCoalesce, ExecAcks
<1>8. CASE Trimmer
  BY <1>1, <1>3, <1>8, Zenon DEF Trimmer, TrimStreams, TrimMGetError, TrimMinId
<1>9. CASE Crash
  BY <1>1, <1>9, Zenon DEF Crash
<1>10. CASE UNCHANGED vars
  BY <1>1, <1>10, Zenon
<1> QED BY <1>4, <1>5, <1>6, <1>7, <1>8, <1>9, <1>10, ZenonT(30) DEF Next

\* What is passed stays so: XADD appends above it.
LEMMA PassedStep ==
  ASSUME TypeOK, [Next]_vars, NEW st \in Streams, NEW o \in Id, Passed(st, o)
  PROVE  Passed(st, o)'
<1>1. CASE Grows
  BY <1>1, PassedKept
<1>2. ASSUME NEW t \in Streams, Publish(t) PROVE Passed(st, o)'
  <2>1. PICK m \in NextIds(lastId[t]) :
          /\ lastId' = [lastId EXCEPT ![t] = m]
          /\ published' = [published EXCEPT ![t] = @ \cup {m}]
    BY <1>2, Zenon DEF Publish
  <2>2. UNCHANGED <<delivered, capped>>
    BY <1>2, Zenon DEF Publish
  <2>3. lastId \in [Streams -> Id] /\ published \in [Streams -> SUBSET Id]
    BY StreamTyped
  <2>4. lastId[t] \in Id /\ m \in Id /\ IdLess(lastId[t], m)
    BY <2>3, NextIdAbove
  <2>5. IdLeq(o, lastId[st]) /\ \A k \in published[st] : IdLeq(k, o) => k \in Settled(st)
    BY DEF Passed
  <2>6. Settled(st)' = Settled(st)
    BY <2>2, ZenonT(30) DEF Settled
  <2>7. CASE st = t
    <3>1. lastId'[st] = m /\ published'[st] = published[st] \cup {m}
      BY ONLY <2>1, <2>3, <2>7, st \in Streams, SMTT(20)
    <3>2. IdLess(o, m)
      BY <2>4, <2>5, <2>7, IdOrder DEF IdLeq
    <3>3. ~IdLeq(m, o)
      BY <2>4, <3>2, IdOrder, SMTT(20) DEF IdLeq
    <3> QED BY <2>5, <2>6, <3>1, <3>2, <3>3 DEF Passed, IdLeq
  <2>8. CASE st # t
    <3>1. lastId'[st] = lastId[st] /\ published'[st] = published[st]
      BY ONLY <2>1, <2>3, <2>8, st \in Streams, t \in Streams
    <3> QED BY <2>5, <2>6, <3>1 DEF Passed
  <2> QED BY <2>7, <2>8
<1> QED BY <1>1, <1>2, GrowsOrPublishes

\* What a step does to the messages a consumer has received.
LEMMA GotStep ==
  ASSUME TypeOK, [Next]_vars, NEW t \in Subs
  PROVE  got'[t] = got[t] \/ got'[t] = <<>> \/ Messages(t)
<1>1. ASSUME got' = got PROVE got'[t] = got[t]
  BY <1>1
<1>2. ASSUME NEW s \in Subs, Deregister(s) PROVE got'[t] = got[t] \/ got'[t] = <<>>
  <2>1. got' = [got EXCEPT ![s] = <<>>]
    BY <1>2, Zenon DEF Deregister
  <2> QED BY <2>1, SubTyped
<1>3. ASSUME NEW s \in Subs, Messages(s) PROVE got'[t] = got[t] \/ Messages(t)
  <2>1. got' = [got EXCEPT ![s] = Append(@, Head(out[s]))]
    BY <1>3, Zenon DEF Messages
  <2>2. t # s => got'[t] = got[t]
    BY <2>1, SubTyped
  <2> QED BY <1>3, <2>2
<1>4. CASE Crash
  BY <1>4 DEF Crash
<1>5. CASE Reader \/ processAcks \/ Trimmer \/ \E st \in Streams : Publish(st)
  <2>1. got' = got
    BY <1>5, Zenon
       DEF Reader, gatherStreamsWithOffsets, GatherOffset, XRead, XReadNothing,
           DispatchStream, SendToClosed, SendBatch, EndDispatch, processAcks,
           CoalesceAck, EndCoalesce, ExecAcks, Trimmer, TrimStreams,
           TrimMGetError, TrimMinId, TrimMaxLen, Publish
  <2> QED BY <1>1, <2>1
<1>6. ASSUME NEW s \in Subs, Process(s) \/ Consumer(s)
      PROVE  got' = got \/ Deregister(s) \/ Messages(s)
  BY <1>6, ZenonT(30)
     DEF Process, ProcessMessage, processedLastBatch, ProcessClosed, Consumer,
         NewSubscriber, newSubscriber, Close, ack
<1>7. CASE UNCHANGED vars
  BY <1>1, <1>7
<1> QED BY <1>1, <1>2, <1>3, <1>4, <1>5, <1>6, <1>7, Zenon DEF Next

\* The empty sequence has no element.
LEMMA NoElement == ASSUME NEW i \in 1..Len(<<>>) PROVE FALSE
  OBVIOUS

\* Every step keeps NoGaps: the message a consumer takes from messagesOut is one
\* it may ack.
LEMMA NoGapsStep ==
  ASSUME Inv, Inv', NoGaps, [Next]_vars
  PROVE  NoGaps'
<1> USE Placement
<1>1. TypeOK /\ AckInv'
  BY Zenon DEF Inv
<1>2. ASSUME NEW t \in Subs, NEW i \in 1..Len(got'[t]), NEW o, o = got'[t][i]
      PROVE  Passed(StreamOf[t], o)'
  <2>1. got[t] \in Seq(Id) /\ out[t] \in Seq(Id)
    BY <1>1, SubTyped
  <2>2. ASSUME i \in 1..Len(got[t]), o = got[t][i] PROVE Passed(StreamOf[t], o)'
    <3>1. o \in Id
      BY <2>1, <2>2, SeqElement, Zenon
    <3>2. Passed(StreamOf[t], o)
      BY <2>2, Zenon DEF NoGaps
    <3> QED BY <1>1, <3>1, <3>2, PassedStep, Placement, Zenon
  <2>3. CASE Messages(t)
    <3>1. /\ got' = [got EXCEPT ![t] = Append(@, Head(out[t]))]
          /\ unacked' = [unacked EXCEPT ![t] = @ \cup {Head(out[t])}]
          /\ out[t] # <<>>
      BY <2>3, Zenon DEF Messages
    <3>2. got'[t] = Append(got[t], Head(out[t])) /\ Head(out[t]) \in unacked'[t]
      <4>1. got \in [Subs -> Seq(Id)] /\ unacked \in [Subs -> SUBSET Id]
        BY <1>1, SubTyped, Zenon
      <4> QED BY ONLY <3>1, <4>1, t \in Subs
    <3>3. Head(out[t]) \in Id
      <4>1. out[t] # <<>>
        BY <3>1, Zenon
      <4> QED BY ONLY <2>1, <4>1
    <3>4. o = Head(out[t]) \/ (i \in 1..Len(got[t]) /\ o = got[t][i])
      BY ONLY <1>2, <2>1, <3>2, <3>3, AppendElement
    <3>5. \A m \in unacked'[t] : Passed(StreamOf[t], m)'
      BY <1>1, Zenon DEF AckInv
    <3> QED BY <2>2, <3>2, <3>4, <3>5, Zenon
  <2>4. got'[t] = got[t] \/ got'[t] = <<>> \/ Messages(t)
    BY <1>1, GotStep, Zenon
  <2>5. CASE got'[t] = <<>>
    BY <1>2, <2>5, NoElement, Zenon
  <2> QED BY <1>2, <2>2, <2>3, <2>4, <2>5, Zenon
<1> QED BY <1>2, Zenon DEF NoGaps

\* A consumer never receives a message while one before it is missing, for any
\* IDs, crashes and trims, when no stream is subscribed to twice in the life of
\* a process.
THEOREM NoGapsInDelivery ==
  ASSUME OneSubscription
  PROVE  Spec => []NoGaps
<1>1. Spec => []Inv
  BY InvariantHolds
<1>2. Init => NoGaps
  BY DEF Init, NoGaps
<1>3. Inv /\ Inv' /\ NoGaps /\ [Next]_vars => NoGaps'
  BY NoGapsStep, Zenon
<1> QED BY <1>1, <1>2, <1>3, PTL DEF Spec

-----------------------------------------------------------------------------
(***************************************************************************)
(* Trimming, with any number of subscriptions.                             *)
(***************************************************************************)

\* The entries of st that are gone other than by the cap.
Gone(st) == published[st] \ (log[st] \cup capped[st])

\* A step that takes no other entries away keeps what is known of them.
LEMMA TrimmedKept ==
  ASSUME TrimmedWasReceived,
         \A st \in Streams : Gone(st)' \subseteq Gone(st) /\ delivered[st] \subseteq delivered'[st]
  PROVE  TrimmedWasReceived'
  BY Zenon DEF TrimmedWasReceived, Gone

\* A step that leaves the entries and the trimmer keeps TrimInv.
LEMMA TrimInvKept ==
  ASSUME TrimInv, Grows, UNCHANGED <<log, trimmer>>
  PROVE  TrimInv'
<1>1. \A st \in Streams : Gone(st)' \subseteq Gone(st) /\ delivered[st] \subseteq delivered'[st]
  BY DEF Grows, Gone
<1>2. TrimmedWasReceived'
  BY <1>1, TrimmedKept, Zenon DEF TrimInv
<1> QED BY <1>1, <1>2, SMTT(20) DEF TrimInv

\* Every step keeps TrimInv.
LEMMA TrimStep ==
  ASSUME TypeOK, RecordInv, TrimInv, [Next]_vars
  PROVE  TrimInv'
<1>0. /\ log \in [Streams -> SUBSET Id] /\ published \in [Streams -> SUBSET Id]
      /\ capped \in [Streams -> SUBSET Id]
      /\ trimOffsets \in [Streams -> Id \cup {NoOffset}]
  BY StreamTyped, Zenon DEF TypeOK
<1>1. ASSUME NEW st \in Streams, Publish(st) PROVE TrimInv'
  <2>1. PICK m : /\ log' = [log EXCEPT ![st] = @ \cup {m}]
                 /\ published' = [published EXCEPT ![st] = @ \cup {m}]
    BY <1>1, Zenon DEF Publish
  <2>2. UNCHANGED <<delivered, capped, trimmer>>
    BY <1>1, ZenonT(30) DEF Publish
  <2>3. \A t \in Streams : Gone(t)' \subseteq Gone(t) /\ delivered[t] \subseteq delivered'[t]
    BY <1>0, <2>1, <2>2, SMTT(20) DEF Gone
  <2>4. TrimmedWasReceived'
    BY <2>3, TrimmedKept DEF TrimInv
  <2> QED BY <2>2, <2>4, Zenon DEF TrimInv
<1>2. CASE TrimStreams
  <2>1. /\ UNCHANGED <<log, published, delivered, capped>>
        /\ trimOffsets' = stored
        /\ trimPc' = "minid" => trimLeft' = {st \in Streams : stored[st] # NoOffset}
    BY <1>2 DEF TrimStreams
  <2>2. TrimmedWasReceived'
    BY <2>1, TrimmedKept, Zenon DEF TrimInv, Gone
  <2>3. \A st \in Streams : stored[st] \in delivered[st] \cup {NoOffset, FirstOffset}
    BY Zenon DEF RecordInv, RecordedWasDelivered
  <2> QED BY <2>1, <2>2, <2>3 DEF TrimInv
<1>3. CASE TrimMGetError
  <2>1. UNCHANGED <<log, published, delivered, capped, trimOffsets>> /\ trimPc' = "panicked"
    BY <1>3, Zenon DEF TrimMGetError
  <2>2. TrimmedWasReceived'
    BY <2>1, TrimmedKept, ZenonT(30) DEF TrimInv, Gone
  <2> QED BY <2>1, <2>2, Zenon DEF TrimInv
<1>4. ASSUME NEW st \in Streams, TrimMinId(st) PROVE TrimInv'
  <2> DEFINE o == trimOffsets[st]
             T == {m \in log[st] : ~IdLess(m, idPlusOne(o))}
  <2>1. /\ UNCHANGED <<published, delivered, capped>>
        /\ log' = [log EXCEPT ![st] = T] \/ log' = log
        /\ trimOffsets' = [trimOffsets EXCEPT ![st] = NoOffset]
        /\ trimPc = "minid" /\ st \in trimLeft
    BY <1>4, Zenon DEF TrimMinId
  <2>2. trimPc' = "minid" => trimLeft' = trimLeft \ {st}
    BY <1>4 DEF TrimMinId
  <2>3. o \in Id /\ o \in delivered[st] \cup ({FirstOffset} \ {NoOffset})
    <3>1. /\ o \in delivered[st] \cup {NoOffset, FirstOffset} /\ o # NoOffset
          /\ o \in Id \cup {NoOffset}
      BY <1>0, <2>1, Zenon DEF TrimInv
    <3> QED BY ONLY <3>1
  <2>4. \A m \in log[st] \ T : IdLeq(m, o)
    BY <1>0, <2>3, TrimmedNotAbove, Zenon
  <2> HIDE DEF o, T
  <2>5. ASSUME NEW t \in Streams, NEW m \in Gone(t)'
        PROVE  \E d \in delivered'[t] \cup ({FirstOffset} \ {NoOffset}) : IdLeq(m, d)
    <3>1. m \in Gone(t) \/ (t = st /\ m \in log[st] \ T)
      BY <1>0, <2>1, <2>5 DEF Gone
    <3>2. CASE m \in Gone(t)
      BY <2>1, <3>2, Zenon DEF TrimInv, TrimmedWasReceived, Gone
    <3>3. CASE t = st /\ m \in log[st] \ T
      BY <2>1, <2>3, <2>4, <3>3, Zenon
    <3> QED BY <3>1, <3>2, <3>3, Zenon
  <2>6. TrimmedWasReceived'
    BY <2>5 DEF TrimmedWasReceived, Gone
  <2>7. \A t \in Streams : /\ t # st => trimOffsets'[t] = trimOffsets[t]
                           /\ trimOffsets'[st] = NoOffset
    BY <1>0, <2>1
  <2> QED BY <2>1, <2>2, <2>6, <2>7 DEF TrimInv
<1>5. ASSUME NEW st \in Streams, TrimMaxLen(st) PROVE TrimInv'
  <2>1. /\ UNCHANGED <<published, delivered, trimOffsets>> /\ trimPc = "maxlen"
        /\ trimPc' # "minid"
    BY <1>5 DEF TrimMaxLen
  <2>2. \/ /\ log' = [log EXCEPT ![st] = Newest(@, MaxLen)]
           /\ capped' = [capped EXCEPT ![st] = @ \cup (log[st] \ log'[st])]
        \/ UNCHANGED <<log, capped>>
    BY <1>5, Zenon DEF TrimMaxLen
  <2>3. \A t \in Streams : Gone(t)' \subseteq Gone(t)
    BY <1>0, <2>1, <2>2 DEF Gone
  <2>4. TrimmedWasReceived'
    BY <2>1, <2>3, TrimmedKept DEF TrimInv
  <2> QED BY <2>1, <2>4 DEF TrimInv
<1>6. ASSUME Grows, UNCHANGED <<log, trimmer>> PROVE TrimInv'
  BY <1>6, TrimInvKept
<1>7. CASE Reader \/ processAcks \/ Crash
  <2>1. UNCHANGED <<log, trimmer>>
    BY <1>7, Zenon
       DEF Reader, gatherStreamsWithOffsets, GatherOffset, XRead, XReadNothing,
           DispatchStream, SendToClosed, SendBatch, EndDispatch, processAcks,
           CoalesceAck, EndCoalesce, ExecAcks, Crash
  <2> QED BY <1>1, <1>6, <2>1, GrowsOrPublishes, Zenon
<1>8. ASSUME NEW s \in Subs, Process(s) \/ Consumer(s) PROVE TrimInv'
  <2>1. UNCHANGED <<log, trimmer>>
    BY <1>8, Zenon
       DEF Process, ProcessMessage, processedLastBatch, ProcessClosed, Deregister,
           Consumer, NewSubscriber, newSubscriber, Messages, Close, ack
  <2> QED BY <1>1, <1>6, <2>1, GrowsOrPublishes, Zenon
<1>9. CASE UNCHANGED vars
  BY <1>1, <1>6, <1>9, GrowsOrPublishes, Zenon
<1> QED
  BY <1>1, <1>2, <1>3, <1>4, <1>5, <1>7, <1>8, <1>9, Zenon DEF Next, Trimmer

\* However many subscriptions share a stream, crash or fall behind: apart from
\* the cap, the trimmer removes only what is not above a message that a consumer
\* received from this stream, or the offset recorded at the start.
THEOREM TrimsOnlyReceived == Spec => []TrimmedWasReceived
<1>1. Init => RecordInv /\ TrimInv
  <2>1. Init => /\ published = log
                /\ trimPc = "idle" /\ trimOffsets = [st \in Streams |-> NoOffset]
    BY Zenon DEF Init
  <2>2. Init => TrimInv
    BY ONLY <2>1 DEF TrimInv, TrimmedWasReceived
  <2> QED BY <2>2, RecordInit, Zenon
<1>2. TypeOK /\ RecordInv /\ [Next]_vars => RecordInv'
  BY RecordStep
<1>3. TypeOK /\ RecordInv /\ TrimInv /\ [Next]_vars => TrimInv'
  BY TrimStep
<1>4. TrimInv => TrimmedWasReceived
  BY DEF TrimInv
<1> QED BY <1>1, <1>2, <1>3, <1>4, TypeCorrect, PTL DEF Spec
=============================================================================

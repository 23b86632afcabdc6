------------------------- MODULE RedisBrokerOrder ---------------------------
(***************************************************************************)
(* Theorems about the order in which redisbroker delivers messages and     *)
(* records offsets, with any number of subscriptions.  Both comparisons of *)
(* the code differ from the order of a stream in general; the hypotheses   *)
(* OneMillisecond and SingleDigits say where they do not.  With one        *)
(* subscription per stream, delivery needs neither.                        *)
(***************************************************************************)
EXTENDS RedisBrokerDelivery

\* What an action does to the variables is in these definitions.
USE DEF vars, redis, history, subscriber, reader, acker, trimmer

-----------------------------------------------------------------------------
(***************************************************************************)
(* The two comparisons.                                                    *)
(***************************************************************************)

\* Offsets are IDs.
LEMMA KnownTyped ==
  ASSUME TypeOK, NEW st \in Streams
  PROVE  Known(st) \subseteq Id
<1>1. published \in [Streams -> SUBSET Id]
  BY Zenon DEF TypeOK
<1>2. FirstOffset \in Id \cup {NoOffset}
  BY ConstantsAssumption
<1> QED BY ONLY <1>1, <1>2, MinOffsetLowest, st \in Streams DEF Known

\* Within a millisecond offsetLessThan is the order of the stream.
LEMMA Compares ==
  ASSUME TypeOK, OneMillisecond, NEW st \in Streams,
         NEW a \in Known(st), NEW b \in Known(st)
  PROVE  offsetLessThan(a, b) <=> IdLess(a, b)
<1>1. a \in Id /\ b \in Id
  BY KnownTyped
<1>2. a = minOffset \/ b = minOffset \/ a[1] = b[1]
  BY DEF OneMillisecond
<1> QED BY ONLY <1>1, <1>2 DEF Id, minOffset, offsetLessThan, IdLess

\* Among sequence numbers of one digit ack.lua compares as the stream does.
LEMMA AckCompares ==
  ASSUME TypeOK, SingleDigits, NEW st \in Streams,
         NEW a \in Known(st), NEW b \in Known(st)
  PROVE  ackGreater(a, b) <=> IdLess(b, a)
<1>1. a \in Id /\ b \in Id
  BY KnownTyped
<1>2. a[2] < 10 /\ b[2] < 10
  BY DEF SingleDigits
<1>3. Digits(a[2]) = <<a[2]>> /\ Digits(b[2]) = <<b[2]>>
  BY <1>2 DEF Digits
<1>4. a[2] \in Nat /\ b[2] \in Nat /\ a[1] \in Nat /\ b[1] \in Nat
  BY ONLY <1>1 DEF Id
<1>5. StringGreater(<<a[2]>>, <<b[2]>>) <=> a[2] > b[2]
  BY ONLY <1>4 DEF StringGreater
<1> QED BY ONLY <1>3, <1>4, <1>5 DEF ackGreater, IdLess

-----------------------------------------------------------------------------
(***************************************************************************)
(* Every offset is one that the stream has had.                            *)
(***************************************************************************)

\* The half of KnownInv about streams, and that about subscribers.
StreamKnown(st) ==
  /\ \A m \in published[st] : IdLess(minOffset, m)
  /\ log[st] \subseteq published[st]
  /\ batch[st] \subseteq published[st]
  /\ delivered[st] \subseteq published[st]
  /\ want[st] \in Known(st) \cup {NoOffset}

SubKnown(s) ==
  /\ offset[s] \in Known(StreamOf[s])
  /\ todo[s] \subseteq published[StreamOf[s]]
  /\ \A i \in 1..Len(out[s]) : out[s][i] \in published[StreamOf[s]]

\* Together they are KnownInv.
LEMMA KnownGroups ==
  KnownInv <=> (\A st \in Streams : StreamKnown(st)) /\ (\A s \in Subs : SubKnown(s))
  BY Zenon DEF KnownInv, StreamKnown, SubKnown

\* A stream whose published messages stay gives the subscribers nothing new.
LEMMA SubKept ==
  ASSUME NEW s \in Subs, SubKnown(s), published[StreamOf[s]] \subseteq published'[StreamOf[s]],
         offset'[s] = offset[s], todo'[s] = todo[s], out'[s] = out[s]
  PROVE  SubKnown(s)'
  BY DEF SubKnown, Known

\* The steps that append to a stream, take from it or read it.
LEMMA StreamStepsKnown ==
  ASSUME TypeOK, KnownInv, NEW st \in Streams,
         Publish(st) \/ TrimMinId(st) \/ TrimMaxLen(st) \/ XRead \/ XReadNothing \/ EndDispatch
  PROVE  KnownInv'
<1>0. /\ \A x \in Streams : StreamKnown(x)
      /\ \A s \in Subs : SubKnown(s) /\ StreamOf[s] \in Streams
  BY KnownGroups, Placement
<1>1. CASE Publish(st)
  <2>1. PICK m \in NextIds(lastId[st]) :
          /\ log' = [log EXCEPT ![st] = @ \cup {m}]
          /\ published' = [published EXCEPT ![st] = @ \cup {m}]
    BY <1>1, Zenon DEF Publish
  <2>2. UNCHANGED <<delivered, batch, want, offset, todo, out>>
    BY <1>1 DEF Publish
  <2>3. IdLess(minOffset, m)
    BY StreamTyped, NextIdAbove
  <2>4. /\ published'[st] = published[st] \cup {m} /\ log'[st] = log[st] \cup {m}
        /\ \A x \in Streams : x # st => published'[x] = published[x] /\ log'[x] = log[x]
    BY <2>1, StreamTyped
  <2>5. ASSUME NEW x \in Streams PROVE StreamKnown(x)'
    <3>1. StreamKnown(x)
      BY <1>0
    <3>2. CASE x = st
      BY ONLY <2>2, <2>3, <2>4, <3>1, <3>2 DEF StreamKnown, Known
    <3>3. CASE x # st
      BY ONLY x \in Streams, <2>2, <2>4, <3>1, <3>3 DEF StreamKnown, Known
    <3> QED BY <3>2, <3>3
  <2>6. ASSUME NEW s \in Subs PROVE SubKnown(s)'
    <3>1. published[StreamOf[s]] \subseteq published'[StreamOf[s]]
      BY <1>0, <2>4
    <3> QED BY <1>0, <2>2, <3>1, SubKept
  <2> QED BY <2>5, <2>6, Zenon DEF KnownInv, StreamKnown, SubKnown
<1>2. ASSUME \A x \in Streams : /\ log'[x] \subseteq log[x]
                                /\ batch'[x] = batch[x] \/ batch'[x] \subseteq log[x]
                                /\ want'[x] = want[x] \/ want'[x] = NoOffset,
             UNCHANGED <<published, delivered, offset, todo, out>>
      PROVE  KnownInv'
  <2>1. ASSUME NEW x \in Streams PROVE StreamKnown(x)'
    <3>1. StreamKnown(x)
      BY <1>0
    <3> QED BY ONLY x \in Streams, <1>2, <3>1 DEF StreamKnown, Known
  <2>2. ASSUME NEW s \in Subs PROVE SubKnown(s)'
    BY <1>0, <1>2, SubKept
  <2> QED BY <2>1, <2>2, Zenon DEF KnownInv, StreamKnown, SubKnown
<1>3. CASE TrimMinId(st) \/ TrimMaxLen(st)
  <2>1. \A x \in Streams : log'[x] \subseteq log[x]
    <3>1. PICK S \in SUBSET log[st] : log' = [log EXCEPT ![st] = S] \/ log' = log
      <4>1. Newest(log[st], MaxLen) \subseteq log[st]
        BY Zenon DEF Newest
      <4> QED BY <1>3, <4>1 DEF TrimMinId, TrimMaxLen
    <3>2. log \in [Streams -> SUBSET Id]
      BY StreamTyped
    <3> QED BY ONLY <3>1, <3>2
  <2>2. UNCHANGED <<published, delivered, batch, want, offset, todo, out>>
    BY <1>3, Zenon DEF TrimMinId, TrimMaxLen
  <2> QED BY <1>2, <2>1, <2>2
<1>4. CASE XRead
  <2>1. /\ batch' = [x \in Streams |-> XReadResult(x)]
        /\ want' = [x \in Streams |-> NoOffset]
        /\ UNCHANGED <<log, published, delivered, offset, todo, out>>
    BY <1>4, Zenon DEF XRead
  <2>2. \A x \in Streams : XReadResult(x) \subseteq log[x]
    BY DEF XReadResult, Oldest
  <2> QED BY <1>2, <2>1, <2>2
<1>5. CASE XReadNothing \/ EndDispatch
  <2>1. /\ want' = want \/ want' = [x \in Streams |-> NoOffset]
        /\ batch' = batch \/ batch' = [x \in Streams |-> {}]
        /\ UNCHANGED <<log, published, delivered, offset, todo, out>>
    BY <1>5, Zenon DEF XReadNothing, EndDispatch
  <2> QED BY <1>2, <2>1
<1> QED BY <1>1, <1>3, <1>4, <1>5

\* What is behind the first element of a sequence.
LEMMA TailElement ==
  ASSUME NEW T, NEW q \in Seq(T), q # <<>>
  PROVE  \A i \in 1..Len(Tail(q)) : i + 1 \in 1..Len(q) /\ Tail(q)[i] = q[i + 1]
  OBVIOUS

\* The steps of the loop, of subscribers and of consumers.
LEMMA SubscriberStepsKnown ==
  ASSUME TypeOK, KnownInv, RecordInv, NEW s \in Subs,
         \/ NewSubscriber(s) \/ GatherOffset(s) \/ SendBatch(s) \/ ProcessMessage(s)
         \/ Deregister(s) \/ Messages(s)
  PROVE  KnownInv'
<1> DEFINE st == StreamOf[s]
<1>0. /\ \A x \in Streams : StreamKnown(x)
      /\ \A t \in Subs : SubKnown(t) /\ StreamOf[t] \in Streams
  BY KnownGroups, Placement
<1>1. st \in Streams /\ StreamKnown(st) /\ SubKnown(s)
  BY <1>0
<1> HIDE DEF st
<1>2. ASSUME UNCHANGED <<log, published, batch, delivered, want>>,
             \A t \in Subs : t # s => /\ offset'[t] = offset[t]
                                      /\ todo'[t] = todo[t] /\ out'[t] = out[t],
             SubKnown(s)'
      PROVE  KnownInv'
  <2>1. ASSUME NEW x \in Streams PROVE StreamKnown(x)'
    BY <1>0, <1>2 DEF StreamKnown, Known
  <2>2. ASSUME NEW t \in Subs PROVE SubKnown(t)'
    BY <1>0, <1>2, SubKept, SMTT(20)
  <2> QED BY <2>1, <2>2, ZenonT(30) DEF KnownInv, StreamKnown, SubKnown
<1>3. CASE NewSubscriber(s)
  <2>1. /\ UNCHANGED <<log, published, batch, delivered, want, todo, out>>
        /\ offset' = [offset EXCEPT ![s] = IF stored[st] = NoOffset THEN minOffset
                                                                   ELSE stored[st]]
    BY <1>3, Zenon DEF NewSubscriber, st
  <2>2. stored[st] \in delivered[st] \cup {NoOffset, FirstOffset}
    BY <1>1 DEF RecordInv, RecordedWasDelivered
  <2>3. offset'[s] \in Known(st)
    BY <1>1, <2>1, <2>2, SubTyped DEF StreamKnown, Known
  <2>4. SubKnown(s)'
    BY <1>1, <2>1, <2>3 DEF SubKnown, Known, st
  <2>5. \A t \in Subs : t # s => offset'[t] = offset[t]
    BY <2>1, SubTyped
  <2> QED BY <1>2, <2>1, <2>4, <2>5
<1>4. CASE GatherOffset(s)
  <2>1. /\ UNCHANGED <<log, published, batch, delivered, offset, todo, out>>
        /\ want' = [want EXCEPT ![st] = LowestOffset(@, offset[s])]
    BY <1>4, Zenon DEF GatherOffset, st
  <2>2. /\ want'[st] \in {want[st], offset[s]}
        /\ \A x \in Streams : x # st => want'[x] = want[x]
    BY <1>1, <2>1, StreamTyped DEF LowestOffset
  <2>3. offset[s] \in Known(st)
    BY <1>1 DEF SubKnown, st
  <2>4. ASSUME NEW x \in Streams PROVE StreamKnown(x)'
    <3>1. StreamKnown(x)
      BY <1>0
    <3>2. want'[x] \in Known(x) \cup {NoOffset}
      BY <2>2, <2>3, <3>1, Zenon DEF StreamKnown
    <3> QED BY ONLY <2>1, <3>1, <3>2 DEF StreamKnown, Known
  <2>5. ASSUME NEW t \in Subs PROVE SubKnown(t)'
    BY <1>0, <2>1, SubKept
  <2> QED BY <2>4, <2>5, Zenon DEF KnownInv, StreamKnown, SubKnown
<1>5. CASE SendBatch(s)
  <2>1. /\ UNCHANGED <<log, published, batch, delivered, want, offset, out>>
        /\ todo' = [todo EXCEPT ![s] = batch[st]]
    BY <1>5, Zenon DEF SendBatch, st
  <2>2. todo'[s] = batch[st] /\ \A t \in Subs : t # s => todo'[t] = todo[t]
    BY <2>1, SubTyped
  <2>3. SubKnown(s)'
    BY <1>1, <2>1, <2>2, Zenon DEF SubKnown, StreamKnown, Known, st
  <2> QED BY <1>2, <2>1, <2>2, <2>3
<1>6. CASE ProcessMessage(s)
  <2>1. PICK m \in todo[s] :
          /\ todo' = [todo EXCEPT ![s] = @ \ {m}]
          /\ \/ /\ out' = [out EXCEPT ![s] = Append(@, m)]
                /\ offset' = [offset EXCEPT ![s] = m]
             \/ UNCHANGED <<out, offset>>
    BY <1>6, Zenon DEF ProcessMessage
  <2>2. UNCHANGED <<log, published, batch, delivered, want>>
    BY <1>6, Zenon DEF ProcessMessage
  <2>3. \A t \in Subs : t # s => /\ offset'[t] = offset[t]
                                 /\ todo'[t] = todo[t] /\ out'[t] = out[t]
    BY <2>1, SubTyped
  <2>4. /\ todo'[s] \subseteq todo[s]
        /\ \/ out'[s] = out[s] /\ offset'[s] = offset[s]
           \/ out'[s] = Append(out[s], m) /\ offset'[s] = m
    BY <2>1, SubTyped
  <2>5. m \in published[st] /\ out[s] \in Seq(Id)
    BY <1>1, SubTyped DEF SubKnown, st
  <2>6. \A i \in 1..Len(out'[s]) : out'[s][i] \in published[st]
    <3>1. \A i \in 1..Len(out[s]) : out[s][i] \in published[st]
      BY <1>1 DEF SubKnown, st
    <3> QED BY ONLY <2>4, <2>5, <3>1
  <2>7. SubKnown(s)'
    BY <1>1, <2>2, <2>4, <2>5, <2>6 DEF SubKnown, Known, st
  <2> QED BY <1>2, <2>2, <2>3, <2>7
<1>7. CASE Deregister(s)
  <2>1. /\ UNCHANGED <<log, published, batch, delivered, want, todo>>
        /\ offset' = [offset EXCEPT ![s] = minOffset]
        /\ out' = [out EXCEPT ![s] = <<>>]
    BY <1>7, Zenon DEF Deregister
  <2>2. /\ offset'[s] = minOffset /\ out'[s] = <<>>
        /\ \A t \in Subs : t # s => offset'[t] = offset[t] /\ out'[t] = out[t]
    BY <2>1, SubTyped
  <2>3. SubKnown(s)'
    BY <1>1, <2>1, <2>2, SMTT(20) DEF SubKnown, Known, st
  <2> QED BY <1>2, <2>1, <2>2, <2>3
<1>8. CASE Messages(s)
  <2>1. /\ out[s] # <<>>
        /\ delivered' = [delivered EXCEPT ![st] = @ \cup {Head(out[s])}]
        /\ out' = [out EXCEPT ![s] = Tail(@)]
        /\ UNCHANGED <<log, published, batch, want, offset, todo>>
    BY <1>8 DEF Messages, st
  <2>2. out[s] \in Seq(Id) /\ Head(out[s]) = out[s][1] /\ 1 \in 1..Len(out[s])
    BY <2>1, SubTyped
  <2>3. Head(out[s]) \in published[st]
    BY <1>1, <2>2 DEF SubKnown, st
  <2>4. ASSUME NEW x \in Streams PROVE StreamKnown(x)'
    <3>1. StreamKnown(x)
      BY <1>0
    <3>2. delivered'[x] \subseteq published[x]
      BY <2>1, <2>3, <3>1, StreamTyped DEF StreamKnown
    <3> QED BY ONLY <2>1, <3>1, <3>2 DEF StreamKnown, Known
  <2>5. /\ out'[s] = Tail(out[s])
        /\ \A t \in Subs : t # s => out'[t] = out[t]
    BY <2>1, SubTyped
  <2>6. \A i \in 1..Len(out'[s]) : i + 1 \in 1..Len(out[s]) /\ out'[s][i] = out[s][i + 1]
    <3>1. \A i \in 1..Len(Tail(out[s])) : /\ i + 1 \in 1..Len(out[s])
                                          /\ Tail(out[s])[i] = out[s][i + 1]
      BY <2>1, <2>2, TailElement
    <3> QED BY ONLY <2>5, <3>1
  <2>7. SubKnown(s)'
    BY <1>1, <2>1, <2>6, Zenon DEF SubKnown, Known
  <2>8. ASSUME NEW t \in Subs PROVE SubKnown(t)'
    BY <1>0, <2>1, <2>5, <2>7, SubKept
  <2> QED BY <2>4, <2>8, Zenon DEF KnownInv, StreamKnown, SubKnown
<1> QED BY <1>3, <1>4, <1>5, <1>6, <1>7, <1>8

\* Every step keeps KnownInv.
LEMMA KnownStep ==
  ASSUME TypeOK, KnownInv, RecordInv, [Next]_vars
  PROVE  KnownInv'
<1>1. ASSUME UNCHANGED <<log, published, batch, delivered, want, offset, todo, out>>
      PROVE  KnownInv'
  BY <1>1 DEF KnownInv, Known
<1>2. ASSUME NEW st \in Streams, TrimMinId(st) \/ TrimMaxLen(st) \/ Publish(st)
      PROVE  KnownInv'
  BY <1>2, StreamStepsKnown
<1>3. CASE XRead \/ XReadNothing \/ EndDispatch
  <2>1. CASE Streams = {}
    <3>1. Subs = {}
      BY <2>1, Placement
    <3> QED BY <2>1, <3>1 DEF KnownInv
  <2>2. ASSUME NEW st \in Streams PROVE KnownInv'
    BY <1>3, StreamStepsKnown
  <2> QED BY <2>1, <2>2
<1>4. ASSUME NEW s \in Subs,
             \/ NewSubscriber(s) \/ GatherOffset(s) \/ SendBatch(s) \/ ProcessMessage(s)
             \/ Deregister(s) \/ Messages(s)
      PROVE  KnownInv'
  BY <1>4, SubscriberStepsKnown, ZenonT(30)
<1>5. CASE Crash
  <2>1. /\ UNCHANGED <<log, published, delivered>>
        /\ batch' = [st \in Streams |-> {}] /\ want' = [st \in Streams |-> NoOffset]
        /\ offset' = [s \in Subs |-> minOffset] /\ todo' = [s \in Subs |-> {}]
        /\ out' = [s \in Subs |-> <<>>]
    BY <1>5, Zenon DEF Crash
  <2> QED BY <2>1, Placement DEF KnownInv, Known
<1>6. ASSUME NEW s \in Subs,
             \/ newSubscriber(s) \/ SendToClosed(s) \/ processedLastBatch(s)
             \/ ProcessClosed(s) \/ Close(s) \/ \E m \in unacked[s] : ack(s, m)
      PROVE  KnownInv'
  <2>1. UNCHANGED <<log, published, batch, delivered, want, offset, todo, out>>
    BY <1>6, Zenon
       DEF newSubscriber, SendToClosed, processedLastBatch, ProcessClosed, Close, ack
  <2> QED BY <1>1, <2>1
<1>7. CASE gatherStreamsWithOffsets \/ processAcks \/ TrimStreams \/ TrimMGetError
  <2>1. UNCHANGED <<log, published, batch, delivered, want, offset, todo, out>>
    BY <1>7, Zenon
       DEF gatherStreamsWithOffsets, processAcks, CoalesceAck, EndCoalesce, ExecAcks,
           TrimStreams, TrimMGetError
  <2> QED BY <1>1, <2>1
<1>8. ASSUME NEW st \in Streams, DispatchStream(st) PROVE KnownInv'
  <2>1. UNCHANGED <<log, published, batch, delivered, want, offset, todo, out>>
    BY <1>8, Zenon DEF DispatchStream
  <2> QED BY <1>1, <2>1
<1>9. CASE UNCHANGED vars
  BY <1>1, <1>9
<1> QED
  BY <1>2, <1>3, <1>4, <1>5, <1>6, <1>7, <1>8, <1>9, ZenonT(30)
     DEF Next, Reader, Process, Consumer, Trimmer

\* The initial state has no other offsets than the one on record.
LEMMA KnownInit == Init => KnownInv
<1> SUFFICES ASSUME Init PROVE KnownInv
  OBVIOUS
<1>1. \A m \in Backlog : IdLess(minOffset, m)
  BY ConstantsAssumption
<1>2. /\ log = [st \in Streams |-> Backlog] /\ published = [st \in Streams |-> Backlog]
      /\ delivered = [st \in Streams |-> {}] /\ batch = [st \in Streams |-> {}]
      /\ want = [st \in Streams |-> NoOffset]
      /\ offset = [s \in Subs |-> minOffset] /\ todo = [s \in Subs |-> {}]
      /\ out = [s \in Subs |-> <<>>]
  BY Zenon DEF Init
<1> QED BY <1>1, <1>2 DEF KnownInv, Known

\* The invariants in every reachable state.
LEMMA KnownHolds == Spec => [](RecordInv /\ KnownInv)
<1>1. Init => RecordInv
  BY DEF Init, RecordInv, RecordedWasDelivered
<1>2. TypeOK /\ RecordInv /\ [Next]_vars => RecordInv'
  BY RecordStep
<1>3. TypeOK /\ KnownInv /\ RecordInv /\ [Next]_vars => KnownInv'
  BY KnownStep
<1> QED BY <1>1, <1>2, <1>3, KnownInit, TypeCorrect, PTL DEF Spec

-----------------------------------------------------------------------------
(***************************************************************************)
(* Deliveries.                                                             *)
(***************************************************************************)

\* A subscriber is sent a batch by the loop, which then waits for it.
LEMMA BusyStep ==
  ASSUME TypeOK, BusyInv, [Next]_vars
  PROVE  BusyInv'
<1>0. pc \in [Subs -> {"none", "opening", "select", "batch", "exit", "gone"}]
  BY SubTyped
<1>1. ASSUME \A t \in Subs : pc'[t] # "batch" PROVE BusyInv'
  BY <1>1 DEF BusyInv
<1>2. ASSUME NEW s \in Subs,
             \/ NewSubscriber(s) \/ newSubscriber(s) \/ ProcessClosed(s) \/ Deregister(s)
      PROVE  BusyInv'
  <2>1. PICK v \in {"opening", "select", "exit", "gone"} : pc' = [pc EXCEPT ![s] = v]
    BY <1>2, Zenon DEF NewSubscriber, newSubscriber, ProcessClosed, Deregister
  <2>2. UNCHANGED <<loop, visit>>
    BY <1>2, Zenon DEF NewSubscriber, newSubscriber, ProcessClosed, Deregister
  <2> QED BY <1>0, <2>1, <2>2 DEF BusyInv
<1>3. ASSUME NEW s \in Subs, processedLastBatch(s) PROVE BusyInv'
  <2>1. PICK v \in {"exit", "select"} : pc' = [pc EXCEPT ![s] = v]
    BY <1>3, Zenon DEF processedLastBatch
  <2>2. loop' = loop /\ visit' = visit \ {s}
    BY <1>3, Zenon DEF processedLastBatch
  <2> QED BY <1>0, <2>1, <2>2 DEF BusyInv
<1>4. ASSUME NEW s \in Subs, SendBatch(s) PROVE BusyInv'
  <2>1. /\ pc' = [pc EXCEPT ![s] = "batch"] /\ loop = "dispatch" /\ s \in visit
        /\ UNCHANGED <<loop, visit>>
    BY <1>4, Zenon DEF SendBatch
  <2> QED BY <1>0, <2>1 DEF BusyInv
<1>5. ASSUME NEW s \in Subs, GatherOffset(s) \/ SendToClosed(s) PROVE BusyInv'
  <2>1. pc' = pc /\ (loop = "gather" \/ ~Sending)
    BY <1>5, Zenon DEF GatherOffset, SendToClosed
  <2> QED BY <1>1, <2>1 DEF BusyInv, Sending
<1>6. CASE gatherStreamsWithOffsets \/ XRead \/ XReadNothing \/ EndDispatch
  <2>1. pc' = pc /\ (loop \in {"idle", "read"} \/ visit = {})
    BY <1>6 DEF gatherStreamsWithOffsets, XRead, XReadNothing, EndDispatch
  <2> QED BY <1>1, <2>1, Zenon DEF BusyInv
<1>7. ASSUME NEW st \in Streams, DispatchStream(st) PROVE BusyInv'
  <2>1. pc' = pc /\ visit = {}
    BY <1>7, Zenon DEF DispatchStream
  <2> QED BY <1>1, <2>1 DEF BusyInv
<1>8. CASE Crash
  BY <1>1, <1>8 DEF Crash
<1>9. ASSUME UNCHANGED <<pc, loop, visit>> PROVE BusyInv'
  BY <1>9 DEF BusyInv
<1>10. ASSUME NEW s \in Subs,
              ProcessMessage(s) \/ Messages(s) \/ Close(s) \/ \E m \in unacked[s] : ack(s, m)
       PROVE  BusyInv'
  <2>1. UNCHANGED <<pc, loop, visit>>
    BY <1>10, Zenon DEF ProcessMessage, Messages, Close, ack
  <2> QED BY <1>9, <2>1
<1>11. CASE (\E st \in Streams : Publish(st)) \/ processAcks \/ Trimmer
  <2>1. UNCHANGED <<pc, loop, visit>>
    BY <1>11, Zenon
       DEF Publish, processAcks, CoalesceAck, EndCoalesce, ExecAcks, Trimmer,
           TrimStreams, TrimMGetError, TrimMinId, TrimMaxLen
  <2> QED BY <1>9, <2>1
<1>12. CASE UNCHANGED vars
  BY <1>9, <1>12
<1> QED
  BY <1>2, <1>3, <1>4, <1>5, <1>6, <1>7, <1>8, <1>10, <1>11, <1>12, Zenon
     DEF Next, Reader, Process, Consumer

\* q is in order and nothing in it is above off.
InOrder(q, off) ==
  /\ \A i, j \in 1..Len(q) : i < j => IdLess(q[i], q[j])
  /\ \A i \in 1..Len(q) : IdLeq(q[i], off)

\* SeenInv of one subscriber.
SeenOK(s) ==
  /\ pc[s] = "none" => got[s] = <<>> /\ out[s] = <<>>
  /\ InOrder(got[s] \o out[s], offset[s])

\* Together they are SeenInv.
LEMMA SeenGroups == SeenInv <=> \A s \in Subs : SeenOK(s)
  BY Zenon DEF SeenInv, DeliveredInOrder, SeenOK, InOrder

\* One sequence behind the other.
LEMMA Concatenated ==
  ASSUME NEW T, NEW g \in Seq(T), NEW o \in Seq(T)
  PROVE  /\ g \o o \in Seq(T) /\ Len(g \o o) = Len(g) + Len(o)
         /\ \A i \in 1..(Len(g) + Len(o)) :
              (g \o o)[i] = IF i <= Len(g) THEN g[i] ELSE o[i - Len(g)]
  OBVIOUS

\* A message above the offset goes behind the others.
LEMMA InOrderAppend ==
  ASSUME NEW g \in Seq(Id), NEW o \in Seq(Id), NEW off \in Id, NEW m \in Id,
         InOrder(g \o o, off), IdLess(off, m)
  PROVE  InOrder(g \o Append(o, m), m)
<1> DEFINE q == g \o o
           p == Append(o, m)
           r == g \o p
           n == Len(g) + Len(o)
<1>1. /\ q \in Seq(Id) /\ Len(q) = n /\ n \in Nat
      /\ \A i \in 1..n : q[i] = IF i <= Len(g) THEN g[i] ELSE o[i - Len(g)]
  BY Concatenated
<1>2. /\ p \in Seq(Id) /\ Len(p) = Len(o) + 1 /\ p[Len(o) + 1] = m
      /\ \A i \in 1..Len(o) : p[i] = o[i]
  OBVIOUS
<1> HIDE DEF p
<1>3. /\ Len(r) = Len(g) + (Len(o) + 1)
      /\ \A i \in 1..(Len(g) + (Len(o) + 1)) :
           r[i] = IF i <= Len(g) THEN g[i] ELSE p[i - Len(g)]
  <2>1. /\ Len(r) = Len(g) + Len(p)
        /\ \A i \in 1..(Len(g) + Len(p)) : r[i] = IF i <= Len(g) THEN g[i] ELSE p[i - Len(g)]
    BY <1>2, Concatenated, Zenon
  <2> QED BY ONLY <1>2, <2>1
<1>4. /\ Len(g) \in Nat /\ Len(o) \in Nat
  OBVIOUS
<1> HIDE DEF q, r
<1>5. Len(r) = n + 1 /\ r[n + 1] = m /\ \A i \in 1..n : r[i] = q[i]
  <2>1. Len(r) = n + 1
    BY ONLY <1>3, <1>4
  <2>2. r[n + 1] = m
    <3>1. n + 1 \in 1..(Len(g) + (Len(o) + 1)) /\ ~(n + 1 <= Len(g)) /\ n + 1 - Len(g) = Len(o) + 1
      BY ONLY <1>4
    <3> QED BY ONLY <1>2, <1>3, <3>1
  <2>3. ASSUME NEW i \in 1..n PROVE r[i] = q[i]
    <3>1. i \in 1..(Len(g) + (Len(o) + 1)) /\ (i <= Len(g) \/ i - Len(g) \in 1..Len(o))
      BY ONLY <1>4, i \in 1..n
    <3> QED BY ONLY <1>1, <1>2, <1>3, <3>1, i \in 1..n, ZenonT(30)
  <2> QED BY ONLY <2>1, <2>2, <2>3
<1> HIDE DEF n
<1>6. \A i \in 1..n : q[i] \in Id /\ IdLeq(q[i], off)
  BY <1>1 DEF InOrder, q
<1>7. \A i \in 1..n : IdLess(q[i], m)
  BY <1>6, IdOrder DEF IdLeq
<1>8. \A i, j \in 1..n : i < j => IdLess(q[i], q[j])
  BY <1>1, SMTT(20) DEF InOrder, q
<1>9. ASSUME NEW i \in 1..Len(r) PROVE IdLeq(r[i], m)
  <2>1. i \in 1..n \/ i = n + 1
    BY ONLY <1>1, <1>5, i \in 1..Len(r)
  <2> QED BY ONLY <1>5, <1>7, <2>1 DEF IdLeq
<1>10. ASSUME NEW i \in 1..Len(r), NEW j \in 1..Len(r), i < j PROVE IdLess(r[i], r[j])
  <2>1. i \in 1..n /\ (j \in 1..n \/ j = n + 1)
    BY ONLY <1>1, <1>5, <1>10
  <2> QED BY ONLY <1>5, <1>7, <1>8, <1>10, <2>1
<1> QED BY <1>9, <1>10, Zenon DEF InOrder, r, p

\* A consumer that takes a message from the channel has them in the same order.
LEMMA InOrderTaken ==
  ASSUME NEW g \in Seq(Id), NEW o \in Seq(Id), o # <<>>, NEW off \in Id, InOrder(g \o o, off)
  PROVE  InOrder(Append(g, Head(o)) \o Tail(o), off)
<1> DEFINE q == g \o o
           r == Append(g, Head(o)) \o Tail(o)
           n == Len(g) + Len(o)
<1>1. /\ Len(q) = n
      /\ \A i \in 1..n : q[i] = IF i <= Len(g) THEN g[i] ELSE o[i - Len(g)]
  BY Concatenated
<1>2. /\ Head(o) = o[1] /\ Head(o) \in Id
      /\ Tail(o) \in Seq(Id) /\ Len(Tail(o)) = Len(o) - 1
      /\ \A i \in 1..(Len(o) - 1) : Tail(o)[i] = o[i + 1]
      /\ Len(g) \in Nat /\ Len(o) \in Nat \ {0}
  OBVIOUS
<1>3. /\ Append(g, Head(o)) \in Seq(Id) /\ Len(Append(g, Head(o))) = Len(g) + 1
      /\ Append(g, Head(o))[Len(g) + 1] = o[1]
      /\ \A i \in 1..Len(g) : Append(g, Head(o))[i] = g[i]
  BY <1>2
<1>4. /\ Len(r) = (Len(g) + 1) + (Len(o) - 1)
      /\ \A i \in 1..((Len(g) + 1) + (Len(o) - 1)) :
           r[i] = IF i <= Len(g) + 1 THEN Append(g, Head(o))[i] ELSE Tail(o)[i - (Len(g) + 1)]
  BY <1>2, <1>3, Concatenated
<1> HIDE DEF q, r
<1>5. Len(r) = n /\ \A i \in 1..n : r[i] = q[i]
  <2>1. Len(r) = n
    BY ONLY <1>2, <1>4
  <2>2. ASSUME NEW i \in 1..n PROVE r[i] = q[i]
    <3>1. /\ i \in 1..((Len(g) + 1) + (Len(o) - 1))
          /\ \/ i <= Len(g) + 1 /\ i \in 1..Len(g) /\ i <= Len(g)
             \/ i = Len(g) + 1 /\ i - Len(g) = 1 /\ ~(i <= Len(g))
             \/ /\ ~(i <= Len(g) + 1) /\ ~(i <= Len(g))
                /\ i - (Len(g) + 1) \in 1..(Len(o) - 1)
                /\ (i - (Len(g) + 1)) + 1 = i - Len(g)
      BY ONLY <1>2, i \in 1..n
    <3>2. r[i] = IF i <= Len(g) + 1 THEN Append(g, Head(o))[i] ELSE Tail(o)[i - (Len(g) + 1)]
      BY ONLY <1>4, <3>1
    <3>3. q[i] = IF i <= Len(g) THEN g[i] ELSE o[i - Len(g)]
      BY ONLY <1>1, i \in 1..n
    <3> QED BY ONLY <1>2, <1>3, <3>1, <3>2, <3>3
  <2> QED BY ONLY <2>1, <2>2
<1> HIDE DEF n
<1>6. InOrder(q, off)
  BY DEF q
<1>7. InOrder(r, off)
  BY ONLY <1>1, <1>5, <1>6 DEF InOrder
<1> QED BY <1>7 DEF r

\* process() takes no message that is not above the offset of its subscriber.
TakesHigher ==
  \A s \in Subs : \A m \in todo[s] : offsetLessThan(offset[s], m) => IdLess(offset[s], m)

\* This is so where offsetLessThan is the order of the stream.
LEMMA HigherByComparison == TypeOK /\ KnownInv /\ OneMillisecond => TakesHigher
<1> SUFFICES ASSUME TypeOK, KnownInv, OneMillisecond, NEW s \in Subs, NEW m \in todo[s],
                    offsetLessThan(offset[s], m)
             PROVE  IdLess(offset[s], m)
  BY Zenon DEF TakesHigher
<1>1. StreamOf[s] \in Streams /\ offset[s] \in Known(StreamOf[s]) /\ m \in Known(StreamOf[s])
  BY Placement DEF KnownInv, Known
<1> QED BY <1>1, Compares, Zenon

\* It is so, whatever offsetLessThan answers, where a batch is never read for
\* another subscriber whose offset is lower.
LEMMA HigherByBatch == Inv => TakesHigher
  BY Zenon DEF Inv, BatchInv, Contiguous, TakesHigher

\* Every step keeps SeenInv, if process() takes only what is above the offset.
LEMMA SeenStep ==
  ASSUME TypeOK, TakesHigher, SeenInv, [Next]_vars
  PROVE  SeenInv'
<1>0. /\ \A t \in Subs : SeenOK(t)
      /\ \A t \in Subs : offset[t] \in Id /\ got[t] \in Seq(Id) /\ out[t] \in Seq(Id)
  BY SeenGroups, SubTyped
<1>1. ASSUME UNCHANGED <<got, out, offset>>, \A t \in Subs : pc'[t] = "none" => pc[t] = "none"
      PROVE  SeenInv'
  <2>1. ASSUME NEW t \in Subs PROVE SeenOK(t)'
    BY <1>0, <1>1 DEF SeenOK
  <2> QED BY <2>1, Zenon DEF SeenInv, DeliveredInOrder, SeenOK, InOrder
<1>2. ASSUME NEW s \in Subs,
             \A t \in Subs : pc'[t] = "none" => pc[t] = "none" /\ t # s,
             \A t \in Subs \ {s} : got'[t] = got[t] /\ out'[t] = out[t] /\ offset'[t] = offset[t],
             InOrder(got'[s] \o out'[s], offset'[s])
      PROVE  SeenInv'
  <2>1. ASSUME NEW t \in Subs PROVE SeenOK(t)'
    BY <1>0, <1>2 DEF SeenOK
  <2> QED BY <2>1, Zenon DEF SeenInv, DeliveredInOrder, SeenOK, InOrder
<1>3. ASSUME NEW s \in Subs, NewSubscriber(s) PROVE SeenInv'
  <2>1. /\ pc[s] = "none" /\ pc' = [pc EXCEPT ![s] = "opening"]
        /\ UNCHANGED <<got, out>>
        /\ offset' = [offset EXCEPT ![s] =
             IF stored[StreamOf[s]] = NoOffset THEN minOffset ELSE stored[StreamOf[s]]]
    BY <1>3, ZenonT(30) DEF NewSubscriber
  <2>2. \A t \in Subs : (pc'[t] = "none" => pc[t] = "none" /\ t # s)
                        /\ (t # s => offset'[t] = offset[t])
    BY <2>1, SubTyped
  <2>3. got'[s] = <<>> /\ out'[s] = <<>>
    BY <1>0, <2>1 DEF SeenOK
  <2>4. InOrder(got'[s] \o out'[s], offset'[s])
    <3>1. Len(<<>> \o <<>>) = 0
      BY ONLY TRUE
    <3> QED BY ONLY <2>3, <3>1 DEF InOrder
  <2> QED BY <1>2, <2>1, <2>2, <2>4
<1>4. ASSUME NEW s \in Subs, ProcessMessage(s) PROVE SeenInv'
  <2>1. PICK m \in todo[s] :
          \/ /\ offsetLessThan(offset[s], m)
             /\ out' = [out EXCEPT ![s] = Append(@, m)]
             /\ offset' = [offset EXCEPT ![s] = m]
          \/ UNCHANGED <<out, offset>>
    BY <1>4, Zenon DEF ProcessMessage
  <2>2. UNCHANGED <<got, pc>> /\ pc[s] = "batch"
    BY <1>4, Zenon DEF ProcessMessage
  <2>3. CASE UNCHANGED <<out, offset>>
    BY <1>1, <2>2, <2>3, Zenon
  <2>4. CASE /\ offsetLessThan(offset[s], m)
             /\ out' = [out EXCEPT ![s] = Append(@, m)]
             /\ offset' = [offset EXCEPT ![s] = m]
    <3>1. todo[s] \subseteq Id
      BY SubTyped
    <3>2. IdLess(offset[s], m) /\ m \in Id
      BY <2>4, <3>1, Zenon DEF TakesHigher
    <3>3. /\ out'[s] = Append(out[s], m) /\ offset'[s] = m /\ got'[s] = got[s]
          /\ \A t \in Subs : t # s => /\ got'[t] = got[t] /\ out'[t] = out[t]
                                      /\ offset'[t] = offset[t]
      BY <2>2, <2>4, SubTyped, Zenon
    <3>4. InOrder(got[s] \o Append(out[s], m), m)
      BY <1>0, <3>2, InOrderAppend, Zenon DEF SeenOK
    <3>5. \A t \in Subs : pc'[t] = "none" => pc[t] = "none" /\ t # s
      BY <2>2, ZenonT(30)
    <3> QED BY <1>2, <3>3, <3>4, <3>5, ZenonT(30)
  <2> QED BY <2>1, <2>3, <2>4
<1>5. ASSUME NEW s \in Subs, Messages(s) PROVE SeenInv'
  <2>1. /\ s \in Registered /\ out[s] # <<>> /\ UNCHANGED <<pc, offset>>
        /\ got' = [got EXCEPT ![s] = Append(@, Head(out[s]))]
        /\ out' = [out EXCEPT ![s] = Tail(@)]
    BY <1>5, Zenon DEF Messages
  <2>2. /\ got'[s] = Append(got[s], Head(out[s])) /\ out'[s] = Tail(out[s])
        /\ \A t \in Subs : t # s => got'[t] = got[t] /\ out'[t] = out[t]
    BY <2>1, SubTyped
  <2>3. InOrder(Append(got[s], Head(out[s])) \o Tail(out[s]), offset[s])
    BY <1>0, <2>1, InOrderTaken DEF SeenOK
  <2>4. \A t \in Subs : pc'[t] = "none" => pc[t] = "none" /\ t # s
    BY <2>1 DEF Registered
  <2> QED BY <1>2, <2>1, <2>2, <2>3, <2>4
<1>6. ASSUME NEW s \in Subs, Deregister(s) PROVE SeenInv'
  <2>1. /\ pc' = [pc EXCEPT ![s] = "gone"] /\ offset' = [offset EXCEPT ![s] = minOffset]
        /\ out' = [out EXCEPT ![s] = <<>>] /\ got' = [got EXCEPT ![s] = <<>>]
    BY <1>6, Zenon DEF Deregister
  <2>2. /\ got'[s] = <<>> /\ out'[s] = <<>> /\ offset'[s] = minOffset
        /\ \A t \in Subs : t # s => /\ got'[t] = got[t] /\ out'[t] = out[t]
                                    /\ offset'[t] = offset[t]
        /\ \A t \in Subs : pc'[t] = "none" => pc[t] = "none" /\ t # s
    BY <2>1, SubTyped
  <2>3. InOrder(got'[s] \o out'[s], offset'[s])
    <3>1. Len(<<>> \o <<>>) = 0
      BY ONLY TRUE
    <3> QED BY ONLY <2>2, <3>1 DEF InOrder
  <2> QED BY <1>2, <2>2, <2>3, Zenon
<1>7. CASE Crash
  <2>1. /\ got' = [s \in Subs |-> <<>>] /\ out' = [s \in Subs |-> <<>>]
    BY <1>7, Zenon DEF Crash
  <2>2. ASSUME NEW t \in Subs PROVE SeenOK(t)'
    <3>1. Len(<<>> \o <<>>) = 0
      BY ONLY TRUE
    <3> QED BY <2>1, <3>1 DEF SeenOK, InOrder
  <2> QED BY <2>2, Zenon DEF SeenInv, DeliveredInOrder, SeenOK, InOrder
<1>8. ASSUME NEW s \in Subs,
             newSubscriber(s) \/ ProcessClosed(s) \/ processedLastBatch(s) \/ SendBatch(s)
      PROVE  SeenInv'
  <2>1. UNCHANGED <<got, out, offset>>
    BY <1>8, ZenonT(30) DEF newSubscriber, ProcessClosed, processedLastBatch, SendBatch
  <2>2. PICK v \in {"select", "exit", "batch"} : pc' = [pc EXCEPT ![s] = v]
    BY <1>8 DEF newSubscriber, ProcessClosed, processedLastBatch, SendBatch
  <2>3. \A t \in Subs : pc'[t] = "none" => pc[t] = "none"
    BY <2>2, SubTyped
  <2> QED BY <1>1, <2>1, <2>3
<1>9. ASSUME UNCHANGED <<got, out, offset, pc>> PROVE SeenInv'
  BY <1>1, <1>9
<1>10. ASSUME NEW s \in Subs,
              GatherOffset(s) \/ SendToClosed(s) \/ Close(s) \/ \E m \in unacked[s] : ack(s, m)
       PROVE  SeenInv'
  <2>1. UNCHANGED <<got, out, offset, pc>>
    BY <1>10, Zenon DEF GatherOffset, SendToClosed, Close, ack
  <2> QED BY <1>9, <2>1
<1>11. CASE \/ gatherStreamsWithOffsets \/ XRead \/ XReadNothing \/ EndDispatch
            \/ \E st \in Streams : DispatchStream(st) \/ Publish(st)
  <2>1. UNCHANGED <<got, out, offset, pc>>
    BY <1>11, Zenon
       DEF gatherStreamsWithOffsets, XRead, XReadNothing, EndDispatch, DispatchStream, Publish
  <2> QED BY <1>9, <2>1
<1>12. CASE processAcks \/ Trimmer
  <2>1. UNCHANGED <<got, out, offset, pc>>
    BY <1>12, Zenon
       DEF processAcks, CoalesceAck, EndCoalesce, ExecAcks, Trimmer,
           TrimStreams, TrimMGetError, TrimMinId, TrimMaxLen
  <2> QED BY <1>9, <2>1
<1>13. CASE UNCHANGED vars
  BY <1>9, <1>13
<1> QED
  BY <1>3, <1>4, <1>5, <1>6, <1>7, <1>8, <1>10, <1>11, <1>12, <1>13, ZenonT(30)
     DEF Next, Reader, Process, Consumer

\* At the beginning nothing has come out of a subscription.
LEMMA SeenInit == Init => SeenInv
<1> SUFFICES ASSUME Init PROVE SeenInv
  OBVIOUS
<1>1. got = [s \in Subs |-> <<>>] /\ out = [s \in Subs |-> <<>>]
  BY Zenon DEF Init
<1>2. ASSUME NEW t \in Subs PROVE SeenOK(t)
  <2>1. Len(<<>> \o <<>>) = 0
    BY ONLY TRUE
  <2> QED BY <1>1, <2>1 DEF SeenOK, InOrder
<1> QED BY <1>2, SeenGroups

\* Whatever is sent to it twice and whichever batches overlap: a subscription
\* hands out messages in stream order and none twice, as long as the messages
\* of a stream are of the same millisecond.
THEOREM InOrderDelivery == Spec /\ []OneMillisecond => []DeliveredInOrder
<1>1. TypeOK /\ TakesHigher /\ SeenInv /\ [Next]_vars => SeenInv'
  BY SeenStep
<1>2. SeenInv => DeliveredInOrder
  BY Zenon DEF SeenInv
<1> QED BY <1>1, <1>2, SeenInit, HigherByComparison, KnownHolds, TypeCorrect, PTL DEF Spec

\* With one subscription per stream, messages come in stream order and none
\* comes twice, for all milliseconds and sequence numbers.
THEOREM InOrderForOne ==
  ASSUME OneSubscription
  PROVE  Spec => []DeliveredInOrder
<1>1. TypeOK /\ TakesHigher /\ SeenInv /\ [Next]_vars => SeenInv'
  BY SeenStep
<1>2. SeenInv => DeliveredInOrder
  BY Zenon DEF SeenInv
<1>3. Spec => []Inv
  BY InvariantHolds
<1> QED BY <1>1, <1>2, <1>3, SeenInit, HigherByBatch, TypeCorrect, PTL DEF Spec

-----------------------------------------------------------------------------
(***************************************************************************)
(* Gathering.                                                              *)
(***************************************************************************)

\* The offset gathered for a stream is compared as the stream does with those
\* of the subscribers that are still to be visited.
ComparesLowest ==
  \A s \in visit :
    want[StreamOf[s]] # NoOffset =>
      (offsetLessThan(offset[s], want[StreamOf[s]]) <=> IdLess(offset[s], want[StreamOf[s]]))

\* This is so where offsetLessThan is the order of the stream.
LEMMA LowestByComparison == TypeOK /\ KnownInv /\ OneMillisecond => ComparesLowest
<1> SUFFICES ASSUME TypeOK, KnownInv, OneMillisecond, NEW s \in visit,
                    want[StreamOf[s]] # NoOffset
             PROVE  offsetLessThan(offset[s], want[StreamOf[s]])
                      <=> IdLess(offset[s], want[StreamOf[s]])
  BY Zenon DEF ComparesLowest
<1>1. s \in Subs
  BY Zenon DEF TypeOK
<1>2. /\ StreamOf[s] \in Streams
      /\ offset[s] \in Known(StreamOf[s]) /\ want[StreamOf[s]] \in Known(StreamOf[s])
  BY <1>1, Placement DEF KnownInv
<1> QED BY <1>2, Compares, Zenon

\* It is so where no other subscriber of the stream can have been visited.
LEMMA LowestByGathering == Inv => ComparesLowest
<1> SUFFICES ASSUME Inv, NEW s \in visit, want[StreamOf[s]] # NoOffset
             PROVE  FALSE
  BY Zenon DEF ComparesLowest
<1>1. s \in Subs
  BY ZenonT(30) DEF Inv, TypeOK
<1> QED BY <1>1, Zenon DEF Inv, GatherInv

\* A turn of the inner loop keeps the lowest offset.
LEMMA GatherLowest ==
  ASSUME TypeOK, KnownInv, ComparesLowest, LowestInv, NEW s \in Subs, GatherOffset(s)
  PROVE  /\ UNCHANGED <<pc, offset>>
         /\ visit' = visit \ {s}
         /\ loop' = IF visit' = {} THEN "read" ELSE "gather"
         /\ \A t \in Registered \ visit' : /\ want'[StreamOf[t]] # NoOffset
                                           /\ IdLeq(want'[StreamOf[t]], offset[t])
<1> DEFINE st == StreamOf[s]
           low == want[st]
<1>1. /\ UNCHANGED <<pc, offset>>
      /\ visit' = visit \ {s} /\ loop = "gather"
      /\ want' = [want EXCEPT ![st] = LowestOffset(@, offset[s])]
      /\ loop' = IF visit' = {} THEN "read" ELSE "gather"
  BY Zenon DEF GatherOffset
<1>2. st \in Streams /\ offset[s] \in Known(st) /\ low \in Known(st) \cup {NoOffset}
  BY Placement, ZenonT(30) DEF KnownInv
<1>3. want'[st] = LowestOffset(low, offset[s]) /\ \A x \in Streams : x # st => want'[x] = want[x]
  BY <1>1, <1>2, StreamTyped
<1> HIDE DEF low
<1>4. offset[s] \in Id /\ (low # NoOffset => low \in Id) /\ \A t \in Subs : offset[t] \in Id
  BY <1>2, KnownTyped, SubTyped
<1>5. NoOffset \notin Id
  BY ConstantsAssumption, Zenon
<1>6. low # NoOffset => (offsetLessThan(offset[s], low) <=> IdLess(offset[s], low))
  BY Zenon DEF ComparesLowest, GatherOffset, low
<1>7. want'[st] # NoOffset /\ IdLeq(want'[st], offset[s])
  <2>1. low # NoOffset /\ ~IdLess(offset[s], low) => IdLeq(low, offset[s])
    BY <1>4, IdOrder, Zenon DEF IdLeq
  <2> QED BY <1>3, <1>4, <1>5, <1>6, <2>1, Zenon DEF LowestOffset, IdLeq
<1>8. low # NoOffset => \/ want'[st] = low
                        \/ want'[st] = offset[s] /\ IdLess(offset[s], low)
  BY <1>3, <1>6, Zenon DEF LowestOffset
<1>9. ASSUME NEW t \in Registered \ visit'
      PROVE  want'[StreamOf[t]] # NoOffset /\ IdLeq(want'[StreamOf[t]], offset[t])
  <2>0. t \in Subs /\ StreamOf[t] \in Streams
    BY Placement, Zenon DEF Registered
  <2>1. CASE t = s
    BY <1>7, <2>1, Zenon
  <2>2. CASE t # s
    <3>1. want[StreamOf[t]] # NoOffset /\ IdLeq(want[StreamOf[t]], offset[t])
      BY <1>1, <2>2, Zenon DEF LowestInv
    <3>2. CASE StreamOf[t] # st
      BY <1>3, <2>0, <3>1, <3>2, Zenon
    <3>3. CASE StreamOf[t] = st
      <4>1. low # NoOffset /\ IdLeq(low, offset[t])
        BY <3>1, <3>3, Zenon DEF low
      <4>2. IdLess(offset[s], low) => IdLeq(offset[s], offset[t])
        BY <1>4, <2>0, <4>1, IdOrder DEF IdLeq
      <4> QED BY <1>7, <1>8, <3>3, <4>1, <4>2, Zenon DEF IdLeq
    <3> QED BY <3>2, <3>3, Zenon
  <2> QED BY <2>1, <2>2
<1> QED BY <1>1, <1>9

\* Every step keeps LowestInv.
LEMMA LowestStep ==
  ASSUME TypeOK, KnownInv, ComparesLowest, BusyInv, LowestInv, [Next]_vars
  PROVE  LowestInv'
<1>0. pc \in [Subs -> {"none", "opening", "select", "batch", "exit", "gone"}]
  BY SubTyped
<1>1. ASSUME loop' # "gather" PROVE LowestInv'
  BY <1>1, Zenon DEF LowestInv
<1>2. ASSUME UNCHANGED <<loop, visit, want>>,
             loop = "gather" =>
               \A t \in Subs : t \in Registered' => t \in Registered /\ offset'[t] = offset[t]
      PROVE  LowestInv'
  BY <1>2, Zenon DEF LowestInv, Registered
<1>3. CASE gatherStreamsWithOffsets
  <2>1. visit' = Registered /\ pc' = pc
    BY <1>3, Zenon DEF gatherStreamsWithOffsets
  <2> QED BY <2>1 DEF LowestInv, Registered
<1>4. ASSUME NEW s \in Subs, GatherOffset(s) PROVE LowestInv'
  <2>1. /\ UNCHANGED <<pc, offset>>
        /\ \A t \in Registered \ visit' : /\ want'[StreamOf[t]] # NoOffset
                                          /\ IdLeq(want'[StreamOf[t]], offset[t])
    BY <1>4, GatherLowest
  <2> QED BY <2>1, Zenon DEF LowestInv, Registered
<1>5. CASE \/ XRead \/ XReadNothing \/ EndDispatch \/ Crash
           \/ \E st \in Streams : DispatchStream(st)
           \/ \E s \in Subs : SendToClosed(s) \/ SendBatch(s)
  <2>1. loop' # "gather"
    BY <1>5, Zenon DEF XRead, XReadNothing, EndDispatch, Crash, DispatchStream, SendToClosed, SendBatch
  <2> QED BY <1>1, <2>1, Zenon
<1>6. ASSUME NEW s \in Subs, NewSubscriber(s) PROVE LowestInv'
  <2>1. /\ pc' = [pc EXCEPT ![s] = "opening"] /\ UNCHANGED <<loop, visit, want>>
    BY <1>6, Zenon DEF NewSubscriber
  <2>2. \A t \in Subs : t # s => offset'[t] = offset[t]
    BY <1>6, SubTyped, Zenon DEF NewSubscriber
  <2> QED BY <1>0, <1>2, <2>1, <2>2 DEF Registered
<1>7. ASSUME NEW s \in Subs, newSubscriber(s) \/ Deregister(s) PROVE LowestInv'
  <2>1. loop # "gather" /\ UNCHANGED <<loop, visit, want>>
    BY <1>7 DEF newSubscriber, Deregister, ReadLocked
  <2> QED BY <1>2, <2>1, Zenon
<1>8. ASSUME NEW s \in Subs, ProcessMessage(s) \/ processedLastBatch(s) PROVE LowestInv'
  <2>1. pc[s] = "batch" /\ loop' = loop
    BY <1>8, Zenon DEF ProcessMessage, processedLastBatch
  <2> QED BY <1>1, <2>1 DEF BusyInv
<1>9. ASSUME NEW s \in Subs, ProcessClosed(s) PROVE LowestInv'
  <2>1. /\ pc[s] = "select" /\ pc' = [pc EXCEPT ![s] = "exit"]
        /\ UNCHANGED <<loop, visit, want, offset>>
    BY <1>9, Zenon DEF ProcessClosed
  <2> QED BY <1>0, <1>2, <2>1 DEF Registered
<1>10. ASSUME UNCHANGED <<loop, visit, want, pc, offset>> PROVE LowestInv'
  BY <1>2, <1>10 DEF Registered
<1>11. ASSUME NEW s \in Subs, Messages(s) \/ Close(s) \/ \E m \in unacked[s] : ack(s, m)
       PROVE  LowestInv'
  <2>1. UNCHANGED <<loop, visit, want, pc, offset>>
    BY <1>11, Zenon DEF Messages, Close, ack
  <2> QED BY <1>10, <2>1
<1>12. CASE (\E st \in Streams : Publish(st)) \/ processAcks \/ Trimmer
  <2>1. UNCHANGED <<loop, visit, want, pc, offset>>
    BY <1>12, Zenon
       DEF Publish, processAcks, CoalesceAck, EndCoalesce, ExecAcks, Trimmer,
           TrimStreams, TrimMGetError, TrimMinId, TrimMaxLen
  <2> QED BY <1>10, <2>1
<1>13. CASE UNCHANGED vars
  BY <1>10, <1>13
<1> QED
  BY <1>3, <1>4, <1>5, <1>6, <1>7, <1>8, <1>9, <1>11, <1>12, <1>13, ZenonT(30)
     DEF Next, Reader, Process, Consumer

\* The loop comes from gathering to reading with a last offset.
LEMMA GatheringEnds ==
  ASSUME [Next]_vars, loop = "gather", loop' = "read"
  PROVE  \E s \in Subs : GatherOffset(s)
<1>1. ASSUME loop' = loop PROVE FALSE
  BY <1>1
<1>2. gatherStreamsWithOffsets => FALSE
  BY ZenonT(30) DEF gatherStreamsWithOffsets
<1>3. XRead \/ XReadNothing \/ EndDispatch \/ Crash => FALSE
  BY DEF XRead, XReadNothing, EndDispatch, Crash
<1>4. \A st \in Streams : DispatchStream(st) \/ Publish(st) => loop' = loop
  BY Zenon DEF DispatchStream, Publish
<1>5. \A s \in Subs : SendToClosed(s) \/ SendBatch(s) \/ Process(s) \/ Consumer(s) => loop' = loop
  BY ZenonT(30)
     DEF SendToClosed, SendBatch, Process, ProcessMessage, processedLastBatch, ProcessClosed,
         Deregister, Consumer, NewSubscriber, newSubscriber, Messages, Close, ack
<1>6. processAcks \/ Trimmer => loop' = loop
  BY Zenon
     DEF processAcks, CoalesceAck, EndCoalesce, ExecAcks, Trimmer,
         TrimStreams, TrimMGetError, TrimMinId, TrimMaxLen
<1>7. UNCHANGED vars => loop' = loop
  OBVIOUS
<1> QED BY <1>1, <1>2, <1>3, <1>4, <1>5, <1>6, <1>7, Zenon DEF Next, Reader

\* LowestInv holds if gathering compares as the stream does.
LEMMA LowestHolds == Spec /\ []ComparesLowest => []LowestInv
<1>1. Init => BusyInv /\ LowestInv
  BY DEF Init, BusyInv, LowestInv
<1>2. TypeOK /\ BusyInv /\ [Next]_vars => BusyInv'
  BY BusyStep
<1>3. TypeOK /\ KnownInv /\ ComparesLowest /\ BusyInv /\ LowestInv /\ [Next]_vars => LowestInv'
  BY LowestStep, Zenon
<1> QED BY <1>1, <1>2, <1>3, KnownHolds, TypeCorrect, PTL DEF Spec

\* The last offset gathered leaves the lowest one of each stream.
LEMMA LowestAtTheEnd ==
  ASSUME TypeOK, KnownInv, ComparesLowest, LowestInv, [Next]_vars,
         loop = "gather", loop' = "read"
  PROVE  \A s \in Registered : /\ want'[StreamOf[s]] # NoOffset
                               /\ IdLeq(want'[StreamOf[s]], offset[s])
<1>1. PICK s \in Subs : GatherOffset(s)
  BY GatheringEnds, Zenon
<1>2. /\ loop' = IF visit' = {} THEN "read" ELSE "gather"
      /\ \A t \in Registered \ visit' : /\ want'[StreamOf[t]] # NoOffset
                                        /\ IdLeq(want'[StreamOf[t]], offset[t])
  BY <1>1, GatherLowest, Zenon
<1>3. visit' = {}
  BY <1>2, Zenon
<1> QED BY <1>2, <1>3, Zenon

\* MinimumGathered holds if gathering compares as the stream does.
LEMMA MinimumIfCompared == Spec /\ []ComparesLowest => MinimumGathered
<1>1. TypeOK /\ KnownInv /\ ComparesLowest /\ LowestInv /\ [Next]_vars =>
        [loop = "gather" /\ loop' = "read" =>
           \A s \in Registered : /\ want'[StreamOf[s]] # NoOffset
                                 /\ IdLeq(want'[StreamOf[s]], offset[s])]_vars
  BY LowestAtTheEnd, Zenon
<1> QED BY <1>1, LowestHolds, KnownHolds, TypeCorrect, PTL DEF Spec, MinimumGathered

\* gatherStreamsWithOffsets asks XREAD for what follows the lowest offset of
\* the subscribers of a stream, in whichever order it visits them and whatever
\* they do meanwhile, as long as the messages of a stream are of the same
\* millisecond.
THEOREM LowestGathered == Spec /\ []OneMillisecond => MinimumGathered
  BY LowestByComparison, MinimumIfCompared, KnownHolds, TypeCorrect, PTL

\* With one subscription per stream it asks for what follows that subscriber's
\* offset, for all milliseconds and sequence numbers.
THEOREM LowestForOne ==
  ASSUME OneSubscription
  PROVE  Spec => MinimumGathered
<1>1. Spec => []Inv
  BY InvariantHolds
<1> QED BY <1>1, LowestByGathering, MinimumIfCompared, PTL

-----------------------------------------------------------------------------
(***************************************************************************)
(* Recording.                                                              *)
(***************************************************************************)

\* What is recorded, or is to be, is known.
LEMMA RecordKnown ==
  ASSUME RecordInv, KnownInv, NEW st \in Streams
  PROVE  /\ stored[st] \in Known(st) \cup {NoOffset}
         /\ highest[st] \in Known(st) \cup {NoOffset}
         /\ delivered[st] \subseteq Known(st)
<1>1. delivered[st] \subseteq Known(st)
  BY Zenon DEF KnownInv, Known
<1>2. highest[st] \in delivered[st] \cup {NoOffset}
  BY Zenon DEF RecordInv
<1>3. stored[st] \in delivered[st] \cup {FirstOffset, NoOffset}
  BY Zenon DEF RecordInv, RecordedWasDelivered
<1> QED BY <1>1, <1>2, <1>3 DEF Known

\* ack.lua leaves the higher of the two offsets.
LEMMA ScriptHigher ==
  ASSUME TypeOK, SingleDigits, RecordInv, KnownInv, NEW st \in Streams, highest[st] # NoOffset
  PROVE  LET new == ackScript(stored[st], highest[st])
         IN  /\ new # NoOffset
             /\ IdLeq(highest[st], new)
             /\ stored[st] # NoOffset => IdLeq(stored[st], new)
<1> DEFINE old == stored[st]
           high == highest[st]
<1>1. high \in Known(st) /\ (old # NoOffset => old \in Known(st))
  BY RecordKnown
<1> HIDE DEF old, high
<1>2. high \in Id /\ (old # NoOffset => old \in Id)
  BY <1>1, KnownTyped
<1>3. old # NoOffset => (ackGreater(high, old) <=> IdLess(old, high))
  BY <1>1, AckCompares
<1>4. old # NoOffset /\ ~IdLess(old, high) => IdLeq(high, old)
  BY <1>2, IdOrder DEF IdLeq
<1>5. high # NoOffset
  BY DEF high
<1>6. LET new == ackScript(old, high)
      IN  /\ new # NoOffset
          /\ IdLeq(high, new)
          /\ old # NoOffset => IdLeq(old, new)
  BY <1>3, <1>4, <1>5 DEF ackScript, IdLeq
<1> QED BY <1>6 DEF old, high

\* Only ack.lua writes an offset.
LEMMA RecordedByScript ==
  ASSUME [Next]_vars
  PROVE  \/ stored' = stored
         \/ \E done \in SUBSET AckedStreams, err \in BOOLEAN : ExecAcks(done, err)
<1>1. Reader => stored' = stored
  BY Zenon
     DEF Reader, gatherStreamsWithOffsets, GatherOffset, XRead, XReadNothing, DispatchStream,
         SendBatch, SendToClosed, EndDispatch
<1>2. \A s \in Subs : Process(s) \/ Consumer(s) => stored' = stored
  BY Zenon
     DEF Process, ProcessMessage, processedLastBatch, ProcessClosed, Deregister,
         Consumer, NewSubscriber, newSubscriber, Messages, Close, ack
<1>3. (\E st \in Streams : Publish(st)) \/ Trimmer \/ Crash => stored' = stored
  BY Zenon DEF Publish, Trimmer, TrimStreams, TrimMGetError, TrimMinId, TrimMaxLen, Crash
<1>4. CoalesceAck \/ EndCoalesce => stored' = stored
  BY Zenon DEF CoalesceAck, EndCoalesce
<1>5. UNCHANGED vars => stored' = stored
  OBVIOUS
<1> QED BY <1>1, <1>2, <1>3, <1>4, <1>5, Zenon DEF Next, processAcks

\* The offset recorded for a client's stream never moves back, however many
\* goroutines and processes ack, in whatever order their pipelines reach Redis
\* and whichever fail, as long as sequence numbers have one digit.
THEOREM RecordedOffsetNeverMovesBack == Spec /\ []SingleDigits => OffsetNeverMovesBack
<1>1. TypeOK /\ SingleDigits /\ RecordInv /\ KnownInv /\ [Next]_vars =>
        [\A st \in Streams :
           stored[st] # NoOffset =>
             stored'[st] # NoOffset /\ IdLeq(stored[st], stored'[st])]_vars
  <2> SUFFICES ASSUME TypeOK, SingleDigits, RecordInv, KnownInv, [Next]_vars,
                      NEW st \in Streams, stored[st] # NoOffset
               PROVE  stored'[st] # NoOffset /\ IdLeq(stored[st], stored'[st])
    OBVIOUS
  <2>1. CASE stored'[st] = stored[st]
    BY <2>1, Zenon DEF IdLeq
  <2>2. ASSUME NEW done \in SUBSET AckedStreams, NEW err \in BOOLEAN, ExecAcks(done, err)
        PROVE  stored'[st] # NoOffset /\ IdLeq(stored[st], stored'[st])
    <3>1. stored'[st] = IF st \in done THEN ackScript(stored[st], highest[st]) ELSE stored[st]
      BY <2>2, Zenon DEF ExecAcks
    <3>2. st \in done => highest[st] # NoOffset
      BY Zenon DEF AckedStreams
    <3> QED BY <2>1, <3>1, <3>2, ScriptHigher, Zenon
  <2> QED BY <2>1, <2>2, RecordedByScript, Zenon
<1> QED BY <1>1, KnownHolds, TypeCorrect, PTL DEF Spec, OffsetNeverMovesBack

\* What changes the acks that are coalesced.
LEMMA CoalescedBy ==
  ASSUME [Next]_vars
  PROVE  \/ UNCHANGED <<ackBatch, highest>>
         \/ CoalesceAck
         \/ Crash
         \/ \E done \in SUBSET AckedStreams, err \in BOOLEAN : ExecAcks(done, err)
<1>1. Reader => UNCHANGED <<ackBatch, highest>>
  BY Zenon
     DEF Reader, gatherStreamsWithOffsets, GatherOffset, XRead, XReadNothing, DispatchStream,
         SendBatch, SendToClosed, EndDispatch
<1>2. \A s \in Subs : Process(s) \/ Consumer(s) => UNCHANGED <<ackBatch, highest>>
  BY Zenon
     DEF Process, ProcessMessage, processedLastBatch, ProcessClosed, Deregister,
         Consumer, NewSubscriber, newSubscriber, Messages, Close, ack
<1>3. (\E st \in Streams : Publish(st)) \/ Trimmer => UNCHANGED <<ackBatch, highest>>
  BY Zenon DEF Publish, Trimmer, TrimStreams, TrimMGetError, TrimMinId, TrimMaxLen
<1>4. EndCoalesce => UNCHANGED <<ackBatch, highest>>
  BY Zenon DEF EndCoalesce
<1>5. UNCHANGED vars => UNCHANGED <<ackBatch, highest>>
  OBVIOUS
<1> QED BY <1>1, <1>2, <1>3, <1>4, <1>5, Zenon DEF Next, processAcks

\* Every step keeps HighestInv.
LEMMA HighestStep ==
  ASSUME TypeOK, RecordInv, KnownInv, OneMillisecond, HighestInv, [Next]_vars
  PROVE  HighestInv'
<1>1. CASE UNCHANGED <<ackBatch, highest>>
  BY <1>1, Zenon DEF HighestInv
<1>2. ASSUME ackBatch' = {} PROVE HighestInv'
  BY <1>2, Zenon DEF HighestInv
<1>3. CASE CoalesceAck
  <2> DEFINE h == Head(acks)
             st == StreamOf[h.sub]
             high == highest[st]
  <2>1. /\ acks # <<>> /\ ackBatch' = ackBatch \cup {h}
        /\ highest' = [highest EXCEPT ![st] = HighestOffset(@, h.off)]
    BY <1>3, Zenon DEF CoalesceAck
  <2>2. h \in Ack /\ h = acks[1] /\ 1 \in 1..Len(acks)
    <3>1. acks \in Seq(Ack) /\ acks # <<>>
      BY <2>1, QueueTyped, Zenon
    <3> QED BY ONLY <3>1
  <2>3. st \in Streams /\ h.off \in Known(st)
    <3>1. st \in Streams
      BY <2>2, Placement, Zenon DEF Ack
    <3>2. h.off \in delivered[st]
      BY <2>2, Zenon DEF RecordInv
    <3> QED BY <3>1, <3>2, RecordKnown, Zenon
  <2>4. /\ highest'[st] = HighestOffset(high, h.off)
        /\ \A x \in Streams : x # st => highest'[x] = highest[x]
    BY <2>1, <2>3, QueueTyped, StreamTyped, Zenon
  <2>5. high \in Known(st) \cup {NoOffset}
    BY <2>3, RecordKnown, Zenon
  <2>6. ASSUME NEW a \in ackBatch
        PROVE  /\ StreamOf[a.sub] \in Streams /\ a.off \in Id
               /\ highest[StreamOf[a.sub]] # NoOffset
               /\ IdLeq(a.off, highest[StreamOf[a.sub]])
    BY QueueTyped, StreamTyped, Placement, Zenon DEF Ack, HighestInv
  <2> HIDE DEF h, st, high
  <2>7. h.off \in Id /\ (high # NoOffset => high \in Id) /\ NoOffset \notin Id
    BY <2>3, <2>5, KnownTyped, ConstantsAssumption, Zenon
  <2>8. high # NoOffset => (offsetLessThan(high, h.off) <=> IdLess(high, h.off))
    BY <2>3, <2>5, Compares, Zenon
  <2>9. high # NoOffset /\ ~IdLess(high, h.off) => IdLeq(h.off, high)
    BY <2>7, IdOrder, Zenon DEF IdLeq
  <2>10. highest'[st] # NoOffset /\ IdLeq(h.off, highest'[st])
    BY <2>4, <2>7, <2>8, <2>9, Zenon DEF HighestOffset, IdLeq
  <2>11. high # NoOffset => \/ highest'[st] = high
                            \/ highest'[st] = h.off /\ IdLess(high, h.off)
    BY <2>4, <2>8, Zenon DEF HighestOffset
  <2>12. ASSUME NEW a \in ackBatch'
         PROVE  /\ highest'[StreamOf[a.sub]] # NoOffset
                /\ IdLeq(a.off, highest'[StreamOf[a.sub]])
    <3>1. CASE a = h
      BY <2>10, <3>1, Zenon DEF st
    <3>2. CASE a \in ackBatch /\ StreamOf[a.sub] # st
      BY <2>4, <2>6, <3>2, Zenon
    <3>3. CASE a \in ackBatch /\ StreamOf[a.sub] = st
      <4>1. a.off \in Id /\ high # NoOffset /\ IdLeq(a.off, high)
        BY <2>6, <3>3, ZenonT(30) DEF high
      <4>2. IdLess(high, h.off) => IdLeq(a.off, h.off)
        BY <2>7, <4>1, IdOrder, ZenonT(30) DEF IdLeq
      <4> QED BY <2>10, <2>11, <3>3, <4>1, <4>2, Zenon
    <3> QED BY <2>1, <3>1, <3>2, <3>3, Zenon
  <2> QED BY <2>12, Zenon DEF HighestInv
<1>4. CASE Crash
  BY <1>2, <1>4, Zenon DEF Crash
<1>5. ASSUME NEW done \in SUBSET AckedStreams, NEW err \in BOOLEAN, ExecAcks(done, err)
      PROVE  HighestInv'
  BY <1>2, <1>5, Zenon DEF ExecAcks
<1> QED BY <1>1, <1>3, <1>4, <1>5, CoalescedBy, Zenon

\* A client whose ack is answered without an error is not given that message
\* again: the recorded offset is at or above it after the step that answers
\* it, as long as both comparisons are those of the stream.
THEOREM AnsweredAcksAreRecorded ==
  Spec /\ [](OneMillisecond /\ SingleDigits) => AckRecorded
<1>1. Init => HighestInv
  BY Zenon DEF Init, HighestInv
<1>2. TypeOK /\ RecordInv /\ KnownInv /\ OneMillisecond /\ HighestInv /\ [Next]_vars =>
        HighestInv'
  BY HighestStep, Zenon
<1>3. TypeOK /\ RecordInv /\ KnownInv /\ SingleDigits /\ HighestInv /\ [Next]_vars =>
        [\A a \in ackBatch :
           ackBatch' = {} /\ crashes' = crashes /\ a.off \notin unacked'[a.sub] =>
             /\ stored'[StreamOf[a.sub]] # NoOffset
             /\ IdLeq(a.off, stored'[StreamOf[a.sub]])]_vars
  <2> SUFFICES ASSUME TypeOK, RecordInv, KnownInv, SingleDigits, HighestInv, [Next]_vars,
                      NEW a \in ackBatch,
                      ackBatch' = {}, crashes' = crashes, a.off \notin unacked'[a.sub]
               PROVE  /\ stored'[StreamOf[a.sub]] # NoOffset
                      /\ IdLeq(a.off, stored'[StreamOf[a.sub]])
    OBVIOUS
  <2> DEFINE st == StreamOf[a.sub]
  <2>1. a \in Ack /\ a.sub \in Subs /\ a.off \in Id /\ st \in Streams
    BY QueueTyped, StreamTyped, Placement, ZenonT(30) DEF Ack
  <2>2. ~Crash
    <3>1. crashes \in Nat
      BY Zenon DEF TypeOK
    <3> QED BY <3>1 DEF Crash
  <2>3. ackBatch' # ackBatch /\ ~CoalesceAck
    BY Zenon DEF CoalesceAck
  <2>4. PICK done \in SUBSET AckedStreams, err \in BOOLEAN : ExecAcks(done, err)
    BY <2>2, <2>3, CoalescedBy, Zenon
  <2>5. err => a.off \in unacked'[a.sub]
    BY <2>1, <2>4, Zenon DEF ExecAcks
  <2>6. done = AckedStreams
    BY <2>4, <2>5, Zenon DEF ExecAcks
  <2>7. highest[st] # NoOffset /\ IdLeq(a.off, highest[st])
    BY Zenon DEF HighestInv
  <2>8. stored'[st] = ackScript(stored[st], highest[st])
    BY <2>1, <2>4, <2>6, <2>7, Zenon DEF ExecAcks, AckedStreams
  <2>9. stored'[st] # NoOffset /\ IdLeq(highest[st], stored'[st])
    BY <2>1, <2>7, <2>8, ScriptHigher, Zenon
  <2>10. highest[st] \in Id /\ stored'[st] \in Id
    BY <2>1, <2>7, <2>8, QueueTyped, StreamTyped, Zenon DEF ackScript
  <2>11. IdLeq(a.off, stored'[st])
    BY ONLY <2>1, <2>7, <2>9, <2>10, IdOrder, Zenon DEF IdLeq
  <2> QED BY <2>9, <2>11, ZenonT(30)
<1> QED BY <1>1, <1>2, <1>3, KnownHolds, TypeCorrect, PTL DEF Spec, AckRecorded
=============================================================================

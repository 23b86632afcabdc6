-------------------------- MODULE ForwardingProofs --------------------------
(***************************************************************************)
(* Proofs about Forwarding, for any hosts, messages, times and numbers of  *)
(* faults: the types, and what a step does to the topics; then that a      *)
(* message is passed on before it is acked, and that retries end.          *)
(***************************************************************************)
EXTENDS Forwarding, WellFoundedInduction, TLAPS

USE DEF vars, device, broker, history, time, world

EntrySet == [msg : Messages, first : Nat, last : Nat]

\* What is in a topic stays there.
Grows ==
  \A g \in Hosts, s \in Topics :
    /\ Len(log[g][s]) <= Len(log'[g][s])
    /\ \A pos \in 1..Len(log[g][s]) : log'[g][s][pos] = log[g][s][pos]

-----------------------------------------------------------------------------
\* A bounded set of numbers has a greatest one.
LEMMA Greatest ==
  ASSUME NEW N \in Nat, NEW A, A \subseteq 1..N
  PROVE  \E n \in {0} \cup A : \A p \in A : p <= n
<1> DEFINE T == {N - a : a \in {0} \cup A}
<1>1. T \subseteq Nat /\ T # {}
  OBVIOUS
<1>2. \E x \in T : \A y \in T : ~(<<y, x>> \in OpToRel(<, Nat))
  <2> HIDE DEF T
  <2> QED BY <1>1, NatLessThanWellFounded, WFMin
<1>3. PICK x \in T : \A y \in T : ~(y < x)
  BY <1>1, <1>2, Zenon DEF OpToRel
<1>4. PICK n \in {0} \cup A : x = N - n
  OBVIOUS
<1>5. ASSUME NEW p \in A PROVE p <= n
  <2>1. N - p \in T
    OBVIOUS
  <2>2. ~(N - p < N - n)
    BY <1>3, <1>4, <2>1, Zenon
  <2> QED BY <2>2
<1> QED BY <1>5

\* The recorded offset is that of an entry of the topic, or zero.
LEMMA OffsetInLog ==
  ASSUME LogOK, NEW h \in Hosts, NEW t \in Topics
  PROVE  Offset(h, t) \in 0..Len(log[h][t])
<1>1. Len(log[h][t]) \in Nat /\ acked[h][t] \subseteq 1..Len(log[h][t])
  BY DEF LogOK
<1>2. \E n \in {0} \cup acked[h][t] : \A p \in acked[h][t] : p <= n
  BY <1>1, Greatest, Zenon
<1>3. Offset(h, t) \in {0} \cup acked[h][t]
  BY <1>2 DEF Offset
<1> QED BY <1>1, <1>3

\* Publish adds an entry behind those there are.
LEMMA PublishGrows ==
  ASSUME LogOK, NEW h \in Hosts, NEW t \in Topics, NEW e \in EntrySet,
         Publish(h, t, e)
  PROVE  /\ log' \in [Hosts -> [Topics -> Seq(EntrySet)]]
         /\ Grows
         /\ Len(log'[h][t]) = Len(log[h][t]) + 1
         /\ log'[h][t][Len(log[h][t]) + 1] = e
         /\ \A g \in Hosts, s \in Topics : <<g, s>> # <<h, t>> => log'[g][s] = log[g][s]
<1>1. log \in [Hosts -> [Topics -> Seq(EntrySet)]]
  BY Zenon DEF LogOK, EntrySet
<1>2. log' = [log EXCEPT ![h] = [log[h] EXCEPT ![t] = Append(log[h][t], e)]]
  BY <1>1 DEF Publish
<1>3. /\ log' \in [Hosts -> [Topics -> Seq(EntrySet)]]
      /\ log'[h][t] = Append(log[h][t], e)
      /\ \A g \in Hosts, s \in Topics : <<g, s>> # <<h, t>> => log'[g][s] = log[g][s]
  BY <1>1, <1>2
<1>4. log[h][t] \in Seq(EntrySet)
  BY <1>1
<1>5. /\ Len(log'[h][t]) = Len(log[h][t]) + 1
      /\ log'[h][t][Len(log[h][t]) + 1] = e
      /\ \A pos \in 1..Len(log[h][t]) : log'[h][t][pos] = log[h][t][pos]
  BY <1>3, <1>4
<1>6. ASSUME NEW g \in Hosts, NEW s \in Topics
      PROVE  /\ Len(log[g][s]) <= Len(log'[g][s])
             /\ \A pos \in 1..Len(log[g][s]) : log'[g][s][pos] = log[g][s][pos]
  <2>1. Len(log[g][s]) \in Nat
    BY <1>1
  <2>2. CASE g = h /\ s = t
    BY <1>5, <2>1, <2>2
  <2>3. CASE ~(g = h /\ s = t)
    BY <1>3, <2>1, <2>3
  <2> QED BY <2>2, <2>3
<1> QED BY <1>3, <1>5, <1>6 DEF Grows

\* Without a Publish the topics stay what they are.
LEMMA StaysGrows ==
  ASSUME LogOK, UNCHANGED log
  PROVE  Grows
<1>1. \A g \in Hosts, s \in Topics : Len(log[g][s]) \in Nat
  BY DEF LogOK
<1> QED BY <1>1 DEF Grows

\* The topics, and what is in them.
LEMMA TopicSets ==
  /\ "device" \in Topics /\ "forwarding" \in Topics /\ "forwardingretry" \in Topics
  /\ "device" \notin ForwardingTopics
  /\ ForwardingTopics \subseteq Topics
  BY DEF Topics, ForwardingTopics

\* An entry of a topic has the type of entries.
LEMMA EntryTyped ==
  ASSUME LogOK, NEW h \in Hosts, NEW t \in Topics, NEW pos \in 1..Len(log[h][t])
  PROVE  log[h][t][pos] \in EntrySet
<1>1. log[h][t] \in Seq(EntrySet)
  BY Zenon DEF LogOK, EntrySet
<1> QED BY <1>1

\* So has the entry of a message that has not failed.
LEMMA NewTyped ==
  ASSUME NEW m \in Messages
  PROVE  New(m) \in EntrySet
  BY DEF New, Entry, EntrySet

\* So has an entry marked as failed, which is of the same message.
LEMMA MarkFailedTyped ==
  ASSUME TypeOK, NEW e \in EntrySet
  PROVE  MarkFailed(e) \in EntrySet /\ MarkFailed(e).msg = e.msg
  BY DEF TypeOK, DeviceOK, MarkFailed, Entry, EntrySet

\* A task works on an entry of its topic.
LEMMA TaskEntry ==
  ASSUME TypeOK, NEW k \in tasks
  PROVE  /\ k.host \in Hosts /\ k.topic \in Topics /\ k.topic \in ForwardingTopics
         /\ k.pos \in 1..Len(log[k.host][k.topic])
         /\ EntryOf(k) \in EntrySet
<1>1. /\ k.host \in Hosts /\ k.topic \in ForwardingTopics
      /\ k.pos \in 1..Len(log[k.host][k.topic])
  BY DEF TypeOK, TasksOK
<1>2. k.topic \in Topics
  BY <1>1, TopicSets
<1> QED BY <1>1, <1>2, EntryTyped DEF EntryOf, TypeOK

\* Publish keeps the types of the topics.
LEMMA LogAfterPublish ==
  ASSUME LogOK, NEW h \in Hosts, NEW t \in Topics, NEW e \in EntrySet,
         Publish(h, t, e), UNCHANGED <<cursor, acked>>
  PROVE  LogOK' /\ Grows
<1>1. log' \in [Hosts -> [Topics -> Seq(EntrySet)]] /\ Grows
  BY PublishGrows
<1>2. \A g \in Hosts, s \in Topics :
        /\ Len(log[g][s]) \in Nat /\ Len(log'[g][s]) \in Nat
        /\ Len(log[g][s]) <= Len(log'[g][s])
        /\ cursor[g][s] \in Nat
        /\ cursor[g][s] <= Len(log[g][s]) /\ acked[g][s] \subseteq 1..Len(log[g][s])
  BY <1>1 DEF LogOK, Grows
<1>3. ASSUME NEW g \in Hosts, NEW s \in Topics
      PROVE  /\ cursor[g][s] <= Len(log'[g][s])
             /\ acked[g][s] \subseteq 1..Len(log'[g][s])
  <2>1. 1..Len(log[g][s]) \subseteq 1..Len(log'[g][s])
    BY <1>2
  <2> QED BY <1>2, <2>1
<1> QED BY <1>1, <1>3, Zenon DEF LogOK, EntrySet

\* So does the ack of an entry there is, with or without a move of the cursor.
LEMMA LogAfterAck ==
  ASSUME LogOK, NEW h \in Hosts, NEW t \in Topics, NEW pos \in 1..Len(log[h][t]),
         UNCHANGED log,
         acked' = acked \/ Ack(h, t, pos),
         cursor' \in [Hosts -> [Topics -> Nat]],
         \A g \in Hosts, s \in Topics : cursor'[g][s] <= Len(log[g][s])
  PROVE  LogOK'
<1>1. CASE acked' = acked
  BY <1>1, Zenon DEF LogOK
<1>2. CASE Ack(h, t, pos)
  <2>1. pos \in Nat
    BY DEF LogOK
  <2>2. acked' = [acked EXCEPT ![h] = [acked[h] EXCEPT ![t] = acked[h][t] \cup {pos}]]
    BY <1>2 DEF Ack, LogOK
  <2>3. acked' \in [Hosts -> [Topics -> SUBSET Nat]]
    BY <2>1, <2>2 DEF LogOK
  <2>4. \A g \in Hosts, s \in Topics :
          acked'[g][s] = acked[g][s] \/ (g = h /\ s = t /\ acked'[g][s] = acked[g][s] \cup {pos})
    BY <2>2 DEF LogOK
  <2>5. ASSUME NEW g \in Hosts, NEW s \in Topics
        PROVE  acked'[g][s] \subseteq 1..Len(log[g][s])
    <3>1. acked[g][s] \subseteq 1..Len(log[g][s])
      BY DEF LogOK
    <3> QED BY <2>4, <3>1
  <2> QED BY <2>3, <2>5, Zenon DEF LogOK
<1> QED BY <1>1, <1>2

\* So does a move of the cursor alone.
LEMMA LogAfterCursor ==
  ASSUME LogOK, UNCHANGED <<log, acked>>,
         cursor' \in [Hosts -> [Topics -> Nat]],
         \A g \in Hosts, s \in Topics : cursor'[g][s] <= Len(log[g][s])
  PROVE  LogOK'
  BY Zenon DEF LogOK

\* A cursor that moves to an entry there is stays within its topic.
LEMMA CursorMoves ==
  ASSUME LogOK, NEW h \in Hosts, NEW t \in Topics, NEW pos \in Nat,
         pos <= Len(log[h][t]), cursor' = [cursor EXCEPT ![h][t] = pos]
  PROVE  /\ cursor' \in [Hosts -> [Topics -> Nat]]
         /\ cursor'[h][t] = pos
         /\ \A g \in Hosts, s \in Topics : cursor'[g][s] <= Len(log[g][s])
<1>1. cursor \in [Hosts -> [Topics -> Nat]]
  BY DEF LogOK
<1>2. /\ cursor' \in [Hosts -> [Topics -> Nat]]
      /\ cursor'[h][t] = pos
      /\ \A g \in Hosts, s \in Topics : cursor'[g][s] = cursor[g][s] \/ (g = h /\ s = t)
  BY <1>1
<1>3. ASSUME NEW g \in Hosts, NEW s \in Topics PROVE cursor'[g][s] <= Len(log[g][s])
  <2>1. cursor[g][s] <= Len(log[g][s])
    BY DEF LogOK
  <2> QED BY <1>2, <2>1
<1> QED BY <1>2, <1>3

\* A topic that only grows is not shorter afterwards.
LEMMA Longer ==
  ASSUME LogOK, LogOK', Grows, NEW h \in Hosts, NEW t \in Topics
  PROVE  /\ Len(log[h][t]) \in Nat /\ Len(log'[h][t]) \in Nat
         /\ Len(log[h][t]) <= Len(log'[h][t])
<1>1. Len(log[h][t]) \in Nat
  BY DEF LogOK
<1>2. Len(log'[h][t]) \in Nat
  BY DEF LogOK
<1> QED BY <1>1, <1>2 DEF Grows

\* A step that leaves the broker alone.
LEMMA LogStays ==
  ASSUME LogOK, UNCHANGED broker
  PROVE  LogOK' /\ Grows
  BY StaysGrows, Zenon DEF LogOK

\* Every step keeps the topics, adding to them only.
LEMMA LogStep ==
  ASSUME TypeOK, [Next]_vars
  PROVE  LogOK' /\ Grows
<1> USE TopicSets
<1>0. LogOK
  BY DEF TypeOK
<1>1. ASSUME NEW r \in requests, PublishOutbound(r) PROVE LogOK' /\ Grows
  <2>1. r.host \in Hosts /\ r.msg \in Messages /\ r.pc \in Topics
    BY <1>1 DEF TypeOK, RequestsOK, PublishOutbound
  <2>2. CASE Publish(r.host, r.pc, New(r.msg))
    BY <1>0, <1>1, <2>1, <2>2, NewTyped, LogAfterPublish DEF PublishOutbound
  <2>3. CASE UNCHANGED log
    BY <1>0, <1>1, <2>3, LogStays DEF PublishOutbound
  <2> QED BY <1>1, <2>2, <2>3 DEF PublishOutbound
<1>2. ASSUME NEW k \in tasks, PublishLocally(k) \/ failMessage(k)
      PROVE  LogOK' /\ Grows
  <2>1. k.host \in Hosts /\ EntryOf(k) \in EntrySet /\ EntryOf(k).msg \in Messages
    BY TaskEntry DEF EntrySet
  <2>2. CASE Publish(k.host, "device", New(EntryOf(k).msg))
    BY <1>0, <1>2, <2>1, <2>2, NewTyped, LogAfterPublish DEF PublishLocally, failMessage
  <2>3. CASE Publish(k.host, "forwardingretry", MarkFailed(EntryOf(k)))
    BY <1>0, <1>2, <2>1, <2>3, MarkFailedTyped, LogAfterPublish
       DEF PublishLocally, failMessage
  <2>4. CASE UNCHANGED log
    BY <1>0, <1>2, <2>4, LogStays DEF PublishLocally, failMessage
  <2> QED BY <1>2, <2>2, <2>3, <2>4 DEF PublishLocally, failMessage
<1>3. ASSUME NEW h \in Hosts, TransferMessage(h) PROVE LogOK' /\ Grows
  <2>1. transfer[h].pos + 1 \in 1..Len(log[h]["device"])
    BY <1>3 DEF TypeOK, TransferOK, TransferMessage
  <2>2. log[h]["device"][transfer[h].pos + 1].msg \in Messages
    BY <1>0, <2>1, EntryTyped DEF EntrySet
  <2>3. CASE Publish(h, "forwarding", New(log[h]["device"][transfer[h].pos + 1].msg))
    BY <1>0, <1>3, <2>2, <2>3, NewTyped, LogAfterPublish DEF TransferMessage
  <2>4. CASE UNCHANGED log
    BY <1>0, <1>3, <2>4, LogStays DEF TransferMessage
  <2> QED BY <1>3, <2>3, <2>4 DEF TransferMessage
<1>4. ASSUME NEW k \in tasks, AckTask(k) PROVE LogOK' /\ Grows
  <2>1. /\ UNCHANGED <<log, cursor>>
        /\ acked' = acked \/ Ack(k.host, k.topic, k.pos)
    BY <1>4 DEF AckTask
  <2>2. /\ cursor' \in [Hosts -> [Topics -> Nat]]
        /\ \A g \in Hosts, s \in Topics : cursor'[g][s] <= Len(log[g][s])
    BY <1>0, <2>1 DEF LogOK
  <2> QED BY <1>0, <2>1, <2>2, TaskEntry, LogAfterAck, StaysGrows
<1>5. ASSUME NEW h \in Hosts, TransferAck(h) PROVE LogOK' /\ Grows
  <2>1. /\ UNCHANGED <<log, cursor>>
        /\ acked' = acked \/ Ack(h, "device", transfer[h].pos)
    BY <1>5 DEF TransferAck
  <2>2. /\ cursor' \in [Hosts -> [Topics -> Nat]]
        /\ \A g \in Hosts, s \in Topics : cursor'[g][s] <= Len(log[g][s])
    BY <1>0, <2>1, Zenon DEF LogOK
  <2>3. transfer[h].pos \in 1..Len(log[h]["device"])
    BY <1>5 DEF TypeOK, TransferOK, TransferAck
  <2> QED BY <1>0, <2>1, <2>2, <2>3, LogAfterAck, StaysGrows
<1>6. ASSUME NEW h \in Hosts, ReceiveMessage(h) PROVE LogOK' /\ Grows
  <2> DEFINE pos == cursor[h]["device"] + 1
  <2>1. pos \in 1..Len(log[h]["device"]) /\ pos \in Nat /\ pos <= Len(log[h]["device"])
    BY <1>0, <1>6 DEF LogOK, ReceiveMessage
  <2>2. cursor' = [cursor EXCEPT ![h]["device"] = pos]
    BY <1>0, <1>6 DEF LogOK, ReceiveMessage
  <2> HIDE DEF pos
  <2>3. /\ cursor' \in [Hosts -> [Topics -> Nat]]
        /\ cursor'[h]["device"] = pos
        /\ \A g \in Hosts, s \in Topics : cursor'[g][s] <= Len(log[g][s])
    BY <1>0, <2>1, <2>2, CursorMoves, Zenon
  <2> QED BY <1>0, <1>6, <2>1, <2>3, LogAfterAck, StaysGrows DEF ReceiveMessage
<1>7. ASSUME NEW h \in Hosts, NEW t \in ForwardingTopics, forwardMessage(h, t)
      PROVE  LogOK' /\ Grows
  <2> DEFINE pos == cursor[h][t] + 1
  <2>1. pos <= Len(log[h][t]) /\ pos \in Nat
    <3>1. cursor[h][t] \in Nat
      BY <1>0 DEF LogOK
    <3>2. cursor[h][t] + 1 <= Len(log[h][t])
      BY <1>7 DEF forwardMessage
    <3> QED BY <3>1, <3>2
  <2>2. cursor' = [cursor EXCEPT ![h][t] = pos]
    BY <1>7 DEF forwardMessage
  <2> HIDE DEF pos
  <2>3. /\ cursor' \in [Hosts -> [Topics -> Nat]]
        /\ \A g \in Hosts, s \in Topics : cursor'[g][s] <= Len(log[g][s])
    BY <1>0, <2>1, <2>2, CursorMoves, Zenon
  <2> QED BY <1>0, <1>7, <2>3, LogAfterCursor, StaysGrows DEF forwardMessage
<1>8. ASSUME NEW h \in Hosts, Announce(h) PROVE LogOK' /\ Grows
  <2> DEFINE pos == Offset(h, "device")
  <2>1. pos <= Len(log[h]["device"]) /\ pos \in Nat
    <3>1. Len(log[h]["device"]) \in Nat
      BY <1>0 DEF LogOK
    <3>2. pos \in 0..Len(log[h]["device"])
      BY <1>0, OffsetInLog
    <3> QED BY <3>1, <3>2
  <2>2. cursor' = [cursor EXCEPT ![h]["device"] = pos]
    BY <1>8 DEF Announce
  <2> HIDE DEF pos
  <2>3. /\ cursor' \in [Hosts -> [Topics -> Nat]]
        /\ \A g \in Hosts, s \in Topics : cursor'[g][s] <= Len(log[g][s])
    BY <1>0, <2>1, <2>2, CursorMoves, Zenon
  <2> QED BY <1>0, <1>8, <2>3, LogAfterCursor, StaysGrows DEF Announce
<1>9. ASSUME NEW h \in Hosts, Restart(h) PROVE LogOK' /\ Grows
  <2> DEFINE from == [t \in Topics |-> Offset(h, t)]
  <2>1. ASSUME NEW t \in Topics PROVE from[t] \in Nat /\ from[t] <= Len(log[h][t])
    <3>1. Len(log[h][t]) \in Nat
      BY <1>0 DEF LogOK
    <3> QED BY <1>0, <3>1, OffsetInLog
  <2>2. from \in [Topics -> Nat]
    BY <2>1
  <2>3. cursor' = [cursor EXCEPT ![h] = from]
    BY <1>9 DEF Restart
  <2> HIDE DEF from
  <2>4. /\ cursor' \in [Hosts -> [Topics -> Nat]]
        /\ \A g \in Hosts, s \in Topics : cursor'[g][s] <= Len(log[g][s])
    BY <1>0, <2>1, <2>2, <2>3, Zenon DEF LogOK
  <2> QED BY <1>0, <1>9, <2>4, LogAfterCursor, StaysGrows DEF Restart
<1>10. CASE UNCHANGED broker
  BY <1>0, <1>10, LogStays
<1> QED
  BY <1>1, <1>2, <1>3, <1>4, <1>5, <1>6, <1>7, <1>8, <1>9, <1>10, Zenon
     DEF Next, System, forwardMessages, Find, triggerCallbackFor, Forward,
         StartTransfer, TransferEnds, Unregister, RegisterDevice, Tick, ClientSends,
         ConnectionBreaks, Crash

-----------------------------------------------------------------------------
TaskOK(k) ==
  /\ k \in [host : Hosts, topic : ForwardingTopics, pos : Nat, to : Hosts \cup {None},
            pc : {"local", "forward", "waiting", "fail", "ack"}]
  /\ k.pos \in 1..Len(log[k.host][k.topic])
  /\ k.pc = "forward" => k.to \in Hosts

\* A task stays about an entry there is, whatever its next step.
LEMMA TaskMoves ==
  ASSUME TypeOK, Grows, LogOK', NEW k \in tasks
  PROVE  /\ TaskOK(k)'
         /\ \A pc \in {"waiting", "fail", "ack"} : TaskOK([k EXCEPT !.pc = pc])'
<1>1. TaskOK(k)
  BY DEF TypeOK, TasksOK, TaskOK
<1>2. k.host \in Hosts /\ k.topic \in Topics
  BY TaskEntry
<1>3. /\ Len(log[k.host][k.topic]) \in Nat /\ Len(log'[k.host][k.topic]) \in Nat
      /\ Len(log[k.host][k.topic]) <= Len(log'[k.host][k.topic])
  BY <1>2, Longer DEF TypeOK
<1>4. k.pos \in 1..Len(log'[k.host][k.topic])
  <2>1. k.pos \in Nat /\ 1 <= k.pos /\ k.pos <= Len(log[k.host][k.topic])
    BY <1>1, <1>3 DEF TaskOK
  <2> QED BY <1>3, <2>1
<1> QED BY <1>1, <1>4 DEF TaskOK

\* Every step keeps each task about an entry there is.
LEMMA TasksStep ==
  ASSUME TypeOK, Grows, LogOK', [Next]_vars
  PROVE  TasksOK'
<1>0. SUFFICES ASSUME NEW k \in tasks' PROVE TaskOK(k)'
  BY DEF TasksOK, TaskOK
<1>1. ASSUME NEW j \in tasks, NEW pc \in {"waiting", "fail", "ack"}, Go(j, pc)
      PROVE  TaskOK(k)'
  BY <1>1, TaskMoves, Zenon DEF Go
<1>2. ASSUME NEW j \in tasks,
             PublishLocally(j) \/ Forward(j) \/ failMessage(j) \/ AckTask(j)
      PROVE  TaskOK(k)'
  <2>1. \/ Go(j, "waiting") \/ Go(j, "fail") \/ Go(j, "ack")
        \/ tasks' = tasks \ {j}
    BY <1>2 DEF PublishLocally, Forward, failMessage, AckTask
  <2> QED BY <2>1, <1>1, TaskMoves, Zenon
<1>3. ASSUME NEW h \in Hosts, NEW t \in ForwardingTopics, forwardMessage(h, t)
      PROVE  TaskOK(k)'
  <2> DEFINE new == [host |-> h, topic |-> t, pos |-> cursor[h][t] + 1, to |-> presence,
                     pc |-> IF presence = None THEN "fail"
                            ELSE IF presence = h THEN "local" ELSE "forward"]
  <2>1. CASE k \in tasks
    BY <2>1, TaskMoves, Zenon
  <2>2. CASE k = new
    <3>1. presence \in Hosts \cup {None}
      BY DEF TypeOK, DeviceOK
    <3>2. h \in Hosts /\ t \in Topics /\ cursor[h][t] \in Nat /\ UNCHANGED log
          /\ cursor[h][t] + 1 <= Len(log[h][t]) /\ Len(log[h][t]) \in Nat
      BY <1>3, TopicSets DEF TypeOK, LogOK, forwardMessage
    <3>3. /\ k.host = h /\ k.topic = t /\ k.pos = cursor[h][t] + 1 /\ k.to = presence
          /\ k.pc \in {"fail", "local", "forward"}
          /\ k.pc = "forward" => presence # None
      BY <2>2, Zenon
    <3>4. k.pos \in Nat /\ k.pos \in 1..Len(log'[h][t])
      BY ONLY <3>2, <3>3, SMTT(20)
    <3>5. k \in [host : Hosts, topic : ForwardingTopics, pos : Nat, to : Hosts \cup {None},
                 pc : {"local", "forward", "waiting", "fail", "ack"}]
      BY ONLY h \in Hosts, t \in ForwardingTopics, <2>2, <3>1, <3>2
    <3> HIDE DEF new
    <3> QED BY <3>1, <3>3, <3>4, <3>5, Zenon DEF TaskOK
  <2> QED BY <1>3, <2>1, <2>2 DEF forwardMessage
<1>4. ASSUME NEW r \in requests, triggerCallbackFor(r) PROVE TaskOK(k)'
  <2>1. PICK j \in tasks : k = j \/ k = [j EXCEPT !.pc = "ack"] \/ k = [j EXCEPT !.pc = "fail"]
    BY <1>4 DEF triggerCallbackFor
  <2> QED BY <2>1, TaskMoves, Zenon
<1>5. CASE tasks' \subseteq tasks
  BY <1>5, TaskMoves, Zenon
<1> QED
  BY <1>2, <1>3, <1>4, <1>5, Zenon
     DEF Next, System, forwardMessages, Find, PublishOutbound, ReceiveMessage,
         StartTransfer, TransferMessage, TransferAck, TransferEnds, Unregister,
         Restart, RegisterDevice, Tick, ClientSends, Announce, ConnectionBreaks, Crash

-----------------------------------------------------------------------------
RequestOK(r) ==
  /\ r \in [msg : Messages, host : Hosts,
            from : {Client, Gone} \cup (Hosts \X ForwardingTopics \X Nat),
            pc : {"find", "device", "forwarding", "ack", "error"}]
  /\ \/ r.from \in {Client, Gone}
     \/ \E h \in Hosts, t \in ForwardingTopics : \E pos \in 1..Len(log[h][t]) :
          r.from = <<h, t, pos>> /\ log[h][t][pos].msg = r.msg

\* A request stays about the entry it is from, whatever its next step.
LEMMA RequestMoves ==
  ASSUME TypeOK, Grows, NEW r \in requests
  PROVE  /\ RequestOK(r)'
         /\ \A pc \in {"find", "device", "forwarding", "ack", "error"} :
              RequestOK([r EXCEPT !.pc = pc])'
         /\ RequestOK([r EXCEPT !.from = Gone])'
<1>1. RequestOK(r)
  BY DEF TypeOK, RequestsOK, RequestOK
<1>2. ASSUME NEW h \in Hosts, NEW t \in ForwardingTopics, NEW pos \in 1..Len(log[h][t])
      PROVE  pos \in 1..Len(log'[h][t]) /\ log'[h][t][pos] = log[h][t][pos]
  <2>1. t \in Topics /\ Len(log[h][t]) \in Nat
    BY TopicSets DEF TypeOK, LogOK
  <2> QED BY <2>1 DEF Grows
<1>3. \/ r.from \in {Client, Gone}
      \/ \E h \in Hosts, t \in ForwardingTopics : \E pos \in 1..Len(log'[h][t]) :
           r.from = <<h, t, pos>> /\ log'[h][t][pos].msg = r.msg
  BY <1>1, <1>2 DEF RequestOK
<1> QED BY <1>1, <1>3 DEF RequestOK

\* Every step keeps each request about the message of the entry it is from.
LEMMA RequestsStep ==
  ASSUME TypeOK, Grows, [Next]_vars
  PROVE  RequestsOK'
<1>0. SUFFICES ASSUME NEW r \in requests' PROVE RequestOK(r)'
  BY DEF RequestsOK, RequestOK
<1>1. CASE r \in requests
  BY <1>1, RequestMoves, Zenon
<1>2. ASSUME NEW q \in requests, Find(q) \/ PublishOutbound(q) \/ triggerCallbackFor(q)
      PROVE  RequestOK(r)'
  <2>1. \/ requests' = requests \ {q}
        \/ \E pc \in {"find", "device", "forwarding", "ack", "error"} : Step(q, pc)
    BY <1>2 DEF Find, PublishOutbound, triggerCallbackFor, Answer
  <2> QED BY <2>1, RequestMoves, Zenon DEF Step
<1>3. ASSUME NEW k \in tasks, Forward(k) PROVE RequestOK(r)'
  <2>1. CASE r = Request(EntryOf(k).msg, k.to, Id(k))
    <3>1. k.to \in Hosts /\ EntryOf(k).msg \in Messages /\ UNCHANGED log
      BY <1>3, TaskEntry DEF Forward, TypeOK, TasksOK, EntrySet
    <3>2. /\ k.host \in Hosts /\ k.topic \in ForwardingTopics
          /\ k.pos \in Nat /\ k.pos \in 1..Len(log[k.host][k.topic])
      BY TaskEntry DEF TypeOK, TasksOK
    <3>3. /\ r.from = <<k.host, k.topic, k.pos>> /\ r.msg = log[k.host][k.topic][k.pos].msg
          /\ r.host = k.to /\ r.pc = "find"
      BY <2>1 DEF Request, Id, EntryOf
    <3>4. r \in [msg : Messages, host : Hosts,
                 from : {Client, Gone} \cup (Hosts \X ForwardingTopics \X Nat),
                 pc : {"find", "device", "forwarding", "ack", "error"}]
      BY <2>1, <3>1, <3>2 DEF Request, Id
    <3> QED BY <3>1, <3>2, <3>3, <3>4, ZenonT(30) DEF RequestOK
  <2> QED BY <1>1, <1>3, <2>1, Zenon DEF Forward, write
<1>4. ASSUME NEW h \in Hosts, NEW m \in Messages, ClientSends(h, m) PROVE RequestOK(r)'
  <2>1. RequestOK(Request(m, h, Client))'
    BY DEF RequestOK, Request
  <2> QED BY <1>1, <1>4, <2>1 DEF ClientSends
<1>5. ASSUME NEW h \in Hosts, Crash(h) \/ \E g \in Hosts : ConnectionBreaks(h, g)
      PROVE  RequestOK(r)'
  <2>1. r \in requests \/ \E q \in requests : r = [q EXCEPT !.from = Gone]
    BY <1>5 DEF Crash, ConnectionBreaks, Orphaned, From
  <2> QED BY <2>1, RequestMoves, Zenon
<1>6. CASE UNCHANGED requests
  BY <1>1, <1>6
<1> QED
  BY <1>2, <1>3, <1>4, <1>5, <1>6, Zenon
     DEF Next, System, forwardMessages, forwardMessage, PublishLocally, failMessage,
         AckTask, ReceiveMessage, StartTransfer, TransferMessage, TransferAck,
         TransferEnds, Unregister, Restart, RegisterDevice, Tick, Announce

-----------------------------------------------------------------------------
\* A transfer that moves to an entry of the topic.
LEMMA TransferMoves ==
  ASSUME TypeOK, Grows, LogOK', NEW h \in Hosts,
         NEW pc \in {"idle", "drain", "ack", "unregister"},
         NEW pos \in Nat, pos <= Len(log[h]["device"]), pc = "ack" => pos > 0,
         Transfer(h, pc, pos)
  PROVE  TransferOK'
<1>1. /\ transfer' \in [Hosts -> [pc : {"idle", "drain", "ack", "unregister"}, pos : Nat]]
      /\ transfer'[h] = [pc |-> pc, pos |-> pos]
      /\ \A g \in Hosts : g = h \/ transfer'[g] = transfer[g]
  BY DEF TypeOK, TransferOK, Transfer
<1>2. ASSUME NEW g \in Hosts
      PROVE  /\ transfer'[g].pos <= Len(log'[g]["device"])
             /\ transfer'[g].pc = "ack" => transfer'[g].pos > 0
  <2>1. /\ Len(log[g]["device"]) \in Nat /\ Len(log'[g]["device"]) \in Nat
        /\ Len(log[g]["device"]) <= Len(log'[g]["device"])
    BY TopicSets, Longer DEF TypeOK
  <2>2. /\ transfer[g].pos \in Nat /\ transfer[g].pos <= Len(log[g]["device"])
        /\ transfer[g].pc = "ack" => transfer[g].pos > 0
    BY DEF TypeOK, TransferOK
  <2>3. CASE g = h
    BY <1>1, <2>1, <2>3
  <2>4. CASE g # h
    BY <1>1, <2>1, <2>2, <2>4
  <2> QED BY <2>3, <2>4
<1> QED BY <1>1, <1>2 DEF TransferOK

\* TransferMessage is about an entry there is.
LEMMA NextToTransfer ==
  ASSUME TransferOK, NEW h \in Hosts, TransferMessage(h)
  PROVE  /\ transfer[h].pos + 1 \in Nat /\ transfer[h].pos + 1 > 0
         /\ transfer[h].pos + 1 <= Len(log[h]["device"])
         /\ transfer[h].pos + 1 \in 1..Len(log[h]["device"])
<1>1. transfer[h].pos \in Nat
  BY Zenon DEF TransferOK
<1>2. transfer[h].pos + 1 <= Len(log[h]["device"])
  BY DEF TransferMessage
<1> QED BY <1>1, <1>2

\* A transfer that does not move.
LEMMA TransferStays ==
  ASSUME TypeOK, Grows, LogOK', UNCHANGED transfer
  PROVE  TransferOK'
<1>1. ASSUME NEW g \in Hosts PROVE transfer[g].pos <= Len(log'[g]["device"])
  <2>1. /\ Len(log[g]["device"]) \in Nat /\ Len(log'[g]["device"]) \in Nat
        /\ Len(log[g]["device"]) <= Len(log'[g]["device"])
    BY TopicSets, Longer DEF TypeOK
  <2>2. transfer[g].pos \in Nat /\ transfer[g].pos <= Len(log[g]["device"])
    BY DEF TypeOK, TransferOK
  <2> QED BY <2>1, <2>2
<1> QED BY <1>1 DEF TypeOK, TransferOK

\* Every step keeps the transfers within their topics.
LEMMA TransferStep ==
  ASSUME TypeOK, Grows, LogOK', [Next]_vars
  PROVE  TransferOK'
<1>1. ASSUME NEW h \in Hosts, Transfer(h, "idle", 0) \/ Transfer(h, "unregister", 0)
      PROVE  TransferOK'
  <2>1. 0 <= Len(log[h]["device"]) /\ 0 \in Nat
    BY TopicSets DEF TypeOK, LogOK
  <2> QED BY <1>1, <2>1, TransferMoves
<1>2. ASSUME NEW h \in Hosts, StartTransfer(h) PROVE TransferOK'
  <2>1. LogOK /\ "device" \in Topics
    BY TopicSets DEF TypeOK
  <2>2. Offset(h, "device") \in 0..Len(log[h]["device"])
    BY <2>1, OffsetInLog
  <2>3. Len(log[h]["device"]) \in Nat
    BY <2>1 DEF LogOK
  <2>4. Offset(h, "device") \in Nat /\ Offset(h, "device") <= Len(log[h]["device"])
    BY <2>2, <2>3
  <2> QED BY <1>2, <2>4, TransferMoves DEF StartTransfer
<1>3. ASSUME NEW h \in Hosts, TransferMessage(h) PROVE TransferOK'
  <2>1. /\ transfer[h].pos + 1 \in Nat /\ transfer[h].pos + 1 > 0
        /\ transfer[h].pos + 1 <= Len(log[h]["device"])
    BY <1>3, NextToTransfer DEF TypeOK
  <2> QED BY <1>1, <1>3, <2>1, TransferMoves DEF TransferMessage
<1>4. ASSUME NEW h \in Hosts, TransferAck(h) PROVE TransferOK'
  <2>1. transfer[h].pos \in Nat /\ transfer[h].pos <= Len(log[h]["device"])
    BY DEF TypeOK, TransferOK
  <2> QED BY <1>4, <2>1, TransferMoves DEF TransferAck
<1>5. ASSUME NEW h \in Hosts, TransferEnds(h) \/ Unregister(h) \/ Crash(h)
      PROVE  TransferOK'
  BY <1>1, <1>5 DEF TransferEnds, Unregister, Crash
<1>6. CASE UNCHANGED transfer
  BY <1>6, TransferStays
<1> QED
  BY <1>2, <1>3, <1>4, <1>5, <1>6, Zenon
     DEF Next, System, forwardMessages, forwardMessage, Find, PublishOutbound,
         triggerCallbackFor, PublishLocally, Forward, failMessage, AckTask,
         ReceiveMessage, Restart, RegisterDevice, Tick, ClientSends, Announce,
         ConnectionBreaks

\* The variables of the device, the connections, the clock and the counters.
LEMMA DeviceStep ==
  ASSUME TypeOK, [Next]_vars
  PROVE  DeviceOK'
<1>0. DeviceOK
  BY DEF TypeOK
<1>1. ASSUME NEW h \in Hosts, Announce(h) PROVE DeviceOK'
  BY <1>0, <1>1 DEF DeviceOK, Announce
<1>2. CASE RegisterDevice
  BY <1>0, <1>2 DEF DeviceOK, RegisterDevice, Fault
<1>3. ASSUME NEW h \in Hosts, Unregister(h) PROVE DeviceOK'
  BY <1>0, <1>3 DEF DeviceOK, Unregister, Fault
<1>4. ASSUME NEW h \in Hosts, Crash(h) PROVE DeviceOK'
  <2>1. conns' \in [Hosts -> [Hosts -> {"none", "open", "dead"}]]
    BY <1>0, <1>4 DEF DeviceOK, Crash
  <2> QED BY <1>0, <1>4, <2>1 DEF DeviceOK, Crash, Fault
<1>5. ASSUME NEW h \in Hosts, Restart(h) PROVE DeviceOK'
  BY <1>0, <1>5 DEF DeviceOK, Restart
<1>6. ASSUME NEW h \in Hosts, NEW g \in Hosts, ConnectionBreaks(h, g) PROVE DeviceOK'
  BY <1>0, <1>6 DEF DeviceOK, ConnectionBreaks, Fault
<1>7. ASSUME NEW k \in tasks, Forward(k) PROVE DeviceOK'
  <2>1. k.host \in Hosts /\ k.to \in Hosts
    BY <1>7, Zenon DEF TypeOK, TasksOK, Forward
  <2>2. conns' \in [Hosts -> [Hosts -> {"none", "open", "dead"}]]
    <3>1. UNCHANGED conns \/ Connect(k.host, k.to)
      BY <1>7, Zenon DEF Forward
    <3> QED BY <1>0, <2>1, <3>1 DEF DeviceOK, Connect
  <2> QED BY <1>0, <1>7, <2>2 DEF DeviceOK, Forward, Fault
<1>8. CASE Tick
  <2>1. clock' = clock + 1 /\ UNCHANGED <<device, conns, down, faults>>
    BY <1>8 DEF Tick
  <2> QED BY <1>0, <2>1 DEF DeviceOK
<1>9. CASE UNCHANGED <<device, conns, time>> /\ (faults' = faults \/ faults' = faults + 1)
  BY <1>0, <1>9 DEF DeviceOK
<1> QED
  BY <1>1, <1>2, <1>3, <1>4, <1>5, <1>6, <1>7, <1>8, <1>9, ZenonT(30)
     DEF Next, System, forwardMessages, forwardMessage, Find, PublishOutbound,
         triggerCallbackFor, PublishLocally, failMessage, AckTask, ReceiveMessage,
         StartTransfer, TransferMessage, TransferAck, TransferEnds, ClientSends, Fault

\* The types hold initially.
LEMMA TypeInit == Init => TypeOK
<1> SUFFICES ASSUME Init PROVE TypeOK
  OBVIOUS
<1>1. DeviceOK /\ TasksOK /\ RequestsOK
  BY DEF Init, DeviceOK, TasksOK, RequestsOK
<1>2. LogOK /\ TransferOK
  BY TopicSets DEF Init, LogOK, TransferOK
<1> QED BY <1>1, <1>2 DEF TypeOK

\* Every variable always has its type, and every task, transfer and request is
\* about an entry there is.
THEOREM Typing == Spec => []TypeOK
<1>1. TypeOK /\ [Next]_vars => TypeOK'
  BY LogStep, TasksStep, TransferStep, RequestsStep, DeviceStep DEF TypeOK
<1> QED BY <1>1, TypeInit, PTL DEF Spec
-----------------------------------------------------------------------------
(***************************************************************************)
(* EntryToPassOn.                                                          *)
(***************************************************************************)
Safe(m) ==
  \E h \in Hosts, t \in Topics : \E pos \in Unacked(h, t) :
    log[h][t][pos].msg = m /\ <<h, t, pos>> \notin Pending

\* A step that acks, or is about to ack, no entry but x that was not about to be
\* acked already, leaves the messages of other entries with the entry they have.
LEMMA SafeKept ==
  ASSUME TypeOK, Grows, LogOK', NEW m, Safe(m), NEW x,
         \A h \in Hosts, t \in Topics : \A pos \in 1..Len(log[h][t]) :
           x = <<h, t, pos>> => log[h][t][pos].msg # m,
         Pending' \subseteq Pending \cup {x},
         \A h \in Hosts, t \in Topics : \A pos \in acked'[h][t] :
           pos \in acked[h][t] \/ <<h, t, pos>> \in Pending \cup {x}
  PROVE  Safe(m)'
<1>0. PICK h \in Hosts, t \in Topics : \E pos \in Unacked(h, t) :
        log[h][t][pos].msg = m /\ <<h, t, pos>> \notin Pending
  BY Zenon DEF Safe
<1>1. PICK pos \in 1..Len(log[h][t]) :
        /\ pos \notin acked[h][t] /\ log[h][t][pos].msg = m
        /\ <<h, t, pos>> \notin Pending
  BY <1>0 DEF Unacked, Entries
<1>2. x # <<h, t, pos>>
  BY <1>1
<1>3. <<h, t, pos>> \notin Pending' /\ pos \notin acked'[h][t]
  BY <1>1, <1>2
<1>4. pos \in 1..Len(log'[h][t])
  BY Longer DEF TypeOK
<1>5. log'[h][t][pos].msg = m
  BY <1>1 DEF Grows
<1> QED BY <1>3, <1>4, <1>5, Zenon DEF Safe, Unacked, Entries

\* Every entry that is about to be acked is there, or nobody waits for the ack.
LEMMA PendingEntries ==
  ASSUME TypeOK, NEW h \in Hosts, NEW t \in Topics, NEW pos,
         <<h, t, pos>> \in Pending, pos \in Nat
  PROVE  pos <= Len(log[h][t])
<1>1. CASE \E k \in tasks : <<h, t, pos>> = Id(k)
  <2>1. PICK k \in tasks : h = k.host /\ t = k.topic /\ pos = k.pos
    BY <1>1 DEF Id
  <2>2. pos \in 1..Len(log[h][t])
    BY <2>1, TaskEntry
  <2> QED BY <2>2
<1>2. CASE \E r \in requests : <<h, t, pos>> = r.from
  <2>1. <<h, t, pos>> # Client /\ <<h, t, pos>> # Gone
    BY DEF Client, Gone
  <2>2. \E g \in Hosts, s \in ForwardingTopics : \E p \in 1..Len(log[g][s]) :
          <<h, t, pos>> = <<g, s, p>>
    BY <1>2, <2>1 DEF TypeOK, RequestsOK
  <2>3. pos \in 1..Len(log[h][t])
    BY <2>2
  <2> QED BY <2>3
<1>3. CASE \E g \in Hosts : <<h, t, pos>> = <<g, "device", transfer[g].pos>>
  BY <1>3 DEF TypeOK, TransferOK
<1> QED BY <1>1, <1>2, <1>3 DEF Pending

\* A message just published has an entry nobody is about to ack.
LEMMA SafeNew ==
  ASSUME TypeOK, LogOK', NEW h \in Hosts, NEW t \in Topics, NEW e \in EntrySet,
         Publish(h, t, e), UNCHANGED acked, NEW x,
         Pending' \subseteq Pending \cup {x},
         \A pos \in Nat : x = <<h, t, pos>> => pos <= Len(log[h][t])
  PROVE  Safe(e.msg)'
<1> DEFINE new == Len(log[h][t]) + 1
<1>1. LogOK
  BY DEF TypeOK
<1>2. Len(log'[h][t]) = new /\ log'[h][t][new] = e
  BY <1>1, PublishGrows
<1>3. Len(log[h][t]) \in Nat /\ new \in Nat /\ ~(new <= Len(log[h][t])) /\ new \in 1..new
  BY <1>1 DEF LogOK
<1>4. new \notin acked[h][t]
  BY <1>1, <1>3 DEF LogOK
<1> HIDE DEF new
<1>5. <<h, t, new>> \notin Pending'
  BY <1>3, PendingEntries
<1> QED BY <1>2, <1>3, <1>4, <1>5 DEF Safe, Unacked, Entries


\* What a task or a request is about, and how Pending changes with it.
LEMMA PendingGo ==
  ASSUME TypeOK, NEW k \in tasks, NEW pc, Go(k, pc), UNCHANGED <<requests, transfer>>
  PROVE  Pending' \subseteq Pending \cup {Id(k)}
<1>1. Id([k EXCEPT !.pc = pc]) = Id(k)
  BY DEF TypeOK, TasksOK, Id
<1> QED BY <1>1 DEF Pending, Go

\* A request that takes a step adds at most the entry it is from to Pending.
LEMMA PendingStep ==
  ASSUME TypeOK, NEW r \in requests, NEW pc, Step(r, pc), UNCHANGED <<tasks, transfer>>
  PROVE  /\ Pending' \subseteq Pending \cup {r.from}
         /\ pc # "ack" => Pending' \subseteq Pending
<1>1. [r EXCEPT !.pc = pc].from = r.from /\ [r EXCEPT !.pc = pc].pc = pc
  BY DEF TypeOK, RequestsOK
<1> QED BY <1>1, Zenon DEF Pending, Step

\* A transfer that takes a step adds at most its entry to Pending.
LEMMA PendingTransfer ==
  ASSUME TypeOK, NEW h \in Hosts, NEW pc, NEW pos, Transfer(h, pc, pos),
         UNCHANGED <<tasks, requests>>
  PROVE  /\ Pending' \subseteq Pending \cup {<<h, "device", pos>>}
         /\ pc # "ack" => Pending' \subseteq Pending
<1>1. /\ transfer'[h] = [pc |-> pc, pos |-> pos]
      /\ \A g \in Hosts \ {h} : transfer'[g] = transfer[g]
  BY DEF TypeOK, TransferOK, Transfer
<1>2. ASSUME NEW g \in Hosts, transfer'[g].pc = "ack"
      PROVE  \/ pc = "ack" /\ <<g, "device", transfer'[g].pos>> = <<h, "device", pos>>
             \/ /\ transfer[g].pc = "ack"
                /\ <<g, "device", transfer'[g].pos>> = <<g, "device", transfer[g].pos>>
  BY ONLY <1>1, <1>2
<1> QED BY <1>2, Zenon DEF Pending

\* Of the entries acked by Ack only this one is new.
LEMMA AckedOne ==
  ASSUME TypeOK, NEW h \in Hosts, NEW t \in Topics, NEW pos,
         acked' = acked \/ Ack(h, t, pos)
  PROVE  \A g \in Hosts, s \in Topics : \A p \in acked'[g][s] :
           p \in acked[g][s] \/ <<g, s, p>> = <<h, t, pos>>
<1>1. acked \in [Hosts -> [Topics -> SUBSET Nat]]
  BY DEF TypeOK, LogOK
<1>2. CASE acked' = acked
  BY <1>2
<1>3. CASE Ack(h, t, pos)
  BY <1>1, <1>3 DEF Ack
<1> QED BY <1>2, <1>3, Zenon


\* A step after which no more entries are acked or about to be acked.
LEMMA SafeStays ==
  ASSUME TypeOK, Grows, LogOK', NEW m, Safe(m),
         Pending' \subseteq Pending \cup {Gone},
         \A h \in Hosts, t \in Topics : \A pos \in acked'[h][t] :
           pos \in acked[h][t] \/ <<h, t, pos>> \in Pending
  PROVE  Safe(m)'
<1>1. \A h, t, pos : Gone # <<h, t, pos>>
  BY DEF Gone
<1> QED BY <1>1, SafeKept

\* Nothing but x comes to be about to be acked.
Adds(x) == Pending' \subseteq Pending \cup {x}

\* x is an entry of message m, if it is an entry.
About(x, m) ==
  \A g \in Hosts, s \in Topics : \A pos \in Nat : x = <<g, s, pos>> =>
    pos \in 1..Len(log[g][s]) /\ log[g][s][pos].msg = m

\* Publishing a message of entry x, which then is about to be acked.
LEMMA SafePublish ==
  ASSUME TypeOK, Grows, LogOK', NEW h \in Hosts, NEW t \in Topics, NEW e \in EntrySet,
         Publish(h, t, e), acked' = acked, NEW x, Adds(x), About(x, e.msg),
         NEW m, m = e.msg \/ Safe(m)
  PROVE  Safe(m)'
<1>1. CASE m = e.msg
  <2>1. \A pos \in Nat : x = <<h, t, pos>> => pos <= Len(log[h][t])
    BY DEF About
  <2> QED BY <1>1, <2>1, SafeNew DEF Adds
<1>2. CASE m # e.msg
  <2>1. ASSUME NEW g \in Hosts, NEW s \in Topics, NEW pos \in 1..Len(log[g][s]),
               x = <<g, s, pos>>
        PROVE  log[g][s][pos].msg # m
    <3>1. pos \in Nat
      OBVIOUS
    <3> QED BY <1>2, <2>1, <3>1, Zenon DEF About
  <2> QED BY <1>2, <2>1, SafeKept DEF Adds
<1> QED BY <1>1, <1>2

\* The steps of sendOutboundMessage.
LEMMA OutboundPasses ==
  ASSUME TypeOK, EntryToPassOn, Grows, LogOK', NEW r \in requests, PublishOutbound(r),
         NEW m \in accepted' \ (received' \cup discarded')
  PROVE  Safe(m)'
<1>1. r.host \in Hosts /\ r.msg \in Messages /\ r.pc \in Topics
  BY TopicSets DEF TypeOK, RequestsOK, PublishOutbound
<1>2. New(r.msg) \in EntrySet /\ New(r.msg).msg = r.msg
  BY <1>1, NewTyped DEF New, Entry
<1>3. m \in accepted => Safe(m)
  BY Zenon DEF EntryToPassOn, Safe, PublishOutbound
<1>4. UNCHANGED <<tasks, transfer, acked>>
  BY DEF PublishOutbound
<1>5. CASE Publish(r.host, r.pc, New(r.msg)) /\ Answer(r, "ack")
  <2>1. m = r.msg \/ Safe(m)
    <3>1. accepted' \subseteq accepted \cup {r.msg}
      BY DEF PublishOutbound
    <3> QED BY <3>1, <1>3
  <2>2. CASE r.from = Client
    <3>1. Adds(Client)
      BY <1>4, <1>5, <2>2 DEF Adds, Answer, Pending
    <3>2. About(Client, r.msg)
      BY DEF About, Client
    <3> QED BY <1>1, <1>2, <1>4, <1>5, <2>1, <3>1, <3>2, SafePublish, Zenon
  <2>3. CASE r.from # Client
    <3>1. Adds(r.from)
      BY <1>4, <1>5, <2>3, PendingStep, Zenon DEF Adds, Answer
    <3>2. ASSUME NEW g \in Hosts, NEW s \in Topics, NEW pos \in Nat,
                 r.from = <<g, s, pos>>
          PROVE  pos \in 1..Len(log[g][s]) /\ log[g][s][pos].msg = r.msg
      <4>1. <<g, s, pos>> # Client /\ <<g, s, pos>> # Gone
        BY DEF Client, Gone
      <4>2. PICK h \in Hosts, t \in ForwardingTopics : \E p \in 1..Len(log[h][t]) :
              r.from = <<h, t, p>> /\ log[h][t][p].msg = r.msg
        BY <3>2, <4>1, Zenon DEF TypeOK, RequestsOK
      <4> QED BY <3>2, <4>2
    <3>3. About(r.from, r.msg)
      BY <3>2, Zenon DEF About
    <3> QED BY <1>1, <1>2, <1>4, <1>5, <2>1, <3>1, <3>3, SafePublish, Zenon
  <2> QED BY <2>2, <2>3
<1>6. CASE Answer(r, "error") /\ UNCHANGED accepted
  <2>1. Pending' \subseteq Pending
    <3>1. CASE r.from = Client
      BY <1>4, <1>6, <3>1 DEF Answer, Pending
    <3>2. CASE r.from # Client
      BY <1>4, <1>6, <3>2, PendingStep DEF Answer
    <3> QED BY <3>1, <3>2
  <2> QED BY <1>3, <1>4, <1>6, <2>1, SafeStays
<1> QED BY <1>5, <1>6, Zenon DEF PublishOutbound

\* The steps of a task.
LEMMA TaskPasses ==
  ASSUME TypeOK, EntryToPassOn, Grows, LogOK', NEW k \in tasks,
         PublishLocally(k) \/ failMessage(k) \/ AckTask(k),
         NEW m \in accepted' \ (received' \cup discarded')
  PROVE  Safe(m)'
<1>1. /\ k.host \in Hosts /\ k.topic \in Topics
      /\ k.pos \in 1..Len(log[k.host][k.topic])
      /\ EntryOf(k) \in EntrySet /\ EntryOf(k).msg \in Messages
  BY TaskEntry DEF EntrySet
<1>2. UNCHANGED <<requests, transfer>> /\ m \in accepted \ (received \cup discarded)
  BY DEF PublishLocally, failMessage, AckTask
<1>3. Safe(m)
  BY <1>2, ZenonT(30) DEF EntryToPassOn, Safe
<1>4. About(Id(k), EntryOf(k).msg)
  BY <1>1 DEF About, Id, EntryOf
<1>5. ASSUME NEW t \in Topics, NEW e \in EntrySet, e.msg = EntryOf(k).msg,
             Publish(k.host, t, e), Go(k, "ack"), UNCHANGED acked
      PROVE  Safe(m)'
  <2>1. Adds(Id(k))
    BY <1>2, <1>5, PendingGo, Zenon DEF Adds
  <2>2. About(Id(k), e.msg)
    BY <1>4, <1>5, Zenon
  <2> QED BY <1>1, <1>3, <1>5, <2>1, <2>2, SafePublish, Zenon
<1>6. CASE PublishLocally(k) /\ Publish(k.host, "device", New(EntryOf(k).msg)) /\ Go(k, "ack")
  <2>1. New(EntryOf(k).msg) \in EntrySet /\ New(EntryOf(k).msg).msg = EntryOf(k).msg
    BY <1>1, NewTyped DEF New, Entry
  <2> QED BY <1>5, <1>6, <2>1, TopicSets, Zenon DEF PublishLocally
<1>7. CASE /\ failMessage(k) /\ Go(k, "ack")
           /\ \/ Publish(k.host, "forwardingretry", MarkFailed(EntryOf(k)))
              \/ discarded' = discarded \cup {MarkFailed(EntryOf(k)).msg}
  <2>1. CASE Publish(k.host, "forwardingretry", MarkFailed(EntryOf(k)))
    BY <1>1, <1>5, <1>7, <2>1, TopicSets, MarkFailedTyped DEF failMessage
  <2>2. CASE discarded' = discarded \cup {MarkFailed(EntryOf(k)).msg}
    <3>1. EntryOf(k).msg # m
      BY <1>1, <2>2, MarkFailedTyped, Zenon
    <3>2. \A g \in Hosts, s \in Topics : \A pos \in 1..Len(log[g][s]) :
            Id(k) = <<g, s, pos>> => log[g][s][pos].msg # m
      <4>1. \A n : 1..n \subseteq Nat
        OBVIOUS
      <4> QED BY <1>4, <3>1, <4>1, Zenon DEF About
    <3>3. UNCHANGED acked
      BY <1>7 DEF failMessage
    <3> QED BY <1>2, <1>3, <1>7, <3>2, <3>3, PendingGo, SafeKept, Zenon
  <2> QED BY <1>7, <2>1, <2>2, ZenonT(30)
<1>8. CASE Go(k, "fail") /\ UNCHANGED acked
  <2>1. Pending' \subseteq Pending
    <3>1. [k EXCEPT !.pc = "fail"].pc = "fail"
      BY Zenon DEF TypeOK, TasksOK
    <3> QED BY <1>2, <1>8, <3>1, Zenon DEF Pending, Go
  <2> QED BY <1>3, <1>8, <2>1, SafeStays, Zenon
<1>9. CASE tasks' = tasks \ {k} /\ UNCHANGED acked
  <2>1. Pending' \subseteq Pending
    BY <1>2, <1>9, Zenon DEF Pending
  <2> QED BY <1>3, <1>9, <2>1, SafeStays, Zenon
<1>10. CASE AckTask(k)
  <2>1. Pending' \subseteq Pending /\ Id(k) \in Pending
    BY <1>2, <1>10, Zenon DEF AckTask, Pending
  <2>2. acked' = acked \/ Ack(k.host, k.topic, k.pos)
    BY <1>10, Zenon DEF AckTask
  <2>3. \A g \in Hosts, s \in Topics : \A p \in acked'[g][s] :
          p \in acked[g][s] \/ <<g, s, p>> = Id(k)
    BY <1>1, <2>2, AckedOne, Zenon DEF Id
  <2> QED BY <1>3, <2>1, <2>3, SafeStays
<1> QED
  BY <1>6, <1>7, <1>8, <1>9, <1>10, Zenon DEF PublishLocally, failMessage


\* The answer of another host.
LEMMA AnswerPasses ==
  ASSUME TypeOK, NEW r \in requests, triggerCallbackFor(r)
  PROVE  Pending' \subseteq Pending
<1>1. ASSUME NEW j \in tasks', j.pc = "ack" PROVE Id(j) \in Pending
  <2>1. PICK k \in tasks :
          j = IF Id(k) = r.from
              THEN [k EXCEPT !.pc = IF r.pc = "ack" THEN "ack" ELSE "fail"]
              ELSE k
    BY DEF triggerCallbackFor
  <2>2. Id(j) = Id(k)
    BY <2>1 DEF TypeOK, TasksOK, Id
  <2>3. CASE Id(k) = r.from
    <3>1. r.pc = "ack"
      BY <1>1, <2>1, <2>3 DEF TypeOK, TasksOK
    <3> QED BY <2>2, <2>3, <3>1 DEF Pending
  <2>4. CASE Id(k) # r.from
    BY <1>1, <2>1, <2>4 DEF Pending
  <2> QED BY <2>3, <2>4
<1>2. requests' \subseteq requests /\ UNCHANGED transfer
  BY DEF triggerCallbackFor
<1> QED BY <1>1, <1>2 DEF Pending

\* Crashes and connections that break: who waited for an answer does so no more.
LEMMA FaultPasses ==
  ASSUME TypeOK, NEW h \in Hosts, Crash(h) \/ \E g \in Hosts : ConnectionBreaks(h, g)
  PROVE  Pending' \subseteq Pending \cup {Gone}
<1>1. tasks' \subseteq tasks
  BY DEF Crash, ConnectionBreaks
<1>2. \A q \in requests' : q \in requests \/ q.from = Gone
  <2>1. \A q \in requests' : q \in requests \/ \E r \in requests : q = [r EXCEPT !.from = Gone]
    BY DEF Crash, ConnectionBreaks, Orphaned, From
  <2>2. \A r \in requests : [r EXCEPT !.from = Gone].from = Gone
    BY DEF TypeOK, RequestsOK
  <2> QED BY <2>1, <2>2, Zenon
<1>3. \A g \in Hosts : transfer'[g] = transfer[g] \/ transfer'[g].pc = "idle"
  BY DEF Crash, ConnectionBreaks, Transfer, TypeOK, TransferOK
<1> QED BY <1>1, <1>2, <1>3 DEF Pending

\* The steps of the device and of a user transfer.
LEMMA DevicePasses ==
  ASSUME TypeOK, EntryToPassOn, Grows, LogOK', NEW h \in Hosts,
         ReceiveMessage(h) \/ TransferMessage(h) \/ TransferAck(h),
         NEW m \in accepted' \ (received' \cup discarded')
  PROVE  Safe(m)'
<1>1. UNCHANGED <<tasks, requests>> /\ m \in accepted \ (received \cup discarded)
  BY DEF ReceiveMessage, TransferMessage, TransferAck
<1>2. Safe(m)
  BY <1>1, Zenon DEF EntryToPassOn, Safe
<1>3. LogOK /\ "device" \in Topics /\ "forwarding" \in Topics
  BY TopicSets DEF TypeOK
<1>4. CASE ReceiveMessage(h)
  <2> DEFINE pos == cursor[h]["device"] + 1
  <2>1. cursor'[h]["device"] = pos
    BY <1>3, <1>4 DEF ReceiveMessage, LogOK
  <2>2. received' = received \cup {log[h]["device"][pos].msg} /\ Ack(h, "device", pos)
    BY <1>4, <2>1, Zenon DEF ReceiveMessage
  <2> HIDE DEF pos
  <2>3. log[h]["device"][pos].msg # m
    BY <2>2, Zenon
  <2>4. Pending' = Pending
    BY <1>4 DEF ReceiveMessage, Pending
  <2>5. \A g \in Hosts, s \in Topics : \A p \in acked'[g][s] :
          p \in acked[g][s] \/ <<g, s, p>> = <<h, "device", pos>>
    BY <1>3, <2>2, AckedOne, Zenon
  <2>6. \A g \in Hosts, s \in Topics : \A p \in 1..Len(log[g][s]) :
          <<h, "device", pos>> = <<g, s, p>> => log[g][s][p].msg # m
    BY <2>3
  <2> QED BY <1>2, <2>4, <2>5, <2>6, SafeKept, Zenon
<1>5. CASE TransferMessage(h)
  <2> DEFINE pos == transfer[h].pos + 1
             e == New(log[h]["device"][pos].msg)
  <2>1. pos \in 1..Len(log[h]["device"])
    BY <1>5, NextToTransfer DEF TypeOK
  <2>2. log[h]["device"][pos].msg \in Messages
    BY <1>3, <2>1, EntryTyped, Zenon DEF EntrySet
  <2>3. e \in EntrySet /\ e.msg = log[h]["device"][pos].msg
    BY <2>2, NewTyped, Zenon DEF New, Entry
  <2>4. UNCHANGED acked /\ \/ Publish(h, "forwarding", e) /\ Transfer(h, "ack", pos)
                           \/ Transfer(h, "idle", 0)
    BY <1>5, Zenon DEF TransferMessage
  <2> HIDE DEF pos, e
  <2>5. CASE Publish(h, "forwarding", e) /\ Transfer(h, "ack", pos)
    <3>1. Adds(<<h, "device", pos>>)
      BY <1>1, <2>5, PendingTransfer, Zenon DEF Adds
    <3>2. About(<<h, "device", pos>>, e.msg)
      BY <2>1, <2>3, Zenon DEF About
    <3>3. e \in EntrySet /\ Publish(h, "forwarding", e) /\ UNCHANGED acked
      BY <2>3, <2>4, <2>5, Zenon
    <3> QED BY <1>2, <1>3, <3>1, <3>2, <3>3, SafePublish, Zenon
  <2>6. CASE Transfer(h, "idle", 0)
    <3>1. Pending' \subseteq Pending
      BY ONLY TypeOK, h \in Hosts, <1>1, <2>6, PendingTransfer
    <3> QED BY <1>2, <2>4, <3>1, SafeStays, Zenon
  <2> QED BY <2>4, <2>5, <2>6
<1>6. CASE TransferAck(h)
  <2>1. acked' = acked \/ Ack(h, "device", transfer[h].pos)
    BY <1>6, Zenon DEF TransferAck
  <2>2. <<h, "device", transfer[h].pos>> \in Pending
    BY <1>6, Zenon DEF TransferAck, Pending
  <2>3. Pending' \subseteq Pending
    <3>1. Transfer(h, "drain", transfer[h].pos)
      BY <1>6, Zenon DEF TransferAck
    <3> QED BY ONLY TypeOK, h \in Hosts, <1>1, <3>1, PendingTransfer
  <2>4. \A g \in Hosts, s \in Topics : \A p \in acked'[g][s] :
          p \in acked[g][s] \/ <<g, s, p>> = <<h, "device", transfer[h].pos>>
    BY <1>3, <2>1, AckedOne, Zenon
  <2> QED BY <1>2, <2>2, <2>3, <2>4, SafeStays, Zenon
<1> QED BY <1>4, <1>5, <1>6, ZenonT(30)


\* All other steps ack nothing.
LEMMA OtherPasses ==
  ASSUME TypeOK,
         \/ \E r \in requests : Find(r)
         \/ \E k \in tasks : Forward(k)
         \/ \E h \in Hosts : \/ forwardMessages(h)
                             \/ StartTransfer(h)
                             \/ TransferEnds(h)
                             \/ Unregister(h)
                             \/ Restart(h)
                             \/ Announce(h)
                             \/ \E m \in Messages : ClientSends(h, m)
         \/ RegisterDevice
         \/ Tick
         \/ UNCHANGED vars
  PROVE  Pending' \subseteq Pending /\ UNCHANGED <<acked, history>>
<1>1. ASSUME NEW r \in requests, Find(r) PROVE Pending' \subseteq Pending
  <2>1. CASE requests' = requests \ {r}
    BY <1>1, <2>1, Zenon DEF Find, Pending
  <2>2. CASE Step(r, "device") \/ Step(r, "forwarding")
    BY <1>1, <2>2, PendingStep DEF Find
  <2> QED BY <1>1, <2>1, <2>2, Zenon DEF Find
<1>2. ASSUME NEW k \in tasks, Forward(k) PROVE Pending' \subseteq Pending
  <2>1. /\ UNCHANGED transfer
        /\ \A q \in requests' : q \in requests \/ q.pc = "find"
    <3>1. UNCHANGED transfer /\ (write(k, conns[k.host][k.to]) \/ write(k, "open")
                                  \/ UNCHANGED requests)
      BY <1>2, Zenon DEF Forward
    <3> QED BY <3>1 DEF write, Request
  <2>2. \A j \in tasks' : j \in tasks \/ j.pc # "ack"
    <3>1. Go(k, "waiting") \/ Go(k, "fail")
      BY <1>2, Zenon DEF Forward
    <3>2. /\ [k EXCEPT !.pc = "waiting"].pc = "waiting"
          /\ [k EXCEPT !.pc = "fail"].pc = "fail"
      BY DEF TypeOK, TasksOK
    <3> QED BY <3>1, <3>2, Zenon DEF Go
  <2>3. {j \in tasks' : j.pc = "ack"} \subseteq {j \in tasks : j.pc = "ack"}
    BY <2>2
  <2>4. {q \in requests' : q.pc = "ack"} \subseteq {q \in requests : q.pc = "ack"}
    BY <2>1, ZenonT(30)
  <2> QED BY <2>1, <2>3, <2>4, Zenon DEF Pending
<1>3. ASSUME NEW h \in Hosts, forwardMessages(h) PROVE Pending' \subseteq Pending
  <2>1. /\ UNCHANGED <<requests, transfer>>
        /\ \A j \in tasks' : j \in tasks \/ j.pc # "ack"
    <3>1. PICK t \in ForwardingTopics : forwardMessage(h, t)
      BY <1>3 DEF forwardMessages
    <3> DEFINE j == [host |-> h, topic |-> t, pos |-> cursor[h][t] + 1, to |-> presence,
                     pc |-> IF presence = None THEN "fail"
                            ELSE IF presence = h THEN "local" ELSE "forward"]
    <3>2. tasks' = tasks \cup {j} /\ UNCHANGED <<requests, transfer>>
      BY <3>1, Zenon DEF forwardMessage
    <3>3. j.pc # "ack"
      OBVIOUS
    <3> HIDE DEF j
    <3> QED BY <3>2, <3>3
  <2> QED BY <2>1 DEF Pending
<1>4. ASSUME NEW h \in Hosts, NEW m \in Messages, ClientSends(h, m)
      PROVE  Pending' \subseteq Pending
  <2>1. /\ UNCHANGED <<tasks, transfer>>
        /\ \A q \in requests' : q \in requests \/ q.pc = "find"
    BY <1>4 DEF ClientSends, Request
  <2> QED BY <2>1, Zenon DEF Pending
<1>5. ASSUME NEW h \in Hosts, StartTransfer(h) \/ TransferEnds(h) \/ Unregister(h)
      PROVE  Pending' \subseteq Pending
  <2>1. /\ UNCHANGED <<tasks, requests>>
        /\ \E pc \in {"drain", "unregister", "idle"} : \E pos : Transfer(h, pc, pos)
    BY <1>5, Zenon DEF StartTransfer, TransferEnds, Unregister
  <2> QED BY <2>1, PendingTransfer
<1>6. ASSUME UNCHANGED <<tasks, requests, transfer>> PROVE Pending' \subseteq Pending
  <2>1. Pending' = Pending
    BY <1>6, Zenon DEF Pending
  <2> QED BY <2>1
<1>7. UNCHANGED <<acked, history>>
  BY Zenon DEF Find, Forward, forwardMessages, forwardMessage, StartTransfer, TransferEnds,
         Unregister, Restart, Announce, ClientSends, RegisterDevice, Tick
<1> QED
  BY <1>1, <1>2, <1>3, <1>4, <1>5, <1>6, <1>7, Zenon
     DEF Restart, Announce, RegisterDevice, Tick

\* Every step keeps EntryToPassOn.
LEMMA PassStep ==
  ASSUME TypeOK, EntryToPassOn, Grows, LogOK', [Next]_vars
  PROVE  EntryToPassOn'
<1>0. SUFFICES ASSUME NEW m \in accepted' \ (received' \cup discarded') PROVE Safe(m)'
  BY Zenon DEF EntryToPassOn, Safe
<1>1. ASSUME NEW r \in requests, PublishOutbound(r) PROVE Safe(m)'
  BY <1>1, OutboundPasses
<1>2. ASSUME NEW k \in tasks, PublishLocally(k) \/ failMessage(k) \/ AckTask(k)
      PROVE  Safe(m)'
  BY <1>2, TaskPasses
<1>3. ASSUME NEW h \in Hosts, ReceiveMessage(h) \/ TransferMessage(h) \/ TransferAck(h)
      PROVE  Safe(m)'
  BY <1>3, DevicePasses
<1>4. ASSUME Pending' \subseteq Pending \cup {Gone}, UNCHANGED <<acked, history>>
      PROVE  Safe(m)'
  <2>1. Safe(m)
    BY <1>4, Zenon DEF EntryToPassOn, Safe
  <2> QED BY <1>4, <2>1, SafeStays
<1>5. ASSUME NEW r \in requests, triggerCallbackFor(r) PROVE Safe(m)'
  BY <1>4, <1>5, AnswerPasses DEF triggerCallbackFor
<1>6. ASSUME NEW h \in Hosts, Crash(h) \/ \E g \in Hosts : ConnectionBreaks(h, g)
      PROVE  Safe(m)'
  <2>1. UNCHANGED <<acked, history>>
    BY <1>6 DEF Crash, ConnectionBreaks
  <2> QED BY <1>4, <1>6, <2>1, FaultPasses
<1>7. CASE Pending' \subseteq Pending /\ UNCHANGED <<acked, history>>
  BY <1>4, <1>7
<1> QED BY <1>1, <1>2, <1>3, <1>5, <1>6, <1>7, OtherPasses DEF Next, System

\* Of a message whose sender got an ack there always is an entry that is neither
\* acked nor about to be, until the device got it or it failed for too long: no
\* interleaving of hosts, crashes and failing calls loses it between two topics.
THEOREM KeptToPassOn == Spec => []EntryToPassOn
<1>1. Init => EntryToPassOn
  BY DEF Init, EntryToPassOn
<1>2. TypeOK /\ EntryToPassOn /\ [Next]_vars => EntryToPassOn'
  BY LogStep, PassStep
<1> QED BY <1>1, <1>2, Typing, PTL DEF Spec

\* The entry is one that the broker would deliver again: none is acked before
\* the message was passed on.
THEOREM PassedOn == Spec => []PassedOnBeforeAcked
<1>1. EntryToPassOn => PassedOnBeforeAcked
  <2>1. \A m : Safe(m) => \E h \in Hosts, t \in Topics : \E pos \in Unacked(h, t) :
                             log[h][t][pos].msg = m
    BY DEF Safe
  <2>2. EntryToPassOn <=> \A m \in accepted \ (received \cup discarded) : Safe(m)
    BY DEF EntryToPassOn, Safe
  <2> QED BY <2>1, <2>2 DEF PassedOnBeforeAcked
<1> QED BY <1>1, KeptToPassOn, PTL

-----------------------------------------------------------------------------
(***************************************************************************)
(* RetriesWithinTimeout.                                                   *)
(***************************************************************************)
\* No first failure is in the future.
FailedBefore ==
  \A h \in Hosts, t \in Topics : \A pos \in 1..Len(log[h][t]) :
    log[h][t][pos].first <= clock

RetryInv == FailedBefore /\ RetriesWithinTimeout

Retriable(t, e) ==
  t = "forwardingretry" => 0 < e.first /\ e.first <= e.last /\ e.last <= e.first + Timeout

\* Publishing an entry that first failed before and may be tried again.
LEMMA RetryPublish ==
  ASSUME TypeOK, RetryInv, NEW h \in Hosts, NEW t \in Topics, NEW e \in EntrySet,
         Publish(h, t, e), e.first <= clock, Retriable(t, e), UNCHANGED clock
  PROVE  RetryInv'
<1>1. LogOK
  BY Zenon DEF TypeOK
<1>2. /\ Grows
      /\ Len(log'[h][t]) = Len(log[h][t]) + 1 /\ log'[h][t][Len(log[h][t]) + 1] = e
      /\ \A g \in Hosts, s \in Topics : <<g, s>> # <<h, t>> => log'[g][s] = log[g][s]
  BY <1>1, PublishGrows
<1>3. ASSUME NEW g \in Hosts, NEW s \in Topics, NEW pos \in 1..Len(log'[g][s])
      PROVE  \/ pos \in 1..Len(log[g][s]) /\ log'[g][s][pos] = log[g][s][pos]
             \/ s = t /\ log'[g][s][pos] = e
  <2>1. Len(log[g][s]) \in Nat
    BY <1>1 DEF LogOK
  <2>2. CASE g = h /\ s = t
    <3>1. pos \in 1..Len(log[h][t]) \/ pos = Len(log[h][t]) + 1
      BY <1>2, <2>1, <2>2
    <3>2. CASE pos \in 1..Len(log[h][t])
      <4>1. log'[g][s][pos] = log[g][s][pos]
        BY <1>2, <2>2, <3>2, Zenon DEF Grows
      <4> QED BY <2>2, <3>2, <4>1, Zenon
    <3>3. CASE pos = Len(log[h][t]) + 1
      BY <1>2, <2>2, <3>3, Zenon
    <3> QED BY <3>1, <3>2, <3>3, Zenon
  <2>3. CASE ~(g = h /\ s = t)
    BY <1>2, <2>3, Zenon
  <2> QED BY <2>2, <2>3
<1>4. FailedBefore'
  BY <1>3 DEF FailedBefore, RetryInv
<1>5. RetriesWithinTimeout'
  <2>1. ASSUME NEW g \in Hosts, NEW pos \in 1..Len(log'[g]["forwardingretry"])
        PROVE  Retriable("forwardingretry", log'[g]["forwardingretry"][pos])
    <3>1. \/ /\ pos \in 1..Len(log[g]["forwardingretry"])
             /\ log'[g]["forwardingretry"][pos] = log[g]["forwardingretry"][pos]
          \/ t = "forwardingretry" /\ log'[g]["forwardingretry"][pos] = e
      BY <1>3, TopicSets, Zenon
    <3>2. CASE /\ pos \in 1..Len(log[g]["forwardingretry"])
               /\ log'[g]["forwardingretry"][pos] = log[g]["forwardingretry"][pos]
      BY <3>2, Zenon DEF RetryInv, RetriesWithinTimeout, Entries, Retriable
    <3> QED BY <3>1, <3>2, Zenon DEF Retriable
  <2> QED BY <2>1, Zenon DEF RetriesWithinTimeout, Entries, Retriable
<1> QED BY <1>4, <1>5 DEF RetryInv

\* Every step keeps the failure times of entries in order.
LEMMA RetryStep ==
  ASSUME TypeOK, RetryInv, [Next]_vars
  PROVE  RetryInv'
<1>0. clock \in Nat \ {0}
  BY DEF TypeOK, DeviceOK
<1>1. ASSUME NEW m \in Messages, NEW h \in Hosts, NEW t \in {"device", "forwarding"},
             Publish(h, t, New(m)), UNCHANGED clock
      PROVE  RetryInv'
  <2>1. New(m).first <= clock /\ Retriable(t, New(m))
    BY <1>0 DEF New, Entry, Retriable
  <2> QED BY <1>1, <2>1, NewTyped, TopicSets, RetryPublish, Zenon
<1>2. CASE UNCHANGED <<log, clock>>
  BY <1>2, Zenon DEF RetryInv, FailedBefore, RetriesWithinTimeout, Entries
<1>3. ASSUME NEW r \in requests, PublishOutbound(r) PROVE RetryInv'
  <2>1. r.host \in Hosts /\ r.msg \in Messages /\ r.pc \in {"device", "forwarding"}
    BY <1>3 DEF TypeOK, RequestsOK, PublishOutbound
  <2> QED BY <1>1, <1>2, <1>3, <2>1, ZenonT(30) DEF PublishOutbound
<1>4. ASSUME NEW k \in tasks, PublishLocally(k) PROVE RetryInv'
  <2>1. k.host \in Hosts /\ EntryOf(k).msg \in Messages
    BY TaskEntry DEF EntrySet
  <2> QED BY <1>1, <1>2, <1>4, <2>1 DEF PublishLocally
<1>5. ASSUME NEW k \in tasks, failMessage(k) PROVE RetryInv'
  <2> DEFINE e == MarkFailed(EntryOf(k))
  <2>1. CASE Publish(k.host, "forwardingretry", e) /\ HasBeenFailingFor(e) <= Timeout
    <3>1. k.host \in Hosts /\ EntryOf(k) \in EntrySet /\ EntryOf(k).first \in Nat
      BY TaskEntry DEF EntrySet
    <3>2. EntryOf(k).first <= clock
      BY TaskEntry DEF RetryInv, FailedBefore, EntryOf
    <3>3. /\ e.last = clock /\ e.first \in Nat /\ 0 < e.first /\ e.first <= clock
          /\ e \in EntrySet
      BY <1>0, <3>1, <3>2, MarkFailedTyped DEF MarkFailed, Entry
    <3>4. clock - e.first <= Timeout
      BY <2>1, <3>3 DEF HasBeenFailingFor
    <3> HIDE DEF e
    <3>5. Retriable("forwardingretry", e)
      BY <1>0, <3>3, <3>4, ForwardingConstants DEF Retriable
    <3> QED BY <1>5, <2>1, <3>1, <3>3, <3>5, TopicSets, RetryPublish DEF failMessage
  <2> QED BY <1>2, <1>5, <2>1, ZenonT(30) DEF failMessage
<1>6. ASSUME NEW h \in Hosts, TransferMessage(h) PROVE RetryInv'
  <2>1. transfer[h].pos + 1 \in 1..Len(log[h]["device"])
    BY <1>6, NextToTransfer DEF TypeOK
  <2>2. log[h]["device"][transfer[h].pos + 1].msg \in Messages
    BY <2>1, TopicSets, EntryTyped, ZenonT(30) DEF EntrySet, TypeOK
  <2> QED BY <1>1, <1>2, <1>6, <2>2, Zenon DEF TransferMessage
<1>7. CASE Tick
  <2>1. clock' = clock + 1 /\ UNCHANGED log
    BY <1>7 DEF Tick
  <2>2. ASSUME NEW h \in Hosts, NEW t \in Topics, NEW pos \in 1..Len(log[h][t])
        PROVE  log[h][t][pos].first <= clock'
    <3>1. log[h][t][pos].first \in Nat
      BY EntryTyped DEF EntrySet, TypeOK
    <3>2. log[h][t][pos].first <= clock
      BY DEF RetryInv, FailedBefore
    <3> QED BY <1>0, <2>1, <3>1, <3>2
  <2> QED BY <2>1, <2>2 DEF RetryInv, FailedBefore, RetriesWithinTimeout, Entries
<1> QED
  BY <1>2, <1>3, <1>4, <1>5, <1>6, <1>7, ZenonT(30)
     DEF Next, System, forwardMessages, forwardMessage, Find, triggerCallbackFor,
         Forward, AckTask, ReceiveMessage, StartTransfer, TransferAck, TransferEnds,
         Unregister, Restart, RegisterDevice, ClientSends, Announce,
         ConnectionBreaks, Crash

\* However often a message fails, each retry is within forwardingTimeout of its
\* first failure.
THEOREM RetriesEnd == Spec => []RetriesWithinTimeout
<1>1. Init => RetryInv
  BY TopicSets DEF Init, RetryInv, FailedBefore, RetriesWithinTimeout, Entries
<1>2. TypeOK /\ RetryInv /\ [Next]_vars => RetryInv'
  BY RetryStep
<1>3. RetryInv => RetriesWithinTimeout
  BY DEF RetryInv
<1> QED BY <1>1, <1>2, <1>3, Typing, PTL DEF Spec
=============================================================================

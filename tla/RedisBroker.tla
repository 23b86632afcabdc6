---------------------------- MODULE RedisBroker ----------------------------
(***************************************************************************)
(* broker/redisbroker: topics on Redis streams.  Publishers append to the  *)
(* streams; one goroutine (processSubscribers) reads all streams for all   *)
(* subscribers; each subscriber has a goroutine (process) that moves what  *)
(* the loop read into the channel the consumer reads; one goroutine        *)
(* (processAcks) records acknowledged offsets; a separate batch process    *)
(* (TrimStreams) trims the streams.  The process can crash at any moment:  *)
(* Redis keeps the streams and the offsets, everything else is lost.       *)
(***************************************************************************)
EXTENDS Offsets, FiniteSets

CONSTANTS
  Streams,       \* topics
  Subs,          \* the subscriptions opened during one life of the process
  StreamOf,      \* the stream each subscription is for
  NoOffset,      \* redis.Nil, and emptyOffset
  Backlog,       \* the entries in every stream to begin with
  FirstId,       \* the last ID generated before; minOffset in a new stream
  FirstOffset,   \* the offset recorded before, or NoOffset
  OutCap,        \* capacity of messagesOut (10 in the code)
  ReadCount,     \* COUNT of XREAD (10000 in the code)
  Trimming,      \* TRUE iff the batch process that trims is deployed
  MaxLen,        \* maxLen of TrimStreams
  MaxMs,         \* bound: milliseconds that pass
  MaxPublished,  \* bound: messages published to one stream
  MaxCrashes     \* bound: crashes of the process

ASSUME ConstantsAssumption ==
  /\ StreamOf \in [Subs -> Streams]
  /\ NoOffset \notin Id
  /\ FirstId \in Id
  /\ IsFiniteSet(Backlog)
  /\ \A m \in Backlog : m \in Id /\ IdLess(minOffset, m) /\ IdLeq(m, FirstId)
  /\ \/ FirstOffset = NoOffset
     \/ /\ FirstOffset \in Id
        /\ IdLeq(FirstOffset, FirstId)
        /\ \A m \in Backlog : IdLess(FirstOffset, m)
  /\ OutCap \in Nat \ {0}
  /\ ReadCount \in Nat \ {0}
  /\ Trimming \in BOOLEAN
  /\ MaxLen \in Nat
  /\ MaxMs \in Nat
  /\ MaxPublished \in Nat
  /\ MaxCrashes \in Nat

VARIABLES
  log,           \* per stream, the IDs of the entries in Redis
  lastId,        \* per stream, the last ID Redis generated
  stored,        \* per stream, the value of offset:<stream>
  published,     \* history: every ID ever appended
  delivered,     \* history: every ID some consumer received
  capped,        \* history: every ID removed by the length cap
  pc,            \* per subscription, where NewSubscriber or process() is
  offset,        \* sub.offset
  closed,        \* sub.closeCh is closed
  todo,          \* what process() has left of the batch it was sent
  out,           \* sub.messagesOut
  got,           \* history: what the consumer took from messagesOut
  unacked,       \* messages the consumer holds and may still ack
  loop,          \* where readStreams() is
  visit,         \* subscribers the running inner loop has left
  want,          \* the offset gathered per stream
  batch,         \* what XREAD returned per stream
  streamsLeft,   \* streams of the batch not yet dispatched
  acks,          \* b.acks
  ackPc,         \* where processAcks() is
  ackBatch,      \* the acks it coalesced
  highest,       \* highestOffset per stream
  trimPc,        \* where TrimStreams is
  trimOffsets,   \* the offsets MGET returned
  trimLeft,      \* streams the running pipeline has left
  crashes

redis == <<log, lastId, stored>>
history == <<published, delivered, capped>>
subscriber == <<pc, offset, closed, todo, out, got, unacked>>
reader == <<loop, visit, want, batch, streamsLeft>>
acker == <<acks, ackPc, ackBatch, highest>>
trimmer == <<trimPc, trimOffsets, trimLeft>>
vars == <<redis, history, subscriber, reader, acker, trimmer, crashes>>

Ack == [sub : Subs, off : Id]

\* The subscriptions in subscribersByStream: process() deregisters last.
Registered == {s \in Subs : pc[s] \in {"select", "batch", "exit"}}

\* readStreams() holds subscribersMx for reading while it visits the
\* subscribers, both to gather their offsets and to send them the batch.
ReadLocked == loop \in {"gather", "dispatch"}

\* The n entries of S with the lowest, or the highest, IDs.
Oldest(S, n) == {m \in S : Cardinality({k \in S : IdLess(k, m)}) < n}
Newest(S, n) == {m \in S : Cardinality({k \in S : IdLess(m, k)}) < n}

Init ==
  /\ log = [st \in Streams |-> Backlog]
  /\ lastId = [st \in Streams |-> FirstId]
  /\ stored = [st \in Streams |-> FirstOffset]
  /\ published = [st \in Streams |-> Backlog]
  /\ delivered = [st \in Streams |-> {}]
  /\ capped = [st \in Streams |-> {}]
  /\ pc = [s \in Subs |-> "none"]
  /\ offset = [s \in Subs |-> minOffset]
  /\ closed = [s \in Subs |-> FALSE]
  /\ todo = [s \in Subs |-> {}]
  /\ out = [s \in Subs |-> <<>>]
  /\ got = [s \in Subs |-> <<>>]
  /\ unacked = [s \in Subs |-> {}]
  /\ loop = "idle"
  /\ visit = {}
  /\ want = [st \in Streams |-> NoOffset]
  /\ batch = [st \in Streams |-> {}]
  /\ streamsLeft = {}
  /\ acks = <<>>
  /\ ackPc = "coalesce"
  /\ ackBatch = {}
  /\ highest = [st \in Streams |-> NoOffset]
  /\ trimPc = "idle"
  /\ trimOffsets = [st \in Streams |-> NoOffset]
  /\ trimLeft = {}
  /\ crashes = 0

-----------------------------------------------------------------------------
(***************************************************************************)
(* Publishers.                                                             *)
(***************************************************************************)

\* XADD with an ID of Redis' choosing: the current millisecond with sequence
\* number 0, or the next sequence number within the last millisecond.
NextIds(last) ==
  (IF last = minOffset THEN {} ELSE {<<last[1], last[2] + 1>>})
    \cup {<<ms, 0>> : ms \in (last[1] + 1)..MaxMs}

Publish(st) ==
  /\ Cardinality(published[st]) < MaxPublished
  /\ \E m \in NextIds(lastId[st]) :
       /\ log' = [log EXCEPT ![st] = @ \cup {m}]
       /\ lastId' = [lastId EXCEPT ![st] = m]
       /\ published' = [published EXCEPT ![st] = @ \cup {m}]
  /\ UNCHANGED <<stored, delivered, capped, subscriber, reader, acker,
                 trimmer, crashes>>

-----------------------------------------------------------------------------
(***************************************************************************)
(* Opening a subscription: the recorded offset is read first and the       *)
(* subscriber registered later, once the write lock is free.               *)
(***************************************************************************)

\* Mutant: redis.Nil is not told apart from an offset.
NewSubscriberNil(s) ==
  /\ pc[s] = "none"
  /\ pc' = [pc EXCEPT ![s] = "opening"]
  /\ offset' = [offset EXCEPT ![s] = stored[StreamOf[s]]]
  /\ UNCHANGED <<redis, history, closed, todo, out, got, unacked, reader,
                 acker, trimmer, crashes>>

NewSubscriber(s) ==
  /\ pc[s] = "none"
  /\ pc' = [pc EXCEPT ![s] = "opening"]
  /\ offset' = [offset EXCEPT ![s] =
       IF stored[StreamOf[s]] = NoOffset THEN minOffset
                                         ELSE stored[StreamOf[s]]]
  /\ UNCHANGED <<redis, history, closed, todo, out, got, unacked, reader,
                 acker, trimmer, crashes>>

newSubscriber(s) ==
  /\ pc[s] = "opening"
  /\ ~ReadLocked
  /\ pc' = [pc EXCEPT ![s] = "select"]
  /\ UNCHANGED <<redis, history, offset, closed, todo, out, got, unacked,
                 reader, acker, trimmer, crashes>>

-----------------------------------------------------------------------------
(***************************************************************************)
(* readStreams(): gather the lowest offset per stream, XREAD, send the     *)
(* batch of each stream to the subscribers registered by then.             *)
(***************************************************************************)
gatherStreamsWithOffsets ==
  /\ loop = "idle"
  /\ Registered # {}
  /\ loop' = "gather"
  /\ visit' = Registered
  /\ UNCHANGED <<redis, history, subscriber, want, batch, streamsLeft, acker,
                 trimmer, crashes>>

\* Mutant: the highest offset is kept.
LowestOffsetReversed(lowest, off) ==
  IF lowest = NoOffset \/ offsetLessThan(lowest, off) THEN off ELSE lowest

\* One turn of the inner loop; the map is iterated in any order.
LowestOffset(lowest, off) ==
  IF lowest = NoOffset \/ offsetLessThan(off, lowest) THEN off ELSE lowest

GatherOffset(s) ==
  /\ loop = "gather"
  /\ s \in visit
  /\ want' = [want EXCEPT ![StreamOf[s]] = LowestOffset(@, offset[s])]
  /\ visit' = visit \ {s}
  /\ loop' = IF visit' = {} THEN "read" ELSE "gather"
  /\ UNCHANGED <<redis, history, subscriber, batch, streamsLeft, acker,
                 trimmer, crashes>>

\* What XREAD returns for st when asked for what follows want[st].
XReadResult(st) ==
  IF want[st] = NoOffset THEN {}
  ELSE Oldest({m \in log[st] : IdLess(want[st], m)}, ReadCount)

\* XREAD returns entries, and the loop takes the read lock.  (A subscriber
\* that registers between the two could as well have done so before XREAD.)
XRead ==
  /\ loop = "read"
  /\ batch' = [st \in Streams |-> XReadResult(st)]
  /\ streamsLeft' = {st \in Streams : batch'[st] # {}}
  /\ streamsLeft' # {}
  /\ loop' = "dispatch"
  /\ want' = [st \in Streams |-> NoOffset]
  /\ UNCHANGED <<redis, history, subscriber, visit, acker, trimmer, crashes>>

\* XREAD times out after 250 ms (redis.Nil) or fails.
XReadNothing ==
  /\ loop = "read"
  /\ loop' = "idle"
  /\ want' = [st \in Streams |-> NoOffset]
  /\ UNCHANGED <<redis, history, subscriber, visit, batch, streamsLeft, acker,
                 trimmer, crashes>>

DispatchStream(st) ==
  /\ loop = "dispatch"
  /\ visit = {}
  /\ st \in streamsLeft
  /\ visit' = {s \in Registered : StreamOf[s] = st}
  /\ streamsLeft' = streamsLeft \ {st}
  /\ UNCHANGED <<redis, history, subscriber, loop, want, batch, acker,
                 trimmer, crashes>>

\* send() waits for processedLastBatch while a process() works on its batch.
Sending == \E s \in Subs : pc[s] = "batch"

\* send() finds closeCh closed.
SendToClosed(s) ==
  /\ loop = "dispatch"
  /\ s \in visit
  /\ ~Sending
  /\ closed[s]
  /\ visit' = visit \ {s}
  /\ UNCHANGED <<redis, history, subscriber, loop, want, batch, streamsLeft,
                 acker, trimmer, crashes>>

\* send() and process() meet on messagesIn.
SendBatch(s) ==
  /\ loop = "dispatch"
  /\ s \in visit
  /\ ~Sending
  /\ pc[s] = "select"
  /\ pc' = [pc EXCEPT ![s] = "batch"]
  /\ todo' = [todo EXCEPT ![s] = batch[StreamOf[s]]]
  /\ UNCHANGED <<redis, history, offset, closed, out, got, unacked, reader,
                 acker, trimmer, crashes>>

EndDispatch ==
  /\ loop = "dispatch"
  /\ visit = {}
  /\ streamsLeft = {}
  /\ loop' = "idle"
  /\ batch' = [st \in Streams |-> {}]
  /\ UNCHANGED <<redis, history, subscriber, visit, want, streamsLeft, acker,
                 trimmer, crashes>>

-----------------------------------------------------------------------------
(***************************************************************************)
(* process(): the goroutine of a subscriber.                               *)
(***************************************************************************)

\* The next message of the batch; XREAD returned them in stream order.
FirstTodo(s, m) == m \in todo[s] /\ \A k \in todo[s] : IdLeq(m, k)

\* Mutant: the message goes out whatever the offset is.
ProcessUnchecked(s) ==
  /\ pc[s] = "batch"
  /\ Len(out[s]) < OutCap
  /\ \E m \in todo[s] :
       /\ FirstTodo(s, m)
       /\ todo' = [todo EXCEPT ![s] = @ \ {m}]
       /\ out' = [out EXCEPT ![s] = Append(@, m)]
       /\ offset' = [offset EXCEPT ![s] = m]
  /\ UNCHANGED <<redis, history, pc, closed, got, unacked, reader, acker,
                 trimmer, crashes>>

\* Mutant: a message that finds messagesOut full is dropped.
ProcessDropping(s) ==
  /\ pc[s] = "batch"
  /\ \E m \in todo[s] :
       /\ FirstTodo(s, m)
       /\ todo' = [todo EXCEPT ![s] = @ \ {m}]
       /\ out' = IF Len(out[s]) < OutCap /\ offsetLessThan(offset[s], m)
                 THEN [out EXCEPT ![s] = Append(@, m)] ELSE out
       /\ offset' = [offset EXCEPT ![s] = m]
  /\ UNCHANGED <<redis, history, pc, closed, got, unacked, reader, acker,
                 trimmer, crashes>>

\* The message goes to messagesOut, which must have room, unless the offset
\* says this subscriber has had it.
ProcessMessage(s) ==
  /\ pc[s] = "batch"
  /\ \E m \in todo[s] :
       /\ FirstTodo(s, m)
       /\ todo' = [todo EXCEPT ![s] = @ \ {m}]
       /\ \/ /\ offsetLessThan(offset[s], m)
             /\ Len(out[s]) < OutCap
             /\ out' = [out EXCEPT ![s] = Append(@, m)]
             /\ offset' = [offset EXCEPT ![s] = m]
          \/ /\ ~offsetLessThan(offset[s], m)
             /\ UNCHANGED <<out, offset>>
  /\ UNCHANGED <<redis, history, pc, closed, got, unacked, reader, acker,
                 trimmer, crashes>>

\* process() and send() meet on processedLastBatch; then closeCh is checked.
processedLastBatch(s) ==
  /\ pc[s] = "batch"
  /\ todo[s] = {}
  /\ pc' = [pc EXCEPT ![s] = IF closed[s] THEN "exit" ELSE "select"]
  /\ visit' = visit \ {s}
  /\ UNCHANGED <<redis, history, offset, closed, todo, out, got, unacked,
                 loop, want, batch, streamsLeft, acker, trimmer, crashes>>

\* process() finds closeCh closed and closes messagesOut.
ProcessClosed(s) ==
  /\ pc[s] = "select"
  /\ closed[s]
  /\ pc' = [pc EXCEPT ![s] = "exit"]
  /\ UNCHANGED <<redis, history, offset, closed, todo, out, got, unacked,
                 reader, acker, trimmer, crashes>>

\* The deferred deregistration, under the write lock.  Nothing refers to the
\* subscriber any more.
Deregister(s) ==
  /\ pc[s] = "exit"
  /\ ~ReadLocked
  /\ pc' = [pc EXCEPT ![s] = "gone"]
  /\ offset' = [offset EXCEPT ![s] = minOffset]
  /\ out' = [out EXCEPT ![s] = <<>>]
  /\ got' = [got EXCEPT ![s] = <<>>]
  /\ UNCHANGED <<redis, history, closed, todo, unacked, reader, acker,
                 trimmer, crashes>>

-----------------------------------------------------------------------------
(***************************************************************************)
(* Consumers (handleOutbound and the forwarding workers of serviceimpl):   *)
(* they take messages until they close the subscription, and ack what they *)
(* took in any order, or never.                                            *)
(***************************************************************************)
Messages(s) ==
  /\ s \in Registered
  /\ ~closed[s]
  /\ out[s] # <<>>
  /\ LET m == Head(out[s]) IN
       /\ got' = [got EXCEPT ![s] = Append(@, m)]
       /\ unacked' = [unacked EXCEPT ![s] = @ \cup {m}]
       /\ delivered' = [delivered EXCEPT ![StreamOf[s]] = @ \cup {m}]
  /\ out' = [out EXCEPT ![s] = Tail(@)]
  /\ UNCHANGED <<redis, published, capped, pc, offset, closed, todo, reader,
                 acker, trimmer, crashes>>

Close(s) ==
  /\ s \in Registered
  /\ ~closed[s]
  /\ closed' = [closed EXCEPT ![s] = TRUE]
  /\ UNCHANGED <<redis, history, pc, offset, todo, out, got, unacked, reader,
                 acker, trimmer, crashes>>

\* Mutant: the offset acked is the one to read next.
ackNext(s, m) ==
  /\ m \in unacked[s]
  /\ unacked' = [unacked EXCEPT ![s] = @ \ {m}]
  /\ acks' = Append(acks, [sub |-> s, off |-> idPlusOne(m)])
  /\ UNCHANGED <<redis, history, pc, offset, closed, todo, out, got, reader,
                 ackPc, ackBatch, highest, trimmer, crashes>>

\* ack() queues the ack and waits for processAcks to answer.
ack(s, m) ==
  /\ m \in unacked[s]
  /\ unacked' = [unacked EXCEPT ![s] = @ \ {m}]
  /\ acks' = Append(acks, [sub |-> s, off |-> m])
  /\ UNCHANGED <<redis, history, pc, offset, closed, todo, out, got, reader,
                 ackPc, ackBatch, highest, trimmer, crashes>>

-----------------------------------------------------------------------------
(***************************************************************************)
(* processAcks(): take every ack that is waiting, record the highest       *)
(* offset of each stream with one pipeline of ack.lua calls, answer all.   *)
(***************************************************************************)

\* Mutant: the lowest offset is kept.
HighestOffsetReversed(high, off) ==
  IF high = NoOffset \/ offsetLessThan(off, high) THEN off ELSE high

HighestOffset(high, off) ==
  IF high = NoOffset \/ offsetLessThan(high, off) THEN off ELSE high

CoalesceAck ==
  /\ ackPc = "coalesce"
  /\ acks # <<>>
  /\ ackBatch' = ackBatch \cup {Head(acks)}
  /\ highest' = [highest EXCEPT ![StreamOf[Head(acks).sub]] =
                   HighestOffset(@, Head(acks).off)]
  /\ acks' = Tail(acks)
  /\ UNCHANGED <<redis, history, subscriber, reader, ackPc, trimmer, crashes>>

\* The channel is empty for now: the default case of the select.
EndCoalesce ==
  /\ ackPc = "coalesce"
  /\ acks = <<>>
  /\ ackBatch # {}
  /\ ackPc' = "exec"
  /\ UNCHANGED <<redis, history, subscriber, reader, acks, ackBatch, highest,
                 trimmer, crashes>>

\* Mutant: the script is a plain SET.
ackScriptSets(old, new) == new

\* ack.lua, run on the key of one stream.
ackScript(old, new) ==
  IF old = NoOffset \/ ackGreater(new, old) THEN new ELSE old

AckedStreams == {st \in Streams : highest[st] # NoOffset}

\* Redis runs the script for the streams in done; the acks are answered with
\* an error, and can be made again, unless it ran for all.  When the answer
\* is lost an error is returned although it ran for all.
ExecAcks(done, err) ==
  /\ ackPc = "exec"
  /\ done \subseteq AckedStreams
  /\ ~err => done = AckedStreams
  /\ stored' = [st \in Streams |->
       IF st \in done THEN ackScript(stored[st], highest[st]) ELSE stored[st]]
  /\ unacked' = IF ~err THEN unacked
                ELSE [s \in Subs |-> unacked[s] \cup
                        {a.off : a \in {b \in ackBatch : b.sub = s}}]
  /\ ackBatch' = {}
  /\ highest' = [st \in Streams |-> NoOffset]
  /\ ackPc' = "coalesce"
  /\ UNCHANGED <<log, lastId, history, pc, offset, closed, todo, out, got,
                 reader, acks, trimmer, crashes>>

-----------------------------------------------------------------------------
(***************************************************************************)
(* TrimStreams: MGET of the recorded offsets, a pipeline of XTRIM MINID    *)
(* for the streams that have one, a pipeline of XTRIM MAXLEN for all.  The *)
(* errors of both pipelines are ignored.                                   *)
(***************************************************************************)

\* KEYS finds a stream from its first entry on; trimming one that has no
\* entries yet changes nothing.
TopicExists == \E st \in Streams : lastId[st] # minOffset

TrimStreams ==
  /\ Trimming
  /\ trimPc = "idle"
  /\ TopicExists
  /\ trimOffsets' = stored
  /\ LET offsets == {st \in Streams : stored[st] # NoOffset} IN
       IF offsets # {} THEN trimPc' = "minid" /\ trimLeft' = offsets
                       ELSE trimPc' = "maxlen" /\ trimLeft' = Streams
  /\ UNCHANGED <<redis, history, subscriber, reader, acker, crashes>>

\* MGET fails: the error is logged and the nil result is then indexed.
TrimMGetError ==
  /\ Trimming
  /\ trimPc = "idle"
  /\ TopicExists
  /\ trimPc' = "panicked"
  /\ UNCHANGED <<redis, history, subscriber, reader, acker, trimOffsets,
                 trimLeft, crashes>>

TrimMinId(st) ==
  /\ trimPc = "minid"
  /\ st \in trimLeft
  /\ \/ log' = [log EXCEPT ![st] =
                  {m \in @ : ~IdLess(m, idPlusOne(trimOffsets[st]))}]
     \/ log' = log
  /\ trimOffsets' = [trimOffsets EXCEPT ![st] = NoOffset]
  /\ IF trimLeft # {st} THEN trimPc' = "minid" /\ trimLeft' = trimLeft \ {st}
                        ELSE trimPc' = "maxlen" /\ trimLeft' = Streams
  /\ UNCHANGED <<lastId, stored, history, subscriber, reader, acker, crashes>>

TrimMaxLen(st) ==
  /\ trimPc = "maxlen"
  /\ st \in trimLeft
  /\ \/ /\ log' = [log EXCEPT ![st] = Newest(@, MaxLen)]
        /\ capped' = [capped EXCEPT ![st] = @ \cup (log[st] \ log'[st])]
     \/ UNCHANGED <<log, capped>>
  /\ trimLeft' = trimLeft \ {st}
  /\ trimPc' = IF trimLeft' = {} THEN "idle" ELSE "maxlen"
  /\ UNCHANGED <<lastId, stored, published, delivered, subscriber, reader,
                 acker, trimOffsets, crashes>>

-----------------------------------------------------------------------------
\* The process dies and is started again: New() with no subscribers.  The
\* trimmer runs elsewhere.
Crash ==
  /\ crashes < MaxCrashes
  /\ crashes' = crashes + 1
  /\ pc' = [s \in Subs |-> "none"]
  /\ offset' = [s \in Subs |-> minOffset]
  /\ closed' = [s \in Subs |-> FALSE]
  /\ todo' = [s \in Subs |-> {}]
  /\ out' = [s \in Subs |-> <<>>]
  /\ got' = [s \in Subs |-> <<>>]
  /\ unacked' = [s \in Subs |-> {}]
  /\ loop' = "idle"
  /\ visit' = {}
  /\ want' = [st \in Streams |-> NoOffset]
  /\ batch' = [st \in Streams |-> {}]
  /\ streamsLeft' = {}
  /\ acks' = <<>>
  /\ ackPc' = "coalesce"
  /\ ackBatch' = {}
  /\ highest' = [st \in Streams |-> NoOffset]
  /\ UNCHANGED <<redis, history, trimmer>>

Reader == \/ gatherStreamsWithOffsets
          \/ \E s \in Subs : GatherOffset(s) \/ SendToClosed(s) \/ SendBatch(s)
          \/ XRead
          \/ XReadNothing
          \/ \E st \in Streams : DispatchStream(st)
          \/ EndDispatch

Process(s) == \/ ProcessMessage(s)
              \/ processedLastBatch(s)
              \/ ProcessClosed(s)
              \/ Deregister(s)

Consumer(s) == \/ NewSubscriber(s)
               \/ newSubscriber(s)
               \/ Messages(s)
               \/ Close(s)
               \/ \E m \in unacked[s] : ack(s, m)

processAcks == \/ CoalesceAck
               \/ EndCoalesce
               \/ \E done \in SUBSET AckedStreams, err \in BOOLEAN :
                    ExecAcks(done, err)

Trimmer == \/ TrimStreams
           \/ TrimMGetError
           \/ \E st \in Streams : TrimMinId(st) \/ TrimMaxLen(st)

Next == \/ \E st \in Streams : Publish(st)
        \/ Reader
        \/ \E s \in Subs : Process(s) \/ Consumer(s)
        \/ processAcks
        \/ Trimmer
        \/ Crash

Spec == Init /\ [][Next]_vars

-----------------------------------------------------------------------------
(***************************************************************************)
(* Properties.                                                             *)
(***************************************************************************)

\* Every variable has its type: offsets are IDs or absent, and the channels
\* stay within their capacity.
TypeOK ==
  /\ log \in [Streams -> SUBSET Id]
  /\ lastId \in [Streams -> Id]
  /\ stored \in [Streams -> Id \cup {NoOffset}]
  /\ published \in [Streams -> SUBSET Id]
  /\ delivered \in [Streams -> SUBSET Id]
  /\ capped \in [Streams -> SUBSET Id]
  /\ pc \in [Subs -> {"none", "opening", "select", "batch", "exit", "gone"}]
  /\ offset \in [Subs -> Id]
  /\ closed \in [Subs -> BOOLEAN]
  /\ todo \in [Subs -> SUBSET Id]
  /\ out \in [Subs -> Seq(Id)]
  /\ got \in [Subs -> Seq(Id)]
  /\ unacked \in [Subs -> SUBSET Id]
  /\ loop \in {"idle", "gather", "read", "dispatch"}
  /\ visit \in SUBSET Subs
  /\ want \in [Streams -> Id \cup {NoOffset}]
  /\ batch \in [Streams -> SUBSET Id]
  /\ streamsLeft \in SUBSET Streams
  /\ acks \in Seq(Ack)
  /\ ackPc \in {"coalesce", "exec"}
  /\ ackBatch \in SUBSET Ack
  /\ highest \in [Streams -> Id \cup {NoOffset}]
  /\ trimPc \in {"idle", "minid", "maxlen", "panicked"}
  /\ trimOffsets \in [Streams -> Id \cup {NoOffset}]
  /\ trimLeft \in SUBSET Streams
  /\ crashes \in Nat

\* The messages of st that no subscription opened from now on can receive:
\* trimmed, or not above the recorded offset it would start from.
OutOfReach(st) ==
  {m \in published[st] :
     m \notin log[st] \/ (stored[st] # NoOffset /\ IdLeq(m, stored[st]))}

\* redisbroker.go's "at least once delivery semantics as long as messages
\* haven't been lost due to hitting the cap": a message gets out of reach of
\* future subscriptions (by an ack of it or of a later message, or by
\* TrimStreams) only if a consumer has received it or the cap removed it.
AtLeastOnce ==
  \A st \in Streams : OutOfReach(st) \subseteq delivered[st] \cup capped[st]

\* The recorded offset of a stream is that of a message which a consumer of
\* this very stream received (or the one recorded before): processAcks never
\* records an offset nobody acked, and never for another stream.
RecordedWasDelivered ==
  \A st \in Streams : stored[st] \in delivered[st] \cup {NoOffset, FirstOffset}

\* What a consumer has received from a subscription, followed by what waits
\* in messagesOut, is in stream order and without repetitions.
DeliveredInOrder ==
  \A s \in Subs :
    LET seen == got[s] \o out[s] IN
      \A i, j \in 1..Len(seen) : i < j => IdLess(seen[i], seen[j])

\* When the gathering ends, the offset XREAD will be asked for is not above
\* the offset of any subscriber of the stream ("to determine the minimum
\* required offset per stream").
MinimumGathered ==
  [][loop = "gather" /\ loop' = "read" =>
       \A s \in Registered : /\ want'[StreamOf[s]] # NoOffset
                             /\ IdLeq(want'[StreamOf[s]], offset[s])]_vars

\* "If an ACK is received out of order, it is ignored": the recorded offset
\* of a stream never moves back and is never removed.
OffsetNeverMovesBack ==
  [][\A st \in Streams :
       stored[st] # NoOffset =>
         stored'[st] # NoOffset /\ IdLeq(stored[st], stored'[st])]_vars

\* An ack that processAcks answers without an error is on record: after the
\* step the recorded offset is not below it.
AckRecorded ==
  [][\A a \in ackBatch :
       ackBatch' = {} /\ crashes' = crashes /\ a.off \notin unacked'[a.sub] =>
         /\ stored'[StreamOf[a.sub]] # NoOffset
         /\ IdLeq(a.off, stored'[StreamOf[a.sub]])]_vars

\* The goroutines keep running, XREAD does not fail or time out forever while
\* there is something to read, consumers read until they close, and a Lock()
\* that waits is granted between two read locks (sync.RWMutex excludes new
\* readers once a writer waits).
Fairness ==
  /\ WF_vars(Reader)
  /\ SF_vars(XRead)
  /\ WF_vars(processAcks)
  /\ \A s \in Subs : /\ WF_vars(ProcessMessage(s) \/ processedLastBatch(s)
                                                 \/ ProcessClosed(s))
                     /\ WF_vars(Messages(s))
                     /\ SF_vars(newSubscriber(s))
                     /\ SF_vars(Deregister(s))

FairSpec == Spec /\ Fairness

\* A subscriber that asks to be registered gets registered: the loop does not
\* "block new subscribers for a substantial amount of time".
SubscribersRegister ==
  \A s \in Subs : pc[s] = "opening" ~> pc[s] # "opening"

\* A registered subscriber that stays open receives every message above the
\* offset it started from, unless the cap removes it or the process dies.
Served(s, m) == \E i \in 1..Len(got[s]) : got[s][i] = m

DeliveryProgress ==
  \A s \in Subs :
    \A ms \in 1..MaxMs, q \in 0..(FirstId[2] + MaxPublished - 1) :
      LET m == <<ms, q>>
          st == StreamOf[s]
      IN  (s \in Registered /\ m \in log[st] /\ IdLess(offset[s], m))
             ~> \/ Served(s, m)
                \/ closed[s]
                \/ s \notin Registered
                \/ m \in capped[st]
=============================================================================

--------------------------- MODULE RedisBrokerInv ---------------------------
(***************************************************************************)
(* The inductive invariant behind AtLeastOnce.  It holds when no stream is *)
(* subscribed to more than once in the life of a process: then what XREAD  *)
(* returns for a stream was read from the offset of the subscriber it is   *)
(* sent to.  (With a second subscription it need not have been.)           *)
(***************************************************************************)
EXTENDS RedisBroker

OneSubscription ==
  \A s, t \in Subs : StreamOf[s] = StreamOf[t] => s = t

\* The messages of st that a consumer received or the cap removed.
Settled(st) == delivered[st] \cup capped[st]

\* o is not above the last ID, and all messages up to o are settled.
Passed(st, o) ==
  /\ IdLeq(o, lastId[st])
  /\ \A k \in published[st] : IdLeq(k, o) => k \in Settled(st)

\* Between the offset of s and each of the messages of S, which are all above
\* it, everything is settled or in S itself: S has no holes.
Contiguous(s, S) ==
  \A b \in S :
    /\ b \in published[StreamOf[s]]
    /\ IdLess(offset[s], b)
    /\ \A k \in published[StreamOf[s]] :
         IdLess(offset[s], k) /\ IdLeq(k, b) => k \in S \cup Settled(StreamOf[s])

\* IDs grow, entries are only appended, and what left a stream is settled.
StreamInv ==
  \A st \in Streams :
    /\ IsFiniteSet(published[st])
    /\ log[st] \subseteq published[st]
    /\ published[st] \ log[st] \subseteq Settled(st)
    /\ \A k \in published[st] : IdLess(minOffset, k) /\ IdLeq(k, lastId[st])

\* An offset on record, about to be recorded or used for trimming is passed.
OffsetInv ==
  \A st \in Streams :
    /\ stored[st] # NoOffset => Passed(st, stored[st])
    /\ highest[st] # NoOffset => Passed(st, highest[st])
    /\ trimOffsets[st] # NoOffset => Passed(st, trimOffsets[st])
    /\ trimPc = "minid" /\ st \in trimLeft => trimOffsets[st] # NoOffset

\* An ack in flight, or that a consumer may still make, is of a passed one.
AckInv ==
  /\ \A s \in Subs : \A m \in unacked[s] : Passed(StreamOf[s], m)
  /\ \A i \in 1..Len(acks) : Passed(StreamOf[acks[i].sub], acks[i].off)
  /\ \A a \in ackBatch : Passed(StreamOf[a.sub], a.off)

\* Up to the offset of a subscriber everything is settled or in messagesOut,
\* and up to an entry of messagesOut everything is settled or no later in it.
OutInv ==
  \A s \in Subs :
    /\ IdLeq(offset[s], lastId[StreamOf[s]])
    /\ \A k \in published[StreamOf[s]] :
         IdLeq(k, offset[s]) =>
           k \in Settled(StreamOf[s]) \/ \E j \in 1..Len(out[s]) : out[s][j] = k
    /\ \A i \in 1..Len(out[s]) :
         /\ IdLeq(out[s][i], lastId[StreamOf[s]])
         /\ \A k \in published[StreamOf[s]] :
              IdLeq(k, out[s][i]) =>
                k \in Settled(StreamOf[s]) \/ \E j \in 1..i : out[s][j] = k

\* Where the loop and the subscribers are relative to each other.
ControlInv ==
  /\ visit \subseteq Registered
  /\ loop \in {"idle", "read"} => visit = {}
  /\ loop # "dispatch" => streamsLeft = {}
  /\ \A s \in visit : StreamOf[s] \notin streamsLeft
  /\ \A s \in Subs : pc[s] = "batch" => loop = "dispatch" /\ s \in visit

\* An offset gathered is that of the subscriber, if it is still open.
GatherInv ==
  \A s \in Subs :
    want[StreamOf[s]] # NoOffset =>
      /\ loop \in {"gather", "read"}
      /\ s \notin visit
      /\ pc[s] \in {"select", "exit", "gone"}
      /\ pc[s] = "select" => want[StreamOf[s]] = offset[s]

\* A batch that is about to be sent, or was, continues the offset of the
\* subscriber.
BatchInv ==
  \A s \in Subs :
    /\ /\ loop = "dispatch"
       /\ pc[s] = "select"
       /\ s \in visit \/ StreamOf[s] \in streamsLeft
       => Contiguous(s, batch[StreamOf[s]])
    /\ Contiguous(s, todo[s])
    /\ pc[s] # "batch" => todo[s] = {}

\* The inductive invariant.
Inv == /\ TypeOK
       /\ StreamInv
       /\ OffsetInv
       /\ AckInv
       /\ OutInv
       /\ ControlInv
       /\ GatherInv
       /\ BatchInv

\* What a consumer receives has no gaps: up to each message it has received,
\* all messages of the stream were received or removed by the cap.
NoGaps == \A s \in Subs : \A i \in 1..Len(got[s]) : Passed(StreamOf[s], got[s][i])

-----------------------------------------------------------------------------
(***************************************************************************)
(* What RecordedWasDelivered rests on, with any number of subscriptions:   *)
(* an ack can only be made of what was received from the same stream.      *)
(***************************************************************************)
RecordInv ==
  /\ RecordedWasDelivered
  /\ \A st \in Streams : highest[st] \in delivered[st] \cup {NoOffset}
  /\ \A s \in Subs : unacked[s] \subseteq delivered[StreamOf[s]]
  /\ \A i \in 1..Len(acks) : acks[i].off \in delivered[StreamOf[acks[i].sub]]
  /\ \A a \in ackBatch : a.off \in delivered[StreamOf[a.sub]]

\* What left a stream other than by the cap is not above a message that some
\* consumer received from it, or the offset recorded at the start.
TrimmedWasReceived ==
  \A st \in Streams : \A m \in published[st] \ (log[st] \cup capped[st]) :
    \E d \in delivered[st] \cup ({FirstOffset} \ {NoOffset}) : IdLeq(m, d)

\* The trimmer works with offsets that were on record.
TrimInv ==
  /\ TrimmedWasReceived
  /\ \A st \in Streams :
       /\ trimOffsets[st] \in delivered[st] \cup {NoOffset, FirstOffset}
       /\ trimPc = "minid" /\ st \in trimLeft => trimOffsets[st] # NoOffset

-----------------------------------------------------------------------------
(***************************************************************************)
(* What the order of deliveries and of recorded offsets rests on, with any *)
(* number of subscriptions.                                                *)
(***************************************************************************)

\* The offsets that a subscriber of st may have, or that may be recorded.
Known(st) == published[st] \cup {minOffset} \cup ({FirstOffset} \ {NoOffset})

\* Where offsetLessThan compares as Redis does: the messages of a stream have
\* the same millisecond.
OneMillisecond ==
  \A st \in Streams : \A a, b \in Known(st) \ {minOffset} : a[1] = b[1]

\* Where ack.lua compares as Redis does: sequence numbers have one digit.
SingleDigits == \A st \in Streams : \A m \in Known(st) : m[2] < 10

\* Every offset and message is one that the stream has had.
KnownInv ==
  /\ \A st \in Streams :
       /\ \A m \in published[st] : IdLess(minOffset, m)
       /\ log[st] \subseteq published[st]
       /\ batch[st] \subseteq published[st]
       /\ delivered[st] \subseteq published[st]
       /\ want[st] \in Known(st) \cup {NoOffset}
  /\ \A s \in Subs :
       /\ offset[s] \in Known(StreamOf[s])
       /\ todo[s] \subseteq published[StreamOf[s]]
       /\ \A i \in 1..Len(out[s]) : out[s][i] \in published[StreamOf[s]]

\* A subscriber works on a batch only while the loop waits for it.
BusyInv == \A s \in Subs : pc[s] = "batch" => loop = "dispatch" /\ s \in visit

\* What came out of a subscription is in order and not above its offset.
SeenInv ==
  /\ DeliveredInOrder
  /\ \A s \in Subs :
       /\ pc[s] = "none" => got[s] = <<>> /\ out[s] = <<>>
       /\ \A i \in 1..Len(got[s] \o out[s]) : IdLeq((got[s] \o out[s])[i], offset[s])

\* The offset gathered so far is not above those of the subscribers visited.
LowestInv ==
  loop = "gather" =>
    \A s \in Registered \ visit : /\ want[StreamOf[s]] # NoOffset
                                  /\ IdLeq(want[StreamOf[s]], offset[s])

\* The offset to be recorded is not below those that were acked.
HighestInv ==
  \A a \in ackBatch : /\ highest[StreamOf[a.sub]] # NoOffset
                      /\ IdLeq(a.off, highest[StreamOf[a.sub]])
=============================================================================

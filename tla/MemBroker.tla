----------------------------- MODULE MemBroker -----------------------------
(***************************************************************************)
(* broker/membroker: one topic in memory, with the channel ch that all its *)
(* subscribers share, the map of messages not yet acked, and the mutex mx. *)
(* A goroutine per subscriber (process) offers the messages to a consumer  *)
(* over an unbuffered channel.                                             *)
(***************************************************************************)
EXTENDS Naturals, Sequences

CONSTANTS
  Subs,           \* subscribers
  Publishers,     \* goroutines that publish
  Free,           \* the mutex is not held
  ChCap,          \* capacity of ch (10000 in the code)
  MaxMessages     \* bound: messages published

VARIABLES
  seq,            \* t.seq
  ch,             \* t.ch
  messages,       \* the keys of t.messages
  mx,             \* t.mx: Free, or the publisher that waits for room in ch
  spc,            \* where process() of each subscriber is
  existing,       \* copyOfExisting, what is left of it
  hand,           \* the message process() has taken from ch
  sclosed,        \* s.closeCh is closed
  dropped         \* history: messages whose offer timed out

topicVars == <<seq, ch, messages, mx, dropped>>
subVars == <<spc, existing, hand, sclosed>>
brokerVars == <<topicVars, subVars>>

Message == 0..(MaxMessages - 1)

BrokerInit ==
  /\ seq = 0
  /\ ch = <<>>
  /\ messages = {}
  /\ mx = Free
  /\ dropped = {}
  /\ spc = [s \in Subs |-> "none"]
  /\ existing = [s \in Subs |-> {}]
  /\ hand = [s \in Subs |-> 0]
  /\ sclosed = [s \in Subs |-> FALSE]

\* Publish takes the mutex and keeps it while ch is full.
Publish(p) ==
  /\ mx = Free
  /\ seq < MaxMessages
  /\ seq' = seq + 1
  /\ messages' = messages \cup {seq}
  /\ IF Len(ch) < ChCap THEN ch' = Append(ch, seq) /\ UNCHANGED mx
                        ELSE mx' = p /\ UNCHANGED ch
  /\ UNCHANGED <<dropped, subVars>>

PublishResumes(p) ==
  /\ mx = p
  /\ Len(ch) < ChCap
  /\ ch' = Append(ch, seq - 1)
  /\ mx' = Free
  /\ UNCHANGED <<seq, messages, dropped, subVars>>

\* Called by the function that Acker returns.
ack(m) ==
  /\ mx = Free
  /\ messages' = messages \ {m}
  /\ UNCHANGED <<seq, ch, mx, dropped, subVars>>

NewSubscriber(s) ==
  /\ spc[s] = "none"
  /\ spc' = [spc EXCEPT ![s] = "copy"]
  /\ UNCHANGED <<topicVars, existing, hand, sclosed>>

CopyExisting(s) ==
  /\ spc[s] = "copy"
  /\ mx = Free
  /\ existing' = [existing EXCEPT ![s] = messages]
  /\ spc' = [spc EXCEPT ![s] = IF messages = {} THEN "select" ELSE "replay"]
  /\ UNCHANGED <<topicVars, hand, sclosed>>

\* Old messages are sent in any order, and whether or not closeCh is closed.
Replay(s, m) ==
  /\ spc[s] = "replay"
  /\ m \in existing[s]
  /\ existing' = [existing EXCEPT ![s] = @ \ {m}]
  /\ spc' = [spc EXCEPT ![s] = IF existing'[s] = {} THEN "select" ELSE "replay"]
  /\ UNCHANGED <<topicVars, hand, sclosed>>

Take(s) ==
  /\ spc[s] = "select"
  /\ ch # <<>>
  /\ hand' = [hand EXCEPT ![s] = Head(ch)]
  /\ ch' = Tail(ch)
  /\ spc' = [spc EXCEPT ![s] = "lookup"]
  /\ UNCHANGED <<seq, messages, mx, dropped, existing, sclosed>>

\* Mutant: what has not been acked is skipped, and not what has been.
LookupReversed(s) ==
  /\ spc[s] = "lookup"
  /\ mx = Free
  /\ spc' = [spc EXCEPT ![s] = IF hand[s] \in messages THEN "select" ELSE "offer"]
  /\ UNCHANGED <<topicVars, existing, hand, sclosed>>

\* A message that was acked in the meantime has no data any more.
Lookup(s) ==
  /\ spc[s] = "lookup"
  /\ mx = Free
  /\ spc' = [spc EXCEPT ![s] = IF hand[s] \in messages THEN "offer" ELSE "select"]
  /\ UNCHANGED <<topicVars, existing, hand, sclosed>>

Offer(s, m) ==
  /\ spc[s] = "offer"
  /\ m = hand[s]
  /\ spc' = [spc EXCEPT ![s] = "select"]
  /\ UNCHANGED <<topicVars, existing, hand, sclosed>>

\* Mutant: process() waits for the consumer for ever.
OfferNeverTimesOut(s) == spc[s] = "offer" /\ mx = s /\ UNCHANGED brokerVars

\* Nobody takes the message within 15 seconds.
OfferTimesOut(s) ==
  /\ spc[s] = "offer"
  /\ dropped' = dropped \cup {hand[s]}
  /\ spc' = [spc EXCEPT ![s] = "select"]
  /\ UNCHANGED <<seq, ch, messages, mx, existing, hand, sclosed>>

ProcessEnds(s) ==
  /\ spc[s] = "select"
  /\ sclosed[s]
  /\ spc' = [spc EXCEPT ![s] = "done"]
  /\ UNCHANGED <<topicVars, existing, hand, sclosed>>

CloseSubscriber(s) ==
  /\ sclosed' = [sclosed EXCEPT ![s] = TRUE]
  /\ UNCHANGED <<topicVars, spc, existing, hand>>

process(s) == \/ CopyExisting(s)
              \/ Take(s)
              \/ Lookup(s)
              \/ ProcessEnds(s)

\* The consumer of s receives m.
Receives(s, m) == Replay(s, m) \/ Offer(s, m)

-----------------------------------------------------------------------------
BrokerTypeOK ==
  /\ seq \in 0..MaxMessages
  /\ ch \in Seq(Message)
  /\ messages \subseteq Message
  /\ mx \in {Free} \cup Publishers
  /\ spc \in [Subs -> {"none", "copy", "replay", "select", "lookup", "offer",
                       "done"}]
  /\ existing \in [Subs -> SUBSET Message]
  /\ hand \in [Subs -> Message]
  /\ sclosed \in [Subs -> BOOLEAN]
  /\ dropped \subseteq Message

Range(s) == {s[i] : i \in DOMAIN s}

\* What is on its way to some consumer.
Underway ==
  Range(ch) \cup (UNION {existing[s] : s \in Subs})
    \cup {hand[s] : s \in {t \in Subs : spc[t] \in {"lookup", "offer"}}}
    \cup (IF mx = Free THEN {} ELSE {seq - 1})
=============================================================================

----------------------------- MODULE Forwarding -----------------------------
(***************************************************************************)
(* Federation: hosts pass on messages for a device that is present at      *)
(* another host.  Modelled are sendOutboundMessage and forwarding.go of    *)
(* serviceimpl, the forwarder and its cached websocket connections, the    *)
(* shared presence repository, and per host three topics of its broker.    *)
(* A broker delivers each entry of a topic once per run of the process;    *)
(* an ack is recorded as the offset up to which the next run skips all     *)
(* entries, as in redisbroker.  Faults are a choice, as often as MaxFaults *)
(* allows: failing calls, connections that break, hosts that crash.        *)
(***************************************************************************)
EXTENDS Naturals, Sequences, FiniteSets

CONSTANTS
  Hosts,
  None,
  Messages,       \* bound: messages that clients send to the device
  MinRetry,       \* minForwardingRetryInterval
  Timeout,        \* forwardingTimeout
  MaxTime,        \* bound: the clock
  MaxMoves,       \* bound: how often the device registers at a host
  MaxFaults       \* bound: faults

ASSUME ForwardingConstants ==
  /\ None \notin Hosts
  /\ MinRetry \in Nat
  /\ Timeout \in Nat
  /\ MaxTime \in Nat \ {0}
  /\ MaxMoves \in Nat
  /\ MaxFaults \in Nat

VARIABLES
  presence,       \* the host that presenceRepo has for the device, or None
  registered,     \* the hosts whose database has the device
  at,             \* the host the device is connected to, or None
  registering,    \* whether its Register is still at work there
  log,            \* per host and topic the entries published
  cursor,         \* how many of them this run of the process has delivered
  acked,          \* the positions of those acked
  tasks,          \* forwardMessage at work
  conns,          \* forwarder.conns: per pair of hosts none, open or dead
  requests,       \* OutboundMessages that a host has yet to answer
  down,           \* hosts whose process does not run
  transfer,       \* per host the step of the user transfer, and its position
  clock,
  moves,
  faults,
  accepted,       \* history: messages whose sender got an ack
  received,       \* history: messages the device got
  discarded       \* history: messages that failed for too long

device == <<presence, registered, at, registering, moves>>
broker == <<log, cursor, acked>>
history == <<accepted, received, discarded>>
time == <<clock, down>>
world == <<time, faults>>
vars == <<device, broker, tasks, conns, requests, transfer, world, history>>

ForwardingTopics == {"forwarding", "forwardingretry"}
Topics == ForwardingTopics \cup {"device"}

\* A message in a topic, with FirstFailed and LastFailed.
Entry(m, first, last) == [msg |-> m, first |-> first, last |-> last]
New(m) == Entry(m, 0, 0)

Init ==
  /\ presence = None
  /\ registered = {}
  /\ at = None
  /\ registering = FALSE
  /\ log = [h \in Hosts |-> [t \in Topics |-> <<>>]]
  /\ cursor = [h \in Hosts |-> [t \in Topics |-> 0]]
  /\ acked = [h \in Hosts |-> [t \in Topics |-> {}]]
  /\ tasks = {}
  /\ conns = [h \in Hosts |-> [g \in Hosts |-> "none"]]
  /\ requests = {}
  /\ transfer = [h \in Hosts |-> [pc |-> "idle", pos |-> 0]]
  /\ clock = 1
  /\ down = {}
  /\ moves = 0
  /\ faults = 0
  /\ accepted = {}
  /\ received = {}
  /\ discarded = {}

-----------------------------------------------------------------------------
(***************************************************************************)
(* The broker.                                                             *)
(***************************************************************************)

\* Mutant: the offset is that of the entry to read next.
OffsetOfNext(h, t) ==
  1 + CHOOSE n \in {0} \cup acked[h][t] : \A p \in acked[h][t] : p <= n

\* The offset recorded for a topic: that of the latest entry acked.
Offset(h, t) ==
  CHOOSE n \in {0} \cup acked[h][t] : \A p \in acked[h][t] : p <= n

Publish(h, t, e) == log' = [log EXCEPT ![h][t] = Append(@, e)]
Ack(h, t, pos) == acked' = [acked EXCEPT ![h][t] = @ \cup {pos}]

Fault == faults < MaxFaults /\ faults' = faults + 1

-----------------------------------------------------------------------------
(***************************************************************************)
(* sendOutboundMessage, for clients of a host and for other hosts.         *)
(***************************************************************************)

\* A request is from a client, or from a task of another host, unless that
\* no longer waits for the answer.
Client == <<"client">>
Gone == <<"gone">>
Id(k) == <<k.host, k.topic, k.pos>>

Request(m, h, from) == [msg |-> m, host |-> h, from |-> from, pc |-> "find"]

\* A client sends m, which reaches the host.
ClientSends(h, m) ==
  /\ h \notin down
  /\ m \notin accepted
  /\ \A r \in requests : r.from = Client => r.msg # m
  /\ requests' = requests \cup {Request(m, h, Client)}
  /\ UNCHANGED <<device, broker, tasks, conns, transfer, world, history>>

Step(r, pc) == requests' = (requests \ {r}) \cup {[r EXCEPT !.pc = pc]}

Answer(r, pc) ==
  IF r.from = Client THEN requests' = requests \ {r} ELSE Step(r, pc)

\* The host the device is present at decides the topic.
Find(r) ==
  /\ r.pc = "find"
  /\ \/ presence = None /\ requests' = requests \ {r}
     \/ presence = r.host /\ Step(r, "device")
     \/ presence \in Hosts \ {r.host} /\ Step(r, "forwarding")
  /\ UNCHANGED <<device, broker, tasks, conns, transfer, world, history>>

\* It is published, and the answer sent.  A client gets the answer at once.
PublishOutbound(r) ==
  /\ r.pc \in {"device", "forwarding"}
  /\ \/ /\ Publish(r.host, r.pc, New(r.msg))
        /\ Answer(r, "ack")
        /\ accepted' = IF r.from = Client THEN accepted \cup {r.msg} ELSE accepted
        /\ UNCHANGED faults
     \/ Fault /\ Answer(r, "error") /\ UNCHANGED <<log, accepted>>
  /\ UNCHANGED <<device, cursor, acked, tasks, conns, transfer, time, received,
                 discarded>>

-----------------------------------------------------------------------------
(***************************************************************************)
(* forwardMessage.                                                         *)
(***************************************************************************)

EntryOf(k) == log[k.host][k.topic][k.pos]
Go(k, pc) == tasks' = (tasks \ {k}) \cup {[k EXCEPT !.pc = pc]}

DurationSinceLastFailure(e) == IF e.last = 0 THEN 0 ELSE clock - e.last

Sleeping(e) == e.last # 0 /\ DurationSinceLastFailure(e) < MinRetry

\* One of the goroutines of forwardMessages receives the next entry and, after
\* the delay since its last failure, looks for the device.  The retry topic is
\* in the order of the last failures: none overtakes an entry that waits.
forwardMessage(h, t) ==
  LET pos == cursor[h][t] + 1
  IN  /\ h \notin down
      /\ pos <= Len(log[h][t])
      /\ ~Sleeping(log[h][t][pos])
      /\ cursor' = [cursor EXCEPT ![h][t] = pos]
      /\ tasks' = tasks \cup
           {[host |-> h, topic |-> t, pos |-> pos, to |-> presence,
             pc |-> IF presence = None THEN "fail"
                    ELSE IF presence = h THEN "local" ELSE "forward"]}
      /\ UNCHANGED <<device, log, acked, conns, requests, transfer, world,
                     history>>

\* As many goroutines as there are entries receive from either subscriber.
forwardMessages(h) == \E t \in ForwardingTopics : forwardMessage(h, t)

\* The user came back to this host.
PublishLocally(k) ==
  /\ k.pc = "local"
  /\ \/ /\ Publish(k.host, "device", New(EntryOf(k).msg))
        /\ Go(k, "ack")
        /\ UNCHANGED faults
     \/ Fault /\ Go(k, "fail") /\ UNCHANGED log
  /\ UNCHANGED <<device, cursor, acked, conns, requests, transfer, time, history>>

\* The websocket client: a new connection, and a message written to one, which
\* is lost with an error that is only logged if the connection is dead.
Connect(h, g) ==
  /\ g \notin down
  /\ conns' = [conns EXCEPT ![h][g] = "open"]

\* Mutant: the message never leaves the buffer of the client.
writeNothing(k, status) == requests' = requests

write(k, status) ==
  requests' = IF status = "dead" THEN requests
              ELSE requests \cup {Request(EntryOf(k).msg, k.to, Id(k))}

\* Forward: over the connection there is, whether or not it still works, or a
\* new one, which may fail; the callback waits for the answer.
Forward(k) ==
  LET status == conns[k.host][k.to]
  IN  /\ k.pc = "forward"
      /\ \/ /\ status # "none"
            /\ write(k, status)
            /\ Go(k, "waiting")
            /\ UNCHANGED <<conns, faults>>
         \/ /\ status = "none"
            /\ Connect(k.host, k.to)
            /\ write(k, "open")
            /\ Go(k, "waiting")
            /\ UNCHANGED faults
         \/ /\ status = "none"
            /\ IF k.to \in down THEN UNCHANGED faults ELSE Fault
            /\ Go(k, "fail")
            /\ UNCHANGED <<requests, conns>>
      /\ UNCHANGED <<device, broker, transfer, time, history>>

\* readFrom and triggerCallbackFor: the answer comes back over the connection.
triggerCallbackFor(r) ==
  /\ r.pc \in {"ack", "error"}
  /\ r.from # Client
  /\ requests' = requests \ {r}
  /\ tasks' = {IF Id(k) = r.from
               THEN [k EXCEPT !.pc = IF r.pc = "ack" THEN "ack" ELSE "fail"]
               ELSE k : k \in tasks}
  /\ UNCHANGED <<device, broker, conns, transfer, world, history>>

\* MarkFailed.
MarkFailed(e) == Entry(e.msg, IF e.first = 0 THEN clock ELSE e.first, clock)

\* Mutant: the time since the first failure is not counted.
NeverFailing(e) == 0

HasBeenFailingFor(e) == IF e.first = 0 THEN 0 ELSE clock - e.first

\* Mutant: the entry is acked although the message could not be published.
failMessageAcking(k) ==
  LET e == MarkFailed(EntryOf(k))
  IN  /\ k.pc = "fail"
      /\ HasBeenFailingFor(e) <= Timeout
      /\ Go(k, "ack")
      /\ \/ Publish(k.host, "forwardingretry", e) /\ UNCHANGED faults
         \/ Fault /\ UNCHANGED log
      /\ UNCHANGED <<device, cursor, acked, conns, requests, transfer, time,
                     history>>

\* failMessage: discard, or publish for a later retry and ack.  If that fails
\* the entry is left without ack.
failMessage(k) ==
  LET e == MarkFailed(EntryOf(k))
  IN  /\ k.pc = "fail"
      /\ \/ /\ HasBeenFailingFor(e) > Timeout
            /\ Go(k, "ack")
            /\ discarded' = discarded \cup {e.msg}
            /\ UNCHANGED <<log, faults>>
         \/ /\ HasBeenFailingFor(e) <= Timeout
            /\ \/ /\ Publish(k.host, "forwardingretry", e)
                  /\ Go(k, "ack")
                  /\ UNCHANGED faults
               \/ /\ Fault
                  /\ tasks' = tasks \ {k}
                  /\ UNCHANGED log
            /\ UNCHANGED discarded
      /\ UNCHANGED <<device, cursor, acked, conns, requests, transfer, time,
                     accepted, received>>

\* ack() records the offset, or fails, which nobody notices.
AckTask(k) ==
  /\ k.pc = "ack"
  /\ tasks' = tasks \ {k}
  /\ \/ Ack(k.host, k.topic, k.pos) /\ UNCHANGED faults
     \/ Fault /\ UNCHANGED acked
  /\ UNCHANGED <<device, log, cursor, conns, requests, transfer, time, history>>

-----------------------------------------------------------------------------
(***************************************************************************)
(* The device: handleRegister, and messages that its connection receives   *)
(* and acks.                                                               *)
(***************************************************************************)

\* The device connects to h, from where its topic's offset is, and registers:
\* its presence is announced.
Announce(h) ==
  /\ moves < MaxMoves
  /\ at # h
  /\ h \notin down
  /\ ~registering
  /\ moves' = moves + 1
  /\ at' = h
  /\ presence' = h
  /\ registering' = TRUE
  /\ cursor' = [cursor EXCEPT ![h]["device"] = Offset(h, "device")]
  /\ UNCHANGED <<registered, log, acked, tasks, conns, requests, transfer, world,
                 history>>

\* Then the database registers it, or fails with the presence announced.
RegisterDevice ==
  /\ registering
  /\ at \notin down
  /\ registering' = FALSE
  /\ \/ registered' = registered \cup {at} /\ UNCHANGED faults
     \/ Fault /\ UNCHANGED registered
  /\ UNCHANGED <<presence, at, moves, broker, tasks, conns, requests, transfer,
                 time, history>>

ReceiveMessage(h) ==
  /\ at = h
  /\ h \notin down
  /\ cursor[h]["device"] < Len(log[h]["device"])
  /\ cursor' = [cursor EXCEPT ![h]["device"] = @ + 1]
  /\ received' = received \cup {log[h]["device"][cursor'[h]["device"]].msg}
  /\ Ack(h, "device", cursor'[h]["device"])
  /\ UNCHANGED <<device, log, tasks, conns, requests, transfer, world,
                 accepted, discarded>>

-----------------------------------------------------------------------------
(***************************************************************************)
(* startUserTransfers and transferDeviceMessages.                          *)
(***************************************************************************)
Transfer(h, pc, pos) ==
  transfer' = [transfer EXCEPT ![h] = [pc |-> pc, pos |-> pos]]

\* Mutant: the hosts are compared the wrong way round.
StartTransferHere(h) ==
  /\ transfer[h].pc = "idle"
  /\ h \in registered \ down
  /\ presence = h
  /\ Transfer(h, "drain", Offset(h, "device"))
  /\ UNCHANGED <<device, broker, tasks, conns, requests, world, history>>

\* A registered device is present elsewhere: its topic is subscribed to.
StartTransfer(h) ==
  /\ transfer[h].pc = "idle"
  /\ h \in registered \ down
  /\ presence # h
  /\ Transfer(h, "drain", Offset(h, "device"))
  /\ UNCHANGED <<device, broker, tasks, conns, requests, world, history>>

\* Mutant: the message is acked and then published.
TransferAcking(h) ==
  LET pos == transfer[h].pos + 1
  IN  /\ transfer[h].pc = "drain"
      /\ pos <= Len(log[h]["device"])
      /\ Ack(h, "device", pos)
      /\ \/ /\ Publish(h, "forwarding", New(log[h]["device"][pos].msg))
            /\ Transfer(h, "drain", pos)
            /\ UNCHANGED faults
         \/ Fault /\ Transfer(h, "idle", 0) /\ UNCHANGED log
      /\ UNCHANGED <<device, cursor, tasks, conns, requests, time, history>>

\* A message of the device is published for forwarding; an error ends this.
TransferMessage(h) ==
  LET pos == transfer[h].pos + 1
  IN  /\ transfer[h].pc = "drain"
      /\ pos <= Len(log[h]["device"])
      /\ \/ /\ Publish(h, "forwarding", New(log[h]["device"][pos].msg))
            /\ Transfer(h, "ack", pos)
            /\ UNCHANGED faults
         \/ Fault /\ Transfer(h, "idle", 0) /\ UNCHANGED log
      /\ UNCHANGED <<device, cursor, acked, tasks, conns, requests, time, history>>

\* Then it is acked; an error is ignored.
TransferAck(h) ==
  /\ transfer[h].pc = "ack"
  /\ Transfer(h, "drain", transfer[h].pos)
  /\ \/ Ack(h, "device", transfer[h].pos) /\ UNCHANGED faults
     \/ Fault /\ UNCHANGED acked
  /\ UNCHANGED <<device, log, cursor, tasks, conns, requests, time, history>>

\* No message arrives for a tenth of the interval, all being transferred or
\* the broker being slow.
TransferEnds(h) ==
  /\ transfer[h].pc = "drain"
  /\ \/ transfer[h].pos = Len(log[h]["device"]) /\ UNCHANGED faults
     \/ transfer[h].pos < Len(log[h]["device"]) /\ Fault
  /\ Transfer(h, "unregister", 0)
  /\ UNCHANGED <<device, broker, tasks, conns, requests, time, history>>

\* The device is unregistered; an error is ignored.
Unregister(h) ==
  /\ transfer[h].pc = "unregister"
  /\ Transfer(h, "idle", 0)
  /\ \/ registered' = registered \ {h} /\ UNCHANGED faults
     \/ Fault /\ UNCHANGED registered
  /\ UNCHANGED <<presence, at, registering, moves, broker, tasks, conns,
                 requests, time, history>>

-----------------------------------------------------------------------------
(***************************************************************************)
(* Time and faults.                                                        *)
(***************************************************************************)
\* Time only matters while messages have failed; the clock passes MaxTime only
\* for them to be tried again.
Tick ==
  /\ \E h \in Hosts : LET retry == log[h]["forwardingretry"]
                     IN  \E pos \in DOMAIN retry :
                           /\ pos \notin acked[h]["forwardingretry"]
                           /\ clock < MaxTime \/ Sleeping(retry[pos])
  /\ clock' = clock + 1
  /\ UNCHANGED <<device, broker, tasks, conns, requests, transfer, down, faults,
                 history>>

From(h) == {r \in requests : r.from \notin {Client, Gone} /\ r.from[1] = h}
Orphaned(R) == {[r EXCEPT !.from = Gone] : r \in R}

\* The websocket from h to g breaks.  The connection stays in conns; requests
\* on it may be lost, and the answers to the others are.
ConnectionBreaks(h, g) ==
  /\ conns[h][g] = "open"
  /\ Fault
  /\ conns' = [conns EXCEPT ![h][g] = "dead"]
  /\ \E lost \in SUBSET {r \in From(h) : r.pc = "find"} :
       requests' = (requests \ From(h)) \cup Orphaned(From(h) \ lost)
  /\ UNCHANGED <<device, broker, tasks, transfer, time, history>>

\* The process of host h ends.
Crash(h) ==
  /\ h \notin down
  /\ Fault
  /\ down' = down \cup {h}
  /\ tasks' = {k \in tasks : k.host # h}
  /\ conns' = [f \in Hosts |-> [g \in Hosts |->
       IF f = h THEN "none"
       ELSE IF g = h /\ conns[f][g] = "open" THEN "dead" ELSE conns[f][g]]]
  /\ requests' = {r \in (requests \ From(h)) \cup Orphaned(From(h)) : r.host # h}
  /\ Transfer(h, "idle", 0)
  /\ UNCHANGED <<device, broker, clock, history>>

\* It is started again: the topics are subscribed to from their offsets on, and
\* the device connects again.
Restart(h) ==
  /\ h \in down
  /\ down' = down \ {h}
  /\ cursor' = [cursor EXCEPT ![h] = [t \in Topics |-> Offset(h, t)]]
  /\ UNCHANGED <<device, log, acked, tasks, conns, requests, transfer, clock,
                 faults, history>>

-----------------------------------------------------------------------------
System ==
  \/ \E r \in requests : \/ Find(r)
                         \/ PublishOutbound(r)
                         \/ triggerCallbackFor(r)
  \/ \E k \in tasks : \/ PublishLocally(k)
                      \/ Forward(k)
                      \/ failMessage(k)
                      \/ AckTask(k)
  \/ \E h \in Hosts : \/ forwardMessages(h)
                      \/ ReceiveMessage(h)
                      \/ StartTransfer(h)
                      \/ TransferMessage(h)
                      \/ TransferAck(h)
                      \/ TransferEnds(h)
                      \/ Unregister(h)
                      \/ Restart(h)
  \/ RegisterDevice
  \/ Tick

Next ==
  \/ System
  \/ \E h \in Hosts : \/ \E m \in Messages : ClientSends(h, m)
                      \/ Announce(h)
                      \/ \E g \in Hosts : ConnectionBreaks(h, g)
                      \/ Crash(h)

\* The goroutines of the hosts are scheduled, time passes, and the device
\* stays connected to some host.  Faults are bounded.
Spec == Init /\ [][Next]_vars /\ WF_vars(System)

-----------------------------------------------------------------------------
(***************************************************************************)
(* Properties.                                                             *)
(***************************************************************************)
DeviceOK ==
  /\ presence \in Hosts \cup {None}
  /\ registered \subseteq Hosts
  /\ at \in Hosts \cup {None}
  /\ registering => at \in Hosts
  /\ conns \in [Hosts -> [Hosts -> {"none", "open", "dead"}]]
  /\ down \subseteq Hosts
  /\ clock \in Nat \ {0}
  /\ moves \in Nat
  /\ faults \in Nat

LogOK ==
  /\ log \in [Hosts -> [Topics -> Seq([msg : Messages, first : Nat, last : Nat])]]
  /\ cursor \in [Hosts -> [Topics -> Nat]]
  /\ acked \in [Hosts -> [Topics -> SUBSET Nat]]
  /\ \A h \in Hosts, t \in Topics :
       /\ cursor[h][t] <= Len(log[h][t])
       /\ acked[h][t] \subseteq 1..Len(log[h][t])

TasksOK ==
  /\ tasks \subseteq
       [host : Hosts, topic : ForwardingTopics, pos : Nat, to : Hosts \cup {None},
        pc : {"local", "forward", "waiting", "fail", "ack"}]
  /\ \A k \in tasks : /\ k.pos \in 1..Len(log[k.host][k.topic])
                      /\ k.pc = "forward" => k.to \in Hosts

TransferOK ==
  /\ transfer \in [Hosts -> [pc : {"idle", "drain", "ack", "unregister"}, pos : Nat]]
  /\ \A h \in Hosts : /\ transfer[h].pos <= Len(log[h]["device"])
                      /\ transfer[h].pc = "ack" => transfer[h].pos > 0

RequestsOK ==
  /\ requests \subseteq
       [msg : Messages, host : Hosts,
        from : {Client, Gone} \cup (Hosts \X ForwardingTopics \X Nat),
        pc : {"find", "device", "forwarding", "ack", "error"}]
  /\ \A r \in requests :
       \/ r.from \in {Client, Gone}
       \/ \E h \in Hosts, t \in ForwardingTopics : \E pos \in 1..Len(log[h][t]) :
            r.from = <<h, t, pos>> /\ log[h][t][pos].msg = r.msg

\* Every variable has its type; tasks and transfers are about entries there are,
\* and a request from another host is about the message of the entry that the
\* callback will ack.
TypeOK == DeviceOK /\ LogOK /\ TasksOK /\ TransferOK /\ RequestsOK

Entries(h, t) == 1..Len(log[h][t])
Unacked(h, t) == Entries(h, t) \ acked[h][t]

\* Whoever passes a message on publishes it before the old entry is acked: of a
\* message whose sender got an ack there is an entry without ack somewhere, until
\* the device got it or it failed for longer than forwardingTimeout.
PassedOnBeforeAcked ==
  \A m \in accepted \ (received \cup discarded) :
    \E h \in Hosts, t \in Topics : \E pos \in Unacked(h, t) : log[h][t][pos].msg = m

\* The entries that are acked next, or when the answer of another host arrives.
Pending ==
  {Id(k) : k \in {j \in tasks : j.pc = "ack"}}
    \cup {r.from : r \in {q \in requests : q.pc = "ack"}}
    \cup {<<h, "device", transfer[h].pos>> :
            h \in {g \in Hosts : transfer[g].pc = "ack"}}

\* What this rests on: there is an entry without ack that is not about to be
\* acked either, so that no two goroutines each rely on the other's entry.
EntryToPassOn ==
  \A m \in accepted \ (received \cup discarded) :
    \E h \in Hosts, t \in Topics : \E pos \in Unacked(h, t) :
      log[h][t][pos].msg = m /\ <<h, t, pos>> \notin Pending

\* A message is not tried again once it has failed for forwardingTimeout, across
\* all its entries in the retry topic.
RetriesWithinTimeout ==
  \A h \in Hosts : \A pos \in Entries(h, "forwardingretry") :
    LET e == log[h]["forwardingretry"][pos]
    IN  0 < e.first /\ e.first <= e.last /\ e.last <= e.first + Timeout

\* "don't ack so that message is not lost": an entry that failMessage leaves
\* without ack is behind the recorded offset, so that the next run of the
\* process gets it again.
UnackedNotLost ==
  [][\A k \in tasks :
       k.pc = "fail" /\ k.host \notin down' /\ Id(k) \notin {Id(j) : j \in tasks'}
         => k.pos > Offset(k.host, k.topic)]_vars

(***************************************************************************)
(* Entries without ack that this run of the processes never gets back to.  *)
(***************************************************************************)
\* After a fault no goroutine has it, or one waits for an answer that will not
\* come.
GivenUp(h, t, pos) ==
  /\ faults > 0
  /\ pos <= cursor[h][t]
  /\ \A k \in tasks : Id(k) = <<h, t, pos>> =>
       k.pc = "waiting" /\ \A r \in requests : r.from # Id(k)

\* The device is elsewhere and nothing transfers its messages, or it is here
\* and its subscriber is past the entry.
LeftBehind(h, pos) ==
  IF at = h THEN pos <= cursor[h]["device"]
            ELSE h \notin registered \/ pos <= Offset(h, "device")

\* A message whose sender got an ack reaches the device or fails for longer
\* than forwardingTimeout, unless all its entries are given up or left behind.
MessagesSettle ==
  \A m \in Messages :
    m \in accepted ~>
      \/ m \in received \cup discarded
      \/ []\A h \in Hosts, t \in Topics : \A pos \in Unacked(h, t) :
             log[h][t][pos].msg = m =>
               IF t = "device" THEN LeftBehind(h, pos) ELSE GivenUp(h, t, pos)
=============================================================================

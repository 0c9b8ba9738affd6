------------------------------- MODULE VoiceUdp -------------------------------
(***************************************************************************)
(* VoiceUdp of src/net/udp/mod.rs: the queue of encrypted packets that is  *)
(* sent at one packet per 20 ms, the keepalive that is sent every 5 s, and *)
(* the requests to be told when the queue has been flushed.                *)
(*                                                                         *)
(* One iteration of the loop of poll_next is one step, so that time may    *)
(* pass and the socket may change between two iterations.  Packets are     *)
(* numbered in the order they are queued; the keepalive's content, its     *)
(* counter, is left out.                                                   *)
(***************************************************************************)
EXTENDS Runtime, Naturals, Sequences, FiniteSets

CONSTANTS
    MaxPackets,     \* how many packets are queued
    MaxRequests,    \* how often somebody waits for the flush
    MaxTicks,       \* how many send intervals may have elapsed unnoticed
    MaxSwitches,    \* how often the socket is connected or closed
    MaxFaults       \* how often it blocks or fails

ASSUME UdpAssumption ==
    /\ MaxPackets \in Nat /\ MaxRequests \in Nat /\ MaxTicks \in Nat \ {0}
    /\ MaxSwitches \in Nat /\ MaxFaults \in Nat

VARIABLES
    \* fields of VoiceUdp
    socket,             \* there is one
    outcoming,          \* the channel of packets
    pending_opus,       \* the packet taken from it, or NoPacket
    flushed,            \* the channel of flush requests
    pending_keep_alive, \* a keepalive waits to be sent
    opus_ticks,         \* send intervals that have elapsed and were not taken
    keep_alive_due,     \* the keepalive interval has elapsed
    \* the poll
    pc,                 \* "idle" or "loop"
    ret,                \* what the last poll returned, "Polling" while it runs
    \* the UDP socket
    net,                \* "ready" to send or "blocked"
    faults, switches,
    \* history
    accepted,           \* the number of packets queued so far
    wire,               \* the packets sent
    requests,           \* the number of flush requests so far
    answered            \* the flush requests an open socket has answered

queues == <<outcoming, pending_opus, flushed, answered>>
intervals == <<opus_ticks, keep_alive_due>>
bounds == <<faults, switches, requests>>
vars == <<taskVars, socket, queues, intervals, pending_keep_alive, pc, ret, net, bounds,
          accepted, wire>>

NoPacket == 0

Init ==
    /\ wake = TRUE /\ interest = {}
    /\ socket = FALSE /\ net = "ready"
    /\ outcoming = <<>> /\ pending_opus = NoPacket /\ flushed = <<>>
    /\ pending_keep_alive = FALSE
    /\ opus_ticks = 0 /\ keep_alive_due = TRUE
    /\ pc = "idle" /\ ret = "Pending"
    /\ faults = 0 /\ switches = 0 /\ requests = 0
    /\ accepted = 0 /\ wire = <<>> /\ answered = {}

------------------------------------------------------------------------------
(* Calls of the owner.                                                     *)

Idle == pc = "idle" /\ UNCHANGED <<pc, ret>>

\* connect() that succeeds; one that fails changes nothing.
connect ==
    /\ Idle /\ switches < MaxSwitches
    /\ switches' = switches + 1
    /\ socket' = TRUE /\ net' = "ready"
    /\ wake' = TRUE /\ interest' = interest \ {"write"}
    /\ UNCHANGED <<queues, intervals, pending_keep_alive, faults, requests, accepted,
                   wire>>

close ==
    /\ Idle /\ switches < MaxSwitches
    /\ switches' = switches + 1
    /\ socket' = FALSE
    /\ wake' = TRUE /\ interest' = interest \ {"write"}
    /\ UNCHANGED <<queues, intervals, pending_keep_alive, net, faults, requests, accepted,
                   wire>>

send ==
    /\ Idle /\ accepted < MaxPackets
    /\ accepted' = accepted + 1
    /\ outcoming' = Append(outcoming, accepted')
    /\ Notify({"queue"})
    /\ UNCHANGED <<socket, pending_opus, flushed, answered, intervals, pending_keep_alive,
                   net, bounds, wire>>

\* The channel of flush requests is only ever try_recv'd: no waker is woken.
connect_flushed_event ==
    /\ Idle /\ requests < MaxRequests
    /\ requests' = requests + 1
    /\ flushed' = Append(flushed, accepted)
    /\ UNCHANGED <<taskVars, socket, outcoming, pending_opus, answered, intervals,
                   pending_keep_alive, net, faults, switches, accepted, wire>>

------------------------------------------------------------------------------
(* poll_next.                                                              *)

Again == pc' = "loop" /\ UNCHANGED <<ret, taskVars>>

Error == pc' = "idle" /\ ret' = "Error" /\ wake' = TRUE /\ UNCHANGED interest

Pending(sources) ==
    /\ pc' = "idle" /\ ret' = "Pending"
    /\ interest' = interest \cup sources
    /\ UNCHANGED wake

\* Without a socket: the packets are forgotten and whoever waits is answered.
\* pending_opus stays.
PollClosed ==
    /\ pc = "idle" /\ ~socket
    /\ outcoming' = <<>> /\ flushed' = <<>>
    /\ ret' = "None"
    /\ wake' = FALSE /\ interest' = interest \cup {"queue"}
    /\ UNCHANGED <<socket, pending_opus, answered, intervals, pending_keep_alive, pc, net,
                   bounds, accepted, wire>>

PollStart ==
    /\ pc = "idle" /\ socket
    /\ pc' = "loop" /\ ret' = "Polling" /\ wake' = FALSE
    /\ UNCHANGED <<interest, socket, queues, intervals, pending_keep_alive, net, bounds,
                   accepted, wire>>

\* pending_opus once poll_recv has had its turn.  Mutant: poll_recv has its turn
\* even while there is a pending packet.
TakeAlways == IF outcoming = <<>> THEN pending_opus ELSE Head(outcoming)
Packet == IF pending_opus = NoPacket /\ outcoming # <<>> THEN Head(outcoming)
          ELSE pending_opus

\* poll_recv has nothing to give.  Mutant: the pending packet is forgotten.
ChannelEmpty == outcoming = <<>>
NothingQueued == pending_opus = NoPacket /\ outcoming = <<>>

\* The first half of an iteration, up to the two intervals.
Fill ==
    /\ outcoming' = IF Packet = pending_opus THEN outcoming ELSE Tail(outcoming)
    /\ IF NothingQueued
       THEN /\ flushed' = <<>>
            /\ answered' = answered \cup {flushed[i] : i \in DOMAIN flushed}
       ELSE UNCHANGED <<flushed, answered>>

\* Both intervals are polled: what has elapsed is taken.
TakeTicks ==
    /\ opus_ticks' = IF opus_ticks > 0 THEN opus_ticks - 1 ELSE 0
    /\ keep_alive_due' = FALSE

Iteration ==
    /\ pc = "loop"
    /\ Fill
    /\ TakeTicks
    /\ UNCHANGED <<socket, net, switches, requests, accepted>>

Waker(ready, source) == IF ready THEN {} ELSE {source}
QueueWaker == Waker(~NothingQueued, "queue")

\* if let Some(packet).  Mutant: without it.
AnyPacket == TRUE
SomePacket == Packet # NoPacket

\* Mutant: a packet that was sent stays pending.
StaysPending == Packet
AfterSent == NoPacket

OpusReady == Iteration /\ opus_ticks > 0 /\ UNCHANGED pending_keep_alive

OpusNothing ==
    /\ OpusReady /\ ~SomePacket
    /\ Again
    /\ UNCHANGED <<pending_opus, wire, faults>>

OpusSent ==
    /\ OpusReady /\ SomePacket /\ net = "ready"
    /\ wire' = Append(wire, Packet)
    /\ pending_opus' = AfterSent
    /\ Again
    /\ UNCHANGED faults

\* ready! returns before anything else is done with a keepalive that is due.
OpusBlocked ==
    /\ OpusReady /\ SomePacket /\ net = "blocked"
    /\ pending_opus' = Packet
    /\ Pending({"write"} \cup Waker(keep_alive_due, "keepalive"))
    /\ UNCHANGED <<wire, faults>>

Fault == faults < MaxFaults /\ faults' = faults + 1

OpusErr ==
    /\ OpusReady /\ SomePacket /\ net = "ready"
    /\ Fault
    /\ pending_opus' = Packet
    /\ Error
    /\ UNCHANGED wire

KeepAliveReady ==
    Iteration /\ opus_ticks = 0 /\ keep_alive_due /\ pending_opus' = Packet
              /\ UNCHANGED wire

KeepAliveSent ==
    /\ KeepAliveReady /\ net = "ready"
    /\ pending_keep_alive' = FALSE
    /\ Again
    /\ UNCHANGED faults

KeepAliveBlocked ==
    /\ KeepAliveReady /\ net = "blocked"
    /\ pending_keep_alive' = TRUE
    /\ Pending({"write", "opus"} \cup QueueWaker)
    /\ UNCHANGED faults

KeepAliveErr ==
    /\ KeepAliveReady /\ net = "ready"
    /\ Fault
    /\ pending_keep_alive' = TRUE
    /\ Error

\* Neither interval has elapsed.  Mutant: the send interval is not polled.
KeepAliveWaker == {"keepalive"}
TickWaker == {"opus", "keepalive"}

LoopEnd ==
    /\ Iteration /\ opus_ticks = 0 /\ ~keep_alive_due
    /\ pending_opus' = Packet
    /\ Pending(TickWaker \cup QueueWaker)
    /\ UNCHANGED <<pending_keep_alive, wire, faults>>

------------------------------------------------------------------------------
(* The intervals and the socket.                                           *)

\* MissedTickBehavior::Burst: every elapsed interval is answered.
OpusTick ==
    /\ opus_ticks < MaxTicks
    /\ opus_ticks' = opus_ticks + 1
    /\ Notify({"opus"})
    /\ UNCHANGED <<socket, queues, keep_alive_due, pending_keep_alive, pc, ret, net, bounds,
                   accepted, wire>>

\* MissedTickBehavior::Delay: however late, it is answered once.
KeepAliveTick ==
    /\ ~keep_alive_due
    /\ keep_alive_due' = TRUE
    /\ Notify({"keepalive"})
    /\ UNCHANGED <<socket, queues, opus_ticks, pending_keep_alive, pc, ret, net, bounds,
                   accepted, wire>>

NetBlock ==
    /\ socket /\ net = "ready" /\ Fault
    /\ net' = "blocked"
    /\ UNCHANGED <<taskVars, socket, queues, intervals, pending_keep_alive, pc, ret, switches,
                   requests, accepted, wire>>

NetUnblock ==
    /\ socket /\ net = "blocked"
    /\ net' = "ready"
    /\ Notify({"write"})
    /\ UNCHANGED <<socket, queues, intervals, pending_keep_alive, pc, ret, bounds, accepted,
                   wire>>

------------------------------------------------------------------------------
Poll == PollClosed \/ PollStart
Loop == \/ OpusNothing \/ OpusSent \/ OpusBlocked \/ OpusErr
        \/ KeepAliveSent \/ KeepAliveBlocked \/ KeepAliveErr \/ LoopEnd
Owner == connect \/ close \/ send \/ connect_flushed_event
World == OpusTick \/ KeepAliveTick \/ NetBlock \/ NetUnblock

Next == Poll \/ Loop \/ Owner \/ World

Spec == Init /\ [][Next]_vars

\* A woken task is polled, a poll runs to its return, time passes and a socket that
\* blocks is ready again.  Nobody has to call anything.
Fairness ==
    /\ WF_vars(wake /\ Poll)
    /\ WF_vars(Loop)
    /\ WF_vars(OpusTick)
    /\ WF_vars(NetUnblock)

FairSpec == Spec /\ Fairness

------------------------------------------------------------------------------
(* Properties.                                                             *)

\* What has been queued and neither sent nor forgotten.
Unsent == IF pending_opus = NoPacket THEN outcoming ELSE <<pending_opus>> \o outcoming

\* The kinds of value each variable holds.
TypeOK ==
    /\ wake \in BOOLEAN
    /\ interest \subseteq {"queue", "opus", "keepalive", "write"}
    /\ socket \in BOOLEAN
    /\ net \in {"ready", "blocked"}
    /\ outcoming \in Seq(1 .. MaxPackets)
    /\ pending_opus \in 0 .. MaxPackets
    /\ flushed \in Seq(0 .. MaxPackets)
    /\ answered \subseteq 0 .. MaxPackets
    /\ pending_keep_alive \in BOOLEAN
    /\ opus_ticks \in 0 .. MaxTicks
    /\ keep_alive_due \in BOOLEAN
    /\ pc \in {"idle", "loop"}
    /\ ret \in {"Polling", "Pending", "Error", "None"}
    /\ faults \in 0 .. MaxFaults
    /\ switches \in 0 .. MaxSwitches
    /\ requests \in 0 .. MaxRequests
    /\ accepted \in 0 .. MaxPackets
    /\ wire \in Seq(1 .. MaxPackets)

\* However often a send blocks or fails, a packet is sent at most once and in its
\* turn, and a closed socket's packets that come back with a new socket do too.
SentInOrder ==
    LET all == wire \o Unsent
    IN \A i, j \in DOMAIN all : i < j => all[i] < all[j]

\* wait_until_flushed: an open socket answers a request only when every packet
\* queued before it has left, the one that a blocked or failed send has kept too.
FlushMeansSent ==
    \A mark \in answered : \A i \in DOMAIN Unsent : Unsent[i] > mark

\* A VoiceUdp that sleeps is woken by its send interval, or by a socket that is ready
\* again, of whatever poll the last registration is; without a socket it has no packets.
NoLostWakeup ==
    pc = "idle" /\ ~wake =>
        IF socket THEN "opus" \in interest \/ (net = "blocked" /\ "write" \in interest)
        ELSE "queue" \in interest /\ outcoming = <<>>

\* VoiceUdp is the queue that the client takes it for.
Promise == INSTANCE PacketQueue
    WITH Packets <- 1 .. MaxPackets, Requests <- 0 .. MaxPackets,
         open <- socket, queue <- Unsent, sent <- wire,
         waiting <- {flushed[i] : i \in DOMAIN flushed}
Implements == Promise!Spec

\* A packet that was queued leaves, unless the socket is closed first.
PacketsAreSent == Unsent # <<>> ~> Unsent = <<>> \/ ~socket

\* A flush request is answered although asking does not wake the task, provided
\* that packets do not keep coming; a closed socket answers when it is polled.
FlushIsAnswered == flushed # <<>> /\ socket ~> flushed = <<>> \/ ~socket
=============================================================================

--------------------------- MODULE VoiceUdpProofs ---------------------------
(***************************************************************************)
(* VoiceUdp implements PacketQueue, and what it sends and answers is in    *)
(* order, for any number of packets, requests, intervals and faults.       *)
(*                                                                         *)
(* Every step of VoiceUdp is first shown to be one of PacketQueue, so that *)
(* the order of the packets is an invariant of PacketQueue's few actions;  *)
(* only the answers need the detail of VoiceUdp again.                     *)
(***************************************************************************)
EXTENDS VoiceUdp, SequenceTheorems, TLAPS

USE DEF NoPacket

------------------------------------------------------------------------------
(* Sequences that begin with a given element.                              *)

\* The head, the tail and the type of such a sequence.
LEMMA Cons ==
    ASSUME NEW S, NEW x \in S, NEW s \in Seq(S)
    PROVE  /\ <<x>> \o s \in Seq(S)
           /\ <<x>> \o s # <<>>
           /\ Head(<<x>> \o s) = x
           /\ Tail(<<x>> \o s) = s
           /\ SubSeq(<<x>> \o s, 1, 1) = <<x>>
  <1>. DEFINE c == <<x>> \o s
  <1>1. <<x>> \in Seq(S) /\ Len(<<x>>) = 1 /\ <<x>>[1] = x
    OBVIOUS
  <1>2. c \in Seq(S) /\ Len(c) = 1 + Len(s)
    BY <1>1, ConcatProperties
  <1>3. c[1] = x /\ \A i \in 1 .. Len(s) : c[i + 1] = s[i]
    <2>1. \A i \in 1 .. 1 + Len(s) : c[i] = IF i <= 1 THEN <<x>>[i] ELSE s[i - 1]
      BY <1>1, ConcatProperties
    <2>2. Len(s) \in Nat
      BY LenProperties
    <2>3. c[1] = x
      BY <1>1, <2>1, <2>2
    <2>4. ASSUME NEW i \in 1 .. Len(s)
          PROVE  c[i + 1] = s[i]
      <3>1. i + 1 \in 1 .. 1 + Len(s) /\ ~(i + 1 <= 1) /\ i + 1 - 1 = i
        BY <2>2
      <3>. HIDE DEF c
      <3>. QED
        BY <2>1, <3>1
    <2>. QED
      BY <2>3, <2>4
  <1>4. c # <<>> /\ Head(c) = x
    BY <1>2, <1>3
  <1>5. Tail(c) = s
    <2>1. Tail(c) \in Seq(S) /\ Len(Tail(c)) = Len(s)
      BY <1>2, <1>4, HeadTailProperties
    <2>2. \A i \in 1 .. Len(s) : Tail(c)[i] = s[i]
      BY <1>2, <1>3, <1>4, <2>1, HeadTailProperties
    <2>. QED
      BY <2>1, <2>2, SeqEqual
  <1>6. SubSeq(c, 1, 1) = <<x>>
    <2>1. Len(s) \in Nat /\ 1 \in 1 .. Len(c)
      BY <1>2, LenProperties
    <2>2. SubSeq(c, 1, 1) = <<c[1]>> \o SubSeq(c, 2, 1)
      BY <1>2, <2>1, SubSeqRecursiveFirst
    <2>3. SubSeq(c, 2, 1) = <<>>
      BY SubSeqEmpty
    <2>. QED
      BY <1>1, <1>3, <2>2, <2>3, ConcatEmptySeq
  <1>. QED
    BY <1>2, <1>4, <1>5, <1>6

\* Adding at the end and at the front do not get in each other's way.
LEMMA ConsAppend ==
    ASSUME NEW S, NEW x \in S, NEW y \in S, NEW s \in Seq(S)
    PROVE  <<x>> \o Append(s, y) = Append(<<x>> \o s, y)
  <1>1. Append(s, y) = s \o <<y>>
    BY AppendIsConcat
  <1>2. <<x>> \in Seq(S) /\ <<y>> \in Seq(S)
    OBVIOUS
  <1>3. Append(<<x>> \o s, y) = (<<x>> \o s) \o <<y>>
    BY Cons, AppendIsConcat
  <1>. QED
    BY <1>1, <1>2, <1>3, ConcatAssociative

\* A sequence is its head before its tail.
LEMMA HeadBeforeTail ==
    ASSUME NEW S, NEW s \in Seq(S), s # <<>>
    PROVE  <<Head(s)>> \o Tail(s) = s
  <1>1. Len(s) \in Nat /\ Len(s) >= 1 /\ s[1] = Head(s)
    BY EmptySeq
  <1>2. s = SubSeq(s, 1, Len(s))
    BY SubSeqFull
  <1>3. SubSeq(s, 1, Len(s)) = <<s[1]>> \o SubSeq(s, 2, Len(s))
    <2>1. 1 \in 1 .. Len(s) /\ Len(s) \in 1 .. Len(s) /\ 1 + 1 = 2
      BY <1>1
    <2>. QED
      BY <2>1, SubSeqRecursiveFirst
  <1>4. Tail(s) = SubSeq(s, 2, Len(s))
    BY TailIsSubSeq
  <1>. QED
    BY <1>1, <1>2, <1>3, <1>4

------------------------------------------------------------------------------
(* What the steps do to the queue.                                         *)

\* The queue is a sequence of packets.
LEMMA UnsentType ==
    ASSUME TypeOK
    PROVE  Unsent \in Seq(1 .. MaxPackets)
  <1>1. CASE pending_opus = NoPacket
    BY <1>1 DEF Unsent, TypeOK
  <1>2. CASE pending_opus # NoPacket
    <2>1. pending_opus \in 1 .. MaxPackets /\ outcoming \in Seq(1 .. MaxPackets)
      BY <1>2, UdpAssumption DEF TypeOK
    <2>. QED
      BY <1>2, <2>1, Cons DEF Unsent
  <1>. QED
    BY <1>1, <1>2

\* The packet of an iteration is the first of the queue; there is none exactly
\* when the queue is empty.
LEMMA PacketIsHead ==
    ASSUME TypeOK
    PROVE  /\ Packet = NoPacket <=> Unsent = <<>>
           /\ NothingQueued <=> Unsent = <<>>
           /\ Packet # NoPacket => Packet = Head(Unsent)
           /\ Packet \in 0 .. MaxPackets
  <1>1. CASE pending_opus # NoPacket
    <2>1. pending_opus \in 1 .. MaxPackets /\ outcoming \in Seq(1 .. MaxPackets)
      BY <1>1, UdpAssumption DEF TypeOK
    <2>2. Unsent # <<>> /\ Head(Unsent) = pending_opus
      BY <1>1, <2>1, Cons DEF Unsent
    <2>. QED
      BY <1>1, <2>1, <2>2, UdpAssumption DEF Packet, NothingQueued
  <1>2. CASE pending_opus = NoPacket /\ outcoming = <<>>
    BY <1>2, UdpAssumption DEF Unsent, Packet, NothingQueued
  <1>3. CASE pending_opus = NoPacket /\ outcoming # <<>>
    <2>1. Head(outcoming) \in 1 .. MaxPackets
      BY <1>3, HeadTailProperties DEF TypeOK
    <2>. QED
      BY <1>3, <2>1, UdpAssumption DEF Unsent, Packet, NothingQueued
  <1>. QED
    BY <1>1, <1>2, <1>3

\* Taking a packet from the channel leaves the queue as it is; once the packet is
\* sent the queue has lost its first.
LEMMA FillKeepsQueue ==
    ASSUME TypeOK, Fill
    PROVE  /\ pending_opus' = Packet => Unsent' = Unsent
           /\ pending_opus' = NoPacket /\ Packet # NoPacket => Unsent' = Tail(Unsent)
           /\ outcoming' \in Seq(1 .. MaxPackets)
  <1>1. CASE pending_opus # NoPacket
    <2>1. Packet = pending_opus /\ outcoming' = outcoming
      BY <1>1 DEF Packet, Fill
    <2>2. pending_opus \in 1 .. MaxPackets /\ outcoming \in Seq(1 .. MaxPackets)
      BY <1>1, UdpAssumption DEF TypeOK
    <2>3. Unsent = <<pending_opus>> \o outcoming
      BY <1>1 DEF Unsent
    <2>4. Tail(Unsent) = outcoming
      BY <2>2, <2>3, Cons
    <2>. QED
      BY <1>1, <2>1, <2>2, <2>3, <2>4 DEF Unsent
  <1>2. CASE pending_opus = NoPacket /\ outcoming = <<>>
    BY <1>2 DEF Unsent, Packet, Fill, TypeOK
  <1>3. CASE pending_opus = NoPacket /\ outcoming # <<>>
    <2>1. Head(outcoming) \in 1 .. MaxPackets /\ Tail(outcoming) \in Seq(1 .. MaxPackets)
      BY <1>3, HeadTailProperties DEF TypeOK
    <2>2. Packet = Head(outcoming) /\ Packet # NoPacket
      BY <1>3, <2>1 DEF Packet
    <2>3. outcoming' = Tail(outcoming)
      BY <1>3, <2>2 DEF Fill
    <2>4. <<Head(outcoming)>> \o Tail(outcoming) = outcoming
      BY <1>3, HeadBeforeTail DEF TypeOK
    <2>. QED
      BY <1>3, <2>1, <2>2, <2>3, <2>4 DEF Unsent
  <1>. QED
    BY <1>1, <1>2, <1>3

------------------------------------------------------------------------------
(* Types.                                                                  *)

\* What the first half of an iteration leaves keeps its type.
LEMMA FillType ==
    ASSUME TypeOK, Fill
    PROVE  /\ outcoming' \in Seq(1 .. MaxPackets)
           /\ flushed' \in Seq(0 .. MaxPackets)
           /\ answered' \subseteq 0 .. MaxPackets
  <1>1. outcoming' \in Seq(1 .. MaxPackets)
    BY FillKeepsQueue
  <1>2. {flushed[i] : i \in DOMAIN flushed} \subseteq 0 .. MaxPackets
    <2>1. \A i \in DOMAIN flushed : flushed[i] \in 0 .. MaxPackets
      BY LenProperties, ElementOfSeq DEF TypeOK
    <2>. QED
      BY <2>1
  <1>3. CASE NothingQueued
    <2>1. flushed' = <<>> /\ answered' = answered \cup {flushed[i] : i \in DOMAIN flushed}
      BY <1>3 DEF Fill
    <2>2. answered \subseteq 0 .. MaxPackets
      BY DEF TypeOK
    <2>3. answered' \subseteq 0 .. MaxPackets
      BY <1>2, <2>1, <2>2, Zenon
    <2>. QED
      BY <1>1, <2>1, <2>3, EmptySeq
  <1>4. CASE ~NothingQueued
    BY <1>1, <1>4 DEF Fill, TypeOK
  <1>. QED
    BY <1>3, <1>4

\* So does all that an iteration changes whatever its end.
LEMMA IterationType ==
    ASSUME TypeOK, Iteration
    PROVE  /\ outcoming' \in Seq(1 .. MaxPackets)
           /\ flushed' \in Seq(0 .. MaxPackets)
           /\ answered' \subseteq 0 .. MaxPackets
           /\ opus_ticks' \in 0 .. MaxTicks /\ keep_alive_due' \in BOOLEAN
           /\ socket' \in BOOLEAN /\ net' \in {"ready", "blocked"}
           /\ switches' \in 0 .. MaxSwitches /\ requests' \in 0 .. MaxRequests
           /\ accepted' \in 0 .. MaxPackets
           /\ Packet \in 0 .. MaxPackets
  <1>1. opus_ticks' \in 0 .. MaxTicks
    BY UdpAssumption DEF Iteration, TakeTicks, TypeOK
  <1>. QED
    BY <1>1, FillType, PacketIsHead DEF Iteration, TakeTicks, TypeOK

\* TypeOK is kept by every step.
LEMMA TypeStep ==
    ASSUME TypeOK, [Next]_vars
    PROVE  TypeOK'
  <1>. USE UdpAssumption
  <1>1. CASE connect
    BY <1>1 DEF connect, Idle, queues, intervals, TypeOK
  <1>2. CASE close
    <2>1. socket' \in BOOLEAN /\ wake' \in BOOLEAN /\ interest' \subseteq interest
      BY <1>2 DEF close
    <2>. QED
      BY <1>2, <2>1 DEF close, Idle, queues, intervals, TypeOK
  <1>3. CASE send
    <2>1. accepted' \in 1 .. MaxPackets
      BY <1>3 DEF send, TypeOK
    <2>2. outcoming' \in Seq(1 .. MaxPackets)
      BY <1>3, <2>1, AppendProperties DEF send, TypeOK
    <2>3. wake' \in BOOLEAN /\ interest' \subseteq interest
      BY <1>3 DEF send, Notify, TypeOK
    <2>. QED
      BY <1>3, <2>1, <2>2, <2>3 DEF send, Idle, intervals, bounds, TypeOK
  <1>4. CASE connect_flushed_event
    <2>1. flushed' \in Seq(0 .. MaxPackets)
      BY <1>4, AppendProperties DEF connect_flushed_event, TypeOK
    <2>. QED
      BY <1>4, <2>1 DEF connect_flushed_event, Idle, taskVars, intervals, TypeOK
  <1>5. CASE PollClosed
    <2>1. outcoming' \in Seq(1 .. MaxPackets) /\ flushed' \in Seq(0 .. MaxPackets)
      BY <1>5, EmptySeq DEF PollClosed
    <2>2. wake' \in BOOLEAN /\ interest' \subseteq {"queue", "opus", "keepalive", "write"}
      BY <1>5 DEF PollClosed, TypeOK
    <2>. QED
      BY <1>5, <2>1, <2>2 DEF PollClosed, intervals, bounds, TypeOK
  <1>6. CASE PollStart
    BY <1>6 DEF PollStart, queues, intervals, bounds, TypeOK
  <1>7. CASE Loop
    <2>1. Iteration
      BY <1>7 DEF Loop, OpusNothing, OpusSent, OpusBlocked, OpusErr, KeepAliveSent,
                  KeepAliveBlocked, KeepAliveErr, LoopEnd, OpusReady, KeepAliveReady
    <2>2. wake' \in BOOLEAN /\ ret' \in {"Polling", "Pending", "Error", "None"}
      BY <1>7 DEF Loop, OpusNothing, OpusSent, OpusBlocked, OpusErr, KeepAliveSent,
                  KeepAliveBlocked, KeepAliveErr, LoopEnd, Again, Error, Pending,
                  taskVars, TypeOK
    <2>3. interest' \subseteq {"queue", "opus", "keepalive", "write"}
      BY <1>7 DEF Loop, OpusNothing, OpusSent, OpusBlocked, OpusErr, KeepAliveSent,
                  KeepAliveBlocked, KeepAliveErr, LoopEnd, Again, Error, Pending,
                  taskVars, Waker, QueueWaker, TickWaker, TypeOK
    <2>4. pc' \in {"idle", "loop"} /\ pending_keep_alive' \in BOOLEAN
      BY <1>7 DEF Loop, OpusNothing, OpusSent, OpusBlocked, OpusErr, KeepAliveSent,
                  KeepAliveBlocked, KeepAliveErr, LoopEnd, OpusReady, Again, Error, Pending,
                  TypeOK
    <2>5. faults' \in 0 .. MaxFaults
      BY <1>7 DEF Loop, OpusNothing, OpusSent, OpusBlocked, OpusErr, KeepAliveSent,
                  KeepAliveBlocked, KeepAliveErr, LoopEnd, Fault, TypeOK
    <2>6. pending_opus' \in 0 .. MaxPackets
      BY <1>7, <2>1, IterationType
         DEF Loop, OpusNothing, OpusSent, OpusBlocked, OpusErr, KeepAliveSent,
             KeepAliveBlocked, KeepAliveErr, LoopEnd, KeepAliveReady, AfterSent, TypeOK
    <2>7. wire' \in Seq(1 .. MaxPackets)
      <3>1. CASE OpusSent
        <4>1. Packet \in 1 .. MaxPackets
          BY <2>1, <3>1, IterationType DEF OpusSent, SomePacket
        <4>. QED
          BY <3>1, <4>1, AppendProperties DEF OpusSent, TypeOK
      <3>2. CASE ~OpusSent
        BY <1>7, <3>2 DEF Loop, OpusNothing, OpusBlocked, OpusErr, KeepAliveSent,
                  KeepAliveBlocked, KeepAliveErr, LoopEnd, KeepAliveReady, TypeOK
      <3>. QED
        BY <3>1, <3>2
    <2>. QED
      BY <2>1, <2>2, <2>3, <2>4, <2>5, <2>6, <2>7, IterationType DEF TypeOK
  <1>8. CASE World
    <2>1. wake' \in BOOLEAN /\ interest' \subseteq interest
      BY <1>8 DEF World, OpusTick, KeepAliveTick, NetBlock, NetUnblock, Notify, taskVars,
                  TypeOK
    <2>2. opus_ticks' \in 0 .. MaxTicks /\ faults' \in 0 .. MaxFaults
      BY <1>8 DEF World, OpusTick, KeepAliveTick, NetBlock, NetUnblock, Fault, intervals,
                  bounds, TypeOK
    <2>. QED
      BY <1>8, <2>1, <2>2 DEF World, OpusTick, KeepAliveTick, NetBlock, NetUnblock, queues,
                              intervals, bounds, TypeOK
  <1>9. CASE UNCHANGED vars
    BY <1>9 DEF vars, taskVars, queues, intervals, bounds, TypeOK
  <1>. QED
    BY <1>1, <1>2, <1>3, <1>4, <1>5, <1>6, <1>7, <1>8, <1>9 DEF Next, Poll, Owner

\* TypeOK holds before the first step.
LEMMA InitType == Init => TypeOK
  <1>1. <<>> \in Seq(1 .. MaxPackets) /\ <<>> \in Seq(0 .. MaxPackets)
    BY EmptySeq
  <1>. SUFFICES ASSUME Init PROVE TypeOK
    OBVIOUS
  <1>2. wake \in BOOLEAN /\ socket \in BOOLEAN /\ pending_keep_alive \in BOOLEAN
        /\ keep_alive_due \in BOOLEAN
    BY DEF Init
  <1>3. /\ outcoming \in Seq(1 .. MaxPackets) /\ flushed \in Seq(0 .. MaxPackets)
        /\ wire \in Seq(1 .. MaxPackets) /\ answered \subseteq 0 .. MaxPackets
    BY <1>1 DEF Init
  <1>4. /\ pending_opus \in 0 .. MaxPackets /\ opus_ticks \in 0 .. MaxTicks
        /\ faults \in 0 .. MaxFaults /\ switches \in 0 .. MaxSwitches
        /\ requests \in 0 .. MaxRequests /\ accepted \in 0 .. MaxPackets
    BY UdpAssumption DEF Init
  <1>. QED
    BY <1>2, <1>3, <1>4 DEF Init, TypeOK

\* The kinds of value each variable of VoiceUdp holds, for every length of the run.
THEOREM TypeCorrect == Spec => []TypeOK
  BY InitType, TypeStep, PTL DEF Spec

------------------------------------------------------------------------------
(* Every step is one of PacketQueue.                                       *)

\* A poll goes on only with a socket: nobody closes it meanwhile.
PolledIsOpen == pc = "loop" => socket

\* Every step keeps it so.
LEMMA PolledStep ==
    ASSUME PolledIsOpen, [Next]_vars
    PROVE  PolledIsOpen'
  <1>1. CASE Loop
    BY <1>1 DEF PolledIsOpen, Loop, OpusNothing, OpusSent, OpusBlocked, OpusErr,
                KeepAliveSent, KeepAliveBlocked, KeepAliveErr, LoopEnd, OpusReady,
                KeepAliveReady, Iteration, Again, Error, Pending
  <1>2. CASE ~Loop
    BY <1>2 DEF PolledIsOpen, Next, Poll, PollClosed, PollStart, Owner, connect, close, send,
                connect_flushed_event, Idle, World, OpusTick, KeepAliveTick, NetBlock,
                NetUnblock, vars
  <1>. QED
    BY <1>1, <1>2

\* Who waits.
LEMMA NobodyWaits == flushed' = <<>> => {flushed'[i] : i \in DOMAIN flushed'} = {}
  OBVIOUS

LEMMA OneMoreWaits ==
    ASSUME TypeOK, NEW mark \in 0 .. MaxPackets, flushed' = Append(flushed, mark)
    PROVE  {flushed'[i] : i \in DOMAIN flushed'} = {flushed[i] : i \in DOMAIN flushed} \cup {mark}
  <1>1. flushed \in Seq(0 .. MaxPackets)
    BY DEF TypeOK
  <1>2. /\ Len(flushed') = Len(flushed) + 1 /\ flushed' \in Seq(0 .. MaxPackets)
        /\ \A i \in 1 .. Len(flushed) : flushed'[i] = flushed[i]
        /\ flushed'[Len(flushed) + 1] = mark
    BY <1>1, AppendProperties
  <1>3. /\ DOMAIN flushed = 1 .. Len(flushed) /\ Len(flushed) \in Nat
        /\ DOMAIN flushed' = 1 .. Len(flushed) + 1
    BY <1>1, <1>2, LenProperties
  <1>4. \A i \in 1 .. Len(flushed) + 1 : i \in 1 .. Len(flushed) \/ i = Len(flushed) + 1
    BY <1>3
  <1>5. 1 .. Len(flushed) \subseteq 1 .. Len(flushed) + 1
        /\ Len(flushed) + 1 \in 1 .. Len(flushed) + 1
    BY <1>3
  <1>. QED
    BY <1>2, <1>3, <1>4, <1>5

\* An iteration keeps what the queue does not know of, and answers at most when the
\* queue is empty.
LEMMA FillAnswers ==
    ASSUME TypeOK, Fill, Unsent' = Unsent,
           UNCHANGED <<socket, wire>>
    PROVE  [Promise!Serve]_Promise!vars
  <1>1. CASE NothingQueued
    <2>1. Unsent = <<>> /\ flushed' = <<>>
      BY <1>1, PacketIsHead DEF Fill
    <2>. QED
      BY <2>1, NobodyWaits DEF Promise!Serve, Promise!Answer
  <1>2. CASE ~NothingQueued
    BY <1>2 DEF Fill, Promise!vars
  <1>. QED
    BY <1>1, <1>2

\* Under the mapping of Promise every step is one of PacketQueue or changes nothing, and
\* what is accepted has the next number.
QueueMoves ==
    \/ /\ accepted' = accepted + 1 /\ accepted' \in 1 .. MaxPackets
       /\ Promise!Accept(accepted')
    \/ /\ accepted' = accepted
       /\ \/ Promise!Ask(accepted) \/ Promise!Switch \/ Promise!Serve
          \/ UNCHANGED Promise!vars

LEMMA Simulation ==
    ASSUME TypeOK, PolledIsOpen, [Next]_vars
    PROVE  QueueMoves
  <1>1. CASE connect \/ close
    <2>1. socket' \in BOOLEAN /\ UNCHANGED <<accepted, Unsent, wire, flushed>>
      BY <1>1 DEF connect, close, queues, Unsent
    <2>. QED
      BY <2>1 DEF QueueMoves, Promise!Switch
  <1>2. CASE send
    <2>1. accepted' = accepted + 1 /\ accepted' \in 1 .. MaxPackets
      BY <1>2, UdpAssumption DEF send, TypeOK
    <2>2. outcoming' = Append(outcoming, accepted') /\ pending_opus' = pending_opus
      BY <1>2 DEF send
    <2>3. Unsent' = Append(Unsent, accepted')
      <3>1. CASE pending_opus = NoPacket
        BY <2>2, <3>1 DEF Unsent
      <3>2. CASE pending_opus # NoPacket
        <4>1. pending_opus \in 1 .. MaxPackets /\ outcoming \in Seq(1 .. MaxPackets)
          BY <3>2, UdpAssumption DEF TypeOK
        <4>. QED
          BY <2>1, <2>2, <3>2, <4>1, ConsAppend DEF Unsent
      <3>. QED
        BY <3>1, <3>2
    <2>. QED
      BY <1>2, <2>1, <2>3 DEF send, QueueMoves, Promise!Accept
  <1>3. CASE connect_flushed_event
    <2>1. UNCHANGED Unsent
      BY <1>3 DEF connect_flushed_event, Unsent
    <2>2. accepted \in 0 .. MaxPackets /\ flushed' = Append(flushed, accepted)
      BY <1>3 DEF connect_flushed_event, TypeOK
    <2>. QED
      BY <1>3, <2>1, <2>2, OneMoreWaits DEF connect_flushed_event, QueueMoves, Promise!Ask
  <1>4. CASE PollClosed
    <2>1. \E kept \in 0 .. Len(Unsent) : Unsent' = SubSeq(Unsent, 1, kept)
      <3>1. CASE pending_opus = NoPacket
        <4>1. Unsent' = <<>> /\ SubSeq(Unsent, 1, 0) = <<>>
          BY <1>4, <3>1, SubSeqEmpty DEF PollClosed, Unsent
        <4>. QED
          BY <4>1, UnsentType, LenProperties
      <3>2. CASE pending_opus # NoPacket
        <4>1. pending_opus \in 1 .. MaxPackets /\ outcoming \in Seq(1 .. MaxPackets)
          BY <3>2, UdpAssumption DEF TypeOK
        <4>2. Unsent = <<pending_opus>> \o outcoming /\ Unsent # <<>>
          BY <3>2, <4>1, Cons DEF Unsent
        <4>3. Unsent' = <<pending_opus>>
          BY <1>4, <3>2, <4>1, ConcatEmptySeq DEF PollClosed, Unsent
        <4>4. SubSeq(Unsent, 1, 1) = <<pending_opus>>
          BY <4>1, <4>2, Cons
        <4>5. 1 \in 0 .. Len(Unsent)
          BY <4>2, UnsentType, EmptySeq
        <4>. QED
          BY <4>3, <4>4, <4>5
      <3>. QED
        BY <3>1, <3>2
    <2>. QED
      BY <1>4, <2>1, NobodyWaits DEF PollClosed, QueueMoves, Promise!Serve, Promise!Discard
  <1>5. CASE PollStart \/ World \/ UNCHANGED vars
    BY <1>5 DEF PollStart, World, OpusTick, KeepAliveTick, NetBlock, NetUnblock, vars,
                queues, Unsent, QueueMoves, Promise!vars
  <1>6. CASE OpusSent
    <2>1. TypeOK /\ Fill /\ Packet # NoPacket /\ pending_opus' = NoPacket
      BY <1>6 DEF OpusSent, OpusReady, Iteration, SomePacket, AfterSent
    <2>2. Unsent # <<>> /\ Unsent' = Tail(Unsent) /\ Packet = Head(Unsent)
      BY <2>1, FillKeepsQueue, PacketIsHead
    <2>3. flushed' = flushed
      BY <2>1, <2>2, PacketIsHead DEF Fill
    <2>4. socket /\ UNCHANGED <<socket, accepted>> /\ wire' = Append(wire, Packet)
      BY <1>6 DEF PolledIsOpen, OpusSent, OpusReady, Iteration
    <2>. QED
      BY <2>2, <2>3, <2>4 DEF QueueMoves, Promise!Serve, Promise!Emit
  <1>7. CASE Loop /\ ~OpusSent
    <2>1. Iteration /\ UNCHANGED wire
      BY <1>7 DEF Loop, OpusNothing, OpusBlocked, OpusErr, KeepAliveSent,
                  KeepAliveBlocked, KeepAliveErr, LoopEnd, OpusReady, KeepAliveReady
    <2>2. pending_opus' = Packet
      <3>1. CASE OpusNothing
        BY <3>1 DEF OpusNothing, OpusReady, SomePacket, Packet
      <3>. QED
        BY <1>7, <3>1 DEF Loop, OpusBlocked, OpusErr, KeepAliveSent,
                  KeepAliveBlocked, KeepAliveErr, LoopEnd, KeepAliveReady
    <2>3. Unsent' = Unsent
      BY <2>1, <2>2, FillKeepsQueue DEF Iteration
    <2>. QED
      BY <2>1, <2>3, FillAnswers DEF Iteration, QueueMoves
  <1>. QED
    BY <1>1, <1>2, <1>3, <1>4, <1>5, <1>6, <1>7 DEF Next, Poll, Owner

\* While the socket is open packets leave one by one in the order in which they
\* were queued, and nobody is answered before they have.
THEOREM ImplementsPacketQueue == Spec => Implements
  <1>1. Init => TypeOK /\ PolledIsOpen /\ Promise!Init
    BY InitType DEF Init, PolledIsOpen, Unsent, Promise!Init
  <1>2. TypeOK /\ PolledIsOpen /\ [Next]_vars
            => TypeOK' /\ PolledIsOpen' /\ [Promise!Next]_(Promise!vars)
    <2>1. ASSUME TypeOK, QueueMoves
          PROVE  [Promise!Next]_(Promise!vars)
      <3>1. CASE accepted' \in 1 .. MaxPackets /\ Promise!Accept(accepted')
        BY <3>1 DEF Promise!Next
      <3>2. CASE Promise!Ask(accepted)
        <4>1. accepted \in 0 .. MaxPackets
          BY <2>1 DEF TypeOK
        <4>. QED
          BY <3>2, <4>1 DEF Promise!Next, Promise!Ask
      <3>3. CASE Promise!Switch \/ Promise!Serve \/ UNCHANGED Promise!vars
        BY <3>3 DEF Promise!Next
      <3>. QED
        BY <2>1, <3>1, <3>2, <3>3 DEF QueueMoves
    <2>. QED
      BY <2>1, TypeStep, PolledStep, Simulation
  <1>. QED
    BY <1>1, <1>2, PTL DEF Spec, Implements, Promise!Spec

------------------------------------------------------------------------------
(* Order.                                                                  *)

Increasing(s) == \A i, j \in DOMAIN s : i < j => s[i] < s[j]
AtMost(s, n) == \A i \in DOMAIN s : s[i] <= n

\* A number above all others may follow them.
LEMMA AppendIncreasing ==
    ASSUME NEW n \in Nat, NEW s \in Seq(Nat), Increasing(s), AtMost(s, n)
    PROVE  Increasing(Append(s, n + 1)) /\ AtMost(Append(s, n + 1), n + 1)
  <1>. DEFINE t == Append(s, n + 1)
  <1>1. Len(s) \in Nat /\ DOMAIN s = 1 .. Len(s)
    BY LenProperties
  <1>2. t \in Seq(Nat) /\ DOMAIN t = 1 .. Len(s) + 1 /\ t[Len(s) + 1] = n + 1
    BY AppendProperties, LenProperties
  <1>3. \A i \in 1 .. Len(s) : t[i] = s[i] /\ s[i] \in Nat
    BY AppendProperties, ElementOfSeq
  <1>4. \A i \in 1 .. Len(s) : t[i] <= n /\ t[i] \in Nat
    BY <1>1, <1>3 DEF AtMost
  <1>. HIDE DEF t
  <1>5. AtMost(t, n + 1)
    BY <1>1, <1>2, <1>4 DEF AtMost
  <1>6. ASSUME NEW i \in DOMAIN t, NEW j \in DOMAIN t, i < j
        PROVE  t[i] < t[j]
    <2>1. i \in 1 .. Len(s)
      BY <1>1, <1>2, <1>6
    <2>2. CASE j = Len(s) + 1
      BY <1>2, <1>4, <2>1, <2>2
    <2>3. CASE j # Len(s) + 1
      <3>1. j \in 1 .. Len(s)
        BY <1>1, <1>2, <2>3
      <3>2. s[i] < s[j]
        BY <1>1, <1>6, <2>1, <3>1 DEF Increasing
      <3>. QED
        BY <1>3, <2>1, <3>1, <3>2
    <2>. QED
      BY <2>2, <2>3
  <1>7. Increasing(t)
    BY <1>6 DEF Increasing
  <1>. QED
    BY <1>5, <1>7 DEF t

\* What begins an ordered sequence is ordered.
LEMMA PrefixIncreasing ==
    ASSUME NEW n \in Nat, NEW r \in Seq(Nat), NEW s \in Seq(Nat), NEW k \in 0 .. Len(s),
           Increasing(r \o s), AtMost(r \o s, n)
    PROVE  Increasing(r \o SubSeq(s, 1, k)) /\ AtMost(r \o SubSeq(s, 1, k), n)
  <1>. DEFINE p == SubSeq(s, 1, k)
              a == r \o s
              b == r \o p
  <1>1. Len(r) \in Nat /\ Len(s) \in Nat /\ DOMAIN a = 1 .. Len(r) + Len(s)
    BY ConcatProperties, LenProperties
  <1>2. \A i \in 1 .. k : s[i] \in Nat
    <2>1. \A i \in 1 .. k : i \in 1 .. Len(s)
      BY <1>1
    <2>. QED
      BY <2>1, ElementOfSeq
  <1>3. p \in Seq(Nat) /\ Len(p) = k
    BY <1>1, <1>2, SubSeqProperties
  <1>4. \A i \in 1 .. k : p[i] = s[i]
    <2>1. \A i \in 1 .. k - 1 + 1 : p[i] = s[1 + i - 1]
      BY <1>2, SubSeqProperties
    <2>. HIDE DEF p
    <2>. QED
      BY <1>1, <2>1
  <1>5. DOMAIN b = 1 .. Len(r) + k
    <2>1. b \in Seq(Nat) /\ Len(b) = Len(r) + k
      BY <1>3, ConcatProperties
    <2>. HIDE DEF b
    <2>. QED
      BY <2>1, LenProperties
  <1>6. ASSUME NEW i \in 1 .. Len(r) + k
        PROVE  a[i] = b[i] /\ i \in DOMAIN a
    <2>1. i \in 1 .. Len(r) + Len(s) /\ i \in 1 .. Len(r) + Len(p)
      BY <1>1, <1>3
    <2>2. a[i] = IF i <= Len(r) THEN r[i] ELSE s[i - Len(r)]
      BY <2>1, ConcatProperties
    <2>3. b[i] = IF i <= Len(r) THEN r[i] ELSE p[i - Len(r)]
      BY <1>3, <2>1, ConcatProperties
    <2>4. ~(i <= Len(r)) => i - Len(r) \in 1 .. k
      BY <1>1
    <2>. HIDE DEF a, b, p
    <2>. QED
      BY <1>1, <1>4, <2>1, <2>2, <2>3, <2>4
  <1>. HIDE DEF a, b, p
  <1>7. Increasing(a) /\ AtMost(a, n)
    BY DEF a
  <1>8. Increasing(b) /\ AtMost(b, n)
    BY <1>5, <1>6, <1>7 DEF Increasing, AtMost
  <1>. QED
    BY <1>8 DEF b, p

\* SentInOrder speaks of the packets that were not forgotten, in the order in which
\* they leave.  It is kept because a new packet has a number above all others.
All == wire \o Unsent
Numbered == Increasing(All) /\ AtMost(All, accepted)

\* What leaves the front of one sequence for the end of another is where it was
\* when the two are read together.
LEMMA HeadMoves ==
    ASSUME NEW S, NEW r \in Seq(S), NEW s \in Seq(S), s # <<>>
    PROVE  Append(r, Head(s)) \o Tail(s) = r \o s
  <1>1. Head(s) \in S /\ Tail(s) \in Seq(S) /\ <<Head(s)>> \in Seq(S)
    BY HeadTailProperties
  <1>2. Append(r, Head(s)) = r \o <<Head(s)>>
    BY <1>1, AppendIsConcat
  <1>3. (r \o <<Head(s)>>) \o Tail(s) = r \o (<<Head(s)>> \o Tail(s))
    BY <1>1, ConcatAssociative
  <1>. QED
    BY <1>2, <1>3, HeadBeforeTail

\* A step of PacketQueue keeps the order.
LEMMA OrderStep ==
    ASSUME TypeOK, TypeOK', Numbered, QueueMoves
    PROVE  Numbered'
  <1>1. wire \in Seq(Nat) /\ Unsent \in Seq(Nat) /\ All \in Seq(Nat)
    <2>1. wire \in Seq(1 .. MaxPackets) /\ 1 .. MaxPackets \subseteq Nat
      BY UdpAssumption DEF TypeOK
    <2>2. wire \in Seq(Nat) /\ Unsent \in Seq(Nat)
      BY <2>1, UnsentType, SeqMonotonic
    <2>. QED
      BY <2>2, ConcatProperties DEF All
  <1>2. accepted \in Nat
    BY UdpAssumption DEF TypeOK
  <1>3. CASE All' = All /\ accepted' = accepted
    BY <1>3 DEF Numbered, Increasing, AtMost
  <1>4. CASE Promise!Accept(accepted') /\ accepted' = accepted + 1
    <2>1. accepted' = accepted + 1 /\ accepted + 1 \in Nat
      BY <1>2, <1>4
    <2>2. All' = Append(All, accepted + 1)
      <3>1. All' = wire \o (Unsent \o <<accepted + 1>>)
        BY <1>1, <1>4, <2>1, AppendIsConcat DEF All, Promise!Accept
      <3>2. <<accepted + 1>> \in Seq(Nat)
        BY <2>1
      <3>3. All' = (wire \o Unsent) \o <<accepted + 1>>
        BY <1>1, <3>1, <3>2, ConcatAssociative
      <3>. QED
        BY <1>1, <2>1, <3>3, AppendIsConcat DEF All
    <2>3. Increasing(Append(All, accepted + 1)) /\ AtMost(Append(All, accepted + 1), accepted + 1)
      BY <1>1, <1>2, AppendIncreasing DEF Numbered
    <2>. QED
      BY <2>1, <2>2, <2>3 DEF Numbered, Increasing, AtMost
  <1>5. CASE Promise!Emit /\ accepted' = accepted
    <2>1. Unsent # <<>> /\ Head(Unsent) \in Nat /\ Tail(Unsent) \in Seq(Nat)
      BY <1>1, <1>5, HeadTailProperties DEF Promise!Emit
    <2>2. All' = Append(wire, Head(Unsent)) \o Tail(Unsent)
      BY <1>5 DEF All, Promise!Emit
    <2>3. All' = All
      BY <1>1, <2>1, <2>2, HeadMoves DEF All
    <2>. QED
      BY <1>3, <1>5, <2>3 DEF Promise!Emit
  <1>6. CASE Promise!Discard /\ accepted' = accepted
    <2>1. PICK kept \in 0 .. Len(Unsent) : Unsent' = SubSeq(Unsent, 1, kept)
      BY <1>6 DEF Promise!Discard
    <2>2. All' = wire \o SubSeq(Unsent, 1, kept) /\ accepted' = accepted
      BY <1>6, <2>1 DEF Promise!Discard, All
    <2>3. /\ Increasing(wire \o SubSeq(Unsent, 1, kept))
          /\ AtMost(wire \o SubSeq(Unsent, 1, kept), accepted)
      BY <1>1, <1>2, PrefixIncreasing DEF Numbered, All
    <2>. QED
      BY <2>2, <2>3 DEF Numbered, Increasing, AtMost
  <1>7. CASE /\ accepted' = accepted
             /\ \/ Promise!Switch \/ Promise!Ask(accepted) \/ Promise!Answer
                \/ UNCHANGED Promise!vars
    BY <1>3, <1>7 DEF Promise!Switch, Promise!Ask, Promise!Answer, Promise!vars, All
  <1>. QED
    BY <1>4, <1>5, <1>6, <1>7 DEF QueueMoves, Promise!Serve

\* The facts about the queue that carry each other from step to step.
QueueInv == TypeOK /\ PolledIsOpen /\ Numbered

\* Every step keeps them.
LEMMA QueueStep == QueueInv /\ [Next]_vars => QueueInv'
  BY TypeStep, PolledStep, Simulation, OrderStep DEF QueueInv

\* They hold before the first.
LEMMA QueueInit == Init => QueueInv
  <1>1. Init => All = <<>>
    BY DEF Init, All, Unsent
  <1>. QED
    BY <1>1, InitType DEF Init, QueueInv, PolledIsOpen, Numbered, Increasing, AtMost

\* However often a send blocks or fails, a packet is sent at most once and in its
\* turn.
THEOREM SendsInOrder == Spec => []SentInOrder
  <1>1. QueueInv => SentInOrder
    BY DEF QueueInv, Numbered, Increasing, SentInOrder, All
  <1>. QED
    BY <1>1, QueueInit, QueueStep, PTL DEF Spec

------------------------------------------------------------------------------
(* Flushing.                                                               *)

\* A request is marked with the packets queued before it, and none is answered
\* before they have left: FlushMeansSent is kept because an answer finds the queue
\* empty, and what is queued afterwards has a number above every mark.
MarksArePast ==
    /\ AtMost(flushed, accepted)
    /\ \A mark \in answered : mark <= accepted

FlushInv == QueueInv /\ MarksArePast /\ FlushMeansSent

\* What an iteration answers was asked before.
LEMMA MarksStep ==
    ASSUME TypeOK, TypeOK', MarksArePast, [Next]_vars
    PROVE  MarksArePast'
  <1>1. accepted \in Nat /\ accepted' \in Nat
    BY UdpAssumption DEF TypeOK
  <1>2. /\ \A i \in DOMAIN flushed : flushed[i] \in Nat
        /\ \A mark \in answered : mark \in Nat
    <2>1. \A i \in DOMAIN flushed : flushed[i] \in 0 .. MaxPackets
      BY LenProperties, ElementOfSeq DEF TypeOK
    <2>. QED
      BY <2>1, UdpAssumption DEF TypeOK
  <1>3. CASE UNCHANGED <<flushed, answered, accepted>>
    BY <1>3 DEF MarksArePast, AtMost
  <1>4. CASE send
    <2>1. accepted' = accepted + 1 /\ UNCHANGED <<flushed, answered>>
      BY <1>4 DEF send
    <2>. QED
      BY <1>1, <1>2, <2>1 DEF MarksArePast, AtMost
  <1>5. CASE connect_flushed_event
    <2>1. flushed' = Append(flushed, accepted) /\ UNCHANGED <<answered, accepted>>
      BY <1>5 DEF connect_flushed_event
    <2>2. AtMost(flushed', accepted)
      <3>1. accepted \in 0 .. MaxPackets /\ flushed \in Seq(0 .. MaxPackets)
        BY DEF TypeOK
      <3>2. /\ flushed' \in Seq(0 .. MaxPackets) /\ Len(flushed') = Len(flushed) + 1
            /\ \A i \in 1 .. Len(flushed) : flushed'[i] = flushed[i]
            /\ flushed'[Len(flushed) + 1] = accepted
        BY <2>1, <3>1, AppendProperties
      <3>3. /\ DOMAIN flushed = 1 .. Len(flushed) /\ Len(flushed) \in Nat
            /\ DOMAIN flushed' = 1 .. Len(flushed) + 1
        BY <3>1, <3>2, LenProperties
      <3>4. ASSUME NEW i \in DOMAIN flushed'
            PROVE  flushed'[i] <= accepted
        <4>1. i \in 1 .. Len(flushed) \/ i = Len(flushed) + 1
          BY <3>3
        <4>. QED
          BY <1>1, <3>2, <3>3, <4>1 DEF MarksArePast, AtMost
      <3>. QED
        BY <3>4 DEF AtMost
    <2>. QED
      BY <2>1, <2>2 DEF MarksArePast, AtMost
  <1>6. CASE flushed' = <<>> /\ accepted' = accepted
             /\ answered' \subseteq answered \cup {flushed[i] : i \in DOMAIN flushed}
    BY <1>6 DEF MarksArePast, AtMost
  <1>7. CASE PollClosed
    BY <1>6, <1>7 DEF PollClosed
  <1>8. CASE Loop
    <2>1. Fill /\ accepted' = accepted
      BY <1>8 DEF Loop, OpusNothing, OpusSent, OpusBlocked, OpusErr, KeepAliveSent,
                  KeepAliveBlocked, KeepAliveErr, LoopEnd, OpusReady, KeepAliveReady, Iteration
    <2>. QED
      BY <1>3, <1>6, <2>1 DEF Fill
  <1>9. CASE connect \/ close \/ PollStart \/ World \/ UNCHANGED vars
    <2>1. UNCHANGED <<flushed, answered, accepted>>
      BY <1>9 DEF connect, close, PollStart, World, OpusTick, KeepAliveTick, NetBlock,
                  NetUnblock, vars, queues
    <2>. QED
      BY <1>3, <2>1
  <1>. QED
    BY <1>4, <1>5, <1>7, <1>8, <1>9 DEF Next, Poll, Owner

\* The queue only loses packets at its ends and gains them above every mark.
LEMMA FlushStep ==
    ASSUME FlushInv, TypeOK', [Next]_vars
    PROVE  FlushMeansSent'
  <1>1. TypeOK /\ PolledIsOpen /\ accepted \in Nat /\ Unsent \in Seq(Nat)
    <2>1. TypeOK /\ PolledIsOpen
      BY DEF FlushInv, QueueInv
    <2>2. 1 .. MaxPackets \subseteq Nat /\ accepted \in Nat
      BY <2>1, UdpAssumption DEF TypeOK
    <2>. QED
      BY <2>1, <2>2, UnsentType, SeqMonotonic
  <1>2. Unsent = <<>> \/ answered' = answered
    <2>1. CASE Loop
      <3>1. Fill
        BY <2>1 DEF Loop, OpusNothing, OpusSent, OpusBlocked, OpusErr, KeepAliveSent,
                    KeepAliveBlocked, KeepAliveErr, LoopEnd, OpusReady, KeepAliveReady, Iteration
      <3>. QED
        BY <1>1, <3>1, PacketIsHead DEF Fill
    <2>2. CASE ~Loop
      BY <2>2 DEF Next, Poll, PollClosed, PollStart, Owner, connect, close, send,
                  connect_flushed_event, World, OpusTick, KeepAliveTick, NetBlock,
                  NetUnblock, vars, queues
    <2>. QED
      BY <2>1, <2>2
  <1>3. QueueMoves
    BY <1>1, Simulation
  <1>4. CASE accepted' # accepted
    <2>1. Promise!Accept(accepted') /\ accepted' = accepted + 1
      BY <1>3, <1>4 DEF QueueMoves
    <2>2. Unsent' = Append(Unsent, accepted + 1) /\ accepted + 1 \in Nat
      BY <1>1, <2>1 DEF Promise!Accept
    <2>3. answered' = answered
      BY <1>4 DEF Next, Poll, PollClosed, PollStart, Owner, connect, close, send,
                  connect_flushed_event, Loop, OpusNothing, OpusSent, OpusBlocked, OpusErr,
                  KeepAliveSent, KeepAliveBlocked, KeepAliveErr, LoopEnd, OpusReady,
                  KeepAliveReady, Iteration, World, OpusTick, KeepAliveTick, NetBlock,
                  NetUnblock, vars, queues
    <2>4. ASSUME NEW mark \in answered, NEW i \in DOMAIN Unsent'
          PROVE  Unsent'[i] > mark
      <3>1. /\ DOMAIN Unsent = 1 .. Len(Unsent) /\ Len(Unsent) \in Nat
            /\ Unsent' \in Seq(Nat) /\ Len(Unsent') = Len(Unsent) + 1
            /\ \A k \in 1 .. Len(Unsent) : Unsent'[k] = Unsent[k]
            /\ Unsent'[Len(Unsent) + 1] = accepted + 1
        BY <1>1, <2>2, AppendProperties, LenProperties
      <3>2. i \in 1 .. Len(Unsent) \/ i = Len(Unsent) + 1
        BY <3>1, LenProperties
      <3>3. CASE i \in 1 .. Len(Unsent)
        BY <3>1, <3>3 DEF FlushInv, FlushMeansSent
      <3>4. CASE i = Len(Unsent) + 1
        <4>1. mark <= accepted /\ mark \in Nat
          BY <1>1, UdpAssumption DEF FlushInv, MarksArePast, TypeOK
        <4>. QED
          BY <1>1, <3>1, <3>4, <4>1
      <3>. QED
        BY <3>2, <3>3, <3>4
    <2>. QED
      BY <2>3, <2>4 DEF FlushMeansSent
  <1>5. CASE accepted' = accepted
    <2>1. ASSUME NEW j \in DOMAIN Unsent'
          PROVE  \E i \in DOMAIN Unsent : Unsent[i] = Unsent'[j]
      <3>1. DOMAIN Unsent = 1 .. Len(Unsent) /\ Len(Unsent) \in Nat
        BY <1>1, LenProperties
      <3>2. CASE UNCHANGED Unsent
        BY <3>2
      <3>3. CASE Promise!Emit
        <4>1. Unsent' = Tail(Unsent) /\ Unsent # <<>>
          BY <3>3 DEF Promise!Emit
        <4>2. /\ Unsent' \in Seq(Nat) /\ Len(Unsent') = Len(Unsent) - 1
              /\ \A k \in 1 .. Len(Unsent') : Unsent'[k] = Unsent[k + 1]
          BY <1>1, <4>1, HeadTailProperties
        <4>3. j \in 1 .. Len(Unsent') /\ j + 1 \in 1 .. Len(Unsent)
          BY <3>1, <4>2, LenProperties
        <4>. QED
          BY <3>1, <4>2, <4>3
      <3>4. CASE Promise!Discard
        <4>1. PICK kept \in 0 .. Len(Unsent) : Unsent' = SubSeq(Unsent, 1, kept)
          BY <3>4 DEF Promise!Discard
        <4>2. \A k \in 1 .. kept : Unsent[k] \in Nat
          BY <1>1, <3>1, <4>1, ElementOfSeq
        <4>3. /\ Unsent' \in Seq(Nat) /\ Len(Unsent') = kept
              /\ \A k \in 1 .. kept - 1 + 1 : Unsent'[k] = Unsent[1 + k - 1]
          BY <3>1, <4>1, <4>2, SubSeqProperties
        <4>4. j \in 1 .. kept /\ j \in 1 .. Len(Unsent) /\ 1 + j - 1 = j
          BY <3>1, <4>1, <4>3, LenProperties
        <4>5. Unsent'[j] = Unsent[j]
          BY <4>3, <4>4
        <4>. QED
          BY <3>1, <4>4, <4>5
      <3>5. accepted' # accepted + 1
        BY <1>1, <1>5
      <3>6. CASE Promise!Ask(accepted) \/ Promise!Switch \/ Promise!Answer
                 \/ UNCHANGED Promise!vars
        BY <3>2, <3>6 DEF Promise!Ask, Promise!Switch, Promise!Answer, Promise!vars
      <3>. QED
        BY <1>3, <3>3, <3>4, <3>5, <3>6 DEF QueueMoves, Promise!Serve
    <2>2. ASSUME NEW mark \in answered', NEW j \in DOMAIN Unsent'
          PROVE  Unsent'[j] > mark
      <3>1. PICK i \in DOMAIN Unsent : Unsent[i] = Unsent'[j]
        BY <2>1
      <3>2. Unsent # <<>>
        BY <3>1
      <3>3. mark \in answered
        BY <1>2, <2>2, <3>2
      <3>. QED
        BY <3>1, <3>3 DEF FlushInv, FlushMeansSent
    <2>. QED
      BY <2>2 DEF FlushMeansSent
  <1>. QED
    BY <1>4, <1>5

\* An open socket answers a request only when every packet queued before it has
\* left, the one that a blocked or failed send has kept too.
THEOREM AnswersTheFlushed == Spec => []FlushMeansSent
  <1>1. Init => FlushInv
    BY QueueInit DEF Init, FlushInv, MarksArePast, AtMost, FlushMeansSent
  <1>2. FlushInv /\ [Next]_vars => FlushInv'
    BY QueueStep, MarksStep, FlushStep DEF FlushInv, QueueInv
  <1>3. FlushInv => FlushMeansSent
    BY DEF FlushInv
  <1>. QED
    BY <1>1, <1>2, <1>3, PTL DEF Spec


------------------------------------------------------------------------------
(* Wake-ups.  What ends a poll with Pending has just registered, what      *)
(* happens to a source wakes whoever has registered with it, and connect() *)
(* and close() wake the task; so NoLostWakeup is inductive but for the     *)
(* socket that a poll in its loop relies on.                               *)

WakeInv == NoLostWakeup /\ PolledIsOpen

\* A task that stays asleep had not registered with what has happened.
LEMMA StaysAsleep ==
    ASSUME NEW sources, Notify(sources), ~wake'
    PROVE  /\ ~wake
           /\ \A source \in sources : source \notin interest
           /\ \A source : source \in interest => source \in interest'
  <1>1. ~(wake \/ interest \cap sources # {})
      BY DEF Notify
  <1>2. interest' = interest \ sources
      BY DEF Notify
  <1> QED
      BY <1>1, <1>2

LEMMA WakeupPolled == WakeInv /\ (Poll \/ Loop) => WakeInv'
  <1> SUFFICES ASSUME WakeInv, Poll \/ Loop PROVE WakeInv'
      OBVIOUS
  <1> USE DEF WakeInv, NoLostWakeup, PolledIsOpen
  <1>1. CASE PollClosed
      BY <1>1, SMT DEF PollClosed
  <1>2. CASE PollStart
      BY <1>2, SMT DEF PollStart
  <1>3. CASE OpusNothing \/ OpusSent
      BY <1>3, SMT DEF OpusNothing, OpusSent, OpusReady, Iteration, Again
  <1>4. CASE OpusErr \/ KeepAliveErr
      BY <1>4, SMT DEF OpusErr, OpusReady, KeepAliveErr, KeepAliveReady, Iteration, Error
  <1>5. CASE OpusBlocked
    <2>1. pc = "loop" /\ net' = "blocked" /\ socket' = socket /\ pc' = "idle"
        BY <1>5, SMT DEF OpusBlocked, OpusReady, Iteration, Pending
    <2>2. "write" \in interest'
        BY <1>5 DEF OpusBlocked, Pending
    <2> QED
        BY <2>1, <2>2
  <1>6. CASE KeepAliveSent
      BY <1>6, SMT DEF KeepAliveSent, KeepAliveReady, Iteration, Again
  <1>7. CASE KeepAliveBlocked
    <2>1. pc = "loop" /\ socket' = socket /\ pc' = "idle"
        BY <1>7, SMT DEF KeepAliveBlocked, KeepAliveReady, Iteration, Pending
    <2>2. "opus" \in interest'
        BY <1>7 DEF KeepAliveBlocked, Pending
    <2> QED
        BY <2>1, <2>2
  <1>8. CASE LoopEnd
    <2>1. pc = "loop" /\ socket' = socket /\ pc' = "idle"
        BY <1>8, SMT DEF LoopEnd, Iteration, Pending
    <2>2. "opus" \in interest'
        BY <1>8 DEF LoopEnd, Pending, TickWaker
    <2> QED
        BY <2>1, <2>2
  <1> QED
      BY <1>1, <1>2, <1>3, <1>4, <1>5, <1>6, <1>7, <1>8 DEF Poll, Loop

LEMMA WakeupOutside == WakeInv /\ (Owner \/ World) => WakeInv'
  <1> SUFFICES ASSUME WakeInv, Owner \/ World PROVE WakeInv'
      OBVIOUS
  <1> USE DEF WakeInv, NoLostWakeup, PolledIsOpen
  <1>1. CASE connect \/ close
      BY <1>1, SMT DEF connect, close, Idle
  <1>2. CASE send
    <2>1. Notify({"queue"}) /\ pc = "idle" /\ pc' = pc /\ socket' = socket /\ net' = net
        BY <1>2 DEF send, Idle
    <2> QED
        BY <2>1, StaysAsleep
  <1>3. CASE connect_flushed_event
      BY <1>3, SMT DEF connect_flushed_event, Idle, taskVars
  <1>4. CASE OpusTick
    <2>1. Notify({"opus"}) /\ UNCHANGED <<pc, socket, net, outcoming>>
        BY <1>4 DEF OpusTick, queues
    <2> QED
        BY <2>1, StaysAsleep
  <1>5. CASE KeepAliveTick
    <2>1. Notify({"keepalive"}) /\ UNCHANGED <<pc, socket, net, outcoming>>
        BY <1>5 DEF KeepAliveTick, queues
    <2> QED
        BY <2>1, StaysAsleep
  <1>6. CASE NetBlock
      BY <1>6, SMT DEF NetBlock, taskVars, queues
  <1>7. CASE NetUnblock
    <2>1. Notify({"write"}) /\ socket /\ UNCHANGED <<pc, socket>>
        BY <1>7 DEF NetUnblock
    <2> QED
        BY <2>1, StaysAsleep
  <1> QED
      BY <1>1, <1>2, <1>3, <1>4, <1>5, <1>6, <1>7 DEF Owner, World

\* A VoiceUdp that sleeps is woken by its send interval, or by a socket that is ready
\* again; without a socket it has no packets and waits for one to be queued.
THEOREM SleepsUntilWoken == Spec => []NoLostWakeup
  <1>1. Init => WakeInv
      BY DEF Init, WakeInv, NoLostWakeup, PolledIsOpen
  <1>2. WakeInv /\ [Next]_vars => WakeInv'
    <2>1. CASE UNCHANGED vars
        BY <2>1 DEF vars, taskVars, queues, WakeInv, NoLostWakeup, PolledIsOpen
    <2> QED
        BY <2>1, WakeupPolled, WakeupOutside DEF Next
  <1>3. WakeInv => NoLostWakeup
      BY DEF WakeInv
  <1> QED
      BY <1>1, <1>2, <1>3, PTL DEF Spec
=============================================================================

-------------------------- MODULE ClientStreamProofs --------------------------
(***************************************************************************)
(* The client and its parts, for every value of the constants: it uses its *)
(* WebSocket only between two polls of it and its UDP connections as       *)
(* PacketQueue describes it for VoiceUdp; and it never falls asleep        *)
(* without somebody who will wake it.                                      *)
(***************************************************************************)
EXTENDS VoiceClientProofs

------------------------------------------------------------------------------
(* The WebSocket has one user at a time.                                   *)

\* The WebSocket is being polled only while the client is in the part that polls it.
InTurn == pc # "stream" => item # "Polling"

\* The parts of a poll but those that poll the WebSocket or use its item, and the other
\* threads: at most a message is put into the slot.
Apart == Poll \/ Udp \/ State \/ Commands \/ Senders \/ HeartbeatTick \/ UdpTick
            \/ FutureDone \/ FutureFails \/ FutureLost \/ Network

LEMMA ApartFromStream ==
    ASSUME Apart
    PROVE  item' = item /\ (pc' = "stream" <=> pc = "stream")
  <1>. USE DEF streamVars, gatewayVars, gateway, Goto, Return, Panic, Ws!Put
  <1>1. CASE Poll
    BY <1>1 DEF Poll
  <1>2. CASE Udp
    BY <1>2 DEF Udp, UdpAbsent, UdpSends, UdpPending, UdpErr, UdpClosed, AtUdp
  <1>3. CASE State
    BY <1>3 DEF State, AtState, AtStateOrFault, AtFuture, ours, PassState, PacketPending,
                PacketDiscarded, PacketDispatched, EncryptErr, SendPacketPanics, FatalCloses,
                FatalEnds, FuturePending, FutureResumes, FutureSelects, FutureErr, FuturePanics
  <1>4. CASE Commands
    BY <1>4 DEF Commands, AtCommand, CommandPending, CommandSpeaking, CommandFlush
  <1>5. CASE Senders \/ HeartbeatTick \/ UdpTick
                 \/ FutureDone \/ FutureFails \/ FutureLost \/ Network
    BY <1>5 DEF Senders, Outside, HeartbeatTick, UdpTick, FutureDone, FutureFails, FutureLost,
                Future, Network
  <1>. QED
    BY <1>1, <1>2, <1>3, <1>4, <1>5 DEF Apart

\* An item is handled once the poll that has produced it is over.
LEMMA ItemEndsTurn ==
    ASSUME Item
    PROVE  item' = item /\ item # "Polling"
  BY DEF Item, AtItem, Among, Is, ItemPending, ItemErr, ItemEnd, Reconnected, Disconnected,
         Hello, Ready, Resumed, SessionDescription, ItemPanics, ClientConnect,
         ClientDisconnect, Nothing, ModeErr, streamVars, Ws!Put

LEMMA StreamIsPolled ==
    ASSUME Stream
    PROVE  pc' = "stream"
  BY DEF Stream, WsStart, WsDial, WsOpen, WsRefused, WsTransmit, WsTransmitPends,
         WsTransmitFails, WsBeats, WsGivesUp, WsRead, WsBreaks, WsEnds, WsWait, WsCloses,
         WsFinish, WsGoes, WsPends, WsSleeps, WsStep, Goto

\* What the client and its owner do with the WebSocket, they do between two polls of it, as
\* `&mut self` demands: a command of the client, an answer to an event and a close() find
\* the socket at rest, so that no guard of GatewayStream holds any of them up.
THEOREM UsesInTurn == Spec => []InTurn
  <1>1. Init => InTurn
    BY DEF Init, InTurn, Ws!StreamInit
  <1>2. InTurn /\ [Next]_vars => InTurn'
    <2>. SUFFICES ASSUME InTurn, [Next]_vars
                  PROVE  InTurn'
      OBVIOUS
    <2>1. CASE Apart
      BY <2>1, ApartFromStream DEF InTurn
    <2>2. CASE Item
      BY <2>2, ItemEndsTurn DEF InTurn
    <2>3. CASE Stream
      BY <2>3, StreamIsPolled DEF InTurn
    <2>4. CASE \E code \in UserCodes : close(code)
      BY <2>4 DEF close, Outside, Ws!Close, InTurn
    <2>5. CASE UNCHANGED vars
      BY <2>5 DEF vars, streamVars, InTurn
    <2>. QED
      BY <2>1, <2>2, <2>3, <2>4, <2>5 DEF Next, poll_next, Apart
  <1>. QED
    BY <1>1, <1>2, PTL DEF Spec


------------------------------------------------------------------------------
(* Wake-ups.                                                               *)

WsAwaited ==
    /\ "ws" \in interest
    /\ inbox = <<>> \/ conn = "held"
    /\ slot = "None" \/ ~Up \/ ZombieClose
FutureAwaited == udp_future \in {"running", "lost"} /\ "future" \in interest

\* What has arrived has arrived on the connection there is.
Unconnected == conn \in {"none", "dialing", "dialled", "refused"} => inbox = <<>>

\* The WebSocket is the last that is polled, and the connection that packets leave on
\* the first: a poll goes on with what each has registered, unless the task was woken.
ItemAwaited == pc = "stream" /\ item = "Pending" /\ ~wake => WsAwaited
IdleAwaited == pc = "idle" /\ ~wake /\ ret # "None" => FutureAwaited \/ WsAwaited
TickAwaited == pc # "udp" /\ ~wake /\ state = "Active" /\ udp = "open" => "udp" \in interest

WakeInv == Unconnected /\ ItemAwaited /\ IdleAwaited /\ TickAwaited

\* A task that stays asleep had not registered with what has happened.
LEMMA StaysAsleep ==
    ASSUME NEW sources, Notify(sources), ~wake'
    PROVE  /\ ~wake
           /\ \A source \in sources : source \notin interest
           /\ \A source : source \in interest /\ source \notin sources => source \in interest'
  <1>1. ~(wake \/ interest \cap sources # {})
      BY DEF Notify
  <1>2. interest' = interest \ sources
      BY DEF Notify
  <1>. QED
      BY <1>1, <1>2

\* The connection is nobody's business but the WebSocket's and the network's.
LEMMA StillUnconnected ==
    ASSUME Unconnected, Next
    PROVE  Unconnected'
  <1>. USE DEF Unconnected
  <1>1. CASE Quiet
    <2>1. UNCHANGED <<conn, inbox>>
      <3>. USE DEF gatewayVars, gateway, Goto, Return, Panic
      <3>1. CASE Poll \/ Udp
        BY <3>1 DEF Poll, Udp, UdpAbsent, UdpSends, UdpPending, UdpErr, UdpClosed, AtUdp
      <3>2. CASE State
        BY <3>2 DEF State, AtState, AtStateOrFault, AtFuture, PassState, PacketPending,
                    PacketDiscarded, PacketDispatched, EncryptErr, SendPacketPanics,
                    FatalCloses, FatalEnds, FuturePending, FutureResumes, FutureSelects,
                    FutureErr, FuturePanics
      <3>3. CASE Commands
        BY <3>3 DEF Commands, AtCommand, CommandPending, CommandSpeaking, CommandFlush
      <3>4. CASE Item
        BY <3>4 DEF Item, AtItem, Among, Is, ItemPending, ItemErr, ItemEnd, Reconnected,
                    Disconnected, Hello, Ready, Resumed, SessionDescription, ItemPanics,
                    ClientConnect, ClientDisconnect, Nothing, ModeErr
      <3>5. CASE Senders \/ (\E code \in UserCodes : close(code))
                    \/ HeartbeatTick \/ UdpTick
                    \/ FutureDone \/ FutureFails \/ FutureLost
        BY <3>5 DEF Senders, close, HeartbeatTick, UdpTick, FutureDone, FutureFails,
                    FutureLost, Future
      <3>. QED
        BY <1>1, <3>1, <3>2, <3>3, <3>4, <3>5 DEF Quiet
    <2>. QED
      BY <2>1
  <1>2. CASE Stream
    BY <1>2 DEF Stream, AtStream, WsStart, WsStep, WsGoes, WsPends, WsSleeps, WsDial,
                WsOpen, WsRefused, WsTransmit, WsTransmitPends, WsTransmitFails, WsBeats,
                WsGivesUp, WsRead, WsBreaks, WsEnds, WsWait, WsCloses, WsFinish, Dialled,
                Connected, Forgotten, Fresh, Sent, Kept, SendFails, Incoming, Taken,
                gateway, Shut, ClosesConnection, Up, gatewayVars
  <1>3. CASE Network
    BY <1>3 DEF Network, World, Greet, Handle, Tell, Garbles, GatewayCloses, ConnectionLost,
                Blocks, Unblocks, DialOk, DialErr, Up
  <1>. QED
    BY <1>1, <1>2, <1>3, Steps

\* Who waits for the WebSocket is woken by all that the network does, but that it takes no
\* more writes.
LEMMA WakeNetwork ==
    ASSUME WakeInv, Network
    PROVE  ItemAwaited' /\ IdleAwaited' /\ TickAwaited'
  <1>1. Notify({"ws"}) \/ Blocks
    BY DEF Network, World, Greet, Handle, Tell, Garbles, GatewayCloses, ConnectionLost, Blocks,
                Unblocks, DialOk, DialErr
  <1>2. UNCHANGED <<pc, ret, item, state, udp, udp_future, slot, link>>
    BY DEF Network, Outside, streamVars, udpVars
  <1>3. CASE Notify({"ws"})
    BY <1>2, <1>3, StaysAsleep
       DEF WakeInv, ItemAwaited, IdleAwaited, TickAwaited, WsAwaited, FutureAwaited
  <1>4. CASE Blocks
    BY <1>2, <1>4
       DEF Blocks, taskVars, Up, ZombieClose, WakeInv, ItemAwaited, IdleAwaited, TickAwaited,
           WsAwaited, FutureAwaited
  <1>. QED
    BY <1>1, <1>3, <1>4

\* The other threads and the timer wake the task, or disturb nobody.
LEMMA WakeOthers ==
    ASSUME WakeInv, Senders \/ HeartbeatTick \/ UdpTick \/ FutureDone \/ FutureFails \/ FutureLost
    PROVE  ItemAwaited' /\ IdleAwaited' /\ TickAwaited'
  <1>. USE DEF WakeInv, ItemAwaited, IdleAwaited, TickAwaited, WsAwaited, FutureAwaited, Up,
             ZombieClose
  <1>1. UNCHANGED <<pc, ret, item, slot, link, conn, inbox, state, udp>>
    BY DEF Senders, HeartbeatTick, UdpTick, FutureDone, FutureFails, FutureLost, Future,
           Outside, streamVars, udpVars, gatewayVars, gateway
  <1>2. CASE Senders
    <2>1. udp_future' = udp_future /\ (Notify({"opus"}) \/ Notify({"command"}))
      BY <1>2 DEF Senders, send, speaking_to, wait_until_flushed, Command
    <2>. QED
      BY <1>1, <2>1, StaysAsleep
  <1>3. CASE HeartbeatTick \/ UdpTick
    <2>1. wake' = TRUE
      BY <1>3 DEF HeartbeatTick, UdpTick, Notify
    <2>. QED
      BY <2>1
  <1>4. CASE FutureDone \/ FutureFails
    <2>1. Notify({"future"})
      BY <1>4 DEF FutureDone, FutureFails, Future
    <2>. QED
      BY <1>1, <2>1, StaysAsleep
  <1>5. CASE FutureLost
    BY <1>1, <1>5 DEF FutureLost, taskVars
  <1>. QED
    BY <1>2, <1>3, <1>4, <1>5

\* The connection of the packets is polled first.
LEMMA WakeUdp ==
    ASSUME WakeInv, Poll \/ Udp
    PROVE  ItemAwaited' /\ IdleAwaited' /\ TickAwaited'
  <1>. USE DEF WakeInv, ItemAwaited, IdleAwaited, TickAwaited
  <1>1. CASE Poll \/ UdpSends
    BY <1>1 DEF Poll, UdpSends, AtUdp, Goto
  <1>2. CASE UdpAbsent \/ UdpClosed
    BY <1>2 DEF UdpAbsent, UdpClosed, AtUdp, udpVars, Goto
  <1>3. CASE UdpPending
    <2>1. pc' = "state" /\ "udp" \in interest'
      BY <1>3 DEF UdpPending, Interval, Goto
    <2>. QED
      BY <2>1
  <1>4. CASE UdpErr
    <2>1. wake' = TRUE
      BY <1>4 DEF UdpErr, Return
    <2>. QED
      BY <2>1
  <1>. QED
    BY <1>1, <1>2, <1>3, <1>4 DEF Udp

LEMMA WakeState ==
    ASSUME WakeInv, State \/ Commands
    PROVE  ItemAwaited' /\ IdleAwaited' /\ TickAwaited'
  <1>. USE DEF WakeInv, ItemAwaited, IdleAwaited, TickAwaited
  <1>1. CASE PassState \/ PacketDiscarded \/ SendPacketPanics \/ FuturePanics
    BY <1>1 DEF PassState, PacketDiscarded, SendPacketPanics, FuturePanics, AtFuture, AtState,
                AtStateOrFault, ours, taskVars, Goto, Panic
  <1>2. CASE PacketPending
    <2>1. /\ pc = "state" /\ pc' = "command" /\ UNCHANGED <<wake, state, udp>>
          /\ interest' = interest \cup {"opus"}
      BY <1>2 DEF PacketPending, AtState, AtStateOrFault, ours, Goto
    <2>. QED
      BY <2>1
  <1>3. CASE PacketDispatched
    <2>1. /\ pc = "state" /\ pc' = "command" /\ UNCHANGED <<state, udp>> /\ Notify({"queue"})
      BY <1>3 DEF PacketDispatched, AtState, AtStateOrFault, Goto
    <2>. QED
      BY <2>1, StaysAsleep
  <1>4. CASE FatalCloses
    BY <1>4 DEF FatalCloses, Goto
  <1>5. CASE FatalEnds
    BY <1>5 DEF FatalEnds, AtState, AtStateOrFault, ours, Return
  <1>6. CASE FuturePending
    <2>1. /\ state # "Active" /\ state' = state /\ pc' = "idle"
          /\ FutureAwaited'
      BY <1>6 DEF FuturePending, AtFuture, AtState, AtStateOrFault, ours, FutureAwaited
    <2>. QED
      BY <2>1
  <1>7. CASE FutureResumes \/ FutureErr \/ EncryptErr
    <2>1. wake' = TRUE
      BY <1>7 DEF FutureResumes, FutureErr, EncryptErr, Return
    <2>. QED
      BY <2>1
  <1>8. CASE FutureSelects
    BY <1>8 DEF FutureSelects, AtFuture, Goto
  <1>9. CASE CommandPending
    <2>1. /\ pc = "command" /\ pc' = "ws" /\ UNCHANGED <<wake, state, udp>>
          /\ interest' = interest \cup {"command"}
      BY <1>9 DEF CommandPending, AtCommand, Goto
    <2>. QED
      BY <2>1
  <1>10. CASE CommandSpeaking \/ CommandFlush
    <2>1. /\ pc = "command" /\ pc' \in {"ws", "panic"} /\ UNCHANGED <<wake, interest, state, udp>>
      BY <1>10 DEF CommandSpeaking, CommandFlush, AtCommand, Goto, taskVars
    <2>. QED
      BY <2>1
  <1>. QED
    BY <1>1, <1>2, <1>3, <1>4, <1>5, <1>6, <1>7, <1>8, <1>9, <1>10 DEF State, Commands

\* The WebSocket registers once nothing has arrived and the message has left, or is held
\* up.
LEMMA WakeStream ==
    ASSUME TypeOK, WakeInv, Stream
    PROVE  ItemAwaited' /\ IdleAwaited' /\ TickAwaited'
  <1>. USE DEF WakeInv, ItemAwaited, IdleAwaited, TickAwaited
  <1>1. pc \in {"ws", "stream"} /\ pc' = "stream" /\ UNCHANGED <<wake, state, udp>>
    BY DEF Stream, WsStart, WsDial, WsOpen, WsRefused, WsTransmit, WsTransmitPends,
           WsTransmitFails, WsBeats, WsGivesUp, WsRead, WsBreaks, WsEnds, WsWait, WsCloses,
           WsFinish, WsGoes, WsPends, WsSleeps, WsStep, AtStream, Goto, taskVars, udpVars
  <1>2. CASE WsDial \/ WsTransmitPends \/ WsWait \/ WsCloses
    <2>1. interest' = interest \cup {"ws"} /\ link' = link
      BY <1>2 DEF WsDial, WsTransmitPends, WsWait, WsCloses, WsPends, WsSleeps, Ws!Wait,
                  Ws!Transmit
    <2>2. /\ inbox' = <<>> \/ conn' = "held"
          /\ slot' = "None" \/ ~Up' \/ ZombieClose'
      <3>1. CASE WsDial
        BY <3>1 DEF WsDial, Dialled, Up, Unconnected
      <3>2. CASE WsTransmitPends
        BY <3>2 DEF WsTransmitPends, Ws!Transmit, Sent, Blocked
      <3>3. CASE WsWait
        BY <2>1, <3>3 DEF WsWait, WsPends, Ws!Wait, Reading, ZombieClose, Up, Unconnected,
                          gatewayVars
      <3>4. CASE WsCloses
        BY <3>4 DEF WsCloses, WsPends, Ws!Wait, ClosesConnection
      <3>. QED
        BY <1>2, <3>1, <3>2, <3>3, <3>4
    <2>. QED
      BY <1>1, <2>1, <2>2 DEF WsAwaited
  <1>3. CASE ~(WsDial \/ WsTransmitPends \/ WsWait \/ WsCloses)
    <2>1. interest' = interest
      BY <1>3 DEF Stream, WsStart, WsOpen, WsRefused, WsTransmit, WsTransmitFails, WsBeats,
                  WsGivesUp, WsRead, WsBreaks, WsEnds, WsFinish, WsGoes, WsStep, taskVars
    <2>2. item' # "Pending"
      <3>1. CASE WsRead
        <4>1. inbox # <<>> /\ inbox \in Seq(Messages)
          BY <3>1 DEF WsRead, Incoming, TypeOK, GatewayType
        <4>2. Head(inbox) \in Messages
          BY <4>1, HeadTailProperties
        <4>3. Head(inbox).op # "Pending" /\ waiting # "Pending"
          BY <4>2 DEF Messages, ClientEvents, AllExtras, TypeOK, Ws!StreamTypeOK
        <4>. QED
          BY <3>1, <4>3, ReadEffect
      <3>2. CASE WsStart
        BY <3>2 DEF WsStart, Ws!Start, TypeOK, Ws!StreamTypeOK, ClientEvents, AllExtras
      <3>3. CASE ~WsRead /\ ~WsStart
        BY <1>3, <3>3
           DEF Stream, WsOpen, WsRefused, WsTransmit, WsTransmitFails, WsBeats, WsGivesUp,
               WsBreaks, WsEnds, WsFinish, Ws!Open, Ws!Fail, Ws!Transmit, Ws!TransmitFails,
               Ws!Beat, Ws!GiveUp, Ws!Drop, Ws!Lose, Ws!Finish, Ws!Polling
      <3>. QED
        BY <3>1, <3>2, <3>3
    <2>. QED
      BY <1>1, <2>1, <2>2
  <1>. QED
    BY <1>2, <1>3

\* Only a Pending item ends the poll with Pending.
LEMMA WakeItem ==
    ASSUME WakeInv, Item
    PROVE  ItemAwaited' /\ IdleAwaited' /\ TickAwaited'
  <1>. USE DEF WakeInv, ItemAwaited, IdleAwaited, TickAwaited, AtItem, Among, Is
  <1>1. CASE ItemPending
    BY <1>1 DEF ItemPending, WsAwaited, Up, ZombieClose, taskVars, streamVars, clientVars,
                udpVars, gatewayVars
  <1>2. CASE ItemErr \/ ClientDisconnect \/ SessionDescription \/ ClientConnect \/ ModeErr
    <2>1. wake' = TRUE
      BY <1>2 DEF ItemErr, ClientDisconnect, SessionDescription, ClientConnect, ModeErr, Return
    <2>. QED
      BY <2>1
  <1>3. CASE ItemEnd \/ Reconnected \/ Hello \/ Ready \/ Resumed \/ Nothing
    BY <1>3 DEF ItemEnd, Reconnected, Hello, Ready, Resumed, Nothing, Again, Goto
  <1>4. CASE Disconnected
    BY <1>4 DEF Disconnected, Again, Goto, Return
  <1>5. CASE ItemPanics
    BY <1>5 DEF ItemPanics, Panic, Goto, taskVars, clientVars, udpVars
  <1>. QED
    BY <1>1, <1>2, <1>3, <1>4, <1>5 DEF Item

LEMMA WakeStep == TypeOK /\ WakeInv /\ [Next]_vars => WakeInv'
  <1>. SUFFICES ASSUME TypeOK, WakeInv, [Next]_vars
                PROVE  WakeInv'
    OBVIOUS
  <1>1. CASE Next
    <2>1. Unconnected'
      BY <1>1, StillUnconnected DEF WakeInv
    <2>2. CASE \E code \in UserCodes : close(code)
      <3>1. wake' = TRUE
        BY <2>2 DEF close
      <3>. QED
        BY <2>1, <3>1 DEF WakeInv, ItemAwaited, IdleAwaited, TickAwaited
    <2>3. CASE ~\E code \in UserCodes : close(code)
      BY <1>1, <2>1, <2>3, WakeNetwork, WakeOthers, WakeUdp, WakeState, WakeStream, WakeItem
         DEF Next, poll_next, WakeInv
    <2>. QED
      BY <2>2, <2>3
  <1>2. CASE UNCHANGED vars
    BY <1>2 DEF vars, taskVars, gatewayVars, streamVars, udpVars, WakeInv, Unconnected,
                ItemAwaited, IdleAwaited, TickAwaited, WsAwaited, FutureAwaited, Up,
                ZombieClose
  <1>. QED
    BY <1>1, <1>2

\* A client that sleeps is woken by the future of its UDP connection, or else by its
\* WebSocket, from which it has read all that has arrived and to which it has sent what it
\* had to say (unless a frame is held up or a zombied connection given up); an active one
\* by its send interval besides.
THEOREM ClientIsWoken == Spec => []NoLostWakeup
  <1>1. Init => WakeInv
    BY DEF Init, GatewayInit, WakeInv, Unconnected, ItemAwaited, IdleAwaited, TickAwaited
  <1>2. WakeInv => NoLostWakeup
    BY DEF WakeInv, IdleAwaited, TickAwaited, FutureAwaited, WsAwaited, NoLostWakeup
  <1>. QED
    BY <1>1, <1>2, WakeStep, TypeCorrect, PTL DEF Spec


------------------------------------------------------------------------------
(* The queues of packets.  Each part of the client that touches the UDP    *)
(* connection takes one of the steps of PacketQueue, and none of the       *)
(* others knows of it; nothing but the types is needed.                    *)

QueueMoves ==
    \/ opus # <<>> /\ Queue!Accept(Packet(Head(opus)))
    \/ \E mark \in 0 .. MaxPackets : Queue!Ask(mark)
    \/ Queue!Switch \/ Queue!Serve
    \/ Queue!Replace

\* Outside these parts nothing of the connection changes.
LEMMA QueueFrame ==
    ASSUME Poll \/ Stream \/ Item \/ Senders \/ Network \/ HeartbeatTick \/ UdpTick
               \/ FutureDone \/ FutureFails \/ FutureLost \/ \E code \in UserCodes : close(code)
    PROVE  UNCHANGED udpVars
  <1>1. CASE Stream \/ Network
    BY <1>1 DEF Stream, Network, AtStream, WsStep, WsGoes, WsPends, WsSleeps, WsStart,
                WsDial, WsOpen, WsRefused, WsTransmit, WsTransmitPends, WsTransmitFails,
                WsBeats, WsGivesUp, WsRead, WsBreaks, WsEnds, WsWait, WsCloses, WsFinish
  <1>2. CASE Poll \/ Senders \/ HeartbeatTick \/ UdpTick \/ FutureDone \/ FutureFails \/ FutureLost
    BY <1>2 DEF Poll, Senders, HeartbeatTick, UdpTick, FutureDone, FutureFails, FutureLost,
                Future
  <1>3. CASE Item
    BY <1>3 DEF Item, AtItem, Among, Is, ItemPending, ItemErr, ItemEnd, Reconnected,
                Disconnected, Hello, Ready, Resumed, SessionDescription, ItemPanics,
                ClientConnect, ClientDisconnect, Nothing, ModeErr
  <1>4. CASE \E code \in UserCodes : close(code)
    BY <1>4 DEF close
  <1>. QED
    BY <1>1, <1>2, <1>3, <1>4

\* What the connection does when it is polled.
LEMMA QueueUdp ==
    ASSUME TypeOK, Udp
    PROVE  QueueMoves \/ UNCHANGED udpVars
  <1>1. CASE UdpAbsent \/ UdpErr
    BY <1>1 DEF UdpAbsent, UdpErr
  <1>2. CASE UdpSends
    <2>1. Queue!Emit
      BY <1>2 DEF UdpSends, Queue!Emit
    <2>. QED
      BY <2>1 DEF QueueMoves, Queue!Serve
  <1>3. CASE UdpPending
    <2>1. Queue!Answer \/ UNCHANGED <<udp, outcoming, flushed, wire, answered>>
      BY <1>3 DEF UdpPending, Queue!Answer
    <2>. QED
      BY <2>1 DEF QueueMoves, Queue!Serve, udpVars
  <1>4. CASE UdpClosed
    <2>1. outcoming \in Seq(Packets)
      BY DEF TypeOK
    <2>2. SubSeq(outcoming, 1, 0) = <<>> /\ 0 \in 0 .. Len(outcoming)
      BY <2>1, SubSeqEmpty, LenProperties
    <2>3. ~(udp = "open") /\ ~(udp' = "open") /\ outcoming' = <<>> /\ flushed' = {} /\ wire' = wire
      BY <1>4 DEF UdpClosed
    <2>4. Queue!Discard
      BY <2>2, <2>3 DEF Queue!Discard
    <2>. QED
      BY <2>4 DEF QueueMoves, Queue!Serve
  <1>. QED
    BY <1>1, <1>2, <1>3, <1>4 DEF Udp

\* What the state asks of the connection.
LEMMA QueueState ==
    ASSUME State
    PROVE  QueueMoves \/ UNCHANGED udpVars
  <1>1. UNCHANGED <<wire, answered>>
    BY DEF State, AtState, AtStateOrFault, AtFuture, PassState, PacketPending,
           PacketDiscarded, PacketDispatched, EncryptErr, SendPacketPanics, FatalCloses,
           FatalEnds, FuturePending, FutureResumes, FutureSelects, FutureErr, FuturePanics
  <1>2. CASE PacketDispatched
    <2>1. opus # <<>> /\ Queue!Accept(Packet(Head(opus)))
      BY <1>1, <1>2 DEF PacketDispatched, TakePacket, Queue!Accept
    <2>. QED
      BY <2>1 DEF QueueMoves
  <1>3. CASE FatalCloses
    <2>1. Queue!Switch
      BY <1>1, <1>3 DEF FatalCloses, Queue!Switch
    <2>. QED
      BY <2>1 DEF QueueMoves
  <1>4. CASE FutureResumes \/ FutureSelects
    <2>1. Queue!Replace
      BY <1>1, <1>4 DEF FutureResumes, FutureSelects, NewUdp, Queue!Replace
    <2>. QED
      BY <2>1 DEF QueueMoves
  <1>5. CASE ~(PacketDispatched \/ FatalCloses \/ FutureResumes \/ FutureSelects)
    BY <1>1, <1>5 DEF State, PassState, PacketPending, PacketDiscarded, EncryptErr,
                      SendPacketPanics, FatalEnds, FuturePending, FutureErr, FuturePanics,
                      ours, udpVars
  <1>. QED
    BY <1>2, <1>3, <1>4, <1>5

\* What a command asks of it.
LEMMA QueueCommands ==
    ASSUME TypeOK, Commands
    PROVE  QueueMoves \/ UNCHANGED udpVars
  <1>1. CASE CommandPending \/ CommandSpeaking
    BY <1>1 DEF CommandPending, CommandSpeaking, AtCommand, udpVars
  <1>2. CASE CommandFlush
    <2>1. Head(commands) \in CommandMessage
      BY <1>2, HeadTailProperties DEF CommandFlush, TakeCommand, TypeOK, ChannelType
    <2>2. Head(commands).mark \in 0 .. MaxPackets
      BY <2>1 DEF CommandMessage
    <2>3. \/ UNCHANGED udpVars
          \/ Queue!Ask(Head(commands).mark)
      BY <1>2 DEF CommandFlush, AtCommand, udpVars, Queue!Ask
    <2>. QED
      BY <2>2, <2>3 DEF QueueMoves
  <1>. QED
    BY <1>1, <1>2 DEF Commands

\* Packets are handed over in the order of the channel to a queue that loses none of
\* them but with its socket, and a flush is answered by an empty queue, or lost with one
\* that a new connection replaces.
THEOREM UsesQueues == Spec => UsesPacketQueues
  <1>1. ASSUME TypeOK, [Next]_vars
        PROVE  QueueMoves \/ UNCHANGED udpVars
    BY <1>1, QueueFrame, QueueUdp, QueueState, QueueCommands DEF Next, poll_next, vars
  <1>2. UNCHANGED udpVars => UNCHANGED Queue!vars
    BY DEF udpVars, Queue!vars
  <1>3. TypeOK /\ [Next]_vars => [QueueMoves]_(Queue!vars)
    BY <1>1, <1>2
  <1>4. Spec => [][QueueMoves]_(Queue!vars)
    BY <1>3, TypeCorrect, PTL DEF Spec
  <1>. QED
    BY <1>4 DEF UsesPacketQueues, QueueMoves
=============================================================================

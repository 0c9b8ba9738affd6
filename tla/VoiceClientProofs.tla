------------------------- MODULE VoiceClientProofs -------------------------
(***************************************************************************)
(* VoiceClient sends its packets in order, encrypts each with the key and  *)
(* a fresh nonce of its session, and does not panic, for any number of     *)
(* packets, commands, closes and faults.                                   *)
(*                                                                         *)
(* What a packet is encrypted with depends on how far the handshake is,    *)
(* and that on messages that are anywhere between the slot, the gateway    *)
(* and the item the client handles next: the invariant follows them.       *)
(***************************************************************************)
EXTENDS VoiceClient, SequenceTheorems, TLAPS

------------------------------------------------------------------------------
(* What is on its way to the client and to the gateway.                    *)

Arrived(op) == \E i \in DOMAIN inbox : inbox[i].op = op

\* The client has not yet handled an event of this kind.
Pending(op) == Arrived(op) \/ waiting = op \/ (pc = "stream" /\ item = op)

\* A SelectProtocol that the gateway has not yet handled.
Selecting == slot = "SelectProtocol" \/ \E i \in DOMAIN desk : desk[i] = "SelectProtocol"

\* What the gateway says only once the session has begun.
Late == {"SessionDescription", "ClientConnect"}

Fatal == state = "FatallyDisconnected"

\* The client has handled the last Ready.
UpToDate == session = known /\ session # None

------------------------------------------------------------------------------
(* The handshake, as long as no Resume was granted.                        *)

\* Where the poll can be.
PollInv ==
    /\ pc = "command" => state = "Active"
    /\ Fatal => pc \in {"idle", "udp", "state"}
    /\ udp = "closed" => Fatal
    /\ item = "Polling" => waiting \in {"None", "Reconnected"}

\* Before the gateway has answered an Identify, no event of a session is pending.
EventsInv ==
    /\ Pending("Ready") => known # 0
    /\ stage \in {"silent", "new"} => \A op \in Late \cup {"Ready"} : ~Pending(op)
    /\ ~resumes => ~Pending("Resumed") /\ stage # "resumed"

\* The protocol is selected in answer to the last Ready, or by a message that was
\* left from an earlier connection and is too early.
SelectInv ==
    /\ stage \in {"silent", "new"} =>
          /\ slot = "SelectProtocol" => \A i \in DOMAIN desk : desk[i] # "Identify"
          /\ \A i, j \in DOMAIN desk :
                i < j => ~(desk[i] = "Identify" /\ desk[j] = "SelectProtocol")
    /\ stage = "ready" /\ Selecting => UpToDate \/ Fatal

\* The session is the gateway's as soon as the gateway speaks of it.
SessionInv ==
    /\ stage = "active" => UpToDate \/ Fatal
    /\ \A op \in Late : Pending(op) => UpToDate \/ Fatal
    /\ udp_future # "none" =>
          /\ state = "UdpHandshaking" /\ pc \in {"idle", "udp", "state", "panic"}
          /\ UpToDate /\ stage \in {"ready", "active", "done"}

\* The UDP connection is there before the protocol is selected.
UdpInv ==
    Selecting \/ Pending("SessionDescription") \/ state = "Active" => udp = "open" \/ Fatal

KeyInv ==
    /\ state = "Active" => encryptor = session /\ session # None
    /\ \A i \in DOMAIN outcoming : outcoming[i].key = outcoming[i].session
    /\ \A i \in DOMAIN wire : wire[i].key = wire[i].session
    /\ pc = "panic" => udp_future = "spent"

HandshakeInv ==
    /\ PollInv /\ EventsInv
    /\ ~resumes => SelectInv /\ SessionInv /\ UdpInv /\ KeyInv

------------------------------------------------------------------------------
(* The packets.                                                            *)

\* One packet was sent before the other, and encrypted before it if in one session.
Earlier(p, q) == p.id < q.id /\ (p.session = q.session => p.nonce < q.nonce)

\* One Ready is under way at most.
OneReady ==
    /\ \A i, j \in DOMAIN inbox : inbox[i].op = "Ready" /\ inbox[j].op = "Ready" => i = j
    /\ waiting = "Ready" => ~Arrived("Ready") /\ ~(pc = "stream" /\ item = "Ready")
    /\ pc = "stream" /\ item = "Ready" => ~Arrived("Ready")

\* A Ready is handled once, and begins a session with no packets.
ReadyInv ==
    /\ OneReady
    /\ session <= known
    /\ Pending("Ready") => session < known

Sane(p) ==
    /\ p.session \in 1 .. known
    /\ Pending("Ready") => p.session < known
    /\ p.session = session => p.nonce < nonce
    /\ p.id <= sent_packets
    /\ \A k \in DOMAIN opus : p.id < opus[k]

\* The packets that the client has not taken.
OpusInv ==
    /\ \A i \in DOMAIN opus : opus[i] <= sent_packets
    /\ \A i, j \in DOMAIN opus : i < j => opus[i] < opus[j]

\* Those at the UDP connection.
PairsInv ==
    /\ \A i, j \in DOMAIN outcoming : i < j => Earlier(outcoming[i], outcoming[j])
    /\ \A i, j \in DOMAIN wire : i < j => Earlier(wire[i], wire[j])
    /\ \A i \in DOMAIN wire, j \in DOMAIN outcoming : Earlier(wire[i], outcoming[j])

OrderInv ==
    /\ OpusInv
    /\ \A i \in DOMAIN outcoming : Sane(outcoming[i])
    /\ \A i \in DOMAIN wire : Sane(wire[i])
    /\ PairsInv

IInv == TypeOK /\ HandshakeInv /\ ReadyInv /\ OrderInv

------------------------------------------------------------------------------
(* Types.                                                                  *)

\* What sending a packet does to the packets.
LEMMA PacketTypes ==
    ASSUME TypeOK
    PROVE  /\ outcoming \in Seq(Packets) /\ wire \in Seq(Packets)
           /\ outcoming # <<>> => /\ Append(wire, Head(outcoming)) \in Seq(Packets)
                                  /\ Tail(outcoming) \in Seq(Packets)
           /\ opus # <<>> => /\ Packet(Head(opus)) \in Packets
                             /\ Append(outcoming, Packet(Head(opus))) \in Seq(Packets)
  <1>1. /\ outcoming \in Seq(Packets) /\ wire \in Seq(Packets)
        /\ opus \in Seq(1 .. MaxPackets)
        /\ session \in Nat /\ encryptor \in Nat /\ nonce \in Nat
    BY DEF TypeOK, ChannelType
  <1>2. ASSUME outcoming # <<>>
        PROVE  Append(wire, Head(outcoming)) \in Seq(Packets) /\ Tail(outcoming) \in Seq(Packets)
    BY <1>1, <1>2, HeadTailProperties, AppendProperties
  <1>3. ASSUME opus # <<>>
        PROVE  /\ Packet(Head(opus)) \in Packets
               /\ Append(outcoming, Packet(Head(opus))) \in Seq(Packets)
    <2>1. Head(opus) \in 1 .. MaxPackets
      BY <1>1, <1>3, HeadTailProperties
    <2>2. Packet(Head(opus)) \in Packets
      BY <1>1, <2>1 DEF Packet, Packets
    <2>. QED
      BY <1>1, <2>2, AppendProperties
  <1>. QED
    BY <1>1, <1>2, <1>3

\* What the slot holds may be sent.
LEMMA DeskTypes ==
    ASSUME TypeOK, slot \notin {"None", "Heartbeat"}
    PROVE  Append(desk, slot) \in Seq(ClientTexts \cup {"Close"})
  <1>. DEFINE T == ClientTexts \cup {"Close"}
  <1>1. slot \in T
    BY DEF TypeOK, Ws!StreamTypeOK
  <1>2. desk \in Seq(T)
    BY DEF TypeOK, GatewayType
  <1>. HIDE DEF T
  <1>3. Append(desk, slot) \in Seq(T)
    BY <1>1, <1>2, AppendProperties
  <1>. QED
    BY <1>3 DEF T

\* The UDP connection's part of a poll.
LEMMA UdpTypes ==
    ASSUME TypeOK, Udp
    PROVE  TypeOK'
  <1>. USE ChannelAssumption, EmptySeq DEF TypeOK, ChannelType, GatewayType,
         Ws!StreamTypeOK, Ws!Items, channelVars, taskVars, gatewayVars, gateway, streamVars,
         sessionVars, udpVars, Goto, Return, Panic, Fault, ClientItems, Notify, AtUdp
  <1>1. CASE UdpAbsent
    BY <1>1 DEF UdpAbsent
  <1>2. CASE UdpSends
    <2>1. wire' \in Seq(Packets) /\ outcoming' \in Seq(Packets)
      BY <1>2, PacketTypes DEF UdpSends
    <2>. QED
      BY <1>2, <2>1 DEF UdpSends
  <1>3. CASE UdpPending
    <2>1. flushed' \subseteq 0 .. MaxPackets /\ answered' \subseteq 0 .. MaxPackets
      BY <1>3 DEF UdpPending
    <2>2. interest' \subseteq {"ws", "opus", "command", "udp", "queue", "future"}
      BY <1>3 DEF UdpPending, Interval
    <2>. QED
      BY <1>3, <2>1, <2>2 DEF UdpPending
  <1>4. CASE UdpErr
    BY <1>4 DEF UdpErr
  <1>5. CASE UdpClosed
    BY <1>5 DEF UdpClosed
  <1>. QED
    BY <1>1, <1>2, <1>3, <1>4, <1>5 DEF Udp

\* The part of a poll that the state asks for.
LEMMA StateTypes ==
    ASSUME TypeOK, State
    PROVE  TypeOK'
  <1>. USE ChannelAssumption, EmptySeq DEF TypeOK, ChannelType, GatewayType,
         Ws!StreamTypeOK, Ws!Items, channelVars, taskVars, gatewayVars, gateway, streamVars,
         sessionVars, udpVars, Goto, Return, Panic, Fault, ClientItems, Notify, AtState,
         AtStateOrFault, AtFuture, ours, DrainPackets, TakePacket, States, Futures
  <1>1. CASE PassState
    BY <1>1 DEF PassState
  <1>2. CASE PacketPending
    BY <1>2 DEF PacketPending
  <1>3. CASE PacketDiscarded
    BY <1>3 DEF PacketDiscarded
  <1>4. CASE PacketDispatched
    <2>1. outcoming' \in Seq(Packets)
      BY <1>4, PacketTypes DEF PacketDispatched
    <2>2. opus' \in Seq(1 .. MaxPackets) /\ commands' \in Seq(CommandMessage)
      BY <1>4 DEF PacketDispatched
    <2>3. wake' \in BOOLEAN /\ interest' \subseteq interest
      BY <1>4 DEF PacketDispatched
    <2>. QED
      BY <1>4, <2>1, <2>2, <2>3 DEF PacketDispatched, NextNonce
  <1>5. CASE SendPacketPanics
    BY <1>5 DEF SendPacketPanics
  <1>6. CASE FatalCloses
    BY <1>6 DEF FatalCloses
  <1>7. CASE FatalEnds
    BY <1>7 DEF FatalEnds
  <1>8. CASE FuturePending
    BY <1>8 DEF FuturePending
  <1>9. CASE FutureResumes
    BY <1>9 DEF FutureResumes, NewUdp
  <1>10. CASE FutureSelects
    BY <1>10 DEF FutureSelects, SelectProtocol, Ws!Put, NewUdp, ClientTexts
  <1>11. CASE FutureErr
    BY <1>11 DEF FutureErr
  <1>12. CASE FuturePanics
    BY <1>12 DEF FuturePanics
  <1>13. CASE EncryptErr
    BY <1>13 DEF EncryptErr
  <1>. QED
    BY <1>1, <1>2, <1>3, <1>4, <1>5, <1>6, <1>7, <1>8, <1>9, <1>10, <1>11, <1>12, <1>13
       DEF State

\* The commands.
LEMMA CommandsTypes ==
    ASSUME TypeOK, Commands
    PROVE  TypeOK'
  <1>. USE ChannelAssumption, EmptySeq DEF TypeOK, ChannelType, GatewayType,
         Ws!StreamTypeOK, Ws!Items, channelVars, taskVars, gatewayVars, gateway, streamVars,
         sessionVars, udpVars, Goto, Return, Panic, Fault, ClientItems, Notify, AtCommand,
         TakeCommand
  <1>1. CASE CommandPending
    BY <1>1 DEF CommandPending
  <1>2. CASE CommandSpeaking
    <2>1. Head(commands) \in CommandMessage /\ commands' \in Seq(CommandMessage)
      BY <1>2, HeadTailProperties DEF CommandSpeaking
    <2>2. speaking' \in BOOLEAN
      BY <1>2, <2>1 DEF CommandSpeaking, CommandMessage
    <2>. QED
      BY <1>2, <2>1, <2>2 DEF CommandSpeaking, Ws!Put, ClientTexts
  <1>3. CASE CommandFlush
    <2>1. Head(commands) \in CommandMessage /\ commands' \in Seq(CommandMessage)
      BY <1>3, HeadTailProperties DEF CommandFlush
    <2>2. flushed' \subseteq 0 .. MaxPackets
      BY <1>3, <2>1 DEF CommandFlush, CommandMessage
    <2>. QED
      BY <1>3, <2>1, <2>2 DEF CommandFlush, Ws!Put, ClientTexts
  <1>. QED
    BY <1>1, <1>2, <1>3 DEF Commands

\* The WebSocket.
LEMMA StreamTypes ==
    ASSUME TypeOK, Stream
    PROVE  TypeOK'
  <1>. USE ChannelAssumption, EmptySeq DEF TypeOK, ChannelType, GatewayType,
         Ws!StreamTypeOK, Ws!Items, channelVars, taskVars, gatewayVars, gateway, streamVars,
         sessionVars, udpVars, Goto, Return, Panic, Fault, ClientItems, Notify, AtStream,
         WsStep, WsGoes, WsPends, WsSleeps, Conns, Stages
  <1>1. CASE WsStart
    BY <1>1 DEF WsStart, Ws!Start, ClientEvents
  <1>2. CASE WsDial
    BY <1>2 DEF WsDial, Ws!Wait, Dialled
  <1>3. CASE WsOpen
    <2>1. quiet' \in BOOLEAN /\ waiting' \in ClientEvents \cup {"None", "Reconnected"}
      BY <1>3 DEF WsOpen, Ws!Open
    <2>. QED
      BY <1>3, <2>1 DEF WsOpen, Connected, Fresh, Ws!Open
  <1>4. CASE WsRefused
    BY <1>4 DEF WsRefused, Forgotten, Fresh, Ws!Fail
  <1>5. CASE WsTransmit \/ WsTransmitPends
    <2>. USE DEF WsTransmit, WsTransmitPends
    <2>1. slot # "None" /\ (desk' = desk \/ (slot # "Heartbeat" /\ desk' = Append(desk, slot)))
      BY <1>5 DEF Sent, Ws!Transmit
    <2>2. desk' \in Seq(ClientTexts \cup {"Close"})
      BY <2>1, DeskTypes
    <2>3. conn' \in Conns
      BY <1>5 DEF Sent
    <2>4. /\ interest' \subseteq interest \cup {"ws"} /\ UNCHANGED wake
          /\ UNCHANGED <<inbox, stage, known, resumes, faults>>
          /\ UNCHANGED <<channelVars, sessionVars, udpVars, state, speaking, udp_future, closes>>
          /\ UNCHANGED <<pc, ret>>
      BY <1>5 DEF Sent
    <2>5. slot' = "None" /\ item' \in {"Polling", "Pending"} /\ UNCHANGED <<link, quiet, waiting>>
      BY <1>5 DEF Ws!Transmit
    <2>. QED
      BY <2>2, <2>3, <2>4, <2>5
  <1>6. CASE WsTransmitFails
    <2>1. CASE link = "Closed"
      BY <1>6, <2>1 DEF WsTransmitFails, Ws!TransmitFails, Kept
    <2>2. CASE link # "Closed"
      BY <1>6, <2>2 DEF WsTransmitFails, Ws!TransmitFails, Forgotten, Fresh
    <2>. QED
      BY <2>1, <2>2
  <1>7. CASE WsRead
    <2>1. Head(inbox) \in Messages /\ inbox' \in Seq(Messages)
      BY <1>7, HeadTailProperties DEF WsRead, Taken, Incoming
    <2>2. /\ conn' \in Conns
          /\ UNCHANGED <<desk, stage, known, resumes, faults>>
          /\ UNCHANGED <<channelVars, sessionVars, udpVars, state, speaking, udp_future, closes>>
          /\ UNCHANGED <<pc, ret, taskVars>>
      BY <1>7 DEF WsRead, Taken
    <2>3. Ws!StreamTypeOK'
      <3>1. CASE Head(inbox).op = "Close"
        <4>1. from_close_code(Head(inbox).code) \in {"Disconnected", "Closed"}
          BY DEF from_close_code
        <4>2. Ws!Drop(from_close_code(Head(inbox).code))
          BY <1>7, <3>1 DEF WsRead
        <4>. QED
          BY <4>1, <4>2 DEF Ws!Drop
      <3>2. CASE Head(inbox).op = "Malformed"
        <4>1. Ws!Fail
          BY <1>7, <3>2 DEF WsRead
        <4>. QED
          BY <4>1 DEF Ws!Fail
      <3>3. CASE Head(inbox).op \notin {"Close", "Malformed"}
        <4>1. Head(inbox).op \in ClientEvents
          BY <2>1, <3>3 DEF Messages
        <4>2. Ws!Read(Head(inbox).op)
          BY <1>7, <3>3 DEF WsRead
        <4>. QED
          BY <4>1, <4>2 DEF Ws!Read
      <3>. QED
        BY <3>1, <3>2, <3>3
    <2>. QED
      BY <2>1, <2>2, <2>3
  <1>8. CASE WsBreaks
    BY <1>8 DEF WsBreaks, Shut, Ws!Drop
  <1>9. CASE WsEnds
    BY <1>9 DEF WsEnds, Forgotten, Fresh, Ws!Lose
  <1>10. CASE WsWait
    BY <1>10 DEF WsWait, Ws!Wait
  <1>11. CASE WsCloses
    <2>1. desk' \in Seq(ClientTexts \cup {"Close"})
      <3>1. desk' = desk \/ desk' = Append(desk, "Close")
        BY <1>11 DEF WsCloses, ClosesConnection
      <3>2. "Close" \in ClientTexts \cup {"Close"} /\ desk \in Seq(ClientTexts \cup {"Close"})
        OBVIOUS
      <3>3. ASSUME NEW T, "Close" \in T, desk \in Seq(T)
            PROVE  Append(desk, "Close") \in Seq(T)
        BY <3>3, AppendProperties
      <3>. QED
        BY <3>1, <3>2, <3>3
    <2>. QED
      BY <1>11, <2>1 DEF WsCloses, Ws!Wait, ClosesConnection
  <1>12. CASE WsFinish
    BY <1>12 DEF WsFinish, Ws!Finish
  <1>13. CASE WsBeats
    BY <1>13 DEF WsBeats, Ws!Beat
  <1>14. CASE WsGivesUp
    BY <1>14 DEF WsGivesUp, Ws!GiveUp
  <1>. QED
    BY <1>1, <1>2, <1>3, <1>4, <1>5, <1>6, <1>7, <1>8, <1>9, <1>10, <1>11, <1>12, <1>13, <1>14
       DEF Stream

\* The item.
LEMMA ItemTypes ==
    ASSUME TypeOK, Item
    PROVE  TypeOK'
  <1>. USE ChannelAssumption, EmptySeq DEF TypeOK, ChannelType, GatewayType,
         Ws!StreamTypeOK, Ws!Items, channelVars, taskVars, gatewayVars, gateway, streamVars,
         sessionVars, udpVars, Goto, Return, Panic, Fault, ClientItems, Notify, AtItem,
         Among, Is, Again, clientVars, States, Futures
  <1>1. CASE ItemPending
    BY <1>1 DEF ItemPending
  <1>2. CASE ItemErr
    BY <1>2 DEF ItemErr
  <1>3. CASE ItemEnd
    BY <1>3 DEF ItemEnd
  <1>4. CASE Reconnected
    <2>1. /\ wake' \in BOOLEAN /\ speaking' \in BOOLEAN /\ given_initial_users' \in BOOLEAN
          /\ quiet' \in BOOLEAN
      BY <1>4 DEF Reconnected, Ws!Put
    <2>2. slot' \in ClientTexts /\ slot' # "Heartbeat" /\ state' \in States
      BY <1>4 DEF Reconnected, Ws!Put, ClientTexts
    <2>. QED
      BY <1>4, <2>1, <2>2 DEF Reconnected, Ws!Put
  <1>5. CASE Disconnected
    <2>1. /\ wake' \in BOOLEAN /\ speaking' \in BOOLEAN /\ given_initial_users' \in BOOLEAN
          /\ quiet' \in BOOLEAN
      BY <1>5 DEF Disconnected
    <2>2. session' \in Nat /\ nonce' \in Nat /\ encryptor' \in Nat
      BY <1>5 DEF Disconnected, None
    <2>3. state' \in States /\ ret' \in ClientItems \cup {"Polling", "Pending"}
      BY <1>5 DEF Disconnected
    <2>4. pc' \in {"idle", "udp"}
      BY <1>5 DEF Disconnected
    <2>5. /\ UNCHANGED <<link, quiet, slot, waiting, item>>
          /\ UNCHANGED <<opus, commands, sent_packets, sent_commands>>
          /\ UNCHANGED <<conn, inbox, desk, stage, known, resumes, faults, udp, udp_future>>
          /\ UNCHANGED <<outcoming, wire, flushed, answered, interest, closes>>
      BY <1>5 DEF Disconnected
    <2>. QED
      BY <2>1, <2>2, <2>3, <2>4, <2>5
  <1>6. CASE Hello
    <2>1. /\ wake' \in BOOLEAN /\ speaking' \in BOOLEAN /\ given_initial_users' \in BOOLEAN
          /\ quiet' \in BOOLEAN
      BY <1>6 DEF Hello, Ws!Put
    <2>2. slot' \in ClientTexts /\ slot' # "Heartbeat" /\ state' \in States
      BY <1>6 DEF Hello, Ws!Put, ClientTexts, Identifies
    <2>. QED
      BY <1>6, <2>1, <2>2 DEF Hello, Ws!Put
  <1>7. CASE Ready
    <2>1. /\ wake' \in BOOLEAN /\ speaking' \in BOOLEAN /\ given_initial_users' \in BOOLEAN
          /\ quiet' \in BOOLEAN
      BY <1>7 DEF Ready
    <2>2. session' \in Nat /\ nonce' \in Nat /\ state' \in States /\ udp_future' \in Futures
      BY <1>7 DEF Ready, Handshaking
    <2>. QED
      BY <1>7, <2>1, <2>2 DEF Ready
  <1>8. CASE Resumed
    BY <1>8 DEF Resumed
  <1>9. CASE SessionDescription
    BY <1>9 DEF SessionDescription, NewEncryptor
  <1>10. CASE ItemPanics
    BY <1>10 DEF ItemPanics
  <1>11. CASE ClientConnect
    BY <1>11 DEF ClientConnect
  <1>12. CASE ClientDisconnect
    BY <1>12 DEF ClientDisconnect
  <1>13. CASE Nothing
    BY <1>13 DEF Nothing
  <1>14. CASE ModeErr
    BY <1>14 DEF ModeErr
  <1>. QED
    BY <1>1, <1>2, <1>3, <1>4, <1>5, <1>6, <1>7, <1>8, <1>9, <1>10, <1>11, <1>12, <1>13, <1>14
       DEF Item

\* What happens outside of a poll.
LEMMA OutsideTypes ==
    ASSUME TypeOK,
           Senders \/ (\E code \in UserCodes : close(code)) \/ HeartbeatTick \/ UdpTick
              \/ FutureDone \/ FutureFails \/ FutureLost
    PROVE  TypeOK'
  <1>. USE ChannelAssumption, ClientAssumption
       DEF TypeOK, ChannelType, GatewayType, Ws!StreamTypeOK, channelVars, taskVars,
           gatewayVars, gateway, streamVars, sessionVars, udpVars, Outside, Notify, Fault
  <1>1. CASE Senders
    <2>1. wake' \in BOOLEAN /\ interest' \subseteq interest
      BY <1>1 DEF Senders, send, speaking_to, wait_until_flushed, Command
    <2>2. /\ sent_packets' \in 0 .. MaxPackets /\ sent_commands' \in 0 .. MaxCommands
      BY <1>1 DEF Senders, send, speaking_to, wait_until_flushed, Command
    <2>3. opus' \in Seq(1 .. MaxPackets)
      <3>1. CASE send
        <4>1. sent_packets' \in 1 .. MaxPackets /\ opus' = Append(opus, sent_packets')
          BY <3>1 DEF send, Queued
        <4>. QED
          BY <4>1, AppendProperties
      <3>2. CASE ~send
        BY <1>1, <3>2 DEF Senders, speaking_to, wait_until_flushed, Command
      <3>. QED
        BY <3>1, <3>2
    <2>4. commands' \in Seq(CommandMessage)
      <3>1. ASSUME NEW message \in CommandMessage, Command(message)
            PROVE  commands' \in Seq(CommandMessage)
        BY <3>1, AppendProperties DEF Command
      <3>2. /\ \A value \in BOOLEAN : Speaking(value) \in CommandMessage
            /\ WaitUntilFlushed(sent_packets) \in CommandMessage
        BY DEF Speaking, WaitUntilFlushed, CommandMessage
      <3>3. CASE send
        BY <3>3 DEF send
      <3>4. CASE ~send
        BY <1>1, <3>1, <3>2, <3>4 DEF Senders, speaking_to, wait_until_flushed
      <3>. QED
        BY <3>3, <3>4
    <2>. QED
      BY <1>1, <2>1, <2>2, <2>3, <2>4 DEF Senders
  <1>2. ASSUME NEW code \in UserCodes, close(code)
        PROVE  TypeOK'
    <2>1. /\ link' \in {"Disconnected", "Closed"} /\ slot' = "Close" /\ quiet' \in BOOLEAN
      BY <1>2 DEF close, Ws!Close, from_close_code
    <2>2. closes' \in 0 .. MaxCloses /\ wake' = TRUE
      BY <1>2 DEF close
    <2>. QED
      BY <1>2, <2>1, <2>2 DEF close, Ws!Close
  <1>3. CASE UdpTick
    BY <1>3 DEF UdpTick
  <1>4. CASE FutureDone
    BY <1>4 DEF FutureDone, Future, Futures
  <1>5. CASE FutureFails
    BY <1>5 DEF FutureFails, Future, Futures
  <1>6. CASE FutureLost
    BY <1>6 DEF FutureLost, Futures
  <1>7. CASE HeartbeatTick
    BY <1>7 DEF HeartbeatTick
  <1>. QED
    BY <1>1, <1>2, <1>3, <1>4, <1>5, <1>6, <1>7

\* The gateway says something.
LEMMA AnswerType ==
    ASSUME TypeOK, NEW message \in Messages, NEW new_stage \in Stages,
           Answers(message, new_stage)
    PROVE  inbox' \in Seq(Messages) /\ stage' \in Stages
  BY AppendProperties DEF TypeOK, GatewayType, Answers

LEMMA SaidTypes ==
    /\ \A op \in ClientEvents : Said(op) \in Messages
    /\ \A code \in Nat : Closing(code) \in Messages
  BY DEF Said, Closing, Messages

\* A text may be answered, and may begin a session.
LEMMA ReceivesTypes ==
    ASSUME TypeOK, NEW text, Receives(text)
    PROVE  /\ inbox' \in Seq(Messages) /\ stage' \in Stages
           /\ known' \in Nat /\ resumes' \in BOOLEAN
  <1>1. known' \in Nat /\ resumes' \in BOOLEAN
    <2>1. known \in Nat /\ resumes \in BOOLEAN
      BY DEF TypeOK, GatewayType
    <2>2. known' = known \/ known' = known + 1
      BY DEF Receives, Identified, ResumeGranted
    <2>3. (UNCHANGED resumes) \/ resumes' = TRUE
      BY DEF Receives, Identified, ResumeGranted
    <2>4. resumes' \in BOOLEAN
      BY <2>1, <2>3, Zenon
    <2>. QED
      BY <2>1, <2>2, <2>4
  <1>2. ASSUME UNCHANGED <<inbox, stage>>
        PROVE  inbox' \in Seq(Messages) /\ stage' \in Stages
    BY <1>2 DEF TypeOK, GatewayType
  <1>3. ASSUME NEW op \in ClientEvents, NEW new_stage \in Stages, Answers(Said(op), new_stage)
        PROVE  inbox' \in Seq(Messages) /\ stage' \in Stages
    BY <1>3, SaidTypes, AnswerType
  <1>4. ASSUME NEW code \in Nat, Rejects(code)
        PROVE  inbox' \in Seq(Messages) /\ stage' \in Stages
    <2>1. Closing(code) \in Messages /\ "done" \in Stages
      BY SaidTypes DEF Stages
    <2>. QED
      BY <1>4, <2>1, AnswerType DEF Rejects
  <1>5. /\ {"Hello", "Ready", "SessionDescription", "Resumed"} \subseteq ClientEvents
        /\ {"ready", "active", "resumed"} \subseteq Stages
    BY DEF ClientEvents, Stages
  <1>6. \/ UNCHANGED <<inbox, stage>>
        \/ \E op \in ClientEvents, new_stage \in Stages : Answers(Said(op), new_stage)
        \/ \E code \in Nat : Rejects(code)
    BY <1>5 DEF Receives, Identified, ResumeGranted, ResumeRefused, Twice, TooEarly,
                ProtocolSelected, Ignored, NoStatus
  <1>. QED
    BY <1>1, <1>2, <1>3, <1>4, <1>6

\* The gateway and the network.
LEMMA NetworkTypes ==
    ASSUME TypeOK, Network
    PROVE  TypeOK'
  <1>1. wake' \in BOOLEAN /\ interest' \subseteq interest
    BY DEF Network, World, Greet, Handle, Tell, Garbles, GatewayCloses, ConnectionLost,
           Blocks, Unblocks, DialOk, DialErr, Notify, taskVars, TypeOK
  <1>2. faults' \in Nat
    BY DEF Network, World, Greet, Handle, Tell, Garbles, GatewayCloses, ConnectionLost,
           Blocks, Unblocks, DialOk, DialErr, Fault, TypeOK, GatewayType
  <1>3. conn' \in Conns
    BY DEF Network, World, Greet, Handle, Tell, Garbles, GatewayCloses, ConnectionLost,
           Blocks, Unblocks, DialOk, DialErr, TypeOK, GatewayType, Conns
  <1>4. desk' \in Seq(ClientTexts \cup {"Close"})
    <2>. DEFINE T == ClientTexts \cup {"Close"}
    <2>1. desk \in Seq(T)
      BY DEF TypeOK, GatewayType
    <2>2. desk' = desk \/ desk' = <<>> \/ (desk # <<>> /\ desk' = Tail(desk))
      BY DEF Network, World, Greet, Handle, Tell, Garbles, GatewayCloses, ConnectionLost,
             Blocks, Unblocks, DialOk, DialErr
    <2>. HIDE DEF T
    <2>3. desk' \in Seq(T)
      BY <2>1, <2>2, EmptySeq, HeadTailProperties
    <2>. QED
      BY <2>3 DEF T
  <1>5. /\ inbox' \in Seq(Messages) /\ stage' \in Stages
        /\ known' \in Nat /\ resumes' \in BOOLEAN
    <2>1. CASE Greet
      <3>1. "Hello" \in ClientEvents /\ "new" \in Stages
        BY DEF ClientEvents, Stages
      <3>. QED
        BY <2>1, <3>1, SaidTypes, AnswerType DEF Greet, TypeOK, GatewayType
    <2>2. CASE Handle
      BY <2>2, ReceivesTypes DEF Handle
    <2>3. CASE Tell
      <3>1. PICK op \in Extras : Answers(Said(op), stage)
        BY <2>3 DEF Tell
      <3>2. op \in ClientEvents
        BY GatewayAssumption DEF ClientEvents
      <3>3. stage \in Stages
        BY DEF TypeOK, GatewayType
      <3>. QED
        BY <2>3, <3>1, <3>2, <3>3, SaidTypes, AnswerType DEF Tell, TypeOK, GatewayType
    <2>4. CASE GatewayCloses
      <3>1. PICK code \in GatewayCodes : Answers(Closing(code), "done")
        BY <2>4 DEF GatewayCloses, Rejects
      <3>2. code \in Nat /\ "done" \in Stages
        BY GatewayAssumption DEF Stages
      <3>. QED
        BY <2>4, <3>1, <3>2, SaidTypes, AnswerType DEF GatewayCloses, TypeOK, GatewayType
    <2>5. CASE ConnectionLost \/ Blocks \/ Unblocks \/ DialOk \/ DialErr
      BY <2>5, EmptySeq DEF ConnectionLost, Blocks, Unblocks, DialOk, DialErr, TypeOK,
             GatewayType
    <2>6. CASE Garbles
      <3>1. Said("Malformed") \in Messages
        BY DEF Said, Messages
      <3>2. stage \in Stages
        BY DEF TypeOK, GatewayType
      <3>. QED
        BY <2>6, <3>1, <3>2, AnswerType DEF Garbles, TypeOK, GatewayType
    <2>. QED
      BY <2>1, <2>2, <2>3, <2>4, <2>5, <2>6 DEF Network, World
  <1>. QED
    BY <1>1, <1>2, <1>3, <1>4, <1>5
       DEF Network, Outside, TypeOK, ChannelType, GatewayType, Ws!StreamTypeOK, channelVars,
           streamVars, sessionVars, udpVars

\* TypeOK is kept by every step.
LEMMA TypeStep ==
    ASSUME TypeOK, [Next]_vars
    PROVE  TypeOK'
  <1>1. CASE Poll
    <2>1. wake' \in BOOLEAN /\ pc' = "udp" /\ ret' = "Polling"
      BY <1>1 DEF Poll
    <2>. QED
      BY <1>1, <2>1 DEF Poll, TypeOK, ChannelType, GatewayType, Ws!StreamTypeOK, channelVars,
                       gatewayVars, streamVars, sessionVars, udpVars
  <1>2. CASE UNCHANGED vars
    BY <1>2 DEF vars, TypeOK, ChannelType, GatewayType, Ws!StreamTypeOK, channelVars, taskVars,
                gatewayVars, streamVars, sessionVars, udpVars
  <1>. QED
    BY <1>1, <1>2, UdpTypes, StateTypes, CommandsTypes, StreamTypes, ItemTypes, OutsideTypes,
       NetworkTypes DEF Next, poll_next

\* TypeOK holds before the first step.
LEMMA InitType == Init => TypeOK
  <1>. SUFFICES ASSUME Init PROVE TypeOK
    OBVIOUS
  <1>1. /\ opus \in Seq(1 .. MaxPackets) /\ commands \in Seq(CommandMessage)
        /\ inbox \in Seq(Messages) /\ desk \in Seq(ClientTexts \cup {"Close"})
        /\ outcoming \in Seq(Packets) /\ wire \in Seq(Packets)
    BY EmptySeq DEF Init, ChannelInit, GatewayInit
  <1>2. /\ wake \in BOOLEAN /\ speaking \in BOOLEAN /\ given_initial_users \in BOOLEAN
        /\ resumes \in BOOLEAN /\ quiet \in BOOLEAN
    BY DEF Init, GatewayInit, Ws!StreamInit
  <1>3. conn \in Conns /\ stage \in Stages /\ state \in States /\ udp_future \in Futures
    BY DEF Init, GatewayInit, Conns, Stages, States, Futures
  <1>. QED
    BY <1>1, <1>2, <1>3, ChannelAssumption, ClientAssumption
       DEF Init, ChannelInit, GatewayInit, Ws!StreamInit, TypeOK, ChannelType, GatewayType,
           Ws!StreamTypeOK, Ws!Items, None

\* The kinds of value each variable of VoiceClient holds.
THEOREM TypeCorrect == Spec => []TypeOK
  BY InitType, TypeStep, PTL DEF Spec

------------------------------------------------------------------------------
(* What the steps do to the messages under way.                            *)

\* What is at the tail of the inbox, or at one of its ends.
LEMMA ArrivedTail ==
    ASSUME TypeOK, inbox # <<>>, inbox' = Tail(inbox), NEW op, Arrived(op)'
    PROVE  Arrived(op)
  <1>1. inbox \in Seq(Messages)
    BY DEF TypeOK, GatewayType
  <1>2. /\ Len(inbox') = Len(inbox) - 1 /\ Len(inbox) \in Nat
        /\ DOMAIN inbox = 1 .. Len(inbox) /\ DOMAIN inbox' = 1 .. Len(inbox')
        /\ \A i \in 1 .. Len(inbox') : inbox'[i] = inbox[i + 1]
    BY <1>1, HeadTailProperties, LenProperties
  <1>3. PICK i \in 1 .. Len(inbox') : inbox'[i].op = op
    BY <1>2 DEF Arrived
  <1>4. i + 1 \in DOMAIN inbox /\ inbox[i + 1].op = op
    BY <1>2, <1>3
  <1>. QED
    BY <1>4 DEF Arrived

LEMMA ArrivedHead ==
    ASSUME TypeOK, inbox # <<>>
    PROVE  Arrived(Head(inbox).op)
  <1>1. inbox \in Seq(Messages)
    BY DEF TypeOK, GatewayType
  <1>2. 1 \in DOMAIN inbox /\ Head(inbox) = inbox[1]
    BY <1>1, EmptySeq, LenProperties
  <1>. QED
    BY <1>2 DEF Arrived

LEMMA ArrivedEnd ==
    ASSUME TypeOK, NEW message \in Messages, inbox' = Append(inbox, message),
           NEW op, Arrived(op)'
    PROVE  Arrived(op) \/ op = message.op
  <1>1. inbox \in Seq(Messages)
    BY DEF TypeOK, GatewayType
  <1>2. /\ Len(inbox') = Len(inbox) + 1 /\ Len(inbox) \in Nat
        /\ DOMAIN inbox = 1 .. Len(inbox) /\ DOMAIN inbox' = 1 .. Len(inbox')
        /\ \A i \in 1 .. Len(inbox) : inbox'[i] = inbox[i]
        /\ inbox'[Len(inbox) + 1] = message
    BY <1>1, AppendProperties, LenProperties
  <1>3. PICK i \in 1 .. Len(inbox') : inbox'[i].op = op
    BY <1>2 DEF Arrived
  <1>4. CASE i = Len(inbox) + 1
    BY <1>2, <1>3, <1>4
  <1>5. CASE i # Len(inbox) + 1
    <2>1. i \in DOMAIN inbox /\ inbox[i].op = op
      BY <1>2, <1>3, <1>5
    <2>. QED
      BY <2>1 DEF Arrived
  <1>. QED
    BY <1>4, <1>5

LEMMA NothingArrived ==
    ASSUME inbox' = <<>>
    PROVE  \A op : ~Arrived(op)'
  BY EmptySeq DEF Arrived

\* What is read is the first message, and it becomes the item unless one waits.
LEMMA ReadEffect ==
    ASSUME WsRead
    PROVE  /\ inbox # <<>> /\ inbox' = Tail(inbox)
           /\ item = "Polling" /\ UNCHANGED <<slot, desk, stage, known, resumes>>
           /\ item' \in {"Disconnected", "Error", waiting, Head(inbox).op}
           /\ waiting' \in {waiting, "None", Head(inbox).op}
           /\ waiting' = Head(inbox).op => item' = waiting \/ waiting' = waiting
  <1>1. inbox # <<>> /\ inbox' = Tail(inbox) /\ UNCHANGED <<desk, stage, known, resumes>>
    BY DEF WsRead, Incoming, Taken
  <1>2. CASE Head(inbox).op = "Close"
    <2>1. Ws!Drop(from_close_code(Head(inbox).code))
      BY <1>2 DEF WsRead
    <2>. QED
      BY <1>1, <2>1 DEF Ws!Drop, Ws!Polling
  <1>3. CASE Head(inbox).op = "Malformed"
    <2>1. Ws!Fail
      BY <1>3 DEF WsRead
    <2>. QED
      BY <1>1, <2>1 DEF Ws!Fail, Ws!Polling
  <1>4. CASE Head(inbox).op \notin {"Close", "Malformed"}
    <2>1. Ws!Read(Head(inbox).op)
      BY <1>4 DEF WsRead
    <2>. QED
      BY <1>1, <2>1 DEF Ws!Read, Ws!Polling
  <1>. QED
    BY <1>2, <1>3, <1>4

\* A poll of the WebSocket hands over what is pending, sends what is in the slot, and
\* begins a connection with nothing.
StreamOutcome ==
    /\ \A op \in ClientEvents : Pending(op)' => Pending(op)
    /\ slot' \in {slot, "None", "Heartbeat", "Close"}
    /\ \/ /\ stage' = "silent" /\ desk' = <<>>
          /\ \A op \in ClientEvents : ~Pending(op)'
       \/ /\ stage' = stage
          /\ \/ desk' = desk
             \/ /\ slot \notin {"None", "Heartbeat"} /\ slot' = "None"
                /\ desk' = Append(desk, slot)
             \/ desk' = Append(desk, "Close")

LEMMA StreamEffect ==
    ASSUME TypeOK, PollInv, Stream
    PROVE  StreamOutcome
  <1>. USE DEF AtStream, WsStep, WsGoes, WsPends, WsSleeps, gatewayVars
  <1>1. /\ item \in ClientEvents \cup {"Reconnected", "Disconnected", "Error", "Pending", "End", "Polling"}
        /\ waiting \in ClientEvents \cup {"None", "Reconnected"}
    BY DEF TypeOK, Ws!StreamTypeOK, Ws!Items
  <1>2. /\ "None" \notin ClientEvents /\ "Reconnected" \notin ClientEvents
        /\ "Polling" \notin ClientEvents /\ "Pending" \notin ClientEvents
        /\ "Error" \notin ClientEvents /\ "Disconnected" \notin ClientEvents
        /\ "End" \notin ClientEvents /\ "Close" \notin ClientEvents
    BY DEF ClientEvents, AllExtras
  <1>3. CASE WsStart
    <2>1. \A op \in ClientEvents : Pending(op)' => Pending(op)
      BY <1>1, <1>2, <1>3 DEF WsStart, Ws!Start, Pending, Arrived
    <2>. QED
      BY <1>3, <2>1 DEF WsStart, Ws!Start, StreamOutcome
  <1>4. CASE WsDial \/ WsWait \/ WsFinish
    <2>1. \A op \in ClientEvents : Pending(op)' => Pending(op)
      BY <1>2, <1>4 DEF WsDial, WsWait, WsFinish, Ws!Wait, Ws!Finish, Dialled, Pending, Arrived
    <2>. QED
      BY <1>4, <2>1 DEF WsDial, WsWait, WsFinish, Ws!Wait, Ws!Finish, Dialled, StreamOutcome
  <1>5. CASE WsOpen \/ WsRefused \/ WsEnds \/ (WsTransmitFails /\ link # "Closed")
    <2>1. inbox' = <<>> /\ desk' = <<>> /\ stage' = "silent" /\ slot' \in {slot, "None"}
      BY <1>5 DEF WsOpen, WsRefused, WsEnds, WsTransmitFails, Connected, Forgotten, Fresh,
                  Ws!Open, Ws!Fail, Ws!Lose, Ws!TransmitFails
    <2>2. /\ item' \in {"Polling", "Error", "Disconnected"}
          /\ waiting' \in {waiting, "Reconnected"} /\ item = "Polling"
      BY <1>5 DEF WsOpen, WsRefused, WsEnds, WsTransmitFails, Ws!Open, Ws!Fail, Ws!Lose,
                  Ws!TransmitFails, Ws!Polling
    <2>3. \A op \in ClientEvents : ~Pending(op)'
      BY <1>2, <2>1, <2>2, NothingArrived DEF Pending, PollInv
    <2>. QED
      BY <2>1, <2>3 DEF StreamOutcome
  <1>6. CASE WsTransmitFails /\ link = "Closed"
    <2>1. \A op \in ClientEvents : Pending(op)' => Pending(op)
      BY <1>2, <1>6 DEF WsTransmitFails, Ws!TransmitFails, Kept, Pending, Arrived
    <2>. QED
      BY <1>6, <2>1 DEF WsTransmitFails, Ws!TransmitFails, Kept, StreamOutcome
  <1>7. CASE WsTransmit \/ WsTransmitPends
    <2>. USE DEF WsTransmit, WsTransmitPends
    <2>1. \A op \in ClientEvents : Pending(op)' => Pending(op)
      BY <1>2, <1>7 DEF Sent, Ws!Transmit, Pending, Arrived
    <2>. QED
      BY <1>7, <2>1 DEF Sent, Ws!Transmit, StreamOutcome
  <1>8. CASE WsRead
    <2>1. inbox # <<>> /\ inbox' = Tail(inbox) /\ UNCHANGED <<desk, stage, slot>>
      BY <1>8, ReadEffect
    <2>2. ASSUME NEW op \in ClientEvents, Pending(op)'
          PROVE  Pending(op)
      <3>1. CASE Arrived(op)'
        BY <2>1, <3>1, ArrivedTail DEF Pending
      <3>2. CASE op = Head(inbox).op
        BY <2>1, <3>2, ArrivedHead DEF Pending
      <3>3. CASE waiting = op
        BY <3>3 DEF Pending
      <3>4. waiting' \in {waiting, "None", Head(inbox).op}
            /\ item' \in {"Disconnected", "Error", waiting, Head(inbox).op}
        BY <1>8, ReadEffect
      <3>. QED
        BY <1>2, <2>2, <3>1, <3>2, <3>3, <3>4 DEF Pending
    <2>. QED
      BY <2>1, <2>2 DEF StreamOutcome
  <1>9. CASE WsBreaks
    <2>1. \A op \in ClientEvents : Pending(op)' => Pending(op)
      BY <1>2, <1>9 DEF WsBreaks, Shut, Ws!Drop, Pending, Arrived
    <2>. QED
      BY <1>9, <2>1 DEF WsBreaks, Shut, Ws!Drop, StreamOutcome
  <1>10. CASE WsCloses
    <2>1. /\ inbox' = inbox \/ inbox' = <<>>
          /\ UNCHANGED <<waiting, slot, stage>> /\ item' = "Pending"
          /\ desk' = desk \/ desk' = Append(desk, "Close")
      BY <1>10 DEF WsCloses, ClosesConnection, Ws!Wait
    <2>2. \A op \in ClientEvents : Arrived(op)' => Arrived(op)
      BY <2>1, NothingArrived DEF Arrived
    <2>3. \A op \in ClientEvents : Pending(op)' => Pending(op)
      BY <1>2, <2>1, <2>2 DEF Pending
    <2>. QED
      BY <2>1, <2>3 DEF StreamOutcome
  <1>11. CASE WsBeats \/ WsGivesUp
    <2>. USE DEF WsBeats, WsGivesUp
    <2>1. \A op \in ClientEvents : Pending(op)' => Pending(op)
      BY <1>11 DEF gateway, Ws!Beat, Ws!GiveUp, Pending, Arrived
    <2>. QED
      BY <1>11, <2>1 DEF gateway, Ws!Beat, Ws!GiveUp, StreamOutcome
  <1>. QED
    BY <1>3, <1>4, <1>5, <1>6, <1>7, <1>8, <1>9, <1>10, <1>11 DEF Stream

\* What the gateway and the network do: a Hello, a session, a resumed one, a
\* SessionDescription, an event of an active client, or the end of the connection.
Pends(ops) == \A op \in ClientEvents \ ops : Pending(op)' => Pending(op)
Next1(text) == desk # <<>> /\ Head(desk) = text /\ desk' = Tail(desk)

NetworkOutcome ==
    \/ /\ stage = "silent" /\ stage' = "new" /\ UNCHANGED <<desk, known, resumes>>
       /\ Pends({"Hello"})
    \/ /\ stage = "new" /\ stage' = "ready" /\ known' = known + 1 /\ UNCHANGED resumes
       /\ Next1("Identify")
       /\ Pends({"Ready"})
    \/ /\ resumes' = TRUE /\ stage = "new" /\ stage' = "resumed" /\ UNCHANGED known
       /\ Pends({"Resumed"})
    \/ /\ stage = "ready" /\ stage' = "active" /\ UNCHANGED <<known, resumes>>
       /\ Next1("SelectProtocol")
       /\ Pends({"SessionDescription"})
    \/ /\ stage \in {"active", "resumed"} /\ UNCHANGED <<stage, desk, known, resumes>>
       /\ Pends(AllExtras)
    \/ /\ stage' \in {stage, "done"} /\ UNCHANGED <<known, resumes>>
       /\ desk' = desk \/ desk' = <<>> \/ (desk # <<>> /\ desk' = Tail(desk))
       /\ Pends({})

LEMMA AnswerPends ==
    ASSUME TypeOK, NEW message \in Messages, NEW new_stage, Answers(message, new_stage),
           UNCHANGED <<waiting, item, pc>>
    PROVE  Pends({message.op})
  <1>1. inbox' = Append(inbox, message)
    BY DEF Answers
  <1>. QED
    BY <1>1, ArrivedEnd DEF Pends, Pending

LEMMA InboxPends ==
    ASSUME UNCHANGED <<waiting, item, pc>>, inbox' = inbox \/ inbox' = <<>>
    PROVE  Pends({})
  <1>1. CASE inbox' = inbox
    BY <1>1 DEF Pends, Pending, Arrived
  <1>2. CASE inbox' = <<>>
    BY <1>2, NothingArrived DEF Pends, Pending
  <1>. QED
    BY <1>1, <1>2

LEMMA NetworkEffect ==
    ASSUME TypeOK, Network
    PROVE  NetworkOutcome
  <1>1. UNCHANGED <<waiting, item, pc>>
    BY DEF Network, Outside, streamVars
  <1>2. \A op \in ClientEvents : Said(op) \in Messages /\ Said(op).op = op
    BY SaidTypes DEF Said
  <1>3. {"Hello", "Ready", "SessionDescription", "Resumed"} \cup AllExtras \subseteq ClientEvents
    BY DEF ClientEvents
  <1>4. ASSUME NEW code \in Nat, Rejects(code)
        PROVE  stage' = "done" /\ Pends({})
    <2>1. Closing(code) \in Messages /\ Closing(code).op = "Close"
      BY SaidTypes DEF Closing
    <2>2. Pends({"Close"})
      BY <1>1, <1>4, <2>1, AnswerPends DEF Rejects
    <2>3. "Close" \notin ClientEvents
      BY DEF ClientEvents, AllExtras
    <2>. QED
      BY <1>4, <2>2, <2>3 DEF Rejects, Answers, Pends
  <1>5. CASE Greet
    <2>1. Pends({"Hello"})
      BY <1>1, <1>2, <1>3, <1>5, AnswerPends DEF Greet
    <2>. QED
      BY <1>5, <2>1 DEF Greet, Answers, NetworkOutcome
  <1>6. CASE Handle
    <2>. DEFINE text == Head(desk)
    <2>1. Receives(text) /\ desk # <<>> /\ desk' = Tail(desk)
      BY <1>6 DEF Handle
    <2>2. CASE text = "Identify" /\ Identified
      <3>1. Pends({"Ready"})
        BY <1>1, <1>2, <1>3, <2>2, AnswerPends DEF Identified
      <3>. QED
        BY <2>1, <2>2, <3>1 DEF Identified, Answers, NetworkOutcome, Next1
    <2>3. CASE text = "Resume" /\ ResumeGranted
      <3>1. Pends({"Resumed"})
        BY <1>1, <1>2, <1>3, <2>3, AnswerPends DEF ResumeGranted
      <3>. QED
        BY <2>1, <2>3, <3>1 DEF ResumeGranted, Answers, NetworkOutcome, Next1
    <2>4. CASE text = "SelectProtocol" /\ ProtocolSelected /\ UNCHANGED <<known, resumes>>
      <3>1. Pends({"SessionDescription"})
        BY <1>1, <1>2, <1>3, <2>4, AnswerPends DEF ProtocolSelected
      <3>. QED
        BY <2>1, <2>4, <3>1 DEF ProtocolSelected, Answers, NetworkOutcome, Next1
    <2>5. CASE (\E code \in Nat : Rejects(code)) /\ UNCHANGED <<known, resumes>>
      BY <1>4, <2>1, <2>5 DEF NetworkOutcome
    <2>6. CASE UNCHANGED <<inbox, stage, known, resumes>>
      BY <1>1, <2>1, <2>6, InboxPends DEF NetworkOutcome
    <2>. QED
      BY <2>1, <2>2, <2>3, <2>4, <2>5, <2>6
         DEF Receives, ResumeRefused, Twice, TooEarly, Ignored, NoStatus
  <1>7. CASE Tell
    <2>1. PICK op \in Extras : Answers(Said(op), stage)
      BY <1>7 DEF Tell
    <2>2. op \in AllExtras
      BY GatewayAssumption
    <2>3. Pends({op})
      BY <1>1, <1>2, <1>3, <2>1, <2>2, AnswerPends
    <2>. QED
      BY <1>7, <2>1, <2>2, <2>3 DEF Tell, Answers, Pends, NetworkOutcome
  <1>8. CASE GatewayCloses
    <2>1. PICK code \in Nat : Rejects(code)
      BY <1>8, GatewayAssumption DEF GatewayCloses
    <2>. QED
      BY <1>4, <1>8, <2>1 DEF GatewayCloses, NetworkOutcome
  <1>9. CASE ConnectionLost
    BY <1>1, <1>9, InboxPends DEF ConnectionLost, NetworkOutcome
  <1>10. CASE Blocks \/ Unblocks \/ DialOk \/ DialErr
    BY <1>1, <1>10, InboxPends DEF Blocks, Unblocks, DialOk, DialErr, NetworkOutcome
  <1>11. CASE Garbles
    <2>1. Said("Malformed") \in Messages /\ Said("Malformed").op = "Malformed"
      BY DEF Said, Messages
    <2>2. Pends({"Malformed"})
      BY <1>1, <1>11, <2>1, AnswerPends DEF Garbles
    <2>3. "Malformed" \notin ClientEvents
      BY DEF ClientEvents, AllExtras
    <2>. QED
      BY <1>11, <2>2, <2>3 DEF Garbles, Answers, Pends, NetworkOutcome
  <1>. QED
    BY <1>5, <1>6, <1>7, <1>8, <1>9, <1>10, <1>11 DEF Network, World

\* The elements of a sequence with one more at its end, and with one less at its front.
LEMMA AppendElements ==
    ASSUME NEW S, NEW s \in Seq(S), NEW x \in S
    PROVE  /\ \A i \in DOMAIN Append(s, x) :
                 \/ i \in DOMAIN s /\ Append(s, x)[i] = s[i]
                 \/ i \notin DOMAIN s /\ Append(s, x)[i] = x
           /\ \A i, j \in DOMAIN Append(s, x) : i < j => i \in DOMAIN s
           /\ DOMAIN s \subseteq Nat /\ DOMAIN Append(s, x) \subseteq Nat
  <1>. DEFINE a == Append(s, x)
  <1>1. /\ a \in Seq(S) /\ Len(a) = Len(s) + 1 /\ Len(s) \in Nat
        /\ DOMAIN s = 1 .. Len(s) /\ DOMAIN a = 1 .. Len(a)
        /\ \A i \in 1 .. Len(s) : a[i] = s[i]
        /\ a[Len(s) + 1] = x
    BY AppendProperties, LenProperties
  <1>. HIDE DEF a
  <1>2. /\ \A i \in DOMAIN a : (i \in DOMAIN s /\ a[i] = s[i]) \/ (i \notin DOMAIN s /\ a[i] = x)
        /\ \A i, j \in DOMAIN a : i < j => i \in DOMAIN s
        /\ DOMAIN s \subseteq Nat /\ DOMAIN a \subseteq Nat
    BY <1>1
  <1>. QED
    BY <1>2 DEF a

LEMMA TailElements ==
    ASSUME NEW S, NEW s \in Seq(S), s # <<>>
    PROVE  /\ \A i \in DOMAIN Tail(s) : i + 1 \in DOMAIN s /\ Tail(s)[i] = s[i + 1]
           /\ 1 \in DOMAIN s /\ Head(s) = s[1]
           /\ \A i \in DOMAIN Tail(s) : 1 < i + 1
           /\ DOMAIN s \subseteq Nat /\ DOMAIN Tail(s) \subseteq Nat
  <1>. DEFINE a == Tail(s)
  <1>1. /\ Len(a) = Len(s) - 1 /\ Len(s) \in Nat /\ Len(s) # 0
        /\ DOMAIN s = 1 .. Len(s) /\ DOMAIN a = 1 .. Len(a)
        /\ \A i \in 1 .. Len(a) : a[i] = s[i + 1]
    BY HeadTailProperties, LenProperties, EmptySeq
  <1>2. Head(s) = s[1]
    OBVIOUS
  <1>. HIDE DEF a
  <1>3. /\ \A i \in DOMAIN a : i + 1 \in DOMAIN s /\ a[i] = s[i + 1]
        /\ 1 \in DOMAIN s
        /\ \A i \in DOMAIN a : 1 < i + 1
        /\ DOMAIN s \subseteq Nat /\ DOMAIN a \subseteq Nat
    BY <1>1
  <1>. QED
    BY <1>2, <1>3 DEF a

\* The other steps leave what is under way as it is.
Quiet ==
    \/ Poll \/ Udp \/ State \/ Commands \/ Item
    \/ Senders \/ (\E code \in UserCodes : close(code))
    \/ HeartbeatTick \/ UdpTick \/ FutureDone \/ FutureFails \/ FutureLost

LEMMA Steps == Next => Quiet \/ Stream \/ Network
  BY DEF Next, poll_next, Quiet

QuietOutcome ==
    /\ UNCHANGED <<inbox, desk, stage, known, resumes, waiting, item>>
    /\ pc' = pc \/ pc' # "stream"
    /\ \A op : Pending(op)' => Pending(op)

LEMMA QuietEffect ==
    ASSUME Quiet
    PROVE  QuietOutcome
  <1>. USE DEF gatewayVars, gateway, streamVars, Goto, Return, Panic
  <1>1. UNCHANGED <<inbox, desk, stage, known, resumes, waiting, item>>
        /\ (pc' = pc \/ pc' # "stream")
    <2>1. CASE Poll
      BY <2>1 DEF Poll
    <2>2. CASE Udp
      BY <2>2 DEF Udp, UdpAbsent, UdpSends, UdpPending, UdpErr, UdpClosed, AtUdp
    <2>3. CASE State
      BY <2>3 DEF State, AtState, AtStateOrFault, AtFuture, PassState, PacketPending,
                  PacketDiscarded, PacketDispatched, EncryptErr, SendPacketPanics,
                  FatalCloses, FatalEnds, FuturePending, FutureResumes, FutureSelects,
                  FutureErr, FuturePanics
    <2>4. CASE Commands
      BY <2>4 DEF Commands, AtCommand, CommandPending, CommandSpeaking, CommandFlush, Ws!Put
    <2>5. CASE Item
      BY <2>5 DEF Item, AtItem, Among, Is, Again, ItemPending, ItemErr, ItemEnd, Reconnected,
                  Disconnected, Hello, Ready, Resumed, SessionDescription, ItemPanics,
                  ClientConnect, ClientDisconnect, Nothing, ModeErr, Ws!Put
    <2>6. CASE Senders \/ HeartbeatTick \/ UdpTick \/ FutureDone \/ FutureFails \/ FutureLost
      BY <2>6 DEF Senders, Outside, HeartbeatTick, UdpTick, FutureDone, FutureFails,
                  FutureLost, Future
    <2>7. CASE \E code \in UserCodes : close(code)
      BY <2>7 DEF close, Outside, Ws!Close
    <2>. QED
      BY <2>1, <2>2, <2>3, <2>4, <2>5, <2>6, <2>7 DEF Quiet
  <1>2. \A op : Pending(op)' => Pending(op)
    BY <1>1 DEF Pending, Arrived
  <1>. QED
    BY <1>1, <1>2 DEF QuietOutcome

------------------------------------------------------------------------------
(* The handshake.                                                          *)

LEMMA PollStep ==
    ASSUME TypeOK, PollInv, Next
    PROVE  PollInv'
  <1>. USE DEF PollInv, Fatal, channelVars, streamVars, gatewayVars, gateway, sessionVars,
               udpVars, Goto, Return, Panic
  <1>1. CASE Poll
    BY <1>1 DEF Poll
  <1>2. CASE Udp
    BY <1>2 DEF Udp, UdpAbsent, UdpSends, UdpPending, UdpErr, UdpClosed, AtUdp
  <1>3. CASE State
    BY <1>3 DEF State, AtState, AtStateOrFault, AtFuture, ours, PassState, PacketPending,
                PacketDiscarded, PacketDispatched, EncryptErr, SendPacketPanics,
                FatalCloses, FatalEnds, FuturePending, FutureResumes, FutureSelects,
                FutureErr, FuturePanics, NewUdp
  <1>4. CASE Commands
    BY <1>4 DEF Commands, AtCommand, CommandPending, CommandSpeaking, CommandFlush, Ws!Put
  <1>5. CASE Item
    BY <1>5 DEF Item, AtItem, Among, Is, Again, clientVars, ItemPending, ItemErr, ItemEnd,
                Reconnected, Disconnected, Hello, Ready, Resumed, SessionDescription,
                ItemPanics, ClientConnect, ClientDisconnect, Nothing, ModeErr, Ws!Put,
                Handshaking
  <1>6. CASE Senders \/ HeartbeatTick \/ UdpTick \/ FutureDone \/ FutureFails \/ FutureLost \/ Network
    BY <1>6 DEF Senders, Outside, HeartbeatTick, UdpTick, FutureDone, FutureFails,
                FutureLost, Future, Network
  <1>7. CASE \E code \in UserCodes : close(code)
    BY <1>7 DEF close, Outside, Ws!Close
  <1>8. CASE Stream
    <2>. USE DEF AtStream, WsStep, WsGoes, WsPends, WsSleeps
    <2>1. UNCHANGED <<state, udp>> /\ pc \in {"ws", "stream"} /\ pc' = "stream"
      BY <1>8 DEF Stream, WsStart, WsDial, WsOpen, WsRefused, WsTransmit, WsTransmitPends,
                  WsTransmitFails, WsBeats, WsGivesUp, WsRead, WsBreaks, WsEnds, WsWait,
                  WsCloses, WsFinish
    <2>2. item' = "Polling" => waiting' \in {"None", "Reconnected"}
      <3>1. CASE WsRead
        <4>1. inbox # <<>> /\ inbox \in Seq(Messages)
          BY <3>1 DEF WsRead, Incoming, TypeOK, GatewayType
        <4>2. Head(inbox) \in Messages
          BY <4>1, HeadTailProperties
        <4>3. Head(inbox).op # "Polling" /\ "Polling" \notin ClientEvents
          BY <4>2 DEF Messages, ClientEvents, AllExtras
        <4>4. waiting \in ClientEvents \cup {"None", "Reconnected"}
          BY DEF TypeOK, Ws!StreamTypeOK
        <4>5. item' \in {"Disconnected", "Error", waiting, Head(inbox).op}
          BY <3>1, ReadEffect
        <4>. QED
          BY <4>3, <4>4, <4>5
      <3>2. CASE WsStart
        BY <3>2 DEF WsStart, Ws!Start
      <3>3. CASE ~WsRead /\ ~WsStart
        BY <1>8, <3>3
           DEF Stream, WsDial, WsOpen, WsRefused, WsTransmit, WsTransmitPends,
               WsTransmitFails, WsBeats, WsGivesUp, WsBreaks, WsEnds, WsWait, WsCloses,
               WsFinish, Ws!Beat, Ws!GiveUp, Ws!Wait, Ws!Open, Ws!Fail, Ws!Transmit,
               Ws!TransmitFails, Ws!Drop, Ws!Lose, Ws!Finish, Ws!Polling
      <3>. QED
        BY <3>1, <3>2, <3>3
    <2>. QED
      BY <2>1, <2>2
  <1>. QED
    BY <1>1, <1>2, <1>3, <1>4, <1>5, <1>6, <1>7, <1>8 DEF Next, poll_next

LEMMA EventsStep ==
    ASSUME TypeOK, PollInv, EventsInv, Next
    PROVE  EventsInv'
  <1>1. Late \cup {"Ready", "Resumed"} \subseteq ClientEvents /\ AllExtras \subseteq ClientEvents
        /\ "Hello" \notin Late /\ AllExtras \cap {"Ready", "Resumed"} = {}
    BY DEF Late, ClientEvents, AllExtras
  <1>2. CASE Quiet
    BY <1>2, QuietEffect DEF QuietOutcome, EventsInv
  <1>3. CASE Stream
    <2>1. UNCHANGED <<known, resumes>>
      BY <1>3 DEF Stream, AtStream, WsStep, WsGoes, WsPends, WsSleeps, gatewayVars, WsStart,
                  WsDial, WsOpen, WsRefused, WsTransmit, WsTransmitPends, WsTransmitFails,
                  WsBeats, WsGivesUp, WsRead, WsBreaks, WsEnds, WsWait, WsCloses, WsFinish,
                  Dialled, Connected, Fresh, Forgotten, Sent, Kept, Taken, Shut,
                  ClosesConnection, gateway
    <2>. QED
      BY <1>1, <1>3, <2>1, StreamEffect DEF StreamOutcome, EventsInv
  <1>4. CASE Network
    <2>1. known \in Nat
      BY DEF TypeOK, GatewayType
    <2>2. NetworkOutcome
      BY <1>4, NetworkEffect
    <2>3. Pending("Ready")' => known' # 0
      BY <1>1, <2>1, <2>2 DEF NetworkOutcome, Pends, EventsInv
    <2>4. stage' \in {"silent", "new"} => \A op \in Late \cup {"Ready"} : ~Pending(op)'
      BY <1>1, <2>2 DEF NetworkOutcome, Pends, EventsInv
    <2>5. ~resumes' => ~Pending("Resumed")' /\ stage' # "resumed"
      BY <1>1, <2>2 DEF NetworkOutcome, Pends, EventsInv
    <2>. QED
      BY <2>3, <2>4, <2>5 DEF EventsInv
  <1>. QED
    BY <1>2, <1>3, <1>4, Steps

\* A Resume that was granted is not taken back, and without one the session goes on or
\* the client is at its end.
LEMMA ResumesStep ==
    ASSUME Next, ~resumes'
    PROVE  ~resumes
  BY DEF Next, poll_next, Poll, Udp, UdpAbsent, UdpSends, UdpPending, UdpErr, UdpClosed,
         AtUdp, State, AtState, AtStateOrFault, AtFuture, PassState, PacketPending,
         PacketDiscarded, PacketDispatched, EncryptErr, SendPacketPanics, FatalCloses,
         FatalEnds, FuturePending, FutureResumes, FutureSelects, FutureErr, FuturePanics,
         Commands, AtCommand, CommandPending, CommandSpeaking, CommandFlush, Stream,
         AtStream, WsStep, WsGoes, WsPends, WsSleeps, WsStart, WsDial, WsOpen, WsRefused,
         WsTransmit, WsTransmitPends, WsTransmitFails, WsBeats, WsGivesUp, WsRead, WsBreaks,
         WsEnds, WsWait, WsCloses, WsFinish, Dialled, Connected, Fresh, Forgotten, Sent,
         Kept, Taken, Shut, ClosesConnection, Item, AtItem, Among, Is, ItemPending, ItemErr,
         ItemEnd, Reconnected, Disconnected, Hello, Ready, Resumed, SessionDescription,
         ItemPanics, ClientConnect, ClientDisconnect, Nothing, ModeErr, Senders, close,
         HeartbeatTick, UdpTick, FutureDone, FutureFails, FutureLost, Future, Network,
         World, Greet, Handle, Tell, Garbles, GatewayCloses, ConnectionLost, Blocks,
         Unblocks, DialOk, DialErr, Receives, Identified, ResumeGranted, gatewayVars,
         gateway

LEMMA SessionGoesOn ==
    ASSUME PollInv, Quiet, UpToDate \/ Fatal
    PROVE  UpToDate' \/ Fatal'
  <1>. USE DEF PollInv, UpToDate, Fatal, sessionVars
  <1>1. known' = known
    BY QuietEffect DEF QuietOutcome
  <1>2. CASE Poll
    BY <1>1, <1>2 DEF Poll
  <1>3. CASE Udp
    BY <1>1, <1>3 DEF Udp, UdpAbsent, UdpSends, UdpPending, UdpErr, UdpClosed, AtUdp
  <1>4. CASE State
    BY <1>1, <1>4
       DEF State, AtState, AtStateOrFault, AtFuture, ours, PassState, PacketPending,
           PacketDiscarded, PacketDispatched, EncryptErr, SendPacketPanics, FatalCloses,
           FatalEnds, FuturePending, FutureResumes, FutureSelects, FutureErr, FuturePanics
  <1>5. CASE Commands
    BY <1>1, <1>5 DEF Commands, AtCommand, CommandPending, CommandSpeaking, CommandFlush
  <1>6. CASE Item
    BY <1>1, <1>6
       DEF Item, AtItem, Among, Is, clientVars, ItemPending, ItemErr, ItemEnd, Reconnected,
           Disconnected, Hello, Ready, Resumed, SessionDescription, ItemPanics, ClientConnect,
           ClientDisconnect, Nothing, ModeErr
  <1>7. CASE Senders \/ HeartbeatTick \/ UdpTick \/ FutureDone \/ FutureFails \/ FutureLost
    BY <1>1, <1>7 DEF Senders, Outside, HeartbeatTick, UdpTick, FutureDone, FutureFails,
                      FutureLost, Future
  <1>8. CASE \E code \in UserCodes : close(code)
    BY <1>1, <1>8 DEF close, Outside
  <1>. QED
    BY <1>2, <1>3, <1>4, <1>5, <1>6, <1>7, <1>8 DEF Quiet

\* The texts at the gateway: one less at the front, or one more at the end.
LEMMA DeskTail ==
    ASSUME TypeOK, desk # <<>>, desk' = Tail(desk)
    PROVE  /\ \A i \in DOMAIN desk' : i + 1 \in DOMAIN desk /\ desk'[i] = desk[i + 1]
           /\ 1 \in DOMAIN desk /\ Head(desk) = desk[1]
           /\ \A i \in DOMAIN desk' : 1 < i + 1
           /\ DOMAIN desk \subseteq Nat /\ DOMAIN desk' \subseteq Nat
  BY TailElements DEF TypeOK, GatewayType

LEMMA DeskAppend ==
    ASSUME TypeOK, NEW text \in ClientTexts \cup {"Close"}, desk' = Append(desk, text)
    PROVE  /\ \A i \in DOMAIN desk' :
                 \/ i \in DOMAIN desk /\ desk'[i] = desk[i]
                 \/ i \notin DOMAIN desk /\ desk'[i] = text
           /\ \A i, j \in DOMAIN desk' : i < j => i \in DOMAIN desk
           /\ DOMAIN desk \subseteq Nat /\ DOMAIN desk' \subseteq Nat
  BY AppendElements DEF TypeOK, GatewayType

LEMMA SelectQuiet ==
    ASSUME TypeOK, PollInv, EventsInv, SelectInv, SessionInv, Quiet
    PROVE  SelectInv'
  <1>1. UNCHANGED <<desk, stage>>
    BY QuietEffect DEF QuietOutcome
  <1>2. slot' = "SelectProtocol" => slot = "SelectProtocol" \/ FutureSelects
    <2>. USE DEF streamVars
    <2>1. CASE State
      BY <2>1 DEF State, AtState, AtStateOrFault, AtFuture, ours, PassState, PacketPending,
                  PacketDiscarded, PacketDispatched, EncryptErr, SendPacketPanics,
                  FatalCloses, FatalEnds, FuturePending, FutureResumes, FutureErr,
                  FuturePanics
    <2>2. CASE Poll \/ Udp
      BY <2>2 DEF Poll, Udp, UdpAbsent, UdpSends, UdpPending, UdpErr, UdpClosed, AtUdp
    <2>3. CASE Commands
      BY <2>3 DEF Commands, AtCommand, CommandPending, CommandSpeaking, CommandFlush, Ws!Put
    <2>4. CASE Item
      BY <2>4 DEF Item, AtItem, Among, Is, ItemPending, ItemErr, ItemEnd, Reconnected,
                  Disconnected, Hello, Ready, Resumed, SessionDescription, ItemPanics,
                  ClientConnect, ClientDisconnect, Nothing, ModeErr, Ws!Put, Identifies
    <2>5. CASE Senders \/ HeartbeatTick \/ UdpTick \/ FutureDone \/ FutureFails \/ FutureLost
      BY <2>5 DEF Senders, HeartbeatTick, UdpTick, FutureDone, FutureFails, FutureLost, Future
    <2>6. CASE \E code \in UserCodes : close(code)
      BY <2>6 DEF close, Ws!Close
    <2>. QED
      BY <2>1, <2>2, <2>3, <2>4, <2>5, <2>6 DEF Quiet
  <1>3. CASE FutureSelects
    <2>1. stage \in {"ready", "active", "done"} /\ UpToDate
      BY <1>3 DEF FutureSelects, SessionInv
    <2>. QED
      BY <1>1, <2>1, SessionGoesOn DEF SelectInv
  <1>4. CASE ~FutureSelects
    <2>1. Selecting' => Selecting
      BY <1>1, <1>2, <1>4 DEF Selecting
    <2>. QED
      BY <1>1, <1>2, <1>4, <2>1, SessionGoesOn DEF SelectInv
  <1>. QED
    BY <1>3, <1>4

LEMMA SelectStream ==
    ASSUME TypeOK, PollInv, SelectInv, Stream
    PROVE  SelectInv'
  <1>1. StreamOutcome /\ (UpToDate \/ Fatal => UpToDate' \/ Fatal')
    <2>1. UNCHANGED <<known, session, state>>
      BY DEF Stream, AtStream, WsStep, WsGoes, WsPends, WsSleeps, gatewayVars, WsStart,
             WsDial, WsOpen, WsRefused, WsTransmit, WsTransmitPends, WsTransmitFails,
             WsBeats, WsGivesUp, WsRead, WsBreaks, WsEnds, WsWait, WsCloses, WsFinish,
             Dialled, Connected, Fresh, Forgotten, Sent, Kept, Taken, Shut,
             ClosesConnection, gateway, sessionVars
    <2>. QED
      BY <2>1, StreamEffect DEF UpToDate, Fatal
  <1>2. CASE stage' = "silent" /\ desk' = <<>>
    BY <1>2, EmptySeq DEF SelectInv
  <1>3. CASE stage' = stage /\ desk' = desk
    <2>1. slot' \in {slot, "None", "Heartbeat", "Close"} /\ (Selecting' => Selecting)
      BY <1>1, <1>3 DEF StreamOutcome, Selecting
    <2>. QED
      BY <1>1, <1>3, <2>1 DEF SelectInv
  <1>4. ASSUME NEW text \in ClientTexts \cup {"Close"}, stage' = stage, desk' = Append(desk, text),
               \/ text = slot /\ slot' = "None"
               \/ text = "Close" /\ slot' \in {slot, "None", "Heartbeat", "Close"}
        PROVE  SelectInv'
    <2>1. /\ \A i \in DOMAIN desk' :
                 \/ i \in DOMAIN desk /\ desk'[i] = desk[i]
                 \/ i \notin DOMAIN desk /\ desk'[i] = text
          /\ \A i, j \in DOMAIN desk' : i < j => i \in DOMAIN desk
      BY <1>4, DeskAppend
    <2>2. Selecting' => Selecting
      BY <1>4, <2>1 DEF Selecting
    <2>3. ASSUME stage \in {"silent", "new"}, slot' = "SelectProtocol", NEW i \in DOMAIN desk'
          PROVE  desk'[i] # "Identify"
      BY <1>4, <2>1, <2>3 DEF SelectInv
    <2>4. ASSUME stage \in {"silent", "new"}, NEW i \in DOMAIN desk', NEW j \in DOMAIN desk',
                 i < j, desk'[i] = "Identify", desk'[j] = "SelectProtocol"
          PROVE  FALSE
      <3>1. i \in DOMAIN desk /\ desk[i] = "Identify"
        BY <2>1, <2>4
      <3>2. CASE j \in DOMAIN desk
        BY <2>1, <2>4, <3>1, <3>2 DEF SelectInv
      <3>3. CASE j \notin DOMAIN desk
        BY <1>4, <2>1, <2>4, <3>1, <3>3 DEF SelectInv
      <3>. QED
        BY <3>2, <3>3
    <2>. QED
      BY <1>1, <1>4, <2>2, <2>3, <2>4 DEF SelectInv
  <1>5. slot \notin {"None", "Heartbeat"} => slot \in ClientTexts \cup {"Close"}
    BY DEF TypeOK, Ws!StreamTypeOK
  <1>. QED
    BY <1>1, <1>2, <1>3, <1>4, <1>5 DEF StreamOutcome

LEMMA SelectNetwork ==
    ASSUME TypeOK, SelectInv, Network
    PROVE  SelectInv'
  <1>1. NetworkOutcome /\ UNCHANGED <<slot, session, state>>
    BY NetworkEffect DEF Network, Outside, streamVars, sessionVars
  <1>2. ASSUME desk' = desk \/ desk' = <<>> \/ (desk # <<>> /\ desk' = Tail(desk))
        PROVE  /\ Selecting' => Selecting
               /\ (\A i \in DOMAIN desk : desk[i] # "Identify")
                    => \A i \in DOMAIN desk' : desk'[i] # "Identify"
               /\ (\A i, j \in DOMAIN desk :
                     i < j => ~(desk[i] = "Identify" /\ desk[j] = "SelectProtocol"))
                    => \A i, j \in DOMAIN desk' :
                          i < j => ~(desk'[i] = "Identify" /\ desk'[j] = "SelectProtocol")
    <2>1. CASE desk' = desk
      BY <1>1, <2>1 DEF Selecting
    <2>2. CASE desk' = <<>>
      BY <1>1, <2>2, EmptySeq DEF Selecting
    <2>3. CASE desk # <<>> /\ desk' = Tail(desk)
      <3>1. /\ \A i \in DOMAIN desk' : i + 1 \in DOMAIN desk /\ desk'[i] = desk[i + 1]
            /\ DOMAIN desk' \subseteq Nat
        BY <2>3, DeskTail
      <3>2. Selecting' => Selecting
        BY <1>1, <3>1 DEF Selecting
      <3>. QED
        BY <3>1, <3>2
    <2>. QED
      BY <1>2, <2>1, <2>2, <2>3
  <1>3. CASE stage' \in {stage, "done"} /\ UNCHANGED <<known, resumes>>
             /\ (desk' = desk \/ desk' = <<>> \/ (desk # <<>> /\ desk' = Tail(desk)))
    <2>1. UpToDate' = UpToDate /\ Fatal' = Fatal
      BY <1>1, <1>3 DEF UpToDate, Fatal
    <2>. QED
      BY <1>1, <1>2, <1>3, <2>1 DEF SelectInv
  <1>4. CASE stage = "silent" /\ stage' = "new" /\ UNCHANGED desk
    BY <1>1, <1>4 DEF SelectInv
  <1>5. CASE stage' \in {"resumed", "active"}
    BY <1>1, <1>5 DEF SelectInv
  <1>6. CASE stage = "new" /\ stage' = "ready" /\ Next1("Identify")
    <2>1. /\ \A i \in DOMAIN desk' : i + 1 \in DOMAIN desk /\ desk'[i] = desk[i + 1]
          /\ 1 \in DOMAIN desk /\ desk[1] = "Identify"
          /\ \A i \in DOMAIN desk' : 1 < i + 1
      BY <1>6, DeskTail DEF Next1
    <2>2. ~Selecting'
      BY <1>1, <1>6, <2>1 DEF SelectInv, Selecting
    <2>. QED
      BY <1>6, <2>2 DEF SelectInv
  <1>. QED
    BY <1>1, <1>3, <1>4, <1>5, <1>6 DEF NetworkOutcome

LEMMA SessionQuiet ==
    ASSUME TypeOK, PollInv, EventsInv, SessionInv, ~resumes, Quiet
    PROVE  SessionInv'
  <1>1. QuietOutcome
    BY QuietEffect
  <1>2. stage' = "active" => UpToDate' \/ Fatal'
    BY <1>1, SessionGoesOn DEF QuietOutcome, SessionInv
  <1>3. \A op \in Late : Pending(op)' => UpToDate' \/ Fatal'
    BY <1>1, SessionGoesOn DEF QuietOutcome, SessionInv
  <1>4. ASSUME udp_future' # "none"
        PROVE  /\ state' = "UdpHandshaking" /\ pc' \in {"idle", "udp", "state", "panic"}
               /\ UpToDate' /\ stage' \in {"ready", "active", "done"}
    <2>. USE DEF SessionInv, UpToDate, Goto, Return, Panic, sessionVars
    <2>1. UNCHANGED <<known, stage>>
      BY <1>1 DEF QuietOutcome
    <2>2. CASE Poll
      BY <1>4, <2>1, <2>2 DEF Poll
    <2>3. CASE Udp
      BY <1>4, <2>1, <2>3 DEF Udp, UdpAbsent, UdpSends, UdpPending, UdpErr, UdpClosed, AtUdp
    <2>4. CASE State
      BY <1>4, <2>1, <2>4
         DEF State, AtState, AtStateOrFault, AtFuture, ours, PassState, PacketPending,
             PacketDiscarded, PacketDispatched, EncryptErr, SendPacketPanics, FatalCloses,
             FatalEnds, FuturePending, FutureResumes, FutureSelects, FutureErr, FuturePanics
    <2>5. CASE Commands
      BY <1>4, <2>1, <2>5
         DEF Commands, AtCommand, CommandPending, CommandSpeaking, CommandFlush
    <2>6. CASE Ready
      <3>1. pc = "stream" /\ item = "Ready"
        BY <2>6 DEF Ready, Is, Among, AtItem
      <3>2. known # 0 /\ stage \notin {"silent", "new", "resumed"}
        BY <3>1 DEF EventsInv, Pending
      <3>3. stage \in {"ready", "active", "done"}
        BY <3>2 DEF TypeOK, GatewayType, Stages
      <3>. QED
        BY <2>1, <2>6, <3>2, <3>3 DEF Ready, Handshaking, Again, None
    <2>7. CASE Resumed
      BY <2>7 DEF Resumed, Is, Among, AtItem, EventsInv, Pending
    <2>8. CASE Item /\ ~Ready /\ ~Resumed
      BY <1>4, <2>1, <2>8
         DEF Item, AtItem, Among, Is, clientVars, ItemPending, ItemErr, ItemEnd, Reconnected,
             Disconnected, Hello, SessionDescription, ItemPanics, ClientConnect,
             ClientDisconnect, Nothing, ModeErr
    <2>9. CASE Senders \/ HeartbeatTick \/ UdpTick \/ FutureDone \/ FutureFails \/ FutureLost
      BY <1>4, <2>1, <2>9
         DEF Senders, Outside, HeartbeatTick, UdpTick, FutureDone, FutureFails, FutureLost,
             Future
    <2>10. CASE \E code \in UserCodes : close(code)
      BY <1>4, <2>1, <2>10 DEF close, Outside
    <2>. QED
      BY <2>2, <2>3, <2>4, <2>5, <2>6, <2>7, <2>8, <2>9, <2>10 DEF Quiet
  <1>. QED
    BY <1>2, <1>3, <1>4 DEF SessionInv

\* What a poll of the WebSocket leaves to the client.
LEMMA StreamFrame ==
    ASSUME Stream
    PROVE  /\ UNCHANGED <<session, nonce, encryptor, state, udp, outcoming, wire, udp_future>>
           /\ UNCHANGED <<opus, sent_packets, known>>
           /\ pc \in {"ws", "stream"} /\ pc' = "stream"
  BY DEF Stream, AtStream, WsStep, WsGoes, WsPends, WsSleeps, gatewayVars, WsStart, WsDial,
         WsOpen, WsRefused, WsTransmit, WsTransmitPends, WsTransmitFails, WsBeats,
         WsGivesUp, WsRead, WsBreaks, WsEnds, WsWait, WsCloses, WsFinish, Dialled,
         Connected, Fresh, Forgotten, Sent, Kept, Taken, Shut, ClosesConnection, gateway,
         sessionVars, udpVars, channelVars, Goto

LEMMA SessionStream ==
    ASSUME TypeOK, PollInv, SessionInv, Stream
    PROVE  SessionInv'
  <1>1. Late \subseteq ClientEvents
    BY DEF Late, ClientEvents, AllExtras
  <1>. QED
    BY <1>1, StreamEffect, StreamFrame DEF StreamOutcome, SessionInv, UpToDate, Fatal

\* What the gateway and the network leave to the client.
LEMMA NetworkFrame ==
    ASSUME Network
    PROVE  /\ UNCHANGED <<session, nonce, encryptor, state, udp, outcoming, wire, udp_future>>
           /\ UNCHANGED <<opus, sent_packets, slot, waiting, item, pc>>
  BY DEF Network, Outside, sessionVars, udpVars, channelVars, streamVars

LEMMA SessionNetwork ==
    ASSUME TypeOK, PollInv, EventsInv, SelectInv, SessionInv, Network, ~resumes'
    PROVE  SessionInv'
  <1>1. /\ NetworkOutcome /\ UNCHANGED <<session, state, udp_future, pc>>
    BY NetworkEffect, NetworkFrame
  <1>2. /\ Late \subseteq ClientEvents /\ "Hello" \notin Late /\ "Ready" \notin Late
        /\ \A op \in Late : op = "SessionDescription" \/ op \in AllExtras
    BY DEF Late, ClientEvents, AllExtras
  <1>3. CASE stage = "silent" /\ stage' = "new" /\ UNCHANGED <<desk, known, resumes>>
             /\ Pends({"Hello"})
    BY <1>1, <1>2, <1>3 DEF Pends, SessionInv, UpToDate, Fatal
  <1>4. CASE stage = "new" /\ stage' = "ready" /\ Pends({"Ready"})
    BY <1>1, <1>2, <1>4 DEF Pends, SessionInv, EventsInv
  <1>5. CASE stage = "ready" /\ stage' = "active" /\ UNCHANGED <<known, resumes>>
             /\ Next1("SelectProtocol") /\ Pends({"SessionDescription"})
    <2>1. 1 \in DOMAIN desk /\ desk[1] = "SelectProtocol"
      BY <1>5, DeskTail DEF Next1
    <2>2. UpToDate \/ Fatal
      BY <1>5, <2>1 DEF SelectInv, Selecting
    <2>. QED
      BY <1>1, <1>2, <1>5, <2>2 DEF Pends, SessionInv, UpToDate, Fatal
  <1>6. CASE stage \in {"active", "resumed"} /\ UNCHANGED <<stage, desk, known, resumes>>
             /\ Pends(AllExtras)
    <2>1. UpToDate \/ Fatal
      BY <1>6 DEF EventsInv, SessionInv
    <2>. QED
      BY <1>1, <1>2, <1>6, <2>1 DEF Pends, SessionInv, UpToDate, Fatal
  <1>7. CASE stage' \in {stage, "done"} /\ UNCHANGED <<known, resumes>> /\ Pends({})
    BY <1>1, <1>2, <1>7 DEF Pends, SessionInv, UpToDate, Fatal
  <1>. QED
    BY <1>1, <1>3, <1>4, <1>5, <1>6, <1>7 DEF NetworkOutcome

LEMMA UdpStep ==
    ASSUME TypeOK, PollInv, EventsInv, SelectInv, SessionInv, UdpInv, ~resumes', Next
    PROVE  UdpInv'
  <1>1. "SessionDescription" \in ClientEvents /\ AllExtras \cap {"SessionDescription"} = {}
    BY DEF ClientEvents, AllExtras
  <1>2. CASE Stream
    <2>1. Selecting' => Selecting
      <3>1. StreamOutcome
        BY <1>2, StreamEffect
      <3>2. CASE desk' = <<>>
        BY <3>1, <3>2, EmptySeq DEF StreamOutcome, Selecting
      <3>3. CASE desk' = desk
        BY <3>1, <3>3 DEF StreamOutcome, Selecting
      <3>4. ASSUME NEW text \in ClientTexts \cup {"Close"}, desk' = Append(desk, text),
                   text = slot \/ text = "Close"
            PROVE  Selecting' => Selecting
        BY <3>1, <3>4, DeskAppend DEF StreamOutcome, Selecting
      <3>5. slot \notin {"None", "Heartbeat"} => slot \in ClientTexts \cup {"Close"}
        BY DEF TypeOK, Ws!StreamTypeOK
      <3>. QED
        BY <3>1, <3>2, <3>3, <3>4, <3>5 DEF StreamOutcome
    <2>. QED
      BY <1>1, <1>2, <2>1, StreamEffect, StreamFrame DEF StreamOutcome, UdpInv, Fatal
  <1>3. CASE Network
    <2>1. NetworkOutcome /\ UNCHANGED <<slot, state, udp>>
      BY <1>3, NetworkEffect, NetworkFrame
    <2>2. desk' = desk \/ desk' = <<>> \/ (desk # <<>> /\ desk' = Tail(desk))
      <3>1. CASE resumes' = TRUE
        BY <3>1
      <3>2. CASE resumes' # TRUE
        BY <2>1, <3>2 DEF NetworkOutcome, Next1
      <3>. QED
        BY <3>1, <3>2
    <2>3. Selecting' => Selecting
      BY <2>1, <2>2, DeskTail, EmptySeq DEF Selecting
    <2>4. CASE Next1("SelectProtocol")
      <3>1. Selecting
        BY <2>4, DeskTail DEF Next1, Selecting
      <3>. QED
        BY <2>1, <3>1 DEF UdpInv, Fatal
    <2>5. CASE ~Next1("SelectProtocol")
      <3>1. Pending("SessionDescription")' => Pending("SessionDescription")
        BY <1>1, <2>1, <2>5 DEF NetworkOutcome, Pends
      <3>. QED
        BY <2>1, <2>3, <3>1 DEF UdpInv, Fatal
    <2>. QED
      BY <2>4, <2>5
  <1>4. CASE Quiet
    <2>. USE DEF Fatal, streamVars, sessionVars, udpVars, Goto, Return, Panic
    <2>1. UNCHANGED desk /\ (Pending("SessionDescription")' => Pending("SessionDescription"))
      BY <1>4, QuietEffect DEF QuietOutcome
    <2>2. ASSUME UNCHANGED <<slot, udp>>, state' # "Active" \/ UNCHANGED state, Fatal => Fatal'
          PROVE  UdpInv'
      BY <2>1, <2>2 DEF UdpInv, Selecting
    <2>3. CASE Poll
      BY <2>2, <2>3 DEF Poll
    <2>4. CASE Udp
      <3>1. CASE UdpClosed
        <4>1. Fatal'
          BY <3>1 DEF UdpClosed, AtUdp, PollInv
        <4>. QED
          BY <4>1 DEF UdpInv
      <3>2. CASE ~UdpClosed
        BY <2>2, <2>4, <3>2 DEF Udp, UdpAbsent, UdpSends, UdpPending, UdpErr, AtUdp
      <3>. QED
        BY <3>1, <3>2
    <2>5. CASE State
      <3>1. CASE FutureResumes \/ FutureSelects
        <4>1. udp' = "open"
          BY <3>1 DEF FutureResumes, FutureSelects, NewUdp
        <4>. QED
          BY <4>1 DEF UdpInv
      <3>2. CASE FatalCloses \/ FatalEnds
        <4>1. Fatal'
          BY <3>2 DEF FatalCloses, FatalEnds, ours
        <4>. QED
          BY <4>1 DEF UdpInv
      <3>3. CASE State /\ ~FutureResumes /\ ~FutureSelects /\ ~FatalCloses /\ ~FatalEnds
        BY <2>2, <3>3
           DEF State, AtState, AtStateOrFault, AtFuture, ours, PassState, PacketPending,
               PacketDiscarded, PacketDispatched, EncryptErr, SendPacketPanics,
               FuturePending, FutureErr, FuturePanics
      <3>. QED
        BY <2>5, <3>1, <3>2, <3>3
    <2>6. CASE Commands
      <3>1. UNCHANGED <<udp, state>> /\ slot' \in {slot, "Speaking"}
        BY <2>6 DEF Commands, AtCommand, CommandPending, CommandSpeaking, CommandFlush, Ws!Put
      <3>. QED
        BY <2>1, <3>1 DEF UdpInv, Selecting
    <2>7. CASE SessionDescription
      <3>1. Pending("SessionDescription") /\ UNCHANGED udp /\ ~Fatal
        BY <2>7 DEF SessionDescription, Is, Among, AtItem, Pending, PollInv
      <3>. QED
        BY <3>1 DEF UdpInv
    <2>8. CASE Item /\ ~SessionDescription
      <3>1. /\ slot' \in {slot, "Resume", "Identify"} /\ UNCHANGED udp /\ ~Fatal
            /\ state' # "Active" \/ UNCHANGED state
        BY <2>8 DEF Item, AtItem, Among, Is, clientVars, ItemPending, ItemErr, ItemEnd,
                    Reconnected, Disconnected, Hello, Ready, Resumed, ItemPanics, ClientConnect,
                    ClientDisconnect, Nothing, ModeErr, Ws!Put, Identifies, Handshaking, PollInv
      <3>. QED
        BY <2>1, <3>1 DEF UdpInv, Selecting
    <2>9. CASE Senders \/ HeartbeatTick \/ UdpTick \/ FutureDone \/ FutureFails \/ FutureLost
      BY <2>2, <2>9 DEF Senders, Outside, HeartbeatTick, UdpTick, FutureDone, FutureFails,
             FutureLost, Future
    <2>10. CASE \E code \in UserCodes : close(code)
      <3>1. UNCHANGED <<udp, state>> /\ slot' = "Close"
        BY <2>10 DEF close, Outside, Ws!Close
      <3>. QED
        BY <2>1, <3>1 DEF UdpInv, Selecting
    <2>. QED
      BY <1>4, <2>3, <2>4, <2>5, <2>6, <2>7, <2>8, <2>9, <2>10 DEF Quiet
  <1>. QED
    BY <1>2, <1>3, <1>4, Steps

\* What a packet that is queued or sent does to the packets of the UDP connection.
LEMMA PacketsMove ==
    ASSUME TypeOK, Next
    PROVE  \/ UNCHANGED <<outcoming, wire>>
           \/ outcoming' = <<>> /\ UNCHANGED wire
           \/ outcoming # <<>> /\ outcoming' = Tail(outcoming) /\ wire' = Append(wire, Head(outcoming))
           \/ PacketDispatched /\ UNCHANGED wire
  <1>. USE DEF udpVars
  <1>1. CASE Stream \/ Network
    BY <1>1, StreamFrame, NetworkFrame
  <1>2. CASE Poll
    BY <1>2 DEF Poll
  <1>3. CASE Udp
    BY <1>3 DEF Udp, UdpAbsent, UdpSends, UdpPending, UdpErr, UdpClosed
  <1>4. CASE State
    BY <1>4 DEF State, AtState, AtStateOrFault, AtFuture, ours, PassState, PacketPending,
                PacketDiscarded, PacketDispatched, EncryptErr, SendPacketPanics,
                FatalCloses, FatalEnds, FuturePending, FutureResumes, FutureSelects,
                FutureErr, FuturePanics, NewUdp
  <1>5. CASE Commands
    BY <1>5 DEF Commands, AtCommand, CommandPending, CommandSpeaking, CommandFlush
  <1>6. CASE Item
    BY <1>6 DEF Item, AtItem, Among, Is, ItemPending, ItemErr, ItemEnd, Reconnected,
                Disconnected, Hello, Ready, Resumed, SessionDescription, ItemPanics,
                ClientConnect, ClientDisconnect, Nothing, ModeErr
  <1>7. CASE Senders \/ HeartbeatTick \/ UdpTick \/ FutureDone \/ FutureFails \/ FutureLost
    BY <1>7 DEF Senders, HeartbeatTick, UdpTick, FutureDone, FutureFails, FutureLost, Future
  <1>8. CASE \E code \in UserCodes : close(code)
    BY <1>8 DEF close
  <1>. QED
    BY <1>1, <1>2, <1>3, <1>4, <1>5, <1>6, <1>7, <1>8, Steps DEF Quiet

\* The elements of the UDP connection's queue and of what it has sent, after a step.
LEMMA PacketElements ==
    ASSUME TypeOK, Next
    PROVE  /\ \A i \in DOMAIN wire' :
                 \/ i \in DOMAIN wire /\ wire'[i] = wire[i]
                 \/ 1 \in DOMAIN outcoming /\ wire'[i] = outcoming[1]
           /\ \A i \in DOMAIN outcoming' :
                 \/ i \in DOMAIN outcoming /\ outcoming'[i] = outcoming[i]
                 \/ i + 1 \in DOMAIN outcoming /\ outcoming'[i] = outcoming[i + 1]
                 \/ PacketDispatched /\ outcoming'[i] = Packet(Head(opus))
  <1>1. outcoming \in Seq(Packets) /\ wire \in Seq(Packets)
    BY PacketTypes
  <1>2. CASE UNCHANGED <<outcoming, wire>>
    BY <1>2
  <1>3. CASE outcoming' = <<>> /\ UNCHANGED wire
    BY <1>3, EmptySeq
  <1>4. CASE outcoming # <<>> /\ outcoming' = Tail(outcoming)
             /\ wire' = Append(wire, Head(outcoming))
    <2>1. /\ \A i \in DOMAIN outcoming' :
                i + 1 \in DOMAIN outcoming /\ outcoming'[i] = outcoming[i + 1]
          /\ 1 \in DOMAIN outcoming /\ Head(outcoming) = outcoming[1]
      BY <1>1, <1>4, TailElements
    <2>2. Head(outcoming) \in Packets
      BY <1>1, <1>4, HeadTailProperties
    <2>3. \A i \in DOMAIN wire' :
             (i \in DOMAIN wire /\ wire'[i] = wire[i]) \/ wire'[i] = Head(outcoming)
      BY <1>1, <1>4, <2>2, AppendElements
    <2>. QED
      BY <2>1, <2>3
  <1>5. CASE PacketDispatched /\ UNCHANGED wire
    <2>1. outcoming' = Append(outcoming, Packet(Head(opus))) /\ opus # <<>>
      BY <1>5 DEF PacketDispatched, TakePacket
    <2>2. Packet(Head(opus)) \in Packets
      BY <2>1, PacketTypes
    <2>3. \A i \in DOMAIN outcoming' :
             \/ i \in DOMAIN outcoming /\ outcoming'[i] = outcoming[i]
             \/ outcoming'[i] = Packet(Head(opus))
      BY <1>1, <2>1, <2>2, AppendElements
    <2>. QED
      BY <1>5, <2>3
  <1>. QED
    BY <1>2, <1>3, <1>4, <1>5, PacketsMove

LEMMA KeyStep ==
    ASSUME TypeOK, PollInv, EventsInv, SelectInv, SessionInv, UdpInv, KeyInv, ~resumes, Next
    PROVE  KeyInv'
  <1>1. ASSUME PacketDispatched
        PROVE  Packet(Head(opus)).key = Packet(Head(opus)).session
    <2>1. encryptor = session
      BY <1>1 DEF PacketDispatched, AtState, AtStateOrFault, KeyInv
    <2>. QED
      BY <2>1 DEF Packet
  <1>2. /\ \A i \in DOMAIN outcoming' : outcoming'[i].key = outcoming'[i].session
        /\ \A i \in DOMAIN wire' : wire'[i].key = wire'[i].session
    BY <1>1, PacketElements DEF KeyInv
  <1>3. /\ state' = "Active" => encryptor' = session' /\ session' # None
        /\ pc' = "panic" => udp_future' = "spent"
    <2>. USE DEF KeyInv, sessionVars, Goto, Return, Panic
    <2>1. CASE Stream \/ Network
      BY <2>1, StreamFrame, NetworkFrame
    <2>2. CASE Poll
      BY <2>2 DEF Poll
    <2>3. CASE Udp
      BY <2>3 DEF Udp, UdpAbsent, UdpSends, UdpPending, UdpErr, UdpClosed, AtUdp
    <2>4. CASE SendPacketPanics
      BY <2>4 DEF SendPacketPanics, AtState, AtStateOrFault, UdpInv, Fatal, PollInv
    <2>5. CASE FutureResumes
      BY <2>5 DEF FutureResumes, SessionInv
    <2>6. CASE State /\ ~SendPacketPanics /\ ~FutureResumes
      BY <2>6 DEF State, AtState, AtStateOrFault, AtFuture, ours, PassState, PacketPending,
                  PacketDiscarded, PacketDispatched, EncryptErr, FatalCloses, FatalEnds,
                  FuturePending, FutureSelects, FutureErr, FuturePanics
    <2>7. CASE Commands
      BY <2>7 DEF Commands, AtCommand, CommandPending, CommandSpeaking, CommandFlush, UdpInv,
                  Fatal, PollInv
    <2>8. CASE SessionDescription
      <3>1. Pending("SessionDescription") /\ ~Fatal
        BY <2>8 DEF SessionDescription, Is, Among, AtItem, Pending, PollInv
      <3>2. UpToDate
        BY <3>1 DEF SessionInv, Late
      <3>. QED
        BY <2>8, <3>2 DEF SessionDescription, NewEncryptor, UpToDate
    <2>9. CASE ItemPanics
      <3>1. pc = "stream" /\ item \in {"Resumed", "SessionDescription", "ClientConnect"}
            /\ session = None
        BY <2>9 DEF ItemPanics, Among, AtItem
      <3>2. ~Fatal
        BY <3>1 DEF PollInv
      <3>. QED
        BY <3>1, <3>2 DEF EventsInv, SessionInv, Late, Pending, UpToDate
    <2>10. CASE Item /\ ~SessionDescription /\ ~ItemPanics
      BY <2>10 DEF Item, AtItem, Among, Is, Again, clientVars, ItemPending, ItemErr, ItemEnd,
                   Reconnected, Disconnected, Hello, Ready, Resumed, ClientConnect,
                   ClientDisconnect, Nothing, ModeErr, Handshaking, PollInv
    <2>11. CASE Senders \/ HeartbeatTick \/ UdpTick \/ FutureDone \/ FutureFails \/ FutureLost
      BY <2>11 DEF Senders, Outside, HeartbeatTick, UdpTick, FutureDone, FutureFails,
                   FutureLost, Future
    <2>12. CASE \E code \in UserCodes : close(code)
      BY <2>12 DEF close, Outside
    <2>. QED
      BY <2>1, <2>2, <2>3, <2>4, <2>5, <2>6, <2>7, <2>8, <2>9, <2>10, <2>11, <2>12, Steps
         DEF Quiet
  <1>. QED
    BY <1>2, <1>3 DEF KeyInv

LEMMA HandshakeInit == Init => HandshakeInv
  <1>. SUFFICES ASSUME Init PROVE HandshakeInv
    OBVIOUS
  <1>1. /\ ~Arrived("Resumed") /\ \A op : ~Arrived(op)
        /\ \A i \in DOMAIN desk : FALSE
        /\ \A i \in DOMAIN outcoming : FALSE
        /\ \A i \in DOMAIN wire : FALSE
    BY EmptySeq DEF Init, GatewayInit, Arrived
  <1>2. PollInv
    BY DEF Init, Ws!StreamInit, PollInv, Fatal
  <1>3. \A op \in Late \cup {"Ready", "Resumed"} : ~Pending(op)
    BY <1>1 DEF Init, Ws!StreamInit, Pending, Late
  <1>4. EventsInv
    BY <1>3 DEF Init, GatewayInit, EventsInv
  <1>5. ~Selecting
    BY <1>1 DEF Init, Ws!StreamInit, Selecting
  <1>6. SelectInv /\ SessionInv /\ UdpInv
    BY <1>1, <1>3, <1>5
       DEF Init, GatewayInit, Ws!StreamInit, SelectInv, SessionInv, UdpInv, Late
  <1>7. KeyInv
    BY <1>1 DEF Init, KeyInv
  <1>. QED
    BY <1>2, <1>4, <1>6, <1>7 DEF HandshakeInv

LEMMA HandshakeStep ==
    ASSUME TypeOK, HandshakeInv, [Next]_vars
    PROVE  HandshakeInv'
  <1>1. CASE UNCHANGED vars
    <2>1. UNCHANGED <<inbox, desk, stage, known, resumes, waiting, item, slot, pc, state, session,
                      encryptor, udp, udp_future, outcoming, wire>>
      BY <1>1 DEF vars, gatewayVars, streamVars, sessionVars, udpVars
    <2>. QED
      BY <2>1 DEF HandshakeInv, PollInv, EventsInv, SelectInv, SessionInv, UdpInv, KeyInv,
                  Pending, Arrived, Selecting, UpToDate, Fatal
  <1>2. CASE Next
    <2>1. PollInv' /\ EventsInv'
      BY <1>2, PollStep, EventsStep DEF HandshakeInv
    <2>2. ASSUME ~resumes'
          PROVE  SelectInv' /\ SessionInv' /\ UdpInv' /\ KeyInv'
      <3>1. ~resumes /\ PollInv /\ EventsInv /\ SelectInv /\ SessionInv /\ UdpInv /\ KeyInv
        BY <1>2, <2>2, ResumesStep DEF HandshakeInv
      <3>2. SelectInv'
        BY <1>2, <3>1, Steps, SelectQuiet, SelectStream, SelectNetwork
      <3>3. SessionInv'
        BY <1>2, <2>2, <3>1, Steps, SessionQuiet, SessionStream, SessionNetwork
      <3>. QED
        BY <1>2, <2>2, <3>1, <3>2, <3>3, UdpStep, KeyStep
    <2>. QED
      BY <2>1, <2>2 DEF HandshakeInv
  <1>. QED
    BY <1>1, <1>2

\* A packet that leaves is encrypted with the key of the session whose ssrc it carries.
THEOREM KeysOfSessions == Spec => []KeyOfSession
  <1>1. TypeOK /\ HandshakeInv => KeyOfSession
    BY DEF HandshakeInv, KeyInv, KeyOfSession
  <1>. QED
    BY <1>1, InitType, TypeStep, HandshakeInit, HandshakeStep, PTL DEF Spec

\* An active client has a session, an encryptor and a UDP connection.
THEOREM ActiveIsEquipped == Spec => []Equipped
  <1>1. TypeOK /\ HandshakeInv => Equipped
    BY DEF HandshakeInv, KeyInv, UdpInv, Fatal, Equipped
  <1>. QED
    BY <1>1, InitType, TypeStep, HandshakeInit, HandshakeStep, PTL DEF Spec

\* No unwrap of the client fails, and it polls a future too often only after a failed
\* connect() to the UDP address.
THEOREM NeverPanics == Spec => []NoPanic
  <1>1. TypeOK /\ HandshakeInv => NoPanic
    BY DEF HandshakeInv, KeyInv, NoPanic
  <1>. QED
    BY <1>1, InitType, TypeStep, HandshakeInit, HandshakeStep, PTL DEF Spec

------------------------------------------------------------------------------
(* Sessions and nonces.                                                    *)

\* A session begins, goes on with one nonce more, or ends.
LEMMA SessionEffect ==
    ASSUME TypeOK, Next
    PROVE  \/ UNCHANGED <<session, nonce>>
           \/ PacketDispatched /\ UNCHANGED session
           \/ session' = None
           \/ Ready
  <1>. USE DEF sessionVars
  <1>1. CASE Stream \/ Network
    BY <1>1, StreamFrame, NetworkFrame
  <1>2. CASE Poll
    BY <1>2 DEF Poll
  <1>3. CASE Udp
    BY <1>3 DEF Udp, UdpAbsent, UdpSends, UdpPending, UdpErr, UdpClosed, AtUdp
  <1>4. CASE State
    BY <1>4 DEF State, AtState, AtStateOrFault, AtFuture, ours, PassState, PacketPending,
                PacketDiscarded, PacketDispatched, EncryptErr, SendPacketPanics,
                FatalCloses, FatalEnds, FuturePending, FutureResumes, FutureSelects,
                FutureErr, FuturePanics
  <1>5. CASE Commands
    BY <1>5 DEF Commands, AtCommand, CommandPending, CommandSpeaking, CommandFlush
  <1>6. CASE Item
    BY <1>6 DEF Item, AtItem, Among, Is, clientVars, ItemPending, ItemErr, ItemEnd, Reconnected,
                Disconnected, Hello, Ready, Resumed, SessionDescription, ItemPanics,
                ClientConnect, ClientDisconnect, Nothing, ModeErr
  <1>7. CASE Senders \/ HeartbeatTick \/ UdpTick \/ FutureDone \/ FutureFails \/ FutureLost
    BY <1>7 DEF Senders, Outside, HeartbeatTick, UdpTick, FutureDone, FutureFails,
                FutureLost, Future
  <1>8. CASE \E code \in UserCodes : close(code)
    BY <1>8 DEF close, Outside
  <1>. QED
    BY <1>1, <1>2, <1>3, <1>4, <1>5, <1>6, <1>7, <1>8, Steps DEF Quiet

\* What happens to the messages that have arrived.
LEMMA InboxEffect ==
    ASSUME TypeOK, Next
    PROVE  \/ inbox' = inbox
           \/ inbox' = <<>>
           \/ inbox # <<>> /\ inbox' = Tail(inbox)
           \/ Network /\ \E message \in Messages :
                 inbox' = Append(inbox, message) /\ (message.op = "Ready" => stage = "new")
  <1>1. CASE Quiet
    BY <1>1, QuietEffect DEF QuietOutcome
  <1>2. CASE Stream
    BY <1>2 DEF Stream, WsStart, WsDial, WsOpen, WsRefused, WsTransmit, WsTransmitPends,
                WsTransmitFails, WsBeats, WsGivesUp, WsRead, WsBreaks, WsEnds, WsWait,
                WsCloses, WsFinish, Dialled, Connected, Fresh, Forgotten, Sent, Kept, Taken,
                Shut, ClosesConnection, Incoming, gatewayVars, gateway, WsGoes, WsPends,
                WsSleeps, WsStep
  <1>3. CASE Network
    <2>1. /\ \A op \in ClientEvents : Said(op) \in Messages /\ Said(op).op = op
          /\ \A code \in Nat : Closing(code) \in Messages /\ Closing(code).op = "Close"
      BY SaidTypes DEF Said, Closing
    <2>2. {"Hello", "Ready", "SessionDescription", "Resumed"} \cup AllExtras \subseteq ClientEvents
          /\ "Ready" \notin AllExtras
      BY DEF ClientEvents, AllExtras
    <2>3. ASSUME NEW code \in Nat, Rejects(code)
          PROVE  \E message \in Messages :
                    inbox' = Append(inbox, message) /\ (message.op = "Ready" => stage = "new")
      BY <2>1, <2>3 DEF Rejects, Answers
    <2>4. CASE Greet \/ Handle
      BY <1>3, <2>1, <2>2, <2>3, <2>4
         DEF Greet, Handle, Receives, Identified, ResumeGranted, ResumeRefused, Twice, TooEarly,
             ProtocolSelected, Ignored, NoStatus, Answers
    <2>5. CASE Tell
      BY <1>3, <2>1, <2>2, <2>5, GatewayAssumption DEF Tell, Answers
    <2>6. CASE GatewayCloses
      BY <1>3, <2>3, <2>6, GatewayAssumption DEF GatewayCloses
    <2>7. CASE Garbles
      <3>1. Said("Malformed") \in Messages /\ Said("Malformed").op # "Ready"
        BY DEF Said, Messages
      <3>. QED
        BY <1>3, <2>7, <3>1 DEF Garbles, Answers
    <2>. QED
      BY <1>3, <2>4, <2>5, <2>6, <2>7
         DEF Network, World, ConnectionLost, Blocks, Unblocks, DialOk, DialErr
  <1>. QED
    BY <1>1, <1>2, <1>3, Steps

LEMMA InboxReady ==
    ASSUME TypeOK, EventsInv, OneReady, Next
    PROVE  \A i, j \in DOMAIN inbox' : inbox'[i].op = "Ready" /\ inbox'[j].op = "Ready" => i = j
  <1>1. inbox \in Seq(Messages)
    BY DEF TypeOK, GatewayType
  <1>2. CASE inbox' = inbox
    BY <1>2 DEF OneReady
  <1>3. CASE inbox' = <<>>
    BY <1>3, EmptySeq
  <1>4. CASE inbox # <<>> /\ inbox' = Tail(inbox)
    <2>1. /\ \A i \in DOMAIN inbox' : i + 1 \in DOMAIN inbox /\ inbox'[i] = inbox[i + 1]
          /\ DOMAIN inbox' \subseteq Nat
      BY <1>1, <1>4, TailElements
    <2>2. ASSUME NEW i \in DOMAIN inbox', NEW j \in DOMAIN inbox',
                 inbox'[i].op = "Ready", inbox'[j].op = "Ready"
          PROVE  i = j
      <3>1. i + 1 = j + 1
        BY <2>1, <2>2 DEF OneReady
      <3>. QED
        BY <2>1, <3>1
    <2>. QED
      BY <2>2
  <1>5. ASSUME NEW message \in Messages, inbox' = Append(inbox, message),
               message.op = "Ready" => stage = "new"
        PROVE  \A i, j \in DOMAIN inbox' :
                  inbox'[i].op = "Ready" /\ inbox'[j].op = "Ready" => i = j
    <2>1. \A i \in DOMAIN inbox' :
             \/ i \in DOMAIN inbox /\ inbox'[i] = inbox[i]
             \/ i \notin DOMAIN inbox /\ inbox'[i] = message
      BY <1>1, <1>5, AppendElements
    <2>2. \A i, j \in DOMAIN inbox' : i \notin DOMAIN inbox /\ j \notin DOMAIN inbox => i = j
      <3>1. /\ Len(inbox') = Len(inbox) + 1 /\ Len(inbox) \in Nat
            /\ DOMAIN inbox = 1 .. Len(inbox) /\ DOMAIN inbox' = 1 .. Len(inbox')
        BY <1>1, <1>5, AppendProperties, LenProperties
      <3>. QED
        BY <3>1
    <2>3. CASE message.op = "Ready"
      <3>1. ~Arrived("Ready")
        BY <1>5, <2>3 DEF EventsInv, Pending
      <3>. QED
        BY <2>1, <2>2, <3>1 DEF Arrived
    <2>4. CASE message.op # "Ready"
      BY <2>1, <2>4 DEF OneReady
    <2>. QED
      BY <2>3, <2>4
  <1>. QED
    BY <1>2, <1>3, <1>4, <1>5, InboxEffect

LEMMA OneReadyStep ==
    ASSUME TypeOK, PollInv, EventsInv, OneReady, Next
    PROVE  OneReady'
  <1>. DEFINE Alone == /\ waiting = "Ready" => ~Arrived("Ready") /\ ~(pc = "stream" /\ item = "Ready")
                       /\ pc = "stream" /\ item = "Ready" => ~Arrived("Ready")
  <1>. SUFFICES Alone'
    BY InboxReady DEF OneReady
  <1>1. CASE Quiet
    BY <1>1, QuietEffect DEF QuietOutcome, OneReady, Arrived
  <1>2. CASE Network
    <2>1. UNCHANGED <<waiting, item, pc>>
      BY <1>2, NetworkFrame
    <2>2. CASE waiting = "Ready" \/ (pc = "stream" /\ item = "Ready")
      <3>1. stage # "new" /\ ~Arrived("Ready")
        BY <2>2 DEF OneReady, EventsInv, Pending
      <3>2. ~Arrived("Ready")'
        BY <1>2, <2>1, <3>1, InboxEffect, ArrivedEnd, ArrivedTail, NothingArrived DEF Arrived
      <3>. QED
        BY <2>1, <3>2 DEF OneReady
    <2>3. CASE ~(waiting = "Ready" \/ (pc = "stream" /\ item = "Ready"))
      BY <2>1, <2>3
    <2>. QED
      BY <2>2, <2>3
  <1>3. CASE Stream
    <2>. USE DEF AtStream, WsStep, WsGoes, WsPends, WsSleeps, gatewayVars
    <2>1. CASE WsStart
      BY <2>1 DEF WsStart, Ws!Start, OneReady, Arrived, Goto
    <2>2. CASE WsRead
      <3>1. inbox # <<>> /\ inbox' = Tail(inbox) /\ item = "Polling" /\ waiting # "Ready"
        BY <2>2, ReadEffect DEF PollInv
      <3>2. CASE Head(inbox).op = "Ready"
        <4>1. ~Arrived("Ready")'
          <5>1. inbox \in Seq(Messages)
            BY DEF TypeOK, GatewayType
          <5>2. /\ \A i \in DOMAIN inbox' :
                      i + 1 \in DOMAIN inbox /\ inbox'[i] = inbox[i + 1] /\ i + 1 # 1
                /\ 1 \in DOMAIN inbox /\ inbox[1].op = "Ready"
            BY <3>1, <3>2, <5>1, TailElements
          <5>. QED
            BY <5>2 DEF OneReady, Arrived
        <4>2. ~(waiting' = "Ready" /\ item' = "Ready")
          BY <2>2, <3>1, <3>2, ReadEffect
        <4>. QED
          BY <4>1, <4>2
      <3>3. CASE Head(inbox).op # "Ready"
        BY <2>2, <3>1, <3>3, ReadEffect
      <3>. QED
        BY <3>2, <3>3
    <2>3. CASE Stream /\ ~WsStart /\ ~WsRead
      <3>1. waiting # "Ready" /\ item = "Polling"
        BY <2>3 DEF Stream, WsDial, WsOpen, WsRefused, WsTransmit, WsTransmitPends,
                    WsTransmitFails, WsBeats, WsGivesUp, WsBreaks, WsEnds, WsWait, WsCloses,
                    WsFinish, Ws!Open, Ws!Fail, Ws!Lose, Ws!Wait, Ws!Transmit,
                    Ws!TransmitFails, Ws!Drop, Ws!Finish, Ws!Beat, Ws!GiveUp, Ws!Polling,
                    PollInv
      <3>2. /\ waiting' \in {waiting, "Reconnected"}
            /\ item' \in {"Polling", "Pending", "Error", "Disconnected", "End"}
        BY <2>3, <3>1
           DEF Stream, WsDial, WsOpen, WsRefused, WsTransmit, WsTransmitPends,
               WsTransmitFails, WsBeats, WsGivesUp, WsBreaks, WsEnds, WsWait, WsCloses,
               WsFinish, Ws!Open, Ws!Fail, Ws!Lose, Ws!Wait, Ws!Transmit, Ws!TransmitFails,
               Ws!Drop, Ws!Finish, Ws!Beat, Ws!GiveUp
      <3>. QED
        BY <3>1, <3>2
    <2>. QED
      BY <1>3, <2>1, <2>2, <2>3
  <1>. QED
    BY <1>1, <1>2, <1>3, Steps

\* What the sessions of the gateway do meanwhile.
LEMMA KnownEffect ==
    ASSUME TypeOK, PollInv, EventsInv, Next
    PROVE  \/ known' = known /\ (Pending("Ready")' => Pending("Ready"))
           \/ known' = known + 1 /\ UNCHANGED <<session, nonce, outcoming, wire>>
  <1>1. "Ready" \in ClientEvents /\ "Ready" \notin AllExtras
    BY DEF ClientEvents, AllExtras
  <1>2. CASE Quiet
    BY <1>2, QuietEffect DEF QuietOutcome
  <1>3. CASE Stream
    BY <1>1, <1>3, StreamEffect, StreamFrame DEF StreamOutcome
  <1>4. CASE Network
    BY <1>1, <1>4, NetworkEffect, NetworkFrame DEF NetworkOutcome, Pends
  <1>. QED
    BY <1>2, <1>3, <1>4, Steps

\* A Ready that is handled is not pending any more.
LEMMA ReadyHandled ==
    ASSUME TypeOK, OneReady, Ready
    PROVE  /\ Pending("Ready") /\ ~Pending("Ready")'
           /\ session' = known /\ known' = known /\ UNCHANGED <<outcoming, wire>>
  <1>1. pc = "stream" /\ item = "Ready" /\ pc' = "udp" /\ UNCHANGED <<inbox, waiting, known>>
        /\ session' = known /\ UNCHANGED <<outcoming, wire>>
    BY DEF Ready, Is, Among, AtItem, Again, Goto, gatewayVars, streamVars, udpVars
  <1>. QED
    BY <1>1 DEF OneReady, Pending, Arrived

LEMMA ReadyInit == Init => ReadyInv
  <1>. SUFFICES ASSUME Init PROVE ReadyInv
    OBVIOUS
  <1>1. /\ ~Arrived("Ready") /\ inbox = <<>> /\ session = 0 /\ known = 0
        /\ waiting = "None" /\ item = "Pending"
    BY EmptySeq DEF Init, GatewayInit, Ws!StreamInit, Arrived, None
  <1>. QED
    BY <1>1, EmptySeq DEF ReadyInv, OneReady, Pending

LEMMA ReadyStep ==
    ASSUME TypeOK, PollInv, EventsInv, ReadyInv, Next
    PROVE  ReadyInv'
  <1>1. OneReady'
    BY OneReadyStep DEF ReadyInv
  <1>2. session \in Nat /\ known \in Nat
    BY DEF TypeOK, GatewayType
  <1>3. session' <= known' /\ (Pending("Ready")' => session' < known')
    <2>1. CASE UNCHANGED session
      BY <1>2, <2>1, KnownEffect DEF ReadyInv
    <2>2. CASE session' = None
      BY <1>2, <2>2, KnownEffect DEF ReadyInv, EventsInv, None
    <2>3. CASE Ready
      BY <1>2, <2>3, ReadyHandled DEF ReadyInv
    <2>. QED
      BY <2>1, <2>2, <2>3, SessionEffect
  <1>. QED
    BY <1>1, <1>3 DEF ReadyInv

------------------------------------------------------------------------------
(* The order of the packets.                                               *)

\* The packets that were sent and not taken.
LEMMA OpusEffect ==
    ASSUME TypeOK, Next
    PROVE  \/ UNCHANGED <<opus, sent_packets>>
           \/ opus' = <<>> /\ UNCHANGED sent_packets
           \/ opus # <<>> /\ opus' = Tail(opus) /\ UNCHANGED sent_packets
           \/ opus' = Append(opus, sent_packets + 1) /\ sent_packets' = sent_packets + 1
              /\ sent_packets + 1 \in 1 .. MaxPackets
  <1>. USE DEF channelVars
  <1>1. CASE Stream \/ Network
    BY <1>1, StreamFrame, NetworkFrame
  <1>2. CASE Poll
    BY <1>2 DEF Poll
  <1>3. CASE Udp
    BY <1>3 DEF Udp, UdpAbsent, UdpSends, UdpPending, UdpErr, UdpClosed, AtUdp
  <1>4. CASE State
    BY <1>4 DEF State, AtState, AtStateOrFault, AtFuture, PassState, PacketPending,
                PacketDiscarded, PacketDispatched, EncryptErr, SendPacketPanics,
                FatalCloses, FatalEnds, FuturePending, FutureResumes, FutureSelects,
                FutureErr, FuturePanics, TakePacket, DrainPackets
  <1>5. CASE Commands
    BY <1>5 DEF Commands, AtCommand, CommandPending, CommandSpeaking, CommandFlush, TakeCommand
  <1>6. CASE Item
    BY <1>6 DEF Item, AtItem, Among, Is, ItemPending, ItemErr, ItemEnd, Reconnected,
                Disconnected, Hello, Ready, Resumed, SessionDescription, ItemPanics,
                ClientConnect, ClientDisconnect, Nothing, ModeErr
  <1>7. CASE send
    <2>1. sent_packets \in 0 .. MaxPackets
      BY DEF TypeOK, ChannelType
    <2>2. sent_packets < MaxPackets /\ sent_packets' = sent_packets + 1
          /\ opus' = Append(opus, sent_packets')
      BY <1>7 DEF send, Queued
    <2>3. sent_packets + 1 \in 1 .. MaxPackets
      BY <2>1, <2>2, ChannelAssumption
    <2>. QED
      BY <2>2, <2>3
  <1>8. CASE Senders /\ ~send
    BY <1>8 DEF Senders, speaking_to, wait_until_flushed, Command
  <1>9. CASE HeartbeatTick \/ UdpTick \/ FutureDone \/ FutureFails \/ FutureLost
    BY <1>9 DEF HeartbeatTick, UdpTick, FutureDone, FutureFails, FutureLost, Future
  <1>10. CASE \E code \in UserCodes : close(code)
    BY <1>10 DEF close
  <1>. QED
    BY <1>1, <1>2, <1>3, <1>4, <1>5, <1>6, <1>7, <1>8, <1>9, <1>10, Steps DEF Quiet

\* They keep their order, and none comes back: a number below all of them, and not
\* above the last one sent, remains so.
LEMMA OpusStep ==
    ASSUME TypeOK, OpusInv, Next
    PROVE  /\ OpusInv'
           /\ \A n \in Nat : n <= sent_packets /\ (\A k \in DOMAIN opus : n < opus[k])
                 => n <= sent_packets' /\ \A k \in DOMAIN opus' : n < opus'[k]
           /\ PacketDispatched => /\ Head(opus) <= sent_packets'
                                  /\ \A k \in DOMAIN opus' : Head(opus) < opus'[k]
  <1>1. opus \in Seq(1 .. MaxPackets) /\ sent_packets \in Nat /\ DOMAIN opus \subseteq Nat
    BY LenProperties, ChannelAssumption DEF TypeOK, ChannelType
  <1>2. \A k \in DOMAIN opus : opus[k] \in Nat
    <2>. DEFINE S == 1 .. MaxPackets
    <2>. HIDE DEF S
    <2>1. ASSUME opus \in Seq(S)
          PROVE  \A k \in DOMAIN opus : opus[k] \in S
      BY <2>1
    <2>. QED
      BY <1>1, <2>1, ChannelAssumption DEF S
  <1>3. CASE UNCHANGED <<opus, sent_packets>> /\ ~PacketDispatched
    BY <1>3 DEF OpusInv
  <1>4. CASE opus' = <<>> /\ UNCHANGED sent_packets /\ ~PacketDispatched
    BY <1>4, EmptySeq DEF OpusInv
  <1>5. CASE opus # <<>> /\ opus' = Tail(opus) /\ UNCHANGED sent_packets
    <2>1. /\ \A i \in DOMAIN opus' :
                i \in Nat /\ i + 1 \in DOMAIN opus /\ opus'[i] = opus[i + 1] /\ 1 < i + 1
          /\ 1 \in DOMAIN opus /\ Head(opus) = opus[1]
      BY <1>1, <1>5, TailElements
    <2>. QED
      BY <1>1, <1>2, <1>5, <2>1 DEF OpusInv
  <1>6. CASE opus' = Append(opus, sent_packets + 1) /\ sent_packets' = sent_packets + 1
             /\ sent_packets + 1 \in 1 .. MaxPackets /\ ~PacketDispatched
    <2>1. /\ \A i \in DOMAIN opus' :
                \/ i \in DOMAIN opus /\ opus'[i] = opus[i]
                \/ i \notin DOMAIN opus /\ opus'[i] = sent_packets + 1
          /\ \A i, j \in DOMAIN opus' : i < j => i \in DOMAIN opus
      BY <1>1, <1>6, AppendElements
    <2>. QED
      BY <1>1, <1>2, <1>6, <2>1 DEF OpusInv
  <1>7. PacketDispatched => opus # <<>> /\ opus' = Tail(opus) /\ UNCHANGED sent_packets
    BY DEF PacketDispatched, TakePacket
  <1>. QED
    BY <1>3, <1>4, <1>5, <1>6, <1>7, OpusEffect

\* A packet that was encrypted remains sane.
SaneAfter(p) ==
    /\ p.session \in 1 .. known'
    /\ Pending("Ready")' => p.session < known'
    /\ p.session = session' => p.nonce < nonce'
    /\ p.id <= sent_packets'
    /\ \A k \in DOMAIN opus' : p.id < opus'[k]

LEMMA RemainsSane ==
    ASSUME TypeOK, PollInv, EventsInv, ReadyInv, OpusInv, Next, NEW p \in Packets, Sane(p)
    PROVE  SaneAfter(p)
  <1>1. /\ p.id \in Nat /\ p.session \in Nat /\ p.nonce \in Nat
        /\ known \in Nat /\ session \in Nat /\ nonce \in Nat
    BY ChannelAssumption DEF TypeOK, GatewayType, Packets
  <1>2. p.id <= sent_packets' /\ \A k \in DOMAIN opus' : p.id < opus'[k]
    BY <1>1, OpusStep DEF Sane
  <1>3. p.session \in 1 .. known' /\ (Pending("Ready")' => p.session < known')
    BY <1>1, KnownEffect DEF Sane
  <1>4. p.session = session' => p.nonce < nonce'
    <2>1. CASE UNCHANGED <<session, nonce>>
      BY <2>1 DEF Sane
    <2>2. CASE PacketDispatched /\ UNCHANGED session
      BY <1>1, <2>2 DEF PacketDispatched, NextNonce, Sane
    <2>3. CASE session' = None
      BY <1>1, <2>3 DEF None, Sane
    <2>4. CASE Ready
      BY <1>1, <2>4, ReadyHandled DEF Sane, ReadyInv
    <2>. QED
      BY <2>1, <2>2, <2>3, <2>4, SessionEffect
  <1>. QED
    BY <1>2, <1>3, <1>4 DEF SaneAfter

\* So is the one that is being encrypted, and it comes after all of them.
LEMMA DispatchedSane ==
    ASSUME TypeOK, PollInv, EventsInv, ReadyInv, OpusInv, Next, PacketDispatched
    PROVE  /\ SaneAfter(Packet(Head(opus)))
           /\ \A p \in Packets : Sane(p) => Earlier(p, Packet(Head(opus)))
  <1>. DEFINE new == Packet(Head(opus))
  <1>1. /\ new \in Packets /\ new.id = Head(opus) /\ new.session = session /\ new.nonce = nonce
        /\ session # 0 /\ opus # <<>> /\ nonce' = nonce + 1 /\ UNCHANGED session
    BY PacketTypes DEF PacketDispatched, AtState, AtStateOrFault, TakePacket, NextNonce,
                       Packet, None
  <1>2. /\ known \in Nat /\ session \in Nat /\ nonce \in Nat /\ new.id \in Nat
    BY <1>1, ChannelAssumption DEF TypeOK, GatewayType, Packets
  <1>3. new.id <= sent_packets' /\ \A k \in DOMAIN opus' : new.id < opus'[k]
    BY <1>1, OpusStep
  <1>4. known' = known /\ (Pending("Ready")' => Pending("Ready"))
    <2>1. Quiet
      BY DEF Quiet, State
    <2>. QED
      BY <2>1, QuietEffect DEF QuietOutcome
  <1>5. new.session \in 1 .. known' /\ (Pending("Ready")' => new.session < known')
    BY <1>1, <1>2, <1>4 DEF ReadyInv
  <1>6. ASSUME NEW p \in Packets, Sane(p)
        PROVE  Earlier(p, new)
    <2>1. opus \in Seq(1 .. MaxPackets)
      BY DEF TypeOK, ChannelType
    <2>2. 1 \in DOMAIN opus /\ Head(opus) = opus[1]
      BY <1>1, <2>1, TailElements
    <2>. QED
      BY <1>1, <1>6, <2>2 DEF Sane, Earlier
  <1>. HIDE DEF new
  <1>7. SaneAfter(new)
    BY <1>1, <1>2, <1>3, <1>5 DEF SaneAfter
  <1>. QED
    BY <1>6, <1>7 DEF new

LEMMA PairsStep ==
    ASSUME TypeOK, PollInv, EventsInv, ReadyInv, OrderInv, Next
    PROVE  PairsInv'
  <1>1. /\ outcoming \in Seq(Packets) /\ wire \in Seq(Packets)
        /\ \A i \in DOMAIN outcoming : outcoming[i] \in Packets
        /\ \A i \in DOMAIN wire : wire[i] \in Packets
    <2>1. outcoming \in Seq(Packets) /\ wire \in Seq(Packets)
      BY PacketTypes
    <2>. QED
      BY <2>1
  <1>. USE DEF OrderInv, PairsInv, Earlier
  <1>2. CASE UNCHANGED <<outcoming, wire>>
    BY <1>2
  <1>3. CASE outcoming' = <<>> /\ UNCHANGED wire
    BY <1>3, EmptySeq
  <1>4. CASE outcoming # <<>> /\ outcoming' = Tail(outcoming)
             /\ wire' = Append(wire, Head(outcoming))
    <2>1. /\ \A i \in DOMAIN outcoming' :
                /\ i \in Nat /\ i + 1 \in DOMAIN outcoming
                /\ outcoming'[i] = outcoming[i + 1] /\ 1 < i + 1
          /\ 1 \in DOMAIN outcoming /\ Head(outcoming) = outcoming[1]
      BY <1>1, <1>4, TailElements
    <2>2. Head(outcoming) \in Packets
      BY <1>1, <1>4, HeadTailProperties
    <2>3. /\ \A i \in DOMAIN wire' :
                (i \in DOMAIN wire /\ wire'[i] = wire[i]) \/ wire'[i] = outcoming[1]
          /\ \A i, j \in DOMAIN wire' : i < j => i \in DOMAIN wire /\ wire'[i] = wire[i]
      BY <1>1, <1>4, <2>1, <2>2, AppendElements
    <2>4. \A i, j \in DOMAIN outcoming' : i < j => Earlier(outcoming'[i], outcoming'[j])
      BY <2>1
    <2>5. \A i, j \in DOMAIN wire' : i < j => Earlier(wire'[i], wire'[j])
      BY <2>1, <2>3
    <2>6. \A i \in DOMAIN wire', j \in DOMAIN outcoming' : Earlier(wire'[i], outcoming'[j])
      BY <2>1, <2>3
    <2>. QED
      BY <2>4, <2>5, <2>6
  <1>5. CASE PacketDispatched /\ UNCHANGED wire
    <2>. DEFINE new == Packet(Head(opus))
    <2>1. outcoming' = Append(outcoming, new) /\ opus # <<>>
      BY <1>5 DEF PacketDispatched, TakePacket
    <2>2. new \in Packets
      BY <2>1, PacketTypes
    <2>3. \A p \in Packets : Sane(p) => Earlier(p, new)
      BY <1>5, DispatchedSane
    <2>. HIDE DEF new
    <2>4. /\ \A i \in DOMAIN outcoming' :
                (i \in DOMAIN outcoming /\ outcoming'[i] = outcoming[i]) \/ outcoming'[i] = new
          /\ \A i, j \in DOMAIN outcoming' :
                i < j => i \in DOMAIN outcoming /\ outcoming'[i] = outcoming[i]
      BY <1>1, <2>1, <2>2, AppendElements
    <2>5. \A i, j \in DOMAIN outcoming' : i < j => Earlier(outcoming'[i], outcoming'[j])
      BY <1>1, <2>3, <2>4
    <2>6. \A i \in DOMAIN wire', j \in DOMAIN outcoming' : Earlier(wire'[i], outcoming'[j])
      BY <1>1, <1>5, <2>3, <2>4
    <2>. QED
      BY <1>5, <2>5, <2>6
  <1>. QED
    BY <1>2, <1>3, <1>4, <1>5, PacketsMove

LEMMA OrderStep ==
    ASSUME TypeOK, PollInv, EventsInv, ReadyInv, OrderInv, Next
    PROVE  OrderInv'
  <1>1. /\ \A i \in DOMAIN outcoming : outcoming[i] \in Packets
        /\ \A i \in DOMAIN wire : wire[i] \in Packets
    <2>1. outcoming \in Seq(Packets) /\ wire \in Seq(Packets)
      BY PacketTypes
    <2>. QED
      BY <2>1
  <1>2. \A p \in Packets : Sane(p) => SaneAfter(p)
    BY RemainsSane DEF OrderInv
  <1>3. PacketDispatched => SaneAfter(Packet(Head(opus)))
    BY DispatchedSane DEF OrderInv
  <1>4. \A i \in DOMAIN outcoming' : SaneAfter(outcoming'[i])
    BY <1>1, <1>2, <1>3, PacketElements DEF OrderInv
  <1>5. \A i \in DOMAIN wire' : SaneAfter(wire'[i])
    BY <1>1, <1>2, PacketElements DEF OrderInv
  <1>6. /\ \A i \in DOMAIN outcoming' : Sane(outcoming[i])'
        /\ \A i \in DOMAIN wire' : Sane(wire[i])'
    BY <1>4, <1>5 DEF SaneAfter, Sane
  <1>7. OpusInv' /\ PairsInv'
    BY OpusStep, PairsStep DEF OrderInv
  <1>. QED
    BY <1>6, <1>7 DEF OrderInv

LEMMA OrderInit == Init => OrderInv
  <1>. SUFFICES ASSUME Init PROVE OrderInv
    OBVIOUS
  <1>1. opus = <<>> /\ outcoming = <<>> /\ wire = <<>>
    BY DEF Init, ChannelInit
  <1>. QED
    BY <1>1, EmptySeq DEF OrderInv, OpusInv, PairsInv

\* IInv holds initially and every step keeps it: the loop over the gateway, the slot and
\* the channels never leaves the states it describes.
THEOREM Inductive ==
    /\ Init => IInv
    /\ IInv /\ [Next]_vars => IInv'
  <1>1. Init => IInv
    BY InitType, HandshakeInit, ReadyInit, OrderInit DEF IInv
  <1>2. ASSUME IInv, UNCHANGED vars
        PROVE  ReadyInv' /\ OrderInv'
    <2>1. UNCHANGED <<inbox, waiting, item, pc, session, known, nonce, sent_packets, opus,
                      outcoming, wire>>
      BY <1>2 DEF vars, channelVars, gatewayVars, streamVars, sessionVars, udpVars
    <2>. QED
      BY <1>2, <2>1 DEF IInv, ReadyInv, OneReady, OrderInv, OpusInv, PairsInv, Sane, Earlier,
                        Pending, Arrived
  <1>3. ASSUME IInv, Next
        PROVE  ReadyInv' /\ OrderInv'
    BY <1>3, ReadyStep, OrderStep DEF IInv, HandshakeInv
  <1>4. IInv /\ [Next]_vars => IInv'
    BY <1>2, <1>3, TypeStep, HandshakeStep DEF IInv
  <1>. QED
    BY <1>1, <1>4

\* The packets leave in the order they were sent in.
THEOREM SendsInOrder == Spec => []SentInOrder
  <1>1. IInv => SentInOrder
    BY DEF IInv, OrderInv, PairsInv, Earlier, SentInOrder
  <1>. QED
    BY <1>1, Inductive, PTL DEF Spec

\* No nonce is used twice with one key.
THEOREM NoncesUnique == Spec => []NonceUnique
  <1>1. IInv => NonceUnique
    <2>. SUFFICES ASSUME IInv, ~resumes, NEW i \in DOMAIN wire, NEW j \in DOMAIN wire,
                         i # j, wire[i].key = wire[j].key
                  PROVE  wire[i].nonce # wire[j].nonce
      BY DEF NonceUnique
    <2>1. wire \in Seq(Packets)
      BY DEF IInv, TypeOK
    <2>2. /\ i \in Nat /\ j \in Nat /\ wire[i] \in Packets /\ wire[j] \in Packets
      BY <2>1
    <2>3. wire[i].nonce \in Nat /\ wire[j].nonce \in Nat
      BY <2>2 DEF Packets
    <2>4. wire[i].session = wire[j].session
      BY DEF IInv, HandshakeInv, KeyInv
    <2>5. Earlier(wire[i], wire[j]) \/ Earlier(wire[j], wire[i])
      BY <2>2 DEF IInv, OrderInv, PairsInv
    <2>. QED
      BY <2>3, <2>4, <2>5 DEF Earlier
  <1>. QED
    BY <1>1, Inductive, PTL DEF Spec

------------------------------------------------------------------------------
(* The width of the nonce.                                                 *)

\* A packet's nonce is less than its number, however often the session was replaced.
NonceFits == \A i \in DOMAIN wire : wire[i].nonce < wire[i].id

\* So is the session's nonce less than that of every packet still to be taken.
NonceInv ==
    /\ nonce <= sent_packets
    /\ \A k \in DOMAIN opus : nonce < opus[k]
    /\ \A i \in DOMAIN outcoming : outcoming[i].nonce < outcoming[i].id
    /\ NonceFits

\* A step leaves the nonce, starts it again, or counts a packet.
LEMMA NonceEffect ==
    ASSUME Next
    PROVE  nonce' = nonce \/ nonce' = 0 \/ PacketDispatched
  <1>. USE DEF sessionVars
  <1>1. CASE Stream \/ Network
    BY <1>1, StreamFrame, NetworkFrame
  <1>2. CASE Poll \/ Udp
    BY <1>2 DEF Poll, Udp, UdpAbsent, UdpSends, UdpPending, UdpErr, UdpClosed, AtUdp
  <1>3. CASE State
    BY <1>3 DEF State, AtFuture, ours, PassState, PacketPending, PacketDiscarded,
                EncryptErr, SendPacketPanics, FatalCloses, FatalEnds, FuturePending,
                FutureResumes, FutureSelects, FutureErr, FuturePanics
  <1>4. CASE Commands
    BY <1>4 DEF Commands, AtCommand, CommandPending, CommandSpeaking, CommandFlush
  <1>5. CASE Item
    BY <1>5 DEF Item, clientVars, ItemPending, ItemErr, ItemEnd, Reconnected, Disconnected,
                Hello, Ready, Resumed, SessionDescription, ItemPanics, ClientConnect,
                ClientDisconnect, Nothing, ModeErr
  <1>6. CASE Senders \/ (\E code \in UserCodes : close(code))
                \/ HeartbeatTick \/ UdpTick \/ FutureDone \/ FutureFails \/ FutureLost
    BY <1>6 DEF Senders, close, HeartbeatTick, UdpTick, FutureDone, FutureFails, FutureLost,
                Future, Outside
  <1>. QED
    BY <1>1, <1>2, <1>3, <1>4, <1>5, <1>6, Steps DEF Quiet

LEMMA NonceStep ==
    ASSUME TypeOK, OpusInv, NonceInv, Next
    PROVE  NonceInv'
  <1>1. /\ opus \in Seq(1 .. MaxPackets) /\ nonce \in Nat /\ sent_packets \in Nat
        /\ sent_packets' \in Nat
    <2>1. sent_packets \in Nat
      BY ChannelAssumption DEF TypeOK, ChannelType
    <2>. QED
      BY <2>1, OpusEffect DEF TypeOK, ChannelType
  <1>2. /\ nonce <= sent_packets'
        /\ \A k \in DOMAIN opus' : nonce < opus'[k]
    BY <1>1, OpusStep DEF NonceInv
  <1>3. \A k \in DOMAIN opus' : opus'[k] \in Nat /\ 0 < opus'[k]
    <2>1. opus' \in Seq(1 .. MaxPackets)
      BY TypeStep DEF TypeOK, ChannelType
    <2>2. \A k \in DOMAIN opus' : opus'[k] \in 1 .. MaxPackets
      <3>. DEFINE S == 1 .. MaxPackets
      <3>. HIDE DEF S
      <3>1. ASSUME opus' \in Seq(S)
            PROVE  \A k \in DOMAIN opus' : opus'[k] \in S
        BY <3>1
      <3>. QED
        BY <2>1, <3>1 DEF S
    <2>. QED
      BY <2>2, ChannelAssumption
  <1>4. CASE PacketDispatched
    <2>1. nonce' = nonce + 1 /\ opus # <<>>
      BY <1>4 DEF PacketDispatched, TakePacket, NextNonce
    <2>2. 1 \in DOMAIN opus /\ Head(opus) = opus[1] /\ Head(opus) \in 1 .. MaxPackets
      BY <1>1, <2>1, TailElements, HeadTailProperties
    <2>3. nonce < Head(opus) /\ Head(opus) \in Nat
      BY <2>2, ChannelAssumption DEF NonceInv
    <2>4. Head(opus) <= sent_packets' /\ \A k \in DOMAIN opus' : Head(opus) < opus'[k]
      BY <1>4, OpusStep
    <2>5. nonce' <= sent_packets' /\ \A k \in DOMAIN opus' : nonce' < opus'[k]
      BY <1>1, <1>3, <2>1, <2>3, <2>4
    <2>6. Packet(Head(opus)).nonce < Packet(Head(opus)).id
      BY <2>3 DEF Packet
    <2>. QED
      BY <2>5, <2>6, PacketElements DEF NonceInv, NonceFits
  <1>5. CASE ~PacketDispatched
    <2>1. nonce' <= sent_packets' /\ \A k \in DOMAIN opus' : nonce' < opus'[k]
      BY <1>1, <1>2, <1>3, <1>5, NonceEffect
    <2>. QED
      BY <1>5, <2>1, PacketElements DEF NonceInv, NonceFits
  <1>. QED
    BY <1>4, <1>5

\* A packet's nonce, counted from the start of its session, is less than its number.
THEOREM NoncesFit == Spec => []NonceFits
  <1>1. Init => NonceInv
    <2>. SUFFICES ASSUME Init PROVE NonceInv
      OBVIOUS
    <2>1. opus = <<>> /\ outcoming = <<>> /\ wire = <<>> /\ nonce = 0 /\ sent_packets = 0
      BY DEF Init, ChannelInit
    <2>. QED
      BY <2>1, EmptySeq DEF NonceInv, NonceFits
  <1>2. IInv /\ NonceInv /\ [Next]_vars => NonceInv'
    <2>1. IInv /\ NonceInv /\ UNCHANGED vars => NonceInv'
      BY DEF vars, channelVars, sessionVars, udpVars, NonceInv, NonceFits
    <2>. QED
      BY <2>1, NonceStep DEF IInv, OrderInv
  <1>3. NonceInv => NonceFits
    BY DEF NonceInv
  <1>. QED
    BY <1>1, <1>2, <1>3, Inductive, PTL DEF Spec

LEMMA Quotient ==
    ASSUME NEW w \in Nat, w > 0, NEW x \in Nat
    PROVE  \E q \in Nat : x = w * q + (x % w)
  <1>1. x = w * (x \div w) + (x % w) /\ x \div w \in Nat
    BY SMT
  <1>. QED
    BY <1>1

LEMMA Multiples ==
    ASSUME NEW w \in Nat, NEW p \in Nat, NEW q \in Nat, p < q
    PROVE  w * p + w <= w * q
  <1>1. PICK k \in Nat : q = p + 1 + k
    OBVIOUS
  <1>2. w * q = w * p + w + w * k
    BY <1>1
  <1>3. w * k \in Nat /\ w * p \in Nat
    OBVIOUS
  <1>. QED
    BY <1>2, <1>3

\* Numbers that lie closer together than w do not meet modulo w.
LEMMA Residues ==
    ASSUME NEW w \in Nat, NEW m \in Nat, NEW n \in Nat, m < n, n - m < w
    PROVE  m % w # n % w
  <1>. SUFFICES ASSUME m % w = n % w PROVE FALSE
    OBVIOUS
  <1>1. PICK p \in Nat : m = w * p + (m % w)
    BY Quotient
  <1>2. PICK q \in Nat : n = w * q + (n % w)
    BY Quotient
  <1>. DEFINE r == n % w
              a == w * p
              b == w * q
  <1>3. r \in Nat /\ a \in Nat /\ b \in Nat
    OBVIOUS
  <1>4. (p < q => a + w <= b) /\ (q <= p => b <= a)
    BY Multiples
  <1>5. m = a + r /\ n = b + r
    BY <1>1, <1>2
  <1>. HIDE DEF r, a, b
  <1>. QED
    BY <1>3, <1>4, <1>5

\* On the wire a nonce is an unsigned integer of some width (2^32 values in the code) that
\* wraps, and counts from a random start.  Two packets of one key have different ones all
\* the same, unless more packets were sent than there are nonces.
NoncesDiffer(width) ==
    ~resumes =>
        \A i, j \in DOMAIN wire : \A start \in 0 .. width - 1 :
            i # j /\ wire[i].key = wire[j].key
                => (start + wire[i].nonce) % width # (start + wire[j].nonce) % width

THEOREM NoncesDoNotWrap ==
    ASSUME NEW CONSTANT width \in Nat, MaxPackets <= width
    PROVE  Spec => []NoncesDiffer(width)
  <1>1. IInv /\ NonceFits /\ NonceUnique => NoncesDiffer(width)
    <2>. SUFFICES ASSUME IInv, NonceFits, NonceUnique, ~resumes,
                         NEW i \in DOMAIN wire, NEW j \in DOMAIN wire,
                         NEW start \in 0 .. width - 1, i # j, wire[i].key = wire[j].key
                  PROVE  (start + wire[i].nonce) % width # (start + wire[j].nonce) % width
      BY DEF NoncesDiffer
    <2>1. wire[i] \in Packets /\ wire[j] \in Packets
      <3>1. wire \in Seq(Packets)
        BY PacketTypes DEF IInv
      <3>. QED
        BY <3>1
    <2>2. /\ wire[i].nonce \in Nat /\ wire[i].id \in 1 .. MaxPackets
          /\ wire[j].nonce \in Nat /\ wire[j].id \in 1 .. MaxPackets
      BY <2>1 DEF Packets
    <2>3. wire[i].nonce < wire[i].id /\ wire[j].nonce < wire[j].id
      BY DEF NonceFits
    <2>4. wire[i].nonce < width /\ wire[j].nonce < width /\ start \in Nat
      BY <2>2, <2>3, ChannelAssumption
    <2>5. wire[i].nonce # wire[j].nonce
      BY DEF NonceUnique
    <2>6. ASSUME NEW m \in Nat, NEW n \in Nat, m < n, n < width
          PROVE  (start + m) % width # (start + n) % width
      <3>1. /\ start + m \in Nat /\ start + n \in Nat
            /\ start + m < start + n /\ (start + n) - (start + m) < width
        BY <2>4, <2>6
      <3>. QED
        BY <3>1, Residues
    <2>7. wire[i].nonce < wire[j].nonce \/ wire[j].nonce < wire[i].nonce
      BY <2>2, <2>5
    <2>. QED
      BY <2>2, <2>4, <2>6, <2>7
  <1>. QED
    BY <1>1, NoncesFit, NoncesUnique, Inductive, PTL DEF Spec
=============================================================================

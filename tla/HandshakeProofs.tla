--------------------------- MODULE HandshakeProofs ---------------------------
(***************************************************************************)
(* The client's first handshake, for every value of the constants: as long *)
(* as nothing fails and the owner does not close, the client says nothing  *)
(* that the gateway rejects.                                               *)
(***************************************************************************)
EXTENDS VoiceClientProofs

------------------------------------------------------------------------------
(* The inductive invariant: how far the handshake is, from where the one   *)
(* message is that carries it on.                                          *)

Calm == faults = 0 /\ closes = 0

\* The item the client handles next is an event of the gateway.
Handing == pc = "stream" /\ item \in ClientEvents

\* There is one connection, the first, and nothing the client did or heard ends it.
FirstConnection ==
    /\ conn \in {"none", "dialing", "dialled", "up"}
    /\ link = IF conn = "up" THEN "Connected" ELSE "Disconnected"
    /\ conn # "up" => quiet /\ stage = "silent"
    /\ stage \in {"silent", "new", "ready", "active"}
    /\ waiting = "None"
    /\ item \notin {"Reconnected", "Disconnected", "Error", "End"}
    /\ state \notin {"FatallyDisconnected", "Resuming"}

\* The gateway has not greeted: the client has nothing to say.
Ungreeted ==
    /\ inbox = <<>> /\ ~Handing
    /\ slot = "None" /\ desk = <<>>
    /\ state = "Disconnected"

\* The Hello is on its way, is being handled, has been answered, or the answer is on
\* its way.
Greeted ==
    \/ /\ inbox = <<Said("Hello")>> /\ ~Handing
       /\ slot = "None" /\ desk = <<>> /\ state = "Disconnected"
    \/ /\ inbox = <<>> /\ pc = "stream" /\ item = "Hello"
       /\ slot = "None" /\ desk = <<>> /\ state = "Disconnected"
    \/ /\ inbox = <<>> /\ ~Handing
       /\ slot = "Identify" /\ desk = <<>> /\ state = "Identifying"
    \/ /\ inbox = <<>> /\ ~Handing
       /\ slot \in {"None", "Heartbeat"} /\ desk = <<"Identify">> /\ state = "Identifying"

\* The client has identified itself, and does not do so a second time.
Granted ==
    /\ ~Pending("Hello") /\ ~Arrived("Close") /\ ~Arrived("Malformed")
    /\ slot \in {"None", "Heartbeat", "SelectProtocol", "Speaking"}
    /\ \A i \in DOMAIN desk : desk[i] \in {"SelectProtocol", "Speaking"}

CleanInv == Calm =>
    /\ FirstConnection
    /\ stage = "silent" => Ungreeted
    /\ stage = "new" => Greeted
    /\ stage \in {"ready", "active"} => Granted


------------------------------------------------------------------------------
(* Every step keeps it.                                                    *)

\* What fails or is closed stays so: before a calm step everything was calm.
LEMMA CalmBefore ==
    ASSUME TypeOK, [Next]_vars, Calm'
    PROVE  /\ Calm
           /\ ~\E code \in UserCodes : close(code)
           /\ ~\E kind \in FaultKinds : Fault(kind)
  <1>1. faults \in Nat /\ closes \in Nat
    BY DEF TypeOK, GatewayType
  <1>2. \A kind \in FaultKinds : ~Fault(kind)
    BY <1>1 DEF Fault, Calm
  <1>3. \A code \in UserCodes : ~close(code)
    BY <1>1 DEF close, Calm
  <1>4. faults' = faults \/ faults' = faults + 1
    <2>. USE DEF gatewayVars, gateway
    <2>1. CASE poll_next
      <3>1. CASE Udp \/ State \/ Commands
        BY <3>1
        DEF Udp, UdpAbsent, UdpSends, UdpPending, UdpErr, UdpClosed, AtUdp, State, AtState,
            AtStateOrFault, AtFuture, PassState, PacketPending, PacketDiscarded,
            PacketDispatched, EncryptErr, SendPacketPanics, FatalCloses, FatalEnds,
            FuturePending, FutureResumes, FutureSelects, FutureErr, FuturePanics, Commands,
            AtCommand, CommandPending, CommandSpeaking, CommandFlush, Fault
      <3>2. CASE Stream
        BY <3>2
        DEF Stream, WsStart, WsDial, WsOpen, WsRefused, WsTransmit, WsTransmitPends,
            WsTransmitFails, WsBeats, WsGivesUp, WsRead, WsBreaks, WsEnds, WsWait, WsCloses,
            WsFinish, Dialled, Connected, Fresh, Forgotten, Sent, Kept, Taken, Shut,
            ClosesConnection, Fault
      <3>3. CASE Item
        BY <3>3
        DEF Item, AtItem, Among, Is, ItemPending, ItemErr, ItemEnd, Reconnected, Disconnected,
            Hello, Ready, Resumed, SessionDescription, ItemPanics, ClientConnect,
            ClientDisconnect, Nothing, ModeErr, Fault
      <3>. QED
        BY <2>1, <3>1, <3>2, <3>3 DEF poll_next
    <2>2. CASE Network
      BY <2>2
      DEF Network, World, Greet, Handle, Tell, Garbles, GatewayCloses, ConnectionLost, Blocks,
          Unblocks, DialOk, DialErr, Fault
    <2>3. CASE Poll \/ Senders \/ HeartbeatTick \/ UdpTick
                 \/ FutureDone \/ FutureFails \/ FutureLost
      BY <2>3
      DEF Poll, Senders, HeartbeatTick, UdpTick, FutureDone, FutureFails, FutureLost, Future,
          Fault
    <2>. QED
      BY <1>3, <2>1, <2>2, <2>3 DEF Next, vars
  <1>5. closes' = closes \/ closes' = closes + 1
    BY DEF Next, vars, poll_next, Poll, Udp, UdpAbsent, UdpSends, UdpPending, UdpErr,
           UdpClosed, AtUdp, State, AtState, AtStateOrFault, AtFuture, PassState,
           PacketPending, PacketDiscarded, PacketDispatched, EncryptErr, SendPacketPanics,
           FatalCloses, FatalEnds, FuturePending, FutureResumes, FutureSelects, FutureErr,
           FuturePanics, Commands, AtCommand, CommandPending, CommandSpeaking, CommandFlush,
           Stream, AtStream, WsStep, WsGoes, WsPends, WsSleeps, WsStart, WsDial, WsOpen,
           WsRefused, WsTransmit, WsTransmitPends, WsTransmitFails, WsBeats, WsGivesUp,
           WsRead, WsBreaks, WsEnds, WsWait, WsCloses, WsFinish, Item, AtItem, Among, Is,
           ItemPending, ItemErr, ItemEnd, Reconnected, Disconnected, Hello, Ready, Resumed,
           SessionDescription, ItemPanics, ClientConnect, ClientDisconnect, Nothing,
           ModeErr, Senders, close, HeartbeatTick, UdpTick, FutureDone, FutureFails,
           FutureLost, Future, Network, gateway
  <1>. QED
    BY <1>1, <1>2, <1>3, <1>4, <1>5 DEF Calm

\* What the client does by itself, and the other threads: it only speaks once it is
\* active or has done with IP discovery.
Own ==
    \/ Poll \/ Udp \/ State \/ Commands
    \/ Senders \/ HeartbeatTick \/ UdpTick \/ FutureDone \/ FutureFails \/ FutureLost

LEMMA OwnEffect ==
    ASSUME Own
    PROVE  /\ UNCHANGED <<conn, inbox, desk, stage, waiting, item, link, quiet>>
           /\ pc = "stream" <=> pc' = "stream"
           /\ state' = state \/ state = "Resuming"
           /\ \/ slot' = slot
              \/ state = "UdpHandshaking" /\ slot' = "SelectProtocol"
              \/ pc = "command" /\ slot' = "Speaking"
  <1>. USE DEF gatewayVars, gateway, streamVars, Goto, Return, Panic
  <1>1. CASE Poll
    BY <1>1 DEF Poll
  <1>2. CASE Udp
    BY <1>2 DEF Udp, UdpAbsent, UdpSends, UdpPending, UdpErr, UdpClosed, AtUdp
  <1>3. CASE State
    BY <1>3 DEF State, AtState, AtStateOrFault, AtFuture, ours, PassState, PacketPending,
                PacketDiscarded, PacketDispatched, EncryptErr, SendPacketPanics,
                FatalCloses, FatalEnds, FuturePending, FutureResumes, FutureSelects,
                SelectProtocol, Ws!Put, FutureErr, FuturePanics
  <1>4. CASE Commands
    BY <1>4 DEF Commands, AtCommand, CommandPending, CommandSpeaking, CommandFlush, Ws!Put
  <1>5. CASE Senders \/ HeartbeatTick \/ UdpTick \/ FutureDone \/ FutureFails \/ FutureLost
    BY <1>5 DEF Senders, Outside, HeartbeatTick, UdpTick, FutureDone, FutureFails,
                FutureLost, Future
  <1>. QED
    BY <1>1, <1>2, <1>3, <1>4, <1>5 DEF Own

\* What is an event of the gateway, and what is none.
LEMMA Kinds ==
    /\ {"Hello", "Ready", "SessionDescription", "Resumed"} \subseteq ClientEvents
    /\ \A op \in {"Polling", "Pending", "Close", "Malformed", "None", "Reconnected",
                  "Disconnected", "Error", "End"} : op \notin ClientEvents
    /\ AllExtras \subseteq ClientEvents /\ "Hello" \notin AllExtras
  BY DEF ClientEvents, AllExtras

LEMMA CleanOwn ==
    ASSUME IInv, CleanInv, Own, Calm
    PROVE  CleanInv'
  <1>1. /\ UNCHANGED <<conn, inbox, desk, stage, waiting, item, link, quiet>>
        /\ pc = "stream" <=> pc' = "stream"
        /\ state' = state \/ state = "Resuming"
        /\ \/ slot' = slot
           \/ state = "UdpHandshaking" /\ slot' = "SelectProtocol"
           \/ pc = "command" /\ slot' = "Speaking"
    BY OwnEffect
  <1>2. pc = "command" => state = "Active"
    BY DEF IInv, HandshakeInv, PollInv
  <1>3. FirstConnection' /\ state' = state
    BY <1>1 DEF CleanInv, FirstConnection
  <1>4. stage = "silent" => Ungreeted'
    BY <1>1, <1>2, <1>3 DEF CleanInv, Ungreeted, Handing
  <1>5. stage = "new" => Greeted'
    BY <1>1, <1>2, <1>3 DEF CleanInv, Greeted, Handing
  <1>6. stage \in {"ready", "active"} => Granted'
    BY <1>1, <1>3 DEF CleanInv, FirstConnection, Granted, Pending, Arrived
  <1>. QED
    BY <1>1, <1>3, <1>4, <1>5, <1>6 DEF CleanInv

\* What the client makes of an item.
LEMMA CleanItem ==
    ASSUME IInv, CleanInv, Item, Calm, Calm', ~\E kind \in FaultKinds : Fault(kind)
    PROVE  CleanInv'
  <1>. USE DEF gatewayVars, gateway, streamVars, Goto, Return, Panic
  <1>0. /\ FirstConnection /\ stage \in {"silent", "new", "ready", "active"}
        /\ pc = "stream" /\ item # "Polling" /\ pc' # "stream"
        /\ UNCHANGED <<conn, inbox, desk, stage, waiting, item, link, quiet>>
    BY DEF CleanInv, FirstConnection, Item, AtItem, Among, Is, Again, ItemPending, ItemErr,
           ItemEnd, Reconnected, Disconnected, Hello, Ready, Resumed, SessionDescription,
           ItemPanics, ClientConnect, ClientDisconnect, Nothing, ModeErr, Ws!Put
  <1>1. ~ModeErr
    BY DEF ModeErr, Fault
  <1>2. ~ItemErr /\ ~ItemEnd /\ ~Reconnected /\ ~Disconnected
    BY <1>0 DEF FirstConnection, ItemErr, ItemEnd, Reconnected, Disconnected, Among, Is
  <1>3. CASE Hello
    <2>1. item = "Hello" /\ slot' = "Identify" /\ state' = "Identifying"
      BY <1>3 DEF Hello, Is, Among, Ws!Put, Identifies
    <2>2. stage = "new"
      BY <1>0, <2>1, Kinds DEF CleanInv, Ungreeted, Granted, Handing, Pending
    <2>3. inbox = <<>> /\ desk = <<>>
      BY <1>0, <2>1, <2>2, Kinds DEF CleanInv, Greeted, Handing
    <2>4. FirstConnection' /\ Greeted'
      BY <1>0, <2>1, <2>3 DEF FirstConnection, Greeted, Handing
    <2>. QED
      BY <1>0, <2>2, <2>4 DEF CleanInv
  <1>4. CASE item \in ClientEvents \ {"Hello"}
    <2>1. stage \in {"ready", "active"}
      BY <1>0, <1>4 DEF CleanInv, Ungreeted, Greeted, Handing
    <2>2. slot' = slot /\ state' \in {state, "UdpHandshaking", "Active"}
      BY <1>1, <1>2, <1>4, Kinds
      DEF Item, AtItem, Among, Is, ItemPending, Hello, Ready, Handshaking, Resumed,
          SessionDescription, ItemPanics, ClientConnect, ClientDisconnect, Nothing, clientVars
    <2>3. FirstConnection' /\ Granted'
      BY <1>0, <2>1, <2>2 DEF CleanInv, FirstConnection, Granted, Pending, Arrived
    <2>. QED
      BY <1>0, <2>1, <2>3 DEF CleanInv
  <1>5. CASE item = "Pending"
    <2>1. ItemPending
      BY <1>1, <1>2, <1>5, Kinds
      DEF Item, AtItem, Among, Is, Hello, Ready, Resumed, SessionDescription, ItemPanics,
          ClientConnect, ClientDisconnect, Nothing
    <2>2. slot' = slot /\ state' = state
      BY <2>1 DEF ItemPending, clientVars
    <2>3. FirstConnection' /\ ~Handing /\ ~Handing'
      BY <1>0, <1>5, <2>2, Kinds DEF FirstConnection, Handing
    <2>. QED
      BY <1>0, <1>5, <2>2, <2>3, Kinds
      DEF CleanInv, Ungreeted, Greeted, Granted, Pending, Arrived
  <1>6. item \in ClientEvents \cup {"Pending"}
    BY <1>0 DEF IInv, TypeOK, Ws!StreamTypeOK, Ws!Items, FirstConnection
  <1>7. item = "Hello" => Hello
    BY <1>1, <1>2
    DEF Item, AtItem, Among, Is, ItemPending, Ready, Resumed, SessionDescription, ItemPanics,
        ClientConnect, ClientDisconnect, Nothing
  <1>. QED
    BY <1>3, <1>4, <1>5, <1>6, <1>7


\* A poll of the WebSocket: the one connection is dialled and opened, what is in the
\* slot leaves, and what has arrived becomes the item.
LEMMA CleanStream ==
    ASSUME IInv, CleanInv, Stream, Calm, Calm'
    PROVE  CleanInv'
  <1>. USE DEF AtStream, WsStep, WsGoes, WsPends, WsSleeps, gatewayVars
  <1>0. /\ FirstConnection /\ TypeOK
        /\ stage = "silent" => Ungreeted
        /\ stage = "new" => Greeted
        /\ stage \in {"ready", "active"} => Granted
    BY DEF CleanInv, IInv
  <1>1. /\ ~WsRefused /\ ~WsTransmitPends /\ ~WsTransmitFails /\ ~WsGivesUp
        /\ ~WsBreaks /\ ~WsEnds /\ ~WsCloses /\ ~WsFinish
    <2>1. ~WsGivesUp
      BY <1>0 DEF WsGivesUp, Fault, Calm, TypeOK, GatewayType
    <2>. QED
      BY <1>0, <2>1
      DEF FirstConnection, WsRefused, WsTransmitPends, WsTransmitFails, SendFails, Blocked,
          WsBreaks, WsEnds, WsCloses, WsFinish
  <1>2. CASE WsStart
    <2>1. /\ UNCHANGED <<conn, inbox, desk, stage, slot, state, link, quiet>>
          /\ item' = "Polling" /\ waiting' = "None" /\ pc = "ws" /\ pc' = "stream"
      BY <1>0, <1>2 DEF WsStart, Ws!Start, Goto, FirstConnection
    <2>2. FirstConnection' /\ ~Handing' /\ ~Handing
      BY <1>0, <2>1, Kinds DEF FirstConnection, Handing
    <2>. QED
      BY <1>0, <2>1, <2>2, Kinds DEF CleanInv, Ungreeted, Greeted, Granted, Pending, Arrived
  <1>3. CASE WsDial \/ WsWait
    <2>1. /\ UNCHANGED <<inbox, desk, stage, slot, state, link, quiet, waiting, pc>>
          /\ item = "Polling" /\ item' = "Pending"
          /\ conn' = conn \/ (conn = "none" /\ conn' = "dialing")
      BY <1>3 DEF WsDial, WsWait, Dialled, Ws!Wait, Ws!Polling
    <2>2. FirstConnection' /\ ~Handing' /\ ~Handing
      BY <1>0, <2>1, Kinds DEF FirstConnection, Handing
    <2>. QED
      BY <1>0, <2>1, <2>2, Kinds DEF CleanInv, Ungreeted, Greeted, Granted, Pending, Arrived
  <1>4. CASE WsOpen
    <2>1. /\ inbox' = <<>> /\ desk' = <<>> /\ stage' = "silent" /\ conn' = "up"
          /\ link' = "Connected" /\ UNCHANGED <<slot, state, item, pc>>
          /\ conn = "dialled" /\ item = "Polling"
          /\ waiting' = IF quiet THEN waiting ELSE "Reconnected"
      BY <1>4 DEF WsOpen, Connected, Fresh, Ws!Open, Ws!Polling
    <2>2. stage = "silent" /\ quiet
      BY <1>0, <2>1 DEF FirstConnection
    <2>3. FirstConnection' /\ Ungreeted'
      BY <1>0, <2>1, <2>2, Kinds DEF FirstConnection, Ungreeted, Handing
    <2>. QED
      BY <2>1, <2>3 DEF CleanInv
  <1>5. CASE WsTransmit
    <2>1. /\ slot # "None" /\ slot' = "None" /\ item = "Polling" /\ item' = "Polling"
          /\ UNCHANGED <<inbox, stage, state, pc, link, quiet, waiting>>
          /\ Sent(slot)
      BY <1>5 DEF WsTransmit, Sent, Ws!Transmit, Ws!Polling
    <2>2. /\ conn = "up" /\ slot # "Close" /\ conn' = "up"
          /\ desk' = IF slot = "Heartbeat" THEN desk ELSE Append(desk, slot)
      BY <1>0, <2>1 DEF Sent, Blocked, FirstConnection, Ungreeted, Greeted, Granted
    <2>3. FirstConnection' /\ ~Handing' /\ ~Handing
      BY <1>0, <2>1, <2>2, Kinds DEF FirstConnection, Handing
    <2>4. stage # "silent"
      BY <1>0, <2>1 DEF Ungreeted
    <2>5. stage = "new" => Greeted'
      <3>. SUFFICES ASSUME stage = "new"
                    PROVE  Greeted'
        OBVIOUS
      <3>1. /\ inbox = <<>> /\ state = "Identifying"
            /\ \/ slot = "Identify" /\ desk = <<>>
               \/ slot = "Heartbeat" /\ desk = <<"Identify">>
        BY <1>0, <2>1, <2>3, Kinds DEF Greeted, Handing
      <3>2. desk' = <<"Identify">>
        <4>1. CASE slot = "Heartbeat"
          BY <2>2, <3>1, <4>1
        <4>2. CASE slot # "Heartbeat"
          <5>1. slot = "Identify" /\ desk = <<>>
            BY <3>1, <4>2
          <5>2. desk' = Append(<<>>, "Identify")
            BY <2>2, <5>1
          <5>. QED
            BY <5>2
        <4>. QED
          BY <4>1, <4>2
      <3>. QED
        BY <2>1, <2>3, <3>1, <3>2 DEF Greeted
    <2>6. stage \in {"ready", "active"} => Granted'
      <3>. SUFFICES ASSUME stage \in {"ready", "active"}
                    PROVE  Granted'
        OBVIOUS
      <3>1. slot \in {"Heartbeat", "SelectProtocol", "Speaking"}
        BY <1>0, <2>1 DEF Granted
      <3>2. desk \in Seq(ClientTexts \cup {"Close"})
            /\ (slot # "Heartbeat" => slot \in ClientTexts \cup {"Close"})
        BY <1>0, <3>1 DEF TypeOK, GatewayType, ClientTexts
      <3>3. \A i \in DOMAIN desk' : desk'[i] \in {"SelectProtocol", "Speaking"}
        BY <1>0, <2>2, <3>1, <3>2, AppendElements DEF Granted
      <3>. QED
        BY <1>0, <2>1, <3>3 DEF Granted, Pending, Arrived
    <2>. QED
      BY <2>1, <2>3, <2>4, <2>5, <2>6 DEF CleanInv, FirstConnection
  <1>6. CASE WsRead
    <2>1. /\ inbox # <<>> /\ inbox' = Tail(inbox) /\ item = "Polling"
          /\ UNCHANGED <<desk, stage, state, pc, slot>> /\ pc = "stream"
      BY <1>6, ReadEffect DEF WsRead
    <2>2. stage \in {"new", "ready", "active"} /\ conn = "up"
      BY <1>0, <2>1 DEF FirstConnection, Ungreeted
    <2>3. Head(inbox).op \notin {"Close", "Malformed"} /\ Arrived(Head(inbox).op)
      <3>1. Arrived(Head(inbox).op)
        BY <1>0, <2>1, ArrivedHead
      <3>2. CASE stage = "new"
        <4>1. inbox = <<Said("Hello")>>
          BY <1>0, <2>1, <3>2 DEF Greeted
        <4>2. Head(inbox) = Said("Hello")
          BY <4>1
        <4>. QED
          BY <3>1, <4>2 DEF Said
      <3>3. CASE stage \in {"ready", "active"}
        BY <1>0, <3>1, <3>3 DEF Granted
      <3>. QED
        BY <2>2, <3>1, <3>2, <3>3
    <2>4. /\ conn' = conn /\ item' = Head(inbox).op /\ UNCHANGED <<link, quiet>>
          /\ waiting' = "None"
      BY <1>0, <1>6, <2>3 DEF WsRead, Taken, Ws!Read, FirstConnection
    <2>5. Head(inbox).op \in ClientEvents
      <3>1. inbox \in Seq(Messages)
        BY <1>0 DEF TypeOK, GatewayType
      <3>2. Head(inbox) \in Messages
        BY <2>1, <3>1, HeadTailProperties
      <3>. QED
        BY <2>3, <3>2 DEF Messages
    <2>6. FirstConnection'
      BY <1>0, <2>1, <2>2, <2>4, <2>5, Kinds DEF FirstConnection
    <2>7. stage = "new" => Greeted'
      <3>. SUFFICES ASSUME stage = "new"
                    PROVE  Greeted'
        OBVIOUS
      <3>1. /\ inbox = <<Said("Hello")>> /\ slot = "None" /\ desk = <<>>
            /\ state = "Disconnected"
        BY <1>0, <2>1 DEF Greeted
      <3>2. inbox' = <<>> /\ item' = "Hello"
        BY <2>1, <2>4, <3>1 DEF Said
      <3>. QED
        BY <2>1, <3>1, <3>2 DEF Greeted
    <2>8. stage \in {"ready", "active"} => Granted'
      <3>. SUFFICES ASSUME stage \in {"ready", "active"}
                    PROVE  Granted'
        OBVIOUS
      <3>1. \A op : Arrived(op)' => Arrived(op)
        BY <1>0, <2>1, ArrivedTail
      <3>2. item' # "Hello"
        BY <1>0, <2>3, <2>4 DEF Granted, Pending
      <3>. QED
        BY <1>0, <2>1, <2>4, <3>1, <3>2, Kinds DEF Granted, Pending
    <2>. QED
      BY <2>1, <2>2, <2>6, <2>7, <2>8 DEF CleanInv
  <1>7. CASE WsBeats
    <2>1. /\ slot = "None" /\ slot' = "Heartbeat" /\ item = "Polling"
          /\ UNCHANGED <<conn, inbox, desk, stage, state, pc, link, quiet, waiting, item>>
          /\ stage # "silent" /\ \A i \in DOMAIN inbox : inbox[i].op # "Hello"
      BY <1>7 DEF WsBeats, Beating, Ws!Beat, Ws!Polling
    <2>2. FirstConnection'
      BY <1>0, <2>1 DEF FirstConnection
    <2>3. stage = "new" => Greeted'
      <3>. SUFFICES ASSUME stage = "new"
                    PROVE  Greeted'
        OBVIOUS
      <3>1. inbox # <<Said("Hello")>>
        BY <2>1 DEF Said
      <3>. QED
        BY <1>0, <2>1, <3>1, Kinds DEF Greeted, Handing
    <2>4. stage \in {"ready", "active"} => Granted'
      BY <1>0, <2>1 DEF Granted, Pending, Arrived
    <2>. QED
      BY <1>0, <2>1, <2>2, <2>3, <2>4 DEF CleanInv, FirstConnection
  <1>. QED
    BY <1>1, <1>2, <1>3, <1>4, <1>5, <1>6, <1>7 DEF Stream

\* The gateway answers in the order of its stages, and finds nothing to reject.
LEMMA CleanNetwork ==
    ASSUME IInv, CleanInv, Network, Calm, ~\E kind \in FaultKinds : Fault(kind)
    PROVE  CleanInv'
  <1>0. /\ FirstConnection /\ TypeOK
        /\ stage = "silent" => Ungreeted
        /\ stage = "new" => Greeted
        /\ stage \in {"ready", "active"} => Granted
        /\ UNCHANGED <<slot, state, pc, link, quiet, waiting, item>>
    BY DEF CleanInv, IInv, Network, Outside, streamVars
  <1>1. /\ ~Garbles /\ ~GatewayCloses /\ ~ConnectionLost /\ ~Blocks /\ ~DialErr
        /\ ~Unblocks
    BY <1>0
    DEF Garbles, GatewayCloses, ConnectionLost, Blocks, DialErr, Fault, Unblocks, Blocked,
        FirstConnection
  <1>2. ASSUME NEW message \in Messages, inbox' = Append(inbox, message)
        PROVE  \A op : Arrived(op)' => Arrived(op) \/ op = message.op
    BY <1>0, <1>2, ArrivedEnd
  <1>3. CASE DialOk
    <2>1. /\ UNCHANGED <<inbox, desk, stage>> /\ conn = "dialing" /\ conn' = "dialled"
      BY <1>3 DEF DialOk
    <2>2. FirstConnection'
      BY <1>0, <2>1 DEF FirstConnection
    <2>. QED
      BY <1>0, <2>1, <2>2 DEF CleanInv, Ungreeted, Greeted, Granted, Handing, Pending, Arrived
  <1>4. CASE Greet
    <2>1. /\ stage = "silent" /\ stage' = "new" /\ UNCHANGED <<conn, desk>> /\ conn = "up"
          /\ inbox' = Append(inbox, Said("Hello"))
      BY <1>0, <1>4 DEF Greet, Up, Answers, FirstConnection
    <2>2. inbox' = <<Said("Hello")>>
      BY <1>0, <2>1 DEF Ungreeted
    <2>3. FirstConnection' /\ Greeted'
      BY <1>0, <2>1, <2>2 DEF FirstConnection, Ungreeted, Greeted, Handing
    <2>. QED
      BY <2>1, <2>3 DEF CleanInv
  <1>5. CASE Tell
    <2>1. PICK op \in Extras : Answers(Said(op), stage)
      BY <1>5 DEF Tell
    <2>2. /\ stage = "active" /\ UNCHANGED <<conn, desk, stage>>
          /\ inbox' = Append(inbox, Said(op))
      BY <1>0, <1>5, <2>1 DEF Tell, Answers, FirstConnection
    <2>3. op \in ClientEvents /\ op \notin {"Hello", "Close", "Malformed"}
      BY Kinds, GatewayAssumption
    <2>4. Said(op) \in Messages /\ Said(op).op = op
      BY <2>3, SaidTypes DEF Said
    <2>5. FirstConnection' /\ Granted'
      BY <1>0, <1>2, <2>2, <2>3, <2>4 DEF FirstConnection, Granted, Pending
    <2>. QED
      BY <2>2, <2>5 DEF CleanInv
  <1>6. CASE Handle
    <2>1. /\ stage # "silent" /\ desk # <<>> /\ desk' = Tail(desk) /\ conn' = conn
          /\ Receives(Head(desk)) /\ conn = "up"
      BY <1>0, <1>6 DEF Handle, Up, FirstConnection
    <2>2. CASE stage = "new"
      <3>1. /\ desk = <<"Identify">> /\ inbox = <<>> /\ slot \in {"None", "Heartbeat"}
            /\ ~Handing
        BY <1>0, <2>1, <2>2 DEF Greeted
      <3>2. desk' = <<>> /\ Head(desk) = "Identify"
        BY <2>1, <3>1
      <3>3. stage' = "ready" /\ inbox' = Append(inbox, Said("Ready"))
        BY <2>1, <2>2, <3>2
        DEF Receives, Identified, Twice, Ignored, Answers
      <3>4. Said("Ready") \in Messages /\ Said("Ready").op = "Ready"
        BY SaidTypes, Kinds DEF Said
      <3>5. ~Arrived("Hello") /\ ~Arrived("Close") /\ ~Arrived("Malformed")
        BY <3>1 DEF Arrived
      <3>6. FirstConnection'
        BY <1>0, <2>1, <3>3 DEF FirstConnection
      <3>7. Granted'
        <4>1. ~Arrived("Hello")' /\ ~Arrived("Close")' /\ ~Arrived("Malformed")'
          BY <1>2, <3>3, <3>4, <3>5
        <4>2. ~(pc' = "stream" /\ item' = "Hello")
          BY <1>0, <3>1, Kinds DEF Handing
        <4>3. waiting' # "Hello"
          BY <1>0 DEF FirstConnection
        <4>. QED
          BY <1>0, <3>1, <3>2, <4>1, <4>2, <4>3 DEF Granted, Pending
      <3>. QED
        BY <3>3, <3>6, <3>7 DEF CleanInv
    <2>3. CASE stage \in {"ready", "active"}
      <3>1. /\ \A i \in DOMAIN desk' : desk'[i] \in {"SelectProtocol", "Speaking"}
            /\ Head(desk) \in {"SelectProtocol", "Speaking"}
        BY <1>0, <2>1, <2>3, DeskTail DEF Granted
      <3>2. \/ UNCHANGED <<inbox, stage>>
            \/ stage' = "active" /\ inbox' = Append(inbox, Said("SessionDescription"))
        BY <2>1, <2>3, <3>1
        DEF Receives, TooEarly, ProtocolSelected, Ignored, Answers
      <3>3. Said("SessionDescription") \in Messages
            /\ Said("SessionDescription").op = "SessionDescription"
        BY SaidTypes, Kinds DEF Said
      <3>4. \A op \in {"Hello", "Close", "Malformed"} : Arrived(op)' => Arrived(op)
        BY <1>2, <3>2, <3>3 DEF Arrived
      <3>5. FirstConnection' /\ stage' \in {"ready", "active"}
        BY <1>0, <2>1, <2>3, <3>2 DEF FirstConnection
      <3>6. Granted'
        BY <1>0, <2>3, <3>1, <3>4 DEF Granted, Pending
      <3>. QED
        BY <3>5, <3>6 DEF CleanInv
    <2>. QED
      BY <1>0, <2>1, <2>2, <2>3 DEF FirstConnection
  <1>. QED
    BY <1>1, <1>3, <1>4, <1>5, <1>6 DEF Network, World

LEMMA CleanStep == IInv /\ CleanInv /\ [Next]_vars => CleanInv'
  <1>. SUFFICES ASSUME IInv, CleanInv, [Next]_vars, Calm'
                PROVE  CleanInv'
    BY DEF CleanInv
  <1>1. /\ Calm
        /\ ~\E code \in UserCodes : close(code)
        /\ ~\E kind \in FaultKinds : Fault(kind)
    BY CalmBefore DEF IInv
  <1>2. CASE UNCHANGED vars
    BY <1>2
    DEF CleanInv, Calm, FirstConnection, Ungreeted, Greeted, Granted, Handing, Pending,
        Arrived, vars, gatewayVars, streamVars
  <1>3. CASE Next
    <2>1. Own \/ Item \/ Stream \/ Network
      BY <1>1, <1>3 DEF Next, poll_next, Own
    <2>. QED
      BY <1>1, <2>1, CleanOwn, CleanItem, CleanStream, CleanNetwork
  <1>. QED
    BY <1>2, <1>3

LEMMA CleanStart == Init => CleanInv
  BY Kinds
  DEF Init, GatewayInit, Ws!StreamInit, CleanInv, FirstConnection, Ungreeted, Handing

\* As long as nothing fails and the owner does not close, the gateway never closes
\* the connection: the client identifies itself once, in answer to the Hello, and
\* selects a protocol or says that it speaks only after the Ready.
THEOREM HandshakeIsClean == Spec => []CleanHandshake
  <1>1. CleanInv => CleanHandshake
    <2>. SUFFICES ASSUME CleanInv, Calm
                  PROVE  ~Arrived("Close")
      BY DEF CleanHandshake, Calm, Arrived
    <2>1. stage \in {"silent", "new"} => inbox \in {<<>>, <<Said("Hello")>>}
      BY DEF CleanInv, Ungreeted, Greeted
    <2>. QED
      BY <2>1 DEF CleanInv, FirstConnection, Granted, Arrived, Said
  <1>2. Spec => []IInv
    BY Inductive, PTL DEF Spec
  <1>. QED
    BY <1>1, <1>2, CleanStart, CleanStep, PTL DEF Spec
=============================================================================

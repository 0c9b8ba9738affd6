----------------------------- MODULE VoiceClient -----------------------------
(***************************************************************************)
(* VoiceClient of src/client/mod.rs: it drives a VoiceWebSocket and a      *)
(* VoiceUdp, leads the handshake with the voice gateway, encrypts and      *)
(* sends the packets of its channel and carries out its commands.          *)
(*                                                                         *)
(* The WebSocket is the stream GatewayStream promises, over the            *)
(* connections of VoiceGateway; the UDP connection is a queue that sends a *)
(* packet now and then.  pc names the part of poll_next that runs next:    *)
(* other threads send, and the gateway and the network go on, in between   *)
(* two parts of one poll.  The owner's close() needs &mut self and happens *)
(* when no poll runs.                                                      *)
(*                                                                         *)
(* A session is named by its number among those the gateway has granted, a *)
(* key by the session it is the key of, a nonce by how often the session's *)
(* nonce had been incremented.                                             *)
(***************************************************************************)
EXTENDS MessageChannel, VoiceGateway, FiniteSets

CONSTANTS
    UserCodes,      \* the codes close() is called with
    MaxCloses,      \* ... and how often
    Heartbeats      \* whether the heartbeat interval ever elapses

ASSUME ClientAssumption ==
    UserCodes \subseteq Nat /\ MaxCloses \in Nat /\ Heartbeats \in BOOLEAN

VARIABLES
    \* the WebSocket
    link, quiet, slot, waiting, item,
    \* fields of VoiceClient
    state,          \* VoiceClientState
    session,        \* None (0) or the session's number
    nonce,          \* ... how many packets were encrypted in it
    given_initial_users,
    encryptor,      \* None (0) or the session of its key
    speaking,
    udp,            \* "none", "open" or "closed"
    udp_future,     \* "none", or how far the future is
    \* VoiceUdp
    outcoming,      \* packets to be sent
    flushed,        \* whoever waits for them to be sent
    \* the poll
    pc,
    ret,            \* what the last poll returned, "Polling" while it runs
    closes,         \* calls of close() so far
    \* history
    wire,           \* the packets sent
    answered        \* the flushes that were answered

Ws == INSTANCE GatewayStream WITH Events <- ClientEvents, Texts <- ClientTexts

gateway == <<conn, inbox, desk, stage, known, resumes>>
streamVars == <<link, quiet, slot, waiting, item>>
sessionVars == <<session, nonce, given_initial_users, encryptor>>
udpVars == <<udp, outcoming, flushed, wire, answered>>
vars == <<channelVars, taskVars, gatewayVars, streamVars, sessionVars, udpVars,
          state, speaking, udp_future, pc, ret, closes>>

None == 0

States == {"Disconnected", "FatallyDisconnected", "Resuming", "Identifying",
           "UdpHandshaking", "Active"}

\* "running": not done; "lost": the answer of IP discovery never comes;
\* "spent": it has returned an error and must not be polled again.
Futures == {"none", "running", "lost", "ok", "err", "spent"}

\* VoiceClientEvent, without what it carries; "Error" for Err, "None" for the end.
ClientItems == {"Connected", "Users", "Left", "Joined", "Disconnected", "Resumed",
                "Error", "None"}

Packets == [id : 1 .. MaxPackets, session : Nat, key : Nat, nonce : Nat]
Packet(id) == [id |-> id, session |-> session, key |-> encryptor, nonce |-> nonce]

Init ==
    /\ ChannelInit /\ GatewayInit /\ Ws!StreamInit
    /\ wake = TRUE /\ interest = {}
    /\ state = "Disconnected" /\ speaking = FALSE
    /\ session = None /\ nonce = 0 /\ given_initial_users = FALSE /\ encryptor = None
    /\ udp = "none" /\ udp_future = "none" /\ outcoming = <<>> /\ flushed = {}
    /\ pc = "idle" /\ ret = "Pending" /\ closes = 0
    /\ wire = <<>> /\ answered = {}

------------------------------------------------------------------------------
(* Ways on: to another part of the poll, or out of it.                     *)

Goto(part) == pc' = part /\ UNCHANGED ret

\* Poll::Ready.  The consumer asks for the next event, except after the end.
Return(event) ==
    /\ pc' = "idle" /\ ret' = event
    /\ wake' = (event # "None")
    /\ UNCHANGED interest

Panic == Goto("panic") /\ UNCHANGED taskVars

Poll ==
    /\ pc = "idle" /\ wake /\ ret # "None"
    /\ pc' = "udp" /\ ret' = "Polling" /\ wake' = FALSE
    /\ UNCHANGED <<interest, channelVars, gatewayVars, streamVars, sessionVars, udpVars,
                   state, speaking, udp_future, closes>>

------------------------------------------------------------------------------
(* The UDP connection, polled first in every iteration.                    *)

AtUdp ==
    /\ pc = "udp"
    /\ UNCHANGED <<channelVars, gateway, streamVars, sessionVars,
                   state, speaking, udp_future, closes>>

UdpAbsent ==
    /\ AtUdp /\ udp = "none"
    /\ Goto("state")
    /\ UNCHANGED <<taskVars, udpVars, faults>>

\* 20 ms have passed since the last packet, and there is one.
UdpSends ==
    /\ AtUdp /\ udp = "open" /\ outcoming # <<>>
    /\ wire' = Append(wire, Head(outcoming))
    /\ outcoming' = Tail(outcoming)
    /\ Goto("udp")
    /\ UNCHANGED <<taskVars, udp, flushed, answered, faults>>

\* Mutant: no waker is registered with the interval.
NoInterval == {}
Interval == {"udp"}

UdpPending ==
    /\ AtUdp /\ udp = "open"
    /\ IF outcoming = <<>>
       THEN answered' = answered \cup flushed /\ flushed' = {}
       ELSE UNCHANGED <<answered, flushed>>
    /\ interest' = interest \cup Interval \cup (IF outcoming = <<>> THEN {"queue"} ELSE {})
    /\ Goto("state")
    /\ UNCHANGED <<wake, udp, outcoming, wire, faults>>

\* A packet or the keepalive cannot be sent; the packet stays the next.  Mutant: it is
\* lost.
UdpErrLoses ==
    /\ AtUdp /\ udp = "open" /\ outcoming # <<>>
    /\ Fault("udp")
    /\ Return("Error")
    /\ outcoming' = Tail(outcoming) /\ UNCHANGED <<udp, flushed, wire, answered>>

UdpErr ==
    /\ AtUdp /\ udp = "open"
    /\ Fault("udp")
    /\ Return("Error")
    /\ UNCHANGED udpVars

\* A closed socket forgets its packets, answers whoever waits, and is dropped.
UdpClosed ==
    /\ AtUdp /\ udp = "closed"
    /\ udp' = "none" /\ outcoming' = <<>>
    /\ answered' = answered \cup flushed /\ flushed' = {}
    /\ Goto("state")
    /\ UNCHANGED <<taskVars, wire, faults>>

------------------------------------------------------------------------------
(* The state.                                                              *)

AtStateOrFault ==
    /\ pc = "state"
    /\ UNCHANGED <<gateway, link, quiet, waiting, item,
                   session, given_initial_users, encryptor, closes, wire, answered>>

AtState == AtStateOrFault /\ UNCHANGED faults

\* What this part may change besides.
ours == <<slot, nonce, udp, outcoming, flushed, state, speaking, udp_future>>

\* Nothing is to be done before the WebSocket is polled.
PassState ==
    /\ AtState
    /\ \/ state \in {"Disconnected", "Identifying"}
       \/ state \in {"Resuming", "UdpHandshaking"} /\ udp_future = "none"
    /\ Goto("ws")
    /\ UNCHANGED <<taskVars, channelVars, ours>>

\* poll_send_packet.  queued_packet is never Some.
PacketPending ==
    /\ AtState /\ state = "Active" /\ session # None /\ opus = <<>>
    /\ interest' = interest \cup {"opus"}
    /\ Goto("command")
    /\ UNCHANGED <<wake, channelVars, ours>>

PacketDiscarded ==
    /\ AtState /\ state = "Active" /\ session # None
    /\ TakePacket
    /\ ~speaking
    /\ Goto("command")
    /\ UNCHANGED <<taskVars, ours>>

\* The nonce after a packet, and a mutant that goes back.
LastNonce == nonce - 1
NextNonce == nonce + 1

\* dispatch_packet and the UDP connection's send.
PacketDispatched ==
    /\ AtState /\ state = "Active" /\ session # None
    /\ TakePacket
    /\ speaking /\ encryptor # None /\ udp # "none"
    /\ outcoming' = Append(outcoming, Packet(Head(opus)))
    /\ nonce' = NextNonce
    /\ Notify({"queue"})
    /\ Goto("command")
    /\ UNCHANGED <<slot, udp, flushed, state, speaking, udp_future>>

\* The packet cannot be encrypted, and is gone; the nonce stays for the next.
EncryptErr ==
    /\ AtStateOrFault /\ state = "Active" /\ session # None
    /\ TakePacket
    /\ speaking /\ encryptor # None
    /\ Fault("encrypt")
    /\ Return("Error")
    /\ UNCHANGED ours

\* Without a session, or with a packet to send and no encryptor or no connection.
SendPacketPanics ==
    /\ AtState /\ state = "Active"
    /\ \/ session = None
       \/ opus # <<>> /\ speaking /\ (encryptor = None \/ udp = "none")
    /\ Panic
    /\ UNCHANGED <<channelVars, ours>>

\* The packets are dropped; the connection is closed, and dropped in the next
\* iteration.
FatalCloses ==
    /\ AtState /\ state = "FatallyDisconnected" /\ udp # "none"
    /\ DrainPackets
    /\ udp' = "closed"
    /\ interest' = (interest \cup {"opus"}) \ {"udp"}
    /\ Goto("udp")
    /\ UNCHANGED <<wake, slot, nonce, outcoming, flushed, state, speaking, udp_future>>

FatalEnds ==
    /\ AtState /\ state = "FatallyDisconnected" /\ udp = "none"
    /\ DrainPackets
    /\ Return("None")
    /\ UNCHANGED ours

AtFuture == AtState /\ state \in {"Resuming", "UdpHandshaking"} /\ UNCHANGED channelVars

\* ready! returns before the WebSocket is polled.
FuturePending ==
    /\ AtFuture /\ udp_future \in {"running", "lost"}
    /\ pc' = "idle" /\ ret' = "Pending"
    /\ interest' = interest \cup {"future"} /\ UNCHANGED wake
    /\ UNCHANGED ours

\* The new connection takes the place of the old one with what that one had queued.
NewUdp ==
    /\ udp' = "open" /\ outcoming' = <<>> /\ flushed' = {}
    /\ interest' = interest \ {"udp", "queue"}

\* After a Resumed.
FutureResumes ==
    /\ AtFuture /\ state = "Resuming" /\ udp_future = "ok"
    /\ NewUdp /\ udp_future' = "none"
    /\ state' = "Active"
    /\ pc' = "idle" /\ ret' = "Resumed" /\ wake' = TRUE
    /\ UNCHANGED <<slot, nonce, speaking>>

\* What is sent once IP discovery has succeeded.  Mutant: nothing.
SelectNothing == UNCHANGED slot
SelectProtocol == Ws!Put("SelectProtocol")

FutureSelects ==
    /\ AtFuture /\ state = "UdpHandshaking" /\ udp_future = "ok"
    /\ NewUdp /\ udp_future' = "none"
    /\ SelectProtocol
    /\ Goto("ws")
    /\ UNCHANGED <<wake, nonce, state, speaking>>

\* `?` returns before the future is dropped.
FutureErr ==
    /\ AtFuture /\ udp_future = "err"
    /\ udp_future' = "spent"
    /\ Return("Error")
    /\ UNCHANGED <<slot, nonce, udp, outcoming, flushed, state, speaking>>

\* An async fn is polled after it has completed.
FuturePanics ==
    /\ AtFuture /\ udp_future = "spent"
    /\ Panic
    /\ UNCHANGED ours

------------------------------------------------------------------------------
(* One command per iteration, after the packet of an active client.        *)

AtCommand ==
    /\ pc = "command"
    /\ UNCHANGED <<gatewayVars, sessionVars, state, udp, outcoming, wire, answered,
                   udp_future, closes>>

CommandPending ==
    /\ AtCommand /\ commands = <<>>
    /\ interest' = interest \cup {"command"}
    /\ Goto("ws")
    /\ UNCHANGED <<wake, channelVars, streamVars, flushed, speaking>>

CommandSpeaking ==
    /\ AtCommand
    /\ TakeCommand /\ Head(commands).kind = "Speaking"
    /\ speaking' = Head(commands).value
    /\ Ws!Put("Speaking")
    /\ Goto("ws")
    /\ UNCHANGED <<taskVars, flushed>>

CommandFlush ==
    /\ AtCommand
    /\ TakeCommand /\ Head(commands).kind = "WaitUntilFlushed"
    /\ IF udp = "none"
       THEN Goto("panic") /\ UNCHANGED flushed
       ELSE Goto("ws") /\ flushed' = flushed \cup {Head(commands).mark}
    /\ UNCHANGED <<taskVars, streamVars, speaking>>

------------------------------------------------------------------------------
(* The WebSocket: what GatewayStream does, on the connection it is about.  *)

AtStream == UNCHANGED <<channelVars, sessionVars, udpVars, state, speaking, udp_future, closes>>

WsStart ==
    /\ pc = "ws" /\ AtStream
    /\ Ws!Start
    /\ Goto("stream")
    /\ UNCHANGED <<taskVars, gatewayVars>>

WsStep == pc = "stream" /\ AtStream /\ UNCHANGED <<pc, ret>>
WsGoes == WsStep /\ UNCHANGED taskVars

\* Pending: the waker is registered with the dial or the connection.
WsSleeps ==
    /\ WsStep
    /\ interest' = interest \cup {"ws"} /\ UNCHANGED wake

WsPends == WsSleeps /\ Ws!Wait

WsDial == Dialled /\ link = "Disconnected" /\ WsPends
WsOpen == Connected /\ Ws!Open /\ WsGoes
WsRefused == conn = "refused" /\ Forgotten /\ Ws!Fail /\ WsGoes

WsTransmit == ~Blocked /\ Ws!Transmit /\ item' = "Polling" /\ Sent(slot) /\ WsGoes

\* The frame is held up.
WsTransmitPends == Blocked /\ Ws!Transmit /\ item' = "Pending" /\ Sent(slot) /\ WsSleeps

\* start_send or the flush fails, the latter also for a frame that was held up.
WsTransmitFails ==
    /\ SendFails /\ (slot # "None" \/ conn = "broken")
    /\ Ws!TransmitFails /\ WsGoes
    /\ IF link = "Closed" THEN Kept ELSE Forgotten

\* There is a heartbeater: its interval was given by the Hello of this connection.
Beating ==
    /\ link = "Connected" /\ stage # "silent" /\ conn \notin {"held", "broken"}
    /\ \A i \in DOMAIN inbox : inbox[i].op # "Hello"

WsBeats == Heartbeats /\ Beating /\ Ws!Beat /\ WsGoes /\ UNCHANGED gatewayVars

\* The close frame of a zombied connection is queued behind the sending of the poll.
WsGivesUp ==
    /\ Beating /\ Fault("silence")
    /\ Ws!GiveUp /\ WsGoes
    /\ UNCHANGED gateway

\* Nothing is sent first.  (GatewayStream does not tell whether the close frame was
\* queued by this poll.)
ZombieClose == slot = "Close" /\ link = "Disconnected"
Reading == slot = "None" \/ ZombieClose

WsRead ==
    /\ Incoming /\ Reading
    /\ WsGoes /\ Taken
    /\ CASE Head(inbox).op = "Close" -> Ws!Drop(from_close_code(Head(inbox).code))
         [] Head(inbox).op = "Malformed" -> Ws!Fail
         [] OTHER -> Ws!Read(Head(inbox).op)

\* The error of a broken connection, and the end of the stream.
WsBreaks ==
    /\ conn = "lost" /\ inbox = <<>> /\ slot = "None" /\ link = "Connected"
    /\ WsGoes /\ Shut
    /\ Ws!Drop("Disconnected")

WsEnds ==
    /\ conn \in {"lost", "shut"} /\ Reading
    /\ conn = "lost" => inbox = <<>>
    /\ WsGoes /\ Forgotten
    /\ Ws!Lose

WsWait ==
    /\ link # "Closed"
    /\ \/ conn = "dialing"
       \/ conn = "held" /\ slot = "None"
       \/ Up /\ Reading /\ inbox = <<>>
    /\ WsPends /\ UNCHANGED gatewayVars

\* poll_close of a closed socket.
WsCloses ==
    /\ link = "Closed" /\ slot = "None" /\ ~HandshakeOver
    /\ WsPends /\ ClosesConnection

WsFinish ==
    /\ link = "Closed" /\ HandshakeOver
    /\ slot = "None" \/ conn \in {"none", "dialing", "dialled", "refused"}
    /\ WsGoes /\ Ws!Finish
    /\ UNCHANGED gatewayVars

------------------------------------------------------------------------------
(* What comes of the item.                                                 *)

AtItem == pc = "stream" /\ item # "Polling" /\ UNCHANGED <<channelVars, udpVars, closes>>

Among(items) == item \in items /\ AtItem /\ UNCHANGED gatewayVars
Is(something) == Among({something})

\* Ok(None): the loop goes round.
Again == Goto("udp") /\ UNCHANGED taskVars

clientVars == <<sessionVars, state, speaking, udp_future>>

\* What is handed on, and what is passed over: a HeartbeatAck, a Speaking and a
\* ClientConnect without users.
ItemPending ==
    /\ Is("Pending")
    /\ pc' = "idle" /\ ret' = "Pending"
    /\ UNCHANGED <<taskVars, streamVars, clientVars>>

ItemErr == Is("Error") /\ Return("Error") /\ UNCHANGED <<streamVars, clientVars>>
ClientDisconnect == Is("ClientDisconnect") /\ Return("Left") /\ UNCHANGED <<streamVars, clientVars>>
Nothing == Is("Other") /\ Again /\ UNCHANGED <<streamVars, clientVars>>

ItemEnd ==
    /\ Is("End")
    /\ state' = "FatallyDisconnected"
    /\ Again
    /\ UNCHANGED <<streamVars, sessionVars, speaking, udp_future>>

Reconnected ==
    /\ Is("Reconnected")
    /\ speaking' = FALSE /\ state' = "Resuming"
    /\ Ws!Put("Resume")
    /\ Again
    /\ UNCHANGED <<sessionVars, udp_future>>

Disconnected ==
    /\ Is("Disconnected")
    /\ speaking' = FALSE
    /\ IF link = "Closed"
       THEN /\ state' = "FatallyDisconnected"
            /\ session' = None /\ nonce' = 0 /\ given_initial_users' = FALSE
            /\ encryptor' = None
            /\ Again
       ELSE /\ state' = "Disconnected"
            /\ Return("Disconnected")
            /\ UNCHANGED sessionVars
    /\ UNCHANGED <<streamVars, udp_future>>

\* What answers a Hello, and a mutant that resumes a session there is not.
ResumesAtOnce == "Resume"
Identifies == "Identify"

Hello ==
    /\ Is("Hello")
    /\ given_initial_users' = FALSE /\ state' = "Identifying"
    /\ Ws!Put(Identifies)
    /\ Again
    /\ UNCHANGED <<session, nonce, encryptor, speaking, udp_future>>

\* The state in which IP discovery goes on, and a mutant that does not wait for it.
ActiveAtOnce == "Active"
Handshaking == "UdpHandshaking"

\* The session in a Ready that is read is the last the gateway has granted.
Ready ==
    /\ Is("Ready")
    /\ session' = known /\ nonce' = 0 /\ given_initial_users' = FALSE
    /\ state' = Handshaking /\ udp_future' = "running"
    /\ Again
    /\ UNCHANGED <<streamVars, encryptor, speaking>>

Resumed ==
    /\ Is("Resumed") /\ session # None
    /\ udp_future' = "running"
    /\ Again
    /\ UNCHANGED <<streamVars, sessionVars, state, speaking>>

\* The encryptor with the key of the description, and a mutant that keeps one it has.
FirstEncryptor == IF encryptor = None THEN known ELSE encryptor
NewEncryptor == known

SessionDescription ==
    /\ Is("SessionDescription") /\ session # None
    /\ encryptor' = NewEncryptor
    /\ state' = "Active"
    /\ Return("Connected")
    /\ UNCHANGED <<streamVars, session, nonce, given_initial_users, speaking, udp_future>>

\* The initial list of users comes first.
ClientConnect ==
    /\ Is("ClientConnect") /\ session # None
    /\ given_initial_users' = TRUE
    /\ Return(IF given_initial_users THEN "Joined" ELSE "Users")
    /\ UNCHANGED <<streamVars, session, nonce, encryptor, state, speaking, udp_future>>

\* session.unwrap().
ItemPanics ==
    /\ Among({"Resumed", "SessionDescription", "ClientConnect"})
    /\ session = None
    /\ Panic
    /\ UNCHANGED <<streamVars, clientVars>>

\* No mode of a Ready is supported, or not the mode of a SessionDescription.
ModeErr ==
    /\ AtItem
    /\ item = "Ready" \/ (item = "SessionDescription" /\ session # None)
    /\ Fault("mode")
    /\ Return("Error")
    /\ UNCHANGED <<gateway, streamVars, clientVars>>

------------------------------------------------------------------------------
(* The other threads, the owner, and the world.                            *)

Outside == UNCHANGED <<sessionVars, state, speaking, pc, ret>>

Senders ==
    /\ send \/ (\E value \in Values : speaking_to(value)) \/ wait_until_flushed
    /\ Outside
    /\ UNCHANGED <<gatewayVars, streamVars, udpVars, udp_future, closes>>

close(code) ==
    /\ pc = "idle" /\ ret # "None" /\ closes < MaxCloses
    /\ Outside
    /\ closes' = closes + 1
    /\ Ws!Close(IF code \in GracefulCodes THEN "Closed" ELSE from_close_code(code),
                code \in GracefulCodes)
    /\ wake' = TRUE
    /\ UNCHANGED <<interest, channelVars, gatewayVars, udpVars, udp_future>>

Network ==
    /\ World
    /\ Outside
    /\ UNCHANGED <<channelVars, streamVars, udpVars, udp_future, closes>>

\* The heartbeat interval.
HeartbeatTick ==
    /\ Heartbeats /\ Beating /\ "ws" \in interest
    /\ Outside
    /\ Notify({"ws"})
    /\ UNCHANGED <<channelVars, gatewayVars, streamVars, udpVars, udp_future, closes>>

\* The interval of the UDP connection.
UdpTick ==
    /\ udp = "open" /\ "udp" \in interest
    /\ Outside
    /\ Notify({"udp"})
    /\ UNCHANGED <<channelVars, gatewayVars, streamVars, udpVars, udp_future, closes>>

Future ==
    /\ udp_future = "running"
    /\ Outside
    /\ Notify({"future"})
    /\ UNCHANGED <<channelVars, gateway, streamVars, udpVars, closes>>

FutureDone == Future /\ udp_future' = "ok" /\ UNCHANGED faults
FutureFails == Future /\ udp_future' = "err" /\ Fault("connect")

\* Only IP discovery waits for an answer.
FutureLost ==
    /\ udp_future = "running" /\ state = "UdpHandshaking"
    /\ Outside
    /\ udp_future' = "lost" /\ Fault("datagram")
    /\ UNCHANGED <<taskVars, channelVars, gateway, streamVars, udpVars,
                   closes>>

------------------------------------------------------------------------------
Udp == UdpAbsent \/ UdpSends \/ UdpPending \/ UdpErr \/ UdpClosed

State ==
    \/ PassState
    \/ PacketPending \/ PacketDiscarded \/ PacketDispatched \/ EncryptErr \/ SendPacketPanics
    \/ FatalCloses \/ FatalEnds
    \/ FuturePending \/ FutureResumes \/ FutureSelects \/ FutureErr \/ FuturePanics

Commands == CommandPending \/ CommandSpeaking \/ CommandFlush

Stream ==
    \/ WsStart \/ WsDial \/ WsOpen \/ WsRefused
    \/ WsTransmit \/ WsTransmitPends \/ WsTransmitFails \/ WsBeats \/ WsGivesUp
    \/ WsRead \/ WsBreaks \/ WsEnds \/ WsWait \/ WsCloses \/ WsFinish

Item ==
    \/ ItemPending \/ ItemErr \/ ItemEnd
    \/ Reconnected \/ Disconnected
    \/ Hello \/ Ready \/ Resumed \/ SessionDescription \/ ItemPanics
    \/ ClientConnect \/ ClientDisconnect \/ Nothing \/ ModeErr

poll_next == Udp \/ State \/ Commands \/ Stream \/ Item

Next ==
    \/ Poll \/ poll_next
    \/ Senders
    \/ \E code \in UserCodes : close(code)
    \/ Network \/ HeartbeatTick \/ UdpTick
    \/ FutureDone \/ FutureFails \/ FutureLost

Spec == Init /\ [][Next]_vars

\* The runtime polls the task that was woken, a poll goes on to its end, a queued
\* packet does not miss every tick, and the gateway, a dial and a connect() to a UDP
\* address answer, and a connection takes writes again, unless a fault says otherwise.
FairSpec ==
    /\ Spec
    /\ WF_vars(Poll \/ poll_next) /\ SF_vars(UdpSends)
    /\ WF_vars(UdpTick) /\ WF_vars(FutureDone)
    /\ WF_vars(Network /\ (Greet \/ Handle \/ Unblocks \/ DialOk))

TypeOK ==
    /\ ChannelType /\ GatewayType
    /\ Ws!StreamTypeOK
    /\ wake \in BOOLEAN
    /\ interest \subseteq {"ws", "opus", "command", "udp", "queue", "future"}
    /\ state \in States /\ speaking \in BOOLEAN
    /\ session \in Nat /\ nonce \in Nat /\ given_initial_users \in BOOLEAN
    /\ encryptor \in Nat
    /\ udp \in {"none", "open", "closed"} /\ udp_future \in Futures
    /\ flushed \subseteq 0 .. MaxPackets /\ answered \subseteq 0 .. MaxPackets
    /\ pc \in {"idle", "udp", "state", "command", "ws", "stream", "panic"}
    /\ ret \in ClientItems \cup {"Pending", "Polling"}
    /\ closes \in 0 .. MaxCloses
    /\ outcoming \in Seq(Packets) /\ wire \in Seq(Packets)

------------------------------------------------------------------------------
(* What makes it correct.                                                  *)

\* Packets leave in the order they were sent in, whatever thread sent them, whatever
\* was discarded in between and however often the UDP connection was replaced.
SentInOrder ==
    \A i, j \in DOMAIN wire : i < j => wire[i].id < wire[j].id

\* A packet that leaves is encrypted with the key of the session whose ssrc it
\* carries: Ready changes the one, SessionDescription only later the other.  (Once
\* the gateway has granted a Resume this is no longer so.)
KeyOfSession == ~resumes => \A i \in DOMAIN wire : wire[i].key = wire[i].session

\* No nonce is used twice with one key.
NonceUnique ==
    ~resumes =>
        \A i, j \in DOMAIN wire :
            (i # j /\ wire[i].key = wire[j].key) => wire[i].nonce # wire[j].nonce

\* The UDP connections are one queue after another as PacketQueue describes it and
\* VoiceUdp implements it: the client hands over the first packet of its channel, and
\* whoever waits is answered once the queue is empty, or lost with it.
Queue == INSTANCE PacketQueue
    WITH Requests <- 0 .. MaxPackets,
         open <- udp = "open", queue <- outcoming, sent <- wire, waiting <- flushed

UsesPacketQueues ==
    [][ \/ opus # <<>> /\ Queue!Accept(Packet(Head(opus)))
        \/ \E mark \in 0 .. MaxPackets : Queue!Ask(mark)
        \/ Queue!Switch \/ Queue!Serve
        \/ Queue!Replace ]_(Queue!vars)

\* An active client has all that dispatch_packet and the commands unwrap.
Equipped ==
    (state = "Active" /\ ~resumes) => session # None /\ encryptor # None /\ udp = "open"

\* The client panics only after a failed connect() to the UDP address, or after a
\* Resume was granted: no event, packet or command finds less than it unwraps.
NoPanic == pc = "panic" => udp_future = "spent" \/ resumes

\* As long as nothing fails, the client never says what the gateway would reject
\* with a close: it does not speak too early and does not authenticate twice.
CleanHandshake ==
    (faults = 0 /\ closes = 0) =>
        \A i \in DOMAIN inbox : inbox[i].op # "Close"

\* A client that sleeps is woken by what it waits for: the future of its UDP
\* connection, or else the WebSocket, from which it has read all that has arrived and
\* to which it has sent what it had to say, unless the WebSocket waits for a frame that
\* is held up, or has given a connection up and not sent the close frame.  An active
\* client is woken by the send interval too, which is what gets packets and commands
\* served that a poll has left.
NoLostWakeup ==
    pc = "idle" /\ ~wake /\ ret # "None" =>
        /\ \/ udp_future \in {"running", "lost"} /\ "future" \in interest
           \/ /\ "ws" \in interest
              /\ inbox = <<>> \/ conn = "held"
              /\ slot = "None" \/ ~Up \/ ZombieClose
        /\ state = "Active" /\ udp = "open" => "udp" \in interest

Ended == ret = "None" \/ pc = "panic"

\* An active client of a gateway that has described the session on this connection.
Settled == state = "Active" /\ stage = "active" /\ conn = "up" /\ link = "Connected"

\* A client that is polled gets through its handshake once the faults are over and stays
\* active from then on, or comes to its end.  What else can happen is that it sends a
\* Resume again and again: Hello makes an Identify follow the Resume of a Reconnected,
\* and who authenticates twice is closed with a code that lets it reconnect.
Settles ==
    \/ []<>(\E i \in DOMAIN desk : desk[i] = "Resume")
    \/ <>[](Settled \/ Ended)

Gone == state # "Active" \/ pc = "panic"

Holds(id) ==
    \/ \E i \in DOMAIN opus : opus[i] = id
    \/ \E i \in DOMAIN outcoming : outcoming[i].id = id

\* An active client does not sit on packets: they are sent or discarded, though
\* poll_next takes one packet a poll and may then return Pending without having
\* registered with the channel that still holds the next.
PacketsLeave ==
    state = "Active" /\ (opus # <<>> \/ outcoming # <<>>)
        ~> (opus = <<>> /\ outcoming = <<>>) \/ Gone

\* An active client carries out its commands, and whoever waits for a flush is
\* answered.
CommandsServed ==
    state = "Active" /\ (commands # <<>> \/ flushed # {})
        ~> (commands = <<>> /\ flushed = {}) \/ Gone

------------------------------------------------------------------------------
(* What the code says of itself.                                           *)

\* wait_until_flushed "waits for all packets to be successfully sent": when it
\* returns, none of the packets sent before it is still queued.
FlushMeansSent == \A mark \in answered, id \in 1 .. MaxPackets : id <= mark => ~Holds(id)

\* The event Resumed, "successfully resumed call session", follows a Resume that the
\* gateway has granted on this connection.
ResumedIsTrue == ret = "Resumed" => stage \in {"resumed", "done"}
=============================================================================

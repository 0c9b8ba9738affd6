----------------------------- MODULE Connection -----------------------------
(***************************************************************************)
(* What VoiceWebSocket talks to, modelled from how src/net/ws/mod.rs uses  *)
(* it: a tokio_websockets stream, the TCP/TLS transport under it and the   *)
(* voice gateway at the other end.  All of it is external code.  A new     *)
(* connection starts every variable but wake, interest and faults afresh.  *)
(*                                                                         *)
(* What is assumed of the library: a frame is buffered by start_send and   *)
(* leaves with the next flush; start_send fails once either side has       *)
(* closed the stream; a read answers an error once and the end of stream   *)
(* from then on; the close handshake ends with the peer's close frame.     *)
(***************************************************************************)
EXTENDS Runtime, Naturals, Sequences

CONSTANTS
    MaxInbox,       \* how many messages may be on their way to the socket
    MaxFaults,      \* how many faults of the network one behaviour has
    FaultKinds,     \* which of them: a subset of AllFaults
    GatewayOps,     \* what the gateway sends besides Hello and acks
    GatewayCodes    \* with which codes it closes a connection by itself

AllFaults == {"block", "break", "silence", "eof", "refuse"}

\* "Event": any opcode without a case of its own; "Unknown": an opcode that
\* OpCode::from does not know; "Malformed": text that does not deserialize;
\* "Binary": a message that is neither text nor a close frame.
AllOps == {"Event", "Unknown", "Malformed", "Binary"}

NoStatus == 1005    \* a close frame without a status

ASSUME ConnectionAssumption ==
    /\ MaxInbox \in Nat
    /\ MaxFaults \in Nat
    /\ FaultKinds \subseteq AllFaults
    /\ GatewayOps \subseteq AllOps
    /\ GatewayCodes \subseteq Nat

VARIABLES
    connection,     \* the stream's own state
    net,            \* the transport
    inbox,          \* messages the socket has not read yet
    outbox,         \* frames buffered by start_send and not flushed
    gateway,        \* what the gateway knows of the connection
    faults          \* the faults so far

connVars == <<connection, net, inbox, outbox, gateway>>

Frames == {"Text", "Heartbeat", "Close"}
Sources == {"connect", "read", "write", "tick"}
Message == [kind : AllOps \cup {"Hello", "HeartbeatAck", "Close", "Eof"},
            code : Nat]

\* "closing": our close frame is buffered or sent; "peerClosed": the peer's has been
\* read; "ended": an error or the end of stream has been read.
Statuses == {"none", "open", "closing", "peerClosed", "ended"}
Gateway == [greeted : BOOLEAN, asked : BOOLEAN, done : BOOLEAN, owed : Nat]

StreamType ==
    /\ connection \in Statuses
    /\ net \in {"ok", "blocked", "silent", "broken"}
    /\ inbox \in Seq(Message)
    /\ outbox \subseteq Frames
    /\ gateway \in Gateway

ConnectionType ==
    /\ StreamType
    /\ wake \in BOOLEAN
    /\ interest \subseteq Sources
    /\ faults \in Nat

NewGateway == [greeted |-> FALSE, asked |-> FALSE, done |-> FALSE, owed |-> 0]

ConnectionInit ==
    /\ connection = "none" /\ net = "ok"
    /\ inbox = <<>> /\ outbox = {} /\ gateway = NewGateway
    /\ wake = TRUE /\ interest = {} /\ faults = 0

------------------------------------------------------------------------------
(* The stream, as the socket uses it.                                      *)

Become(status) ==
    /\ connection' = status /\ net' = "ok"
    /\ inbox' = <<>> /\ outbox' = {} /\ gateway' = NewGateway

Opened == Become("open")
Dropped == Become("none")

\* The buffer once message has been handed to start_send.  "Taken" and "Empty"
\* stand for no message.
Buffered(message) == outbox \cup ({message} \cap Frames)

StartSendFails(message) == message \in Frames /\ connection # "open"
FlushBlocks(message) == Buffered(message) # {} /\ net = "blocked"
FlushFails(message) == Buffered(message) # {} /\ net = "broken"

\* The peer receives what the flush lets go, unless nobody listens any more.
Received(frames) ==
    [greeted |-> gateway.greeted,
     asked |-> gateway.asked \/ "Close" \in frames,
     done |-> gateway.done,
     owed |-> IF "Heartbeat" \in frames THEN gateway.owed + 1 ELSE gateway.owed]

AfterStartSend(message) ==
    IF message = "Close" THEN "closing" ELSE connection

\* start_send and a complete flush; start_send alone; both with an error.
Flushed(message) ==
    /\ ~StartSendFails(message) /\ ~FlushBlocks(message) /\ ~FlushFails(message)
    /\ connection' = AfterStartSend(message)
    /\ outbox' = {}
    /\ gateway' = Received(Buffered(message))
    /\ UNCHANGED <<net, inbox>>

Unflushed(message) ==
    /\ ~StartSendFails(message) /\ FlushBlocks(message)
    /\ connection' = AfterStartSend(message)
    /\ outbox' = Buffered(message)
    /\ UNCHANGED <<net, inbox, gateway>>

SendError(message) ==
    /\ \/ StartSendFails(message) /\ UNCHANGED <<connection, outbox>>
       \/ /\ ~StartSendFails(message) /\ FlushFails(message)
          /\ connection' = AfterStartSend(message)
          /\ outbox' = Buffered(message)
    /\ UNCHANGED <<net, inbox, gateway>>

Finished == connection \in {"peerClosed", "ended"}

\* poll_next on the stream.
ReadsMessage == ~Finished /\ inbox # <<>> /\ Head(inbox).kind # "Eof"
ReadsError == ~Finished /\ inbox = <<>> /\ net = "broken"
ReadsEnd == Finished \/ (inbox # <<>> /\ Head(inbox).kind = "Eof")
ReadsNothing == ~Finished /\ inbox = <<>> /\ net # "broken"

Take == /\ inbox' = Tail(inbox)
        /\ connection' = IF Head(inbox).kind = "Close" THEN "peerClosed" ELSE connection
        /\ UNCHANGED <<net, outbox, gateway>>

End == /\ connection' = "ended"
       /\ UNCHANGED <<net, inbox, outbox, gateway>>

\* poll_close: send a close frame if none was sent, read up to the peer's.
PeerHasClosed ==
    \/ Finished
    \/ net = "broken"
    \/ \E i \in DOMAIN inbox : inbox[i].kind \in {"Close", "Eof"}

CloseBlocks == net = "blocked" /\ (outbox # {} \/ connection = "open")

CloseCompletes ==
    /\ ~CloseBlocks /\ PeerHasClosed
    /\ End

CloseWaits ==
    /\ CloseBlocks \/ ~PeerHasClosed
    /\ LET frames == IF connection = "open" THEN outbox \cup {"Close"} ELSE outbox
       IN IF net \in {"blocked", "broken"}
          THEN outbox' = frames /\ UNCHANGED <<gateway, inbox>>
          ELSE outbox' = {} /\ gateway' = Received(frames) /\ inbox' = <<>>
    /\ connection' = IF connection = "open" THEN "closing" ELSE connection
    /\ UNCHANGED net

------------------------------------------------------------------------------
(* The transport and the gateway.                                          *)

Up == connection \in {"open", "closing"} /\ net \in {"ok", "blocked"}

\* The gateway sends m, and nothing more if it is the last.
Arrives(m, peer) ==
    /\ Up /\ ~gateway.done /\ Len(inbox) < MaxInbox
    /\ inbox' = Append(inbox, m)
    /\ gateway' = peer
    /\ Notify({"read"})
    /\ UNCHANGED <<connection, net, outbox>>

Text(op) == [kind |-> op, code |-> 0]
Closing(code) == [kind |-> "Close", code |-> code]

GatewayHello ==
    /\ ~gateway.greeted
    /\ Arrives(Text("Hello"), [gateway EXCEPT !.greeted = TRUE])
    /\ UNCHANGED faults

GatewayAck ==
    /\ gateway.greeted /\ gateway.owed > 0
    /\ Arrives(Text("HeartbeatAck"), [gateway EXCEPT !.owed = @ - 1])
    /\ UNCHANGED faults

GatewayEvent ==
    /\ gateway.greeted
    /\ \E op \in GatewayOps : Arrives(Text(op), gateway)
    /\ UNCHANGED faults

\* The answer to our close frame.
GatewayAnswer ==
    /\ gateway.asked
    /\ Arrives(Closing(NoStatus), [gateway EXCEPT !.done = TRUE])
    /\ UNCHANGED faults

\* The gateway's own close.
GatewayClose ==
    /\ \E code \in GatewayCodes :
          Arrives(Closing(code), [gateway EXCEPT !.done = TRUE])
    /\ UNCHANGED faults

Fault(kind) ==
    /\ kind \in FaultKinds /\ faults < MaxFaults
    /\ faults' = faults + 1

NetBlock ==
    /\ Fault("block") /\ Up /\ net = "ok"
    /\ net' = "blocked"
    /\ UNCHANGED <<connection, inbox, outbox, gateway, wake, interest>>

NetUnblock ==
    /\ connection # "none" /\ net = "blocked"
    /\ net' = "ok"
    /\ Notify({"write"})
    /\ UNCHANGED <<connection, inbox, outbox, gateway, faults>>

\* A reset may or may not take with it what was not read yet.
NetBreak ==
    /\ Fault("break") /\ Up
    /\ net' = "broken"
    /\ inbox' \in {inbox, <<>>}
    /\ Notify({"read", "write"})
    /\ UNCHANGED <<connection, outbox, gateway>>

\* The peer stops answering and the transport does not notice.
NetSilence ==
    /\ Fault("silence") /\ Up /\ net = "ok"
    /\ net' = "silent"
    /\ UNCHANGED <<connection, inbox, outbox, gateway, wake, interest>>

\* The peer goes away without a close frame.
NetEof ==
    /\ Fault("eof")
    /\ Arrives(Text("Eof"), [gateway EXCEPT !.done = TRUE])

World ==
    \/ GatewayHello \/ GatewayAck \/ GatewayEvent \/ GatewayAnswer \/ GatewayClose
    \/ NetBlock \/ NetUnblock \/ NetBreak \/ NetSilence \/ NetEof
=============================================================================

--------------------------- MODULE VoiceWebSocket ---------------------------
(***************************************************************************)
(* VoiceWebSocket of src/net/ws/mod.rs with its Heartbeater: the stream    *)
(* that keeps one WebSocket connection to the voice gateway, reconnects    *)
(* it, sends heartbeats and hands the gateway's events to its consumer.    *)
(*                                                                         *)
(* A call of poll_next is not one step.  pc names the part of poll_next    *)
(* that runs next, so that messages, faults and timers can come in between *)
(* two parts of one poll.  The user's calls need &mut self and therefore   *)
(* only happen when no poll runs (pc = "idle").                            *)
(***************************************************************************)
EXTENDS Connection, CloseCode, FiniteSets

CONSTANTS
    Endpoints,      \* the endpoints new() and reconnect() are called with
    NoEndpoint,     \* None
    UserCodes,      \* the codes close() is called with
    UserCalls,      \* which of send, close and reconnect the user calls
    MaxCalls        \* ... and how often

ASSUME SocketAssumption ==
    /\ NoEndpoint \notin Endpoints
    /\ UserCodes \subseteq Nat
    /\ UserCalls \subseteq {"send", "close", "reconnect"}
    /\ MaxCalls \in Nat

VARIABLES
    \* fields of VoiceWebSocket; a None connection is connection = "none"
    state,          \* VoiceWebSocketState, without
    attempts,       \* ... the number Disconnected carries (0 in the others)
    gracefully_disconnected,
    endpoint,
    reconnect,
    future,         \* the endpoint being dialled, or NoEndpoint
    heartbeater,
    pending,
    pending_event,
    \* the poll
    pc,
    ret,            \* what the last poll returned, "Polling" while it runs
    dial,           \* how far the dialling is
    calls,          \* the user's calls so far
    \* history: what the user and the consumer know
    wanted,         \* the endpoint of new() or of the last reconnect()
    expected,       \* the next connection is the first, or the user asked for it
    announced,      \* the consumer need not be told of this connection any more
    backlog         \* events processed and not handed to the consumer

status == <<state, attempts, gracefully_disconnected>>
fields == <<status, heartbeater, pending>>
dialing == <<endpoint, reconnect, future, dial>>
history == <<wanted, expected, announced, backlog>>
rest == <<faults, dialing, pending_event, calls, history>>
data == <<connVars, fields, rest>>
vars == <<connVars, taskVars, fields, rest, pc, ret>>

Heartbeater == [live : BOOLEAN, sent : BOOLEAN, acknowledged : BOOLEAN,
                due : BOOLEAN, armed : BOOLEAN]

NoHeartbeater ==
    [live |-> FALSE, sent |-> FALSE, acknowledged |-> FALSE, due |-> FALSE, armed |-> FALSE]

\* Heartbeater::new.  sent: has_sent; due: the interval has elapsed; armed: the
\* task has registered with the interval.
NewHeartbeater == [NoHeartbeater EXCEPT !.live = TRUE]

is_zombied == heartbeater.sent /\ ~heartbeater.acknowledged

\* "Empty": pending is None; "Taken": its message is None.
NoPending == [message |-> "Empty", is_heartbeat |-> FALSE]
Queued(frame) == [message |-> frame, is_heartbeat |-> frame = "Heartbeat"]

EventOps == {"Hello", "HeartbeatAck", "Event"}

Init ==
    /\ ConnectionInit
    /\ state = "Disconnected" /\ attempts = 0
    /\ gracefully_disconnected = TRUE
    /\ endpoint \in Endpoints /\ reconnect = NoEndpoint
    /\ future = NoEndpoint /\ dial = "pending"
    /\ heartbeater = NoHeartbeater
    /\ pending = NoPending /\ pending_event = "None"
    /\ pc = "idle" /\ ret = "Pending" /\ calls = 0
    /\ wanted = endpoint /\ expected = TRUE /\ announced = TRUE /\ backlog = 0

------------------------------------------------------------------------------
(* Ways on: to another part of the poll, or out of it.                     *)

Goto(part) == pc' = part /\ UNCHANGED <<ret, taskVars>>

\* Poll::Ready.  Its consumer asks for the next item, except after the last.
Ready(item) ==
    /\ pc' = "idle" /\ ret' = item
    /\ wake' = (item # "End")
    /\ UNCHANGED interest

\* Poll::Pending by something that has registered the waker with sources.
Pending(sources) ==
    /\ pc' = "idle" /\ ret' = "Pending"
    /\ interest' = interest \cup sources
    /\ UNCHANGED wake

\* What a Pending registers the waker with: the dialling, a flush, the peer's close
\* and a read.
NoWaker == {}   \* mutant
DialWaker == {"connect"}
FlushWaker == {"write"}
CloseWaker == {"read", "write"}
ReadWaker == {"read"}

\* Mutants: the state or the heartbeater of the lost connection is kept.
LeaveAsItIs(new_state) ==
    /\ heartbeater' = NoHeartbeater
    /\ attempts' = 0
    /\ UNCHANGED state
LeaveBeating(new_state) ==
    /\ UNCHANGED heartbeater
    /\ state' = new_state /\ attempts' = 0

Leave(new_state) ==
    /\ heartbeater' = NoHeartbeater
    /\ state' = new_state /\ attempts' = 0

close_inner(cause, code) ==
    LET graceful == cause = "User" /\ code \in GracefulCodes
    IN /\ Leave(IF cause = "Transport" THEN "Disconnected"
                ELSE IF graceful THEN "Closed" ELSE from_close_code(code))
       /\ pending' = IF cause = "User" THEN Queued("Close") ELSE pending
       /\ gracefully_disconnected' = (gracefully_disconnected \/ graceful)

------------------------------------------------------------------------------
(* poll_next up to poll_ws_connect.                                        *)

\* Option::take, and a mutant that leaves the event where it is.
KeepPendingEvent == UNCHANGED pending_event
TakePendingEvent == pending_event' = "None"

PollPendingEvent ==
    /\ pc = "idle" /\ pending_event # "None"
    /\ Ready(pending_event)
    /\ TakePendingEvent
    /\ announced' = (announced \/ pending_event = "Reconnected")
    /\ backlog' = IF pending_event \in EventOps THEN backlog - 1 ELSE backlog
    /\ UNCHANGED <<connVars, faults, fields, dialing, calls, wanted, expected>>

PollStart ==
    /\ pc = "idle" /\ pending_event = "None"
    /\ pc' = "connect" /\ ret' = "Polling" /\ wake' = FALSE
    /\ UNCHANGED <<connVars, interest, rest, fields>>

\* Mutant: the arm without its guard on the connection.
DialsAnyway == pc = "connect" /\ state = "Disconnected"
Dials == pc = "connect" /\ state = "Disconnected" /\ connection = "none"

\* Mutant: a closed socket goes on like any other.
SendAnyway == "send"
AfterConnect == IF state = "Closed" THEN "flush" ELSE "send"

\* The Closed arm and the arm that does nothing.
ConnectNothing ==
    /\ pc = "connect" /\ ~Dials
    /\ Goto(AfterConnect)
    /\ UNCHANGED data

\* Mutant: the queued endpoint is thrown away.
DropEndpoint == reconnect' = NoEndpoint /\ UNCHANGED endpoint

\* if let Some(new_endpoint) = self.reconnect.take()
TakeEndpoint ==
    /\ endpoint' = IF reconnect = NoEndpoint THEN endpoint ELSE reconnect
    /\ reconnect' = NoEndpoint

\* The future sleeps for at least a second, so that its first poll is Pending.
ConnectPending ==
    /\ Dials
    /\ TakeEndpoint
    /\ IF future = NoEndpoint
       THEN future' = endpoint' /\ dial' = "pending"
       ELSE dial = "pending" /\ UNCHANGED <<future, dial>>
    /\ Pending(DialWaker)
    /\ UNCHANGED <<connVars, faults, fields, pending_event, calls, history>>

ConnectOk ==
    /\ Dials /\ future # NoEndpoint /\ dial = "ok"
    /\ TakeEndpoint
    /\ future' = NoEndpoint /\ UNCHANGED dial
    /\ Opened
    /\ state' = "Connected" /\ attempts' = 0
    /\ gracefully_disconnected' = FALSE
    /\ pending_event' = IF gracefully_disconnected THEN pending_event ELSE "Reconnected"
    /\ announced' = expected /\ expected' = FALSE
    /\ pc' = "send"
    /\ UNCHANGED <<taskVars, faults, heartbeater, pending, ret, calls, wanted,
                   backlog>>

ConnectErr ==
    /\ Dials /\ future # NoEndpoint /\ dial = "err"
    /\ TakeEndpoint
    /\ future' = NoEndpoint /\ UNCHANGED dial
    /\ attempts' = attempts + 1
    /\ Ready("Error")
    /\ UNCHANGED <<connVars, faults, state, gracefully_disconnected, heartbeater,
                   pending, pending_event, calls, history>>

------------------------------------------------------------------------------
(* poll_send_pending, called by poll_send (pc = "send") and by the Closed  *)
(* arm of poll_ws_connect (pc = "flush").                                  *)

Sending == pc \in {"send", "flush"} /\ connection # "none" /\ pending # NoPending
AfterSend == IF pc = "send" THEN "tick" ELSE "shutdown"

\* Heartbeater::record_sent.
RecordSent == [heartbeater EXCEPT !.acknowledged = FALSE, !.sent = TRUE]

SendNothing ==
    /\ pc \in {"send", "flush"}
    /\ connection = "none" \/ pending = NoPending
    /\ Goto(AfterSend)
    /\ UNCHANGED data

SendDone ==
    /\ Sending
    /\ Flushed(pending.message)
    /\ pending.is_heartbeat => heartbeater.live
    /\ heartbeater' = IF pending.is_heartbeat THEN RecordSent ELSE heartbeater
    /\ pending' = NoPending
    /\ Goto(AfterSend)
    /\ UNCHANGED <<rest, status>>

\* expect("should be defined") on a heartbeater that is gone.
SendPanics ==
    /\ Sending
    /\ Flushed(pending.message)
    /\ pending.is_heartbeat /\ ~heartbeater.live
    /\ Goto("panic")
    /\ UNCHANGED <<rest, fields>>

SendPending ==
    /\ Sending
    /\ Unflushed(pending.message)
    /\ pending' = [pending EXCEPT !.message = "Taken"]
    /\ Pending(FlushWaker)
    /\ UNCHANGED <<rest, status, heartbeater>>

\* poll_send's error: poll_next closes and forgets the connection.
SendErr ==
    /\ Sending /\ pc = "send"
    /\ StartSendFails(pending.message) \/ FlushFails(pending.message)
    /\ Dropped
    /\ Leave("Disconnected")
    /\ pending' = [pending EXCEPT !.message = "Taken"]
    /\ Ready("Disconnected")
    /\ UNCHANGED <<rest, gracefully_disconnected>>

\* The error of a closed socket's poll_send_pending keeps the connection.
FlushErr ==
    /\ Sending /\ pc = "flush"
    /\ SendError(pending.message)
    /\ pending' = [pending EXCEPT !.message = "Taken"]
    /\ Ready("Error")
    /\ UNCHANGED <<rest, status, heartbeater>>

\* poll_close of a closed socket.
Shutdown ==
    /\ pc = "shutdown"
    /\ \/ connection = "none" /\ UNCHANGED connVars /\ Ready("End")
       \/ connection # "none" /\ CloseCompletes /\ Ready("End")
       \/ connection # "none" /\ CloseWaits /\ Pending(CloseWaker)
    /\ UNCHANGED <<rest, fields>>

------------------------------------------------------------------------------
(* poll_send: the heartbeat interval.                                      *)

\* poll_tick registers the waker, and a mutant that does not.
Unarmed == heartbeater
Armed == [heartbeater EXCEPT !.armed = heartbeater.live]

TickPending ==
    /\ pc = "tick" /\ ~heartbeater.due
    /\ heartbeater' = Armed
    /\ Goto("read")
    /\ UNCHANGED <<connVars, rest, status, pending>>

TickZombied ==
    /\ pc = "tick" /\ heartbeater.due /\ is_zombied
    /\ close_inner("User", ResumeCode)
    /\ Goto("read")
    /\ UNCHANGED <<connVars, rest>>

TickHeartbeat ==
    /\ pc = "tick" /\ heartbeater.due /\ ~is_zombied
    /\ heartbeater' = [heartbeater EXCEPT !.due = FALSE]
    /\ pending' = Queued("Heartbeat")
    /\ Goto("send")
    /\ UNCHANGED <<connVars, rest, status>>

------------------------------------------------------------------------------
(* poll_next: the message.                                                 *)

Reading == pc = "read" /\ connection # "none"
ReadsKind(kinds) == Reading /\ ReadsMessage /\ Head(inbox).kind \in kinds

ReadPending ==
    /\ Reading /\ ReadsNothing
    /\ Pending(ReadWaker)
    /\ UNCHANGED data

\* Heartbeater::acknowledged, and a mutant that does not reset sent.
AcknowledgedStillSent == [heartbeater EXCEPT !.acknowledged = TRUE]
Acknowledged == [heartbeater EXCEPT !.acknowledged = TRUE, !.sent = FALSE]

\* process_event's effect on the heartbeater.
ProcessEvent(op) ==
    heartbeater' = IF op = "Hello" THEN NewHeartbeater
                   ELSE IF op = "HeartbeatAck" /\ heartbeater.sent THEN Acknowledged
                   ELSE heartbeater

\* Mutants: the event just read overtakes the pending one; it is dropped in favour
\* of the pending one.
Overtake(op) == Ready(op) /\ UNCHANGED <<pending_event, history>>
Supersede(op) ==
    IF pending_event = "None"
    THEN Ready(op) /\ UNCHANGED <<pending_event, history>>
    ELSE /\ Ready(pending_event)
         /\ pending_event' = "None"
         /\ announced' = TRUE /\ backlog' = backlog + 1
         /\ UNCHANGED <<wanted, expected>>

\* A pending event goes first; the one just read takes its place.
HandOver(op) ==
    IF pending_event = "None"
    THEN Ready(op) /\ UNCHANGED <<pending_event, history>>
    ELSE /\ Ready(pending_event)
         /\ pending_event' = op
         /\ announced' = (announced \/ pending_event = "Reconnected")
         /\ backlog' = IF pending_event \in EventOps THEN backlog ELSE backlog + 1
         /\ UNCHANGED <<wanted, expected>>

ReadEvent ==
    /\ ReadsKind(EventOps)
    /\ Take
    /\ ProcessEvent(Head(inbox).kind)
    /\ HandOver(Head(inbox).kind)
    /\ UNCHANGED <<faults, status, pending, dialing, calls>>

\* An opcode that is not known: Poll::Pending, and no waker is registered.
ReadUnknown ==
    /\ ReadsKind({"Unknown"})
    /\ Take
    /\ Pending({})
    /\ UNCHANGED <<rest, fields>>

\* What does not deserialize.  Of an acknowledgement this shows only after it has taken
\* effect.
Undecoded == IF "Malformed" \in GatewayOps THEN {"Malformed", "HeartbeatAck"} ELSE {}

ReadMalformed ==
    /\ ReadsKind(Undecoded)
    /\ Take
    /\ ProcessEvent(Head(inbox).kind)
    /\ Ready("Error")
    /\ UNCHANGED <<rest, status, pending>>

\* Neither text nor close: the loop goes round.
ReadBinary ==
    /\ ReadsKind({"Binary"})
    /\ Take
    /\ Goto("connect")
    /\ UNCHANGED <<rest, fields>>

ReadClose ==
    /\ ReadsKind({"Close"})
    /\ Take
    /\ IF state = "Disconnected" THEN UNCHANGED fields
       ELSE close_inner("Gateway", Head(inbox).code)
    /\ Ready("Disconnected")
    /\ UNCHANGED rest

ReadErr ==
    /\ Reading /\ ReadsError
    /\ End
    /\ IF state = "Disconnected"
       THEN Goto("connect") /\ UNCHANGED fields
       ELSE Ready("Disconnected") /\ close_inner("Transport", NoStatus)
    /\ UNCHANGED rest

\* The end of the stream: poll_close answers the peer, which the transport may
\* hold up, then the connection is forgotten and the loop goes round.
ReadEndPending ==
    /\ Reading /\ ReadsEnd /\ net = "blocked"
    /\ End
    /\ Pending(FlushWaker)
    /\ UNCHANGED <<rest, fields>>

ReadEnd ==
    /\ Reading /\ ReadsEnd /\ net # "blocked"
    /\ Dropped
    /\ IF state = "Disconnected" THEN UNCHANGED fields
       ELSE close_inner("Transport", NoStatus)
    /\ Goto("connect")
    /\ UNCHANGED rest

------------------------------------------------------------------------------
(* The user's calls.  Whoever calls polls again.                           *)

Call(name) ==
    /\ name \in UserCalls /\ calls < MaxCalls
    /\ pc = "idle"
    /\ calls' = calls + 1
    /\ wake' = TRUE

send ==
    /\ Call("send")
    /\ pending' = Queued("Text")
    /\ UNCHANGED <<connVars, interest, faults, status, heartbeater, dialing,
                   pending_event, pc, ret, history>>

close(code) ==
    /\ Call("close")
    /\ close_inner("User", code)
    /\ expected' = (expected \/ code \in GracefulCodes)
    /\ UNCHANGED <<connVars, interest, faults, dialing, pending_event, pc, ret,
                   wanted, announced, backlog>>

reconnect_to(new_endpoint) ==
    /\ Call("reconnect")
    /\ reconnect' = new_endpoint
    /\ Leave("Disconnected")
    /\ gracefully_disconnected' = TRUE
    /\ pending' = Queued("Close")
    /\ wanted' = new_endpoint /\ expected' = TRUE
    /\ UNCHANGED <<connVars, interest, faults, endpoint, future, dial,
                   pending_event, pc, ret, announced, backlog>>

------------------------------------------------------------------------------
(* Timers and the dialling.                                                *)

Tick ==
    /\ heartbeater.live /\ ~heartbeater.due
    /\ heartbeater' = [heartbeater EXCEPT !.due = TRUE, !.armed = FALSE]
    /\ wake' = (wake \/ heartbeater.armed)
    /\ UNCHANGED <<connVars, interest, rest, status, pending, pc, ret>>

DialOk ==
    /\ future # NoEndpoint /\ dial = "pending"
    /\ dial' = "ok"
    /\ Notify({"connect"})
    /\ UNCHANGED <<connVars, faults, fields, endpoint, reconnect, future,
                   pending_event, pc, ret, calls, history>>

DialErr ==
    /\ Fault("refuse") /\ future # NoEndpoint /\ dial = "pending"
    /\ dial' = "err"
    /\ Notify({"connect"})
    /\ UNCHANGED <<connVars, fields, endpoint, reconnect, future, pending_event, pc,
                   ret, calls, history>>

------------------------------------------------------------------------------
Connect == ConnectNothing \/ ConnectPending \/ ConnectOk \/ ConnectErr
Send == SendNothing \/ SendDone \/ SendPanics \/ SendPending \/ SendErr \/ FlushErr
TickStep == TickPending \/ TickZombied \/ TickHeartbeat
Read == \/ ReadPending \/ ReadEvent \/ ReadUnknown \/ ReadMalformed \/ ReadBinary
        \/ ReadClose \/ ReadErr \/ ReadEndPending \/ ReadEnd

\* What follows the start of a poll, up to where it returns.
InPoll == Connect \/ Send \/ Shutdown \/ TickStep \/ Read

Poll == PollPendingEvent \/ PollStart

User == \/ send
        \/ \E code \in UserCodes : close(code)
        \/ \E new_endpoint \in Endpoints : reconnect_to(new_endpoint)

Timers == Tick \/ DialOk \/ DialErr

Aside == UNCHANGED <<fields, dialing, pending_event, pc, ret, calls, history>>
Outside == World /\ Aside

Next == Poll \/ InPoll \/ User \/ Timers \/ Outside

Spec == Init /\ [][Next]_vars

\* A woken task is polled and a poll runs to its return; the timer, the dialling
\* and a transport that holds up a write come to an end; the gateway greets,
\* acknowledges and answers a close, strongly fair because a full inbox, which is
\* a bound of the model, may keep it from doing so again and again.
Fairness ==
    /\ WF_vars(wake /\ Poll)
    /\ WF_vars(InPoll)
    /\ WF_vars(Tick)
    /\ WF_vars(DialOk)
    /\ WF_vars(NetUnblock /\ Aside)
    /\ WF_vars(GatewayHello /\ Aside)
    /\ SF_vars(GatewayAck /\ Aside)
    /\ SF_vars(GatewayAnswer /\ Aside)

FairSpec == Spec /\ Fairness

------------------------------------------------------------------------------
(* Properties.                                                             *)

\* The kinds of value each variable holds.
FieldsType ==
    /\ state \in {"Connected", "Disconnected", "Closed"}
    /\ attempts \in Nat
    /\ gracefully_disconnected \in BOOLEAN
    /\ heartbeater \in Heartbeater
    /\ pending \in [message : Frames \cup {"Empty", "Taken"}, is_heartbeat : BOOLEAN]

DialingType ==
    /\ endpoint \in Endpoints
    /\ reconnect \in Endpoints \cup {NoEndpoint}
    /\ future \in Endpoints \cup {NoEndpoint}
    /\ dial \in {"pending", "ok", "err"}

TypeOK ==
    /\ ConnectionType
    /\ FieldsType
    /\ DialingType
    /\ pending_event \in EventOps \cup {"None", "Reconnected"}
    /\ pc \in {"idle", "connect", "send", "flush", "shutdown", "tick", "read", "panic"}
    /\ ret \in EventOps \cup {"Polling", "Pending", "Reconnected", "Disconnected",
                              "Error", "End"}
    /\ calls \in Nat
    /\ wanted \in Endpoints
    /\ expected \in BOOLEAN /\ announced \in BOOLEAN
    /\ backlog \in Nat

\* poll_next unwraps self.connection where it reads a message and where it closes
\* an ended stream: whatever poll_ws_connect and poll_send did before, and whatever
\* the user called between two polls, there is a connection to unwrap.  A socket
\* that calls itself Connected has one too.
SocketPresent ==
    /\ pc \in {"tick", "read"} => connection # "none"
    /\ state = "Connected" => connection # "none"

\* The socket never dials while it holds a connection, so that a connection is
\* never replaced by another without having been given up.
OneConnection == future # NoEndpoint => connection = "none"

\* A consumer whose session has to be resumed is told so before it sees an event
\* of the new connection: for every connection but the first and those the user
\* asked for, Reconnected stays pending until it has been returned.
ReconnectionAnnounced ==
    /\ ~announced => pending_event = "Reconnected"
    /\ ret \in EventOps => announced

\* An event that has changed the socket's state reaches the consumer: the one
\* slot for an event that had to wait is never overwritten nor cleared.
NoEventLost == backlog = IF pending_event \in EventOps THEN 1 ELSE 0

\* A poll that runs has returned nothing, has taken the pending event, and beyond
\* poll_ws_connect has a connection and is not closed; beyond poll_send it holds no
\* heartbeat back.  What the socket keeps is what the history says.
PollDiscipline ==
    /\ pc # "idle" => ret = "Polling" /\ pending_event \notin EventOps
    /\ pc \in {"send", "tick", "read"} => connection # "none" /\ state # "Closed"
    /\ pc \in {"tick", "read"} => ~pending.is_heartbeat
    /\ gracefully_disconnected = expected
    /\ wanted = IF reconnect = NoEndpoint THEN endpoint ELSE reconnect

\* In every part of a poll the socket has the connection that the part unwraps, none
\* where it dials, and what the parts before it are to have left behind.
PollsSafely == SocketPresent /\ OneConnection /\ PollDiscipline

\* Nothing but a call of the user reopens a closed socket, and a closed socket
\* has neither a heartbeater nor a heartbeat to send.
ClosedIsFinal ==
    [][state = "Closed" => \/ state' = "Closed"
                           \/ calls' # calls]_vars
ClosedIsQuiet == state = "Closed" => ~heartbeater.live /\ ~pending.is_heartbeat

\* A dial that starts after reconnect() goes to the endpoint of the last call.
DialsTheEndpointAskedFor ==
    [][future = NoEndpoint /\ future' # NoEndpoint => future' = wanted]_vars

\* VoiceWebSocket is the stream that the client takes it for.
Stream == INSTANCE GatewayStream
    WITH Events <- EventOps, Texts <- {"Text"},
         link <- state, quiet <- gracefully_disconnected,
         slot <- IF pending.message \in Frames THEN pending.message ELSE "None",
         waiting <- pending_event, item <- ret
ImplementsStream == Stream!StreamSpec

\* The properties from here on hold as long as the user does not call.
Undisturbed == calls = 0

\* The heartbeater lives no longer than the connection whose Hello made it, and not in a
\* closed socket, whoever closed it.
HeartbeaterOfConnection ==
    /\ Undisturbed /\ heartbeater.live => state = "Connected" /\ gateway.greeted
    /\ ClosedIsQuiet

\* A heartbeat is recorded as sent exactly as long as the gateway owes its
\* acknowledgement or the acknowledgement waits to be read, so that the zombie
\* check looks at this connection's heartbeats and at no more than one of them.
AcksOnTheWay == Cardinality({i \in DOMAIN inbox : inbox[i].kind = "HeartbeatAck"})
HeartbeatsAccounted ==
    Undisturbed /\ state = "Connected" /\ net # "broken"
        => gateway.owed + AcksOnTheWay = (IF heartbeater.sent THEN 1 ELSE 0)

\* A message that has arrived is not left unread by a task that is asleep, unless
\* the task waits for the transport to take a write.
NoLostWakeup ==
    pc = "idle" /\ ~wake /\ inbox # <<>> /\ state # "Closed" => "write" \in interest

\* A disconnected socket gets a new connection or is closed.
Reconnects == state = "Disconnected" ~> state # "Disconnected" \/ pc = "panic"

\* A closed socket's stream ends, or its consumer is told why it does not.
ClosedIsReported == state = "Closed" ~> ret \in {"End", "Error"} \/ state # "Closed"

\* A close frame that is queued while there is a connection is sent and flushed,
\* unless the connection is given up or its transport breaks first.
CloseIsSent ==
    connection # "none" /\ pending.message = "Close"
        ~> connection = "none" \/ net = "broken" \/ pending = NoPending

\* The consumer is told of a reconnection.
ReconnectionDelivered ==
    pending_event = "Reconnected" ~> pending_event # "Reconnected" \/ pc = "panic"

\* An interval that has elapsed is looked at.
TicksAreServed == heartbeater.due ~> ~heartbeater.due \/ pc = "panic"

------------------------------------------------------------------------------
(* What the code's comments and assertions say and its behaviour denies.   *)

\* expect("should be defined") in poll_send_pending: a heartbeat whose frame is
\* flushed has its heartbeater.
HeartbeaterDefined == pc # "panic"

\* "Successfully connected to the voice gateway": the socket has not sent a close
\* frame on the connection it calls Connected.
ConnectedIsOpen == state = "Connected" => connection # "closing"
=============================================================================

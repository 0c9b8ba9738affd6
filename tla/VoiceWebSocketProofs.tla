------------------------ MODULE VoiceWebSocketProofs ------------------------
(***************************************************************************)
(* Safety of VoiceWebSocket for every value of its constants: whatever the *)
(* user calls, the gateway sends and the network does, in whatever order.  *)
(***************************************************************************)
EXTENDS VoiceWebSocket, TLAPS

------------------------------------------------------------------------------
(* The stream's operations keep its variables well-typed.                  *)

\* A connection that is opened or dropped starts afresh.
LEMMA BecomeType ==
    ASSUME NEW s \in Statuses, Become(s)
    PROVE  StreamType'
  BY DEF Become, NewGateway, StreamType, Gateway

\* What the peer receives.
LEMMA ReceivedType ==
    ASSUME StreamType, NEW frames
    PROVE  Received(frames) \in Gateway
  <1>1. CASE "Close" \in frames
    BY <1>1 DEF StreamType, Gateway, Received
  <1>2. CASE "Close" \notin frames
    BY <1>2 DEF StreamType, Gateway, Received
  <1>. QED
    BY <1>1, <1>2

\* start_send and a flush, complete, blocked or failed.
LEMMA SendType ==
    ASSUME StreamType, NEW m \in Frames \cup {"Empty", "Taken"},
           Flushed(m) \/ Unflushed(m) \/ SendError(m)
    PROVE  StreamType'
  <1>1. Buffered(m) \subseteq Frames
    BY DEF Buffered, StreamType
  <1>2. AfterStartSend(m) \in Statuses
    BY DEF AfterStartSend, StreamType, Statuses
  <1>3. Received(Buffered(m)) \in Gateway
    BY ReceivedType
  <1>. QED
    BY <1>1, <1>2, <1>3 DEF Flushed, Unflushed, SendError, StreamType

\* A read takes a message off a well-typed inbox.
LEMMA TakeType ==
    ASSUME StreamType, ReadsMessage, Take
    PROVE  /\ StreamType'
           /\ Head(inbox) \in Message
  <1>1. Head(inbox) \in Message /\ Tail(inbox) \in Seq(Message)
    BY DEF ReadsMessage, StreamType
  <1>2. connection' \in Statuses
    BY DEF Take, StreamType, Statuses
  <1>. QED
    BY <1>1, <1>2 DEF Take, StreamType

\* The end of a stream, and poll_close on the way there.
LEMMA CloseType ==
    ASSUME StreamType, End \/ CloseWaits
    PROVE  StreamType'
  <1>1. CASE End
    BY <1>1 DEF End, StreamType, Statuses
  <1>2. CASE CloseWaits
    <2>. DEFINE frames == IF connection = "open" THEN outbox \cup {"Close"} ELSE outbox
    <2>1. frames \subseteq Frames
      BY DEF StreamType, Frames
    <2>2. Received(frames) \in Gateway
      BY ReceivedType
    <2>3. connection' \in Statuses
      BY <1>2 DEF CloseWaits, StreamType, Statuses
    <2>4. outbox' \subseteq Frames /\ gateway' \in Gateway /\ inbox' \in Seq(Message)
      <3>1. CASE net \in {"blocked", "broken"}
        BY <1>2, <2>1, <3>1 DEF CloseWaits, StreamType
      <3>2. CASE net \notin {"blocked", "broken"}
        BY <1>2, <2>2, <3>2 DEF CloseWaits, StreamType
      <3>. QED
        BY <3>1, <3>2
    <2>. QED
      BY <1>2, <2>3, <2>4 DEF CloseWaits, StreamType
  <1>. QED
    BY <1>1, <1>2

\* A message that arrives, and the gateway's account of it.
LEMMA ArrivesType ==
    ASSUME ConnectionType, NEW m \in Message, NEW peer \in Gateway, Arrives(m, peer)
    PROVE  StreamType' /\ wake' \in BOOLEAN /\ interest' \subseteq Sources
  BY DEF Arrives, ConnectionType, StreamType, Notify

\* The gateway's records with one field changed are such records.
LEMMA GatewayType ==
    ASSUME StreamType
    PROVE  /\ [gateway EXCEPT !.greeted = TRUE] \in Gateway
           /\ [gateway EXCEPT !.done = TRUE] \in Gateway
           /\ gateway.owed > 0 => [gateway EXCEPT !.owed = @ - 1] \in Gateway
           /\ gateway \in Gateway
  <1>1. gateway \in Gateway
    BY DEF StreamType
  <1>2. [gateway EXCEPT !.greeted = TRUE] \in Gateway
    BY <1>1 DEF Gateway
  <1>3. [gateway EXCEPT !.done = TRUE] \in Gateway
    BY <1>1 DEF Gateway
  <1>4. gateway.owed > 0 => [gateway EXCEPT !.owed = @ - 1] \in Gateway
    BY <1>1 DEF Gateway
  <1>. QED
    BY <1>1, <1>2, <1>3, <1>4

\* What the gateway and the network do keeps the connection well-typed.
LEMMA WorldType ==
    ASSUME ConnectionType, World
    PROVE  ConnectionType'
  <1>0. StreamType
    BY DEF ConnectionType
  <1>1. CASE GatewayHello
    BY <1>0, <1>1, ArrivesType, GatewayType
    DEF GatewayHello, Text, Message, AllOps, ConnectionType
  <1>2. CASE GatewayAck
    BY <1>0, <1>2, ArrivesType, GatewayType
    DEF GatewayAck, Text, Message, AllOps, ConnectionType
  <1>3. CASE GatewayEvent
    BY <1>0, <1>3, ArrivesType, GatewayType, ConnectionAssumption
    DEF GatewayEvent, Text, Message, ConnectionType
  <1>4. CASE GatewayAnswer
    BY <1>0, <1>4, ArrivesType, GatewayType
    DEF GatewayAnswer, Closing, NoStatus, Message, AllOps, ConnectionType
  <1>5. CASE GatewayClose
    BY <1>0, <1>5, ArrivesType, GatewayType, ConnectionAssumption
    DEF GatewayClose, Closing, Message, AllOps, ConnectionType
  <1>6. CASE NetBlock
    BY <1>6 DEF NetBlock, Fault, ConnectionType, StreamType
  <1>7. CASE NetUnblock
    BY <1>7 DEF NetUnblock, Notify, ConnectionType, StreamType
  <1>8. CASE NetBreak
    <2>1. inbox' \in Seq(Message)
      <3>1. inbox' = inbox \/ inbox' = <<>>
        BY <1>8 DEF NetBreak
      <3>2. inbox \in Seq(Message) /\ <<>> \in Seq(Message)
        BY <1>0 DEF StreamType
      <3>. QED
        BY ONLY <3>1, <3>2
    <2>2. StreamType' /\ wake' \in BOOLEAN
      BY <1>0, <1>8, <2>1 DEF NetBreak, Notify, StreamType
    <2>. QED
      BY <1>8, <2>2 DEF NetBreak, Notify, Fault, ConnectionType
  <1>9. CASE NetSilence
    BY <1>9 DEF NetSilence, Fault, ConnectionType, StreamType
  <1>10. CASE NetEof
    BY <1>0, <1>10, ArrivesType, GatewayType
    DEF NetEof, Fault, Text, Message, AllOps, ConnectionType
  <1>. QED
    BY <1>1, <1>2, <1>3, <1>4, <1>5, <1>6, <1>7, <1>8, <1>9, <1>10 DEF World

------------------------------------------------------------------------------
(* The socket's own operations.                                            *)

\* The heartbeater's operations keep it well-typed, and alive if it is.
LEMMA HeartbeaterType ==
    ASSUME FieldsType
    PROVE  /\ NoHeartbeater \in Heartbeater
           /\ NewHeartbeater \in Heartbeater
           /\ RecordSent \in Heartbeater /\ RecordSent.live = heartbeater.live
           /\ Acknowledged \in Heartbeater /\ Acknowledged.live = heartbeater.live
           /\ Armed \in Heartbeater /\ Armed.live = heartbeater.live
  BY DEF NoHeartbeater, NewHeartbeater, RecordSent, Acknowledged, Armed, FieldsType,
         Heartbeater

\* A closed or disconnected socket has neither a heartbeater nor a number of
\* attempts; whoever closes it, what it keeps is well-typed and quiet.
LEMMA CloseInnerType ==
    ASSUME FieldsType, NEW cause, NEW code, close_inner(cause, code)
    PROVE  /\ FieldsType'
           /\ state' \in {"Disconnected", "Closed"}
           /\ ~heartbeater'.live
           /\ pending' = Queued("Close") \/ pending' = pending
           /\ state' = "Closed" => cause # "Transport"
  <1>. DEFINE graceful == cause = "User" /\ code \in GracefulCodes
              new_state == IF cause = "Transport" THEN "Disconnected"
                           ELSE IF graceful THEN "Closed" ELSE from_close_code(code)
  <1>1. new_state \in {"Disconnected", "Closed"}
    BY DEF from_close_code
  <1>2. new_state = "Closed" => cause # "Transport"
    OBVIOUS
  <1>3. Leave(new_state)
    BY DEF close_inner
  <1>4. pending' = Queued("Close") \/ pending' = pending
    BY DEF close_inner
  <1>5. gracefully_disconnected' \in BOOLEAN
    BY DEF close_inner, FieldsType
  <1>6. NoHeartbeater \in Heartbeater /\ ~NoHeartbeater.live
    BY DEF NoHeartbeater, Heartbeater
  <1>7. Queued("Close") \in [message : Frames \cup {"Empty", "Taken"},
                             is_heartbeat : BOOLEAN]
    BY DEF Queued, Frames
  <1>8. heartbeater' = NoHeartbeater /\ state' = new_state /\ attempts' = 0
    BY <1>3 DEF Leave
  <1>9. FieldsType'
    BY <1>1, <1>4, <1>5, <1>6, <1>7, <1>8 DEF FieldsType
  <1>. HIDE DEF new_state
  <1>. QED
    BY <1>1, <1>2, <1>4, <1>6, <1>8, <1>9

------------------------------------------------------------------------------
(* Type correctness.                                                       *)

\* Every part of poll_next keeps the connection well-typed.
LEMMA ConnectionStep ==
    ASSUME TypeOK, [Next]_vars
    PROVE  ConnectionType'
  <1>. USE DEF Goto, Ready, Pending, DialWaker, FlushWaker, CloseWaker, ReadWaker
  <1>0. /\ ConnectionType /\ StreamType
        /\ wake \in BOOLEAN /\ interest \subseteq Sources /\ faults \in Nat
        /\ pending.message \in Frames \cup {"Empty", "Taken"}
    BY DEF TypeOK, ConnectionType, FieldsType
  <1>1. CASE connVars' = connVars /\ wake' \in BOOLEAN /\ interest' \subseteq Sources
             /\ faults' \in Nat
    BY <1>0, <1>1 DEF connVars, ConnectionType, StreamType
  <1>2. CASE StreamType' /\ wake' \in BOOLEAN /\ interest' \subseteq Sources
             /\ faults' \in Nat
    BY <1>2 DEF ConnectionType
  <1>3. CASE Poll
    BY <1>0, <1>1, <1>3 DEF Poll, PollPendingEvent, PollStart, rest
  <1>4. CASE Connect
    <2>1. CASE ConnectNothing \/ ConnectPending \/ ConnectErr
      BY <1>0, <1>1, <2>1
      DEF ConnectNothing, ConnectPending, ConnectErr, data, rest, taskVars, Sources
    <2>2. CASE ConnectOk
      BY <1>0, <1>2, <2>2, BecomeType DEF ConnectOk, Opened, Statuses, taskVars
    <2>. QED
      BY <1>4, <2>1, <2>2 DEF Connect
  <1>5. CASE Send
    <2>1. CASE SendNothing
      BY <1>0, <1>1, <2>1 DEF SendNothing, data, rest, taskVars
    <2>2. CASE SendDone \/ SendPanics \/ SendPending \/ FlushErr
      BY <1>0, <1>2, <2>2, SendType
      DEF SendDone, SendPanics, SendPending, FlushErr, rest, taskVars, Sources
    <2>3. CASE SendErr
      BY <1>0, <1>2, <2>3, BecomeType DEF SendErr, Dropped, Statuses, rest
    <2>. QED
      BY <1>5, <2>1, <2>2, <2>3 DEF Send
  <1>6. CASE Shutdown
    <2>1. CASE UNCHANGED connVars
      BY <1>0, <1>1, <1>6, <2>1 DEF Shutdown, rest, Sources
    <2>2. CASE End \/ CloseWaits
      BY <1>0, <1>2, <1>6, <2>2, CloseType DEF Shutdown, rest, Sources
    <2>. QED
      BY <1>6, <2>1, <2>2 DEF Shutdown, CloseCompletes
  <1>7. CASE TickStep
    BY <1>0, <1>1, <1>7
    DEF TickStep, TickPending, TickZombied, TickHeartbeat, rest, taskVars
  <1>8. CASE Read
    <2>1. CASE ReadPending
      BY <1>0, <1>1, <2>1 DEF ReadPending, data, rest, Sources
    <2>2. CASE ReadEvent
      <3>1. StreamType'
        BY <1>0, <2>2, TakeType DEF ReadEvent, ReadsKind
      <3>2. \E item : Ready(item)
        BY <2>2 DEF ReadEvent, HandOver
      <3>. QED
        BY <1>0, <1>2, <2>2, <3>1, <3>2 DEF ReadEvent
    <2>3. CASE ReadUnknown \/ ReadMalformed \/ ReadBinary \/ ReadClose
      BY <1>0, <1>2, <2>3, TakeType
      DEF ReadUnknown, ReadMalformed, ReadBinary, ReadClose, ReadsKind, rest, taskVars
    <2>4. CASE ReadErr \/ ReadEndPending
      BY <1>0, <1>2, <2>4, CloseType DEF ReadErr, ReadEndPending, rest, taskVars, Sources
    <2>5. CASE ReadEnd
      BY <1>0, <1>2, <2>5, BecomeType DEF ReadEnd, Dropped, Statuses, rest, taskVars
    <2>. QED
      BY <1>8, <2>1, <2>2, <2>3, <2>4, <2>5 DEF Read
  <1>9. CASE User
    BY <1>0, <1>1, <1>9 DEF User, send, close, reconnect_to, Call
  <1>10. CASE Timers
    <2>1. CASE Tick
      <3>1. wake' \in BOOLEAN
        BY <2>1 DEF Tick
      <3>. QED
        BY <1>0, <1>1, <2>1, <3>1 DEF Tick, rest
    <2>2. CASE DialOk \/ DialErr
      <3>1. wake' \in BOOLEAN
        BY <2>2 DEF DialOk, DialErr, Notify
      <3>2. interest' \subseteq Sources /\ faults' \in Nat /\ connVars' = connVars
        BY <1>0, <2>2 DEF DialOk, DialErr, Fault, Notify
      <3>. QED
        BY <1>1, <3>1, <3>2
    <2>. QED
      BY <1>10, <2>1, <2>2 DEF Timers
  <1>11. CASE Outside
    BY <1>0, <1>11, WorldType DEF Outside
  <1>12. CASE UNCHANGED vars
    BY <1>0, <1>1, <1>12 DEF vars, rest, taskVars
  <1>. QED
    BY <1>3, <1>4, <1>5, <1>6, <1>7, <1>8, <1>9, <1>10, <1>11, <1>12
    DEF Next, InPoll

\* Every step keeps the socket's own fields well-typed.
LEMMA FieldsStep ==
    ASSUME TypeOK, [Next]_vars
    PROVE  FieldsType'
  <1>0. FieldsType
    BY DEF TypeOK
  <1>1. CASE UNCHANGED fields
    BY <1>0, <1>1 DEF fields, status, FieldsType
  <1>2. CASE Poll \/ Outside \/ DialOk \/ DialErr \/ Shutdown
    BY <1>1, <1>2
    DEF Poll, PollPendingEvent, PollStart, Outside, Aside, DialOk, DialErr, Shutdown
  <1>3. CASE Connect
    <2>1. CASE ConnectNothing \/ ConnectPending
      BY <1>1, <2>1 DEF ConnectNothing, ConnectPending, data
    <2>2. CASE ConnectOk
      BY <1>0, <2>2 DEF ConnectOk, FieldsType
    <2>3. CASE ConnectErr
      BY <1>0, <2>3 DEF ConnectErr, FieldsType
    <2>. QED
      BY <1>3, <2>1, <2>2, <2>3 DEF Connect
  <1>4. CASE Send
    <2>1. CASE SendNothing \/ SendPanics
      BY <1>1, <2>1 DEF SendNothing, SendPanics, data
    <2>2. CASE SendDone
      <3>1. heartbeater' \in Heartbeater
        BY <1>0, <2>2, HeartbeaterType DEF SendDone, FieldsType
      <3>2. pending' \in [message : Frames \cup {"Empty", "Taken"}, is_heartbeat : BOOLEAN]
        BY <2>2 DEF SendDone, NoPending
      <3>. QED
        BY <1>0, <2>2, <3>1, <3>2 DEF SendDone, status, FieldsType
    <2>3. CASE SendPending \/ SendErr \/ FlushErr
      <3>1. pending' \in [message : Frames \cup {"Empty", "Taken"}, is_heartbeat : BOOLEAN]
        BY <1>0, <2>3 DEF SendPending, SendErr, FlushErr, FieldsType
      <3>. QED
        BY <1>0, <2>3, <3>1, HeartbeaterType
        DEF SendPending, SendErr, FlushErr, Leave, status, FieldsType
    <2>. QED
      BY <1>4, <2>1, <2>2, <2>3 DEF Send
  <1>5. CASE TickStep
    <2>1. CASE TickPending
      BY <1>0, <2>1, HeartbeaterType DEF TickPending, status, FieldsType
    <2>2. CASE TickZombied
      BY <1>0, <2>2, CloseInnerType DEF TickZombied
    <2>3. CASE TickHeartbeat
      <3>1. heartbeater' \in Heartbeater
        BY <1>0, <2>3 DEF TickHeartbeat, FieldsType, Heartbeater
      <3>2. pending' \in [message : Frames \cup {"Empty", "Taken"}, is_heartbeat : BOOLEAN]
        BY <2>3 DEF TickHeartbeat, Queued, Frames
      <3>. QED
        BY <1>0, <2>3, <3>1, <3>2 DEF TickHeartbeat, status, FieldsType
    <2>. QED
      BY <1>5, <2>1, <2>2, <2>3 DEF TickStep
  <1>6. CASE Read
    <2>1. CASE ReadEvent \/ ReadMalformed
      BY <1>0, <2>1, HeartbeaterType
      DEF ReadEvent, ReadMalformed, ProcessEvent, status, FieldsType
    <2>2. CASE ReadPending \/ ReadUnknown \/ ReadBinary \/ ReadEndPending
      BY <1>1, <2>2 DEF ReadPending, ReadUnknown, ReadBinary, ReadEndPending, data
    <2>3. CASE ReadClose \/ ReadErr \/ ReadEnd
      BY <1>0, <1>1, <2>3, CloseInnerType DEF ReadClose, ReadErr, ReadEnd
    <2>. QED
      BY <1>6, <2>1, <2>2, <2>3 DEF Read
  <1>7. CASE User
    <2>1. Queued("Close") \in [message : Frames \cup {"Empty", "Taken"}, is_heartbeat : BOOLEAN]
          /\ Queued("Text") \in [message : Frames \cup {"Empty", "Taken"}, is_heartbeat : BOOLEAN]
      BY DEF Queued, Frames
    <2>2. CASE send
      BY <1>0, <2>1, <2>2 DEF send, status, FieldsType
    <2>3. CASE \E code \in UserCodes : close(code)
      BY <1>0, <2>3, CloseInnerType DEF close
    <2>4. CASE \E new_endpoint \in Endpoints : reconnect_to(new_endpoint)
      BY <1>0, <2>1, <2>4, HeartbeaterType DEF reconnect_to, Leave, FieldsType
    <2>. QED
      BY <1>7, <2>2, <2>3, <2>4 DEF User
  <1>8. CASE Tick
    <2>1. heartbeater' \in Heartbeater
      BY <1>0, <1>8 DEF Tick, FieldsType, Heartbeater
    <2>. QED
      BY <1>0, <1>8, <2>1 DEF Tick, status, FieldsType
  <1>9. CASE UNCHANGED vars
    BY <1>1, <1>9 DEF vars
  <1>. QED
    BY <1>2, <1>3, <1>4, <1>5, <1>6, <1>7, <1>8, <1>9 DEF Next, InPoll, Timers

\* Every step keeps the endpoints and the dialling well-typed.
LEMMA DialingStep ==
    ASSUME TypeOK, [Next]_vars
    PROVE  DialingType' /\ wanted' \in Endpoints
  <1>0. DialingType /\ wanted \in Endpoints
    BY DEF TypeOK
  <1>1. CASE UNCHANGED dialing /\ wanted' = wanted
    BY <1>0, <1>1 DEF dialing, DialingType
  <1>2. CASE Poll \/ Send \/ Shutdown \/ TickStep \/ Tick \/ Outside
    BY <1>1, <1>2
    DEF Poll, PollPendingEvent, PollStart, Send, SendNothing, SendDone, SendPanics,
        SendPending, SendErr, FlushErr, Shutdown, TickStep, TickPending, TickZombied,
        TickHeartbeat, Tick, Outside, Aside, data, rest, history
  <1>3. CASE Connect
    <2>1. CASE ConnectNothing
      BY <1>1, <2>1 DEF ConnectNothing, data, rest, history
    <2>2. CASE ConnectPending \/ ConnectOk \/ ConnectErr
      BY <1>0, <2>2
      DEF ConnectPending, ConnectOk, ConnectErr, TakeEndpoint, history, DialingType
    <2>. QED
      BY <1>3, <2>1, <2>2 DEF Connect
  <1>4. CASE Read
    BY <1>1, <1>4
    DEF Read, ReadPending, ReadEvent, ReadUnknown, ReadMalformed, ReadBinary, ReadClose,
        ReadErr, ReadEndPending, ReadEnd, HandOver, data, rest, history
  <1>5. CASE User
    BY <1>0, <1>5 DEF User, send, close, reconnect_to, dialing, history, DialingType
  <1>6. CASE DialOk \/ DialErr
    BY <1>0, <1>6 DEF DialOk, DialErr, history, DialingType
  <1>7. CASE UNCHANGED vars
    BY <1>1, <1>7 DEF vars, rest, history
  <1>. QED
    BY <1>2, <1>3, <1>4, <1>5, <1>6, <1>7 DEF Next, InPoll, Timers

\* The message that ReadEvent takes is an event.
LEMMA EventType ==
    ASSUME ReadsKind(EventOps)
    PROVE  Head(inbox).kind \in EventOps
  BY DEF ReadsKind

\* Every step keeps the poll and the history well-typed.  That the backlog does not
\* become negative takes NoEventLost.
LEMMA PollStep ==
    ASSUME TypeOK, NoEventLost, [Next]_vars
    PROVE  /\ pending_event' \in EventOps \cup {"None", "Reconnected"}
           /\ pc' \in {"idle", "connect", "send", "flush", "shutdown", "tick", "read",
                       "panic"}
           /\ ret' \in EventOps \cup {"Polling", "Pending", "Reconnected",
                                      "Disconnected", "Error", "End"}
           /\ calls' \in Nat
           /\ expected' \in BOOLEAN /\ announced' \in BOOLEAN /\ backlog' \in Nat
  <1>. USE DEF Goto, Ready, Pending, TypeOK
  <1>1. CASE PollPendingEvent
    BY <1>1 DEF PollPendingEvent, TakePendingEvent, NoEventLost
  <1>2. CASE PollStart
    BY <1>2 DEF PollStart, rest, history
  <1>3. CASE Connect
    BY <1>3
    DEF Connect, ConnectNothing, ConnectPending, ConnectOk, ConnectErr, AfterConnect,
        data, rest, history
  <1>4. CASE Send
    BY <1>4
    DEF Send, SendNothing, SendDone, SendPanics, SendPending, SendErr, FlushErr,
        AfterSend, data, rest, history
  <1>5. CASE Shutdown
    BY <1>5 DEF Shutdown, rest, history
  <1>6. CASE TickStep
    BY <1>6 DEF TickStep, TickPending, TickZombied, TickHeartbeat, rest, history
  <1>7. CASE ReadEvent
    <2>1. Head(inbox).kind \in EventOps
      BY <1>7, EventType DEF ReadEvent
    <2>2. CASE pending_event = "None"
      BY <1>7, <2>1, <2>2 DEF ReadEvent, HandOver, history
    <2>3. CASE pending_event # "None"
      <3>1. announced' \in BOOLEAN
        BY <1>7, <2>3 DEF ReadEvent, HandOver
      <3>. QED
        BY <1>7, <2>1, <2>3, <3>1 DEF ReadEvent, HandOver
    <2>. QED
      BY <2>2, <2>3
  <1>8. CASE Read /\ ~ReadEvent
    BY <1>8
    DEF Read, ReadPending, ReadUnknown, ReadMalformed, ReadBinary, ReadClose, ReadErr,
        ReadEndPending, ReadEnd, data, rest, history
  <1>9. CASE User
    <2>1. expected' \in BOOLEAN
      BY <1>9 DEF User, send, close, reconnect_to, history
    <2>. QED
      BY <1>9, <2>1 DEF User, send, close, reconnect_to, Call, history
  <1>10. CASE Timers
    BY <1>10 DEF Timers, Tick, DialOk, DialErr, rest, history
  <1>11. CASE Outside
    BY <1>11 DEF Outside, Aside, history
  <1>12. CASE UNCHANGED vars
    BY <1>12 DEF vars, rest, history
  <1>. QED
    BY <1>1, <1>2, <1>3, <1>4, <1>5, <1>6, <1>7, <1>8, <1>9, <1>10, <1>11, <1>12
    DEF Next, InPoll, Poll

\* Type correctness is inductive together with NoEventLost.
LEMMA TypeStep ==
    ASSUME TypeOK, NoEventLost, [Next]_vars
    PROVE  TypeOK'
  BY ConnectionStep, FieldsStep, DialingStep, PollStep DEF TypeOK

------------------------------------------------------------------------------
(* The inductive invariant.  SocketPresent is not inductive by itself: that a   *)
(* part of the poll has a connection to unwrap follows from what the parts      *)
(* before it left behind, which PollDiscipline says.                            *)

IInv ==
    /\ TypeOK
    /\ SocketPresent
    /\ OneConnection
    /\ ReconnectionAnnounced
    /\ NoEventLost
    /\ ClosedIsQuiet
    /\ PollDiscipline

\* The states the program starts in satisfy it.
LEMMA InitIInv ==
    ASSUME Init
    PROVE  IInv
  <1>1. ConnectionType
    BY DEF Init, ConnectionInit, ConnectionType, StreamType, Statuses, NewGateway, Gateway
  <1>2. FieldsType
    BY DEF Init, FieldsType, NoHeartbeater, Heartbeater, NoPending
  <1>3. TypeOK
    BY <1>1, <1>2 DEF Init, TypeOK, DialingType
  <1>4. SocketPresent /\ OneConnection /\ ReconnectionAnnounced /\ NoEventLost
    BY SocketAssumption
    DEF Init, ConnectionInit, EventOps, SocketPresent, OneConnection,
        ReconnectionAnnounced, NoEventLost
  <1>5. ClosedIsQuiet /\ PollDiscipline
    BY DEF Init, EventOps, NoPending, ClosedIsQuiet, PollDiscipline
  <1>. QED
    BY <1>3, <1>4, <1>5 DEF IInv

\* What the gateway and the network do neither opens nor drops a connection.
LEMMA WorldKeepsConnection ==
    ASSUME World
    PROVE  connection' = connection
  BY DEF World, GatewayHello, GatewayAck, GatewayEvent, GatewayAnswer, GatewayClose,
         NetBlock, NetUnblock, NetBreak, NetSilence, NetEof, Arrives

\* Neither does a frame that is sent, nor a message or an end that is read.
LEMMA StreamKeepsConnection ==
    ASSUME connection # "none", NEW m,
           Flushed(m) \/ Unflushed(m) \/ SendError(m) \/ Take \/ End \/ CloseWaits
    PROVE  connection' # "none"
  BY DEF Flushed, Unflushed, SendError, Take, End, CloseWaits, AfterStartSend

\* OneConnection: a connection appears only when the dialling is over, and
\* dialling starts only when there is none.
LEMMA OneConnectionStep ==
    ASSUME IInv, [Next]_vars
    PROVE  OneConnection'
  <1>. USE DEF IInv, OneConnection
  <1>1. CASE future' = future /\ (connection = "none" => connection' = "none")
    BY <1>1
  <1>2. CASE Poll \/ User \/ Timers
    BY <1>1, <1>2
    DEF Poll, PollPendingEvent, PollStart, User, send, close, reconnect_to, Timers, Tick,
        DialOk, DialErr, connVars, rest, dialing
  <1>3. CASE Connect
    BY <1>3, SocketAssumption
    DEF Connect, ConnectNothing, ConnectPending, ConnectOk, ConnectErr, Dials, data,
        connVars, rest, dialing
  <1>4. CASE Send
    <2>1. future' = future
      BY <1>4
      DEF Send, SendNothing, SendDone, SendPanics, SendPending, SendErr, FlushErr, data,
          rest, dialing
    <2>2. connection = "none" => connection' = "none"
      BY <1>4
      DEF Send, SendNothing, SendDone, SendPanics, SendPending, SendErr, FlushErr,
          Sending, data, connVars
    <2>. QED
      BY <1>1, <2>1, <2>2
  <1>5. CASE Shutdown \/ TickStep
    BY <1>1, <1>5
    DEF Shutdown, TickStep, TickPending, TickZombied, TickHeartbeat, connVars, rest,
        dialing
  <1>6. CASE Read
    BY <1>1, <1>6
    DEF Read, ReadPending, ReadEvent, ReadUnknown, ReadMalformed, ReadBinary, ReadClose,
        ReadErr, ReadEndPending, ReadEnd, ReadsKind, Reading, Dropped, Become, data,
        rest, dialing
  <1>7. CASE Outside
    BY <1>1, <1>7, WorldKeepsConnection DEF Outside, Aside, dialing
  <1>8. CASE UNCHANGED vars
    BY <1>1, <1>8 DEF vars, connVars, rest, dialing
  <1>. QED
    BY <1>2, <1>3, <1>4, <1>5, <1>6, <1>7, <1>8 DEF Next, InPoll

\* SocketPresent: a poll that finds no connection does not get past poll_ws_connect,
\* and whatever gives a connection up leaves the poll or starts it over.
LEMMA SocketPresentStep ==
    ASSUME IInv, [Next]_vars
    PROVE  SocketPresent'
  <1>. USE DEF IInv, SocketPresent, Goto, Ready, Pending
  <1>0. /\ state \in {"Connected", "Disconnected", "Closed"}
        /\ pc \in {"send", "tick", "read"} => connection # "none" /\ state # "Closed"
    BY DEF TypeOK, FieldsType, PollDiscipline
  <1>1. CASE /\ connection # "none" => connection' # "none"
             /\ state' \in {state, "Disconnected", "Closed"}
             /\ pc' \in {"tick", "read"} => connection # "none"
    BY <1>1
  <1>2. CASE Poll \/ User \/ Timers
    <2>1. state' \in {state, "Disconnected", "Closed"}
      <3>1. CASE \E code \in UserCodes : close(code)
        BY <1>0, <3>1, CloseInnerType DEF close, TypeOK
      <3>2. CASE ~\E code \in UserCodes : close(code)
        BY <1>2, <3>2
        DEF Poll, PollPendingEvent, PollStart, User, send, reconnect_to, Leave, Timers,
            Tick, DialOk, DialErr, fields, status
      <3>. QED
        BY <3>1, <3>2
    <2>2. connVars' = connVars /\ pc' \in {pc, "idle", "connect"}
      BY <1>2
      DEF Poll, PollPendingEvent, PollStart, User, send, close, reconnect_to, Timers,
          Tick, DialOk, DialErr
    <2>. QED
      BY <1>1, <2>1, <2>2 DEF connVars
  <1>3. CASE Connect
    BY <1>0, <1>3
    DEF Connect, ConnectNothing, ConnectPending, ConnectOk, ConnectErr, AfterConnect,
        Opened, Become, data, connVars, fields, status
  <1>4. CASE Send
    <2>1. CASE SendNothing
      BY <1>0, <2>1 DEF SendNothing, AfterSend, data, connVars, fields, status
    <2>2. CASE SendDone \/ SendPanics \/ SendPending \/ FlushErr
      BY <1>0, <2>2, StreamKeepsConnection
      DEF SendDone, SendPanics, SendPending, FlushErr, Sending, AfterSend, fields, status
    <2>3. CASE SendErr
      BY <2>3 DEF SendErr, Leave
    <2>. QED
      BY <1>4, <2>1, <2>2, <2>3 DEF Send
  <1>5. CASE Shutdown
    BY <1>5, StreamKeepsConnection
    DEF Shutdown, CloseCompletes, connVars, fields, status
  <1>6. CASE TickStep
    <2>1. state' \in {state, "Disconnected", "Closed"}
      BY <1>0, <1>6, CloseInnerType
      DEF TickStep, TickPending, TickZombied, TickHeartbeat, status, TypeOK
    <2>. QED
      BY <1>1, <1>6, <2>1
      DEF TickStep, TickPending, TickZombied, TickHeartbeat, connVars
  <1>7. CASE Read
    <2>1. state' \in {state, "Disconnected", "Closed"}
      BY <1>0, <1>7, CloseInnerType
      DEF Read, ReadPending, ReadEvent, ReadUnknown, ReadMalformed, ReadBinary, ReadClose,
          ReadErr, ReadEndPending, ReadEnd, data, fields, status, TypeOK
    <2>2. CASE ReadEnd
      <3>1. state' # "Connected"
        BY <2>2, <1>0, CloseInnerType DEF ReadEnd, TypeOK, fields, status
      <3>. QED
        BY <2>2, <3>1 DEF ReadEnd
    <2>3. CASE ReadPending
      BY <1>1, <2>1, <2>3 DEF ReadPending, data, connVars
    <2>4. CASE ReadEvent \/ ReadUnknown \/ ReadMalformed \/ ReadBinary \/ ReadClose
               \/ ReadErr \/ ReadEndPending
      <3>1. Take \/ End
        BY <2>4
        DEF ReadEvent, ReadUnknown, ReadMalformed, ReadBinary, ReadClose, ReadErr,
            ReadEndPending
      <3>2. connection # "none" /\ pc' \in {"idle", "connect"}
        BY <2>4
        DEF ReadEvent, ReadUnknown, ReadMalformed, ReadBinary, ReadClose, ReadErr,
            ReadEndPending, ReadsKind, Reading, HandOver
      <3>. QED
        BY <1>1, <2>1, <3>1, <3>2, StreamKeepsConnection
    <2>. QED
      BY <1>7, <2>2, <2>3, <2>4 DEF Read
  <1>8. CASE Outside
    BY <1>1, <1>8, WorldKeepsConnection DEF Outside, Aside, fields, status
  <1>9. CASE UNCHANGED vars
    BY <1>1, <1>9 DEF vars, connVars, fields, status
  <1>. QED
    BY <1>2, <1>3, <1>4, <1>5, <1>6, <1>7, <1>8, <1>9 DEF Next, InPoll

\* NoEventLost and ReconnectionAnnounced: only three actions touch the slot of the
\* pending event, and ConnectOk finds no event in it because the poll it belongs
\* to has taken it.
LEMMA EventsStep ==
    ASSUME IInv, [Next]_vars
    PROVE  NoEventLost' /\ ReconnectionAnnounced'
  <1>. USE DEF IInv, NoEventLost, ReconnectionAnnounced, Goto, Ready, Pending
  <1>0. /\ pending_event \in EventOps \cup {"None", "Reconnected"}
        /\ {"None", "Reconnected", "Disconnected", "Error", "End", "Pending", "Polling"}
               \cap EventOps = {}
        /\ expected \in BOOLEAN /\ announced \in BOOLEAN /\ backlog \in Nat
    BY DEF TypeOK, EventOps
  <1>1. CASE /\ UNCHANGED <<pending_event, announced, backlog>>
             /\ ret' = ret \/ ret' \notin EventOps
    BY <1>1
  <1>2. CASE PollPendingEvent
    <2>1. announced'
      BY <1>2 DEF PollPendingEvent
    <2>. QED
      BY <1>0, <1>2, <2>1 DEF PollPendingEvent, TakePendingEvent
  <1>3. CASE PollStart \/ User \/ Timers \/ Outside
    BY <1>0, <1>1, <1>3
    DEF PollStart, User, send, close, reconnect_to, Timers, Tick, DialOk, DialErr,
        Outside, Aside, rest, history
  <1>4. CASE Connect
    <2>1. CASE ConnectNothing \/ ConnectPending \/ ConnectErr
      BY <1>0, <1>1, <2>1
      DEF ConnectNothing, ConnectPending, ConnectErr, data, rest, history
    <2>2. CASE ConnectOk
      <3>1. pending_event \notin EventOps /\ ret = "Polling" /\ backlog = 0
        BY <2>2 DEF ConnectOk, Dials, PollDiscipline
      <3>2. gracefully_disconnected = expected
        BY DEF PollDiscipline
      <3>. QED
        BY <1>0, <2>2, <3>1, <3>2 DEF ConnectOk
    <2>. QED
      BY <1>4, <2>1, <2>2 DEF Connect
  <1>5. CASE Send \/ Shutdown \/ TickStep
    BY <1>0, <1>1, <1>5
    DEF Send, SendNothing, SendDone, SendPanics, SendPending, SendErr, FlushErr, Shutdown,
        TickStep, TickPending, TickZombied, TickHeartbeat, data, rest, history
  <1>6. CASE ReadEvent
    <2>1. Head(inbox).kind \in EventOps
      BY <1>6, EventType DEF ReadEvent
    <2>2. CASE pending_event = "None"
      BY <1>0, <1>6, <2>1, <2>2 DEF ReadEvent, HandOver, history
    <2>3. CASE pending_event # "None"
      <3>1. announced'
        BY <1>6, <2>3 DEF ReadEvent, HandOver
      <3>. QED
        BY <1>0, <1>6, <2>1, <2>3, <3>1 DEF ReadEvent, HandOver
    <2>. QED
      BY <2>2, <2>3
  <1>7. CASE Read /\ ~ReadEvent
    BY <1>0, <1>1, <1>7
    DEF Read, ReadPending, ReadUnknown, ReadMalformed, ReadBinary, ReadClose, ReadErr,
        ReadEndPending, ReadEnd, data, rest, history
  <1>8. CASE UNCHANGED vars
    BY <1>1, <1>8 DEF vars, rest, history
  <1>. QED
    BY <1>2, <1>3, <1>4, <1>5, <1>6, <1>7, <1>8 DEF Next, InPoll, Poll

\* A close that leaves the socket closed leaves it quiet: it either replaces the
\* pending message or finds one that is no heartbeat.
LEMMA ClosedIsQuietStep ==
    ASSUME IInv, [Next]_vars
    PROVE  ClosedIsQuiet'
  <1>. USE DEF IInv, ClosedIsQuiet
  <1>0. FieldsType /\ pending.is_heartbeat \in BOOLEAN
    BY DEF TypeOK, FieldsType
  <1>a. ~NoHeartbeater.live /\ ~NoPending.is_heartbeat
        /\ ~Queued("Close").is_heartbeat /\ ~Queued("Text").is_heartbeat
    BY DEF NoHeartbeater, NoPending, Queued
  <1>1. CASE UNCHANGED <<state, heartbeater, pending>>
    BY <1>1
  <1>2. CASE Poll \/ Shutdown \/ DialOk \/ DialErr \/ Outside
    BY <1>1, <1>2
    DEF Poll, PollPendingEvent, PollStart, Shutdown, DialOk, DialErr, Outside, Aside,
        fields, status
  <1>3. CASE Connect
    BY <1>1, <1>3
    DEF Connect, ConnectNothing, ConnectPending, ConnectOk, ConnectErr, data, fields,
        status
  <1>4. CASE Send
    <2>1. CASE SendNothing \/ SendPanics
      BY <1>1, <2>1 DEF SendNothing, SendPanics, data, fields, status
    <2>2. CASE SendDone
      BY <1>0, <1>a, <2>2, HeartbeaterType DEF SendDone, status
    <2>3. CASE SendPending \/ FlushErr
      <3>1. pending'.is_heartbeat = pending.is_heartbeat
        BY <1>0, <2>3 DEF SendPending, FlushErr, FieldsType
      <3>. QED
        BY <2>3, <3>1 DEF SendPending, FlushErr, status
    <2>4. CASE SendErr
      BY <2>4 DEF SendErr, Leave
    <2>. QED
      BY <1>4, <2>1, <2>2, <2>3, <2>4 DEF Send
  <1>5. CASE TickStep
    <2>1. CASE TickPending \/ TickHeartbeat
      <3>1. state # "Closed"
        BY <2>1 DEF TickPending, TickHeartbeat, PollDiscipline
      <3>. QED
        BY <2>1, <3>1 DEF TickPending, TickHeartbeat, status
    <2>2. CASE TickZombied
      BY <1>0, <1>a, <2>2, CloseInnerType DEF TickZombied, close_inner
    <2>. QED
      BY <1>5, <2>1, <2>2 DEF TickStep
  <1>6. CASE Read
    <2>1. Read => pc = "read"
      BY DEF Read, ReadPending, ReadEvent, ReadUnknown, ReadMalformed, ReadBinary,
             ReadClose, ReadErr, ReadEndPending, ReadEnd, ReadsKind, Reading
    <2>2. state # "Closed" /\ ~pending.is_heartbeat
      BY <1>6, <2>1 DEF PollDiscipline
    <2>3. CASE state' = state
      BY <2>2, <2>3
    <2>4. CASE ReadClose \/ ReadErr \/ ReadEnd
      BY <1>0, <1>1, <1>a, <2>2, <2>4, CloseInnerType DEF ReadClose, ReadErr, ReadEnd, fields, status
    <2>5. CASE Read /\ ~ReadClose /\ ~ReadErr /\ ~ReadEnd
      BY <2>3, <2>5
      DEF Read, ReadPending, ReadEvent, ReadUnknown, ReadMalformed, ReadBinary,
          ReadEndPending, data, fields, status
    <2>. QED
      BY <1>6, <2>4, <2>5
  <1>7. CASE User
    <2>1. CASE send
      BY <1>a, <2>1 DEF send, status
    <2>2. CASE \E code \in UserCodes : close(code)
      BY <1>0, <1>a, <2>2, CloseInnerType DEF close, close_inner
    <2>3. CASE \E new_endpoint \in Endpoints : reconnect_to(new_endpoint)
      BY <2>3 DEF reconnect_to, Leave
    <2>. QED
      BY <1>7, <2>1, <2>2, <2>3 DEF User
  <1>8. CASE Tick
    BY <1>8 DEF Tick, status
  <1>9. CASE UNCHANGED vars
    BY <1>1, <1>9 DEF vars, fields, status
  <1>. QED
    BY <1>2, <1>3, <1>4, <1>5, <1>6, <1>7, <1>8, <1>9 DEF Next, InPoll, Timers

\* PollDiscipline, the part about a poll that runs.
LEMMA RunningPollStep ==
    ASSUME IInv, [Next]_vars
    PROVE  /\ pc' # "idle" => ret' = "Polling" /\ pending_event' \notin EventOps
           /\ pc' \in {"send", "tick", "read"} => connection' # "none" /\ state' # "Closed"
           /\ pc' \in {"tick", "read"} => ~pending'.is_heartbeat
  <1>. USE DEF IInv, Goto, Ready, Pending
  <1>0. /\ pc # "idle" => ret = "Polling" /\ pending_event \notin EventOps
        /\ pc \in {"send", "tick", "read"} => connection # "none" /\ state # "Closed"
        /\ pc \in {"tick", "read"} => ~pending.is_heartbeat
        /\ FieldsType
        /\ "None" \notin EventOps
        /\ ~NoPending.is_heartbeat /\ ~Queued("Close").is_heartbeat
    BY DEF PollDiscipline, TypeOK, EventOps, NoPending, Queued
  <1>1. CASE pc' = "idle"
    BY <1>1
  <1>2. CASE /\ UNCHANGED <<ret, pending_event, state, pending, pc>>
             /\ connection # "none" => connection' # "none"
    BY <1>0, <1>2
  <1>3. CASE Poll \/ User
    BY <1>0, <1>1, <1>3
    DEF Poll, PollPendingEvent, PollStart, User, send, close, reconnect_to, Call, rest
  <1>4. CASE Connect
    <2>1. CASE ConnectPending \/ ConnectErr
      BY <1>1, <2>1 DEF ConnectPending, ConnectErr
    <2>2. CASE ConnectOk
      <3>1. pending_event' \notin EventOps /\ ret' = "Polling"
        BY <1>0, <2>2 DEF ConnectOk, Dials, EventOps
      <3>. QED
        BY <2>2, <3>1 DEF ConnectOk, Opened, Become
    <2>3. CASE ConnectNothing
      <3>1. connection # "none" \/ state = "Closed"
        BY <1>0, <2>3 DEF ConnectNothing, Dials, SocketPresent, FieldsType
      <3>. QED
        BY <1>0, <2>3, <3>1
        DEF ConnectNothing, AfterConnect, data, rest, connVars, fields, status
    <2>. QED
      BY <1>4, <2>1, <2>2, <2>3 DEF Connect
  <1>5. CASE Send
    <2>1. CASE SendNothing
      <3>1. pc = "send" => pending = NoPending
        BY <1>0, <2>1 DEF SendNothing
      <3>. QED
        BY <1>0, <2>1, <3>1
        DEF SendNothing, AfterSend, data, rest, connVars, fields, status
    <2>2. CASE SendDone
      BY <1>0, <2>2, StreamKeepsConnection
      DEF SendDone, Sending, AfterSend, rest, status
    <2>3. CASE SendPanics
      BY <1>0, <2>3 DEF SendPanics, Sending, rest
    <2>4. CASE SendPending \/ SendErr \/ FlushErr
      BY <1>1, <2>4 DEF SendPending, SendErr, FlushErr
    <2>. QED
      BY <1>5, <2>1, <2>2, <2>3, <2>4 DEF Send
  <1>6. CASE Shutdown
    BY <1>1, <1>6 DEF Shutdown
  <1>7. CASE TickStep
    <2>1. CASE TickPending \/ TickHeartbeat
      BY <1>0, <2>1 DEF TickPending, TickHeartbeat, rest, connVars, status
    <2>2. CASE TickZombied
      <3>1. from_close_code(ResumeCode) = "Disconnected" /\ ResumeCode \notin GracefulCodes
        BY DEF from_close_code, KnownCodes, ResumeCode, GracefulCodes
      <3>2. state' = "Disconnected" /\ pending' = Queued("Close")
        BY <2>2, <3>1 DEF TickZombied, close_inner, Leave
      <3>. QED
        BY <1>0, <2>2, <3>2 DEF TickZombied, rest, connVars
    <2>. QED
      BY <1>7, <2>1, <2>2 DEF TickStep
  <1>8. CASE Read
    <2>1. CASE ReadPending \/ ReadEvent \/ ReadUnknown \/ ReadMalformed \/ ReadClose
               \/ ReadEndPending
      BY <1>1, <2>1
      DEF ReadPending, ReadEvent, ReadUnknown, ReadMalformed, ReadClose, ReadEndPending,
          HandOver
    <2>2. CASE ReadBinary \/ ReadErr \/ ReadEnd
      BY <1>0, <1>1, <2>2
      DEF ReadBinary, ReadErr, ReadEnd, ReadsKind, Reading, rest
    <2>. QED
      BY <1>8, <2>1, <2>2 DEF Read
  <1>9. CASE Timers
    BY <1>2, <1>9 DEF Timers, Tick, DialOk, DialErr, connVars, rest, fields, status
  <1>10. CASE Outside
    BY <1>2, <1>10, WorldKeepsConnection DEF Outside, Aside, fields, status
  <1>11. CASE UNCHANGED vars
    BY <1>2, <1>11 DEF vars, connVars, rest, fields, status
  <1>. QED
    BY <1>3, <1>4, <1>5, <1>6, <1>7, <1>8, <1>9, <1>10, <1>11 DEF Next, InPoll

\* PollDiscipline, the part about the user's wishes.
LEMMA WishesStep ==
    ASSUME IInv, [Next]_vars
    PROVE  /\ gracefully_disconnected' = expected'
           /\ wanted' = IF reconnect' = NoEndpoint THEN endpoint' ELSE reconnect'
  <1>. USE DEF IInv
  <1>0. /\ gracefully_disconnected = expected
        /\ wanted = IF reconnect = NoEndpoint THEN endpoint ELSE reconnect
        /\ gracefully_disconnected \in BOOLEAN
        /\ reconnect \in Endpoints \cup {NoEndpoint}
    BY DEF PollDiscipline, TypeOK, FieldsType, DialingType
  <1>1. CASE UNCHANGED <<gracefully_disconnected, expected, wanted, reconnect, endpoint>>
    BY <1>0, <1>1
  <1>2. ASSUME NEW cause \in {"Transport", "Gateway"}, NEW code, close_inner(cause, code)
        PROVE  gracefully_disconnected' = gracefully_disconnected
    BY <1>0, <1>2 DEF close_inner
  <1>3. CASE Poll \/ Send \/ Shutdown \/ Timers \/ Outside
    BY <1>1, <1>3
    DEF Poll, PollPendingEvent, PollStart, Send, SendNothing, SendDone, SendPanics,
        SendPending, SendErr, FlushErr, Shutdown, Timers, Tick, DialOk, DialErr, Outside,
        Aside, data, rest, dialing, history, fields, status
  <1>4. CASE Connect
    BY <1>0, <1>4
    DEF Connect, ConnectNothing, ConnectPending, ConnectOk, ConnectErr, TakeEndpoint, data,
        rest, dialing, history, fields, status
  <1>5. CASE TickStep
    <2>1. gracefully_disconnected' = gracefully_disconnected
      BY <1>0, <1>5
      DEF TickStep, TickPending, TickZombied, TickHeartbeat, close_inner, ResumeCode,
          GracefulCodes, status
    <2>. QED
      BY <1>1, <1>5, <2>1
      DEF TickStep, TickPending, TickZombied, TickHeartbeat, rest, dialing, history
  <1>6. CASE Read
    <2>1. gracefully_disconnected' = gracefully_disconnected
      BY <1>2, <1>6
      DEF Read, ReadPending, ReadEvent, ReadUnknown, ReadMalformed, ReadBinary, ReadClose,
          ReadErr, ReadEndPending, ReadEnd, data, fields, status
    <2>. QED
      BY <1>1, <1>6, <2>1
      DEF Read, ReadPending, ReadEvent, ReadUnknown, ReadMalformed, ReadBinary, ReadClose,
          ReadErr, ReadEndPending, ReadEnd, HandOver, data, rest, dialing, history
  <1>7. CASE User
    <2>1. CASE send
      BY <1>1, <2>1 DEF send, status, dialing, history
    <2>2. CASE \E code \in UserCodes : close(code)
      BY <1>0, <2>2 DEF close, close_inner, dialing
    <2>3. CASE \E new_endpoint \in Endpoints : reconnect_to(new_endpoint)
      BY <2>3, SocketAssumption DEF reconnect_to
    <2>. QED
      BY <1>7, <2>1, <2>2, <2>3 DEF User
  <1>8. CASE UNCHANGED vars
    BY <1>1, <1>8 DEF vars, rest, dialing, history, fields, status
  <1>. QED
    BY <1>3, <1>4, <1>5, <1>6, <1>7, <1>8 DEF Next, InPoll

------------------------------------------------------------------------------
(* Theorems.                                                               *)

\* IInv is an invariant of every behaviour.
THEOREM Inductive == Spec => []IInv
  <1>1. Init => IInv
    BY InitIInv
  <1>2. IInv /\ [Next]_vars => IInv'
    BY TypeStep, SocketPresentStep, OneConnectionStep, EventsStep, ClosedIsQuietStep,
       RunningPollStep, WishesStep
    DEF IInv, PollDiscipline
  <1>. QED
    BY <1>1, <1>2, PTL DEF Spec

\* Every variable of the socket and of its surroundings keeps its kind of value.
THEOREM TypeCorrect == Spec => []TypeOK
  BY Inductive, PTL DEF IInv

\* poll_next never unwraps a connection that is gone.
THEOREM UnwrapsAConnection == Spec => []SocketPresent
  BY Inductive, PTL DEF IInv

\* The socket never dials while it holds a connection.
THEOREM DialsOneAtATime == Spec => []OneConnection
  BY Inductive, PTL DEF IInv

\* A reconnection is announced before any event of the new connection.
THEOREM AnnouncesReconnections == Spec => []ReconnectionAnnounced
  BY Inductive, PTL DEF IInv

\* The slot for an event that had to wait is never overwritten.
THEOREM DeliversEvents == Spec => []NoEventLost
  BY Inductive, PTL DEF IInv

\* A closed socket sends no heartbeat.
THEOREM ClosedSocketIsQuiet == Spec => []ClosedIsQuiet
  BY Inductive, PTL DEF IInv

\* What holds while a poll runs, whatever comes in between two of its parts.
THEOREM PollsInOrder == Spec => []PollDiscipline
  BY Inductive, PTL DEF IInv

\* Every part of a poll finds the connection it unwraps, a dial finds none, and whatever
\* comes in between two parts leaves alone what the later one relies on.
THEOREM PollsAreSafe == Spec => []PollsSafely
  BY UnwrapsAConnection, DialsOneAtATime, PollsInOrder, PTL DEF PollsSafely

\* Without a call of the user a closed socket stays closed.
LEMMA ClosedStep ==
    ASSUME IInv, [Next]_vars, state = "Closed", calls' = calls
    PROVE  state' = "Closed"
  <1>. USE DEF IInv
  <1>0. calls \in Nat /\ pc \notin {"send", "tick", "read"}
    BY DEF TypeOK, PollDiscipline
  <1>1. CASE UNCHANGED status
    BY <1>1 DEF status
  <1>2. CASE Poll \/ Shutdown \/ Timers \/ Outside
    BY <1>1, <1>2
    DEF Poll, PollPendingEvent, PollStart, Shutdown, Timers, Tick, DialOk, DialErr,
        Outside, Aside, fields
  <1>3. CASE Connect
    BY <1>1, <1>3
    DEF Connect, ConnectNothing, ConnectPending, ConnectOk, ConnectErr, Dials, data, fields
  <1>4. CASE Send
    BY <1>0, <1>1, <1>4
    DEF Send, SendNothing, SendDone, SendPanics, SendPending, SendErr, FlushErr, data,
        fields
  <1>5. CASE TickStep \/ Read
    BY <1>0, <1>5
    DEF TickStep, TickPending, TickZombied, TickHeartbeat, Read, ReadPending, ReadEvent,
        ReadUnknown, ReadMalformed, ReadBinary, ReadClose, ReadErr, ReadEndPending,
        ReadEnd, ReadsKind, Reading
  <1>6. CASE User
    BY <1>0, <1>6 DEF User, send, close, reconnect_to, Call
  <1>7. CASE UNCHANGED vars
    BY <1>1, <1>7 DEF vars, fields
  <1>. QED
    BY <1>2, <1>3, <1>4, <1>5, <1>6, <1>7 DEF Next, InPoll

\* Only a call of the user makes a closed socket anything else.
THEOREM ClosedStaysClosed == Spec => ClosedIsFinal
  <1>1. IInv /\ [Next]_vars
          => [state = "Closed" => state' = "Closed" \/ calls' # calls]_vars
    BY ClosedStep
  <1>. QED
    BY <1>1, Inductive, PTL DEF Spec, ClosedIsFinal

\* A dialling that starts, starts with the endpoint asked for last.
LEMMA DialStep ==
    ASSUME IInv, [Next]_vars, future = NoEndpoint, future' # NoEndpoint
    PROVE  future' = wanted
  <1>. USE DEF IInv
  <1>1. CASE ConnectPending
    <2>1. future' = endpoint'
      BY <1>1 DEF ConnectPending
    <2>. QED
      BY <1>1, <2>1 DEF ConnectPending, TakeEndpoint, PollDiscipline
  <1>2. ~UNCHANGED future
    OBVIOUS
  <1>3. ~Poll /\ ~Send /\ ~Shutdown /\ ~TickStep /\ ~Timers /\ ~Outside
    BY <1>2
    DEF Poll, PollPendingEvent, PollStart, Send, SendNothing, SendDone, SendPanics,
        SendPending, SendErr, FlushErr, Shutdown, TickStep, TickPending, TickZombied,
        TickHeartbeat, Timers, Tick, DialOk, DialErr, Outside, Aside, data, rest, dialing
  <1>4. ~Read /\ ~User
    BY <1>2
    DEF Read, ReadPending, ReadEvent, ReadUnknown, ReadMalformed, ReadBinary, ReadClose,
        ReadErr, ReadEndPending, ReadEnd, User, send, close, reconnect_to, data, rest,
        dialing
  <1>5. ~ConnectNothing /\ ~ConnectOk /\ ~ConnectErr /\ ~UNCHANGED vars
    BY <1>2 DEF ConnectNothing, ConnectOk, ConnectErr, vars, data, rest, dialing
  <1>. QED
    BY <1>1, <1>3, <1>4, <1>5 DEF Next, InPoll, Connect

\* After reconnect() no dial starts to any endpoint but the new one.
THEOREM DialsAsAsked == Spec => DialsTheEndpointAskedFor
  <1>1. IInv /\ [Next]_vars
          => [future = NoEndpoint /\ future' # NoEndpoint => future' = wanted]_vars
    BY DialStep
  <1>. QED
    BY <1>1, Inductive, PTL DEF Spec, DialsTheEndpointAskedFor

------------------------------------------------------------------------------
(* VoiceWebSocket implements GatewayStream.                                *)

\* What the mapping needs beyond IInv: when the poll runs, and what the slot holds
\* where the socket reads.
MappingInv ==
    /\ pc = "idle" => ret # "Polling"
    /\ pc \in {"flush", "shutdown"} => state = "Closed"
    /\ pc = "tick" => pending.message \notin Frames
    /\ pc = "read" => pending.message \notin Frames \/ pending.message = "Close"

LEMMA MappingStep ==
    ASSUME IInv, MappingInv, [Next]_vars
    PROVE  MappingInv'
  <1>. USE DEF Goto, Ready, Pending, Frames
  <1>1. /\ pc # "idle" => ret = "Polling"
        /\ pc \in {"send", "tick", "read"} => connection # "none" /\ state # "Closed"
        /\ NoPending.message = "Empty" /\ Queued("Close").message = "Close"
        /\ pending_event \in EventOps \cup {"None", "Reconnected"}
        /\ state \in {"Connected", "Disconnected", "Closed"}
    BY DEF IInv, TypeOK, FieldsType, PollDiscipline, NoPending, Queued
  <1>2. "Polling" \notin EventOps \cup {"Reconnected"}
    BY DEF EventOps
  <1>3. CASE pc' = "idle" /\ ret' # "Polling"
    BY <1>3 DEF MappingInv
  <1>4. CASE UNCHANGED <<ret, pc, state, pending>>
    BY <1>4 DEF MappingInv
  <1>5. CASE Poll
    BY <1>1, <1>2, <1>5 DEF Poll, PollPendingEvent, PollStart, MappingInv
  <1>6. CASE User
    BY <1>3, <1>6 DEF User, send, close, reconnect_to, Call, MappingInv
  <1>7. CASE Connect
    BY <1>1, <1>3, <1>7
    DEF Connect, ConnectNothing, ConnectPending, ConnectOk, ConnectErr, AfterConnect, MappingInv,
        Dials, data, fields, status
  <1>8. CASE Send
    BY <1>1, <1>3, <1>8
    DEF Send, SendNothing, SendDone, SendPanics, SendPending, SendErr, FlushErr, Sending,
        AfterSend, MappingInv, data, fields, status
  <1>9. CASE Shutdown
    BY <1>3, <1>9 DEF Shutdown
  <1>10. CASE TickStep
    BY <1>1, <1>10
    DEF TickStep, TickPending, TickZombied, TickHeartbeat, close_inner, Leave, MappingInv, rest,
        status
  <1>11. CASE Read
    <2>1. CASE ReadPending \/ ReadEvent \/ ReadUnknown \/ ReadMalformed \/ ReadClose
               \/ ReadEndPending
      BY <1>1, <1>2, <1>3, <2>1
      DEF ReadPending, ReadEvent, ReadUnknown, ReadMalformed, ReadClose, ReadEndPending,
          HandOver, ReadsKind, EventOps
    <2>2. CASE ReadBinary \/ ReadErr \/ ReadEnd
      BY <1>1, <1>3, <2>2 DEF ReadBinary, ReadErr, ReadEnd, MappingInv, Reading, ReadsKind
    <2>. QED
      BY <1>11, <2>1, <2>2 DEF Read
  <1>12. CASE Timers
    BY <1>4, <1>12 DEF Timers, Tick, DialOk, DialErr, fields, status
  <1>13. CASE Outside
    BY <1>4, <1>13 DEF Outside, Aside, fields, status
  <1>14. CASE UNCHANGED vars
    BY <1>4, <1>14 DEF vars, fields, status
  <1>. QED
    BY <1>5, <1>6, <1>7, <1>8, <1>9, <1>10, <1>11, <1>12, <1>13, <1>14 DEF Next, InPoll

\* The variables the mapping reads.
mapped == <<state, gracefully_disconnected, pending, pending_event, ret>>

LEMMA StreamStutters ==
    ASSUME UNCHANGED mapped
    PROVE  UNCHANGED Stream!streamVars
  BY DEF mapped, Stream!streamVars

\* Only a graceful close of the user makes the next connection one that need not be
\* announced.
LEMMA NotGraceful ==
    ASSUME gracefully_disconnected \in BOOLEAN, NEW cause, NEW code, close_inner(cause, code),
           cause # "User" \/ code \notin GracefulCodes
    PROVE  /\ UNCHANGED gracefully_disconnected
           /\ state' = IF cause = "Transport" THEN "Disconnected" ELSE from_close_code(code)
           /\ pending' = IF cause = "User" THEN Queued("Close") ELSE pending
  <1>1. UNCHANGED gracefully_disconnected
    BY Zenon DEF close_inner
  <1>. QED
    BY <1>1 DEF close_inner, Leave

\* Each part of the poll is an operation of the stream or none.
LEMMA StreamStep ==
    ASSUME IInv, MappingInv, [Next]_vars
    PROVE  [Stream!StreamNext]_(Stream!streamVars)
  <1>. USE DEF Goto, Ready, Pending, Stream!Polling, Frames
  <1>1. /\ pc # "idle" => ret = "Polling"
        /\ pc \in {"send", "tick", "read"} => state # "Closed"
        /\ NoPending.message = "Empty"
        /\ \A frame : Queued(frame).message = frame
        /\ [pending EXCEPT !.message = "Taken"].message = "Taken"
        /\ \A code : from_close_code(code) \in {"Disconnected", "Closed"}
        /\ from_close_code(ResumeCode) = "Disconnected" /\ ResumeCode \notin GracefulCodes
        /\ gracefully_disconnected \in BOOLEAN
    BY DEF IInv, TypeOK, FieldsType, PollDiscipline, NoPending, Queued, from_close_code,
           KnownCodes, ResumeCode, GracefulCodes
  <1>2. CASE UNCHANGED mapped
    BY <1>2, StreamStutters
  <1>3. CASE Poll
    <2>1. Stream!Start
      BY <1>3
      DEF Poll, PollPendingEvent, PollStart, TakePendingEvent, MappingInv, Stream!Start, rest,
          fields, status
    <2>. QED
      BY <2>1 DEF Stream!StreamNext
  <1>4. CASE Connect
    <2>1. CASE ConnectNothing
      BY <1>2, <2>1 DEF ConnectNothing, data, fields, status, rest, mapped
    <2>2. CASE ConnectPending
      <3>1. Stream!Wait
        BY <1>1, <2>2 DEF ConnectPending, Dials, Stream!Wait, fields, status
      <3>. QED
        BY <3>1 DEF Stream!StreamNext
    <2>3. CASE ConnectOk
      <3>1. Stream!Open
        BY <1>1, <2>3 DEF ConnectOk, Dials, Stream!Open
      <3>. QED
        BY <3>1 DEF Stream!StreamNext
    <2>4. CASE ConnectErr
      <3>1. Stream!Fail
        BY <1>1, <2>4 DEF ConnectErr, Dials, Stream!Fail
      <3>. QED
        BY <3>1 DEF Stream!StreamNext
    <2>. QED
      BY <1>4, <2>1, <2>2, <2>3, <2>4 DEF Connect
  <1>5. CASE Send
    <2>1. CASE SendNothing
      BY <1>2, <2>1 DEF SendNothing, data, fields, status, rest, mapped
    <2>2. CASE SendPanics
      BY <1>2, <2>2 DEF SendPanics, fields, status, rest, mapped
    <2>3. CASE SendDone \/ SendPending
      <3>1. /\ ret = "Polling" /\ ret' \in {"Polling", "Pending"}
            /\ UNCHANGED <<state, gracefully_disconnected, pending_event>>
            /\ pending'.message \notin Frames
        BY <1>1, <2>3 DEF SendDone, SendPending, Sending, rest, status
      <3>2. CASE pending.message \in Frames
        <4>1. Stream!Transmit
          BY <3>1, <3>2 DEF Stream!Transmit
        <4>. QED
          BY <4>1 DEF Stream!StreamNext
      <3>3. CASE pending.message \notin Frames /\ ret' = "Pending"
        <4>1. Stream!Wait
          BY <3>1, <3>3 DEF Stream!Wait
        <4>. QED
          BY <4>1 DEF Stream!StreamNext
      <3>4. CASE pending.message \notin Frames /\ ret' = "Polling"
        BY <3>1, <3>4 DEF Stream!streamVars
      <3>. QED
        BY <3>1, <3>2, <3>3, <3>4
    <2>4. CASE SendErr \/ FlushErr
      <3>1. Stream!TransmitFails
        BY <1>1, <2>4
        DEF SendErr, FlushErr, Sending, Leave, MappingInv, Stream!TransmitFails, rest, status
      <3>. QED
        BY <3>1 DEF Stream!StreamNext
    <2>. QED
      BY <1>5, <2>1, <2>2, <2>3, <2>4 DEF Send
  <1>6. CASE Shutdown
    <2>1. Stream!Wait \/ Stream!Finish
      BY <1>1, <1>6 DEF Shutdown, MappingInv, Stream!Wait, Stream!Finish, rest, fields, status
    <2>. QED
      BY <2>1 DEF Stream!StreamNext
  <1>7. CASE TickStep
    <2>1. CASE TickPending
      BY <1>2, <2>1 DEF TickPending, rest, status, mapped
    <2>2. CASE TickZombied
      <3>1. Stream!GiveUp
        BY <1>1, <2>2, NotGraceful DEF TickZombied, MappingInv, Stream!GiveUp, rest
      <3>. QED
        BY <3>1 DEF Stream!StreamNext
    <2>3. CASE TickHeartbeat
      <3>1. Stream!Beat
        BY <1>1, <2>3 DEF TickHeartbeat, MappingInv, Stream!Beat, rest, status
      <3>. QED
        BY <3>1 DEF Stream!StreamNext
    <2>. QED
      BY <1>7, <2>1, <2>2, <2>3 DEF TickStep
  <1>8. CASE Read
    <2>1. pc = "read" /\ ret = "Polling" /\ state # "Closed"
          /\ (pending.message \notin Frames \/ pending.message = "Close")
      BY <1>1, <1>8
      DEF Read, ReadPending, ReadEvent, ReadUnknown, ReadMalformed, ReadBinary, ReadClose,
          ReadErr, ReadEndPending, ReadEnd, ReadsKind, Reading, MappingInv
    <2>2. CASE ReadPending \/ ReadUnknown \/ ReadEndPending
      <3>1. Stream!Wait
        BY <2>1, <2>2
        DEF ReadPending, ReadUnknown, ReadEndPending, Stream!Wait, data, rest, fields, status
      <3>. QED
        BY <3>1 DEF Stream!StreamNext
    <2>3. CASE ReadEvent
      <3>1. Head(inbox).kind \in EventOps
        BY <2>3 DEF ReadEvent, ReadsKind
      <3>2. Stream!Read(Head(inbox).kind)
        BY <2>1, <2>3 DEF ReadEvent, HandOver, Stream!Read, status
      <3>. QED
        BY <3>1, <3>2 DEF Stream!StreamNext
    <2>4. CASE ReadMalformed
      <3>1. Stream!Fail
        BY <2>1, <2>4 DEF ReadMalformed, Stream!Fail, rest, fields, status
      <3>. QED
        BY <3>1 DEF Stream!StreamNext
    <2>5. CASE ReadBinary
      BY <1>2, <2>5 DEF ReadBinary, rest, fields, status, mapped
    <2>6. CASE ReadClose \/ (ReadErr /\ state # "Disconnected")
      <3>1. \E next_link \in {"Disconnected", "Closed"} : Stream!Drop(next_link)
        BY <1>1, <2>1, <2>6, NotGraceful
        DEF ReadClose, ReadErr, Stream!Drop, rest, fields, status
      <3>. QED
        BY <3>1 DEF Stream!StreamNext
    <2>7. CASE ReadErr /\ state = "Disconnected"
      BY <1>2, <2>7 DEF ReadErr, rest, fields, status, mapped
    <2>8. CASE ReadEnd
      <3>1. Stream!Lose
        BY <1>1, <2>1, <2>8, NotGraceful DEF ReadEnd, Stream!Lose, rest, fields, status
      <3>. QED
        BY <3>1 DEF Stream!StreamNext
    <2>. QED
      BY <1>8, <2>2, <2>3, <2>4, <2>5, <2>6, <2>7, <2>8 DEF Read
  <1>9. CASE send
    <2>1. Stream!Put("Text")
      BY <1>1, <1>9 DEF send, Call, MappingInv, Stream!Put, status
    <2>. QED
      BY <2>1 DEF Stream!StreamNext
  <1>10. ASSUME NEW code \in UserCodes, close(code)
         PROVE  [Stream!StreamNext]_(Stream!streamVars)
    <2>1. \E next_link \in {"Disconnected", "Closed"}, graceful \in BOOLEAN :
             Stream!Close(next_link, graceful)
      BY <1>1, <1>10 DEF close, Call, close_inner, Leave, MappingInv, Stream!Close
    <2>. QED
      BY <2>1 DEF Stream!StreamNext
  <1>11. ASSUME NEW new_endpoint \in Endpoints, reconnect_to(new_endpoint)
         PROVE  [Stream!StreamNext]_(Stream!streamVars)
    <2>1. Stream!Redirect
      BY <1>1, <1>11 DEF reconnect_to, Call, Leave, MappingInv, Stream!Redirect
    <2>. QED
      BY <2>1 DEF Stream!StreamNext
  <1>12. CASE Timers
    BY <1>2, <1>12 DEF Timers, Tick, DialOk, DialErr, fields, status, rest, mapped
  <1>13. CASE Outside
    BY <1>2, <1>13 DEF Outside, Aside, fields, status, mapped
  <1>14. CASE UNCHANGED vars
    BY <1>2, <1>14 DEF vars, fields, status, rest, mapped
  <1>. QED
    BY <1>3, <1>4, <1>5, <1>6, <1>7, <1>8, <1>9, <1>10, <1>11, <1>12, <1>13, <1>14
    DEF Next, InPoll, User

\* Whatever is proved of the stream holds of VoiceWebSocket: what the voice client
\* relies on is what the socket does.
THEOREM IsAGatewayStream == Spec => ImplementsStream
  <1>1. Init => MappingInv /\ Stream!StreamInit
    BY DEF Init, MappingInv, NoPending, Frames, Stream!StreamInit
  <1>2. IInv /\ MappingInv /\ [Next]_vars => MappingInv'
    BY MappingStep
  <1>3. IInv /\ MappingInv /\ [Next]_vars => [Stream!StreamNext]_(Stream!streamVars)
    BY StreamStep
  <1>. QED
    BY <1>1, <1>2, <1>3, Inductive, PTL DEF Spec, ImplementsStream, Stream!StreamSpec
=============================================================================

--------------------------- MODULE HeartbeatProofs ---------------------------
(***************************************************************************)
(* The heartbeats of VoiceWebSocket, for every value of its constants: as  *)
(* long as the user does not call, the heartbeater belongs to the          *)
(* connection, and what it records agrees with what the gateway owes.      *)
(***************************************************************************)
EXTENDS VoiceWebSocketProofs, SequenceTheorems, FiniteSetTheorems

------------------------------------------------------------------------------
(* Counting messages of a kind.                                            *)

Places(s, kind) == {i \in DOMAIN s : s[i].kind = kind}
Count(s, kind) == Cardinality(Places(s, kind))

One(condition) == IF condition THEN 1 ELSE 0

LEMMA CountType ==
    ASSUME NEW S, NEW s \in Seq(S), NEW kind
    PROVE  IsFiniteSet(Places(s, kind)) /\ Count(s, kind) \in Nat
  <1>1. IsFiniteSet(1 .. Len(s)) /\ DOMAIN s = 1 .. Len(s)
    BY FS_Interval, LenProperties
  <1>2. Places(s, kind) \subseteq 1 .. Len(s)
    BY <1>1 DEF Places
  <1>3. IsFiniteSet(Places(s, kind))
    BY <1>1, <1>2, FS_Subset
  <1>. QED
    BY <1>3, FS_CardinalityType DEF Count

LEMMA CountNothing ==
    ASSUME NEW kind
    PROVE  Count(<<>>, kind) = 0
  <1>1. Places(<<>>, kind) = {}
    BY DEF Places
  <1>. QED
    BY <1>1, FS_EmptySet DEF Count

\* One message more counts for its kind and for no other.
LEMMA CountAppend ==
    ASSUME NEW S, NEW s \in Seq(S), NEW m \in S, NEW kind
    PROVE  Count(Append(s, m), kind) = Count(s, kind) + One(m.kind = kind)
  <1>. DEFINE a == Append(s, m)
              last == Len(s) + 1
  <1>1. /\ Len(s) \in Nat /\ DOMAIN s = 1 .. Len(s) /\ DOMAIN a = 1 .. last
        /\ \A i \in 1 .. Len(s) : a[i] = s[i]
        /\ a[last] = m
    BY AppendProperties, LenProperties
  <1>2. IsFiniteSet(Places(s, kind)) /\ Count(s, kind) \in Nat
    BY CountType
  <1>3. last \notin Places(s, kind)
    BY <1>1 DEF Places
  <1>. HIDE DEF a
  <1>4. CASE m.kind = kind
    <2>1. Places(a, kind) = Places(s, kind) \cup {last}
      BY <1>1, <1>4 DEF Places
    <2>. QED
      BY <1>2, <1>3, <1>4, <2>1, FS_AddElement DEF Count, One, a
  <1>5. CASE m.kind # kind
    <2>1. Places(a, kind) = Places(s, kind)
      BY <1>1, <1>5 DEF Places
    <2>. QED
      BY <1>2, <1>5, <2>1 DEF Count, One, a
  <1>. QED
    BY <1>4, <1>5

\* The message that is taken off counts for its kind and for no other.
LEMMA CountTail ==
    ASSUME NEW S, NEW s \in Seq(S), s # <<>>, NEW kind
    PROVE  Count(s, kind) = Count(Tail(s), kind) + One(Head(s).kind = kind)
  <1>. DEFINE t == Tail(s)
              others == Places(s, kind) \ {1}
              shift == [i \in Places(t, kind) |-> i + 1]
  <1>1. /\ t \in Seq(S) /\ Len(t) = Len(s) - 1 /\ Len(s) \in Nat /\ Len(s) # 0
        /\ DOMAIN s = 1 .. Len(s) /\ DOMAIN t = 1 .. Len(t)
        /\ \A i \in 1 .. Len(t) : t[i] = s[i + 1]
    BY HeadTailProperties, LenProperties, EmptySeq
  <1>2. Head(s) = s[1]
    OBVIOUS
  <1>. HIDE DEF t
  <1>3. /\ IsFiniteSet(Places(s, kind)) /\ IsFiniteSet(Places(t, kind))
        /\ Count(s, kind) \in Nat /\ Count(t, kind) \in Nat
    BY <1>1, CountType
  <1>4. Cardinality(others) = Count(t, kind)
    <2>1. shift \in [Places(t, kind) -> others]
      BY <1>1 DEF Places
    <2>2. \A i, j \in Places(t, kind) : shift[i] = shift[j] => i = j
      BY <1>1 DEF Places
    <2>3. \A j \in others : \E i \in Places(t, kind) : shift[i] = j
      <3>. SUFFICES ASSUME NEW j \in others
                    PROVE  \E i \in Places(t, kind) : shift[i] = j
        OBVIOUS
      <3>1. j \in 2 .. Len(s) /\ s[j].kind = kind
        BY <1>1 DEF Places
      <3>2. j - 1 \in Places(t, kind) /\ (j - 1) + 1 = j
        BY <1>1, <3>1 DEF Places
      <3>. QED
        BY <3>2
    <2>4. shift \in Bijection(Places(t, kind), others)
      BY <2>1, <2>2, <2>3 DEF Bijection, Injection, IsInjective, Surjection
    <2>5. ExistsBijection(Places(t, kind), others)
      BY <2>4 DEF ExistsBijection
    <2>. QED
      BY <1>3, <2>5, FS_Bijection DEF Count
  <1>5. Cardinality(others) = IF 1 \in Places(s, kind) THEN Count(s, kind) - 1
                              ELSE Count(s, kind)
    BY <1>3, FS_RemoveElement DEF Count
  <1>6. 1 \in Places(s, kind) <=> Head(s).kind = kind
    BY <1>1, <1>2 DEF Places
  <1>7. Count(s, kind) = Count(t, kind) + One(Head(s).kind = kind)
    BY <1>3, <1>4, <1>5, <1>6 DEF One
  <1>. QED
    BY <1>7 DEF t

------------------------------------------------------------------------------
(* The inductive invariant.  Neither property is inductive by itself: that *)
(* the Hello of a connection is read while the socket is Connected, and at *)
(* most once, follows from where the Hello can be; that a flush counts one *)
(* heartbeat, from where the heartbeat is while it is held up.             *)

Hellos == Count(inbox, "Hello")
Acks == Count(inbox, "HeartbeatAck")

\* The gateway says Hello once on a connection; a connection begins with nothing.
GreetingInv ==
    /\ Hellos <= One(gateway.greeted)
    /\ connection = "none" => inbox = <<>>

\* The Closed arm of poll_ws_connect is only entered by a closed socket.
ClosingInv == pc \in {"flush", "shutdown"} => state = "Closed"

\* A heartbeater is one of a connection whose Hello has been read; a socket that has
\* given its connection up does not read a Hello on it any more.
LiveInv ==
    /\ heartbeater.live => state = "Connected" /\ gateway.greeted /\ Hellos = 0
    /\ state # "Connected" =>
          Finished \/ connection = "none" \/ (gateway.greeted /\ Hellos = 0)

\* A heartbeat that has not left is in pending or, while the transport holds it up,
\* in the stream's buffer, and then there is a heartbeater to record it.
HeldInv ==
    /\ pending.message = "Heartbeat" => pending.is_heartbeat
    /\ "Heartbeat" \in outbox => pending.message = "Taken" /\ pending.is_heartbeat
    /\ pending.message = "Heartbeat" \/ "Heartbeat" \in outbox => heartbeater.live
    /\ heartbeater.live /\ pending.is_heartbeat =>
          pending.message = "Heartbeat" \/ "Heartbeat" \in outbox

\* What has been sent is not acknowledged, and not sent a second time.
SentInv ==
    /\ heartbeater.sent \/ heartbeater.due => heartbeater.live
    /\ heartbeater.sent => ~heartbeater.acknowledged /\ ~pending.is_heartbeat

CountInv ==
    state = "Connected" /\ net # "broken"
        => gateway.owed + Acks = One(heartbeater.sent)

BeatInv ==
    /\ GreetingInv /\ ClosingInv
    /\ Undisturbed => LiveInv /\ HeldInv /\ SentInv /\ CountInv

------------------------------------------------------------------------------
(* What happens to the messages on their way.                              *)

Counted == Hellos \in Nat /\ Acks \in Nat /\ gateway \in Gateway

LEMMA CountedType == ConnectionType => Counted
  BY CountType DEF ConnectionType, StreamType, Counted, Hellos, Acks

\* A message arrives.
LEMMA ArrivesCounts ==
    ASSUME ConnectionType, NEW m \in Message, NEW peer, Arrives(m, peer)
    PROVE  /\ Hellos' = Hellos + One(m.kind = "Hello")
           /\ Acks' = Acks + One(m.kind = "HeartbeatAck")
           /\ connection # "none" /\ gateway' = peer
           /\ UNCHANGED <<connection, net, outbox>>
  <1>1. inbox \in Seq(Message) /\ inbox' = Append(inbox, m)
    BY DEF ConnectionType, StreamType, Arrives
  <1>2. Hellos' = Hellos + One(m.kind = "Hello")
    BY <1>1, CountAppend DEF Hellos
  <1>3. Acks' = Acks + One(m.kind = "HeartbeatAck")
    BY <1>1, CountAppend DEF Acks
  <1>. QED
    BY <1>2, <1>3 DEF Arrives, Up

\* A message is read.
LEMMA TakeCounts ==
    ASSUME ConnectionType, ReadsMessage, Take
    PROVE  /\ Hellos = Hellos' + One(Head(inbox).kind = "Hello")
           /\ Acks = Acks' + One(Head(inbox).kind = "HeartbeatAck")
           /\ Hellos' \in Nat /\ Acks' \in Nat
  <1>1. /\ inbox \in Seq(Message) /\ inbox # <<>> /\ inbox' = Tail(inbox)
        /\ Tail(inbox) \in Seq(Message)
    BY HeadTailProperties DEF ConnectionType, StreamType, ReadsMessage, Take
  <1>2. Hellos = Hellos' + One(Head(inbox).kind = "Hello")
    BY <1>1, CountTail DEF Hellos
  <1>3. Acks = Acks' + One(Head(inbox).kind = "HeartbeatAck")
    BY <1>1, CountTail DEF Acks
  <1>4. Hellos' \in Nat /\ Acks' \in Nat
    BY <1>1, CountType DEF Hellos, Acks
  <1>. QED
    BY <1>2, <1>3, <1>4

\* The same, kind by kind.
LEMMA TakeKinds ==
    ASSUME ConnectionType, ReadsMessage, Take
    PROVE  /\ Head(inbox).kind = "Hello" => Hellos = Hellos' + 1 /\ Acks' = Acks
           /\ Head(inbox).kind = "HeartbeatAck" => Hellos' = Hellos /\ Acks = Acks' + 1
           /\ Head(inbox).kind \notin {"Hello", "HeartbeatAck"} =>
                 Hellos' = Hellos /\ Acks' = Acks
           /\ Hellos' \in Nat /\ Acks' \in Nat /\ Hellos \in Nat /\ Acks \in Nat
           /\ Hellos' <= Hellos
  <1>. DEFINE kind == Head(inbox).kind
              h == Hellos'
              a == Acks'
  <1>1. /\ Hellos = h + (IF kind = "Hello" THEN 1 ELSE 0)
        /\ Acks = a + (IF kind = "HeartbeatAck" THEN 1 ELSE 0)
        /\ h \in Nat /\ a \in Nat
    BY TakeCounts DEF One
  <1>. HIDE DEF h, a, kind
  <1>2. /\ kind = "Hello" => Hellos = h + 1 /\ a = Acks
        /\ kind = "HeartbeatAck" => h = Hellos /\ Acks = a + 1
        /\ kind \notin {"Hello", "HeartbeatAck"} => h = Hellos /\ a = Acks
        /\ h \in Nat /\ a \in Nat /\ Hellos \in Nat /\ Acks \in Nat
        /\ h <= Hellos
    BY <1>1
  <1>. QED
    BY <1>2 DEF h, a, kind

\* An inbox that stays as it is or is emptied.
LEMMA InboxCounts ==
    /\ inbox' = inbox => Hellos' = Hellos /\ Acks' = Acks
    /\ inbox' = <<>> => Hellos' = 0 /\ Acks' = 0
  BY CountNothing DEF Hellos, Acks

\* What the gateway and the network do: a Hello, which is the first, an
\* acknowledgement of what is owed, or nothing that counts.
WorldOutcome ==
    /\ UNCHANGED <<connection, outbox>>
    /\ net' # "broken" => net # "broken"
    /\ connection = "none" => UNCHANGED inbox
    /\ \/ /\ ~gateway.greeted /\ gateway'.greeted /\ gateway'.owed = gateway.owed
          /\ Hellos' = Hellos + 1 /\ Acks' = Acks
          /\ ~Finished /\ connection # "none"
       \/ /\ gateway.greeted /\ gateway'.greeted
          /\ gateway.owed > 0 /\ gateway'.owed = gateway.owed - 1
          /\ Hellos' = Hellos /\ Acks' = Acks + 1
       \/ /\ gateway'.greeted = gateway.greeted /\ gateway'.owed = gateway.owed
          /\ \/ Hellos' = Hellos /\ Acks' = Acks
             \/ Hellos' = 0 /\ Acks' = 0 /\ net' = "broken"

LEMMA WorldEffect ==
    ASSUME ConnectionType, World
    PROVE  WorldOutcome
  <1>0. Counted
    BY CountedType
  <1>1. CASE GatewayHello
    <2>1. Text("Hello") \in Message
      BY DEF Text, Message
    <2>2. Arrives(Text("Hello"), [gateway EXCEPT !.greeted = TRUE]) /\ ~gateway.greeted
      BY <1>1 DEF GatewayHello
    <2>3. /\ Hellos' = Hellos + 1 /\ Acks' = Acks
          /\ connection # "none" /\ gateway' = [gateway EXCEPT !.greeted = TRUE]
          /\ UNCHANGED <<connection, net, outbox>>
      BY <1>0, <2>1, <2>2, ArrivesCounts DEF Text, One, Counted
    <2>4. gateway'.greeted /\ gateway'.owed = gateway.owed
      BY <1>0, <2>3 DEF Counted, Gateway
    <2>5. ~Finished
      BY <2>2 DEF Arrives, Up, Finished
    <2>. QED
      BY <2>2, <2>3, <2>4, <2>5 DEF WorldOutcome
  <1>2. CASE GatewayAck
    <2>1. Text("HeartbeatAck") \in Message
      BY DEF Text, Message
    <2>2. /\ Arrives(Text("HeartbeatAck"), [gateway EXCEPT !.owed = @ - 1])
          /\ gateway.greeted /\ gateway.owed > 0
      BY <1>2 DEF GatewayAck
    <2>3. /\ Hellos' = Hellos /\ Acks' = Acks + 1
          /\ connection # "none" /\ gateway' = [gateway EXCEPT !.owed = @ - 1]
          /\ UNCHANGED <<connection, net, outbox>>
      BY <1>0, <2>1, <2>2, ArrivesCounts DEF Text, One, Counted
    <2>4. gateway'.greeted = gateway.greeted /\ gateway'.owed = gateway.owed - 1
      BY <1>0, <2>3 DEF Counted, Gateway
    <2>. QED
      BY <2>2, <2>3, <2>4 DEF WorldOutcome
  <1>3. CASE \E m \in Message :
                /\ Arrives(m, gateway) \/ Arrives(m, [gateway EXCEPT !.done = TRUE])
                /\ m.kind \notin {"Hello", "HeartbeatAck"}
    <2>1. PICK m \in Message :
             /\ Arrives(m, gateway) \/ Arrives(m, [gateway EXCEPT !.done = TRUE])
             /\ m.kind \notin {"Hello", "HeartbeatAck"}
      BY <1>3
    <2>2. /\ Hellos' = Hellos + One(FALSE) /\ Acks' = Acks + One(FALSE)
          /\ connection # "none"
          /\ UNCHANGED <<connection, net, outbox>>
      BY <2>1, ArrivesCounts DEF One
    <2>3. gateway'.greeted = gateway.greeted /\ gateway'.owed = gateway.owed
      BY <1>0, <2>1 DEF Arrives, Counted, Gateway
    <2>. QED
      BY <1>0, <2>2, <2>3 DEF One, Counted, WorldOutcome
  <1>4. CASE GatewayEvent \/ GatewayAnswer \/ GatewayClose \/ NetEof
    <2>1. CASE GatewayEvent
      BY <1>3, <2>1, ConnectionAssumption DEF GatewayEvent, Text, Message, AllOps
    <2>2. CASE GatewayAnswer
      BY <1>3, <2>2 DEF GatewayAnswer, Closing, NoStatus, Message
    <2>3. CASE GatewayClose
      BY <1>3, <2>3, ConnectionAssumption DEF GatewayClose, Closing, Message
    <2>4. CASE NetEof
      BY <1>3, <2>4 DEF NetEof, Text, Message
    <2>. QED
      BY <1>4, <2>1, <2>2, <2>3, <2>4
  <1>5. CASE NetBlock \/ NetUnblock \/ NetSilence
    BY <1>5, InboxCounts DEF NetBlock, NetUnblock, NetSilence, WorldOutcome
  <1>6. CASE NetBreak
    BY <1>6, InboxCounts DEF NetBreak, Up, WorldOutcome
  <1>. QED
    BY <1>1, <1>2, <1>4, <1>5, <1>6 DEF World

\* They keep the invariant.
LEMMA BeatWorld ==
    ASSUME IInv, BeatInv, Outside
    PROVE  BeatInv'
  <1>1. (WorldOutcome /\ Counted /\ connection # "none") \/ inbox' = inbox
    BY WorldEffect, CountedType DEF IInv, TypeOK, Outside, WorldOutcome
  <1>. QED
    BY <1>1, WorldEffect, CountedType
    DEF IInv, TypeOK, Outside, Aside, fields, status, WorldOutcome, Counted, Gateway,
        BeatInv, GreetingInv, ClosingInv, LiveInv, HeldInv, SentInv, CountInv, Undisturbed,
        Finished, One

------------------------------------------------------------------------------
(* Every step keeps the invariant.  A step of the user ends what is said of *)
(* an undisturbed socket.                                                   *)

\* What every step of the socket assumes.
LEMMA Facts ==
    ASSUME IInv
    PROVE  /\ ConnectionType /\ Counted /\ heartbeater \in Heartbeater
           /\ state \in {"Connected", "Disconnected", "Closed"}
           /\ state = "Connected" => connection # "none"
           /\ pc \in {"tick", "read"} => ~pending.is_heartbeat
           /\ pc \in {"send", "tick", "read"} => connection # "none" /\ state # "Closed"
           /\ pending \in [message : Frames \cup {"Empty", "Taken"}, is_heartbeat : BOOLEAN]
           /\ calls \in Nat
  BY CountedType DEF IInv, TypeOK, FieldsType, SocketPresent, PollDiscipline

\* Steps that leave alone what the invariant is about.
LEMMA BeatFrame ==
    ASSUME IInv, BeatInv, UNCHANGED <<connVars, state, pending, calls>>,
           /\ heartbeater'.live = heartbeater.live
           /\ heartbeater'.sent = heartbeater.sent
           /\ heartbeater'.acknowledged = heartbeater.acknowledged
           /\ heartbeater'.due => heartbeater.due \/ heartbeater.live,
           pc' \in {"flush", "shutdown"} => state = "Closed"
    PROVE  BeatInv'
  <1>1. UNCHANGED <<connection, net, inbox, outbox, gateway>>
    BY DEF connVars
  <1>2. Hellos' = Hellos /\ Acks' = Acks
    BY <1>1, InboxCounts
  <1>. QED
    BY <1>1, <1>2
    DEF BeatInv, GreetingInv, ClosingInv, LiveInv, HeldInv, SentInv, CountInv, Undisturbed,
        Finished

\* What the user does is not undisturbed, and changes nothing about the connection.
LEMMA BeatUser ==
    ASSUME IInv, BeatInv, User
    PROVE  BeatInv'
  <1>1. pc = "idle" /\ pc' = pc /\ calls' = calls + 1 /\ UNCHANGED connVars
    BY DEF User, send, close, reconnect_to, Call
  <1>2. calls' # 0
    BY <1>1, Facts
  <1>3. Hellos' = Hellos
    BY <1>1, InboxCounts DEF connVars
  <1>. QED
    BY <1>1, <1>2, <1>3 DEF BeatInv, GreetingInv, ClosingInv, Undisturbed, connVars

\* The starts of a poll, the timers and the dialling.
LEMMA BeatPollAndTimers ==
    ASSUME IInv, BeatInv, Poll \/ Timers \/ UNCHANGED vars
    PROVE  BeatInv'
  <1>1. CASE Poll
    BY <1>1, BeatFrame DEF Poll, PollPendingEvent, PollStart, Ready, rest, fields, status
  <1>2. CASE Tick
    BY <1>2, BeatFrame, Facts DEF Tick, Heartbeater, rest, status, BeatInv, ClosingInv
  <1>3. CASE DialOk \/ DialErr
    BY <1>3, BeatFrame DEF DialOk, DialErr, fields, status, BeatInv, ClosingInv
  <1>4. CASE UNCHANGED vars
    BY <1>4, BeatFrame DEF vars, rest, fields, status, BeatInv, ClosingInv
  <1>. QED
    BY <1>1, <1>2, <1>3, <1>4 DEF Timers

\* poll_ws_connect: a new connection begins without a heartbeater, without anything
\* owed and without anything to read.
LEMMA BeatConnect ==
    ASSUME IInv, BeatInv, Connect
    PROVE  BeatInv'
  <1>1. CASE ConnectNothing \/ ConnectPending \/ ConnectErr
    BY <1>1, BeatFrame
    DEF ConnectNothing, ConnectPending, ConnectErr, AfterConnect, Dials, Goto, Pending,
        Ready, data, rest, fields, status, history
  <1>2. CASE ConnectOk
    <2>1. /\ Become("open") /\ state = "Disconnected" /\ state' = "Connected"
          /\ UNCHANGED <<heartbeater, pending, calls>> /\ pc' = "send"
      BY <1>2 DEF ConnectOk, Opened, Dials
    <2>2. /\ Hellos' = 0 /\ Acks' = 0 /\ outbox' = {} /\ connection' = "open"
          /\ ~gateway'.greeted /\ gateway'.owed = 0
      BY <2>1, InboxCounts DEF Become, NewGateway
    <2>. QED
      BY <2>1, <2>2
      DEF BeatInv, GreetingInv, ClosingInv, LiveInv, HeldInv, SentInv, CountInv,
          Undisturbed, One
  <1>. QED
    BY <1>1, <1>2 DEF Connect

\* A connection that is given up takes everything with it.
LEMMA BeatDropped ==
    ASSUME IInv, BeatInv, Dropped, heartbeater' = NoHeartbeater, state' # "Connected",
           UNCHANGED calls, pending'.message # "Heartbeat",
           pc' \notin {"flush", "shutdown"}
    PROVE  BeatInv'
  <1>1. /\ Hellos' = 0 /\ outbox' = {} /\ connection' = "none" /\ inbox' = <<>>
        /\ ~gateway'.greeted
    BY InboxCounts DEF Dropped, Become, NewGateway
  <1>. QED
    BY <1>1
    DEF BeatInv, GreetingInv, ClosingInv, LiveInv, HeldInv, SentInv, CountInv,
        Undisturbed, One, NoHeartbeater

\* poll_send_pending: a heartbeat is recorded when it leaves, and not before.
LEMMA BeatSend ==
    ASSUME IInv, BeatInv, Send
    PROVE  BeatInv'
  <1>. DEFINE m == pending.message
              beats == "Heartbeat" \in Buffered(m)
  <1>1. CASE SendNothing
    BY <1>1, BeatFrame, Facts
    DEF SendNothing, AfterSend, Goto, data, rest, fields, status, BeatInv, ClosingInv
  <1>2. CASE SendErr
    BY <1>2, BeatDropped, Facts DEF SendErr, Leave, Ready, rest
  <1>3. CASE SendDone \/ SendPanics \/ SendPending \/ FlushErr
    <2>0. /\ beats <=> "Heartbeat" \in outbox \/ m = "Heartbeat"
          /\ state \in {"Connected", "Disconnected", "Closed"}
      BY Facts DEF Buffered, Frames
    <2>1. /\ UNCHANGED <<net, inbox, state, calls>>
          /\ Hellos' = Hellos /\ Acks' = Acks
          /\ connection # "none" /\ connection' # "none" /\ (Finished => Finished')
          /\ Sending
      <3>1. Flushed(m) \/ Unflushed(m) \/ SendError(m)
        BY <1>3 DEF SendDone, SendPanics, SendPending, FlushErr
      <3>2. Sending /\ UNCHANGED <<state, calls>>
        BY <1>3 DEF SendDone, SendPanics, SendPending, FlushErr, rest, fields, status
      <3>3. connection # "none" /\ UNCHANGED <<net, inbox>>
        BY <3>1, <3>2 DEF Sending, Flushed, Unflushed, SendError
      <3>4. Finished => Finished'
        BY <3>1
        DEF Finished, Flushed, Unflushed, SendError, AfterStartSend, StartSendFails, Frames
      <3>. QED
        BY <3>1, <3>2, <3>3, <3>4, StreamKeepsConnection, InboxCounts
    <2>2. GreetingInv' /\ ClosingInv'
      <3>1. gateway'.greeted = gateway.greeted
        BY <1>3
        DEF SendDone, SendPanics, SendPending, FlushErr, Flushed, Unflushed, SendError,
            Received
      <3>2. pc' \in {"flush", "shutdown"} => pc = "flush"
        BY <1>3
        DEF SendDone, SendPanics, SendPending, FlushErr, AfterSend, Goto, Pending, Ready,
            Sending
      <3>. QED
        BY <2>1, <3>1, <3>2 DEF BeatInv, GreetingInv, ClosingInv
    <2>3. CASE SendDone
      <3>1. /\ outbox' = {} /\ gateway'.greeted = gateway.greeted
            /\ gateway'.owed = IF beats THEN gateway.owed + 1 ELSE gateway.owed
            /\ pending' = NoPending
        BY <2>3 DEF SendDone, Flushed, Received
      <3>2. CASE pending.is_heartbeat
        <4>1. heartbeater' = RecordSent /\ heartbeater.live
          BY <2>3, <3>2 DEF SendDone
        <4>2. heartbeater'.live /\ heartbeater'.sent /\ ~heartbeater'.acknowledged
          BY <4>1, Facts DEF RecordSent, Heartbeater
        <4>. QED
          BY <2>0, <2>1, <2>2, <3>1, <3>2, <4>1, <4>2, Facts
          DEF BeatInv, LiveInv, HeldInv, SentInv, CountInv, Undisturbed, One, NoPending,
              Counted, Gateway
      <3>3. CASE ~pending.is_heartbeat
        BY <2>0, <2>1, <2>2, <2>3, <3>1, <3>3, Facts
        DEF SendDone, BeatInv, LiveInv, HeldInv, SentInv, CountInv, Undisturbed, One,
            NoPending, Counted, Gateway
      <3>. QED
        BY <3>2, <3>3
    <2>4. CASE SendPanics
      <3>1. /\ outbox' = {} /\ gateway'.greeted = gateway.greeted
            /\ gateway'.owed = IF beats THEN gateway.owed + 1 ELSE gateway.owed
            /\ UNCHANGED <<pending, heartbeater>> /\ ~heartbeater.live
        BY <2>4 DEF SendPanics, Flushed, Received, fields
      <3>. QED
        BY <2>0, <2>1, <2>2, <3>1, Facts
        DEF BeatInv, LiveInv, HeldInv, SentInv, CountInv, Undisturbed, One, Counted, Gateway
    <2>5. CASE SendPending \/ FlushErr
      <3>1. /\ UNCHANGED <<gateway, heartbeater>>
            /\ pending' = [pending EXCEPT !.message = "Taken"]
        BY <2>5 DEF SendPending, FlushErr, Unflushed, SendError
      <3>2. pending'.message = "Taken" /\ pending'.is_heartbeat = pending.is_heartbeat
        BY <3>1, Facts
      <3>3. \/ "Heartbeat" \in outbox' <=> beats
            \/ "Heartbeat" \in outbox' <=> "Heartbeat" \in outbox
        BY <2>5 DEF SendPending, FlushErr, Unflushed, SendError
      <3>4. \/ "Heartbeat" \in outbox' <=> beats
            \/ pc = "flush"
        BY <2>5 DEF SendPending, FlushErr, Unflushed
      <3>. QED
        BY <2>0, <2>1, <2>2, <3>1, <3>2, <3>3, <3>4, Facts
        DEF BeatInv, ClosingInv, LiveInv, HeldInv, SentInv, CountInv, Undisturbed
    <2>. QED
      BY <1>3, <2>3, <2>4, <2>5
  <1>. QED
    BY <1>1, <1>2, <1>3 DEF Send


\* poll_close of a closed socket: there is neither a heartbeater nor a heartbeat.
LEMMA BeatShutdown ==
    ASSUME IInv, BeatInv, Shutdown
    PROVE  BeatInv'
  <1>1. /\ state = "Closed" /\ pc' = "idle" /\ UNCHANGED <<state, heartbeater, pending, calls>>
    BY DEF Shutdown, BeatInv, ClosingInv, Ready, Pending, rest, fields, status
  <1>2. CASE connection = "none" /\ UNCHANGED connVars
    <2>1. UNCHANGED <<connection, inbox, outbox, gateway>> /\ Hellos' = Hellos
      BY <1>2, InboxCounts DEF connVars
    <2>. QED
      BY <1>1, <1>2, <2>1
      DEF BeatInv, GreetingInv, ClosingInv, LiveInv, HeldInv, SentInv, CountInv,
          Undisturbed, Finished
  <1>3. CASE connection # "none" /\ CloseCompletes
    <2>1. /\ connection' = "ended" /\ UNCHANGED <<inbox, outbox, gateway>>
          /\ Hellos' = Hellos
      BY <1>3, InboxCounts DEF CloseCompletes, End
    <2>. QED
      BY <1>1, <2>1
      DEF BeatInv, GreetingInv, ClosingInv, LiveInv, HeldInv, SentInv, CountInv,
          Undisturbed, Finished
  <1>4. CASE connection # "none" /\ CloseWaits
    <2>1. /\ connection' # "none" /\ (Finished => Finished')
          /\ gateway'.greeted = gateway.greeted
          /\ "Heartbeat" \in outbox' => "Heartbeat" \in outbox
          /\ inbox' = inbox \/ inbox' = <<>>
      BY <1>4 DEF CloseWaits, Received, Finished
    <2>2. Hellos' = Hellos \/ Hellos' = 0
      BY <2>1, InboxCounts
    <2>. QED
      BY <1>1, <1>4, <2>1, <2>2, Facts
      DEF BeatInv, GreetingInv, ClosingInv, LiveInv, HeldInv, SentInv, CountInv,
          Undisturbed, One, Counted
  <1>. QED
    BY <1>2, <1>3, <1>4 DEF Shutdown

\* The heartbeat interval: a heartbeat is only queued when the one before it has
\* been acknowledged, and a heartbeater that waits in vain is dropped.
LEMMA BeatTick ==
    ASSUME IInv, BeatInv, TickStep
    PROVE  BeatInv'
  <1>1. /\ pc = "tick" /\ pc' \in {"read", "send"} /\ UNCHANGED <<connVars, calls>>
        /\ ~pending.is_heartbeat
    BY Facts DEF TickStep, TickPending, TickZombied, TickHeartbeat, Goto, rest
  <1>2. /\ UNCHANGED <<connection, net, inbox, outbox, gateway>>
        /\ Hellos' = Hellos /\ Acks' = Acks
    BY <1>1, InboxCounts DEF connVars
  <1>3. CASE TickPending
    <2>1. heartbeater' = Armed /\ UNCHANGED <<state, pending>>
      BY <1>3 DEF TickPending, status
    <2>. QED
      BY <1>1, <2>1, Facts, BeatFrame DEF Armed, Heartbeater
  <1>4. CASE TickZombied
    <2>1. /\ heartbeater' = NoHeartbeater /\ pending' = Queued("Close")
          /\ state' \in {"Disconnected", "Closed"} /\ pc' = "read" /\ is_zombied
          /\ heartbeater.due
      <3>1. FieldsType /\ close_inner("User", ResumeCode)
        BY <1>4 DEF TickZombied, IInv, TypeOK
      <3>2. state' \in {"Disconnected", "Closed"}
        BY <3>1, CloseInnerType
      <3>. QED
        BY <1>4, <3>1, <3>2 DEF TickZombied, close_inner, Leave, Goto
    <2>. QED
      BY <1>1, <1>2, <2>1
      DEF BeatInv, GreetingInv, ClosingInv, LiveInv, HeldInv, SentInv, CountInv,
          Undisturbed, NoHeartbeater, Queued, Finished
  <1>5. CASE TickHeartbeat
    <2>1. /\ heartbeater' = [heartbeater EXCEPT !.due = FALSE]
          /\ pending' = Queued("Heartbeat") /\ UNCHANGED state
          /\ pc' = "send" /\ heartbeater.due /\ ~is_zombied
      BY <1>5 DEF TickHeartbeat, status, Goto
    <2>2. /\ heartbeater'.live = heartbeater.live /\ heartbeater'.sent = heartbeater.sent
          /\ heartbeater'.acknowledged = heartbeater.acknowledged /\ ~heartbeater'.due
      BY <2>1, Facts DEF Heartbeater
    <2>. QED
      BY <1>1, <1>2, <2>1, <2>2
      DEF BeatInv, GreetingInv, ClosingInv, LiveInv, HeldInv, SentInv, CountInv,
          Undisturbed, Queued, Finished, is_zombied
  <1>. QED
    BY <1>3, <1>4, <1>5 DEF TickStep


\* The last of one.
LEMMA OneLess ==
    ASSUME NEW n \in Nat, NEW m \in Nat, n = m + 1
    PROVE  /\ n <= 1 => n = 1 /\ m = 0
           /\ ~(n <= 0)
           /\ \A k \in Nat : k + n = 1 => k + m = 0
           /\ \A k \in Nat : k + n # 0
  OBVIOUS

ReadMalformedAck == ReadMalformed /\ Head(inbox).kind = "HeartbeatAck"

\* What is read: a Hello makes the heartbeater, of which there was none; an
\* acknowledgement answers the one heartbeat that has been sent, even one that does not
\* deserialize.
LEMMA BeatReadEvent ==
    ASSUME IInv, BeatInv, ReadEvent \/ ReadMalformedAck
    PROVE  BeatInv'
  <1>. DEFINE op == Head(inbox).kind
  <1>1. /\ pc = "read" /\ pc' = "idle" /\ connection # "none" /\ ReadsMessage /\ Take
        /\ UNCHANGED <<state, pending, calls, net, outbox, gateway, connection>>
        /\ op \in EventOps /\ ProcessEvent(op)
    BY DEF ReadEvent, ReadMalformedAck, ReadMalformed, ReadsKind, Reading, Take, HandOver,
           Ready, rest, status, EventOps
  <1>2. /\ op = "Hello" => Hellos = Hellos' + 1 /\ Acks' = Acks
        /\ op = "HeartbeatAck" => Hellos' = Hellos /\ Acks = Acks' + 1
        /\ op = "Event" => Hellos' = Hellos /\ Acks' = Acks
        /\ Hellos' \in Nat /\ Acks' \in Nat /\ Hellos \in Nat /\ Acks \in Nat
        /\ Hellos' <= Hellos /\ ~Finished /\ ~pending.is_heartbeat
    BY <1>1, Facts, TakeKinds DEF ReadsMessage
  <1>3. /\ gateway.owed \in Nat
        /\ pending.message # "Heartbeat" \/ calls # 0
        /\ "Heartbeat" \notin outbox \/ calls # 0
    BY <1>2, Facts DEF Counted, Gateway, BeatInv, HeldInv, Undisturbed
  <1>4. Hellos <= One(gateway.greeted) /\ gateway'.greeted = gateway.greeted
    BY <1>1 DEF BeatInv, GreetingInv
  <1>5. GreetingInv' /\ ClosingInv'
    <2>1. Hellos' <= One(gateway.greeted)
      BY <1>2, <1>4 DEF One
    <2>. QED
      BY <1>1, <1>4, <2>1 DEF GreetingInv, ClosingInv, One
  <1>6. CASE calls # 0
    BY <1>1, <1>5, <1>6 DEF BeatInv, Undisturbed
  <1>7. CASE calls = 0 /\ op = "Hello"
    <2>1. heartbeater' = NewHeartbeater /\ Hellos' = 0 /\ Hellos = 1 /\ gateway.greeted
      <3>1. heartbeater' = NewHeartbeater
        BY <1>1, <1>7 DEF ProcessEvent
      <3>2. Hellos = Hellos' + 1 /\ Hellos \in Nat /\ Hellos' \in Nat
        BY <1>2, <1>7
      <3>3. (gateway.greeted => Hellos <= 1) /\ (~gateway.greeted => Hellos <= 0)
        BY <1>4 DEF One
      <3>4. /\ Hellos <= 1 => Hellos = 1 /\ Hellos' = 0
            /\ ~(Hellos <= 0)
        BY <3>2, OneLess
      <3>5. gateway.greeted
        BY <3>2, <3>3, <3>4
      <3>. QED
        BY <3>1, <3>3, <3>4, <3>5
    <2>2. heartbeater'.live /\ ~heartbeater'.sent /\ ~heartbeater'.due
      BY <2>1 DEF NewHeartbeater, NoHeartbeater
    <2>3. state = "Connected" /\ ~heartbeater.live /\ ~heartbeater.sent
      BY <1>2, <1>1, <1>7, <2>1 DEF BeatInv, LiveInv, SentInv, Undisturbed
    <2>4. LiveInv' /\ HeldInv' /\ SentInv'
      BY <1>1, <1>2, <1>3, <1>7, <2>1, <2>2, <2>3 DEF LiveInv, HeldInv, SentInv, Finished
    <2>5. CountInv'
      BY <1>1, <1>2, <1>7, <2>2, <2>3 DEF BeatInv, CountInv, Undisturbed, One
    <2>. QED
      BY <1>5, <2>4, <2>5 DEF BeatInv
  <1>8. CASE calls = 0 /\ op = "HeartbeatAck"
    <2>1. /\ heartbeater'.live = heartbeater.live /\ heartbeater'.due = heartbeater.due
          /\ ~heartbeater'.sent
      BY <1>1, <1>8, Facts DEF ProcessEvent, Acknowledged, Heartbeater
    <2>2. LiveInv' /\ HeldInv' /\ SentInv'
      BY <1>1, <1>2, <1>3, <1>8, <2>1
      DEF BeatInv, LiveInv, HeldInv, SentInv, Undisturbed, Finished
    <2>3. CountInv'
      <3>1. CASE state = "Connected" /\ net # "broken"
        <4>1. gateway.owed + Acks = One(heartbeater.sent)
          BY <1>8, <3>1 DEF BeatInv, CountInv, Undisturbed
        <4>2. gateway.owed + Acks' = 0
          <5>1. gateway.owed + Acks = 1 \/ gateway.owed + Acks = 0
            BY <4>1 DEF One
          <5>. QED
            BY <1>2, <1>3, <1>8, <5>1, OneLess, Facts DEF Counted, Gateway
        <4>. QED
          BY <1>1, <2>1, <4>2 DEF CountInv, One
      <3>. QED
        BY <1>1, <3>1 DEF CountInv
    <2>. QED
      BY <1>5, <2>2, <2>3 DEF BeatInv
  <1>9. CASE calls = 0 /\ op = "Event"
    <2>1. heartbeater' = heartbeater
      BY <1>1, <1>9 DEF ProcessEvent
    <2>. QED
      BY <1>1, <1>2, <1>5, <1>9, <2>1
      DEF BeatInv, LiveInv, HeldInv, SentInv, CountInv, Undisturbed, Finished
  <1>. QED
    BY <1>1, <1>6, <1>7, <1>8, <1>9 DEF EventOps, Undisturbed

\* The rest of the messages, errors and the end of the stream.
LEMMA BeatReadOther ==
    ASSUME IInv, BeatInv, Read, ~ReadEvent, ~ReadMalformedAck
    PROVE  BeatInv'
  <1>1. CASE ReadPending
    BY <1>1, BeatFrame DEF ReadPending, Pending, data, rest, fields, status
  <1>2. CASE ReadUnknown \/ ReadMalformed \/ ReadBinary
    <2>1. /\ ReadsMessage /\ Take /\ Head(inbox).kind \notin {"Hello", "HeartbeatAck", "Close"}
          /\ UNCHANGED <<state, heartbeater, pending, calls>>
          /\ pc' \notin {"flush", "shutdown"}
      BY <1>2
      DEF ReadUnknown, ReadMalformed, ReadMalformedAck, Undecoded, ProcessEvent, ReadBinary,
          ReadsKind, Pending, Ready, Goto, rest, fields, status
    <2>2. Hellos' = Hellos /\ Acks' = Acks
      BY <2>1, TakeKinds, Facts
    <2>. QED
      BY <2>1, <2>2
      DEF Take, BeatInv, GreetingInv, ClosingInv, LiveInv, HeldInv, SentInv, CountInv,
          Undisturbed, Finished
  <1>3. CASE ReadClose \/ ReadErr \/ ReadEndPending
    <2>1. /\ Finished' /\ connection' # "none" /\ UNCHANGED <<net, outbox, gateway, calls>>
          /\ pc = "read" /\ pc' \notin {"flush", "shutdown"}
          /\ inbox' = inbox \/ (ReadsMessage /\ Take /\ Head(inbox).kind = "Close")
      BY <1>3
      DEF ReadClose, ReadErr, ReadEndPending, ReadsKind, Reading, Take, End, Finished, Ready,
          Goto, Pending, rest
    <2>2. Hellos' = Hellos /\ Acks' = Acks
      BY <2>1, InboxCounts, TakeKinds, Facts
    <2>3. \/ UNCHANGED <<state, heartbeater, pending>>
          \/ /\ heartbeater' = NoHeartbeater /\ state' \in {"Disconnected", "Closed"}
             /\ UNCHANGED pending
      BY <1>3
      DEF ReadClose, ReadErr, ReadEndPending, close_inner, Leave, fields, status,
          from_close_code
    <2>. QED
      BY <2>1, <2>2, <2>3, Facts
      DEF BeatInv, GreetingInv, ClosingInv, LiveInv, HeldInv, SentInv, CountInv,
          Undisturbed, NoHeartbeater
  <1>4. CASE ReadEnd
    <2>1. /\ Hellos' = 0 /\ outbox' = {} /\ connection' = "none" /\ inbox' = <<>>
          /\ ~gateway'.greeted /\ UNCHANGED calls /\ pc = "read" /\ pc' = "connect"
      BY <1>4, InboxCounts DEF ReadEnd, Reading, Dropped, Become, NewGateway, Goto, rest
    <2>2. \/ UNCHANGED <<state, heartbeater, pending>> /\ state = "Disconnected"
          \/ /\ heartbeater' = NoHeartbeater /\ state' = "Disconnected"
             /\ UNCHANGED pending
      BY <1>4 DEF ReadEnd, close_inner, Leave, fields, status
    <2>. QED
      BY <2>1, <2>2, Facts
      DEF BeatInv, GreetingInv, ClosingInv, LiveInv, HeldInv, SentInv, CountInv,
          Undisturbed, NoHeartbeater, One
  <1>. QED
    BY <1>1, <1>2, <1>3, <1>4 DEF Read

LEMMA BeatStart == Init => BeatInv
  <1>. SUFFICES ASSUME Init
                PROVE  BeatInv
    OBVIOUS
  <1>1. Hellos = 0 /\ Acks = 0
    BY CountNothing DEF Init, ConnectionInit, Hellos, Acks
  <1>. QED
    BY <1>1
    DEF Init, ConnectionInit, BeatInv, GreetingInv, ClosingInv, LiveInv, HeldInv, SentInv,
        CountInv, Undisturbed, One, NewGateway, NoHeartbeater, NoPending

LEMMA BeatStep == IInv /\ BeatInv /\ [Next]_vars => BeatInv'
  BY BeatPollAndTimers, BeatConnect, BeatSend, BeatShutdown, BeatTick, BeatReadEvent,
     BeatReadOther, BeatUser, BeatWorld
  DEF Next, InPoll

LEMMA BeatsInductive == Spec => []BeatInv
  <1>1. Spec => []IInv
    BY Inductive
  <1>. QED
    BY <1>1, BeatStart, BeatStep, PTL DEF Spec

------------------------------------------------------------------------------
(* The theorems.                                                           *)

\* As long as the user does not call, a heartbeater is one of the connection there
\* is: process_event only makes one of a Hello read on it, and whatever gives the
\* connection up (close_inner, reconnect, poll_send's error) drops the heartbeater.
THEOREM HeartbeaterOfTheConnection == Spec => []HeartbeaterOfConnection
  <1>1. BeatInv /\ ClosedIsQuiet => HeartbeaterOfConnection
    BY DEF BeatInv, LiveInv, HeartbeaterOfConnection
  <1>. QED
    BY <1>1, BeatsInductive, ClosedSocketIsQuiet, PTL

\* As long as the user does not call, has_sent says whether a heartbeat of this
\* connection waits for its acknowledgement, and never of more than one: the zombie
\* check of poll_send takes no connection for dead whose gateway has answered.
THEOREM AccountsForHeartbeats == Spec => []HeartbeatsAccounted
  <1>1. BeatInv => HeartbeatsAccounted
    BY DEF BeatInv, CountInv, HeartbeatsAccounted, Acks, Count, Places, AcksOnTheWay, One
  <1>. QED
    BY <1>1, BeatsInductive, PTL


------------------------------------------------------------------------------
(* Wakeups.  A task that sleeps over a connection waits for its transport  *)
(* to take a write, or it waits for a read and there is nothing to read.   *)
(* An unknown opcode is read without either, so that the gateway is        *)
(* assumed to send none.                                                   *)

KnownOps == "Unknown" \notin GatewayOps

OnlyKnown == \A i \in DOMAIN inbox : inbox[i].kind # "Unknown"

Watched ==
    connection = "none" \/ "write" \in interest \/ ("read" \in interest /\ inbox = <<>>)

WakeInv == KnownOps =>
    /\ OnlyKnown
    /\ pc = "idle" /\ ~wake /\ state # "Closed" => Watched

\* An opcode that is not known does not arrive, and what is left of the inbox holds
\* none either.
LEMMA KnownArrives ==
    ASSUME ConnectionType, OnlyKnown, NEW m \in Message, NEW peer, Arrives(m, peer),
           m.kind # "Unknown"
    PROVE  OnlyKnown'
  <1>1. inbox \in Seq(Message) /\ inbox' = Append(inbox, m)
    BY DEF ConnectionType, StreamType, Arrives
  <1>2. /\ DOMAIN inbox = 1 .. Len(inbox) /\ Len(inbox) \in Nat
        /\ DOMAIN inbox' = 1 .. Len(inbox) + 1
        /\ \A i \in 1 .. Len(inbox) : inbox'[i] = inbox[i]
        /\ inbox'[Len(inbox) + 1] = m
    BY <1>1, AppendProperties, LenProperties
  <1>. QED
    BY <1>2 DEF OnlyKnown

LEMMA KnownTail ==
    ASSUME ConnectionType, OnlyKnown, ReadsMessage, Take
    PROVE  OnlyKnown' /\ Head(inbox).kind # "Unknown"
  <1>1. inbox \in Seq(Message) /\ inbox # <<>> /\ inbox' = Tail(inbox)
    BY DEF ConnectionType, StreamType, ReadsMessage, Take
  <1>2. /\ DOMAIN inbox = 1 .. Len(inbox) /\ Len(inbox) \in Nat /\ Len(inbox) # 0
        /\ inbox' \in Seq(Message) /\ Len(inbox') = Len(inbox) - 1
        /\ DOMAIN inbox' = 1 .. Len(inbox')
        /\ \A i \in 1 .. Len(inbox') : inbox'[i] = inbox[i + 1]
        /\ Head(inbox) = inbox[1]
    BY <1>1, HeadTailProperties, LenProperties, EmptySeq
  <1>. QED
    BY <1>2 DEF OnlyKnown

\* What the gateway and the network do wakes a task that waits for it.
LEMMA WakeWorld ==
    ASSUME IInv, BeatInv, WakeInv, KnownOps, Outside
    PROVE  WakeInv'
  <1>. USE DEF IInv, TypeOK
  <1>0. ConnectionType /\ pc' = pc /\ state' = state /\ OnlyKnown
        /\ (connection = "none" => inbox = <<>>)
    BY DEF Outside, Aside, fields, status, WakeInv, BeatInv, GreetingInv
  <1>1. ASSUME NEW m \in Message, NEW peer, Arrives(m, peer), m.kind # "Unknown"
        PROVE  WakeInv'
    <2>1. OnlyKnown'
      BY <1>0, <1>1, KnownArrives
    <2>. QED
      BY <1>0, <1>1, <2>1
      DEF WakeInv, Watched, Arrives, Notify, Up, ConnectionType
  <1>2. CASE GatewayHello \/ GatewayAck \/ GatewayAnswer \/ NetEof
    BY <1>1, <1>2
    DEF GatewayHello, GatewayAck, GatewayAnswer, NetEof, Text, Closing, NoStatus, Message
  <1>3. CASE GatewayEvent
    BY <1>1, <1>3, ConnectionAssumption DEF GatewayEvent, Text, Message, KnownOps, AllOps
  <1>4. CASE GatewayClose
    BY <1>1, <1>4, ConnectionAssumption DEF GatewayClose, Closing, Message
  <1>5. CASE NetBlock \/ NetSilence
    BY <1>0, <1>5 DEF NetBlock, NetSilence, WakeInv, Watched, OnlyKnown
  <1>6. CASE NetUnblock \/ NetBreak
    <2>1. inbox' = inbox \/ inbox' = <<>>
      BY <1>6 DEF NetUnblock, NetBreak
    <2>2. OnlyKnown'
      BY <1>0, <2>1 DEF OnlyKnown
    <2>. QED
      BY <1>0, <1>6, <2>2 DEF NetUnblock, NetBreak, Notify, WakeInv, Watched
  <1>. QED
    BY <1>2, <1>3, <1>4, <1>5, <1>6 DEF Outside, World

\* Where a poll returns Pending it has registered with what it waits for, and
\* where it returns an item the consumer asks for the next.
LEMMA WakePoll ==
    ASSUME IInv, BeatInv, WakeInv, KnownOps, Poll \/ InPoll
    PROVE  WakeInv'
  <1>. DEFINE Wakes == pc' # "idle" \/ wake' \/ state' = "Closed" \/ Watched'
  <1>0. /\ ConnectionType /\ OnlyKnown
        /\ pending_event # "None" => pending_event # "End"
    BY DEF IInv, TypeOK, WakeInv, EventOps
  <1>1. CASE Poll
    BY <1>0, <1>1 DEF Poll, PollPendingEvent, PollStart, Ready, connVars, WakeInv, OnlyKnown
  <1>2. CASE Connect
    <2>1. OnlyKnown'
      BY <1>0, <1>2
      DEF Connect, ConnectNothing, ConnectPending, ConnectOk, ConnectErr, Opened, Become,
          data, connVars, OnlyKnown
    <2>2. Wakes
      BY <1>2
      DEF Connect, ConnectNothing, ConnectPending, ConnectOk, ConnectErr, Dials, Goto,
          AfterConnect, Pending, Ready, Watched, connVars
    <2>. QED
      BY <2>1, <2>2 DEF WakeInv
  <1>3. CASE Send
    <2>1. OnlyKnown'
      BY <1>0, <1>3
      DEF Send, SendNothing, SendDone, SendPanics, SendPending, SendErr, FlushErr, Flushed,
          Unflushed, SendError, Dropped, Become, data, connVars, OnlyKnown
    <2>2. Wakes
      BY <1>3
      DEF Send, SendNothing, SendDone, SendPanics, SendPending, SendErr, FlushErr,
          AfterSend, Goto, Pending, Ready, FlushWaker, Watched
    <2>. QED
      BY <2>1, <2>2 DEF WakeInv
  <1>4. CASE Shutdown
    <2>1. inbox' = inbox \/ inbox' = <<>>
      BY <1>4 DEF Shutdown, CloseCompletes, CloseWaits, End, connVars
    <2>2. OnlyKnown'
      BY <1>0, <2>1 DEF OnlyKnown
    <2>3. state' = "Closed"
      BY <1>4 DEF Shutdown, BeatInv, ClosingInv, fields, status
    <2>. QED
      BY <2>2, <2>3 DEF WakeInv
  <1>5. CASE TickStep
    BY <1>0, <1>5
    DEF TickStep, TickPending, TickZombied, TickHeartbeat, Goto, connVars, WakeInv, OnlyKnown
  <1>6. CASE Read
    <2>1. OnlyKnown' /\ ~ReadUnknown
      <3>1. CASE ReadEvent \/ ReadMalformed \/ ReadBinary \/ ReadClose \/ ReadUnknown
        <4>1. ReadsMessage /\ Take
          BY <3>1
          DEF ReadEvent, ReadMalformed, ReadBinary, ReadClose, ReadUnknown, ReadsKind
        <4>2. OnlyKnown' /\ Head(inbox).kind # "Unknown"
          BY <1>0, <4>1, KnownTail
        <4>. QED
          BY <4>2 DEF ReadUnknown, ReadsKind
      <3>2. CASE ReadPending \/ ReadErr \/ ReadEndPending \/ ReadEnd
        <4>1. (inbox' = inbox \/ inbox' = <<>>) /\ ~ReadUnknown
          BY <3>2
          DEF ReadPending, ReadErr, ReadEndPending, ReadEnd, End, Dropped, Become, data,
              connVars, ReadUnknown, ReadsKind, ReadsMessage, ReadsNothing, ReadsError,
              ReadsEnd, Finished
        <4>. QED
          BY <1>0, <4>1 DEF OnlyKnown
      <3>. QED
        BY <1>6, <3>1, <3>2 DEF Read
    <2>2. Wakes
      BY <1>0, <1>6, <2>1
      DEF Read, ReadPending, ReadEvent, ReadMalformed, ReadBinary, ReadClose, ReadErr,
          ReadEndPending, ReadEnd, ReadsKind, ReadsNothing, HandOver, EventOps, Goto,
          Pending, Ready, ReadWaker, FlushWaker, Watched, data, connVars
    <2>. QED
      BY <2>1, <2>2 DEF WakeInv
  <1>. QED
    BY <1>1, <1>2, <1>3, <1>4, <1>5, <1>6 DEF InPoll

LEMMA WakeStep == IInv /\ BeatInv /\ WakeInv /\ [Next]_vars => WakeInv'
  <1>. SUFFICES ASSUME IInv, BeatInv, WakeInv, [Next]_vars, KnownOps
                PROVE  WakeInv'
    BY DEF WakeInv, KnownOps
  <1>1. CASE Poll \/ InPoll
    BY <1>1, WakePoll
  <1>2. CASE Outside
    BY <1>2, WakeWorld
  <1>3. CASE User
    BY <1>3 DEF User, send, close, reconnect_to, Call, connVars, WakeInv, OnlyKnown
  <1>4. CASE Timers
    BY <1>4
    DEF Timers, Tick, DialOk, DialErr, Notify, connVars, fields, status, WakeInv, OnlyKnown,
        Watched
  <1>5. CASE UNCHANGED vars
    BY <1>5 DEF vars, taskVars, connVars, fields, status, WakeInv, OnlyKnown, Watched
  <1>. QED
    BY <1>1, <1>2, <1>3, <1>4, <1>5 DEF Next

\* A poll that answers Pending has registered its waker with the stream or with a
\* write, so that no message that has arrived is slept over: whatever the network,
\* the timers and the user do, and whenever.  The hypothesis is needed: the arm of
\* poll_next for an unknown opcode answers Pending without having registered.
THEOREM WakesForMessages == Spec => [](KnownOps => NoLostWakeup)
  <1>1. Init => WakeInv
    BY DEF Init, ConnectionInit, WakeInv, OnlyKnown
  <1>2. BeatInv /\ WakeInv => (KnownOps => NoLostWakeup)
    BY DEF BeatInv, GreetingInv, WakeInv, Watched, NoLostWakeup
  <1>3. Spec => []IInv
    BY Inductive
  <1>. QED
    BY <1>1, <1>2, <1>3, BeatsInductive, WakeStep, PTL DEF Spec
=============================================================================

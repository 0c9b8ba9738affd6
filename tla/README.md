# gramophone, modelled and checked

gramophone is a Discord voice client: a WebSocket to the voice gateway, a UDP
socket for encrypted Opus packets, and a client that drives both from one
`Stream::poll_next`. This directory holds TLA+ models of its core, the TLC
configurations that check them and TLAPS proofs about them.

## The system

| Component | State | Operations | Interacts with |
|---|---|---|---|
| `VoiceWebSocket` (`src/net/ws/mod.rs`) | connection, state and attempts, endpoint and queued endpoint, dial future, heartbeater, one pending message, one pending event | `new`, `send`, `close`, `reconnect`, `poll_next` | polled by its owner; dials, reads, writes and closes a `tokio_websockets` stream |
| `Heartbeater` (`ws/heartbeater.rs`) | sent, acknowledged, interval, latencies | `new`, `interval`, `record_sent`, `acknowledged`, `is_zombied` | a field of `VoiceWebSocket`, made by Hello, gone with the connection |
| Close codes (`crates/types/src/close_code.rs`) | none | `try_from`, `can_reconnect` | decides between `Closed` and `Disconnected` |
| `VoiceUdp` (`src/net/udp/mod.rs`) | socket, channel of packets, pending packet, flush requests, keepalive, two intervals | `connect`, `close`, `send`, `connect_flushed_event`, `discover_ext_ip`, `poll_next` | polled by `VoiceClient`, which queues packets and flush requests |
| `VoiceClient` (`src/client/mod.rs`) | state, session (nonce, sequence, timestamp), encryptor, speaking, UDP future | `close`, `speaking`, `send`, `poll_next` | owns the two sockets and the channel; turns gateway events into calls of `websocket.send` |
| `MessageChannel`, `VoiceClientSender` (`src/client/channel.rs`) | a channel of packets, a channel of commands | `send`, `speaking`, `wait_until_flushed` | other threads send, the client's poll takes one packet and one command per round |
| Encryption (`src/crypto`) | key | `negotiate`, `encrypt` | packet path of the client |
| `AudioProcessor` (`src/stream/resampler.rs`) | sample buffer | `push`, `next_stereo_frame` | used by producers |
| Payloads, opcodes (`crates/types/src`) | none | `OpCode::from`, the visitors of a message | decode what the gateway sends |
| Example (`examples/usage.rs`) | overflow buffer | `do_stuff` | a producer thread |
| Errors, benchmarks | | | formatting, measurements |

What is hard about it: everything runs as hand-written poll functions, so that a
result `Pending` is only right if a waker has been registered, and a field read by
one part of a poll may be changed by the next. Between two polls the user calls
`send`, `close` and `reconnect` in any order; the gateway closes, stays silent or
goes away at any point; there is exactly one slot for a message to send and one for
an event to deliver, and both outlive the connection they were meant for.

What makes each component correct:

* `VoiceWebSocket`: never unwraps a missing connection, never dials while it holds
  one, announces every unexpected reconnection before its events, loses no event,
  stays closed once closed, looks only at its own connection's heartbeats, and never
  falls asleep on something it has to do.
* `VoiceUdp`: a FIFO queue. A packet leaves once and in order, whatever blocks or
  fails, and a flush is answered when what was queued before has left.
* `VoiceClient`: sends no packet without a session, an encryptor and an open UDP
  socket, and each with the key of its session and a nonce that does not repeat under it;
  keeps the order of packets; says nothing the gateway has to reject; gets back to an active
  client after a fault, or to its end; leaves no packet, command or flush behind.
* The algorithms: the best offered mode is chosen and the one described is used; a message
  yields the event it holds, in whatever order its fields come; no sample is lost, repeated
  or put into the other channel.

## Modules

| Module | Models |
|---|---|
| `Runtime` | wakers: a task that answered `Pending` is polled again once a source it registered with is notified |
| `Connection` | all that is external to `VoiceWebSocket`: the stream with its write buffer and close handshake, the transport with its faults, the gateway |
| `CloseCode` | `CloseCode` and `VoiceWebSocketState::from_close_code` |
| `VoiceWebSocket` | `VoiceWebSocket` with its `Heartbeater` |
| `MCVoiceWebSocket` | instances for TLC and the symmetry of endpoints |
| `VoiceWebSocketProofs` | the inductive invariant of `VoiceWebSocket` and its theorems |
| `HeartbeatProofs` | its heartbeats and its wake-ups |
| `PacketQueue` | the abstract promise of `VoiceUdp`, which `VoiceClient` relies on |
| `VoiceUdp` | `VoiceUdp`, which implements `PacketQueue` |
| `VoiceUdpProofs` | that it does, the order of packets and answers, and its wake-ups |
| `GatewayStream` | the abstract promise of `VoiceWebSocket`, which `VoiceClient` relies on |
| `MessageChannel` | `MessageChannel` and `VoiceClientSender` |
| `VoiceGateway` | what is external to `VoiceClient`: the connections, the network's faults and the gateway's handshake |
| `VoiceClient` | `VoiceClient`, composed of the three above |
| `VoiceClientProofs` | the inductive invariant of `VoiceClient` and its theorems |
| `HandshakeProofs` | that a handshake nothing disturbs is clean |
| `ClientStreamProofs` | that the client uses its WebSocket in turn and its UDP connections as `PacketQueue` has it, and its wake-ups |
| `EncryptMode` | the modes, `negotiate()` and the mode of a SessionDescription |
| `Payload` | `OpCode::from` and the visitor that reads a message |
| `AudioProcessor` | the sample buffer of `AudioProcessor` |
| `ExamplePlayer` | `do_stuff` of the example |
| `MCAlgorithms` | the four before it, side by side, for TLC |
| `AlgorithmProofs` | their theorems |

### VoiceWebSocket

The variables are the fields of the struct. An `Option` that is `None` is a value of
its own ("none", "None", "Empty", `NoEndpoint`, a heartbeater that is not `live`).
`attempts` is the number carried by `Disconnected`. A `Pending` whose message has been
taken by `start_send` and not flushed has the message "Taken".

A poll is not one step. `pc` names the part of `poll_next` that runs next:

| `pc` | code |
|---|---|
| `connect` | `poll_ws_connect` |
| `send`, `flush` | `poll_send_pending`, as called by `poll_send` and for a closed socket |
| `shutdown` | `poll_close` of a closed socket |
| `tick` | the heartbeat interval in `poll_send` |
| `read` | the read and everything done with what was read |
| `idle`, `panic` | no poll runs; the `expect` has failed |

Messages, faults and timers may come in between two parts. The user's calls need
`&mut self` and come when `pc = "idle"`. Every way out of a poll is `Ready(item)`, after
which the consumer asks again, or `Pending(sources)`, after which the task sleeps until
`Runtime!Notify` finds one of the sources it has ever registered with. `ReadUnknown` is
`Pending({})`: that is what the code does.

`wanted`, `expected`, `announced` and `backlog` are history: they record what the user
asked for and what the consumer has been told, and no action's guard reads them.

What `Connection` assumes of the library stands at its head. Text payloads are members
of a small set of kinds: Hello, HeartbeatAck, any other event, an opcode that is not
known, text that does not deserialize, and a message that is neither text nor close.
A malformed acknowledgement is an error that has the effect of an acknowledgement
(`Undecoded`): `acknowledged()` runs when the opcode is known, before the rest of the message
is deserialized.

### VoiceUdp

One iteration of the loop of `poll_next` is one step. It is made of `Fill`, what the code
does before the intervals (take a packet, or answer the flush requests), and of one
outcome: nothing to send, sent, blocked, failed, the same for the keepalive, or the end of
the loop. `MissedTickBehavior::Burst` makes elapsed send intervals a number, `Delay` makes
the keepalive a flag. As in the code, a keepalive tick that meets a send tick is lost.

Packets are numbered in the order they are queued and a flush request is the number of
packets queued before it. `Promise` is `PacketQueue` with its queue mapped to the pending
packet followed by the channel, and those who wait to the set of the marks in the channel of
requests.

### VoiceClient

`VoiceClient` is a composition. Its WebSocket is `GatewayStream`, instantiated as `Ws`: the
promise that `VoiceWebSocket` is shown to keep, so that the client's model needs none of the
socket's fields and futures. What the promise leaves open comes from the world: a transport
that takes no writes for a while and holds a frame up (`conn` is "blocked", "held"), heartbeats
that are due (`HeartbeatTick`, `WsBeats`) or not acknowledged in time (`WsGivesUp`, the zombied
connection), and messages that cannot be read ("Malformed"). `VoiceGateway` says what is on the connection
that `Ws` is about: which messages have arrived, which texts the gateway has not handled,
how far it is with this connection's handshake. `MessageChannel` holds what the senders have
put in and the client has not taken. The UDP connection is a queue that sends a packet now
and then; `UsesPacketQueues` relates it to `PacketQueue`, which `VoiceUdp` is shown to
implement: the connections the client makes one after another are one `PacketQueue` after
another (`Replace`), to which it hands the first packet of its channel and its flush requests.

| `pc` | code |
|---|---|
| `udp` | `poll_next` of the UDP connection, at the head of the loop |
| `state` | `match &self.state`: the packet of an active client, the UDP futures, the fatal end |
| `command` | the one command of an active client |
| `ws`, `stream` | `poll_next` of the WebSocket, step by step, and what is done with its item |
| `idle`, `panic` | no poll runs; an `unwrap`, an `expect` or a future that is spent |

Senders are other threads: they, the gateway and the network go on between any two steps.
`close` needs `&mut self` and comes when `pc = "idle"`. A session is named by its number
among those the gateway has granted, a key by the session it is the key of, and a nonce by
how often the session's nonce, which starts at a random number, has been incremented.
`known`, `resumes`, `wire` and `answered` record what has happened; of these the gateway
knows the first.

What the model of the gateway takes from the code: it says Hello first, answers Identify with
Ready, SelectProtocol with SessionDescription, Resume with Resumed or a close, and closes a
connection on which the client speaks too early or authenticates twice.

The model allows a little more than the code: `GatewayStream` does not tell a close frame that
the heartbeat check has just queued from one the owner's `close` with a reconnectable code has
put there, so that a read may come before the sending of either (`ZombieClose`), while in the
code it does only for the first. The `expect` of `ws_panic` is not part of the promise.

### The algorithms

The four modules are small machines whose inputs TLC enumerates and whose state is the
code's: the offered modes and the one chosen, the entries of a message as they are visited,
the samples pushed and taken. Samples are pushed in portions that hold every channel equally
often, which is an assumption about the callers; the code takes any slice, and an odd
portion of a stereo track that is followed by a padded frame would swap its channels. What is
recorded of a frame is the samples that were drained for it, not what its left and right
side hold. The reference is stated over the inputs' history (the best of
the supported modes, the last `d` of the object, the samples in the order they were pushed),
never by running the algorithm a second time.

## Runs

| Run | Question | Bounds |
|---|---|---|
| `ws_safety` | Do the socket's fields agree with each other and with what the user and the consumer know, in every interleaving? | inbox of 2, one fault of any kind, 2 user calls of any kind, 2 endpoints, close codes 4004 (final) and 4015 (may reconnect) of the gateway, 1000 (graceful) and 4000 of the user |
| `ws_liveness` | Does the socket get on: reconnect, end, send its close frame, deliver what it holds? | inbox of 2, one fault the transport notices, one `close` or `reconnect` |
| `ws_panic`, `ws_staleclose`, `ws_zombie` | the three disagreements below | inbox of 1, no user calls |
| `udp` | Is `VoiceUdp` a `PacketQueue`, and do packets leave and flushes get answered? | 3 packets, 2 flush requests, 1 unnoticed interval, 2 connects or closes, 2 faults |
| `client_safety` | Does the client keep order, keys, nonces and what it unwraps, over two sessions and in every interleaving, and is the gateway given no reason to close? | 2 packets, 2 commands (Speaking is only turned on), one fault out of a lost connection, the gateway's close, a failed UDP connection, a lost datagram, a failed send and a failed encryption; close code 4014 (final), no `close` of the owner, no heartbeats, no events of other users |
| `client_handshake` | Is an active client equipped, and does a client that sleeps have somebody to wake it? | 1 packet, no command (so none is sent), two faults of any of the eleven kinds, one `close(1000)`, close code 4014, heartbeats, events of other users in an inbox of one |
| `client_liveness` | Does it get through its handshake again and stay active, and serve what it is given? | 1 packet, 1 command, 1 lost connection, a message that is passed over, no heartbeats |
| `client_flush`, `client_resumed` | the two disagreements below | 2 packets and 1 command without a fault; 1 lost connection |
| `algorithms` | Are the pure parts right for every input? | offers of at most 3 modes out of the supported ones and 2 others; objects of at most 3 entries; up to 14 samples, 1 to 3 channels, at rates of 100 and 120 Hz; up to 14 decoded samples in packets of 1, 2, 3, 5 and 7, where 20 ms are 4 samples |

Why these bounds are enough for the cases that matter: two messages in the inbox put an
event behind an acknowledgement or a close behind an event; one fault ends a connection
in every part of a poll and lets the next one be dialled, with everything the old one left
in the single slots; two user calls overwrite each other in every order. The number of
dials and heartbeats is not bounded except through `attempts`, which grows only with
refused dials and is bounded by `MaxFaults`. For `VoiceUdp` three packets are one that was
sent, one that is pending and one in the channel. For `VoiceClient` two packets are one in the
UDP queue and one in the channel, and, as the two commands turn speaking on in two sessions, also
one packet of each of two sessions: without the second command the reconnection, which turns
speaking off, would leave nothing to be sent. One Speaking and one flush request are among the
two commands too. That speaking is turned off (`Values`) is in the bounds of
`client_liveness` and `client_flush` only, and heartbeats (`Heartbeats`) in those of
`client_handshake`. The first fault breaks the handshake at
every one of its steps and makes the client go through all of it a second time, with what the
first left in the slot, the item that waits, the UDP future, the encryptor and the UDP queue,
and in `client_handshake` the second breaks that attempt too. Two faults together with two
commands do not end in minutes; the properties of `client_safety` and `client_handshake` are
proved for any number of them and for every constant.

The runs of `VoiceWebSocket` say `CHECK_DEADLOCK FALSE` because the socket may stop: its
stream ends, or the `expect` fails; so do those of `VoiceClient`, which ends, panics or waits
for an answer of IP discovery that was lost, and `algorithms`, whose inputs end. `VoiceUdp` never stops, because its intervals do not.

Symmetry is used in `ws_safety` only, for the endpoints, none of which the specification
names.

### Properties

`VoiceWebSocket`, safety:

* `PollsSafely`, made of `SocketPresent`, `OneConnection` and `PollDiscipline`: the unwraps are
  safe, and a connection is never replaced by another one.
* `ReconnectionAnnounced`, `NoEventLost`: events come out after the announcement of their
  connection, each of them once.
* `ClosedIsFinal`: only a call of the user leaves `Closed`.
* `DialsTheEndpointAskedFor`: a dial that starts after `reconnect` goes to its endpoint. A
  dial in progress is not abandoned, and the property does not say so.
* `HeartbeaterOfConnection`, `HeartbeatsAccounted`: as long as the user does not call, the
  heartbeater is this connection's (and, with calls too, a closed socket has none,
  `ClosedIsQuiet`), and `sent` means that the gateway owes exactly one
  acknowledgement or it is on its way. With calls both fail: `send` overwrites a heartbeat
  that is not flushed, and `close` with another code than 1000 or 1001 leaves the connection
  open, on which a late Hello makes a heartbeater again. An acknowledgement that cannot be
  deserialized counts as one, as in the code.

`VoiceWebSocket`, liveness: `NoLostWakeup`, `Reconnects`, `ClosedIsReported`, `CloseIsSent`,
`ReconnectionDelivered`, `TicksAreServed`.

`VoiceWebSocket` as a whole: `ImplementsStream`, it is a `GatewayStream`.

`VoiceUdp`: `SentInOrder`, `FlushMeansSent`, `Implements`; `NoLostWakeup`: asleep, it has
registered with its send interval or waits for a blocked socket; `PacketsAreSent`,
`FlushIsAnswered`.

`VoiceClient`, safety:

* `SentInOrder`: through discards, errors and replaced UDP connections.
* `KeyOfSession`, `NonceUnique`: Ready replaces the session and SessionDescription only later
  the key; in between no packet leaves. Both hold as long as the gateway has granted no
  Resume: a Resumed that is read by a client that has already sent a new Identify leaves a
  future behind that makes it active too early (see `client_resumed`).
* `UsesPacketQueues`: the UDP connections are packet queues. A packet leaves the queue by
  being sent, with a closed socket or with the connection that is replaced, never otherwise;
  a flush is answered by an empty queue or lost with its connection.
* `Equipped`, `NoPanic`: an active client has what packets and commands unwrap, every event
  finds the session it unwraps; the one panic left is a failed UDP future that is polled again.
* `CleanHandshake`: without a fault the gateway has no reason to close, however packets,
  commands and the handshake's messages share one slot. It is about a first connection that
  nothing disturbs: after a fault the client does give the gateway a reason, see `Settles`.
* `NoLostWakeup`: a client that sleeps waits for its UDP future, or for a WebSocket that it has
  read empty and told all it had to say; an active one is registered with the send interval.
  Excepted are a socket whose frame is held up, which reads nothing until it has left, and the
  close frame of a zombied connection, which nothing sends (see `ws_zombie`).

Liveness:

* `Settles`: once the faults are over, a polled client becomes active on a connection whose
  gateway has described the session and stays so for ever, or comes to its end; that `state` is
  Active, which `client_resumed` shows to be possible without the gateway, is not enough. What
  else can happen, and does, is that it sends Resume again and again: when a Reconnected comes
  before the Hello of its connection is read and the slot is sent in between, Resume and
  Identify both leave, and the gateway closes with 4005, which lets the client reconnect.
  The next Reconnected may go the same way, for ever, and passes through a short Active each time
  because of the future an earlier Resumed left behind. Every Resume is followed by
  an Identify, so that a granted one never helps. No line of the repository says that
  this cannot happen; `Settles` names it as the only way not to settle.
* `PacketsLeave`, `CommandsServed`: an active client leaves neither packets, commands nor flush
  requests behind, although a poll takes one of each and may sleep without having registered
  with the channel that holds the next.

Algorithms: `NegotiatesBest`, `EncryptsAsDescribed`, `EventRight`, `NothingLost`,
`ChannelsKept`, `CutInOrder`.

### Fairness

`FairSpec` of `VoiceWebSocket` assumes what the runtime and the peer owe: a woken task is
polled (`wake /\ Poll`), a poll runs to its return (`InPoll`), the heartbeat interval
elapses, a dial is answered, a blocked transport takes writes again, the gateway greets a
connection and acknowledges heartbeats and close frames. The last two are strongly fair,
because the bound on the inbox makes them possible and impossible again and again. Nobody
assumes that the user calls, that the gateway sends events or closes, or that a task is
polled without having been woken: a waker that is not registered is found.

`FairSpec` of `VoiceUdp` assumes a woken task's poll, the loop, the send interval and the
end of a block. The keepalive interval is not fair, so that nothing depends on it. That
producers pause is the bound on packets: while the queue never runs empty the code answers
no flush.

`FairSpec` of `VoiceClient` assumes a woken task's poll and a poll's return, the UDP interval,
that connect() and IP discovery answer unless a fault says otherwise, that the gateway
greets, handles what it is sent and takes a dial, and that a connection takes writes again. No
heartbeat is due in `client_liveness`, so that nothing depends on the timer of the WebSocket. Sending a packet is strongly fair: the
interval comes round while the queue is polled again and again. Nothing is assumed of the
senders, the owner's `close`, the gateway's events and the faults.

## Disagreements found

* **`ws_panic`**: a heartbeat whose flush is pending when the connection breaks stays in
  `self.pending` although its heartbeater is gone. On the next connection it completes and
  `expect("should be defined")` (`src/net/ws/mod.rs:320`) fails.
* **`ws_staleclose`**: a zombied connection's close frame is queued (`:351`); if the stream ends
  before the next poll's send, the frame is sent on the next connection, which calls itself
  `Connected` ("Successfully connected to the voice gateway.", `:31`) while it is being closed.
* **`ws_zombie`**: "connection is failed or "zombied", closing connection" (`:350`) is logged,
  but the frame is only queued after the poll's send; with the heartbeat timer gone and the
  peer silent, which is what zombied means, nothing polls the task again.

* **`client_flush`**: "Waits for all packets to be successfully sent to the associated" voice
  client (`src/client/channel.rs:75`, `:97`) is what `wait_until_flushed` says of itself. The
  client takes one packet and one command a round from two channels, hands the request on to
  `VoiceUdp`, and that answers when its own queue is empty (`src/client/mod.rs:481`): packets
  sent before may still be in the client's channel.
* **`client_resumed`**: a Resumed that is read in the state Identifying makes a UDP future that
  only the state Resuming polls. The connection is lost, the next Reconnected sets Resuming,
  and the poll goes on with the old future (`src/client/mod.rs:501`): it returns the event
  Resumed, "Successfully resumed call session." (`:393`), and is active before the gateway has
  answered.

More that the models show and no comment of the code contradicts is listed under `hazards`
in `PROJECT.json`.

## Proofs

`VoiceWebSocketProofs` proves, for every set of endpoints, codes, calls and faults and
every bound, from `ConnectionAssumption` and `SocketAssumption` alone:

    Spec => []IInv
    IInv == TypeOK /\ SocketPresent /\ OneConnection /\ ReconnectionAnnounced
              /\ NoEventLost /\ ClosedIsQuiet /\ PollDiscipline

and from it each conjunct, `ClosedIsFinal`, `DialsTheEndpointAskedFor` and
`Spec => ImplementsStream`.

Few of the conjuncts are inductive by themselves. `SocketPresent` needs
to know that the send part of a poll is only entered with a connection (`PollDiscipline`).
`TypeOK` needs `NoEventLost`, or the backlog could become negative. `NoEventLost` needs that
a poll that dials has taken the pending event, which `PollDiscipline` says. `ClosedIsQuiet`
needs that no heartbeat is pending when a message is read. `DialsTheEndpointAskedFor` needs
the agreement of `wanted` with `endpoint` and `reconnect`. TLC checks every conjunct of
`IInv` in `ws_safety`.

That the socket is a `GatewayStream` (`IsAGatewayStream`) needs a little more, `MappingInv`:
a poll that is over has returned something, only a closed socket is flushed and shut down,
and where the socket reads no message of the user waits in its slot. Then every part of the
poll is one operation of the stream, or none.

`HeartbeatProofs` adds, from the same assumptions,

    Spec => []HeartbeaterOfConnection      Spec => [](KnownOps => NoLostWakeup)
    Spec => []HeartbeatsAccounted

`BeatInv` is what the first two need besides `IInv`. Whether a heartbeat counts as sent
depends on where it is: in `pending`, in the buffer of a transport that takes no writes, with
the gateway or, as an acknowledgement, in the inbox. `HeldInv` follows it until it has left,
`CountInv` counts what is owed and what has arrived (`CountAppend`, `CountTail`), `SentInv`
says that no second one is made before, and `GreetingInv` that a connection is greeted once,
so that no later Hello takes the heartbeater away from its acknowledgement. All of it, but the
greeting, holds as long as the user does not call (`Undisturbed`); the counterexamples for a
user who does are described above. `NoLostWakeup` holds with all calls. It needs `KnownOps`,
that the gateway sends no opcode the code does not know: after one `poll_next` answers
`Pending` without having registered with the stream, and the property fails.

Layout: lemmas about the stream's operations, then type correctness in four lemmas (the
connection, the fields, the dialling, the poll), then one lemma per conjunct with a step per
group of actions, then the theorems.

`VoiceUdpProofs` proves, from `UdpAssumption` alone,

    Spec => []TypeOK            Spec => Implements
    Spec => []SentInOrder       Spec => []FlushMeansSent

The argument goes through the abstract specification. `Simulation` shows that every step
of `VoiceUdp` is a step of `PacketQueue` or leaves it alone; beside `TypeOK` it needs that
a poll runs only while there is a socket (`PolledIsOpen`). The order of the packets is then
kept by the few actions of `PacketQueue` (`OrderStep`), together with `Numbered`: no packet
has a greater number than the last that was queued, or the next would not be in order.
`PacketQueue` knows no numbers, so that `QueueMoves` adds that what is accepted has the next.
`FlushMeansSent` is not about `PacketQueue`, which does not record its answers. It needs
`MarksArePast`: a request is marked with packets that have been queued, so that what is
queued after its answer lies beyond the mark. The lemmas about sequences (`Cons`,
`ConsAppend`, `HeadBeforeTail`, `HeadMoves`, `AppendIncreasing`, `PrefixIncreasing`) rest on the
library's. `SleepsUntilWoken` proves `NoLostWakeup` with the help of `PolledIsOpen`: what ends a
poll with `Pending` has just registered, and `connect` and `close` wake the task.

`VoiceClientProofs` proves, from `ChannelAssumption`, `GatewayAssumption` and
`ClientAssumption` alone, for any number of packets, commands, closes and faults,

    Spec => []TypeOK        Spec => []KeyOfSession     Spec => []Equipped
    Spec => []SentInOrder   Spec => []NonceUnique      Spec => []NoPanic
    Spec => []NonceFits

from `IInv == TypeOK /\ HandshakeInv /\ ReadyInv /\ OrderInv`.

`HandshakeInv` is needed because what the client has when it becomes active depends on a
message it sent long before. That a SessionDescription finds the session its key belongs to
follows from where messages are: the client handles one (`Pending`: it has arrived, waits
behind a Reconnected, or is the item) only if the gateway sent it, which did so after a
SelectProtocol (`Selecting`: in the slot or with the gateway), which the client put there
when IP discovery for the last Ready had ended, or which is left from an earlier connection;
such a one is too early for the gateway, unless it stands behind an Identify, and that
`SelectInv` excludes. `SessionInv` says so of every stage of the gateway, `UdpInv` that the
UDP connection has been made by then, `KeyInv` what it means for packets. A granted Resume
makes the gateway active without any of this, whence `~resumes`.

`ReadyInv`: one Ready is under way at most, and the session it grants is newer than any the
client has used. `OrderInv`: a packet in the UDP queue or on the wire was sent before all
that are not taken yet (`Sane`), its nonce lies below the session's, and between any two of
them both the number and, within a session, the nonce increase (`Earlier`). From both
follows that a Ready, which sets the nonce back, does so for a session without packets.

The steps are grouped: what a poll of the WebSocket, the gateway, and all others do to the
messages under way is stated once (`StreamEffect`, `NetworkEffect`, `QuietEffect`), and each
part of the invariant is proved against these.

The nonce of the code has 32 bits and a random start; that of the model is how often it was
incremented. `NonceInv` bounds it by the number of every packet that is still to be taken, from
which `NonceFits` follows (the nonce of a packet that leaves is less than its number), and
`NoncesDoNotWrap` draws the conclusion for the code: for every `width`, start and run in which at most `width` packets are sent in all, `start + nonce` modulo
`width` is different for any two packets of one key. (`Residues`: numbers that lie closer
together than `width` do not meet modulo `width`.)

`HandshakeProofs` proves `Spec => []CleanHandshake`. `CleanInv` is the history of a first
connection that nothing disturbs: nothing was lost, closed or resumed (`FirstConnection`); until
the gateway greets, the client has nothing to say (`Ungreeted`); then exactly one of the Hello and
its answer is under way, in one of four places (`Greeted`), with a heartbeat in the slot at most
once the answer has left; and after the Identify neither can
come again (`Granted`). The other way round, a step after which all is calm starts from a
state in which all was (`CalmBefore`).

`ClientStreamProofs` is about what the client does with its parts:

    Spec => []InTurn      Spec => UsesPacketQueues      Spec => []NoLostWakeup

Every action of the model that touches the WebSocket is an action of `GatewayStream` with guards
of its own, so that the client's stream is a `GatewayStream` by construction. Whether the
guards that come from `GatewayStream` hold the client up where the code would go on is not: they
say that a message is put into the slot, or the socket closed, only while no poll of it runs.
`UsesInTurn` shows that this is always so when the client or its owner calls (`InTurn`: outside of
the part `stream` no poll of the socket is under way), as `&mut self` demands. `UsesQueues`
shows that the UDP connections are used as `PacketQueue` has it, where `TypeOK` is enough.
`ClientIsWoken` follows the registrations through the poll (`WakeInv`): the send
interval's from the part `udp` on, the WebSocket's from its Pending to the end of the poll; a
connection that is not made has nothing in its inbox (`Unconnected`), or what waits there would
be slept over.

`AlgorithmProofs` proves the six properties of the algorithms for every list of modes, every
number of entries, every rate and every size. Sequences that are joined and cut are handled
by a few laws (`Cat`, `Before`, `After`) proved once.

Every invariant and every action property that a run checks is proved for all values of the
constants, `NoLostWakeup` of `VoiceWebSocket` for gateways that send known opcodes. Only
model-checked: liveness under fairness (the prover has no ENABLED), which are the ten
properties of `ws_liveness`, `udp` and `client_liveness` that are stated with `~>`; that the
refinements map fair behaviours to live ones is not stated either.

## Not modelled

* Time: intervals and dials take as long as they take, the back-off 2^attempts is left out.
  The runtime's cooperative budget. Latency lists, which nothing but accessors reads.
* The width of the sequence number and the timestamp, which wrap as RTP has it. The nonce
  counts without end in the model; `NoncesDoNotWrap` says what that means for its 32 bits, and
  what follows after 2^32 packets is outside the project.
* Contents of payloads, the RTP header, resampling, Opus and the ciphers: numeric code,
  mostly of libraries. Errors and benchmarks: formatting and measurements.
* The main loop of the example: it prints events.
* In `VoiceClient`, what `VoiceWebSocket` alone decides: whether a heartbeat is owed when its
  interval elapses (a zombied connection is a fault of the network there), messages that are
  neither text nor close, and opcodes nobody knows. The stream's promise says nothing of wakers: that a socket which answers Pending has registered is
  `NoLostWakeup` of `VoiceWebSocket`, and that the client is woken if it has is `NoLostWakeup`
  of `VoiceClient`.

## Plan

1. The end of a client as an action property and by proof: once it is fatally disconnected it
   stays so, whatever its owner still calls.
2. The flushes of one session: what a client's flush does promise (the packets already handed
   to the UDP connection), stated over `PacketQueue` and proved from `UsesPacketQueues`.
3. Liveness of the client with more kinds of fault at once, and with heartbeats.

--------------------------- MODULE MessageChannel ---------------------------
(***************************************************************************)
(* MessageChannel and VoiceClientSender of src/client/channel.rs: one      *)
(* channel of Opus packets and one of commands, both unbounded.  Any       *)
(* thread may hold a sender and use it while the client polls; the client  *)
(* takes packets and commands with poll_recv, whose Pending registers its  *)
(* waker.  Nothing orders the two channels among each other.               *)
(*                                                                         *)
(* Packets are numbered in the order they are sent, and the request to     *)
(* wait for a flush is the number of packets sent before it.  The receiver *)
(* lives as long as the client, so that no send fails.                     *)
(***************************************************************************)
EXTENDS Runtime, Naturals, Sequences

CONSTANTS
    MaxPackets,     \* how many packets are sent
    MaxCommands,    \* how many commands are sent
    Values          \* what speaking() is called with

ASSUME ChannelAssumption ==
    MaxPackets \in Nat /\ MaxCommands \in Nat /\ Values \subseteq BOOLEAN

VARIABLES
    opus,           \* packets that the client has not taken
    commands,       \* commands that the client has not taken
    sent_packets,   \* how many packets were sent
    sent_commands   \* how many commands were sent

channelVars == <<opus, commands, sent_packets, sent_commands>>

\* CommandMessage.
Speaking(value) == [kind |-> "Speaking", value |-> value, mark |-> 0]
WaitUntilFlushed(mark) == [kind |-> "WaitUntilFlushed", value |-> FALSE, mark |-> mark]

CommandMessage == [kind : {"Speaking", "WaitUntilFlushed"}, value : BOOLEAN,
                   mark : 0 .. MaxPackets]

ChannelType ==
    /\ opus \in Seq(1 .. MaxPackets)
    /\ commands \in Seq(CommandMessage)
    /\ sent_packets \in 0 .. MaxPackets
    /\ sent_commands \in 0 .. MaxCommands

ChannelInit == opus = <<>> /\ commands = <<>> /\ sent_packets = 0 /\ sent_commands = 0

------------------------------------------------------------------------------
(* A sender.                                                               *)

\* The queue with one more packet, and a mutant that puts it in front.
InFront(packet) == <<packet>> \o opus
Queued(packet) == Append(opus, packet)

send ==
    /\ sent_packets < MaxPackets
    /\ sent_packets' = sent_packets + 1
    /\ opus' = Queued(sent_packets')
    /\ Notify({"opus"})
    /\ UNCHANGED <<commands, sent_commands>>

Command(message) ==
    /\ sent_commands < MaxCommands
    /\ sent_commands' = sent_commands + 1
    /\ commands' = Append(commands, message)
    /\ Notify({"command"})
    /\ UNCHANGED <<opus, sent_packets>>

speaking_to(value) == Command(Speaking(value))

\* wait_until_flushed and wait_until_flushed_blocking; whoever called waits.
wait_until_flushed == Command(WaitUntilFlushed(sent_packets))

------------------------------------------------------------------------------
(* The client.                                                             *)

TakePacket ==
    /\ opus # <<>>
    /\ opus' = Tail(opus)
    /\ UNCHANGED <<commands, sent_packets, sent_commands>>

TakeCommand ==
    /\ commands # <<>>
    /\ commands' = Tail(commands)
    /\ UNCHANGED <<opus, sent_packets, sent_commands>>

DrainPackets ==
    /\ opus' = <<>>
    /\ UNCHANGED <<commands, sent_packets, sent_commands>>
=============================================================================

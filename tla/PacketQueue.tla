----------------------------- MODULE PacketQueue -----------------------------
(***************************************************************************)
(* What the voice client relies on when it hands its packets to VoiceUdp:  *)
(* while the socket is open they leave one by one in the order in which    *)
(* they were accepted, and who waits for the queue to be flushed is only   *)
(* answered while nothing is left in it.  A closed socket sends nothing;   *)
(* it may forget packets from the end of the queue and answers everybody.  *)
(***************************************************************************)
EXTENDS Naturals, Sequences

CONSTANTS
    Packets,        \* what is queued
    Requests        \* who waits for it to be sent

VARIABLES
    open,           \* there is a socket
    queue,          \* the packets not sent yet
    sent,           \* those sent, in the order they were
    waiting         \* the flush requests that have not been answered

vars == <<open, queue, sent, waiting>>

Init == ~open /\ queue = <<>> /\ sent = <<>> /\ waiting = {}

------------------------------------------------------------------------------
(* What the owner asks for.                                                *)

Accept(packet) == queue' = Append(queue, packet) /\ UNCHANGED <<open, sent, waiting>>

Ask(request) == waiting' = waiting \cup {request} /\ UNCHANGED <<open, queue, sent>>

Switch == open' \in BOOLEAN /\ UNCHANGED <<queue, sent, waiting>>

\* A new queue takes the place of this one; what this one held is lost.
Replace == open' /\ queue' = <<>> /\ waiting' = {} /\ UNCHANGED sent

------------------------------------------------------------------------------
(* What the queue does.                                                    *)

Emit ==
    /\ open /\ queue # <<>>
    /\ sent' = Append(sent, Head(queue))
    /\ queue' = Tail(queue)
    /\ UNCHANGED <<open, waiting>>

Answer == queue = <<>> /\ waiting' = {} /\ UNCHANGED <<open, queue, sent>>

Discard ==
    /\ ~open
    /\ \E kept \in 0 .. Len(queue) : queue' = SubSeq(queue, 1, kept)
    /\ waiting' = {}
    /\ UNCHANGED <<open, sent>>

Serve == Emit \/ Answer \/ Discard

Next ==
    \/ \E packet \in Packets : Accept(packet)
    \/ \E request \in Requests : Ask(request)
    \/ Switch \/ Serve

Spec == Init /\ [][Next]_vars
=============================================================================

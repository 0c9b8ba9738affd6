---------------------------- MODULE ExamplePlayer ----------------------------
(***************************************************************************)
(* audio::do_stuff of examples/usage.rs, the program's own way to cut a    *)
(* decoded track into Opus frames of 20 ms: each decoded packet yields one *)
(* frame, and what is left of it waits in the overflow buffer.  Samples    *)
(* are numbered in the order they are decoded.                             *)
(***************************************************************************)
EXTENDS Naturals, Sequences

CONSTANTS
    PacketSizes,    \* how many samples a packet decodes to
    samples_per_twenty_ms,
    MaxDecoded      \* how many samples the track has

ASSUME PlayerAssumption ==
    /\ PacketSizes \subseteq Nat
    /\ samples_per_twenty_ms \in Nat \ {0}
    /\ MaxDecoded \in Nat

VARIABLES
    playing,        \* "no", "yes", "panicked" or "ended"
    overflow_buffer,
    decoded,        \* the number of samples decoded
    cut,            \* the samples that were cut into frames
    sent            \* how many frames were sent

playerVars == <<playing, overflow_buffer, decoded, cut, sent>>

Decoded(count) == [i \in 1 .. count |-> decoded + i]

PlayerInit ==
    /\ playing = "no" /\ overflow_buffer = <<>> /\ decoded = 0 /\ cut = <<>> /\ sent = 0

------------------------------------------------------------------------------
speaking ==
    /\ playing = "no"
    /\ playing' = "yes"
    /\ UNCHANGED <<overflow_buffer, decoded, cut, sent>>

overflown_max_idx == IF Len(overflow_buffer) < samples_per_twenty_ms
                     THEN Len(overflow_buffer) ELSE samples_per_twenty_ms
filler_max_idx == samples_per_twenty_ms - overflown_max_idx

\* drain(..overflown_max_idx), and a mutant that forgets it.
Undrained == overflow_buffer
DrainedOverflow == SubSeq(overflow_buffer, overflown_max_idx + 1, Len(overflow_buffer))

\* A decoded packet: a slice out of its range panics; a frame that the resampler
\* does not return in full is skipped.  With an empty overflow buffer the two
\* branches of the code do the same.
Packet(size) ==
    /\ playing = "yes" /\ decoded + size <= MaxDecoded
    /\ size >= filler_max_idx
    /\ cut' = (cut \o SubSeq(overflow_buffer, 1, overflown_max_idx))
                 \o SubSeq(Decoded(size), 1, filler_max_idx)
    /\ overflow_buffer' = DrainedOverflow \o SubSeq(Decoded(size), filler_max_idx + 1, size)
    /\ decoded' = decoded + size
    /\ sent' \in {sent, sent + 1}
    /\ UNCHANGED playing

PacketTooShort(size) ==
    /\ playing = "yes" /\ size < filler_max_idx
    /\ playing' = "panicked"
    /\ UNCHANGED <<overflow_buffer, decoded, cut, sent>>

\* The track ends, and what is in the overflow buffer is not sent.
Finish ==
    /\ playing = "yes"
    /\ playing' = "ended"
    /\ UNCHANGED <<overflow_buffer, decoded, cut, sent>>

PlayerNext ==
    \/ speaking
    \/ \E size \in PacketSizes : Packet(size) \/ PacketTooShort(size)
    \/ Finish

PlayerSpec == PlayerInit /\ [][PlayerNext]_playerVars

------------------------------------------------------------------------------
\* The frames are the track from its beginning, without a gap or a repetition, and
\* what they do not yet have is in the overflow buffer.
CutInOrder == cut \o overflow_buffer = [i \in 1 .. decoded |-> i]
=============================================================================

--------------------------- MODULE AudioProcessor ---------------------------
(***************************************************************************)
(* AudioProcessor of src/stream/resampler.rs: interleaved samples are      *)
(* pushed in portions of any length and taken out as stereo frames of one  *)
(* Opus tick (20 ms).  Samples are numbered in the order they are pushed.  *)
(***************************************************************************)
EXTENDS Integers, Sequences

CONSTANTS
    SampleRates,    \* in Hz
    ChannelCounts,
    MaxSamples      \* how many samples are pushed

ASSUME ProcessorAssumption ==
    /\ SampleRates \subseteq Nat \ {0}
    /\ ChannelCounts \subseteq Nat \ {0}
    /\ MaxSamples \in Nat

VARIABLES
    channels, sample_rate, buffer,
    pushed,         \* the number of samples pushed
    heard,          \* the samples that were taken out as part of a frame
    left, right     \* the frames' two channels

processorVars == <<channels, sample_rate, buffer, pushed, heard, left, right>>

Silence == 0

Numbered(first, count) == [i \in 1 .. count |-> first + i]

ProcessorInit ==
    /\ channels \in ChannelCounts /\ sample_rate \in SampleRates
    /\ buffer = <<>> /\ pushed = 0
    /\ heard = <<>> /\ left = <<>> /\ right = <<>>

------------------------------------------------------------------------------
\* (sample_rate * 0.02).ceil() * channels.  Mutant: the channels share the tick.
SharedTick == (sample_rate + 49) \div 50
samples_per_opus_tick == ((sample_rate + 49) \div 50) * channels

\* A decoder hands over as many samples of one channel as of any other.
push(count) ==
    /\ pushed + count * channels <= MaxSamples
    /\ buffer' = buffer \o Numbered(pushed, count * channels)
    /\ pushed' = pushed + count * channels
    /\ UNCHANGED <<channels, sample_rate, heard, left, right>>

\* How many samples go into the next frame.
Drained == IF Len(buffer) >= samples_per_opus_tick THEN samples_per_opus_tick
           ELSE Len(buffer)

\* Mutant: what the frame has no room for is dropped with what it takes.
DropRest == <<>>
Rest == SubSeq(buffer, Drained + 1, Len(buffer))

\* Padded with silence up to the tick.
Interleaved == [i \in 1 .. samples_per_opus_tick |->
    IF i <= Drained THEN buffer[i] ELSE Silence]

EverySecond(from) == [i \in 1 .. samples_per_opus_tick \div 2 |-> Interleaved[2 * i - from]]

next_stereo_frame ==
    /\ buffer # <<>>
    /\ buffer' = Rest
    /\ heard' = IF channels > 2 THEN heard ELSE heard \o SubSeq(buffer, 1, Drained)
    /\ left' = left \o (CASE channels = 2 -> EverySecond(1)
                          [] channels = 1 -> Interleaved
                          [] OTHER -> <<>>)
    /\ right' = right \o (CASE channels = 2 -> EverySecond(0)
                            [] channels = 1 -> Interleaved
                            [] OTHER -> <<>>)
    /\ UNCHANGED <<channels, sample_rate, pushed>>

ProcessorNext == (\E count \in 1 .. MaxSamples : push(count)) \/ next_stereo_frame

ProcessorSpec == ProcessorInit /\ [][ProcessorNext]_processorVars

------------------------------------------------------------------------------
\* No sample of a mono or stereo track is lost, repeated or overtaken.
NothingLost == channels <= 2 => heard \o buffer = Numbered(0, pushed)

\* However the samples are portioned, and after a frame that was filled up with
\* silence as well, the two channels of a stereo track do not get mixed up.
ChannelsKept ==
    channels = 2 =>
        /\ Len(left) = Len(right)
        /\ \A i \in DOMAIN left :
              \/ left[i] = Silence /\ right[i] = Silence
              \/ left[i] % 2 = 1 /\ right[i] = left[i] + 1
=============================================================================

-------------------------- MODULE AlgorithmProofs --------------------------
(***************************************************************************)
(* The sequential algorithms for every value of their constants: any list  *)
(* of modes, any JSON object, any sample rate, any portions and packets.   *)
(***************************************************************************)
EXTENDS EncryptMode, Payload, AudioProcessor, ExamplePlayer, SequenceTheorems, TLAPS

------------------------------------------------------------------------------
(* EncryptMode: the best mode is one of the supported ones, and what is    *)
(* known of it depends on how far the handshake is.                        *)

ModeInv ==
    /\ offers \in Seq(Names)
    /\ best \in EncryptModes \cup {NoMode}
    /\ phase = "negotiated" => best # NoMode
    /\ NegotiatesBest
    /\ EncryptsAsDescribed

\* One more offer: the best mode stays the best.
LEMMA OfferBest ==
    ASSUME ModeInv, NEW name \in Names, Offer(name)
    PROVE  ModeInv'
  <1>1. /\ phase = "negotiating" /\ phase' = "negotiating"
        /\ offers' = Append(offers, name)
        /\ best' = IF from_str(name) # NoMode /\ Accepts(from_str(name)) THEN from_str(name)
                   ELSE best
    BY DEF Offer
  <1>2. /\ offers \in Seq(Names) /\ offers' \in Seq(Names)
        /\ Len(offers') = Len(offers) + 1 /\ Len(offers) \in Nat
        /\ DOMAIN offers = 1 .. Len(offers) /\ DOMAIN offers' = 1 .. Len(offers')
        /\ offers'[Len(offers')] = name
        /\ \A i \in DOMAIN offers : offers'[i] = offers[i]
    BY <1>1, AppendProperties DEF ModeInv
  <1>3. best' \in EncryptModes \cup {NoMode}
    BY <1>1 DEF ModeInv, from_str, EncryptModes, NoMode
  <1>4. NegotiatesBest'
    <2>1. ASSUME best' # NoMode
          PROVE  \E i \in DOMAIN offers' : from_str(offers'[i]) = best'
      <3>1. CASE best' = from_str(name)
        BY <1>2, <3>1
      <3>2. CASE best' = best
        <4>1. PICK i \in DOMAIN offers : from_str(offers[i]) = best
          BY <1>1, <2>1, <3>2 DEF ModeInv, NegotiatesBest
        <4>. QED
          BY <1>2, <3>2, <4>1
      <3>. QED
        BY <1>1, <3>1, <3>2
    <2>2. ASSUME NEW i \in DOMAIN offers', from_str(offers'[i]) # NoMode
          PROVE  best' # NoMode /\ priority(best') >= priority(from_str(offers'[i]))
      <3>1. \A mode : priority(mode) \in {0, 1}
        BY DEF priority
      <3>2. CASE i = Len(offers')
        BY <1>1, <1>2, <2>2, <3>1, <3>2 DEF Accepts
      <3>3. CASE i \in DOMAIN offers
        <4>1. best # NoMode /\ priority(best) >= priority(from_str(offers[i]))
          BY <1>1, <1>2, <2>2, <3>3 DEF ModeInv, NegotiatesBest
        <4>. QED
          BY <1>1, <1>2, <3>1, <3>3, <4>1 DEF Accepts
      <3>. QED
        BY <1>2, <3>2, <3>3
    <2>. QED
      BY <2>1, <2>2 DEF NegotiatesBest
  <1>. QED
    BY <1>1, <1>2, <1>3, <1>4 DEF ModeInv, EncryptsAsDescribed

\* negotiate() and the description leave what they do not ask for.
LEMMA ModeSettles ==
    ASSUME ModeInv, negotiate \/ (\E name \in Names : Describe(name))
    PROVE  ModeInv'
  <1>1. CASE negotiate
    BY <1>1 DEF negotiate, ModeInv, NegotiatesBest, EncryptsAsDescribed
  <1>2. ASSUME NEW name \in Names, Describe(name)
        PROVE  ModeInv'
    <2>1. best \in EncryptModes /\ UNCHANGED offers /\ described' = name
          /\ phase' \in {"described", "failed"}
      BY <1>2 DEF Describe, ModeInv
    <2>2. from_str(to_request_str[best]) = best
      BY <2>1 DEF from_str, to_request_str, EncryptModes
    <2>3. best' \in EncryptModes
      BY <1>2, <2>1 DEF Describe, ModeDescribed, from_str, EncryptModes, NoMode
    <2>4. phase' = "described" => best' = from_str(name)
      BY <1>2, <2>2 DEF Describe, ModeDescribed
    <2>5. best' # NoMode /\ nonce_size(best') = NONCE_LEN(best')
      BY <2>3 DEF EncryptModes, NoMode, nonce_size, NONCE_LEN
    <2>. QED
      BY <2>1, <2>3, <2>4, <2>5 DEF ModeInv, NegotiatesBest, EncryptsAsDescribed
  <1>. QED
    BY <1>1, <1>2

LEMMA ModeInductive == ModeSpec => []ModeInv
  <1>1. ModeInit => ModeInv
    BY EmptySeq DEF ModeInit, ModeInv, NegotiatesBest, EncryptsAsDescribed, NoMode
  <1>2. ModeInv /\ [ModeNext]_modeVars => ModeInv'
    <2>1. ASSUME ModeInv, UNCHANGED modeVars
          PROVE  ModeInv'
      BY <2>1 DEF modeVars, ModeInv, NegotiatesBest, EncryptsAsDescribed
    <2>. QED
      BY <2>1, OfferBest, ModeSettles DEF ModeNext
  <1>. QED
    BY <1>1, <1>2, PTL DEF ModeSpec

\* negotiate() returns the supported mode of the highest priority, for every list.
THEOREM NegotiatesTheBest == ModeSpec => []NegotiatesBest
  <1>1. ModeInv => NegotiatesBest
    BY DEF ModeInv
  <1>. QED
    BY <1>1, ModeInductive, PTL

\* The mode that encrypts is the one the gateway has described, and its nonces fit.
THEOREM EncryptsAsTheGatewaySays == ModeSpec => []EncryptsAsDescribed
  <1>1. ModeInv => EncryptsAsDescribed
    BY DEF ModeInv
  <1>. QED
    BY <1>1, ModeInductive, PTL

------------------------------------------------------------------------------
(* Payload: how far the visitor is says what it has found.                 *)

Entries == [key : Fields, value : Values]

PayloadInv ==
    /\ entries \in Seq(Entries)
    /\ reading \in {"nothing", "field", "ignore_all", "event", "error"}
    /\ reading = "nothing" => entries = <<>> /\ found = "None"
    /\ reading = "ignore_all" => op \in WithoutData
    /\ reading = "field" =>
          /\ op \in Opcodes \ Outgoing
          /\ found = "None" => Data = {}
          /\ \A i \in Data : entries[i].value # "bad"
          /\ found # "None" =>
                \E i \in Data : entries[i].value = found /\ \A j \in Data : j <= i
    /\ EventRight

LEMMA NothingRead ==
    ASSUME entries = <<>>
    PROVE  entries \in Seq(Entries) /\ Data = {}
  BY EmptySeq DEF Data

\* One more entry: the last "d" is the one found.
LEMMA EntryRead ==
    ASSUME PayloadInv, NEW key \in Fields, NEW value \in Values, Entry(key, value)
    PROVE  PayloadInv'
  <1>. DEFINE entry == [key |-> key, value |-> value]
  <1>1. /\ reading \in {"field", "ignore_all"} /\ UNCHANGED op
        /\ entries' = Append(entries, entry) /\ entry \in Entries
    BY DEF Entry, Entries
  <1>2. /\ entries \in Seq(Entries) /\ entries' \in Seq(Entries)
        /\ Len(entries') = Len(entries) + 1 /\ Len(entries) \in Nat
        /\ DOMAIN entries = 1 .. Len(entries) /\ DOMAIN entries' = 1 .. Len(entries')
        /\ entries'[Len(entries')] = entry
        /\ \A i \in DOMAIN entries : entries'[i] = entries[i]
    BY <1>1, AppendProperties DEF PayloadInv
  <1>3. CASE reading = "ignore_all"
    BY <1>1, <1>2, <1>3 DEF Entry, PayloadInv, EventRight
  <1>4. CASE reading = "field" /\ key # "d"
    <2>1. Data' = Data /\ Data \subseteq DOMAIN entries
      BY <1>2, <1>4 DEF Data
    <2>2. UNCHANGED <<reading, found>>
      BY <1>4 DEF Entry
    <2>. QED
      BY <1>1, <1>2, <1>4, <2>1, <2>2 DEF PayloadInv, EventRight
  <1>5. CASE reading = "field" /\ key = "d" /\ value = "bad"
    BY <1>1, <1>2, <1>5 DEF Entry, PayloadInv, EventRight
  <1>6. CASE reading = "field" /\ key = "d" /\ value # "bad"
    <2>1. UNCHANGED reading /\ found' = value /\ value # "None"
      BY <1>6 DEF Entry, NewFound, Values
    <2>2. Data' = Data \cup {Len(entries')} /\ Data \subseteq DOMAIN entries
      BY <1>2, <1>6 DEF Data
    <2>3. \A i \in Data' : i <= Len(entries')
      BY <1>2, <2>2
    <2>4. \A i \in Data' : entries'[i].value # "bad"
      BY <1>2, <1>6, <2>2 DEF PayloadInv
    <2>5. entries'[Len(entries')].value = found'
      BY <1>2, <2>1
    <2>. QED
      BY <1>1, <1>2, <1>6, <2>1, <2>2, <2>3, <2>4, <2>5 DEF PayloadInv, EventRight
  <1>. QED
    BY <1>1, <1>3, <1>4, <1>5, <1>6

\* The visitor's beginning and end.
LEMMA VisitorSteps ==
    ASSUME PayloadInv, End \/ (\E code \in 0 .. 15 : visit_map(code))
    PROVE  PayloadInv'
  <1>1. UNCHANGED <<found, entries>> /\ Data' = Data
    BY DEF End, visit_map, Data
  <1>2. CASE End
    BY <1>1, <1>2
       DEF End, PayloadInv, EventRight, WithoutData, Opcodes, Outgoing
  <1>3. ASSUME NEW code \in 0 .. 15, visit_map(code)
        PROVE  PayloadInv'
    <2>1. Data = {}
      BY <1>3, NothingRead DEF visit_map, PayloadInv
    <2>. QED
      BY <1>1, <1>3, <2>1 DEF visit_map, PayloadInv, EventRight
  <1>. QED
    BY <1>2, <1>3

\* Whatever the entries of a message are and however they are ordered, its event is
\* what the opcode says with the last "d", or an error.
THEOREM ReadsTheEvent == PayloadSpec => []EventRight
  <1>1. PayloadInit => PayloadInv
    BY NothingRead DEF PayloadInit, PayloadInv, EventRight
  <1>2. PayloadInv /\ [PayloadNext]_payloadVars => PayloadInv'
    <2>1. ASSUME PayloadInv, UNCHANGED payloadVars
          PROVE  PayloadInv'
      BY <2>1 DEF payloadVars, PayloadInv, EventRight, Data
    <2>. QED
      BY <2>1, EntryRead, VisitorSteps DEF PayloadNext
  <1>3. PayloadInv => EventRight
    BY DEF PayloadInv
  <1>. QED
    BY <1>1, <1>2, <1>3, PTL DEF PayloadSpec

------------------------------------------------------------------------------
(* Sequences of numbered samples.                                          *)

\* A sequence is its first k elements and the rest.
LEMMA Cut ==
    ASSUME NEW S, NEW s \in Seq(S), NEW k \in 0 .. Len(s)
    PROVE  /\ SubSeq(s, 1, k) \in Seq(S) /\ SubSeq(s, k + 1, Len(s)) \in Seq(S)
           /\ Len(SubSeq(s, 1, k)) = k /\ Len(SubSeq(s, k + 1, Len(s))) = Len(s) - k
           /\ SubSeq(s, 1, k) \o SubSeq(s, k + 1, Len(s)) = s
  <1>1. Len(s) \in Nat /\ \A i \in 1 .. Len(s) : s[i] \in S
    BY LenProperties
  <1>2. /\ SubSeq(s, 1, k) \in Seq(S)
        /\ Len(SubSeq(s, 1, k)) = IF 1 <= k THEN k - 1 + 1 ELSE 0
    BY <1>1, SubSeqProperties
  <1>3. /\ SubSeq(s, k + 1, Len(s)) \in Seq(S)
        /\ Len(SubSeq(s, k + 1, Len(s))) = IF k + 1 <= Len(s) THEN Len(s) - (k + 1) + 1 ELSE 0
    BY <1>1, SubSeqProperties
  <1>4. SubSeq(s, 1, k) \o SubSeq(s, k + 1, Len(s)) = SubSeq(s, 1, Len(s))
    <2>1. 1 \in 1 .. Len(s) + 1 /\ k \in 1 - 1 .. Len(s) /\ Len(s) \in k .. Len(s)
      BY <1>1
    <2>. QED
      BY <2>1, ConcatAdjacentSubSeq, Zenon
  <1>5. SubSeq(s, 1, Len(s)) = s
    BY SubSeqFull
  <1>6. Len(SubSeq(s, 1, k)) = k /\ Len(SubSeq(s, k + 1, Len(s))) = Len(s) - k
    BY <1>1, <1>2, <1>3
  <1>. QED
    BY <1>2, <1>3, <1>4, <1>5, <1>6, Zenon

LEMMA Assoc ==
    ASSUME NEW a \in Seq(Nat), NEW b \in Seq(Nat), NEW c \in Seq(Nat)
    PROVE  (a \o b) \o c = a \o (b \o c)
  BY ConcatAssociative

LEMMA NumberedType ==
    ASSUME NEW first \in Nat, NEW count \in Nat
    PROVE  /\ Numbered(first, count) \in Seq(Nat)
           /\ Len(Numbered(first, count)) = count
           /\ \A i \in 1 .. count : Numbered(first, count)[i] = first + i
  <1>. DEFINE s == [i \in 1 .. count |-> first + i]
  <1>1. s \in [1 .. count -> Nat]
    OBVIOUS
  <1>2. s \in Seq(Nat)
    BY <1>1, SeqDef
  <1>3. DOMAIN s = 1 .. count /\ \A i \in 1 .. count : s[i] = first + i
    OBVIOUS
  <1>. HIDE DEF s
  <1>4. Len(s) = count
    BY <1>2, <1>3, LenProperties
  <1>. QED
    BY <1>2, <1>3, <1>4 DEF Numbered, s

\* What is pushed next continues what was pushed before.
LEMMA NumberedFurther ==
    ASSUME NEW n \in Nat, NEW count \in Nat
    PROVE  Numbered(0, n) \o Numbered(n, count) = Numbered(0, n + count)
  <1>. DEFINE s == Numbered(0, n)  t == Numbered(n, count)  u == Numbered(0, n + count)
  <1>1. s \in Seq(Nat) /\ Len(s) = n /\ \A i \in 1 .. n : s[i] = 0 + i
    BY NumberedType, Zenon
  <1>2. t \in Seq(Nat) /\ Len(t) = count /\ \A i \in 1 .. count : t[i] = n + i
    BY NumberedType, Zenon
  <1>3. n + count \in Nat
    OBVIOUS
  <1>4. u \in Seq(Nat) /\ Len(u) = n + count /\ \A i \in 1 .. n + count : u[i] = 0 + i
    BY <1>3, NumberedType, Zenon
  <1>. HIDE DEF s, t, u
  <1>5. /\ s \o t \in Seq(Nat) /\ Len(s \o t) = n + count
        /\ \A i \in 1 .. n + count : (s \o t)[i] = IF i <= n THEN s[i] ELSE t[i - n]
    BY <1>1, <1>2, ConcatProperties
  <1>6. ASSUME NEW i \in 1 .. n + count
        PROVE  (s \o t)[i] = u[i]
    <2>1. CASE i <= n
      BY <1>1, <1>4, <1>5, <2>1
    <2>2. CASE i > n
      <3>1. i - n \in 1 .. count
        BY <2>2
      <3>. QED
        BY <1>2, <1>4, <1>5, <2>2, <3>1
    <2>3. i <= n \/ i > n
      OBVIOUS
    <2>. QED
      BY <2>1, <2>2, <2>3, Zenon
  <1>7. s \o t = u
    BY <1>4, <1>5, <1>6, SeqEqual
  <1>. QED
    BY <1>7 DEF s, t, u

------------------------------------------------------------------------------
(* AudioProcessor: what was taken out and what is left is what was pushed. *)

ProcessorInv ==
    /\ channels \in Nat \ {0} /\ sample_rate \in Nat \ {0}
    /\ buffer \in Seq(Nat) /\ heard \in Seq(Nat) /\ pushed \in Nat
    /\ NothingLost

LEMMA TickType ==
    ASSUME channels \in Nat \ {0}, sample_rate \in Nat \ {0}
    PROVE  samples_per_opus_tick \in Nat \ {0}
  <1>. DEFINE tick == (sample_rate + 49) \div 50
  <1>1. tick \in Nat \ {0}
    OBVIOUS
  <1>. HIDE DEF tick
  <1>2. tick * channels \in Nat \ {0}
    BY <1>1
  <1>. QED
    BY <1>2 DEF samples_per_opus_tick, tick

LEMMA PushKeeps ==
    ASSUME ProcessorInv, NEW count \in 1 .. MaxSamples, push(count)
    PROVE  ProcessorInv'
  <1>. DEFINE n == count * channels
  <1>1. n \in Nat
    BY ProcessorAssumption DEF ProcessorInv
  <1>. HIDE DEF n
  <1>2. /\ buffer' = buffer \o Numbered(pushed, n) /\ pushed' = pushed + n
        /\ UNCHANGED <<channels, sample_rate, heard>>
    BY DEF push, n
  <1>3. Numbered(pushed, n) \in Seq(Nat)
    BY <1>1, NumberedType DEF ProcessorInv
  <1>4. buffer' \in Seq(Nat) /\ pushed' \in Nat
    BY <1>1, <1>2, <1>3, ConcatProperties DEF ProcessorInv
  <1>5. ASSUME channels <= 2
        PROVE  heard' \o buffer' = Numbered(0, pushed')
    <2>1. heard \o buffer' = (heard \o buffer) \o Numbered(pushed, n)
      <3>. DEFINE more == Numbered(pushed, n)
      <3>1. heard \in Seq(Nat) /\ buffer \in Seq(Nat) /\ more \in Seq(Nat)
        BY <1>3 DEF ProcessorInv
      <3>2. buffer' = buffer \o more
        BY <1>2
      <3>. HIDE DEF more
      <3>3. (heard \o buffer) \o more = heard \o (buffer \o more)
        BY <3>1, Assoc
      <3>. QED
        BY <3>2, <3>3 DEF more
    <2>2. heard \o buffer = Numbered(0, pushed)
      BY <1>5 DEF ProcessorInv, NothingLost
    <2>3. Numbered(0, pushed) \o Numbered(pushed, n) = Numbered(0, pushed + n)
      BY <1>1, NumberedFurther DEF ProcessorInv
    <2>. QED
      BY <1>2, <2>1, <2>2, <2>3
  <1>. QED
    BY <1>2, <1>4, <1>5 DEF ProcessorInv, NothingLost

LEMMA FrameKeeps ==
    ASSUME ProcessorInv, next_stereo_frame
    PROVE  ProcessorInv'
  <1>1. Drained \in 0 .. Len(buffer)
    BY TickType, LenProperties DEF ProcessorInv, Drained
  <1>2. /\ buffer' = SubSeq(buffer, Drained + 1, Len(buffer))
        /\ heard' = IF channels > 2 THEN heard ELSE heard \o SubSeq(buffer, 1, Drained)
        /\ UNCHANGED <<channels, sample_rate, pushed>>
    BY DEF next_stereo_frame, Rest
  <1>3. /\ SubSeq(buffer, 1, Drained) \in Seq(Nat) /\ buffer' \in Seq(Nat)
        /\ SubSeq(buffer, 1, Drained) \o buffer' = buffer
    BY <1>1, <1>2, Cut DEF ProcessorInv
  <1>4. heard' \in Seq(Nat)
    BY <1>2, <1>3, ConcatProperties DEF ProcessorInv
  <1>5. ASSUME channels <= 2
        PROVE  heard' \o buffer' = Numbered(0, pushed')
    <2>. DEFINE frame == SubSeq(buffer, 1, Drained)
                rest == buffer'
    <2>1. heard' = heard \o frame
      <3>1. ~ (channels > 2)
        BY <1>5 DEF ProcessorInv
      <3>. QED
        BY <1>2, <3>1, Zenon
    <2>2. heard \in Seq(Nat) /\ frame \in Seq(Nat) /\ rest \in Seq(Nat)
      BY <1>3 DEF ProcessorInv
    <2>3. frame \o rest = buffer
      BY <1>3
    <2>. HIDE DEF frame, rest
    <2>4. (heard \o frame) \o rest = heard \o (frame \o rest)
      BY <2>2, Assoc
    <2>5. heard \o buffer = Numbered(0, pushed)
      BY <1>5 DEF ProcessorInv, NothingLost
    <2>6. heard' \o rest = Numbered(0, pushed)
      BY <2>1, <2>3, <2>4, <2>5
    <2>. QED
      BY <1>2, <2>6 DEF rest
  <1>. QED
    BY <1>2, <1>3, <1>4, <1>5 DEF ProcessorInv, NothingLost

\* However the samples of a mono or stereo track are portioned, the frames and the
\* buffer hold them all, once and in order.
THEOREM LosesNothing == ProcessorSpec => []NothingLost
  <1>1. ProcessorInit => ProcessorInv
    <2>1. <<>> \in Seq(Nat) /\ <<>> \o <<>> = <<>>
      BY EmptySeq, ConcatEmptySeq
    <2>2. Numbered(0, 0) = <<>>
      BY NumberedType, EmptySeq
    <2>. QED
      BY <2>1, <2>2, ProcessorAssumption DEF ProcessorInit, ProcessorInv, NothingLost
  <1>2. ProcessorInv /\ [ProcessorNext]_processorVars => ProcessorInv'
    <2>1. ASSUME ProcessorInv, UNCHANGED processorVars
          PROVE  ProcessorInv'
      BY <2>1 DEF processorVars, ProcessorInv, NothingLost
    <2>. QED
      BY <2>1, PushKeeps, FrameKeeps DEF ProcessorNext
  <1>3. ProcessorInv => NothingLost
    BY DEF ProcessorInv
  <1>. QED
    BY <1>1, <1>2, <1>3, PTL DEF ProcessorSpec

------------------------------------------------------------------------------
(* ... and the channels of a stereo track stay apart, because frames take  *)
(* an even number of samples.                                              *)

Even(n) == \E half \in Nat : n = 2 * half

LEMMA EvenSum ==
    ASSUME NEW a \in Nat, NEW b \in Nat, Even(a)
    PROVE  Even(b) <=> Even(a + b)
  <1>1. PICK m \in Nat : a = 2 * m
    BY DEF Even
  <1>2. ASSUME NEW n \in Nat, b = 2 * n
        PROVE  Even(a + b)
    <2>1. a + b = 2 * (m + n) /\ m + n \in Nat
      BY <1>1, <1>2
    <2>. QED
      BY <2>1 DEF Even
  <1>3. ASSUME NEW n \in Nat, a + b = 2 * n
        PROVE  Even(b)
    <2>1. b = 2 * (n - m) /\ n - m \in Nat
      BY <1>1, <1>3
    <2>. QED
      BY <2>1 DEF Even
  <1>. QED
    BY <1>2, <1>3 DEF Even

\* What ChannelsKept says of one pair.
Pair(l, r) == (l = Silence /\ r = Silence) \/ (l % 2 = 1 /\ r = l + 1)

StereoInv ==
    channels = 2 =>
        /\ Even(pushed) /\ Even(Len(heard))
        /\ left \in Seq(Nat) /\ right \in Seq(Nat)
        /\ Len(left) = Len(right)
        /\ \A i \in 1 .. Len(left) : Pair(left[i], right[i])

\* A buffer's sample is known by its place.
LEMMA BufferedSample ==
    ASSUME ProcessorInv, channels = 2
    PROVE  /\ Len(heard) \in Nat /\ Len(buffer) \in Nat
           /\ Len(heard) + Len(buffer) = pushed
           /\ \A j \in 1 .. Len(buffer) : buffer[j] = Len(heard) + j
  <1>1. heard \in Seq(Nat) /\ buffer \in Seq(Nat) /\ pushed \in Nat
    BY DEF ProcessorInv
  <1>2. Len(heard) \in Nat /\ Len(buffer) \in Nat
    BY <1>1, LenProperties
  <1>3. heard \o buffer = Numbered(0, pushed)
    BY DEF ProcessorInv, NothingLost
  <1>4. /\ Len(heard \o buffer) = pushed
        /\ \A i \in 1 .. pushed : (heard \o buffer)[i] = 0 + i
    BY <1>1, <1>3, NumberedType, Zenon
  <1>5. /\ Len(heard \o buffer) = Len(heard) + Len(buffer)
        /\ \A i \in 1 .. Len(heard) + Len(buffer) :
              (heard \o buffer)[i] = IF i <= Len(heard) THEN heard[i] ELSE buffer[i - Len(heard)]
    BY <1>1, ConcatProperties
  <1>6. ASSUME NEW j \in 1 .. Len(buffer)
        PROVE  buffer[j] = Len(heard) + j
    <2>. DEFINE i == Len(heard) + j
    <2>1. i \in 1 .. pushed /\ ~ (i <= Len(heard)) /\ i - Len(heard) = j
      BY <1>2, <1>4, <1>5
    <2>. HIDE DEF i
    <2>2. (heard \o buffer)[i] = buffer[j] /\ (heard \o buffer)[i] = 0 + i
      BY <1>4, <1>5, <2>1
    <2>. QED
      BY <1>2, <2>1, <2>2 DEF i
  <1>. QED
    BY <1>2, <1>4, <1>5, <1>6

\* The two halves of a frame.
LEMMA FrameOfPairs ==
    ASSUME ProcessorInv, StereoInv, channels = 2
    PROVE  /\ Even(Drained)
           /\ EverySecond(1) \in Seq(Nat) /\ EverySecond(0) \in Seq(Nat)
           /\ Len(EverySecond(1)) = Len(EverySecond(0))
           /\ \A i \in 1 .. Len(EverySecond(1)) : Pair(EverySecond(1)[i], EverySecond(0)[i])
  <1>. DEFINE tick == samples_per_opus_tick
              n == tick \div 2
  <1>1. tick \in Nat \ {0} /\ Even(tick)
    <2>. DEFINE t == (sample_rate + 49) \div 50
    <2>1. t \in Nat
      BY DEF ProcessorInv
    <2>2. tick = t * channels
      BY DEF samples_per_opus_tick
    <2>. HIDE DEF t
    <2>3. tick = 2 * t
      BY <2>1, <2>2
    <2>4. tick \in Nat \ {0}
      BY TickType DEF ProcessorInv
    <2>. QED
      BY <2>1, <2>3, <2>4 DEF Even
  <1>. HIDE DEF tick
  <1>2. n \in Nat /\ tick = 2 * n
    BY <1>1 DEF Even
  <1>. HIDE DEF n
  <1>3. /\ Len(heard) \in Nat /\ Len(buffer) \in Nat
        /\ Len(heard) + Len(buffer) = pushed
        /\ \A j \in 1 .. Len(buffer) : buffer[j] = Len(heard) + j
    BY BufferedSample
  <1>4. Even(Len(buffer)) /\ Even(Len(heard))
    <2>1. Even(Len(heard)) /\ Even(Len(heard) + Len(buffer))
      BY <1>3 DEF StereoInv
    <2>. QED
      BY <1>3, <2>1, EvenSum
  <1>5. Even(Drained) /\ Drained \in Nat /\ Drained <= Len(buffer) /\ Drained <= tick
    BY <1>1, <1>3, <1>4 DEF Drained, tick
  <1>6. \A j \in 1 .. tick : Interleaved[j] = IF j <= Drained THEN buffer[j] ELSE Silence
    BY DEF Interleaved, tick
  <1>7. ASSUME NEW i \in 1 .. n
        PROVE  /\ Interleaved[2 * i - 1] \in Nat /\ Interleaved[2 * i - 0] \in Nat
               /\ Pair(Interleaved[2 * i - 1], Interleaved[2 * i - 0])
    <2>1. 2 * i - 1 \in 1 .. tick /\ 2 * i - 0 \in 1 .. tick
      BY <1>2
    <2>2. CASE 2 * i <= Drained
      <3>1. 2 * i - 1 \in 1 .. Len(buffer) /\ 2 * i - 0 \in 1 .. Len(buffer)
        BY <1>3, <1>5, <2>2
      <3>2. /\ Interleaved[2 * i - 1] = buffer[2 * i - 1]
            /\ Interleaved[2 * i - 0] = buffer[2 * i - 0]
        BY <1>5, <1>6, <2>1, <2>2
      <3>3. /\ Interleaved[2 * i - 1] = Len(heard) + (2 * i - 1)
            /\ Interleaved[2 * i - 0] = Len(heard) + (2 * i - 0)
        BY <1>3, <3>1, <3>2
      <3>4. PICK half \in Nat : Len(heard) = 2 * half
        BY <1>4 DEF Even
      <3>. QED
        BY <3>3, <3>4 DEF Pair
    <2>3. CASE ~ (2 * i <= Drained)
      <3>1. ~ (2 * i - 1 <= Drained) /\ ~ (2 * i - 0 <= Drained)
        BY <1>5, <2>3 DEF Even
      <3>. QED
        BY <1>6, <2>1, <3>1 DEF Pair, Silence
    <2>. QED
      BY <2>2, <2>3
  <1>8. ASSUME NEW from \in {0, 1}
        PROVE  /\ EverySecond(from) \in Seq(Nat) /\ Len(EverySecond(from)) = n
               /\ \A i \in 1 .. n : EverySecond(from)[i] = Interleaved[2 * i - from]
    <2>. DEFINE e == EverySecond(from)
    <2>1. e = [i \in 1 .. n |-> Interleaved[2 * i - from]]
      BY DEF EverySecond, n, tick
    <2>. HIDE DEF e
    <2>2. \A i \in 1 .. n : Interleaved[2 * i - from] \in Nat
      BY <1>7
    <2>3. e \in [1 .. n -> Nat] /\ DOMAIN e = 1 .. n
      BY <2>1, <2>2
    <2>4. e \in Seq(Nat)
      BY <1>2, <2>3, SeqDef
    <2>5. Len(e) = n
      BY <1>2, <2>3, <2>4, LenProperties
    <2>. QED
      BY <2>1, <2>4, <2>5 DEF e
  <1>. QED
    BY <1>5, <1>7, <1>8

LEMMA FramesKeepPairs ==
    ASSUME ProcessorInv, StereoInv, channels = 2, next_stereo_frame
    PROVE  StereoInv'
  <1>. DEFINE l == EverySecond(1)  r == EverySecond(0)
  <1>1. /\ left' = left \o l /\ right' = right \o r
        /\ heard' = heard \o SubSeq(buffer, 1, Drained)
        /\ UNCHANGED <<channels, pushed>>
    BY DEF next_stereo_frame
  <1>2. /\ Even(Drained) /\ l \in Seq(Nat) /\ r \in Seq(Nat) /\ Len(l) = Len(r)
        /\ \A i \in 1 .. Len(l) : Pair(l[i], r[i])
    BY FrameOfPairs
  <1>. HIDE DEF l, r
  <1>3. /\ left \in Seq(Nat) /\ right \in Seq(Nat) /\ Len(left) = Len(right)
        /\ \A i \in 1 .. Len(left) : Pair(left[i], right[i])
        /\ Even(pushed) /\ Even(Len(heard))
    BY DEF StereoInv
  <1>4. Even(Len(heard'))
    <2>. DEFINE frame == SubSeq(buffer, 1, Drained)
    <2>1. Drained \in 0 .. Len(buffer) /\ buffer \in Seq(Nat) /\ heard \in Seq(Nat)
      BY TickType, LenProperties DEF ProcessorInv, Drained
    <2>2. frame \in Seq(Nat) /\ Len(frame) = Drained
      BY <2>1, Cut
    <2>3. heard' = heard \o frame
      BY <1>1
    <2>. HIDE DEF frame
    <2>4. Len(heard \o frame) = Len(heard) + Len(frame)
      BY <2>1, <2>2, ConcatProperties
    <2>5. Drained \in Nat /\ Len(heard) \in Nat
      BY <2>1, LenProperties
    <2>6. Even(Len(heard) + Drained)
      BY <1>2, <1>3, <2>5, EvenSum
    <2>. QED
      BY <2>2, <2>3, <2>4, <2>6
  <1>5. /\ l \in Seq(Nat) /\ r \in Seq(Nat) /\ left \in Seq(Nat) /\ right \in Seq(Nat)
        /\ Len(left) \in Nat /\ Len(l) \in Nat
        /\ Len(right) = Len(left) /\ Len(r) = Len(l)
    BY <1>2, <1>3, LenProperties
  <1>6. /\ left \o l \in Seq(Nat) /\ Len(left \o l) = Len(left) + Len(l)
        /\ \A i \in 1 .. Len(left) + Len(l) :
              (left \o l)[i] = IF i <= Len(left) THEN left[i] ELSE l[i - Len(left)]
    BY <1>5, ConcatProperties
  <1>7. /\ right \o r \in Seq(Nat) /\ Len(right \o r) = Len(right) + Len(r)
        /\ \A i \in 1 .. Len(right) + Len(r) :
              (right \o r)[i] = IF i <= Len(right) THEN right[i] ELSE r[i - Len(right)]
    BY <1>5, ConcatProperties
  <1>8. ASSUME NEW i \in 1 .. Len(left) + Len(l)
        PROVE  Pair((left \o l)[i], (right \o r)[i])
    <2>1. CASE i <= Len(left)
      <3>1. (left \o l)[i] = left[i] /\ (right \o r)[i] = right[i] /\ i \in 1 .. Len(left)
        BY <1>5, <1>6, <1>7, <2>1
      <3>. QED
        BY <1>3, <3>1
    <2>2. CASE ~ (i <= Len(left))
      <3>. DEFINE j == i - Len(left)
      <3>1. (left \o l)[i] = l[j] /\ (right \o r)[i] = r[j]
        BY <1>5, <1>6, <1>7, <2>2
      <3>2. j \in 1 .. Len(l)
        BY <1>5, <2>2
      <3>. HIDE DEF j
      <3>. QED
        BY <1>2, <3>1, <3>2
    <2>. QED
      BY <2>1, <2>2
  <1>9. /\ left' \in Seq(Nat) /\ right' \in Seq(Nat) /\ Len(left') = Len(right')
        /\ \A i \in 1 .. Len(left') : Pair(left'[i], right'[i])
    BY <1>1, <1>5, <1>6, <1>7, <1>8
  <1>. QED
    BY <1>1, <1>3, <1>4, <1>9 DEF StereoInv

\* A frame's two channels hold the same moment of a stereo track, however the samples
\* are portioned and whenever a frame is filled up with silence.
THEOREM KeepsChannelsApart == ProcessorSpec => []ChannelsKept
  <1>. DEFINE Inv == ProcessorInv /\ StereoInv
  <1>1. ProcessorInit => Inv
    <2>1. <<>> \in Seq(Nat) /\ <<>> \o <<>> = <<>> /\ Len(<<>>) = 0 /\ Even(0)
      BY EmptySeq, ConcatEmptySeq DEF Even
    <2>2. Numbered(0, 0) = <<>>
      BY NumberedType, EmptySeq
    <2>. QED
      BY <2>1, <2>2, ProcessorAssumption
         DEF ProcessorInit, ProcessorInv, NothingLost, StereoInv
  <1>2. Inv /\ [ProcessorNext]_processorVars => Inv'
    <2>1. ASSUME Inv, UNCHANGED processorVars
          PROVE  Inv'
      BY <2>1 DEF processorVars, ProcessorInv, NothingLost, StereoInv
    <2>2. ASSUME Inv, NEW count \in 1 .. MaxSamples, push(count)
          PROVE  StereoInv'
      <3>1. UNCHANGED <<channels, heard, left, right>> /\ pushed' = pushed + count * channels
        BY <2>2 DEF push
      <3>2. CASE channels = 2
        <4>1. count \in Nat /\ pushed \in Nat
          BY <2>2, ProcessorAssumption DEF ProcessorInv
        <4>2. pushed' = pushed + 2 * count /\ 2 * count \in Nat /\ Even(2 * count)
          BY <3>1, <3>2, <4>1 DEF Even
        <4>3. Even(pushed)
          BY <2>2, <3>2 DEF StereoInv
        <4>4. Even(pushed')
          BY <4>1, <4>2, <4>3, EvenSum
        <4>. QED
          BY <2>2, <3>1, <3>2, <4>4 DEF StereoInv
      <3>. QED
        BY <3>1, <3>2 DEF StereoInv
    <2>3. ASSUME Inv, next_stereo_frame, channels # 2
          PROVE  StereoInv'
      BY <2>3 DEF next_stereo_frame, StereoInv
    <2>. QED
      BY <2>1, <2>2, <2>3, PushKeeps, FrameKeeps, FramesKeepPairs DEF ProcessorNext
  <1>3. Inv => ChannelsKept
    <2>1. ASSUME Inv, channels = 2
          PROVE  DOMAIN left = 1 .. Len(left)
      BY <2>1, LenProperties DEF StereoInv
    <2>. QED
      BY <2>1 DEF StereoInv, ChannelsKept, Pair
  <1>. QED
    BY <1>1, <1>2, <1>3, PTL DEF ProcessorSpec

------------------------------------------------------------------------------
(* ExamplePlayer: frames take from the overflow buffer first.              *)

PlayerInv ==
    /\ overflow_buffer \in Seq(Nat) /\ cut \in Seq(Nat) /\ decoded \in Nat
    /\ CutInOrder

LEMMA DecodedType ==
    ASSUME decoded \in Nat, NEW count \in Nat
    PROVE  Decoded(count) = Numbered(decoded, count)
  BY DEF Decoded, Numbered

LEMMA NumberedFromOne ==
    ASSUME NEW n \in Nat
    PROVE  Numbered(0, n) = [i \in 1 .. n |-> i]
  BY DEF Numbered

\* The provers rewrite concatenations and parts of sequences poorly; they know these by
\* their laws alone.
Cat(s, t) == s \o t
Before(s, k) == SubSeq(s, 1, k)
After(s, k) == SubSeq(s, k + 1, Len(s))

LEMMA CatLaws ==
    ASSUME NEW S, NEW a \in Seq(S), NEW b \in Seq(S), NEW c \in Seq(S)
    PROVE  /\ Cat(a, b) \in Seq(S)
           /\ Cat(Cat(a, b), c) = Cat(a, Cat(b, c))
           /\ Cat(a, <<>>) = a /\ Cat(<<>>, a) = a
  <1>1. Cat(a, b) \in Seq(S)
    BY ConcatProperties DEF Cat
  <1>2. Cat(Cat(a, b), c) = Cat(a, Cat(b, c))
    BY ConcatAssociative DEF Cat
  <1>3. Cat(a, <<>>) = a /\ Cat(<<>>, a) = a
    BY ConcatEmptySeq DEF Cat
  <1>. QED
    BY <1>1, <1>2, <1>3

LEMMA CutCat ==
    ASSUME NEW S, NEW s \in Seq(S), NEW k \in 0 .. Len(s)
    PROVE  /\ Before(s, k) \in Seq(S) /\ After(s, k) \in Seq(S)
           /\ Len(Before(s, k)) = k /\ Len(After(s, k)) = Len(s) - k
           /\ Cat(Before(s, k), After(s, k)) = s
  <1>1. /\ Before(s, k) \in Seq(S) /\ After(s, k) \in Seq(S)
        /\ Len(Before(s, k)) = k /\ Len(After(s, k)) = Len(s) - k
    BY Cut DEF Before, After
  <1>2. Cat(Before(s, k), After(s, k)) = s
    BY Cut DEF Before, After, Cat
  <1>. QED
    BY <1>1, <1>2

\* Two sequences that are cut in turn, of which one is cut at its end or the other at
\* its beginning, come out in order.
LEMMA CutInTurn ==
    ASSUME NEW s \in Seq(Nat), NEW a \in Seq(Nat), NEW b \in Seq(Nat),
           NEW c \in Seq(Nat), NEW e \in Seq(Nat), b = <<>> \/ c = <<>>
    PROVE  Cat(Cat(Cat(s, a), c), Cat(b, e)) = Cat(Cat(s, Cat(a, b)), Cat(c, e))
  <1>1. CASE b = <<>>
    BY <1>1, CatLaws
  <1>2. CASE c = <<>>
    BY <1>2, CatLaws
  <1>. QED
    BY <1>1, <1>2

LEMMA PacketKeeps ==
    ASSUME PlayerInv, NEW size \in PacketSizes, Packet(size)
    PROVE  PlayerInv'
  <1>1. /\ overflow_buffer \in Seq(Nat) /\ cut \in Seq(Nat) /\ decoded \in Nat
        /\ size \in Nat /\ Len(overflow_buffer) \in Nat
    BY PlayerAssumption, LenProperties DEF PlayerInv
  <1>2. PICK k \in 0 .. Len(overflow_buffer), f \in 0 .. size :
          /\ k = overflown_max_idx /\ f = filler_max_idx
          /\ k = Len(overflow_buffer) \/ f = 0
    <2>1. overflown_max_idx \in 0 .. Len(overflow_buffer)
      BY <1>1, PlayerAssumption DEF overflown_max_idx
    <2>2. filler_max_idx \in 0 .. size
      BY <1>1, PlayerAssumption DEF overflown_max_idx, filler_max_idx, Packet
    <2>3. overflown_max_idx = Len(overflow_buffer) \/ filler_max_idx = 0
      BY <1>1, PlayerAssumption DEF overflown_max_idx, filler_max_idx
    <2>. QED
      BY <2>1, <2>2, <2>3
  <1>3. PICK samples \in Seq(Nat) :
          /\ samples = Decoded(size) /\ samples = Numbered(decoded, size)
          /\ Len(samples) = size
    BY <1>1, DecodedType, NumberedType
  <1>4. PICK a \in Seq(Nat), b \in Seq(Nat) :
          /\ a = Before(overflow_buffer, k) /\ b = After(overflow_buffer, k)
          /\ Len(a) = k /\ Len(b) = Len(overflow_buffer) - k /\ Cat(a, b) = overflow_buffer
    BY <1>1, CutCat
  <1>5. PICK c \in Seq(Nat), e \in Seq(Nat) :
          /\ c = Before(samples, f) /\ e = After(samples, f)
          /\ Len(c) = f /\ Len(e) = Len(samples) - f /\ Cat(c, e) = samples
    <2>1. f \in 0 .. Len(samples)
      BY <1>3
    <2>. QED
      BY <2>1, CutCat
  <1>6. /\ cut' = Cat(Cat(cut, a), c) /\ overflow_buffer' = Cat(b, e)
        /\ decoded' = decoded + size
    BY <1>2, <1>3, <1>4, <1>5 DEF Packet, DrainedOverflow, Cat, Before, After
  <1>7. b = <<>> \/ c = <<>>
    <2>1. CASE k = Len(overflow_buffer)
      <3>1. Len(b) = 0
        BY <1>1, <1>4, <2>1
      <3>. QED
        BY <3>1, EmptySeq
    <2>2. CASE f = 0
      <3>1. Len(c) = 0
        BY <1>5, <2>2
      <3>. QED
        BY <3>1, EmptySeq
    <2>. QED
      BY <1>2, <2>1, <2>2
  <1>8. Cat(cut', overflow_buffer') = Cat(Cat(cut, overflow_buffer), samples)
    BY <1>1, <1>4, <1>5, <1>6, <1>7, CutInTurn
  <1>9. Cat(cut, overflow_buffer) = Numbered(0, decoded)
    BY <1>1, NumberedFromOne DEF PlayerInv, CutInOrder, Cat
  <1>10. Cat(Numbered(0, decoded), Numbered(decoded, size)) = Numbered(0, decoded + size)
    BY <1>1, NumberedFurther DEF Cat
  <1>11. Cat(cut', overflow_buffer') = Numbered(0, decoded')
    BY <1>3, <1>6, <1>8, <1>9, <1>10
  <1>12. decoded' \in Nat /\ Numbered(0, decoded') = [i \in 1 .. decoded' |-> i]
    <2>1. decoded' \in Nat
      BY <1>1, <1>6
    <2>. QED
      BY <2>1, NumberedFromOne
  <1>13. overflow_buffer' \in Seq(Nat) /\ cut' \in Seq(Nat)
    BY <1>1, <1>6, CatLaws
  <1>. QED
    BY <1>11, <1>12, <1>13 DEF PlayerInv, CutInOrder, Cat

\* The example's frames and its overflow buffer hold the decoded track, once and in
\* order, whatever sizes the decoded packets have.
THEOREM CutsInOrder == PlayerSpec => []CutInOrder
  <1>1. PlayerInit => PlayerInv
    <2>1. <<>> \in Seq(Nat) /\ <<>> \o <<>> = <<>>
      BY EmptySeq, ConcatEmptySeq
    <2>2. Numbered(0, 0) = <<>>
      BY NumberedType, EmptySeq
    <2>3. <<>> = [i \in 1 .. 0 |-> i]
      BY <2>2, NumberedFromOne
    <2>. QED
      BY <2>1, <2>3 DEF PlayerInit, PlayerInv, CutInOrder
  <1>2. PlayerInv /\ [PlayerNext]_playerVars => PlayerInv'
    <2>1. ASSUME PlayerInv,
                 \/ UNCHANGED playerVars
                 \/ speaking \/ Finish \/ \E size \in PacketSizes : PacketTooShort(size)
          PROVE  PlayerInv'
      <3>1. UNCHANGED <<overflow_buffer, cut, decoded>>
        BY <2>1 DEF playerVars, speaking, Finish, PacketTooShort
      <3>. QED
        BY <2>1, <3>1 DEF PlayerInv, CutInOrder
    <2>. QED
      BY <2>1, PacketKeeps DEF PlayerNext
  <1>3. PlayerInv => CutInOrder
    BY DEF PlayerInv
  <1>. QED
    BY <1>1, <1>2, <1>3, PTL DEF PlayerSpec
=============================================================================

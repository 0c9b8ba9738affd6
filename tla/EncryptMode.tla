----------------------------- MODULE EncryptMode -----------------------------
(***************************************************************************)
(* EncryptMode of src/crypto/discord.rs and how the client comes to one:   *)
(* negotiate() goes through the modes of a Ready, then a                   *)
(* SessionDescription may decide for another, then packets are encrypted.  *)
(* Whatever the list of modes is, it is revealed one name at a time.       *)
(***************************************************************************)
EXTENDS Naturals, Sequences

CONSTANTS
    OtherNames,     \* modes that the client does not support
    MaxOffers       \* how many modes a Ready lists

VARIABLES
    phase,          \* "negotiating", "negotiated", "described" or "failed"
    offers,         \* the modes negotiate() has looked at
    best,           \* the best of them, or NoMode
    described       \* the mode of the SessionDescription

modeVars == <<phase, offers, best, described>>

NoMode == "None"
EncryptModes == {"Aes256Gcm", "XChaCha20Poly1305"}

to_request_str == [mode \in EncryptModes |->
    IF mode = "Aes256Gcm" THEN "aead_aes256_gcm_rtpsize"
    ELSE "aead_xchacha20_poly1305_rtpsize"]

SupportedNames == {to_request_str[mode] : mode \in EncryptModes}
Names == SupportedNames \cup OtherNames

ASSUME ModeAssumption ==
    /\ OtherNames \cap {"aead_aes256_gcm_rtpsize", "aead_xchacha20_poly1305_rtpsize"} = {}
    /\ MaxOffers \in Nat

\* EncryptMode::from_str; NoMode for its error.
from_str(name) ==
    IF name = "aead_aes256_gcm_rtpsize" THEN "Aes256Gcm"
    ELSE IF name = "aead_xchacha20_poly1305_rtpsize" THEN "XChaCha20Poly1305"
    ELSE NoMode

priority(mode) == IF mode = "Aes256Gcm" THEN 1 ELSE 0

\* The nonce that dispatch_packet makes for a mode, and the one its cipher takes.
nonce_size(mode) == IF mode = "Aes256Gcm" THEN 12 ELSE 24
NONCE_LEN(mode) == IF mode = "Aes256Gcm" THEN 96 \div 8 ELSE 24

ModeInit == phase = "negotiating" /\ offers = <<>> /\ best = NoMode /\ described = "None"

------------------------------------------------------------------------------
\* Whether a supported mode replaces the best one so far.  Mutant: the last wins.
AcceptsAny(mode) == TRUE
Accepts(mode) == best = NoMode \/ priority(mode) > priority(best)

\* One iteration of negotiate().
Offer(name) ==
    /\ phase = "negotiating" /\ Len(offers) < MaxOffers
    /\ offers' = Append(offers, name)
    /\ best' = IF from_str(name) # NoMode /\ Accepts(from_str(name)) THEN from_str(name)
               ELSE best
    /\ UNCHANGED <<phase, described>>

negotiate ==
    /\ phase = "negotiating"
    /\ phase' = IF best = NoMode THEN "failed" ELSE "negotiated"
    /\ UNCHANGED <<offers, best, described>>

\* The mode after a description of another one.  Mutant: what was negotiated stays.
KeepNegotiated(name) == best
ModeDescribed(name) == IF from_str(name) = NoMode THEN best ELSE from_str(name)

Describe(name) ==
    /\ phase = "negotiated"
    /\ described' = name
    /\ IF to_request_str[best] = name
       THEN phase' = "described" /\ UNCHANGED best
       ELSE /\ phase' = IF from_str(name) = NoMode THEN "failed" ELSE "described"
            /\ best' = ModeDescribed(name)
    /\ UNCHANGED offers

ModeNext ==
    \/ \E name \in Names : Offer(name) \/ Describe(name)
    \/ negotiate

ModeSpec == ModeInit /\ [][ModeNext]_modeVars

------------------------------------------------------------------------------
\* negotiate() finds the supported mode of the highest priority, wherever in the list
\* it is and whatever surrounds it, and none only if none is supported.
NegotiatesBest ==
    phase \in {"negotiating", "negotiated"} =>
        /\ best # NoMode => \E i \in DOMAIN offers : from_str(offers[i]) = best
        /\ \A i \in DOMAIN offers :
              from_str(offers[i]) # NoMode =>
                  best # NoMode /\ priority(best) >= priority(from_str(offers[i]))

\* What encrypts is the mode the gateway has described, and it takes the nonces that
\* are made for it.
EncryptsAsDescribed ==
    phase = "described" =>
        best = from_str(described) /\ best # NoMode /\ nonce_size(best) = NONCE_LEN(best)
=============================================================================

-------------------------- MODULE MCVoiceWebSocket --------------------------
(***************************************************************************)
(* Small instances of VoiceWebSocket for TLC.                              *)
(***************************************************************************)
EXTENDS VoiceWebSocket, TLC

EndpointSymmetry == Permutations(Endpoints)
=============================================================================

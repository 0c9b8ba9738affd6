---------------------------- MODULE MCAlgorithms ----------------------------
(***************************************************************************)
(* The algorithms that are sequential programs of their own, checked in    *)
(* one run: a behaviour is one of them, on inputs it is given step by      *)
(* step, while the others rest.                                            *)
(***************************************************************************)
EXTENDS EncryptMode, Payload, AudioProcessor, ExamplePlayer

VARIABLE subject

Init ==
    /\ subject \in {"mode", "payload", "processor", "player"}
    /\ ModeInit /\ PayloadInit /\ ProcessorInit /\ PlayerInit

Next ==
    /\ UNCHANGED subject
    /\ \/ subject = "mode" /\ ModeNext
          /\ UNCHANGED <<payloadVars, processorVars, playerVars>>
       \/ subject = "payload" /\ PayloadNext
          /\ UNCHANGED <<modeVars, processorVars, playerVars>>
       \/ subject = "processor" /\ ProcessorNext
          /\ UNCHANGED <<modeVars, payloadVars, playerVars>>
       \/ subject = "player" /\ PlayerNext
          /\ UNCHANGED <<modeVars, payloadVars, processorVars>>

Spec == Init /\ [][Next]_<<subject, modeVars, payloadVars, processorVars, playerVars>>
=============================================================================

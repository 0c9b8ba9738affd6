------------------------------- MODULE Payload -------------------------------
(***************************************************************************)
(* How a message of the voice gateway becomes an Event: OpCode::from of    *)
(* crates/types/src/opcode.rs and VoiceGatewayEventVisitor of              *)
(* crates/types/src/payload/mod.rs, which is told the opcode and goes      *)
(* through the entries of the JSON object in the order they come in.       *)
(***************************************************************************)
EXTENDS Naturals, Sequences

CONSTANT MaxEntries     \* how many entries the object has

ASSUME PayloadAssumption == MaxEntries \in Nat

VARIABLES
    reading,        \* "nothing", "field", "ignore_all", "event" or "error"
    op,             \* the opcode's number
    found,          \* the value of "d", or "None"
    entries         \* the entries read

payloadVars == <<reading, op, found, entries>>

\* Field, and the keys it does not know.
Fields == {"d", "op", "seq", "unknown"}

\* "bad": a value that is not what the event carries.
Values == {"first", "second", "bad"}

\* OpCode::from, by what becomes of the opcode: the client's own, an event that
\* carries data, and one that does not.
Opcodes == 0 .. 9 \cup {11, 13}
Outgoing == {0, 1, 3, 7}
WithoutData == {6, 9}

PayloadInit == reading = "nothing" /\ op = 0 /\ found = "None" /\ entries = <<>>

------------------------------------------------------------------------------
\* visit_map up to the first entry.
visit_map(code) ==
    /\ reading = "nothing"
    /\ op' = code
    /\ reading' = IF code \notin Opcodes \/ code \in Outgoing THEN "error"
                  ELSE IF code \in WithoutData THEN "ignore_all" ELSE "field"
    /\ UNCHANGED <<found, entries>>

\* Mutant: the first "d" is kept.
KeepFound(value) == IF found = "None" THEN value ELSE found
NewFound(value) == value

Entry(key, value) ==
    /\ reading \in {"field", "ignore_all"} /\ Len(entries) < MaxEntries
    /\ entries' = Append(entries, [key |-> key, value |-> value])
    /\ IF reading = "field" /\ key = "d"
       THEN IF value = "bad"
            THEN reading' = "error" /\ UNCHANGED found
            ELSE found' = NewFound(value) /\ UNCHANGED reading
       ELSE UNCHANGED <<reading, found>>
    /\ UNCHANGED op

\* The object ends: `field` has its value or misses it, and ignore_all has nothing
\* left to ignore.
End ==
    /\ reading \in {"field", "ignore_all"}
    /\ reading' = IF reading = "field" /\ found = "None" THEN "error" ELSE "event"
    /\ UNCHANGED <<op, found, entries>>

PayloadNext ==
    \/ \E code \in 0 .. 15 : visit_map(code)
    \/ \E key \in Fields, value \in Values : Entry(key, value)
    \/ End

PayloadSpec == PayloadInit /\ [][PayloadNext]_payloadVars

------------------------------------------------------------------------------
Data == {i \in DOMAIN entries : entries[i].key = "d"}

\* An event is what its opcode says, with the last "d" of the object, wherever that is
\* among the entries and whatever the others are called; there is none without a "d"
\* if it carries data, with a bad one, or for an opcode the gateway does not send.
EventRight ==
    reading = "event" =>
        /\ op \in Opcodes \ Outgoing
        /\ op \notin WithoutData =>
              /\ Data # {}
              /\ \A i \in Data : entries[i].value # "bad"
              /\ \E i \in Data : entries[i].value = found /\ \A j \in Data : j <= i
=============================================================================

---------------------------- MODULE GatewayStream ----------------------------
(***************************************************************************)
(* What the voice client relies on when it polls VoiceWebSocket: a stream  *)
(* of items over one connection after another, with one slot for the       *)
(* message to send and one for an item that has to wait its turn.          *)
(*                                                                         *)
(*   - Nothing is read as long as a message of the user waits to be sent;  *)
(*     an item that waits is handed over first, and then nothing is sent.  *)
(*   - Every connection but the first and those the user asked for is      *)
(*     announced by Reconnected, ahead of its events.                      *)
(*   - A connection may be lost with or without an item that says so.      *)
(*   - The slot outlives the connection.                                   *)
(*   - The stream ends only once it is closed.                             *)
(***************************************************************************)
CONSTANTS
    Events,         \* what the gateway sends
    Texts           \* what the user sends

VARIABLES
    link,           \* VoiceWebSocketState
    quiet,          \* the next connection need not be announced
    slot,           \* the message to send
    waiting,        \* the item to hand over first
    item            \* the last item, "Polling" while there is none yet

streamVars == <<link, quiet, slot, waiting, item>>

Items == Events \cup {"Reconnected", "Disconnected", "Error", "Pending", "End"}

StreamTypeOK ==
    /\ link \in {"Connected", "Disconnected", "Closed"}
    /\ quiet \in BOOLEAN
    /\ slot \in Texts \cup {"None", "Heartbeat", "Close"}
    /\ waiting \in Events \cup {"None", "Reconnected"}
    /\ item \in Items \cup {"Polling"}

StreamInit ==
    /\ link = "Disconnected" /\ quiet = TRUE
    /\ slot = "None" /\ waiting = "None" /\ item = "Pending"

------------------------------------------------------------------------------
(* A poll.                                                                 *)

Start ==
    /\ item # "Polling"
    /\ item' = IF waiting = "None" THEN "Polling" ELSE waiting
    /\ waiting' = "None"
    /\ UNCHANGED <<link, quiet, slot>>

Polling == item = "Polling"

Open ==
    /\ Polling /\ link = "Disconnected"
    /\ link' = "Connected" /\ quiet' = FALSE
    /\ waiting' = IF quiet THEN waiting ELSE "Reconnected"
    /\ UNCHANGED <<slot, item>>

\* The message leaves; or it is held up, or the closed stream fails to send it.
Transmit ==
    /\ Polling /\ slot # "None"
    /\ slot' = "None"
    /\ item' \in {"Polling", "Pending"}
    /\ UNCHANGED <<link, quiet, waiting>>

TransmitFails ==
    /\ Polling
    /\ slot' = "None"
    /\ IF link = "Closed"
       THEN item' = "Error" /\ UNCHANGED link
       ELSE item' = "Disconnected" /\ link' = "Disconnected"
    /\ UNCHANGED <<quiet, waiting>>

Beat ==
    /\ Polling /\ link # "Closed" /\ slot = "None"
    /\ slot' = "Heartbeat"
    /\ UNCHANGED <<link, quiet, waiting, item>>

\* The gateway has not acknowledged the last heartbeat.
GiveUp ==
    /\ Polling /\ link # "Closed" /\ slot = "None"
    /\ link' = "Disconnected" /\ slot' = "Close"
    /\ UNCHANGED <<quiet, waiting, item>>

Read(event) ==
    /\ Polling /\ link # "Closed" /\ slot \in {"None", "Close"}
    /\ item' = IF waiting = "None" THEN event ELSE waiting
    /\ waiting' = IF waiting = "None" THEN "None" ELSE event
    /\ UNCHANGED <<link, quiet, slot>>

\* The gateway closes, or the transport fails.
Drop(next_link) ==
    /\ Polling /\ link # "Closed" /\ slot \in {"None", "Close"}
    /\ item' = "Disconnected"
    /\ link' = IF link = "Disconnected" THEN link ELSE next_link
    /\ UNCHANGED <<quiet, slot, waiting>>

\* The end of the connection's stream is no item.
Lose ==
    /\ Polling /\ link # "Closed"
    /\ link' = "Disconnected"
    /\ UNCHANGED <<quiet, slot, waiting, item>>

Wait == Polling /\ item' = "Pending" /\ UNCHANGED <<link, quiet, slot, waiting>>
Fail == Polling /\ item' = "Error" /\ UNCHANGED <<link, quiet, slot, waiting>>

Finish ==
    /\ Polling /\ link = "Closed"
    /\ item' = "End"
    /\ UNCHANGED <<link, quiet, slot, waiting>>

------------------------------------------------------------------------------
(* The user's calls between two polls.                                     *)

Put(text) ==
    /\ ~Polling
    /\ slot' = text
    /\ UNCHANGED <<link, quiet, waiting, item>>

\* A graceful close ends the stream, another one may or may not.
Close(next_link, graceful) ==
    /\ ~Polling
    /\ link' = next_link /\ slot' = "Close"
    /\ quiet' = (quiet \/ graceful)
    /\ graceful => next_link = "Closed"
    /\ UNCHANGED <<waiting, item>>

Redirect ==
    /\ ~Polling
    /\ link' = "Disconnected" /\ slot' = "Close" /\ quiet' = TRUE
    /\ UNCHANGED <<waiting, item>>

------------------------------------------------------------------------------
StreamNext ==
    \/ Start \/ Open \/ Transmit \/ TransmitFails \/ Beat \/ GiveUp
    \/ \E event \in Events : Read(event)
    \/ \E next_link \in {"Disconnected", "Closed"} : Drop(next_link)
    \/ Lose \/ Wait \/ Fail \/ Finish
    \/ \E text \in Texts : Put(text)
    \/ \E next_link \in {"Disconnected", "Closed"}, graceful \in BOOLEAN :
          Close(next_link, graceful)
    \/ Redirect

StreamSpec == StreamInit /\ [][StreamNext]_streamVars
=============================================================================

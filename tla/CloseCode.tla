------------------------------ MODULE CloseCode ------------------------------
(***************************************************************************)
(* The voice gateway's close codes and what a WebSocket close means for    *)
(* the state of VoiceWebSocket.                                            *)
(*                                                                         *)
(* A close frame without a status arrives as code 1005, for which the code *)
(* builds no CloseFrame at all: from_close_code(None).  1005 is no voice   *)
(* close code, so from_close_code answers the same for it.                 *)
(***************************************************************************)
EXTENDS Naturals

\* CloseCode::try_from succeeds exactly on these.
KnownCodes == {4001, 4002, 4003, 4004, 4005, 4006,
               4009, 4011, 4012, 4014, 4015, 4016}

\* CloseCode::can_reconnect.
can_reconnect(code) == code \in {4001, 4002, 4003, 4005, 4015}

\* The state a close with this code leaves the socket in.
from_close_code(code) ==
    IF code \in KnownCodes /\ ~can_reconnect(code)
    THEN "Closed"
    ELSE "Disconnected"

\* The codes on which close_inner ends the socket for good at the user's wish.
GracefulCodes == {1000, 1001}

\* CloseFrame::RESUME of twilight-gateway, sent to a zombied connection.
ResumeCode == 4000

=============================================================================

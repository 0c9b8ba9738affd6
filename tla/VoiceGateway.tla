---------------------------- MODULE VoiceGateway ----------------------------
(***************************************************************************)
(* The other end of the voice client's WebSocket, modelled from what       *)
(* src/client/mod.rs sends and expects: the connections one after another, *)
(* and the voice gateway with its handshake.  All of it is external code.  *)
(*                                                                         *)
(* The gateway says Hello on every connection and answers Identify with    *)
(* Ready, SelectProtocol with SessionDescription and Resume with Resumed;  *)
(* it closes with 4003 who speaks before that, with 4005 who authenticates *)
(* twice and with 4006 who resumes what it does not know (any more).       *)
(***************************************************************************)
EXTENDS Runtime, CloseCode, Naturals, Sequences

CONSTANTS
    MaxFaults,      \* how many faults one behaviour has
    FaultKinds,     \* which of them: a subset of AllFaults
    GatewayCodes,   \* with which codes it closes a connection by itself
    Extras,         \* what it sends to a client that is active
    MaxInbox        \* ... as long as fewer messages than these are on their way

\* "lose": the connection breaks or ends; "refuse": a dial fails; "close": the
\* gateway closes by itself; "block": the connection takes no writes for a while;
\* "malformed": the gateway says something the socket cannot read; "silence": it does
\* not acknowledge a heartbeat in time; "connect": a UDP socket cannot be set up;
\* "datagram": the datagram of IP discovery or its answer is lost; "udp": a packet
\* cannot be sent; "encrypt": nor encrypted; "mode": the gateway offers or chooses a
\* mode the client does not support.
AllFaults == {"lose", "refuse", "close", "block", "malformed", "silence",
              "connect", "datagram", "udp", "encrypt", "mode"}
AllExtras == {"ClientConnect", "ClientDisconnect", "Other"}

ASSUME GatewayAssumption ==
    /\ MaxFaults \in Nat
    /\ FaultKinds \subseteq AllFaults
    /\ GatewayCodes \subseteq Nat
    /\ Extras \subseteq AllExtras
    /\ MaxInbox \in Nat

VARIABLES
    conn,       \* the connection or the dial for one
    inbox,      \* what has arrived and the socket has not read
    desk,       \* what was sent and the gateway has not handled
    stage,      \* what the gateway knows of the connection
    known,      \* the number of sessions it has granted; it may know the last
    resumes,    \* it has granted a Resume
    faults      \* the faults so far

gatewayVars == <<conn, inbox, desk, stage, known, resumes, faults>>

\* "closing": the client's close has been sent; "blocked": no writes are taken; "held":
\* a frame is held up by that; "lost": broken, or ended without a close; "broken": lost
\* with a frame held up; "shut": the gateway's close, or the error of a broken
\* connection, has been read.
Conns == {"none", "dialing", "dialled", "refused", "up", "closing", "blocked", "held",
          "lost", "broken", "shut"}
Stages == {"silent", "new", "ready", "active", "resumed", "done"}

ClientEvents == {"Hello", "Ready", "SessionDescription", "Resumed"} \cup AllExtras
ClientTexts == {"Identify", "Resume", "SelectProtocol", "Speaking"}

Said(op) == [op |-> op, code |-> 0]
Closing(code) == [op |-> "Close", code |-> code]
Messages == [op : ClientEvents \cup {"Close", "Malformed"}, code : Nat]

NoStatus == 1005

GatewayType ==
    /\ conn \in Conns
    /\ inbox \in Seq(Messages)
    /\ desk \in Seq(ClientTexts \cup {"Close"})
    /\ stage \in Stages
    /\ known \in Nat /\ resumes \in BOOLEAN
    /\ faults \in Nat

GatewayInit ==
    /\ conn = "none" /\ inbox = <<>> /\ desk = <<>> /\ stage = "silent"
    /\ known = 0 /\ resumes = FALSE /\ faults = 0

Fault(kind) ==
    /\ kind \in FaultKinds /\ faults < MaxFaults
    /\ faults' = faults + 1

------------------------------------------------------------------------------
(* The gateway.                                                            *)

Up == conn \in {"up", "closing", "blocked", "held"}
Blocked == conn \in {"blocked", "held"}

Answers(message, new_stage) ==
    /\ inbox' = Append(inbox, message)
    /\ stage' = new_stage

Rejects(code) == Answers(Closing(code), "done")

Greet ==
    /\ Up /\ stage = "silent"
    /\ Answers(Said("Hello"), "new")
    /\ Notify({"ws"})
    /\ UNCHANGED <<conn, desk, known, resumes, faults>>

\* What a text does to the gateway.
Identified ==
    /\ stage = "new"
    /\ Answers(Said("Ready"), "ready")
    /\ known' = known + 1 /\ UNCHANGED resumes

ResumeGranted ==
    /\ stage = "new" /\ known > 0
    /\ Answers(Said("Resumed"), "resumed")
    /\ resumes' = TRUE /\ UNCHANGED known

ResumeRefused == stage = "new" /\ Rejects(4006)

Twice == stage \in {"ready", "active", "resumed"} /\ Rejects(4005)
TooEarly == stage = "new" /\ Rejects(4003)

ProtocolSelected == stage = "ready" /\ Answers(Said("SessionDescription"), "active")

Ignored(stages) == stage \in stages /\ UNCHANGED <<inbox, stage>>

Receives(text) ==
    \/ text = "Identify" /\ Identified
    \/ text = "Resume" /\ ResumeGranted
    \/ /\ \/ text = "Resume" /\ ResumeRefused
          \/ text \in {"Identify", "Resume"} /\ Twice
          \/ text \in {"SelectProtocol", "Speaking"} /\ TooEarly
          \/ text = "SelectProtocol" /\ (ProtocolSelected \/ Ignored({"active", "resumed"}))
          \/ text = "Speaking" /\ Ignored({"ready", "active", "resumed"})
          \/ text = "Close" /\ stage # "done" /\ Rejects(NoStatus)
          \/ Ignored({"done"})
       /\ UNCHANGED <<known, resumes>>

Handle ==
    /\ Up /\ ~Blocked /\ stage # "silent" /\ desk # <<>>
    /\ desk' = Tail(desk)
    /\ Receives(Head(desk))
    /\ Notify({"ws"})
    /\ UNCHANGED <<conn, faults>>

Tell ==
    /\ Up /\ stage \in {"active", "resumed"} /\ Len(inbox) < MaxInbox
    /\ \E op \in Extras : Answers(Said(op), stage)
    /\ Notify({"ws"})
    /\ UNCHANGED <<conn, desk, known, resumes, faults>>

Garbles ==
    /\ Up /\ stage # "done"
    /\ Fault("malformed")
    /\ Answers(Said("Malformed"), stage)
    /\ Notify({"ws"})
    /\ UNCHANGED <<conn, desk, known, resumes>>

GatewayCloses ==
    /\ Up /\ stage # "done"
    /\ Fault("close")
    /\ \E code \in GatewayCodes : Rejects(code)
    /\ Notify({"ws"})
    /\ UNCHANGED <<conn, desk, known, resumes>>

------------------------------------------------------------------------------
(* The network.                                                            *)

\* What was on its way to the client may or may not have arrived.
ConnectionLost ==
    /\ Up
    /\ Fault("lose")
    /\ conn' = IF conn = "held" THEN "broken" ELSE "lost"
    /\ inbox' \in {inbox, <<>>} /\ desk' = <<>>
    /\ Notify({"ws"})
    /\ UNCHANGED <<stage, known, resumes>>

\* A frame that is held up is on the desk already, and waits there for the connection.
CloseHeld == \E i \in DOMAIN desk : desk[i] = "Close"

Blocks ==
    /\ conn = "up"
    /\ Fault("block")
    /\ conn' = "blocked"
    /\ UNCHANGED <<taskVars, inbox, desk, stage, known, resumes>>

Unblocks ==
    /\ Blocked
    /\ conn' = IF CloseHeld THEN "closing" ELSE "up"
    /\ Notify({"ws"})
    /\ UNCHANGED <<inbox, desk, stage, known, resumes, faults>>

DialOk ==
    /\ conn = "dialing"
    /\ conn' = "dialled"
    /\ Notify({"ws"})
    /\ UNCHANGED <<inbox, desk, stage, known, resumes, faults>>

DialErr ==
    /\ conn = "dialing"
    /\ Fault("refuse")
    /\ conn' = "refused"
    /\ Notify({"ws"})
    /\ UNCHANGED <<inbox, desk, stage, known, resumes>>

World ==
    \/ Greet \/ Handle \/ Tell \/ Garbles \/ GatewayCloses
    \/ ConnectionLost \/ Blocks \/ Unblocks \/ DialOk \/ DialErr

------------------------------------------------------------------------------
(* The client's end of the connection.                                     *)

Dialled ==
    /\ conn = "none"
    /\ conn' = "dialing"
    /\ UNCHANGED <<inbox, desk, stage, known, resumes, faults>>

Fresh(status) ==
    /\ conn' = status /\ inbox' = <<>> /\ desk' = <<>> /\ stage' = "silent"
    /\ UNCHANGED <<known, resumes, faults>>

Connected == conn = "dialled" /\ Fresh("up")
Forgotten == Fresh("none")

\* A frame leaves: to the gateway, which has no answer to a heartbeat that the client
\* would notice, or nobody knows that nobody is there.
Sent(text) ==
    /\ \/ conn \in {"up", "blocked", "held"} /\ ~(Blocked /\ CloseHeld)
          /\ desk' = IF text = "Heartbeat" THEN desk ELSE Append(desk, text)
       \/ conn = "lost" /\ UNCHANGED desk
    /\ conn' = IF Blocked THEN "held"
               ELSE IF text = "Close" /\ conn = "up" THEN "closing" ELSE conn
    /\ UNCHANGED <<inbox, stage, known, resumes, faults>>

SendFails ==
    \/ conn \in {"closing", "lost", "broken", "shut"}
    \/ Blocked /\ CloseHeld

\* A closed socket keeps a connection that cannot send its frame.
Kept ==
    /\ conn' = IF conn = "lost" THEN "broken" ELSE conn
    /\ UNCHANGED <<inbox, desk, stage, known, resumes, faults>>

Incoming == (Up \/ conn = "lost") /\ conn # "held" /\ inbox # <<>>

Taken ==
    /\ inbox' = Tail(inbox)
    /\ conn' = IF Head(inbox).op = "Close" THEN "shut" ELSE conn
    /\ UNCHANGED <<desk, stage, known, resumes, faults>>

Shut == conn' = "shut" /\ UNCHANGED <<inbox, desk, stage, known, resumes, faults>>

\* The closing handshake is over, or there is nothing to close.
HandshakeOver ==
    /\ ~Blocked /\ conn # "broken"
    /\ \/ ~Up
       \/ \E i \in DOMAIN inbox : inbox[i].op = "Close"

ClosesConnection ==
    /\ Up
    /\ inbox' = IF Blocked THEN inbox ELSE <<>>
    /\ desk' = IF conn \in {"up", "blocked"} THEN Append(desk, "Close") ELSE desk
    /\ conn' = IF Blocked THEN "held" ELSE "closing"
    /\ UNCHANGED <<stage, known, resumes, faults>>
=============================================================================

---------------------------------- MODULE Outbox ----------------------------------
(***************************************************************************)
(* What a WebSocketClient promises to those who call SendMessage: a        *)
(* message that was accepted is written to some connection at most once,   *)
(* and is kept until then; connections, reconnecting and the failure       *)
(* channels are forgotten.                                                 *)
(***************************************************************************)
EXTENDS Sequences

CONSTANT Messages

VARIABLES
    accepted,   \* messages SendMessage was called with
    written     \* the messages written, in the order they were

Init == accepted = {} /\ written = <<>>

IsWritten(m) == \E i \in DOMAIN written : written[i] = m

\* SendMessage writes the message or keeps it for later.
Accept(m) ==
    /\ m \notin accepted
    /\ accepted' = accepted \cup {m}
    /\ written' \in {written, Append(written, m)}

\* A message that was kept is written later.
Resend(m) ==
    /\ m \in accepted /\ ~IsWritten(m)
    /\ written' = Append(written, m)
    /\ UNCHANGED accepted

Next == \E m \in Messages : Accept(m) \/ Resend(m)

Spec == Init /\ [][Next]_<<accepted, written>>
==================================================================================

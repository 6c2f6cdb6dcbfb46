-------------------------------- MODULE MCMessageEvents --------------------------------
(***************************************************************************)
(* MessageEvents for TLC: ann writes in a channel and in a private chat,   *)
(* bob in the channel.                                                     *)
(***************************************************************************)
EXTENDS MessageEvents

CONSTANTS m1, m2, m3, ann, bob, hall, dm

MCAuthor == [m \in Messages |-> IF m = m3 THEN bob ELSE ann]
MCChat == [m \in Messages |-> IF m = m2 THEN dm ELSE hall]

Mode(g, p) == [group |-> g, private |-> p]

\* The default and the two modes that turn private chats into channels.
MCModes == {Mode(TRUE, FALSE), Mode(TRUE, TRUE), Mode(FALSE, TRUE)}
MCDefault == {Mode(TRUE, FALSE)}
========================================================================================

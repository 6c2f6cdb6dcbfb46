---------------------------------- MODULE MCServices ----------------------------------
(***************************************************************************)
(* The small services of the program for TLC.  They share no state, so a   *)
(* behaviour is about one of them, its theme, and the others rest.         *)
(***************************************************************************)
EXTENDS LogStream, BanTimers, GroupList, ShortUrl, Uploads, WsServer, TLC

CONSTANTS u1, u2, k1, k2, k3
MCHashedKey == (u1 :> k1) @@ (u2 :> k1)

VARIABLE theme
vars == <<theme, logVars, banVars, listVars, urlVars, upVars, wsVars>>

Init ==
    /\ theme \in {"log", "bans", "list", "links", "uploads", "apps"}
    /\ LogInit /\ BanInit /\ ListInit /\ UrlInit /\ UpInit /\ WsInit
    /\ theme # "list" => member = {}

Next ==
    /\ UNCHANGED theme
    /\ \/ theme = "log" /\ LogNext /\ UNCHANGED <<banVars, listVars, urlVars, upVars, wsVars>>
       \/ theme = "bans" /\ BanNext /\ UNCHANGED <<logVars, listVars, urlVars, upVars, wsVars>>
       \/ theme = "list" /\ ListNext /\ UNCHANGED <<logVars, banVars, urlVars, upVars, wsVars>>
       \/ theme = "links" /\ UrlNext /\ UNCHANGED <<logVars, banVars, listVars, upVars, wsVars>>
       \/ theme = "uploads" /\ UpNext /\ UNCHANGED <<logVars, banVars, listVars, urlVars, wsVars>>
       \/ theme = "apps" /\ WsNext /\ UNCHANGED <<logVars, banVars, listVars, urlVars, upVars>>

Spec == Init /\ [][Next]_vars /\ LogFairness /\ BanFairness
=======================================================================================

---------------------------------- MODULE MCRestarts ----------------------------------
(***************************************************************************)
(* What restarts leave, for TLC: of the messages and their types, and of   *)
(* config.yml.  The two share no state, so a behaviour is about one.       *)
(***************************************************************************)
EXTENDS MCMessageEvents, ConfigFile

\* A template with keys that have their value beside them and one with a list,
\* and the file of an older version that lacks two of them.
MCLine(k, v) == [key |-> k, value |-> v]
MCOldFile == <<MCLine("version", "value"), MCLine("settings", "open"), MCLine("token", "value")>>
MCTemplate == MCOldFile \o <<MCLine("text_intent", "open"), MCLine(Item, "value"), MCLine("port", "value")>>
MCUserFiles == {MCOldFile}
MCDirs == {"root", "opt"}

VARIABLE about

MCInit ==
    /\ about \in {"events", "config"}
    /\ Init /\ ConfigInit
    /\ about = "events" =>
          place = [system |-> "unix", exe |-> "opt"] /\ file = [d \in Dirs |-> NoFile]
    /\ about = "config" => mode = Mode(TRUE, FALSE)

MCNext ==
    /\ UNCHANGED about
    /\ \/ about = "events" /\ Next /\ UNCHANGED configVars
       \/ about = "config" /\ ConfigNext /\ UNCHANGED vars

MCSpec == MCInit /\ [][MCNext]_<<about, vars, configVars>> /\ ConfigFairness
=======================================================================================

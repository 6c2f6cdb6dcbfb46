----------------------------- MODULE FrameworkCommand -----------------------------
(***************************************************************************)
(* Processor.HandleFrameworkCommand: the chat commands that show (me) and  *)
(* move (bind) the virtual numbers of IdMap, and the one-time codes that   *)
(* let somebody who is not a master bind once.                             *)
(*                                                                         *)
(* Every Discord message is handled in a goroutine of its own, so commands *)
(* interleave with each other and with the messages that register ids; the *)
(* steps of one command are its bolt transactions and its critical         *)
(* sections under idmap.MutexT.                                            *)
(*                                                                         *)
(* With lotus the map belongs to another process, which is asked over HTTP *)
(* (the functions of idmap named v2 and v2Pro, and GetIDHandler): a call   *)
(* may fail before or after the other process got it, a GET may be sent    *)
(* again when its connection breaks, and what was given up is still done.  *)
(***************************************************************************)
EXTENDS IdMap, Sequences, SequencesExt

CONSTANTS
    Events,     \* the messages handled, one goroutine each
    Requests,   \* what a message can say, see RequestOK
    Codes,      \* the two-digit one-time codes (00 to ff in the code)
    Masters,    \* config master_id: real ids and virtual numbers; {} is everybody
    IdmapPro,   \* config idmap_pro
    Lotuses     \* values of config lotus

\* pair is who speaks where; what is the first word; code the first word when
\* it is a one-time code; fields the number of words; user and group the old
\* and new numbers the remaining words name, NoRow for a word that is no
\* number (or is 0, for the channel).
RequestOK(m) ==
    /\ m.pair \in Pairs
    /\ m.what \in {"t", "me", "bind", "code", "chat"}
    /\ m.code \in Codes \cup {"none"}
    /\ m.fields \in 1..6
    /\ m.user \in (Rows \cup {NoRow}) \X (BindRows \cup {NoRow})
    /\ m.group \in (Rows \cup {NoRow}) \X (BindRows \cup {NoRow})

ASSUME RequestsAssumption == \A m \in Requests : RequestOK(m)
ASSUME SwitchesAssumption == IdmapPro \in BOOLEAN /\ Lotuses \subseteq BOOLEAN

VARIABLES
    pc,            \* where the goroutine of each event is
    req,           \* the message it handles
    seen,          \* what it read of its sender's numbers before acting:
                   \* new, and newpro1 (group), newpro2 (user) with idmap_pro
    reply,         \* what it answered in the chat
    tempCommands,  \* idmap.TemporaryCommands
    lotus,         \* config lotus
    userLate,      \* requests 5 (old and new number) nobody waits for, which
    pairLate,      \* the other process still has; and requests 12, of pairs
    issued,        \* history: codes generated
    spent          \* history: codes accepted

mapVars == vars
netVars == <<lotus, userLate, pairLate>>
cmdVars == <<pc, req, seen, reply, tempCommands, netVars, issued, spent>>
allVars == <<vars, cmdVars>>

FCTypeOK ==
    /\ TypeOK
    /\ pc \in [Events -> {"start", "lookup", "lookupPro", "choose", "bind",
                          "bindPro", "report", "done", "crashed"}]
    /\ req \in [Events -> Requests]
    /\ seen \in [Events -> [new : Rows \cup {NoRow}, group : Rows \cup {NoRow},
                             user : Rows \cup {NoRow}]]
    /\ reply \in [Events -> {"none", "me", "denied", "error", "success"}]
    /\ tempCommands \in Seq(Codes)
    /\ lotus \in BOOLEAN
    /\ userLate \subseteq Rows \X Rows /\ pairLate \subseteq (Rows \X Rows) \X (Rows \X Rows)
    /\ issued \in Nat /\ spent \in Nat

FCInit ==
    /\ Init
    /\ pc = [e \in Events |-> "start"]
    /\ req \in [Events -> Requests]
    /\ seen = [e \in Events |-> [new |-> NoRow, group |-> NoRow, user |-> NoRow]]
    /\ reply = [e \in Events |-> "none"]
    /\ tempCommands = <<>>
    /\ lotus \in Lotuses /\ userLate = {} /\ pairLate = {}
    /\ issued = 0
    /\ spent = 0
----------------------------------------------------------------------------------
\* Slips the properties must notice: a code that stays valid.
SpendCode_Kept(c) == c \in ToSet(tempCommands) /\ spent' = spent + 1 /\ UNCHANGED tempCommands

Goto(e, l) == pc' = [pc EXCEPT ![e] = l]

\* SendMessage to the chat the command came from, and the end of the handler.
Answer(e, kind) ==
    /\ reply' = [reply EXCEPT ![e] = kind]
    /\ Goto(e, "done")

\* Log only: the handler returns without a word in the chat.
ReturnSilently(e) == Goto(e, "done") /\ UNCHANGED reply

\* handleNoPermission: a random byte in hex, appended without a look at the
\* codes that are outstanding.
IssueCode ==
    /\ \E c \in Codes : tempCommands' = Append(tempCommands, c)
    /\ issued' = issued + 1

\* isValidTemporaryCommand: the first occurrence is used up.
SpendCode(c) ==
    /\ tempCommands' = RemoveFirst(tempCommands, c)
    /\ spent' = spent + 1

\* HandleFrameworkCommand up to its first lookup: "t" asks for a code.  The
\* ids of the message may not be stored: guild channels that stay native come
\* here first (ProcessGuildNormalMessage.go:31), and the failure of StoreID or
\* StoreIDPro does not stop the others.
Start(e) ==
    /\ pc[e] = "start"
    /\ IF req[e].what = "t" THEN IssueCode ELSE UNCHANGED <<tempCommands, issued>>
    /\ Goto(e, "lookup")
    /\ UNCHANGED <<mapVars, req, seen, reply, netVars, spent>>

\* RetrieveVirtualValuev2: the sender's own number.
Lookup(e) ==
    /\ pc[e] = "lookup"
    /\ \/ seen' = [seen EXCEPT ![e].new = fwd[req[e].pair[2]]]
       \/ lotus /\ UNCHANGED seen
    /\ Goto(e, IF IdmapPro THEN "lookupPro" ELSE "choose")
    /\ UNCHANGED <<mapVars, req, reply, tempCommands, netVars, issued, spent>>

\* RetrieveVirtualValuev2Pro: the sender's numbers in this channel.
LookupPro(e) ==
    /\ pc[e] = "lookupPro"
    /\ LET q == fwdPair[req[e].pair]
       IN  \/ (q = NoRow \/ lotus) /\ UNCHANGED seen
           \/ q # NoRow
              /\ seen' = [seen EXCEPT ![e].group = q[1], ![e].user = q[2]]
    /\ Goto(e, "choose")
    /\ UNCHANGED <<mapVars, req, reply, tempCommands, netVars, issued, spent>>

IsMaster(e) == Masters = {} \/ {req[e].pair[2], seen[e].new} \cap Masters # {}

\* me shows the number read, or the error of the lookup; a valid code or a
\* master goes on to bind; a bind without permission is refused and a code for
\* it is logged.
Me(e) ==
    /\ pc[e] = "choose" /\ req[e].what = "me"
    /\ LET number == IF IdmapPro THEN seen[e].user ELSE seen[e].new
       IN  Answer(e, IF number = NoRow THEN "error" ELSE "me")
    /\ UNCHANGED <<mapVars, req, seen, tempCommands, netVars, issued, spent>>

UseCode(e) ==
    /\ pc[e] = "choose" /\ req[e].what = "code"
    /\ IF req[e].code \in ToSet(tempCommands)
       THEN SpendCode(req[e].code) /\ Goto(e, "bind")
       ELSE Goto(e, "done") /\ UNCHANGED <<tempCommands, spent>>
    /\ UNCHANGED <<mapVars, req, seen, reply, netVars, issued>>

AskBind(e) ==
    /\ pc[e] = "choose" /\ req[e].what = "bind"
    /\ \/ IsMaster(e) /\ Goto(e, "bind") /\ UNCHANGED <<reply, tempCommands, issued>>
       \/ ~IsMaster(e) /\ IssueCode /\ Answer(e, "denied")
    /\ UNCHANGED <<mapVars, req, seen, netVars, spent>>

Chat(e) ==
    /\ pc[e] = "choose" /\ req[e].what \in {"t", "chat"}
    /\ ReturnSilently(e)
    /\ UNCHANGED <<mapVars, req, seen, tempCommands, netVars, issued, spent>>
----------------------------------------------------------------------------------
\* parseOrDefault
OrDefault(n, default) == IF n = NoRow THEN default ELSE n

\* The channel numbers a bind command with idmap_pro names, from and to: the
\* number read in LookupPro stands for one that is missing.
GroupMove(e) ==
    LET named == IF req[e].fields > 3 THEN req[e].group ELSE <<NoRow, NoRow>>
        own == seen[e].group
    IN  <<OrDefault(named[1], own), OrDefault(named[2], own)>>

\* The pair of numbers it moves from and to.
FromTo(e) == [k \in 1..2 |-> <<GroupMove(e)[k], req[e].user[k]>>]

\* The commands performBindOperation and V2 leave without a word in the chat:
\* the wrong number of words, or a number that is none.
Ignored(e) ==
    LET m == req[e]
    IN  \/ m.fields \notin IF IdmapPro THEN 3..5 ELSE {3}
        \/ NoRow \in {m.user[1], m.user[2]}
        \/ IdmapPro /\ GroupMove(e)[1] = NoRow
        \/ IdmapPro /\ GroupMove(e)[2] = NoRow /\ m.fields # 4

\* V2 lets four words through and then reads the fifth.
Overruns(e) == ~Ignored(e) /\ req[e].fields = 4

\* What the other process may still have of a request: a copy whose connection
\* broke, before or after the answer of another copy.
MayStay(requests, u) == {requests} \cup (IF lotus THEN {requests \cup {u}} ELSE {})

\* An update gives an error: the transaction failed, or the call did.
UserFails(u) == lotus \/ Free(u[1]) \/ ~Free(u[2])
PairFails(u) == lotus \/ revPair[u[1]] = NoId \/ revPair[u[2]] # NoId

\* performBindOperation and V2 up to the first transaction, which moves the
\* user's own number.
Bind(e) ==
    /\ pc[e] = "bind"
    /\ \/ Ignored(e) /\ ReturnSilently(e) /\ UNCHANGED <<mapVars, userLate>>
       \/ Overruns(e) /\ Goto(e, "crashed") /\ UNCHANGED <<mapVars, reply, userLate>>
       \/ /\ ~Ignored(e) /\ ~Overruns(e)
          /\ LET u == req[e].user
             IN  /\ \/ UserFails(u) /\ Answer(e, "error") /\ UNCHANGED mapVars
                    \/ /\ UpdateVirtualValue(u[1], u[2])
                       /\ Goto(e, IF IdmapPro THEN "bindPro" ELSE "report") /\ UNCHANGED reply
                 /\ userLate' \in MayStay(userLate, u)
    /\ UNCHANGED <<req, seen, tempCommands, lotus, pairLate, issued, spent>>

\* performBindOperationV2, the second transaction: the numbers of the pair.
\* When it fails the first one stays done.
BindPro(e) ==
    /\ pc[e] = "bindPro"
    /\ LET u == FromTo(e)
       IN  /\ \/ PairFails(u) /\ Answer(e, "error") /\ UNCHANGED mapVars
              \/ UpdateVirtualValuePro(u[1], u[2]) /\ Goto(e, "report") /\ UNCHANGED reply
           /\ pairLate' \in MayStay(pairLate, u)
    /\ UNCHANGED <<req, seen, tempCommands, lotus, userLate, issued, spent>>

\* The report of a bind that succeeded: the numbers are looked up once more,
\* and somebody else may have moved them meanwhile.  Under lotus the caller does
\* not understand the other process (request 6 answers "real", and "realValue" is
\* looked for; request 11 goes to a path nobody serves): always an error.
Report(e) ==
    /\ pc[e] = "report"
    /\ LET found == IF IdmapPro THEN revPair[FromTo(e)[2]] # NoId
                               ELSE rev[req[e].user[2]] # NoId
       IN  Answer(e, IF found /\ ~lotus THEN "success" ELSE "error")
    /\ UNCHANGED <<mapVars, req, seen, tempCommands, netVars, issued, spent>>

\* GetIDHandler, requests 5 and 12: the other process does what is left, or
\* finds that it cannot.
ServeUserLate(u) ==
    /\ UpdateVirtualValue(u[1], u[2]) \/ ((Free(u[1]) \/ ~Free(u[2])) /\ UNCHANGED mapVars)
    /\ userLate' = userLate \ {u}
    /\ UNCHANGED <<pc, req, seen, reply, tempCommands, lotus, pairLate, issued, spent>>

ServePairLate(u) ==
    /\ \/ UpdateVirtualValuePro(u[1], u[2])
       \/ (revPair[u[1]] = NoId \/ revPair[u[2]] # NoId) /\ UNCHANGED mapVars
    /\ pairLate' = pairLate \ {u}
    /\ UNCHANGED <<pc, req, seen, reply, tempCommands, lotus, userLate, issued, spent>>

Command(e) ==
    \/ Start(e) \/ Lookup(e) \/ LookupPro(e)
    \/ Me(e) \/ UseCode(e) \/ AskBind(e) \/ Chat(e)
    \/ Bind(e) \/ BindPro(e) \/ Report(e)

\* The goroutines of messages that only register their ids; with idmap_pro
\* also the pair, and a direct message adds a second hashed number.
Register ==
    /\ \/ \E i \in Ids : StoreID(i)
       \/ IdmapPro /\ \E p \in Pairs : StoreIDPro(p)
       \/ IdmapPro /\ \E i \in Ids : SimplifiedStoreID(i)
    /\ UNCHANGED cmdVars

\* A panic in a handler goroutine ends the process.
Running == \A e \in Events : pc[e] # "crashed"

FCNext ==
    /\ Running
    /\ \/ Register
       \/ \E e \in Events : Command(e)
       \/ \E u \in userLate : ServeUserLate(u)
       \/ \E u \in pairLate : ServePairLate(u)

FCSpec == FCInit /\ [][FCNext]_allVars
----------------------------------------------------------------------------------
\* A code lets one command through and no more, whatever the interleaving
\* (Processor.go:359, the code ignores the permission check once).
CodesPaid == spent + Len(tempCommands) = issued

\* A bind that fails half way, or races with another one, never makes an id or
\* a pair unreachable under the numbers it was told.
EverybodyReachable == RoundTrip /\ PairRoundTrip
==================================================================================

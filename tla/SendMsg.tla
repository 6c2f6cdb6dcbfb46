---------------------------------- MODULE SendMsg ----------------------------------
(***************************************************************************)
(* handlers: how send_msg, send_group_msg and send_private_msg find out    *)
(* whether an id stands for a channel (guild) or a private chat            *)
(* (guild_private).  Of an id nobody has heard of yet the handlers         *)
(* enumerate the types: they write a type under the id, count down and     *)
(* call themselves.                                                        *)
(*                                                                         *)
(* The types and the counters are global maps of the package echo with a   *)
(* mutex each; every action of an application runs in a goroutine of its   *)
(* own, so each access to a map is a step.  The five lookups of a type are *)
(* one step, as are the contents of a message and Discord's answer to it.  *)
(***************************************************************************)
EXTENDS Integers, Sequences, SequencesExt

CONSTANTS
    Keys,        \* virtual numbers of users and groups, echo words of events
    NoKey,       \* a field of an action that is not filled in
    Actions,     \* the actions an application sends
    Request,     \* what they say: handler, echo, group, user
    HasGuildId,  \* groups the config bucket has a guild_id of
    Overlap      \* whether the application sends an action about a chat
                 \* before it has got the answer to the last one

ASSUME RequestAssumption ==
    \A a \in Actions :
        /\ Request[a].handler \in {"send_msg", "send_group_msg", "send_private_msg"}
        /\ {Request[a].echo, Request[a].group, Request[a].user} \subseteq Keys \cup {NoKey}
        /\ {Request[a].group, Request[a].user} # {NoKey}

VARIABLES
    msgTypeMapping,  \* echo: the type of a key, "" when there is none
    counterMapping,  \* echo.globalInt64ToIntMapping: the recursion counter
    savedType,       \* config bucket: the type event handlers stored for good
    pc, msgType,     \* where the innermost call is, and the type it found
    left,            \* what it read of the counter
    outer,           \* how many calls wait for it that found no type
    tried            \* history: the types it was sent as

vars == <<msgTypeMapping, counterMapping, savedType, pc, msgType, left, outer, tried>>

NoType == ""
Saved == {NoType, "guild", "guild_private"}
Types == Saved \cup {"group", "group_private"}

\* Events seen before left types behind, in memory or for good.
Init ==
    /\ savedType \in [Keys -> Saved]
    /\ msgTypeMapping \in {f \in [Keys -> Saved] : \A k \in Keys : f[k] \in {NoType, savedType[k]}}
    /\ counterMapping = [k \in Keys |-> 0]
    /\ pc = [a \in Actions |-> "idle"]
    /\ msgType = [a \in Actions |-> NoType]
    /\ left = [a \in Actions |-> 0]
    /\ outer = [a \in Actions |-> 0]
    /\ tried = [a \in Actions |-> <<>>]
----------------------------------------------------------------------------------
\* Slips the properties must notice.  A list that names a type twice:
tryMessageTypes_Repeated == <<"group", "guild_private", "guild_private">>

\* a counter set one too low, one that is not written back, a type not reset:
SetCounter_Low(a) ==
    /\ pc[a] = "count" /\ pc' = [pc EXCEPT ![a] = "mark"]
    /\ LET r == Request[a]
       IN  counterMapping' = [counterMapping EXCEPT ![IF r.user # NoKey THEN r.user ELSE r.group] = 3]
    /\ UNCHANGED <<msgTypeMapping, savedType, msgType, left, outer, tried>>

CountDown_Lost(a) ==
    /\ pc[a] = "write" /\ pc' = [pc EXCEPT ![a] = "more"]
    /\ UNCHANGED <<msgTypeMapping, counterMapping, savedType, msgType, left, outer, tried>>

ResetType_Kept(a) ==
    /\ pc[a] = "clear" /\ pc' = [pc EXCEPT ![a] = "read"]
    /\ UNCHANGED <<msgTypeMapping, counterMapping, savedType, msgType, left, outer, tried>>
----------------------------------------------------------------------------------
\* The types to try, by what is left of the counter.
tryMessageTypes == <<"group", "guild", "guild_private">>

At(f, k) == IF k = NoKey THEN NoType ELSE f[k]

\* idInt64: the user when there is one, or else the group.
Id(a) == IF Request[a].user # NoKey THEN Request[a].user ELSE Request[a].group

\* GetMsgTypeByKey, GetMessageTypeBy..., GetMessageTypeBy...V2: what the echo,
\* the two ids, and the two ids in the database say, in the order asked.
Answers(a, first, second) ==
    <<At(msgTypeMapping, Request[a].echo),
      At(msgTypeMapping, first), At(msgTypeMapping, second),
      At(savedType, first), At(savedType, second)>>

\* The first answer there is.
FirstType(answers) ==
    LET known == {i \in DOMAIN answers : answers[i] # NoType}
    IN  IF known = {} THEN NoType ELSE answers[Min(known)]

FindType(a) ==
    FirstType(IF Request[a].handler = "send_private_msg"
              THEN Answers(a, Request[a].user, Request[a].group)
              ELSE Answers(a, Request[a].group, Request[a].user))

Goto(a, l) == pc' = [pc EXCEPT ![a] = l]
Sent(a, t) == tried' = [tried EXCEPT ![a] = Append(@, t)]
SetType(a, t) == msgTypeMapping' = [msgTypeMapping EXCEPT ![Id(a)] = t]
Count(a) == counterMapping[Id(a)]

\* A call returns: into the call that probes, which found no type and has
\* nothing to send, or out of the handler.  The call for the next type in the
\* list is the last thing a call does, so nobody waits for it.
Return(a) ==
    /\ Goto(a, IF outer[a] > 0 THEN "reset" ELSE "done")
    /\ outer' = [outer EXCEPT ![a] = IF @ > 0 THEN @ - 1 ELSE 0]

Shares(a, b) ==
    ({Request[a].group, Request[a].user, Request[a].echo} \cap
     {Request[b].group, Request[b].user, Request[b].echo}) \ {NoKey} # {}

Busy(a) == pc[a] \notin {"idle", "done", "crashed"}

Call(a) ==
    /\ pc[a] = "idle"
    /\ Overlap \/ \A b \in Actions : Busy(b) => ~Shares(a, b)
    /\ Goto(a, "resolve")
    /\ UNCHANGED <<msgTypeMapping, counterMapping, savedType, msgType, left, outer, tried>>

Resolve(a) ==
    /\ pc[a] = "resolve"
    /\ msgType' = [msgType EXCEPT ![a] = FindType(a)]
    /\ Goto(a, IF FindType(a) = NoType THEN "count" ELSE "dispatch")
    /\ UNCHANGED <<msgTypeMapping, counterMapping, savedType, left, outer, tried>>

\* No type: the counter is set, then the type of the first call.
SetCounter(a) ==
    /\ pc[a] = "count"
    /\ counterMapping' = [counterMapping EXCEPT ![Id(a)] = 4]
    /\ Goto(a, "mark")
    /\ UNCHANGED <<msgTypeMapping, savedType, msgType, left, outer, tried>>

Probe(a) ==
    /\ pc[a] = "mark"
    /\ SetType(a, "group_private")
    /\ outer' = [outer EXCEPT ![a] = @ + 1]
    /\ Goto(a, "resolve")
    /\ UNCHANGED <<counterMapping, savedType, msgType, left, tried>>

\* The switch on the type.  send_group_msg gives up when the group has no
\* guild_id, and returns past the counting below.
Dispatch(a) ==
    /\ pc[a] = "dispatch"
    /\ LET handler == Request[a].handler
           quits == handler = "send_group_msg" /\ Request[a].group \notin HasGuildId
       IN  CASE msgType[a] = "guild" /\ handler # "send_private_msg"
                  -> Goto(a, "channel") /\ UNCHANGED <<outer, tried>>
             [] msgType[a] = "guild_private" /\ quits
                  -> Return(a) /\ UNCHANGED tried
             [] msgType[a] = "guild_private" /\ ~quits
                  -> Sent(a, "guild_private") /\ Goto(a, "reset") /\ UNCHANGED outer
             [] OTHER -> Goto(a, "reset") /\ UNCHANGED <<outer, tried>>
    /\ UNCHANGED <<msgTypeMapping, counterMapping, savedType, msgType, left>>

\* HandleSendGuildChannelMsg finds the type once more.
SendGuildChannelMsg(a) ==
    /\ pc[a] = "channel"
    /\ LET t == FirstType(Answers(a, Request[a].group, Request[a].user))
       IN  IF t \in {NoType, "guild"} THEN Sent(a, "guild")
           ELSE IF t = "guild_private" THEN Sent(a, "guild_private") ELSE UNCHANGED tried
    /\ Goto(a, "reset")
    /\ UNCHANGED <<msgTypeMapping, counterMapping, savedType, msgType, left, outer>>

\* When nothing is left to count the type is reset.
CheckCounter(a) ==
    /\ pc[a] = "reset"
    /\ Goto(a, IF Count(a) <= 0 THEN "clear" ELSE "read")
    /\ UNCHANGED <<msgTypeMapping, counterMapping, savedType, msgType, left, outer, tried>>

ResetType(a) ==
    /\ pc[a] = "clear"
    /\ SetType(a, NoType)
    /\ Goto(a, "read")
    /\ UNCHANGED <<counterMapping, savedType, msgType, left, outer, tried>>

\* AddMapping(id, GetMapping(id) - 1) is two critical sections.
ReadCounter(a) ==
    /\ pc[a] = "read"
    /\ left' = [left EXCEPT ![a] = Count(a)]
    /\ Goto(a, "write")
    /\ UNCHANGED <<msgTypeMapping, counterMapping, savedType, msgType, outer, tried>>

CountDown(a) ==
    /\ pc[a] = "write"
    /\ counterMapping' = [counterMapping EXCEPT ![Id(a)] = left[a] - 1]
    /\ Goto(a, "more")
    /\ UNCHANGED <<msgTypeMapping, savedType, msgType, left, outer, tried>>

More(a) ==
    /\ pc[a] = "more"
    /\ \/ Count(a) > 0 /\ Goto(a, "index") /\ UNCHANGED outer
       \/ Count(a) <= 0 /\ Return(a)
    /\ UNCHANGED <<msgTypeMapping, counterMapping, savedType, msgType, left, tried>>

\* tryMessageTypes[GetMapping(id)-1]
Index(a) ==
    /\ pc[a] = "index"
    /\ left' = [left EXCEPT ![a] = Count(a)]
    /\ Goto(a, IF Count(a) \in DOMAIN tryMessageTypes THEN "try" ELSE "crashed")
    /\ UNCHANGED <<msgTypeMapping, counterMapping, savedType, msgType, outer, tried>>

TryNext(a) ==
    /\ pc[a] = "try"
    /\ SetType(a, tryMessageTypes[left[a]])
    /\ Goto(a, "resolve")
    /\ UNCHANGED <<counterMapping, savedType, msgType, left, outer, tried>>

Handle(a) ==
    \/ Call(a) \/ Resolve(a) \/ SetCounter(a) \/ Probe(a)
    \/ Dispatch(a) \/ SendGuildChannelMsg(a)
    \/ CheckCounter(a) \/ ResetType(a) \/ ReadCounter(a) \/ CountDown(a)
    \/ More(a) \/ Index(a) \/ TryNext(a)

\* A panic in a goroutine ends the process.
Next ==
    /\ \A a \in Actions : pc[a] # "crashed"
    /\ \E a \in Actions : Handle(a)

Spec == Init /\ [][Next]_vars

\* A goroutine that can run does, and applications do send their actions.
FairSpec == Spec /\ \A a \in Actions : WF_vars(Handle(a))
----------------------------------------------------------------------------------
\* The calls about one chat do not send a message twice the same way, however
\* the calls about other chats interleave with them: the type that was
\* written is the type the next call finds.
SentOnce == \A a \in Actions : \A i, j \in DOMAIN tried[a] : tried[a][i] = tried[a][j] => i = j

\* The ways the handler of an action has to send a message.
Ways(a) ==
    CASE Request[a].handler = "send_msg" -> {"guild", "guild_private"}
      [] Request[a].handler = "send_private_msg" -> {"guild_private"}
      [] OTHER -> IF Request[a].group \in HasGuildId THEN {"guild", "guild_private"} ELSE {"guild"}

\* A message about ids nothing is known of was sent every way its handler has
\* when the handler returns: the counter and the types that are written make
\* the recursion miss none, and no earlier recursion misleads it.
Unknown(a) ==
    /\ At(msgTypeMapping, Request[a].echo) = NoType
    /\ \A k \in {Request[a].group, Request[a].user} : At(savedType, k) = NoType
EveryWayTried ==
    \A a \in Actions : pc[a] = "done" /\ Unknown(a) => ToSet(tried[a]) = Ways(a)

\* When the handlers about a chat have returned no type that was only tried
\* stays behind as the type of its id (send_group_msg.go:119, resetting the
\* type of the recursion).  The exception is a group without a guild_id:
\* send_group_msg returns early there, the call it returns into finds the
\* counter above 0, and "group" stays, on which the next message is dropped.
NothingLeft ==
    \A a \in Actions :
        /\ pc[a] = "done"
        /\ Request[a].handler = "send_group_msg" => Request[a].group \in HasGuildId
        /\ \A b \in Actions : Shares(a, b) => ~Busy(b)
        => msgTypeMapping[Id(a)] \in {NoType, savedType[Id(a)]}

\* Every handler returns.
Returns == \A a \in Actions : pc[a] = "resolve" ~> pc[a] = "done"

\* The recursion enumerates the three types of the list (send_msg.go:103): it
\* never reads beside it.
WithinTheList == \A a \in Actions : pc[a] # "crashed"
==================================================================================

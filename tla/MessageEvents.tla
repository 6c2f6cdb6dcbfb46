--------------------------------- MODULE MessageEvents ---------------------------------
(***************************************************************************)
(* Processor: how a message from Discord becomes an event for the          *)
(* application (ProcessGuildNormalMessage, ProcessChannelDirectMessage),   *)
(* and which way the application's answer takes back (send_group_msg,      *)
(* send_private_msg, send_guild_channel_msg).                              *)
(*                                                                         *)
(* The listener handles each message in a goroutine of its own.  What one  *)
(* leaves for the answer - virtual numbers, types by key, the config       *)
(* bucket - it writes in several steps before it reports the event; the    *)
(* maps of package echo are lost in a restart, the database is not.        *)
(*                                                                         *)
(* lotus, idmap_pro and string_ob11 are off.  The message ids kept for     *)
(* answers are left out: no message that is sent refers to them.           *)
(***************************************************************************)
EXTENDS Integers, Sequences, SequencesExt, FiniteSets

CONSTANTS
    Messages,
    Author, Chat,   \* who wrote a message, and where
    DMs,            \* the chats that are private; the others are guild channels
    NoKey,          \* a field that is not filled in
    Modes,          \* values of global_channel_to_group and global_private_to_channel
    HashIdValue,    \* config hash_id: numbers are far above any sequence number
    NamesUser,      \* the application names the user when it answers to a group
    TwoWayEcho,     \* config twoway_echo: events carry an echo that answers repeat
    MaxS,           \* bound: packets of a session
    MaxRestarts     \* bound

Ids == {Author[m] : m \in Messages} \cup {Chat[m] : m \in Messages} \cup Messages

ASSUME MessagesAssumption ==
    /\ DOMAIN Author = Messages /\ DOMAIN Chat = Messages
    /\ NoKey \notin Ids \cup Int
ASSUME ConfigAssumption ==
    /\ Modes \subseteq [group : BOOLEAN, private : BOOLEAN]
    /\ {HashIdValue, TwoWayEcho, NamesUser} \subseteq BOOLEAN
    /\ MaxS \in Nat /\ MaxRestarts \in Nat

VARIABLES
    mode,       \* the configuration of this behaviour
    global_s,   \* discordgo: the sequence number of the last packet
    fwd,        \* idmap: the number of each id stored
    msgType,    \* echo.msgTypeMapping, without the keys it does not have
    saved,      \* config bucket, key "type" of a section
    userOf,     \* config bucket, key "user_id" of a section
    pc,         \* of each message's goroutine
    s,          \* the sequence number it read
    todo,       \* what it has yet to write
    reported,   \* the events the application got
    restarts    \* bound

vars == <<mode, global_s, fwd, msgType, saved, userOf, pc, s, todo, reported, restarts>>

NoType == ""
Private(m) == Chat[m] \in DMs

\* The lowest number there is: 1, or one with nine digits.
First == IF HashIdValue THEN MaxS + 1 ELSE 1
Numbers == First..(First + Cardinality(Ids) - 1)
Keys == 0..MaxS \cup Numbers

Init ==
    /\ mode \in Modes /\ global_s = 0
    /\ fwd = << >> /\ msgType = << >> /\ saved = << >> /\ userOf = << >>
    /\ pc = [m \in Messages |-> "sent"] /\ s = [m \in Messages |-> 0]
    /\ todo = [m \in Messages |-> << >>]
    /\ reported = {} /\ restarts = 0
----------------------------------------------------------------------------------------
\* A slip the properties must notice: an event whose types are kept in memory only.
EchoTo(k, t) == [to |-> "echo", key |-> k, type |-> t]
SaveTo(k, t) == [to |-> "config", key |-> k, type |-> t]
Saves_None(m) == << >>
----------------------------------------------------------------------------------------
Goto(m, l) == pc' = [pc EXCEPT ![m] = l]

\* How the event reaches the application.
As(m) ==
    IF Private(m) THEN IF ~mode.private THEN "private" ELSE IF mode.group THEN "group" ELSE "guild"
    ELSE IF mode.group THEN "group" ELSE "guild"

Type(m) == IF Private(m) THEN "guild_private" ELSE "guild"

\* What the variant of the handler does before it writes types: numbers for
\* user, chat and message, and the config bucket.
Path(m) ==
    CASE As(m) = "guild" -> <<"begin", "user", "write">>
      [] As(m) = "group" /\ ~Private(m) -> <<"begin", "chat", "user", "config", "number", "write">>
      [] OTHER -> <<"begin", "user", "chat", "config", "number", "write">>

GoOn(m) == LET p == Path(m) IN \E k \in 1..(Len(p) - 1) : p[k] = pc[m] /\ Goto(m, p[k + 1])

\* Before which step a message without text, or with words on a list, is dropped.
FilterAt(m) == CASE As(m) = "guild" -> "user" [] As(m) = "group" -> "number" [] OTHER -> "write"

\* A Go map with k set to v.
Put(f, k, v) == [j \in DOMAIN f \cup {k} |-> IF j = k THEN v ELSE f[j]]

Get(f, k, default) == IF k \in DOMAIN f THEN f[k] ELSE default

\* onEvent: a message arrives and its goroutine begins.
Arrive(m) ==
    /\ pc[m] = "sent" /\ global_s < MaxS
    /\ global_s' = global_s + 1
    /\ Goto(m, "begin")
    /\ UNCHANGED <<mode, fwd, msgType, saved, userOf, s, todo, reported, restarts>>

\* GetGlobalS.
ReadS(m) ==
    /\ pc[m] = "begin"
    /\ s' = [s EXCEPT ![m] = global_s]
    /\ GoOn(m)
    /\ UNCHANGED <<mode, global_s, fwd, msgType, saved, userOf, todo, reported, restarts>>

\* StoreIDv2, as IdMap promises it: an id keeps its number, a new one gets a
\* number nobody has.
NextNumber == First + Cardinality(DOMAIN fwd)

StoreIDv2(i) == fwd' = IF i \in DOMAIN fwd THEN fwd ELSE Put(fwd, i, NextNumber)

StoreChat(m) ==
    /\ pc[m] = "chat"
    /\ StoreIDv2(Chat[m])
    /\ GoOn(m)
    /\ UNCHANGED <<mode, global_s, msgType, saved, userOf, s, todo, reported, restarts>>

StoreUser(m) ==
    /\ pc[m] = "user"
    /\ StoreIDv2(Author[m])
    /\ GoOn(m)
    /\ UNCHANGED <<mode, global_s, msgType, saved, userOf, s, todo, reported, restarts>>

\* WriteConfigv2 of guild_id and channel_id, which nothing that is sent
\* depends on, and of user_id where a private chat becomes a group.
WriteConfig(m) ==
    /\ pc[m] = "config"
    /\ userOf' = IF Private(m) /\ mode.private THEN Put(userOf, fwd[Chat[m]], fwd[Author[m]])
                 ELSE userOf
    /\ GoOn(m)
    /\ UNCHANGED <<mode, global_s, fwd, msgType, saved, s, todo, reported, restarts>>

StoreMessage(m) ==
    /\ pc[m] = "number"
    /\ StoreIDv2(m)
    /\ GoOn(m)
    /\ UNCHANGED <<mode, global_s, msgType, saved, userOf, s, todo, reported, restarts>>

\* The text is empty, or a list of words holds it back: no event.
Filtered(m) ==
    /\ pc[m] = FilterAt(m) /\ todo[m] = << >>
    /\ Goto(m, "done")
    /\ UNCHANGED <<mode, global_s, fwd, msgType, saved, userOf, s, todo, reported, restarts>>

\* The keys whose type is kept in memory, and those saved, in the order the
\* four variants of the handlers write them.
Marks(m) ==
    LET user == IF Private(m) \/ As(m) = "guild" THEN <<EchoTo(fwd[Author[m]], Type(m))>> ELSE << >>
    IN  <<EchoTo(s[m], Type(m))>> \o user

Saves(m) ==
    CASE As(m) = "group" -> <<SaveTo(fwd[Chat[m]], Type(m)), EchoTo(fwd[Chat[m]], Type(m))>>
      [] As(m) = "private" -> <<SaveTo(fwd[Author[m]], Type(m))>>
      [] OTHER -> <<SaveTo(Chat[m], Type(m))>> \o
                  (IF Private(m) THEN <<SaveTo(fwd[Author[m]], Type(m))>> ELSE << >>)

Prepare(m) ==
    /\ pc[m] = "write" /\ todo[m] = << >>
    /\ todo' = [todo EXCEPT ![m] = Marks(m) \o Saves(m)]
    /\ UNCHANGED <<mode, global_s, fwd, msgType, saved, userOf, pc, s, reported, restarts>>

EventOf(m) ==
    [m |-> m, as |-> As(m), group |-> IF As(m) = "group" THEN fwd[Chat[m]] ELSE NoKey,
     user |-> fwd[Author[m]], echo |-> IF TwoWayEcho THEN s[m] ELSE NoKey]

\* AddMsgType or WriteConfigv2, and after the last of them the report.
Write(m) ==
    /\ pc[m] = "write" /\ todo[m] # << >>
    /\ LET e == Head(todo[m])
       IN  IF e.to = "echo" THEN msgType' = Put(msgType, e.key, e.type) /\ UNCHANGED saved
           ELSE saved' = Put(saved, e.key, e.type) /\ UNCHANGED msgType
    /\ todo' = [todo EXCEPT ![m] = Tail(@)]
    /\ IF Len(todo[m]) = 1
       THEN Goto(m, "done") /\ reported' = reported \cup {EventOf(m)}
       ELSE UNCHANGED <<pc, reported>>
    /\ UNCHANGED <<mode, global_s, fwd, userOf, s, restarts>>

\* The packet of another event, or one without a number, as the
\* acknowledgement of a heartbeat, which sets 0.
OtherPacket ==
    /\ global_s < MaxS /\ global_s' \in {0, global_s + 1}
    /\ UNCHANGED <<mode, fwd, msgType, saved, userOf, pc, s, todo, reported, restarts>>

\* The process ends and starts again: messages in hand are lost.
Restart ==
    /\ restarts < MaxRestarts /\ restarts' = restarts + 1
    /\ pc' = [m \in Messages |-> IF pc[m] = "sent" THEN "sent" ELSE "done"]
    /\ todo' = [m \in Messages |-> << >>] /\ s' = [m \in Messages |-> 0]
    /\ msgType' = << >> /\ global_s' = 0
    /\ UNCHANGED <<mode, fwd, saved, userOf, reported>>
----------------------------------------------------------------------------------------
\* The first type known of an answer: by its echo, its group and its user in
\* memory (send_private_msg asks for the user first), and both in the database.
TypeFound(as, echo, group, user) ==
    LET m(k) == Get(msgType, k, NoType)
        d(k) == Get(saved, k, NoType)
        found == IF as = "private" THEN <<m(echo), m(user), m(group), d(user), d(group)>>
                 ELSE <<m(echo), m(group), m(user), d(group), d(user)>>
        known == {k \in DOMAIN found : found[k] # NoType}
    IN  IF known = {} THEN NoType ELSE found[Min(known)]

\* RetrieveRowByID.
IdOf(n) == IF \E i \in DOMAIN fwd : fwd[i] = n THEN CHOOSE i \in DOMAIN fwd : fwd[i] = n ELSE NoKey

Nowhere == <<"nowhere", NoKey>>
ToUser(n) == IF IdOf(n) = NoKey THEN Nowhere ELSE <<"user", IdOf(n)>>

\* Where an answer ends: a channel, a private chat with a user, or nowhere.
\* Of a private chat that became a group the user is looked up.
Destination(as, echo, group, user, raw) ==
    LET t == TypeFound(as, echo, group, user)
    IN  CASE as = "group" /\ t = "guild" -> <<"channel", IdOf(group)>>
          [] as \in {"group", "private"} /\ t = "guild_private" ->
               ToUser(IF user # NoKey THEN user ELSE Get(userOf, group, NoKey))
          [] as = "guild" /\ t \in {NoType, "guild"} -> <<"channel", raw>>
          [] OTHER -> Nowhere

\* What an application fills in to answer event e: where it came from, and
\* with a group perhaps the user.
UserField(e) == IF e.as = "private" \/ (e.as = "group" /\ NamesUser) THEN e.user ELSE NoKey

Reaches(e) ==
    Destination(e.as, e.echo, e.group, UserField(e), Chat[e.m]) \in
        {<<"channel", Chat[e.m]>>} \cup (IF Private(e.m) THEN {<<"user", Author[e.m]>>} ELSE {})

\* An answer.  send_group_msg and send_private_msg set the type of the user,
\* or else of the group, to nothing when they are done.
Answer(e) ==
    LET u == UserField(e)
    IN  /\ e.as # "guild"
        /\ msgType' = Put(msgType, IF u # NoKey THEN u ELSE e.group, NoType)
        /\ UNCHANGED <<mode, global_s, fwd, saved, userOf, pc, s, todo, reported, restarts>>

Handle(m) ==
    \/ ReadS(m) \/ StoreChat(m) \/ StoreUser(m) \/ WriteConfig(m) \/ StoreMessage(m)
    \/ Filtered(m) \/ Prepare(m) \/ Write(m)

Next ==
    \/ \E m \in Messages : Arrive(m) \/ Handle(m)
    \/ \E e \in reported : Answer(e)
    \/ OtherPacket \/ Restart

Spec == Init /\ [][Next]_vars
----------------------------------------------------------------------------------------
\* An answer to an event reaches the chat the message came from: from the
\* moment the event is reported, after any other messages and answers, while
\* others are half handled, and after a restart.
AnswersArrive == \A e \in reported : Reaches(e)
========================================================================================

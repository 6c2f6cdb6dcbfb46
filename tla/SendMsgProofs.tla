-------------------------------- MODULE SendMsgProofs --------------------------------
(***************************************************************************)
(* That the enumeration of the types sends a message every way there is    *)
(* and no way twice, and leaves nothing behind, for any number of actions  *)
(* about any chats.  That it stays within its list and sends nothing twice *)
(* needs only that the application waits for the answer before the next    *)
(* action about a chat (~Overlap); the rest needs more of what it asks.    *)
(***************************************************************************)
EXTENDS SendMsg, SequenceTheorems, TLAPS

\* send_group_msg to a group that has no guild_id returns early.
Quits(a) == Request[a].handler = "send_group_msg" /\ Request[a].group \notin HasGuildId

\* What some results need to know of the actions: nobody else talks to a group
\* without a guild_id, and no echo word is the number of a chat.
Lone == \A a, b \in Actions : Quits(a) /\ Shares(a, b) => a = b
OwnWords == \A a, b \in Actions : Request[a].echo # NoKey => Request[a].echo # Id(b)

Places == {"idle", "resolve", "count", "mark", "dispatch", "channel", "reset", "clear",
           "read", "write", "more", "index", "try", "done"}

TypeOK ==
    /\ msgTypeMapping \in [Keys -> Types]
    /\ counterMapping \in [Keys -> Int]
    /\ savedType \in [Keys -> Saved]
    /\ pc \in [Actions -> Places]
    /\ msgType \in [Actions -> Types]
    /\ left \in [Actions -> Int]
    /\ outer \in [Actions -> Nat]
    /\ tried \in [Actions -> Seq({"guild", "guild_private"})]

\* Two actions under way are about different chats.
Serial == \A a, b \in Actions : Busy(a) /\ Busy(b) /\ Shares(a, b) => a = b

\* A key has no type that was only tried.
Kept(k) == msgTypeMapping[k] \in {NoType, savedType[k]}

\* Whose key may have one.
Uses(b, k) == Id(b) = k /\ (Busy(b) \/ (pc[b] = "done" /\ Quits(b)))

\* What nobody uses is at rest: nothing is left to count, and no type that was tried.
AtRest ==
    /\ \A k \in Keys : counterMapping[k] <= 0 \/ \E b \in Actions : Busy(b) /\ Id(b) = k
    /\ Lone => \A k \in Keys : Kept(k) \/ \E b \in Actions : Uses(b, k)

\* Of the keys an action is about none says anything but the one it writes.
Silent(a) ==
    /\ \A k \in {Request[a].echo, Request[a].group, Request[a].user} \ {Id(a)} :
          At(msgTypeMapping, k) = NoType
    /\ \A k \in {Request[a].group, Request[a].user} : At(savedType, k) = NoType

\* Something is known of them, if nobody else can have left it there.
Told(a) == Lone /\ OwnWords => ~Unknown(a)

\* The type written for what is left of the counter.
Level(c) == CASE c = 4 -> "group_private" [] c = 3 -> "guild_private" [] c = 2 -> "guild" [] OTHER -> "group"

\* What was sent, and how many calls wait, when the call of a level is through.
AsPrivate(a) == IF Quits(a) THEN <<>> ELSE <<"guild_private">>

SoFar(a, c) ==
    IF c >= 4 THEN <<>>
    ELSE IF c = 3 \/ Request[a].handler = "send_private_msg" THEN AsPrivate(a)
    ELSE Append(AsPrivate(a), "guild")

Waits(a, c) == IF c < 4 /\ Quits(a) THEN 0 ELSE 1

Found(a) == msgTypeMapping[Id(a)]

\* The first call has not looked yet.
Starts(a) ==
    /\ pc[a] = "resolve" /\ outer[a] = 0 /\ tried[a] = <<>>
    /\ Count(a) <= 0 /\ (Lone => Kept(Id(a)))

\* The type of an id was known: the message is sent one way.
Knows(a) ==
    /\ Told(a) /\ outer[a] = 0 /\ Count(a) <= 0
    /\ \/ pc[a] = "dispatch" /\ tried[a] = <<>>
       \/ pc[a] = "channel" /\ tried[a] = <<>>
       \/ pc[a] \in {"reset", "clear"} /\ Len(tried[a]) <= 1
       \/ pc[a] = "read" /\ Found(a) = NoType /\ Len(tried[a]) <= 1
       \/ pc[a] = "write" /\ Found(a) = NoType /\ left[a] <= 0 /\ Len(tried[a]) <= 1
       \/ pc[a] = "more" /\ Found(a) = NoType /\ Len(tried[a]) <= 1

\* No type was known: the counter is set, and the calls of the levels follow.
Probes(a) ==
    /\ Silent(a) /\ outer[a] = 0 /\ tried[a] = <<>> /\ Found(a) = NoType
    /\ pc[a] = "count" \/ (pc[a] = "mark" /\ Count(a) = 4)

Enters(a) ==
    /\ Silent(a) /\ Count(a) \in 1..4
    /\ Found(a) = Level(Count(a))
    /\ outer[a] = Waits(a, Count(a) + 1) /\ tried[a] = SoFar(a, Count(a) + 1)
    /\ \/ pc[a] = "resolve"
       \/ pc[a] = "dispatch" /\ msgType[a] = Level(Count(a))
       \/ pc[a] = "channel" /\ Count(a) = 2 /\ Request[a].handler # "send_private_msg"

Leaves(a) ==
    /\ Silent(a) /\ Count(a) \in 1..4
    /\ Found(a) = Level(Count(a))
    /\ outer[a] = Waits(a, Count(a)) /\ tried[a] = SoFar(a, Count(a))
    /\ pc[a] \in {"reset", "read"} \/ (pc[a] = "write" /\ left[a] = Count(a))

Descends(a) ==
    /\ Silent(a) /\ Count(a) \in 0..3
    /\ Found(a) = Level(Count(a) + 1)
    /\ outer[a] = Waits(a, Count(a) + 1) /\ tried[a] = SoFar(a, Count(a) + 1)
    /\ \/ pc[a] = "more"
       \/ pc[a] = "index" /\ Count(a) > 0
       \/ pc[a] = "try" /\ Count(a) > 0 /\ left[a] = Count(a)

\* And the call that probed, which waited, resets the type.
Ends(a) ==
    /\ Silent(a) /\ ~Quits(a) /\ outer[a] = 0 /\ tried[a] = SoFar(a, 1)
    /\ \/ pc[a] \in {"reset", "clear"} /\ Count(a) = 0
       \/ pc[a] = "read" /\ Count(a) = 0 /\ Found(a) = NoType
       \/ pc[a] = "write" /\ Count(a) = 0 /\ Found(a) = NoType /\ left[a] = 0
       \/ pc[a] = "more" /\ Count(a) = -1 /\ Found(a) = NoType

Doing(a) ==
    Starts(a) \/ Knows(a) \/ Probes(a) \/ Enters(a) \/ Leaves(a) \/ Descends(a) \/ Ends(a)

Once(s) == \A i, j \in DOMAIN s : s[i] = s[j] => i = j

Over(a) == Once(tried[a]) /\ (Told(a) \/ ToSet(tried[a]) = Ways(a))

SInv ==
    /\ TypeOK /\ Serial /\ AtRest
    /\ \A a \in Actions :
          /\ pc[a] = "idle" => tried[a] = <<>> /\ outer[a] = 0
          /\ Busy(a) => Doing(a)
          /\ pc[a] = "done" => Over(a)
--------------------------------------------------------------------------------------
\* Who an action is about.
LEMMA Chat ==
    ASSUME NEW a \in Actions
    PROVE  /\ Id(a) \in Keys \cap {Request[a].group, Request[a].user}
           /\ Id(a) # NoKey
           /\ \A k \in {Request[a].echo, Request[a].group, Request[a].user} : k = NoKey \/ k \in Keys
  BY RequestAssumption DEF Id

\* The first answer is one of the answers, and one that says something if any does.
LEMMA FirstOf ==
    ASSUME NEW s, DOMAIN s = 1..5
    PROVE  \/ FirstType(s) = NoType /\ \A i \in 1..5 : s[i] = NoType
           \/ \E i \in 1..5 : FirstType(s) = s[i] /\ s[i] # NoType
<1> DEFINE known == {i \in DOMAIN s : s[i] # NoType}
<1>1. CASE known = {}
  BY <1>1 DEF FirstType
<1>2. CASE known # {}
  <2>1. \E x \in known : \A y \in known : x =< y
    <3>1. CASE 1 \in known
      BY <3>1
    <3>2. CASE 1 \notin known /\ 2 \in known
      BY <3>2
    <3>3. CASE 1 \notin known /\ 2 \notin known /\ 3 \in known
      BY <3>3
    <3>4. CASE 1 \notin known /\ 2 \notin known /\ 3 \notin known /\ 4 \in known
      BY <3>4
    <3>5. CASE 1 \notin known /\ 2 \notin known /\ 3 \notin known /\ 4 \notin known
      BY <1>2, <3>5
    <3> QED BY <3>1, <3>2, <3>3, <3>4, <3>5
  <2>2. Min(known) \in known
    <3> HIDE DEF known
    <3> QED BY <2>1 DEF Min
  <2>3. FirstType(s) = s[Min(known)]
    BY <1>2 DEF FirstType
  <2> QED BY <2>2, <2>3
<1> QED BY <1>1, <1>2

\* An action under way has its keys for itself: nobody else writes them.
LEMMA OwnKeys ==
    ASSUME SInv, NEW a \in Actions, Busy(a), NEW b \in Actions, Busy(b), a # b
    PROVE  Id(b) \notin {Request[a].echo, Request[a].group, Request[a].user}
<1> SUFFICES ASSUME Id(b) \in {Request[a].echo, Request[a].group, Request[a].user} PROVE FALSE
  OBVIOUS
<1>1. Shares(a, b)
  BY Chat DEF Shares
<1> QED BY <1>1 DEF SInv, Serial

\* And those it does not write have no type that was only tried.
LEMMA OthersRest ==
    ASSUME SInv, Lone, NEW a \in Actions, Busy(a),
           NEW k \in {Request[a].echo, Request[a].group, Request[a].user} \ {NoKey, Id(a)}
    PROVE  k \in Keys /\ Kept(k)
<1>1. k \in Keys
  BY Chat
<1>2. ASSUME NEW b \in Actions, Uses(b, k) PROVE FALSE
  <2>1. Id(b) = k /\ k # NoKey /\ Shares(a, b) /\ Shares(b, a) /\ b # a
    BY <1>2, Chat DEF Uses, Shares
  <2>2. CASE Busy(b)
    BY <2>1, <2>2, OwnKeys
  <2>3. CASE pc[b] = "done" /\ Quits(b)
    BY <2>1, <2>3 DEF Lone
  <2> QED BY <1>2, <2>2, <2>3 DEF Uses
<1> QED BY <1>1, <1>2 DEF SInv, AtRest

\* When nothing else says anything a call finds the type that was written.
LEMMA FindsWritten ==
    ASSUME NEW a \in Actions, Silent(a),
           NEW first, NEW second, {first, second} = {Request[a].group, Request[a].user}
    PROVE  FirstType(Answers(a, first, second)) = Found(a)
<1> DEFINE s == Answers(a, first, second)
<1>1. DOMAIN s = 1..5
  BY DEF Answers
<1>2. \A k \in {Request[a].group, Request[a].user} :
          /\ At(savedType, k) = NoType
          /\ At(msgTypeMapping, k) \in {NoType, Found(a)}
  BY Chat DEF Silent, At, Found
<1>3. At(msgTypeMapping, Request[a].echo) \in {NoType, Found(a)}
  BY Chat DEF Silent, At, Found
<1>4. \A i \in 1..5 : s[i] \in {NoType, Found(a)}
  <2>1. s[1] \in {NoType, Found(a)}
    BY <1>3 DEF Answers
  <2>2. s[2] = At(msgTypeMapping, first) /\ s[3] = At(msgTypeMapping, second)
    BY DEF Answers
  <2>3. s[4] = At(savedType, first) /\ s[5] = At(savedType, second)
    BY DEF Answers
  <2> QED BY <1>2, <2>1, <2>2, <2>3
<1>5. \E i \in 1..5 : s[i] = Found(a)
  <2>1. s[2] = At(msgTypeMapping, first) /\ s[3] = At(msgTypeMapping, second)
    BY DEF Answers
  <2>2. At(msgTypeMapping, Id(a)) = Found(a) /\ Id(a) \in {first, second}
    BY Chat DEF At, Found
  <2> QED BY <2>1, <2>2
<1> HIDE DEF s
<1>6. FirstType(s) = Found(a)
  BY <1>1, <1>4, <1>5, FirstOf
<1> QED BY <1>6 DEF s

\* What the first call finds tells whether anything is known of the ids.
LEMMA FindsFirst ==
    ASSUME SInv, NEW a \in Actions, Starts(a)
    PROVE  \/ FindType(a) = NoType /\ Silent(a) /\ Found(a) = NoType
           \/ FindType(a) # NoType /\ FindType(a) \in Types /\ Told(a)
<1>1. Busy(a)
  BY DEF Starts, Busy
<1>2. \A k \in {Request[a].echo, Request[a].group, Request[a].user} :
         At(msgTypeMapping, k) \in Types /\ At(savedType, k) \in Types
  BY Chat DEF At, SInv, TypeOK, Types, Saved
<1>3. PICK first, second : /\ {first, second} = {Request[a].group, Request[a].user}
                           /\ FindType(a) = FirstType(Answers(a, first, second))
  BY DEF FindType
<1> DEFINE s == Answers(a, first, second)
<1>4. DOMAIN s = 1..5
  BY DEF Answers
<1>5. s[1] = At(msgTypeMapping, Request[a].echo)
  BY DEF Answers
<1>6. s[2] = At(msgTypeMapping, first) /\ s[3] = At(msgTypeMapping, second)
  BY DEF Answers
<1>7. s[4] = At(savedType, first) /\ s[5] = At(savedType, second)
  BY DEF Answers
<1>8. Found(a) = At(msgTypeMapping, Id(a)) /\ Id(a) \in {first, second}
  BY <1>3, Chat DEF At, Found
<1>9. (\A i \in 1..5 : s[i] = NoType) => Silent(a) /\ Found(a) = NoType
  BY <1>3, <1>5, <1>6, <1>7, <1>8 DEF Silent
<1>10. \A i \in 1..5 : s[i] \in Types
  BY <1>2, <1>3, <1>5, <1>6, <1>7
<1>11. ASSUME NEW i \in 1..5, s[i] # NoType, Lone PROVE ~Unknown(a)
  <2>1. \A k \in {first, second} : At(msgTypeMapping, k) \in {NoType, At(savedType, k)}
    BY <1>1, <1>3, <1>11, OthersRest, Chat DEF Starts, Kept, At
  <2>2. Unknown(a) <=> s[1] = NoType /\ s[4] = NoType /\ s[5] = NoType
    BY <1>3, <1>5, <1>7 DEF Unknown
  <2> QED BY <1>6, <1>7, <1>11, <2>1, <2>2
<1> HIDE DEF s
<1>12. \/ FirstType(s) = NoType /\ \A i \in 1..5 : s[i] = NoType
       \/ \E i \in 1..5 : FirstType(s) = s[i] /\ s[i] # NoType
  BY <1>4, FirstOf
<1>13. FindType(a) = FirstType(s)
  BY <1>3 DEF s
<1> QED BY <1>9, <1>10, <1>11, <1>12, <1>13 DEF Told

\* What an action knows does not change by the steps of others, nor by its own:
\* where no echo word is the number of a chat, none is written under.
LEMMA ToldLasts ==
    ASSUME NEW b \in Actions, savedType' = savedType,
           \A k \in Keys \ {Id(b)} : msgTypeMapping'[k] = msgTypeMapping[k]
    PROVE  \A a \in Actions : Told(a)' <=> Told(a)
<1> SUFFICES ASSUME NEW a \in Actions PROVE Told(a)' <=> Told(a)
  OBVIOUS
<1>1. CASE OwnWords
  <2>1. Request[a].echo # NoKey => Request[a].echo \in Keys \ {Id(b)}
    BY <1>1, Chat DEF OwnWords
  <2>2. Unknown(a)' <=> Unknown(a)
    BY <2>1 DEF Unknown, At
  <2>3. (Lone' <=> Lone) /\ (OwnWords' <=> OwnWords)
    BY DEF Lone, OwnWords, Quits, Shares, Id
  <2> QED BY <2>2, <2>3 DEF Told
<1>2. CASE ~OwnWords
  <2>1. OwnWords' <=> OwnWords
    BY DEF OwnWords, Id
  <2> QED BY <1>2, <2>1 DEF Told
<1> QED BY <1>1, <1>2

\* An action is not the one to break its silence, nor is one that does not
\* write its keys.
LEMMA SilentLasts ==
    ASSUME NEW b \in Actions, savedType' = savedType,
           \A k \in Keys \ {Id(b)} : msgTypeMapping'[k] = msgTypeMapping[k],
           NEW a \in Actions,
           a = b \/ Id(b) \notin {Request[a].echo, Request[a].group, Request[a].user}
    PROVE  Silent(a)' <=> Silent(a)
<1>1. \A k \in {Request[a].echo, Request[a].group, Request[a].user} \ {Id(a)} :
         At(msgTypeMapping, k)' = At(msgTypeMapping, k)
  BY Chat DEF At
<1>2. Id(a)' = Id(a) /\ \A k : At(savedType, k)' = At(savedType, k)
  BY DEF Id, At
<1> QED BY <1>1, <1>2 DEF Silent

\* A step of one action leaves the others what they have.
Local(b) ==
    /\ savedType' = savedType
    /\ \A k \in Keys \ {Id(b)} :
          msgTypeMapping'[k] = msgTypeMapping[k] /\ counterMapping'[k] = counterMapping[k]
    /\ \A a \in Actions \ {b} :
          /\ pc'[a] = pc[a] /\ msgType'[a] = msgType[a] /\ left'[a] = left[a]
          /\ outer'[a] = outer[a] /\ tried'[a] = tried[a]

\* What an action knows is as before.
Lasts(a) == (Told(a)' <=> Told(a)) /\ (Silent(a)' <=> Silent(a))

LEMMA AllLasts ==
    ASSUME NEW b \in Actions, Local(b)
    PROVE  Lasts(b)
  BY ToldLasts, SilentLasts DEF Local, Lasts

LEMMA Framed ==
    ASSUME SInv, NEW b \in Actions, Busy(b), TypeOK',
           Local(b),
           pc'[b] # "idle",
           pc'[b] # "done" => Doing(b)',
           pc'[b] = "done" => Over(b)' /\ Count(b)' <= 0 /\ (Quits(b) \/ Kept(Id(b))')
    PROVE  SInv'
<1> USE DEF Local
<1>1. \A a \in Actions : Told(a)' <=> Told(a)
  BY ToldLasts
<1>2. pc'[b] = "done" \/ Busy(b)'
  BY DEF Busy, TypeOK, Places
<1>3. \A a \in Actions : Busy(a)' => Busy(a)
  BY DEF Busy
<1>4. Serial'
  BY <1>3 DEF Serial, SInv, Shares
<1>5. AtRest'
  <2>1. \A c \in Actions \ {b} : (Busy(c)' <=> Busy(c)) /\ (pc'[c] = "done" <=> pc[c] = "done")
    BY DEF Busy
  <2>2. ASSUME NEW k \in Keys, ~(counterMapping'[k] <= 0) PROVE \E c \in Actions : Busy(c)' /\ Id(c)' = k
    <3>1. CASE k = Id(b)
      <4>1. Busy(b)'
        BY <1>2, <2>2, <3>1 DEF Count, Id
      <4> QED BY <3>1, <4>1 DEF Id
    <3>2. CASE k # Id(b)
      <4>1. PICK c \in Actions : Busy(c) /\ Id(c) = k
        BY <2>2, <3>2 DEF SInv, AtRest
      <4> QED BY <2>1, <3>2, <4>1 DEF Id
    <3> QED BY <3>1, <3>2
  <2>3. ASSUME Lone, NEW k \in Keys, ~Kept(k)' PROVE \E c \in Actions : Uses(c, k)'
    <3>1. CASE k = Id(b)
      <4>1. Uses(b, k)'
        BY <1>2, <2>3, <3>1 DEF Uses, Quits, Id
      <4> QED BY <4>1
    <3>2. CASE k # Id(b)
      <4>1. ~Kept(k)
        BY <2>3, <3>2 DEF Kept
      <4>2. PICK c \in Actions : Uses(c, k)
        BY <2>3, <4>1 DEF SInv, AtRest
      <4>3. Uses(c, k)'
        BY <2>1, <3>2, <4>2 DEF Uses, Quits, Id
      <4> QED BY <4>3
    <3> QED BY <3>1, <3>2
  <2>4. Lone' <=> Lone
    BY DEF Lone, Quits, Shares
  <2> QED BY <2>2, <2>3, <2>4 DEF AtRest
<1>6. ASSUME NEW a \in Actions, a # b, Busy(a)' PROVE Doing(a)'
  <2>1. Busy(a) /\ Doing(a)
    BY <1>3, <1>6 DEF SInv
  <2>2. Id(b) \notin {Request[a].echo, Request[a].group, Request[a].user} /\ Id(a) # Id(b)
    BY <1>6, <2>1, OwnKeys, Chat
  <2>3. Id(a) \in Keys /\ Id(a)' = Id(a)
    BY Chat DEF Id
  <2>4. /\ Found(a)' = Found(a) /\ Count(a)' = Count(a)
        /\ (Lone => Kept(Id(a))) => (Lone => Kept(Id(a)))'
    <3>1. Lone' <=> Lone
      BY DEF Lone, Quits, Shares
    <3> QED BY <2>2, <2>3, <3>1 DEF Found, Count, Kept
  <2>5. /\ pc'[a] = pc[a] /\ msgType'[a] = msgType[a] /\ left'[a] = left[a]
        /\ outer'[a] = outer[a] /\ tried'[a] = tried[a]
        /\ Told(a)' <=> Told(a)
        /\ Silent(a)' <=> Silent(a)
    BY <1>1, <1>6, <2>2, SilentLasts
  <2>6. Starts(a) => Starts(a)'
    BY <2>4, <2>5 DEF Starts
  <2>7. Knows(a) => Knows(a)'
    BY <2>4, <2>5 DEF Knows
  <2>8. Probes(a) => Probes(a)'
    BY <2>4, <2>5 DEF Probes
  <2>9. \A c : /\ SoFar(a, c)' = SoFar(a, c)
               /\ Waits(a, c)' = Waits(a, c)
               /\ Level(c)' = Level(c)
    BY DEF SoFar, AsPrivate, Waits, Level, Quits
  <2>10. Enters(a) => Enters(a)'
    BY <2>4, <2>5, <2>9 DEF Enters
  <2>11. Leaves(a) => Leaves(a)'
    BY <2>4, <2>5, <2>9 DEF Leaves
  <2>12. Descends(a) => Descends(a)'
    BY <2>4, <2>5, <2>9 DEF Descends
  <2>13. Ends(a) => Ends(a)'
    BY <2>4, <2>5, <2>9 DEF Ends, Quits
  <2> QED BY <2>1, <2>6, <2>7, <2>8, <2>10, <2>11, <2>12, <2>13 DEF Doing
<1>7. ASSUME NEW a \in Actions, a # b, pc'[a] = "done" PROVE Over(a)'
  BY <1>1, <1>7 DEF SInv, Over, Ways, Once
<1>8. ASSUME NEW a \in Actions, pc'[a] = "idle" PROVE tried'[a] = <<>> /\ outer'[a] = 0
  BY <1>8 DEF SInv
<1>9. Busy(b)' => Doing(b)'
  BY DEF Busy
<1> QED BY <1>4, <1>5, <1>6, <1>7, <1>8, <1>9 DEF SInv

\* The levels, from the first.
LEMMA Levels ==
    ASSUME NEW a \in Actions
    PROVE  /\ Level(4) = "group_private" /\ Level(3) = "guild_private"
           /\ Level(2) = "guild" /\ Level(1) = "group"
           /\ Waits(a, 5) = 1 /\ Waits(a, 4) = 1
           /\ \A c \in 1..3 : Waits(a, c) = IF Quits(a) THEN 0 ELSE 1
           /\ SoFar(a, 5) = <<>> /\ SoFar(a, 4) = <<>>
           /\ SoFar(a, 3) = AsPrivate(a)
           /\ SoFar(a, 2) = IF Request[a].handler = "send_private_msg" THEN SoFar(a, 3)
                            ELSE Append(SoFar(a, 3), "guild")
           /\ SoFar(a, 1) = SoFar(a, 2)
  BY DEF Level, Waits, SoFar

\* At the last level every way was tried, and none twice.
LEMMA AllTried ==
    ASSUME NEW a \in Actions, tried[a] = SoFar(a, 1)
    PROVE  Over(a)
<1>1. CASE Quits(a)
  <2>1. tried[a] = Append(<<>>, "guild") /\ Ways(a) = {"guild"}
    BY <1>1 DEF SoFar, AsPrivate, Ways, Quits
  <2>2. Append(<<>>, "guild") = <<"guild">>
    OBVIOUS
  <2> QED BY <2>1, <2>2 DEF Over, Once, ToSet
<1>2. CASE Request[a].handler = "send_private_msg"
  <2>1. tried[a] = <<"guild_private">> /\ Ways(a) = {"guild_private"}
    BY <1>2 DEF SoFar, AsPrivate, Ways, Quits
  <2> QED BY <2>1 DEF Over, Once, ToSet
<1>3. CASE ~Quits(a) /\ Request[a].handler # "send_private_msg"
  <2> DEFINE s == Append(<<"guild_private">>, "guild")
  <2>1. tried[a] = s /\ Ways(a) = {"guild_private", "guild"}
    BY <1>3, RequestAssumption DEF SoFar, AsPrivate, Ways, Quits
  <2>2. <<"guild_private">> \in Seq({"guild", "guild_private"}) /\ Len(<<"guild_private">>) = 1
    OBVIOUS
  <2>3. DOMAIN s = 1..2 /\ s[1] = "guild_private" /\ s[2] = "guild"
    BY <2>2, AppendProperties
  <2> HIDE DEF s
  <2> QED BY <2>1, <2>3 DEF Over, Once, ToSet
<1> QED BY <1>1, <1>2, <1>3

\* What a handler does is its own: it goes on with it while nothing of it changes.
LEMMA DoingStays ==
    ASSUME NEW b \in Actions, Doing(b),
           UNCHANGED <<pc[b], msgType[b], left[b], outer[b], tried[b], Count(b), Found(b)>>,
           Silent(b)' <=> Silent(b), Told(b)' <=> Told(b), (Lone => Kept(Id(b))) => (Lone => Kept(Id(b)))'
    PROVE  Doing(b)'
<1>1. CASE Starts(b)
  BY <1>1 DEF Doing, Starts
<1>2. CASE Knows(b)
  BY <1>2 DEF Doing, Knows
<1>3. CASE Probes(b)
  BY <1>3 DEF Doing, Probes
<1>4. CASE Enters(b)
  BY <1>4 DEF Doing, Enters
<1>5. CASE Leaves(b)
  BY <1>5 DEF Doing, Leaves
<1>6. CASE Descends(b)
  BY <1>6 DEF Doing, Descends
<1>7. CASE Ends(b)
  BY <1>7 DEF Doing, Ends
<1> QED BY <1>1, <1>2, <1>3, <1>4, <1>5, <1>6, <1>7 DEF Doing

LEMMA CallStep ==
    ASSUME SInv, ~Overlap, NEW a \in Actions, Call(a)
    PROVE  SInv'
<1>1. /\ pc[a] = "idle" /\ pc' = [pc EXCEPT ![a] = "resolve"]
      /\ \A b \in Actions : Busy(b) => ~Shares(a, b)
      /\ UNCHANGED <<msgTypeMapping, counterMapping, savedType, msgType, left, outer, tried>>
  BY DEF Call, Goto
<1>2. TypeOK'
  BY <1>1 DEF SInv, TypeOK, Places
<1>3. Serial'
  <2>1. \A b, c \in Actions : Shares(b, c) <=> Shares(c, b)
    BY DEF Shares
  <2> QED BY <1>1, <2>1 DEF SInv, Serial, Busy, Shares, TypeOK
<1>4. /\ \A k \in Keys : Kept(k)' <=> Kept(k)
      /\ Lone' <=> Lone
  BY <1>1 DEF Kept, Lone, Quits, Shares
<1>5. \A b \in Actions : (Busy(b) => Busy(b)') /\ (\A k : Uses(b, k) => Uses(b, k)') /\ Id(b)' = Id(b)
  BY <1>1 DEF SInv, TypeOK, Uses, Busy, Quits, Id
<1>6. AtRest'
  BY <1>1, <1>4, <1>5 DEF SInv, AtRest
<1>7. Starts(a)'
  <2>1. \A b \in Actions : Id(b) = Id(a) => Shares(a, b) /\ Shares(b, a)
    BY Chat DEF Shares
  <2>2. Count(a) <= 0
    BY <1>1, <2>1, Chat DEF SInv, AtRest, Count
  <2>3. ASSUME Lone PROVE Kept(Id(a))
    <3> SUFFICES ASSUME NEW b \in Actions, Uses(b, Id(a)) PROVE FALSE
      BY <2>3, Chat DEF SInv, AtRest
    <3> QED BY <1>1, <2>1, <2>3 DEF Uses, Lone
  <2>4. pc'[a] = "resolve" /\ Count(a)' = Count(a) /\ (Kept(Id(a))' <=> Kept(Id(a)))
    BY <1>1 DEF SInv, TypeOK, Count, Kept, Id
  <2> QED BY <1>1, <1>4, <2>2, <2>3, <2>4 DEF SInv, Starts
<1>8. \A b \in Actions : (Silent(b)' <=> Silent(b)) /\ (Told(b)' <=> Told(b))
  BY <1>1 DEF Silent, Told, Unknown, Lone, OwnWords, Quits, Shares, Id, At
<1>9. ASSUME NEW b \in Actions, b # a, Busy(b)' PROVE Doing(b)'
  <2>1. Busy(b) /\ Doing(b) /\ pc'[b] = pc[b]
    BY <1>1, <1>9 DEF Busy, SInv, TypeOK
  <2>2. Kept(Id(b))' <=> Kept(Id(b))
    BY <1>1 DEF Kept, Id
  <2>3. UNCHANGED <<pc[b], msgType[b], left[b], outer[b], tried[b], Count(b), Found(b)>>
    BY <1>1, <2>1 DEF Count, Found, Id
  <2> QED BY <1>4, <1>8, <2>1, <2>2, <2>3, DoingStays
<1>10. ASSUME NEW b \in Actions, pc'[b] = "done" PROVE Over(b)'
  <2>1. pc[b] = "done" /\ Over(b)
    BY <1>1, <1>10 DEF SInv, TypeOK
  <2> QED BY <1>1, <1>8, <2>1 DEF Over, Ways
<1>11. ASSUME NEW b \in Actions, pc'[b] = "idle" PROVE tried'[b] = <<>> /\ outer'[b] = 0
  BY <1>1, <1>11 DEF SInv, TypeOK
<1> QED BY <1>2, <1>3, <1>6, <1>7, <1>9, <1>10, <1>11 DEF SInv, Doing

LEMMA ResolveStep ==
    ASSUME SInv, NEW a \in Actions, Resolve(a)
    PROVE  SInv'
<1>1. /\ pc[a] = "resolve" /\ Busy(a) /\ Doing(a)
      /\ msgType' = [msgType EXCEPT ![a] = FindType(a)]
      /\ pc' = [pc EXCEPT ![a] = IF FindType(a) = NoType THEN "count" ELSE "dispatch"]
      /\ UNCHANGED <<msgTypeMapping, counterMapping, savedType, left, outer, tried>>
  BY DEF Resolve, Goto, Busy, SInv
<1>2. Local(a)
  BY <1>1 DEF Local, SInv, TypeOK
<1>3. Lasts(a)
  BY <1>2, AllLasts
<1>4. CASE Starts(a)
  <2>1. TypeOK'
    BY <1>1, <1>4, FindsFirst DEF SInv, TypeOK, Places, Types, Saved
  <2>2. CASE FindType(a) = NoType
    <3>1. Probes(a)'
      BY <1>1, <1>3, <1>4, <2>2, FindsFirst DEF Starts, Probes, Lasts, Found, Id, NoType, SInv, TypeOK
    <3> QED BY <1>1, <1>2, <2>1, <2>2, <3>1, Framed DEF Doing, SInv, TypeOK
  <2>3. CASE FindType(a) # NoType
    <3>1. Knows(a)'
      BY <1>1, <1>3, <1>4, <2>3, FindsFirst DEF Starts, Knows, Lasts, Count, Id, SInv, TypeOK
    <3> QED BY <1>1, <1>2, <2>1, <2>3, <3>1, Framed DEF Doing, SInv, TypeOK
  <2> QED BY <2>2, <2>3
<1>5. CASE Enters(a)
  <2>1. FindType(a) = Found(a)
    BY <1>1, <1>5, FindsWritten DEF FindType, Enters
  <2>2. Found(a) = Level(Count(a)) /\ Level(Count(a)) # NoType /\ Level(Count(a)) \in Types
    BY <1>5 DEF Lasts, Enters, Level, NoType, Types, Saved
  <2>3. TypeOK'
    BY <1>1, <2>1, <2>2 DEF SInv, TypeOK, Places
  <2>4. Enters(a)'
    BY <1>1, <1>3, <1>5, <2>1, <2>2
       DEF Lasts, Enters, Found, Count, Id, Level, Waits, SoFar, AsPrivate, Quits, SInv, TypeOK
  <2> QED BY <1>1, <1>2, <2>1, <2>2, <2>3, <2>4, Framed DEF Doing, SInv, TypeOK
<1> QED
  BY <1>1, <1>4, <1>5 DEF Doing, Starts, Knows, Probes, Enters, Leaves, Descends, Ends

LEMMA SetCounterStep ==
    ASSUME SInv, NEW a \in Actions, SetCounter(a)
    PROVE  SInv'
<1>1. /\ pc[a] = "count" /\ Busy(a) /\ Doing(a)
      /\ counterMapping' = [counterMapping EXCEPT ![Id(a)] = 4]
      /\ pc' = [pc EXCEPT ![a] = "mark"]
      /\ UNCHANGED <<msgTypeMapping, savedType, msgType, left, outer, tried>>
  BY DEF SetCounter, Goto, Busy, SInv
<1>2. Local(a) /\ TypeOK'
  BY <1>1, Chat DEF Local, SInv, TypeOK, Places
<1>3. Lasts(a)
  BY <1>2, AllLasts
<1>4. Probes(a)
  BY <1>1 DEF Doing, Starts, Knows, Probes, Enters, Leaves, Descends, Ends
<1>5. Probes(a)'
  BY <1>1, <1>3, <1>4, Chat DEF Lasts, Probes, Found, Count, Id, SInv, TypeOK
<1> QED BY <1>1, <1>2, <1>5, Framed DEF Doing, SInv, TypeOK

LEMMA ProbeStep ==
    ASSUME SInv, NEW a \in Actions, Probe(a)
    PROVE  SInv'
<1>1. /\ pc[a] = "mark" /\ Busy(a) /\ Doing(a)
      /\ msgTypeMapping' = [msgTypeMapping EXCEPT ![Id(a)] = "group_private"]
      /\ outer' = [outer EXCEPT ![a] = @ + 1]
      /\ pc' = [pc EXCEPT ![a] = "resolve"]
      /\ UNCHANGED <<counterMapping, savedType, msgType, left, tried>>
  BY DEF Probe, SetType, Goto, Busy, SInv
<1>2. Local(a) /\ TypeOK'
  BY <1>1, Chat DEF Local, SInv, TypeOK, Places, Types
<1>3. Lasts(a)
  BY <1>2, AllLasts
<1>4. Probes(a) /\ Count(a) = 4
  BY <1>1 DEF Doing, Starts, Knows, Probes, Enters, Leaves, Descends, Ends
<1>5. Found(a)' = "group_private" /\ Count(a)' = 4 /\ outer'[a] = 1 /\ tried'[a] = <<>> /\ pc'[a] = "resolve"
  BY <1>1, <1>4, Chat DEF Lasts, Probes, Found, Count, Id, SInv, TypeOK
<1>6. Enters(a)'
  BY <1>3, <1>4, <1>5 DEF Lasts, Probes, Enters, Level, Waits, SoFar
<1> QED BY <1>1, <1>2, <1>5, <1>6, Framed DEF Doing

\* What the functions of an action say at another level or in another state.
LEMMA SameLevels ==
    ASSUME NEW a \in Actions, NEW c
    PROVE  /\ SoFar(a, c)' = SoFar(a, c') /\ Waits(a, c)' = Waits(a, c') /\ Level(c)' = Level(c')
           /\ Quits(a)' = Quits(a)
  BY DEF SoFar, Waits, Level, AsPrivate, Quits

LEMMA DispatchStep ==
    ASSUME SInv, NEW a \in Actions, Dispatch(a)
    PROVE  SInv'
<1>1. /\ pc[a] = "dispatch" /\ Busy(a) /\ Doing(a)
      /\ UNCHANGED <<msgTypeMapping, counterMapping, savedType, msgType, left>>
      /\ \/ /\ msgType[a] = "guild" /\ Request[a].handler # "send_private_msg"
            /\ pc' = [pc EXCEPT ![a] = "channel"] /\ UNCHANGED <<outer, tried>>
         \/ /\ msgType[a] = "guild_private" /\ Quits(a)
            /\ pc' = [pc EXCEPT ![a] = IF outer[a] > 0 THEN "reset" ELSE "done"]
            /\ outer' = [outer EXCEPT ![a] = IF @ > 0 THEN @ - 1 ELSE 0]
            /\ UNCHANGED tried
         \/ /\ msgType[a] = "guild_private" /\ ~Quits(a)
            /\ tried' = [tried EXCEPT ![a] = Append(@, "guild_private")]
            /\ pc' = [pc EXCEPT ![a] = "reset"] /\ UNCHANGED outer
         \/ /\ msgType[a] # "guild" \/ Request[a].handler = "send_private_msg"
            /\ msgType[a] # "guild_private"
            /\ pc' = [pc EXCEPT ![a] = "reset"] /\ UNCHANGED <<outer, tried>>
  BY DEF Dispatch, Return, Sent, Goto, Busy, Quits, SInv
<1>2. TypeOK'
  <2>1. Append(tried[a], "guild_private") \in Seq({"guild", "guild_private"})
    BY DEF SInv, TypeOK
  <2>2. tried' \in [Actions -> Seq({"guild", "guild_private"})]
    BY <1>1, <2>1 DEF SInv, TypeOK
  <2>3. pc' \in [Actions -> Places]
    BY <1>1 DEF SInv, TypeOK, Places
  <2>4. outer' \in [Actions -> Nat]
    <3>1. outer[a] \in Nat /\ (outer[a] > 0 => outer[a] - 1 \in Nat)
      BY DEF SInv, TypeOK
    <3> QED BY <1>1, <3>1 DEF SInv, TypeOK
  <2> QED BY <1>1, <2>2, <2>3, <2>4 DEF SInv, TypeOK
<1>3. Local(a)
  BY <1>1 DEF Local, SInv, TypeOK
<1>4. /\ Lasts(a)
      /\ Found(a)' = Found(a) /\ Count(a)' = Count(a) /\ (Kept(Id(a))' <=> Kept(Id(a)))
  <2>1. Lasts(a)
    BY <1>3, AllLasts
  <2> QED BY <1>1, <2>1 DEF Found, Count, Id, Kept
<1>5. Knows(a) \/ Enters(a)
  BY <1>1 DEF Doing, Starts, Knows, Probes, Enters, Leaves, Descends, Ends
<1>6. CASE Knows(a)
  <2>1. Told(a) /\ outer[a] = 0 /\ Count(a) <= 0 /\ tried[a] = <<>>
    BY <1>1, <1>6 DEF Knows
  <2>2. CASE pc'[a] = "done"
    <3>1. outer'[a] = 0 /\ tried'[a] = <<>> /\ Quits(a)
      BY <1>1, <2>1, <2>2 DEF SInv, TypeOK
    <3>2. Over(a)'
      BY <1>4, <2>1, <3>1 DEF Lasts, Over, Once
    <3> QED BY <1>1, <1>2, <1>3, <1>4, <2>1, <2>2, <3>1, <3>2, Framed
  <2>3. CASE pc'[a] # "done"
    <3>1. /\ pc'[a] \in {"channel", "reset"} /\ outer'[a] = 0
          /\ pc'[a] = "channel" => tried'[a] = <<>>
          /\ tried'[a] \in {<<>>, Append(<<>>, "guild_private")}
      BY <1>1, <2>1, <2>3 DEF SInv, TypeOK
    <3>2. Len(tried'[a]) <= 1
      <4>1. Append(<<>>, "guild_private") = <<"guild_private">>
        OBVIOUS
      <4>2. Len(<<>>) = 0 /\ Len(<<"guild_private">>) = 1
        OBVIOUS
      <4>3. CASE tried'[a] = <<>>
        BY <4>2, <4>3
      <4>4. CASE tried'[a] = <<"guild_private">>
        BY <4>2, <4>4
      <4> QED BY <3>1, <4>1, <4>3, <4>4
    <3>3. Knows(a)'
      BY <1>4, <2>1, <3>1, <3>2 DEF Lasts, Knows
    <3> QED BY <1>1, <1>2, <1>3, <3>1, <3>3, Framed DEF Doing
  <2> QED BY <2>2, <2>3
<1>7. CASE Enters(a)
  <2> DEFINE c == Count(a)
  <2>1. /\ Silent(a) /\ c \in 1..4 /\ msgType[a] = Level(c) /\ Found(a) = Level(c)
        /\ outer[a] = Waits(a, c + 1) /\ tried[a] = SoFar(a, c + 1)
    BY <1>1, <1>7 DEF Enters
  <2>2. CASE c = 4
    <3>1. pc'[a] = "reset" /\ outer'[a] = Waits(a, 4) /\ tried'[a] = SoFar(a, 4)
      BY <1>1, <2>1, <2>2, Levels DEF SInv, TypeOK
    <3>2. Leaves(a)'
      BY <1>4, <2>1, <2>2, <3>1, SameLevels DEF Lasts, Leaves
    <3> QED BY <1>1, <1>2, <1>3, <3>1, <3>2, Framed DEF Doing
  <2>3. CASE c = 3
    <3>0. msgType[a] = "guild_private" /\ outer[a] = 1 /\ tried[a] = <<>>
      BY <2>1, <2>3, Levels
    <3>1. pc'[a] = "reset" /\ outer'[a] = Waits(a, 3) /\ tried'[a] = SoFar(a, 3)
      <4>1. CASE Quits(a)
        <5>1. SoFar(a, 3) = <<>> /\ Waits(a, 3) = 0
          BY <4>1, Levels DEF AsPrivate
        <5> QED BY <1>1, <3>0, <4>1, <5>1 DEF SInv, TypeOK
      <4>2. CASE ~Quits(a)
        <5>1. SoFar(a, 3) = <<"guild_private">> /\ Waits(a, 3) = 1
          BY <4>2, Levels DEF AsPrivate
        <5>2. Append(<<>>, "guild_private") = <<"guild_private">>
          OBVIOUS
        <5> QED BY <1>1, <3>0, <4>2, <5>1, <5>2 DEF SInv, TypeOK
      <4> QED BY <4>1, <4>2
    <3>2. Leaves(a)'
      BY <1>4, <2>1, <2>3, <3>1, SameLevels DEF Lasts, Leaves
    <3> QED BY <1>1, <1>2, <1>3, <3>1, <3>2, Framed DEF Doing
  <2>4. CASE c = 2 /\ Request[a].handler # "send_private_msg"
    <3>1. pc'[a] = "channel" /\ outer'[a] = outer[a] /\ tried'[a] = tried[a]
      BY <1>1, <2>1, <2>4, Levels DEF SInv, TypeOK
    <3>2. Enters(a)'
      BY <1>4, <2>1, <2>4, <3>1, SameLevels DEF Lasts, Enters
    <3> QED BY <1>1, <1>2, <1>3, <3>1, <3>2, Framed DEF Doing
  <2>5. CASE (c = 2 /\ Request[a].handler = "send_private_msg") \/ c = 1
    <3>1. pc'[a] = "reset" /\ outer'[a] = Waits(a, c) /\ tried'[a] = SoFar(a, c)
      BY <1>1, <2>1, <2>5, Levels DEF SInv, TypeOK
    <3>2. Leaves(a)'
      BY <1>4, <2>1, <3>1, SameLevels DEF Lasts, Leaves
    <3> QED BY <1>1, <1>2, <1>3, <3>1, <3>2, Framed DEF Doing
  <2> QED BY <2>1, <2>2, <2>3, <2>4, <2>5
<1> QED BY <1>5, <1>6, <1>7

LEMMA ChannelStep ==
    ASSUME SInv, NEW a \in Actions, SendGuildChannelMsg(a)
    PROVE  SInv'
<1> DEFINE t == FirstType(Answers(a, Request[a].group, Request[a].user))
<1>1. /\ pc[a] = "channel" /\ Busy(a) /\ Doing(a)
      /\ pc' = [pc EXCEPT ![a] = "reset"]
      /\ UNCHANGED <<msgTypeMapping, counterMapping, savedType, msgType, left, outer>>
      /\ \/ t \in {NoType, "guild"} /\ tried' = [tried EXCEPT ![a] = Append(@, "guild")]
         \/ t = "guild_private" /\ tried' = [tried EXCEPT ![a] = Append(@, "guild_private")]
         \/ t \notin {NoType, "guild"} /\ tried' = tried
  BY DEF SendGuildChannelMsg, Sent, Goto, Busy, SInv
<1> HIDE DEF t
<1>2. TypeOK'
  <2>1. /\ Append(tried[a], "guild_private") \in Seq({"guild", "guild_private"})
        /\ Append(tried[a], "guild") \in Seq({"guild", "guild_private"})
    BY DEF SInv, TypeOK
  <2>2. tried' \in [Actions -> Seq({"guild", "guild_private"})]
    BY <1>1, <2>1 DEF SInv, TypeOK
  <2> QED BY <1>1, <2>2 DEF SInv, TypeOK, Places
<1>3. Local(a) /\ pc'[a] = "reset"
  BY <1>1 DEF Local, SInv, TypeOK
<1>4. /\ Lasts(a)
      /\ Found(a)' = Found(a) /\ Count(a)' = Count(a) /\ (Kept(Id(a))' <=> Kept(Id(a)))
  <2>1. Lasts(a)
    BY <1>3, AllLasts
  <2> QED BY <1>1, <2>1 DEF Found, Count, Id, Kept
<1>5. Knows(a) \/ Enters(a)
  BY <1>1 DEF Doing, Starts, Knows, Probes, Enters, Leaves, Descends, Ends
<1>6. CASE Knows(a)
  <2>1. tried[a] = <<>>
    BY <1>1, <1>6 DEF Knows
  <2>2. Len(tried'[a]) <= 1
    <3>1. Len(<<>>) = 0 /\ Len(Append(<<>>, "guild")) = 1 /\ Len(Append(<<>>, "guild_private")) = 1
      OBVIOUS
    <3>2. tried'[a] = <<>> \/ tried'[a] = Append(<<>>, "guild") \/ tried'[a] = Append(<<>>, "guild_private")
      BY <1>1, <2>1 DEF SInv, TypeOK
    <3>3. CASE tried'[a] = <<>>
      BY <3>1, <3>3
    <3>4. CASE tried'[a] = Append(<<>>, "guild")
      BY <3>1, <3>4
    <3>5. CASE tried'[a] = Append(<<>>, "guild_private")
      BY <3>1, <3>5
    <3> QED BY <3>2, <3>3, <3>4, <3>5
  <2>3. Knows(a)'
    BY <1>1, <1>3, <1>4, <1>6, <2>2 DEF Lasts, Knows
  <2> QED BY <1>1, <1>2, <1>3, <2>3, Framed DEF Doing
<1>7. CASE Enters(a)
  <2>1. /\ Silent(a) /\ Count(a) = 2 /\ Request[a].handler # "send_private_msg"
        /\ Found(a) = Level(2) /\ outer[a] = Waits(a, 3) /\ tried[a] = SoFar(a, 3)
    BY <1>1, <1>7 DEF Enters
  <2>2. t = "guild"
    BY <1>1, <2>1, FindsWritten, Levels DEF t
  <2>3. tried'[a] = SoFar(a, 2) /\ outer'[a] = Waits(a, 2)
    <3>1. SoFar(a, 2) = Append(SoFar(a, 3), "guild") /\ Waits(a, 2) = Waits(a, 3)
      BY <2>1, Levels
    <3>2. tried' = [tried EXCEPT ![a] = Append(@, "guild")] /\ outer' = outer
      BY <1>1, <2>2
    <3> QED BY <2>1, <3>1, <3>2 DEF SInv, TypeOK
  <2>4. Leaves(a)'
    BY <1>3, <1>4, <2>1, <2>3, SameLevels DEF Lasts, Leaves
  <2> QED BY <1>1, <1>2, <1>3, <2>4, Framed DEF Doing
<1> QED BY <1>5, <1>6, <1>7

LEMMA CheckCounterStep ==
    ASSUME SInv, NEW a \in Actions, CheckCounter(a)
    PROVE  SInv'
<1>1. /\ pc[a] = "reset" /\ Busy(a) /\ Doing(a)
      /\ pc' = [pc EXCEPT ![a] = IF Count(a) <= 0 THEN "clear" ELSE "read"]
      /\ UNCHANGED <<msgTypeMapping, counterMapping, savedType, msgType, left, outer, tried>>
  BY DEF CheckCounter, Goto, Busy, SInv
<1>2. TypeOK' /\ Local(a) /\ pc'[a] = IF Count(a) <= 0 THEN "clear" ELSE "read"
  BY <1>1 DEF Local, SInv, TypeOK, Places
<1>3. /\ Lasts(a)
      /\ Found(a)' = Found(a) /\ Count(a)' = Count(a) /\ (Kept(Id(a))' <=> Kept(Id(a)))
  <2>1. Lasts(a)
    BY <1>2, AllLasts
  <2> QED BY <1>1, <2>1 DEF Found, Count, Id, Kept
<1>4. Knows(a) \/ Leaves(a) \/ Ends(a)
  BY <1>1 DEF Doing, Starts, Knows, Probes, Enters, Leaves, Descends, Ends
<1>5. Knows(a) => Knows(a)'
  BY <1>1, <1>2, <1>3 DEF Lasts, Knows
<1>6. Leaves(a) => Leaves(a)'
  BY <1>1, <1>2, <1>3, SameLevels DEF Lasts, Leaves
<1>7. Ends(a) => Ends(a)'
  BY <1>1, <1>2, <1>3, SameLevels DEF Lasts, Ends
<1> QED BY <1>1, <1>2, <1>4, <1>5, <1>6, <1>7, Framed DEF Doing

LEMMA ResetTypeStep ==
    ASSUME SInv, NEW a \in Actions, ResetType(a)
    PROVE  SInv'
<1>1. /\ pc[a] = "clear" /\ Busy(a) /\ Doing(a)
      /\ msgTypeMapping' = [msgTypeMapping EXCEPT ![Id(a)] = NoType]
      /\ pc' = [pc EXCEPT ![a] = "read"]
      /\ UNCHANGED <<counterMapping, savedType, msgType, left, outer, tried>>
  BY DEF ResetType, SetType, Goto, Busy, SInv
<1>2. TypeOK' /\ Local(a) /\ pc'[a] = "read"
  BY <1>1, Chat DEF Local, SInv, TypeOK, Places, Types, Saved
<1>3. Lasts(a) /\ Found(a)' = NoType /\ Count(a)' = Count(a)
  <2>1. Lasts(a)
    BY <1>2, AllLasts
  <2> QED BY <1>1, <2>1, Chat DEF Found, Count, Id, SInv, TypeOK
<1>4. Knows(a) \/ Ends(a)
  BY <1>1 DEF Doing, Starts, Knows, Probes, Enters, Leaves, Descends, Ends
<1>5. Knows(a) => Knows(a)'
  BY <1>1, <1>2, <1>3 DEF Lasts, Knows
<1>6. Ends(a) => Ends(a)'
  BY <1>1, <1>2, <1>3, SameLevels DEF Lasts, Ends
<1> QED BY <1>1, <1>2, <1>4, <1>5, <1>6, Framed DEF Doing

LEMMA ReadCounterStep ==
    ASSUME SInv, NEW a \in Actions, ReadCounter(a)
    PROVE  SInv'
<1>1. /\ pc[a] = "read" /\ Busy(a) /\ Doing(a)
      /\ left' = [left EXCEPT ![a] = Count(a)]
      /\ pc' = [pc EXCEPT ![a] = "write"]
      /\ UNCHANGED <<msgTypeMapping, counterMapping, savedType, msgType, outer, tried>>
  BY DEF ReadCounter, Goto, Busy, SInv
<1>2. TypeOK' /\ Local(a) /\ pc'[a] = "write" /\ left'[a] = Count(a)
  BY <1>1, Chat DEF Local, Count, SInv, TypeOK, Places
<1>3. Lasts(a) /\ Found(a)' = Found(a) /\ Count(a)' = Count(a)
  <2>1. Lasts(a)
    BY <1>2, AllLasts
  <2> QED BY <1>1, <2>1 DEF Found, Count, Id
<1>4. Knows(a) \/ Leaves(a) \/ Ends(a)
  BY <1>1 DEF Doing, Starts, Knows, Probes, Enters, Leaves, Descends, Ends
<1>5. Knows(a) => Knows(a)'
  BY <1>1, <1>2, <1>3 DEF Lasts, Knows
<1>6. Leaves(a) => Leaves(a)'
  BY <1>1, <1>2, <1>3, SameLevels DEF Lasts, Leaves
<1>7. Ends(a) => Ends(a)'
  BY <1>1, <1>2, <1>3, SameLevels DEF Lasts, Ends
<1> QED BY <1>1, <1>2, <1>4, <1>5, <1>6, <1>7, Framed DEF Doing

LEMMA CountDownStep ==
    ASSUME SInv, NEW a \in Actions, CountDown(a)
    PROVE  SInv'
<1>1. /\ pc[a] = "write" /\ Busy(a) /\ Doing(a)
      /\ counterMapping' = [counterMapping EXCEPT ![Id(a)] = left[a] - 1]
      /\ pc' = [pc EXCEPT ![a] = "more"]
      /\ UNCHANGED <<msgTypeMapping, savedType, msgType, left, outer, tried>>
  BY DEF CountDown, Goto, Busy, SInv
<1>2. TypeOK' /\ Local(a) /\ pc'[a] = "more" /\ left[a] \in Int
  BY <1>1, Chat DEF Local, SInv, TypeOK, Places
<1>3. Lasts(a) /\ Found(a)' = Found(a) /\ Count(a)' = left[a] - 1
  <2>1. Lasts(a)
    BY <1>2, AllLasts
  <2> QED BY <1>1, <2>1, Chat DEF Found, Count, Id, SInv, TypeOK
<1>4. Knows(a) \/ Leaves(a) \/ Ends(a)
  BY <1>1 DEF Doing, Starts, Knows, Probes, Enters, Leaves, Descends, Ends
<1>5. Knows(a) => Knows(a)'
  BY <1>1, <1>2, <1>3 DEF Lasts, Knows
<1>6. Leaves(a) => Descends(a)'
  BY <1>1, <1>2, <1>3, SameLevels DEF Lasts, Leaves, Descends
<1>7. Ends(a) => Ends(a)'
  BY <1>1, <1>2, <1>3, SameLevels DEF Lasts, Ends
<1> QED BY <1>1, <1>2, <1>4, <1>5, <1>6, <1>7, Framed DEF Doing

LEMMA MoreStep ==
    ASSUME SInv, NEW a \in Actions, More(a)
    PROVE  SInv'
<1>1. /\ pc[a] = "more" /\ Busy(a) /\ Doing(a) /\ Count(a) \in Int /\ outer[a] \in Nat
      /\ UNCHANGED <<msgTypeMapping, counterMapping, savedType, msgType, left, tried>>
      /\ \/ Count(a) > 0 /\ pc' = [pc EXCEPT ![a] = "index"] /\ UNCHANGED outer
         \/ /\ Count(a) <= 0
            /\ pc' = [pc EXCEPT ![a] = IF outer[a] > 0 THEN "reset" ELSE "done"]
            /\ outer' = [outer EXCEPT ![a] = IF @ > 0 THEN @ - 1 ELSE 0]
  BY Chat DEF More, Return, Goto, Busy, Count, SInv, TypeOK
<1>2. TypeOK' /\ Local(a)
  <2>1. outer[a] > 0 => outer[a] - 1 \in Nat
    BY <1>1
  <2>2. outer' \in [Actions -> Nat]
    BY <1>1, <2>1 DEF SInv, TypeOK
  <2> QED BY <1>1, <2>2 DEF Local, SInv, TypeOK, Places
<1>3. /\ Lasts(a)
      /\ Found(a)' = Found(a) /\ Count(a)' = Count(a) /\ (Kept(Id(a))' <=> Kept(Id(a)))
  <2>1. Lasts(a)
    BY <1>2, AllLasts
  <2> QED BY <1>1, <2>1 DEF Found, Count, Id, Kept
<1>4. \/ Count(a) > 0 /\ pc'[a] = "index" /\ outer'[a] = outer[a]
      \/ Count(a) <= 0 /\ outer[a] > 0 /\ pc'[a] = "reset" /\ outer'[a] = outer[a] - 1
      \/ Count(a) <= 0 /\ outer[a] = 0 /\ pc'[a] = "done" /\ outer'[a] = 0
  BY <1>1 DEF SInv, TypeOK
<1>5. Knows(a) \/ Descends(a) \/ Ends(a)
  BY <1>1 DEF Doing, Starts, Knows, Probes, Enters, Leaves, Descends, Ends
<1>6. CASE Knows(a)
  <2>1. pc'[a] = "done" /\ Found(a) = NoType /\ Count(a) <= 0 /\ Len(tried[a]) <= 1 /\ Told(a)
    BY <1>1, <1>4, <1>6 DEF Lasts, Knows
  <2>2. Kept(Id(a))' /\ Count(a)' <= 0
    BY <1>3, <2>1 DEF Kept, Found
  <2>3. Over(a)'
    <3>1. tried[a] \in Seq({"guild", "guild_private"}) /\ tried'[a] = tried[a]
      BY <1>1 DEF SInv, TypeOK
    <3>2. \A i, j \in DOMAIN tried[a] : i = j
      BY <2>1, <3>1
    <3> QED BY <1>3, <2>1, <3>1, <3>2 DEF Lasts, Over, Once
  <2> QED BY <1>1, <1>2, <2>1, <2>2, <2>3, Framed
<1>7. CASE Ends(a)
  <2>1. /\ pc'[a] = "done" /\ Found(a) = NoType /\ Count(a) = -1 /\ tried[a] = SoFar(a, 1)
    BY <1>1, <1>4, <1>7 DEF Lasts, Ends
  <2>2. Kept(Id(a))' /\ Count(a)' <= 0
    BY <1>3, <2>1 DEF Kept, Found
  <2>3. Over(a)'
    BY <1>1, <1>3, <2>1, AllTried DEF Lasts, Over, Ways
  <2> QED BY <1>1, <1>2, <2>1, <2>2, <2>3, Framed
<1>8. CASE Descends(a)
  <2>1. /\ Silent(a) /\ Count(a) \in 0..3
        /\ Found(a) = Level(Count(a) + 1)
        /\ outer[a] = Waits(a, Count(a) + 1) /\ tried[a] = SoFar(a, Count(a) + 1)
    BY <1>8 DEF Descends
  <2>2. CASE Count(a) > 0
    <3>1. pc'[a] = "index" /\ outer'[a] = outer[a] /\ tried'[a] = tried[a]
      BY <1>1, <1>4, <2>2
    <3>2. Descends(a)'
      BY <1>3, <2>1, <2>2, <3>1, SameLevels DEF Lasts, Descends
    <3> QED BY <1>1, <1>2, <3>1, <3>2, Framed DEF Doing
  <2>3. CASE Count(a) = 0 /\ ~Quits(a)
    <3>1. outer[a] = 1 /\ tried[a] = SoFar(a, 1)
      BY <2>1, <2>3, Levels
    <3>2. pc'[a] = "reset" /\ outer'[a] = 0 /\ tried'[a] = tried[a]
      BY <1>1, <1>4, <2>3, <3>1
    <3>3. Ends(a)'
      BY <1>3, <2>1, <2>3, <3>1, <3>2, SameLevels DEF Lasts, Ends
    <3> QED BY <1>1, <1>2, <3>2, <3>3, Framed DEF Doing
  <2>4. CASE Count(a) = 0 /\ Quits(a)
    <3>1. outer[a] = 0 /\ tried[a] = SoFar(a, 1)
      BY <2>1, <2>4, Levels
    <3>2. pc'[a] = "done"
      BY <1>4, <2>4, <3>1
    <3>3. Over(a)'
      BY <1>1, <1>3, <3>1, AllTried DEF Lasts, Over, Ways
    <3> QED BY <1>1, <1>2, <1>3, <2>4, <3>2, <3>3, Framed
  <2> QED BY <2>1, <2>2, <2>3, <2>4
<1> QED BY <1>5, <1>6, <1>7, <1>8

LEMMA IndexStep ==
    ASSUME SInv, NEW a \in Actions, Index(a)
    PROVE  SInv'
<1>1. /\ pc[a] = "index" /\ Busy(a) /\ Doing(a)
      /\ left' = [left EXCEPT ![a] = Count(a)]
      /\ pc' = [pc EXCEPT ![a] = IF Count(a) \in DOMAIN tryMessageTypes THEN "try" ELSE "crashed"]
      /\ UNCHANGED <<msgTypeMapping, counterMapping, savedType, msgType, outer, tried>>
  BY DEF Index, Goto, Busy, SInv
<1>2. Descends(a) /\ Count(a) \in 1..3
  BY <1>1 DEF Doing, Starts, Knows, Probes, Enters, Leaves, Descends, Ends
<1>3. DOMAIN tryMessageTypes = 1..3
  BY DEF tryMessageTypes
<1>4. TypeOK' /\ Local(a) /\ pc'[a] = "try" /\ left'[a] = Count(a)
  BY <1>1, <1>2, <1>3 DEF Local, SInv, TypeOK, Places
<1>5. Lasts(a) /\ Found(a)' = Found(a) /\ Count(a)' = Count(a)
  <2>1. Lasts(a)
    BY <1>4, AllLasts
  <2> QED BY <1>1, <2>1 DEF Found, Count, Id
<1>6. Descends(a)'
  BY <1>1, <1>2, <1>4, <1>5, SameLevels DEF Lasts, Descends
<1> QED BY <1>1, <1>4, <1>6, Framed DEF Doing

LEMMA TryNextStep ==
    ASSUME SInv, NEW a \in Actions, TryNext(a)
    PROVE  SInv'
<1>1. /\ pc[a] = "try" /\ Busy(a) /\ Doing(a)
      /\ msgTypeMapping' = [msgTypeMapping EXCEPT ![Id(a)] = tryMessageTypes[left[a]]]
      /\ pc' = [pc EXCEPT ![a] = "resolve"]
      /\ UNCHANGED <<counterMapping, savedType, msgType, left, outer, tried>>
  BY DEF TryNext, SetType, Goto, Busy, SInv
<1>2. Descends(a) /\ Count(a) \in 1..3 /\ left[a] = Count(a)
  BY <1>1 DEF Doing, Starts, Knows, Probes, Enters, Leaves, Descends, Ends
<1>3. \A c \in 1..3 : tryMessageTypes[c] = Level(c) /\ Level(c) \in Types
  BY DEF tryMessageTypes, Level, Types, Saved
<1>4. TypeOK' /\ Local(a) /\ pc'[a] = "resolve"
  BY <1>1, <1>2, <1>3, Chat DEF Local, SInv, TypeOK, Places
<1>5. Lasts(a) /\ Found(a)' = Level(Count(a)) /\ Count(a)' = Count(a)
  <2>1. Lasts(a)
    BY <1>4, AllLasts
  <2> QED BY <1>1, <1>2, <1>3, <2>1, Chat DEF Found, Count, Id, SInv, TypeOK
<1>6. Enters(a)'
  BY <1>1, <1>2, <1>4, <1>5, SameLevels DEF Lasts, Descends, Enters
<1> QED BY <1>1, <1>4, <1>6, Framed DEF Doing

\* The invariant holds at the start and at every step.
LEMMA SendInit == Init => SInv
<1> SUFFICES ASSUME Init PROVE SInv
  OBVIOUS
<1>1. TypeOK
  BY DEF Init, TypeOK, Types, Places, Saved
<1>2. AtRest
  BY DEF Init, AtRest, Kept
<1> QED BY <1>1, <1>2 DEF Init, SInv, Serial, Busy

LEMMA SendStep ==
    ASSUME ~Overlap, SInv, [Next]_vars
    PROVE  SInv'
<1>1. ASSUME NEW a \in Actions, Handle(a) PROVE SInv'
  BY <1>1, CallStep, ResolveStep, SetCounterStep, ProbeStep, DispatchStep, ChannelStep, CheckCounterStep,
     ResetTypeStep, ReadCounterStep, CountDownStep, MoreStep, IndexStep, TryNextStep DEF Handle
<1>2. CASE UNCHANGED vars
  <2>1. UNCHANGED <<msgTypeMapping, counterMapping, savedType, pc, msgType, left, outer, tried>>
    BY <1>2 DEF vars
  <2>2. TypeOK' /\ Serial' /\ AtRest'
    BY <2>1 DEF SInv, TypeOK, Serial, AtRest, Busy, Shares, Kept, Uses, Quits, Id, Lone
  <2>3. \A a \in Actions : (Silent(a)' <=> Silent(a)) /\ (Told(a)' <=> Told(a))
    BY <2>1 DEF Silent, Told, Unknown, Lone, OwnWords, Quits, Shares, Id, At
  <2>4. \A a \in Actions : (Lone => Kept(Id(a))) <=> (Lone => Kept(Id(a)))'
    BY <2>1 DEF Kept, Lone, Quits, Shares, Id
  <2>5. \A a \in Actions : (Doing(a) => Doing(a)') /\ (Over(a) => Over(a)') /\ (Busy(a) <=> Busy(a)')
    <3> SUFFICES ASSUME NEW a \in Actions
                 PROVE  (Doing(a) => Doing(a)') /\ (Over(a) => Over(a)') /\ (Busy(a) <=> Busy(a)')
      OBVIOUS
    <3>1. UNCHANGED <<pc[a], msgType[a], left[a], outer[a], tried[a], Count(a), Found(a)>>
      BY <2>1 DEF Count, Found, Id
    <3>2. Doing(a) => Doing(a)'
      BY <2>3, <2>4, <3>1, DoingStays
    <3>3. Over(a) => Over(a)'
      BY <2>3, <3>1 DEF Over, Once, Ways
    <3>4. Busy(a) <=> Busy(a)'
      BY <3>1 DEF Busy
    <3> QED BY <3>2, <3>3, <3>4
  <2> QED BY <2>1, <2>2, <2>5 DEF SInv
<1> QED BY <1>1, <1>2 DEF Next

LEMMA SendAlways ==
    ASSUME ~Overlap
    PROVE  Spec => []SInv
<1>1. SInv /\ [Next]_vars => SInv'
  BY SendStep
<1> QED BY <1>1, SendInit, PTL DEF Spec

\* Nothing is sent twice one way at any level.
LEMMA OnceSoFar ==
    ASSUME NEW a \in Actions, NEW c \in 1..5
    PROVE  Once(SoFar(a, c))
<1>1. Once(<<>>) /\ Once(<<"guild_private">>)
  BY DEF Once
<1>2. Once(Append(<<>>, "guild"))
  <2>1. Append(<<>>, "guild") = <<"guild">>
    OBVIOUS
  <2> QED BY <2>1 DEF Once
<1>3. Once(Append(<<"guild_private">>, "guild"))
  <2> DEFINE s == Append(<<"guild_private">>, "guild")
  <2>1. <<"guild_private">> \in Seq({"guild", "guild_private"}) /\ Len(<<"guild_private">>) = 1
    OBVIOUS
  <2>2. DOMAIN s = 1..2 /\ s[1] = "guild_private" /\ s[2] = "guild"
    BY <2>1, AppendProperties
  <2> HIDE DEF s
  <2>3. Once(s)
    BY <2>2 DEF Once
  <2> QED BY <2>3 DEF s
<1> QED BY <1>1, <1>2, <1>3 DEF SoFar, AsPrivate

\* Each message is sent at most once each way, however the calls about other
\* chats interleave with its own (send_msg.go:100).
THEOREM SentOnceAlways ==
    ASSUME ~Overlap
    PROVE  Spec => []SentOnce
<1>1. ASSUME SInv, NEW a \in Actions PROVE Once(tried[a])
  <2>0. tried[a] \in Seq({"guild", "guild_private"})
    BY <1>1 DEF SInv, TypeOK
  <2>1. Once(<<>>)
    BY DEF Once
  <2>2. Len(tried[a]) <= 1 => Once(tried[a])
    BY <2>0 DEF Once
  <2>3. CASE pc[a] = "idle"
    BY <1>1, <2>1, <2>3 DEF SInv
  <2>4. CASE pc[a] = "done"
    BY <1>1, <2>4 DEF SInv, Over
  <2>5. CASE Busy(a)
    <3>1. Doing(a)
      BY <1>1, <2>5 DEF SInv
    <3>2. \/ tried[a] = <<>> \/ Len(tried[a]) <= 1
          \/ \E c \in 1..5 : tried[a] = SoFar(a, c)
      <4>1. Starts(a) \/ Probes(a) => tried[a] = <<>>
        BY DEF Starts, Probes
      <4>2. Knows(a) => tried[a] = <<>> \/ Len(tried[a]) <= 1
        BY DEF Knows
      <4>3. Enters(a) => Count(a) + 1 \in 1..5 /\ tried[a] = SoFar(a, Count(a) + 1)
        BY DEF Enters
      <4>4. Leaves(a) => Count(a) \in 1..5 /\ tried[a] = SoFar(a, Count(a))
        BY DEF Leaves
      <4>5. Descends(a) => Count(a) + 1 \in 1..5 /\ tried[a] = SoFar(a, Count(a) + 1)
        BY DEF Descends
      <4>6. Ends(a) => 1 \in 1..5 /\ tried[a] = SoFar(a, 1)
        BY DEF Ends
      <4> QED BY <3>1, <4>1, <4>2, <4>3, <4>4, <4>5, <4>6 DEF Doing
    <3> QED BY <2>1, <2>2, <3>2, OnceSoFar
  <2> QED BY <1>1, <2>3, <2>4, <2>5 DEF SInv, TypeOK, Busy, Places
<1>2. SInv => SentOnce
  BY <1>1 DEF SentOnce, Once
<1> QED BY <1>2, SendAlways, PTL

\* A message about ids nothing is known of was sent every way its handler has
\* when the handler returns (send_msg.go:103), if what a call finds under its keys
\* was not left there by an action about something else.
THEOREM EveryWayAlwaysTried ==
    ASSUME ~Overlap, Lone, OwnWords
    PROVE  Spec => []EveryWayTried
<1>1. SInv => EveryWayTried
  BY DEF SInv, EveryWayTried, Over, Told
<1> QED BY <1>1, SendAlways, PTL

\* When the handlers about a chat have returned no type that was only tried is
\* left behind (send_msg.go:99), whatever the echo words are.
THEOREM NothingEverLeft ==
    ASSUME ~Overlap, Lone
    PROVE  Spec => []NothingLeft
<1>1. ASSUME SInv, NEW a \in Actions, pc[a] = "done", ~Quits(a),
             \A b \in Actions : Shares(a, b) => ~Busy(b)
      PROVE  Kept(Id(a))
  <2> SUFFICES ASSUME NEW b \in Actions, Uses(b, Id(a)) PROVE FALSE
    BY <1>1, Chat DEF SInv, AtRest
  <2>1. Shares(a, b) /\ Shares(b, a)
    BY Chat DEF Uses, Shares
  <2> QED BY <1>1, <2>1 DEF Uses, Lone
<1>2. SInv => NothingLeft
  BY <1>1 DEF NothingLeft, Kept, Quits
<1> QED BY <1>2, SendAlways, PTL

\* The list of types is never read beside its ends (send_msg.go:107), whatever
\* keys the actions share: that takes two actions about one chat at a time.
THEOREM AlwaysWithinTheList ==
    ASSUME ~Overlap
    PROVE  Spec => []WithinTheList
<1>1. SInv => WithinTheList
  BY DEF SInv, TypeOK, Places, WithinTheList
<1> QED BY <1>1, SendAlways, PTL
---------------------------------------------------------------------------------------
\* How many steps a handler still takes at most: those of the call it is in, ten for
\* each type that is left to try, and those before the first is tried.
Place(a) ==
    CASE pc[a] = "resolve" -> 9 [] pc[a] = "dispatch" -> 8 [] pc[a] = "channel" -> 7
      [] pc[a] = "reset" -> 6 [] pc[a] = "clear" -> 5 [] pc[a] = "read" -> 4
      [] pc[a] = "write" -> 3 [] pc[a] = "more" -> 2 [] pc[a] = "index" -> 1
      [] OTHER -> 0

ToTry(a) ==
    LET c == IF pc[a] \in {"more", "index", "try"} THEN Count(a) + 1 ELSE Count(a)
    IN  IF c > 0 THEN c ELSE 0

StepsLeft(a) ==
    CASE pc[a] = "idle" -> 61
      [] pc[a] = "resolve" /\ Count(a) <= 0 -> 60
      [] pc[a] = "count" -> 59
      [] pc[a] = "mark" -> 50
      [] pc[a] = "done" -> 0
      [] OTHER -> 10 * ToTry(a) + Place(a)

\* With every step of its own a handler comes nearer to its end, and no step of
\* another takes it back.
Ending ==
    \A a \in Actions :
        /\ StepsLeft(a) \in 0..61
        /\ pc'[a] # pc[a] => StepsLeft(a)' < StepsLeft(a)
        /\ pc'[a] = pc[a] /\ Busy(a) => StepsLeft(a)' = StepsLeft(a)

\* What is left of the counter where a handler is.
LEMMA Counts ==
    ASSUME SInv, NEW a \in Actions
    PROVE  /\ Count(a) \in Int /\ left[a] \in Int /\ pc[a] \in Places
           /\ Busy(a) /\ pc[a] # "count" => Count(a) <= 4
           /\ pc[a] = "mark" => Count(a) = 4
           /\ pc[a] = "write" => left[a] = Count(a) \/ (left[a] <= 0 /\ Count(a) <= 0)
           /\ pc[a] \in {"index", "try"} => Count(a) \in 1..3
           /\ pc[a] = "more" => Count(a) <= 3 /\ (outer[a] > 0 => Count(a) >= 0)
           /\ pc[a] = "resolve" /\ Count(a) > 0 => FindType(a) # NoType
<1>1. Count(a) \in Int /\ left[a] \in Int /\ pc[a] \in Places
  BY Chat DEF SInv, TypeOK, Count
<1>2. Busy(a) => Doing(a)
  BY DEF SInv
<1>3. pc[a] \notin {"idle", "done", "crashed"} <=> Busy(a)
  BY DEF Busy
<1>4. CASE Enters(a)
  <2>1. Count(a) \in 1..4 /\ pc[a] \in {"resolve", "dispatch", "channel"}
    BY <1>4 DEF Enters
  <2>2. FindType(a) # NoType
    <3>1. FindType(a) = Found(a)
      BY <1>4, FindsWritten DEF FindType, Enters
    <3>2. Found(a) = Level(Count(a)) /\ Level(Count(a)) # NoType
      BY <1>4 DEF Enters, Level, NoType
    <3> QED BY <3>1, <3>2
  <2> QED BY <1>1, <2>1, <2>2
<1>5. CASE Starts(a) \/ Knows(a)
  BY <1>1, <1>5 DEF Starts, Knows
<1>6. CASE Probes(a)
  BY <1>1, <1>6 DEF Probes
<1>7. CASE Leaves(a) \/ Ends(a)
  BY <1>1, <1>7 DEF Leaves, Ends
<1>8. CASE Descends(a)
  BY <1>1, <1>8 DEF Descends
<1>9. CASE pc[a] \in {"idle", "done"}
  BY <1>1, <1>3, <1>9
<1> QED BY <1>1, <1>2, <1>3, <1>4, <1>5, <1>6, <1>7, <1>8, <1>9 DEF Doing, Places

\* The steps of a handler at each place.
PlaceSteps(a) ==
    LET t == IF Count(a) > 0 THEN Count(a) ELSE 0
        u == IF Count(a) >= 0 THEN Count(a) + 1 ELSE 0
    IN  /\ StepsLeft(a) \in 0..61
        /\ pc[a] = "idle" => StepsLeft(a) = 61
        /\ pc[a] = "resolve" => StepsLeft(a) <= 60
        /\ pc[a] = "resolve" => StepsLeft(a) = IF Count(a) > 0 THEN 10 * t + 9 ELSE 60
        /\ pc[a] = "count" => StepsLeft(a) = 59
        /\ pc[a] = "mark" => StepsLeft(a) = 50
        /\ pc[a] = "dispatch" => StepsLeft(a) = 10 * t + 8
        /\ pc[a] = "channel" => StepsLeft(a) = 10 * t + 7
        /\ pc[a] = "reset" => StepsLeft(a) = 10 * t + 6
        /\ pc[a] = "clear" => StepsLeft(a) = 10 * t + 5
        /\ pc[a] = "read" => StepsLeft(a) = 10 * t + 4
        /\ pc[a] = "write" => StepsLeft(a) = 10 * t + 3
        /\ pc[a] = "more" => StepsLeft(a) = 10 * u + 2
        /\ pc[a] = "index" => StepsLeft(a) = 10 * u + 1
        /\ pc[a] = "try" => StepsLeft(a) = 10 * u
        /\ pc[a] = "done" => StepsLeft(a) = 0

StepsRight == \A a \in Actions : PlaceSteps(a)

LEMMA StepsAt == SInv => StepsRight
<1> SUFFICES ASSUME SInv, NEW a \in Actions PROVE PlaceSteps(a)
  BY DEF StepsRight
<1> DEFINE t == IF Count(a) > 0 THEN Count(a) ELSE 0
           u == IF Count(a) >= 0 THEN Count(a) + 1 ELSE 0
<1>1. Count(a) \in Int /\ t \in Int /\ u \in Int
  BY Counts
<1>2. ToTry(a) = IF pc[a] \in {"more", "index", "try"} THEN u ELSE t
  BY <1>1 DEF ToTry
<1>3. Busy(a) <=> pc[a] \notin {"idle", "done", "crashed"}
  BY DEF Busy
<1>4. pc[a] \in Places
  BY Counts
<1>5. Busy(a) /\ pc[a] \notin {"count", "more", "index", "try"} => t <= 4
  BY <1>1, <1>3, Counts
<1>6. pc[a] \in {"more", "index", "try"} => u <= 4
  BY <1>1, Counts
<1>7. StepsLeft(a) =
        IF pc[a] = "idle" THEN 61
        ELSE IF pc[a] = "resolve" /\ Count(a) <= 0 THEN 60
        ELSE IF pc[a] = "count" THEN 59
        ELSE IF pc[a] = "mark" THEN 50
        ELSE IF pc[a] = "done" THEN 0
        ELSE 10 * ToTry(a) + Place(a)
  BY DEF StepsLeft
<1>8. Place(a) =
        IF pc[a] = "resolve" THEN 9 ELSE IF pc[a] = "dispatch" THEN 8
        ELSE IF pc[a] = "channel" THEN 7 ELSE IF pc[a] = "reset" THEN 6
        ELSE IF pc[a] = "clear" THEN 5 ELSE IF pc[a] = "read" THEN 4
        ELSE IF pc[a] = "write" THEN 3 ELSE IF pc[a] = "more" THEN 2
        ELSE IF pc[a] = "index" THEN 1 ELSE 0
  BY DEF Place
<1> HIDE DEF t, u
<1>9. t >= 0 /\ u >= 0 /\ (Count(a) > 0 => t = Count(a))
  BY <1>1 DEF t, u
<1>10. StepsLeft(a) \in 0..61
  <2>1. Place(a) \in 0..9
    BY <1>8
  <2>2. CASE pc[a] \in {"idle", "count", "mark", "done"} \/ (pc[a] = "resolve" /\ Count(a) <= 0)
    BY <1>7, <2>2
  <2>3. CASE pc[a] \in {"more", "index", "try"}
    <3>1. ToTry(a) \in 0..4
      BY <1>1, <1>2, <1>6, <1>9, <2>3
    <3>2. StepsLeft(a) = 10 * ToTry(a) + Place(a)
      BY <1>7, <2>3
    <3> QED BY <2>1, <3>1, <3>2
  <2>4. CASE /\ pc[a] \notin {"idle", "count", "mark", "done", "more", "index", "try"}
             /\ ~(pc[a] = "resolve" /\ Count(a) <= 0)
    <3>1. ToTry(a) \in 0..4
      BY <1>1, <1>2, <1>3, <1>4, <1>5, <1>9, <2>4 DEF Places
    <3>2. StepsLeft(a) = 10 * ToTry(a) + Place(a)
      BY <1>7, <2>4
    <3> QED BY <2>1, <3>1, <3>2
  <2> QED BY <2>2, <2>3, <2>4
<1>11. pc[a] = "resolve" => StepsLeft(a) <= 60
  BY <1>1, <1>2, <1>3, <1>5, <1>7, <1>8, <1>9
<1> QED BY <1>1, <1>2, <1>7, <1>8, <1>10, <1>11 DEF PlaceSteps, t, u

LEMMA StepEnds ==
    ASSUME SInv, SInv', StepsRight, StepsRight', NEW a \in Actions, Handle(a)
    PROVE  pc'[a] # pc[a] /\ StepsLeft(a)' < StepsLeft(a)
<1>1. pc[a] \in Places /\ Count(a) \in Int /\ Count(a)' \in Int /\ outer[a] \in Nat /\ left[a] \in Int
  BY Counts, Chat DEF SInv, TypeOK, Count, Id
<1>2. CASE Call(a)
  <2>1. pc[a] = "idle" /\ pc'[a] = "resolve"
    BY <1>2 DEF Call, Goto, SInv, TypeOK
  <2> QED BY <1>1, <2>1 DEF StepsRight, PlaceSteps
<1>3. CASE Resolve(a)
  <2>1. /\ pc[a] = "resolve" /\ Count(a)' = Count(a)
        /\ pc'[a] = IF FindType(a) = NoType THEN "count" ELSE "dispatch"
    BY <1>3 DEF Resolve, Goto, SInv, TypeOK, Count, Id
  <2>2. Count(a) > 0 => pc'[a] = "dispatch"
    BY <2>1, Counts
  <2> QED BY <1>1, <2>1, <2>2 DEF StepsRight, PlaceSteps
<1>4. CASE SetCounter(a)
  <2>1. pc[a] = "count" /\ pc'[a] = "mark"
    BY <1>4 DEF SetCounter, Goto, SInv, TypeOK
  <2> QED BY <2>1 DEF StepsRight, PlaceSteps
<1>5. CASE Probe(a)
  <2>1. pc[a] = "mark" /\ pc'[a] = "resolve" /\ Count(a)' = Count(a)
    BY <1>5 DEF Probe, Goto, SInv, TypeOK, Count, Id
  <2>2. Count(a) = 4
    BY <2>1, Counts
  <2> QED BY <2>1, <2>2 DEF StepsRight, PlaceSteps
<1>6. CASE Dispatch(a)
  <2>1. pc[a] = "dispatch" /\ Count(a)' = Count(a) /\ pc'[a] \in {"channel", "reset", "done"}
    BY <1>6 DEF Dispatch, Return, Goto, SInv, TypeOK, Count, Id
  <2> QED BY <1>1, <2>1 DEF StepsRight, PlaceSteps
<1>7. CASE SendGuildChannelMsg(a)
  <2>1. pc[a] = "channel" /\ Count(a)' = Count(a) /\ pc'[a] = "reset"
    BY <1>7 DEF SendGuildChannelMsg, Goto, SInv, TypeOK, Count, Id
  <2> QED BY <1>1, <2>1 DEF StepsRight, PlaceSteps
<1>8. CASE CheckCounter(a) \/ ResetType(a) \/ ReadCounter(a)
  <2>1. /\ Count(a)' = Count(a)
        /\ \/ pc[a] = "reset" /\ pc'[a] \in {"clear", "read"}
           \/ pc[a] = "clear" /\ pc'[a] = "read"
           \/ pc[a] = "read" /\ pc'[a] = "write"
    BY <1>8 DEF CheckCounter, ResetType, ReadCounter, Goto, SInv, TypeOK, Count, Id
  <2> QED BY <1>1, <2>1 DEF StepsRight, PlaceSteps
<1>9. CASE CountDown(a)
  <2>1. pc[a] = "write" /\ pc'[a] = "more" /\ Count(a)' = left[a] - 1
    BY <1>9, Chat DEF CountDown, Goto, SInv, TypeOK, Count, Id
  <2>2. left[a] = Count(a) \/ (left[a] <= 0 /\ Count(a) <= 0)
    BY <2>1, Counts
  <2> QED BY <1>1, <2>1, <2>2 DEF StepsRight, PlaceSteps
<1>10. CASE More(a)
  <2>1. /\ pc[a] = "more" /\ Count(a)' = Count(a)
        /\ \/ Count(a) > 0 /\ pc'[a] = "index"
           \/ Count(a) <= 0 /\ pc'[a] = IF outer[a] > 0 THEN "reset" ELSE "done"
    BY <1>10 DEF More, Return, Goto, SInv, TypeOK, Count, Id
  <2>2. outer[a] > 0 => Count(a) >= 0
    BY <2>1, Counts
  <2> QED BY <1>1, <2>1, <2>2 DEF StepsRight, PlaceSteps
<1>11. CASE Index(a)
  <2>1. pc[a] = "index" /\ Count(a)' = Count(a) /\ pc'[a] \in {"try", "crashed"} /\ pc'[a] \in Places
    BY <1>11 DEF Index, Goto, SInv, TypeOK, Count, Id
  <2>2. pc'[a] = "try"
    BY <2>1 DEF Places
  <2> QED BY <1>1, <2>1, <2>2 DEF StepsRight, PlaceSteps
<1>12. CASE TryNext(a)
  <2>1. pc[a] = "try" /\ Count(a)' = Count(a) /\ pc'[a] = "resolve" /\ Count(a) \in 1..3
    BY <1>12, Counts DEF TryNext, Goto, SInv, TypeOK, Count, Id
  <2> QED BY <1>1, <2>1 DEF StepsRight, PlaceSteps
<1> QED BY <1>2, <1>3, <1>4, <1>5, <1>6, <1>7, <1>8, <1>9, <1>10, <1>11, <1>12 DEF Handle

\* Others come no nearer and go no further.
LEMMA StepsKept ==
    ASSUME SInv, SInv', NEW b \in Actions, Handle(b), NEW a \in Actions \ {b}
    PROVE  pc'[a] = pc[a] /\ (Busy(a) => StepsLeft(a)' = StepsLeft(a))
<1>1. pc'[a] = pc[a]
  BY DEF Handle, Call, Resolve, SetCounter, Probe, Dispatch, SendGuildChannelMsg, CheckCounter, ResetType,
         ReadCounter, CountDown, More, Index, TryNext, Return, Goto, SInv, TypeOK
<1>2. ASSUME Busy(a) PROVE Count(a)' = Count(a)
  <2>1. CASE Call(b)
    BY <2>1 DEF Call, Count, Id
  <2>2. CASE ~Call(b)
    <3>1. Busy(b)
      BY <2>2 DEF Handle, Resolve, SetCounter, Probe, Dispatch, SendGuildChannelMsg, CheckCounter, ResetType,
                  ReadCounter, CountDown, More, Index, TryNext, Busy
    <3>2. Id(a) # Id(b)
      BY <1>2, <3>1, OwnKeys, Chat
    <3>3. counterMapping'[Id(a)] = counterMapping[Id(a)]
      BY <2>2, <3>2, Chat
         DEF Handle, Resolve, SetCounter, Probe, Dispatch, SendGuildChannelMsg, CheckCounter, ResetType,
             ReadCounter, CountDown, More, Index, TryNext, SInv, TypeOK
    <3> QED BY <3>3 DEF Count, Id
  <2> QED BY <2>1, <2>2
<1> QED BY <1>1, <1>2 DEF StepsLeft, ToTry, Place

\* A handler ends: it takes at most 61 steps from its call on, whatever keys and
\* echo words the actions share and whatever the others do meanwhile; the
\* recursion of send_msg.go:96-120 and its like has an end.
THEOREM HandlersEnd ==
    ASSUME ~Overlap
    PROVE  Spec => [][Ending]_vars
<1>1. ASSUME SInv, SInv', StepsRight, StepsRight', [Next]_vars, ~UNCHANGED vars PROVE Ending
  <2>1. PICK b \in Actions : Handle(b)
    BY <1>1 DEF Next
  <2> SUFFICES ASSUME NEW a \in Actions
               PROVE  /\ StepsLeft(a) \in 0..61
                      /\ pc'[a] # pc[a] => StepsLeft(a)' < StepsLeft(a)
                      /\ pc'[a] = pc[a] /\ Busy(a) => StepsLeft(a)' = StepsLeft(a)
    BY DEF Ending
  <2>2. CASE a = b
    BY <1>1, <2>1, <2>2, StepEnds DEF StepsRight, PlaceSteps
  <2>3. CASE a # b
    BY <1>1, <2>1, <2>3, StepsKept DEF StepsRight, PlaceSteps
  <2> QED BY <2>2, <2>3
<1>2. SInv /\ SInv' /\ StepsRight /\ StepsRight' /\ [Next]_vars => [Ending]_vars
  BY <1>1
<1> QED BY <1>2, StepsAt, SendAlways, PTL DEF Spec
======================================================================================

------------------------------ MODULE RestartProofs ------------------------------
(***************************************************************************)
(* What restarts leave is right: of messages and their types, and of       *)
(* config.yml.                                                             *)
(*                                                                         *)
(* Every answer arrives, for any number of messages, chats and users.      *)
(* That an event's own type is saved before it is reported says little:    *)
(* other messages, half handled ones too, write types under the same keys, *)
(* answers set types to nothing, and a restart forgets all that is not in  *)
(* the database.  So the invariant is about every key and every message:   *)
(* behind the number of a chat or a user there is its type or none         *)
(* (TypesFit), what a goroutine has yet to write belongs there (Writing),  *)
(* and what is reported stays answerable (Sure).                           *)
(*                                                                         *)
(* config.yml stays a file that can be read and completed, for any         *)
(* template, directories, processes and changes.  The code has no lock,    *)
(* but of processes that may still write and scripts that will start one   *)
(* there is one at a time (Alone): who asked for a restart writes no more. *)
(* Nor does it restart for ever: who completes a file leaves no key        *)
(* missing (Completes), and nobody else takes one away.                    *)
(***************************************************************************)
EXTENDS MessageEvents, ConfigFile, FiniteSetTheorems, SequenceTheorems, WellFoundedInduction, TLAPS

----------------------------------------------------------------------------------
\* Messages and answers.

\* What the answers need.  Numbers with nine digits are above the sequence
\* numbers that are kept beside them; events carry no echo and answers to a
\* group name no user; one of the two settings makes a private chat or a channel
\* a group, a private chat a channel.  Ids are strings, all different, and in a
\* private chat one other person writes.
Plain ==
    /\ HashIdValue /\ ~NamesUser /\ ~TwoWayEcho
    /\ \A md \in Modes : md.group \/ md.private
    /\ Ids \cap Int = {}
    /\ \A m, n \in Messages : Chat[m] # Author[n]
    /\ \A m, n \in Messages : Private(m) /\ Chat[m] = Chat[n] => Author[m] = Author[n]

\* Where a goroutine is, and what it has yet to write.
Places == {"sent", "begin", "user", "chat", "config", "number", "write", "done"}
Entries == [to : {"echo", "config"}, key : Int \cup Ids, type : {"guild", "guild_private"}]

\* The types of what the other conjuncts do not speak of.
TypeOK ==
    /\ mode \in Modes /\ global_s \in 0..MaxS
    /\ pc \in [Messages -> Places] /\ s \in [Messages -> 0..MaxS]
    /\ todo \in [Messages -> Seq(Entries)]

\* Every number stored is above the sequence numbers, and one id's.
Numbered(f) ==
    /\ IsFiniteSet(DOMAIN f) /\ DOMAIN f \subseteq Ids
    /\ \A i \in DOMAIN f : f[i] \in Int /\ MaxS < f[i] /\ f[i] < First + Cardinality(DOMAIN f)
    /\ \A i, j \in DOMAIN f : f[i] = f[j] => i = j

\* The keys of a bucket are sequence numbers, ids and numbers of ids.
KeysKnown(f, bucket) ==
    \A k \in DOMAIN bucket : k \in 0..MaxS \/ k \in Ids \/ \E i \in DOMAIN f : k = f[i]

\* The id whose number an answer to a message names.
Shown(m) == IF As(m) = "group" THEN Chat[m] ELSE Author[m]

\* Behind the number of a chat or a user is its type or none.
TypesFit(f, types) ==
    \A m \in Messages : As(m) # "guild" /\ Shown(m) \in DOMAIN f =>
        Get(types, f[Shown(m)], NoType) \in {NoType, Type(m)}

\* Of a private chat that is a group the user is known by its number.
UsersFit(f, users) ==
    \A m \in Messages : Private(m) /\ Chat[m] \in DOMAIN f /\ f[Chat[m]] \in DOMAIN users =>
        Author[m] \in DOMAIN f /\ users[f[Chat[m]]] = f[Author[m]]

\* The user of a private chat that is a group is kept.
UserKept(m, f, users) == Private(m) /\ As(m) = "group" => f[Chat[m]] \in DOMAIN users

\* What a goroutine has stored when it is at a step.
Stored(m, at, f) ==
    /\ at = "chat" /\ Private(m) => Author[m] \in DOMAIN f
    /\ at = "user" /\ As(m) = "group" /\ ~Private(m) => Chat[m] \in DOMAIN f
    /\ at \in {"config", "number", "write"} =>
          Author[m] \in DOMAIN f /\ (As(m) # "guild" => Chat[m] \in DOMAIN f)
    /\ at \in {"chat", "config", "number"} => As(m) # "guild"

\* An entry a message may write.
Belongs(e, m, f) ==
    /\ e.type = Type(m)
    /\ \/ e.key \in 0..MaxS /\ e.to = "echo"
       \/ e.key = Chat[m]
       \/ e.key = f[Author[m]] /\ (Private(m) \/ As(m) = "guild")
       \/ e.key = f[Chat[m]] /\ As(m) = "group"

\* The database has the type an answer to m needs.
TypeKept(m, f, types) == f[Shown(m)] \in DOMAIN types /\ types[f[Shown(m)]] = Type(m)

\* What m has yet to write belongs to it, and the type its answers need is in
\* the database or among it.
Writing(m) ==
    todo[m] # << >> =>
        /\ pc[m] = "write"
        /\ \A i \in 1..Len(todo[m]) : Belongs(todo[m][i], m, fwd)
        /\ As(m) # "guild" => \/ TypeKept(m, fwd, saved)
                              \/ \E i \in 1..Len(todo[m]) : todo[m][i] = SaveTo(fwd[Shown(m)], Type(m))

\* The ids an event of m shows have numbers.
Known(m) == Author[m] \in DOMAIN fwd /\ (As(m) # "guild" => Chat[m] \in DOMAIN fwd)

\* An event shows the numbers of its message, and its answers have what they need.
Sure(e) ==
    /\ e.m \in Messages /\ Known(e.m)
    /\ e = [m |-> e.m, as |-> As(e.m), group |-> IF As(e.m) = "group" THEN fwd[Chat[e.m]] ELSE NoKey,
            user |-> fwd[Author[e.m]], echo |-> NoKey]
    /\ As(e.m) # "guild" => TypeKept(e.m, fwd, saved)
    /\ UserKept(e.m, fwd, userOf)

\* The inductive invariant.
EInv ==
    /\ TypeOK /\ Numbered(fwd)
    /\ KeysKnown(fwd, msgType) /\ KeysKnown(fwd, saved) /\ KeysKnown(fwd, userOf)
    /\ TypesFit(fwd, msgType) /\ TypesFit(fwd, saved) /\ UsersFit(fwd, userOf)
    /\ \A m \in Messages : /\ Stored(m, pc[m], fwd)
                           /\ pc[m] \in {"number", "write"} => UserKept(m, fwd, userOf)
                           /\ Writing(m)
    /\ \A e \in reported : Sure(e)

\* The modes, and what a message is in them.
LEMMA Kinds ==
    ASSUME Plain, TypeOK, NEW m \in Messages
    PROVE  /\ As(m) \in {"guild", "group", "private"} /\ Type(m) \in {"guild", "guild_private"}
           /\ Author[m] \in Ids /\ Chat[m] \in Ids /\ Shown(m) \in Ids
           /\ As(m) = "private" => Private(m) /\ ~mode.private
           /\ As(m) = "guild" /\ ~Private(m) => mode.private
           /\ As(m) = "group" => mode.group
           /\ First = MaxS + 1 /\ MaxS \in Nat
<1>1. mode.group \/ mode.private
  BY DEF Plain, TypeOK
<1>2. Author[m] \in Ids /\ Chat[m] \in Ids
  BY DEF Ids
<1> QED BY <1>1, <1>2, ConfigAssumption DEF As, Type, Shown, First, Plain

\* A number for one more id leaves the others theirs.
LEMMA StoreFacts ==
    ASSUME Plain, Numbered(fwd), NEW i \in Ids, StoreIDv2(i)
    PROVE  /\ Numbered(fwd)' /\ DOMAIN fwd' = DOMAIN fwd \cup {i}
           /\ \A j \in DOMAIN fwd : fwd'[j] = fwd[j]
           /\ i \in DOMAIN fwd \/ (fwd'[i] \in Int /\ fwd'[i] > MaxS /\ \A j \in DOMAIN fwd : fwd[j] # fwd'[i])
<1>1. First = MaxS + 1 /\ MaxS \in Nat
  BY ConfigAssumption DEF First, Plain
<1>2. CASE i \in DOMAIN fwd
  <2>1. fwd' = fwd
    BY <1>2 DEF StoreIDv2
  <2> QED BY <1>2, <2>1 DEF Numbered
<1>3. CASE i \notin DOMAIN fwd
  <2> DEFINE size == Cardinality(DOMAIN fwd)
  <2>1. fwd' = Put(fwd, i, First + size)
    BY <1>3 DEF StoreIDv2, NextNumber
  <2>2. IsFiniteSet(DOMAIN fwd) /\ size \in Nat
    BY FS_CardinalityType DEF Numbered
  <2>3. DOMAIN fwd' = DOMAIN fwd \cup {i} /\ fwd'[i] = First + size /\ \A j \in DOMAIN fwd : fwd'[j] = fwd[j]
    BY <1>3, <2>1 DEF Put
  <2>4. IsFiniteSet(DOMAIN fwd') /\ Cardinality(DOMAIN fwd') = size + 1
    BY <1>3, <2>2, <2>3, FS_AddElement
  <2> HIDE DEF size
  <2>5. \A j \in DOMAIN fwd : fwd[j] \in Int /\ MaxS < fwd[j] /\ fwd[j] < First + size
    BY DEF Numbered, size
  <2>6. \A j \in DOMAIN fwd' : fwd'[j] \in Int /\ MaxS < fwd'[j] /\ fwd'[j] < First + Cardinality(DOMAIN fwd')
    BY <1>1, <2>2, <2>3, <2>4, <2>5
  <2>7. \A j, k \in DOMAIN fwd' : fwd'[j] = fwd'[k] => j = k
    BY <1>1, <2>2, <2>3, <2>5 DEF Numbered
  <2>8. Numbered(fwd)'
    BY <2>3, <2>4, <2>6, <2>7 DEF Numbered
  <2> QED BY <1>1, <2>2, <2>3, <2>5, <2>8
<1> QED BY <1>2, <1>3

\* What is known of the keys stays known, and the new number is no key yet.
LEMMA StoreStays ==
    ASSUME Plain, TypeOK, Numbered(fwd), NEW i \in Ids, StoreIDv2(i), NEW bucket, KeysKnown(fwd, bucket)
    PROVE  /\ KeysKnown(fwd', bucket)
           /\ i \notin DOMAIN fwd => fwd'[i] \notin DOMAIN bucket
<1>1. /\ DOMAIN fwd' = DOMAIN fwd \cup {i} /\ \A j \in DOMAIN fwd : fwd'[j] = fwd[j]
      /\ i \in DOMAIN fwd \/ (fwd'[i] \in Int /\ fwd'[i] > MaxS /\ \A j \in DOMAIN fwd : fwd[j] # fwd'[i])
  BY StoreFacts
<1>2. Ids \cap Int = {} /\ MaxS \in Nat
  BY ConfigAssumption DEF Plain
<1> QED BY <1>1, <1>2 DEF KeysKnown

\* A new number has no type behind it.
LEMMA StoreFits ==
    ASSUME Plain, TypeOK, Numbered(fwd), NEW i \in Ids, StoreIDv2(i),
           NEW types, KeysKnown(fwd, types), TypesFit(fwd, types)
    PROVE  TypesFit(fwd', types)
<1> SUFFICES ASSUME NEW m \in Messages, As(m) # "guild", Shown(m) \in DOMAIN fwd'
             PROVE  Get(types, fwd'[Shown(m)], NoType) \in {NoType, Type(m)}
  BY DEF TypesFit
<1>1. /\ DOMAIN fwd' = DOMAIN fwd \cup {i} /\ \A j \in DOMAIN fwd : fwd'[j] = fwd[j]
  BY StoreFacts
<1>2. CASE Shown(m) \in DOMAIN fwd
  BY <1>1, <1>2 DEF TypesFit
<1>3. CASE Shown(m) \notin DOMAIN fwd
  BY <1>1, <1>3, StoreStays DEF Get
<1> QED BY <1>2, <1>3

\* The configuration does not change, so a message stays what it is.
LEMMA SameKinds ==
    ASSUME UNCHANGED mode
    PROVE  \A m \in Messages : As(m)' = As(m) /\ Shown(m)' = Shown(m) /\ Path(m)' = Path(m)
  BY DEF As, Shown, Path

\* An entry of a message fits what is behind the numbers.
LEMMA EntryFits ==
    ASSUME Plain, EInv, NEW m \in Messages, Known(m), NEW e \in Entries, Belongs(e, m, fwd),
           NEW types, KeysKnown(fwd, types), TypesFit(fwd, types)
    PROVE  /\ KeysKnown(fwd, Put(types, e.key, e.type))
           /\ TypesFit(fwd, Put(types, e.key, e.type))
           /\ \A n \in Messages : As(n) # "guild" /\ Shown(n) \in DOMAIN fwd /\ TypeKept(n, fwd, types)
                 => TypeKept(n, fwd, Put(types, e.key, e.type))
<1>1. \A n \in Messages : As(n) # "guild" /\ Shown(n) \in DOMAIN fwd /\ e.key = fwd[Shown(n)] => e.type = Type(n)
  <2> SUFFICES ASSUME NEW n \in Messages, As(n) # "guild", Shown(n) \in DOMAIN fwd, e.key = fwd[Shown(n)]
               PROVE  e.type = Type(n)
    OBVIOUS
  <2>1. fwd[Shown(n)] \in Int /\ fwd[Shown(n)] > MaxS /\ fwd[Shown(n)] \notin Ids
    BY DEF EInv, Numbered, Plain
  <2>2. /\ As(m) \in {"guild", "group", "private"} /\ Author[m] \in Ids /\ Chat[m] \in Ids
        /\ As(m) = "guild" /\ ~Private(m) => mode.private
        /\ As(n) = "private" => Private(n) /\ ~mode.private
        /\ As(n) \in {"group", "private"} /\ MaxS \in Nat
    BY Kinds DEF EInv
  <2>3. e.key \notin 0..MaxS /\ e.key # Chat[m]
    BY <2>1, <2>2
  <2>4. CASE e.key = fwd[Author[m]] /\ (Private(m) \/ As(m) = "guild")
    <3>1. Shown(n) = Author[m]
      BY <2>4 DEF EInv, Numbered, Known
    <3>2. As(n) = "private" /\ Private(n)
      BY <2>2, <3>1 DEF Shown, Plain
    <3>3. Private(m)
      BY <2>2, <2>4, <3>2
    <3> QED BY <3>2, <3>3 DEF Belongs, Type
  <2>5. CASE e.key = fwd[Chat[m]] /\ As(m) = "group"
    <3>1. Shown(n) = Chat[m]
      BY <2>5 DEF EInv, Numbered, Known
    <3>2. Chat[n] = Chat[m]
      BY <3>1 DEF Shown, Plain
    <3> QED BY <3>2 DEF Belongs, Type, Private
  <2> QED BY <2>3, <2>4, <2>5 DEF Belongs
<1>2. e.key \in 0..MaxS \/ e.key \in Ids \/ \E j \in DOMAIN fwd : e.key = fwd[j]
  <2>1. Chat[m] \in Ids
    BY Kinds DEF EInv
  <2>2. CASE e.key = fwd[Chat[m]] /\ As(m) = "group"
    BY <2>2 DEF Known
  <2>3. CASE e.key = fwd[Author[m]]
    BY <2>3 DEF Known
  <2> QED BY <2>1, <2>2, <2>3 DEF Belongs
<1>3. KeysKnown(fwd, Put(types, e.key, e.type))
  BY <1>2 DEF KeysKnown, Put
<1>4. \A k : Get(Put(types, e.key, e.type), k, NoType) = IF k = e.key THEN e.type ELSE Get(types, k, NoType)
  BY DEF Put, Get
<1>5. TypesFit(fwd, Put(types, e.key, e.type))
  BY <1>1, <1>4 DEF TypesFit
<1>6. \A n \in Messages : As(n) # "guild" /\ Shown(n) \in DOMAIN fwd /\ TypeKept(n, fwd, types)
                 => TypeKept(n, fwd, Put(types, e.key, e.type))
  BY <1>1 DEF TypeKept, Put
<1> QED BY <1>3, <1>5, <1>6

\* Where a goroutine goes on.
LEMMA Onward ==
    ASSUME Plain, TypeOK, NEW m \in Messages, GoOn(m), UNCHANGED mode
    PROVE  /\ pc' \in [Messages -> Places] /\ \A n \in Messages \ {m} : pc'[n] = pc[n]
           /\ LET straight == As(m) = "group" /\ ~Private(m)
              IN  \/ pc[m] = "begin" /\ pc'[m] = IF straight THEN "chat" ELSE "user"
                  \/ pc[m] = "user" /\ As(m) = "guild" /\ pc'[m] = "write"
                  \/ pc[m] = "user" /\ As(m) # "guild" /\ pc'[m] = IF straight THEN "config" ELSE "chat"
                  \/ pc[m] = "chat" /\ As(m) # "guild" /\ pc'[m] = IF straight THEN "user" ELSE "config"
                  \/ pc[m] = "config" /\ As(m) # "guild" /\ pc'[m] = "number"
                  \/ pc[m] = "number" /\ As(m) # "guild" /\ pc'[m] = "write"
<1> DEFINE p == Path(m)
<1>1. PICK k \in 1..(Len(p) - 1) : p[k] = pc[m] /\ pc' = [pc EXCEPT ![m] = p[k + 1]]
  BY DEF GoOn, Goto
<1>2. CASE As(m) = "guild"
  <2>1. p = <<"begin", "user", "write">>
    BY <1>2 DEF Path
  <2> HIDE DEF p
  <2>2. k \in 1..2
    BY <1>1, <2>1
  <2>3. \/ pc[m] = "begin" /\ p[k + 1] = "user"
        \/ pc[m] = "user" /\ p[k + 1] = "write"
    BY <1>1, <2>1, <2>2
  <2> QED BY <1>1, <1>2, <2>3 DEF TypeOK, Places
<1>3. CASE As(m) = "group" /\ ~Private(m)
  <2>1. p = <<"begin", "chat", "user", "config", "number", "write">>
    BY <1>3 DEF Path
  <2> HIDE DEF p
  <2>2. k \in 1..5
    BY <1>1, <2>1
  <2>3. \/ pc[m] = "begin" /\ p[k + 1] = "chat"
        \/ pc[m] = "chat" /\ p[k + 1] = "user"
        \/ pc[m] = "user" /\ p[k + 1] = "config"
        \/ pc[m] = "config" /\ p[k + 1] = "number"
        \/ pc[m] = "number" /\ p[k + 1] = "write"
    BY <1>1, <2>1, <2>2
  <2> QED BY <1>1, <1>3, <2>3 DEF TypeOK, Places
<1>4. CASE As(m) # "guild" /\ ~(As(m) = "group" /\ ~Private(m))
  <2>1. p = <<"begin", "user", "chat", "config", "number", "write">>
    BY <1>4 DEF Path
  <2> HIDE DEF p
  <2>2. k \in 1..5
    BY <1>1, <2>1
  <2>3. \/ pc[m] = "begin" /\ p[k + 1] = "user"
        \/ pc[m] = "user" /\ p[k + 1] = "chat"
        \/ pc[m] = "chat" /\ p[k + 1] = "config"
        \/ pc[m] = "config" /\ p[k + 1] = "number"
        \/ pc[m] = "number" /\ p[k + 1] = "write"
    BY <1>1, <2>1, <2>2
  <2> QED BY <1>1, <1>4, <2>3 DEF TypeOK, Places
<1> QED BY <1>2, <1>3, <1>4

\* What stays when numbers and types are only added.
LEMMA Others ==
    ASSUME Plain, EInv, UNCHANGED mode,
           \A i \in DOMAIN fwd : i \in DOMAIN fwd' /\ fwd'[i] = fwd[i],
           \A n \in Messages : As(n) # "guild" /\ Shown(n) \in DOMAIN fwd /\ TypeKept(n, fwd, saved)
                => TypeKept(n, fwd, saved'),
           \A n \in Messages : Chat[n] \in DOMAIN fwd /\ fwd[Chat[n]] \in DOMAIN userOf
                => fwd[Chat[n]] \in DOMAIN userOf'
    PROVE  /\ \A e \in reported : Sure(e)'
           /\ \A n \in Messages : pc'[n] = pc[n] /\ todo'[n] = todo[n] =>
                 /\ Stored(n, pc[n], fwd)'
                 /\ (pc[n] \in {"number", "write"})' => UserKept(n, fwd, userOf)'
                 /\ Writing(n)'
<1>1. \A n \in Messages : As(n)' = As(n) /\ Shown(n)' = Shown(n) /\ Path(n)' = Path(n)
  BY SameKinds
<1>2. \A n \in Messages : Known(n) =>
         /\ Known(n)' /\ fwd'[Author[n]] = fwd[Author[n]]
         /\ As(n) # "guild" => /\ fwd'[Chat[n]] = fwd[Chat[n]] /\ fwd'[Shown(n)] = fwd[Shown(n)]
                               /\ Shown(n) \in DOMAIN fwd
  BY <1>1 DEF Known, Shown
<1>3. \A n \in Messages : Known(n) /\ UserKept(n, fwd, userOf) => UserKept(n, fwd, userOf)'
  BY <1>1, <1>2 DEF UserKept, Known
<1>4. \A n \in Messages : Known(n) /\ As(n) # "guild" /\ TypeKept(n, fwd, saved) => TypeKept(n, fwd, saved)'
  BY <1>1, <1>2 DEF TypeKept
<1>5. ASSUME NEW e \in reported PROVE Sure(e)'
  <2>1. Sure(e) /\ e.m \in Messages /\ Known(e.m)
    BY DEF EInv, Sure
  <2> QED BY <1>1, <1>2, <1>3, <1>4, <2>1 DEF Sure, Known
<1>6. ASSUME NEW n \in Messages, pc'[n] = pc[n], todo'[n] = todo[n]
      PROVE  /\ Stored(n, pc[n], fwd)'
             /\ (pc[n] \in {"number", "write"})' => UserKept(n, fwd, userOf)'
             /\ Writing(n)'
  <2>1. Stored(n, pc[n], fwd) /\ (pc[n] \in {"number", "write"} => UserKept(n, fwd, userOf)) /\ Writing(n)
    BY DEF EInv
  <2>2. Stored(n, pc[n], fwd)'
    BY <1>1, <1>6, <2>1 DEF Stored
  <2>3. pc[n] \in {"number", "write"} => Known(n)
    BY <2>1 DEF Stored, Known
  <2>4. (pc[n] \in {"number", "write"})' => UserKept(n, fwd, userOf)'
    BY <1>3, <1>6, <2>1, <2>3
  <2>5. ASSUME todo[n] # << >> PROVE Writing(n)'
    <3>1. pc[n] = "write" /\ Known(n)
      BY <2>1, <2>3, <2>5 DEF Writing
    <3>2. \A i \in 1..Len(todo[n]) : Belongs(todo[n][i], n, fwd)'
      BY <1>1, <1>2, <1>6, <2>1, <2>5, <3>1 DEF Writing, Belongs, Type
    <3>3. As(n) # "guild" => \/ TypeKept(n, fwd, saved)'
                             \/ \E i \in 1..Len(todo[n]) : todo[n][i] = SaveTo(fwd[Shown(n)], Type(n))
      BY <1>4, <2>1, <2>5, <3>1 DEF Writing
    <3> QED BY <1>1, <1>2, <1>6, <3>1, <3>2, <3>3 DEF Writing, SaveTo, Type
  <2> QED BY <1>6, <2>2, <2>4, <2>5 DEF Writing
<1> QED BY <1>5, <1>6

\* Only where a goroutine is has changed: the rest of the invariant stays.
LEMMA Moves ==
    ASSUME Plain, EInv, NEW m \in Messages, TypeOK',
           UNCHANGED <<mode, fwd, msgType, saved, userOf, reported>>,
           \A n \in Messages \ {m} : pc'[n] = pc[n] /\ todo'[n] = todo[n],
           Stored(m, pc[m], fwd)', (pc[m] \in {"number", "write"})' => UserKept(m, fwd, userOf)',
           Writing(m)'
    PROVE  EInv'
<1>1. /\ \A e \in reported : Sure(e)'
      /\ \A n \in Messages \ {m} :
            Stored(n, pc[n], fwd)' /\ ((pc[n] \in {"number", "write"})' => UserKept(n, fwd, userOf)') /\ Writing(n)'
  BY Others
<1>2. \A n \in Messages : As(n)' = As(n) /\ Shown(n)' = Shown(n)
  BY SameKinds
<1>3. /\ Numbered(fwd)' /\ KeysKnown(fwd, msgType)' /\ KeysKnown(fwd, saved)' /\ KeysKnown(fwd, userOf)'
      /\ TypesFit(fwd, msgType)' /\ TypesFit(fwd, saved)' /\ UsersFit(fwd, userOf)'
  BY <1>2 DEF EInv, Numbered, KeysKnown, TypesFit, UsersFit
<1> QED BY <1>1, <1>3 DEF EInv

\* A message arrives.
LEMMA ArriveStep ==
    ASSUME Plain, EInv, NEW m \in Messages, Arrive(m) PROVE EInv'
<1>1. TypeOK' /\ pc'[m] = "begin"
  BY ConfigAssumption DEF Arrive, Goto, EInv, TypeOK, Places
<1>2. \A n \in Messages \ {m} : pc'[n] = pc[n] /\ todo'[n] = todo[n]
  BY DEF Arrive, Goto, EInv, TypeOK
<1>3. Stored(m, pc[m], fwd)'
  BY <1>1 DEF Stored
<1>4. todo'[m] = << >>
  BY DEF Arrive, EInv, Writing
<1>5. Writing(m)'
  BY <1>4 DEF Writing
<1> QED BY <1>1, <1>2, <1>3, <1>5, Moves DEF Arrive

\* A goroutine reads the sequence number.
LEMMA ReadSStep ==
    ASSUME Plain, EInv, NEW m \in Messages, ReadS(m) PROVE EInv'
<1>1. /\ pc[m] = "begin" /\ pc' \in [Messages -> Places] /\ \A n \in Messages \ {m} : pc'[n] = pc[n]
      /\ pc'[m] = IF As(m) = "group" /\ ~Private(m) THEN "chat" ELSE "user"
  BY Onward DEF ReadS, EInv
<1>2. TypeOK'
  BY <1>1 DEF ReadS, EInv, TypeOK
<1>3. Stored(m, pc[m], fwd)'
  BY <1>1, SameKinds DEF Stored, ReadS
<1>4. todo'[m] = << >>
  BY <1>1 DEF ReadS, EInv, Writing
<1>5. Writing(m)'
  BY <1>4 DEF Writing
<1> QED BY <1>1, <1>2, <1>3, <1>5, Moves DEF ReadS

\* An id is stored: numbers are added.
LEMMA StoreStep ==
    ASSUME Plain, EInv, NEW m \in Messages, NEW i \in Ids, StoreIDv2(i), GoOn(m),
           (pc[m] = "chat" /\ i = Chat[m]) \/ (pc[m] = "user" /\ i = Author[m]) \/ pc[m] = "number",
           UNCHANGED <<mode, global_s, msgType, saved, userOf, s, todo, reported>>
    PROVE  EInv'
<1>1. /\ Numbered(fwd)' /\ DOMAIN fwd' = DOMAIN fwd \cup {i}
      /\ \A j \in DOMAIN fwd : fwd'[j] = fwd[j]
  BY StoreFacts DEF EInv
<1>2. \A n \in Messages : As(n)' = As(n) /\ Shown(n)' = Shown(n)
  BY SameKinds
<1>3. /\ pc' \in [Messages -> Places] /\ \A n \in Messages \ {m} : pc'[n] = pc[n]
      /\ LET straight == As(m) = "group" /\ ~Private(m)
         IN  \/ pc[m] = "user" /\ As(m) = "guild" /\ pc'[m] = "write"
             \/ pc[m] = "user" /\ As(m) # "guild" /\ pc'[m] = IF straight THEN "config" ELSE "chat"
             \/ pc[m] = "chat" /\ As(m) # "guild" /\ pc'[m] = IF straight THEN "user" ELSE "config"
             \/ pc[m] = "number" /\ As(m) # "guild" /\ pc'[m] = "write"
  BY Onward DEF EInv
<1>4. TypeOK'
  BY <1>3 DEF EInv, TypeOK
<1>5. \A n \in Messages : TypeKept(n, fwd, saved) => TypeKept(n, fwd, saved')
  OBVIOUS
<1>6. /\ \A e \in reported : Sure(e)'
      /\ \A n \in Messages \ {m} :
            Stored(n, pc[n], fwd)' /\ ((pc[n] \in {"number", "write"})' => UserKept(n, fwd, userOf)') /\ Writing(n)'
  BY <1>1, <1>3, <1>5, Others
<1>7. KeysKnown(fwd', msgType) /\ KeysKnown(fwd', saved) /\ KeysKnown(fwd', userOf)
  BY StoreStays DEF EInv
<1>8. TypesFit(fwd', msgType) /\ TypesFit(fwd', saved)
  BY StoreFits DEF EInv
<1>9. UsersFit(fwd', userOf)
  <2> SUFFICES ASSUME NEW n \in Messages, Private(n), Chat[n] \in DOMAIN fwd', fwd'[Chat[n]] \in DOMAIN userOf
               PROVE  Author[n] \in DOMAIN fwd' /\ userOf[fwd'[Chat[n]]] = fwd'[Author[n]]
    BY DEF UsersFit
  <2>1. Chat[n] \in DOMAIN fwd
    BY <1>1, StoreStays DEF EInv
  <2> QED BY <1>1, <2>1 DEF EInv, UsersFit
<1>10. /\ KeysKnown(fwd, msgType)' /\ KeysKnown(fwd, saved)' /\ KeysKnown(fwd, userOf)'
       /\ TypesFit(fwd, msgType)' /\ TypesFit(fwd, saved)' /\ UsersFit(fwd, userOf)'
  BY <1>2, <1>7, <1>8, <1>9 DEF KeysKnown, TypesFit, UsersFit
<1>11. Stored(m, pc[m], fwd) /\ (pc[m] = "number" => UserKept(m, fwd, userOf)) /\ todo[m] = << >>
  BY DEF EInv, Writing
<1>12. Stored(m, pc[m], fwd)'
  <2>1. As(m) \in {"guild", "group", "private"} /\ (As(m) = "private" => Private(m))
    BY Kinds DEF EInv
  <2>2. CASE pc[m] = "user"
    BY <1>1, <1>2, <1>3, <1>11, <2>1, <2>2 DEF Stored
  <2>3. CASE pc[m] = "chat"
    BY <1>1, <1>2, <1>3, <1>11, <2>1, <2>3 DEF Stored
  <2>4. CASE pc[m] = "number"
    BY <1>1, <1>2, <1>3, <1>11, <2>4 DEF Stored
  <2> QED BY <1>3, <2>2, <2>3, <2>4
<1>13. (pc[m] \in {"number", "write"})' => UserKept(m, fwd, userOf)'
  <2>1. CASE pc[m] = "number"
    <3>1. Chat[m] \in DOMAIN fwd
      BY <1>3, <1>11, <2>1 DEF Stored
    <3> QED BY <1>1, <1>2, <1>11, <2>1, <3>1 DEF UserKept
  <2>2. CASE pc[m] # "number"
    BY <1>2, <1>3, <2>2 DEF UserKept
  <2> QED BY <2>1, <2>2
<1>14. Writing(m)'
  BY <1>11 DEF Writing
<1> QED BY <1>1, <1>4, <1>6, <1>10, <1>12, <1>13, <1>14 DEF EInv

\* The config bucket gets the user of a private chat, who is known by then.
LEMMA WriteConfigStep ==
    ASSUME Plain, EInv, NEW m \in Messages, WriteConfig(m) PROVE EInv'
<1>1. /\ pc[m] = "config" /\ pc' \in [Messages -> Places] /\ \A n \in Messages \ {m} : pc'[n] = pc[n]
      /\ As(m) # "guild" /\ pc'[m] = "number"
  BY Onward DEF WriteConfig, EInv
<1>2. Author[m] \in DOMAIN fwd /\ Chat[m] \in DOMAIN fwd /\ todo[m] = << >>
  BY <1>1 DEF EInv, Stored, Writing
<1>3. TypeOK'
  BY <1>1 DEF WriteConfig, EInv, TypeOK
<1>4. \A n \in Messages : As(n)' = As(n) /\ Shown(n)' = Shown(n)
  BY SameKinds DEF WriteConfig
<1>5. /\ UNCHANGED <<mode, fwd, msgType, saved, todo, reported>>
      /\ userOf' = IF Private(m) /\ mode.private THEN Put(userOf, fwd[Chat[m]], fwd[Author[m]]) ELSE userOf
  BY DEF WriteConfig
<1>6. /\ KeysKnown(fwd, userOf') /\ UsersFit(fwd, userOf') /\ DOMAIN userOf \subseteq DOMAIN userOf'
      /\ Private(m) /\ mode.private => fwd[Chat[m]] \in DOMAIN userOf'
  <2>1. CASE ~(Private(m) /\ mode.private)
    BY <1>5, <2>1 DEF EInv
  <2>2. CASE Private(m) /\ mode.private
    <3>1. /\ DOMAIN userOf' = DOMAIN userOf \cup {fwd[Chat[m]]} /\ userOf'[fwd[Chat[m]]] = fwd[Author[m]]
          /\ \A k \in DOMAIN userOf : k # fwd[Chat[m]] => userOf'[k] = userOf[k]
      BY <1>5, <2>2 DEF Put
    <3>2. KeysKnown(fwd, userOf')
      BY <1>2, <3>1 DEF KeysKnown, EInv
    <3>3. ASSUME NEW n \in Messages, Private(n), Chat[n] \in DOMAIN fwd, fwd[Chat[n]] \in DOMAIN userOf'
          PROVE  Author[n] \in DOMAIN fwd /\ userOf'[fwd[Chat[n]]] = fwd[Author[n]]
      <4>1. CASE fwd[Chat[n]] = fwd[Chat[m]]
        <5>1. Chat[n] = Chat[m]
          BY <1>2, <3>3, <4>1 DEF EInv, Numbered
        <5>2. Author[n] = Author[m]
          BY <2>2, <5>1 DEF Plain
        <5> QED BY <1>2, <3>1, <4>1, <5>2
      <4>2. CASE fwd[Chat[n]] # fwd[Chat[m]]
        BY <3>1, <3>3, <4>2 DEF EInv, UsersFit
      <4> QED BY <4>1, <4>2
    <3> QED BY <3>1, <3>2, <3>3 DEF UsersFit
  <2> QED BY <2>1, <2>2
<1>7. /\ \A e \in reported : Sure(e)'
      /\ \A n \in Messages \ {m} :
            Stored(n, pc[n], fwd)' /\ ((pc[n] \in {"number", "write"})' => UserKept(n, fwd, userOf)') /\ Writing(n)'
  BY <1>1, <1>5, <1>6, Others
<1>8. Stored(m, pc[m], fwd)'
  BY <1>1, <1>2, <1>4, <1>5 DEF Stored
<1>9. UserKept(m, fwd, userOf)'
  <2>1. Private(m) /\ As(m) = "group" => mode.private
    BY DEF As
  <2> QED BY <1>4, <1>5, <1>6, <2>1 DEF UserKept
<1>10. Writing(m)'
  BY <1>2, <1>5 DEF Writing
<1>11. /\ Numbered(fwd)' /\ KeysKnown(fwd, msgType)' /\ KeysKnown(fwd, saved)' /\ KeysKnown(fwd, userOf)'
       /\ TypesFit(fwd, msgType)' /\ TypesFit(fwd, saved)' /\ UsersFit(fwd, userOf)'
  BY <1>4, <1>5, <1>6 DEF EInv, Numbered, KeysKnown, TypesFit, UsersFit
<1> QED BY <1>3, <1>5, <1>7, <1>8, <1>9, <1>10, <1>11 DEF EInv

\* A message is dropped.
LEMMA FilteredStep ==
    ASSUME Plain, EInv, NEW m \in Messages, Filtered(m) PROVE EInv'
<1>1. TypeOK' /\ pc'[m] = "done" /\ todo'[m] = << >>
  BY DEF Filtered, Goto, EInv, TypeOK, Places
<1>2. \A n \in Messages \ {m} : pc'[n] = pc[n] /\ todo'[n] = todo[n]
  BY DEF Filtered, Goto, EInv, TypeOK
<1>3. Stored(m, pc[m], fwd)'
  BY <1>1 DEF Stored
<1>4. Writing(m)'
  BY <1>1 DEF Writing
<1> QED BY <1>1, <1>2, <1>3, <1>4, Moves DEF Filtered

\* What a message has to write is its own, and among it what its answers need.
LEMMA WhatToWrite ==
    ASSUME Plain, EInv, NEW m \in Messages, pc[m] = "write"
    PROVE  LET all == Marks(m) \o Saves(m)
           IN  /\ all \in Seq(Entries)
               /\ \A i \in 1..Len(all) : Belongs(all[i], m, fwd)
               /\ As(m) # "guild" => \E i \in 1..Len(all) : all[i] = SaveTo(fwd[Shown(m)], Type(m))
<1> DEFINE own == {e \in Entries : Belongs(e, m, fwd)}
           user == IF Private(m) \/ As(m) = "guild" THEN <<EchoTo(fwd[Author[m]], Type(m))>> ELSE << >>
           raw == IF Private(m) THEN <<SaveTo(fwd[Author[m]], Type(m))>> ELSE << >>
           marks == Marks(m)
           saves == Saves(m)
           all == marks \o saves
<1>1. /\ Author[m] \in DOMAIN fwd /\ (As(m) # "guild" => Chat[m] \in DOMAIN fwd)
      /\ \A j \in DOMAIN fwd : fwd[j] \in Int
  BY DEF EInv, Stored, Numbered
<1>2. /\ As(m) \in {"guild", "group", "private"} /\ Type(m) \in {"guild", "guild_private"}
      /\ Chat[m] \in Ids /\ s[m] \in 0..MaxS /\ MaxS \in Nat
      /\ As(m) = "private" => Private(m)
  BY Kinds DEF EInv, TypeOK
<1>3. EchoTo(s[m], Type(m)) \in own
  BY <1>2 DEF EchoTo, Entries, Belongs
<1>4. Private(m) \/ As(m) = "guild" => EchoTo(fwd[Author[m]], Type(m)) \in own
  BY <1>1, <1>2 DEF EchoTo, Entries, Belongs
<1>5. Private(m) => SaveTo(fwd[Author[m]], Type(m)) \in own
  BY <1>1, <1>2 DEF SaveTo, Entries, Belongs
<1>6. As(m) = "group" => SaveTo(fwd[Chat[m]], Type(m)) \in own /\ EchoTo(fwd[Chat[m]], Type(m)) \in own
  BY <1>1, <1>2 DEF SaveTo, EchoTo, Entries, Belongs
<1>7. SaveTo(Chat[m], Type(m)) \in own
  BY <1>2 DEF SaveTo, Entries, Belongs
<1>8. marks = <<EchoTo(s[m], Type(m))>> \o user
  BY DEF Marks
<1>9. saves = CASE As(m) = "group" -> <<SaveTo(fwd[Chat[m]], Type(m)), EchoTo(fwd[Chat[m]], Type(m))>>
                [] As(m) = "private" -> <<SaveTo(fwd[Author[m]], Type(m))>>
                [] OTHER -> <<SaveTo(Chat[m], Type(m))>> \o raw
  BY DEF Saves
<1> HIDE DEF own, marks, saves
<1>10. user \in Seq(own)
  BY <1>4
<1>11. marks \in Seq(own)
  BY <1>3, <1>8, <1>10
<1>12. raw \in Seq(own)
  BY <1>5
<1>13. saves \in Seq(own) /\ (As(m) # "guild" => Len(saves) >= 1 /\ saves[1] = SaveTo(fwd[Shown(m)], Type(m)))
  <2>1. CASE As(m) = "group"
    BY <1>6, <1>9, <2>1 DEF Shown
  <2>2. CASE As(m) = "private"
    BY <1>2, <1>5, <1>9, <2>2 DEF Shown
  <2>3. CASE As(m) = "guild"
    <3>1. saves = <<SaveTo(Chat[m], Type(m))>> \o raw
      BY <1>9, <2>3
    <3> HIDE DEF raw
    <3> QED BY <1>7, <1>12, <2>3, <3>1
  <2> QED BY <1>2, <2>1, <2>2, <2>3
<1>14. all \in Seq(own) /\ Len(all) = Len(marks) + Len(saves)
  BY <1>11, <1>13
<1>15. Len(saves) >= 1 => all[Len(marks) + 1] = saves[1]
  BY <1>11, <1>13
<1>16. As(m) # "guild" => \E i \in 1..Len(all) : all[i] = SaveTo(fwd[Shown(m)], Type(m))
  <2>1. Len(marks) \in Nat /\ Len(saves) \in Nat
    BY <1>11, <1>13
  <2>2. ASSUME As(m) # "guild" PROVE Len(marks) + 1 \in 1..Len(all)
    BY <1>13, <1>14, <2>1, <2>2
  <2> HIDE DEF all
  <2> QED BY <1>13, <1>15, <2>2
<1>17. \A i \in 1..Len(all) : all[i] \in own
  BY <1>14
<1> HIDE DEF all
<1>18. all \in Seq(Entries) /\ \A i \in 1..Len(all) : Belongs(all[i], m, fwd)
  BY <1>14, <1>17 DEF own
<1> QED BY <1>16, <1>18 DEF all, marks, saves

\* A goroutine has what it will write.
LEMMA PrepareStep ==
    ASSUME Plain, EInv, NEW m \in Messages, Prepare(m) PROVE EInv'
<1> DEFINE all == Marks(m) \o Saves(m)
<1>1. /\ pc[m] = "write" /\ UNCHANGED <<mode, global_s, fwd, msgType, saved, userOf, pc, s, reported>>
      /\ todo' = [todo EXCEPT ![m] = all]
  BY DEF Prepare
<1>2. /\ all \in Seq(Entries)
      /\ \A i \in 1..Len(all) : Belongs(all[i], m, fwd)
      /\ As(m) # "guild" => \E i \in 1..Len(all) : all[i] = SaveTo(fwd[Shown(m)], Type(m))
  BY <1>1, WhatToWrite
<1> HIDE DEF all
<1>3. todo' \in [Messages -> Seq(Entries)] /\ todo'[m] = all /\ \A n \in Messages \ {m} : todo'[n] = todo[n]
  BY <1>1, <1>2 DEF EInv, TypeOK
<1>4. TypeOK'
  BY <1>1, <1>3 DEF EInv, TypeOK
<1>5. \A n \in Messages : As(n)' = As(n) /\ Shown(n)' = Shown(n)
  BY <1>1, SameKinds
<1>6. Stored(m, pc[m], fwd)' /\ UserKept(m, fwd, userOf)'
  BY <1>1, <1>5 DEF EInv, Stored, UserKept
<1>7. Writing(m)'
  BY <1>1, <1>2, <1>3, <1>5 DEF Writing, Belongs, Type, SaveTo
<1> QED BY <1>1, <1>3, <1>4, <1>6, <1>7, Moves

\* One entry is written, and after the last the event is reported.
LEMMA WriteStep ==
    ASSUME Plain, EInv, NEW m \in Messages, Write(m) PROVE EInv'
<1> DEFINE t == todo[m]
           e == Head(t)
<1>1. /\ pc[m] = "write" /\ t # << >> /\ todo' = [todo EXCEPT ![m] = Tail(t)]
      /\ UNCHANGED <<mode, global_s, fwd, userOf, s>>
      /\ \/ e.to = "echo" /\ msgType' = Put(msgType, e.key, e.type) /\ UNCHANGED saved
         \/ e.to # "echo" /\ saved' = Put(saved, e.key, e.type) /\ UNCHANGED msgType
  BY DEF Write
<1>2. /\ t \in Seq(Entries) /\ Len(t) \in Nat \ {0} /\ e = t[1] /\ e \in Entries
      /\ Tail(t) \in Seq(Entries) /\ Len(Tail(t)) = Len(t) - 1
      /\ \A i \in 1..Len(Tail(t)) : Tail(t)[i] = t[i + 1]
  BY <1>1 DEF EInv, TypeOK
<1>3. /\ \A i \in 1..Len(t) : Belongs(t[i], m, fwd)
      /\ As(m) # "guild" => \/ TypeKept(m, fwd, saved)
                            \/ \E i \in 1..Len(t) : t[i] = SaveTo(fwd[Shown(m)], Type(m))
      /\ Known(m) /\ Stored(m, pc[m], fwd) /\ UserKept(m, fwd, userOf)
  BY <1>1 DEF EInv, Writing, Stored, Known
<1>4. todo' \in [Messages -> Seq(Entries)] /\ todo'[m] = Tail(t) /\ \A n \in Messages \ {m} : todo'[n] = todo[n]
  BY <1>1, <1>2 DEF EInv, TypeOK
<1>5. /\ pc' \in [Messages -> Places] /\ \A n \in Messages \ {m} : pc'[n] = pc[n]
      /\ \/ Len(t) = 1 /\ pc'[m] = "done" /\ reported' = reported \cup {EventOf(m)}
         \/ Len(t) # 1 /\ pc'[m] = "write" /\ reported' = reported
  BY <1>1 DEF Write, Goto, EInv, TypeOK, Places
<1>6. TypeOK'
  BY <1>1, <1>4, <1>5 DEF EInv, TypeOK
<1> HIDE DEF t, e
<1>7. Belongs(e, m, fwd)
  BY <1>2, <1>3
<1>8. \A n \in Messages : As(n)' = As(n) /\ Shown(n)' = Shown(n)
  BY <1>1, SameKinds
<1>9. /\ KeysKnown(fwd, msgType') /\ TypesFit(fwd, msgType') /\ KeysKnown(fwd, saved') /\ TypesFit(fwd, saved')
      /\ \A n \in Messages : As(n) # "guild" /\ Shown(n) \in DOMAIN fwd /\ TypeKept(n, fwd, saved)
            => TypeKept(n, fwd, saved')
  BY <1>1, <1>2, <1>3, <1>7, EntryFits DEF EInv
<1>10. /\ \A f \in reported : Sure(f)'
       /\ \A n \in Messages \ {m} :
            Stored(n, pc[n], fwd)' /\ ((pc[n] \in {"number", "write"})' => UserKept(n, fwd, userOf)') /\ Writing(n)'
  BY <1>1, <1>4, <1>5, <1>9, Others
<1>11. Stored(m, pc[m], fwd)' /\ UserKept(m, fwd, userOf)'
  BY <1>1, <1>3, <1>5, <1>8 DEF Stored, UserKept
\* What answers need is written now, or was, or will be.
<1>12. ASSUME As(m) # "guild"
       PROVE  \/ TypeKept(m, fwd, saved')
              \/ \E i \in 1..Len(Tail(t)) : Tail(t)[i] = SaveTo(fwd[Shown(m)], Type(m))
  <2>1. Shown(m) \in DOMAIN fwd
    BY <1>3, <1>12 DEF Known, Shown
  <2>2. CASE TypeKept(m, fwd, saved)
    BY <1>9, <1>12, <2>1, <2>2
  <2>3. ASSUME NEW i \in 1..Len(t), t[i] = SaveTo(fwd[Shown(m)], Type(m)) PROVE <1>12!2
    <3>1. CASE i = 1
      <4>1. e = SaveTo(fwd[Shown(m)], Type(m))
        BY <1>2, <2>3, <3>1
      <4>2. e.to = "config" /\ e.key = fwd[Shown(m)] /\ e.type = Type(m)
        BY <4>1 DEF SaveTo
      <4>3. saved' = Put(saved, fwd[Shown(m)], Type(m))
        BY <1>1, <4>2
      <4> QED BY <4>3 DEF Put, TypeKept
    <3>2. CASE i # 1
      <4>1. i - 1 \in 1..Len(Tail(t)) /\ Tail(t)[i - 1] = t[i]
        BY <1>2, <3>2
      <4> QED BY <2>3, <4>1
    <3> QED BY <3>1, <3>2
  <2> QED BY <1>3, <1>12, <2>2, <2>3
<1>13. \A i \in 1..Len(Tail(t)) : Belongs(Tail(t)[i], m, fwd)
  BY <1>2, <1>3
<1>14. Writing(m)'
  <2>1. CASE Len(t) = 1
    <3>1. todo'[m] = << >>
      BY <1>2, <1>4, <2>1
    <3> QED BY <3>1 DEF Writing
  <2>2. CASE Len(t) # 1
    BY <1>1, <1>4, <1>5, <1>8, <1>12, <1>13, <2>2 DEF Writing, Belongs, TypeKept, Type, SaveTo
  <2> QED BY <2>1, <2>2
<1>15. EventOf(m)' = EventOf(m)
  BY <1>1, <1>8 DEF EventOf
<1>16. ASSUME Len(t) = 1, NEW f, f = EventOf(m) PROVE Sure(f)'
  <2>1. f = [m |-> m, as |-> As(m), group |-> IF As(m) = "group" THEN fwd[Chat[m]] ELSE NoKey,
             user |-> fwd[Author[m]], echo |-> NoKey]
    BY <1>16 DEF EventOf, Plain
  <2>2. f.m = m
    BY <2>1
  <2>3. As(m) # "guild" => TypeKept(m, fwd, saved')
    <3>1. Len(Tail(t)) = 0
      BY <1>2, <1>16
    <3> HIDE <1>2
    <3>2. ~\E i \in 1..Len(Tail(t)) : Tail(t)[i] = SaveTo(fwd[Shown(m)], Type(m))
      BY <3>1
    <3> QED BY <1>12, <3>2
  <2>4. As(m) # "guild" => TypeKept(m, fwd, saved)'
    BY <1>1, <1>8, <2>3 DEF TypeKept, Type
  <2>5. Known(m)'
    BY <1>1, <1>3, <1>8 DEF Known
  <2>6. f = [m |-> m, as |-> As(m)', group |-> IF As(m)' = "group" THEN fwd'[Chat[m]] ELSE NoKey,
             user |-> fwd'[Author[m]], echo |-> NoKey]
    BY <1>1, <1>8, <2>1
  <2> QED BY <1>8, <1>11, <2>2, <2>4, <2>5, <2>6 DEF Sure
<1>17. \A f \in reported' : Sure(f)'
  <2>1. ASSUME NEW f \in reported' PROVE Sure(f)'
    <3>1. CASE f \in reported
      BY <1>10, <3>1
    <3>2. CASE f \notin reported
      BY <1>5, <1>16, <3>2
    <3> QED BY <3>1, <3>2
  <2> QED BY <2>1
<1>18. /\ Numbered(fwd)' /\ KeysKnown(fwd, msgType)' /\ KeysKnown(fwd, saved)' /\ KeysKnown(fwd, userOf)'
       /\ TypesFit(fwd, msgType)' /\ TypesFit(fwd, saved)' /\ UsersFit(fwd, userOf)'
  BY <1>1, <1>8, <1>9 DEF EInv, Numbered, KeysKnown, TypesFit, UsersFit
<1> QED BY <1>6, <1>10, <1>11, <1>14, <1>17, <1>18 DEF EInv

\* A packet of another event changes only the sequence number.
LEMMA OtherPacketStep ==
    ASSUME Plain, EInv, OtherPacket PROVE EInv'
<1>1. TypeOK'
  BY ConfigAssumption DEF OtherPacket, EInv, TypeOK
<1>2. UNCHANGED <<mode, fwd, msgType, saved, userOf, pc, todo, reported>>
  BY DEF OtherPacket
<1>3. \A n \in Messages : As(n)' = As(n) /\ Shown(n)' = Shown(n)
  BY <1>2, SameKinds
<1>4. /\ \A e \in reported : Sure(e)'
      /\ \A n \in Messages : Stored(n, pc[n], fwd)' /\ ((pc[n] \in {"number", "write"})' => UserKept(n, fwd, userOf)')
                             /\ Writing(n)'
  BY <1>2, Others
<1>5. /\ Numbered(fwd)' /\ KeysKnown(fwd, msgType)' /\ KeysKnown(fwd, saved)' /\ KeysKnown(fwd, userOf)'
      /\ TypesFit(fwd, msgType)' /\ TypesFit(fwd, saved)' /\ UsersFit(fwd, userOf)'
  BY <1>2, <1>3 DEF EInv, Numbered, KeysKnown, TypesFit, UsersFit
<1> QED BY <1>1, <1>2, <1>4, <1>5 DEF EInv

\* What is not in the database is lost; what was reported needs nothing else.
LEMMA RestartStep ==
    ASSUME Plain, EInv, Restart PROVE EInv'
<1>1. /\ \A m \in Messages : pc'[m] \in {"sent", "done"} /\ todo'[m] = << >>
      /\ msgType' = << >> /\ UNCHANGED <<mode, fwd, saved, userOf, reported>>
  BY DEF Restart
<1>2. TypeOK'
  BY ConfigAssumption DEF Restart, EInv, TypeOK, Places
<1>3. \A n \in Messages : As(n)' = As(n) /\ Shown(n)' = Shown(n)
  BY <1>1, SameKinds
<1>4. \A e \in reported : Sure(e)'
  BY <1>1, Others
<1>5. \A m \in Messages : Stored(m, pc[m], fwd)' /\ ((pc[m] \in {"number", "write"})' => UserKept(m, fwd, userOf)')
                          /\ Writing(m)'
  BY <1>1 DEF Stored, Writing
<1>6. KeysKnown(fwd, msgType)' /\ TypesFit(fwd, msgType)'
  BY <1>1 DEF KeysKnown, TypesFit, Get
<1>7. /\ Numbered(fwd)' /\ KeysKnown(fwd, saved)' /\ KeysKnown(fwd, userOf)'
      /\ TypesFit(fwd, saved)' /\ UsersFit(fwd, userOf)'
  BY <1>1, <1>3 DEF EInv, Numbered, KeysKnown, TypesFit, UsersFit
<1> QED BY <1>1, <1>2, <1>4, <1>5, <1>6, <1>7 DEF EInv

\* An answer sets a type to nothing in memory only.
LEMMA AnswerStep ==
    ASSUME Plain, EInv, NEW e \in reported, Answer(e) PROVE EInv'
<1> DEFINE k == IF UserField(e) # NoKey THEN UserField(e) ELSE e.group
<1>1. e.as # "guild" /\ msgType' = Put(msgType, k, NoType)
      /\ UNCHANGED <<mode, global_s, fwd, saved, userOf, pc, s, todo, reported>>
  BY DEF Answer
<1>2. Sure(e)
  BY DEF EInv
<1>3. \E i \in DOMAIN fwd : k = fwd[i]
  <2>1. e.m \in Messages /\ Known(e.m) /\ e.as = As(e.m) /\ As(e.m) \in {"guild", "group", "private"}
        /\ e.user = fwd[Author[e.m]] /\ e.group = IF As(e.m) = "group" THEN fwd[Chat[e.m]] ELSE NoKey
    BY <1>2, Kinds DEF Sure, EInv
  <2>3. UserField(e) = IF e.as = "private" THEN e.user ELSE NoKey
    BY DEF UserField, Plain
  <2>4. CASE As(e.m) = "private"
    <3>1. fwd[Author[e.m]] # NoKey
      BY <2>1, MessagesAssumption DEF EInv, Numbered, Known
    <3> QED BY <2>1, <2>3, <2>4, <3>1 DEF Known
  <2>5. CASE As(e.m) = "group"
    BY <1>1, <2>1, <2>3, <2>5 DEF Known
  <2> QED BY <1>1, <2>1, <2>4, <2>5
<1> HIDE DEF k
<1>4. \A j : Get(msgType', j, NoType) = IF j = k THEN NoType ELSE Get(msgType, j, NoType)
  BY <1>1 DEF Put, Get
<1>5. TypesFit(fwd, msgType') /\ KeysKnown(fwd, msgType')
  <2>1. TypesFit(fwd, msgType')
    BY <1>4 DEF EInv, TypesFit
  <2>2. KeysKnown(fwd, msgType')
    BY <1>1, <1>3 DEF EInv, KeysKnown, Put
  <2> QED BY <2>1, <2>2
<1>6. \A n \in Messages : As(n)' = As(n) /\ Shown(n)' = Shown(n)
  BY <1>1, SameKinds
<1>7. TypeOK'
  BY <1>1 DEF EInv, TypeOK
<1>8. /\ \A f \in reported : Sure(f)'
      /\ \A n \in Messages : Stored(n, pc[n], fwd)' /\ ((pc[n] \in {"number", "write"})' => UserKept(n, fwd, userOf)')
                             /\ Writing(n)'
  BY <1>1, Others
<1>9. /\ Numbered(fwd)' /\ KeysKnown(fwd, msgType)' /\ KeysKnown(fwd, saved)' /\ KeysKnown(fwd, userOf)'
      /\ TypesFit(fwd, msgType)' /\ TypesFit(fwd, saved)' /\ UsersFit(fwd, userOf)'
  BY <1>1, <1>5, <1>6 DEF EInv, Numbered, KeysKnown, TypesFit, UsersFit
<1> QED BY <1>1, <1>7, <1>8, <1>9 DEF EInv

\* Nothing is stored, nothing reported.
LEMMA InitStep == ASSUME Plain, Init PROVE EInv
<1>1. DOMAIN fwd = {} /\ DOMAIN msgType = {} /\ DOMAIN saved = {} /\ DOMAIN userOf = {} /\ fwd = << >>
  BY DEF Init
<1>2. TypeOK
  BY ConfigAssumption DEF Init, TypeOK, Places
<1>3. Numbered(fwd)
  BY <1>1, FS_EmptySet DEF Numbered
<1>4. KeysKnown(fwd, msgType) /\ KeysKnown(fwd, saved) /\ KeysKnown(fwd, userOf)
  BY <1>1 DEF KeysKnown
<1>5. TypesFit(fwd, msgType) /\ TypesFit(fwd, saved) /\ UsersFit(fwd, userOf)
  BY <1>1 DEF TypesFit, UsersFit
<1>6. \A m \in Messages : pc[m] = "sent" /\ todo[m] = << >>
  BY DEF Init
<1>7. \A m \in Messages : Stored(m, pc[m], fwd) /\ Writing(m)
  BY <1>6 DEF Stored, Writing
<1>8. reported = {}
  BY DEF Init
<1> QED BY <1>2, <1>3, <1>4, <1>5, <1>6, <1>7, <1>8 DEF EInv

\* Nothing changes.
LEMMA StutterStep == ASSUME EInv, UNCHANGED vars PROVE EInv'
<1>1. UNCHANGED <<mode, global_s, fwd, msgType, saved, userOf, pc, s, todo, reported>>
  BY DEF vars
<1>2. \A n \in Messages : As(n)' = As(n) /\ Shown(n)' = Shown(n) /\ Path(n)' = Path(n)
  BY <1>1, SameKinds
<1>3. TypeOK'
  BY <1>1 DEF EInv, TypeOK
<1>4. /\ Numbered(fwd)' /\ KeysKnown(fwd, msgType)' /\ KeysKnown(fwd, saved)' /\ KeysKnown(fwd, userOf)'
      /\ TypesFit(fwd, msgType)' /\ TypesFit(fwd, saved)' /\ UsersFit(fwd, userOf)'
  BY <1>1, <1>2 DEF EInv, Numbered, KeysKnown, TypesFit, UsersFit
<1>5. ASSUME NEW m \in Messages
      PROVE  Stored(m, pc[m], fwd)' /\ ((pc[m] \in {"number", "write"})' => UserKept(m, fwd, userOf)') /\ Writing(m)'
  <2>1. Stored(m, pc[m], fwd)' /\ ((pc[m] \in {"number", "write"})' => UserKept(m, fwd, userOf)')
    BY <1>1, <1>2 DEF EInv, Stored, UserKept
  <2>2. Writing(m)'
    BY <1>1, <1>2 DEF EInv, Writing, Belongs, TypeKept, Type, SaveTo
  <2> QED BY <2>1, <2>2
<1>6. ASSUME NEW e \in reported PROVE Sure(e)'
  <2>1. Sure(e)
    BY DEF EInv
  <2> QED BY <1>1, <1>2, <2>1 DEF Sure, Known, TypeKept, Type, UserKept
<1> QED BY <1>1, <1>3, <1>4, <1>5, <1>6 DEF EInv

\* Every step keeps the invariant.
LEMMA NextStep == ASSUME Plain, EInv, Next PROVE EInv'
<1>1. ASSUME NEW m \in Messages, Arrive(m) PROVE EInv'
  BY <1>1, ArriveStep
<1>2. ASSUME NEW m \in Messages, ReadS(m) PROVE EInv'
  BY <1>2, ReadSStep
<1>3. ASSUME NEW m \in Messages, StoreChat(m) PROVE EInv'
  <2>1. Chat[m] \in Ids
    BY DEF Ids
  <2> QED BY <1>3, <2>1, StoreStep DEF StoreChat
<1>4. ASSUME NEW m \in Messages, StoreUser(m) PROVE EInv'
  <2>1. Author[m] \in Ids
    BY DEF Ids
  <2> QED BY <1>4, <2>1, StoreStep DEF StoreUser
<1>5. ASSUME NEW m \in Messages, StoreMessage(m) PROVE EInv'
  <2>1. m \in Ids
    BY DEF Ids
  <2> QED BY <1>5, <2>1, StoreStep DEF StoreMessage
<1>6. ASSUME NEW m \in Messages, WriteConfig(m) PROVE EInv'
  BY <1>6, WriteConfigStep
<1>7. ASSUME NEW m \in Messages, Filtered(m) PROVE EInv'
  BY <1>7, FilteredStep
<1>8. ASSUME NEW m \in Messages, Prepare(m) PROVE EInv'
  BY <1>8, PrepareStep
<1>9. ASSUME NEW m \in Messages, Write(m) PROVE EInv'
  BY <1>9, WriteStep
<1>10. ASSUME NEW e \in reported, Answer(e) PROVE EInv'
  BY <1>10, AnswerStep
<1>11. CASE OtherPacket
  BY <1>11, OtherPacketStep
<1>12. CASE Restart
  BY <1>12, RestartStep
<1> QED BY <1>1, <1>2, <1>3, <1>4, <1>5, <1>6, <1>7, <1>8, <1>9, <1>10, <1>11, <1>12 DEF Next, Handle

\* The first that is not "nothing" of five, when they are nothing or one thing.
LEMMA OneType ==
    ASSUME NEW found, DOMAIN found = 1..5, NEW t, \A k \in 1..5 : found[k] \in {NoType, t},
           NEW j \in 1..5, found[j] = t, t # NoType
    PROVE  LET known == {k \in DOMAIN found : found[k] # NoType}
           IN  known # {} /\ found[Min(known)] = t
<1> DEFINE known == {k \in DOMAIN found : found[k] # NoType}
<1>1. known \subseteq 1..5 /\ j \in known
  OBVIOUS
<1>2. \E x \in known : \A y \in known : x =< y
  <2> DEFINE h(x) == x \in known
  <2>1. CASE h(1)
    BY <1>1, <2>1
  <2>2. CASE ~h(1) /\ h(2)
    BY <1>1, <2>2
  <2>3. CASE ~h(1) /\ ~h(2) /\ h(3)
    BY <1>1, <2>3
  <2>4. CASE ~h(1) /\ ~h(2) /\ ~h(3) /\ h(4)
    BY <1>1, <2>4
  <2>5. CASE ~h(1) /\ ~h(2) /\ ~h(3) /\ ~h(4)
    BY <1>1, <2>5
  <2> QED BY <2>1, <2>2, <2>3, <2>4, <2>5
<1>3. Min(known) \in known
  BY <1>2 DEF Min
<1> QED BY <1>1, <1>3

\* A number leads back to its id.
LEMMA NumberFound ==
    ASSUME Plain, Numbered(fwd), NEW i \in DOMAIN fwd PROVE IdOf(fwd[i]) = i
  BY DEF IdOf, Numbered

\* Of an event whose message is known and whose type is kept the first type
\* found is its own, and the id behind its number is the chat or the user.
LEMMA Arrival == ASSUME Plain, EInv PROVE AnswersArrive
<1> SUFFICES ASSUME NEW e \in reported PROVE Reaches(e)
  BY DEF AnswersArrive
<1> DEFINE m == e.m
<1>1. /\ m \in Messages /\ Known(m) /\ e.as = As(m) /\ e.echo = NoKey /\ e.user = fwd[Author[m]]
      /\ e.group = IF As(m) = "group" THEN fwd[Chat[m]] ELSE NoKey
      /\ As(m) # "guild" => TypeKept(m, fwd, saved)
      /\ UserKept(m, fwd, userOf)
  BY DEF EInv, Sure
<1> HIDE DEF m
<1>2. /\ As(m) \in {"guild", "group", "private"} /\ Type(m) \in {"guild", "guild_private"}
      /\ As(m) = "private" => Private(m)
      /\ Author[m] \in Ids /\ Chat[m] \in Ids
  BY <1>1, Kinds DEF EInv
<1>3. UserField(e) = IF As(m) = "private" THEN fwd[Author[m]] ELSE NoKey
  BY <1>1 DEF UserField, Plain
<1>4. \A i \in DOMAIN fwd : fwd[i] # NoKey /\ IdOf(fwd[i]) = i /\ i # NoKey
  BY NumberFound, MessagesAssumption DEF EInv, Numbered
<1>5. Get(msgType, NoKey, NoType) = NoType /\ Get(saved, NoKey, NoType) = NoType
  BY <1>4, MessagesAssumption, ConfigAssumption DEF EInv, KeysKnown, Get
<1>6. CASE As(m) = "guild"
  <2>1. TypeFound("guild", NoKey, NoKey, NoKey) = NoType
    <3> DEFINE found == <<Get(msgType, NoKey, NoType), Get(msgType, NoKey, NoType), Get(msgType, NoKey, NoType),
                          Get(saved, NoKey, NoType), Get(saved, NoKey, NoType)>>
    <3>1. {k \in DOMAIN found : found[k] # NoType} = {}
      <4>1. found = <<NoType, NoType, NoType, NoType, NoType>>
        BY <1>5
      <4> HIDE DEF found
      <4> QED BY <4>1
    <3> QED BY <3>1 DEF TypeFound
  <2>2. Destination("guild", NoKey, NoKey, NoKey, Chat[m]) = <<"channel", Chat[m]>>
    BY <2>1 DEF Destination, NoType
  <2> QED BY <1>1, <1>3, <1>6, <2>2 DEF Reaches, m
<1>7. CASE As(m) = "private"
  <2> DEFINE n == fwd[Author[m]]
  <2>1. Author[m] \in DOMAIN fwd /\ Type(m) = "guild_private" /\ Private(m) /\ Shown(m) = Author[m]
    BY <1>1, <1>2, <1>7 DEF Known, Type, Shown
  <2>2. Get(saved, n, NoType) = "guild_private" /\ Get(msgType, n, NoType) \in {NoType, "guild_private"}
    BY <1>1, <1>7, <2>1 DEF EInv, TypesFit, TypeKept, Get
  <2> HIDE DEF n
  <2>3. TypeFound("private", NoKey, NoKey, n) = "guild_private"
    <3> DEFINE found == <<Get(msgType, NoKey, NoType), Get(msgType, n, NoType), Get(msgType, NoKey, NoType),
                          Get(saved, n, NoType), Get(saved, NoKey, NoType)>>
    <3>1. DOMAIN found = 1..5 /\ found[4] = "guild_private" /\ \A k \in 1..5 : found[k] \in {NoType, "guild_private"}
      BY <1>5, <2>2
    <3>2. TypeFound("private", NoKey, NoKey, n) =
             IF {k \in DOMAIN found : found[k] # NoType} = {} THEN NoType
             ELSE found[Min({k \in DOMAIN found : found[k] # NoType})]
      BY DEF TypeFound
    <3> HIDE DEF found
    <3>3. "guild_private" # NoType
      BY DEF NoType
    <3> QED BY <3>1, <3>2, <3>3, OneType
  <2>4. ToUser(n) = <<"user", Author[m]>> /\ n # NoKey
    BY <1>4, <2>1 DEF ToUser, n
  <2>5. Destination("private", NoKey, NoKey, n, Chat[m]) = <<"user", Author[m]>>
    BY <2>3, <2>4 DEF Destination
  <2> QED BY <1>1, <1>3, <1>7, <2>1, <2>5 DEF Reaches, m, n
<1>8. CASE As(m) = "group"
  <2> DEFINE g == fwd[Chat[m]]
  <2>1. Author[m] \in DOMAIN fwd /\ Chat[m] \in DOMAIN fwd /\ Shown(m) = Chat[m]
    BY <1>1, <1>8 DEF Known, Shown
  <2>2. Get(saved, g, NoType) = Type(m) /\ Get(msgType, g, NoType) \in {NoType, Type(m)}
    BY <1>1, <1>8, <2>1 DEF EInv, TypesFit, TypeKept, Get
  <2>3. Private(m) => Get(userOf, g, NoKey) = fwd[Author[m]]
    BY <1>1, <1>8, <2>1 DEF EInv, UsersFit, UserKept, Get
  <2>4. IdOf(g) = Chat[m]
    BY <1>4, <2>1
  <2> HIDE DEF g
  <2>5. TypeFound("group", NoKey, g, NoKey) = Type(m)
    <3> DEFINE found == <<Get(msgType, NoKey, NoType), Get(msgType, g, NoType), Get(msgType, NoKey, NoType),
                          Get(saved, g, NoType), Get(saved, NoKey, NoType)>>
    <3>1. DOMAIN found = 1..5 /\ found[4] = Type(m) /\ \A k \in 1..5 : found[k] \in {NoType, Type(m)}
      BY <1>5, <2>2
    <3>2. TypeFound("group", NoKey, g, NoKey) =
             IF {k \in DOMAIN found : found[k] # NoType} = {} THEN NoType
             ELSE found[Min({k \in DOMAIN found : found[k] # NoType})]
      BY DEF TypeFound
    <3> HIDE DEF found
    <3>3. Type(m) # NoType
      BY DEF NoType, Type
    <3> QED BY <3>1, <3>2, <3>3, OneType
  <2>6. CASE Private(m)
    <3>1. ToUser(fwd[Author[m]]) = <<"user", Author[m]>>
      BY <1>4, <2>1 DEF ToUser
    <3>2. Destination("group", NoKey, g, NoKey, Chat[m]) = <<"user", Author[m]>>
      BY <2>3, <2>5, <2>6, <3>1 DEF Destination, Type
    <3> QED BY <1>1, <1>3, <1>8, <2>6, <3>2 DEF Reaches, m, g
  <2>7. CASE ~Private(m)
    <3>1. Destination("group", NoKey, g, NoKey, Chat[m]) = <<"channel", Chat[m]>>
      BY <2>4, <2>5, <2>7 DEF Destination, Type
    <3> QED BY <1>1, <1>3, <1>8, <3>1 DEF Reaches, m, g
  <2> QED BY <2>6, <2>7
<1> QED BY <1>2, <1>6, <1>7, <1>8

\* ProcessGuildNormalMessage, ProcessChannelDirectMessage and the handlers of
\* answers: an answer to a reported event reaches the chat its message came from,
\* whatever other messages are half handled, after any answers and restarts.
THEOREM AnswersAlwaysArrive == ASSUME Plain PROVE Spec => []AnswersArrive
<1>1. Init => EInv
  BY InitStep
<1>2. EInv /\ [Next]_vars => EInv'
  BY NextStep, StutterStep
<1>3. EInv => AnswersArrive
  BY Arrival
<1> QED BY <1>1, <1>2, <1>3, PTL DEF Spec
----------------------------------------------------------------------------------
\* config.yml.

\* The files by themselves.
FilesSpec == ConfigInit /\ [][ConfigNext]_configVars

\* Where a process may yet write a file or ask for a restart.
Active == {"main", "template", "writing", "load", "compare", "append", "appending", "loaded"}

\* The types of what the files depend on.
FilesTypeOK ==
    /\ place \in [system : {"windows", "unix"}, exe : Dirs]
    /\ file \in [Dirs -> [there : BOOLEAN, inode : Nat, lines : Seq(Line)]]
    /\ stage \in [Procs -> Active \cup {"off", "serving", "exit"}]
    /\ dir \in [Procs -> Dirs] /\ lacking \in [Procs -> Seq(STRING)]
    /\ scripts \in [Dirs -> Nat]
    /\ rpc \in [Changes -> {"none", "address", "open", "write", "restart", "exit", "done"}]
    /\ wanted \in [Changes -> [what : {"none", "patch", "delete"}, text : Seq(Line)]]
    /\ fd \in [Procs \cup Changes -> Nat]

\* A process that may yet write a file or ask for a restart.
Acts(p) ==
    \/ stage[p] \in Active
    \/ stage[p] = "serving" /\ \A r \in Changes : rpc[r] # "exit"

\* Of processes that may and scripts that will make one there is one at a time.
Alone ==
    /\ \A p, q \in Procs : Acts(p) /\ Acts(q) => p = q
    /\ \A p \in Procs, d \in Dirs : Acts(p) => scripts[d] = 0
    /\ \A d, e \in Dirs : scripts[d] > 0 /\ scripts[e] > 0 => d = e /\ scripts[d] = 1

OneServes ==
    /\ \A p, q \in Procs : stage[p] = "serving" /\ stage[q] = "serving" => p = q
    /\ \A r, q \in Changes : rpc[r] \notin {"none", "done"} /\ rpc[q] \notin {"none", "done"} => r = q
    /\ \A r \in Changes : rpc[r] \notin {"none", "done"} => \E p \in Procs : stage[p] = "serving"

\* Who writes a file has it open, and it is empty.
Has(w, d) == file[d].there /\ file[d].inode = fd[w] /\ file[d].lines = <<>>

WritersHave ==
    /\ \A p \in Procs : stage[p] = "writing" => Has(p, dir[p])
    /\ \A r \in Changes : rpc[r] = "write" => Has(r, place.exe)

\* What a change will write works.
TextsSound == \A r \in Changes : rpc[r] \in {"address", "open", "write"} => Sound(wanted[r].text)

\* What a process will append is in the template and not in the file.
LackingFits(p) ==
    stage[p] \in {"append", "appending"} =>
        /\ \A i \in DOMAIN lacking[p] : lacking[p][i] \in KeysIn(Template) \ KeysIn(file[dir[p]].lines)
        /\ \A i, j \in DOMAIN lacking[p] : i # j => lacking[p][i] # lacking[p][j]

\* FilesSound, while nothing has spoiled a file.
FilesWhole == \A d \in Dirs : file[d].there /\ ~BeingWritten(d) => Sound(file[d].lines)

\* What holds until something may have spoiled a file.
CWhole ==
    /\ FilesTypeOK /\ Alone /\ OneServes /\ WritersHave /\ TextsSound
    /\ \A p \in Procs : LackingFits(p)
    /\ FilesWhole

\* The inductive invariant.
CInv == ~spoiled => CWhole

\* A bounded set of numbers has a greatest one.
LEMMA Greatest ==
    ASSUME NEW n \in Nat, NEW S, S \subseteq 1..n, S # {}
    PROVE  Max(S) \in S
<1> DEFINE R == {ss \in Nat \X Nat : ss[1] < ss[2]}
           T == {n - i : i \in S}
<1>1. T \subseteq Nat /\ T # {}
  <2>1. \A i \in S : n - i \in Nat
    OBVIOUS
  <2> QED BY <2>1
<1>2. \E k \in T : \A l \in T : <<l, k>> \notin R
  <2>1. IsWellFoundedOn(R, Nat)
    BY NatLessThanWellFounded DEF OpToRel
  <2> HIDE DEF T, R
  <2> QED BY <1>1, <2>1, WFMin
<1>3. PICK x \in S : \A l \in T : <<l, n - x>> \notin R
  BY <1>2
<1>4. ASSUME NEW y \in S PROVE x >= y
  <2>1. n - y \in T /\ <<n - y, n - x>> \notin R
    BY <1>3
  <2> HIDE DEF T
  <2> QED BY <2>1
<1>5. \E z \in S : \A y \in S : z >= y
  BY <1>4
<1> QED BY <1>5, Zenon DEF Max

\* A line that is appended is of the last section, and leaves the others theirs.
LEMMA SectionsStay ==
    ASSUME NEW lines \in Seq(Line), NEW x \in Line, NEW i \in 1..(Len(lines) + 1)
    PROVE  SectionOf(Append(lines, x), i) = SectionOf(lines, i)
<1> DEFINE more == Append(lines, x)
           B == {j \in 1..(i - 1) : lines[j].key \in Sections}
<1>1. \A j \in 1..Len(lines) : more[j] = lines[j]
  OBVIOUS
<1>2. B = {j \in 1..(i - 1) : more[j].key \in Sections}
  BY <1>1
<1>3. B # {} => Max(B) \in 1..Len(lines)
  <2>1. B \subseteq 1..Len(lines) /\ Len(lines) \in Nat
    OBVIOUS
  <2> HIDE DEF B
  <2> QED BY <2>1, Greatest
<1>4. SectionOf(lines, i) = IF B = {} THEN "none" ELSE lines[Max(B)].key
  BY DEF SectionOf
<1>5. SectionOf(more, i) = IF B = {} THEN "none" ELSE more[Max(B)].key
  BY <1>2, Zenon DEF SectionOf
<1> QED BY <1>1, <1>3, <1>4, <1>5

\* A missing key of the template, appended, leaves the file one that works.
LEMMA SoundGrows ==
    ASSUME NEW lines \in Seq(Line), Sound(lines), NEW x \in Line,
           x.key \in KeysIn(Template) \ KeysIn(lines), x.key \notin Sections
    PROVE  /\ Append(lines, x) \in Seq(Line) /\ Sound(Append(lines, x))
           /\ KeysIn(Append(lines, x)) = KeysIn(lines) \cup {x.key}
<1> DEFINE more == Append(lines, x)
           n == Len(lines)
<1>1. /\ more \in Seq(Line) /\ n \in Nat /\ Len(more) = n + 1 /\ DOMAIN more = 1..(n + 1) /\ DOMAIN lines = 1..n
      /\ more[n + 1] = x /\ \A j \in 1..n : more[j] = lines[j]
  OBVIOUS
<1>2. \A i \in 1..(n + 1) : SectionOf(more, i) = SectionOf(lines, i)
  BY SectionsStay
<1>3. x.key # Item /\ x.key \notin KeysIn(lines)
  BY DEF KeysIn
<1> HIDE DEF more, n
<1>4. NamesIn(more) = NamesIn(lines) \cup {x.key}
  BY <1>1 DEF NamesIn
<1>5. KeysIn(more) = KeysIn(lines) \cup {x.key}
  BY <1>3, <1>4 DEF KeysIn
<1>6. SectionOf(lines, n + 1) = "settings"
  BY DEF Sound, n
<1>7. SectionOf(more, n + 2) = "settings"
  <2> DEFINE B == {j \in 1..n : lines[j].key \in Sections}
             C == {j \in 1..(n + 1) : more[j].key \in Sections}
  <2>1. B = C
    BY <1>1
  <2>2. SectionOf(lines, n + 1) = IF B = {} THEN "none" ELSE lines[Max(B)].key
    <3>1. (n + 1) - 1 = n
      BY <1>1
    <3> QED BY <3>1, Zenon DEF SectionOf
  <2>3. SectionOf(more, n + 2) = IF C = {} THEN "none" ELSE more[Max(C)].key
    <3>1. (n + 2) - 1 = n + 1
      BY <1>1
    <3> QED BY <3>1, Zenon DEF SectionOf
  <2>4. B # {} => Max(B) \in 1..n
    <3>1. B \subseteq 1..n /\ n \in Nat
      BY <1>1
    <3> HIDE DEF B
    <3> QED BY <3>1, Greatest
  <2> HIDE DEF B, C
  <2> QED BY <1>1, <1>6, <2>1, <2>2, <2>3, <2>4
<1>8. Legal(more)
  <2>1. \A i, j \in DOMAIN more : i # j /\ more[i].key = more[j].key => more[i].key = Item
    <3>1. \A i, j \in 1..n : i # j /\ lines[i].key = lines[j].key => lines[i].key = Item
      BY <1>1 DEF Sound, Legal
    <3>2. \A i \in 1..n : more[i].key # x.key
      BY <1>1, <1>3 DEF KeysIn, NamesIn
    <3>3. \A i \in 1..(n + 1) : i \in 1..n \/ i = n + 1
      BY <1>1
    <3> QED BY <1>1, <3>1, <3>2, <3>3
  <2>2. ASSUME NEW i \in DOMAIN more, more[i].key \notin Sections \cup {Item}
        PROVE  SectionOf(more, i) = "settings" \/ NamesIn(more) \cap Sections = {}
    <3>1. CASE i = n + 1
      BY <1>1, <1>2, <1>6, <3>1
    <3>2. CASE i # n + 1
      <4>1. i \in 1..n /\ more[i] = lines[i] /\ i \in 1..(n + 1)
        BY <1>1, <3>2
      <4>2. SectionOf(lines, i) = "settings" \/ NamesIn(lines) \cap Sections = {}
        BY <1>1, <2>2, <4>1 DEF Sound, Legal
      <4> QED BY <1>2, <1>4, <4>1, <4>2
    <3> QED BY <3>1, <3>2
  <2>3. ASSUME NEW i \in DOMAIN more, more[i].key = Item
        PROVE  /\ i > 1 /\ more[i - 1].key # "settings"
               /\ more[i - 1].key = Item \/ more[i - 1].value = "open"
    <3>1. i # n + 1
      BY <1>1, <1>3, <2>3
    <3>2. i \in 1..n /\ more[i] = lines[i]
      BY <1>1, <3>1
    <3>3. /\ i > 1 /\ lines[i - 1].key # "settings"
          /\ lines[i - 1].key = Item \/ lines[i - 1].value = "open"
      BY <1>1, <2>3, <3>2 DEF Sound, Legal
    <3>4. i - 1 \in 1..n
      BY <1>1, <3>2, <3>3
    <3> QED BY <1>1, <3>3, <3>4
  <2> QED BY <2>1, <2>2, <2>3 DEF Legal
<1>9. Given(more) # {}
  <2>1. PICK j \in DOMAIN lines :
           /\ lines[j].key \notin Sections \cup {Item} /\ SectionOf(lines, j) = "settings"
           /\ \/ lines[j].value = "value"
              \/ lines[j].value = "open" /\ j < Len(lines) /\ lines[j + 1].key = Item
    BY DEF Sound, Given
  <2>2. j \in 1..n /\ j \in 1..(n + 1) /\ more[j] = lines[j]
    BY <1>1
  <2>3. SectionOf(more, j) = "settings"
    BY <1>2, <2>1, <2>2
  <2>4. j < Len(lines) => j < Len(more) /\ more[j + 1] = lines[j + 1]
    BY <1>1 DEF n
  <2>5. more[j].key \in Given(more)
    BY <1>1, <2>1, <2>2, <2>3, <2>4 DEF Given
  <2> QED BY <2>5
<1>10. "version" \in KeysIn(more)
  BY <1>5 DEF Sound
<1>11. (n + 1) + 1 = n + 2
  BY <1>1
<1>12. Sound(more)
  BY <1>1, <1>7, <1>8, <1>9, <1>10, <1>11 DEF Sound
<1> QED BY <1>1, <1>5, <1>12 DEF more

\* The template has a line for each of its keys.
LEMMA TemplateHas ==
    ASSUME NEW k \in KeysIn(Template)
    PROVE  TemplateLine(k) \in Line /\ TemplateLine(k).key = k
<1> DEFINE I == {i \in 1..Len(Template) : Template[i].key = k}
<1>1. Template \in Seq(Line) /\ Len(Template) \in Nat
  BY FilesAssumption
<1>2. I # {}
  BY <1>1 DEF KeysIn, NamesIn
<1>3. TemplateLine(k) = Template[Min(I)]
  BY <1>2 DEF TemplateLine, SelectInSeq
<1>4. Min(I) \in I
  <2> DEFINE R == {ss \in Nat \X Nat : ss[1] < ss[2]}
  <2>1. IsWellFoundedOn(R, Nat)
    BY NatLessThanWellFounded DEF OpToRel
  <2>2. I \subseteq Nat
    BY <1>1
  <2>3. \E x \in I : \A y \in I : <<y, x>> \notin R
    <3> HIDE DEF I, R
    <3> QED BY <1>2, <2>1, <2>2, WFMin
  <2>4. PICK x \in I : \A y \in I : <<y, x>> \notin R
    BY <2>3
  <2>5. ASSUME NEW y \in I PROVE x =< y
    <3>1. <<y, x>> \notin R /\ x \in Nat /\ y \in Nat
      BY <2>2, <2>4
    <3> HIDE DEF I
    <3> QED BY <3>1
  <2> QED BY <2>5, Zenon DEF Min
<1> QED BY <1>1, <1>3, <1>4

\* What the end of a process changes.
LEMMA EndsFacts ==
    ASSUME CWhole, NEW p \in Procs, Ends(p)
    PROVE  /\ stage' \in [Procs -> Active \cup {"off", "serving", "exit"}] /\ dir' \in [Procs -> Dirs]
           /\ lacking' \in [Procs -> Seq(STRING)]
           /\ rpc' \in [Changes -> {"none", "address", "open", "write", "restart", "exit", "done"}]
           /\ wanted' \in [Changes -> [what : {"none", "patch", "delete"}, text : Seq(Line)]]
           /\ fd' \in [Procs \cup Changes -> Nat]
           /\ stage'[p] = "off"
           /\ \A q \in Procs \ {p} : stage'[q] = stage[q] /\ dir'[q] = dir[q] /\ lacking'[q] = lacking[q] /\ fd'[q] = fd[q]
           /\ \A r \in Changes :
                \/ stage[p] = "serving" /\ rpc[r] \notin {"none", "done"} /\ rpc'[r] = "done"
                \/ /\ stage[p] # "serving" \/ rpc[r] \in {"none", "done"}
                   /\ rpc'[r] = rpc[r] /\ wanted'[r] = wanted[r] /\ fd'[r] = fd[r]
<1> DEFINE gone == IF At(p, "serving") THEN UnderWay ELSE {}
<1>1. FilesTypeOK /\ Root \in Dirs /\ Procs \cap Changes = {}
  BY FilesAssumption DEF CWhole
<1>2. /\ stage' = [stage EXCEPT ![p] = "off"] /\ dir' = [dir EXCEPT ![p] = Root]
      /\ lacking' = [lacking EXCEPT ![p] = <<>>]
      /\ rpc' = [r \in Changes |-> IF r \in gone THEN "done" ELSE rpc[r]]
      /\ wanted' = [r \in Changes |-> IF r \in gone THEN Nothing ELSE wanted[r]]
      /\ fd' = [w \in Procs \cup Changes |-> IF w \in gone \cup {p} THEN 0 ELSE fd[w]]
  BY Zenon DEF Ends, Goes
<1>3. \A r \in Changes : r \in gone <=> stage[p] = "serving" /\ rpc[r] \notin {"none", "done"}
  BY DEF UnderWay, At
<1>4. gone \subseteq Changes
  BY DEF UnderWay
<1> HIDE DEF gone
<1>5. Nothing \in [what : {"none", "patch", "delete"}, text : Seq(Line)]
  BY DEF Nothing
<1>6. /\ stage' \in [Procs -> Active \cup {"off", "serving", "exit"}] /\ dir' \in [Procs -> Dirs]
      /\ lacking' \in [Procs -> Seq(STRING)] /\ stage'[p] = "off"
      /\ \A q \in Procs \ {p} : stage'[q] = stage[q] /\ dir'[q] = dir[q] /\ lacking'[q] = lacking[q]
  BY <1>1, <1>2 DEF FilesTypeOK
<1>7. /\ rpc' \in [Changes -> {"none", "address", "open", "write", "restart", "exit", "done"}]
      /\ wanted' \in [Changes -> [what : {"none", "patch", "delete"}, text : Seq(Line)]]
      /\ fd' \in [Procs \cup Changes -> Nat]
  BY <1>1, <1>2, <1>5 DEF FilesTypeOK
<1>8. \A q \in Procs \ {p} : fd'[q] = fd[q]
  BY <1>1, <1>2, <1>4
<1>9. \A r \in Changes :
         \/ stage[p] = "serving" /\ rpc[r] \notin {"none", "done"} /\ rpc'[r] = "done"
         \/ /\ stage[p] # "serving" \/ rpc[r] \in {"none", "done"}
            /\ rpc'[r] = rpc[r] /\ wanted'[r] = wanted[r] /\ fd'[r] = fd[r]
  BY <1>1, <1>2, <1>3
<1> QED BY <1>6, <1>7, <1>8, <1>9

\* The end of a process as far as it is not about the files.
LEMMA EndsParts ==
    ASSUME CWhole, NEW p \in Procs, Ends(p), UNCHANGED <<place, scripts>>,
           file' \in [Dirs -> [there : BOOLEAN, inode : Nat, lines : Seq(Line)]]
    PROVE  FilesTypeOK' /\ Alone' /\ OneServes' /\ TextsSound'
<1>1. FilesTypeOK /\ OneServes /\ Alone /\ TextsSound
  BY DEF CWhole
<1>2. FilesTypeOK'
  BY <1>1, EndsFacts DEF FilesTypeOK
<1>3. OneServes'
  <2>1. \A q, o \in Procs : stage'[q] = "serving" /\ stage'[o] = "serving" => q = o
    <3>1. \A q \in Procs : stage'[q] = "serving" => stage[q] = "serving"
      BY EndsFacts
    <3> QED BY <1>1, <3>1 DEF OneServes
  <2>2. \A r \in Changes : rpc'[r] \notin {"none", "done"} => rpc'[r] = rpc[r] /\ stage[p] # "serving"
    BY EndsFacts
  <2>3. \A r, c \in Changes : rpc'[r] \notin {"none", "done"} /\ rpc'[c] \notin {"none", "done"} => r = c
    BY <1>1, <2>2 DEF OneServes
  <2>4. ASSUME NEW r \in Changes, rpc'[r] \notin {"none", "done"} PROVE \E q \in Procs : stage'[q] = "serving"
    <3>1. PICK q \in Procs : stage[q] = "serving"
      BY <1>1, <2>2, <2>4 DEF OneServes
    <3>2. stage[p] # "serving"
      BY <2>2, <2>4
    <3>3. \A o \in Procs \ {p} : stage'[o] = stage[o]
      BY EndsFacts
    <3>4. q # p
      BY <3>1, <3>2
    <3> QED BY <3>1, <3>3, <3>4
  <2> QED BY <2>1, <2>3, <2>4 DEF OneServes
<1>4. TextsSound'
  BY <1>1, EndsFacts DEF TextsSound
<1>5. \A q \in Procs : Acts(q)' => q # p /\ Acts(q)
  <2> SUFFICES ASSUME NEW q \in Procs, Acts(q)' PROVE q # p /\ Acts(q)
    OBVIOUS
  <2>1. q # p
    BY EndsFacts DEF Acts, Active
  <2>2. stage'[q] = stage[q]
    BY <2>1, EndsFacts
  <2>3. stage[q] = "serving" => stage[p] # "serving"
    BY <1>1, <2>1 DEF OneServes
  <2> QED BY <2>1, <2>2, <2>3, EndsFacts DEF Acts
<1>6. Alone'
  BY <1>1, <1>5 DEF Alone
<1> QED BY <1>2, <1>3, <1>4, <1>6

\* A process ends, and no write is cut off.
LEMMA EndsStep ==
    ASSUME CWhole, NEW p \in Procs, Ends(p), UNCHANGED <<place, file, scripts>>,
           stage[p] # "writing", stage[p] = "serving" => \A r \in Changes : rpc[r] # "write"
    PROVE  CWhole'
<1>1. FilesTypeOK' /\ Alone' /\ OneServes' /\ TextsSound'
  BY EndsParts DEF CWhole, FilesTypeOK
<1>2. /\ \A q \in Procs : /\ stage'[q] \in {"writing", "append", "appending"} =>
                                /\ q # p /\ stage[q] = stage'[q] /\ dir'[q] = dir[q]
                                /\ lacking'[q] = lacking[q] /\ fd'[q] = fd[q]
                          /\ stage[q] = "writing" => stage'[q] = "writing" /\ dir'[q] = dir[q]
      /\ \A r \in Changes : rpc'[r] = "write" => rpc[r] = "write" /\ fd'[r] = fd[r]
      /\ \A r \in Changes : rpc[r] = "write" => rpc'[r] = "write"
  BY EndsFacts
<1>3. WritersHave'
  <2>1. ASSUME NEW q \in Procs, stage'[q] = "writing" PROVE Has(q, dir[q])'
    BY <1>2, <2>1 DEF CWhole, WritersHave, Has
  <2>2. ASSUME NEW r \in Changes, rpc'[r] = "write" PROVE Has(r, place.exe)'
    BY <1>2, <2>2 DEF CWhole, WritersHave, Has
  <2> QED BY <2>1, <2>2 DEF WritersHave
<1>4. ASSUME NEW q \in Procs PROVE LackingFits(q)'
  BY <1>2 DEF CWhole, LackingFits
<1>5. FilesWhole'
  <2>1. ASSUME NEW d \in Dirs, BeingWritten(d) PROVE BeingWritten(d)'
    BY <1>2, <2>1 DEF BeingWritten, At
  <2> QED BY <2>1 DEF CWhole, FilesWhole
<1> QED BY <1>1, <1>3, <1>4, <1>5 DEF CWhole

\* A process that acts goes on without a write.
LEMMA MoveStep ==
    ASSUME CWhole, NEW p \in Procs, stage[p] \in Active \ {"writing"},
           NEW l \in Active \ {"writing"}, stage' = [stage EXCEPT ![p] = l],
           UNCHANGED <<place, file, scripts, dir, rpc, wanted>>,
           fd' \in [Procs \cup Changes -> Nat], \A w \in (Procs \cup Changes) \ {p} : fd'[w] = fd[w],
           lacking' \in [Procs -> Seq(STRING)], \A q \in Procs \ {p} : lacking'[q] = lacking[q],
           LackingFits(p)'
    PROVE  CWhole'
<1>1. /\ FilesTypeOK /\ OneServes /\ Alone /\ TextsSound /\ Procs \cap Changes = {}
      /\ WritersHave /\ FilesWhole /\ \A q \in Procs : LackingFits(q)
  BY FilesAssumption DEF CWhole
<1>2. /\ stage' \in [Procs -> Active \cup {"off", "serving", "exit"}]
      /\ stage'[p] = l /\ \A q \in Procs \ {p} : stage'[q] = stage[q]
  BY <1>1 DEF FilesTypeOK
<1>3. FilesTypeOK'
  BY <1>1, <1>2 DEF FilesTypeOK
<1>4. stage'[p] \notin {"serving", "writing"} /\ stage[p] \notin {"serving", "writing"}
  BY <1>2 DEF Active
<1>5. OneServes' /\ TextsSound'
  BY <1>1, <1>2, <1>4 DEF OneServes, TextsSound
<1>6. \A q \in Procs : Acts(q)' <=> Acts(q)
  BY <1>1, <1>2, <1>4 DEF Acts
<1>7. Alone'
  BY <1>1, <1>6 DEF Alone
<1>8. WritersHave'
  <2>1. ASSUME NEW q \in Procs, stage'[q] = "writing" PROVE Has(q, dir[q])'
    <3>1. q # p /\ stage[q] = "writing" /\ fd'[q] = fd[q]
      BY <1>2, <1>4, <2>1
    <3>2. Has(q, dir[q])
      BY <1>1, <3>1 DEF WritersHave
    <3> QED BY <3>1, <3>2 DEF Has
  <2>2. ASSUME NEW r \in Changes, rpc'[r] = "write" PROVE Has(r, place.exe)'
    <3>1. r # p /\ fd'[r] = fd[r]
      BY <1>1
    <3>2. Has(r, place.exe)
      BY <1>1, <2>2 DEF WritersHave
    <3> QED BY <3>1, <3>2 DEF Has
  <2> QED BY <2>1, <2>2 DEF WritersHave
<1>9. ASSUME NEW q \in Procs PROVE LackingFits(q)'
  <2>1. CASE q = p
    BY <2>1
  <2>2. CASE q # p
    <3>1. LackingFits(q) /\ stage'[q] = stage[q] /\ lacking'[q] = lacking[q]
      BY <1>1, <1>2, <2>2
    <3> QED BY <3>1 DEF LackingFits
  <2> QED BY <2>1, <2>2
<1>10. FilesWhole'
  <2>1. \A d \in Dirs : BeingWritten(d)' <=> BeingWritten(d)
    BY <1>2, <1>4 DEF BeingWritten, At
  <2> QED BY <1>1, <2>1 DEF FilesWhole
<1> QED BY <1>3, <1>5, <1>7, <1>8, <1>9, <1>10 DEF CWhole

\* While a process acts nobody else writes; while a change writes nobody else does.
LEMMA OneWriter ==
    ASSUME CWhole, NEW p \in Procs, stage[p] \in Active
    PROVE  /\ \A q \in Procs \ {p} : stage[q] # "writing"
           /\ \A r \in Changes : rpc[r] \in {"none", "exit", "done"}
<1>1. OneServes /\ Alone /\ FilesTypeOK
  BY DEF CWhole
<1>2. Acts(p)
  BY DEF Acts
<1>3. \A q \in Procs \ {p} : stage[q] # "writing"
  BY <1>1, <1>2 DEF Acts, Alone, Active
<1>4. ASSUME NEW r \in Changes, rpc[r] \notin {"none", "exit", "done"} PROVE FALSE
  <2>1. PICK q \in Procs : stage[q] = "serving"
    BY <1>1, <1>4 DEF OneServes
  <2>2. \A c \in Changes : rpc[c] # "exit"
    BY <1>1, <1>4 DEF OneServes
  <2>3. Acts(q) /\ q # p
    BY <2>1, <2>2 DEF Acts, Active
  <2> QED BY <1>1, <1>2, <2>3 DEF Alone
<1> QED BY <1>3, <1>4

\* What a process that is not writing reads, if it is there, works.
LEMMA ReadsSound ==
    ASSUME CWhole, NEW p \in Procs, stage[p] \in Active \ {"writing"}, file[dir[p]].there
    PROVE  Sound(file[dir[p]].lines)
<1>1. dir[p] \in Dirs /\ FilesWhole
  BY DEF CWhole, FilesTypeOK
<1>2. ~BeingWritten(dir[p])
  BY OneWriter DEF BeingWritten, At
<1> QED BY <1>1, <1>2 DEF FilesWhole

\* A process starts: nothing acts and no script is under way.
LEMMA StartStep ==
    ASSUME CWhole, NEW p \in Procs, stage[p] = "off", \A q \in Procs : ~Acts(q),
           NEW d \in Dirs, stage' = [stage EXCEPT ![p] = "main"], dir' = [dir EXCEPT ![p] = d],
           scripts' \in [Dirs -> Nat], \A e \in Dirs : scripts'[e] = 0,
           UNCHANGED <<place, file, lacking, webVars, fd>>
    PROVE  CWhole'
<1>1. /\ FilesTypeOK /\ OneServes /\ TextsSound /\ WritersHave /\ FilesWhole /\ \A q \in Procs : LackingFits(q)
      /\ UNCHANGED <<rpc, wanted>>
  BY DEF CWhole, webVars
<1>2. /\ stage' \in [Procs -> Active \cup {"off", "serving", "exit"}] /\ dir' \in [Procs -> Dirs]
      /\ stage'[p] = "main" /\ \A q \in Procs \ {p} : stage'[q] = stage[q] /\ dir'[q] = dir[q]
  BY <1>1 DEF FilesTypeOK, Active
<1>3. FilesTypeOK'
  BY <1>1, <1>2 DEF FilesTypeOK
<1>4. \A q \in Procs : stage[q] \notin {"writing", "append", "appending"}
  BY DEF Acts, Active
<1>5. \A q \in Procs : /\ stage'[q] = "serving" <=> stage[q] = "serving"
                       /\ stage'[q] \notin {"writing", "append", "appending"}
  BY <1>2, <1>4
<1>6. OneServes' /\ TextsSound'
  BY <1>1, <1>5 DEF OneServes, TextsSound
<1>7. \A q \in Procs : Acts(q)' => q = p
  <2>1. ASSUME NEW q \in Procs, q # p PROVE ~Acts(q)'
    BY <1>1, <1>2, <2>1 DEF Acts
  <2> QED BY <2>1
<1>8. Alone'
  BY <1>7 DEF Alone
<1>9. WritersHave'
  BY <1>1, <1>5 DEF WritersHave, Has
<1>10. \A q \in Procs : LackingFits(q)'
  BY <1>5 DEF LackingFits
<1>11. FilesWhole'
  <2>1. ASSUME NEW e \in Dirs, BeingWritten(e) PROVE BeingWritten(e)'
    BY <1>1, <1>4, <2>1 DEF BeingWritten, At
  <2> QED BY <1>1, <2>1 DEF FilesWhole
<1> QED BY <1>3, <1>6, <1>8, <1>9, <1>10, <1>11 DEF CWhole

\* The user starts the program.
LEMMA LaunchStep == ASSUME CWhole, NEW p \in Procs, NEW d \in Dirs, Launch(p, d) PROVE CWhole'
<1>1. /\ stage' = [stage EXCEPT ![p] = "main"] /\ dir' = [dir EXCEPT ![p] = d]
      /\ UNCHANGED <<place, file, lacking, webVars, fd, scripts>> /\ stage[p] = "off"
      /\ \A e \in Dirs : scripts[e] = 0
      /\ \A q \in Procs : stage[q] = "off"
  BY DEF Launch, Free, Goes, At
<1>2. \A q \in Procs : ~Acts(q)
  BY <1>1 DEF Acts, Active
<1>3. scripts' \in [Dirs -> Nat]
  BY <1>1 DEF CWhole, FilesTypeOK
<1> QED BY <1>1, <1>2, <1>3, StartStep

\* What a script that does not find the executable changes, or what starts no process.
LEMMA RunScriptStep == ASSUME CWhole, NEW p \in Procs, NEW d \in Dirs, RunScript(p, d) PROVE CWhole'
<1>1. FilesTypeOK /\ Alone
  BY DEF CWhole
<1>2. /\ scripts[d] > 0 /\ stage[p] = "off" /\ scripts' = [scripts EXCEPT ![d] = @ - 1]
      /\ UNCHANGED <<place, file, lacking, webVars, fd>>
  BY DEF RunScript, Free
<1>3. scripts[d] = 1 /\ \A e \in Dirs \ {d} : scripts[e] = 0
  BY <1>1, <1>2 DEF Alone, FilesTypeOK
<1>4. scripts' \in [Dirs -> Nat] /\ \A e \in Dirs : scripts'[e] = 0
  BY <1>1, <1>2, <1>3 DEF FilesTypeOK
<1>5. \A q \in Procs : ~Acts(q)
  BY <1>1, <1>3 DEF Alone
<1>6. CASE Starts(d)
  <2>1. stage' = [stage EXCEPT ![p] = "main"] /\ dir' = [dir EXCEPT ![p] = StartsIn(d)]
    BY <1>6 DEF RunScript, Goes
  <2>2. StartsIn(d) \in Dirs
    BY <1>1 DEF StartsIn, FilesTypeOK
  <2> QED BY <1>2, <1>4, <1>5, <2>1, <2>2, StartStep
<1>7. CASE ~Starts(d)
  <2>1. UNCHANGED <<place, file, lacking, rpc, wanted, fd, stage, dir>>
    BY <1>2, <1>7 DEF RunScript, webVars
  <2>2. FilesTypeOK'
    BY <1>1, <1>4, <2>1 DEF FilesTypeOK
  <2>3. Alone'
    BY <1>4, <1>5, <2>1 DEF Alone, Acts
  <2>4. OneServes' /\ TextsSound' /\ WritersHave'
    BY <2>1 DEF CWhole, OneServes, TextsSound, WritersHave, Has
  <2>5. (\A q \in Procs : LackingFits(q)') /\ FilesWhole'
    BY <2>1 DEF CWhole, LackingFits, FilesWhole, BeingWritten, At
  <2> QED BY <2>2, <2>3, <2>4, <2>5 DEF CWhole
<1> QED BY <1>6, <1>7

\* The program looks for its file.
LEMMA MainStep == ASSUME CWhole, NEW p \in Procs, Main(p) PROVE CWhole'
<1> DEFINE l == IF Mine(p).there THEN "load" ELSE "template"
<1>1. /\ stage[p] = "main" /\ stage' = [stage EXCEPT ![p] = l] /\ l \in {"load", "template"}
      /\ UNCHANGED <<place, file, scripts, dir, rpc, wanted, fd, lacking>>
  BY DEF Main, At, Goes, webVars
<1> HIDE DEF l
<1>2. stage[p] \in Active \ {"writing"} /\ l \in Active \ {"writing"}
  BY <1>1 DEF Active
<1>3. LackingFits(p)'
  BY <1>1 DEF LackingFits, CWhole, FilesTypeOK
<1> QED BY <1>1, <1>2, <1>3, MoveStep DEF CWhole, FilesTypeOK

\* The file is read, or the process ends.
LEMMA LoadStep == ASSUME CWhole, NEW p \in Procs, Load(p) PROVE CWhole'
<1>1. stage[p] = "load" /\ UNCHANGED <<place, file, scripts>>
  BY DEF Load, At
<1>2. CASE Mine(p).there /\ Legal(Mine(p).lines)
  <2>1. stage' = [stage EXCEPT ![p] = "compare"] /\ UNCHANGED <<dir, rpc, wanted, fd, lacking>>
    BY <1>2 DEF Load, Goes, webVars
  <2>2. stage[p] \in Active \ {"writing"} /\ "compare" \in Active \ {"writing"}
    BY <1>1 DEF Active
  <2>3. LackingFits(p)'
    BY <2>1 DEF LackingFits, CWhole, FilesTypeOK
  <2> QED BY <1>1, <2>1, <2>2, <2>3, MoveStep DEF CWhole, FilesTypeOK
<1>3. CASE ~(Mine(p).there /\ Legal(Mine(p).lines))
  BY <1>1, <1>3, EndsStep DEF Load
<1> QED BY <1>2, <1>3

\* The keys of the template are finitely many.
LEMMA TemplateKeys == IsFiniteSet(KeysIn(Template)) /\ KeysIn(Template) \subseteq STRING
<1>1. Template \in Seq(Line) /\ Len(Template) \in Nat /\ DOMAIN Template = 1..Len(Template)
  BY FilesAssumption
<1>2. IsFiniteSet(1..Len(Template))
  BY <1>1, FS_Interval
<1>3. IsFiniteSet(NamesIn(Template))
  <2> DEFINE f == [i \in DOMAIN Template |-> Template[i].key]
  <2>1. NamesIn(Template) = {f[i] : i \in DOMAIN Template}
    BY DEF NamesIn
  <2>2. f \in Surjection(DOMAIN Template, NamesIn(Template))
    BY DEF NamesIn, Surjection
  <2> QED BY <1>1, <1>2, <2>2, FS_Surjection
<1>4. KeysIn(Template) \subseteq NamesIn(Template)
  BY DEF KeysIn
<1>5. NamesIn(Template) \subseteq STRING
  <2>1. \A i \in DOMAIN Template : Template[i] \in Line
    BY <1>1
  <2>2. \A x \in Line : x.key \in STRING
    BY DEF Line
  <2> QED BY <2>1, <2>2 DEF NamesIn
<1> QED BY <1>3, <1>4, <1>5, FS_Subset

\* The keys that lack are found, in any order.
LEMMA CompareStep == ASSUME CWhole, NEW p \in Procs, Compare(p) PROVE CWhole'
<1>1. stage[p] = "compare" /\ UNCHANGED <<place, file, scripts>> /\ stage[p] \in Active \ {"writing"}
  BY DEF Compare, At, Active
<1>2. CASE Mine(p).there /\ Legal(Mine(p).lines)
  <2> DEFINE lines == file[dir[p]].lines
             l == IF Missing(lines) = {} THEN "loaded" ELSE "append"
  <2>1. PICK keys \in SetToSeqs(Missing(lines)) : lacking' = [lacking EXCEPT ![p] = keys]
    BY <1>2 DEF Compare, Mine
  <2>2. stage' = [stage EXCEPT ![p] = l] /\ UNCHANGED <<dir, rpc, wanted, fd>>
    BY <1>2 DEF Compare, Goes, webVars, Mine
  <2>3. Given(lines) # {}
    BY <1>1, <1>2, ReadsSound DEF Sound, Mine
  <2>4. Missing(lines) = KeysIn(Template) \ KeysIn(lines)
    BY <2>3 DEF Missing, MissingByReflection, MissingByText
  <2> HIDE DEF lines
  <2>5. IsFiniteSet(Missing(lines)) /\ Cardinality(Missing(lines)) \in Nat /\ Missing(lines) \subseteq STRING
    BY <2>4, TemplateKeys, FS_Subset, FS_CardinalityType
  <2>6. /\ keys \in [1..Cardinality(Missing(lines)) -> Missing(lines)]
        /\ \A i, j \in 1..Cardinality(Missing(lines)) : i # j => keys[i] # keys[j]
    BY <2>1 DEF SetToSeqs
  <2>7. keys \in Seq(STRING) /\ DOMAIN keys = 1..Cardinality(Missing(lines))
    <3> DEFINE n == Cardinality(Missing(lines))
    <3>1. n \in Nat /\ keys \in [1..n -> STRING]
      BY <2>5, <2>6
    <3> HIDE DEF n
    <3>2. keys \in Seq(STRING)
      BY <3>1
    <3> QED BY <2>6, <3>2
  <2>8. /\ lacking' \in [Procs -> Seq(STRING)] /\ lacking'[p] = keys
        /\ \A q \in Procs \ {p} : lacking'[q] = lacking[q]
    BY <2>1, <2>7 DEF CWhole, FilesTypeOK
  <2>9. LackingFits(p)'
    BY <1>1, <2>2, <2>4, <2>6, <2>7, <2>8 DEF LackingFits, lines
  <2>10. l \in Active \ {"writing"}
    BY DEF Active
  <2> HIDE DEF l
  <2>11. fd' \in [Procs \cup Changes -> Nat] /\ \A w \in (Procs \cup Changes) \ {p} : fd'[w] = fd[w]
    BY <2>2 DEF CWhole, FilesTypeOK
  <2> QED BY <1>1, <2>2, <2>8, <2>9, <2>10, <2>11, MoveStep
<1>3. CASE ~(Mine(p).there /\ Legal(Mine(p).lines))
  BY <1>1, <1>3, EndsStep DEF Compare
<1> QED BY <1>2, <1>3

\* The file is opened for the lines it lacks.
LEMMA AppendOpenStep == ASSUME CWhole, NEW p \in Procs, AppendOpen(p) PROVE CWhole'
<1>1. stage[p] = "append" /\ UNCHANGED <<place, file, scripts>> /\ stage[p] \in Active \ {"writing"}
  BY DEF AppendOpen, At, Active
<1>2. CASE Mine(p).there
  <2>1. /\ stage' = [stage EXCEPT ![p] = "appending"] /\ UNCHANGED <<dir, rpc, wanted, lacking>>
        /\ fd' = [fd EXCEPT ![p] = file[dir[p]].inode]
    BY <1>2 DEF AppendOpen, Goes, webVars, Mine
  <2>2. FilesTypeOK
    BY DEF CWhole
  <2>3. file[dir[p]].inode \in Nat
    BY <2>2 DEF FilesTypeOK
  <2>4. fd' \in [Procs \cup Changes -> Nat] /\ \A w \in (Procs \cup Changes) \ {p} : fd'[w] = fd[w]
    BY <2>1, <2>2, <2>3 DEF FilesTypeOK
  <2>5. LackingFits(p)'
    BY <1>1, <2>1 DEF CWhole, LackingFits
  <2>6. "appending" \in Active \ {"writing"} /\ lacking' \in [Procs -> Seq(STRING)]
    BY <2>1, <2>2 DEF Active, FilesTypeOK
  <2> QED BY <1>1, <2>1, <2>4, <2>5, <2>6, MoveStep
<1>3. CASE ~Mine(p).there
  BY <1>1, <1>3, EndsStep DEF AppendOpen
<1> QED BY <1>2, <1>3

\* Discord refuses the program.
LEMMA RefusedStep == ASSUME CWhole, NEW p \in Procs, Refused(p) PROVE CWhole'
  BY EndsStep DEF Refused, At

\* A process that asked for a restart exits.
LEMMA ExitStep == ASSUME CWhole, ~spoiled', NEW p \in Procs, Exit(p) PROVE CWhole'
<1>1. stage[p] \in {"exit", "serving"} /\ Ends(p) /\ UNCHANGED <<place, file, scripts>>
  BY DEF Exit, At
<1>2. stage[p] = "serving" => \A r \in Changes : rpc[r] # "write"
  BY DEF Exit, At, Spoil
<1> QED BY <1>1, <1>2, EndsStep

\* A process is killed between two writes.
LEMMA KillStep == ASSUME CWhole, ~spoiled', NEW p \in Procs, Kill(p) PROVE CWhole'
<1>1. Ends(p) /\ UNCHANGED <<place, file, scripts>>
  BY DEF Kill
<1>2. stage[p] # "writing" /\ (stage[p] = "serving" => \A r \in Changes : rpc[r] # "write")
  BY DEF Kill, At, Spoil
<1> QED BY <1>1, <1>2, EndsStep

\* The process that starts to serve finds no other and no change under way.
LEMMA ServeStep == ASSUME CWhole, NEW p \in Procs, Serve(p) PROVE CWhole'
<1>1. /\ FilesTypeOK /\ OneServes /\ Alone /\ TextsSound /\ WritersHave /\ FilesWhole
      /\ \A q \in Procs : LackingFits(q)
  BY DEF CWhole
<1>2. /\ stage[p] = "loaded" /\ stage' = [stage EXCEPT ![p] = "serving"]
      /\ \A q \in Procs : stage[q] # "serving"
      /\ UNCHANGED <<place, file, dir, lacking, scripts, rpc, wanted, fd>>
  BY DEF Serve, At, Goes, Serving, webVars
<1>3. /\ stage' \in [Procs -> Active \cup {"off", "serving", "exit"}]
      /\ stage'[p] = "serving" /\ \A q \in Procs \ {p} : stage'[q] = stage[q]
  BY <1>1, <1>2 DEF FilesTypeOK
<1>4. \A r \in Changes : rpc[r] \in {"none", "done"}
  BY <1>1, <1>2 DEF OneServes
<1>5. FilesTypeOK'
  BY <1>1, <1>2, <1>3 DEF FilesTypeOK
<1>6. OneServes' /\ TextsSound'
  BY <1>2, <1>3, <1>4 DEF OneServes, TextsSound
<1>7. ASSUME NEW q \in Procs, Acts(q)' PROVE Acts(q)
  <2>1. CASE q = p
    BY <1>2, <2>1 DEF Acts, Active
  <2>2. CASE q # p
    BY <1>2, <1>3, <1>7, <2>2 DEF Acts
  <2> QED BY <2>1, <2>2
<1>8. Alone'
  BY <1>1, <1>2, <1>7 DEF Alone
<1>9. WritersHave'
  BY <1>1, <1>2, <1>3 DEF WritersHave, Has
<1>10. ASSUME NEW q \in Procs PROVE LackingFits(q)'
  BY <1>1, <1>2, <1>3 DEF LackingFits
<1>11. FilesWhole'
  <2>1. ASSUME NEW d \in Dirs, BeingWritten(d) PROVE BeingWritten(d)'
    BY <1>2, <1>3, <2>1 DEF BeingWritten, At
  <2> QED BY <1>1, <1>2, <2>1 DEF FilesWhole
<1> QED BY <1>5, <1>6, <1>8, <1>9, <1>10, <1>11 DEF CWhole

\* A script is all that is left of who asked for it.
LEMMA RestartWithKeysStep == ASSUME CWhole, NEW p \in Procs, RestartWithKeys(p) PROVE CWhole'
<1>1. /\ FilesTypeOK /\ OneServes /\ Alone /\ TextsSound /\ WritersHave /\ FilesWhole
      /\ \A q \in Procs : LackingFits(q)
  BY DEF CWhole
<1>2. /\ stage[p] = "appending" /\ stage' = [stage EXCEPT ![p] = "exit"]
      /\ scripts' = [scripts EXCEPT ![dir[p]] = @ + 1]
      /\ UNCHANGED <<place, file, dir, lacking, rpc, wanted, fd>>
  BY DEF RestartWithKeys, At, Goes, Script, webVars
<1>3. /\ stage' \in [Procs -> Active \cup {"off", "serving", "exit"}]
      /\ stage'[p] = "exit" /\ \A q \in Procs \ {p} : stage'[q] = stage[q]
  BY <1>1, <1>2 DEF FilesTypeOK
<1>4. Acts(p) /\ dir[p] \in Dirs
  BY <1>1, <1>2 DEF Acts, Active, FilesTypeOK
<1>5. \A d \in Dirs : scripts[d] = 0
  BY <1>1, <1>4 DEF Alone
<1>6. scripts' \in [Dirs -> Nat] /\ scripts'[dir[p]] = 1 /\ \A d \in Dirs \ {dir[p]} : scripts'[d] = 0
  BY <1>1, <1>2, <1>4, <1>5 DEF FilesTypeOK
<1>7. FilesTypeOK'
  BY <1>1, <1>2, <1>3, <1>6 DEF FilesTypeOK
<1>8. ASSUME NEW q \in Procs PROVE ~Acts(q)'
  <2>1. CASE q = p
    BY <1>3, <2>1 DEF Acts, Active
  <2>2. CASE q # p
    BY <1>1, <1>2, <1>3, <1>4, <2>2 DEF Acts, Alone
  <2> QED BY <2>1, <2>2
<1>9. Alone'
  BY <1>6, <1>8 DEF Alone
<1>10. \A q \in Procs : /\ stage'[q] = "serving" <=> stage[q] = "serving"
                        /\ stage'[q] = "writing" <=> stage[q] = "writing"
                        /\ stage'[q] \in {"append", "appending"} => stage[q] \in {"append", "appending"}
  BY <1>2, <1>3
<1>11. OneServes' /\ TextsSound'
  BY <1>1, <1>2, <1>10 DEF OneServes, TextsSound
<1>12. WritersHave'
  BY <1>1, <1>2, <1>10 DEF WritersHave, Has
<1>13. ASSUME NEW q \in Procs PROVE LackingFits(q)'
  BY <1>1, <1>2, <1>10 DEF LackingFits
<1>14. FilesWhole'
  <2>1. ASSUME NEW d \in Dirs, BeingWritten(d) PROVE BeingWritten(d)'
    BY <1>2, <1>10, <2>1 DEF BeingWritten, At
  <2> QED BY <1>1, <1>2, <2>1 DEF FilesWhole
<1> QED BY <1>7, <1>9, <1>11, <1>12, <1>13, <1>14 DEF CWhole

\* The file is made or cut to nothing, and written next.
LEMMA TemplateOpenStep == ASSUME CWhole, NEW p \in Procs, TemplateOpen(p) PROVE CWhole'
<1> DEFINE d == dir[p]
<1>1. /\ FilesTypeOK /\ OneServes /\ Alone /\ TextsSound /\ WritersHave /\ FilesWhole
      /\ \A q \in Procs : LackingFits(q)
  BY DEF CWhole
<1>2. /\ stage[p] = "template" /\ stage' = [stage EXCEPT ![p] = "writing"]
      /\ file' = [file EXCEPT ![d] = [there |-> TRUE, inode |-> IF file[d].there THEN file[d].inode ELSE file[d].inode + 1,
                                      lines |-> <<>>]]
      /\ fd' = [fd EXCEPT ![p] = file'[d].inode]
      /\ UNCHANGED <<place, dir, lacking, scripts, rpc, wanted>>
  BY DEF TemplateOpen, Opened, At, Goes, webVars
<1>3. d \in Dirs /\ stage[p] \in Active
  BY <1>1, <1>2 DEF FilesTypeOK, Active
<1>4. /\ stage' \in [Procs -> Active \cup {"off", "serving", "exit"}]
      /\ stage'[p] = "writing" /\ \A q \in Procs \ {p} : stage'[q] = stage[q]
  BY <1>1, <1>2 DEF FilesTypeOK, Active
<1> HIDE DEF d
<1>5. /\ file' \in [Dirs -> [there : BOOLEAN, inode : Nat, lines : Seq(Line)]]
      /\ file'[d].there /\ file'[d].lines = <<>> /\ \A e \in Dirs \ {d} : file'[e] = file[e]
  BY <1>1, <1>2, <1>3 DEF FilesTypeOK
<1>6. fd' \in [Procs \cup Changes -> Nat] /\ fd'[p] = file'[d].inode
  BY <1>1, <1>2, <1>3, <1>5 DEF FilesTypeOK
<1>7. FilesTypeOK'
  BY <1>1, <1>2, <1>4, <1>5, <1>6 DEF FilesTypeOK
<1>8. \A q \in Procs : /\ stage'[q] = "serving" <=> stage[q] = "serving"
                       /\ stage'[q] \in {"append", "appending"} => stage[q] \in {"append", "appending"} /\ q # p
  BY <1>2, <1>4
<1>9. OneServes' /\ TextsSound'
  BY <1>1, <1>2, <1>8 DEF OneServes, TextsSound
<1>10. ASSUME NEW q \in Procs PROVE Acts(q)' <=> Acts(q)
  <2>1. CASE q = p
    BY <1>2, <1>4, <2>1 DEF Acts, Active
  <2>2. CASE q # p
    BY <1>2, <1>4, <2>2 DEF Acts
  <2> QED BY <2>1, <2>2
<1>11. Alone'
  BY <1>1, <1>2, <1>10 DEF Alone
<1>12. \A q \in Procs \ {p} : ~Acts(q)
  BY <1>1, <1>3 DEF Acts, Alone
<1>13. (\A q \in Procs \ {p} : stage'[q] \notin Active) /\ \A r \in Changes : rpc'[r] # "write"
  BY <1>2, <1>3, <1>4, <1>12, OneWriter DEF Acts
<1>14. WritersHave'
  BY <1>2, <1>4, <1>5, <1>6, <1>13 DEF WritersHave, Has, Active, d
<1>15. ASSUME NEW q \in Procs PROVE LackingFits(q)'
  BY <1>4, <1>13 DEF LackingFits, Active
<1>16. FilesWhole'
  <2>1. ASSUME NEW e \in Dirs, e = d PROVE BeingWritten(e)'
    BY <1>2, <1>4, <2>1 DEF BeingWritten, At, d
  <2>2. ASSUME NEW e \in Dirs, e # d, BeingWritten(e) PROVE FALSE
    BY <1>2, <2>2, <1>3, OneWriter DEF BeingWritten, At
  <2>3. ASSUME NEW e \in Dirs, file'[e].there, ~BeingWritten(e)' PROVE Sound(file'[e].lines)
    <3>1. e # d
      BY <2>1, <2>3
    <3>2. file'[e] = file[e] /\ ~BeingWritten(e)
      BY <1>5, <2>2, <3>1
    <3> QED BY <1>1, <2>3, <3>2 DEF FilesWhole
  <2> QED BY <2>3 DEF FilesWhole
<1> QED BY <1>7, <1>9, <1>11, <1>14, <1>15, <1>16 DEF CWhole

\* An empty file that is written holds the text.
LEMMA Written ==
    ASSUME FilesTypeOK, NEW d \in Dirs, NEW w, Has(w, d), NEW text \in Seq(Line), PutInto(w, d, text)
    PROVE  /\ file' \in [Dirs -> [there : BOOLEAN, inode : Nat, lines : Seq(Line)]]
           /\ file'[d].lines = text /\ \A e \in Dirs \ {d} : file'[e] = file[e]
<1> DEFINE new == text \o SubSeq(file[d].lines, Len(text) + 1, Len(file[d].lines))
<1>1. file' = [file EXCEPT ![d].lines = new]
  BY DEF PutInto, Has
<1>2. new = text
  BY DEF Has
<1> HIDE DEF new
<1>3. file \in [Dirs -> [there : BOOLEAN, inode : Nat, lines : Seq(Line)]]
  BY DEF FilesTypeOK
<1>4. file' = [file EXCEPT ![d] = [file[d] EXCEPT !.lines = text]]
  BY <1>1, <1>2
<1>5. [file[d] EXCEPT !.lines = text] \in [there : BOOLEAN, inode : Nat, lines : Seq(Line)]
  BY <1>3
<1>6. [file[d] EXCEPT !.lines = text].lines = text
  BY <1>3
<1> QED BY <1>3, <1>4, <1>5, <1>6

\* The template is written, and the process ends.
LEMMA TemplateWriteStep == ASSUME CWhole, NEW p \in Procs, TemplateWrite(p) PROVE CWhole'
<1> DEFINE d == dir[p]
<1>1. /\ FilesTypeOK /\ OneServes /\ Alone /\ TextsSound /\ WritersHave /\ FilesWhole
      /\ \A q \in Procs : LackingFits(q)
  BY DEF CWhole
<1>2. stage[p] = "writing" /\ PutInto(p, d, Template) /\ Ends(p) /\ UNCHANGED <<place, scripts>>
  BY DEF TemplateWrite, At
<1>3. d \in Dirs /\ stage[p] \in Active /\ Has(p, d) /\ Template \in Seq(Line) /\ Sound(Template)
  BY <1>1, <1>2, FilesAssumption DEF FilesTypeOK, Active, WritersHave
<1> HIDE DEF d
<1>4. /\ file' \in [Dirs -> [there : BOOLEAN, inode : Nat, lines : Seq(Line)]]
      /\ file'[d].lines = Template /\ \A e \in Dirs \ {d} : file'[e] = file[e]
  BY <1>1, <1>2, <1>3, Written
<1>5. FilesTypeOK' /\ Alone' /\ OneServes' /\ TextsSound'
  BY <1>2, <1>4, EndsParts
<1>6. \A q \in Procs \ {p} : stage[q] \notin Active
  BY <1>1, <1>3 DEF Acts, Alone
<1>7. /\ \A q \in Procs : stage'[q] \notin Active
      /\ \A r \in Changes : rpc'[r] # "write"
  <2>1. \A q \in Procs : stage'[q] \notin Active
    BY <1>2, <1>6, EndsFacts DEF Active
  <2>2. \A r \in Changes : rpc[r] # "write"
    BY <1>3, OneWriter
  <2>3. \A r \in Changes : rpc'[r] # "write"
    BY <1>2, <2>2, EndsFacts
  <2> QED BY <2>1, <2>3
<1>8. WritersHave' /\ \A q \in Procs : LackingFits(q)'
  BY <1>7 DEF WritersHave, LackingFits, Active
<1>9. FilesWhole'
  <2>1. \A e \in Dirs \ {d} : ~BeingWritten(e)
    BY <1>2, <1>3, OneWriter DEF BeingWritten, At, d
  <2> QED BY <1>1, <1>3, <1>4, <2>1 DEF FilesWhole
<1> QED BY <1>5, <1>8, <1>9 DEF CWhole

\* A line that is appended has a key the file lacks.
LEMMA AppendLineStep == ASSUME CWhole, NEW p \in Procs, AppendLine(p) PROVE CWhole'
<1> DEFINE d == dir[p]
           lines == file[d].lines
           keys == lacking[p]
           more == Append(lines, TemplateLine(Head(keys)))
<1>1. /\ FilesTypeOK /\ OneServes /\ Alone /\ TextsSound /\ WritersHave /\ FilesWhole
      /\ \A q \in Procs : LackingFits(q)
  BY DEF CWhole
<1>2. /\ stage[p] = "appending" /\ keys # <<>> /\ PutInto(p, d, more)
      /\ lacking' = [lacking EXCEPT ![p] = Tail(keys)]
      /\ UNCHANGED <<place, stage, dir, scripts, rpc, wanted, fd>>
  BY DEF AppendLine, At, webVars, Mine
<1>3. d \in Dirs /\ stage[p] \in Active \ {"writing"} /\ keys \in Seq(STRING) /\ lines \in Seq(Line)
  BY <1>1, <1>2 DEF FilesTypeOK, Active
<1>4. /\ \A i \in DOMAIN keys : keys[i] \in KeysIn(Template) \ KeysIn(lines)
      /\ \A i, j \in DOMAIN keys : i # j => keys[i] # keys[j]
  BY <1>1, <1>2 DEF LackingFits
<1> HIDE DEF keys, lines, d
<1>5. /\ Head(keys) = keys[1] /\ 1 \in DOMAIN keys /\ Tail(keys) \in Seq(STRING) /\ DOMAIN Tail(keys) = 1..(Len(keys) - 1)
      /\ \A i \in DOMAIN Tail(keys) : i + 1 \in DOMAIN keys /\ Tail(keys)[i] = keys[i + 1] /\ i + 1 # 1
      /\ Len(keys) \in Nat
  BY <1>2, <1>3
<1>6. /\ \A i \in DOMAIN Tail(keys) : Tail(keys)[i] \in KeysIn(Template) \ (KeysIn(lines) \cup {Head(keys)})
      /\ \A i, j \in DOMAIN Tail(keys) : i # j => Tail(keys)[i] # Tail(keys)[j]
  <2>1. \A i \in DOMAIN Tail(keys) : Tail(keys)[i] \in KeysIn(Template) \ (KeysIn(lines) \cup {Head(keys)})
    BY <1>4, <1>5
  <2>2. \A i, j \in DOMAIN Tail(keys) : i # j => i + 1 # j + 1
    BY <1>5
  <2> QED BY <1>4, <1>5, <2>1, <2>2
<1>7. TemplateLine(Head(keys)) \in Line /\ TemplateLine(Head(keys)).key = Head(keys)
  BY <1>4, <1>5, TemplateHas
<1>8. more \in Seq(Line)
  BY <1>3, <1>7
<1>9. /\ \A q \in Procs \ {p} : stage[q] \notin Active
      /\ \A r \in Changes : rpc[r] # "write"
  BY <1>1, <1>3, OneWriter DEF Acts, Alone
<1>10. ~BeingWritten(d) /\ \A e \in Dirs : ~BeingWritten(e)
  BY <1>2, <1>9, <1>3 DEF BeingWritten, At, Active
<1>11. \/ file' = file /\ (~file[d].there \/ file[d].inode # fd[p])
       \/ file[d].there /\ file' = [file EXCEPT ![d].lines = more]
  <2>1. more \o SubSeq(lines, Len(more) + 1, Len(lines)) = more
    <3>1. Len(more) = Len(lines) + 1 /\ Len(lines) \in Nat
      BY <1>3, <1>7
    <3>2. SubSeq(lines, Len(more) + 1, Len(lines)) = <<>>
      BY <1>3, <3>1, SubSeqEmpty
    <3> HIDE DEF more
    <3> QED BY <1>8, <3>2
  <2> HIDE DEF more
  <2> QED BY <1>2, <2>1 DEF PutInto, lines
<1> HIDE DEF more
<1>12. /\ file' \in [Dirs -> [there : BOOLEAN, inode : Nat, lines : Seq(Line)]]
       /\ \A e \in Dirs \ {d} : file'[e] = file[e]
       /\ \A e \in Dirs : file'[e].there = file[e].there /\ file'[e].inode = file[e].inode
  <2>1. CASE file' = file
    BY <1>1, <2>1 DEF FilesTypeOK
  <2>2. CASE file' = [file EXCEPT ![d].lines = more]
    <3>1. file \in [Dirs -> [there : BOOLEAN, inode : Nat, lines : Seq(Line)]]
      BY <1>1 DEF FilesTypeOK
    <3>2. file' \in [Dirs -> [there : BOOLEAN, inode : Nat, lines : Seq(Line)]]
      BY <1>3, <1>8, <2>2, <3>1
    <3>3. \A e \in Dirs \ {d} : file'[e] = file[e]
      BY <1>3, <2>2, <3>1
    <3>4. file'[d] = [file[d] EXCEPT !.lines = more]
      BY <1>3, <2>2, <3>1
    <3>5. file'[d].there = file[d].there /\ file'[d].inode = file[d].inode
      BY <1>3, <3>1, <3>4
    <3> QED BY <3>2, <3>3, <3>5
  <2> QED BY <1>11, <2>1, <2>2
<1>13. lacking' \in [Procs -> Seq(STRING)] /\ lacking'[p] = Tail(keys)
  BY <1>1, <1>2, <1>5 DEF FilesTypeOK
<1>14. FilesTypeOK'
  BY <1>1, <1>2, <1>12, <1>13 DEF FilesTypeOK
<1>15. OneServes' /\ Alone' /\ TextsSound'
  BY <1>1, <1>2 DEF OneServes, Alone, Acts, TextsSound
<1>16. WritersHave'
  BY <1>2, <1>9 DEF WritersHave, Active
<1>17. file'[d].lines = lines \/ (file[d].there /\ file'[d].lines = more)
  BY <1>1, <1>3, <1>11 DEF FilesTypeOK, lines
<1>18. file[d].there => /\ Sound(more) /\ KeysIn(more) = KeysIn(lines) \cup {Head(keys)}
  <2> SUFFICES ASSUME file[d].there PROVE Sound(more) /\ KeysIn(more) = KeysIn(lines) \cup {Head(keys)}
    OBVIOUS
  <2>1. Sound(lines)
    BY <1>3, ReadsSound DEF d, lines
  <2>2. Head(keys) \in KeysIn(Template) \ KeysIn(lines)
    BY <1>4, <1>5
  <2>3. Head(keys) \notin Sections
    <3>1. "version" \in KeysIn(lines) /\ Given(lines) # {}
      BY <2>1 DEF Sound
    <3>2. "settings" \in KeysIn(lines)
      <4>1. SectionOf(lines, Len(lines) + 1) = "settings" /\ Len(lines) \in Nat
        BY <1>3, <2>1 DEF Sound
      <4> DEFINE B == {j \in 1..Len(lines) : lines[j].key \in Sections}
      <4>2. SectionOf(lines, Len(lines) + 1) = IF B = {} THEN "none" ELSE lines[Max(B)].key
        <5>1. (Len(lines) + 1) - 1 = Len(lines)
          BY <4>1
        <5> QED BY <5>1, Zenon DEF SectionOf
      <4>3. B # {}
        BY <4>1, <4>2
      <4>4. Max(B) \in 1..Len(lines)
        <5>1. B \subseteq 1..Len(lines)
          OBVIOUS
        <5> HIDE DEF B
        <5> QED BY <4>1, <4>3, <5>1, Greatest
      <4> HIDE DEF B
      <4> QED BY <1>3, <4>1, <4>2, <4>3, <4>4 DEF KeysIn, NamesIn, Item
    <3> QED BY <2>2, <3>1, <3>2 DEF Sections
  <2> QED BY <1>3, <1>7, <2>1, <2>2, <2>3, SoundGrows DEF more
<1>19. ASSUME NEW q \in Procs PROVE LackingFits(q)'
  <2>1. CASE q = p
    <3>1. KeysIn(file'[d].lines) \subseteq KeysIn(lines) \cup {Head(keys)}
      BY <1>17, <1>18
    <3> QED BY <1>2, <1>6, <1>13, <2>1, <3>1 DEF LackingFits, d
  <2>2. CASE q # p
    BY <1>2, <1>9, <2>2 DEF LackingFits, Active
  <2> QED BY <2>1, <2>2
<1>20. FilesWhole'
  <2>1. ASSUME NEW e \in Dirs, file'[e].there PROVE Sound(file'[e].lines)
    <3>1. CASE e = d
      <4>1. file[d].there
        BY <1>12, <2>1, <3>1
      <4>2. Sound(lines)
        BY <1>3, <4>1, ReadsSound DEF d, lines
      <4> QED BY <1>17, <1>18, <3>1, <4>1, <4>2
    <3>2. CASE e # d
      BY <1>1, <1>10, <1>12, <2>1, <3>2 DEF FilesWhole
    <3> QED BY <3>1, <3>2
  <2> QED BY <2>1 DEF FilesWhole
<1> QED BY <1>14, <1>15, <1>16, <1>19, <1>20 DEF CWhole

\* What the steps of a change leave: who acts, and what processes have.
LEMMA ChangeParts ==
    ASSUME CWhole, UNCHANGED <<place, procVars, scripts>>, NEW r \in Changes,
           NEW l \in {"address", "open", "write", "restart", "done"}, rpc' = [rpc EXCEPT ![r] = l],
           wanted' \in [Changes -> [what : {"none", "patch", "delete"}, text : Seq(Line)]],
           \A c \in Changes \ {r} : wanted'[c] = wanted[c],
           fd' \in [Procs \cup Changes -> Nat],
           file' \in [Dirs -> [there : BOOLEAN, inode : Nat, lines : Seq(Line)]],
           \A c \in Changes : c # r => rpc[c] \in {"none", "done"},
           \E p \in Procs : stage[p] = "serving", rpc[r] # "exit"
    PROVE  /\ FilesTypeOK' /\ Alone' /\ OneServes'
           /\ \A p \in Procs : stage'[p] \in {"off", "serving", "exit"} /\ LackingFits(p)'
           /\ rpc'[r] = l /\ \A c \in Changes \ {r} : rpc'[c] = rpc[c]
<1>1. FilesTypeOK /\ OneServes /\ Alone /\ UNCHANGED <<stage, dir, lacking>>
  BY DEF CWhole, procVars
<1>2. /\ rpc' \in [Changes -> {"none", "address", "open", "write", "restart", "exit", "done"}]
      /\ rpc'[r] = l /\ \A c \in Changes \ {r} : rpc'[c] = rpc[c]
  BY <1>1 DEF FilesTypeOK
<1>3. FilesTypeOK'
  BY <1>1, <1>2 DEF FilesTypeOK
<1>4. \A c \in Changes : rpc[c] # "exit"
  OBVIOUS
<1>5. \A p \in Procs : Acts(p)' => Acts(p)
  BY <1>1, <1>2, <1>4 DEF Acts
<1>6. Alone'
  BY <1>1, <1>5 DEF Alone
<1>7. OneServes'
  <2>1. \A c \in Changes : rpc'[c] \notin {"none", "done"} => c = r
    BY <1>2
  <2> QED BY <1>1, <2>1 DEF OneServes
<1>8. ASSUME NEW p \in Procs PROVE stage[p] \notin Active
  <2>1. PICK q \in Procs : stage[q] = "serving"
    OBVIOUS
  <2>2. Acts(q)
    BY <1>4, <2>1 DEF Acts
  <2>3. Acts(p) => p = q
    BY <1>1, <2>2 DEF Alone
  <2> QED BY <2>1, <2>3 DEF Acts, Active
<1>9. \A p \in Procs : stage'[p] \in {"off", "serving", "exit"}
  BY <1>1, <1>8 DEF FilesTypeOK
<1>10. \A p \in Procs : LackingFits(p)'
  BY <1>9 DEF LackingFits
<1> QED BY <1>2, <1>3, <1>6, <1>7, <1>9, <1>10

\* A change that is under way is the only one, and a process serves.
LEMMA OnlyChange ==
    ASSUME CWhole, NEW r \in Changes, rpc[r] \notin {"none", "done"}
    PROVE  /\ \A c \in Changes : c # r => rpc[c] \in {"none", "done"}
           /\ \E p \in Procs : stage[p] = "serving"
  BY DEF CWhole, OneServes

\* The first change that is asked of a process.
LEMMA PatchStep ==
    ASSUME CWhole, ~spoiled', NEW r \in Changes, NEW text \in UserFiles, Patch(r, text) PROVE CWhole'
<1>1. /\ \E p \in Procs : stage[p] = "serving"
      /\ wanted' = [wanted EXCEPT ![r] = [what |-> "patch", text |-> text]]
      /\ rpc' = [rpc EXCEPT ![r] = "open"] /\ Sound(text) /\ UnderWay = {}
      /\ UNCHANGED <<place, file, procVars, scripts, fd>>
  BY DEF Patch, Turns, Spoil, Serving, At
<1>2. \A c \in Changes : rpc[c] \in {"none", "done"}
  BY <1>1 DEF UnderWay
<1>3. /\ FilesTypeOK /\ WritersHave /\ FilesWhole /\ text \in Seq(Line)
  BY FilesAssumption DEF CWhole
<1>4. /\ wanted' \in [Changes -> [what : {"none", "patch", "delete"}, text : Seq(Line)]]
      /\ wanted'[r].text = text /\ \A c \in Changes \ {r} : wanted'[c] = wanted[c]
  BY <1>1, <1>3 DEF FilesTypeOK
<1>5. /\ FilesTypeOK' /\ Alone' /\ OneServes'
      /\ \A p \in Procs : stage'[p] \in {"off", "serving", "exit"} /\ LackingFits(p)'
      /\ rpc'[r] = "open" /\ \A c \in Changes \ {r} : rpc'[c] = rpc[c]
  BY <1>1, <1>2, <1>3, <1>4, ChangeParts DEF FilesTypeOK
<1>6. TextsSound'
  BY <1>1, <1>2, <1>4, <1>5 DEF TextsSound
<1>7. WritersHave'
  BY <1>2, <1>5 DEF WritersHave
<1>8. FilesWhole'
  <2>1. UNCHANGED <<stage, dir>>
    BY <1>1 DEF procVars
  <2>2. ASSUME NEW d \in Dirs, BeingWritten(d) PROVE BeingWritten(d)'
    BY <1>1, <1>2, <2>1, <2>2 DEF BeingWritten, At
  <2> QED BY <1>1, <1>3, <2>2 DEF FilesWhole
<1> QED BY <1>5, <1>6, <1>7, <1>8 DEF CWhole

\* A reset removes the file.
LEMMA DeleteStep == ASSUME CWhole, ~spoiled', NEW r \in Changes, Delete(r) PROVE CWhole'
<1>1. /\ \E p \in Procs : stage[p] = "serving"
      /\ wanted' = [wanted EXCEPT ![r] = [what |-> "delete", text |-> Template]]
      /\ UnderWay = {} /\ UNCHANGED <<place, procVars, scripts, fd>>
      /\ \/ rpc' = [rpc EXCEPT ![r] = "address"] /\ file' = [file EXCEPT ![place.exe].there = FALSE]
         \/ rpc' = [rpc EXCEPT ![r] = "done"] /\ file' = file
  BY DEF Delete, Turns, Spoil, Serving, At
<1>2. \A c \in Changes : rpc[c] \in {"none", "done"}
  BY <1>1 DEF UnderWay
<1>3. FilesTypeOK /\ WritersHave /\ FilesWhole /\ Template \in Seq(Line) /\ Sound(Template)
  BY FilesAssumption DEF CWhole
<1>4. /\ wanted' \in [Changes -> [what : {"none", "patch", "delete"}, text : Seq(Line)]]
      /\ wanted'[r].text = Template /\ \A c \in Changes \ {r} : wanted'[c] = wanted[c]
  BY <1>1, <1>3 DEF FilesTypeOK
<1>5. /\ file' \in [Dirs -> [there : BOOLEAN, inode : Nat, lines : Seq(Line)]]
      /\ \A d \in Dirs : file'[d].there => file'[d] = file[d]
  <2>1. file \in [Dirs -> [there : BOOLEAN, inode : Nat, lines : Seq(Line)]] /\ place.exe \in Dirs
    BY <1>3 DEF FilesTypeOK
  <2>2. CASE file' = file
    BY <2>1, <2>2
  <2>3. CASE file' = [file EXCEPT ![place.exe].there = FALSE]
    <3>1. file' \in [Dirs -> [there : BOOLEAN, inode : Nat, lines : Seq(Line)]]
      BY <2>1, <2>3
    <3>2. /\ file'[place.exe] = [file[place.exe] EXCEPT !.there = FALSE]
          /\ file[place.exe] \in [there : BOOLEAN, inode : Nat, lines : Seq(Line)]
      BY <2>1, <2>3
    <3>3. ~file'[place.exe].there
      BY <3>2
    <3> QED BY <2>1, <2>3, <3>1, <3>3
  <2> QED BY <1>1, <2>2, <2>3
<1>6. PICK l \in {"address", "done"} : rpc' = [rpc EXCEPT ![r] = l]
  BY <1>1
<1>7. /\ FilesTypeOK' /\ Alone' /\ OneServes'
      /\ \A p \in Procs : stage'[p] \in {"off", "serving", "exit"} /\ LackingFits(p)'
      /\ rpc'[r] = l /\ \A c \in Changes \ {r} : rpc'[c] = rpc[c]
  <2>1. /\ l \in {"address", "open", "write", "restart", "done"} /\ rpc[r] # "exit"
        /\ fd' \in [Procs \cup Changes -> Nat]
    BY <1>1, <1>2, <1>3 DEF FilesTypeOK
  <2> QED BY <1>1, <1>2, <1>4, <1>5, <1>6, <2>1, ChangeParts
<1>8. TextsSound'
  BY <1>2, <1>3, <1>4, <1>7 DEF TextsSound
<1>9. WritersHave'
  BY <1>2, <1>6, <1>7 DEF WritersHave
<1>10. FilesWhole'
  <2>1. UNCHANGED <<stage, dir>>
    BY <1>1 DEF procVars
  <2>2. ASSUME NEW d \in Dirs, BeingWritten(d) PROVE BeingWritten(d)'
    BY <1>1, <1>2, <2>1, <2>2 DEF BeingWritten, At
  <2> QED BY <1>3, <1>5, <2>2 DEF FilesWhole
<1> QED BY <1>7, <1>8, <1>9, <1>10 DEF CWhole

\* A reset goes on or ends.
LEMMA AddressStep == ASSUME CWhole, NEW r \in Changes, Address(r) PROVE CWhole'
<1>1. /\ rpc[r] = "address" /\ UNCHANGED <<place, file, procVars, scripts, fd>>
      /\ \/ rpc' = [rpc EXCEPT ![r] = "open"] /\ wanted' = wanted
         \/ rpc' = [rpc EXCEPT ![r] = "done"] /\ wanted' = [wanted EXCEPT ![r] = Nothing]
  BY DEF Address, Turns
<1>2. FilesTypeOK /\ WritersHave /\ FilesWhole /\ TextsSound
  BY DEF CWhole
<1>3. /\ wanted' \in [Changes -> [what : {"none", "patch", "delete"}, text : Seq(Line)]]
      /\ \A c \in Changes \ {r} : wanted'[c] = wanted[c]
  <2> DEFINE W == [what : {"none", "patch", "delete"}, text : Seq(Line)]
  <2>1. Nothing \in W
    BY DEF Nothing
  <2>2. wanted \in [Changes -> W]
    BY <1>2 DEF FilesTypeOK
  <2>3. wanted' = wanted \/ wanted' = [wanted EXCEPT ![r] = Nothing]
    BY <1>1
  <2> HIDE DEF W
  <2>4. wanted' \in [Changes -> W] /\ \A c \in Changes \ {r} : wanted'[c] = wanted[c]
    BY <2>1, <2>2, <2>3
  <2> QED BY <2>4 DEF W
<1>4. PICK l \in {"open", "done"} : rpc' = [rpc EXCEPT ![r] = l] /\ (l = "open" => wanted' = wanted)
  BY <1>1
<1>5. (\A c \in Changes : c # r => rpc[c] \in {"none", "done"}) /\ \E p \in Procs : stage[p] = "serving"
  BY <1>1, OnlyChange
<1>6. /\ FilesTypeOK' /\ Alone' /\ OneServes'
      /\ \A p \in Procs : stage'[p] \in {"off", "serving", "exit"} /\ LackingFits(p)'
      /\ rpc'[r] = l /\ \A c \in Changes \ {r} : rpc'[c] = rpc[c]
  <2>1. /\ l \in {"address", "open", "write", "restart", "done"} /\ rpc[r] # "exit"
        /\ fd' \in [Procs \cup Changes -> Nat]
        /\ file' \in [Dirs -> [there : BOOLEAN, inode : Nat, lines : Seq(Line)]]
    BY <1>1, <1>2 DEF FilesTypeOK
  <2> QED BY <1>1, <1>3, <1>4, <1>5, <2>1, ChangeParts
<1>7. TextsSound'
  BY <1>1, <1>2, <1>4, <1>5, <1>6 DEF TextsSound
<1>8. WritersHave'
  BY <1>4, <1>5, <1>6 DEF WritersHave
<1>9. FilesWhole'
  <2>1. UNCHANGED <<stage, dir>>
    BY <1>1 DEF procVars
  <2>2. ASSUME NEW d \in Dirs, BeingWritten(d) PROVE BeingWritten(d)'
    BY <1>1, <1>5, <2>1, <2>2, <1>6 DEF BeingWritten, At
  <2> QED BY <1>1, <1>2, <2>2 DEF FilesWhole
<1> QED BY <1>6, <1>7, <1>8, <1>9 DEF CWhole

\* A change cuts the file to nothing, and nobody reads it until it is written.
LEMMA ChangeOpenStep == ASSUME CWhole, NEW r \in Changes, ChangeOpen(r) PROVE CWhole'
<1> DEFINE d == place.exe
<1>1. /\ rpc[r] = "open" /\ UNCHANGED <<place, procVars, scripts, wanted>> /\ rpc' = [rpc EXCEPT ![r] = "write"]
      /\ file' = [file EXCEPT ![d] = [there |-> TRUE, inode |-> IF file[d].there THEN file[d].inode ELSE file[d].inode + 1,
                                      lines |-> <<>>]]
      /\ fd' = [fd EXCEPT ![r] = file'[d].inode]
  BY DEF ChangeOpen, Turns, Opened
<1>2. FilesTypeOK /\ WritersHave /\ FilesWhole /\ TextsSound
  BY DEF CWhole
<1>3. d \in Dirs /\ d' = d
  BY <1>1, <1>2 DEF FilesTypeOK
<1>4. (\A c \in Changes : c # r => rpc[c] \in {"none", "done"}) /\ \E p \in Procs : stage[p] = "serving"
  BY <1>1, OnlyChange
<1> HIDE DEF d
<1>5. /\ file' \in [Dirs -> [there : BOOLEAN, inode : Nat, lines : Seq(Line)]]
      /\ file'[d].there /\ file'[d].lines = <<>> /\ \A e \in Dirs \ {d} : file'[e] = file[e]
  BY <1>1, <1>2, <1>3 DEF FilesTypeOK
<1>6. fd' \in [Procs \cup Changes -> Nat] /\ fd'[r] = file'[d].inode
  BY <1>1, <1>2, <1>3, <1>5 DEF FilesTypeOK
<1>7. /\ FilesTypeOK' /\ Alone' /\ OneServes'
      /\ \A p \in Procs : stage'[p] \in {"off", "serving", "exit"} /\ LackingFits(p)'
      /\ rpc'[r] = "write" /\ \A c \in Changes \ {r} : rpc'[c] = rpc[c]
  BY <1>1, <1>2, <1>4, <1>5, <1>6, ChangeParts DEF FilesTypeOK
<1>8. TextsSound'
  BY <1>1, <1>2, <1>4, <1>7 DEF TextsSound
<1>9. WritersHave'
  <2>1. Has(r, place.exe)'
    BY <1>3, <1>5, <1>6 DEF Has, d
  <2> QED BY <1>4, <1>7, <2>1 DEF WritersHave
<1>10. FilesWhole'
  <2>1. UNCHANGED <<stage, dir>>
    BY <1>1 DEF procVars
  <2>3. ASSUME NEW e \in Dirs, e = d PROVE BeingWritten(e)'
    BY <1>1, <1>3, <1>7, <2>3 DEF BeingWritten, d
  <2>2. ASSUME NEW e \in Dirs, e # d, BeingWritten(e) PROVE BeingWritten(e)'
    BY <1>1, <2>1, <2>2 DEF BeingWritten, At, d
  <2>4. ASSUME NEW e \in Dirs, file'[e].there, ~BeingWritten(e)' PROVE Sound(file'[e].lines)
    <3>1. e # d
      BY <2>3, <2>4
    <3>2. file'[e] = file[e] /\ ~BeingWritten(e)
      BY <1>5, <2>2, <2>4, <3>1
    <3> QED BY <1>2, <2>4, <3>2 DEF FilesWhole
  <2> QED BY <2>4 DEF FilesWhole
<1> QED BY <1>7, <1>8, <1>9, <1>10 DEF CWhole

\* A change writes the text.
LEMMA ChangeWriteStep == ASSUME CWhole, NEW r \in Changes, ChangeWrite(r) PROVE CWhole'
<1> DEFINE d == place.exe
           text == wanted[r].text
<1>1. /\ rpc[r] = "write" /\ UNCHANGED <<place, procVars, scripts, wanted, fd>> /\ rpc' = [rpc EXCEPT ![r] = "restart"]
      /\ PutInto(r, d, text)
  BY DEF ChangeWrite, Turns
<1>2. FilesTypeOK /\ WritersHave /\ FilesWhole /\ TextsSound
  BY DEF CWhole
<1>3. d \in Dirs /\ Has(r, d) /\ text \in Seq(Line) /\ Sound(text)
  BY <1>1, <1>2 DEF FilesTypeOK, WritersHave, TextsSound
<1>4. (\A c \in Changes : c # r => rpc[c] \in {"none", "done"}) /\ \E p \in Procs : stage[p] = "serving"
  BY <1>1, OnlyChange
<1> HIDE DEF d, text
<1>5. /\ file' \in [Dirs -> [there : BOOLEAN, inode : Nat, lines : Seq(Line)]]
      /\ file'[d].lines = text /\ \A e \in Dirs \ {d} : file'[e] = file[e]
  BY <1>1, <1>2, <1>3, Written
<1>6. /\ FilesTypeOK' /\ Alone' /\ OneServes'
      /\ \A p \in Procs : stage'[p] \in {"off", "serving", "exit"} /\ LackingFits(p)'
      /\ rpc'[r] = "restart" /\ \A c \in Changes \ {r} : rpc'[c] = rpc[c]
  BY <1>1, <1>2, <1>4, <1>5, ChangeParts DEF FilesTypeOK
<1>7. TextsSound'
  BY <1>1, <1>2, <1>4, <1>6 DEF TextsSound
<1>8. WritersHave'
  BY <1>4, <1>6 DEF WritersHave
<1>9. FilesWhole'
  <2>1. UNCHANGED <<stage, dir>>
    BY <1>1 DEF procVars
  <2>2. ASSUME NEW e \in Dirs, e # d, BeingWritten(e) PROVE BeingWritten(e)'
    BY <1>1, <2>1, <2>2 DEF BeingWritten, At, d
  <2> QED BY <1>2, <1>3, <1>5, <2>2 DEF FilesWhole
<1> QED BY <1>6, <1>7, <1>8, <1>9 DEF CWhole

\* The process that serves asks for a restart and will exit.
LEMMA ChangeRestartStep == ASSUME CWhole, NEW r \in Changes, ChangeRestart(r) PROVE CWhole'
<1>1. PICK p \in Procs : stage[p] = "serving" /\ scripts' = [scripts EXCEPT ![dir[p]] = @ + 1]
  BY DEF ChangeRestart, Serving, At, Script
<1>2. rpc[r] = "restart" /\ rpc' = [rpc EXCEPT ![r] = "exit"] /\ UNCHANGED <<place, file, stage, dir, lacking, wanted, fd>>
  BY DEF ChangeRestart, Turns, procVars
<1>3. /\ FilesTypeOK /\ OneServes /\ Alone /\ TextsSound /\ WritersHave /\ FilesWhole
      /\ \A q \in Procs : LackingFits(q)
  BY DEF CWhole
<1>4. \A c \in Changes : c # r => rpc[c] \in {"none", "done"}
  BY <1>2, OnlyChange
<1>5. Acts(p) /\ dir[p] \in Dirs
  BY <1>1, <1>2, <1>3, <1>4 DEF Acts, FilesTypeOK
<1>6. \A d \in Dirs : scripts[d] = 0
  BY <1>3, <1>5 DEF Alone
<1>7. scripts' \in [Dirs -> Nat] /\ scripts'[dir[p]] = 1 /\ \A d \in Dirs \ {dir[p]} : scripts'[d] = 0
  BY <1>1, <1>3, <1>5, <1>6 DEF FilesTypeOK
<1>8. /\ rpc' \in [Changes -> {"none", "address", "open", "write", "restart", "exit", "done"}]
      /\ rpc'[r] = "exit" /\ \A c \in Changes \ {r} : rpc'[c] = rpc[c]
  BY <1>2, <1>3 DEF FilesTypeOK
<1>9. FilesTypeOK'
  BY <1>2, <1>3, <1>7, <1>8 DEF FilesTypeOK
<1>10. ASSUME NEW q \in Procs PROVE ~Acts(q)'
  <2>1. Acts(q) => q = p
    BY <1>3, <1>5 DEF Alone
  <2> QED BY <1>1, <1>2, <1>8, <2>1 DEF Acts, Active
<1>11. Alone'
  BY <1>7, <1>10 DEF Alone
<1>12. OneServes'
  <2>1. \A c \in Changes : rpc'[c] \notin {"none", "done"} => c = r
    BY <1>4, <1>8
  <2> QED BY <1>1, <1>2, <1>3, <2>1 DEF OneServes
<1>13. TextsSound' /\ WritersHave'
  BY <1>2, <1>3, <1>8 DEF TextsSound, WritersHave, Has
<1>14. ASSUME NEW q \in Procs PROVE LackingFits(q)'
  BY <1>2, <1>3 DEF LackingFits
<1>15. FilesWhole'
  <2>1. ASSUME NEW d \in Dirs, BeingWritten(d) PROVE BeingWritten(d)'
    BY <1>2, <1>8, <2>1 DEF BeingWritten, At
  <2> QED BY <1>2, <1>3, <2>1 DEF FilesWhole
<1> QED BY <1>9, <1>11, <1>12, <1>13, <1>14, <1>15 DEF CWhole

\* No process runs, and the files work unless they are spoiled.
LEMMA FilesInit == ASSUME ConfigInit, ~spoiled PROVE CWhole
<1>1. /\ \A p \in Procs : stage[p] = "off" /\ \A r \in Changes : rpc[r] = "none"
      /\ \A d \in Dirs : scripts[d] = 0
  BY DEF ConfigInit
<1>2. FilesTypeOK
  <2>1. \A f \in {NoFile} \cup {[there |-> TRUE, inode |-> 1, lines |-> u] : u \in UserFiles} :
           f \in [there : BOOLEAN, inode : Nat, lines : Seq(Line)]
    <3>1. NoFile \in [there : BOOLEAN, inode : Nat, lines : Seq(Line)]
      BY DEF NoFile
    <3>2. \A u \in UserFiles : 
            [there |-> TRUE, inode |-> 1, lines |-> u] \in [there : BOOLEAN, inode : Nat, lines : Seq(Line)]
      BY FilesAssumption
    <3> QED BY <3>1, <3>2
  <2>2. file \in [Dirs -> [there : BOOLEAN, inode : Nat, lines : Seq(Line)]]
    BY <2>1 DEF ConfigInit
  <2>3. wanted \in [Changes -> [what : {"none", "patch", "delete"}, text : Seq(Line)]]
    BY DEF ConfigInit, Nothing
  <2> QED BY <2>2, <2>3, FilesAssumption DEF ConfigInit, FilesTypeOK
<1>3. \A p \in Procs : ~Acts(p)
  BY <1>1 DEF Acts, Active
<1>4. Alone /\ OneServes /\ WritersHave /\ TextsSound
  <2>1. Alone
    BY <1>1, <1>3 DEF Alone
  <2>2. \A r \in Changes : rpc[r] = "none"
    BY DEF ConfigInit
  <2> QED BY <1>1, <2>1, <2>2 DEF OneServes, WritersHave, TextsSound
<1>5. \A p \in Procs : LackingFits(p)
  BY <1>1 DEF LackingFits
<1>6. FilesWhole
  BY DEF ConfigInit, FilesWhole
<1> QED BY <1>2, <1>4, <1>5, <1>6 DEF CWhole

\* Nothing changes.
LEMMA FilesStutter == ASSUME CWhole, UNCHANGED configVars PROVE CWhole'
<1>1. UNCHANGED <<place, file, stage, dir, lacking, scripts, rpc, wanted, fd>>
  BY DEF configVars, procVars, webVars
<1>2. FilesTypeOK' /\ Alone' /\ OneServes' /\ TextsSound'
  BY <1>1 DEF CWhole, FilesTypeOK, Alone, Acts, OneServes, TextsSound
<1>3. WritersHave' /\ \A p \in Procs : LackingFits(p)'
  BY <1>1 DEF CWhole, WritersHave, Has, LackingFits
<1>4. FilesWhole'
  BY <1>1 DEF CWhole, FilesWhole, BeingWritten, At
<1> QED BY <1>2, <1>3, <1>4 DEF CWhole

\* Every step keeps the invariant.
LEMMA FilesStep == ASSUME CInv, [ConfigNext]_configVars PROVE CInv'
<1> SUFFICES ASSUME ~spoiled' PROVE CWhole'
  BY DEF CInv
<1>1. ~spoiled
  <2>1. CASE ConfigNext
    BY <2>1 DEF ConfigNext, Step, Change, Main, TemplateOpen, TemplateWrite, Load, Compare, AppendOpen, AppendLine,
       RestartWithKeys, Exit, Refused, Serve, Kill, Launch, RunScript, Address, ChangeOpen, ChangeWrite, ChangeRestart,
       ChangeWriteFails, Delete, Patch, Spoil
  <2>2. CASE UNCHANGED configVars
    BY <2>2 DEF configVars
  <2> QED BY <2>1, <2>2
<1>2. CWhole
  BY <1>1 DEF CInv
<1>3. ASSUME NEW p \in Procs, Step(p) PROVE CWhole'
  BY <1>2, <1>3, MainStep, TemplateOpenStep, TemplateWriteStep, LoadStep, CompareStep,
     AppendOpenStep, AppendLineStep, RestartWithKeysStep, ExitStep DEF Step
<1>4. ASSUME NEW p \in Procs, Refused(p) \/ Serve(p) \/ Kill(p) PROVE CWhole'
  BY <1>2, <1>4, RefusedStep, ServeStep, KillStep
<1>5. ASSUME NEW p \in Procs, NEW d \in Dirs, Launch(p, d) \/ RunScript(p, d) PROVE CWhole'
  BY <1>2, <1>5, LaunchStep, RunScriptStep
<1>6. ASSUME NEW r \in Changes, Change(r) PROVE CWhole'
  BY <1>2, <1>6, AddressStep, ChangeOpenStep, ChangeWriteStep, ChangeRestartStep DEF Change
<1>7. ASSUME NEW r \in Changes, ChangeWriteFails(r) \/ Delete(r) PROVE CWhole'
  BY <1>2, <1>7, DeleteStep DEF ChangeWriteFails, Spoil
<1>8. ASSUME NEW r \in Changes, NEW text \in UserFiles, Patch(r, text) PROVE CWhole'
  BY <1>2, <1>8, PatchStep
<1>9. CASE UNCHANGED configVars
  BY <1>2, <1>9, FilesStutter
<1> QED BY <1>3, <1>4, <1>5, <1>6, <1>7, <1>8, <1>9 DEF ConfigNext

\* main, LoadConfig with ensureConfigComplete, WriteYAMLToFile, DeleteConfig and
\* RestartApplication: config.yml, where it is there and not being written, can be
\* read and completed, unless a user's text, a write that was cut off or two
\* changes at a time spoiled it.
THEOREM FilesAlwaysSound == FilesSpec => []FilesSound
<1>1. ConfigInit => CInv
  BY FilesInit DEF CInv
<1>2. CInv /\ [ConfigNext]_configVars => CInv'
  BY FilesStep
<1>3. CInv => FilesSound
  BY DEF CInv, CWhole, FilesWhole, FilesSound
<1> QED BY <1>1, <1>2, <1>3, PTL DEF FilesSpec
----------------------------------------------------------------------------------
\* Why the program does not restart for ever.

Complete(d) == file[d].there /\ Missing(file[d].lines) = {}

\* The keys a process has yet to append.
ToAppend(p) == {lacking[p][i] : i \in DOMAIN lacking[p]}

\* A process that completes its file has all that is missing before it, and the
\* file open; one that will write the template found no file.
Completes(p) ==
    /\ stage[p] = "template" => ~Mine(p).there
    /\ stage[p] \in {"append", "appending"} =>
          Mine(p).there /\ Missing(Mine(p).lines) \subseteq ToAppend(p)
    /\ stage[p] = "appending" => fd[p] = Mine(p).inode
Completing == \A p \in Procs : Completes(p)

\* Of a step: who restarts the program for missing keys leaves none missing.
RestartsComplete ==
    \A p \in Procs :
       ~spoiled /\ stage[p] = "appending" /\ stage'[p] = "exit" => Complete(dir[p])

\* Of a step: a file with all keys stays as it is, unless a user resets or changes it.
StaysComplete ==
    \A d \in Dirs :
       ~spoiled' /\ Complete(d) => file'[d] = file[d] \/ \E r \in Changes : Delete(r) \/ ChangeOpen(r)

\* Who does nothing has what it had, if nobody touches its file.
LEMMA CompletesStays ==
    ASSUME Completing, NEW p \in Procs,
           stage'[p] \in {"template", "append", "appending"} =>
              /\ stage'[p] = stage[p] /\ dir'[p] = dir[p] /\ lacking'[p] = lacking[p]
              /\ fd'[p] = fd[p] /\ file'[dir[p]] = file[dir[p]]
    PROVE  Completes(p)'
  BY DEF Completing, Completes, Mine, ToAppend

\* What is missing in a file that works, and in one that is empty.
LEMMA MissingIs ==
    /\ \A lines : Sound(lines) => Missing(lines) = KeysIn(Template) \ KeysIn(lines)
    /\ Missing(<<>>) # {}
<1>1. \A lines : Sound(lines) => Missing(lines) = KeysIn(Template) \ KeysIn(lines)
  BY DEF Sound, Missing, MissingByReflection, MissingByText
<1>2. Given(<<>>) = {}
  BY DEF Given
<1>3. Given(Template) # {}
  BY FilesAssumption DEF Sound
<1> QED BY <1>1, <1>2, <1>3 DEF Missing, MissingByReflection

\* Who acts is alone with the files.
LEMMA OneActs ==
    ASSUME CWhole, NEW p \in Procs, Acts(p)
    PROVE  \A q \in Procs \ {p} : stage[q] \notin Active
  BY DEF CWhole, Alone, Acts

\* A change that writes is alone with them.
LEMMA NoneActs ==
    ASSUME CWhole, NEW r \in Changes, rpc[r] \in {"address", "open", "write", "restart"}
    PROVE  \A p \in Procs : stage[p] \notin Active
  BY OneWriter

\* A process ends.
LEMMA EndsCompleting ==
    ASSUME CWhole, Completing, NEW p \in Procs, Ends(p), UNCHANGED file
    PROVE  Completing'
<1> SUFFICES ASSUME NEW q \in Procs PROVE Completes(q)'
  BY DEF Completing
<1>1. CASE q = p
  BY <1>1, EndsFacts, CompletesStays
<1>2. CASE q # p
  BY <1>2, EndsFacts, CompletesStays
<1> QED BY <1>1, <1>2

\* A process that goes on.
LEMMA GoesCompleting ==
    ASSUME CWhole, Completing, NEW p \in Procs, NEW l, Goes(p, l), UNCHANGED <<file, dir>>,
           \A q \in Procs \ {p} : lacking'[q] = lacking[q] /\ fd'[q] = fd[q],
           Completes(p)'
    PROVE  Completing'
<1> SUFFICES ASSUME NEW q \in Procs, q # p PROVE Completes(q)'
  BY DEF Completing
<1>1. stage'[q] = stage[q]
  BY DEF Goes, CWhole, FilesTypeOK
<1> QED BY <1>1, CompletesStays

LEMMA StartsCompleting ==
    ASSUME CWhole, Completing, NEW p \in Procs, NEW d \in Dirs, Launch(p, d) \/ RunScript(p, d)
    PROVE  Completing' /\ UNCHANGED <<file, spoiled>>
<1>1. UNCHANGED <<file, lacking, fd, spoiled>> /\ stage[p] = "off"
  BY DEF Launch, RunScript, Free
<1>2. \/ stage' = [stage EXCEPT ![p] = "main"] /\ \E e \in Dirs : dir' = [dir EXCEPT ![p] = e]
      \/ UNCHANGED <<stage, dir>>
  BY DEF Launch, RunScript, Goes, StartsIn, CWhole, FilesTypeOK
<1>3. ASSUME NEW q \in Procs PROVE Completes(q)'
  <2>1. stage'[q] \in {"main", "off"} \/ (stage'[q] = stage[q] /\ dir'[q] = dir[q])
    BY <1>1, <1>2 DEF CWhole, FilesTypeOK
  <2> QED BY <1>1, <2>1, CompletesStays
<1> QED BY <1>1, <1>3 DEF Completing

LEMMA MainCompleting ==
    ASSUME CWhole, Completing, NEW p \in Procs, Main(p)
    PROVE  Completing' /\ UNCHANGED file
<1>1. /\ UNCHANGED <<file, dir, lacking, fd>>
      /\ Goes(p, IF Mine(p).there THEN "load" ELSE "template")
  BY DEF Main
<1>2. stage'[p] = IF Mine(p).there THEN "load" ELSE "template"
  BY <1>1 DEF Goes, CWhole, FilesTypeOK
<1>3. Completes(p)'
  BY <1>1, <1>2 DEF Completes, Mine
<1> QED BY <1>1, <1>3, GoesCompleting

\* The order of the missing keys leaves none out.
LEMMA ListsAll ==
    ASSUME NEW S, IsFiniteSet(S), NEW keys \in SetToSeqs(S)
    PROVE  S \subseteq {keys[i] : i \in DOMAIN keys}
<1> DEFINE n == Cardinality(S)
<1>1. n \in Nat /\ IsFiniteSet(1..n) /\ Cardinality(1..n) = n
  <2>1. n \in Nat
    BY FS_CardinalityType
  <2> QED BY <2>1, FS_Interval
<1>2. keys \in [1..n -> S] /\ \A i, j \in 1..n : i # j => keys[i] # keys[j]
  BY DEF SetToSeqs
<1> HIDE DEF n
<1>3. keys \in Injection(1..n, S)
  BY <1>2 DEF Injection, IsInjective
<1>4. keys \in Surjection(1..n, S)
  BY <1>1, <1>3, FS_Injection DEF n
<1> QED BY <1>2, <1>4 DEF Surjection

LEMMA CompareCompleting ==
    ASSUME CWhole, Completing, NEW p \in Procs, Compare(p)
    PROVE  Completing' /\ UNCHANGED file
<1>1. UNCHANGED file
  BY DEF Compare
<1>2. CASE ~(Mine(p).there /\ Legal(Mine(p).lines))
  BY <1>1, <1>2, EndsCompleting DEF Compare
<1>3. CASE Mine(p).there /\ Legal(Mine(p).lines)
  <2> DEFINE l == IF Missing(Mine(p).lines) = {} THEN "loaded" ELSE "append"
             lack == Missing(Mine(p).lines)
  <2>1. PICK keys \in SetToSeqs(lack) : lacking' = [lacking EXCEPT ![p] = keys]
    BY <1>3 DEF Compare
  <2>2. Goes(p, l) /\ UNCHANGED <<dir, fd>>
    BY <1>3 DEF Compare
  <2>3. lacking'[p] = keys /\ (\A q \in Procs \ {p} : lacking'[q] = lacking[q]) /\ stage'[p] = l
    BY <2>1, <2>2 DEF Goes, CWhole, FilesTypeOK
  <2>4. lack \subseteq {keys[i] : i \in DOMAIN keys}
    <3>1. stage[p] \in Active \ {"writing"} /\ file[dir[p]].there
      BY <1>3 DEF Compare, At, Active, Mine
    <3>2. lack = KeysIn(Template) \ KeysIn(Mine(p).lines)
      BY <3>1, ReadsSound, MissingIs DEF Mine
    <3>3. IsFiniteSet(lack)
      BY <3>2, TemplateKeys, FS_Subset
    <3> HIDE DEF lack
    <3> QED BY <2>1, <3>3, ListsAll
  <2>5. Completes(p)'
    BY <1>1, <1>3, <2>2, <2>3, <2>4 DEF Completes, Mine, ToAppend
  <2> HIDE DEF l, lack
  <2> QED BY <1>1, <2>2, <2>3, <2>5, GoesCompleting
<1> QED BY <1>1, <1>2, <1>3

LEMMA AppendOpenCompleting ==
    ASSUME CWhole, Completing, NEW p \in Procs, AppendOpen(p)
    PROVE  Completing' /\ UNCHANGED file
<1>1. UNCHANGED file /\ stage[p] = "append"
  BY DEF AppendOpen, At
<1>2. CASE Mine(p).there
  <2>1. Goes(p, "appending") /\ UNCHANGED <<dir, lacking>> /\ fd' = [fd EXCEPT ![p] = Mine(p).inode]
    BY <1>2 DEF AppendOpen
  <2>2. stage'[p] = "appending" /\ fd'[p] = Mine(p).inode /\ \A q \in Procs \ {p} : fd'[q] = fd[q]
    BY <2>1 DEF Goes, CWhole, FilesTypeOK
  <2>3. Completes(p)
    BY DEF Completing
  <2>4. Completes(p)'
    BY <1>1, <1>2, <2>1, <2>2, <2>3 DEF Completes, Mine, ToAppend
  <2> QED BY <1>1, <2>1, <2>2, <2>4, GoesCompleting
<1>3. CASE ~Mine(p).there
  BY <1>1, <1>3, EndsCompleting DEF AppendOpen
<1> QED BY <1>1, <1>2, <1>3

\* A file with all keys gets no line, and one that gets a line lacks one key less.
LEMMA AppendLineCompleting ==
    ASSUME CWhole, Completing, NEW p \in Procs, AppendLine(p)
    PROVE  Completing' /\ StaysComplete
<1> DEFINE d == dir[p]
           lines == file[d].lines
           keys == lacking[p]
           more == Append(lines, TemplateLine(Head(keys)))
<1>1. /\ stage[p] = "appending" /\ keys # <<>> /\ PutInto(p, d, more)
      /\ lacking' = [lacking EXCEPT ![p] = Tail(keys)]
      /\ UNCHANGED <<stage, dir, fd>>
  BY DEF AppendLine, At, Mine
<1>2. FilesTypeOK /\ LackingFits(p) /\ Completes(p)
  BY DEF CWhole, Completing
<1>3. /\ d \in Dirs /\ stage[p] \in Active \ {"writing"} /\ keys \in Seq(STRING) /\ lines \in Seq(Line)
      /\ file[d].there /\ file[d].inode = fd[p] /\ Missing(lines) \subseteq {keys[i] : i \in DOMAIN keys}
  BY <1>1, <1>2 DEF FilesTypeOK, Active, Completes, Mine, ToAppend
<1>4. \A i \in DOMAIN keys : keys[i] \in KeysIn(Template) \ KeysIn(lines)
  BY <1>1, <1>2 DEF LackingFits
<1> HIDE DEF keys, lines, d
<1>5. /\ Head(keys) = keys[1] /\ 1 \in DOMAIN keys /\ DOMAIN Tail(keys) = 1..(Len(keys) - 1)
      /\ \A i \in 1..(Len(keys) - 1) : Tail(keys)[i] = keys[i + 1]
      /\ DOMAIN keys = 1..Len(keys) /\ Len(keys) \in Nat
  BY <1>1, <1>3
<1>6. TemplateLine(Head(keys)) \in Line /\ TemplateLine(Head(keys)).key = Head(keys)
  BY <1>4, <1>5, TemplateHas
<1>7. more \in Seq(Line) /\ Len(more) = Len(lines) + 1 /\ Len(lines) \in Nat
      /\ more[Len(lines) + 1] = TemplateLine(Head(keys)) /\ \A i \in 1..Len(lines) : more[i] = lines[i]
  BY <1>3, <1>6
<1>8. more \o SubSeq(lines, Len(more) + 1, Len(lines)) = more
  <2>1. SubSeq(lines, Len(more) + 1, Len(lines)) = <<>>
    BY <1>3, <1>7, SubSeqEmpty
  <2> HIDE DEF more
  <2> QED BY <1>7, <2>1
<1> HIDE DEF more
<1>9. file' = [file EXCEPT ![d].lines = more]
  BY <1>1, <1>3, <1>8 DEF PutInto, lines
<1>10. /\ file'[d].there /\ file'[d].inode = fd[p] /\ file'[d].lines = more
       /\ \A e \in Dirs \ {d} : file'[e] = file[e]
  BY <1>2, <1>3, <1>9 DEF FilesTypeOK
<1>11. Head(keys) \in Missing(lines)
  BY <1>4, <1>5 DEF Missing, MissingByText
<1>12. StaysComplete
  BY <1>10, <1>11 DEF StaysComplete, Complete, lines
<1>13. NamesIn(lines) \cup {Head(keys)} \subseteq NamesIn(more)
  <2>1. DOMAIN more = 1..Len(more) /\ DOMAIN lines = 1..Len(lines)
    BY <1>3, <1>7
  <2>2. ASSUME NEW i \in DOMAIN lines PROVE lines[i].key \in NamesIn(more)
    <3>1. i \in DOMAIN more /\ more[i] = lines[i]
      BY <1>7, <2>1
    <3> QED BY <3>1 DEF NamesIn
  <2>3. Head(keys) \in NamesIn(more)
    <3>1. Len(lines) + 1 \in DOMAIN more
      BY <1>7, <2>1
    <3> QED BY <1>6, <1>7, <3>1 DEF NamesIn
  <2> QED BY <2>2, <2>3 DEF NamesIn
<1>14. Sound(more)
  <2>1. CWhole'
    BY AppendLineStep
  <2>2. FilesWhole'
    BY <2>1 DEF CWhole
  <2>3. ASSUME NEW e \in Dirs PROVE ~BeingWritten(e)'
    <3>1. /\ \A q \in Procs : stage[q] # "writing"
          /\ \A r \in Changes : rpc[r] # "write"
      BY <1>1, <1>3, OneWriter
    <3>2. rpc' = rpc
      BY DEF AppendLine, webVars
    <3> QED BY <1>1, <3>1, <3>2 DEF BeingWritten, At
  <2>4. \A e \in Dirs : file'[e].there => Sound(file'[e].lines)
    BY <2>2, <2>3 DEF FilesWhole
  <2> QED BY <1>3, <1>10, <2>4
<1>15. Missing(more) \subseteq Missing(lines) \ {Head(keys)}
  <2>1. Missing(more) = KeysIn(Template) \ KeysIn(more)
    BY <1>14, MissingIs
  <2>2. Head(keys) # Item
    BY <1>4, <1>5 DEF KeysIn
  <2> QED BY <1>13, <2>1, <2>2 DEF Missing, MissingByText, KeysIn
<1>16. Missing(more) \subseteq {Tail(keys)[i] : i \in DOMAIN Tail(keys)}
  <2> SUFFICES ASSUME NEW k \in Missing(more) PROVE \E i \in 1..(Len(keys) - 1) : Tail(keys)[i] = k
    BY <1>5
  <2>1. PICK i \in DOMAIN keys : keys[i] = k
    BY <1>3, <1>15
  <2>2. i # 1 /\ i \in 1..Len(keys)
    BY <1>5, <1>15, <2>1
  <2>3. i - 1 \in 1..(Len(keys) - 1) /\ (i - 1) + 1 = i
    BY <1>5, <2>2
  <2> QED BY <1>5, <2>1, <2>3
<1>17. lacking'[p] = Tail(keys) /\ \A q \in Procs \ {p} : lacking'[q] = lacking[q]
  BY <1>1, <1>2 DEF FilesTypeOK
<1>18. Completes(p)'
  BY <1>1, <1>10, <1>16, <1>17 DEF Completes, Mine, ToAppend, d
<1>19. ASSUME NEW q \in Procs \ {p} PROVE Completes(q)'
  <2>1. stage[q] \notin Active
    BY <1>3, OneActs DEF Acts
  <2> QED BY <1>1, <2>1 DEF Completes, Active
<1> QED BY <1>12, <1>18, <1>19 DEF Completing

\* The template is written where there was no file.
LEMMA TemplateCompleting ==
    ASSUME CWhole, Completing, NEW p \in Procs, TemplateOpen(p) \/ TemplateWrite(p)
    PROVE  Completing' /\ StaysComplete
<1> DEFINE d == dir[p]
<1>1. stage[p] \in {"template", "writing"} /\ FilesTypeOK
  BY DEF TemplateOpen, TemplateWrite, At, CWhole
<1>2. stage[p] \in Active /\ d \in Dirs
  BY <1>1 DEF Active, FilesTypeOK
<1>3. \A q \in Procs \ {p} : stage[q] \notin Active
  BY <1>2, OneActs DEF Acts
<1>4. stage'[p] \in {"writing", "off"} /\ \A q \in Procs \ {p} : stage'[q] = stage[q]
  <2>1. CASE TemplateOpen(p)
    BY <1>1, <2>1 DEF TemplateOpen, Goes, FilesTypeOK
  <2>2. CASE TemplateWrite(p)
    BY <2>2, EndsFacts DEF TemplateWrite
  <2> QED BY <2>1, <2>2
<1>5. Completing'
  BY <1>3, <1>4 DEF Completing, Completes, Active
<1>6. ~Complete(d)
  <2>1. CASE TemplateOpen(p)
    BY <2>1 DEF TemplateOpen, At, Completing, Completes, Mine, Complete
  <2>2. CASE TemplateWrite(p)
    BY <2>2, MissingIs DEF TemplateWrite, At, CWhole, WritersHave, Has, Complete
  <2> QED BY <2>1, <2>2
<1>7. \A e \in Dirs \ {d} : file'[e] = file[e]
  BY <1>1, <1>2 DEF TemplateOpen, TemplateWrite, Opened, PutInto, FilesTypeOK
<1> QED BY <1>5, <1>6, <1>7 DEF StaysComplete

\* While a change is made nobody completes a file.
LEMMA ChangeCompleting ==
    ASSUME CWhole, Completing, NEW r \in Changes, Change(r) \/ ChangeWriteFails(r)
    PROVE  Completing' /\ StaysComplete
<1>1. rpc[r] \in {"address", "open", "write", "restart"} /\ UNCHANGED stage
  BY DEF Change, Address, ChangeOpen, ChangeWrite, ChangeRestart, ChangeWriteFails, procVars
<1>2. Completing'
  BY <1>1, NoneActs DEF Completing, Completes, Active
<1>3. StaysComplete
  <2>1. CASE ChangeOpen(r)
    BY <2>1 DEF StaysComplete
  <2>2. CASE ChangeWrite(r)
    <3>1. Has(r, place.exe) /\ FilesTypeOK
      BY <2>2 DEF ChangeWrite, CWhole, WritersHave
    <3>2. ~Complete(place.exe)
      BY <3>1, MissingIs DEF Has, Complete
    <3>3. \A e \in Dirs \ {place.exe} : file'[e] = file[e]
      BY <2>2, <3>1 DEF ChangeWrite, PutInto, FilesTypeOK
    <3> QED BY <3>2, <3>3 DEF StaysComplete
  <2>3. CASE Address(r) \/ ChangeRestart(r) \/ ChangeWriteFails(r)
    BY <2>3 DEF Address, ChangeRestart, ChangeWriteFails, StaysComplete
  <2> QED BY <2>1, <2>2, <2>3 DEF Change
<1> QED BY <1>2, <1>3

\* When one is asked for, who serves is the only process that acts.
LEMMA AskCompleting ==
    ASSUME CWhole, Completing, ~spoiled', NEW r \in Changes,
           Delete(r) \/ \E text \in UserFiles : Patch(r, text)
    PROVE  Completing' /\ StaysComplete
<1>1. UnderWay = {} /\ UNCHANGED stage /\ \E p \in Procs : stage[p] = "serving"
  BY DEF Delete, Patch, Spoil, procVars, Serving, At
<1>2. PICK p \in Procs : stage[p] = "serving"
  BY <1>1
<1>3. Acts(p)
  BY <1>1, <1>2 DEF Acts, UnderWay
<1>4. \A q \in Procs : stage[q] \notin Active
  BY <1>2, <1>3, OneActs DEF Active
<1>5. Completing'
  BY <1>1, <1>4 DEF Completing, Completes, Active
<1>6. StaysComplete
  BY DEF Delete, Patch, StaysComplete
<1> QED BY <1>5, <1>6

\* The rest of what processes do leaves the files alone.
LEMMA OtherCompleting ==
    ASSUME CWhole, Completing, NEW p \in Procs,
           Load(p) \/ RestartWithKeys(p) \/ Exit(p) \/ Refused(p) \/ Serve(p) \/ Kill(p)
    PROVE  Completing' /\ UNCHANGED file
<1>1. UNCHANGED file
  BY DEF Load, RestartWithKeys, Exit, Refused, Serve, Kill
<1>2. CASE Ends(p)
  BY <1>1, <1>2, EndsCompleting
<1>3. ASSUME NEW l \in {"compare", "exit", "serving"}, Goes(p, l), UNCHANGED <<dir, lacking, fd>>
      PROVE  Completing'
  <2>1. Completes(p)'
    BY <1>3 DEF Goes, CWhole, FilesTypeOK, Completes
  <2> QED BY <1>1, <1>3, <2>1, GoesCompleting
<1>4. \/ Ends(p)
      \/ \E l \in {"compare", "exit", "serving"} : Goes(p, l) /\ UNCHANGED <<dir, lacking, fd>>
  BY DEF Load, RestartWithKeys, Exit, Refused, Serve, Kill
<1> QED BY <1>1, <1>2, <1>3, <1>4

LEMMA NextCompleting ==
    ASSUME CWhole, Completing, ~spoiled', [ConfigNext]_configVars
    PROVE  Completing' /\ StaysComplete
<1>1. ASSUME UNCHANGED file PROVE StaysComplete
  BY <1>1 DEF StaysComplete
<1>2. ASSUME NEW p \in Procs, Step(p) \/ Refused(p) \/ Serve(p) \/ Kill(p)
      PROVE  Completing' /\ StaysComplete
  BY <1>1, <1>2, MainCompleting, TemplateCompleting, CompareCompleting, AppendOpenCompleting,
     AppendLineCompleting, OtherCompleting DEF Step
<1>3. ASSUME NEW p \in Procs, NEW d \in Dirs, Launch(p, d) \/ RunScript(p, d)
      PROVE  Completing' /\ StaysComplete
  BY <1>1, <1>3, StartsCompleting
<1>4. ASSUME NEW r \in Changes, Change(r) \/ ChangeWriteFails(r) PROVE Completing' /\ StaysComplete
  BY <1>4, ChangeCompleting
<1>5. ASSUME NEW r \in Changes, Delete(r) \/ \E text \in UserFiles : Patch(r, text)
      PROVE  Completing' /\ StaysComplete
  BY <1>5, AskCompleting
<1>6. ASSUME UNCHANGED configVars PROVE Completing' /\ StaysComplete
  BY <1>6 DEF configVars, procVars, Completing, Completes, Mine, ToAppend, StaysComplete
<1> QED BY <1>2, <1>3, <1>4, <1>5, <1>6 DEF ConfigNext

\* What ends the completion of a file is its last line.
LEMMA RestartCompletes ==
    ASSUME CWhole, Completing, [ConfigNext]_configVars, NEW p \in Procs,
           stage[p] = "appending", stage'[p] = "exit"
    PROVE  Complete(dir[p])
<1>1. lacking[p] = <<>>
  <2>1. ASSUME NEW q \in Procs, Goes(q, "exit"), lacking[q] = <<>> PROVE lacking[p] = <<>>
    BY <2>1 DEF Goes, CWhole, FilesTypeOK
  <2>2. ASSUME NEW q \in Procs, Ends(q) PROVE FALSE
    BY <2>2, EndsFacts
  <2>3. ASSUME NEW q \in Procs, NEW l, l # "exit", Goes(q, l) PROVE FALSE
    BY <2>3 DEF Goes, CWhole, FilesTypeOK
  <2>4. stage' # stage
    OBVIOUS
  <2>5. ASSUME NEW q \in Procs, Step(q) \/ Refused(q) \/ Serve(q) \/ Kill(q) PROVE lacking[p] = <<>>
    BY <2>1, <2>2, <2>3, <2>4, <2>5 DEF Step, Main, TemplateOpen, TemplateWrite, Load, Compare, AppendOpen,
       AppendLine, RestartWithKeys, Exit, Refused, Serve, Kill
  <2>6. ASSUME NEW q \in Procs, NEW d \in Dirs, Launch(q, d) \/ RunScript(q, d) PROVE FALSE
    BY <2>3, <2>4, <2>6 DEF Launch, RunScript
  <2>7. ASSUME NEW r \in Changes,
               Change(r) \/ ChangeWriteFails(r) \/ Delete(r) \/ \E text \in UserFiles : Patch(r, text)
        PROVE  FALSE
    BY <2>4, <2>7 DEF Change, Address, ChangeOpen, ChangeWrite, ChangeRestart, ChangeWriteFails, Delete, Patch,
       procVars
  <2> QED BY <2>4, <2>5, <2>6, <2>7 DEF ConfigNext, configVars, procVars
<1>2. Mine(p).there /\ Missing(Mine(p).lines) \subseteq ToAppend(p)
  BY DEF Completing, Completes
<1>3. ToAppend(p) = {}
  BY <1>1 DEF ToAppend
<1> QED BY <1>2, <1>3 DEF Complete, Mine

\* The program does not restart for ever: who restarts it for missing keys has
\* written every one, from the first to the last (config.go:255), and nothing but
\* a user's change or reset touches a file that has them all, so that a start which
\* reads it goes on.  This is the part of Settles that is about states.
THEOREM RestartsOnce == FilesSpec => [][RestartsComplete /\ StaysComplete]_configVars
<1> DEFINE KInv == ~spoiled => CWhole /\ Completing
<1>1. ConfigInit => KInv
  <2>1. ConfigInit => \A p \in Procs : stage[p] = "off"
    BY DEF ConfigInit
  <2> QED BY <2>1, FilesInit DEF Completing, Completes
<1>2. ASSUME KInv, [ConfigNext]_configVars PROVE KInv' /\ RestartsComplete /\ StaysComplete
  <2>1. ~spoiled' => ~spoiled
    <3>1. CASE ConfigNext
      BY <3>1 DEF ConfigNext, Step, Change, Main, TemplateOpen, TemplateWrite, Load, Compare, AppendOpen, AppendLine,
         RestartWithKeys, Exit, Refused, Serve, Kill, Launch, RunScript, Address, ChangeOpen, ChangeWrite, ChangeRestart,
         ChangeWriteFails, Delete, Patch, Spoil
    <3>2. CASE UNCHANGED configVars
      BY <3>2 DEF configVars
    <3> QED BY <1>2, <3>1, <3>2
  <2>2. ~spoiled' => CWhole'
    BY <1>2, <2>1, FilesStep DEF CInv
  <2>3. ~spoiled' => Completing' /\ StaysComplete
    BY <1>2, <2>1, NextCompleting
  <2>4. RestartsComplete
    BY <1>2, RestartCompletes DEF RestartsComplete
  <2>5. StaysComplete
    BY <2>3 DEF StaysComplete
  <2> QED BY <2>2, <2>3, <2>4, <2>5
<1> QED BY <1>1, <1>2, PTL DEF FilesSpec
==================================================================================

------------------------------- MODULE SessionProofs -------------------------------
(***************************************************************************)
(* The cache of the session holds what Discord has of the guilds it is     *)
(* told about, each thing once in both of the places it is looked up in;   *)
(* the messages it holds of a channel are some of those posted there; the  *)
(* permissions told from it are those of Discord's hierarchy; the requests *)
(* the session makes are counted in the right buckets; and the two forms   *)
(* the application gets a message in say the same.                         *)
(*                                                                         *)
(* None of the three properties of the cache is inductive by itself: what  *)
(* an event does to the cache depends on what an earlier one left in both  *)
(* indexes, and on what else Discord can still say about a guild.          *)
(* GuildsInv and MessagesInv add that: GuildsInv gives, guild by guild,    *)
(* how the cache stands to what was told (Sound), what was heard of a      *)
(* guild already (Heard), and that nothing made of one guild is held of    *)
(* another (OwnOnly); MessagesInv that the messages of a channel are held  *)
(* once each and that a channel that is gone has none.                     *)
(***************************************************************************)
EXTENDS StateCache, RestRoutes, Permissions, MessageText,
        FiniteSetTheorems, SequenceTheorems, WellFoundedInduction, TLAPS


\* A guild as Discord has it.
Described == [in : BOOLEAN, channels : SUBSET TextChannels, threads : SUBSET Threads,
              archived : SUBSET Threads, gone : SUBSET (TextChannels \cup Threads),
              members : SUBSET Users, roles : SUBSET Roles, voice : SUBSET Users]

\* A guild as the cache has it.
Cached == [channels : SUBSET TextChannels, threads : SUBSET Threads, members : SUBSET Users,
           roles : SUBSET Roles, voice : SUBSET Users, count : Int]

\* The channels and threads Discord ever made in a guild.
Known(w) == w.channels \cup w.threads \cup w.archived \cup w.gone

\* What a guild of Discord's has is its own.
OwnOnly(g, w) ==
    /\ \A c \in w.channels \cup w.threads \cup w.archived : GuildOf[c] = g
    /\ IsFiniteSet(w.members)

\* The cache, given as its three maps, is right about a guild, given as Discord's.
Sound(g, w, gm, mm, cm) ==
    /\ g \in DOMAIN gm
    /\ gm[g].channels = w.channels
    /\ gm[g].roles = w.roles /\ gm[g].voice = w.voice
    /\ gm[g].count = Cardinality(w.members) + 1
    /\ gm[g].members \subseteq w.members
    /\ gm[g].threads \subseteq w.threads \cup w.archived
    /\ w.threads \subseteq {t \in DOMAIN cm : cm[t] = "live"}
    /\ mm[g] = gm[g].members
    /\ gm[g].channels \cup gm[g].threads \subseteq DOMAIN cm
    /\ \A t \in gm[g].threads : (cm[t] = "live") = (t \in w.threads)

\* No channel of the cache is one Discord has yet to make.
Heard(g, w, cm) ==
    \A c \in DOMAIN cm : c \in TextChannels \cup Threads /\ GuildOf[c] = g => c \in Known(w)

\* What Discord has, and what the session was told of it.
WorldTypeOK ==
    /\ world \in [Guilds -> Described]
    /\ online \in BOOLEAN
    /\ pending \in SUBSET Guilds

\* The maps of the cache; every guild in it has its members listed by id too.
CacheTypeOK ==
    /\ DOMAIN guildMap \subseteq DOMAIN memberMap /\ DOMAIN memberMap \subseteq Guilds
    /\ guildMap \in [DOMAIN guildMap -> Cached]
    /\ memberMap \in [DOMAIN memberMap -> SUBSET Users]
    /\ channelMap \in [DOMAIN channelMap -> {"live", "archived"}]

\* The invariant of the guilds, their channels, threads and people.
GuildsInv ==
    /\ WorldTypeOK /\ CacheTypeOK
    /\ \A g \in Guilds :
          /\ OwnOnly(g, world[g])
          /\ Heard(g, world[g], channelMap)
          /\ Told(g) => Sound(g, world[g], guildMap, memberMap, channelMap)

\* A list of some elements of S, each at most once.
Kept(s, S) == IsInjective(s) /\ ToSet(s) \subseteq S

\* The invariant of the messages.
MessagesInv ==
    /\ posted \in [TextChannels -> SUBSET Messages]
    /\ messages \in [TextChannels -> Seq(Messages)]
    /\ \A c \in TextChannels :
          LET w == world[GuildOf[c]]
          IN  /\ c \notin w.channels \cup w.gone => messages[c] = << >>
              /\ Told(GuildOf[c]) /\ c \in w.channels => Kept(messages[c], posted[c])

\* Together they are inductive.
CacheInv == GuildsInv /\ MessagesInv

\* The messages left are those not in S, each once if each was there once.
LEMMA RemainingFacts ==
    ASSUME NEW M, NEW s \in Seq(M), NEW S
    PROVE  /\ Remaining(s, S) \in Seq(M)
           /\ ToSet(Remaining(s, S)) \subseteq ToSet(s) \ S
           /\ IsInjective(s) => IsInjective(Remaining(s, S))
<1> DEFINE kept == {i \in DOMAIN s : s[i] \notin S}
           Rank(i) == Cardinality({j \in kept : j <= i})
           At(n) == CHOOSE i \in kept : Rank(i) = n
           size == Cardinality(kept)
<1>1. kept \subseteq 1..Len(s) /\ Len(s) \in Nat /\ IsFiniteSet(kept) /\ size \in Nat
  <2>1. kept \subseteq 1..Len(s) /\ Len(s) \in Nat
    OBVIOUS
  <2>2. IsFiniteSet(1..Len(s))
    BY <2>1, FS_Interval
  <2>3. IsFiniteSet(kept)
    BY <2>1, <2>2, FS_Subset
  <2> QED BY <2>1, <2>3, FS_CardinalityType
<1>2. \A i \in kept : Rank(i) \in 1..size
  <2> TAKE i \in kept
  <2> DEFINE upTo == {j \in kept : j <= i}
  <2>1. upTo \subseteq kept /\ i \in upTo
    BY <1>1
  <2>2. IsFiniteSet(upTo) /\ Cardinality(upTo) <= size
    BY <1>1, <2>1, FS_Subset
  <2>3. Cardinality(upTo) \in Nat /\ Cardinality(upTo) # 0
    BY <2>1, <2>2, FS_CardinalityType, FS_EmptySet
  <2> HIDE DEF upTo, kept
  <2>4. Cardinality(upTo) \in 1..size
    BY <1>1, <2>2, <2>3
  <2> QED BY <2>4 DEF upTo
<1>3. \A i, j \in kept : Rank(i) = Rank(j) => i = j
  <2>1. ASSUME NEW i \in kept, NEW j \in kept, i < j PROVE Rank(i) # Rank(j)
    <3> DEFINE upToI == {k \in kept : k <= i}
               upToJ == {k \in kept : k <= j}
    <3>1. upToI \subseteq upToJ /\ j \in upToJ /\ j \notin upToI
      BY <1>1, <2>1
    <3>2. IsFiniteSet(upToJ)
      BY <1>1, FS_Subset
    <3> HIDE DEF upToI, upToJ
    <3>3. Cardinality(upToJ) # Cardinality(upToI)
      BY <3>1, <3>2, FS_Subset
    <3> QED BY <3>3 DEF upToI, upToJ
  <2> HIDE DEF Rank
  <2>2. \A i, j \in kept : i < j \/ j < i \/ i = j
    BY <1>1
  <2> QED BY <2>1, <2>2
<1>4. \A n \in 1..size : \E i \in kept : Rank(i) = n
  <2> DEFINE rank == [i \in kept |-> Rank(i)]
  <2> HIDE DEF Rank, size
  <2>1. rank \in Injection(kept, 1..size)
    BY <1>2, <1>3 DEF Injection, IsInjective
  <2>2. IsFiniteSet(1..size) /\ Cardinality(1..size) = size
    BY <1>1, FS_Interval, SMTT(30)
  <2>3. rank \in Surjection(kept, 1..size)
    <3> HIDE DEF rank
    <3> QED BY <2>1, <2>2, FS_Injection DEF size
  <2> QED BY <2>3 DEF Surjection
<1>5. \A n \in 1..size : At(n) \in kept /\ Rank(At(n)) = n
  BY <1>4
<1>6. Remaining(s, S) = [n \in 1..size |-> s[At(n)]]
  BY DEF Remaining
<1> HIDE DEF At, Rank, size
<1>7. \A n \in 1..size : At(n) \in DOMAIN s /\ s[At(n)] \in M /\ s[At(n)] \notin S
  <2>1. \A i \in kept : i \in DOMAIN s /\ s[i] \in M /\ s[i] \notin S
    OBVIOUS
  <2> HIDE DEF kept
  <2> QED BY <1>5, <2>1
<1>8. Remaining(s, S) \in Seq(M)
  BY <1>1, <1>6, <1>7
<1>9. ToSet(Remaining(s, S)) \subseteq ToSet(s) \ S
  BY <1>6, <1>7 DEF ToSet
<1>10. IsInjective(s) => IsInjective(Remaining(s, S))
  <2> SUFFICES ASSUME IsInjective(s), NEW m \in 1..size, NEW n \in 1..size, s[At(m)] = s[At(n)]
               PROVE  m = n
    BY <1>6 DEF IsInjective
  <2>1. At(m) = At(n)
    BY <1>7 DEF IsInjective
  <2> QED BY <1>5, <2>1
<1> QED BY <1>8, <1>9, <1>10

\* The newest messages are some of those there, in their order.
LEMMA NewestFacts ==
    ASSUME NEW M, NEW s \in Seq(M)
    PROVE  /\ Newest(s) \in Seq(M)
           /\ ToSet(Newest(s)) \subseteq ToSet(s)
           /\ IsInjective(s) => IsInjective(Newest(s))
<1>1. CASE Len(s) <= MaxMessageCount
  BY <1>1 DEF Newest
<1>2. CASE ~(Len(s) <= MaxMessageCount)
  <2> DEFINE m == Len(s) - MaxMessageCount + 1
             t == SubSeq(s, m, Len(s))
  <2>1. m \in 1..Len(s) + 1 /\ Len(s) \in Nat /\ DOMAIN s = 1..Len(s)
    BY <1>2, LimitsAssumption
  <2>2. Newest(s) = t
    BY <1>2 DEF Newest
  <2> HIDE DEF m
  <2>3. \A i \in m..Len(s) : s[i] \in M
    BY <2>1
  <2>4. /\ t \in Seq(M) /\ Len(t) = Len(s) - m + 1
        /\ \A i \in 1..Len(s) - m + 1 : t[i] = s[m + i - 1]
    BY <2>1, <2>3, SubSeqProperties
  <2> HIDE DEF t
  <2>5. DOMAIN t = 1..Len(s) - m + 1
    BY <2>4
  <2>6. \A i \in DOMAIN t : t[i] = s[m + i - 1] /\ m + i - 1 \in DOMAIN s
    BY <2>1, <2>4, <2>5
  <2>7. ToSet(t) \subseteq ToSet(s)
    BY <2>6 DEF ToSet
  <2>8. IsInjective(s) => IsInjective(t)
    <3> SUFFICES ASSUME IsInjective(s), NEW i \in DOMAIN t, NEW j \in DOMAIN t, t[i] = t[j]
                 PROVE  i = j
      BY DEF IsInjective
    <3>1. m + i - 1 = m + j - 1
      BY <2>6 DEF IsInjective
    <3> QED BY <2>1, <2>5, <3>1
  <2> QED BY <2>2, <2>4, <2>7, <2>8
<1> QED BY <1>1, <1>2

\* A message appended to those it is not one of.
LEMMA AppendFacts ==
    ASSUME NEW M, NEW s \in Seq(M), NEW m \in M
    PROVE  /\ Append(s, m) \in Seq(M)
           /\ ToSet(Append(s, m)) = ToSet(s) \cup {m}
           /\ m \notin ToSet(s) /\ IsInjective(s) => IsInjective(Append(s, m))
<1> DEFINE t == Append(s, m)
<1>1. /\ t \in Seq(M) /\ DOMAIN t = 1..Len(s) + 1 /\ DOMAIN s = 1..Len(s) /\ Len(s) \in Nat
      /\ \A i \in 1..Len(s) : t[i] = s[i]
      /\ t[Len(s) + 1] = m
  BY AppendProperties
<1> HIDE DEF t
<1>2. ToSet(t) = ToSet(s) \cup {m}
  BY <1>1 DEF ToSet
<1>3. m \notin ToSet(s) /\ IsInjective(s) => IsInjective(t)
  <2> SUFFICES ASSUME m \notin ToSet(s), IsInjective(s), NEW i \in DOMAIN t, NEW j \in DOMAIN t, t[i] = t[j]
               PROVE  i = j
    BY DEF IsInjective
  <2>1. \A k \in 1..Len(s) : t[k] # m
    BY <1>1 DEF ToSet
  <2> QED BY <1>1, <2>1 DEF IsInjective
<1> QED BY <1>1, <1>2, <1>3 DEF t

\* The cache holds of every guild but one what it held.
Elsewhere(g) ==
    /\ \A h \in Guilds \ {g} :
          /\ h \in DOMAIN guildMap => h \in DOMAIN guildMap'
          /\ h \in DOMAIN guildMap => guildMap'[h] = guildMap[h] /\ memberMap'[h] = memberMap[h]
    /\ \A c \in TextChannels \cup Threads : GuildOf[c] # g =>
          /\ c \in DOMAIN channelMap' <=> c \in DOMAIN channelMap
          /\ c \in DOMAIN channelMap => channelMap'[c] = channelMap[c]

\* After a step about the guild g, which is now w, the cache is right about g and as
\* it was for the others.
SoundHere(g, w) ==
    /\ CacheTypeOK'
    /\ Elsewhere(g)
    /\ Sound(g, w, guildMap', memberMap', channelMap')
    /\ Heard(g, w, channelMap')

\* A guild of the cache has an entry and a list of members.
LEMMA Recorded ==
    ASSUME CacheTypeOK, NEW g \in DOMAIN guildMap
    PROVE  /\ g \in Guilds /\ g \in DOMAIN memberMap /\ guildMap[g] \in Cached
           /\ memberMap[g] \in SUBSET Users
  BY DEF CacheTypeOK

\* What one guild's entry becomes.
LEMMA EntryStep ==
    ASSUME GuildsInv, NEW g \in DOMAIN guildMap, NEW r \in Cached, NEW ms \in SUBSET Users,
           guildMap' = [guildMap EXCEPT ![g] = r], memberMap' = [memberMap EXCEPT ![g] = ms],
           channelMap' \in [DOMAIN channelMap' -> {"live", "archived"}],
           \A c \in TextChannels \cup Threads : GuildOf[c] # g =>
               /\ c \in DOMAIN channelMap' <=> c \in DOMAIN channelMap
               /\ c \in DOMAIN channelMap => channelMap'[c] = channelMap[c]
    PROVE  /\ CacheTypeOK' /\ Elsewhere(g)
           /\ g \in DOMAIN guildMap' /\ guildMap'[g] = r /\ memberMap'[g] = ms
<1>1. g \in Guilds /\ g \in DOMAIN memberMap
  BY Recorded DEF GuildsInv
<1>2. DOMAIN guildMap' = DOMAIN guildMap /\ guildMap'[g] = r
      /\ \A h \in DOMAIN guildMap \ {g} : guildMap'[h] = guildMap[h]
  BY DEF GuildsInv, CacheTypeOK
<1>3. DOMAIN memberMap' = DOMAIN memberMap /\ memberMap'[g] = ms
      /\ \A h \in DOMAIN memberMap \ {g} : memberMap'[h] = memberMap[h]
  BY <1>1 DEF GuildsInv, CacheTypeOK
<1>4. CacheTypeOK'
  BY <1>1, <1>2, <1>3 DEF GuildsInv, CacheTypeOK
<1>5. Elsewhere(g)
  BY <1>2, <1>3 DEF Elsewhere, GuildsInv, CacheTypeOK
<1> QED BY <1>2, <1>3, <1>4, <1>5

\* An entry with its fields.
Entry(cs, ts, ms, rs, vs, n) ==
    [channels |-> cs, threads |-> ts, members |-> ms, roles |-> rs, voice |-> vs, count |-> n]

\* The entry a change of one field, or of members and their count, leaves.
LEMMA EntryFields ==
    ASSUME NEW r \in Cached
    PROVE  /\ \A x : [r EXCEPT !.roles = x] = Entry(r.channels, r.threads, r.members, x, r.voice, r.count)
           /\ \A x : [r EXCEPT !.voice = x] = Entry(r.channels, r.threads, r.members, r.roles, x, r.count)
           /\ \A x : [r EXCEPT !.members = x] = Entry(r.channels, r.threads, x, r.roles, r.voice, r.count)
           /\ \A x : [r EXCEPT !.channels = x] = Entry(x, r.threads, r.members, r.roles, r.voice, r.count)
           /\ \A x : [r EXCEPT !.threads = x] = Entry(r.channels, x, r.members, r.roles, r.voice, r.count)
           /\ \A x, n : [r EXCEPT !.members = x, !.count = n] =
                  Entry(r.channels, r.threads, x, r.roles, r.voice, n)
           /\ \A x, n : [r EXCEPT !.count = n, !.members = x] =
                  Entry(r.channels, r.threads, x, r.roles, r.voice, n)
           /\ \A x, y : [r EXCEPT !.channels = x, !.threads = y] =
                  Entry(x, y, r.members, r.roles, r.voice, r.count)
<1>1. \A x : [r EXCEPT !.roles = x] = Entry(r.channels, r.threads, r.members, x, r.voice, r.count)
  BY DEF Cached, Entry
<1>2. \A x : [r EXCEPT !.voice = x] = Entry(r.channels, r.threads, r.members, r.roles, x, r.count)
  BY DEF Cached, Entry
<1>3. \A x : [r EXCEPT !.members = x] = Entry(r.channels, r.threads, x, r.roles, r.voice, r.count)
  BY DEF Cached, Entry
<1>4. \A x : [r EXCEPT !.channels = x] = Entry(x, r.threads, r.members, r.roles, r.voice, r.count)
  BY DEF Cached, Entry
<1>5. \A x : [r EXCEPT !.threads = x] = Entry(r.channels, x, r.members, r.roles, r.voice, r.count)
  BY DEF Cached, Entry
<1>6. ASSUME NEW x, NEW n
      PROVE  [r EXCEPT !.members = x, !.count = n] = Entry(r.channels, r.threads, x, r.roles, r.voice, n)
  <2> DEFINE m == [r EXCEPT !.members = x]
  <2>1. [r EXCEPT !.members = x, !.count = n] = [m EXCEPT !.count = n]
    OBVIOUS
  <2>2. m = Entry(r.channels, r.threads, x, r.roles, r.voice, r.count)
    BY <1>3
  <2> HIDE DEF m
  <2> QED BY <2>1, <2>2 DEF Entry
<1>7. ASSUME NEW x, NEW n
      PROVE  [r EXCEPT !.count = n, !.members = x] = Entry(r.channels, r.threads, x, r.roles, r.voice, n)
  <2> DEFINE m == [r EXCEPT !.count = n]
  <2>1. [r EXCEPT !.count = n, !.members = x] = [m EXCEPT !.members = x]
    OBVIOUS
  <2>2. m = Entry(r.channels, r.threads, r.members, r.roles, r.voice, n)
    BY DEF Cached, Entry
  <2> HIDE DEF m
  <2> QED BY <2>1, <2>2 DEF Entry
<1>8. ASSUME NEW x, NEW y
      PROVE  [r EXCEPT !.channels = x, !.threads = y] = Entry(x, y, r.members, r.roles, r.voice, r.count)
  <2> DEFINE m == [r EXCEPT !.channels = x]
  <2>1. [r EXCEPT !.channels = x, !.threads = y] = [m EXCEPT !.threads = y]
    OBVIOUS
  <2>2. m = Entry(x, r.threads, r.members, r.roles, r.voice, r.count)
    BY <1>4
  <2> HIDE DEF m
  <2> QED BY <2>1, <2>2 DEF Entry
<1> QED BY <1>1, <1>2, <1>3, <1>4, <1>5, <1>6, <1>7, <1>8
\* The same for its channels alone.
LEMMA ChannelsField ==
    ASSUME NEW r \in Cached, NEW x
    PROVE  [r EXCEPT !.channels = x] = Entry(x, r.threads, r.members, r.roles, r.voice, r.count)
  BY DEF Cached, Entry

\* The same for its threads alone.
LEMMA ThreadsField ==
    ASSUME NEW r \in Cached, NEW x
    PROVE  [r EXCEPT !.threads = x] = Entry(r.channels, x, r.members, r.roles, r.voice, r.count)
  BY DEF Cached, Entry

\* A guild of Discord's with what it has.
Guild(in, cs, ts, as, gs, ms, rs, vs) ==
    [in |-> in, channels |-> cs, threads |-> ts, archived |-> as, gone |-> gs, members |-> ms,
     roles |-> rs, voice |-> vs]

\* What a change of one or two fields leaves of a guild of Discord's.
LEMMA GuildFields ==
    ASSUME NEW w \in Described
    PROVE  /\ \A x : [w EXCEPT !.in = x] =
                  Guild(x, w.channels, w.threads, w.archived, w.gone, w.members, w.roles, w.voice)
           /\ \A x : [w EXCEPT !.members = x] =
                  Guild(w.in, w.channels, w.threads, w.archived, w.gone, x, w.roles, w.voice)
           /\ \A x : [w EXCEPT !.roles = x] =
                  Guild(w.in, w.channels, w.threads, w.archived, w.gone, w.members, x, w.voice)
           /\ \A x : [w EXCEPT !.voice = x] =
                  Guild(w.in, w.channels, w.threads, w.archived, w.gone, w.members, w.roles, x)
           /\ \A x : [w EXCEPT !.channels = x] =
                  Guild(w.in, x, w.threads, w.archived, w.gone, w.members, w.roles, w.voice)
           /\ \A x : [w EXCEPT !.threads = x] =
                  Guild(w.in, w.channels, x, w.archived, w.gone, w.members, w.roles, w.voice)
           /\ \A x, y : [w EXCEPT !.channels = x, !.gone = y] =
                  Guild(w.in, x, w.threads, w.archived, y, w.members, w.roles, w.voice)
           /\ \A x, y : [w EXCEPT !.threads = x, !.archived = y] =
                  Guild(w.in, w.channels, x, y, w.gone, w.members, w.roles, w.voice)
           /\ \A x, y, z : [w EXCEPT !.threads = x, !.archived = y, !.gone = z] =
                  Guild(w.in, w.channels, x, y, z, w.members, w.roles, w.voice)
<1>1. \A x : [w EXCEPT !.in = x] =
         Guild(x, w.channels, w.threads, w.archived, w.gone, w.members, w.roles, w.voice)
  BY DEF Described, Guild
<1>2. \A x : [w EXCEPT !.members = x] =
         Guild(w.in, w.channels, w.threads, w.archived, w.gone, x, w.roles, w.voice)
  BY DEF Described, Guild
<1>3. \A x : [w EXCEPT !.roles = x] =
         Guild(w.in, w.channels, w.threads, w.archived, w.gone, w.members, x, w.voice)
  BY DEF Described, Guild
<1>4. \A x : [w EXCEPT !.voice = x] =
         Guild(w.in, w.channels, w.threads, w.archived, w.gone, w.members, w.roles, x)
  BY DEF Described, Guild
<1>5. \A x : [w EXCEPT !.channels = x] =
         Guild(w.in, x, w.threads, w.archived, w.gone, w.members, w.roles, w.voice)
  BY DEF Described, Guild
<1>6. \A x : [w EXCEPT !.threads = x] =
         Guild(w.in, w.channels, x, w.archived, w.gone, w.members, w.roles, w.voice)
  BY DEF Described, Guild
<1>7. ASSUME NEW x, NEW y
      PROVE  [w EXCEPT !.channels = x, !.gone = y] =
               Guild(w.in, x, w.threads, w.archived, y, w.members, w.roles, w.voice)
  <2> DEFINE v == [w EXCEPT !.channels = x]
  <2>1. [w EXCEPT !.channels = x, !.gone = y] = [v EXCEPT !.gone = y]
    OBVIOUS
  <2>2. v = Guild(w.in, x, w.threads, w.archived, w.gone, w.members, w.roles, w.voice)
    BY <1>5
  <2> HIDE DEF v
  <2> QED BY <2>1, <2>2 DEF Guild
<1>8. ASSUME NEW x, NEW y
      PROVE  [w EXCEPT !.threads = x, !.archived = y] =
               Guild(w.in, w.channels, x, y, w.gone, w.members, w.roles, w.voice)
  <2> DEFINE v == [w EXCEPT !.threads = x]
  <2>1. [w EXCEPT !.threads = x, !.archived = y] = [v EXCEPT !.archived = y]
    OBVIOUS
  <2>2. v = Guild(w.in, w.channels, x, w.archived, w.gone, w.members, w.roles, w.voice)
    BY <1>6
  <2> HIDE DEF v
  <2> QED BY <2>1, <2>2 DEF Guild
<1>9. ASSUME NEW x, NEW y, NEW z
      PROVE  [w EXCEPT !.threads = x, !.archived = y, !.gone = z] =
               Guild(w.in, w.channels, x, y, z, w.members, w.roles, w.voice)
  <2> DEFINE v == [w EXCEPT !.threads = x, !.archived = y]
  <2>1. [w EXCEPT !.threads = x, !.archived = y, !.gone = z] = [v EXCEPT !.gone = z]
    OBVIOUS
  <2>2. v = Guild(w.in, w.channels, x, y, w.gone, w.members, w.roles, w.voice)
    BY <1>8
  <2> HIDE DEF v
  <2> QED BY <2>1, <2>2 DEF Guild
<1> QED BY <1>1, <1>2, <1>3, <1>4, <1>5, <1>6, <1>7, <1>8, <1>9

\* A thread archived or unarchived.
LEMMA ThreadFields ==
    ASSUME NEW w \in Described, NEW ts, NEW as
    PROVE  [w EXCEPT !.threads = ts, !.archived = as] =
             Guild(w.in, w.channels, ts, as, w.gone, w.members, w.roles, w.voice)
  BY GuildFields, ZenonT(60)

\* A thread deleted.
LEMMA GoneFields ==
    ASSUME NEW w \in Described, NEW ts, NEW as, NEW gs
    PROVE  [w EXCEPT !.threads = ts, !.archived = as, !.gone = gs] =
             Guild(w.in, w.channels, ts, as, gs, w.members, w.roles, w.voice)
<1> DEFINE v == [w EXCEPT !.threads = ts, !.archived = as]
<1>1. [w EXCEPT !.threads = ts, !.archived = as, !.gone = gs] = [v EXCEPT !.gone = gs]
  OBVIOUS
<1>2. v = Guild(w.in, w.channels, ts, as, w.gone, w.members, w.roles, w.voice)
  BY ThreadFields
<1> HIDE DEF v
<1> QED BY <1>1, <1>2 DEF Guild

\* What is known of a guild that was described to the session.
ToldOf(g) ==
    /\ g \in DOMAIN guildMap /\ g \in Guilds /\ world[g] \in Described /\ guildMap[g] \in Cached
    /\ OwnOnly(g, world[g]) /\ Heard(g, world[g], channelMap)
    /\ Sound(g, world[g], guildMap, memberMap, channelMap)

\* The invariant gives all of it.
LEMMA ToldFacts ==
    ASSUME GuildsInv, NEW g \in Guilds, Told(g) PROVE ToldOf(g)
<1>1. Sound(g, world[g], guildMap, memberMap, channelMap)
  BY DEF GuildsInv
<1>2. g \in DOMAIN guildMap
  BY <1>1 DEF Sound
<1> QED BY <1>1, <1>2, Recorded DEF GuildsInv, WorldTypeOK, ToldOf

\* What the cache holds of a guild stays right when neither it nor the guild changes.
LEMMA SoundStays ==
    ASSUME NEW g, ToldOf(g), world'[g] = world[g],
           g \in DOMAIN guildMap', guildMap'[g] = guildMap[g], memberMap'[g] = memberMap[g],
           \A c \in TextChannels \cup Threads : GuildOf[c] = g =>
               /\ c \in DOMAIN channelMap' <=> c \in DOMAIN channelMap
               /\ c \in DOMAIN channelMap => channelMap'[c] = channelMap[c]
    PROVE  Sound(g, world'[g], guildMap', memberMap', channelMap')
<1>1. \A c \in guildMap[g].channels \cup guildMap[g].threads \cup world[g].threads :
         c \in TextChannels \cup Threads /\ GuildOf[c] = g
  BY DEF ToldOf, OwnOnly, Sound, Cached, Described
<1>2. \A c \in guildMap[g].channels \cup guildMap[g].threads \cup world[g].threads :
         /\ c \in DOMAIN channelMap' <=> c \in DOMAIN channelMap
         /\ c \in DOMAIN channelMap => channelMap'[c] = channelMap[c]
  BY <1>1
<1> QED BY <1>2 DEF ToldOf, Sound

\* An event that changes nothing of the cache leaves it right.
LEMMA StaySound ==
    ASSUME GuildsInv, NEW g \in Guilds, Told(g), UNCHANGED <<guildMap, memberMap, channelMap>>
    PROVE  SoundHere(g, world[g])
<1>1. ToldOf(g)
  BY ToldFacts
<1> QED BY <1>1 DEF ToldOf, SoundHere, GuildsInv, CacheTypeOK, Elsewhere

\* Events that change what the cache holds of a guild's people and roles only.
LEMMA PeopleStep ==
    ASSUME GuildsInv, NEW g \in Guilds, Told(g), NEW w \in Described,
           w.channels = world[g].channels, w.threads = world[g].threads,
           w.archived = world[g].archived, w.gone = world[g].gone,
           NEW ms \in SUBSET Users, ms \subseteq w.members,
           guildMap' = [guildMap EXCEPT ![g] =
               Entry(guildMap[g].channels, guildMap[g].threads, ms, w.roles, w.voice,
                     Cardinality(w.members) + 1)],
           Cardinality(w.members) \in Nat,
           memberMap' = [memberMap EXCEPT ![g] = ms], UNCHANGED channelMap
    PROVE  SoundHere(g, w)
<1> DEFINE r == Entry(guildMap[g].channels, guildMap[g].threads, ms, w.roles, w.voice,
                      Cardinality(w.members) + 1)
<1>1. ToldOf(g)
  BY ToldFacts
<1>2. r \in Cached
  BY <1>1 DEF ToldOf, Cached, Described, Entry
<1>3. /\ r.channels = guildMap[g].channels /\ r.threads = guildMap[g].threads /\ r.members = ms
      /\ r.roles = w.roles /\ r.voice = w.voice /\ r.count = Cardinality(w.members) + 1
  BY DEF Entry
<1> HIDE DEF r
<1>4. CacheTypeOK' /\ Elsewhere(g) /\ g \in DOMAIN guildMap' /\ guildMap'[g] = r /\ memberMap'[g] = ms
  BY <1>1, <1>2, EntryStep DEF r, ToldOf, GuildsInv, CacheTypeOK
<1>5. Sound(g, w, guildMap', memberMap', channelMap')
  BY <1>1, <1>3, <1>4 DEF ToldOf, Sound
<1>6. Heard(g, w, channelMap')
  BY <1>1 DEF ToldOf, Heard, Known
<1> QED BY <1>4, <1>5, <1>6 DEF SoundHere

\* How a guild of Discord's may change in one step: what was made is known for good.
Grows(g, w) ==
    /\ w \in Described /\ w.in = world[g].in /\ OwnOnly(g, w)
    /\ Known(world[g]) \subseteq Known(w)

\* A step about one guild keeps the invariant if the cache is right about the guild
\* as it becomes, or knew nothing of it.
LEMMA ChangeStep ==
    ASSUME GuildsInv, NEW g \in Guilds, NEW w, Grows(g, w),
           world' = [world EXCEPT ![g] = w], UNCHANGED <<online, pending>>,
           (Told(g) /\ SoundHere(g, w)) \/ (~Told(g) /\ UNCHANGED cacheVars)
    PROVE  GuildsInv'
<1> USE DEF Grows
<1>1. world'[g] = w /\ (\A h \in Guilds \ {g} : world'[h] = world[h]) /\ WorldTypeOK'
  BY DEF GuildsInv, WorldTypeOK
<1>2. \A h \in Guilds : Told(h)' <=> Told(h)
  BY <1>1 DEF Told
<1>3. \A h \in Guilds : OwnOnly(h, world[h])'
  BY <1>1 DEF GuildsInv, OwnOnly
<1>4. CASE ~Told(g) /\ UNCHANGED cacheVars
  <2>1. UNCHANGED <<guildMap, memberMap, channelMap>>
    BY <1>4 DEF cacheVars, guildVars, channelVars
  <2>2. CacheTypeOK'
    BY <2>1 DEF GuildsInv, CacheTypeOK
  <2>3. ASSUME NEW h \in Guilds PROVE Heard(h, world[h], channelMap)'
    <3>1. Known(world[h]) \subseteq Known(world'[h])
      BY <1>1
    <3> QED BY <2>1, <3>1 DEF GuildsInv, Heard
  <2>4. ASSUME NEW h \in Guilds, Told(h)' PROVE Sound(h, world[h], guildMap, memberMap, channelMap)'
    <3>1. world'[h] = world[h] /\ Told(h)
      BY <1>1, <1>2, <1>4, <2>4
    <3> QED BY <2>1, <3>1 DEF GuildsInv
  <2> QED BY <1>1, <1>3, <2>2, <2>3, <2>4 DEF GuildsInv
<1>5. CASE Told(g) /\ SoundHere(g, w)
  <2> USE <1>5 DEF SoundHere
  <2>1. ASSUME NEW h \in Guilds PROVE Heard(h, world[h], channelMap)'
    <3>1. CASE h = g
      BY <1>1, <3>1 DEF Heard
    <3>2. CASE h # g
      BY <1>1, <3>2 DEF GuildsInv, Heard, Elsewhere
    <3> QED BY <3>1, <3>2
  <2>2. ASSUME NEW h \in Guilds, Told(h)' PROVE Sound(h, world[h], guildMap, memberMap, channelMap)'
    <3>1. CASE h = g
      BY <1>1, <3>1
    <3>2. CASE h # g
      <4>1. world'[h] = world[h] /\ ToldOf(h)
        BY <1>1, <1>2, <2>2, <3>2, ToldFacts
      <4>2. h \in DOMAIN guildMap' /\ guildMap'[h] = guildMap[h] /\ memberMap'[h] = memberMap[h]
        BY <3>2, <4>1 DEF Elsewhere, ToldOf
      <4>3. \A c \in TextChannels \cup Threads : GuildOf[c] = h =>
               /\ c \in DOMAIN channelMap' <=> c \in DOMAIN channelMap
               /\ c \in DOMAIN channelMap => channelMap'[c] = channelMap[c]
        BY <3>2 DEF Elsewhere
      <4> QED BY <4>1, <4>2, <4>3, SoundStays
    <3> QED BY <3>1, <3>2
  <2> QED BY <1>1, <1>3, <2>1, <2>2 DEF GuildsInv
<1> QED BY <1>4, <1>5

\* Counting the members when one comes or goes.
LEMMA CountFacts ==
    ASSUME NEW S, IsFiniteSet(S), NEW u
    PROVE  /\ IsFiniteSet(S \cup {u}) /\ IsFiniteSet(S \ {u}) /\ Cardinality(S) \in Nat
           /\ Cardinality(S \cup {u}) \in Nat /\ Cardinality(S \ {u}) \in Nat
           /\ u \notin S => Cardinality(S \cup {u}) = Cardinality(S) + 1
           /\ u \in S => Cardinality(S \ {u}) = Cardinality(S) - 1
  BY FS_AddElement, FS_RemoveElement, FS_CardinalityType

\* Members who join, change or leave.
LEMMA MembersStep ==
    ASSUME GuildsInv, NEW g \in Guilds, Members(g)
    PROVE  GuildsInv' /\ UNCHANGED channelVars
<1> DEFINE w == world[g]
<1>1. w \in Described /\ OwnOnly(g, w) /\ IsFiniteSet(w.members)
  BY DEF GuildsInv, WorldTypeOK, OwnOnly
<1>2. PICK u \in Users :
            \/ u \notin w.members /\ Change(g, [w EXCEPT !.members = @ \cup {u}], GuildMemberAdd(g, u))
            \/ u \in w.members /\ Told(g) /\ Change(g, w, MemberSeen(g, u))
            \/ u \in w.members \ w.voice
               /\ Change(g, [w EXCEPT !.members = @ \ {u}], MemberRemove(g, u))
            \/ u \in w.members \ w.voice /\ Change(g, [w EXCEPT !.voice = @ \cup {u}], voiceStateUpdate(g, u, TRUE))
            \/ u \in w.voice /\ Change(g, [w EXCEPT !.voice = @ \ {u}], voiceStateUpdate(g, u, FALSE))
  BY DEF Members
<1> DEFINE Now(ms, vs) == Guild(w.in, w.channels, w.threads, w.archived, w.gone, ms, w.roles, vs)
<1>3. ASSUME NEW ms \in SUBSET Users, NEW vs \in SUBSET Users, IsFiniteSet(ms)
      PROVE  Grows(g, Now(ms, vs))
  BY <1>1, <1>3 DEF Grows, Guild, Described, OwnOnly, Known
<1>4. ASSUME NEW ms \in SUBSET Users, NEW vs \in SUBSET Users, IsFiniteSet(ms), Told(g),
             NEW seen \in SUBSET Users, seen \subseteq ms,
             guildMap' = [guildMap EXCEPT ![g] =
                 Entry(guildMap[g].channels, guildMap[g].threads, seen, w.roles, vs, Cardinality(ms) + 1)],
             memberMap' = [memberMap EXCEPT ![g] = seen], UNCHANGED channelVars
      PROVE  SoundHere(g, Now(ms, vs))
  <2> DEFINE v == Now(ms, vs)
  <2>1. /\ v \in Described /\ v.channels = w.channels /\ v.threads = w.threads /\ v.archived = w.archived
        /\ v.gone = w.gone /\ v.members = ms /\ v.roles = w.roles /\ v.voice = vs
    BY <1>1, <1>3, <1>4 DEF Grows, Guild
  <2>2. Cardinality(ms) \in Nat
    BY <1>4, FS_CardinalityType
  <2> HIDE DEF v
  <2>3. SoundHere(g, v)
    BY <1>4, <2>1, <2>2, PeopleStep DEF channelVars
  <2> QED BY <2>3 DEF v
<1>5. Told(g) => /\ ToldOf(g) /\ guildMap[g] \in Cached /\ guildMap[g].roles = w.roles
                 /\ guildMap[g].voice = w.voice /\ guildMap[g].count = Cardinality(w.members) + 1
                 /\ memberMap[g] = guildMap[g].members /\ guildMap[g].members \subseteq w.members
                 /\ g \in DOMAIN guildMap /\ g \in DOMAIN memberMap
                 /\ memberMap \in [DOMAIN memberMap -> SUBSET Users]
                 /\ guildMap[g].members \in SUBSET Users
  BY ToldFacts, Recorded DEF ToldOf, Sound, GuildsInv, CacheTypeOK, Cached
<1>6. w.members \in SUBSET Users /\ w.voice \in SUBSET Users /\ w = Now(w.members, w.voice)
  BY <1>1 DEF Described, Guild
<1>7. ASSUME NEW v, NEW ms \in SUBSET Users, NEW vs \in SUBSET Users, IsFiniteSet(ms), v = Now(ms, vs),
             world' = [world EXCEPT ![g] = v], UNCHANGED <<online, pending>>,
             (Told(g) /\ SoundHere(g, v)) \/ (~Told(g) /\ UNCHANGED cacheVars)
      PROVE  GuildsInv'
  BY <1>3, <1>7, ChangeStep
<1> HIDE DEF w, Now
<1>8. CASE u \notin w.members /\ Change(g, [w EXCEPT !.members = @ \cup {u}], GuildMemberAdd(g, u))
  <2> DEFINE ms == w.members \cup {u}
             seen == guildMap[g].members \cup {u}
  <2>1. [w EXCEPT !.members = ms] = Now(ms, w.voice)
    BY <1>1, GuildFields DEF Now
  <2>2. IsFiniteSet(ms) /\ ms \in SUBSET Users /\ Cardinality(ms) = Cardinality(w.members) + 1
        /\ Cardinality(w.members) \in Nat
    BY <1>1, <1>6, <1>8, CountFacts
  <2>3. ASSUME Told(g), GuildMemberAdd(g, u) PROVE SoundHere(g, Now(ms, w.voice))
    <3>1. guildMap' = [guildMap EXCEPT ![g] =
                         [guildMap[g] EXCEPT !.members = seen, !.count = guildMap[g].count + 1]]
      BY <2>3 DEF GuildMemberAdd
    <3>2. guildMap' = [guildMap EXCEPT ![g] =
                         Entry(guildMap[g].channels, guildMap[g].threads, seen, w.roles, w.voice,
                               Cardinality(ms) + 1)]
      <4>1. [guildMap[g] EXCEPT !.members = seen, !.count = guildMap[g].count + 1] =
              Entry(guildMap[g].channels, guildMap[g].threads, seen, guildMap[g].roles, guildMap[g].voice,
                    guildMap[g].count + 1)
        <5> DEFINE n == guildMap[g].count + 1
        <5> HIDE DEF seen, n
        <5> DEFINE m == [guildMap[g] EXCEPT !.members = seen]
        <5>1. m = Entry(guildMap[g].channels, guildMap[g].threads, seen, guildMap[g].roles, guildMap[g].voice,
                        guildMap[g].count)
          BY <1>5, <2>3, EntryFields
        <5>2. [guildMap[g] EXCEPT !.members = seen, !.count = n] = [m EXCEPT !.count = n]
          OBVIOUS
        <5> HIDE DEF m
        <5>3. [guildMap[g] EXCEPT !.members = seen, !.count = n] =
                Entry(guildMap[g].channels, guildMap[g].threads, seen, guildMap[g].roles, guildMap[g].voice, n)
          BY <5>1, <5>2 DEF Entry
        <5> QED BY <5>3 DEF n
      <4>2. guildMap[g].count + 1 = Cardinality(ms) + 1
        BY <1>5, <2>2, <2>3
      <4> HIDE DEF seen, ms
      <4> QED BY <1>5, <2>3, <3>1, <4>1, <4>2
    <3>3. memberMap' = [memberMap EXCEPT ![g] = seen] /\ UNCHANGED channelVars
      BY <1>5, <2>3 DEF GuildMemberAdd
    <3>4. seen \in SUBSET Users /\ seen \subseteq ms
      BY <1>5, <2>3
    <3> HIDE DEF seen, ms
    <3> QED BY <1>4, <1>6, <2>2, <2>3, <3>2, <3>3, <3>4
  <2>4. world' = [world EXCEPT ![g] = Now(ms, w.voice)] /\ UNCHANGED <<online, pending>>
        /\ ((Told(g) /\ GuildMemberAdd(g, u)) \/ (~Told(g) /\ UNCHANGED cacheVars))
    BY <1>8, <2>1 DEF Change
  <2>5. UNCHANGED channelVars
    BY <2>4 DEF GuildMemberAdd, cacheVars
  <2> HIDE DEF ms
  <2> QED BY <1>6, <1>7, <2>2, <2>3, <2>4, <2>5
<1>9. CASE u \in w.members /\ Told(g) /\ Change(g, w, MemberSeen(g, u))
  <2> DEFINE seen == guildMap[g].members \cup {u}
  <2>1. SoundHere(g, w)
    <3>1. MemberSeen(g, u) /\ Told(g)
      BY <1>9 DEF Change
    <3>2. memberMap' = [memberMap EXCEPT ![g] = seen] /\ UNCHANGED channelVars
          /\ guildMap' = [guildMap EXCEPT ![g] = [guildMap[g] EXCEPT !.members = seen]]
      BY <1>5, <3>1 DEF MemberSeen, memberAdd
    <3>3. guildMap' = [guildMap EXCEPT ![g] =
                         Entry(guildMap[g].channels, guildMap[g].threads, seen, w.roles, w.voice,
                               Cardinality(w.members) + 1)]
      <4>1. [guildMap[g] EXCEPT !.members = seen] =
              Entry(guildMap[g].channels, guildMap[g].threads, seen, guildMap[g].roles, guildMap[g].voice,
                    guildMap[g].count)
        BY <1>5, <3>1, EntryFields
      <4> HIDE DEF seen
      <4> QED BY <1>5, <3>1, <3>2, <4>1
    <3>4. seen \in SUBSET Users /\ seen \subseteq w.members
      BY <1>5, <1>9
    <3> HIDE DEF seen
    <3> QED BY <1>1, <1>4, <1>6, <3>1, <3>2, <3>3, <3>4
  <2>2. world' = [world EXCEPT ![g] = w] /\ UNCHANGED <<online, pending>> /\ UNCHANGED channelVars
    BY <1>9 DEF Change, MemberSeen
  <2> QED BY <1>1, <1>6, <1>7, <1>9, <2>1, <2>2
<1>10. CASE u \in w.members \ w.voice /\ Change(g, [w EXCEPT !.members = @ \ {u}], MemberRemove(g, u))
  <2> DEFINE ms == w.members \ {u}
             seen == guildMap[g].members \ {u}
  <2>1. [w EXCEPT !.members = ms] = Now(ms, w.voice)
    BY <1>1, GuildFields DEF Now
  <2>2. IsFiniteSet(ms) /\ ms \in SUBSET Users /\ Cardinality(ms) = Cardinality(w.members) - 1
        /\ Cardinality(w.members) \in Nat
    BY <1>1, <1>6, <1>10, CountFacts
  <2>3. ASSUME Told(g), MemberRemove(g, u) PROVE SoundHere(g, Now(ms, w.voice))
    <3>1. guildMap' = [guildMap EXCEPT ![g] =
                         [guildMap[g] EXCEPT !.count = guildMap[g].count - 1, !.members = seen]]
      BY <2>3 DEF MemberRemove
    <3>2. guildMap[g].count - 1 = Cardinality(ms) + 1
      BY <1>5, <2>2, <2>3
    <3>3. guildMap' = [guildMap EXCEPT ![g] =
                         Entry(guildMap[g].channels, guildMap[g].threads, seen, w.roles, w.voice,
                               Cardinality(ms) + 1)]
      <4>1. [guildMap[g] EXCEPT !.count = guildMap[g].count - 1, !.members = seen] =
              Entry(guildMap[g].channels, guildMap[g].threads, seen, guildMap[g].roles, guildMap[g].voice,
                    guildMap[g].count - 1)
        <5> DEFINE n == guildMap[g].count - 1
        <5> HIDE DEF seen, n
        <5> DEFINE m == [guildMap[g] EXCEPT !.members = seen]
        <5>1. m = Entry(guildMap[g].channels, guildMap[g].threads, seen, guildMap[g].roles, guildMap[g].voice,
                        guildMap[g].count)
          BY <1>5, <2>3, EntryFields
        <5>2. [guildMap[g] EXCEPT !.count = n, !.members = seen] = [m EXCEPT !.count = n]
          OBVIOUS
        <5> HIDE DEF m
        <5>3. [guildMap[g] EXCEPT !.count = n, !.members = seen] =
                Entry(guildMap[g].channels, guildMap[g].threads, seen, guildMap[g].roles, guildMap[g].voice, n)
          BY <5>1, <5>2 DEF Entry
        <5> QED BY <5>3 DEF n
      <4> HIDE DEF seen, ms
      <4> QED BY <1>5, <2>3, <3>1, <3>2, <4>1
    <3>4. memberMap' = [memberMap EXCEPT ![g] = seen] /\ UNCHANGED channelVars
      BY <1>5, <2>3 DEF MemberRemove
    <3>5. seen \in SUBSET Users /\ seen \subseteq ms
      BY <1>5, <2>3
    <3> HIDE DEF seen, ms
    <3> QED BY <1>4, <1>6, <2>2, <2>3, <3>3, <3>4, <3>5
  <2>4. world' = [world EXCEPT ![g] = Now(ms, w.voice)] /\ UNCHANGED <<online, pending>>
        /\ ((Told(g) /\ MemberRemove(g, u)) \/ (~Told(g) /\ UNCHANGED cacheVars))
    BY <1>10, <2>1 DEF Change
  <2>5. UNCHANGED channelVars
    BY <2>4 DEF MemberRemove, cacheVars
  <2> HIDE DEF ms
  <2> QED BY <1>6, <1>7, <2>2, <2>3, <2>4, <2>5
<1>11. ASSUME NEW vs \in SUBSET Users, NEW here \in BOOLEAN,
              vs = IF here THEN w.voice \cup {u} ELSE w.voice \ {u},
              Change(g, [w EXCEPT !.voice = vs], voiceStateUpdate(g, u, here))
       PROVE  GuildsInv' /\ UNCHANGED channelVars
  <2>1. [w EXCEPT !.voice = vs] = Now(w.members, vs)
    BY <1>1, GuildFields DEF Now
  <2>2. ASSUME Told(g), voiceStateUpdate(g, u, here) PROVE SoundHere(g, Now(w.members, vs))
    <3>1. guildMap' = [guildMap EXCEPT ![g] = [guildMap[g] EXCEPT !.voice = vs]]
      BY <1>5, <1>11, <2>2 DEF voiceStateUpdate
    <3>2. guildMap' = [guildMap EXCEPT ![g] =
                         Entry(guildMap[g].channels, guildMap[g].threads, guildMap[g].members, w.roles, vs,
                               Cardinality(w.members) + 1)]
      <4>1. [guildMap[g] EXCEPT !.voice = vs] =
              Entry(guildMap[g].channels, guildMap[g].threads, guildMap[g].members, guildMap[g].roles, vs,
                    guildMap[g].count)
        BY <1>5, <2>2, EntryFields
      <4> QED BY <1>5, <2>2, <3>1, <4>1
    <3>3. memberMap' = [memberMap EXCEPT ![g] = guildMap[g].members] /\ UNCHANGED channelVars
      BY <1>5, <2>2 DEF voiceStateUpdate
    <3> QED BY <1>1, <1>4, <1>5, <1>6, <2>2, <3>2, <3>3
  <2>3. world' = [world EXCEPT ![g] = Now(w.members, vs)] /\ UNCHANGED <<online, pending>>
        /\ ((Told(g) /\ voiceStateUpdate(g, u, here)) \/ (~Told(g) /\ UNCHANGED cacheVars))
    BY <1>11, <2>1 DEF Change
  <2>4. UNCHANGED channelVars
    BY <2>3 DEF voiceStateUpdate, cacheVars
  <2> QED BY <1>1, <1>6, <1>7, <2>2, <2>3, <2>4
<1>12. CASE u \in w.members \ w.voice /\ Change(g, [w EXCEPT !.voice = @ \cup {u}], voiceStateUpdate(g, u, TRUE))
  BY <1>6, <1>11, <1>12
<1>13. CASE u \in w.voice /\ Change(g, [w EXCEPT !.voice = @ \ {u}], voiceStateUpdate(g, u, FALSE))
  BY <1>6, <1>11, <1>13
<1> QED BY <1>2, <1>8, <1>9, <1>10, <1>12, <1>13

\* Roles and voice states.
LEMMA RolesStep ==
    ASSUME GuildsInv, NEW g \in Guilds, RolesOf(g)
    PROVE  GuildsInv' /\ UNCHANGED channelVars
<1> DEFINE w == world[g]
<1>1. w \in Described /\ OwnOnly(g, w) /\ IsFiniteSet(w.members) /\ Cardinality(w.members) \in Nat
  BY FS_CardinalityType DEF GuildsInv, WorldTypeOK, OwnOnly
<1>2. ASSUME NEW rs \in SUBSET Roles, NEW v, v = [w EXCEPT !.roles = rs],
             world' = [world EXCEPT ![g] = v], UNCHANGED <<online, pending>>,
             \/ Told(g) /\ guildMap' = [guildMap EXCEPT ![g].roles = rs]
                        /\ UNCHANGED <<guilds, memberMap, channelVars>>
             \/ ~Told(g) /\ UNCHANGED cacheVars
      PROVE  GuildsInv' /\ UNCHANGED channelVars
  <2>1. v = Guild(w.in, w.channels, w.threads, w.archived, w.gone, w.members, rs, w.voice)
    BY <1>1, <1>2, GuildFields
  <2>2. /\ v \in Described /\ v.channels = w.channels /\ v.threads = w.threads /\ v.archived = w.archived
        /\ v.gone = w.gone /\ v.members = w.members /\ v.roles = rs /\ v.voice = w.voice /\ v.in = w.in
    BY <1>1, <2>1 DEF Guild, Described
  <2> HIDE DEF w
  <2>3. Grows(g, v)
    BY <1>1, <2>2 DEF Grows, OwnOnly, Known, w
  <2>4. ASSUME Told(g) PROVE SoundHere(g, v)
    <3>1. /\ ToldOf(g) /\ guildMap[g] \in Cached /\ g \in DOMAIN guildMap
          /\ guildMap[g].voice = w.voice /\ guildMap[g].count = Cardinality(w.members) + 1
          /\ guildMap[g].members \in SUBSET Users /\ guildMap[g].members \subseteq w.members
          /\ memberMap[g] = guildMap[g].members
      BY <2>4, ToldFacts, Recorded DEF ToldOf, Sound, GuildsInv, w, Cached
    <3>2. [guildMap[g] EXCEPT !.roles = rs] =
            Entry(guildMap[g].channels, guildMap[g].threads, guildMap[g].members, rs, guildMap[g].voice,
                  guildMap[g].count)
      BY <3>1, EntryFields
    <3>3. guildMap' = [guildMap EXCEPT ![g] = [guildMap[g] EXCEPT !.roles = rs]]
      BY <1>2, <2>4
    <3>4. guildMap' = [guildMap EXCEPT ![g] =
            Entry(guildMap[g].channels, guildMap[g].threads, guildMap[g].members, v.roles, v.voice,
                  Cardinality(v.members) + 1)]
      BY <2>2, <3>1, <3>2, <3>3
    <3>5. memberMap' = [memberMap EXCEPT ![g] = guildMap[g].members] /\ UNCHANGED channelVars
      BY <1>2, <2>4, <3>1 DEF GuildsInv, CacheTypeOK
    <3> QED BY <1>1, <2>2, <2>4, <3>1, <3>4, <3>5, PeopleStep DEF w, channelVars
  <2>5. UNCHANGED channelVars
    BY <1>2 DEF cacheVars
  <2> QED BY <1>2, <2>3, <2>4, <2>5, ChangeStep
<1>3. w.roles \in SUBSET Roles /\ w = [w EXCEPT !.roles = w.roles]
  BY <1>1 DEF Described
<1>4. PICK r \in Roles :
            \/ Change(g, [w EXCEPT !.roles = @ \cup {r}], RoleAdd(g, r))
            \/ Change(g, [w EXCEPT !.roles = @ \ {r}], RoleRemove(g, r))
            \/ Told(g) /\ Change(g, w, GuildUpdate(g))
  BY DEF RolesOf
<1>5. Told(g) => guildMap[g].roles = w.roles /\ g \in DOMAIN guildMap
  BY ToldFacts DEF ToldOf, Sound
<1> HIDE DEF w
<1>6. CASE Change(g, [w EXCEPT !.roles = @ \cup {r}], RoleAdd(g, r))
  <2> DEFINE rs == w.roles \cup {r}
  <2>1. rs \in SUBSET Roles
    BY <1>3
  <2>2. RoleAdd(g, r) /\ Told(g) => guildMap' = [guildMap EXCEPT ![g].roles = rs]
                                    /\ UNCHANGED <<guilds, memberMap, channelVars>>
    BY <1>5 DEF RoleAdd
  <2>3. world' = [world EXCEPT ![g] = [w EXCEPT !.roles = rs]] /\ UNCHANGED <<online, pending>>
        /\ ((Told(g) /\ RoleAdd(g, r)) \/ (~Told(g) /\ UNCHANGED cacheVars))
    BY <1>6 DEF Change
  <2> HIDE DEF rs
  <2> QED BY <1>2, <2>1, <2>2, <2>3
<1>7. CASE Change(g, [w EXCEPT !.roles = @ \ {r}], RoleRemove(g, r))
  <2> DEFINE rs == w.roles \ {r}
  <2>1. rs \in SUBSET Roles
    BY <1>3
  <2>2. RoleRemove(g, r) /\ Told(g) => guildMap' = [guildMap EXCEPT ![g].roles = rs]
                                       /\ UNCHANGED <<guilds, memberMap, channelVars>>
    BY <1>5 DEF RoleRemove
  <2>3. world' = [world EXCEPT ![g] = [w EXCEPT !.roles = rs]] /\ UNCHANGED <<online, pending>>
        /\ ((Told(g) /\ RoleRemove(g, r)) \/ (~Told(g) /\ UNCHANGED cacheVars))
    BY <1>7 DEF Change
  <2> HIDE DEF rs
  <2> QED BY <1>2, <2>1, <2>2, <2>3
<1>8. CASE Told(g) /\ Change(g, w, GuildUpdate(g))
  <2>1. guildMap' = [guildMap EXCEPT ![g].roles = w.roles] /\ UNCHANGED <<guilds, memberMap, channelVars>>
        /\ world' = [world EXCEPT ![g] = w] /\ UNCHANGED <<online, pending>>
    BY <1>8 DEF Change, GuildUpdate, w
  <2> QED BY <1>2, <1>3, <1>8, <2>1
<1> QED BY <1>4, <1>6, <1>7, <1>8

\* Events that change the channels the cache holds of a guild.
LEMMA ChannelsSound ==
    ASSUME GuildsInv, NEW g \in Guilds, Told(g), NEW w \in Described,
           w.members = world[g].members, w.roles = world[g].roles, w.voice = world[g].voice,
           NEW ts \in SUBSET Threads, UNCHANGED memberMap,
           guildMap' = [guildMap EXCEPT ![g] =
               Entry(w.channels, ts, guildMap[g].members, guildMap[g].roles, guildMap[g].voice,
                     guildMap[g].count)],
           channelMap' \in [DOMAIN channelMap' -> {"live", "archived"}],
           \A c \in TextChannels \cup Threads : GuildOf[c] # g =>
               /\ c \in DOMAIN channelMap' <=> c \in DOMAIN channelMap
               /\ c \in DOMAIN channelMap => channelMap'[c] = channelMap[c],
           ts \subseteq w.threads \cup w.archived,
           w.channels \cup ts \subseteq DOMAIN channelMap',
           \A t \in w.threads : t \in DOMAIN channelMap' /\ channelMap'[t] = "live",
           \A t \in ts : channelMap'[t] = "live" => t \in w.threads,
           Heard(g, w, channelMap')
    PROVE  SoundHere(g, w)
<1> DEFINE r == Entry(w.channels, ts, guildMap[g].members, guildMap[g].roles, guildMap[g].voice,
                      guildMap[g].count)
<1>1. ToldOf(g)
  BY ToldFacts
<1>2. r \in Cached
  BY <1>1 DEF ToldOf, Cached, Described, Entry
<1>3. /\ r.channels = w.channels /\ r.threads = ts /\ r.members = guildMap[g].members
      /\ r.roles = guildMap[g].roles /\ r.voice = guildMap[g].voice /\ r.count = guildMap[g].count
  BY DEF Entry
<1> HIDE DEF r
<1>4. memberMap[g] \in SUBSET Users /\ memberMap' = [memberMap EXCEPT ![g] = memberMap[g]]
  BY <1>1, Recorded DEF ToldOf, GuildsInv, CacheTypeOK
<1>5. CacheTypeOK' /\ Elsewhere(g) /\ g \in DOMAIN guildMap' /\ guildMap'[g] = r
      /\ memberMap'[g] = memberMap[g]
  BY <1>1, <1>2, <1>4, EntryStep DEF r, ToldOf
<1>6. Sound(g, w, guildMap', memberMap', channelMap')
  BY <1>1, <1>3, <1>5 DEF ToldOf, Sound
<1> QED BY <1>5, <1>6 DEF SoundHere

\* A guild that changed only in its channels and threads.
SamePeople(w, v) == w.in = v.in /\ w.members = v.members /\ w.roles = v.roles /\ w.voice = v.voice

\* An entry is the record of its fields.
LEMMA OwnEntry ==
    ASSUME NEW r \in Cached
    PROVE  r = Entry(r.channels, r.threads, r.members, r.roles, r.voice, r.count)
  BY DEF Cached, Entry

\* A channel that is made or changed is in the list and in the map.
LEMMA AddChannelSound ==
    ASSUME GuildsInv, NEW g \in Guilds, Told(g), NEW c \in TextChannels, GuildOf[c] = g,
           ChannelAdd(c, "live"), NEW w \in Described, SamePeople(w, world[g]),
           c \in world[g].channels \/ c \notin world[g].gone,
           w.channels = world[g].channels \cup {c}, w.threads = world[g].threads,
           w.archived = world[g].archived, w.gone = world[g].gone
    PROVE  SoundHere(g, w)
<1>1. ToldOf(g) /\ c \notin Threads /\ c \notin DMs
  BY ToldFacts, ChannelsAssumption
<1>2. c \in DOMAIN channelMap <=> c \in world[g].channels
  BY <1>1 DEF ToldOf, Sound, Heard, Known, Described
<1>3. guildMap[g].channels = world[g].channels /\ guildMap[g] \in Cached /\ g \in DOMAIN guildMap
  BY <1>1 DEF ToldOf, Sound
<1> DEFINE ts == guildMap[g].threads
<1>4. guildMap' = [guildMap EXCEPT ![g] =
         Entry(w.channels, ts, guildMap[g].members, guildMap[g].roles, guildMap[g].voice, guildMap[g].count)]
  <2>1. CASE c \in DOMAIN channelMap
    <3>1. guildMap' = guildMap
      BY <2>1 DEF ChannelAdd
    <3>2. w.channels = guildMap[g].channels
      BY <1>2, <1>3, <2>1
    <3> QED BY <1>3, <3>1, <3>2, OwnEntry DEF GuildsInv, CacheTypeOK
  <2>2. CASE c \notin DOMAIN channelMap
    <3>1. guildMap' = [guildMap EXCEPT ![g].channels = @ \cup {c}]
      BY <1>1, <2>2 DEF ChannelAdd
    <3>2. guildMap' = [guildMap EXCEPT ![g] = [guildMap[g] EXCEPT !.channels = w.channels]]
      BY <1>3, <3>1
    <3>3. [guildMap[g] EXCEPT !.channels = w.channels] =
            Entry(w.channels, ts, guildMap[g].members, guildMap[g].roles, guildMap[g].voice, guildMap[g].count)
      BY <1>3, ChannelsField
    <3> QED BY <3>2, <3>3
  <2> QED BY <2>1, <2>2
<1>5. memberMap' = memberMap /\ channelMap' = Put(channelMap, {c}, "live")
  BY DEF ChannelAdd
<1>6. /\ DOMAIN channelMap' = DOMAIN channelMap \cup {c} /\ channelMap'[c] = "live"
      /\ \A d \in DOMAIN channelMap \ {c} : channelMap'[d] = channelMap[d]
      /\ channelMap' \in [DOMAIN channelMap' -> {"live", "archived"}]
  BY <1>5 DEF Put, GuildsInv, CacheTypeOK
<1>7. /\ w.threads \subseteq Threads /\ ts \in SUBSET Threads
      /\ w.channels \cup ts \subseteq DOMAIN channelMap'
  BY <1>1, <1>3, <1>6 DEF ToldOf, Sound, Described, Cached
<1>8. \A t \in w.threads : t \in DOMAIN channelMap' /\ channelMap'[t] = "live"
  BY <1>1, <1>6, <1>7 DEF ToldOf, Sound
<1>9. ts \subseteq w.threads \cup w.archived /\ \A t \in ts : channelMap'[t] = "live" => t \in w.threads
  BY <1>1, <1>6, <1>7 DEF ToldOf, Sound
<1>10. Heard(g, w, channelMap')
  BY <1>1, <1>6 DEF ToldOf, Heard, Known
<1>11. \A d \in TextChannels \cup Threads : GuildOf[d] # g =>
         /\ d \in DOMAIN channelMap' <=> d \in DOMAIN channelMap
         /\ d \in DOMAIN channelMap => channelMap'[d] = channelMap[d]
  BY <1>6
<1> HIDE DEF ts
<1> QED BY <1>4, <1>5, <1>6, <1>7, <1>8, <1>9, <1>10, <1>11, ChannelsSound DEF SamePeople

\* A thread that is made, archived or unarchived is found by its id.
LEMMA AddThreadSound ==
    ASSUME GuildsInv, NEW g \in Guilds, Told(g), NEW t \in Threads, GuildOf[t] = g,
           NEW state \in {"live", "archived"},
           ChannelAdd(t, state), NEW w \in Described, SamePeople(w, world[g]),
           w.channels = world[g].channels, w.gone = world[g].gone,
           t \in world[g].threads \cup world[g].archived \/ (t \notin world[g].gone /\ state = "live"),
           state = "live" => w.threads = world[g].threads \cup {t} /\ w.archived = world[g].archived \ {t},
           state = "archived" => /\ t \in world[g].threads
                                 /\ w.threads = world[g].threads \ {t}
                                 /\ w.archived = world[g].archived \cup {t}
    PROVE  SoundHere(g, w)
<1>1. ToldOf(g) /\ t \notin TextChannels /\ t \notin DMs
  BY ToldFacts, ChannelsAssumption
<1>2. t \in DOMAIN channelMap => t \in world[g].threads \cup world[g].archived
  BY <1>1 DEF ToldOf, Heard, Known, Described
<1>3. /\ guildMap[g].channels = world[g].channels /\ guildMap[g] \in Cached /\ g \in DOMAIN guildMap
      /\ world[g].threads \subseteq DOMAIN channelMap
  BY <1>1 DEF ToldOf, Sound
<1> DEFINE ts == IF t \in DOMAIN channelMap THEN guildMap[g].threads ELSE guildMap[g].threads \cup {t}
<1>4. guildMap' = [guildMap EXCEPT ![g] =
         Entry(w.channels, ts, guildMap[g].members, guildMap[g].roles, guildMap[g].voice, guildMap[g].count)]
  <2>1. CASE t \in DOMAIN channelMap
    <3>1. guildMap' = guildMap
      BY <2>1 DEF ChannelAdd
    <3> QED BY <1>3, <2>1, <3>1, OwnEntry DEF GuildsInv, CacheTypeOK
  <2>2. CASE t \notin DOMAIN channelMap
    <3>1. guildMap' = [guildMap EXCEPT ![g].threads = @ \cup {t}]
      BY <1>1, <2>2 DEF ChannelAdd
    <3>2. guildMap' = [guildMap EXCEPT ![g] = [guildMap[g] EXCEPT !.threads = ts]]
      BY <1>3, <2>2, <3>1
    <3> HIDE DEF ts
    <3>3. [guildMap[g] EXCEPT !.threads = ts] =
            Entry(w.channels, ts, guildMap[g].members, guildMap[g].roles, guildMap[g].voice, guildMap[g].count)
      <4>1. [guildMap[g] EXCEPT !.threads = ts] =
              Entry(guildMap[g].channels, ts, guildMap[g].members, guildMap[g].roles, guildMap[g].voice,
                    guildMap[g].count)
        BY <1>3, ThreadsField
      <4> QED BY <1>3, <4>1
    <3> QED BY <3>2, <3>3
  <2> QED BY <2>1, <2>2
<1>5. memberMap' = memberMap /\ channelMap' = Put(channelMap, {t}, state)
  BY DEF ChannelAdd
<1>6. /\ DOMAIN channelMap' = DOMAIN channelMap \cup {t} /\ channelMap'[t] = state
      /\ \A d \in DOMAIN channelMap \ {t} : channelMap'[d] = channelMap[d]
      /\ channelMap' \in [DOMAIN channelMap' -> {"live", "archived"}]
  BY <1>5 DEF Put, GuildsInv, CacheTypeOK
<1>7. /\ w.threads \subseteq Threads /\ ts \in SUBSET Threads
      /\ w.channels \cup ts \subseteq DOMAIN channelMap'
  BY <1>1, <1>3, <1>6 DEF ToldOf, Sound, Described, Cached
<1>8. \A d \in w.threads : d \in DOMAIN channelMap' /\ channelMap'[d] = "live"
  BY <1>1, <1>6, <1>7 DEF ToldOf, Sound
<1>9. ts \subseteq w.threads \cup w.archived /\ \A d \in ts : channelMap'[d] = "live" => d \in w.threads
  <2>1. \A d \in ts \ {t} : /\ d \in guildMap[g].threads /\ d \in world[g].threads \cup world[g].archived
                            /\ channelMap'[d] = channelMap[d]
                            /\ (channelMap[d] = "live") = (d \in world[g].threads)
    BY <1>1, <1>6 DEF ToldOf, Sound
  <2>2. t \in w.threads \cup w.archived /\ (channelMap'[t] = "live" => t \in w.threads)
    BY <1>6
  <2>3. \A d \in ts \ {t} : d \in w.threads \cup w.archived /\ (channelMap'[d] = "live" => d \in w.threads)
    BY <2>1
  <2> HIDE DEF ts
  <2> QED BY <2>2, <2>3
<1>10. Heard(g, w, channelMap')
  <2>1. Known(world[g]) \cup {t} \subseteq Known(w)
    BY <1>6 DEF Known
  <2> QED BY <1>1, <1>6, <2>1 DEF ToldOf, Heard
<1>11. \A c \in TextChannels \cup Threads : GuildOf[c] # g =>
         /\ c \in DOMAIN channelMap' <=> c \in DOMAIN channelMap
         /\ c \in DOMAIN channelMap => channelMap'[c] = channelMap[c]
  BY <1>6
<1> HIDE DEF ts
<1> QED BY <1>4, <1>5, <1>6, <1>7, <1>8, <1>9, <1>10, <1>11, ChannelsSound DEF SamePeople

\* A channel or thread that is deleted is in neither.
LEMMA RemoveSound ==
    ASSUME GuildsInv, NEW g \in Guilds, Told(g), NEW c \in TextChannels \cup Threads, GuildOf[c] = g,
           ChannelRemove(c), c \in DOMAIN channelMap,
           NEW w \in Described, SamePeople(w, world[g]),
           w.channels = world[g].channels \ {c}, w.threads = world[g].threads \ {c},
           w.archived = world[g].archived \ {c}, w.gone = world[g].gone \cup {c}
    PROVE  SoundHere(g, w)
<1>1. ToldOf(g) /\ c \notin DMs
  BY ToldFacts, ChannelsAssumption
<1>2. guildMap[g].channels = world[g].channels /\ guildMap[g] \in Cached /\ g \in DOMAIN guildMap
  BY <1>1 DEF ToldOf, Sound
<1> DEFINE ts == guildMap[g].threads \ {c}
<1>3. guildMap' = [guildMap EXCEPT ![g] =
         Entry(w.channels, ts, guildMap[g].members, guildMap[g].roles, guildMap[g].voice, guildMap[g].count)]
  <2> DEFINE m == [guildMap[g] EXCEPT !.channels = w.channels]
  <2>1. guildMap' = [guildMap EXCEPT ![g] = [guildMap[g] EXCEPT !.channels = w.channels, !.threads = ts]]
    BY <1>1, <1>2 DEF ChannelRemove
  <2>2. m = Entry(w.channels, guildMap[g].threads, guildMap[g].members, guildMap[g].roles, guildMap[g].voice,
                  guildMap[g].count)
    <3> HIDE DEF ts
    <3> QED BY <1>2, ChannelsField
  <2> HIDE DEF ts
  <2>3. [guildMap[g] EXCEPT !.channels = w.channels, !.threads = ts] = [m EXCEPT !.threads = ts]
    OBVIOUS
  <2> HIDE DEF m
  <2>4. [guildMap[g] EXCEPT !.channels = w.channels, !.threads = ts] =
          Entry(w.channels, ts, guildMap[g].members, guildMap[g].roles, guildMap[g].voice, guildMap[g].count)
    BY <2>2, <2>3 DEF Entry
  <2> QED BY <2>1, <2>4
<1>4. memberMap' = memberMap /\ channelMap' = Delete(channelMap, c)
  BY DEF ChannelRemove
<1>5. /\ DOMAIN channelMap' = DOMAIN channelMap \ {c}
      /\ \A d \in DOMAIN channelMap \ {c} : channelMap'[d] = channelMap[d]
      /\ channelMap' \in [DOMAIN channelMap' -> {"live", "archived"}]
  BY <1>4 DEF Delete, GuildsInv, CacheTypeOK
<1>6. ts \in SUBSET Threads /\ w.channels \cup ts \subseteq DOMAIN channelMap'
  BY <1>1, <1>2, <1>5 DEF ToldOf, Sound, Cached
<1>7. \A d \in w.threads : d \in DOMAIN channelMap' /\ channelMap'[d] = "live"
  BY <1>1, <1>5 DEF ToldOf, Sound
<1>8. ts \subseteq w.threads \cup w.archived /\ \A d \in ts : channelMap'[d] = "live" => d \in w.threads
  BY <1>1, <1>5 DEF ToldOf, Sound
<1>9. Heard(g, w, channelMap')
  BY <1>1, <1>5 DEF ToldOf, Heard, Known
<1>10. \A d \in TextChannels \cup Threads : GuildOf[d] # g =>
         /\ d \in DOMAIN channelMap' <=> d \in DOMAIN channelMap
         /\ d \in DOMAIN channelMap => channelMap'[d] = channelMap[d]
  BY <1>5
<1> HIDE DEF ts
<1> QED BY <1>3, <1>4, <1>5, <1>6, <1>7, <1>8, <1>9, <1>10, ChannelsSound DEF SamePeople

\* A thread that the cache does not know goes.
LEMMA UnknownGoes ==
    ASSUME GuildsInv, NEW g \in Guilds, Told(g), NEW t \in Threads, GuildOf[t] = g,
           UNCHANGED cacheVars, t \notin DOMAIN channelMap,
           NEW w \in Described, SamePeople(w, world[g]),
           w.channels = world[g].channels, w.threads = world[g].threads \ {t},
           w.archived = world[g].archived \ {t}, w.gone = world[g].gone \cup {t}
    PROVE  SoundHere(g, w)
<1>1. ToldOf(g)
  BY ToldFacts
<1>2. UNCHANGED <<guildMap, memberMap, channelMap>>
  BY DEF cacheVars, guildVars, channelVars
<1>3. CacheTypeOK' /\ Elsewhere(g)
  BY <1>2 DEF GuildsInv, CacheTypeOK, Elsewhere
<1>4. Sound(g, w, guildMap, memberMap, channelMap)
  BY <1>1 DEF ToldOf, Sound, SamePeople
<1>5. Heard(g, w, channelMap)
  BY <1>1 DEF ToldOf, Heard, Known
<1> QED BY <1>2, <1>3, <1>4, <1>5 DEF SoundHere

\* Discord lists the active threads of some channels: theirs are replaced.
LEMMA SyncSound ==
    ASSUME GuildsInv, NEW g \in Guilds, Told(g), NEW ids, ThreadListSync(g, ids)
    PROVE  SoundHere(g, world[g])
<1> DEFINE w == world[g]
           kept == ThreadsKept(g, ids)
           listed == ThreadsListed(g, ids)
           dropped == guildMap[g].threads \ kept
           ts == ThreadsAfterSync(g, ids)
<1>1. ToldOf(g)
  BY ToldFacts
<1>2. guildMap[g].channels = w.channels /\ guildMap[g] \in Cached /\ g \in DOMAIN guildMap /\ w \in Described
  BY <1>1 DEF ToldOf, Sound
<1>3. guildMap' = [guildMap EXCEPT ![g] =
         Entry(w.channels, ts, guildMap[g].members, guildMap[g].roles, guildMap[g].voice, guildMap[g].count)]
  <2>1. guildMap' = [guildMap EXCEPT ![g] = [guildMap[g] EXCEPT !.threads = ts]]
    BY DEF ThreadListSync
  <2> HIDE DEF ts, w
  <2>2. [guildMap[g] EXCEPT !.threads = ts] =
          Entry(guildMap[g].channels, ts, guildMap[g].members, guildMap[g].roles, guildMap[g].voice,
                guildMap[g].count)
    BY <1>2, EntryFields
  <2> QED BY <1>2, <2>1, <2>2
<1>4. memberMap' = memberMap
      /\ channelMap' = Put([c \in DOMAIN channelMap \ dropped |-> channelMap[c]], listed, "live")
  BY DEF ThreadListSync
<1>5. /\ kept \subseteq guildMap[g].threads /\ listed \subseteq w.threads /\ ts = kept \cup listed
      /\ dropped \subseteq guildMap[g].threads
      /\ \A t \in kept : channelMap[t] = "live"
      /\ \A t \in w.threads \ listed : ids # {} /\ ParentOf[t] \notin ids
      /\ \A t \in guildMap[g].threads :
            t \in kept <=> channelMap[t] = "live" /\ ids # {} /\ ParentOf[t] \notin ids
  BY DEF ThreadsKept, ThreadsListed, ThreadsAfterSync
<1> HIDE DEF kept, listed, dropped, ts
<1>6. /\ DOMAIN channelMap' = (DOMAIN channelMap \ dropped) \cup listed
      /\ \A c \in listed : channelMap'[c] = "live"
      /\ \A c \in DOMAIN channelMap \ (dropped \cup listed) : channelMap'[c] = channelMap[c]
      /\ channelMap' \in [DOMAIN channelMap' -> {"live", "archived"}]
  BY <1>4 DEF Put, GuildsInv, CacheTypeOK
<1>7. /\ guildMap[g].threads \subseteq w.threads \cup w.archived
      /\ w.threads \cup w.archived \subseteq Threads
      /\ \A t \in w.threads \cup w.archived : GuildOf[t] = g
      /\ \A t \in guildMap[g].threads : t \in DOMAIN channelMap /\ (channelMap[t] = "live" => t \in w.threads)
      /\ \A t \in w.threads : t \in DOMAIN channelMap /\ channelMap[t] = "live"
      /\ w.channels \subseteq DOMAIN channelMap /\ w.channels \subseteq TextChannels
      /\ Heard(g, w, channelMap)
  BY <1>1 DEF ToldOf, Sound, OwnOnly, Described
<1>8. dropped = guildMap[g].threads \ kept
  BY DEF dropped
<1> HIDE DEF w
<1>9. \A c \in TextChannels \cup Threads : GuildOf[c] # g =>
         /\ c \in DOMAIN channelMap' <=> c \in DOMAIN channelMap
         /\ c \in DOMAIN channelMap => channelMap'[c] = channelMap[c]
  BY <1>5, <1>6, <1>7
<1>10. ts \in SUBSET Threads /\ ts \subseteq w.threads \cup w.archived
  BY <1>5, <1>7
<1>11. w.channels \cup ts \subseteq DOMAIN channelMap'
  BY <1>5, <1>6, <1>7, <1>8, ChannelsAssumption
<1>12. \A t \in w.threads : t \in DOMAIN channelMap' /\ channelMap'[t] = "live"
  BY <1>5, <1>6, <1>7, <1>8
<1>13. \A t \in ts : channelMap'[t] = "live" => t \in w.threads
  BY <1>5, <1>7
<1>14. Heard(g, w, channelMap')
  BY <1>5, <1>6, <1>7 DEF Heard, Known
<1>15. /\ w.members = world[g].members /\ w.roles = world[g].roles /\ w.voice = world[g].voice
  BY DEF w
<1>16. SoundHere(g, w)
  BY <1>2, <1>3, <1>4, <1>6, <1>9, <1>10, <1>11, <1>12, <1>13, <1>14, <1>15, ChannelsSound
<1> QED BY <1>16 DEF w

\* Channels made, changed and deleted.
LEMMA ChannelsStep ==
    ASSUME GuildsInv, NEW g \in Guilds, ChannelsOf(g)
    PROVE  GuildsInv'
<1> DEFINE w == world[g]
<1>1. w \in Described /\ OwnOnly(g, w)
  BY DEF GuildsInv, WorldTypeOK
<1>2. PICK c \in TextChannels : GuildOf[c] = g
            /\ \/ c \notin w.channels \cup w.gone
                  /\ Change(g, [w EXCEPT !.channels = @ \cup {c}], ChannelAdd(c, "live"))
               \/ c \in w.channels /\ Told(g) /\ Change(g, w, ChannelAdd(c, "live"))
               \/ c \in w.channels
                  /\ Change(g, [w EXCEPT !.channels = @ \ {c}, !.gone = @ \cup {c}], ChannelRemove(c))
  BY DEF ChannelsOf
<1> HIDE DEF w
<1>3. CASE c \notin w.channels \cup w.gone
           /\ Change(g, [w EXCEPT !.channels = @ \cup {c}], ChannelAdd(c, "live"))
  <2> DEFINE v == [w EXCEPT !.channels = w.channels \cup {c}]
  <2>1. v = Guild(w.in, w.channels \cup {c}, w.threads, w.archived, w.gone, w.members, w.roles, w.voice)
    BY <1>1, GuildFields
  <2>2. world' = [world EXCEPT ![g] = v] /\ UNCHANGED <<online, pending>>
        /\ ((Told(g) /\ ChannelAdd(c, "live")) \/ (~Told(g) /\ UNCHANGED cacheVars))
    BY <1>3 DEF Change
  <2> HIDE DEF v
  <2>3. /\ v \in Described /\ SamePeople(v, w) /\ v.channels = w.channels \cup {c} /\ v.threads = w.threads
        /\ v.archived = w.archived /\ v.gone = w.gone
    BY <1>1, <2>1 DEF Guild, Described, SamePeople
  <2>4. Grows(g, v)
    BY <1>1, <1>2, <2>3 DEF Grows, OwnOnly, Known, SamePeople, w
  <2>5. Told(g) => SoundHere(g, v)
    BY <1>2, <1>3, <2>2, <2>3, AddChannelSound DEF w
  <2> QED BY <2>2, <2>4, <2>5, ChangeStep
<1>4. CASE c \in w.channels /\ Told(g) /\ Change(g, w, ChannelAdd(c, "live"))
  <2>1. world' = [world EXCEPT ![g] = w] /\ UNCHANGED <<online, pending>> /\ ChannelAdd(c, "live")
    BY <1>4 DEF Change
  <2>2. SamePeople(w, w) /\ w.channels = w.channels \cup {c}
    BY <1>4 DEF SamePeople
  <2>3. Grows(g, w)
    BY <1>1 DEF Grows, w
  <2>4. SoundHere(g, w)
    BY <1>1, <1>2, <1>4, <2>1, <2>2, AddChannelSound DEF w
  <2> QED BY <1>4, <2>1, <2>3, <2>4, ChangeStep
<1>5. CASE c \in w.channels
           /\ Change(g, [w EXCEPT !.channels = @ \ {c}, !.gone = @ \cup {c}], ChannelRemove(c))
  <2> DEFINE u == [w EXCEPT !.channels = w.channels \ {c}]
             v == [w EXCEPT !.channels = w.channels \ {c}, !.gone = w.gone \cup {c}]
  <2>1. u = Guild(w.in, w.channels \ {c}, w.threads, w.archived, w.gone, w.members, w.roles, w.voice)
    BY <1>1, GuildFields
  <2>2. v = [u EXCEPT !.gone = w.gone \cup {c}]
    OBVIOUS
  <2>3. world' = [world EXCEPT ![g] = v] /\ UNCHANGED <<online, pending>>
        /\ ((Told(g) /\ ChannelRemove(c)) \/ (~Told(g) /\ UNCHANGED cacheVars))
    BY <1>5 DEF Change
  <2> HIDE DEF u, v
  <2>4. v = Guild(w.in, w.channels \ {c}, w.threads, w.archived, w.gone \cup {c}, w.members, w.roles, w.voice)
    BY <2>1, <2>2 DEF Guild
  <2>5. w.threads \subseteq Threads /\ w.archived \subseteq Threads /\ c \notin Threads
    BY <1>1, ChannelsAssumption DEF Described
  <2>6. /\ v \in Described /\ SamePeople(v, w) /\ v.channels = w.channels \ {c} /\ v.threads = w.threads \ {c}
        /\ v.archived = w.archived \ {c} /\ v.gone = w.gone \cup {c}
    BY <1>1, <2>4, <2>5 DEF Guild, Described, SamePeople
  <2>7. Grows(g, v)
    BY <1>1, <1>2, <2>6 DEF Grows, OwnOnly, Known, SamePeople, w
  <2>8. Told(g) => c \in DOMAIN channelMap
    BY <1>5, ToldFacts DEF ToldOf, Sound, w
  <2>9. Told(g) => SoundHere(g, v)
    BY <1>2, <2>3, <2>6, <2>8, RemoveSound DEF w
  <2> QED BY <2>3, <2>7, <2>9, ChangeStep
<1> QED BY <1>2, <1>3, <1>4, <1>5, Zenon

\* Threads made, archived, unarchived, listed and deleted.
LEMMA ThreadsStep ==
    ASSUME GuildsInv, NEW g \in Guilds, ThreadsOf(g)
    PROVE  GuildsInv'
<1> DEFINE w == world[g]
           Now(ts, as, gs) == Guild(w.in, w.channels, ts, as, gs, w.members, w.roles, w.voice)
<1>1. w \in Described /\ OwnOnly(g, w)
  BY DEF GuildsInv, WorldTypeOK
<1>2. CASE \E ids \in SUBSET w.channels : Told(g) /\ Change(g, w, ThreadListSync(g, ids))
  <2>1. PICK ids : Told(g) /\ Change(g, w, ThreadListSync(g, ids))
    BY <1>2
  <2>2. world' = [world EXCEPT ![g] = w] /\ UNCHANGED <<online, pending>> /\ ThreadListSync(g, ids)
    BY <2>1 DEF Change
  <2>3. Grows(g, w)
    BY <1>1 DEF Grows
  <2>4. SoundHere(g, w)
    BY <2>1, <2>2, SyncSound
  <2> HIDE DEF w
  <2> QED BY <2>1, <2>2, <2>3, <2>4, ChangeStep
<1>3. ASSUME NEW t \in Threads, ParentOf[t] \in w.channels,
             \/ /\ t \notin w.threads \cup w.archived \cup w.gone
                /\ Change(g, [w EXCEPT !.threads = @ \cup {t}], ChannelAdd(t, "live"))
             \/ t \in w.threads /\ Change(g, [w EXCEPT !.threads = @ \ {t}, !.archived = @ \cup {t}],
                                          ChannelAdd(t, "archived"))
             \/ t \in w.archived /\ Change(g, [w EXCEPT !.threads = @ \cup {t}, !.archived = @ \ {t}],
                                           ChannelAdd(t, "live"))
             \/ /\ t \in w.threads \cup w.archived
                /\ Change(g, [w EXCEPT !.threads = @ \ {t}, !.archived = @ \ {t}, !.gone = @ \cup {t}],
                          IF t \in DOMAIN channelMap THEN ChannelRemove(t) ELSE UNCHANGED cacheVars)
      PROVE  GuildsInv'
  <2>1. GuildOf[t] = g
    BY <1>1, <1>3, ChannelsAssumption DEF OwnOnly
  <2>2. ASSUME NEW ts \in SUBSET Threads, NEW as \in SUBSET Threads, NEW gs \in SUBSET (TextChannels \cup Threads)
        PROVE  LET v == Now(ts, as, gs) IN
               /\ v \in Described /\ SamePeople(v, w) /\ v.channels = w.channels
               /\ v.threads = ts /\ v.archived = as /\ v.gone = gs
    <3> DEFINE v == Now(ts, as, gs)
    <3> HIDE DEF w
    <3>1. v \in Described
      BY <1>1 DEF Guild, Described
    <3>2. /\ SamePeople(v, w) /\ v.channels = w.channels
          /\ v.threads = ts /\ v.archived = as /\ v.gone = gs
      BY DEF Guild, SamePeople
    <3> QED BY <3>1, <3>2
  <2>3. ASSUME NEW ts \in SUBSET Threads, NEW as \in SUBSET Threads, NEW gs \in SUBSET (TextChannels \cup Threads),
               ts \cup as \subseteq w.threads \cup w.archived \cup {t},
               w.threads \cup w.archived \cup w.gone \subseteq ts \cup as \cup gs
        PROVE  Grows(g, Now(ts, as, gs))
    <3> DEFINE v == Now(ts, as, gs)
    <3>1. /\ v \in Described /\ SamePeople(v, w) /\ v.channels = w.channels
          /\ v.threads = ts /\ v.archived = as /\ v.gone = gs
      <4> HIDE DEF w
      <4>1. v \in Described
        BY <1>1 DEF Guild, Described
      <4> QED BY <4>1 DEF Guild, SamePeople
    <3> HIDE DEF v
    <3>2. OwnOnly(g, v)
      BY <1>1, <2>1, <2>3, <3>1 DEF OwnOnly, SamePeople
    <3>3. Known(w) \subseteq Known(v)
      BY <2>3, <3>1 DEF Known
    <3>4. Grows(g, v)
      BY <3>1, <3>2, <3>3 DEF Grows, SamePeople
    <3> QED BY <3>4 DEF v
  <2>4. w.threads \in SUBSET Threads /\ w.archived \in SUBSET Threads
        /\ w.gone \in SUBSET (TextChannels \cup Threads)
    BY <1>1 DEF Described
  <2>5. ASSUME NEW ts \in SUBSET Threads, NEW as \in SUBSET Threads, NEW gs \in SUBSET (TextChannels \cup Threads),
               ts \cup as \subseteq w.threads \cup w.archived \cup {t},
               w.threads \cup w.archived \cup w.gone \subseteq ts \cup as \cup gs,
               world' = [world EXCEPT ![g] = Now(ts, as, gs)], UNCHANGED <<online, pending>>,
               (Told(g) /\ SoundHere(g, Now(ts, as, gs))) \/ (~Told(g) /\ UNCHANGED cacheVars)
        PROVE  GuildsInv'
    <3>1. Grows(g, Now(ts, as, gs))
      BY <2>3, <2>5
    <3> HIDE DEF Now
    <3> QED BY <2>5, <3>1, ChangeStep
  <2>6. ASSUME NEW ts, NEW as
        PROVE  [w EXCEPT !.threads = ts, !.archived = as] = Now(ts, as, w.gone)
    <3> HIDE DEF w
    <3> QED BY <1>1, ThreadFields
  <2>7. CASE t \notin w.threads \cup w.archived \cup w.gone
             /\ Change(g, [w EXCEPT !.threads = @ \cup {t}], ChannelAdd(t, "live"))
    <3> DEFINE ts == w.threads \cup {t}
               v == Now(ts, w.archived, w.gone)
    <3>1. [w EXCEPT !.threads = ts] = v
      <4> HIDE DEF w
      <4> QED BY <1>1, GuildFields
    <3>2. world' = [world EXCEPT ![g] = v] /\ UNCHANGED <<online, pending>>
          /\ ((Told(g) /\ ChannelAdd(t, "live")) \/ (~Told(g) /\ UNCHANGED cacheVars))
      BY <2>7, <3>1 DEF Change
    <3>3. /\ v \in Described /\ SamePeople(v, w) /\ v.channels = w.channels
          /\ v.threads = ts /\ v.archived = w.archived /\ v.gone = w.gone
      BY <2>2, <2>4
    <3>4. w.archived = w.archived \ {t}
      BY <2>7
    <3>5. Told(g) => SoundHere(g, v)
      <4> HIDE DEF v
      <4> QED BY <2>1, <2>7, <3>2, <3>3, <3>4, AddThreadSound
    <3> HIDE DEF w, Now
    <3> QED BY <2>4, <2>5, <3>2, <3>5
  <2>8. CASE t \in w.threads /\ Change(g, [w EXCEPT !.threads = @ \ {t}, !.archived = @ \cup {t}],
                                       ChannelAdd(t, "archived"))
    <3> DEFINE ts == w.threads \ {t}
               as == w.archived \cup {t}
               v == Now(ts, as, w.gone)
    <3>1. [w EXCEPT !.threads = ts, !.archived = as] = v
      BY <2>6
    <3>2. world' = [world EXCEPT ![g] = v] /\ UNCHANGED <<online, pending>>
          /\ ((Told(g) /\ ChannelAdd(t, "archived")) \/ (~Told(g) /\ UNCHANGED cacheVars))
      <4> HIDE DEF v
      <4> QED BY <2>8, <3>1 DEF Change
    <3>3. /\ v \in Described /\ SamePeople(v, w) /\ v.channels = w.channels
          /\ v.threads = ts /\ v.archived = as /\ v.gone = w.gone
      BY <2>2, <2>4
    <3>4. Told(g) => SoundHere(g, v)
      <4> HIDE DEF v
      <4> QED BY <2>1, <2>8, <3>2, <3>3, AddThreadSound
    <3> HIDE DEF w, Now
    <3> QED BY <2>4, <2>5, <2>8, <3>2, <3>4
  <2>9. CASE t \in w.archived /\ Change(g, [w EXCEPT !.threads = @ \cup {t}, !.archived = @ \ {t}],
                                        ChannelAdd(t, "live"))
    <3> DEFINE ts == w.threads \cup {t}
               as == w.archived \ {t}
               v == Now(ts, as, w.gone)
    <3>1. [w EXCEPT !.threads = ts, !.archived = as] = v
      BY <2>6
    <3>2. world' = [world EXCEPT ![g] = v] /\ UNCHANGED <<online, pending>>
          /\ ((Told(g) /\ ChannelAdd(t, "live")) \/ (~Told(g) /\ UNCHANGED cacheVars))
      <4> HIDE DEF v
      <4> QED BY <2>9, <3>1 DEF Change
    <3>3. /\ v \in Described /\ SamePeople(v, w) /\ v.channels = w.channels
          /\ v.threads = ts /\ v.archived = as /\ v.gone = w.gone
      BY <2>2, <2>4
    <3>4. Told(g) => SoundHere(g, v)
      <4> HIDE DEF v
      <4> QED BY <2>1, <2>9, <3>2, <3>3, AddThreadSound
    <3> HIDE DEF w, Now
    <3> QED BY <2>4, <2>5, <3>2, <3>4
  <2>10. CASE t \in w.threads \cup w.archived
              /\ Change(g, [w EXCEPT !.threads = @ \ {t}, !.archived = @ \ {t}, !.gone = @ \cup {t}],
                        IF t \in DOMAIN channelMap THEN ChannelRemove(t) ELSE UNCHANGED cacheVars)
    <3> DEFINE ts == w.threads \ {t}
               as == w.archived \ {t}
               gs == w.gone \cup {t}
               v == Now(ts, as, gs)
    <3>1. [w EXCEPT !.threads = ts, !.archived = as, !.gone = gs] = v
      <4> HIDE DEF w, ts, as, gs
      <4> QED BY <1>1, GoneFields
    <3>2. world' = [world EXCEPT ![g] = v] /\ UNCHANGED <<online, pending>>
          /\ \/ Told(g) /\ t \in DOMAIN channelMap /\ ChannelRemove(t)
             \/ Told(g) /\ t \notin DOMAIN channelMap /\ UNCHANGED cacheVars
             \/ ~Told(g) /\ UNCHANGED cacheVars
      <4> HIDE DEF v
      <4> QED BY <2>10, <3>1 DEF Change
    <3>3. /\ v \in Described /\ SamePeople(v, w) /\ v.channels = w.channels
          /\ v.threads = ts /\ v.archived = as /\ v.gone = gs
      BY <2>2, <2>4
    <3>4. w.channels = w.channels \ {t}
      BY <1>1, ChannelsAssumption DEF Described
    <3>5. Told(g) => SoundHere(g, v)
      <4> HIDE DEF v
      <4>1. CASE Told(g) /\ t \in DOMAIN channelMap /\ ChannelRemove(t)
        BY <2>1, <3>3, <3>4, <4>1, RemoveSound
      <4>2. CASE Told(g) /\ t \notin DOMAIN channelMap /\ UNCHANGED cacheVars
        BY <2>1, <3>3, <4>2, UnknownGoes
      <4> QED BY <3>2, <4>1, <4>2
    <3>6. gs \in SUBSET (TextChannels \cup Threads)
      BY <2>4
    <3> HIDE DEF w, Now
    <3> QED BY <2>4, <2>5, <3>2, <3>5, <3>6
  <2> QED BY <1>3, <2>7, <2>8, <2>9, <2>10, Zenon
<1> QED BY <1>2, <1>3, Zenon DEF ThreadsOf

\* Somebody seen in a guild is added to both of its lists.
LEMMA SeenSound ==
    ASSUME GuildsInv, NEW g \in Guilds, Told(g), NEW u \in world[g].members, memberAdd(g, u),
           UNCHANGED channelMap
    PROVE  SoundHere(g, world[g])
<1> DEFINE w == world[g]
           seen == guildMap[g].members \cup {u}
<1>1. /\ ToldOf(g) /\ w \in Described /\ guildMap[g] \in Cached /\ g \in DOMAIN guildMap
      /\ IsFiniteSet(w.members) /\ Cardinality(w.members) \in Nat
      /\ guildMap[g].roles = w.roles /\ guildMap[g].voice = w.voice
      /\ guildMap[g].count = Cardinality(w.members) + 1
      /\ memberMap[g] = guildMap[g].members /\ guildMap[g].members \subseteq w.members
      /\ w.members \subseteq Users
  BY ToldFacts, FS_CardinalityType DEF ToldOf, Sound, OwnOnly, Described
<1>2. memberMap' = [memberMap EXCEPT ![g] = seen]
      /\ guildMap' = [guildMap EXCEPT ![g] = [guildMap[g] EXCEPT !.members = seen]]
  BY <1>1 DEF memberAdd
<1>3. seen \in SUBSET Users /\ seen \subseteq w.members
  BY <1>1
<1> HIDE DEF seen, w
<1>4. [guildMap[g] EXCEPT !.members = seen] =
        Entry(guildMap[g].channels, guildMap[g].threads, seen, guildMap[g].roles, guildMap[g].voice,
              guildMap[g].count)
  BY <1>1, EntryFields
<1>5. SoundHere(g, w)
  BY <1>1, <1>2, <1>3, <1>4, PeopleStep DEF w
<1> QED BY <1>5 DEF w

\* Members added to a thread are members of its guild.
LEMMA ThreadMembersStep ==
    ASSUME GuildsInv, NEW t \in Threads, ThreadMembersOf(t)
    PROVE  GuildsInv' /\ UNCHANGED messages
<1> DEFINE g == GuildOf[t]
<1>1. g \in Guilds /\ world[g] \in Described /\ OwnOnly(g, world[g])
  BY ChannelsAssumption DEF GuildsInv, WorldTypeOK
<1>2. PICK added \in {{}} \cup {{u} : u \in world[g].members \ joined[t]} :
         Change(g, world[g], ThreadMembersUpdate(t, added))
  BY DEF ThreadMembersOf
<1>3. world' = [world EXCEPT ![g] = world[g]] /\ UNCHANGED <<online, pending>>
      /\ ((Told(g) /\ ThreadMembersUpdate(t, added)) \/ (~Told(g) /\ UNCHANGED cacheVars))
  BY <1>2 DEF Change
<1>4. Told(g) => SoundHere(g, world[g])
  <2> SUFFICES ASSUME Told(g) PROVE SoundHere(g, world[g])
    OBVIOUS
  <2>1. UNCHANGED channelMap
    BY <1>3 DEF ThreadMembersUpdate
  <2>2. CASE added = {}
    BY <1>1, <1>3, <2>1, <2>2, StaySound DEF ThreadMembersUpdate
  <2>3. CASE added # {}
    <3>1. PICK u \in added : memberAdd(g, u)
      BY <1>3, <2>3 DEF ThreadMembersUpdate
    <3>2. u \in world[g].members
      BY <3>1
    <3> HIDE DEF g
    <3> QED BY <1>1, <2>1, <3>1, <3>2, SeenSound
  <2> QED BY <2>2, <2>3
<1>5. Grows(g, world[g])
  BY <1>1 DEF Grows
<1>6. UNCHANGED messages
  BY <1>3 DEF ThreadMembersUpdate, cacheVars, channelVars
<1> HIDE DEF g
<1> QED BY <1>1, <1>3, <1>4, <1>5, <1>6, ChangeStep

\* What is posted does not concern the guilds, the members and the channels.
LEMMA PostsStep ==
    ASSUME GuildsInv, NEW c \in TextChannels, MessagesOf(c)
    PROVE  GuildsInv'
<1> DEFINE g == GuildOf[c]
<1>1. g \in Guilds /\ world[g] \in Described /\ OwnOnly(g, world[g])
  BY ChannelsAssumption DEF GuildsInv, WorldTypeOK
<1>2. /\ world' = [world EXCEPT ![g] = world[g]] /\ UNCHANGED <<online, pending>>
      /\ \/ Told(g) /\ UNCHANGED <<guildMap, memberMap, channelMap>>
         \/ ~Told(g) /\ UNCHANGED cacheVars
  BY DEF MessagesOf, Posts, Change, MessageAdd, MessageDeleteBulk, guildVars
<1>3. Grows(g, world[g])
  BY <1>1 DEF Grows
<1> HIDE DEF g
<1> QED BY <1>1, <1>2, <1>3, ChangeStep, StaySound

\* Steps after which the cache is right about the guilds that are told of.
LEMMA TurnStep ==
    ASSUME GuildsInv, WorldTypeOK', CacheTypeOK',
           \A g \in Guilds : /\ world'[g].channels = world[g].channels
                             /\ world'[g].threads = world[g].threads
                             /\ world'[g].archived = world[g].archived
                             /\ world'[g].gone = world[g].gone
                             /\ world'[g].members = world[g].members,
           \A c \in DOMAIN channelMap' : c \in TextChannels \cup Threads =>
               c \in DOMAIN channelMap \/ c \in Known(world[GuildOf[c]]),
           \A g \in Guilds : Told(g)' => Sound(g, world'[g], guildMap', memberMap', channelMap')
    PROVE  GuildsInv'
<1>1. \A g \in Guilds : OwnOnly(g, world[g])'
  BY DEF GuildsInv, OwnOnly
<1>2. \A g \in Guilds : Heard(g, world'[g], channelMap')
  BY DEF GuildsInv, Heard, Known
<1> QED BY <1>1, <1>2 DEF GuildsInv

\* A private channel is of no guild.
LEMMA DMsStep ==
    ASSUME GuildsInv, NEW c \in DMs, DMsOf(c)
    PROVE  GuildsInv'
<1>1. c \notin TextChannels /\ c \notin Threads
  BY ChannelsAssumption
<1>2. UNCHANGED <<world, online, pending, guildMap, memberMap>>
  BY <1>1 DEF DMsOf, ChannelAdd, ChannelRemove, worldVars, linkVars
<1>3. channelMap' = Put(channelMap, {c}, "live") \/ channelMap' = Delete(channelMap, c)
  BY DEF DMsOf, ChannelAdd, ChannelRemove
<1>4. /\ channelMap' \in [DOMAIN channelMap' -> {"live", "archived"}]
      /\ \A d \in TextChannels \cup Threads :
            /\ d \in DOMAIN channelMap' <=> d \in DOMAIN channelMap
            /\ d \in DOMAIN channelMap => channelMap'[d] = channelMap[d]
  BY <1>1, <1>3 DEF Put, Delete, GuildsInv, CacheTypeOK
<1>5. CacheTypeOK' /\ WorldTypeOK'
  BY <1>2, <1>4 DEF GuildsInv, CacheTypeOK, WorldTypeOK
<1>6. ASSUME NEW g \in Guilds, Told(g)' PROVE Sound(g, world'[g], guildMap', memberMap', channelMap')
  <2>1. Told(g)
    BY <1>2, <1>6 DEF Told
  <2>2. ToldOf(g)
    BY <2>1, ToldFacts
  <2> QED BY <1>2, <1>4, <2>2, SoundStays DEF ToldOf
<1> QED BY <1>2, <1>4, <1>5, <1>6, TurnStep

\* The bot comes to a guild, leaves it, or a guild has an outage: of that guild
\* it is not told any more, of the others it knows what it knew.
LEMMA OfOneGuild ==
    ASSUME GuildsInv, NEW g \in Guilds, WorldTypeOK', UNCHANGED <<memberMap, channelMap>>, UNCHANGED online,
           guildMap' = guildMap \/ guildMap' = Delete(guildMap, g),
           world' = world \/ \E b \in BOOLEAN : world' = [world EXCEPT ![g].in = b],
           ~Told(g)', \A h \in Guilds \ {g} : h \in pending => h \in pending'
    PROVE  GuildsInv'
<1>1. \A h \in Guilds \ {g} : world'[h] = world[h]
  BY DEF GuildsInv, WorldTypeOK
<1>2. /\ world'[g].channels = world[g].channels /\ world'[g].threads = world[g].threads
      /\ world'[g].archived = world[g].archived /\ world'[g].gone = world[g].gone
      /\ world'[g].members = world[g].members
  BY DEF GuildsInv, WorldTypeOK, Described
<1>3. /\ CacheTypeOK'
      /\ \A h \in Guilds \ {g} : h \in DOMAIN guildMap => h \in DOMAIN guildMap' /\ guildMap'[h] = guildMap[h]
  BY DEF GuildsInv, CacheTypeOK, Delete
<1>4. ASSUME NEW h \in Guilds, Told(h)' PROVE Sound(h, world'[h], guildMap', memberMap', channelMap')
  <2>1. h # g
    BY <1>4
  <2>2. Told(h)
    BY <1>1, <1>4, <2>1 DEF Told
  <2>3. ToldOf(h)
    BY <2>2, ToldFacts
  <2> QED BY <1>1, <1>3, <2>1, <2>3, SoundStays DEF ToldOf
<1>5. \A h \in Guilds : /\ world'[h].channels = world[h].channels /\ world'[h].threads = world[h].threads
                        /\ world'[h].archived = world[h].archived /\ world'[h].gone = world[h].gone
                        /\ world'[h].members = world[h].members
  BY <1>1, <1>2
<1> QED BY <1>3, <1>4, <1>5, TurnStep

\* The bot joins a guild or is removed from it, or the guild is not available.
LEMMA ComeAndGo ==
    ASSUME GuildsInv, NEW g \in Guilds, Join(g) \/ Leave(g) \/ Outage(g)
    PROVE  GuildsInv'
<1>1. ASSUME NEW b \in BOOLEAN PROVE [world EXCEPT ![g].in = b] \in [Guilds -> Described]
  BY DEF GuildsInv, WorldTypeOK, Described
<1>2. world[g].in \in BOOLEAN
  BY DEF GuildsInv, WorldTypeOK, Described
<1>3. CASE Join(g)
  <2>1. world' = [world EXCEPT ![g].in = TRUE] /\ UNCHANGED <<online, guildMap, memberMap, channelMap>>
        /\ pending' = IF online THEN pending \cup {g} ELSE pending
    BY <1>3 DEF Join, cacheVars, guildVars, channelVars
  <2>2. WorldTypeOK'
    BY <1>1, <2>1 DEF GuildsInv, WorldTypeOK
  <2>3. ~Told(g)'
    BY <2>1 DEF Told
  <2> QED BY <2>1, <2>2, <2>3, OfOneGuild
<1>4. CASE Leave(g)
  <2>1. /\ world' = [world EXCEPT ![g].in = FALSE] /\ UNCHANGED <<online, memberMap, channelMap>>
        /\ guildMap' = guildMap \/ guildMap' = Delete(guildMap, g)
        /\ pending' = pending \ {g}
    BY <1>4 DEF Leave, Gone, GuildRemove, cacheVars, guildVars, channelVars
  <2>2. WorldTypeOK'
    BY <1>1, <2>1 DEF GuildsInv, WorldTypeOK
  <2>3. ~Told(g)'
    BY <2>1 DEF Told, GuildsInv, WorldTypeOK, Described
  <2> QED BY <2>1, <2>2, <2>3, OfOneGuild
<1>5. CASE Outage(g)
  <2>1. /\ world' = world /\ UNCHANGED <<online, memberMap, channelMap>>
        /\ guildMap' = guildMap \/ guildMap' = Delete(guildMap, g)
        /\ pending' = pending \cup {g}
    BY <1>5 DEF Outage, Gone, GuildRemove, cacheVars, guildVars, channelVars, worldVars
  <2>2. WorldTypeOK'
    BY <2>1 DEF GuildsInv, WorldTypeOK
  <2>3. ~Told(g)'
    BY <2>1 DEF Told
  <2> QED BY <2>1, <2>2, <2>3, OfOneGuild
<1> QED BY <1>3, <1>4, <1>5

\* Discord describes a guild: all that was held of it is replaced.
LEMMA CreateStep ==
    ASSUME GuildsInv, NEW g \in Guilds, GuildCreate(g)
    PROVE  GuildsInv'
<1> DEFINE w == world[g]
<1>1. PICK some \in SUBSET w.members :
          GuildAdd(g, [channels |-> w.channels, threads |-> w.threads, members |-> some, roles |-> w.roles,
                       voice |-> w.voice, count |-> Cardinality(w.members) + 1])
  BY DEF GuildCreate
<1> DEFINE full == Entry(w.channels, w.threads, some, w.roles, w.voice, Cardinality(w.members) + 1)
<1>2. w \in Described /\ OwnOnly(g, w) /\ Heard(g, w, channelMap) /\ Cardinality(w.members) \in Nat
  BY FS_CardinalityType DEF GuildsInv, WorldTypeOK, OwnOnly
<1>3. UNCHANGED <<world, online>> /\ pending' = pending \ {g}
  BY DEF GuildCreate, worldVars
<1>4. GuildAdd(g, full)
  BY <1>1 DEF Entry
<1> HIDE DEF w
<1>5. /\ full \in Cached /\ full.channels = w.channels /\ full.threads = w.threads /\ full.members = some
      /\ full.roles = w.roles /\ full.voice = w.voice /\ full.count = Cardinality(w.members) + 1
  BY <1>2 DEF Entry, Cached, Described
<1> HIDE DEF full
<1>6. /\ channelMap' = Put(channelMap, w.channels \cup w.threads, "live")
      /\ memberMap' = Put(memberMap, {g}, some) /\ guildMap' = Put(guildMap, {g}, full)
  BY <1>4, <1>5 DEF GuildAdd
<1>7. /\ DOMAIN channelMap' = DOMAIN channelMap \cup w.channels \cup w.threads
      /\ \A c \in w.channels \cup w.threads : channelMap'[c] = "live"
      /\ \A c \in DOMAIN channelMap \ (w.channels \cup w.threads) : channelMap'[c] = channelMap[c]
      /\ channelMap' \in [DOMAIN channelMap' -> {"live", "archived"}]
  BY <1>6 DEF Put, GuildsInv, CacheTypeOK
<1>8. /\ DOMAIN guildMap' = DOMAIN guildMap \cup {g} /\ guildMap'[g] = full
      /\ DOMAIN memberMap' = DOMAIN memberMap \cup {g} /\ memberMap'[g] = some
      /\ \A h \in DOMAIN guildMap \ {g} : guildMap'[h] = guildMap[h]
      /\ \A h \in DOMAIN memberMap \ {g} : memberMap'[h] = memberMap[h]
      /\ guildMap' \in [DOMAIN guildMap' -> Cached]
      /\ memberMap' \in [DOMAIN memberMap' -> SUBSET Users]
  BY <1>2, <1>5, <1>6 DEF Put, GuildsInv, CacheTypeOK, Described
<1>9. CacheTypeOK' /\ WorldTypeOK'
  BY <1>3, <1>7, <1>8 DEF GuildsInv, CacheTypeOK, WorldTypeOK
<1>10. Sound(g, w, guildMap', memberMap', channelMap')
  BY <1>5, <1>7, <1>8 DEF Sound
<1>11. w.channels \cup w.threads \subseteq TextChannels \cup Threads
       /\ \A c \in w.channels \cup w.threads : GuildOf[c] = g
  BY <1>2 DEF OwnOnly, Described
<1>12. ASSUME NEW h \in Guilds, Told(h)' PROVE Sound(h, world'[h], guildMap', memberMap', channelMap')
  <2>1. CASE h = g
    BY <1>3, <1>10, <2>1 DEF w
  <2>2. CASE h # g
    <3>1. ToldOf(h)
      BY <1>3, <1>12, <2>2, ToldFacts DEF Told
    <3>2. \A c \in TextChannels \cup Threads : GuildOf[c] = h =>
             /\ c \in DOMAIN channelMap' <=> c \in DOMAIN channelMap
             /\ c \in DOMAIN channelMap => channelMap'[c] = channelMap[c]
      BY <1>7, <1>11, <2>2
    <3>3. h \in DOMAIN guildMap' /\ guildMap'[h] = guildMap[h] /\ memberMap'[h] = memberMap[h]
      BY <1>8, <2>2, <3>1 DEF ToldOf, GuildsInv, CacheTypeOK
    <3> QED BY <1>3, <3>1, <3>2, <3>3, SoundStays
  <2> QED BY <2>1, <2>2
<1>13. \A c \in DOMAIN channelMap' : c \in TextChannels \cup Threads =>
          c \in DOMAIN channelMap \/ c \in Known(world[GuildOf[c]])
  BY <1>7, <1>11 DEF Known, w
<1> QED BY <1>3, <1>9, <1>12, <1>13, TurnStep

\* Remaining a session the bot is told of no guild, and with a new one of none yet.
LEMMA SessionStep ==
    ASSUME GuildsInv, SessionLost \/ onReady
    PROVE  GuildsInv'
<1>1. CASE SessionLost
  <2>1. UNCHANGED <<world, pending, guildMap, memberMap, channelMap>> /\ online' = FALSE
    BY <1>1 DEF SessionLost, worldVars, cacheVars, guildVars, channelVars
  <2>2. WorldTypeOK' /\ CacheTypeOK' /\ \A g \in Guilds : ~Told(g)'
    BY <2>1 DEF GuildsInv, WorldTypeOK, CacheTypeOK, Told
  <2> QED BY <2>1, <2>2, TurnStep
<1>2. CASE onReady
  <2> DEFINE here == {g \in Guilds : world[g].in}
  <2>1. /\ UNCHANGED <<world, channelMap>> /\ online' = TRUE /\ pending' = here
        /\ guildMap' = Put(guildMap, here, Stub) /\ memberMap' = Put(memberMap, here, {})
    BY <1>2 DEF onReady, worldVars
  <2>2. Stub \in Cached
    BY DEF Stub, Cached
  <2>3. WorldTypeOK' /\ \A g \in Guilds : ~Told(g)'
    BY <2>1 DEF GuildsInv, WorldTypeOK, Told
  <2>4. here \subseteq Guilds
    OBVIOUS
  <2> HIDE DEF here
  <2>5. CacheTypeOK'
    BY <2>1, <2>2, <2>4 DEF GuildsInv, CacheTypeOK, Put
  <2> QED BY <2>1, <2>3, <2>5, TurnStep
<1> QED BY <1>1, <1>2

\* An empty cache was told of no guild.
LEMMA GuildsInit == Init => GuildsInv
<1> SUFFICES ASSUME Init PROVE GuildsInv
  OBVIOUS
<1>1. WorldTypeOK /\ CacheTypeOK
  BY DEF Init, WorldTypeOK, CacheTypeOK, Described
<1>2. \A g \in Guilds : OwnOnly(g, world[g]) /\ Heard(g, world[g], channelMap)
  <2> TAKE g \in Guilds
  <2>1. world[g].channels = {} /\ world[g].threads = {} /\ world[g].archived = {} /\ world[g].members = {}
    BY DEF Init
  <2>2. DOMAIN channelMap = {}
    BY DEF Init
  <2> QED BY <2>1, <2>2, FS_EmptySet DEF OwnOnly, Heard
<1>3. \A g \in Guilds : ~Told(g)
  BY DEF Init, Told
<1> QED BY <1>1, <1>2, <1>3 DEF GuildsInv

\* Every event keeps the invariant of the guilds.
LEMMA GuildsNext == GuildsInv /\ [Next]_vars => GuildsInv'
<1> SUFFICES ASSUME GuildsInv, [Next]_vars PROVE GuildsInv'
  OBVIOUS
<1>1. ASSUME NEW g \in Guilds, ChannelsOf(g) \/ Members(g) \/ ThreadsOf(g) \/ RolesOf(g) PROVE GuildsInv'
  BY <1>1, ChannelsStep, MembersStep, ThreadsStep, RolesStep
<1>2. ASSUME NEW g \in Guilds, Join(g) \/ Leave(g) \/ Outage(g) \/ GuildCreate(g) PROVE GuildsInv'
  BY <1>2, ComeAndGo, CreateStep
<1>3. ASSUME NEW c \in TextChannels, MessagesOf(c) PROVE GuildsInv'
  BY <1>3, PostsStep
<1>4. ASSUME NEW t \in Threads, ThreadMembersOf(t) PROVE GuildsInv'
  BY <1>4, ThreadMembersStep
<1>5. ASSUME NEW c \in DMs, DMsOf(c) PROVE GuildsInv'
  BY <1>5, DMsStep
<1>6. CASE UNCHANGED vars
  <2>1. UNCHANGED <<world, online, pending, guildMap, memberMap, channelMap>>
    BY <1>6 DEF vars, worldVars, linkVars, cacheVars, guildVars, channelVars
  <2>2. WorldTypeOK' /\ CacheTypeOK' /\ \A g \in Guilds : Told(g)' <=> Told(g)
    BY <2>1 DEF GuildsInv, WorldTypeOK, CacheTypeOK, Told
  <2> QED BY <2>1, <2>2, TurnStep DEF GuildsInv
<1> QED BY <1>1, <1>2, <1>3, <1>4, <1>5, <1>6, SessionStep DEF Next

\* The channels of a guild, there and gone, are as they were; not its threads.
SamePlaces ==
    \A g \in Guilds : /\ world'[g].channels = world[g].channels
                      /\ world'[g].gone \cap TextChannels = world[g].gone \cap TextChannels

\* A step about people or threads leaves the channels of all guilds as they were.
LEMMA OneGuild ==
    ASSUME WorldTypeOK, NEW g \in Guilds, NEW w, world' = [world EXCEPT ![g] = w], world[g].in,
           UNCHANGED <<online, pending>>,
           w.channels = world[g].channels, w.gone \cap TextChannels = world[g].gone \cap TextChannels
    PROVE  SamePlaces /\ \A h \in Guilds : Told(h)' => Told(h)
  BY DEF WorldTypeOK, SamePlaces, Told

\* Members, roles and voice: no message changes.
LEMMA PeopleStay ==
    ASSUME WorldTypeOK, NEW g \in Guilds, Members(g) \/ RolesOf(g)
    PROVE  SamePlaces /\ UNCHANGED messages /\ \A h \in Guilds : Told(h)' => Told(h)
<1> DEFINE w == world[g]
<1>1. w \in Described
  BY DEF WorldTypeOK
<1>2. /\ UNCHANGED <<online, pending, messages>> /\ world[g].in
      /\ \/ \E x : world' = [world EXCEPT ![g] = [w EXCEPT !.members = x]]
         \/ \E x : world' = [world EXCEPT ![g] = [w EXCEPT !.voice = x]]
         \/ \E x : world' = [world EXCEPT ![g] = [w EXCEPT !.roles = x]]
         \/ world' = [world EXCEPT ![g] = w]
  <2>1. CASE Members(g)
    BY <2>1 DEF Members, Change, GuildMemberAdd, MemberSeen, MemberRemove, voiceStateUpdate, cacheVars, channelVars
  <2>2. CASE RolesOf(g)
    BY <2>2 DEF RolesOf, Change, RoleAdd, RoleRemove, GuildUpdate, cacheVars, channelVars
  <2> QED BY <2>1, <2>2
<1>3. \A x : LET v == [w EXCEPT !.members = x] IN v.channels = w.channels /\ v.gone = w.gone
  BY <1>1 DEF Described
<1>4. \A x : LET v == [w EXCEPT !.voice = x] IN v.channels = w.channels /\ v.gone = w.gone
  BY <1>1 DEF Described
<1>5. \A x : LET v == [w EXCEPT !.roles = x] IN v.channels = w.channels /\ v.gone = w.gone
  BY <1>1 DEF Described
<1> QED BY <1>2, <1>3, <1>4, <1>5, OneGuild

\* Threads: no message of a channel changes.
LEMMA ThreadsStay ==
    ASSUME WorldTypeOK, messages \in [TextChannels -> Seq(Messages)], NEW g \in Guilds, ThreadsOf(g)
    PROVE  SamePlaces /\ UNCHANGED messages /\ \A h \in Guilds : Told(h)' => Told(h)
<1> DEFINE w == world[g]
<1>1. w \in Described
  BY DEF WorldTypeOK
<1>2. \A t \in Threads : \A state : ChannelAdd(t, state) => UNCHANGED messages
  BY DEF ChannelAdd
<1>3. \A t \in Threads : ChannelRemove(t) => UNCHANGED messages
  BY ChannelsAssumption DEF ChannelRemove
<1>4. \A ids : ThreadListSync(g, ids) => UNCHANGED messages
  BY DEF ThreadListSync
<1>5. /\ UNCHANGED <<online, pending, messages>> /\ world[g].in
      /\ \/ \E x : world' = [world EXCEPT ![g] = [w EXCEPT !.threads = x]]
         \/ \E x, y : world' = [world EXCEPT ![g] = [w EXCEPT !.threads = x, !.archived = y]]
         \/ \E t \in Threads : \E x, y : world' = [world EXCEPT ![g] =
                [w EXCEPT !.threads = x, !.archived = y, !.gone = w.gone \cup {t}]]
         \/ world' = [world EXCEPT ![g] = w]
  <2>1. CASE \E ids \in SUBSET w.channels : Told(g) /\ Change(g, w, ThreadListSync(g, ids))
    BY <1>4, <2>1 DEF Change
  <2>2. ASSUME NEW t \in Threads,
             \/ Change(g, [w EXCEPT !.threads = @ \cup {t}], ChannelAdd(t, "live"))
             \/ Change(g, [w EXCEPT !.threads = @ \ {t}, !.archived = @ \cup {t}], ChannelAdd(t, "archived"))
             \/ Change(g, [w EXCEPT !.threads = @ \cup {t}, !.archived = @ \ {t}], ChannelAdd(t, "live"))
             \/ Change(g, [w EXCEPT !.threads = @ \ {t}, !.archived = @ \ {t}, !.gone = @ \cup {t}],
                          IF t \in DOMAIN channelMap THEN ChannelRemove(t) ELSE UNCHANGED cacheVars)
        PROVE  /\ UNCHANGED <<online, pending, messages>> /\ world[g].in
               /\ \/ \E x : world' = [world EXCEPT ![g] = [w EXCEPT !.threads = x]]
                  \/ \E x, y : world' = [world EXCEPT ![g] = [w EXCEPT !.threads = x, !.archived = y]]
                  \/ \E x, y : world' = [world EXCEPT ![g] =
                         [w EXCEPT !.threads = x, !.archived = y, !.gone = w.gone \cup {t}]]
    <3> HIDE DEF w
    <3>1. UNCHANGED cacheVars => UNCHANGED messages
      BY DEF cacheVars, channelVars
    <3>2. UNCHANGED <<online, pending, messages>>
      BY <1>2, <1>3, <2>2, <3>1 DEF Change
    <3>3. world[g].in
      BY <2>2 DEF Change
    <3> QED BY <2>2, <3>2, <3>3, Zenon DEF Change
  <2> HIDE DEF w
  <2>3. \/ \E ids \in SUBSET w.channels : Told(g) /\ Change(g, w, ThreadListSync(g, ids))
        \/ \E t \in Threads :
             \/ Change(g, [w EXCEPT !.threads = @ \cup {t}], ChannelAdd(t, "live"))
             \/ Change(g, [w EXCEPT !.threads = @ \ {t}, !.archived = @ \cup {t}], ChannelAdd(t, "archived"))
             \/ Change(g, [w EXCEPT !.threads = @ \cup {t}, !.archived = @ \ {t}], ChannelAdd(t, "live"))
             \/ Change(g, [w EXCEPT !.threads = @ \ {t}, !.archived = @ \ {t}, !.gone = @ \cup {t}],
                          IF t \in DOMAIN channelMap THEN ChannelRemove(t) ELSE UNCHANGED cacheVars)
    BY Zenon DEF ThreadsOf, w
  <2> QED BY <2>1, <2>2, <2>3, Zenon
<1> HIDE DEF w
<1>6. \A x : LET v == [w EXCEPT !.threads = x] IN v.channels = w.channels /\ v.gone = w.gone
  BY <1>1 DEF Described
<1>7. ASSUME NEW x, NEW y
      PROVE  LET v == [w EXCEPT !.threads = x, !.archived = y] IN v.channels = w.channels /\ v.gone = w.gone
  BY <1>1, ThreadFields DEF Guild
<1>8. ASSUME NEW t \in Threads, NEW x, NEW y
      PROVE  LET v == [w EXCEPT !.threads = x, !.archived = y, !.gone = w.gone \cup {t}]
             IN  v.channels = w.channels /\ v.gone \cap TextChannels = w.gone \cap TextChannels
  <2> DEFINE gs == w.gone \cup {t}
             v == [w EXCEPT !.threads = x, !.archived = y, !.gone = gs]
  <2>1. v = Guild(w.in, w.channels, x, y, gs, w.members, w.roles, w.voice)
    <3> HIDE DEF gs
    <3> QED BY <1>1, GoneFields
  <2> HIDE DEF v
  <2>2. v.channels = w.channels /\ v.gone = w.gone \cup {t}
    BY <2>1 DEF Guild
  <2>3. t \notin TextChannels
    BY ChannelsAssumption
  <2>4. v.gone \cap TextChannels = w.gone \cap TextChannels
    BY <2>2, <2>3
  <2> QED BY <2>2, <2>4 DEF v
<1>9. CASE \E x : world' = [world EXCEPT ![g] = [w EXCEPT !.threads = x]]
  BY <1>5, <1>6, <1>9, OneGuild DEF w
<1>10. CASE \E x, y : world' = [world EXCEPT ![g] = [w EXCEPT !.threads = x, !.archived = y]]
  <2>1. PICK x, y : world' = [world EXCEPT ![g] = [w EXCEPT !.threads = x, !.archived = y]]
    BY <1>10
  <2> DEFINE v == [w EXCEPT !.threads = x, !.archived = y]
  <2>2. v.channels = w.channels /\ v.gone = w.gone
    BY <1>7
  <2> HIDE DEF v
  <2> QED BY <1>5, <2>1, <2>2, OneGuild DEF w, v
<1>11. CASE \E t \in Threads : \E x, y : world' = [world EXCEPT ![g] =
                [w EXCEPT !.threads = x, !.archived = y, !.gone = w.gone \cup {t}]]
  <2>4. PICK t \in Threads : \E x, y : world' = [world EXCEPT ![g] =
                [w EXCEPT !.threads = x, !.archived = y, !.gone = w.gone \cup {t}]]
    BY <1>11
  <2>1. PICK x, y : world' = [world EXCEPT ![g] =
                [w EXCEPT !.threads = x, !.archived = y, !.gone = w.gone \cup {t}]]
    BY <2>4
  <2> DEFINE v == [w EXCEPT !.threads = x, !.archived = y, !.gone = w.gone \cup {t}]
  <2>2. v.channels = w.channels /\ v.gone \cap TextChannels = w.gone \cap TextChannels
    BY <1>8
  <2>3. world' = [world EXCEPT ![g] = v]
    BY <2>1
  <2> HIDE DEF v
  <2> QED BY <1>5, <2>2, <2>3, OneGuild DEF w
<1>12. CASE world' = [world EXCEPT ![g] = w]
  BY <1>5, <1>12, OneGuild DEF w
<1> QED BY <1>5, <1>9, <1>10, <1>11, <1>12

\* A guild that comes or goes: no message changes, and none is told of by it.
LEMMA ComeAndGoStay ==
    ASSUME WorldTypeOK, NEW g \in Guilds, Join(g) \/ Leave(g) \/ Outage(g)
    PROVE  /\ SamePlaces /\ UNCHANGED <<posted, messages>>
           /\ \A h \in Guilds : Told(h)' => Told(h)
<1>1. /\ UNCHANGED <<posted, online, messages>>
      /\ world' = world \/ \E b \in BOOLEAN : world' = [world EXCEPT ![g].in = b]
      /\ \A h \in Guilds \ {g} : h \in pending => h \in pending'
  BY DEF Join, Leave, Outage, Gone, GuildRemove, cacheVars, channelVars, worldVars
<1>2. \A h \in Guilds \ {g} : world'[h] = world[h]
  BY <1>1 DEF WorldTypeOK
<1>3. world'[g].channels = world[g].channels /\ world'[g].gone = world[g].gone
  BY <1>1 DEF WorldTypeOK, Described
<1>4. ~Told(g)'
  <2>1. CASE Join(g)
    BY <2>1 DEF Join, Told
  <2>2. CASE Leave(g)
    BY <2>2 DEF Leave, Told, WorldTypeOK, Described
  <2>3. CASE Outage(g)
    BY <2>3 DEF Outage, Told
  <2> QED BY <2>1, <2>2, <2>3
<1>5. \A h \in Guilds \ {g} : Told(h)' => Told(h)
  BY <1>1, <1>2 DEF Told
<1>6. SamePlaces
  BY <1>2, <1>3 DEF SamePlaces
<1> QED BY <1>1, <1>4, <1>5, <1>6

\* No messages are kept of anything.
LEMMA NoMessages == \A S : Kept(<< >>, S)
  BY DEF Kept, IsInjective, ToSet

\* Nothing is posted, and the bot is told of no guild it was not told of.
LEMMA KeptStays ==
    ASSUME MessagesInv, SamePlaces, UNCHANGED <<posted, messages>>,
           \A g \in Guilds : Told(g)' => Told(g)
    PROVE  MessagesInv'
<1> SUFFICES ASSUME NEW c \in TextChannels
             PROVE  LET w == world'[GuildOf[c]]
                    IN  /\ c \notin w.channels \cup w.gone => messages[c] = << >>
                        /\ Told(GuildOf[c])' /\ c \in w.channels => Kept(messages[c], posted[c])
  BY DEF MessagesInv
<1>1. GuildOf[c] \in Guilds
  BY ChannelsAssumption
<1> QED BY <1>1 DEF MessagesInv, SamePlaces

\* One channel's messages change, or what was posted in it.
LEMMA OneChannel ==
    ASSUME MessagesInv, NEW c \in TextChannels, NEW s \in Seq(Messages), NEW S \in SUBSET Messages,
           messages' = [messages EXCEPT ![c] = s], posted' = [posted EXCEPT ![c] = S],
           UNCHANGED <<world, online, pending>>, c \in world[GuildOf[c]].channels,
           Told(GuildOf[c]) => Kept(s, S)
    PROVE  MessagesInv'
<1>1. /\ messages'[c] = s /\ posted'[c] = S
      /\ \A d \in TextChannels \ {c} : messages'[d] = messages[d] /\ posted'[d] = posted[d]
      /\ messages' \in [TextChannels -> Seq(Messages)] /\ posted' \in [TextChannels -> SUBSET Messages]
  BY DEF MessagesInv
<1>2. \A g : Told(g)' <=> Told(g)
  BY DEF Told
<1> QED BY <1>1, <1>2 DEF MessagesInv

\* A message posted, edited or deleted, or some of them deleted together.
LEMMA MessagesStep ==
    ASSUME WorldTypeOK, MessagesInv, NEW c \in TextChannels, MessagesOf(c)
    PROVE  MessagesInv'
<1> DEFINE g == GuildOf[c]
           s == messages[c]
<1>1. PICK S \in SUBSET Messages, m \in Messages, T \in SUBSET Messages :
         /\ c \in world[g].channels /\ posted' = [posted EXCEPT ![c] = S]
         /\ world' = [world EXCEPT ![g] = world[g]] /\ UNCHANGED <<online, pending>>
         /\ \/ ~Told(g) /\ UNCHANGED messages
            \/ S = posted[c] \cup {m} /\ MessageAdd(c, m)
            \/ S = posted[c] \ T /\ MessageDeleteBulk(c, T)
            \/ ~Told(g) /\ UNCHANGED cacheVars
  <2>1. posted[c] \in SUBSET Messages
    BY DEF MessagesInv
  <2>2. CASE \E m \in Messages \ posted[c] : Posts(c, posted[c] \cup {m}, MessageAdd(c, m))
    BY <2>1, <2>2 DEF Posts, Change
  <2>3. CASE \E m \in posted[c] : Told(GuildOf[c]) /\ Posts(c, posted[c], MessageAdd(c, m))
    <3>1. PICK m \in posted[c] : Told(GuildOf[c]) /\ Posts(c, posted[c], MessageAdd(c, m))
      BY <2>3
    <3>2. posted[c] = posted[c] \cup {m} /\ m \in Messages
      BY <2>1
    <3> QED BY <2>1, <3>1, <3>2 DEF Posts, Change
  <2>4. CASE \E T \in SUBSET posted[c] : T # {} /\ Posts(c, posted[c] \ T, MessageDeleteBulk(c, T))
    <3>1. PICK T \in SUBSET posted[c] : T # {} /\ Posts(c, posted[c] \ T, MessageDeleteBulk(c, T))
      BY <2>4
    <3>2. PICK m : m \in T
      BY <3>1
    <3>3. m \in Messages /\ T \in SUBSET Messages /\ posted[c] \ T \in SUBSET Messages
      BY <2>1, <3>2
    <3> QED BY <3>1, <3>3 DEF Posts, Change
  <2> QED BY <2>2, <2>3, <2>4 DEF MessagesOf
<1>2. UNCHANGED <<world, online, pending>>
  BY <1>1 DEF WorldTypeOK
<1>3. s \in Seq(Messages) /\ (Told(g) => Kept(s, posted[c])) /\ messages \in [TextChannels -> Seq(Messages)]
  BY <1>1 DEF MessagesInv
<1>4. CASE UNCHANGED messages /\ ~Told(g)
  <2>1. messages' = [messages EXCEPT ![c] = s]
    BY <1>3, <1>4
  <2> QED BY <1>1, <1>2, <1>3, <1>4, <2>1, OneChannel
<1>5. CASE S = posted[c] \cup {m} /\ MessageAdd(c, m)
  <2>1. CASE m \in ToSet(s)
    <3>1. messages' = [messages EXCEPT ![c] = s]
      BY <1>3, <1>5, <2>1 DEF MessageAdd
    <3>2. Told(g) => Kept(s, S)
      BY <1>3, <1>5 DEF Kept
    <3> HIDE DEF s, g
    <3> QED BY <1>1, <1>2, <1>3, <3>1, <3>2, OneChannel DEF g
  <2>2. CASE m \notin ToSet(s)
    <3> DEFINE a == Append(s, m)
               t == Newest(a)
    <3>1. messages' = [messages EXCEPT ![c] = t]
      BY <1>5, <2>2 DEF MessageAdd
    <3> HIDE DEF s, g
    <3>2. a \in Seq(Messages) /\ ToSet(a) = ToSet(s) \cup {m} /\ (IsInjective(s) => IsInjective(a))
      BY <1>3, <2>2, AppendFacts
    <3> HIDE DEF a
    <3>3. t \in Seq(Messages) /\ ToSet(t) \subseteq ToSet(a) /\ (IsInjective(a) => IsInjective(t))
      BY <3>2, NewestFacts
    <3> HIDE DEF t
    <3>4. Told(g) => Kept(t, S)
      BY <1>3, <1>5, <3>2, <3>3 DEF Kept
    <3> QED BY <1>1, <1>2, <3>1, <3>3, <3>4, OneChannel DEF g
  <2> QED BY <2>1, <2>2
<1>6. CASE S = posted[c] \ T /\ MessageDeleteBulk(c, T)
  <2> DEFINE t == Remaining(s, T)
  <2>1. messages' = [messages EXCEPT ![c] = t]
    BY <1>6 DEF MessageDeleteBulk
  <2> HIDE DEF s, g
  <2>2. t \in Seq(Messages) /\ ToSet(t) \subseteq ToSet(s) \ T /\ (IsInjective(s) => IsInjective(t))
    BY <1>3, RemainingFacts
  <2> HIDE DEF t
  <2>3. Told(g) => Kept(t, S)
    BY <1>3, <1>6, <2>2 DEF Kept
  <2> QED BY <1>1, <1>2, <2>1, <2>2, <2>3, OneChannel DEF g
<1> QED BY <1>1, <1>4, <1>5, <1>6 DEF cacheVars, channelVars

\* A channel that comes has no messages yet, and one that goes none any more.
LEMMA ChannelsMessages ==
    ASSUME GuildsInv, MessagesInv, NEW g \in Guilds, ChannelsOf(g), UNCHANGED posted
    PROVE  MessagesInv'
<1> DEFINE w == world[g]
<1>1. w \in Described /\ world \in [Guilds -> Described]
  BY DEF GuildsInv, WorldTypeOK
<1>2. PICK c \in TextChannels : GuildOf[c] = g
            /\ \/ c \notin w.channels \cup w.gone
                  /\ Change(g, [w EXCEPT !.channels = @ \cup {c}], ChannelAdd(c, "live"))
               \/ c \in w.channels /\ Told(g) /\ Change(g, w, ChannelAdd(c, "live"))
               \/ c \in w.channels
                  /\ Change(g, [w EXCEPT !.channels = @ \ {c}, !.gone = @ \cup {c}], ChannelRemove(c))
  BY DEF ChannelsOf
<1>3. ASSUME NEW v, world' = [world EXCEPT ![g] = v], UNCHANGED <<online, pending>>, w.in
      PROVE  /\ world'[g] = v /\ \A h \in Guilds \ {g} : world'[h] = world[h]
             /\ \A h \in Guilds : Told(h)' => Told(h)
  BY <1>1, <1>3 DEF Told
<1>4. CASE c \in w.channels /\ Told(g) /\ Change(g, w, ChannelAdd(c, "live"))
  <2>1. UNCHANGED <<world, online, pending, messages>>
    BY <1>1, <1>4 DEF Change, ChannelAdd
  <2> QED BY <2>1, KeptStays DEF SamePlaces, Told
<1> HIDE DEF w
<1>5. CASE c \notin w.channels \cup w.gone
           /\ Change(g, [w EXCEPT !.channels = @ \cup {c}], ChannelAdd(c, "live"))
  <2> DEFINE v == [w EXCEPT !.channels = w.channels \cup {c}]
  <2>1. v.channels = w.channels \cup {c} /\ v.gone = w.gone
    BY <1>1 DEF Described
  <2>2. world' = [world EXCEPT ![g] = v] /\ UNCHANGED <<online, pending, messages>> /\ w.in
    BY <1>5 DEF Change, ChannelAdd, cacheVars, channelVars, w
  <2> HIDE DEF v
  <2>3. /\ world'[g] = v /\ \A h \in Guilds \ {g} : world'[h] = world[h]
        /\ \A h \in Guilds : Told(h)' => Told(h)
    BY <1>3, <2>2
  <2>4. ASSUME NEW d \in TextChannels, d # c
        PROVE  LET x == world'[GuildOf[d]]
               IN  /\ d \notin x.channels \cup x.gone => messages'[d] = << >>
                   /\ Told(GuildOf[d])' /\ d \in x.channels => Kept(messages'[d], posted'[d])
    <3>1. GuildOf[d] \in Guilds
      BY ChannelsAssumption
    <3>2. CASE GuildOf[d] = g
      BY <1>1, <2>1, <2>2, <2>3, <2>4, <3>2 DEF MessagesInv, w
    <3>3. CASE GuildOf[d] # g
      BY <2>2, <2>3, <3>1, <3>3 DEF MessagesInv
    <3> QED BY <3>2, <3>3
  <2>5. messages[c] = << >> /\ c \in world'[GuildOf[c]].channels
    BY <1>2, <1>5, <2>1, <2>3 DEF MessagesInv, w
  <2> QED BY <2>2, <2>4, <2>5, NoMessages DEF MessagesInv
<1>6. CASE c \in w.channels
           /\ Change(g, [w EXCEPT !.channels = @ \ {c}, !.gone = @ \cup {c}], ChannelRemove(c))
  <2> DEFINE u == [w EXCEPT !.channels = w.channels \ {c}]
             v == [w EXCEPT !.channels = w.channels \ {c}, !.gone = w.gone \cup {c}]
  <2>1. u = Guild(w.in, w.channels \ {c}, w.threads, w.archived, w.gone, w.members, w.roles, w.voice)
    BY <1>1, GuildFields
  <2>2. v = [u EXCEPT !.gone = w.gone \cup {c}]
    OBVIOUS
  <2>3. world' = [world EXCEPT ![g] = v] /\ UNCHANGED <<online, pending>> /\ w.in
        /\ (ChannelRemove(c) \/ UNCHANGED messages)
    BY <1>6 DEF Change, cacheVars, channelVars, w
  <2> HIDE DEF u, v
  <2>4. v.channels = w.channels \ {c} /\ v.gone = w.gone \cup {c}
    BY <2>1, <2>2 DEF Guild
  <2>5. /\ world'[g] = v /\ \A h \in Guilds \ {g} : world'[h] = world[h]
        /\ \A h \in Guilds : Told(h)' => Told(h)
    BY <1>3, <2>3
  <2>6. /\ messages' \in [TextChannels -> Seq(Messages)]
        /\ \A d \in TextChannels \ {c} : messages'[d] = messages[d]
    <3>1. CASE UNCHANGED messages
      BY <3>1 DEF MessagesInv
    <3>2. CASE ChannelRemove(c)
      <4>1. messages' = [d \in TextChannels |-> IF d = c THEN << >> ELSE messages[d]]
        BY <3>2 DEF ChannelRemove
      <4> QED BY <4>1 DEF MessagesInv
    <3> QED BY <2>3, <3>1, <3>2
  <2>7. ASSUME NEW d \in TextChannels, d # c
        PROVE  LET x == world'[GuildOf[d]]
               IN  /\ d \notin x.channels \cup x.gone => messages'[d] = << >>
                   /\ Told(GuildOf[d])' /\ d \in x.channels => Kept(messages'[d], posted'[d])
    <3>1. GuildOf[d] \in Guilds
      BY ChannelsAssumption
    <3>2. CASE GuildOf[d] = g
      BY <2>4, <2>5, <2>6, <2>7, <3>2 DEF MessagesInv, w
    <3>3. CASE GuildOf[d] # g
      BY <2>5, <2>6, <2>7, <3>1, <3>3 DEF MessagesInv
    <3> QED BY <3>2, <3>3
  <2>8. c \in world'[GuildOf[c]].gone /\ c \notin world'[GuildOf[c]].channels
    BY <1>2, <2>4, <2>5
  <2> QED BY <2>6, <2>7, <2>8 DEF MessagesInv
<1> QED BY <1>2, <1>4, <1>5, <1>6

\* Private channels have no messages here.
LEMMA DMsMessages ==
    ASSUME MessagesInv, NEW c \in DMs, DMsOf(c)
    PROVE  MessagesInv'
<1>1. UNCHANGED messages
  BY ChannelsAssumption DEF DMsOf, ChannelAdd, ChannelRemove, MessagesInv
<1>2. UNCHANGED <<world, posted, online, pending>>
  BY DEF DMsOf, worldVars, linkVars
<1> QED BY <1>1, <1>2, KeptStays DEF SamePlaces, Told

\* A guild that is described starts with no messages in its channels.
LEMMA CreateMessages ==
    ASSUME MessagesInv, NEW g \in Guilds, GuildCreate(g)
    PROVE  MessagesInv'
<1>1. UNCHANGED <<world, posted, online>> /\ pending' = pending \ {g}
      /\ messages' = [c \in TextChannels |-> IF c \in world[g].channels THEN << >> ELSE messages[c]]
  BY DEF GuildCreate, GuildAdd, worldVars
<1>2. \A c \in TextChannels : messages'[c] = IF c \in world[g].channels THEN << >> ELSE messages[c]
  BY <1>1
<1>3. messages' \in [TextChannels -> Seq(Messages)]
  BY <1>1 DEF MessagesInv
<1>4. ASSUME NEW c \in TextChannels
      PROVE  LET w == world'[GuildOf[c]]
             IN  /\ c \notin w.channels \cup w.gone => messages'[c] = << >>
                 /\ Told(GuildOf[c])' /\ c \in w.channels => Kept(messages'[c], posted'[c])
  <2>1. CASE c \in world[g].channels
    BY <1>1, <1>2, <2>1, NoMessages
  <2>2. CASE c \notin world[g].channels
    BY <1>1, <1>2, <2>2 DEF MessagesInv, Told
  <2> QED BY <2>1, <2>2
<1> QED BY <1>1, <1>3, <1>4 DEF MessagesInv

\* With the session lost, or new, no guild was told of.
LEMMA SessionMessages ==
    ASSUME MessagesInv, SessionLost \/ onReady
    PROVE  MessagesInv'
<1>1. UNCHANGED <<world, posted, messages>>
  BY DEF SessionLost, onReady, worldVars, cacheVars, channelVars
<1>2. \A g \in Guilds : ~Told(g)'
  BY DEF SessionLost, onReady, Told, worldVars
<1> QED BY <1>1, <1>2, KeptStays DEF SamePlaces

\* An empty cache holds no messages.
LEMMA MessagesInit == Init => MessagesInv
<1> SUFFICES ASSUME Init PROVE MessagesInv
  OBVIOUS
<1>1. posted \in [TextChannels -> SUBSET Messages] /\ messages \in [TextChannels -> Seq(Messages)]
  BY DEF Init
<1>2. \A c \in TextChannels : messages[c] = << >>
  BY DEF Init
<1> QED BY <1>1, <1>2, NoMessages DEF MessagesInv

\* Every event keeps the invariant of the messages.
LEMMA MessagesNext == GuildsInv /\ MessagesInv /\ [Next]_vars => MessagesInv'
<1> SUFFICES ASSUME GuildsInv, MessagesInv, [Next]_vars PROVE MessagesInv'
  OBVIOUS
<1>1. WorldTypeOK /\ messages \in [TextChannels -> Seq(Messages)]
  BY DEF GuildsInv, MessagesInv
<1>2. ASSUME NEW g \in Guilds, Members(g) \/ ThreadsOf(g) \/ RolesOf(g), UNCHANGED posted PROVE MessagesInv'
  BY <1>1, <1>2, PeopleStay, ThreadsStay, KeptStays
<1>3. ASSUME NEW g \in Guilds, ChannelsOf(g), UNCHANGED posted PROVE MessagesInv'
  BY <1>3, ChannelsMessages
<1>4. ASSUME NEW g \in Guilds, Join(g) \/ Leave(g) \/ Outage(g) PROVE MessagesInv'
  BY <1>1, <1>4, ComeAndGoStay, KeptStays
<1>5. ASSUME NEW g \in Guilds, GuildCreate(g) PROVE MessagesInv'
  BY <1>5, CreateMessages
<1>6. ASSUME NEW c \in TextChannels, MessagesOf(c) PROVE MessagesInv'
  BY <1>1, <1>6, MessagesStep
<1>7. ASSUME NEW t \in Threads, ThreadMembersOf(t) PROVE MessagesInv'
  <2>1. UNCHANGED <<world, online, pending, posted, messages>>
    BY <1>1, <1>7, ThreadMembersStep DEF ThreadMembersOf, Change, WorldTypeOK
  <2> QED BY <2>1, KeptStays DEF SamePlaces, Told
<1>8. ASSUME NEW c \in DMs, DMsOf(c) PROVE MessagesInv'
  BY <1>8, DMsMessages
<1>9. CASE UNCHANGED vars
  <2>1. UNCHANGED <<world, online, pending, posted, messages>>
    BY <1>9 DEF vars, worldVars, linkVars, cacheVars, channelVars
  <2> QED BY <2>1, KeptStays DEF SamePlaces, Told
<1> QED BY <1>2, <1>3, <1>4, <1>5, <1>6, <1>7, <1>8, <1>9, SessionMessages DEF Next

\* The invariant holds all along.
LEMMA CacheAlwaysSound == Spec => []CacheInv
<1>1. Init => CacheInv
  BY GuildsInit, MessagesInit DEF CacheInv
<1>2. CacheInv /\ [Next]_vars => CacheInv'
  BY GuildsNext, MessagesNext DEF CacheInv
<1> QED BY <1>1, <1>2, PTL DEF Spec

\* Whatever events come, in whatever order and after however many lost sessions, what
\* state.go holds of a guild it was told of is what Discord has: GuildRight.
THEOREM GuildAlwaysRight == Spec => []GuildRight
<1>1. CacheInv => GuildRight
  BY DEF CacheInv, GuildsInv, Sound, GuildRight
<1> QED BY <1>1, CacheAlwaysSound, PTL

\* The maps by id and the lists inside each guild never disagree: CachesAgree.
THEOREM CachesAlwaysAgree == Spec => []CachesAgree
<1>1. CacheInv => CachesAgree
  BY DEF CacheInv, GuildsInv, Sound, CachesAgree
<1> QED BY <1>1, CacheAlwaysSound, PTL

\* The messages held of a channel are distinct and were posted there and not deleted,
\* for every MaxMessageCount: MessagesRight.
THEOREM MessagesAlwaysRight == Spec => []MessagesRight
<1>1. CacheInv => MessagesRight
  BY DEF CacheInv, MessagesInv, MessagesRight, Kept
<1> QED BY <1>1, CacheAlwaysSound, PTL
------------------------------------------------------------------------------------

\* There is one overwrite for an id, so which is found first does not matter.
LEMMA TheOverwrite ==
    ASSUME NEW c \in PermChannels, NEW types, NEW id, NEW may, NEW p
    PROVE  LET level == {o \in ToSet(c) : o.type \in types /\ o.id = id}
           IN  p \in ApplyFirst(may, c, types, id) <=>
                   IF \E o \in level : Says(o, p) THEN \E o \in level : p \in o.allow
                   ELSE p \in may
<1> DEFINE level == {o \in ToSet(c) : o.type \in types /\ o.id = id}
           hits == {k \in DOMAIN c : c[k].type \in types /\ c[k].id = id}
           first == CHOOSE k \in hits : \A l \in hits : k <= l
<1>1. CASE hits = {}
  <2>1. level = {}
    BY <1>1 DEF ToSet
  <2> QED BY <1>1, <2>1 DEF ApplyFirst
<1>2. ASSUME NEW k \in hits PROVE first = k /\ level = {c[k]}
  <2>1. hits = {k}
    BY <1>2, OverwritesAssumption
  <2>2. level = {c[k]}
    BY <2>1 DEF ToSet
  <2>3. k <= k
    <3>1. k \in 1..Len(c)
      BY <1>2, OverwritesAssumption
    <3> QED BY <3>1
  <2> QED BY <2>1, <2>2, <2>3
<1>3. CASE hits # {}
  <2>1. PICK k \in hits : TRUE
    BY <1>3
  <2>2. first = k /\ level = {c[k]}
    BY <1>2
  <2>3. ApplyFirst(may, c, types, id) = (may \ c[k].deny) \cup c[k].allow
    BY <1>3, <2>2 DEF ApplyFirst
  <2> HIDE DEF level, first, hits
  <2>4. p \in ApplyFirst(may, c, types, id) <=> IF Says(c[k], p) THEN p \in c[k].allow ELSE p \in may
    BY <2>3 DEF Says
  <2>5. (\E o \in level : Says(o, p)) <=> Says(c[k], p)
    BY <2>2
  <2>6. (\E o \in level : p \in o.allow) <=> p \in c[k].allow
    BY <2>2
  <2>7. p \in ApplyFirst(may, c, types, id) <=>
          IF \E o \in level : Says(o, p) THEN \E o \in level : p \in o.allow ELSE p \in may
    BY <2>4, <2>5, <2>6
  <2> QED BY <2>7 DEF level
<1> QED BY <1>1, <1>3

\* The guild and the channel asked about are as Discord lets them be.
Held == guild \in PermGuilds /\ channel \in PermChannels

\* Each level in turn gives way to the one above it.
LEMMA Levels ==
    ASSUME Held, NEW p, NEW base, p \in base <=> (\E r \in Mine : p \in r.permissions) \/ (IsAdmin /\ p \in All)
    PROVE  LET ofAll == ApplyFirst(base, channel, {"role", "member"}, Everyone)
               mine == RoleOverwrites(ofAll, channel, roles)
               own == ApplyFirst(mine, channel, {"member"}, Asker)
           IN  p \in own <=>
                   IF Speaking(p) = {} THEN p \in base
                   ELSE \E n \in Speaking(p) : /\ \A k \in Speaking(p) : n <= k
                                               /\ \E o \in Level(n) : p \in o.allow
<1> DEFINE ofAll == ApplyFirst(base, channel, {"role", "member"}, Everyone)
           mine == RoleOverwrites(ofAll, channel, roles)
           own == ApplyFirst(mine, channel, {"member"}, Asker)
           Speaks(n) == \E o \in Level(n) : Says(o, p)
           Allows(n) == \E o \in Level(n) : p \in o.allow
<1> USE DEF Held
<1>1. Level(3) = {o \in ToSet(channel) : o.type \in {"role", "member"} /\ o.id = Everyone}
  BY OverwritesAssumption DEF Level
<1>2. Level(2) = {o \in ToSet(channel) : o.type = "role" /\ o.id \in roles}
  BY DEF Level
<1>3. Level(1) = {o \in ToSet(channel) : o.type \in {"member"} /\ o.id = Asker}
  BY DEF Level
<1>4. p \in ofAll <=> IF Speaks(3) THEN Allows(3) ELSE p \in base
  BY <1>1, TheOverwrite
<1>5. p \in own <=> IF Speaks(1) THEN Allows(1) ELSE p \in mine
  BY <1>3, TheOverwrite
<1>6. p \in mine <=> IF Speaks(2) THEN Allows(2) ELSE p \in ofAll
  <2> HIDE DEF ofAll
  <2>1. p \in mine <=> \/ p \in ofAll /\ ~\E o \in Level(2) : p \in o.deny
                       \/ Allows(2)
    BY <1>2 DEF RoleOverwrites
  <2>2. Speaks(2) <=> (\E o \in Level(2) : p \in o.deny) \/ Allows(2)
    BY DEF Says
  <2> QED BY <2>1, <2>2
<1>7. Speaking(p) = {n \in 1..3 : Speaks(n)}
  BY DEF Speaking
<1> HIDE DEF ofAll, mine, own, Speaks, Allows
<1>8. CASE Speaks(1)
  <2>1. 1 \in Speaking(p) /\ \A n \in Speaking(p) : 1 <= n /\ (n <= 1 => n = 1)
    BY <1>7, <1>8
  <2> QED BY <1>5, <1>8, <2>1 DEF Allows, own, mine, ofAll
<1>9. CASE ~Speaks(1) /\ Speaks(2)
  <2>1. 2 \in Speaking(p) /\ \A n \in Speaking(p) : 2 <= n /\ (n <= 2 => n = 2)
    BY <1>7, <1>9
  <2> QED BY <1>5, <1>6, <1>9, <2>1 DEF Allows, own, mine, ofAll
<1>10. CASE ~Speaks(1) /\ ~Speaks(2) /\ Speaks(3)
  <2>1. 3 \in Speaking(p) /\ \A n \in Speaking(p) : 3 <= n /\ (n <= 3 => n = 3)
    BY <1>7, <1>10
  <2> QED BY <1>4, <1>5, <1>6, <1>10, <2>1 DEF Allows, own, mine, ofAll
<1>11. CASE ~Speaks(1) /\ ~Speaks(2) /\ ~Speaks(3)
  <2>1. Speaking(p) = {}
    BY <1>7, <1>11
  <2> QED BY <1>4, <1>5, <1>6, <1>11, <2>1 DEF own, mine, ofAll
<1> QED BY <1>8, <1>9, <1>10, <1>11

\* The roles grant what some role of the member's grants, or everything.
LEMMA OfRoles ==
    ASSUME Held
    PROVE  LET base == RolePermissions(guild, roles)
           IN  /\ All \cup base \subseteq Permissible
               /\ \A p : p \in base <=> (\E r \in Mine : p \in r.permissions) \/ (IsAdmin /\ p \in All)
<1> DEFINE own == UNION {r.permissions : r \in Mine}
<1>1. RolePermissions(guild, roles) = IF Administrator \in own THEN own \cup All ELSE own
  BY DEF RolePermissions, Mine
<1>2. Administrator \in own <=> IsAdmin
  BY DEF IsAdmin
<1>3. All \subseteq Permissible /\ \A r \in Mine : r.permissions \subseteq Permissible
  BY DEF Mine, Permissible
<1> QED BY <1>1, <1>2, <1>3

\* memberPermissions computes Discord's hierarchy.
LEMMA RightTold ==
    ASSUME Held
    PROVE  memberPermissions(guild, channel, Asker, roles) = {p \in Permissible : Granted(p)}
<1> DEFINE base == RolePermissions(guild, roles)
           own == ApplyFirst(RoleOverwrites(ApplyFirst(base, channel, {"role", "member"}, Everyone),
                                            channel, roles), channel, {"member"}, Asker)
           ByLevel(p) == IF Speaking(p) = {} THEN p \in base
                         ELSE \E n \in Speaking(p) : /\ \A k \in Speaking(p) : n <= k
                                                     /\ \E o \in Level(n) : p \in o.allow
<1>1. memberPermissions(guild, channel, Asker, roles) =
        IF Asker = guild.owner THEN All
        ELSE IF Administrator \in own THEN own \cup AllChannel ELSE own
  BY DEF memberPermissions
<1>2. \A p : p \in base <=> (\E r \in Mine : p \in r.permissions) \/ (IsAdmin /\ p \in All)
  BY OfRoles
<1>3. All \cup base \subseteq Permissible
  BY OfRoles
<1> HIDE DEF base
<1>4. \A p : p \in own <=> ByLevel(p)
  BY <1>2, Levels
<1>5. \A n \in 1..3 : \A o \in Level(n) : o.allow \subseteq Permissible /\ ~Says(o, Administrator)
  <2>1. \A n \in 1..3 : Level(n) \subseteq ToSet(channel)
    BY DEF Level
  <2>2. ASSUME NEW o \in ToSet(channel) PROVE o.allow \subseteq Permissible
    <3>1. o.allow \in {q.allow : q \in ToSet(channel)}
      OBVIOUS
    <3> QED BY <3>1 DEF Permissible
  <2>3. \A o \in ToSet(channel) : ~Says(o, Administrator)
    BY OverwritesAssumption DEF Held, Says
  <2> QED BY <2>1, <2>2, <2>3
<1>6. own \subseteq Permissible
  BY <1>3, <1>4, <1>5 DEF Speaking
<1>7. Administrator \in own <=> IsAdmin
  <2>1. Speaking(Administrator) = {}
    BY <1>5 DEF Speaking
  <2>2. ByLevel(Administrator) <=> Administrator \in base
    BY <2>1
  <2>3. Administrator \in base <=> IsAdmin
    BY <1>2, AllAssumption DEF IsAdmin
  <2> QED BY <1>4, <2>2, <2>3
<1>8. ASSUME NEW p \in Permissible
      PROVE  p \in memberPermissions(guild, channel, Asker, roles) <=> Granted(p)
  <2>1. CASE Asker = guild.owner
    BY <1>1, <2>1 DEF Granted
  <2>2. CASE Asker # guild.owner
    <3>1. p \in memberPermissions(guild, channel, Asker, roles) <=>
            p \in own \/ (IsAdmin /\ p \in AllChannel)
      BY <1>1, <1>7, <2>2
    <3>2. Granted(p) <=> ByLevel(p) \/ (IsAdmin /\ p \in AllChannel)
      BY <1>2, <2>2 DEF Granted
    <3> HIDE DEF own, ByLevel
    <3> QED BY <1>4, <3>1, <3>2
  <2> QED BY <2>1, <2>2
<1>9. memberPermissions(guild, channel, Asker, roles) \subseteq Permissible
  BY <1>1, <1>3, <1>6, AllAssumption
<1> QED BY <1>8, <1>9

\* The invariant of the questions: who is asked about never changes.
PermInv == Held /\ HierarchyKept

\* For every guild, roles and overwrites of a channel, whichever way the permissions
\* are asked and whatever the cache holds, they are those of the hierarchy.
THEOREM HierarchyAlwaysKept == PermInit /\ [][PermNext]_permVars => []HierarchyKept
<1>1. PermInit => PermInv
  BY DEF PermInit, PermInv, Held, HierarchyKept, NotTold
<1>2. PermInv /\ [PermNext]_permVars => PermInv'
  <2> SUFFICES ASSUME PermInv, [PermNext]_permVars PROVE PermInv'
    OBVIOUS
  <2>1. UNCHANGED <<guild, channel, roles>>
    BY DEF PermNext, AskState, AskMessage, AskSession, AskColour, permVars
  <2>2. \/ UNCHANGED answer
        \/ \E colour : answer' = [of |-> "colour", may |-> {}, colour |-> colour]
        \/ answer' = [of |-> "permissions",
                      may |-> memberPermissions(guild, channel, Asker, roles), colour |-> 0]
        \/ Asker = guild.owner /\ answer' = [of |-> "permissions", may |-> All, colour |-> 0]
    BY DEF PermNext, AskState, AskMessage, AskSession, AskColour, Tell, permVars
  <2>3. memberPermissions(guild, channel, Asker, roles) = {p \in Permissible : Granted(p)}
    BY RightTold DEF PermInv
  <2>4. Asker = guild.owner => {p \in Permissible : Granted(p)} = All
    BY OfRoles DEF Granted, PermInv
  <2>5. answer'.of = "permissions" => answer'.may = {p \in Permissible : Granted(p)}
    BY <2>2, <2>3, <2>4 DEF PermInv, HierarchyKept
  <2>6. Permissible' = Permissible /\ \A p : Granted(p)' <=> Granted(p)
    BY <2>1 DEF Granted, Speaking, Level, Mine, IsAdmin, Permissible
  <2>7. HierarchyKept'
    BY <2>5, <2>6 DEF HierarchyKept
  <2> QED BY <2>1, <2>7 DEF PermInv, Held
<1>3. PermInv => HierarchyKept
  BY DEF PermInv
<1> QED BY <1>1, <1>2, <1>3, PTL
---------------------------------------------------------------------------------------
(* Requests and their buckets. *)

Reactions == {"MessageReactionAdd", "MessageReactionRemove", "MessageReactions"}

\* A name whose last four segments are those of the custom limit.
Spaced(b) ==
    \/ Len(b) = 4 /\ b[1] = "" /\ b[2] = "reactions" /\ b[3] = "" /\ b[4] = ""
    \/ Len(b) = 5 /\ b[2] = "" /\ b[3] = "reactions" /\ b[4] = "" /\ b[5] = ""
    \/ Len(b) = 6 /\ b[3] = "" /\ b[4] = "reactions" /\ b[5] = "" /\ b[6] = ""
    \/ Len(b) = 7 /\ b[4] = "" /\ b[5] = "reactions" /\ b[6] = "" /\ b[7] = ""
    \/ Len(b) = 8 /\ b[5] = "" /\ b[6] = "reactions" /\ b[7] = "" /\ b[8] = ""
    \/ Len(b) = 9 /\ b[6] = "" /\ b[7] = "reactions" /\ b[8] = "" /\ b[9] = ""

\* No name has more than nine segments.
Segmented(b) == Len(b) \in 0..9 /\ b = [i \in 1..Len(b) |-> b[i]]
Ordinary(b) == Segmented(b) /\ ~Spaced(b)

\* The guild or channel a bucket's name shows: where it stands follows from the words
\* around it, whatever the ids.
MajorOf(b) ==
    IF b[1] \in {"guilds", "channels", "stage-instances"} /\ Len(b) >= 2 /\ b[2] # "templates"
    THEN b[2]
    ELSE IF b[1] = "cdn" /\ b[2] # "avatars" THEN b[3]
    ELSE IF b[1] = "users" /\ Len(b) >= 4 /\ b[3] = "guilds" THEN b[4]
    ELSE IF b[1] = "applications" /\ b[3] = "guilds" THEN b[4]
    ELSE IF b[1] = "GET " /\ b[4] = "guilds" THEN b[5]
    ELSE Nothing

\* The one bucket of a call that blanks all other ids.  Same is equality, left
\* folded where names are compared as wholes.
Same(b, c) == b = c
BucketIs(op, m, b) ==
    CASE op \in {"User", "UserUpdate"} -> Same(b, <<"users", "">>)
      [] op = "UserAvatarDecode" -> Same(b, <<"cdn", "avatars", "", "">>)
      [] op = "UserConnections" -> Same(b, <<"users", "@me", "connections">>)
      [] op = "UserChannelCreate" -> Same(b, <<"users", "", "channels">>)
      [] op = "UserGuilds" -> Same(b, <<"users", "", "guilds">>)
      [] op \in {"Guild", "GuildWithCounts", "GuildEdit", "GuildDelete"} -> Same(b,
             <<"guilds", m>>)
      [] op = "GuildPreview" -> Same(b, <<"guilds", m, "preview">>)
      [] op = "GuildCreate" -> Same(b, <<"guilds">>)
      [] op = "GuildLeave" -> Same(b, <<"users", "", "guilds", m>>)
      [] op = "UserGuildMember" -> Same(b, <<"users", "@me", "guilds", m, "member">>)
      [] op = "GuildBans" -> Same(b, <<"guilds", m, "bans">>)
      [] op \in {"GuildBanCreate", "GuildBanDelete"} -> Same(b, <<"guilds", m, "bans", "">>)
      [] op = "GuildMembers" -> Same(b, <<"guilds", m, "members">>)
      [] op = "GuildMembersSearch" -> Same(b, <<"guilds", m, "members", "search">>)
      [] op \in {"GuildMember", "GuildMemberAdd", "GuildMemberDelete", "GuildMemberEdit",
             "GuildMemberMove", "GuildMemberNickname", "GuildMemberMute", "GuildMemberTimeout",
             "GuildMemberDeafen"} -> Same(b, <<"guilds", m, "members", "">>)
      [] op \in {"GuildMemberRoleAdd", "GuildMemberRoleRemove"} -> Same(b,
             <<"guilds", m, "members", "", "roles", "">>)
      [] op \in {"GuildChannels", "GuildChannelCreate", "GuildChannelsReorder"} -> Same(b,
             <<"guilds", m, "channels">>)
      [] op = "GuildInvites" -> Same(b, <<"guilds", m, "invites">>)
      [] op \in {"GuildRoles", "GuildRoleCreate", "GuildRoleReorder"} -> Same(b,
             <<"guilds", m, "roles">>)
      [] op \in {"GuildRoleEdit", "GuildRoleDelete"} -> Same(b, <<"guilds", m, "roles", "">>)
      [] op \in {"GuildPruneCount", "GuildPrune"} -> Same(b, <<"guilds", m, "prune">>)
      [] op \in {"GuildIntegrations", "GuildIntegrationCreate"} -> Same(b,
             <<"guilds", m, "integrations">>)
      [] op \in {"GuildIntegrationEdit", "GuildIntegrationDelete"} -> Same(b,
             <<"guilds", m, "integrations", "">>)
      [] op = "GuildIcon" -> Same(b, <<"cdn", "icons", m, "">>)
      [] op = "GuildSplash" -> Same(b, <<"cdn", "splashes", m, "">>)
      [] op \in {"GuildEmbed", "GuildEmbedEdit"} -> Same(b, <<"guilds", m, "widget">>)
      [] op = "GuildAuditLog" -> Same(b, <<"guilds", m, "audit-logs">>)
      [] op \in {"GuildEmojis", "GuildEmojiCreate", "GuildEmojiEdit", "GuildEmojiDelete"} ->
             Same(b, <<"guilds", m, "emojis">>)
      [] op \in {"GuildTemplates", "GuildTemplateCreate"} -> Same(b, <<"guilds", m, "templates">>)
      [] op \in {"GuildTemplateSync", "GuildTemplateEdit", "GuildTemplateDelete"} -> Same(b,
             <<"guilds", m, "templates", "">>)
      [] op \in {"Channel", "ChannelEdit", "ChannelDelete"} -> Same(b, <<"channels", m>>)
      [] op = "ChannelTyping" -> Same(b, <<"channels", m, "typing">>)
      [] op \in {"ChannelMessages", "ChannelMessageSendComplex"} -> Same(b,
             <<"channels", m, "messages">>)
      [] op \in {"ChannelMessage", "ChannelMessageEditComplex", "ChannelMessageDelete"} -> Same(b,
             <<"channels", m, "messages", "">>)
      [] op = "ChannelMessagesBulkDelete" -> Same(b, <<"channels", m, "messages", "bulk-delete">>)
      [] op \in {"ChannelMessagePin", "ChannelMessageUnpin"} -> Same(b,
             <<"channels", m, "pins", "">>)
      [] op = "ChannelMessagesPinned" -> Same(b, <<"channels", m, "pins">>)
      [] op \in {"ChannelInvites", "ChannelInviteCreate"} -> Same(b, <<"channels", m, "invites">>)
      [] op \in {"ChannelPermissionSet", "ChannelPermissionDelete"} -> Same(b,
             <<"channels", m, "permissions", "">>)
      [] op = "ChannelNewsFollow" -> Same(b, <<"channels", m, "followers">>)
      [] op \in {"Invite", "InviteWithCounts", "InviteComplex", "InviteDelete", "InviteAccept"} ->
             Same(b, <<"invites", "">>)
      [] op = "VoiceRegions" -> Same(b, <<"", "voice", "regions">>)
      [] op = "Gateway" -> Same(b, <<"gateway">>)
      [] op = "GatewayBot" -> Same(b, <<"gateway", "bot">>)
      [] op \in {"WebhookCreate", "ChannelWebhooks"} -> Same(b, <<"channels", m, "webhooks">>)
      [] op = "GuildWebhooks" -> Same(b, <<"guilds", m, "webhooks">>)
      [] op \in {"Webhook", "WebhookEdit", "WebhookDelete"} -> Same(b, <<"webhooks", "">>)
      [] op \in {"WebhookWithToken", "WebhookEditWithToken", "WebhookDeleteWithToken",
             "WebhookMessage", "WebhookMessageDelete", "WebhookMessageEdit"} -> Same(b,
             <<"webhooks", "", "">>)
      [] op \in {"MessageReactionAdd", "MessageReactionRemove", "MessageReactions"} -> Same(b,
             <<"channels", m, "messages", "", "reactions", "", "">>)
      [] op \in {"ThreadStartComplex", "ForumThreadStartComplex"} -> Same(b,
             <<"channels", m, "threads">>)
      [] op \in {"ThreadJoin", "ThreadLeave"} -> Same(b,
             <<"channels", m, "thread-members", "@me">>)
      [] op = "ThreadMembers" -> Same(b, <<"channels", m, "thread-members">>)
      [] op = "ThreadsActive" -> Same(b, <<"channels", m, "threads", "active">>)
      [] op = "GuildThreadsActive" -> Same(b, <<"guilds", m, "threads", "active">>)
      [] op = "StageInstanceCreate" -> Same(b, <<"stage-instances">>)
      [] op \in {"StageInstance", "StageInstanceEdit", "StageInstanceDelete"} -> Same(b,
             <<"stage-instances", m>>)
      [] op \in {"GuildScheduledEvents", "GuildScheduledEventCreate"} -> Same(b,
             <<"guilds", m, "scheduled-events">>)
      [] op \in {"AutoModerationRules", "AutoModerationRuleCreate"} -> Same(b,
             <<"guilds", m, "auto-moderation", "rules">>)
      [] op \in {"Application", "ApplicationUpdate", "ApplicationDelete"} -> Same(b,
             <<"oauth2", "applications", "">>)
      [] op \in {"Applications", "ApplicationCreate"} -> Same(b, <<"oauth2", "applications">>)
      [] op = "ApplicationAssets" -> Same(b, <<"oauth2", "applications", "", "assets">>)
      [] op = "ApplicationBotCreate" -> Same(b, <<"oauth2", "applications", "", "bot">>)
      [] OTHER -> FALSE

\* Calls with one bucket for a guild or channel, those under the custom limit, and
\* calls with many buckets.
Fixed(ops, m, b) == \A o \in ops : o \notin Reactions /\ BucketIs(o, m, b)
Spacing(ops, m, b) == \A o \in ops : o \in Reactions /\ BucketIs(o, m, b)
Free(ops) == ops \subseteq PerItem /\ ops \cap Reactions = {}

\* The bucket of every request of S is the one its call and its guild or channel ask for.
Named(S) ==
    \A r \in S :
        /\ MajorOf(r.bucket) = r.major
        /\ r.op \in PerItem \/ BucketIs(r.op, r.major, r.bucket)
        /\ Custom(r.bucket) <=> r.op \in Reactions

\* A sequence turned round, and one that begins as a sequence of four does.
LEMMA Reversed ==
  ASSUME NEW T, NEW b \in Seq(T)
  PROVE  /\ Reverse(b) \in Seq(T) /\ Len(Reverse(b)) = Len(b)
         /\ \A i \in 1..Len(b) : Reverse(b)[i] = b[Len(b) - i + 1]
  BY DEF Reverse

LEMMA SameStart ==
  ASSUME NEW T, NEW u \in Seq(T), NEW v \in Seq(T), Len(u) = 4
  PROVE  IsPrefix(u, v) <=> Len(v) >= 4 /\ v[1] = u[1] /\ v[2] = u[2] /\ v[3] = u[3] /\ v[4] = u[4]
<1>1. IsPrefix(u, v) <=> 4 <= Len(v) /\ SubSeq(u, 1, 4) = SubSeq(v, 1, 4)
  BY DEF IsPrefix
<1>2. CASE Len(v) >= 4
  <2> DEFINE w == SubSeq(v, 1, 4)
             z == SubSeq(u, 1, 4)
  <2>1. w \in Seq(T) /\ Len(w) = 4 /\ \A i \in 1..4 : w[i] = v[i]
    BY <1>2
  <2>2. z \in Seq(T) /\ Len(z) = 4 /\ \A i \in 1..4 : z[i] = u[i]
    <3>1. \A i \in 1..4 : u[i] \in T
      BY ElementOfSeq
    <3> QED
      BY <3>1, SubSeqProperties
  <2> HIDE DEF w, z
  <2>3. 1 \in 1..4 /\ 2 \in 1..4 /\ 3 \in 1..4 /\ 4 \in 1..4
        /\ \A i \in 1..4 : i = 1 \/ i = 2 \/ i = 3 \/ i = 4
    OBVIOUS
  <2>4. ASSUME \A i \in 1..4 : w[i] = z[i] PROVE w = z
    BY <2>1, <2>2, <2>4, SeqEqual
  <2>5. (\A i \in 1..4 : w[i] = z[i]) <=> v[1] = u[1] /\ v[2] = u[2] /\ v[3] = u[3] /\ v[4] = u[4]
    BY <2>1, <2>2, <2>3
  <2> QED
    BY <1>1, <1>2, <2>4, <2>5 DEF w, z
<1> QED
  BY <1>1, <1>2

LEMMA Ending == ASSUME NEW T, NEW n \in Nat, NEW b \in Seq(T), Len(b) = n
  PROVE Custom(b) <=> n >= 4 /\ b[n - 3] = "" /\ b[n - 2] = "reactions" /\ b[n - 1] = "" /\ b[n] = ""
<1> DEFINE s == <<"", "reactions", "", "">>
           S == T \cup {"", "reactions"}
<1>1. s \in Seq(S) /\ Len(s) = 4 /\ s[1] = "" /\ s[2] = "reactions" /\ s[3] = "" /\ s[4] = ""
  OBVIOUS
<1>2. Custom(b) <=> IsPrefix(Reverse(s), Reverse(b))
  BY DEF Custom, IsSuffix
<1>3. b \in Seq(S)
  <2>1. \A i \in 1..n : b[i] \in T
    BY ElementOfSeq
  <2>2. b = [i \in 1..n |-> b[i]]
    OBVIOUS
  <2>3. T \subseteq S
    OBVIOUS
  <2> HIDE DEF S
  <2> QED
    BY <2>1, <2>2, <2>3
<1> HIDE DEF s, S
<1>4. Reverse(s) \in Seq(S) /\ Len(Reverse(s)) = 4 /\ \A i \in 1..4 : Reverse(s)[i] = s[4 - i + 1]
  <2>1. Reverse(s) \in Seq(S) /\ Len(Reverse(s)) = Len(s)
        /\ \A i \in 1..Len(s) : Reverse(s)[i] = s[Len(s) - i + 1]
    BY <1>1, Reversed
  <2> QED
    BY <1>1, <2>1
<1>5. Reverse(b) \in Seq(S) /\ Len(Reverse(b)) = n /\ \A i \in 1..n : Reverse(b)[i] = b[n - i + 1]
  BY <1>3, Reversed
<1> DEFINE u == Reverse(s)
           v == Reverse(b)
<1>6. u[1] = s[4] /\ u[2] = s[3] /\ u[3] = s[2] /\ u[4] = s[1]
  BY <1>4
<1>7. n >= 4 => v[1] = b[n] /\ v[2] = b[n - 1] /\ v[3] = b[n - 2] /\ v[4] = b[n - 3]
  BY <1>5
<1> HIDE DEF u, v
<1>8. IsPrefix(u, v) <=> Len(v) >= 4 /\ v[1] = u[1] /\ v[2] = u[2] /\ v[3] = u[3] /\ v[4] = u[4]
  <2>1. u \in Seq(S) /\ Len(u) = 4 /\ v \in Seq(S)
    BY <1>4, <1>5 DEF u, v
  <2> QED
    BY <2>1, SameStart
<1> QED
  BY <1>1, <1>2, <1>5, <1>6, <1>7, <1>8 DEF u, v

\* Where the custom limit is, by the segments of a name.
LEMMA Limited ==
  ASSUME NEW b, Segmented(b)
  PROVE  Custom(b) <=> Spaced(b)
<1> DEFINE T == {b[i] : i \in 1..Len(b)}
<1>1. Len(b) \in 0..9 /\ b = [i \in 1..Len(b) |-> b[i]] /\ \A i \in 1..Len(b) : b[i] \in T
  BY DEF Segmented
<1> HIDE DEF T
<1>2. Len(b) \in Nat /\ b \in Seq(T)
  BY <1>1
<1> DEFINE Over(n) == /\ n >= 4 /\ b[n - 3] = "" /\ b[n - 2] = "reactions"
                      /\ b[n - 1] = "" /\ b[n] = ""
<1>3. \A n \in Nat : Len(b) = n => (Custom(b) <=> Over(n))
  BY <1>2, Ending
<1>4. /\ ~Over(0) /\ ~Over(1) /\ ~Over(2) /\ ~Over(3)
      /\ Over(4) <=> b[1] = "" /\ b[2] = "reactions" /\ b[3] = "" /\ b[4] = ""
      /\ Over(5) <=> b[2] = "" /\ b[3] = "reactions" /\ b[4] = "" /\ b[5] = ""
      /\ Over(6) <=> b[3] = "" /\ b[4] = "reactions" /\ b[5] = "" /\ b[6] = ""
      /\ Over(7) <=> b[4] = "" /\ b[5] = "reactions" /\ b[6] = "" /\ b[7] = ""
      /\ Over(8) <=> b[5] = "" /\ b[6] = "reactions" /\ b[7] = "" /\ b[8] = ""
      /\ Over(9) <=> b[6] = "" /\ b[7] = "reactions" /\ b[8] = "" /\ b[9] = ""
  OBVIOUS
<1> HIDE DEF Over
<1>5. CASE Len(b) = 0
  <2>1. ~Spaced(b)
    BY <1>5 DEF Spaced
  <2>2. 0 \in Nat
    OBVIOUS
  <2> QED
    BY <1>3, <1>4, <1>5, <2>1, <2>2
<1>6. CASE Len(b) = 1
  <2>1. ~Spaced(b)
    BY <1>6 DEF Spaced
  <2>2. 1 \in Nat
    OBVIOUS
  <2> QED
    BY <1>3, <1>4, <1>6, <2>1, <2>2
<1>7. CASE Len(b) = 2
  <2>1. ~Spaced(b)
    BY <1>7 DEF Spaced
  <2>2. 2 \in Nat
    OBVIOUS
  <2> QED
    BY <1>3, <1>4, <1>7, <2>1, <2>2
<1>8. CASE Len(b) = 3
  <2>1. ~Spaced(b)
    BY <1>8 DEF Spaced
  <2>2. 3 \in Nat
    OBVIOUS
  <2> QED
    BY <1>3, <1>4, <1>8, <2>1, <2>2
<1>9. CASE Len(b) = 4
  <2>1. Spaced(b) <=> b[1] = "" /\ b[2] = "reactions" /\ b[3] = "" /\ b[4] = ""
    BY <1>9 DEF Spaced
  <2>2. 4 \in Nat
    OBVIOUS
  <2> QED
    BY <1>3, <1>4, <1>9, <2>1, <2>2
<1>10. CASE Len(b) = 5
  <2>1. Spaced(b) <=> b[2] = "" /\ b[3] = "reactions" /\ b[4] = "" /\ b[5] = ""
    BY <1>10 DEF Spaced
  <2>2. 5 \in Nat
    OBVIOUS
  <2> QED
    BY <1>3, <1>4, <1>10, <2>1, <2>2
<1>11. CASE Len(b) = 6
  <2>1. Spaced(b) <=> b[3] = "" /\ b[4] = "reactions" /\ b[5] = "" /\ b[6] = ""
    BY <1>11 DEF Spaced
  <2>2. 6 \in Nat
    OBVIOUS
  <2> QED
    BY <1>3, <1>4, <1>11, <2>1, <2>2
<1>12. CASE Len(b) = 7
  <2>1. Spaced(b) <=> b[4] = "" /\ b[5] = "reactions" /\ b[6] = "" /\ b[7] = ""
    BY <1>12 DEF Spaced
  <2>2. 7 \in Nat
    OBVIOUS
  <2> QED
    BY <1>3, <1>4, <1>12, <2>1, <2>2
<1>13. CASE Len(b) = 8
  <2>1. Spaced(b) <=> b[5] = "" /\ b[6] = "reactions" /\ b[7] = "" /\ b[8] = ""
    BY <1>13 DEF Spaced
  <2>2. 8 \in Nat
    OBVIOUS
  <2> QED
    BY <1>3, <1>4, <1>13, <2>1, <2>2
<1>14. CASE Len(b) = 9
  <2>1. Spaced(b) <=> b[6] = "" /\ b[7] = "reactions" /\ b[8] = "" /\ b[9] = ""
    BY <1>14 DEF Spaced
  <2>2. 9 \in Nat
    OBVIOUS
  <2> QED
    BY <1>3, <1>4, <1>14, <2>1, <2>2
<1>15. \A n \in 0..9 : n \in {0, 1, 2, 3, 4, 5, 6, 7, 8, 9}
  OBVIOUS
<1> QED
  BY <1>1, <1>5, <1>6, <1>7, <1>8, <1>9, <1>10, <1>11, <1>12, <1>13, <1>14, <1>15

\* What it takes for the requests of one row of the calls to be named as they should.
LEMMA FixedNamed ==
  \A ops, m, path, b :
     MajorOf(b) = m /\ Ordinary(b) /\ Fixed(ops, m, b) => Named(Ask(ops, m, path, b))
  BY Limited DEF Ordinary, Fixed, Named, Ask

LEMMA SpacingNamed ==
  \A ops, m, path, b :
     MajorOf(b) = m /\ Segmented(b) /\ Spaced(b) /\ Spacing(ops, m, b) => Named(Ask(ops, m, path, b))
  BY Limited DEF Spacing, Named, Ask

LEMMA FreeNamed ==
  \A ops, m, path, b :
     MajorOf(b) = m /\ Ordinary(b) /\ Free(ops) => Named(Ask(ops, m, path, b))
  BY Limited DEF Ordinary, Free, Named, Ask

LEMMA BothNamed == \A S, T : Named(S) /\ Named(T) => Named(S \cup T)
  BY DEF Named

\* The rows of the calls, group by group: the guild or channel each bucket shows, the
\* custom limit, and whether the call has one bucket or many.
LEMMA UserNamed ==
  ASSUME NEW u
  PROVE  Named(UserRoutes(u))
<1>1. /\ MajorOf(<<"users", "">>) = Nothing
      /\ MajorOf(<<"cdn", "avatars", "", "">>) = Nothing
      /\ MajorOf(<<"users", "@me", "connections">>) = Nothing
      /\ MajorOf(<<"users", "", "channels">>) = Nothing
      /\ MajorOf(<<"users", "", "guilds">>) = Nothing
  BY DEF MajorOf
<1>2. /\ Ordinary(<<"users", "">>)
      /\ Ordinary(<<"cdn", "avatars", "", "">>)
      /\ Ordinary(<<"users", "@me", "connections">>)
      /\ Ordinary(<<"users", "", "channels">>)
      /\ Ordinary(<<"users", "", "guilds">>)
  BY DEF Ordinary, Segmented, Spaced
<1>3. /\ Fixed({"User", "UserUpdate"}, Nothing, <<"users", "">>)
      /\ Fixed({"UserAvatarDecode"}, Nothing, <<"cdn", "avatars", "", "">>)
      /\ Fixed({"UserConnections"}, Nothing, <<"users", "@me", "connections">>)
      /\ Fixed({"UserChannelCreate"}, Nothing, <<"users", "", "channels">>)
      /\ Fixed({"UserGuilds"}, Nothing, <<"users", "", "guilds">>)
  BY DEF Fixed, BucketIs, Same, Reactions
<1> QED
  BY <1>1, <1>2, <1>3, FixedNamed, BothNamed DEF UserRoutes, Plain

LEMMA GuildNamed ==
  ASSUME NEW g, g # "templates"
  PROVE  Named(GuildRoutes(g))
<1>1. /\ MajorOf(<<"guilds", g>>) = g
      /\ MajorOf(<<"guilds", g, "preview">>) = g
      /\ MajorOf(<<"guilds">>) = Nothing
      /\ MajorOf(<<"users", "", "guilds", g>>) = g
  BY DEF MajorOf
<1>2. /\ Ordinary(<<"guilds", g>>)
      /\ Ordinary(<<"guilds", g, "preview">>)
      /\ Ordinary(<<"guilds">>)
      /\ Ordinary(<<"users", "", "guilds", g>>)
  BY DEF Ordinary, Segmented, Spaced
<1>3. /\ Fixed({"Guild", "GuildWithCounts", "GuildEdit", "GuildDelete"}, g, <<"guilds", g>>)
      /\ Fixed({"GuildPreview"}, g, <<"guilds", g, "preview">>)
      /\ Fixed({"GuildCreate"}, Nothing, <<"guilds">>)
      /\ Fixed({"GuildLeave"}, g, <<"users", "", "guilds", g>>)
  BY DEF Fixed, BucketIs, Same, Reactions
<1> QED
  BY <1>1, <1>2, <1>3, FixedNamed, BothNamed DEF GuildRoutes, Plain

LEMMA UserGuildMemberNamed ==
  ASSUME NEW g, g # "templates"
  PROVE  Named(UserGuildMember(g))
<1>1. MajorOf(<<"users", "@me", "guilds", g, "member">>) = g
  BY DEF MajorOf
<1>2. Ordinary(<<"users", "@me", "guilds", g, "member">>)
  BY DEF Ordinary, Segmented, Spaced
<1>3. Fixed({"UserGuildMember"}, g, <<"users", "@me", "guilds", g, "member">>)
  BY DEF Fixed, BucketIs, Same, Reactions
<1> QED
  BY <1>1, <1>2, <1>3, FixedNamed DEF UserGuildMember, Plain

LEMMA BanNamed ==
  ASSUME NEW g, NEW u, g # "templates"
  PROVE  Named(BanRoutes(g, u))
<1>1. /\ MajorOf(<<"guilds", g, "bans">>) = g
      /\ MajorOf(<<"guilds", g, "bans", u>>) = g
      /\ MajorOf(<<"guilds", g, "bans", "">>) = g
  BY DEF MajorOf
<1>2. /\ Ordinary(<<"guilds", g, "bans">>)
      /\ Ordinary(<<"guilds", g, "bans", u>>)
      /\ Ordinary(<<"guilds", g, "bans", "">>)
  BY DEF Ordinary, Segmented, Spaced
<1>3. /\ Fixed({"GuildBans"}, g, <<"guilds", g, "bans">>)
      /\ Free({"GuildBan"})
      /\ Fixed({"GuildBanCreate", "GuildBanDelete"}, g, <<"guilds", g, "bans", "">>)
  BY DEF Fixed, BucketIs, Same, Free, PerItem, Reactions
<1> QED
  BY <1>1, <1>2, <1>3, FixedNamed, FreeNamed, BothNamed DEF BanRoutes, Plain

LEMMA MembersNamed ==
  ASSUME NEW g, g # "templates"
  PROVE  Named(MembersRoutes(g))
<1>1. /\ MajorOf(<<"guilds", g, "members">>) = g
      /\ MajorOf(<<"guilds", g, "members", "search">>) = g
  BY DEF MajorOf
<1>2. /\ Ordinary(<<"guilds", g, "members">>)
      /\ Ordinary(<<"guilds", g, "members", "search">>)
  BY DEF Ordinary, Segmented, Spaced
<1>3. /\ Fixed({"GuildMembers"}, g, <<"guilds", g, "members">>)
      /\ Fixed({"GuildMembersSearch"}, g, <<"guilds", g, "members", "search">>)
  BY DEF Fixed, BucketIs, Same, Reactions
<1> QED
  BY <1>1, <1>2, <1>3, FixedNamed, BothNamed DEF MembersRoutes, Plain

LEMMA MemberNamed ==
  ASSUME NEW g, NEW u, g # "templates"
  PROVE  Named(MemberRoutes(g, u))
<1>1. MajorOf(<<"guilds", g, "members", "">>) = g
  BY DEF MajorOf
<1>2. Ordinary(<<"guilds", g, "members", "">>)
  BY DEF Ordinary, Segmented, Spaced
<1>3. Fixed({"GuildMember", "GuildMemberAdd", "GuildMemberDelete", "GuildMemberEdit",
            "GuildMemberMove", "GuildMemberNickname", "GuildMemberMute", "GuildMemberTimeout",
            "GuildMemberDeafen"}, g, <<"guilds", g, "members", "">>)
  BY DEF Fixed, BucketIs, Same, Reactions
<1> QED
  BY <1>1, <1>2, <1>3, FixedNamed DEF MemberRoutes, Plain

LEMMA MemberRoleNamed ==
  ASSUME NEW g, NEW u, NEW r, g # "templates"
  PROVE  Named(MemberRoleRoutes(g, u, r))
<1>1. MajorOf(<<"guilds", g, "members", "", "roles", "">>) = g
  BY DEF MajorOf
<1>2. Ordinary(<<"guilds", g, "members", "", "roles", "">>)
  BY DEF Ordinary, Segmented, Spaced
<1>3. Fixed({"GuildMemberRoleAdd", "GuildMemberRoleRemove"}, g,
            <<"guilds", g, "members", "", "roles", "">>)
  BY DEF Fixed, BucketIs, Same, Reactions
<1> QED
  BY <1>1, <1>2, <1>3, FixedNamed DEF MemberRoleRoutes, Plain

LEMMA GuildPartNamed ==
  ASSUME NEW g, NEW r, g # "templates"
  PROVE  Named(GuildPartRoutes(g, r))
<1>1. /\ MajorOf(<<"guilds", g, "channels">>) = g
      /\ MajorOf(<<"guilds", g, "invites">>) = g
      /\ MajorOf(<<"guilds", g, "roles">>) = g
      /\ MajorOf(<<"guilds", g, "roles", "">>) = g
  BY DEF MajorOf
<1>2. /\ Ordinary(<<"guilds", g, "channels">>)
      /\ Ordinary(<<"guilds", g, "invites">>)
      /\ Ordinary(<<"guilds", g, "roles">>)
      /\ Ordinary(<<"guilds", g, "roles", "">>)
  BY DEF Ordinary, Segmented, Spaced
<1>3. /\ Fixed({"GuildChannels", "GuildChannelCreate", "GuildChannelsReorder"}, g,
               <<"guilds", g, "channels">>)
      /\ Fixed({"GuildInvites"}, g, <<"guilds", g, "invites">>)
      /\ Fixed({"GuildRoles", "GuildRoleCreate", "GuildRoleReorder"}, g, <<"guilds", g, "roles">>)
      /\ Fixed({"GuildRoleEdit", "GuildRoleDelete"}, g, <<"guilds", g, "roles", "">>)
  BY DEF Fixed, BucketIs, Same, Reactions
<1> QED
  BY <1>1, <1>2, <1>3, FixedNamed, BothNamed DEF GuildPartRoutes, Plain

LEMMA GuildCareNamed ==
  ASSUME NEW g, NEW i, g # "templates"
  PROVE  Named(GuildCareRoutes(g, i))
<1>1. /\ MajorOf(<<"guilds", g, "prune">>) = g
      /\ MajorOf(<<"guilds", g, "integrations">>) = g
      /\ MajorOf(<<"guilds", g, "integrations", "">>) = g
  BY DEF MajorOf
<1>2. /\ Ordinary(<<"guilds", g, "prune">>)
      /\ Ordinary(<<"guilds", g, "integrations">>)
      /\ Ordinary(<<"guilds", g, "integrations", "">>)
  BY DEF Ordinary, Segmented, Spaced
<1>3. /\ Fixed({"GuildPruneCount", "GuildPrune"}, g, <<"guilds", g, "prune">>)
      /\ Fixed({"GuildIntegrations", "GuildIntegrationCreate"}, g,
               <<"guilds", g, "integrations">>)
      /\ Fixed({"GuildIntegrationEdit", "GuildIntegrationDelete"}, g,
               <<"guilds", g, "integrations", "">>)
  BY DEF Fixed, BucketIs, Same, Reactions
<1> QED
  BY <1>1, <1>2, <1>3, FixedNamed, BothNamed DEF GuildCareRoutes, Plain

LEMMA PictureNamed ==
  ASSUME NEW g, g # "templates"
  PROVE  Named(PictureRoutes(g))
<1>1. /\ MajorOf(<<"cdn", "icons", g, "">>) = g
      /\ MajorOf(<<"cdn", "splashes", g, "">>) = g
      /\ MajorOf(<<"guilds", g, "widget">>) = g
  BY DEF MajorOf
<1>2. /\ Ordinary(<<"cdn", "icons", g, "">>)
      /\ Ordinary(<<"cdn", "splashes", g, "">>)
      /\ Ordinary(<<"guilds", g, "widget">>)
  BY DEF Ordinary, Segmented, Spaced
<1>3. /\ Fixed({"GuildIcon"}, g, <<"cdn", "icons", g, "">>)
      /\ Fixed({"GuildSplash"}, g, <<"cdn", "splashes", g, "">>)
      /\ Fixed({"GuildEmbed", "GuildEmbedEdit"}, g, <<"guilds", g, "widget">>)
  BY DEF Fixed, BucketIs, Same, Reactions
<1> QED
  BY <1>1, <1>2, <1>3, FixedNamed, BothNamed DEF PictureRoutes, Plain

LEMMA EmojiNamed ==
  ASSUME NEW g, NEW e, g # "templates"
  PROVE  Named(EmojiRoutes(g, e))
<1>1. /\ MajorOf(<<"guilds", g, "audit-logs">>) = g
      /\ MajorOf(<<"guilds", g, "emojis">>) = g
      /\ MajorOf(<<"guilds", g, "emojis", e>>) = g
  BY DEF MajorOf
<1>2. /\ Ordinary(<<"guilds", g, "audit-logs">>)
      /\ Ordinary(<<"guilds", g, "emojis">>)
      /\ Ordinary(<<"guilds", g, "emojis", e>>)
  BY DEF Ordinary, Segmented, Spaced
<1>3. /\ Fixed({"GuildAuditLog"}, g, <<"guilds", g, "audit-logs">>)
      /\ Fixed({"GuildEmojis", "GuildEmojiCreate"}, g, <<"guilds", g, "emojis">>)
      /\ Free({"GuildEmoji"})
      /\ Fixed({"GuildEmojiEdit", "GuildEmojiDelete"}, g, <<"guilds", g, "emojis">>)
  BY DEF Fixed, BucketIs, Same, Free, PerItem, Reactions
<1> QED
  BY <1>1, <1>2, <1>3, FixedNamed, FreeNamed, BothNamed DEF EmojiRoutes, Plain

LEMMA TemplateNamed ==
  ASSUME NEW g, NEW t, g # "templates"
  PROVE  Named(TemplateRoutes(g, t))
<1>1. /\ MajorOf(<<"guilds", "templates", t>>) = Nothing
      /\ MajorOf(<<"guilds", g, "templates">>) = g
      /\ MajorOf(<<"guilds", g, "templates", "">>) = g
  BY DEF MajorOf
<1>2. /\ Ordinary(<<"guilds", "templates", t>>)
      /\ Ordinary(<<"guilds", g, "templates">>)
      /\ Ordinary(<<"guilds", g, "templates", "">>)
  BY DEF Ordinary, Segmented, Spaced
<1>3. /\ Free({"GuildTemplate", "GuildCreateWithTemplate"})
      /\ Fixed({"GuildTemplates", "GuildTemplateCreate"}, g, <<"guilds", g, "templates">>)
      /\ Fixed({"GuildTemplateSync", "GuildTemplateEdit", "GuildTemplateDelete"}, g,
               <<"guilds", g, "templates", "">>)
  BY DEF Fixed, BucketIs, Same, Free, PerItem, Reactions
<1> QED
  BY <1>1, <1>2, <1>3, FixedNamed, FreeNamed, BothNamed DEF TemplateRoutes, Plain

LEMMA ChannelNamed ==
  ASSUME NEW c, c # "templates"
  PROVE  Named(ChannelRoutes(c))
<1>1. /\ MajorOf(<<"channels", c>>) = c
      /\ MajorOf(<<"channels", c, "typing">>) = c
      /\ MajorOf(<<"channels", c, "messages">>) = c
  BY DEF MajorOf
<1>2. /\ Ordinary(<<"channels", c>>)
      /\ Ordinary(<<"channels", c, "typing">>)
      /\ Ordinary(<<"channels", c, "messages">>)
  BY DEF Ordinary, Segmented, Spaced
<1>3. /\ Fixed({"Channel", "ChannelEdit", "ChannelDelete"}, c, <<"channels", c>>)
      /\ Fixed({"ChannelTyping"}, c, <<"channels", c, "typing">>)
      /\ Fixed({"ChannelMessages"}, c, <<"channels", c, "messages">>)
  BY DEF Fixed, BucketIs, Same, Reactions
<1> QED
  BY <1>1, <1>2, <1>3, FixedNamed, BothNamed DEF ChannelRoutes, Plain

LEMMA SendNamed ==
  ASSUME NEW c, c # "templates"
  PROVE  Named(SendRoutes(c))
<1>1. MajorOf(<<"channels", c, "messages">>) = c
  BY DEF MajorOf
<1>2. Ordinary(<<"channels", c, "messages">>)
  BY DEF Ordinary, Segmented, Spaced
<1>3. Fixed({"ChannelMessageSendComplex"}, c, <<"channels", c, "messages">>)
  BY DEF Fixed, BucketIs, Same, Reactions
<1> QED
  BY <1>1, <1>2, <1>3, FixedNamed DEF SendRoutes, Plain

LEMMA MessageNamed ==
  ASSUME NEW c, NEW m, c # "templates"
  PROVE  Named(MessageRoutes(c, m))
<1>1. /\ MajorOf(<<"channels", c, "messages", "">>) = c
      /\ MajorOf(<<"channels", c, "messages", "bulk-delete">>) = c
      /\ MajorOf(<<"channels", c, "pins", "">>) = c
      /\ MajorOf(<<"channels", c, "pins">>) = c
  BY DEF MajorOf
<1>2. /\ Ordinary(<<"channels", c, "messages", "">>)
      /\ Ordinary(<<"channels", c, "messages", "bulk-delete">>)
      /\ Ordinary(<<"channels", c, "pins", "">>)
      /\ Ordinary(<<"channels", c, "pins">>)
  BY DEF Ordinary, Segmented, Spaced
<1>3. /\ Fixed({"ChannelMessage", "ChannelMessageEditComplex", "ChannelMessageDelete"}, c,
               <<"channels", c, "messages", "">>)
      /\ Fixed({"ChannelMessagesBulkDelete"}, c, <<"channels", c, "messages", "bulk-delete">>)
      /\ Fixed({"ChannelMessagePin", "ChannelMessageUnpin"}, c, <<"channels", c, "pins", "">>)
      /\ Fixed({"ChannelMessagesPinned"}, c, <<"channels", c, "pins">>)
  BY DEF Fixed, BucketIs, Same, Reactions
<1> QED
  BY <1>1, <1>2, <1>3, FixedNamed, BothNamed DEF MessageRoutes, Plain

LEMMA ChannelPartNamed ==
  ASSUME NEW c, NEW x, c # "templates"
  PROVE  Named(ChannelPartRoutes(c, x))
<1>1. /\ MajorOf(<<"channels", c, "invites">>) = c
      /\ MajorOf(<<"channels", c, "permissions", "">>) = c
      /\ MajorOf(<<"channels", c, "messages", x, "crosspost">>) = c
      /\ MajorOf(<<"channels", c, "followers">>) = c
  BY DEF MajorOf
<1>2. /\ Ordinary(<<"channels", c, "invites">>)
      /\ Ordinary(<<"channels", c, "permissions", "">>)
      /\ Ordinary(<<"channels", c, "messages", x, "crosspost">>)
      /\ Ordinary(<<"channels", c, "followers">>)
  BY DEF Ordinary, Segmented, Spaced
<1>3. /\ Fixed({"ChannelInvites", "ChannelInviteCreate"}, c, <<"channels", c, "invites">>)
      /\ Fixed({"ChannelPermissionSet", "ChannelPermissionDelete"}, c,
               <<"channels", c, "permissions", "">>)
      /\ Free({"ChannelMessageCrosspost"})
      /\ Fixed({"ChannelNewsFollow"}, c, <<"channels", c, "followers">>)
  BY DEF Fixed, BucketIs, Same, Free, PerItem, Reactions
<1> QED
  BY <1>1, <1>2, <1>3, FixedNamed, FreeNamed, BothNamed DEF ChannelPartRoutes, Plain

LEMMA InviteNamed ==
  ASSUME NEW i
  PROVE  Named(InviteRoutes(i))
<1>1. MajorOf(<<"invites", "">>) = Nothing
  BY DEF MajorOf
<1>2. Ordinary(<<"invites", "">>)
  BY DEF Ordinary, Segmented, Spaced
<1>3. Fixed({"Invite", "InviteWithCounts", "InviteComplex", "InviteDelete", "InviteAccept"},
            Nothing, <<"invites", "">>)
  BY DEF Fixed, BucketIs, Same, Reactions
<1> QED
  BY <1>1, <1>2, <1>3, FixedNamed DEF InviteRoutes, Plain

LEMMA GatewayNamed == Named(GatewayRoutes)
<1>1. /\ MajorOf(<<"", "voice", "regions">>) = Nothing
      /\ MajorOf(<<"gateway">>) = Nothing
      /\ MajorOf(<<"gateway", "bot">>) = Nothing
  BY DEF MajorOf
<1>2. /\ Ordinary(<<"", "voice", "regions">>)
      /\ Ordinary(<<"gateway">>)
      /\ Ordinary(<<"gateway", "bot">>)
  BY DEF Ordinary, Segmented, Spaced
<1>3. /\ Fixed({"VoiceRegions"}, Nothing, <<"", "voice", "regions">>)
      /\ Fixed({"Gateway"}, Nothing, <<"gateway">>)
      /\ Fixed({"GatewayBot"}, Nothing, <<"gateway", "bot">>)
  BY DEF Fixed, BucketIs, Same, Reactions
<1> QED
  BY <1>1, <1>2, <1>3, FixedNamed, BothNamed DEF GatewayRoutes, Plain

LEMMA WebhooksNamed ==
  ASSUME NEW g, g # "templates"
  PROVE  Named(WebhooksRoutes(g))
<1>1. /\ MajorOf(<<"channels", g, "webhooks">>) = g
      /\ MajorOf(<<"guilds", g, "webhooks">>) = g
  BY DEF MajorOf
<1>2. /\ Ordinary(<<"channels", g, "webhooks">>)
      /\ Ordinary(<<"guilds", g, "webhooks">>)
  BY DEF Ordinary, Segmented, Spaced
<1>3. /\ Fixed({"WebhookCreate", "ChannelWebhooks"}, g, <<"channels", g, "webhooks">>)
      /\ Fixed({"GuildWebhooks"}, g, <<"guilds", g, "webhooks">>)
  BY DEF Fixed, BucketIs, Same, Reactions
<1> QED
  BY <1>1, <1>2, <1>3, FixedNamed, BothNamed DEF WebhooksRoutes, Plain

LEMMA WebhookNamed ==
  ASSUME NEW w, NEW t
  PROVE  Named(WebhookRoutes(w, t))
<1>1. /\ MajorOf(<<"webhooks", "">>) = Nothing
      /\ MajorOf(<<"webhooks", "", "">>) = Nothing
  BY DEF MajorOf
<1>2. /\ Ordinary(<<"webhooks", "">>)
      /\ Ordinary(<<"webhooks", "", "">>)
  BY DEF Ordinary, Segmented, Spaced
<1>3. /\ Fixed({"Webhook", "WebhookEdit", "WebhookDelete"}, Nothing, <<"webhooks", "">>)
      /\ Fixed({"WebhookWithToken", "WebhookEditWithToken", "WebhookDeleteWithToken"}, Nothing,
               <<"webhooks", "", "">>)
  BY DEF Fixed, BucketIs, Same, Reactions
<1> QED
  BY <1>1, <1>2, <1>3, FixedNamed, BothNamed DEF WebhookRoutes, Plain

LEMMA WebhookMessageNamed ==
  ASSUME NEW w, NEW t
  PROVE  Named(WebhookMessageRoutes(w, t))
<1>1. /\ MajorOf(<<"webhooks", w, t>>) = Nothing
      /\ MajorOf(<<"webhooks", w, t, "?", t>>) = Nothing
      /\ MajorOf(<<"webhooks", "", "">>) = Nothing
      /\ MajorOf(<<"webhooks", w, t, "messages", t>>) = Nothing
  BY DEF MajorOf
<1>2. /\ Ordinary(<<"webhooks", w, t>>)
      /\ Ordinary(<<"webhooks", w, t, "?", t>>)
      /\ Ordinary(<<"webhooks", "", "">>)
      /\ Ordinary(<<"webhooks", w, t, "messages", t>>)
  BY DEF Ordinary, Segmented, Spaced
<1>3. /\ Free({"WebhookExecute"})
      /\ Fixed({"WebhookMessage", "WebhookMessageDelete", "WebhookMessageEdit"}, Nothing,
               <<"webhooks", "", "">>)
      /\ Free({"WebhookMessageEditFiles"})
  BY DEF Fixed, BucketIs, Same, Free, PerItem, Reactions
<1> QED
  BY <1>1, <1>2, <1>3, FixedNamed, FreeNamed, BothNamed DEF WebhookMessageRoutes, Plain

LEMMA ReactionNamed ==
  ASSUME NEW c, NEW m, NEW e, c # "templates"
  PROVE  Named(ReactionRoutes(c, m, e))
<1>1. /\ MajorOf(<<"channels", c, "messages", "", "reactions", "", "">>) = c
      /\ MajorOf(<<"channels", c, "messages", m, "reactions">>) = c
      /\ MajorOf(<<"channels", c, "messages", m, "reactions", e>>) = c
  BY DEF MajorOf
<1>2. /\ Segmented(<<"channels", c, "messages", "", "reactions", "", "">>) /\
               Spaced(<<"channels", c, "messages", "", "reactions", "", "">>)
      /\ Ordinary(<<"channels", c, "messages", m, "reactions">>)
      /\ Ordinary(<<"channels", c, "messages", m, "reactions", e>>)
  BY DEF Ordinary, Segmented, Spaced
<1>3. /\ Spacing({"MessageReactionAdd", "MessageReactionRemove"}, c,
               <<"channels", c, "messages", "", "reactions", "", "">>)
      /\ Spacing({"MessageReactions"}, c, <<"channels", c, "messages", "", "reactions", "", "">>)
      /\ Free({"MessageReactionsRemoveAll"})
      /\ Free({"MessageReactionsRemoveEmoji"})
  BY DEF Spacing, BucketIs, Same, Free, PerItem, Reactions
<1> QED
  BY <1>1, <1>2, <1>3, SpacingNamed, FreeNamed, BothNamed DEF ReactionRoutes, Plain

LEMMA ThreadStartNamed ==
  ASSUME NEW c, NEW m, c # "templates"
  PROVE  Named(ThreadStartRoutes(c, m))
<1>1. /\ MajorOf(<<"channels", c, "messages", m, "threads">>) = c
      /\ MajorOf(<<"channels", c, "threads">>) = c
  BY DEF MajorOf
<1>2. /\ Ordinary(<<"channels", c, "messages", m, "threads">>)
      /\ Ordinary(<<"channels", c, "threads">>)
  BY DEF Ordinary, Segmented, Spaced
<1>3. /\ Free({"MessageThreadStartComplex"})
      /\ Fixed({"ThreadStartComplex", "ForumThreadStartComplex"}, c, <<"channels", c, "threads">>)
  BY DEF Fixed, BucketIs, Same, Free, PerItem, Reactions
<1> QED
  BY <1>1, <1>2, <1>3, FixedNamed, FreeNamed, BothNamed DEF ThreadStartRoutes, Plain

LEMMA ThreadMemberNamed ==
  ASSUME NEW c, NEW u, c # "templates"
  PROVE  Named(ThreadMemberRoutes(c, u))
<1>1. /\ MajorOf(<<"channels", c, "thread-members", "@me">>) = c
      /\ MajorOf(<<"channels", c, "thread-members", u>>) = c
      /\ MajorOf(<<"channels", c, "thread-members">>) = c
  BY DEF MajorOf
<1>2. /\ Ordinary(<<"channels", c, "thread-members", "@me">>)
      /\ Ordinary(<<"channels", c, "thread-members", u>>)
      /\ Ordinary(<<"channels", c, "thread-members">>)
  BY DEF Ordinary, Segmented, Spaced
<1>3. /\ Fixed({"ThreadJoin", "ThreadLeave"}, c, <<"channels", c, "thread-members", "@me">>)
      /\ Free({"ThreadMemberAdd", "ThreadMemberRemove", "ThreadMember"})
      /\ Fixed({"ThreadMembers"}, c, <<"channels", c, "thread-members">>)
  BY DEF Fixed, BucketIs, Same, Free, PerItem, Reactions
<1> QED
  BY <1>1, <1>2, <1>3, FixedNamed, FreeNamed, BothNamed DEF ThreadMemberRoutes, Plain

LEMMA ThreadListNamed ==
  ASSUME NEW c, NEW q, c # "templates"
  PROVE  Named(ThreadListRoutes(c, q))
<1>1. /\ MajorOf(<<"channels", c, "threads", "active">>) = c
      /\ MajorOf(<<"guilds", c, "threads", "active">>) = c
      /\ MajorOf(<<"channels", c, "threads", "archived", "public", "?", q>>) = c
      /\ MajorOf(<<"channels", c, "threads", "archived", "private", "?", q>>) = c
      /\ MajorOf(<<"channels", c, "users", "@me", "threads", "archived", "private", "?", q>>) = c
  BY DEF MajorOf
<1>2. /\ Ordinary(<<"channels", c, "threads", "active">>)
      /\ Ordinary(<<"guilds", c, "threads", "active">>)
      /\ Ordinary(<<"channels", c, "threads", "archived", "public", "?", q>>)
      /\ Ordinary(<<"channels", c, "threads", "archived", "private", "?", q>>)
      /\ Ordinary(<<"channels", c, "users", "@me", "threads", "archived", "private", "?", q>>)
  BY DEF Ordinary, Segmented, Spaced
<1>3. /\ Fixed({"ThreadsActive"}, c, <<"channels", c, "threads", "active">>)
      /\ Fixed({"GuildThreadsActive"}, c, <<"guilds", c, "threads", "active">>)
      /\ Free({"ThreadsArchived"})
      /\ Free({"ThreadsPrivateArchived"})
      /\ Free({"ThreadsPrivateJoinedArchived"})
  BY DEF Fixed, BucketIs, Same, Free, PerItem, Reactions
<1> QED
  BY <1>1, <1>2, <1>3, FixedNamed, FreeNamed, BothNamed DEF ThreadListRoutes, Plain

LEMMA CommandNamed ==
  ASSUME NEW g, NEW a, NEW k, g # "templates"
  PROVE  Named(CommandRoutes(g, a, k))
<1>1. /\ MajorOf(<<"applications", a, "commands">>) = Nothing
      /\ MajorOf(<<"applications", a, "guilds", g, "commands">>) = g
      /\ MajorOf(<<"applications", a, "commands", k>>) = Nothing
      /\ MajorOf(<<"applications", a, "guilds", g, "commands", k>>) = g
      /\ MajorOf(<<"GET ", "applications", a, "commands">>) = Nothing
      /\ MajorOf(<<"GET ", "applications", a, "guilds", g, "commands">>) = g
  BY DEF MajorOf
<1>2. /\ Ordinary(<<"applications", a, "commands">>)
      /\ Ordinary(<<"applications", a, "guilds", g, "commands">>)
      /\ Ordinary(<<"applications", a, "commands", k>>)
      /\ Ordinary(<<"applications", a, "guilds", g, "commands", k>>)
      /\ Ordinary(<<"GET ", "applications", a, "commands">>)
      /\ Ordinary(<<"GET ", "applications", a, "guilds", g, "commands">>)
  BY DEF Ordinary, Segmented, Spaced
<1>3. /\ Free({"ApplicationCommandCreate", "ApplicationCommandBulkOverwrite"})
      /\ Free({"ApplicationCommandEdit", "ApplicationCommandDelete", "ApplicationCommand"})
      /\ Free({"ApplicationCommands"})
  BY DEF Free, PerItem, Reactions
<1> QED
  BY <1>1, <1>2, <1>3, FreeNamed, BothNamed DEF CommandRoutes, Plain

LEMMA CommandPermissionNamed ==
  ASSUME NEW g, NEW a, NEW k, g # "templates"
  PROVE  Named(CommandPermissionRoutes(g, a, k))
<1>1. /\ MajorOf(<<"applications", a, "guilds", g, "permissions">>) = g
      /\ MajorOf(<<"applications", a, "guilds", g, "commands", k, "permissions">>) = g
  BY DEF MajorOf
<1>2. /\ Ordinary(<<"applications", a, "guilds", g, "permissions">>)
      /\ Ordinary(<<"applications", a, "guilds", g, "commands", k, "permissions">>)
  BY DEF Ordinary, Segmented, Spaced
<1>3. /\ Free({"GuildApplicationCommandsPermissions", "ApplicationCommandPermissionsBatchEdit"})
      /\ Free({"ApplicationCommandPermissions", "ApplicationCommandPermissionsEdit"})
  BY DEF Free, PerItem, Reactions
<1> QED
  BY <1>1, <1>2, <1>3, FreeNamed, BothNamed DEF CommandPermissionRoutes, Plain

LEMMA InteractionNamed ==
  ASSUME NEW i, NEW t
  PROVE  Named(InteractionRoutes(i, t))
<1>1. /\ MajorOf(<<"interactions", i, t, "callback">>) = Nothing
      /\ MajorOf(<<"webhooks", i, t, "messages", "@original">>) = Nothing
  BY DEF MajorOf
<1>2. /\ Ordinary(<<"interactions", i, t, "callback">>)
      /\ Ordinary(<<"webhooks", i, t, "messages", "@original">>)
  BY DEF Ordinary, Segmented, Spaced
<1>3. /\ Free({"InteractionRespond"})
      /\ Free({"InteractionResponseDelete"})
  BY DEF Free, PerItem, Reactions
<1> QED
  BY <1>1, <1>2, <1>3, FreeNamed, BothNamed DEF InteractionRoutes, Plain

LEMMA StageNamed ==
  ASSUME NEW c, c # "templates"
  PROVE  Named(StageRoutes(c))
<1>1. /\ MajorOf(<<"stage-instances">>) = Nothing
      /\ MajorOf(<<"stage-instances", c>>) = c
  BY DEF MajorOf
<1>2. /\ Ordinary(<<"stage-instances">>)
      /\ Ordinary(<<"stage-instances", c>>)
  BY DEF Ordinary, Segmented, Spaced
<1>3. /\ Fixed({"StageInstanceCreate"}, Nothing, <<"stage-instances">>)
      /\ Fixed({"StageInstance", "StageInstanceEdit", "StageInstanceDelete"}, c,
               <<"stage-instances", c>>)
  BY DEF Fixed, BucketIs, Same, Reactions
<1> QED
  BY <1>1, <1>2, <1>3, FixedNamed, BothNamed DEF StageRoutes, Plain

LEMMA ScheduleNamed ==
  ASSUME NEW g, NEW e, g # "templates"
  PROVE  Named(ScheduleRoutes(g, e))
<1>1. /\ MajorOf(<<"guilds", g, "scheduled-events">>) = g
      /\ MajorOf(<<"guilds", g, "scheduled-events", e>>) = g
      /\ MajorOf(<<"guilds", g, "scheduled-events", e, "users">>) = g
  BY DEF MajorOf
<1>2. /\ Ordinary(<<"guilds", g, "scheduled-events">>)
      /\ Ordinary(<<"guilds", g, "scheduled-events", e>>)
      /\ Ordinary(<<"guilds", g, "scheduled-events", e, "users">>)
  BY DEF Ordinary, Segmented, Spaced
<1>3. /\ Fixed({"GuildScheduledEvents", "GuildScheduledEventCreate"}, g,
               <<"guilds", g, "scheduled-events">>)
      /\ Free({"GuildScheduledEvent", "GuildScheduledEventEdit", "GuildScheduledEventDelete"})
      /\ Free({"GuildScheduledEventUsers"})
  BY DEF Fixed, BucketIs, Same, Free, PerItem, Reactions
<1> QED
  BY <1>1, <1>2, <1>3, FixedNamed, FreeNamed, BothNamed DEF ScheduleRoutes, Plain

LEMMA ModerationNamed ==
  ASSUME NEW g, NEW r, g # "templates"
  PROVE  Named(ModerationRoutes(g, r))
<1>1. /\ MajorOf(<<"guilds", g, "auto-moderation", "rules">>) = g
      /\ MajorOf(<<"guilds", g, "auto-moderation", "rules", r>>) = g
  BY DEF MajorOf
<1>2. /\ Ordinary(<<"guilds", g, "auto-moderation", "rules">>)
      /\ Ordinary(<<"guilds", g, "auto-moderation", "rules", r>>)
  BY DEF Ordinary, Segmented, Spaced
<1>3. /\ Fixed({"AutoModerationRules", "AutoModerationRuleCreate"}, g,
               <<"guilds", g, "auto-moderation", "rules">>)
      /\ Free({"AutoModerationRule", "AutoModerationRuleEdit", "AutoModerationRuleDelete"})
  BY DEF Fixed, BucketIs, Same, Free, PerItem, Reactions
<1> QED
  BY <1>1, <1>2, <1>3, FixedNamed, FreeNamed, BothNamed DEF ModerationRoutes, Plain

LEMMA RoleConnectionNamed ==
  ASSUME NEW a
  PROVE  Named(RoleConnectionRoutes(a))
<1>1. /\ MajorOf(<<"applications", a, "role-connections", "metadata">>) = Nothing
      /\ MajorOf(<<"users", "@me", "applications", a, "role-connection">>) = Nothing
  BY DEF MajorOf
<1>2. /\ Ordinary(<<"applications", a, "role-connections", "metadata">>)
      /\ Ordinary(<<"users", "@me", "applications", a, "role-connection">>)
  BY DEF Ordinary, Segmented, Spaced
<1>3. /\ Free({"ApplicationRoleConnectionMetadata", "ApplicationRoleConnectionMetadataUpdate"})
      /\ Free({"UserApplicationRoleConnection", "UserApplicationRoleConnectionUpdate"})
  BY DEF Free, PerItem, Reactions
<1> QED
  BY <1>1, <1>2, <1>3, FreeNamed, BothNamed DEF RoleConnectionRoutes, Plain

LEMMA ApplicationNamed ==
  ASSUME NEW a
  PROVE  Named(ApplicationRoutes(a))
<1>1. /\ MajorOf(<<"oauth2", "applications", "">>) = Nothing
      /\ MajorOf(<<"oauth2", "applications">>) = Nothing
      /\ MajorOf(<<"oauth2", "applications", "", "assets">>) = Nothing
      /\ MajorOf(<<"oauth2", "applications", "", "bot">>) = Nothing
  BY DEF MajorOf
<1>2. /\ Ordinary(<<"oauth2", "applications", "">>)
      /\ Ordinary(<<"oauth2", "applications">>)
      /\ Ordinary(<<"oauth2", "applications", "", "assets">>)
      /\ Ordinary(<<"oauth2", "applications", "", "bot">>)
  BY DEF Ordinary, Segmented, Spaced
<1>3. /\ Fixed({"Application", "ApplicationUpdate", "ApplicationDelete"}, Nothing,
               <<"oauth2", "applications", "">>)
      /\ Fixed({"Applications", "ApplicationCreate"}, Nothing, <<"oauth2", "applications">>)
      /\ Fixed({"ApplicationAssets"}, Nothing, <<"oauth2", "applications", "", "assets">>)
      /\ Fixed({"ApplicationBotCreate"}, Nothing, <<"oauth2", "applications", "", "bot">>)
  BY DEF Fixed, BucketIs, Same, Reactions
<1> QED
  BY <1>1, <1>2, <1>3, FixedNamed, BothNamed DEF ApplicationRoutes, Plain

LEMMA GuildRequestsNamed ==
  ASSUME NEW g, NEW x, NEW y, g # "templates"
  PROVE  Named(GuildRequests(g, x, y))
<1>1. /\ Named(GuildRoutes(g))
      /\ Named(UserGuildMember(g))
      /\ Named(BanRoutes(g, x))
      /\ Named(MembersRoutes(g))
      /\ Named(MemberRoutes(g, x))
      /\ Named(MemberRoleRoutes(g, x, y))
      /\ Named(GuildPartRoutes(g, x))
      /\ Named(GuildCareRoutes(g, x))
      /\ Named(PictureRoutes(g))
      /\ Named(EmojiRoutes(g, x))
      /\ Named(TemplateRoutes(g, x))
      /\ Named(CommandRoutes(g, x, y))
      /\ Named(CommandPermissionRoutes(g, x, y))
      /\ Named(ScheduleRoutes(g, x))
      /\ Named(ModerationRoutes(g, x))
  BY GuildNamed, UserGuildMemberNamed, BanNamed, MembersNamed, MemberNamed, MemberRoleNamed,
     GuildPartNamed, GuildCareNamed, PictureNamed, EmojiNamed, TemplateNamed, CommandNamed,
     CommandPermissionNamed, ScheduleNamed, ModerationNamed
<1> QED
  BY <1>1 DEF GuildRequests, Named

LEMMA ChannelRequestsNamed ==
  ASSUME NEW c, NEW x, NEW y, c # "templates"
  PROVE  Named(ChannelRequests(c, x, y))
<1>1. /\ Named(ChannelRoutes(c))
      /\ Named(SendRoutes(c))
      /\ Named(MessageRoutes(c, x))
      /\ Named(ChannelPartRoutes(c, x))
      /\ Named(WebhooksRoutes(c))
      /\ Named(ReactionRoutes(c, x, y))
      /\ Named(ThreadStartRoutes(c, x))
      /\ Named(ThreadMemberRoutes(c, x))
      /\ Named(ThreadListRoutes(c, x))
      /\ Named(StageRoutes(c))
  BY ChannelNamed, SendNamed, MessageNamed, ChannelPartNamed, WebhooksNamed, ReactionNamed,
     ThreadStartNamed, ThreadMemberNamed, ThreadListNamed, StageNamed
<1> QED
  BY <1>1 DEF ChannelRequests, Named

LEMMA OtherRequestsNamed ==
  ASSUME NEW x, NEW y
  PROVE  Named(OtherRequests(x, y))
<1>1. /\ Named(UserRoutes(x))
      /\ Named(InviteRoutes(x))
      /\ Named(GatewayRoutes)
      /\ Named(WebhookRoutes(x, y))
      /\ Named(WebhookMessageRoutes(x, y))
      /\ Named(InteractionRoutes(x, y))
      /\ Named(RoleConnectionRoutes(x))
      /\ Named(ApplicationRoutes(x))
  BY UserNamed, InviteNamed, GatewayNamed, WebhookNamed, WebhookMessageNamed, InteractionNamed,
     RoleConnectionNamed, ApplicationNamed
<1> QED
  BY <1>1 DEF OtherRequests, Named

LEMMA RequestsNamed == Named(Requests)
<1>1. \A m \in Majors : m # "templates"
  BY RoutesAssumption
<1>2. \A m \in Majors, x \in Minors, y \in Minors :
         /\ Named(GuildRequests(m, x, y)) /\ Named(ChannelRequests(m, x, y))
         /\ Named(OtherRequests(x, y))
  BY <1>1, GuildRequestsNamed, ChannelRequestsNamed, OtherRequestsNamed
<1> QED
  BY <1>2 DEF Named, Requests

\* A call has one name for a guild or channel.
LEMMA OneBucket ==
  ASSUME NEW op, NEW m, NEW b, NEW c, BucketIs(op, m, b), BucketIs(op, m, c)
  PROVE  b = c
<1>1. \A b1, b2, d : Same(b1, d) /\ Same(b2, d) => b1 = b2
  BY DEF Same
<1> QED
  BY <1>1, ZenonT(60) DEF BucketIs

\* The invariant of the requests: each has its bucket's name from its call, and every
\* bucket has the limit its name asks for.
MadeInv ==
    /\ Named(made) /\ \A r \in made : r.bucket \in DOMAIN buckets
    /\ \A k \in DOMAIN buckets : buckets[k] = Custom(k)

\* Whatever requests are made, in any order: those that share a bucket are about one
\* guild or channel, a call about one has one bucket but for those in PerItem, and the
\* custom limit is on the reactions' buckets and on no other.
THEOREM BucketsAlwaysRight == RouteInit /\ [][RouteNext]_routeVars => []BucketsRight
<1>1. RouteInit => MadeInv
  BY DEF RouteInit, MadeInv, Named
<1>2. MadeInv /\ [RouteNext]_routeVars => MadeInv'
  <2> SUFFICES ASSUME MadeInv, [RouteNext]_routeVars PROVE MadeInv'
    OBVIOUS
  <2>1. CASE RouteNext
    <3> PICK r \in Requests : Request(r)
      BY <2>1 DEF RouteNext
    <3>1. Named({r})
      BY RequestsNamed DEF Named
    <3>2. Named(made')
      BY <3>1 DEF Named, MadeInv, Request
    <3>3. DOMAIN buckets' = DOMAIN buckets \cup {r.bucket}
          /\ \A k \in DOMAIN buckets' : buckets'[k] = Custom(k)
      BY DEF MadeInv, Request, GetBucket
    <3>4. \A s \in made' : s.bucket \in DOMAIN buckets'
      BY <3>3 DEF MadeInv, Request
    <3> QED
      BY <3>2, <3>3, <3>4 DEF MadeInv, Named
  <2>2. CASE UNCHANGED routeVars
    BY <2>2 DEF MadeInv, Named, routeVars
  <2> QED
    BY <2>1, <2>2
<1>3. MadeInv => BucketsRight
  <2> SUFFICES ASSUME MadeInv, NEW r \in made, NEW s \in made
               PROVE  /\ r.bucket = s.bucket => r.major = s.major
                      /\ r.op = s.op /\ r.major = s.major /\ r.op \notin PerItem => r.bucket = s.bucket
                      /\ buckets[r.bucket] <=> r.op \in Reactions
    BY DEF BucketsRight, Reactions
  <2>1. /\ MajorOf(r.bucket) = r.major /\ MajorOf(s.bucket) = s.major
        /\ r.op \in PerItem \/ BucketIs(r.op, r.major, r.bucket)
        /\ s.op \in PerItem \/ BucketIs(s.op, s.major, s.bucket)
        /\ Custom(r.bucket) <=> r.op \in Reactions
        /\ buckets[r.bucket] = Custom(r.bucket)
    BY DEF MadeInv, Named
  <2> QED
    BY <2>1, OneBucket
<1> QED
  BY <1>1, <1>2, <1>3, PTL
--------------------------------------------------------------------------------------
LEMMA LeastNumber ==
    ASSUME NEW T, T \subseteq Nat, T # {}
    PROVE  \E k \in T : \A l \in T : k <= l
<1> DEFINE R == {ss \in Nat \X Nat : ss[1] < ss[2]}
<1>1. IsWellFoundedOn(R, Nat)
  BY NatLessThanWellFounded DEF OpToRel
<1>2. \E k \in T : \A l \in T : <<l, k>> \notin R
  BY <1>1, WFMin
<1>3. \A k, l \in T : <<l, k>> \notin R => k <= l
  <2> SUFFICES ASSUME NEW k \in T, NEW l \in T, l < k PROVE <<l, k>> \in R
    OBVIOUS
  <2> QED OBVIOUS
<1> QED BY <1>2, <1>3

\* Induction over numbers, on the set of those a fact holds for.
LEMMA EveryNumber ==
    ASSUME NEW P, 0 \in P, \A n \in P \cap Nat : n + 1 \in P
    PROVE  Nat \subseteq P
<1> SUFFICES ASSUME Nat \ P # {} PROVE FALSE
  OBVIOUS
<1>1. PICK k \in Nat \ P : \A l \in Nat \ P : k <= l
  BY LeastNumber, Nat \ P \subseteq Nat
<1>2. k # 0
  BY <1>1
<1>3. k - 1 \in Nat /\ k - 1 \in P
  BY <1>1, <1>2
<1> QED BY <1>1, <1>3

\* Induction over sequences, on the set of those a fact holds for.
LEMMA EverySequence ==
    ASSUME NEW S, NEW Q, <<>> \in Q,
           \A s \in Seq(S), x \in S : s \in Q => Append(s, x) \in Q
    PROVE  Seq(S) \subseteq Q
<1> DEFINE P == {n \in Nat : \A s \in Seq(S) : Len(s) = n => s \in Q}
<1>1. 0 \in P
  BY EmptySeq
<1>2. ASSUME NEW n \in P \cap Nat PROVE n + 1 \in P
  <2> SUFFICES ASSUME NEW s \in Seq(S), Len(s) = n + 1 PROVE s \in Q
    OBVIOUS
  <2>1. s # <<>>
    BY EmptySeq
  <2>2. PICK t \in Seq(S), x \in S : s = Append(t, x)
    BY <2>1, SequenceEmptyOrAppend
  <2>3. Len(t) = n
    BY <2>2, AppendProperties, LenProperties
  <2> QED BY <2>2, <2>3
<1>3. Nat \subseteq P
  <2> HIDE DEF P
  <2> QED BY <1>1, <1>2, EveryNumber
<1> QED BY <1>3, LenProperties

\* The recursion of Only.
OnlyStep(s, kept, f) ==
    [n \in 0..Len(s) |->
        IF n = 0 THEN <<>>
        ELSE IF s[n] \in kept THEN Append(f[n - 1], s[n]) ELSE f[n - 1]]

\* It has a solution,
LEMMA OnlySolved ==
    ASSUME NEW S, NEW s \in Seq(S), NEW kept
    PROVE  \E f : f = OnlyStep(s, kept, f)
<1> DEFINE Up(n, f) == [k \in 0..n |->
        IF k = 0 THEN <<>>
        ELSE IF s[k] \in kept THEN Append(f[k - 1], s[k]) ELSE f[k - 1]]
           P == {n \in Nat : \E f : f = Up(n, f)}
<1>1. 0 \in P
  <2>1. [k \in 0..0 |-> <<>>] = Up(0, [k \in 0..0 |-> <<>>])
    OBVIOUS
  <2> QED BY <2>1
<1>2. ASSUME NEW n \in P \cap Nat PROVE n + 1 \in P
  <2>1. PICK f : f = Up(n, f)
    OBVIOUS
  <2> DEFINE g == [k \in 0..n + 1 |-> IF k <= n THEN f[k]
                     ELSE IF s[n + 1] \in kept THEN Append(f[n], s[n + 1]) ELSE f[n]]
  <2>2. \A k \in 0..n : g[k] = f[k]
    OBVIOUS
  <2>3. \A k \in 0..n : f[k] = IF k = 0 THEN <<>>
                               ELSE IF s[k] \in kept THEN Append(f[k - 1], s[k]) ELSE f[k - 1]
    BY <2>1
  <2>4. ASSUME NEW k \in 0..n + 1 PROVE g[k] = Up(n + 1, g)[k]
    <3>1. CASE k = 0
      BY <3>1, <2>2, <2>3
    <3>2. CASE k \in 1..n
      <4>1. k - 1 \in 0..n /\ k \in 0..n /\ k # 0
        BY <3>2
      <4>2. g[k] = f[k] /\ g[k - 1] = f[k - 1]
        BY <4>1, <2>2
      <4> QED BY <4>1, <4>2, <2>3
    <3>3. CASE k = n + 1
      <4>1. g[k - 1] = f[n] /\ ~(k <= n) /\ k # 0
        BY <3>3, <2>2
      <4> QED BY <4>1, <3>3
    <3> QED BY <3>1, <3>2, <3>3
  <2>5. g = Up(n + 1, g)
    BY <2>4
  <2> QED BY <2>5
<1>3. Nat \subseteq P
  <2> HIDE DEF P
  <2> QED BY <1>1, <1>2, EveryNumber
<1> QED BY <1>3, LenProperties DEF OnlyStep

LEMMA OnlyAt ==
    ASSUME NEW s, NEW kept, NEW f, f = OnlyStep(s, kept, f), NEW n \in 0..Len(s)
    PROVE  f[n] = IF n = 0 THEN <<>>
                  ELSE IF s[n] \in kept THEN Append(f[n - 1], s[n]) ELSE f[n - 1]
<1>1. OnlyStep(s, kept, f)[n] =
        IF n = 0 THEN <<>>
        ELSE IF s[n] \in kept THEN Append(f[n - 1], s[n]) ELSE f[n - 1]
  BY DEF OnlyStep
<1>2. f[n] = OnlyStep(s, kept, f)[n]
  OBVIOUS
<1> QED BY <1>1, <1>2

\* and only one, as far as two sequences begin alike.
LEMMA OnlyUnique ==
    ASSUME NEW S, NEW s \in Seq(S), NEW t \in Seq(S), NEW kept, NEW m \in Nat,
           m <= Len(s), m <= Len(t), \A n \in 1..m : s[n] = t[n]
    PROVE  \A f, g : f = OnlyStep(s, kept, f) /\ g = OnlyStep(t, kept, g) => f[m] = g[m]
<1> SUFFICES ASSUME NEW f, f = OnlyStep(s, kept, f), NEW g, g = OnlyStep(t, kept, g)
             PROVE  f[m] = g[m]
  OBVIOUS
<1> DEFINE P == {n \in Nat : n <= m => f[n] = g[n]}
<1>0. Len(s) \in Nat /\ Len(t) \in Nat
  BY LenProperties
<1>1. \A n \in 0..m : f[n] = IF n = 0 THEN <<>>
           ELSE IF s[n] \in kept THEN Append(f[n - 1], s[n]) ELSE f[n - 1]
  <2>1. 0..m \subseteq 0..Len(s)
    BY <1>0
  <2> QED BY <2>1, OnlyAt
<1>2. \A n \in 0..m : g[n] = IF n = 0 THEN <<>>
           ELSE IF t[n] \in kept THEN Append(g[n - 1], t[n]) ELSE g[n - 1]
  <2>1. 0..m \subseteq 0..Len(t)
    BY <1>0
  <2> QED BY <2>1, OnlyAt
<1>3. 0 \in P
  BY <1>1, <1>2
<1>4. ASSUME NEW n \in P \cap Nat PROVE n + 1 \in P
  <2> SUFFICES ASSUME n + 1 <= m PROVE f[n + 1] = g[n + 1]
    OBVIOUS
  <2>1. f[n] = g[n] /\ n + 1 \in 0..m /\ n + 1 \in 1..m /\ n + 1 # 0 /\ (n + 1) - 1 = n
    OBVIOUS
  <2>2. s[n + 1] = t[n + 1]
    BY <2>1
  <2> QED BY <2>1, <2>2, <1>1, <1>2
<1>5. Nat \subseteq P
  <2> HIDE DEF P
  <2> QED BY <1>3, <1>4, EveryNumber
<1> QED BY <1>5

LEMMA OnlyDefined ==
    ASSUME NEW S, NEW s \in Seq(S), NEW kept
    PROVE  \E f : f = OnlyStep(s, kept, f) /\ Only(s, kept) = f[Len(s)]
<1> DEFINE f == CHOOSE f : f = [n \in 0..Len(s) |->
        IF n = 0 THEN <<>>
        ELSE IF s[n] \in kept THEN Append(f[n - 1], s[n]) ELSE f[n - 1]]
<1>1. f = OnlyStep(s, kept, f)
  <2>1. \E h : h = [n \in 0..Len(s) |->
        IF n = 0 THEN <<>>
        ELSE IF s[n] \in kept THEN Append(h[n - 1], s[n]) ELSE h[n - 1]]
    BY OnlySolved, ZenonT(40) DEF OnlyStep
  <2>2. f = [n \in 0..Len(s) |->
        IF n = 0 THEN <<>>
        ELSE IF s[n] \in kept THEN Append(f[n - 1], s[n]) ELSE f[n - 1]]
    BY <2>1, Zenon
  <2> HIDE DEF f
  <2> QED BY <2>2 DEF OnlyStep
<1>2. Only(s, kept) = f[Len(s)]
  BY DEF Only
<1> HIDE DEF f
<1> QED BY <1>1, <1>2

LEMMA OnlyEmpty ==
    ASSUME NEW kept
    PROVE  Only(<<>>, kept) = <<>>
<1>1. PICK f : f = OnlyStep(<<>>, kept, f) /\ Only(<<>>, kept) = f[Len(<<>>)]
  BY OnlyDefined, EmptySeq
<1>2. f[0] = <<>>
  BY <1>1, EmptySeq DEF OnlyStep
<1> QED BY <1>1, <1>2, EmptySeq

LEMMA OnlyAppend ==
    ASSUME NEW S, NEW s \in Seq(S), NEW x \in S, NEW kept
    PROVE  Only(Append(s, x), kept) =
             IF x \in kept THEN Append(Only(s, kept), x) ELSE Only(s, kept)
<1> DEFINE t == Append(s, x)
           m == Len(s)
<1>1. t \in Seq(S) /\ Len(t) = m + 1 /\ t[m + 1] = x /\ (\A n \in 1..m : t[n] = s[n]) /\ m \in Nat
  BY AppendProperties, LenProperties
<1>2. PICK f : f = OnlyStep(s, kept, f) /\ Only(s, kept) = f[m]
  BY OnlyDefined
<1>3. PICK g : g = OnlyStep(t, kept, g) /\ Only(t, kept) = g[Len(t)]
  BY <1>1, OnlyDefined
<1> HIDE DEF t, m
<1>4. f[m] = g[m]
  <2>1. m <= Len(s) /\ m <= Len(t) /\ \A n \in 1..m : s[n] = t[n]
    BY <1>1 DEF m
  <2>2. f = OnlyStep(s, kept, f) /\ g = OnlyStep(t, kept, g) /\ t \in Seq(S) /\ m \in Nat
    BY <1>1, <1>2, <1>3
  <2>3. \A ff, gg : ff = OnlyStep(s, kept, ff) /\ gg = OnlyStep(t, kept, gg) => ff[m] = gg[m]
    BY <2>1, <2>2, OnlyUnique
  <2> QED BY <2>2, <2>3
<1>5. g[m + 1] = IF t[m + 1] \in kept THEN Append(g[m], t[m + 1]) ELSE g[m]
  <2>1. m + 1 \in 0..Len(t) /\ m + 1 # 0 /\ (m + 1) - 1 = m
    BY <1>1
  <2>2. g[m + 1] = IF m + 1 = 0 THEN <<>>
                   ELSE IF t[m + 1] \in kept THEN Append(g[(m + 1) - 1], t[m + 1]) ELSE g[(m + 1) - 1]
    BY <2>1, <1>3, OnlyAt
  <2> QED BY <2>1, <2>2
<1> QED BY <1>1, <1>2, <1>3, <1>4, <1>5 DEF t

LEMMA OnlyType ==
    ASSUME NEW S, NEW s \in Seq(S), NEW kept
    PROVE  Only(s, kept) \in Seq(S \cap kept) /\ Only(s, kept) \in Seq(S)
<1> DEFINE Q == {u \in Seq(S) : Only(u, kept) \in Seq(S \cap kept)}
<1>1. <<>> \in Q
  BY EmptySeq, OnlyEmpty
<1>2. ASSUME NEW u \in Seq(S), NEW x \in S, u \in Q PROVE Append(u, x) \in Q
  <2>1. Append(u, x) \in Seq(S)
    BY AppendProperties
  <2>2. CASE x \in kept
    <3>1. Append(Only(u, kept), x) \in Seq(S \cap kept)
      BY <1>2, <2>2, AppendProperties
    <3>2. Only(Append(u, x), kept) = Append(Only(u, kept), x)
      BY <2>2, OnlyAppend
    <3> QED BY <2>1, <3>1, <3>2
  <2>3. CASE x \notin kept
    <3>1. Only(Append(u, x), kept) = Only(u, kept)
      BY <2>3, OnlyAppend
    <3> QED BY <1>2, <2>1, <3>1
  <2> QED BY <2>2, <2>3
<1>3. Seq(S) \subseteq Q
  <2> HIDE DEF Q
  <2> QED BY <1>1, <1>2, EverySequence
<1> QED BY <1>3, SeqMonotonic

LEMMA ConcatAppend ==
    ASSUME NEW S, NEW s \in Seq(S), NEW t \in Seq(S), NEW x \in S
    PROVE  s \o Append(t, x) = Append(s \o t, x)
<1>1. <<x>> \in Seq(S) /\ s \o t \in Seq(S)
  BY ConcatProperties
<1> QED BY <1>1, AppendIsConcat, ConcatAssociative

LEMMA OnlyConcat ==
    ASSUME NEW S, NEW s \in Seq(S), NEW t \in Seq(S), NEW kept
    PROVE  Only(s \o t, kept) = Only(s, kept) \o Only(t, kept)
<1> DEFINE Q == {u \in Seq(S) : Only(s \o u, kept) = Only(s, kept) \o Only(u, kept)}
<1>0. Only(s, kept) \in Seq(S)
  BY OnlyType
<1>1. <<>> \in Q
  BY <1>0, EmptySeq, OnlyEmpty, ConcatEmptySeq
<1>2. ASSUME NEW u \in Seq(S), NEW x \in S, u \in Q PROVE Append(u, x) \in Q
  <2>1. Append(u, x) \in Seq(S) /\ s \o u \in Seq(S) /\ Only(u, kept) \in Seq(S)
    BY AppendProperties, ConcatProperties, OnlyType
  <2>2. s \o Append(u, x) = Append(s \o u, x)
    BY ConcatAppend
  <2>3. Only(s \o u, kept) = Only(s, kept) \o Only(u, kept)
    BY <1>2
  <2>4. CASE x \in kept
    <3>1. Only(Append(s \o u, x), kept) = Append(Only(s, kept) \o Only(u, kept), x)
      BY <2>1, <2>3, <2>4, OnlyAppend
    <3>2. Only(s, kept) \o Append(Only(u, kept), x) = Append(Only(s, kept) \o Only(u, kept), x)
      BY <1>0, <2>1, ConcatAppend
    <3>3. Only(Append(u, x), kept) = Append(Only(u, kept), x)
      BY <2>4, OnlyAppend
    <3> QED BY <2>1, <2>2, <3>1, <3>2, <3>3
  <2>5. CASE x \notin kept
    <3>1. Only(Append(s \o u, x), kept) = Only(s \o u, kept)
      BY <2>1, <2>5, OnlyAppend
    <3>2. Only(Append(u, x), kept) = Only(u, kept)
      BY <2>5, OnlyAppend
    <3> QED BY <2>1, <2>2, <2>3, <3>1, <3>2
  <2> QED BY <2>4, <2>5
<1>3. Seq(S) \subseteq Q
  <2> HIDE DEF Q
  <2> QED BY <1>1, <1>2, EverySequence
<1> QED BY <1>3

\* Only the elements that occur matter.
LEMMA OnlySame ==
    ASSUME NEW S, NEW s \in Seq(S), NEW K, NEW J, S \cap K = S \cap J
    PROVE  Only(s, K) = Only(s, J)
<1> DEFINE Q == {u \in Seq(S) : Only(u, K) = Only(u, J)}
<1>1. <<>> \in Q
  BY EmptySeq, OnlyEmpty
<1>2. ASSUME NEW u \in Seq(S), NEW x \in S, u \in Q PROVE Append(u, x) \in Q
  <2>1. Append(u, x) \in Seq(S)
    BY AppendProperties
  <2>2. x \in K <=> x \in J
    OBVIOUS
  <2>3. Only(Append(u, x), K) = IF x \in K THEN Append(Only(u, K), x) ELSE Only(u, K)
    BY OnlyAppend
  <2>4. Only(Append(u, x), J) = IF x \in J THEN Append(Only(u, J), x) ELSE Only(u, J)
    BY OnlyAppend
  <2> QED BY <1>2, <2>1, <2>2, <2>3, <2>4
<1>3. Seq(S) \subseteq Q
  <2> HIDE DEF Q
  <2> QED BY <1>1, <1>2, EverySequence
<1> QED BY <1>3

LEMMA OnlyTwice ==
    ASSUME NEW S, NEW s \in Seq(S), NEW K, NEW J
    PROVE  Only(Only(s, K), J) = Only(s, K \cap J)
<1> DEFINE Q == {u \in Seq(S) : Only(Only(u, K), J) = Only(u, K \cap J)}
<1>1. <<>> \in Q
  BY EmptySeq, OnlyEmpty
<1>2. ASSUME NEW u \in Seq(S), NEW x \in S, u \in Q PROVE Append(u, x) \in Q
  <2>1. Append(u, x) \in Seq(S) /\ Only(u, K) \in Seq(S)
    BY AppendProperties, OnlyType
  <2>2. Only(Append(u, x), K \cap J) =
          IF x \in K \cap J THEN Append(Only(u, K \cap J), x) ELSE Only(u, K \cap J)
    BY OnlyAppend
  <2>3. CASE x \in K
    <3>1. Only(Append(u, x), K) = Append(Only(u, K), x)
      BY <2>3, OnlyAppend
    <3>2. Only(Append(Only(u, K), x), J) =
            IF x \in J THEN Append(Only(Only(u, K), J), x) ELSE Only(Only(u, K), J)
      BY <2>1, OnlyAppend
    <3>3. Only(Only(Append(u, x), K), J) =
            IF x \in J THEN Append(Only(Only(u, K), J), x) ELSE Only(Only(u, K), J)
      BY <3>1, <3>2
    <3>4. Only(Only(u, K), J) = Only(u, K \cap J) /\ (x \in K \cap J <=> x \in J)
      BY <1>2, <2>3
    <3>5. Only(Only(Append(u, x), K), J) = Only(Append(u, x), K \cap J)
      BY <2>2, <3>3, <3>4
    <3> QED BY <2>1, <3>5
  <2>4. CASE x \notin K
    <3>1. Only(Append(u, x), K) = Only(u, K)
      BY <2>4, OnlyAppend
    <3> QED BY <1>2, <2>1, <2>2, <2>4, <3>1
  <2> QED BY <2>3, <2>4
<1>3. Seq(S) \subseteq Q
  <2> HIDE DEF Q
  <2> QED BY <1>1, <1>2, EverySequence
<1> QED BY <1>3

LEMMA OnlyAll ==
    ASSUME NEW K, NEW s \in Seq(K)
    PROVE  Only(s, K) = s
<1> DEFINE Q == {u \in Seq(K) : Only(u, K) = u}
<1>1. <<>> \in Q
  BY EmptySeq, OnlyEmpty
<1>2. ASSUME NEW u \in Seq(K), NEW x \in K, u \in Q PROVE Append(u, x) \in Q
  <2>1. Append(u, x) \in Seq(K)
    BY AppendProperties
  <2>2. Only(Append(u, x), K) = Append(Only(u, K), x)
    BY OnlyAppend
  <2> QED BY <1>2, <2>1, <2>2
<1>3. Seq(K) \subseteq Q
  <2> HIDE DEF Q
  <2> QED BY <1>1, <1>2, EverySequence
<1> QED BY <1>3

LEMMA OnlyNone ==
    ASSUME NEW S, NEW s \in Seq(S), NEW K, S \cap K = {}
    PROVE  Only(s, K) = <<>>
<1>1. Only(s, K) \in Seq({})
  BY OnlyType
<1>2. Only(s, K) # <<>> => FALSE
  <2> SUFFICES ASSUME Only(s, K) # <<>> PROVE FALSE
    OBVIOUS
  <2> QED BY <1>1, HeadTailProperties
<1> QED BY <1>2

LEMMA Elements ==
    ASSUME NEW S, NEW s \in Seq(S)
    PROVE  /\ s \in Seq(ToSet(s)) /\ ToSet(s) \subseteq S
           /\ ToSet(s) = {s[k] : k \in 1..Len(s)}
<1>1. DOMAIN s = 1..Len(s) /\ Len(s) \in Nat
  BY LenProperties
<1>2. ToSet(s) = {s[k] : k \in 1..Len(s)}
  BY <1>1 DEF ToSet
<1>3. ToSet(s) \subseteq S
  BY <1>2, ElementOfSeq
<1>4. \A k \in 1..Len(s) : s[k] \in ToSet(s)
  BY <1>2
<1>5. s \in [1..Len(s) -> ToSet(s)]
  BY <1>4, LenProperties
<1>6. s \in Seq(ToSet(s))
  <2> DEFINE T == ToSet(s)
  <2> HIDE DEF T
  <2>1. s \in [1..Len(s) -> T]
    BY <1>5 DEF T
  <2>2. s \in Seq(T)
    BY <1>1, <2>1, SeqDef
  <2> QED BY <2>2 DEF T
<1> QED BY <1>2, <1>3, <1>6

LEMMA WithoutIsOnly ==
    ASSUME NEW S, NEW s \in Seq(S), NEW gone
    PROVE  Without(s, gone) = Only(s, S \ gone)
<1>1. s \in Seq(ToSet(s)) /\ ToSet(s) \subseteq S
  BY Elements
<1>2. ToSet(s) \cap (ToSet(s) \ gone) = ToSet(s) \cap (S \ gone)
  BY <1>1
<1> QED BY <1>1, <1>2, OnlySame DEF Without

LEMMA MinOf ==
    ASSUME NEW T, T \subseteq Nat, T # {}
    PROVE  Min(T) \in T /\ \A l \in T : Min(T) <= l
<1>1. \E k \in T : \A l \in T : k <= l
  BY LeastNumber
<1> QED BY <1>1 DEF Min

LEMMA MaxOf ==
    ASSUME NEW n \in Nat, NEW T, T \subseteq 0..n, T # {}
    PROVE  Max(T) \in T /\ \A l \in T : l <= Max(T)
<1> DEFINE R == {n - k : k \in T}
<1>1. R \subseteq Nat /\ R # {}
  OBVIOUS
<1>2. PICK r \in R : \A l \in R : r <= l
  <2> HIDE DEF R
  <2> QED BY <1>1, LeastNumber
<1>3. PICK k \in T : r = n - k
  BY <1>2
<1>4. \A l \in T : n - l \in R
  OBVIOUS
<1>5. \A l \in T : l <= k
  <2> SUFFICES ASSUME NEW l \in T PROVE l <= k
    OBVIOUS
  <2>1. r <= n - l
    BY <1>2, <1>4
  <2> QED BY <2>1, <1>3
<1>6. \E m \in T : \A l \in T : m >= l
  BY <1>5
<1> QED BY <1>6 DEF Max

\* A sequence in two parts.
LEMMA CutInTwo ==
    ASSUME NEW S, NEW s \in Seq(S), NEW k \in 0..Len(s)
    PROVE  /\ SubSeq(s, 1, k) \in Seq(S) /\ SubSeq(s, k + 1, Len(s)) \in Seq(S)
           /\ s = SubSeq(s, 1, k) \o SubSeq(s, k + 1, Len(s))
<1>0. Len(s) \in Nat
  BY LenProperties
<1>1. \A n \in 1..Len(s) : s[n] \in S
  BY ElementOfSeq
<1>2. SubSeq(s, 1, k) \in Seq(S)
  <2>1. \A n \in 1..k : s[n] \in S
    BY <1>0, <1>1
  <2> QED BY <1>0, <2>1, SubSeqProperties
<1>3. SubSeq(s, k + 1, Len(s)) \in Seq(S)
  <2>1. \A n \in k + 1..Len(s) : s[n] \in S
    BY <1>0, <1>1
  <2> QED BY <1>0, <2>1, SubSeqProperties
<1>4. SubSeq(s, 1, k) \o SubSeq(s, k + 1, Len(s)) = SubSeq(s, 1, Len(s))
  <2>1. 1 \in 1..Len(s) + 1 /\ k \in 1 - 1..Len(s) /\ Len(s) \in k..Len(s)
    BY <1>0
  <2> QED BY <2>1, ConcatAdjacentSubSeq
<1> QED BY <1>2, <1>3, <1>4, SubSeqFull

\* What is trimmed is not among what is kept.
LEMMA OnlyTrimmed ==
    ASSUME NEW S, NEW s \in Seq(S), NEW K, "space" \notin K
    PROVE  TrimSpace(s) \in Seq(S) /\ Only(TrimSpace(s), K) = Only(s, K)
<1> DEFINE T == {k \in DOMAIN s : s[k] # "space"}
<1>0. Len(s) \in Nat /\ DOMAIN s = 1..Len(s)
  BY LenProperties
<1>1. CASE T = {}
  <2>1. TrimSpace(s) = <<>>
    BY <1>1 DEF TrimSpace
  <2>2. \A k \in 1..Len(s) : s[k] \in {"space"}
    BY <1>0, <1>1
  <2>3. SubSeq(s, 1, Len(s)) \in Seq({"space"})
    BY <1>0, <2>2, SubSeqProperties
  <2>4. Only(s, K) = <<>>
    <3>1. s \in Seq({"space"}) /\ {"space"} \cap K = {}
      BY <2>3, SubSeqFull
    <3> QED BY <3>1, OnlyNone
  <2> QED BY <2>1, <2>4, EmptySeq, OnlyEmpty
<1>2. CASE T # {}
  <2> DEFINE i == Min(T)
             j == Max(T)
  <2>0. TrimSpace(s) = SubSeq(s, i, j)
    BY <1>2 DEF TrimSpace
  <2>1. i \in T /\ \A l \in T : i <= l
    <3>1. T \subseteq Nat
      BY <1>0
    <3> HIDE DEF T
    <3> QED BY <1>2, <3>1, MinOf
  <2>2. j \in T /\ \A l \in T : l <= j
    <3>1. T \subseteq 0..Len(s)
      BY <1>0
    <3> HIDE DEF T
    <3> QED BY <1>0, <1>2, <3>1, MaxOf
  <2> HIDE DEF i, j
  <2>3. i \in 1..Len(s) /\ j \in 1..Len(s) /\ i <= j
    BY <1>0, <2>1, <2>2
  <2>4. \A k \in 1..i - 1 : s[k] \in {"space"}
    <3> SUFFICES ASSUME NEW k \in 1..i - 1, s[k] # "space" PROVE FALSE
      OBVIOUS
    <3>1. k \in T /\ k < i
      BY <1>0, <2>3
    <3> QED BY <1>0, <2>1, <2>3, <3>1
  <2>5. \A k \in j + 1..Len(s) : s[k] \in {"space"}
    <3> SUFFICES ASSUME NEW k \in j + 1..Len(s), s[k] # "space" PROVE FALSE
      OBVIOUS
    <3>1. k \in T /\ j < k
      BY <1>0, <2>3
    <3> QED BY <1>0, <2>2, <2>3, <3>1
  <2> DEFINE a == SubSeq(s, 1, i - 1)
             b == SubSeq(s, i, j)
             c == SubSeq(s, j + 1, Len(s))
             t == SubSeq(s, 1, j)
  <2>6. t \in Seq(S) /\ c \in Seq(S) /\ s = t \o c
    <3>1. j \in 0..Len(s)
      BY <1>0, <2>3
    <3> QED BY <3>1, CutInTwo
  <2>7. a \in Seq(S)
    BY <1>0, <2>3, CutInTwo
  <2>8. b \in Seq(S)
    <3>1. \A k \in i..j : s[k] \in S
      BY <1>0, <2>3, ElementOfSeq
    <3> QED BY <1>0, <2>3, <3>1, SubSeqProperties
  <2>9. a \o b = t
    <3>1. 1 \in 1..Len(s) + 1 /\ i - 1 \in 1 - 1..Len(s) /\ j \in i - 1..Len(s) /\ (i - 1) + 1 = i
      BY <1>0, <2>3
    <3>2. SubSeq(s, 1, i - 1) \o SubSeq(s, (i - 1) + 1, j) = SubSeq(s, 1, j)
      BY <3>1, ConcatAdjacentSubSeq
    <3> QED BY <3>1, <3>2
  <2>10. Only(a, K) = <<>>
    <3>1. a \in Seq({"space"}) /\ {"space"} \cap K = {}
      BY <1>0, <2>3, <2>4, SubSeqProperties
    <3> HIDE DEF a
    <3> QED BY <3>1, OnlyNone
  <2>11. Only(c, K) = <<>>
    <3>1. c \in Seq({"space"}) /\ {"space"} \cap K = {}
      BY <1>0, <2>3, <2>5, SubSeqProperties
    <3> HIDE DEF c
    <3> QED BY <3>1, OnlyNone
  <2> HIDE DEF a, b, c, t
  <2>12. Only(s, K) = Only(t, K) \o Only(c, K) /\ Only(t, K) = Only(a, K) \o Only(b, K)
    <3>1. Only(t \o c, K) = Only(t, K) \o Only(c, K)
      BY <2>6, OnlyConcat
    <3>2. Only(a \o b, K) = Only(a, K) \o Only(b, K)
      BY <2>7, <2>8, OnlyConcat
    <3> QED BY <2>6, <2>9, <3>1, <3>2
  <2>13. Only(b, K) \in Seq(S) /\ Only(t, K) \in Seq(S)
    BY <2>6, <2>8, OnlyType
  <2>14. Only(s, K) = Only(b, K)
    BY <2>10, <2>11, <2>12, <2>13, ConcatEmptySeq
  <2> QED BY <2>0, <2>8, <2>14 DEF b
<1> QED BY <1>1, <1>2

\* RemoveFirst takes out the first occurrence.
LEMMA FirstIsRemoved ==
    ASSUME NEW S, NEW s \in Seq(S), NEW e, NEW i \in 1..Len(s),
           s[i] = e, \A k \in 1..i - 1 : s[k] # e
    PROVE  RemoveFirst(s, e) = SubSeq(s, 1, i - 1) \o SubSeq(s, i + 1, Len(s))
<1> DEFINE T == {k \in 1..Len(s) : s[k] = e}
<1>0. Len(s) \in Nat
  BY LenProperties
<1>1. i \in T /\ \A l \in T : i <= l
  BY <1>0
<1>2. Min(T) \in T /\ \A l \in T : Min(T) <= l
  <2>1. T \subseteq Nat
    BY <1>0
  <2> HIDE DEF T
  <2> QED BY <1>1, <2>1, MinOf
<1>3. Min(T) = i
  <2>1. Min(T) \in Nat
    BY <1>0, <1>2
  <2> HIDE DEF T
  <2> QED BY <1>0, <1>1, <1>2, <2>1
<1>4. SelectInSeq(s, LAMBDA v : v = e) = i
  BY <1>1, <1>3 DEF SelectInSeq
<1>5. RemoveFirst(s, e) = RemoveAt(s, SelectInSeq(s, LAMBDA v : v = e))
  BY DEF RemoveFirst
<1> QED BY <1>4, <1>5 DEF RemoveAt

\* An element with what is before and after it.
Around(a, e, b) == Append(a, e) \o b

LEMMA RemovedBetween ==
    ASSUME NEW S, NEW a \in Seq(S), NEW b \in Seq(S), NEW e \in S,
           \A k \in 1..Len(a) : a[k] # e
    PROVE  RemoveFirst(Around(a, e, b), e) = a \o b
<1> DEFINE c == Append(a, e)
           s == c \o b
           i == Len(a) + 1
<1>1. c \in Seq(S) /\ Len(c) = i /\ Len(a) \in Nat /\ Len(b) \in Nat
      /\ c[i] = e /\ \A k \in 1..Len(a) : c[k] = a[k]
  BY AppendProperties, LenProperties
<1>2. s \in Seq(S) /\ Len(s) = i + Len(b)
      /\ \A k \in 1..i + Len(b) : s[k] = IF k <= i THEN c[k] ELSE b[k - i]
  BY <1>1, ConcatProperties
<1> HIDE DEF c, s
<1>3. i \in 1..Len(s) /\ s[i] = e /\ \A k \in 1..i - 1 : s[k] # e
  BY <1>1, <1>2
<1>4. RemoveFirst(s, e) = SubSeq(s, 1, i - 1) \o SubSeq(s, i + 1, Len(s))
  <2> HIDE DEF i
  <2> QED BY <1>2, <1>3, FirstIsRemoved
<1>5. SubSeq(s, 1, i - 1) = a
  <2>1. \A k \in 1..i - 1 : s[k] \in S
    BY <1>1, <1>2, ElementOfSeq
  <2>2. /\ SubSeq(s, 1, i - 1) \in Seq(S)
        /\ Len(SubSeq(s, 1, i - 1)) = Len(a)
        /\ \A k \in 1..Len(a) : SubSeq(s, 1, i - 1)[k] = s[k]
    BY <1>1, <2>1, SubSeqProperties
  <2>3. \A k \in 1..Len(a) : s[k] = a[k]
    BY <1>1, <1>2
  <2> QED BY <2>2, <2>3, SeqEqual
<1>6. SubSeq(s, i + 1, Len(s)) = b
  <2>1. \A k \in i + 1..Len(s) : s[k] \in S
    BY <1>1, <1>2, ElementOfSeq
  <2>2. /\ SubSeq(s, i + 1, Len(s)) \in Seq(S)
        /\ Len(SubSeq(s, i + 1, Len(s))) = Len(b)
        /\ \A k \in 1..Len(b) : SubSeq(s, i + 1, Len(s))[k] = s[i + k]
    BY <1>1, <1>2, <2>1, SubSeqProperties
  <2>3. \A k \in 1..Len(b) : s[i + k] = b[k]
    <3> SUFFICES ASSUME NEW k \in 1..Len(b) PROVE s[i + k] = b[k]
      OBVIOUS
    <3>1. i \in Nat /\ i + k \in 1..i + Len(b) /\ ~(i + k <= i) /\ (i + k) - i = k
      BY <1>1
    <3> QED BY <1>2, <3>1
  <2> QED BY <2>2, <2>3, SeqEqual
<1> QED BY <1>4, <1>5, <1>6 DEF s, c, Around

LEMMA NoneIsRemoved ==
    ASSUME NEW s, NEW e, \A k \in 1..Len(s) : s[k] # e
    PROVE  RemoveFirst(s, e) = s
  BY DEF RemoveFirst

\* A sequence up to an element, the element, and the rest.
LEMMA AroundFirst ==
    ASSUME NEW S, NEW s \in Seq(S), NEW e, \E k \in 1..Len(s) : s[k] = e
    PROVE  \E a, b \in Seq(S) :
              s = Around(a, e, b) /\ e \in S /\ \A k \in 1..Len(a) : a[k] # e
<1> DEFINE T == {k \in 1..Len(s) : s[k] = e}
<1>0. Len(s) \in Nat
  BY LenProperties
<1>1. PICK i \in T : \A l \in T : i <= l
  <2>1. T \subseteq Nat /\ T # {}
    BY <1>0
  <2> HIDE DEF T
  <2> QED BY <2>1, LeastNumber
<1>2. i \in 1..Len(s) /\ s[i] = e /\ \A k \in 1..i - 1 : s[k] # e
  BY <1>0, <1>1
<1> DEFINE a == SubSeq(s, 1, i - 1)
           b == SubSeq(s, i + 1, Len(s))
           t == SubSeq(s, 1, i)
<1>3. t \in Seq(S) /\ b \in Seq(S) /\ s = t \o b
  BY <1>0, <1>2, CutInTwo
<1>4. a \in Seq(S)
  BY <1>0, <1>2, CutInTwo
<1>5. e \in S
  BY <1>2, ElementOfSeq
<1>6. t = Append(a, e)
  <2>1. 1 \in 1..Len(s) /\ i \in 1..Len(s)
    BY <1>0, <1>2
  <2>2. t = a \o <<s[i]>>
    BY <2>1, SubSeqRecursiveSecond
  <2> HIDE DEF a, t
  <2> QED BY <1>2, <1>4, <1>5, <2>2, AppendIsConcat
<1>7. \A k \in 1..Len(a) : a[k] # e
  <2>1. \A k \in 1..i - 1 : s[k] \in S
    BY <1>0, <1>2, ElementOfSeq
  <2>2. Len(a) = i - 1 /\ \A k \in 1..i - 1 : a[k] = s[k]
    BY <1>0, <1>2, <2>1, SubSeqProperties
  <2> QED BY <1>2, <2>2
<1>8. s = Around(a, e, b)
  BY <1>3, <1>6 DEF Around
<1> HIDE DEF a, b, t
<1> QED BY <1>3, <1>4, <1>5, <1>7, <1>8

LEMMA OnlyAround ==
    ASSUME NEW S, NEW a \in Seq(S), NEW e \in S, NEW b \in Seq(S), NEW K
    PROVE  /\ e \in K => Only(Around(a, e, b), K) = Around(Only(a, K), e, Only(b, K))
           /\ e \notin K => Only(Around(a, e, b), K) = Only(a, K) \o Only(b, K)
<1> DEFINE c == Append(a, e)
<1>1. c \in Seq(S)
  BY AppendProperties
<1>2. Only(c, K) = IF e \in K THEN Append(Only(a, K), e) ELSE Only(a, K)
  BY OnlyAppend
<1>3. Around(a, e, b) = c \o b
  BY DEF Around
<1> HIDE DEF c
<1>4. Only(c \o b, K) = Only(c, K) \o Only(b, K)
  BY <1>1, OnlyConcat
<1> QED BY <1>2, <1>3, <1>4 DEF Around

\* Whether an element is taken out of the whole or of what is kept of it
LEMMA OnlyRemoved ==
    ASSUME NEW S, NEW s \in Seq(S), NEW e, NEW K
    PROVE  /\ RemoveFirst(s, e) \in Seq(S)
           /\ e \in K => Only(RemoveFirst(s, e), K) = RemoveFirst(Only(s, K), e)
           /\ e \notin K => Only(RemoveFirst(s, e), K) = Only(s, K)
<1>1. CASE \A k \in 1..Len(s) : s[k] # e
  <2>1. RemoveFirst(s, e) = s
    BY <1>1, NoneIsRemoved
  <2>2. RemoveFirst(Only(s, K), e) = Only(s, K)
    <3>1. s \in Seq(S \ {e})
      <4>1. s \in Seq(ToSet(s)) /\ ToSet(s) = {s[k] : k \in 1..Len(s)} /\ ToSet(s) \subseteq S
        BY Elements
      <4>2. ToSet(s) \subseteq S \ {e}
        BY <1>1, <4>1
      <4> QED BY <4>1, <4>2, SeqMonotonic
    <3>2. Only(s, K) \in Seq(S \ {e})
      BY <3>1, OnlyType
    <3>3. \A k \in 1..Len(Only(s, K)) : Only(s, K)[k] # e
      BY <3>2, ElementOfSeq
    <3> QED BY <3>3, NoneIsRemoved
  <2> QED BY <2>1, <2>2
<1>2. CASE \E k \in 1..Len(s) : s[k] = e
  <2>1. PICK a \in Seq(S), b \in Seq(S) :
           s = Around(a, e, b) /\ e \in S /\ \A k \in 1..Len(a) : a[k] # e
    BY <1>2, AroundFirst
  <2>2. RemoveFirst(s, e) = a \o b /\ a \o b \in Seq(S)
    BY <2>1, RemovedBetween, ConcatProperties
  <2>3. Only(a \o b, K) = Only(a, K) \o Only(b, K)
    BY OnlyConcat
  <2>4. CASE e \notin K
    <3>0. Only(Around(a, e, b), K) = Only(a, K) \o Only(b, K)
      BY <2>1, <2>4, OnlyAround, SMTT(30)
    <3>1. Only(s, K) = Only(a, K) \o Only(b, K)
      BY <2>1, <3>0, Zenon
    <3>2. Only(RemoveFirst(s, e), K) = Only(s, K)
      BY <2>2, <2>3, <3>1, Zenon
    <3> QED BY <2>2, <2>4, <3>2, Zenon
  <2>5. CASE e \in K
    <3>0. Only(Around(a, e, b), K) = Around(Only(a, K), e, Only(b, K))
      BY <2>1, <2>5, OnlyAround, SMTT(30)
    <3>1. Only(s, K) = Around(Only(a, K), e, Only(b, K))
      BY <2>1, <3>0, Zenon
    <3>2. Only(a, K) \in Seq(S) /\ Only(b, K) \in Seq(S)
      BY OnlyType
    <3>3. \A k \in 1..Len(Only(a, K)) : Only(a, K)[k] # e
      <4>1. a \in Seq(S \ {e})
        <5>1. a \in Seq(ToSet(a)) /\ ToSet(a) = {a[k] : k \in 1..Len(a)} /\ ToSet(a) \subseteq S
          BY Elements
        <5>2. ToSet(a) \subseteq S \ {e}
          BY <2>1, <5>1
        <5> QED BY <5>1, <5>2, SeqMonotonic
      <4>2. Only(a, K) \in Seq(S \ {e})
        BY <4>1, OnlyType
      <4> QED BY <4>2, ElementOfSeq
    <3>4. RemoveFirst(Around(Only(a, K), e, Only(b, K)), e) = Only(a, K) \o Only(b, K)
      BY <2>1, <3>2, <3>3, RemovedBetween
    <3> QED BY <2>2, <2>3, <2>5, <3>1, <3>4
  <2> QED BY <2>4, <2>5
<1> QED BY <1>1, <1>2

LEMMA OnlyRemovedKept ==
    ASSUME NEW S, NEW s \in Seq(S), NEW K, NEW e \in K
    PROVE  Only(RemoveFirst(s, e), K) = RemoveFirst(Only(s, K), e)
  BY OnlyRemoved

LEMMA OnlyRemovedNot ==
    ASSUME NEW S, NEW s \in Seq(S), NEW K, NEW e, e \notin K
    PROVE  Only(RemoveFirst(s, e), K) = Only(s, K)
  BY OnlyRemoved

LEMMA RemovedType ==
    ASSUME NEW S, NEW s \in Seq(S), NEW e
    PROVE  RemoveFirst(s, e) \in Seq(S)
  BY OnlyRemoved
----
LEMMA OnlyPrefixRemoved ==
    ASSUME NEW S, NEW s \in Seq(S), NEW K
    PROVE  /\ PrefixRemoved(s) \in Seq(S)
           /\ "slash" \in K => Only(PrefixRemoved(s), K) = PrefixRemoved(Only(s, K))
           /\ "slash" \notin K => Only(PrefixRemoved(s), K) = Only(s, K)
<1>1. /\ RemoveFirst(s, "slash") \in Seq(S)
      /\ "slash" \in K => Only(RemoveFirst(s, "slash"), K) = RemoveFirst(Only(s, K), "slash")
      /\ "slash" \notin K => Only(RemoveFirst(s, "slash"), K) = Only(s, K)
  <2>1. RemoveFirst(s, "slash") \in Seq(S)
    BY RemovedType
  <2>2. "slash" \in K => Only(RemoveFirst(s, "slash"), K) = RemoveFirst(Only(s, K), "slash")
    BY OnlyRemovedKept
  <2>3. "slash" \notin K => Only(RemoveFirst(s, "slash"), K) = Only(s, K)
    BY OnlyRemovedNot
  <2> QED BY <2>1, <2>2, <2>3
<1>2. CASE set.removePrefix
  <2>1. PrefixRemoved(s) = RemoveFirst(s, "slash")
        /\ PrefixRemoved(Only(s, K)) = RemoveFirst(Only(s, K), "slash")
    BY <1>2 DEF PrefixRemoved
  <2> QED BY <1>1, <2>1
<1>3. CASE ~set.removePrefix
  BY <1>3 DEF PrefixRemoved
<1> QED BY <1>2, <1>3

LEMMA OnlyTrimmedToo ==
    ASSUME NEW S, NEW s \in Seq(S), NEW K, "space" \notin K
    PROVE  Trimmed(s) \in Seq(S) /\ Only(Trimmed(s), K) = Only(s, K)
  BY OnlyTrimmed DEF Trimmed

LEMMA OnlyReverted ==
    ASSUME NEW S, NEW s \in Seq(S), NEW K, "space" \notin K
    PROVE  /\ MentionsReverted(s) \in Seq(S)
           /\ Only(MentionsReverted(s), K) = Only(s, IF set.removeAt THEN K \ {Bot} ELSE K)
<1>1. Trimmed(s) \in Seq(S) /\ Only(Trimmed(s), K) = Only(s, K)
      /\ Only(Trimmed(s), K \ {Bot}) = Only(s, K \ {Bot})
  BY OnlyTrimmedToo
<1>2. CASE ~set.removeAt
  BY <1>1, <1>2 DEF MentionsReverted
<1>3. CASE set.removeAt
  <2> DEFINE t == Without(Trimmed(s), {Bot})
  <2>1. t = Only(Trimmed(s), S \ {Bot})
    BY <1>1, WithoutIsOnly
  <2>2. t \in Seq(S)
    BY <1>1, <2>1, OnlyType
  <2>3. Only(t, K) = Only(Trimmed(s), (S \ {Bot}) \cap K)
    BY <1>1, <2>1, OnlyTwice
  <2>4. Only(Trimmed(s), (S \ {Bot}) \cap K) = Only(Trimmed(s), K \ {Bot})
    <3>1. S \cap ((S \ {Bot}) \cap K) = S \cap (K \ {Bot})
      OBVIOUS
    <3> QED BY <1>1, <3>1, OnlySame
  <2>5. MentionsReverted(s) = Trimmed(t)
    BY <1>3 DEF MentionsReverted
  <2> HIDE DEF t
  <2>6. Trimmed(t) \in Seq(S) /\ Only(Trimmed(t), K) = Only(t, K)
    BY <2>2, OnlyTrimmedToo
  <2> QED BY <1>1, <1>3, <2>3, <2>4, <2>5, <2>6
<1> QED BY <1>2, <1>3
----
\* A sequence in three parts, of elements of three kinds.
InParts(s, a, b, c, F, G, H) ==
    /\ F \cap G = {} /\ F \cap H = {} /\ G \cap H = {}
    /\ a \in Seq(F) /\ b \in Seq(G) /\ c \in Seq(H)
    /\ s = (a \o b) \o c

LEMMA ThreeParts ==
    ASSUME NEW F, NEW G, NEW H, NEW a, NEW b, NEW c, NEW s, InParts(s, a, b, c, F, G, H)
    PROVE  Only(s, F) = a /\ Only(s, G) = b /\ Only(s, H) = c
<1> DEFINE S == F \cup G \cup H
           ab == a \o b
<1>12. F \cap G = {} /\ F \cap H = {} /\ G \cap H = {}
  BY DEF InParts
<1>13. a \in Seq(F) /\ b \in Seq(G) /\ c \in Seq(H) /\ s = (a \o b) \o c
  BY DEF InParts
<1>1. a \in Seq(S) /\ b \in Seq(S) /\ c \in Seq(S)
  BY <1>13, SeqMonotonic
<1> HIDE DEF S
<1>2. ab \in Seq(S)
  BY <1>1, ConcatProperties
<1>3. \A K : Only(ab, K) = Only(a, K) \o Only(b, K)
  BY <1>1, OnlyConcat
<1> HIDE DEF ab
<1>0. s = ab \o c
  BY <1>13 DEF ab
<1>4. s \in Seq(S)
  BY <1>0, <1>1, <1>2, ConcatProperties
<1>5. \A K : Only(s, K) = Only(ab, K) \o Only(c, K)
  <2>1. \A K : Only(ab \o c, K) = Only(ab, K) \o Only(c, K)
    BY <1>1, <1>2, OnlyConcat
  <2> QED BY <1>0, <2>1
<1>6. Only(a, F) = a /\ Only(b, G) = b /\ Only(c, H) = c
  BY <1>13, OnlyAll
<1>7. /\ Only(b, F) = <<>> /\ Only(c, F) = <<>>
      /\ Only(a, G) = <<>> /\ Only(c, G) = <<>>
      /\ Only(a, H) = <<>> /\ Only(b, H) = <<>>
  <2>1. G \cap F = {} /\ H \cap F = {} /\ H \cap G = {}
    BY <1>12
  <2> QED BY <1>12, <1>13, <2>1, OnlyNone
<1>8. <<>> \in Seq(S)
  BY EmptySeq
<1>9. Only(s, F) = a
  <2>1. Only(ab, F) = a
    BY <1>1, <1>3, <1>6, <1>7, ConcatEmptySeq
  <2> QED BY <1>1, <1>5, <1>7, <2>1, ConcatEmptySeq
<1>10. Only(s, G) = b
  <2>1. Only(ab, G) = b
    BY <1>1, <1>3, <1>6, <1>7, ConcatEmptySeq
  <2> QED BY <1>1, <1>5, <1>7, <2>1, ConcatEmptySeq
<1>11. Only(s, H) = c
  <2>1. Only(ab, H) = <<>>
    BY <1>3, <1>7, <1>8, ConcatEmptySeq
  <2> QED BY <1>1, <1>5, <1>6, <2>1, ConcatEmptySeq
<1> QED BY <1>9, <1>10, <1>11

LEMMA PartsTogether ==
    ASSUME NEW F, NEW G, NEW H, NEW a, NEW b, NEW c, NEW s, InParts(s, a, b, c, F, G, H)
    PROVE  s \in Seq(F \cup G \cup H)
<1> DEFINE S == F \cup G \cup H
           ab == a \o b
<1>1. a \in Seq(S) /\ b \in Seq(S) /\ c \in Seq(S) /\ s = ab \o c
  BY SeqMonotonic DEF InParts
<1> HIDE DEF S
<1>2. ab \in Seq(S)
  BY <1>1, ConcatProperties
<1> HIDE DEF ab
<1>3. s \in Seq(S)
  BY <1>1, <1>2, ConcatProperties
<1> QED BY <1>3 DEF S

\* Segments of one type.
Labelled(type, s) == [k \in DOMAIN s |-> [type |-> type, data |-> s[k]]]
DataOf(g) == [k \in DOMAIN g |-> g[k].data]
Labels(type, S) == {[type |-> type, data |-> x] : x \in S}

LEMMA LabelledType ==
    ASSUME NEW S, NEW s \in Seq(S), NEW type
    PROVE  /\ Labelled(type, s) \in Seq(Labels(type, S))
           /\ [k \in DOMAIN Labelled(type, s) |-> Labelled(type, s)[k].data] = s
<1>1. DOMAIN s = 1..Len(s) /\ Len(s) \in Nat /\ s \in [1..Len(s) -> S]
  BY LenProperties
<1> DEFINE g == Labelled(type, s)
           L == Labels(type, S)
<1>2. DOMAIN g = 1..Len(s) /\ \A k \in 1..Len(s) : g[k] = [type |-> type, data |-> s[k]]
  BY <1>1 DEF Labelled
<1>3. \A k \in 1..Len(s) : g[k] \in L
  BY <1>1, <1>2 DEF Labels
<1>4. g = [k \in 1..Len(s) |-> g[k]]
  BY <1>1 DEF Labelled
<1> HIDE DEF g, L
<1>5. g \in [1..Len(s) -> L]
  BY <1>3, <1>4
<1>6. g \in Seq(L)
  BY <1>1, <1>5, SeqDef
<1>7. \A k \in 1..Len(s) : g[k].data = s[k]
  BY <1>2
<1>8. [k \in DOMAIN g |-> g[k].data] = [k \in 1..Len(s) |-> s[k]]
  BY <1>2, <1>7
<1>9. [k \in 1..Len(s) |-> s[k]] = s
  BY <1>1
<1> QED BY <1>6, <1>8, <1>9 DEF g, L

Texts(text) == IF text = <<>> THEN <<>> ELSE <<text>>

LEMMA SortedParts ==
    ASSUME NEW ats, NEW text, NEW images
    PROVE  sortMessageSegments(ats, text, images) =
             (Labelled("at", ats) \o Labelled("text", Texts(text))) \o Labelled("image", images)
<1>1. (IF text = <<>> THEN <<>> ELSE <<[type |-> "text", data |-> text]>>)
        = Labelled("text", Texts(text))
  <2>1. CASE text = <<>>
    <3>1. DOMAIN <<>> = {}
      BY EmptySeq, LenProperties
    <3> QED BY <2>1 DEF Labelled, Texts
  <2>2. CASE text # <<>>
    BY <2>2 DEF Labelled, Texts
  <2> QED BY <2>1, <2>2
<1> QED BY <1>1 DEF sortMessageSegments, Labelled

\* The segments of a type are those the message was made of.
LEMMA SegmentsApart ==
    ASSUME NEW S, NEW ats \in Seq(S), NEW text, NEW images \in Seq(S)
    PROVE  segments = sortMessageSegments(ats, text, images) =>
             /\ SegmentData("at") = ats
             /\ SegmentData("text") = Texts(text)
             /\ SegmentData("image") = images
<1> DEFINE F == Labels("at", S)
           G == Labels("text", {text})
           H == Labels("image", S)
           a == Labelled("at", ats)
           b == Labelled("text", Texts(text))
           c == Labelled("image", images)
<1>1. /\ \A g \in F : g.type = "at"
      /\ \A g \in G : g.type = "text"
      /\ \A g \in H : g.type = "image"
  BY DEF Labels
<1>2. F \cap G = {} /\ F \cap H = {} /\ G \cap H = {}
  <2> HIDE DEF F, G, H
  <2> QED BY <1>1
<1>3. a \in Seq(F) /\ b \in Seq(G) /\ c \in Seq(H)
      /\ DataOf(a) = ats /\ DataOf(b) = Texts(text) /\ DataOf(c) = images
  <2>1. Texts(text) \in Seq({text})
    <3>1. <<>> \in Seq({text}) /\ <<text>> \in Seq({text})
      BY EmptySeq
    <3> QED BY <3>1 DEF Texts
  <2> QED BY <2>1, LabelledType DEF DataOf
<1>4. sortMessageSegments(ats, text, images) = (a \o b) \o c
  BY SortedParts
<1> HIDE DEF F, G, H, a, b, c
<1>5. ASSUME InParts(segments, a, b, c, F, G, H)
      PROVE  /\ SegmentData("at") = DataOf(a)
             /\ SegmentData("text") = DataOf(b)
             /\ SegmentData("image") = DataOf(c)
  <2>1. /\ segments \in Seq(F \cup G \cup H)
        /\ Only(segments, F) = a /\ Only(segments, G) = b /\ Only(segments, H) = c
    BY <1>5, ThreeParts, PartsTogether
  <2>2. segments \in Seq(ToSet(segments)) /\ ToSet(segments) \subseteq F \cup G \cup H
    BY <2>1, Elements
  <2> DEFINE U == ToSet(segments)
  <2>3. ASSUME NEW type, NEW K,
               \A g \in F \cup G \cup H : g.type = type <=> g \in K
        PROVE  SegmentData(type) = DataOf(Only(segments, K))
    <3>1. U \cap {g \in U : g.type = type} = U \cap K
      BY <2>2, <2>3
    <3>2. Only(segments, {g \in U : g.type = type}) = Only(segments, K)
      BY <2>2, <3>1, OnlySame
    <3> QED BY <3>2 DEF SegmentData, DataOf
  <2>4. SegmentData("at") = DataOf(a)
    <3>1. \A g \in F \cup G \cup H : g.type = "at" <=> g \in F
      BY <1>1
    <3> QED BY <2>1, <2>3, <3>1
  <2>5. SegmentData("text") = DataOf(b)
    <3>1. \A g \in F \cup G \cup H : g.type = "text" <=> g \in G
      BY <1>1
    <3> QED BY <2>1, <2>3, <3>1
  <2>6. SegmentData("image") = DataOf(c)
    <3>1. \A g \in F \cup G \cup H : g.type = "image" <=> g \in H
      BY <1>1
    <3> QED BY <2>1, <2>3, <3>1
  <2> QED BY <2>4, <2>5, <2>6
<1>6. segments = sortMessageSegments(ats, text, images) => InParts(segments, a, b, c, F, G, H)
  BY <1>2, <1>3, <1>4 DEF InParts
<1> QED BY <1>3, <1>5, <1>6

LEMMA TextsFlat ==
    ASSUME NEW S, NEW text \in Seq(S)
    PROVE  FlattenSeq(Texts(text)) = text
<1>1. CASE text = <<>>
  BY <1>1, EmptySeq DEF Texts, FlattenSeq
<1>2. CASE text # <<>>
  <2> DEFINE one == <<text>>
             step(f) == [i \in 1..Len(one) |-> IF i = 1 THEN one[i] ELSE f[i - 1] \o one[i]]
             flat == CHOOSE f : f = step(f)
  <2>1. Texts(text) = one /\ Len(one) = 1 /\ one[1] = text
    BY <1>2 DEF Texts
  <2>2. [i \in 1..1 |-> text] = step([i \in 1..1 |-> text])
    BY <2>1
  <2>3. flat = step(flat)
    <3> HIDE DEF step
    <3>1. \E f : f = step(f)
      BY <2>2
    <3> QED BY <3>1
  <2>4. FlattenSeq(one) = flat[Len(one)]
    BY <2>1 DEF FlattenSeq
  <2>5. step(flat)[1] = text
    BY <2>1
  <2> HIDE DEF flat, step, one
  <2> QED BY <2>1, <2>3, <2>4, <2>5
<1> QED BY <1>1, <1>2
----
TextSpec == TextInit /\ [][TextNext]_textVars

\* What was read and converted is what the message and the settings say.
TextInv ==
    /\ \E o \in Occasions : said = o.said
    /\ raw \in {Unread, RevertTransformedText}
    /\ segments = NoList \/ (raw # Unread /\ segments = ConvertToSegmentedMessage)

\* The text without spaces and mentions, however they were taken out.
LEMMA WordsAgree ==
    ASSUME NEW S, NEW s \in Seq(S), "slash" \in S
    PROVE  LET text == PrefixRemoved(MentionsReverted(s))
           IN  /\ text \in Seq(S) /\ SegmentText(s) \in Seq(S)
               /\ Without(SegmentText(s), {"space"}) = Without(text, Mentions \cup {"space"})
<1> DEFINE M == MentionsReverted(s)
           text == PrefixRemoved(M)
           K == S \ (Mentions \cup {"space"})
           N == S \ {"space"}
           w == Without(s, Mentions)
           x == IF set.removeAt THEN Trimmed(w) ELSE w
<1>1. "slash" \in K /\ "slash" \in N /\ "space" \notin K /\ "space" \notin N
  BY TextAssumption DEF Mentions
<1>2. M \in Seq(S) /\ Only(M, K) = Only(s, K)
  <2>1. M \in Seq(S) /\ Only(M, K) = Only(s, IF set.removeAt THEN K \ {Bot} ELSE K)
    BY <1>1, OnlyReverted
  <2>2. K \ {Bot} = K
    BY DEF Mentions
  <2> QED BY <2>1, <2>2
<1>3. text \in Seq(S) /\ Only(text, K) = PrefixRemoved(Only(s, K))
  <2> HIDE DEF M, K
  <2> QED BY <1>1, <1>2, OnlyPrefixRemoved
<1>4. w = Only(s, S \ Mentions) /\ w \in Seq(S)
  BY WithoutIsOnly, OnlyType
<1>5. Only(w, N) = Only(s, K)
  <2>1. Only(w, N) = Only(s, (S \ Mentions) \cap N)
    BY <1>4, OnlyTwice
  <2>2. (S \ Mentions) \cap N = K
    OBVIOUS
  <2> QED BY <2>1, <2>2
<1>6. x \in Seq(S) /\ Only(x, N) = Only(s, K)
  <2> HIDE DEF w, N, K
  <2> QED BY <1>1, <1>4, <1>5, OnlyTrimmedToo
<1>7. SegmentText(s) = PrefixRemoved(x)
  BY DEF SegmentText
<1>8. SegmentText(s) \in Seq(S) /\ Only(SegmentText(s), N) = PrefixRemoved(Only(s, K))
  <2> HIDE DEF x, N, K
  <2>1. PrefixRemoved(x) \in Seq(S) /\ Only(PrefixRemoved(x), N) = PrefixRemoved(Only(x, N))
    BY <1>1, <1>6, OnlyPrefixRemoved
  <2> QED BY <1>6, <1>7, <2>1
<1>9. Without(SegmentText(s), {"space"}) = Only(SegmentText(s), N)
  BY <1>8, WithoutIsOnly
<1>10. Without(text, Mentions \cup {"space"}) = Only(text, K)
  <2> HIDE DEF text
  <2> QED BY <1>3, WithoutIsOnly
<1> QED BY <1>3, <1>8, <1>9, <1>10

\* The mentions of both.
LEMMA MentionsAgree ==
    ASSUME NEW S, NEW s \in Seq(S)
    PROVE  Mentioned(s) = Only(PrefixRemoved(MentionsReverted(s)), Mentions)
<1> DEFINE M == MentionsReverted(s)
<1>1. "slash" \notin Mentions /\ "space" \notin Mentions /\ Mentions \ {Bot} = People
  BY TextAssumption DEF Mentions
<1>2. M \in Seq(S) /\ Only(M, Mentions) = Only(s, IF set.removeAt THEN Mentions \ {Bot} ELSE Mentions)
  BY <1>1, OnlyReverted
<1>3. Only(PrefixRemoved(M), Mentions) = Only(M, Mentions)
  <2> HIDE DEF M
  <2> QED BY <1>1, <1>2, OnlyPrefixRemoved
<1> QED BY <1>1, <1>2, <1>3 DEF Mentioned

\* What the filters leave is all of the text, if no virtual prefix is set.
LEMMA NothingFiltered ==
    ASSUME NEW s, set.virtual = <<>>, Filtered(s) # <<>>
    PROVE  Filtered(s) = s
<1>1. VirtualRemoved(s) = s
  <2>1. DOMAIN set.virtual = {}
    BY EmptySeq, LenProperties
  <2> QED BY <2>1 DEF VirtualRemoved
<1> QED BY <1>1 DEF Filtered

LEMMA TextInvAgrees == TextInv => FormsAgree
<1> SUFFICES ASSUME TextInv, segments # NoList, set.virtual = <<>>, raw.words # <<>>
             PROVE  /\ SegmentData("at") = Only(raw.words, Mentions)
                    /\ Without(SegmentWords, {"space"}) = Without(raw.words, Mentions \cup {"space"})
                    /\ Only(SegmentData("image"), {"picture"}) = raw.images
  BY DEF FormsAgree
<1>1. raw = RevertTransformedText /\ segments = ConvertToSegmentedMessage
  BY DEF TextInv
<1>2. PICK T : said.tokens \in Seq(T) /\ said.attached \in Seq(T)
  BY OccasionsAssumption DEF TextInv
<1> DEFINE S == T \cup {"slash"}
           s == said.tokens
           text == PrefixRemoved(MentionsReverted(s))
<1>3. s \in Seq(S) /\ said.attached \in Seq(S) /\ "slash" \in S
  BY <1>2, SeqMonotonic
<1>4. raw.words = Filtered(text) /\ raw.images = Only(said.attached, {"picture"})
  BY <1>1 DEF RevertTransformedText
<1>5. raw.words = text
  <2> HIDE DEF text
  <2> QED BY <1>4, NothingFiltered
<1> HIDE DEF S
<1>6. /\ Mentioned(s) \in Seq(S) /\ SegmentText(s) \in Seq(S)
      /\ Without(SegmentText(s), {"space"}) = Without(text, Mentions \cup {"space"})
      /\ Mentioned(s) = Only(text, Mentions)
  <2>1. Mentioned(s) \in Seq(S)
    BY <1>3, OnlyType DEF Mentioned
  <2> QED BY <1>3, <2>1, WordsAgree, MentionsAgree
<1>7. segments = sortMessageSegments(Mentioned(s), SegmentText(s), said.attached)
  BY <1>1 DEF ConvertToSegmentedMessage
<1> HIDE DEF text, s
<1>8. /\ SegmentData("at") = Mentioned(s)
      /\ SegmentData("text") = Texts(SegmentText(s))
      /\ SegmentData("image") = said.attached
  BY <1>3, <1>6, <1>7, SegmentsApart
<1>9. SegmentWords = SegmentText(s)
  BY <1>6, <1>8, TextsFlat DEF SegmentWords
<1> QED BY <1>4, <1>5, <1>6, <1>8, <1>9

LEMMA TextStep == TextInv /\ [TextNext]_textVars => TextInv'
<1> SUFFICES ASSUME TextInv, [TextNext]_textVars PROVE TextInv'
  OBVIOUS
<1>1. ASSUME UNCHANGED <<said, set, temporary>>
      PROVE  /\ RevertTransformedText' = RevertTransformedText
             /\ ConvertToSegmentedMessage' = ConvertToSegmentedMessage
             /\ (\E o \in Occasions : said = o.said)'
  <2>1. RevertTransformedText' = RevertTransformedText
    BY <1>1, ZenonT(60) DEF RevertTransformedText, PrefixRemoved, MentionsReverted, Trimmed, Filtered,
                            OnWhiteList, OnBlackList, VirtualRemoved
  <2>2. ConvertToSegmentedMessage' = ConvertToSegmentedMessage
    BY <1>1, Zenon DEF ConvertToSegmentedMessage, Mentioned, SegmentText, PrefixRemoved, Trimmed
  <2>3. (\E o \in Occasions : said = o.said)'
    BY <1>1 DEF TextInv
  <2> QED BY <2>1, <2>2, <2>3
<1>2. UNCHANGED <<said, set, temporary>>
  BY DEF TextNext, Read, Convert, Send, SendForward, textVars
<1>3. CASE Read
  BY <1>1, <1>2, <1>3 DEF Read, TextInv
<1>4. CASE Convert
  BY <1>1, <1>2, <1>4 DEF Convert, Passed, TextInv
<1>5. CASE Send
  BY <1>1, <1>2, <1>5 DEF Send, TextInv
<1>6. CASE SendForward
  BY <1>1, <1>2, <1>6 DEF SendForward, TextInv
<1>7. CASE UNCHANGED textVars
  BY <1>1, <1>2, <1>7 DEF TextInv, textVars
<1>8. Read \/ Convert \/ Send \/ SendForward \/ UNCHANGED textVars
  BY DEF TextNext
<1> QED BY <1>3, <1>4, <1>5, <1>6, <1>7, <1>8

\* The two forms of a message say the same (RevertTransformedText and
\* ConvertToSegmentedMessage), for messages of any length.
THEOREM FormsAlwaysAgree == TextSpec => []FormsAgree
<1>1. TextInit => TextInv
  BY DEF TextInit, TextInv
<1>2. TextInv /\ [TextNext]_textVars => TextInv'
  BY TextStep
<1> QED BY <1>1, <1>2, TextInvAgrees, PTL DEF TextSpec
======================================================================================

---------------------------------- MODULE StateCache ----------------------------------
(***************************************************************************)
(* discordgo's State (discordgo/state.go): the cache of guilds, channels,  *)
(* members, roles and messages that every gateway event updates before the *)
(* program's own handlers see it.  One listener calls OnInterface for one  *)
(* event after the other, so an event is one step.                         *)
(*                                                                         *)
(* Beside the cache stands Discord's world.  A change in the world is an   *)
(* event for the bot; while the bot is away it learns nothing, and a new   *)
(* session tells it which guilds it is in (READY), each of which Discord   *)
(* then describes (GUILD_CREATE), as it does after an outage of a guild.   *)
(*                                                                         *)
(* A slice whose elements have distinct ids is a set of ids; the maps and  *)
(* slices share their objects, so an object's content is kept once.        *)
(***************************************************************************)
EXTENDS Integers, Sequences, SequencesExt, FiniteSets

CONSTANTS
    Guilds, Users, Roles, Messages,
    TextChannels,      \* the channels of guilds
    Threads,
    DMs,               \* channels with a single user
    GuildOf,           \* the guild of a channel or thread
    ParentOf,          \* the channel of a thread
    MaxMessageCount,   \* State.MaxMessageCount
    MaxListed,         \* bound: entries in the list of a thread's members
    MaxMissed          \* bound: changes while the bot is away

ASSUME ChannelsAssumption ==
    /\ GuildOf \in [TextChannels \cup Threads -> Guilds]
    /\ ParentOf \in [Threads -> TextChannels]
    /\ \A t \in Threads : GuildOf[t] = GuildOf[ParentOf[t]]
    /\ TextChannels \cap Threads = {} /\ (TextChannels \cup Threads) \cap DMs = {}
ASSUME LimitsAssumption ==
    MaxMessageCount \in Nat /\ MaxListed \in Nat /\ MaxMissed \in Nat

VARIABLES
    world,          \* Discord: each guild, and whether the bot is in it
    posted,         \* Discord: the messages there are in each text channel
    joined,         \* Discord: who is in each thread
    online,         \* the bot has a session
    pending,        \* the guilds Discord has yet to describe to it
    missed,         \* bound: changes since it went away
    theme,          \* bound: what else changes in this behaviour, people or posts
    guilds,         \* State.Guilds
    guildMap,       \* State.guildMap: a function on the guilds in it
    memberMap,      \* State.memberMap
    privates,       \* State.PrivateChannels
    channelMap,     \* State.channelMap: whether each channel in it is archived
    messages,       \* Channel.Messages of each channel
    threadMembers   \* Channel.Members of each thread

worldVars == <<world, posted, joined>>
linkVars == <<online, pending, missed, theme>>
guildVars == <<guilds, guildMap, memberMap>>
channelVars == <<privates, channelMap, messages, threadMembers>>
cacheVars == <<guildVars, channelVars>>
vars == <<worldVars, linkVars, cacheVars>>

Stub == [channels |-> {}, threads |-> {}, members |-> {}, roles |-> {}, voice |-> {}, count |-> 0]

Init ==
    /\ world = [g \in Guilds |-> [in |-> FALSE, channels |-> {}, threads |-> {},
                                  archived |-> {}, gone |-> {}, members |-> {}, roles |-> {},
                                  voice |-> {}]]
    /\ posted = [c \in TextChannels |-> {}]
    /\ joined = [t \in Threads |-> {}]
    /\ online = TRUE /\ pending = {} /\ missed = 0
    /\ theme \in {"people", "posts"}
    /\ guilds = {} /\ guildMap = << >> /\ memberMap = << >>
    /\ privates = {} /\ channelMap = << >>
    /\ messages = [c \in TextChannels |-> << >>]
    /\ threadMembers = [t \in Threads |-> << >>]
---------------------------------------------------------------------------------------
\* A Go map with the keys in S set to v, and with a key deleted.
Put(f, S, v) == [k \in DOMAIN f \cup S |-> IF k \in S THEN v ELSE f[k]]
Delete(f, k) == [j \in DOMAIN f \ {k} |-> f[j]]

\* Slips the properties must notice: a removal that leaves the member map alone,
MemberRemove_MapKept(g, u) ==
    /\ guildMap' = [guildMap EXCEPT ![g].count = @ - 1, ![g].members = @ \ {u}]
    /\ UNCHANGED <<guilds, memberMap, channelVars>>

\* a guild that replaces the one known without keeping what the event lacks,
GuildUpdate_Bare(g) ==
    /\ guildMap' = Put(guildMap, {g}, [Stub EXCEPT !.roles = world[g].roles])
    /\ UNCHANGED <<guilds, memberMap, channelVars>>

\* a deletion in bulk that stops at the first message it does not find,
MessageDeleteBulk_Stops(c, S) ==
    /\ IF S \subseteq ToSet(messages[c])
       THEN messages' = [messages EXCEPT ![c] = SelectSeq(@, LAMBDA m : m \notin S)]
       ELSE UNCHANGED messages
    /\ UNCHANGED <<guildVars, privates, channelMap, threadMembers>>
---------------------------------------------------------------------------------------
\* GuildAdd with a full guild: new channel objects, a new member map; the list
\* of guilds gets it only when the map did not have it.
GuildAdd(g, full) ==
    /\ channelMap' = Put(channelMap, full.channels \cup full.threads, "live")
    /\ messages' = [c \in TextChannels |-> IF c \in full.channels THEN << >> ELSE messages[c]]
    /\ threadMembers' = [t \in Threads |-> IF t \in full.threads THEN << >> ELSE threadMembers[t]]
    /\ memberMap' = Put(memberMap, {g}, full.members)
    /\ guildMap' = Put(guildMap, {g}, full)
    /\ guilds' = IF g \in DOMAIN guildMap THEN guilds ELSE guilds \cup {g}
    /\ UNCHANGED <<privates>>

\* GuildAdd with what an update of the guild carries, its roles: all else is
\* kept from the guild that is known.
GuildUpdate(g) ==
    /\ guildMap' = [guildMap EXCEPT ![g].roles = world[g].roles]
    /\ UNCHANGED <<guilds, memberMap, channelVars>>

\* GuildRemove: the members and channels stay in their maps.
GuildRemove(g) ==
    /\ guildMap' = Delete(guildMap, g)
    /\ guilds' = guilds \ {g}
    /\ UNCHANGED <<memberMap, channelVars>>

\* memberAdd, for a guild in both maps.
memberAdd(g, u) ==
    IF g \in DOMAIN guildMap
    THEN /\ memberMap' = [memberMap EXCEPT ![g] = @ \cup {u}]
         /\ guildMap' = [guildMap EXCEPT ![g].members = @ \cup {u}]
    ELSE UNCHANGED <<guildMap, memberMap>>

\* A user comes: counted, and cached.
GuildMemberAdd(g, u) ==
    /\ memberMap' = [memberMap EXCEPT ![g] = @ \cup {u}]
    /\ guildMap' = [guildMap EXCEPT ![g].members = @ \cup {u}, ![g].count = @ + 1]
    /\ UNCHANGED <<guilds, channelVars>>

\* A member changes, comes online, or is in a chunk of members asked for: with
\* a large guild that may be the first the cache hears of it.
MemberSeen(g, u) == memberAdd(g, u) /\ UNCHANGED <<guilds, channelVars>>

MemberRemove(g, u) ==
    /\ guildMap' = [guildMap EXCEPT ![g].count = @ - 1, ![g].members = @ \ {u}]
    /\ memberMap' = [memberMap EXCEPT ![g] = @ \ {u}]
    /\ UNCHANGED <<guilds, channelVars>>

RoleAdd(g, r) ==
    /\ guildMap' = [guildMap EXCEPT ![g].roles = @ \cup {r}]
    /\ UNCHANGED <<guilds, memberMap, channelVars>>

RoleRemove(g, r) ==
    /\ guildMap' = [guildMap EXCEPT ![g].roles = @ \ {r}]
    /\ UNCHANGED <<guilds, memberMap, channelVars>>

\* Joining, moving within, or leaving voice.
voiceStateUpdate(g, u, here) ==
    /\ guildMap' = [guildMap EXCEPT ![g].voice = IF here THEN @ \cup {u} ELSE @ \ {u}]
    /\ UNCHANGED <<guilds, memberMap, channelVars>>
---------------------------------------------------------------------------------------
\* ChannelAdd: a channel in the map is overwritten in place, which empties the
\* list of a thread's members but keeps the messages; a new one goes to the
\* list it belongs to, and nowhere when its guild is not known.
ChannelAdd(c, state) ==
    /\ IF c \in DOMAIN channelMap
       THEN UNCHANGED <<privates, guildMap>>
       ELSE \/ c \in DMs /\ privates' = privates \cup {c} /\ UNCHANGED guildMap
            \/ /\ c \in TextChannels
               /\ guildMap' = [guildMap EXCEPT ![GuildOf[c]].channels = @ \cup {c}]
               /\ UNCHANGED privates
            \/ /\ c \in Threads
               /\ guildMap' = [guildMap EXCEPT ![GuildOf[c]].threads = @ \cup {c}]
               /\ UNCHANGED privates
    /\ channelMap' = Put(channelMap, {c}, state)
    /\ threadMembers' = [t \in Threads |-> IF t = c THEN << >> ELSE threadMembers[t]]
    /\ UNCHANGED <<guilds, memberMap, messages>>

ChannelRemove(c) ==
    /\ channelMap' = Delete(channelMap, c)
    /\ messages' = [d \in TextChannels |-> IF d = c THEN << >> ELSE messages[d]]
    /\ threadMembers' = [t \in Threads |-> IF t = c THEN << >> ELSE threadMembers[t]]
    /\ IF c \in DMs
       THEN privates' = privates \ {c} /\ UNCHANGED guildMap
       ELSE /\ guildMap' = [guildMap EXCEPT ![GuildOf[c]].channels = @ \ {c},
                                            ![GuildOf[c]].threads = @ \ {c}]
            /\ UNCHANGED privates
    /\ UNCHANGED <<guilds, memberMap>>

\* ThreadListSync for the threads of some channels, or for all of a guild's
\* when it names none: archived threads and those of the channels named are
\* dropped, then the active ones it lists are added.
ThreadsKept(g, ids) ==
    {t \in guildMap[g].threads :
        channelMap[t] = "live" /\ ids # {} /\ ParentOf[t] \notin ids}

ThreadsListed(g, ids) == {t \in world[g].threads : ids = {} \/ ParentOf[t] \in ids}

ThreadsAfterSync(g, ids) == ThreadsKept(g, ids) \cup ThreadsListed(g, ids)

ThreadListSync(g, ids) ==
    LET dropped == guildMap[g].threads \ ThreadsKept(g, ids)
        listed == ThreadsListed(g, ids)
    IN  /\ channelMap' = Put([c \in DOMAIN channelMap \ dropped |-> channelMap[c]], listed, "live")
        /\ guildMap' = [guildMap EXCEPT ![g].threads = ThreadsAfterSync(g, ids)]
        /\ threadMembers' = [t \in Threads |-> IF t \in dropped \cup listed THEN << >>
                                               ELSE threadMembers[t]]
        /\ UNCHANGED <<guilds, memberMap, privates, messages>>

\* ThreadMembersUpdate.  The loop over the removed compares their user ids with
\* the ID of a list entry, which is the thread's: it removes nobody.
ThreadMembersUpdate(t, added) ==
    /\ threadMembers' = [threadMembers EXCEPT ![t] = @ \o SetToSeq(added)]
    /\ IF added = {} THEN UNCHANGED <<guildMap, memberMap>>
       ELSE \E u \in added : memberAdd(GuildOf[t], u)
    /\ UNCHANGED <<guilds, privates, channelMap, messages>>
---------------------------------------------------------------------------------------
\* The last MaxMessageCount messages.
Newest(s) ==
    IF Len(s) <= MaxMessageCount THEN s ELSE SubSeq(s, Len(s) - MaxMessageCount + 1, Len(s))

\* MessageAdd: merged into the one that is there, or appended, which for an
\* edited message that was not cached is the place of the newest.
MessageAdd(c, m) ==
    /\ messages' = IF m \in ToSet(messages[c]) THEN messages
                   ELSE [messages EXCEPT ![c] = Newest(Append(@, m))]
    /\ UNCHANGED <<guildVars, privates, channelMap, threadMembers>>

\* The elements of s that are not in S, in their order.
Remaining(s, S) ==
    LET kept == {i \in DOMAIN s : s[i] \notin S}
        Rank(i) == Cardinality({j \in kept : j <= i})
    IN  [n \in 1..Cardinality(kept) |-> s[CHOOSE i \in kept : Rank(i) = n]]

\* messageRemoveByID, once or for each message of a bulk.
MessageDeleteBulk(c, S) ==
    /\ messages' = [messages EXCEPT ![c] = Remaining(@, S)]
    /\ UNCHANGED <<guildVars, privates, channelMap, threadMembers>>
---------------------------------------------------------------------------------------
\* Events of a guild reach a bot that has a session and was told of the guild.
Told(g) == online /\ world[g].in /\ g \notin pending

\* One change of a guild in the world, and its event.
Change(g, w, event) ==
    /\ world[g].in
    /\ world' = [world EXCEPT ![g] = w]
    /\ IF Told(g) THEN event /\ UNCHANGED missed
       ELSE missed < MaxMissed /\ missed' = missed + 1 /\ UNCHANGED cacheVars
    /\ UNCHANGED <<theme, online, pending>>

\* The same for the messages of a channel, or the members of a thread.
Posts(c, S, event) ==
    /\ c \in world[GuildOf[c]].channels
    /\ posted' = [posted EXCEPT ![c] = S]
    /\ Change(GuildOf[c], world[GuildOf[c]], event)
    /\ UNCHANGED joined

Members(g) ==
    \E u \in Users :
        LET w == world[g]
        IN  \/ u \notin w.members /\ Change(g, [w EXCEPT !.members = @ \cup {u}], GuildMemberAdd(g, u))
            \/ u \in w.members /\ Told(g) /\ Change(g, w, MemberSeen(g, u))
            \/ /\ u \in w.members \ w.voice
               /\ \A t \in Threads : GuildOf[t] = g => u \notin joined[t]
               /\ Change(g, [w EXCEPT !.members = @ \ {u}], MemberRemove(g, u))
            \/ u \in w.members \ w.voice /\ Change(g, [w EXCEPT !.voice = @ \cup {u}], voiceStateUpdate(g, u, TRUE))
            \/ u \in w.voice /\ Change(g, [w EXCEPT !.voice = @ \ {u}], voiceStateUpdate(g, u, FALSE))

RolesOf(g) ==
    LET w == world[g]
    IN  \E r \in Roles :
            \/ r \notin w.roles /\ Change(g, [w EXCEPT !.roles = @ \cup {r}], RoleAdd(g, r))
            \/ r \in w.roles /\ Change(g, [w EXCEPT !.roles = @ \ {r}], RoleRemove(g, r))
            \/ Told(g) /\ Change(g, w, GuildUpdate(g))

\* Discord deletes the threads of a channel before the channel, and gives no
\* id a second time.
ChannelsOf(g) ==
    LET w == world[g]
    IN  \E c \in {d \in TextChannels : GuildOf[d] = g} :
            \/ /\ c \notin w.channels \cup w.gone
               /\ Change(g, [w EXCEPT !.channels = @ \cup {c}], ChannelAdd(c, "live"))
            \/ c \in w.channels /\ Told(g) /\ Change(g, w, ChannelAdd(c, "live"))
            \/ /\ c \in w.channels
               /\ posted[c] = {} /\ \A t \in w.threads \cup w.archived : ParentOf[t] # c
               /\ Change(g, [w EXCEPT !.channels = @ \ {c}, !.gone = @ \cup {c}], ChannelRemove(c))

ThreadsOf(g) ==
    LET w == world[g]
    IN  \/ \E t \in Threads :
            /\ ParentOf[t] \in w.channels
            /\ \/ /\ t \notin w.threads \cup w.archived \cup w.gone
                  /\ Change(g, [w EXCEPT !.threads = @ \cup {t}], ChannelAdd(t, "live"))
               \/ t \in w.threads /\ Change(g, [w EXCEPT !.threads = @ \ {t}, !.archived = @ \cup {t}],
                                            ChannelAdd(t, "archived"))
               \/ t \in w.archived /\ Change(g, [w EXCEPT !.threads = @ \cup {t}, !.archived = @ \ {t}],
                                             ChannelAdd(t, "live"))
               \/ /\ t \in w.threads \cup w.archived /\ joined[t] = {}
                  /\ Change(g, [w EXCEPT !.threads = @ \ {t}, !.archived = @ \ {t},
                                      !.gone = @ \cup {t}],
                            IF t \in DOMAIN channelMap THEN ChannelRemove(t) ELSE UNCHANGED cacheVars)
        \/ \E ids \in SUBSET w.channels : Told(g) /\ Change(g, w, ThreadListSync(g, ids))

ThreadMembersOf(t) ==
    LET g == GuildOf[t]
    IN  /\ t \in world[g].threads
        /\ \E added \in {{}} \cup {{u} : u \in world[g].members \ joined[t]}, removed \in SUBSET joined[t] :
              /\ added \cup removed # {}
              /\ Len(threadMembers[t]) + Cardinality(added) <= MaxListed
              /\ joined' = [joined EXCEPT ![t] = (@ \ removed) \cup added]
              /\ Change(g, world[g], ThreadMembersUpdate(t, added))
        /\ UNCHANGED posted

MessagesOf(c) ==
    \/ \E m \in Messages \ posted[c] : Posts(c, posted[c] \cup {m}, MessageAdd(c, m))
    \/ \E m \in posted[c] : Told(GuildOf[c]) /\ Posts(c, posted[c], MessageAdd(c, m))
    \/ \E S \in SUBSET posted[c] : S # {} /\ Posts(c, posted[c] \ S, MessageDeleteBulk(c, S))

\* A channel with a user is opened, or closed.
DMsOf(c) ==
    /\ online
    /\ ChannelAdd(c, "live") \/ (c \in DOMAIN channelMap /\ ChannelRemove(c))
    /\ UNCHANGED <<worldVars, linkVars>>

\* The bot comes to a guild, or leaves it; a guild has an outage.
Join(g) ==
    /\ ~world[g].in
    /\ world' = [world EXCEPT ![g].in = TRUE]
    /\ pending' = IF online THEN pending \cup {g} ELSE pending
    /\ UNCHANGED <<theme, posted, joined, online, missed, cacheVars>>

Gone(g) == IF g \in DOMAIN guildMap THEN GuildRemove(g) ELSE UNCHANGED cacheVars

Leave(g) ==
    /\ world[g].in
    /\ world' = [world EXCEPT ![g].in = FALSE]
    /\ IF online THEN Gone(g) ELSE UNCHANGED cacheVars
    /\ pending' = pending \ {g}
    /\ UNCHANGED <<theme, posted, joined, online, missed>>

Outage(g) ==
    /\ Told(g)
    /\ Gone(g)
    /\ pending' = pending \cup {g}
    /\ UNCHANGED <<theme, worldVars, online, missed>>

\* GUILD_CREATE: everything of the guild, but of a large one only some members.
GuildCreate(g) ==
    /\ online /\ g \in pending
    /\ \E some \in SUBSET world[g].members :
          GuildAdd(g, [channels |-> world[g].channels, threads |-> world[g].threads,
                       members |-> some, roles |-> world[g].roles, voice |-> world[g].voice,
                       count |-> Cardinality(world[g].members) + 1])
    /\ pending' = pending \ {g}
    /\ UNCHANGED <<theme, worldVars, online, missed>>

\* The session is lost, and a new one begins.
SessionLost ==
    /\ online
    /\ online' = FALSE /\ missed' = 0
    /\ UNCHANGED <<theme, worldVars, pending, cacheVars>>

\* onReady replaces the lists and adds to the maps.
onReady ==
    /\ ~online
    /\ LET here == {g \in Guilds : world[g].in}
       IN  /\ pending' = here
           /\ guilds' = here
           /\ guildMap' = Put(guildMap, here, Stub)
           /\ memberMap' = Put(memberMap, here, {})
    /\ online' = TRUE /\ privates' = {}
    /\ UNCHANGED <<theme, worldVars, missed, channelMap, messages, threadMembers>>

Next ==
    \/ \E g \in Guilds :
          \/ /\ \/ ChannelsOf(g)
                \/ theme = "people" /\ (Members(g) \/ ThreadsOf(g))
                \/ theme = "posts" /\ RolesOf(g)
             /\ UNCHANGED <<posted, joined>>
          \/ Join(g) \/ Leave(g) \/ Outage(g) \/ GuildCreate(g)
    \/ \E c \in TextChannels : theme = "posts" /\ MessagesOf(c)
    \/ \E t \in Threads : theme = "people" /\ ThreadMembersOf(t)
    \/ \E c \in DMs : theme = "posts" /\ DMsOf(c)
    \/ SessionLost \/ onReady

Spec == Init /\ [][Next]_vars
---------------------------------------------------------------------------------------
\* What the cache says of a guild that Discord described to it is what Discord
\* has, whatever was missed before: its channels, roles, voice and number of
\* members, no member who left, no thread that was deleted; every active thread
\* is found by its id.  (Not in the guild's list: one that is unarchived after a
\* new session is still in channelMap, so ChannelAdd never lists it again.)
GuildRight ==
    \A g \in Guilds : Told(g) =>
        LET w == world[g]
        IN  /\ g \in DOMAIN guildMap
            /\ guildMap[g].channels = w.channels
            /\ guildMap[g].roles = w.roles /\ guildMap[g].voice = w.voice
            /\ guildMap[g].count = Cardinality(w.members) + 1
            /\ guildMap[g].members \subseteq w.members
            /\ guildMap[g].threads \subseteq w.threads \cup w.archived
            /\ w.threads \subseteq {t \in DOMAIN channelMap : channelMap[t] = "live"}

\* The two ways to a guild's members, and the two to its channels and threads,
\* agree: the maps by id and the lists inside the guild.
CachesAgree ==
    \A g \in Guilds : Told(g) =>
        /\ memberMap[g] = guildMap[g].members
        /\ guildMap[g].channels \cup guildMap[g].threads \subseteq DOMAIN channelMap
        /\ \A t \in guildMap[g].threads : (channelMap[t] = "live") = (t \in world[g].threads)

\* The messages kept of a channel are distinct, and none of them was deleted.
MessagesRight ==
    \A c \in TextChannels : Told(GuildOf[c]) /\ c \in world[GuildOf[c]].channels =>
        IsInjective(messages[c]) /\ ToSet(messages[c]) \subseteq posted[c]
=======================================================================================

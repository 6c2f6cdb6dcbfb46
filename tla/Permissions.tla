-------------------------------- MODULE Permissions --------------------------------
(***************************************************************************)
(* What a member may do in a channel and the colour of the member's name:  *)
(* memberPermissions and firstRoleColorColor of discordgo, asked through   *)
(* the cache (state.go) or, by the session, with REST calls for what the   *)
(* cache does not hold (restapi.go).  A set of permission bits is a set of *)
(* permissions; the id of the role everybody has is the guild's id.        *)
(***************************************************************************)
EXTENDS Integers, Sequences, SequencesExt

CONSTANTS
    Administrator,   \* PermissionAdministrator
    AllChannel,      \* PermissionAllChannel
    All,             \* PermissionAll
    Everyone,        \* the guild's id
    Asker,           \* the user asked about
    PermGuilds,      \* guilds: owner and roles (id, permissions, position, colour)
    PermChannels,    \* channels: their permission overwrites, in order
    PermRoles        \* the roles a member can have

ASSUME AllAssumption == AllChannel \subseteq All /\ Administrator \in All \ AllChannel

\* Discord keeps one overwrite for an id in a channel; Administrator is for a
\* whole guild, so no overwrite names it.
ASSUME OverwritesAssumption ==
    \A c \in PermChannels :
        /\ DOMAIN c = 1..Len(c)
        /\ \A o \in ToSet(c) : /\ o.type \in {"role", "member"}
                               /\ Administrator \notin o.allow \cup o.deny
        /\ \A k, l \in DOMAIN c : c[k].id = c[l].id => k = l

VARIABLES
    guild, channel, roles,   \* what Discord has: the guild, the channel, the
                             \* roles of the user
    held,                    \* which of them the cache holds, the same as Discord
    answer                   \* the permissions or the colour told last

permVars == <<guild, channel, roles, held, answer>>

Parts == {"channel", "guild", "member"}
NotTold == [of |-> "nobody", may |-> {}, colour |-> 0]

PermInit ==
    /\ guild \in PermGuilds /\ channel \in PermChannels /\ roles \in PermRoles
    /\ held \in SUBSET Parts
    /\ answer = NotTold
----------------------------------------------------------------------------------
\* A slip: the denials of the member's roles have the last word among roles.
RoleOverwrites_DenyLast(may, c, rs) ==
    LET mine == {o \in ToSet(c) : o.type = "role" /\ o.id \in rs}
    IN  (may \cup UNION {o.allow : o \in mine}) \ UNION {o.deny : o \in mine}
----------------------------------------------------------------------------------
\* The first overwrite of a channel for an id, of these types, applied.
ApplyFirst(may, c, types, id) ==
    LET hits == {k \in DOMAIN c : c[k].type \in types /\ c[k].id = id}
        o == c[CHOOSE k \in hits : \A l \in hits : k <= l]
    IN  IF hits = {} THEN may ELSE (may \ o.deny) \cup o.allow

\* The roles' own permissions, all of them for an administrator.
RolePermissions(g, rs) ==
    LET own == UNION {r.permissions : r \in {s \in ToSet(g.roles) : s.id \in rs \cup {Everyone}}}
    IN  IF Administrator \in own THEN own \cup All ELSE own

\* The overwrites for the member's roles together: denials, then allowances.
RoleOverwrites(may, c, rs) ==
    LET mine == {o \in ToSet(c) : o.type = "role" /\ o.id \in rs}
    IN  (may \ UNION {o.deny : o \in mine}) \cup UNION {o.allow : o \in mine}

\* memberPermissions
memberPermissions(g, c, user, rs) ==
    LET ofAll == ApplyFirst(RolePermissions(g, rs), c, {"role", "member"}, Everyone)
        mine == RoleOverwrites(ofAll, c, rs)
        own == ApplyFirst(mine, c, {"member"}, user)
    IN  IF user = g.owner THEN All
        ELSE IF Administrator \in own THEN own \cup AllChannel ELSE own

\* sort.Sort(Roles): the highest position first.
Sorted(rs) == SortSeq(rs, LAMBDA a, b : a.position > b.position)

\* firstRoleColorColor
firstRoleColor(g, rs) ==
    LET s == Sorted(g.roles)
        coloured == {k \in DOMAIN s : s[k].id \in rs /\ s[k].colour # 0}
        ofAll == {k \in DOMAIN s : s[k].id = Everyone}
        First(ks) == s[CHOOSE k \in ks : \A l \in ks : k <= l].colour
    IN  IF coloured # {} THEN First(coloured)
        ELSE IF ofAll # {} THEN First(ofAll) ELSE 0
----------------------------------------------------------------------------------
Tell(kind, may, colour) == answer' = [of |-> kind, may |-> may, colour |-> colour]

\* State.UserChannelPermissions: an error when the cache lacks a part.
AskState ==
    /\ held = Parts
    /\ Tell("permissions", memberPermissions(guild, channel, Asker, roles), 0)
    /\ UNCHANGED <<guild, channel, roles, held>>

\* State.MessagePermissions and MessageColor: the roles come with the message.
AskMessage ==
    /\ {"channel", "guild"} \subseteq held
    /\ \/ Tell("permissions", memberPermissions(guild, channel, Asker, roles), 0)
       \/ Tell("colour", {}, firstRoleColor(guild, roles))
    /\ UNCHANGED <<guild, channel, roles, held>>

\* Session.UserChannelPermissions: parts that are missing are fetched for the
\* answer only, in turn; the owner is told before the member is looked for.
AskSession ==
    /\ Tell("permissions",
            IF held # Parts /\ Asker = guild.owner THEN All
            ELSE memberPermissions(guild, channel, Asker, roles), 0)
    /\ UNCHANGED <<guild, channel, roles, held>>

\* State.UserColor: without all parts the colour of nobody.
AskColour ==
    /\ Tell("colour", {}, IF held = Parts THEN firstRoleColor(guild, roles) ELSE 0)
    /\ UNCHANGED <<guild, channel, roles, held>>

PermNext == answer = NotTold /\ (AskState \/ AskMessage \/ AskSession \/ AskColour)
----------------------------------------------------------------------------------
\* Discord's hierarchy, permission by permission (the article that the comment
\* at memberPermissions names): the member's overwrite, the overwrites of the
\* member's roles, the one for everyone and the roles, whichever speaks first;
\* an allowance beats a denial on the same level.  An administrator may do all
\* that AllChannel names; a permission it does not name (ManageWebhooks) an
\* overwrite takes from an administrator too.
Says(o, p) == p \in o.allow \cup o.deny
Level(n) == {o \in ToSet(channel) :
    CASE n = 1 -> o.type = "member" /\ o.id = Asker
      [] n = 2 -> o.type = "role" /\ o.id \in roles
      [] n = 3 -> o.id = Everyone}
Speaking(p) == {n \in 1..3 : \E o \in Level(n) : Says(o, p)}
Mine == {r \in ToSet(guild.roles) : r.id \in roles \cup {Everyone}}
IsAdmin == \E r \in Mine : Administrator \in r.permissions

Granted(p) ==
    \/ Asker = guild.owner /\ p \in All
    \/ Asker # guild.owner /\ IsAdmin /\ p \in AllChannel
    \/ /\ Asker # guild.owner
       /\ IF Speaking(p) = {}
          THEN (\E r \in Mine : p \in r.permissions) \/ (IsAdmin /\ p \in All)
          ELSE \E n \in Speaking(p) : /\ \A k \in Speaking(p) : n <= k
                                      /\ \E o \in Level(n) : p \in o.allow

\* The permissions there are: Discord has some that All does not name.
Permissible == All \cup UNION ({r.permissions : r \in ToSet(guild.roles)}
                               \cup {o.allow : o \in ToSet(channel)})

\* Whichever way it is asked, with whatever the cache holds, the permissions
\* are those of the hierarchy.
HierarchyKept == answer.of = "permissions" => answer.may = {p \in Permissible : Granted(p)}
=====================================================================================

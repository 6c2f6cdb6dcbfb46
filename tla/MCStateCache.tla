--------------------------------- MODULE MCStateCache ---------------------------------
(***************************************************************************)
(* The session's cache and its requests for TLC: a guild with one channel  *)
(* and one thread in it, and two guilds or channels to make requests       *)
(* about; the permissions of a member, for some guilds and channels; and   *)
(* the text of messages both ways.                                         *)
(* The four share no state, so a behaviour is about one of them.           *)
(***************************************************************************)
EXTENDS StateCache, RestRoutes, Permissions, MessageText, TLC

CONSTANTS me, her, club, hall, talk, owner, everyone, mod, vip, bot

VARIABLE part    \* which of the three this behaviour is about

MCSymmetry == Permutations(Users) \cup Permutations(Messages)
                \cup Permutations(Majors) \cup Permutations(Minors)

MCGuildOf == [c \in {hall, talk} |-> club]
MCParentOf == [t \in {talk} |-> hall]

\* Guilds where roles grant nothing, a channel permission, a guild permission,
\* one that All does not name, or everything; two roles, in both orders of
\* position, with and without colour.
MCRole(id, p, position, colour) ==
    [id |-> id, permissions |-> p, position |-> position, colour |-> colour]
MCGuilds ==
    {[owner |-> o,
      roles |-> <<MCRole(everyone, base, 0, 3), MCRole(mod, p, k, 1), MCRole(vip, {"kick", "nick"}, 2, c)>>] :
        o \in {owner, me}, base \in {{}, {"view"}}, c \in {0, 2}, k \in {1, 3},
        p \in {{}, {"view"}, {"administrator"}}}

\* Channels with up to two overwrites, of any target, in any order.
MCOverwrites ==
    [type : {"role"}, id : {everyone, mod, vip}, allow : {{"view"}, {}}, deny : {{"view"}, {"hooks"}}]
    \cup [type : {"member"}, id : {me, her}, allow : {{"view"}, {}}, deny : {{"view"}, {"hooks"}}]
MCChannels ==
    {<<>>} \cup {<<o>> : o \in MCOverwrites}
    \cup {<<o1, o2>> : o1, o2 \in {o \in MCOverwrites : o.allow \cap o.deny = {}}}
MCPermRoles == {{}, {mod}, {mod, vip}}
MCPermChannels == {c \in MCChannels : Len(c) = 2 => c[1].id # c[2].id}

\* Messages of up to three tokens under every combination of the settings, one
\* filter at a time; answers of up to three parts.
MCSettings(filters) ==
    [removeAt : BOOLEAN, removePrefix : BOOLEAN, array : BOOLEAN, transfer : {FALSE},
     whiteMode : {"white" \in filters}, bypass : {FALSE}, white : {{<<"hello">>}},
     blackMode : {"black" \in filters}, black : {{<<"bad">>}},
     virtual : {IF "virtual" \in filters THEN <<<<"hello">>, <<"bad">>>> ELSE <<>>}]
MCTokens == {me, bot, "space", "slash", "hello", "bad", "code"}
MCSaid == [tokens : SeqOf(MCTokens, 3), attached : {<<>>, <<"picture">>, <<"sound", "picture">>}]
MCPart(kind, of, good, form) == [kind |-> kind, of |-> of, good |-> good, form |-> form]
MCString ==
    {MCPart("text", 1, TRUE, "string"), MCPart("at", 1, TRUE, "string"), MCPart("markdown", 1, TRUE, "string")}
    \cup {MCPart(k, n, n = 1, "string") : k \in {"local_image", "url_image", "url_images", "base64_image"}, n \in 1..2}
MCList ==
    {MCPart("text", 1, TRUE, "list"), MCPart("at", 1, TRUE, "list"), MCPart("image", 1, TRUE, "list")}
    \cup {MCPart("markdown", 1, TRUE, f) : f \in {"map", "json", "prefixed", "unreadable"}}
MCAnswer(parts, segmented) ==
    [action : {"send", "forward"}, parts : SeqOf(parts, 3), segmented : {segmented}]
MCSilent == [action |-> "none", parts |-> <<>>, segmented |-> FALSE]
MCUnsaid == [tokens |-> <<>>, attached |-> <<>>]
MCOccasions ==
    [said : MCSaid, set : UNION {MCSettings(f) : f \in {{}, {"white"}, {"black"}, {"virtual"}}}, reply : {MCSilent}]
    \cup [said : {MCUnsaid}, set : {[c EXCEPT !.transfer = t] : c \in {CHOOSE d \in MCSettings({}) : TRUE}, t \in BOOLEAN},
          reply : MCAnswer(MCString, FALSE) \cup MCAnswer(MCList, TRUE)]

MCInit ==
    /\ part \in {"cache", "requests", "rights", "text"}
    /\ Init /\ RouteInit
    /\ part # "cache" => theme = "posts"
    /\ IF part = "rights" THEN PermInit
       ELSE /\ guild = (CHOOSE g \in MCGuilds : TRUE) /\ channel = <<>>
            /\ roles = {} /\ held = {} /\ answer = NotTold
    /\ IF part = "text" THEN TextInit
       ELSE /\ said = MCUnsaid /\ set = (CHOOSE d \in MCSettings({}) : TRUE) /\ reply = MCSilent
            /\ temporary = {} /\ raw = Unread /\ segments = NoList /\ refused = FALSE /\ sent = <<>>

MCNext ==
    /\ UNCHANGED part
    /\ \/ part = "cache" /\ Next /\ UNCHANGED <<routeVars, permVars, textVars>>
       \/ part = "requests" /\ RouteNext /\ UNCHANGED <<vars, permVars, textVars>>
       \/ part = "rights" /\ PermNext /\ UNCHANGED <<vars, routeVars, textVars>>
       \/ part = "text" /\ TextNext /\ UNCHANGED <<vars, routeVars, permVars>>

MCSpec == MCInit /\ [][MCNext]_<<part, vars, routeVars, permVars, textVars>>
=======================================================================================

---------------------------------- MODULE RestRoutes ----------------------------------
(***************************************************************************)
(* The calls of discordgo's Session (discordgo/restapi.go, oauth2.go): the *)
(* request each makes and the rate-limit bucket it names.  The limits are  *)
(* Discord's and are per kind of request and per guild or channel (here    *)
(* the "major" id), so the name of the bucket keeps that id and blanks the *)
(* others; the verb is in neither.  A bucket is found by its name or made  *)
(* by the first call that names it (ratelimit.go GetBucket).               *)
(*                                                                         *)
(* A path is the sequence of its segments, behind the prefix of the API;   *)
(* "" is an id left blank.  A query is written <<"?", it>> where it gets   *)
(* into the bucket's name and left out where it does not.  A call that     *)
(* finds its arguments wrong makes no request; one that makes others first *)
(* (GuildIcon asks for the guild) makes them as the calls they are.        *)
(***************************************************************************)
EXTENDS Integers, Sequences, SequencesExt, FiniteSets

CONSTANTS
    Majors,          \* ids of guilds and channels
    Minors,          \* ids of everything else
    MaxRequests      \* bound

\* An id is a number, so that no guild's id is the word that stands in its place in
\* the paths of templates.
ASSUME RoutesAssumption ==
    MaxRequests \in Nat /\ Majors # {} /\ Minors # {} /\ "templates" \notin Majors

VARIABLES
    buckets,   \* RateLimiter.buckets: whether each has the custom limit
    made       \* the requests made so far

routeVars == <<buckets, made>>

Nothing == "no major id"
Ask(ops, major, path, bucket) ==
    {[op |-> o, major |-> major, path |-> path, bucket |-> bucket] : o \in ops}
Plain(ops, major, path) == Ask(ops, major, path, path)    \* its own bucket

\* Slips the property must notice: the member's id left in the bucket's name,
\* or the guild's left out of it.
MemberRoutes_Kept(g, u) ==
    Plain({"GuildMember", "GuildMemberAdd", "GuildMemberEdit"}, g, <<"guilds", g, "members", u>>)
---------------------------------------------------------------------------------------
\* A user, and the bot's own connections, channels and guilds.
UserRoutes(u) ==
    Ask({"User", "UserUpdate"}, Nothing, <<"users", u>>, <<"users", "">>)
    \cup Ask({"UserAvatarDecode"}, Nothing, <<"cdn", "avatars", u, "hash">>, <<"cdn", "avatars", "", "">>)
    \cup Plain({"UserConnections"}, Nothing, <<"users", "@me", "connections">>)
    \cup Ask({"UserChannelCreate"}, Nothing, <<"users", "@me", "channels">>, <<"users", "", "channels">>)
    \cup Ask({"UserGuilds"}, Nothing, <<"users", "@me", "guilds">>, <<"users", "", "guilds">>)

\* A guild as a whole.
GuildRoutes(g) ==
    Plain({"Guild", "GuildWithCounts", "GuildEdit", "GuildDelete"}, g, <<"guilds", g>>)
    \cup Plain({"GuildPreview"}, g, <<"guilds", g, "preview">>)
    \cup Plain({"GuildCreate"}, Nothing, <<"guilds">>)
    \cup Ask({"GuildLeave"}, g, <<"users", "@me", "guilds", g>>, <<"users", "", "guilds", g>>)

UserGuildMember(g) == Plain({"UserGuildMember"}, g, <<"users", "@me", "guilds", g, "member">>)

BanRoutes(g, u) ==
    Plain({"GuildBans"}, g, <<"guilds", g, "bans">>)
    \cup Plain({"GuildBan"}, g, <<"guilds", g, "bans", u>>)
    \cup Ask({"GuildBanCreate", "GuildBanDelete"}, g,
             <<"guilds", g, "bans", u>>, <<"guilds", g, "bans", "">>)

\* The list of members and the search in it.
MembersRoutes(g) ==
    Plain({"GuildMembers"}, g, <<"guilds", g, "members">>)
    \cup Plain({"GuildMembersSearch"}, g, <<"guilds", g, "members", "search">>)

MemberRoutes(g, u) ==
    Ask({"GuildMember", "GuildMemberAdd", "GuildMemberDelete", "GuildMemberEdit",
         "GuildMemberMove", "GuildMemberNickname", "GuildMemberMute", "GuildMemberTimeout",
         "GuildMemberDeafen"}, g, <<"guilds", g, "members", u>>, <<"guilds", g, "members", "">>)

MemberRoleRoutes(g, u, r) ==
    Ask({"GuildMemberRoleAdd", "GuildMemberRoleRemove"}, g,
        <<"guilds", g, "members", u, "roles", r>>, <<"guilds", g, "members", "", "roles", "">>)

\* The channels, invites and roles of a guild.
GuildPartRoutes(g, r) ==
    Plain({"GuildChannels", "GuildChannelCreate", "GuildChannelsReorder"}, g, <<"guilds", g, "channels">>)
    \cup Plain({"GuildInvites"}, g, <<"guilds", g, "invites">>)
    \cup Plain({"GuildRoles", "GuildRoleCreate", "GuildRoleReorder"}, g, <<"guilds", g, "roles">>)
    \cup Ask({"GuildRoleEdit", "GuildRoleDelete"}, g,
             <<"guilds", g, "roles", r>>, <<"guilds", g, "roles", "">>)

\* Pruning and integrations.
GuildCareRoutes(g, i) ==
    Plain({"GuildPruneCount", "GuildPrune"}, g, <<"guilds", g, "prune">>)
    \cup Plain({"GuildIntegrations", "GuildIntegrationCreate"}, g, <<"guilds", g, "integrations">>)
    \cup Ask({"GuildIntegrationEdit", "GuildIntegrationDelete"}, g,
             <<"guilds", g, "integrations", i>>, <<"guilds", g, "integrations", "">>)

\* The pictures and the widget of a guild.
PictureRoutes(g) ==
    Ask({"GuildIcon"}, g, <<"cdn", "icons", g, "hash">>, <<"cdn", "icons", g, "">>)
    \cup Ask({"GuildSplash"}, g, <<"cdn", "splashes", g, "hash">>, <<"cdn", "splashes", g, "">>)
    \cup Plain({"GuildEmbed", "GuildEmbedEdit"}, g, <<"guilds", g, "widget">>)

\* The audit log and the emojis.
EmojiRoutes(g, e) ==
    Plain({"GuildAuditLog"}, g, <<"guilds", g, "audit-logs">>)
    \cup Plain({"GuildEmojis", "GuildEmojiCreate"}, g, <<"guilds", g, "emojis">>)
    \cup Plain({"GuildEmoji"}, g, <<"guilds", g, "emojis", e>>)
    \cup Ask({"GuildEmojiEdit", "GuildEmojiDelete"}, g,
             <<"guilds", g, "emojis", e>>, <<"guilds", g, "emojis">>)

TemplateRoutes(g, t) ==
    Plain({"GuildTemplate", "GuildCreateWithTemplate"}, Nothing, <<"guilds", "templates", t>>)
    \cup Plain({"GuildTemplates", "GuildTemplateCreate"}, g, <<"guilds", g, "templates">>)
    \cup Ask({"GuildTemplateSync", "GuildTemplateEdit", "GuildTemplateDelete"}, g,
             <<"guilds", g, "templates", t>>, <<"guilds", g, "templates", "">>)

ChannelRoutes(c) ==
    Plain({"Channel", "ChannelEdit", "ChannelDelete"}, c, <<"channels", c>>)
    \cup Plain({"ChannelTyping"}, c, <<"channels", c, "typing">>)
    \cup Plain({"ChannelMessages"}, c, <<"channels", c, "messages">>)

\* What is sent to a channel; every way to send ends in this one.
SendRoutes(c) == Plain({"ChannelMessageSendComplex"}, c, <<"channels", c, "messages">>)

\* A message that exists, the pins and the deletion in bulk.
MessageRoutes(c, m) ==
    Ask({"ChannelMessage", "ChannelMessageEditComplex", "ChannelMessageDelete"}, c,
        <<"channels", c, "messages", m>>, <<"channels", c, "messages", "">>)
    \cup Plain({"ChannelMessagesBulkDelete"}, c, <<"channels", c, "messages", "bulk-delete">>)
    \cup Ask({"ChannelMessagePin", "ChannelMessageUnpin"}, c,
             <<"channels", c, "pins", m>>, <<"channels", c, "pins", "">>)
    \cup Plain({"ChannelMessagesPinned"}, c, <<"channels", c, "pins">>)

\* Invites to a channel, who may do what in it, and its followers.
ChannelPartRoutes(c, x) ==
    Plain({"ChannelInvites", "ChannelInviteCreate"}, c, <<"channels", c, "invites">>)
    \cup Ask({"ChannelPermissionSet", "ChannelPermissionDelete"}, c,
             <<"channels", c, "permissions", x>>, <<"channels", c, "permissions", "">>)
    \cup Plain({"ChannelMessageCrosspost"}, c, <<"channels", c, "messages", x, "crosspost">>)
    \cup Plain({"ChannelNewsFollow"}, c, <<"channels", c, "followers">>)

InviteRoutes(i) ==
    Ask({"Invite", "InviteWithCounts", "InviteComplex", "InviteDelete", "InviteAccept"},
        Nothing, <<"invites", i>>, <<"invites", "">>)

GatewayRoutes ==
    Plain({"VoiceRegions"}, Nothing, <<"", "voice", "regions">>)
    \cup Plain({"Gateway"}, Nothing, <<"gateway">>)
    \cup Plain({"GatewayBot"}, Nothing, <<"gateway", "bot">>)

WebhooksRoutes(g) ==
    Plain({"WebhookCreate", "ChannelWebhooks"}, g, <<"channels", g, "webhooks">>)
    \cup Plain({"GuildWebhooks"}, g, <<"guilds", g, "webhooks">>)

\* A webhook, with the bot's token or with the webhook's own.
WebhookRoutes(w, t) ==
    Ask({"Webhook", "WebhookEdit", "WebhookDelete"}, Nothing, <<"webhooks", w>>, <<"webhooks", "">>)
    \cup Ask({"WebhookWithToken", "WebhookEditWithToken", "WebhookDeleteWithToken"}, Nothing,
             <<"webhooks", w, t>>, <<"webhooks", "", "">>)

\* What a webhook sends: the bucket of a new message is its own address, with
\* the query that names the thread.
WebhookMessageRoutes(w, t) ==
    LET message == <<"webhooks", w, t, "messages", t>>
    IN  Plain({"WebhookExecute"}, Nothing, <<"webhooks", w, t>>)
        \cup Plain({"WebhookExecute"}, Nothing, <<"webhooks", w, t, "?", t>>)
        \cup Ask({"WebhookMessage", "WebhookMessageDelete", "WebhookMessageEdit"}, Nothing,
                 message, <<"webhooks", "", "">>)
        \cup Plain({"WebhookMessageEditFiles"}, Nothing, message)

ReactionRoutes(c, m, e) ==
    Ask({"MessageReactionAdd", "MessageReactionRemove"}, c,
        <<"channels", c, "messages", m, "reactions", e, "user">>,
        <<"channels", c, "messages", "", "reactions", "", "">>)
    \cup Ask({"MessageReactions"}, c, <<"channels", c, "messages", m, "reactions", e>>,
             <<"channels", c, "messages", "", "reactions", "", "">>)
    \cup Plain({"MessageReactionsRemoveAll"}, c, <<"channels", c, "messages", m, "reactions">>)
    \cup Plain({"MessageReactionsRemoveEmoji"}, c, <<"channels", c, "messages", m, "reactions", e>>)

\* Threads: started under a message, in a channel or in a forum,
ThreadStartRoutes(c, m) ==
    Plain({"MessageThreadStartComplex"}, c, <<"channels", c, "messages", m, "threads">>)
    \cup Plain({"ThreadStartComplex", "ForumThreadStartComplex"}, c, <<"channels", c, "threads">>)

\* joined and left,
ThreadMemberRoutes(c, u) ==
    Plain({"ThreadJoin", "ThreadLeave"}, c, <<"channels", c, "thread-members", "@me">>)
    \cup Plain({"ThreadMemberAdd", "ThreadMemberRemove", "ThreadMember"}, c,
               <<"channels", c, "thread-members", u>>)
    \cup Plain({"ThreadMembers"}, c, <<"channels", c, "thread-members">>)

\* and listed, the archived ones with the query in the bucket's name.
ThreadListRoutes(c, q) ==
    Plain({"ThreadsActive"}, c, <<"channels", c, "threads", "active">>)
    \cup Plain({"GuildThreadsActive"}, c, <<"guilds", c, "threads", "active">>)
    \cup Plain({"ThreadsArchived"}, c, <<"channels", c, "threads", "archived", "public", "?", q>>)
    \cup Plain({"ThreadsPrivateArchived"}, c, <<"channels", c, "threads", "archived", "private", "?", q>>)
    \cup Plain({"ThreadsPrivateJoinedArchived"}, c,
               <<"channels", c, "users", "@me", "threads", "archived", "private", "?", q>>)

\* The commands of an application, everywhere or in one guild.
CommandRoutes(g, a, k) ==
    LET Global == {"ApplicationCommandCreate", "ApplicationCommandBulkOverwrite"}
        One == {"ApplicationCommandEdit", "ApplicationCommandDelete", "ApplicationCommand"}
    IN  Plain(Global, Nothing, <<"applications", a, "commands">>)
        \cup Plain(Global, g, <<"applications", a, "guilds", g, "commands">>)
        \cup Plain(One, Nothing, <<"applications", a, "commands", k>>)
        \cup Plain(One, g, <<"applications", a, "guilds", g, "commands", k>>)
        \cup Ask({"ApplicationCommands"}, Nothing, <<"applications", a, "commands">>,
                 <<"GET ", "applications", a, "commands">>)
        \cup Ask({"ApplicationCommands"}, g, <<"applications", a, "guilds", g, "commands">>,
                 <<"GET ", "applications", a, "guilds", g, "commands">>)

CommandPermissionRoutes(g, a, k) ==
    Plain({"GuildApplicationCommandsPermissions", "ApplicationCommandPermissionsBatchEdit"}, g,
          <<"applications", a, "guilds", g, "permissions">>)
    \cup Plain({"ApplicationCommandPermissions", "ApplicationCommandPermissionsEdit"}, g,
               <<"applications", a, "guilds", g, "commands", k, "permissions">>)

\* The answer to an interaction.  The answer is then got, changed and followed
\* up as a message of a webhook.
InteractionRoutes(i, t) ==
    Plain({"InteractionRespond"}, Nothing, <<"interactions", i, t, "callback">>)
    \cup Plain({"InteractionResponseDelete"}, Nothing, <<"webhooks", i, t, "messages", "@original">>)

StageRoutes(c) ==
    Plain({"StageInstanceCreate"}, Nothing, <<"stage-instances">>)
    \cup Plain({"StageInstance", "StageInstanceEdit", "StageInstanceDelete"}, c, <<"stage-instances", c>>)

ScheduleRoutes(g, e) ==
    Plain({"GuildScheduledEvents", "GuildScheduledEventCreate"}, g, <<"guilds", g, "scheduled-events">>)
    \cup Plain({"GuildScheduledEvent", "GuildScheduledEventEdit", "GuildScheduledEventDelete"}, g,
               <<"guilds", g, "scheduled-events", e>>)
    \cup Plain({"GuildScheduledEventUsers"}, g, <<"guilds", g, "scheduled-events", e, "users">>)

ModerationRoutes(g, r) ==
    Plain({"AutoModerationRules", "AutoModerationRuleCreate"}, g,
          <<"guilds", g, "auto-moderation", "rules">>)
    \cup Plain({"AutoModerationRule", "AutoModerationRuleEdit", "AutoModerationRuleDelete"}, g,
               <<"guilds", g, "auto-moderation", "rules", r>>)

RoleConnectionRoutes(a) ==
    Plain({"ApplicationRoleConnectionMetadata", "ApplicationRoleConnectionMetadataUpdate"}, Nothing,
          <<"applications", a, "role-connections", "metadata">>)
    \cup Plain({"UserApplicationRoleConnection", "UserApplicationRoleConnectionUpdate"}, Nothing,
               <<"users", "@me", "applications", a, "role-connection">>)

ApplicationRoutes(a) ==
    Ask({"Application", "ApplicationUpdate", "ApplicationDelete"}, Nothing,
        <<"oauth2", "applications", a>>, <<"oauth2", "applications", "">>)
    \cup Plain({"Applications", "ApplicationCreate"}, Nothing, <<"oauth2", "applications">>)
    \cup Ask({"ApplicationAssets"}, Nothing,
             <<"oauth2", "applications", a, "assets">>, <<"oauth2", "applications", "", "assets">>)
    \cup Ask({"ApplicationBotCreate"}, Nothing,
             <<"oauth2", "applications", a, "bot">>, <<"oauth2", "applications", "", "bot">>)

GuildRequests(g, x, y) ==
    UNION {GuildRoutes(g), UserGuildMember(g), BanRoutes(g, x), MembersRoutes(g), MemberRoutes(g, x),
           MemberRoleRoutes(g, x, y), GuildPartRoutes(g, x), GuildCareRoutes(g, x), PictureRoutes(g),
           EmojiRoutes(g, x), TemplateRoutes(g, x), CommandRoutes(g, x, y),
           CommandPermissionRoutes(g, x, y), ScheduleRoutes(g, x), ModerationRoutes(g, x)}
ChannelRequests(c, x, y) ==
    UNION {ChannelRoutes(c), SendRoutes(c), MessageRoutes(c, x), ChannelPartRoutes(c, x),
           WebhooksRoutes(c), ReactionRoutes(c, x, y), ThreadStartRoutes(c, x),
           ThreadMemberRoutes(c, x), ThreadListRoutes(c, x), StageRoutes(c)}
OtherRequests(x, y) ==
    UNION {UserRoutes(x), InviteRoutes(x), GatewayRoutes, WebhookRoutes(x, y),
           WebhookMessageRoutes(x, y), InteractionRoutes(x, y), RoleConnectionRoutes(x),
           ApplicationRoutes(x)}

Requests ==
    UNION {GuildRequests(m, x, y) \cup ChannelRequests(m, x, y) \cup OtherRequests(x, y) :
              m \in Majors, x \in Minors, y \in Minors}
---------------------------------------------------------------------------------------
RouteInit == buckets = << >> /\ made = {}

\* The one custom limit: buckets whose name ends in "//reactions//".
Custom(bucket) == IsSuffix(<<"", "reactions", "", "">>, bucket)

GetBucket(key) ==
    buckets' = IF key \in DOMAIN buckets THEN buckets
               ELSE [k \in DOMAIN buckets \cup {key} |-> IF k = key THEN Custom(key) ELSE buckets[k]]

Request(r) ==
    /\ Cardinality(made) < MaxRequests
    /\ GetBucket(r.bucket)
    /\ made' = made \cup {r}

RouteNext == \E r \in Requests : Request(r)
---------------------------------------------------------------------------------------
\* The calls that keep the id of a thing in the bucket's name, so that each
\* thing has a bucket that is never freed.
PerItem == {"GuildBan", "GuildEmoji", "GuildTemplate", "GuildCreateWithTemplate",
            "ChannelMessageCrosspost", "WebhookExecute", "WebhookMessageEditFiles",
            "MessageReactionsRemoveAll", "MessageReactionsRemoveEmoji", "MessageThreadStartComplex",
            "ThreadMemberAdd", "ThreadMemberRemove", "ThreadMember", "ThreadsArchived",
            "ThreadsPrivateArchived", "ThreadsPrivateJoinedArchived", "ApplicationCommandCreate",
            "ApplicationCommandBulkOverwrite", "ApplicationCommandEdit", "ApplicationCommandDelete",
            "ApplicationCommand", "ApplicationCommands", "GuildApplicationCommandsPermissions",
            "ApplicationCommandPermissionsBatchEdit", "ApplicationCommandPermissions",
            "ApplicationCommandPermissionsEdit", "InteractionRespond", "InteractionResponseDelete",
            "GuildScheduledEvent", "GuildScheduledEventEdit", "GuildScheduledEventDelete",
            "GuildScheduledEventUsers", "AutoModerationRule", "AutoModerationRuleEdit",
            "AutoModerationRuleDelete", "ApplicationRoleConnectionMetadata",
            "ApplicationRoleConnectionMetadataUpdate", "UserApplicationRoleConnection",
            "UserApplicationRoleConnectionUpdate"}

\* The buckets are Discord's limits: requests that share one are about the same
\* guild or channel, so that one guild's limit holds up no other guild; the
\* requests of a call about one guild or channel all share one, so that the
\* limit is seen, but for the calls named above; and reactions, and nothing
\* else, are spaced by the custom limit.
BucketsRight ==
    \A r, s \in made :
        /\ r.bucket = s.bucket => r.major = s.major
        /\ r.op = s.op /\ r.major = s.major /\ r.op \notin PerItem => r.bucket = s.bucket
        /\ buckets[r.bucket] <=>
              r.op \in {"MessageReactionAdd", "MessageReactionRemove", "MessageReactions"}
=======================================================================================

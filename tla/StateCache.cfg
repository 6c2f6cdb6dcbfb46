SPECIFICATION MCSpec
CONSTANTS
    club = club
    hall = hall
    talk = talk
    Guilds = {club}
    Users = {ann, bob}
    Roles = {role}
    Messages = {m1, m2}
    TextChannels = {hall}
    Threads = {talk}
    DMs = {dm}
    GuildOf <- MCGuildOf
    ParentOf <- MCParentOf
    MaxMessageCount = 1
    MaxListed = 2
    MaxMissed = 2
    Majors = {a, b}
    Minors = {x, y}
    MaxRequests = 2
    me = me
    her = her
    owner = owner
    everyone = everyone
    mod = mod
    vip = vip
    bot = bot
    People = {me}
    Bot = bot
    Occasions <- MCOccasions
    ForwardLimit = 1
    Administrator = "administrator"
    AllChannel = {"view"}
    All = {"view", "kick", "hooks", "administrator"}
    Everyone = everyone
    Asker = me
    PermGuilds <- MCGuilds
    PermChannels <- MCPermChannels
    PermRoles <- MCPermRoles
INVARIANTS GuildRight CachesAgree MessagesRight BucketsRight HierarchyKept FormsAgree
SYMMETRY MCSymmetry
CHECK_DEADLOCK FALSE

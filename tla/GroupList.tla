---------------------------------- MODULE GroupList ----------------------------------
(***************************************************************************)
(* get_group_list (handlers/get_group_list.go) walks the guilds of the bot *)
(* page by page: a pager shared by all callers remembers the last guild    *)
(* shown, and each call answers with the page after it.  After five        *)
(* minutes without a call that succeeded the walk starts anew.             *)
(***************************************************************************)
EXTENDS Integers, FiniteSets, FiniteSetsExt

CONSTANTS
    MaxGuild,      \* the guilds' ids are 1..MaxGuild
    Limit,         \* guilds on a page
    Callers        \* requests of the application that may run at a time

ASSUME ListAssumption == MaxGuild \in Nat /\ Limit \in Nat \ {0}

GuildIds == 1..MaxGuild

VARIABLES
    member,        \* Discord: the guilds the bot is in
    after,         \* globalPager.After, 0 when empty
    fresh,         \* lastCallTime is less than five minutes ago
    call,          \* per caller: what it does
    listed,        \* the guilds answered since the walk began,
    stayed,        \* those the bot has been in all the time since,
    crossed        \* and whether it began while another call was under way

listVars == <<member, after, fresh, call, listed, stayed, crossed>>

NotCalling == [at |-> "idle"]

ListInit ==
    /\ member \in SUBSET GuildIds /\ stayed = {} /\ listed = {}
    /\ after = 0 /\ fresh = FALSE /\ crossed = FALSE
    /\ call = [c \in Callers |-> NotCalling]

\* A slip the property must notice: the pager is set beyond the last guild.
Advance_Beyond(page) == IF page = {} THEN after ELSE Max(page) + 1
---------------------------------------------------------------------------------------
\* Discord's page of the guilds after one.
Page(start) ==
    LET later == {g \in member : g > start}
    IN  {g \in later : Cardinality({h \in later : h < g}) < Limit}

\* GetGroupList begins: it starts the walk anew when the last call is long
\* ago, and asks Discord.
Begin(c) ==
    /\ call[c] = NotCalling
    /\ IF fresh
       THEN UNCHANGED <<after, listed, stayed, crossed>>
       ELSE /\ after' = 0 /\ listed' = {} /\ stayed' = member
            /\ crossed' = (\E d \in Callers : call[d] # NotCalling)
    /\ call' = [call EXCEPT ![c] = [at |-> "asked", start |-> after']]
    /\ UNCHANGED <<member, fresh>>

Served(c) ==
    /\ call[c].at \in {"asked", "again"}
    /\ call' = [call EXCEPT ![c] =
          [at |-> IF call[c].at = "asked" THEN "served" ELSE "first",
           page |-> Page(call[c].start)]]
    /\ UNCHANGED <<member, after, fresh, listed, stayed, crossed>>

\* Where the pager is set after a page.
Advance(page) == IF page = {} THEN after ELSE Max(page)

\* The page arrives.  After an empty one the first page is asked for, and the
\* pager stays where it is.
GetGroupList(c) ==
    /\ call[c].at = "served"
    /\ after' = Advance(call[c].page)
    /\ fresh' = TRUE
    /\ listed' = listed \cup call[c].page
    /\ call' = [call EXCEPT ![c] = IF call[c].page = {} THEN [at |-> "again", start |-> 0]
                                   ELSE NotCalling]
    /\ UNCHANGED <<member, stayed, crossed>>

AnswerFirst(c) ==
    /\ call[c].at = "first"
    /\ listed' = listed \cup call[c].page
    /\ call' = [call EXCEPT ![c] = NotCalling]
    /\ UNCHANGED <<member, after, fresh, stayed, crossed>>

\* Discord cannot be reached: nothing is answered, the pager stays.
Fails(c) ==
    /\ call[c] # NotCalling
    /\ call' = [call EXCEPT ![c] = NotCalling]
    /\ UNCHANGED <<member, after, fresh, listed, stayed, crossed>>

FiveMinutes ==
    /\ fresh /\ fresh' = FALSE
    /\ UNCHANGED <<member, after, call, listed, stayed, crossed>>

Joins(g) ==
    /\ g \notin member /\ member' = member \cup {g}
    /\ UNCHANGED <<after, fresh, call, listed, stayed, crossed>>

Leaves(g) ==
    /\ g \in member /\ member' = member \ {g} /\ stayed' = stayed \ {g}
    /\ UNCHANGED <<after, fresh, call, listed, crossed>>

ListNext ==
    \/ \E c \in Callers :
          Begin(c) \/ Served(c) \/ GetGroupList(c) \/ AnswerFirst(c) \/ Fails(c)
    \/ FiveMinutes
    \/ \E g \in GuildIds : Joins(g) \/ Leaves(g)
---------------------------------------------------------------------------------------
\* The walk skips no guild the bot was in all the time, whoever else calls,
\* fails, joins or leaves: what lies behind the pager has been answered.  (Not
\* so when the walk began while a call was under way, whose answer then moves
\* the new walk's pager to where the old one was.)
NoneSkipped ==
    ~crossed => \A g \in stayed : g <= after => g \in listed
=======================================================================================

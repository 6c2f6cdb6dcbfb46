---------------------------------- MODULE BanTimers ----------------------------------
(***************************************************************************)
(* The ban of a member (handlers/set_group_ban.go): a role is given to the *)
(* member by a call to Discord, and once the call has returned a timer is  *)
(* started whose end takes the role away.  Nothing is kept anywhere: the   *)
(* timers are lost when the program stops.                                 *)
(***************************************************************************)
EXTENDS Integers

CONSTANTS
    Members,
    MaxBans        \* bound: bans of one member that are under way or timed

ASSUME BanAssumption == MaxBans \in Nat

VARIABLES
    role,       \* Discord: who has the role
    asked,      \* per member: calls on their way to Discord,
    applied,    \* and calls Discord has carried out, whose answer is awaited
    timers,     \* per member: timers that run
    forsaken    \* the members a call about whom failed, with no ban granted since

banVars == <<role, asked, applied, timers, forsaken>>

BanInit ==
    /\ role = {} /\ forsaken = {}
    /\ asked = [m \in Members |-> 0]
    /\ applied = [m \in Members |-> 0]
    /\ timers = [m \in Members |-> 0]

\* A slip the property must notice: the ban that is lifted stops the timers,
\* whether or not the call succeeds.
Unban_StopsTimers(m) ==
    /\ \/ role' = role \ {m} /\ forsaken' = forsaken \ {m}
       \/ UNCHANGED <<role, forsaken>>
    /\ timers' = [timers EXCEPT ![m] = 0]
    /\ UNCHANGED <<asked, applied>>
---------------------------------------------------------------------------------------
Lift(m) == role' = role \ {m} /\ forsaken' = forsaken \ {m}

\* SetGroupBan with a duration: the call, what Discord does with it, and the answer.
Ban(m) ==
    /\ asked[m] + applied[m] + timers[m] < MaxBans
    /\ asked' = [asked EXCEPT ![m] = @ + 1]
    /\ UNCHANGED <<role, applied, timers, forsaken>>

Apply(m) ==
    /\ asked[m] > 0
    /\ asked' = [asked EXCEPT ![m] = @ - 1]
    /\ applied' = [applied EXCEPT ![m] = @ + 1]
    /\ role' = role \cup {m}
    /\ UNCHANGED <<timers, forsaken>>

Refuse(m) ==
    /\ asked[m] > 0
    /\ asked' = [asked EXCEPT ![m] = @ - 1]
    /\ UNCHANGED <<role, applied, timers, forsaken>>

Answered(m) ==
    /\ applied[m] > 0
    /\ applied' = [applied EXCEPT ![m] = @ - 1]
    /\ timers' = [timers EXCEPT ![m] = @ + 1]
    /\ forsaken' = forsaken \ {m}
    /\ UNCHANGED <<role, asked>>

\* An answer that is lost, or a call given up too early, is an error to the
\* handler: it starts no timer.
AnswerLost(m) ==
    /\ applied[m] > 0
    /\ applied' = [applied EXCEPT ![m] = @ - 1]
    /\ forsaken' = forsaken \cup {m}
    /\ UNCHANGED <<role, asked, timers>>

\* A timer ends: its function takes the role away, or fails and only logs it.
\* The role goes whichever ban the timer was for.
TimerEnds(m) ==
    /\ timers[m] > 0
    /\ timers' = [timers EXCEPT ![m] = @ - 1]
    /\ \/ Lift(m)
       \/ forsaken' = forsaken \cup {m} /\ UNCHANGED role
    /\ UNCHANGED <<asked, applied>>

\* SetGroupBan with no duration.  The timers run on.  (When the call fails it
\* is logged and nothing has changed.)
Unban(m) ==
    /\ m \in role
    /\ Lift(m)
    /\ UNCHANGED <<asked, applied, timers>>

\* The program stops: no timer and no call is left.
Restart ==
    /\ timers' = [m \in Members |-> 0]
    /\ asked' = [m \in Members |-> 0] /\ applied' = [m \in Members |-> 0]
    /\ forsaken' = forsaken \cup role
    /\ UNCHANGED role

BanNext ==
    \/ \E m \in Members :
          \/ Ban(m) \/ Apply(m) \/ Refuse(m) \/ Answered(m) \/ AnswerLost(m)
          \/ TimerEnds(m) \/ Unban(m)
    \/ Restart

\* A call comes back, and a timer that was started ends.
BanFairness ==
    \A m \in Members : WF_banVars(Answered(m) \/ AnswerLost(m)) /\ WF_banVars(TimerEnds(m))
---------------------------------------------------------------------------------------
\* A ban ends: whoever has the role loses it, unless a call that gave it or one
\* that was to take it away failed, or the program stopped.
BanEnds ==
    \A m \in Members : (m \in role) ~> (m \notin role \/ m \in forsaken)
=======================================================================================

----------------------------------- MODULE RateLimit -----------------------------------
(***************************************************************************)
(* The rate limiter of discordgo (discordgo/ratelimit.go) and the requests *)
(* it holds back (restapi.go): every call of Discord's REST interface locks *)
(* the bucket of its route, waits until the bucket or all buckets may be   *)
(* used again, and keeps the lock until the answer's headers are read.     *)
(*                                                                         *)
(* Discord stands beside it: it counts the requests of a bucket in windows *)
(* and refuses those beyond the limit; now and then it refuses all of them *)
(* for a while, or a request or its answer is lost, or a proxy answers 502. *)
(*                                                                         *)
(* A point in time is kept as the number of ticks until it is reached.     *)
(***************************************************************************)
EXTENDS Integers

CONSTANTS
    Callers,          \* goroutines, each with one request at a time
    Buckets,
    Custom,           \* the buckets of reactions, with a limit of their own
    Limit,            \* Discord: requests per window of a bucket
    Window,           \* Discord: the length of a window
    GlobalWindow,     \* Discord: how long it refuses all requests
    CustomReset,      \* customRateLimit.reset
    MaxRestRetries,   \* Session.MaxRestRetries
    MaxFaults         \* bound: lost requests and answers, 502s, global limits

ASSUME TimesAssumption ==
    /\ {Limit, Window, GlobalWindow, CustomReset} \subseteq Nat \ {0}
    /\ MaxRestRetries \in Nat /\ MaxFaults \in Nat

None == "none"
ASSUME BucketsAssumption == Custom \subseteq Buckets /\ None \notin Callers \cup Buckets

VARIABLES
    pc,          \* of a caller: idle, lock, sleep, out, back, again
    bucket,      \* of a caller: the bucket of its request, or None
    timer,       \* of a caller: what is left of its sleep
    tries,       \* of a caller: sequence, the 502s it got
    answer,      \* of a caller: what came back
    holder,      \* who locked a bucket, or None
    remaining,   \* Bucket.Remaining
    reset,       \* ticks to Bucket.reset
    lastReset,   \* ticks to Bucket.lastReset plus the custom limit's reset
    global,      \* ticks to the end of the global limit, as RateLimiter.global has it
    left,        \* Discord: what is left of a bucket's limit in its window
    window,      \* Discord: ticks to the end of a bucket's window, 0 if none runs
    allStop,     \* Discord: ticks to the end of the global limit
    since,       \* Discord: ticks until a custom bucket's last request is old
    heard,       \* the answer to the last request Discord counted in a bucket was read
    faults       \* bound

callerVars == <<pc, bucket, timer, tries, answer>>
bucketVars == <<holder, remaining, reset, lastReset, global>>
discordVars == <<left, window, allStop, since, heard>>
vars == <<callerVars, bucketVars, discordVars, faults>>

NoAnswer == [status |-> "lost", reset |-> 0, left |-> 0]
Answer == [status : {"ok", "refused", "stopped", "502", "lost"}, reset : Nat, left : 0..Limit]

TypeOK ==
    /\ pc \in [Callers -> {"idle", "lock", "sleep", "out", "back", "again"}]
    /\ bucket \in [Callers -> Buckets \cup {None}]
    /\ timer \in [Callers -> Nat] /\ tries \in [Callers -> 0..MaxRestRetries]
    /\ answer \in [Callers -> Answer]
    /\ holder \in [Buckets -> Callers \cup {None}]
    /\ \A c \in Callers : bucket[c] = None <=> pc[c] = "idle"
    /\ \A c \in Callers, b \in Buckets :
          holder[b] = c <=> bucket[c] = b /\ pc[c] \in {"sleep", "out", "back"}
    /\ remaining \in [Buckets -> Int] /\ \A b \in Buckets : remaining[b] <= Limit
    /\ reset \in [Buckets -> Nat] /\ lastReset \in [Buckets -> Nat] /\ global \in Nat
    /\ left \in [Buckets -> 0..Limit] /\ window \in [Buckets -> 0..Window]
    /\ allStop \in 0..GlobalWindow /\ since \in [Buckets -> 0..CustomReset]
    /\ heard \in [Buckets -> BOOLEAN] /\ faults \in 0..MaxFaults

\* NewRatelimiter and GetBucket.  Discord may still count requests the program
\* sent before it was started again.
Init ==
    /\ pc = [c \in Callers |-> "idle"]
    /\ bucket = [c \in Callers |-> None]
    /\ timer = [c \in Callers |-> 0] /\ tries = [c \in Callers |-> 0]
    /\ answer = [c \in Callers |-> NoAnswer]
    /\ holder = [b \in Buckets |-> None]
    /\ remaining = [b \in Buckets |-> 1]
    /\ reset = [b \in Buckets |-> 0] /\ lastReset = [b \in Buckets |-> 0] /\ global = 0
    /\ \/ left = [b \in Buckets |-> Limit] /\ window = [b \in Buckets |-> 0]
       \/ left = [b \in Buckets |-> 0] /\ window = [b \in Buckets |-> Window]
    /\ allStop = 0 /\ since = [b \in Buckets |-> 0]
    /\ heard = [b \in Buckets |-> FALSE] /\ faults = 0
----------------------------------------------------------------------------------------
\* Slips the properties must notice: a wait that comes one request too late,
GetWaitTime_Late(b) ==
    IF remaining[b] < 0 /\ reset[b] > 0 THEN reset[b] ELSE global

\* a custom limit without a wait,
CustomRelease_Unset(b) ==
    /\ lastReset' = [lastReset EXCEPT ![b] = CustomReset]
    /\ remaining' = [remaining EXCEPT ![b] = 0]
    /\ UNCHANGED <<reset, global>>

\* a lock that is kept when an answer has no headers.
Unlock_Heard(c) == [holder EXCEPT ![bucket[c]] = IF answer[c].status = "lost" THEN @ ELSE None]
----------------------------------------------------------------------------------------
\* RequestWithBucketID, up to the wait for the lock.
Request(c, b) ==
    /\ pc[c] = "idle"
    /\ bucket' = [bucket EXCEPT ![c] = b]
    /\ pc' = [pc EXCEPT ![c] = "lock"]
    /\ UNCHANGED <<timer, tries, answer, bucketVars, discordVars, faults>>

GetWaitTime(b) ==
    IF remaining[b] < 1 /\ reset[b] > 0 THEN reset[b] ELSE global

\* LockBucketObject: the wait is worked out once, before the sleep.
Lock(c) ==
    LET b == bucket[c]
    IN  /\ pc[c] = "lock" /\ holder[b] = None
        /\ holder' = [holder EXCEPT ![b] = c]
        /\ timer' = [timer EXCEPT ![c] = GetWaitTime(b)]
        /\ pc' = [pc EXCEPT ![c] = "sleep"]
        /\ UNCHANGED <<bucket, tries, answer, remaining, reset, lastReset, global, discordVars, faults>>

Counted(b) == [remaining EXCEPT ![b] = @ - 1]

Send(c) ==
    /\ pc[c] = "sleep" /\ timer[c] = 0
    /\ remaining' = Counted(bucket[c])
    /\ pc' = [pc EXCEPT ![c] = "out"]
    /\ UNCHANGED <<bucket, timer, tries, answer, holder, reset, lastReset, global, discordVars, faults>>

\* The custom limit looks at no header.
CustomRelease(b) ==
    LET new == IF lastReset[b] = 0 THEN 0 ELSE remaining[b]
    IN  /\ remaining' = [remaining EXCEPT ![b] = new]
        /\ lastReset' = IF lastReset[b] = 0 THEN [lastReset EXCEPT ![b] = CustomReset] ELSE lastReset
        /\ reset' = IF new < 1 THEN [reset EXCEPT ![b] = CustomReset] ELSE reset
        /\ UNCHANGED global

\* Reset-After goes to this bucket or to all; without it Reset and Date give
\* the same, rounded up.  A 502 comes from a proxy and has no such headers.
HeaderRelease(b, a) ==
    /\ CASE a.status \in {"ok", "refused"} ->
              /\ \E late \in 0..1 : reset' = [reset EXCEPT ![b] = a.reset + late]
              /\ remaining' = [remaining EXCEPT ![b] = a.left]
              /\ UNCHANGED global
         [] a.status = "stopped" -> global' = a.reset /\ UNCHANGED <<reset, remaining>>
         [] OTHER -> UNCHANGED <<reset, remaining, global>>
    /\ UNCHANGED lastReset

Release(b, a) == IF b \in Custom THEN CustomRelease(b) ELSE HeaderRelease(b, a)

Unlock(c) == [holder EXCEPT ![bucket[c]] = None]

\* RequestWithLockedBucket after the answer: a 502 is tried again at once, a
\* refusal after the time it names, both behind whoever waits for the bucket.
Return(c) ==
    LET a == answer[c]
    IN  /\ pc[c] = "back"
        /\ Release(bucket[c], a)
        /\ holder' = Unlock(c)
        /\ \/ /\ a.status = "502" /\ tries[c] < MaxRestRetries
              /\ pc' = [pc EXCEPT ![c] = "lock"] /\ tries' = [tries EXCEPT ![c] = @ + 1]
              /\ UNCHANGED <<bucket, timer>>
           \/ /\ a.status \in {"refused", "stopped"}
              /\ pc' = [pc EXCEPT ![c] = "again"] /\ timer' = [timer EXCEPT ![c] = a.reset]
              /\ UNCHANGED <<bucket, tries>>
           \/ /\ a.status \in {"ok", "lost"} \/ (a.status = "502" /\ tries[c] = MaxRestRetries)
              /\ pc' = [pc EXCEPT ![c] = "idle"] /\ bucket' = [bucket EXCEPT ![c] = None]
              /\ tries' = [tries EXCEPT ![c] = 0]
              /\ UNCHANGED timer
        /\ answer' = [answer EXCEPT ![c] = NoAnswer]
        /\ heard' = IF a.status \in {"ok", "refused"} THEN [heard EXCEPT ![bucket[c]] = TRUE]
                    ELSE heard
        /\ UNCHANGED <<left, window, allStop, since, faults>>

Again(c) ==
    /\ pc[c] = "again" /\ timer[c] = 0
    /\ pc' = [pc EXCEPT ![c] = "lock"]
    /\ UNCHANGED <<bucket, timer, tries, answer, bucketVars, discordVars, faults>>
----------------------------------------------------------------------------------------
\* What Discord answers a request of bucket b, and what it has left after it.
Verdict(b) ==
    LET open == window[b] = 0
        room == IF open THEN Limit ELSE left[b]
    IN  CASE allStop > 0 -> [status |-> "stopped", reset |-> allStop, left |-> 0]
          [] allStop = 0 /\ room > 0 ->
               [status |-> "ok", reset |-> IF open THEN Window ELSE window[b], left |-> room - 1]
          [] OTHER -> [status |-> "refused", reset |-> window[b], left |-> 0]

Serve(c, lost) ==
    LET b == bucket[c]
        a == Verdict(b)
    IN  /\ pc[c] = "out"
        /\ IF a.status = "stopped" THEN UNCHANGED <<left, window>>
           ELSE left' = [left EXCEPT ![b] = a.left] /\ window' = [window EXCEPT ![b] = a.reset]
        /\ since' = [since EXCEPT ![b] = CustomReset]
        /\ answer' = [answer EXCEPT ![c] = IF lost THEN NoAnswer ELSE a]
        /\ heard' = [heard EXCEPT ![b] = @ /\ ~lost]
        /\ pc' = [pc EXCEPT ![c] = "back"]
        /\ UNCHANGED <<bucket, timer, tries, bucketVars, allStop>>

\* A request that does not reach Discord.
Fail(c, status) ==
    /\ pc[c] = "out"
    /\ answer' = [answer EXCEPT ![c] = [NoAnswer EXCEPT !.status = status]]
    /\ pc' = [pc EXCEPT ![c] = "back"]
    /\ UNCHANGED <<bucket, timer, tries, bucketVars, discordVars>>

StopAll ==
    /\ allStop = 0 /\ allStop' = GlobalWindow
    /\ UNCHANGED <<callerVars, bucketVars, left, window, since, heard>>

Fault ==
    /\ faults < MaxFaults /\ faults' = faults + 1
    /\ \/ \E c \in Callers : Serve(c, TRUE) \/ (\E s \in {"lost", "502"} : Fail(c, s))
       \/ StopAll

Tick ==
    LET down(n) == IF n = 0 THEN 0 ELSE n - 1
    IN  /\ timer' = [c \in Callers |-> down(timer[c])]
        /\ reset' = [b \in Buckets |-> down(reset[b])]
        /\ lastReset' = [b \in Buckets |-> down(lastReset[b])]
        /\ global' = down(global)
        /\ window' = [b \in Buckets |-> down(window[b])]
        /\ allStop' = down(allStop)
        /\ since' = [b \in Buckets |-> down(since[b])]
        /\ UNCHANGED <<pc, bucket, tries, answer, holder, remaining, left, heard, faults>>

Step(c) == Send(c) \/ Return(c) \/ Again(c) \/ (Serve(c, FALSE) /\ UNCHANGED faults)

Next == (\E c \in Callers : (\E b \in Buckets : Request(c, b)) \/ Lock(c) \/ Step(c)) \/ Fault \/ Tick

\* Time passes, requests are answered, and Go's mutex starves nobody.
Spec ==
    /\ Init /\ [][Next]_vars
    /\ WF_vars(Tick)
    /\ \A c \in Callers : WF_vars(Step(c)) /\ SF_vars(Lock(c))
----------------------------------------------------------------------------------------
\* Discord refuses a request of a bucket only when the answer to the one it
\* counted before was never read, as after a start or a loss.
NeverRefused ==
    \A c \in Callers : pc[c] = "back" /\ bucket[c] \notin Custom /\ heard[bucket[c]] => answer[c].status # "refused"

\* Requests for reactions are served no faster than the custom limit says.
ReactionsSpaced ==
    \A c \in Callers : bucket[c] \in Custom /\ pc[c] = "out" => since[bucket[c]] = 0

\* Every request returns: no bucket stays locked, and no retry is overtaken
\* for ever.
Returns == \A c \in Callers : pc[c] = "lock" ~> pc[c] = "idle"
========================================================================================

-------------------------------- MODULE RateLimitProofs --------------------------------
(***************************************************************************)
(* That the lock of a bucket has one holder at a time, and that it is kept *)
(* long enough: reactions are spaced as the custom limit says, whatever    *)
(* callers wait and whatever answers are lost, and Discord refuses no      *)
(* request of a bucket whose last answer was read.                         *)
(***************************************************************************)
EXTENDS RateLimit, TLAPS

Held == {"sleep", "out", "back"}

\* The types, and what is known of numbers.
Types ==
    /\ pc \in [Callers -> {"idle", "lock", "sleep", "out", "back", "again"}]
    /\ bucket \in [Callers -> Buckets \cup {None}]
    /\ timer \in [Callers -> Nat] /\ tries \in [Callers -> 0..MaxRestRetries]
    /\ answer \in [Callers -> Answer]
    /\ holder \in [Buckets -> Callers \cup {None}]
    /\ remaining \in [Buckets -> Int] /\ \A b \in Buckets : remaining[b] <= Limit
    /\ reset \in [Buckets -> Nat] /\ lastReset \in [Buckets -> Nat] /\ global \in Nat
    /\ left \in [Buckets -> 0..Limit] /\ window \in [Buckets -> 0..Window]
    /\ allStop \in 0..GlobalWindow /\ since \in [Buckets -> 0..CustomReset]
    /\ heard \in [Buckets -> BOOLEAN] /\ faults \in 0..MaxFaults

\* The lock of a bucket and where the callers are.
Locks ==
    /\ \A c \in Callers : bucket[c] = None <=> pc[c] = "idle"
    /\ \A c \in Callers, b \in Buckets : holder[b] = c <=> bucket[c] = b /\ pc[c] \in Held

\* After a reaction its bucket is used up until the limit has passed, or until
\* whoever has the lock gives it back and sets the limit; who sleeps for the
\* bucket sleeps as long.
Spaced ==
    \A b \in Custom :
        /\ remaining[b] <= 1
        /\ \A c \in Callers : bucket[c] = b =>
              /\ pc[c] = "sleep" => timer[c] >= since[b]
              /\ pc[c] = "out" => since[b] = 0 /\ remaining[b] <= 0
              /\ pc[c] = "back" => remaining[b] <= 0
        /\ since[b] > 0 =>
              /\ remaining[b] <= 0
              /\ reset[b] >= since[b] \/ \E c \in Callers : bucket[c] = b /\ pc[c] = "back"

RInv == Types /\ Locks /\ Spaced

LEMMA Constants ==
    /\ Limit \in Nat \ {0} /\ Window \in Nat \ {0} /\ GlobalWindow \in Nat \ {0}
    /\ CustomReset \in Nat \ {0} /\ MaxRestRetries \in Nat /\ MaxFaults \in Nat
    /\ Custom \subseteq Buckets /\ None \notin Callers /\ None \notin Buckets
  BY TimesAssumption, BucketsAssumption

LEMMA InitInv == Init => RInv
<1> SUFFICES ASSUME Init PROVE RInv
  OBVIOUS
<1>1. NoAnswer \in Answer
  BY Constants DEF NoAnswer, Answer
<1>2. Types
  BY <1>1, Constants DEF Init, Types
<1>3. Locks /\ Spaced
  BY Constants DEF Init, Locks, Spaced, Held
<1> QED BY <1>2, <1>3 DEF RInv

LEMMA RequestInv ==
    ASSUME RInv, NEW c \in Callers, NEW b \in Buckets, Request(c, b)
    PROVE  RInv'
<1> USE Constants DEF RInv, Request, bucketVars, discordVars
<1>1. Types'
  BY DEF Types
<1>2. Locks'
  BY DEF Types, Locks, Held
<1>3. Spaced'
  BY DEF Types, Locks, Spaced
<1> QED BY <1>1, <1>2, <1>3

LEMMA LockInv ==
    ASSUME RInv, NEW c \in Callers, Lock(c)
    PROVE  RInv'
<1> USE Constants DEF RInv
<1> DEFINE b == bucket[c]
<1>1. b \in Buckets /\ GetWaitTime(b) \in Nat
  BY DEF Lock, Types, Locks, GetWaitTime
<1>2. Types'
  BY <1>1 DEF Types, Lock, discordVars
<1>3. Locks'
  BY <1>1 DEF Types, Locks, Held, Lock
<1>4. b \in Custom => GetWaitTime(b) >= since[b]
  <2> SUFFICES ASSUME b \in Custom, since[b] > 0 PROVE GetWaitTime(b) >= since[b]
    BY <1>1 DEF Types
  <2>1. \A d \in Callers : ~(bucket[d] = b /\ pc[d] = "back")
    BY <1>1 DEF Lock, Locks, Held
  <2> QED BY <1>1, <2>1 DEF Spaced, GetWaitTime, Types
<1>5. Spaced'
  BY <1>1, <1>4 DEF Types, Locks, Spaced, Lock, discordVars
<1> QED BY <1>2, <1>3, <1>5

LEMMA SendInv ==
    ASSUME RInv, NEW c \in Callers, Send(c)
    PROVE  RInv'
<1> USE Constants DEF RInv
<1> DEFINE b == bucket[c]
<1>1. /\ b \in Buckets /\ holder[b] = c
      /\ remaining' = [remaining EXCEPT ![b] = remaining[b] - 1]
      /\ pc' = [pc EXCEPT ![c] = "out"] /\ pc[c] = "sleep" /\ timer[c] = 0
      /\ UNCHANGED <<bucket, timer, tries, answer, holder, reset, lastReset, global, left,
                     window, allStop, since, heard, faults>>
  BY DEF Send, Types, Locks, Held, Counted, discordVars
<1>2. Types'
  BY <1>1 DEF Types
<1>3. Locks'
  BY <1>1 DEF Types, Locks, Held
<1>4. \A d \in Callers : bucket[d] = b /\ pc[d] \in Held => d = c
  BY <1>1 DEF Locks
<1>5. Spaced'
  BY <1>1, <1>4 DEF Types, Spaced, Held
<1> QED BY <1>2, <1>3, <1>5

\* What the answer of a request does to its bucket.
LEMMA ReleaseEffect ==
    ASSUME RInv, NEW c \in Callers, pc[c] = "back", Release(bucket[c], answer[c])
    PROVE  /\ bucket[c] \in Buckets
           /\ remaining' \in [Buckets -> Int] /\ \A b \in Buckets : remaining'[b] <= Limit
           /\ reset' \in [Buckets -> Nat] /\ lastReset' \in [Buckets -> Nat] /\ global' \in Nat
           /\ \A b \in Buckets : b # bucket[c] =>
                 remaining'[b] = remaining[b] /\ reset'[b] = reset[b]
           /\ bucket[c] \in Custom => remaining'[bucket[c]] <= 0 /\ reset'[bucket[c]] = CustomReset
<1> USE Constants DEF RInv
<1> DEFINE b == bucket[c]
           a == answer[c]
<1>1. b \in Buckets
  BY DEF Types, Locks
<1>2. a \in Answer /\ a.reset \in Nat /\ a.left \in 0..Limit
  BY DEF Types, Answer
<1>3. CASE b \in Custom
  <2>1. remaining[b] <= 0 /\ remaining[b] \in Int
    BY <1>1, <1>3 DEF Spaced, Types
  <2> DEFINE new == IF lastReset[b] = 0 THEN 0 ELSE remaining[b]
  <2>2. new <= 0 /\ new \in Int
    BY <2>1
  <2>3. /\ remaining' = [remaining EXCEPT ![b] = new]
        /\ lastReset' = IF lastReset[b] = 0 THEN [lastReset EXCEPT ![b] = CustomReset]
                        ELSE lastReset
        /\ reset' = [reset EXCEPT ![b] = CustomReset]
        /\ UNCHANGED global
    BY <1>3, <2>2 DEF Release, CustomRelease
  <2> HIDE DEF new
  <2> QED BY <1>1, <2>2, <2>3 DEF Types
<1>4. CASE b \notin Custom
  <2>1. CASE a.status \in {"ok", "refused"}
    <3>1. PICK late \in 0..1 : reset' = [reset EXCEPT ![b] = a.reset + late]
      BY <1>4, <2>1 DEF Release, HeaderRelease
    <3>2. a.reset + late \in Nat
      BY <1>2
    <3> QED BY <1>1, <1>2, <1>4, <2>1, <3>1, <3>2 DEF Release, HeaderRelease, Types
  <2>2. CASE a.status = "stopped"
    BY <1>1, <1>2, <1>4, <2>2 DEF Release, HeaderRelease, Types
  <2>3. CASE a.status \notin {"ok", "refused", "stopped"}
    BY <1>1, <1>4, <2>3 DEF Release, HeaderRelease, Types
  <2> QED BY <2>1, <2>2, <2>3
<1> QED BY <1>3, <1>4

LEMMA ReturnInv ==
    ASSUME RInv, NEW c \in Callers, Return(c)
    PROVE  RInv'
<1> USE Constants DEF RInv
<1> DEFINE b == bucket[c]
<1>1. /\ pc[c] = "back" /\ Release(b, answer[c])
      /\ holder' = [holder EXCEPT ![b] = None]
      /\ answer' = [answer EXCEPT ![c] = NoAnswer]
      /\ UNCHANGED <<left, window, allStop, since, faults>>
      /\ heard' = heard \/ heard' = [heard EXCEPT ![b] = TRUE]
  BY DEF Return, Unlock
<1>2. \/ /\ tries[c] < MaxRestRetries
         /\ pc' = [pc EXCEPT ![c] = "lock"] /\ tries' = [tries EXCEPT ![c] = tries[c] + 1]
         /\ UNCHANGED <<bucket, timer>>
      \/ /\ pc' = [pc EXCEPT ![c] = "again"]
         /\ timer' = [timer EXCEPT ![c] = answer[c].reset]
         /\ UNCHANGED <<bucket, tries>>
      \/ /\ pc' = [pc EXCEPT ![c] = "idle"] /\ bucket' = [bucket EXCEPT ![c] = None]
         /\ tries' = [tries EXCEPT ![c] = 0]
         /\ UNCHANGED timer
  BY DEF Return
<1>3. /\ b \in Buckets
      /\ remaining' \in [Buckets -> Int] /\ \A x \in Buckets : remaining'[x] <= Limit
      /\ reset' \in [Buckets -> Nat] /\ lastReset' \in [Buckets -> Nat] /\ global' \in Nat
      /\ \A x \in Buckets : x # b => remaining'[x] = remaining[x] /\ reset'[x] = reset[x]
      /\ b \in Custom => remaining'[b] <= 0 /\ reset'[b] = CustomReset
  BY <1>1, ReleaseEffect
<1> HIDE DEF b
<1>4. NoAnswer \in Answer /\ answer[c].reset \in Nat
  BY DEF NoAnswer, Answer, Types
<1>5. holder[b] = c /\ \A d \in Callers : bucket[d] = b /\ pc[d] \in Held => d = c
  BY <1>1, <1>3 DEF Locks, Held, b
<1>6. Types'
  <2>1. pc' \in [Callers -> {"idle", "lock", "sleep", "out", "back", "again"}]
    BY <1>2 DEF Types
  <2>2. /\ bucket' \in [Callers -> Buckets \cup {None}] /\ timer' \in [Callers -> Nat]
        /\ tries' \in [Callers -> 0..MaxRestRetries]
    BY <1>2, <1>4 DEF Types
  <2>3. heard' \in [Buckets -> BOOLEAN]
    BY <1>1, <1>3 DEF Types
  <2> QED BY <1>1, <1>3, <1>4, <2>1, <2>2, <2>3 DEF Types
<1>7. Locks'
  <2>1. /\ pc'[c] \notin Held
        /\ bucket'[c] = None <=> pc'[c] = "idle"
        /\ \A d \in Callers \ {c} : bucket'[d] = bucket[d] /\ pc'[d] = pc[d]
    <3>1. pc \in [Callers -> {"idle", "lock", "sleep", "out", "back", "again"}]
          /\ bucket \in [Callers -> Buckets \cup {None}]
      BY DEF Types
    <3>2. bucket[c] # None
      BY <1>1 DEF Locks
    <3> QED BY <1>2, <3>1, <3>2 DEF Held
  <2>2. holder'[b] = None /\ \A x \in Buckets \ {b} : holder'[x] = holder[x]
    BY <1>1, <1>3 DEF Types
  <2>3. ASSUME NEW d \in Callers, NEW x \in Buckets
        PROVE  holder'[x] = d <=> bucket'[d] = x /\ pc'[d] \in Held
    <3>1. CASE x = b
      BY <1>5, <2>1, <2>2, <3>1
    <3>2. CASE x # b /\ d # c
      BY <2>1, <2>2, <3>2 DEF Locks
    <3>3. CASE x # b /\ d = c
      <4>1. holder[x] # c
        BY <3>3 DEF Locks, b
      <4> QED BY <2>1, <2>2, <3>3, <4>1
    <3> QED BY <3>1, <3>2, <3>3
  <2>4. \A d \in Callers : bucket'[d] = None <=> pc'[d] = "idle"
    BY <2>1 DEF Locks
  <2> QED BY <2>3, <2>4 DEF Locks
<1>8. Spaced'
  <2> SUFFICES ASSUME NEW x \in Custom
               PROVE  /\ remaining'[x] <= 1
                      /\ \A d \in Callers : bucket'[d] = x =>
                            /\ pc'[d] = "sleep" => timer'[d] >= since'[x]
                            /\ pc'[d] = "out" => since'[x] = 0 /\ remaining'[x] <= 0
                            /\ pc'[d] = "back" => remaining'[x] <= 0
                      /\ since'[x] > 0 =>
                            /\ remaining'[x] <= 0
                            /\ \/ reset'[x] >= since'[x]
                               \/ \E d \in Callers : bucket'[d] = x /\ pc'[d] = "back"
    BY DEF Spaced
  <2>1. \A d \in Callers : pc'[d] \in Held =>
            d # c /\ pc'[d] = pc[d] /\ bucket'[d] = bucket[d] /\ timer'[d] = timer[d]
    BY <1>2 DEF Types, Held
  <2>2. CASE x = b
    <3>1. \A d \in Callers : ~(bucket'[d] = x /\ pc'[d] \in Held)
      BY <1>5, <2>1, <2>2
    <3>2. since'[x] <= CustomReset /\ since'[x] \in Nat
      BY <1>1, <1>3, <2>2 DEF Types
    <3>3. /\ remaining'[x] <= 0 /\ remaining'[x] \in Int /\ reset'[x] = CustomReset
      BY <1>3, <2>2
    <3> QED BY <3>1, <3>2, <3>3 DEF Held
  <2>3. CASE x # b
    <3>1. \A d \in Callers : bucket[d] = x => bucket'[d] = x /\ pc'[d] = pc[d]
      BY <1>2, <2>3 DEF Types, b
    <3> QED BY <1>1, <1>3, <2>1, <2>3, <3>1 DEF Types, Spaced, Held
  <2> QED BY <2>2, <2>3
<1> QED BY <1>6, <1>7, <1>8

LEMMA AgainInv ==
    ASSUME RInv, NEW c \in Callers, Again(c)
    PROVE  RInv'
<1> USE Constants DEF RInv, Again, bucketVars, discordVars
<1>1. Types'
  BY DEF Types
<1>2. Locks'
  BY DEF Types, Locks, Held
<1>3. Spaced'
  BY DEF Types, Locks, Spaced
<1> QED BY <1>1, <1>2, <1>3

LEMMA VerdictType ==
    ASSUME Types, NEW b \in Buckets
    PROVE  /\ Verdict(b) \in Answer
           /\ Verdict(b).status # "stopped" => Verdict(b).reset \in 0..Window
<1> USE Constants DEF Verdict, Answer, Types
<1>1. CASE allStop > 0
  BY <1>1
<1>2. CASE allStop = 0
  BY <1>2
<1> QED BY <1>1, <1>2

LEMMA ServeInv ==
    ASSUME RInv, NEW c \in Callers, NEW lost \in BOOLEAN, Serve(c, lost),
           faults' \in 0..MaxFaults
    PROVE  RInv'
<1> USE Constants DEF RInv
<1> DEFINE b == bucket[c]
           a == Verdict(b)
<1>1. /\ pc[c] = "out" /\ b \in Buckets /\ holder[b] = c
      /\ \A d \in Callers : bucket[d] = b /\ pc[d] \in Held => d = c
  BY DEF Serve, Types, Locks, Held
<1>2. a \in Answer /\ (a.status # "stopped" => a.reset \in 0..Window) /\ a.left \in 0..Limit
  BY <1>1, VerdictType DEF Answer
<1>3. /\ left' \in [Buckets -> 0..Limit] /\ window' \in [Buckets -> 0..Window]
      /\ since' = [since EXCEPT ![b] = CustomReset]
      /\ heard' = [heard EXCEPT ![b] = heard[b] /\ ~lost]
      /\ pc' = [pc EXCEPT ![c] = "back"]
      /\ UNCHANGED <<bucket, timer, tries, holder, remaining, reset, lastReset, global, allStop>>
  BY <1>1, <1>2 DEF Serve, Types, bucketVars
<1>4. answer' \in [Callers -> Answer]
  <2>1. NoAnswer \in Answer
    BY DEF NoAnswer, Answer
  <2>2. answer' = [answer EXCEPT ![c] = IF lost THEN NoAnswer ELSE a]
    BY DEF Serve
  <2> QED BY <1>2, <2>1, <2>2 DEF Types
<1> HIDE DEF a
<1>5. heard' \in [Buckets -> BOOLEAN]
  BY <1>3 DEF Types
<1>6. Types'
  <2>1. pc' \in [Callers -> {"idle", "lock", "sleep", "out", "back", "again"}]
    BY <1>3 DEF Types
  <2>2. since' \in [Buckets -> 0..CustomReset]
    <3>1. since \in [Buckets -> 0..CustomReset] /\ CustomReset \in 0..CustomReset
      BY DEF Types
    <3>2. since' = [since EXCEPT ![b] = CustomReset]
      BY <1>3
    <3> HIDE DEF RInv
    <3> QED BY <3>1, <3>2
  <2>3. /\ bucket' = bucket /\ timer' = timer /\ tries' = tries /\ holder' = holder
        /\ remaining' = remaining /\ reset' = reset /\ lastReset' = lastReset
        /\ global' = global /\ allStop' = allStop
    BY <1>3
  <2>4. left' \in [Buckets -> 0..Limit] /\ window' \in [Buckets -> 0..Window]
    BY <1>3
  <2> HIDE DEF b
  <2> QED BY <1>4, <1>5, <2>1, <2>2, <2>3, <2>4 DEF Types
<1>7. Locks'
  BY <1>1, <1>3 DEF Types, Locks, Held
<1>8. Spaced'
  <2> SUFFICES ASSUME NEW x \in Custom
               PROVE  /\ remaining'[x] <= 1
                      /\ \A d \in Callers : bucket'[d] = x =>
                            /\ pc'[d] = "sleep" => timer'[d] >= since'[x]
                            /\ pc'[d] = "out" => since'[x] = 0 /\ remaining'[x] <= 0
                            /\ pc'[d] = "back" => remaining'[x] <= 0
                      /\ since'[x] > 0 =>
                            /\ remaining'[x] <= 0
                            /\ \/ reset'[x] >= since'[x]
                               \/ \E d \in Callers : bucket'[d] = x /\ pc'[d] = "back"
    BY DEF Spaced
  <2>1. CASE x = b
    <3>1. pc'[c] = "back" /\ bucket'[c] = x
      BY <1>3, <2>1 DEF Types
    <3>2. \A d \in Callers : bucket'[d] = x /\ pc'[d] \in Held => d = c
      BY <1>1, <1>3, <2>1 DEF Types, Held
    <3>3. remaining'[x] <= 0 /\ remaining'[x] \in Int
      BY <1>1, <1>3, <2>1 DEF Types, Spaced
    <3> QED BY <3>1, <3>2, <3>3 DEF Held
  <2>2. CASE x # b
    <3>1. since'[x] = since[x] /\ remaining'[x] = remaining[x] /\ reset'[x] = reset[x]
      BY <1>3, <2>2 DEF Types
    <3>2. \A d \in Callers : bucket'[d] = x =>
             bucket[d] = x /\ pc'[d] = pc[d] /\ timer'[d] = timer[d]
      BY <1>3, <2>2 DEF Types
    <3>3. \A d \in Callers : bucket[d] = x /\ pc[d] = "back" => bucket'[d] = x /\ pc'[d] = "back"
      BY <1>3, <2>2 DEF Types
    <3> QED BY <3>1, <3>2, <3>3 DEF Spaced
  <2> QED BY <2>1, <2>2
<1> QED BY <1>6, <1>7, <1>8

LEMMA FailInv ==
    ASSUME RInv, NEW c \in Callers, NEW s \in {"lost", "502"}, Fail(c, s), faults' \in 0..MaxFaults
    PROVE  RInv'
<1> USE Constants DEF RInv
<1>1. [NoAnswer EXCEPT !.status = s] \in Answer
  BY DEF NoAnswer, Answer
<1>2. /\ pc[c] = "out" /\ pc' = [pc EXCEPT ![c] = "back"]
      /\ answer' = [answer EXCEPT ![c] = [NoAnswer EXCEPT !.status = s]]
      /\ UNCHANGED <<bucket, timer, tries, holder, remaining, reset, lastReset, global, left,
                     window, allStop, since, heard>>
  BY DEF Fail, bucketVars, discordVars
<1>3. Types'
  BY <1>1, <1>2 DEF Types
<1>4. Locks'
  BY <1>2 DEF Types, Locks, Held
<1>5. Spaced'
  BY <1>2 DEF Types, Spaced
<1> QED BY <1>3, <1>4, <1>5

LEMMA TickInv ==
    ASSUME RInv, Tick
    PROVE  RInv'
<1> USE Constants DEF RInv
<1> DEFINE down(n) == IF n = 0 THEN 0 ELSE n - 1
<1>1. /\ timer' = [c \in Callers |-> down(timer[c])]
      /\ reset' = [b \in Buckets |-> down(reset[b])]
      /\ lastReset' = [b \in Buckets |-> down(lastReset[b])]
      /\ global' = down(global)
      /\ window' = [b \in Buckets |-> down(window[b])]
      /\ allStop' = down(allStop)
      /\ since' = [b \in Buckets |-> down(since[b])]
      /\ UNCHANGED <<pc, bucket, tries, answer, holder, remaining, left, heard, faults>>
  BY DEF Tick
<1>2. \A n \in Nat : down(n) \in Nat /\ down(n) <= n
  OBVIOUS
<1>3. \A m, n \in Nat : m >= n => down(m) >= down(n)
  OBVIOUS
<1> HIDE DEF down
<1>4. Types'
  <2>1. timer' \in [Callers -> Nat] /\ reset' \in [Buckets -> Nat]
    BY <1>1, <1>2 DEF Types
  <2>2. lastReset' \in [Buckets -> Nat] /\ global' \in Nat
    BY <1>1, <1>2 DEF Types
  <2>3. window' \in [Buckets -> 0..Window]
    <3> SUFFICES ASSUME NEW b \in Buckets PROVE down(window[b]) \in 0..Window
      BY <1>1
    <3>1. window[b] \in Nat /\ window[b] <= Window
      BY DEF Types
    <3>2. down(window[b]) \in Nat /\ down(window[b]) <= window[b]
      BY <1>2, <3>1
    <3> QED BY <3>1, <3>2
  <2>4. since' \in [Buckets -> 0..CustomReset]
    <3> SUFFICES ASSUME NEW b \in Buckets PROVE down(since[b]) \in 0..CustomReset
      BY <1>1
    <3>1. since[b] \in Nat /\ since[b] <= CustomReset
      BY DEF Types
    <3>2. down(since[b]) \in Nat /\ down(since[b]) <= since[b]
      BY <1>2, <3>1
    <3> QED BY <3>1, <3>2
  <2>5. allStop' \in 0..GlobalWindow
    <3>1. allStop \in Nat /\ allStop <= GlobalWindow
      BY DEF Types
    <3>2. down(allStop) \in Nat /\ down(allStop) <= allStop
      BY <1>2, <3>1
    <3> QED BY <1>1, <3>1, <3>2
  <2> QED BY <1>1, <2>1, <2>2, <2>3, <2>4, <2>5 DEF Types
<1>5. Locks'
  BY <1>1 DEF Locks
<1>6. Spaced'
  <2> SUFFICES ASSUME NEW x \in Custom
               PROVE  /\ remaining[x] <= 1
                      /\ \A d \in Callers : bucket[d] = x =>
                            /\ pc[d] = "sleep" => down(timer[d]) >= down(since[x])
                            /\ pc[d] = "out" => down(since[x]) = 0 /\ remaining[x] <= 0
                            /\ pc[d] = "back" => remaining[x] <= 0
                      /\ down(since[x]) > 0 =>
                            /\ remaining[x] <= 0
                            /\ \/ down(reset[x]) >= down(since[x])
                               \/ \E d \in Callers : bucket[d] = x /\ pc[d] = "back"
    BY <1>1 DEF Spaced
  <2>1. since[x] \in Nat /\ reset[x] \in Nat /\ \A d \in Callers : timer[d] \in Nat
    BY DEF Types
  <2>2. down(since[x]) <= since[x] /\ down(since[x]) \in Nat /\ down(0) = 0
    BY <1>2, <2>1 DEF down
  <2> QED BY <1>3, <2>1, <2>2 DEF Spaced
<1> QED BY <1>4, <1>5, <1>6

LEMMA NextInv == RInv /\ [Next]_vars => RInv'
<1> SUFFICES ASSUME RInv, [Next]_vars PROVE RInv'
  OBVIOUS
<1>1. ASSUME NEW c \in Callers, Serve(c, FALSE) /\ UNCHANGED faults PROVE RInv'
  BY <1>1, ServeInv DEF RInv, Types
<1>2. CASE Fault
  <2>1. faults' \in 0..MaxFaults
    BY <1>2, Constants DEF Fault, RInv, Types
  <2>2. CASE StopAll
    <3>1. /\ allStop' = GlobalWindow
          /\ UNCHANGED <<pc, bucket, timer, tries, answer, holder, remaining, reset, lastReset,
                         global, left, window, since, heard>>
      BY <2>2 DEF StopAll, callerVars, bucketVars
    <3>2. Types' /\ Locks'
      BY <2>1, <3>1, Constants DEF RInv, Types, Locks
    <3>3. Spaced'
      BY <3>1 DEF RInv, Spaced
    <3> QED BY <3>2, <3>3 DEF RInv
  <2> QED BY <1>2, <2>1, <2>2, ServeInv, FailInv DEF Fault
<1>3. CASE UNCHANGED vars
  <2>1. UNCHANGED <<pc, bucket, timer, tries, answer, holder, remaining, reset, lastReset,
                    global, left, window, allStop, since, heard, faults>>
    BY <1>3 DEF vars, callerVars, bucketVars, discordVars
  <2> QED BY <2>1 DEF RInv, Types, Locks, Spaced
<1> QED
  BY <1>1, <1>2, <1>3, RequestInv, LockInv, SendInv, ReturnInv, AgainInv, TickInv
  DEF Next, Step

LEMMA RInvAlways == Spec => []RInv
  BY InitInv, NextInv, PTL DEF Spec

\* Every variable keeps its type, and a bucket is locked by the one caller that
\* sleeps for it, is out with its request or reads the answer, for any callers,
\* buckets and faults.
THEOREM LimiterTypeCorrect == Spec => []TypeOK
<1>1. RInv => TypeOK
  BY DEF RInv, Types, Locks, Held, TypeOK
<1> QED BY <1>1, RInvAlways, PTL

\* Reactions are sent no faster than the custom limit says, whatever is lost.
THEOREM ReactionsAlwaysSpaced == Spec => []ReactionsSpaced
<1>1. RInv => ReactionsSpaced
  BY DEF RInv, Spaced, ReactionsSpaced
<1> QED BY <1>1, RInvAlways, PTL

----------------------------------------------------------------------------------------
At(c, b, place) == bucket[c] = b /\ pc[c] = place

\* What the program knows of a bucket of Discord's.  An answer that is being read
\* names no more than is left and no less than the window still lasts; once one
\* was read the bucket is as cautious until the next is on its way back, whoever
\* sleeps while nothing is left sleeps as long as the window, and who is out was
\* counted already and leaves less than Discord has.
KnownLeft(b) ==
    /\ \A c \in Callers : At(c, b, "back") /\ answer[c].status \in {"ok", "refused"} =>
          answer[c].left <= left[b] /\ answer[c].reset >= window[b]
    /\ heard[b] =>
         /\ \A c \in Callers : At(c, b, "back") => answer[c].status # "refused"
         /\ window[b] > 0 =>
              /\ \/ remaining[b] <= left[b] /\ reset[b] >= window[b]
                 \/ \E c \in Callers : At(c, b, "back") /\ answer[c].status = "ok"
              /\ \A c \in Callers : At(c, b, "sleep") => remaining[b] >= 1 \/ timer[c] >= window[b]
              /\ \A c \in Callers : At(c, b, "out") => remaining[b] \in 0 .. left[b] - 1

Known == \A b \in Buckets \ Custom : KnownLeft(b)

\* A step that leaves a bucket and whoever has its lock as they are.
LEMMA Untouched ==
    ASSUME NEW x, KnownLeft(x),
           \A d \in Callers : bucket'[d] = x /\ pc'[d] \in Held =>
              bucket[d] = x /\ pc'[d] = pc[d] /\ timer'[d] = timer[d] /\ answer'[d] = answer[d],
           \A d \in Callers : At(d, x, "back") => bucket'[d] = x /\ pc'[d] = "back" /\ answer'[d] = answer[d],
           remaining'[x] = remaining[x], reset'[x] = reset[x], left'[x] = left[x],
           window'[x] = window[x], heard'[x] = heard[x]
    PROVE  KnownLeft(x)'
<1>1. \A d \in Callers : bucket'[d] = x /\ pc'[d] \in {"sleep", "out", "back"} =>
         bucket[d] = x /\ pc'[d] = pc[d] /\ timer'[d] = timer[d] /\ answer'[d] = answer[d]
  BY DEF Held
<1>2. \A d \in Callers : bucket[d] = x /\ pc[d] = "back" =>
         bucket'[d] = x /\ pc'[d] = "back" /\ answer'[d] = answer[d]
  BY DEF At
<1> QED BY <1>1, <1>2 DEF KnownLeft, At

LEMMA KnownRequest ==
    ASSUME RInv, Known, NEW c \in Callers, NEW b \in Buckets, Request(c, b)
    PROVE  Known'
<1> SUFFICES ASSUME NEW x \in Buckets \ Custom PROVE KnownLeft(x)'
  BY DEF Known
<1>1. /\ pc[c] = "idle" /\ pc' = [pc EXCEPT ![c] = "lock"] /\ bucket' = [bucket EXCEPT ![c] = b]
      /\ UNCHANGED <<timer, answer, remaining, reset, left, window, heard>>
  BY DEF Request, bucketVars, discordVars
<1>2. KnownLeft(x)
  BY DEF Known
<1> QED BY <1>1, <1>2, Untouched DEF RInv, Types, Held, At

LEMMA KnownLock ==
    ASSUME RInv, Known, NEW c \in Callers, Lock(c)
    PROVE  Known'
<1> SUFFICES ASSUME NEW x \in Buckets \ Custom PROVE KnownLeft(x)'
  BY DEF Known
<1> DEFINE b == bucket[c]
<1>1. /\ b \in Buckets /\ pc[c] = "lock" /\ holder[b] = None /\ pc' = [pc EXCEPT ![c] = "sleep"]
      /\ timer' = [timer EXCEPT ![c] = GetWaitTime(b)]
      /\ UNCHANGED <<bucket, answer, remaining, reset, left, window, heard>>
  BY DEF Lock, RInv, Types, Locks, discordVars
<1>2. KnownLeft(x)
  BY DEF Known
<1>3. CASE x # b
  BY <1>1, <1>2, <1>3, Untouched DEF RInv, Types, Held, At
<1>4. CASE x = b
  <2>1. \A d \in Callers : ~(bucket[d] = x /\ pc[d] \in {"sleep", "out", "back"})
    BY <1>1, <1>4, Constants DEF RInv, Locks, Held
  <2>2. pc'[c] = "sleep" /\ timer'[c] = GetWaitTime(x) /\ \A d \in Callers \ {c} : pc'[d] = pc[d]
    BY <1>1, <1>4 DEF RInv, Types
  <2>3. \A d \in Callers : bucket'[d] = x /\ pc'[d] \in {"sleep", "out", "back"} => d = c
    BY <1>1, <2>1, <2>2
  <2>4. heard[x] /\ window[x] > 0 => remaining[x] <= left[x] /\ reset[x] >= window[x]
    BY <1>2, <2>1 DEF KnownLeft, At
  <2>5. heard[x] /\ window[x] > 0 => remaining[x] >= 1 \/ GetWaitTime(x) >= window[x]
    BY <2>4 DEF GetWaitTime, RInv, Types
  <2> QED BY <1>1, <2>2, <2>3, <2>4, <2>5 DEF KnownLeft, At
<1> QED BY <1>3, <1>4

LEMMA KnownSend ==
    ASSUME RInv, Known, NEW c \in Callers, Send(c)
    PROVE  Known'
<1> SUFFICES ASSUME NEW x \in Buckets \ Custom PROVE KnownLeft(x)'
  BY DEF Known
<1> DEFINE b == bucket[c]
<1>1. /\ b \in Buckets /\ pc[c] = "sleep" /\ timer[c] = 0 /\ pc' = [pc EXCEPT ![c] = "out"]
      /\ remaining' = [remaining EXCEPT ![b] = remaining[b] - 1]
      /\ UNCHANGED <<bucket, timer, answer, reset, left, window, heard>>
  BY DEF Send, Counted, RInv, Types, Locks, discordVars
<1>2. KnownLeft(x)
  BY DEF Known
<1>3. CASE x # b
  BY <1>1, <1>2, <1>3, Untouched DEF RInv, Types, Held, At
<1>4. CASE x = b
  <2>1. \A d \in Callers : bucket[d] = x /\ pc[d] \in {"sleep", "out", "back"} => d = c
    BY <1>1, <1>4 DEF RInv, Locks, Held
  <2>2. /\ pc'[c] = "out" /\ remaining'[x] = remaining[x] - 1 /\ \A d \in Callers \ {c} : pc'[d] = pc[d]
    BY <1>1, <1>4 DEF RInv, Types
  <2>3. \A d \in Callers : bucket'[d] = x /\ pc'[d] \in {"sleep", "out", "back"} => d = c
    BY <1>1, <2>1, <2>2
  <2>4. heard[x] /\ window[x] > 0 =>
          /\ remaining[x] <= left[x] /\ reset[x] >= window[x]
          /\ remaining[x] >= 1 \/ timer[c] >= window[x]
    BY <1>1, <1>2, <1>4, <2>1 DEF KnownLeft, At
  <2>5. remaining[x] \in Int /\ left[x] \in Nat /\ window[x] \in Nat
    BY DEF RInv, Types
  <2>6. heard[x] /\ window[x] > 0 =>
          /\ remaining'[x] <= left[x] /\ reset[x] >= window[x]
          /\ remaining'[x] \in 0 .. left[x] - 1
    BY <1>1, <2>2, <2>4, <2>5
  <2> QED BY <1>1, <2>2, <2>3, <2>6 DEF KnownLeft, At
<1> QED BY <1>3, <1>4

LEMMA KnownReturn ==
    ASSUME RInv, Known, NEW c \in Callers, Return(c)
    PROVE  Known'
<1> SUFFICES ASSUME NEW x \in Buckets \ Custom PROVE KnownLeft(x)'
  BY DEF Known
<1> DEFINE b == bucket[c]
           a == answer[c]
<1>1. /\ b \in Buckets /\ pc[c] = "back" /\ Release(b, a)
      /\ \/ pc' = [pc EXCEPT ![c] = "lock"] /\ UNCHANGED <<bucket, timer>>
         \/ pc' = [pc EXCEPT ![c] = "again"] /\ timer' = [timer EXCEPT ![c] = a.reset] /\ UNCHANGED bucket
         \/ /\ pc' = [pc EXCEPT ![c] = "idle"] /\ bucket' = [bucket EXCEPT ![c] = None]
            /\ UNCHANGED timer
      /\ answer' = [answer EXCEPT ![c] = NoAnswer]
      /\ heard' = IF a.status \in {"ok", "refused"} THEN [heard EXCEPT ![b] = TRUE] ELSE heard
      /\ UNCHANGED <<left, window>>
  BY DEF Return, RInv, Types, Locks
<1>2. KnownLeft(x)
  BY DEF Known
<1>3. /\ pc'[c] \notin Held /\ \A d \in Callers \ {c} : pc'[d] = pc[d] /\ bucket'[d] = bucket[d]
                                                /\ timer'[d] = timer[d] /\ answer'[d] = answer[d]
  BY <1>1 DEF RInv, Types, Held
<1>4. \A y \in Buckets : y # b => remaining'[y] = remaining[y] /\ reset'[y] = reset[y] /\ heard'[y] = heard[y]
  BY <1>1, ReleaseEffect DEF RInv, Types
<1>5. CASE x # b
  <2>1. \A d \in Callers : At(d, x, "back") => d # c
    BY <1>5 DEF At
  <2> QED BY <1>1, <1>2, <1>3, <1>4, <1>5, <2>1, Untouched DEF At
<1>6. CASE x = b
  <2>1. \A d \in Callers : bucket[d] = x /\ pc[d] \in {"sleep", "out", "back"} => d = c
    BY <1>1, <1>6 DEF RInv, Locks, Held
  <2>2. \A d \in Callers : ~(bucket'[d] = x /\ pc'[d] \in {"sleep", "out", "back"})
    BY <1>3, <2>1 DEF Held
  <2>3. HeaderRelease(x, a)
    BY <1>1, <1>6 DEF Release
  <2>4. a \in Answer /\ a.reset \in Nat
    BY DEF RInv, Types, Answer
  <2>5. CASE a.status \in {"ok", "refused"}
    <3>1. PICK late \in 0..1 : reset' = [reset EXCEPT ![x] = a.reset + late]
      BY <2>3, <2>5 DEF HeaderRelease
    <3>2. remaining' = [remaining EXCEPT ![x] = a.left]
      BY <2>3, <2>5 DEF HeaderRelease
    <3>3. reset'[x] = a.reset + late /\ remaining'[x] = a.left
      BY <3>1, <3>2 DEF RInv, Types
    <3>4. a.left <= left[x] /\ a.reset >= window[x]
      BY <1>1, <1>2, <1>6, <2>5 DEF KnownLeft, At
    <3>5. remaining'[x] <= left'[x] /\ reset'[x] >= window'[x]
      BY <1>1, <2>4, <3>3, <3>4 DEF RInv, Types
    <3> QED BY <2>2, <3>5 DEF KnownLeft, At
  <2>6. CASE a.status \notin {"ok", "refused"}
    <3>1. remaining' = remaining /\ reset' = reset /\ heard' = heard
      BY <1>1, <2>3, <2>6 DEF HeaderRelease
    <3>2. heard[x] /\ window[x] > 0 => remaining[x] <= left[x] /\ reset[x] >= window[x]
      BY <1>2, <2>1, <2>6 DEF KnownLeft, At
    <3> QED BY <1>1, <2>2, <3>1, <3>2 DEF KnownLeft, At
  <2> QED BY <2>5, <2>6
<1> QED BY <1>5, <1>6

LEMMA KnownAgain ==
    ASSUME RInv, Known, NEW c \in Callers, Again(c)
    PROVE  Known'
<1> SUFFICES ASSUME NEW x \in Buckets \ Custom PROVE KnownLeft(x)'
  BY DEF Known
<1>1. /\ pc[c] = "again" /\ pc' = [pc EXCEPT ![c] = "lock"]
      /\ UNCHANGED <<bucket, timer, answer, remaining, reset, left, window, heard>>
  BY DEF Again, bucketVars, discordVars
<1>2. KnownLeft(x)
  BY DEF Known
<1> QED BY <1>1, <1>2, Untouched DEF RInv, Types, Held, At

\* The answer of Discord to a request of a bucket it was heard of before.
LEMMA KnownServe ==
    ASSUME RInv, Known, NEW c \in Callers, NEW lost \in BOOLEAN, Serve(c, lost)
    PROVE  Known'
<1> SUFFICES ASSUME NEW x \in Buckets \ Custom PROVE KnownLeft(x)'
  BY DEF Known
<1> DEFINE b == bucket[c]
           a == Verdict(b)
<1>1. /\ b \in Buckets /\ pc[c] = "out" /\ pc' = [pc EXCEPT ![c] = "back"]
      /\ answer' = [answer EXCEPT ![c] = IF lost THEN NoAnswer ELSE a]
      /\ heard' = [heard EXCEPT ![b] = heard[b] /\ ~lost]
      /\ UNCHANGED <<bucket, timer, remaining, reset>>
      /\ IF a.status = "stopped" THEN UNCHANGED <<left, window>>
         ELSE left' = [left EXCEPT ![b] = a.left] /\ window' = [window EXCEPT ![b] = a.reset]
  BY DEF Serve, RInv, Types, Locks, bucketVars
<1>2. KnownLeft(x)
  BY DEF Known
<1>a. a \in Answer /\ a.left \in Nat /\ a.reset \in Nat
  BY <1>1, VerdictType DEF RInv, Answer
<1>3. CASE x # b
  <2> HIDE DEF a
  <2>1. left'[x] = left[x] /\ window'[x] = window[x] /\ heard'[x] = heard[x]
    BY <1>1, <1>3 DEF RInv, Types
  <2> QED BY <1>1, <1>2, <1>3, <2>1, Untouched DEF RInv, Types, Held, At
<1>4. CASE x = b
  <2>1. \A d \in Callers : bucket[d] = x /\ pc[d] \in {"sleep", "out", "back"} => d = c
    BY <1>1, <1>4 DEF RInv, Locks, Held
  <2>2. /\ pc'[c] = "back" /\ bucket'[c] = x /\ \A d \in Callers \ {c} : pc'[d] = pc[d]
        /\ answer'[c] = IF lost THEN NoAnswer ELSE a
        /\ heard'[x] = (heard[x] /\ ~lost)
    BY <1>1, <1>4 DEF RInv, Types
  <2>3. \A d \in Callers : bucket'[d] = x /\ pc'[d] \in {"sleep", "out", "back"} => d = c
    BY <1>1, <2>1, <2>2
  <2>4. heard[x] /\ window[x] > 0 =>
          /\ remaining[x] <= left[x] /\ reset[x] >= window[x]
          /\ remaining[x] \in 0 .. left[x] - 1
    BY <1>1, <1>2, <1>4, <2>1 DEF KnownLeft, At
  <2>5. remaining[x] \in Int /\ left[x] \in Nat /\ window[x] \in Nat
    BY DEF RInv, Types
  <2>6. heard[x] => a.status # "refused"
    <3> SUFFICES ASSUME heard[x] PROVE Verdict(x).status # "refused"
      BY <1>4
    <3> DEFINE room == IF window[x] = 0 THEN Limit ELSE left[x]
    <3>1. room > 0
      <4>1. CASE window[x] = 0
        BY <4>1, Constants
      <4>2. CASE window[x] # 0
        <5>1. window[x] > 0
          BY <2>5, <4>2
        <5>2. left[x] > 0
          BY <2>4, <2>5, <5>1
        <5> QED BY <4>2, <5>2
      <4> QED BY <4>1, <4>2
    <3>2. allStop \in Nat
      BY DEF RInv, Types
    <3> QED BY <3>1, <3>2 DEF Verdict
  <2>7. a.status \in {"ok", "refused", "stopped"}
    BY Constants DEF Verdict, RInv, Types
  <2>8. NoAnswer.status = "lost"
    BY DEF NoAnswer
  <2> HIDE DEF a
  <2>9. CASE a.status = "stopped"
    <3>1. left' = left /\ window' = window
      BY <1>1, <2>9
    <3>2. answer'[c].status \in {"stopped", "lost"}
      BY <2>2, <2>8, <2>9
    <3> QED BY <1>1, <2>2, <2>3, <2>4, <3>1, <3>2 DEF KnownLeft, At
  <2>10. CASE a.status # "stopped"
    <3>1. left'[x] = a.left /\ window'[x] = a.reset
      BY <1>1, <1>4, <2>10 DEF RInv, Types
    <3>2. answer'[c].status \in {"ok", "refused"} => answer'[c] = a
      BY <2>2, <2>8
    <3>3. heard'[x] => answer'[c].status = "ok"
      BY <2>2, <2>6, <2>7, <2>10
    <3>4. a.left <= left'[x] /\ a.reset >= window'[x]
      BY <1>a, <3>1
    <3> QED BY <2>2, <2>3, <3>2, <3>3, <3>4 DEF KnownLeft, At
  <2> QED BY <2>9, <2>10
<1> QED BY <1>3, <1>4

LEMMA KnownFail ==
    ASSUME RInv, Known, NEW c \in Callers, NEW s \in {"lost", "502"}, Fail(c, s)
    PROVE  Known'
<1> SUFFICES ASSUME NEW x \in Buckets \ Custom PROVE KnownLeft(x)'
  BY DEF Known
<1> DEFINE b == bucket[c]
<1>1. /\ b \in Buckets /\ pc[c] = "out" /\ pc' = [pc EXCEPT ![c] = "back"]
      /\ answer' = [answer EXCEPT ![c] = [NoAnswer EXCEPT !.status = s]]
      /\ UNCHANGED <<bucket, timer, remaining, reset, left, window, heard>>
  BY DEF Fail, RInv, Types, Locks, bucketVars, discordVars
<1>2. KnownLeft(x)
  BY DEF Known
<1>3. CASE x # b
  BY <1>1, <1>2, <1>3, Untouched DEF RInv, Types, Held, At
<1>4. CASE x = b
  <2>1. \A d \in Callers : bucket[d] = x /\ pc[d] \in {"sleep", "out", "back"} => d = c
    BY <1>1, <1>4 DEF RInv, Locks, Held
  <2>2. pc'[c] = "back" /\ answer'[c].status = s /\ \A d \in Callers \ {c} : pc'[d] = pc[d]
    <3>1. [NoAnswer EXCEPT !.status = s].status = s
      BY DEF NoAnswer
    <3> QED BY <1>1, <3>1 DEF RInv, Types
  <2>3. \A d \in Callers : bucket'[d] = x /\ pc'[d] \in {"sleep", "out", "back"} => d = c
    BY <1>1, <2>1, <2>2
  <2>4. heard[x] /\ window[x] > 0 => remaining[x] <= left[x] /\ reset[x] >= window[x]
    BY <1>1, <1>2, <1>4, <2>1 DEF KnownLeft, At
  <2> QED BY <1>1, <2>2, <2>3, <2>4 DEF KnownLeft, At
<1> QED BY <1>3, <1>4

LEMMA KnownTick ==
    ASSUME RInv, Known, Tick
    PROVE  Known'
<1> SUFFICES ASSUME NEW x \in Buckets \ Custom PROVE KnownLeft(x)'
  BY DEF Known
<1> DEFINE down(n) == IF n = 0 THEN 0 ELSE n - 1
<1>1. /\ \A c \in Callers : timer'[c] = down(timer[c])
      /\ reset'[x] = down(reset[x]) /\ window'[x] = down(window[x])
      /\ UNCHANGED <<pc, bucket, answer, remaining, left, heard>>
  BY DEF Tick
<1>2. KnownLeft(x)
  BY DEF Known
<1>3. /\ reset[x] \in Nat /\ window[x] \in Nat
      /\ \A c \in Callers : timer[c] \in Nat /\ answer[c].reset \in Nat
  BY DEF RInv, Types, Answer
<1>4. \A m, n \in Nat : m >= n => down(m) >= down(n) /\ m >= down(n)
  OBVIOUS
<1>5. \A n \in Nat : down(n) > 0 => n > 0
  OBVIOUS
<1> HIDE DEF down
<1>6. \A c \in Callers : At(c, x, "back") /\ answer[c].status \in {"ok", "refused"} =>
        answer[c].left <= left[x] /\ answer[c].reset >= down(window[x])
  BY <1>2, <1>3, <1>4 DEF KnownLeft
<1>7. heard[x] => \A c \in Callers : At(c, x, "back") => answer[c].status # "refused"
  BY <1>2 DEF KnownLeft
<1>8. ASSUME heard[x], down(window[x]) > 0
      PROVE  /\ \/ remaining[x] <= left[x] /\ down(reset[x]) >= down(window[x])
                \/ \E c \in Callers : At(c, x, "back") /\ answer[c].status = "ok"
             /\ \A c \in Callers : At(c, x, "sleep") => remaining[x] >= 1 \/ down(timer[c]) >= down(window[x])
             /\ \A c \in Callers : At(c, x, "out") => remaining[x] \in 0 .. left[x] - 1
  BY <1>2, <1>3, <1>4, <1>5, <1>8 DEF KnownLeft
<1> QED BY <1>1, <1>6, <1>7, <1>8 DEF KnownLeft, At

LEMMA KnownNext == RInv /\ Known /\ [Next]_vars => Known'
<1> SUFFICES ASSUME RInv, Known, [Next]_vars PROVE Known'
  OBVIOUS
<1>1. CASE Fault
  <2>1. CASE StopAll
    BY <2>1 DEF StopAll, callerVars, bucketVars, Known, KnownLeft, At
  <2> QED BY <1>1, <2>1, KnownServe, KnownFail DEF Fault
<1>2. CASE UNCHANGED vars
  BY <1>2 DEF vars, callerVars, bucketVars, discordVars, Known, KnownLeft, At
<1>3. ASSUME NEW c \in Callers, Serve(c, FALSE) PROVE Known'
  BY <1>3, KnownServe
<1> QED
  BY <1>1, <1>2, <1>3, KnownRequest, KnownLock, KnownSend, KnownReturn, KnownAgain, KnownTick
  DEF Next, Step

\* Discord refuses no request of a bucket whose last answer was read: the wait
\* worked out at the lock (ratelimit.go:58) is still right when the request is
\* sent, for any callers, limits and windows.
THEOREM NoneRefused == Spec => []NeverRefused
<1>1. Init => Known
  BY DEF Init, Known, KnownLeft, At
<1>2. RInv /\ Known => NeverRefused
  BY DEF RInv, Types, Locks, Known, KnownLeft, At, NeverRefused
<1> QED BY <1>1, <1>2, KnownNext, RInvAlways, PTL DEF Spec
----------------------------------------------------------------------------------------
\* No longer than a window and the tick its end is rounded up by, the global limit
\* or the custom one.
Within(n) == n <= Window + 1 \/ n <= GlobalWindow \/ n <= CustomReset

\* What waits are worked out from.
Short(a) ==
    /\ a.status \in {"ok", "refused"} => a.reset <= Window
    /\ a.status = "stopped" => a.reset <= GlobalWindow

Bounded ==
    /\ \A b \in Buckets : Within(reset[b])
    /\ global <= GlobalWindow
    /\ \A c \in Callers : Within(timer[c]) /\ Short(answer[c])

\* Nobody sleeps longer than that, and whoever waits for a bucket waits for
\* somebody who sleeps, is out or reads an answer, and so for no lock himself.
WaitsEnd ==
    \A c \in Callers :
        /\ pc[c] \in {"sleep", "again"} => Within(timer[c])
        /\ pc[c] = "lock" /\ holder[bucket[c]] # None =>
              \E d \in Callers \ {c} : At(d, bucket[c], "sleep") \/ At(d, bucket[c], "out")
                                       \/ At(d, bucket[c], "back")

\* A sleep that began is not made longer.
SleepOnce ==
    \A c \in Callers : pc[c] \in {"sleep", "again"} /\ pc'[c] = pc[c] => timer'[c] <= timer[c]

LEMMA BoundedInit == Init => Bounded
  BY Constants DEF Init, Bounded, Within, Short, NoAnswer

LEMMA BoundedLock ==
    ASSUME RInv, Bounded, NEW c \in Callers, Lock(c)
    PROVE  Bounded'
<1>1. /\ bucket[c] \in Buckets /\ timer' = [timer EXCEPT ![c] = GetWaitTime(bucket[c])]
      /\ UNCHANGED <<answer, reset, global>>
  BY DEF Lock, RInv, Types, Locks
<1>2. Within(GetWaitTime(bucket[c]))
  BY <1>1 DEF GetWaitTime, Bounded, Within
<1> QED BY <1>1, <1>2 DEF Bounded, RInv, Types, Within, Short

LEMMA BoundedReturn ==
    ASSUME RInv, Bounded, NEW c \in Callers, Return(c)
    PROVE  Bounded'
<1> DEFINE b == bucket[c]
           a == answer[c]
<1>1. /\ b \in Buckets /\ Release(b, a) /\ answer' = [answer EXCEPT ![c] = NoAnswer]
      /\ \/ UNCHANGED timer
         \/ a.status \in {"refused", "stopped"} /\ timer' = [timer EXCEPT ![c] = a.reset]
  BY DEF Return, RInv, Types, Locks
<1>2. /\ a \in Answer /\ a.reset \in Nat /\ Short(a) /\ Short(NoAnswer)
      /\ reset \in [Buckets -> Nat] /\ global \in Nat /\ timer \in [Callers -> Nat]
      /\ answer \in [Callers -> Answer]
  BY DEF RInv, Types, Answer, Bounded, Short, NoAnswer
<1> HIDE DEF a, b
<1>3. \A x \in Callers : Within(timer'[x]) /\ Short(answer'[x])
  <2>1. a.status \in {"refused", "stopped"} => Within(a.reset)
    BY <1>2, Constants DEF Short, Within
  <2>2. \A x \in Callers : Short(answer'[x])
    BY <1>1, <1>2 DEF Bounded
  <2>3. \A x \in Callers : Within(timer'[x])
    BY <1>1, <1>2, <2>1 DEF Bounded
  <2> QED BY <2>2, <2>3
<1>4. global' <= GlobalWindow /\ \A x \in Buckets : Within(reset'[x])
  <2>1. CASE b \in Custom
    <3>1. Within(CustomReset)
      BY Constants DEF Within
    <3>2. global' = global /\ (reset' = reset \/ reset' = [reset EXCEPT ![b] = CustomReset])
      BY <1>1, <2>1 DEF Release, CustomRelease
    <3> QED BY <1>2, <3>1, <3>2 DEF Bounded
  <2>2. CASE b \notin Custom /\ a.status \in {"ok", "refused"}
    <3>1. PICK late \in 0..1 : reset' = [reset EXCEPT ![b] = a.reset + late]
      BY <1>1, <2>2 DEF Release, HeaderRelease
    <3>2. Within(a.reset + late) /\ global' = global
      BY <1>1, <1>2, <2>2, Constants DEF Release, HeaderRelease, Short, Within
    <3> QED BY <1>2, <3>1, <3>2 DEF Bounded
  <2>3. CASE b \notin Custom /\ a.status = "stopped"
    BY <1>1, <1>2, <2>3 DEF Release, HeaderRelease, Short, Bounded
  <2>4. CASE b \notin Custom /\ a.status \notin {"ok", "refused", "stopped"}
    BY <1>1, <2>4 DEF Release, HeaderRelease, Bounded
  <2> QED BY <2>1, <2>2, <2>3, <2>4
<1> QED BY <1>3, <1>4 DEF Bounded, Short, Within

LEMMA BoundedServe ==
    ASSUME RInv, Bounded, NEW c \in Callers, NEW lost \in BOOLEAN, Serve(c, lost)
    PROVE  Bounded'
<1>1. /\ bucket[c] \in Buckets /\ UNCHANGED <<timer, reset, global>>
      /\ answer' = [answer EXCEPT ![c] = IF lost THEN NoAnswer ELSE Verdict(bucket[c])]
  BY DEF Serve, RInv, Types, Locks, bucketVars
<1>2. Short(NoAnswer) /\ Short(Verdict(bucket[c]))
  <2>1. window[bucket[c]] \in 0..Window /\ allStop \in 0..GlobalWindow
    BY <1>1 DEF RInv, Types
  <2> QED BY <2>1, Constants DEF Short, NoAnswer, Verdict
<1> QED BY <1>1, <1>2 DEF Bounded, RInv, Types, Short, Within

LEMMA BoundedTick ==
    ASSUME RInv, Bounded, Tick
    PROVE  Bounded' /\ \A c \in Callers : timer'[c] <= timer[c]
<1> DEFINE down(n) == IF n = 0 THEN 0 ELSE n - 1
<1>1. /\ \A c \in Callers : timer'[c] = down(timer[c])
      /\ \A b \in Buckets : reset'[b] = down(reset[b])
      /\ global' = down(global) /\ answer' = answer
  BY DEF Tick
<1>2. \A n \in Nat : down(n) \in Nat /\ down(n) <= n
  OBVIOUS
<1> HIDE DEF down
<1>3. \A n \in Nat : Within(n) => Within(down(n))
  <2> SUFFICES ASSUME NEW n \in Nat, Within(n) PROVE Within(down(n))
    OBVIOUS
  <2> QED BY <1>2, Constants DEF Within
<1>4. \A c \in Callers : timer'[c] <= timer[c] /\ Within(timer'[c])
  BY <1>1, <1>2, <1>3 DEF Bounded, RInv, Types
<1>5. \A b \in Buckets : Within(reset'[b])
  BY <1>1, <1>3 DEF Bounded, RInv, Types
<1>6. global' <= GlobalWindow
  BY <1>1, <1>2, Constants DEF Bounded, RInv, Types
<1>7. \A c \in Callers : Short(answer[c])
  BY DEF Bounded
<1> QED BY <1>1, <1>4, <1>5, <1>6, <1>7 DEF Bounded, Short, Within

LEMMA BoundedNext == RInv /\ Bounded /\ [Next]_vars => Bounded' /\ [SleepOnce]_vars
<1> SUFFICES ASSUME RInv, Bounded, [Next]_vars PROVE Bounded' /\ SleepOnce
  OBVIOUS
<1> USE DEF SleepOnce
<1>1. ASSUME NEW c \in Callers, NEW b \in Buckets, Request(c, b) PROVE Bounded' /\ SleepOnce
  BY <1>1 DEF Request, bucketVars, Bounded, Short, Within, RInv, Types
<1>2. ASSUME NEW c \in Callers, Lock(c) PROVE Bounded' /\ SleepOnce
  <2>1. Bounded'
    BY <1>2, BoundedLock
  <2>2. SleepOnce
    BY <1>2 DEF Lock, RInv, Types
  <2> QED BY <2>1, <2>2
<1>3. ASSUME NEW c \in Callers, Send(c) \/ Again(c) PROVE Bounded' /\ SleepOnce
  BY <1>3 DEF Send, Again, bucketVars, Bounded, Short, Within, RInv, Types
<1>4. ASSUME NEW c \in Callers, Return(c) PROVE Bounded' /\ SleepOnce
  <2>1. Bounded'
    BY <1>4, BoundedReturn
  <2>2. SleepOnce
    BY <1>4 DEF Return, RInv, Types
  <2> QED BY <2>1, <2>2
<1>5. ASSUME NEW c \in Callers, NEW lost \in BOOLEAN, Serve(c, lost) PROVE Bounded' /\ SleepOnce
  <2>1. Bounded'
    BY <1>5, BoundedServe
  <2>2. SleepOnce
    BY <1>5 DEF Serve, RInv, Types
  <2> QED BY <2>1, <2>2
<1>6. ASSUME NEW c \in Callers, NEW s \in {"lost", "502"}, Fail(c, s) PROVE Bounded' /\ SleepOnce
  <2>1. answer' = [answer EXCEPT ![c] = [NoAnswer EXCEPT !.status = s]] /\ UNCHANGED <<timer, reset, global>>
    BY <1>6 DEF Fail, bucketVars
  <2>2. Short([NoAnswer EXCEPT !.status = s])
    BY DEF NoAnswer, Short
  <2>3. Bounded'
    BY <2>1, <2>2 DEF Bounded, Within, Short, RInv, Types
  <2> QED BY <2>1, <2>3 DEF RInv, Types
<1>7. CASE StopAll
  BY <1>7 DEF StopAll, callerVars, bucketVars, Bounded, Short, Within, RInv, Types
<1>8. CASE Tick
  BY <1>8, BoundedTick
<1>9. CASE UNCHANGED vars
  BY <1>9 DEF vars, callerVars, bucketVars, Bounded, Short, Within, RInv, Types
<1> QED
  BY <1>1, <1>2, <1>3, <1>4, <1>5, <1>6, <1>7, <1>8, <1>9 DEF Next, Step, Fault

\* A request that is held back is not held back for long at a time: no wait is
\* longer than a limit of Discord's or the bot's own, it is worked out once
\* (ratelimit.go:98, restapi.go:290), and the lock of a bucket is never waited for behind
\* somebody who waits for another, however callers, faults and limits meet.
THEOREM WaitsAlwaysEnd == Spec => []WaitsEnd /\ [][SleepOnce]_vars
<1>1. RInv /\ Bounded => WaitsEnd
  <2> SUFFICES ASSUME RInv, Bounded, NEW c \in Callers
               PROVE  /\ Within(timer[c])
                      /\ pc[c] = "lock" /\ holder[bucket[c]] # None =>
                            \E d \in Callers \ {c} : \/ At(d, bucket[c], "sleep") \/ At(d, bucket[c], "out")
                                                     \/ At(d, bucket[c], "back")
    BY DEF WaitsEnd
  <2>1. ASSUME pc[c] = "lock", holder[bucket[c]] # None
        PROVE  \E d \in Callers \ {c} : \/ At(d, bucket[c], "sleep") \/ At(d, bucket[c], "out")
                                        \/ At(d, bucket[c], "back")
    <3>1. bucket[c] \in Buckets
      BY <2>1 DEF RInv, Types, Locks
    <3>2. PICK d \in Callers : holder[bucket[c]] = d
      BY <2>1, <3>1 DEF RInv, Types
    <3>3. bucket[d] = bucket[c] /\ pc[d] \in {"sleep", "out", "back"}
      BY <3>1, <3>2 DEF RInv, Locks, Held
    <3> QED BY <2>1, <3>3 DEF At
  <2> QED BY <2>1 DEF Bounded
<1> QED BY <1>1, BoundedInit, BoundedNext, RInvAlways, PTL DEF Spec
========================================================================================

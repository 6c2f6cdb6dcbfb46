------------------------------- MODULE ServicesProofs -------------------------------
(***************************************************************************)
(* What the small services of the program promise, for any number of       *)
(* pages, callers, goroutines, applications and uploads: the log stream,   *)
(* bans, the walk through the list of groups, short links, the upload      *)
(* server and the websocket server.  Each has its own inductive invariant. *)
(***************************************************************************)
EXTENDS LogStream, BanTimers, GroupList, ShortUrl, Uploads, WsServer,
        FiniteSetTheorems, SequenceTheorems, WellFoundedInduction, TLAPS

\* A set of numbers has a least one.
LEMMA Least ==
    ASSUME NEW T, T \subseteq Nat, T # {}
    PROVE  \E k \in T : \A l \in T : k <= l
<1> DEFINE R == {ss \in Nat \X Nat : ss[1] < ss[2]}
<1>1. IsWellFoundedOn(R, Nat)
  BY NatLessThanWellFounded DEF OpToRel
<1>2. \E k \in T : \A l \in T : <<l, k>> \notin R
  BY <1>1, WFMin
<1>3. \A k, l \in T : <<l, k>> \notin R => k <= l
  <2> SUFFICES ASSUME NEW k \in T, NEW l \in T, l < k PROVE <<l, k>> \in R
    OBVIOUS
  <2> QED OBVIOUS
<1> QED BY <1>2, <1>3

-------------------------------------------------------------------------------------
\* The log stream.

LogSpec == LogInit /\ [][LogNext]_logVars

LogTypeOK ==
    /\ logged \in Nat /\ logChannel \in Seq(Nat) /\ wsClients \subseteq Pages
    /\ link \in [Pages -> {"none", "up", "down"}]
    /\ writePump \in [Pages -> [at : {"none", "waiting", "ended"}] \cup [at : {"writing"}, entry : Nat]]
    /\ distributor \in [Pages -> [at : {"none", "idle"}] \cup [at : {"took"}, entry : Nat]
                                   \cup [at : {"ranging"}, entry : Nat, left : SUBSET Pages]]
    /\ shown \in [Pages -> Seq(Nat)]

\* The entries a distributor holds, will still offer to a page, and the page's
\* pump is writing.
Holds(d) == distributor[d].at \in {"took", "ranging"}
Coming(d, p) ==
    \/ distributor[d].at = "took"
    \/ distributor[d].at = "ranging" /\ p \in distributor[d].left
Pumping(p) == writePump[p].at = "writing"
Held(d) == distributor[d].entry
Pumped(p) == writePump[p].entry

\* The channel is in order, and what was ever taken off it comes before what is
\* still in it.
Queued ==
    /\ \A i \in 1..Len(logChannel) : logChannel[i] \in 1..logged
    /\ \A i, j \in 1..Len(logChannel) : i < j => logChannel[i] < logChannel[j]
Past(n, q, l) == n \in 1..l /\ \A i \in 1..Len(q) : n < q[i]

HeldOnce ==
    /\ \A d \in Pages : Holds(d) => Past(Held(d), logChannel, logged)
    /\ \A d, f \in Pages : Holds(d) /\ Holds(f) /\ Held(d) = Held(f) => d = f

\* Of what a page was shown, is written and will be offered, nothing twice.
PageOnce(p) ==
    /\ \A i, j \in 1..Len(shown[p]) : shown[p][i] = shown[p][j] => i = j
    /\ \A i \in 1..Len(shown[p]) : Past(shown[p][i], logChannel, logged)
    /\ Pumping(p) => /\ Past(Pumped(p), logChannel, logged)
                     /\ \A i \in 1..Len(shown[p]) : shown[p][i] # Pumped(p)
    /\ \A d \in Pages : Coming(d, p) =>
          /\ \A i \in 1..Len(shown[p]) : shown[p][i] # Held(d)
          /\ Pumping(p) => Pumped(p) # Held(d)

\* And in this order, at the only page there ever was.
Alone(p) == \A q \in Pages \ {p} : link[q] = "none"
InOrder(p) ==
    Alone(p) =>
        /\ \A i, j \in 1..Len(shown[p]) : i < j => shown[p][i] < shown[p][j]
        /\ Pumping(p) => \A i \in 1..Len(shown[p]) : shown[p][i] < Pumped(p)
        /\ Coming(p, p) =>
              /\ \A i \in 1..Len(shown[p]) : shown[p][i] < Held(p)
              /\ Pumping(p) => Pumped(p) < Held(p)

Met == {p \in Pages : link[p] # "none"}
Unopened ==
    /\ IsFiniteSet(Met)
    /\ \A p \in Pages : link[p] = "none" =>
          distributor[p].at = "none" /\ writePump[p].at = "none" /\ shown[p] = << >>

LogInv == LogTypeOK /\ Queued /\ HeldOnce /\ Unopened /\ \A p \in Pages : PageOnce(p) /\ InOrder(p)
\* What the place of a distributor says of the rest of it.
LEMMA Distributors ==
    ASSUME LogTypeOK, NEW d \in Pages
    PROVE  /\ distributor[d].at \in {"none", "idle", "took", "ranging"}
           /\ Holds(d) => Held(d) \in Nat
           /\ distributor[d].at = "ranging" =>
                /\ distributor[d].left \subseteq Pages
                /\ distributor[d] = [at |-> "ranging", entry |-> Held(d), left |-> distributor[d].left]
<1>1. distributor[d] \in [at : {"none", "idle"}] \cup [at : {"took"}, entry : Nat]
                            \cup [at : {"ranging"}, entry : Nat, left : SUBSET Pages]
  BY DEF LogTypeOK
<1>2. CASE distributor[d] \in [at : {"none", "idle"}]
  BY <1>2 DEF Holds
<1>3. CASE distributor[d] \in [at : {"took"}, entry : Nat]
  BY <1>3 DEF Holds, Held
<1>4. CASE distributor[d] \in [at : {"ranging"}, entry : Nat, left : SUBSET Pages]
  BY <1>4 DEF Holds, Held
<1> QED BY <1>1, <1>2, <1>3, <1>4

LEMMA Pumps ==
    ASSUME LogTypeOK, NEW p \in Pages
    PROVE  Pumping(p) => Pumped(p) \in Nat
<1>1. writePump[p] \in [at : {"none", "waiting", "ended"}] \cup [at : {"writing"}, entry : Nat]
  BY DEF LogTypeOK
<1>2. CASE writePump[p] \in [at : {"none", "waiting", "ended"}]
  BY <1>2 DEF Pumping
<1>3. CASE writePump[p] \in [at : {"writing"}, entry : Nat]
  BY <1>3 DEF Pumped
<1> QED BY <1>1, <1>2, <1>3

\* A step that takes nothing off the channel, offers nothing and shows nothing.
LEMMA Quieter ==
    ASSUME LogInv, LogTypeOK', UNCHANGED <<logged, logChannel, shown>>,
           \A d \in Pages : Holds(d)' => Holds(d) /\ Held(d)' = Held(d),
           \A d, p \in Pages : Coming(d, p)' => Coming(d, p) /\ Held(d)' = Held(d),
           \A p \in Pages : Pumping(p)' => Pumping(p) /\ Pumped(p)' = Pumped(p),
           \A p \in Pages : link'[p] = "none" => link[p] = "none",
           Unopened'
    PROVE  LogInv'
<1>1. Queued'
  BY DEF LogInv, Queued
<1>2. \A n : Past(n, logChannel, logged) => Past(n, logChannel', logged')
  BY DEF Past
<1>3. HeldOnce'
  <2>1. ASSUME NEW d \in Pages, Holds(d)' PROVE Past(Held(d)', logChannel', logged')
    <3>1. Past(Held(d), logChannel, logged) /\ Held(d)' = Held(d)
      BY <2>1 DEF LogInv, HeldOnce
    <3> QED BY <3>1 DEF Past
  <2>2. ASSUME NEW d \in Pages, NEW f \in Pages, Holds(d)', Holds(f)', Held(d)' = Held(f)'
        PROVE  d = f
    BY <2>2 DEF LogInv, HeldOnce
  <2> QED BY <2>1, <2>2 DEF HeldOnce
<1>4. ASSUME NEW p \in Pages PROVE PageOnce(p)'
  BY <1>2 DEF LogInv, PageOnce, Past
<1>5. ASSUME NEW p \in Pages PROVE InOrder(p)'
  <2>1. Alone(p)' => Alone(p)
    BY DEF Alone
  <2>2. InOrder(p)
    BY DEF LogInv
  <2> QED BY <2>1, <2>2 DEF InOrder
<1> QED BY <1>1, <1>3, <1>4, <1>5 DEF LogInv

LEMMA LogStep ==
    ASSUME LogInv, [LogNext]_logVars
    PROVE  LogInv'
<1>t. LogTypeOK /\ Queued /\ HeldOnce /\ Unopened /\ \A p \in Pages : PageOnce(p) /\ InOrder(p)
  BY DEF LogInv
<1>c. logChannel \in Seq(Nat) /\ Len(logChannel) \in Nat /\ logged \in Nat
  BY <1>t DEF LogTypeOK
<1>s. \A p \in Pages : shown[p] \in Seq(Nat) /\ Len(shown[p]) \in Nat
  BY <1>t DEF LogTypeOK
<1>1. CASE emitLog
  <2>1. logged' = logged + 1 /\ UNCHANGED <<wsClients, link, writePump, readPump, distributor, shown>>
    BY <1>1 DEF emitLog
  <2>2. /\ logChannel' \in Seq(Nat)
        /\ \A i \in 1..Len(logChannel') :
              \/ i \in 1..Len(logChannel) /\ logChannel'[i] = logChannel[i]
              \/ i > Len(logChannel) /\ i = Len(logChannel') /\ logChannel'[i] = logged + 1
    <3>1. CASE Len(logChannel) < Capacity
      <4>1. logChannel' = Append(logChannel, logged + 1) /\ logged + 1 \in Nat
        BY <1>1, <1>c, <2>1, <3>1 DEF emitLog
      <4> QED BY <1>c, <4>1, AppendProperties
    <3>2. CASE ~(Len(logChannel) < Capacity)
      BY <1>1, <1>c, <3>2 DEF emitLog
    <3> QED BY <3>1, <3>2
  <2>3. LogTypeOK'
    BY <1>t, <1>c, <2>1, <2>2 DEF LogTypeOK
  <2>4. Queued'
    <3> SUFFICES ASSUME NEW i \in 1..Len(logChannel')
                 PROVE  /\ logChannel'[i] \in 1..logged'
                        /\ \A j \in 1..Len(logChannel') : i < j => logChannel'[i] < logChannel'[j]
      BY DEF Queued
    <3>0. Len(logChannel') \in Nat
      BY <2>2
    <3>1. logChannel'[i] \in 1..logged'
      <4>1. CASE i \in 1..Len(logChannel) /\ logChannel'[i] = logChannel[i]
        <5>1. logChannel[i] \in 1..logged
          BY <1>t, <4>1 DEF Queued
        <5> QED BY <1>c, <2>1, <4>1, <5>1
      <4>2. CASE logChannel'[i] = logged + 1
        BY <1>c, <2>1, <4>2
      <4> QED BY <2>2, <4>1, <4>2
    <3>2. ASSUME NEW j \in 1..Len(logChannel'), i < j PROVE logChannel'[i] < logChannel'[j]
      <4>1. i \in 1..Len(logChannel) /\ logChannel'[i] = logChannel[i]
        BY <1>c, <2>2, <3>0, <3>2
      <4>2. logChannel[i] \in 1..logged
        BY <1>t, <4>1 DEF Queued
      <4>3. CASE j \in 1..Len(logChannel) /\ logChannel'[j] = logChannel[j]
        BY <1>t, <3>2, <4>1, <4>3 DEF Queued
      <4>4. CASE logChannel'[j] = logged + 1
        BY <1>c, <4>1, <4>2, <4>4
      <4> QED BY <2>2, <4>3, <4>4
    <3> QED BY <3>1, <3>2
  <2>5. ASSUME NEW n, Past(n, logChannel, logged) PROVE Past(n, logChannel', logged')
    <3>1. n \in 1..logged /\ \A i \in 1..Len(logChannel) : n < logChannel[i]
      BY <2>5 DEF Past
    <3>2. n \in 1..logged' /\ n < logged + 1
      BY <1>c, <2>1, <3>1
    <3>3. \A i \in 1..Len(logChannel') : n < logChannel'[i]
      BY <2>2, <3>1, <3>2
    <3> QED BY <3>2, <3>3 DEF Past
  <2>6. HeldOnce' /\ Unopened' /\ \A p \in Pages : PageOnce(p)' /\ InOrder(p)'
    <3>1. HeldOnce'
      <4>1. \A d \in Pages : (Holds(d)' <=> Holds(d)) /\ Held(d)' = Held(d)
        BY <2>1 DEF Holds, Held
      <4>2. \A d \in Pages : Holds(d)' => Past(Held(d)', logChannel', logged')
        BY <1>t, <2>5, <4>1 DEF HeldOnce
      <4> QED BY <1>t, <4>1, <4>2 DEF HeldOnce
    <3>2. Unopened'
      BY <1>t, <2>1 DEF Unopened, Met
    <3>3. \A p \in Pages : InOrder(p)'
      BY <1>t, <2>1 DEF InOrder, Alone, Pumping, Pumped, Coming, Held
    <3>4. ASSUME NEW p \in Pages PROVE PageOnce(p)'
      <4>1. PageOnce(p)
        BY <1>t
      <4>2. /\ \A i \in 1..Len(shown[p]) : Past(shown[p][i], logChannel', logged')
            /\ Pumping(p) => Past(Pumped(p), logChannel', logged')
        BY <2>5, <4>1 DEF PageOnce
      <4> QED BY <2>1, <4>1, <4>2 DEF PageOnce, Pumping, Pumped, Coming, Held, Past
    <3> QED BY <3>1, <3>2, <3>3, <3>4
  <2> QED BY <2>3, <2>4, <2>6 DEF LogInv
<1>2. ASSUME NEW p \in Pages, WsHandler(p) PROVE LogInv'
  <2>1. /\ link[p] = "none" /\ link' = [link EXCEPT ![p] = "up"]
        /\ writePump' = [writePump EXCEPT ![p] = [at |-> "waiting"]]
        /\ distributor' = [distributor EXCEPT ![p] = [at |-> "idle"]]
        /\ wsClients' = wsClients \cup {p} /\ UNCHANGED <<logged, logChannel, shown>>
    BY <1>2 DEF WsHandler, Waiting, Idle
  <2>2. LogTypeOK'
    BY <1>t, <2>1 DEF LogTypeOK
  <2>3. \A q \in Pages \ {p} : /\ link'[q] = link[q] /\ writePump'[q] = writePump[q]
                              /\ distributor'[q] = distributor[q]
    BY <1>t, <2>1 DEF LogTypeOK
  <2>4. /\ link'[p] = "up" /\ writePump'[p] = [at |-> "waiting"] /\ distributor'[p] = [at |-> "idle"]
    BY <1>t, <2>1 DEF LogTypeOK
  <2>5. Unopened'
    <3>1. Met' = Met \cup {p}
      BY <2>3, <2>4 DEF Met
    <3>2. IsFiniteSet(Met')
      BY <1>t, <3>1, FS_AddElement DEF Unopened
    <3> QED BY <1>t, <2>1, <2>3, <2>4, <3>2 DEF Unopened
  <2>6. \A d \in Pages : (Holds(d)' => Holds(d)) /\ (Holds(d)' => Held(d)' = Held(d))
    BY <2>3, <2>4 DEF Holds, Held
  <2>7. \A d, q \in Pages : Coming(d, q)' => Coming(d, q) /\ Held(d)' = Held(d)
    BY <2>3, <2>4 DEF Coming, Held
  <2>8. \A q \in Pages : Pumping(q)' => Pumping(q) /\ Pumped(q)' = Pumped(q)
    BY <2>3, <2>4 DEF Pumping, Pumped
  <2>9. \A q \in Pages : link'[q] = "none" => link[q] = "none"
    BY <2>3, <2>4
  <2> QED BY <2>1, <2>2, <2>5, <2>6, <2>7, <2>8, <2>9, Quieter
<1>3. ASSUME NEW d \in Pages, Take(d) PROVE LogInv'
  <2> DEFINE n == Head(logChannel)
  <2>1. /\ distributor[d].at = "idle" /\ logChannel # << >>
        /\ distributor' = [distributor EXCEPT ![d] = [at |-> "took", entry |-> n]]
        /\ logChannel' = Tail(logChannel)
        /\ UNCHANGED <<logged, wsClients, link, writePump, readPump, shown>>
    BY <1>3 DEF Take, Idle
  <2>2. /\ n = logChannel[1] /\ 1 \in 1..Len(logChannel) /\ n \in Nat
        /\ logChannel' \in Seq(Nat) /\ Len(logChannel') = Len(logChannel) - 1
        /\ \A i \in 1..Len(logChannel') : logChannel'[i] = logChannel[i + 1]
    BY <1>c, <2>1, HeadTailProperties
  <2> HIDE DEF n
  <2>3. LogTypeOK'
    BY <1>t, <2>1, <2>2 DEF LogTypeOK
  <2>4. \A i \in 1..Len(logChannel') : i + 1 \in 1..Len(logChannel) /\ n < logChannel'[i]
    <3> SUFFICES ASSUME NEW i \in 1..Len(logChannel')
                 PROVE  i + 1 \in 1..Len(logChannel) /\ n < logChannel'[i]
      OBVIOUS
    <3>1. i + 1 \in 1..Len(logChannel) /\ 1 < i + 1
      BY <1>c, <2>2
    <3> QED BY <1>t, <2>2, <3>1 DEF Queued
  <2>5. Queued'
    <3>1. \A i \in 1..Len(logChannel') : logChannel'[i] \in 1..logged'
      BY <1>t, <2>1, <2>2, <2>4 DEF Queued
    <3>2. ASSUME NEW i \in 1..Len(logChannel'), NEW j \in 1..Len(logChannel'), i < j
          PROVE  logChannel'[i] < logChannel'[j]
      <4>1. i + 1 < j + 1
        BY <3>2
      <4> QED BY <1>t, <2>2, <2>4, <4>1 DEF Queued
    <3> QED BY <3>1, <3>2 DEF Queued
  <2>6. ASSUME NEW m, Past(m, logChannel, logged) PROVE Past(m, logChannel', logged') /\ m < n /\ m \in Nat
    BY <1>c, <2>1, <2>2, <2>4, <2>6 DEF Past
  <2>7. Past(n, logChannel', logged')
    BY <1>t, <1>c, <2>1, <2>2, <2>4 DEF Past, Queued
  <2>8. \A f \in Pages \ {d} : distributor'[f] = distributor[f]
    BY <1>t, <2>1 DEF LogTypeOK
  <2>9. distributor'[d] = [at |-> "took", entry |-> n]
    BY <1>t, <2>1 DEF LogTypeOK
  <2>10. HeldOnce'
    <3>1. ASSUME NEW f \in Pages, Holds(f)' PROVE Past(Held(f)', logChannel', logged') /\ (f # d => Held(f)' < n)
      <4>1. CASE f = d
        BY <2>7, <2>9, <4>1 DEF Held
      <4>2. CASE f # d
        <5>1. Holds(f) /\ Held(f)' = Held(f)
          BY <2>8, <3>1, <4>2 DEF Holds, Held
        <5> QED BY <1>t, <2>6, <4>2, <5>1 DEF HeldOnce
      <4> QED BY <4>1, <4>2
    <3>2. ASSUME NEW f \in Pages, NEW g \in Pages, Holds(f)', Holds(g)', Held(f)' = Held(g)'
          PROVE  f = g
      <4>1. Held(d)' = n
        BY <2>9 DEF Held
      <4>2. f = d <=> g = d
        BY <2>2, <3>1, <3>2, <4>1
      <4>3. CASE f # d /\ g # d
        BY <1>t, <2>8, <3>2, <4>3 DEF HeldOnce, Holds, Held
      <4> QED BY <4>2, <4>3
    <3> QED BY <3>1, <3>2 DEF HeldOnce
  <2>11. Unopened'
    BY <1>t, <2>1, <2>8 DEF Unopened, Met
  <2>12. ASSUME NEW p \in Pages PROVE PageOnce(p)' /\ InOrder(p)'
    <3>1. PageOnce(p) /\ InOrder(p)
      BY <1>t
    <3>2. /\ (Pumping(p)' <=> Pumping(p)) /\ Pumped(p)' = Pumped(p) /\ shown' = shown
          /\ (Alone(p)' <=> Alone(p))
      BY <2>1 DEF Pumping, Pumped, Alone
    <3>3. \A i \in 1..Len(shown[p]) : Past(shown[p][i], logChannel', logged') /\ shown[p][i] < n /\ shown[p][i] \in Nat
      BY <2>6, <3>1 DEF PageOnce
    <3>4. Pumping(p) => Past(Pumped(p), logChannel', logged') /\ Pumped(p) < n /\ Pumped(p) \in Nat
      BY <2>6, <3>1 DEF PageOnce
    <3>5. \A f \in Pages : Coming(f, p)' => (f = d /\ Held(f)' = n) \/ (Coming(f, p) /\ Held(f)' = Held(f))
      BY <2>8, <2>9 DEF Coming, Held
    <3>6. PageOnce(p)'
      <4>1. ASSUME NEW f \in Pages, Coming(f, p)'
            PROVE  /\ \A i \in 1..Len(shown[p]) : shown[p][i] # Held(f)'
                   /\ Pumping(p) => Pumped(p) # Held(f)'
        <5>1. CASE f = d /\ Held(f)' = n
          BY <2>2, <3>3, <3>4, <5>1
        <5>2. CASE Coming(f, p) /\ Held(f)' = Held(f)
          BY <3>1, <5>2 DEF PageOnce
        <5> QED BY <3>5, <4>1, <5>1, <5>2
      <4>2. Pumping(p)' => Past(Pumped(p)', logChannel', logged')
        BY <3>2, <3>4
      <4> QED BY <3>1, <3>2, <3>3, <4>1, <4>2 DEF PageOnce
    <3>7. InOrder(p)'
      <4> SUFFICES ASSUME Alone(p)
                   PROVE  Coming(p, p)' => /\ \A i \in 1..Len(shown[p]) : shown[p][i] < Held(p)'
                                           /\ Pumping(p) => Pumped(p) < Held(p)'
        BY <3>1, <3>2 DEF InOrder
      <4>1. CASE p = d /\ Held(p)' = n
        BY <3>3, <3>4, <4>1
      <4>2. CASE Coming(p, p) /\ Held(p)' = Held(p)
        BY <3>1, <4>2 DEF InOrder
      <4> QED BY <3>5, <4>1, <4>2
    <3> QED BY <3>6, <3>7
  <2> QED BY <2>3, <2>5, <2>10, <2>11, <2>12 DEF LogInv
<1>4. ASSUME NEW d \in Pages, RLock(d) PROVE LogInv'
  <2>1. /\ distributor[d].at = "took"
        /\ distributor' = [distributor EXCEPT ![d] = [at |-> "ranging", entry |-> Held(d), left |-> wsClients]]
        /\ UNCHANGED <<logged, logChannel, wsClients, link, writePump, readPump, shown>>
    BY <1>4 DEF RLock, Held
  <2>2. Held(d) \in Nat
    BY <1>t, <2>1, Distributors DEF Holds
  <2>3. LogTypeOK'
    BY <1>t, <2>1, <2>2 DEF LogTypeOK
  <2>4. /\ distributor'[d] = [at |-> "ranging", entry |-> Held(d), left |-> wsClients]
        /\ \A f \in Pages \ {d} : distributor'[f] = distributor[f]
    BY <1>t, <2>1 DEF LogTypeOK
  <2>5. \A f \in Pages : Holds(f)' => Holds(f) /\ Held(f)' = Held(f)
    BY <2>1, <2>4 DEF Holds, Held
  <2>6. \A f, q \in Pages : Coming(f, q)' => Coming(f, q) /\ Held(f)' = Held(f)
    BY <2>1, <2>4 DEF Coming, Held
  <2>7. \A q \in Pages : Pumping(q)' => Pumping(q) /\ Pumped(q)' = Pumped(q)
    BY <2>1 DEF Pumping, Pumped
  <2>8. Unopened'
    BY <1>t, <2>1, <2>4 DEF Unopened, Met
  <2> QED BY <2>1, <2>3, <2>5, <2>6, <2>7, <2>8, Quieter
<1>5. ASSUME NEW d \in Pages, RUnlock(d) PROVE LogInv'
  <2>1. /\ distributor[d].at = "ranging"
        /\ distributor' = [distributor EXCEPT ![d] = [at |-> "idle"]]
        /\ UNCHANGED <<logged, logChannel, wsClients, link, writePump, readPump, shown>>
    BY <1>5 DEF RUnlock, Idle
  <2>2. LogTypeOK'
    BY <1>t, <2>1 DEF LogTypeOK
  <2>3. /\ distributor'[d] = [at |-> "idle"]
        /\ \A f \in Pages \ {d} : distributor'[f] = distributor[f]
    BY <1>t, <2>1 DEF LogTypeOK
  <2>4. \A f \in Pages : Holds(f)' => Holds(f) /\ Held(f)' = Held(f)
    BY <2>3 DEF Holds, Held
  <2>5. \A f, q \in Pages : Coming(f, q)' => Coming(f, q) /\ Held(f)' = Held(f)
    BY <2>3 DEF Coming, Held
  <2>6. \A q \in Pages : Pumping(q)' => Pumping(q) /\ Pumped(q)' = Pumped(q)
    BY <2>1 DEF Pumping, Pumped
  <2>7. Unopened'
    BY <1>t, <2>1, <2>3 DEF Unopened, Met
  <2> QED BY <2>1, <2>2, <2>4, <2>5, <2>6, <2>7, Quieter
<1>6. ASSUME NEW d \in Pages, NEW p \in Pages, Offer(d, p) PROVE LogInv'
  <2>1. /\ distributor[d].at = "ranging" /\ p \in distributor[d].left
        /\ distributor' = [distributor EXCEPT ![d].left = @ \ {p}]
        /\ writePump' = IF writePump[p] = Waiting
                         THEN [writePump EXCEPT ![p] = [at |-> "writing", entry |-> Held(d)]] ELSE writePump
        /\ UNCHANGED <<logged, logChannel, wsClients, link, readPump, shown>>
    BY <1>6 DEF Offer, Writing, Held
  <2>2. /\ Held(d) \in Nat /\ distributor[d].left \subseteq Pages /\ Holds(d)
        /\ distributor[d] = [at |-> "ranging", entry |-> Held(d), left |-> distributor[d].left]
    BY <1>t, <2>1, Distributors DEF Holds
  <2>3. distributor' = [distributor EXCEPT ![d] = [at |-> "ranging", entry |-> Held(d),
                                                   left |-> distributor[d].left \ {p}]]
    <3>1. [distributor[d] EXCEPT !.left = @ \ {p}]
            = [at |-> "ranging", entry |-> Held(d), left |-> distributor[d].left \ {p}]
      BY <2>2
    <3>2. distributor' = [distributor EXCEPT ![d] = [distributor[d] EXCEPT !.left = @ \ {p}]]
      BY <2>1
    <3> QED BY <3>1, <3>2
  <2>4. LogTypeOK'
    <3>1. [at |-> "ranging", entry |-> Held(d), left |-> distributor[d].left \ {p}]
            \in [at : {"ranging"}, entry : Nat, left : SUBSET Pages]
      BY <2>2
    <3>2. distributor' \in [Pages -> [at : {"none", "idle"}] \cup [at : {"took"}, entry : Nat]
                                     \cup [at : {"ranging"}, entry : Nat, left : SUBSET Pages]]
      BY <1>t, <2>3, <3>1 DEF LogTypeOK
    <3>3. writePump' \in [Pages -> [at : {"none", "waiting", "ended"}] \cup [at : {"writing"}, entry : Nat]]
      BY <1>t, <2>1, <2>2 DEF LogTypeOK
    <3> QED BY <1>t, <2>1, <3>2, <3>3 DEF LogTypeOK
  <2>5. /\ distributor'[d] = [at |-> "ranging", entry |-> Held(d), left |-> distributor[d].left \ {p}]
        /\ \A f \in Pages \ {d} : distributor'[f] = distributor[f]
    BY <1>t, <2>3 DEF LogTypeOK
  <2>6. /\ \A f \in Pages : (Holds(f)' <=> Holds(f)) /\ Held(f)' = Held(f)
        /\ \A f, q \in Pages : Coming(f, q)' => Coming(f, q) /\ ~(f = d /\ q = p)
    BY <2>1, <2>5 DEF Holds, Held, Coming
  <2>7. Coming(d, p)
    BY <2>1 DEF Coming
  <2>8. \A q \in Pages \ {p} : writePump'[q] = writePump[q]
    BY <1>t, <2>1 DEF LogTypeOK
  <2>9. CASE writePump[p] # Waiting
    <3>1. writePump' = writePump
      BY <2>1, <2>9
    <3>2. \A q \in Pages : Pumping(q)' => Pumping(q) /\ Pumped(q)' = Pumped(q)
      BY <3>1 DEF Pumping, Pumped
    <3>3. Unopened'
      BY <1>t, <2>1, <2>5, <3>1 DEF Unopened, Met
    <3> QED BY <2>1, <2>4, <2>6, <3>2, <3>3, Quieter
  <2>10. CASE writePump[p] = Waiting
    <3>1. writePump'[p] = [at |-> "writing", entry |-> Held(d)] /\ ~Pumping(p)
      BY <1>t, <2>1, <2>10 DEF LogTypeOK, Waiting, Pumping
    <3>2. Pumping(p)' /\ Pumped(p)' = Held(d)
      BY <3>1 DEF Pumping, Pumped
    <3>3. Queued' /\ HeldOnce'
      BY <1>t, <2>1, <2>6 DEF Queued, HeldOnce, Past
    <3>4. Unopened'
      BY <1>t, <2>1, <2>5, <2>8, <2>10, <3>1 DEF Unopened, Met, Waiting
    <3>5. ASSUME NEW q \in Pages \ {p} PROVE PageOnce(q)' /\ InOrder(q)'
      <4>1. PageOnce(q) /\ InOrder(q)
        BY <1>t
      <4>2. (Pumping(q)' <=> Pumping(q)) /\ Pumped(q)' = Pumped(q) /\ (Alone(q)' <=> Alone(q))
        BY <2>1, <2>8 DEF Pumping, Pumped, Alone
      <4>3. PageOnce(q)'
        BY <2>1, <2>6, <4>1, <4>2 DEF PageOnce, Past
      <4>4. InOrder(q)'
        BY <2>1, <2>6, <4>1, <4>2 DEF InOrder
      <4> QED BY <4>3, <4>4
    <3>6. PageOnce(p)'
      <4>1. PageOnce(p)
        BY <1>t
      <4>2. Past(Held(d), logChannel, logged)
        BY <1>t, <2>2 DEF HeldOnce
      <4>3. \A i \in 1..Len(shown[p]) : shown[p][i] # Held(d)
        BY <2>7, <4>1 DEF PageOnce
      <4>4. \A f \in Pages : Coming(f, p)' => Held(f) # Held(d)
        BY <1>t, <2>2, <2>6 DEF HeldOnce, Coming, Holds
      <4> QED BY <2>1, <2>6, <3>2, <4>1, <4>2, <4>3, <4>4 DEF PageOnce
    <3>7. InOrder(p)'
      <4> SUFFICES ASSUME Alone(p)
                   PROVE  /\ \A i \in 1..Len(shown[p]) : shown[p][i] < Held(d)
                          /\ ~Coming(p, p)'
        BY <1>t, <2>1, <3>2 DEF InOrder, Alone
      <4>1. d = p
        BY <1>t, <2>1 DEF Alone, Unopened
      <4> QED BY <1>t, <2>6, <2>7, <4>1 DEF InOrder
    <3>8. \A q \in Pages : PageOnce(q)' /\ InOrder(q)'
      BY <3>5, <3>6, <3>7
    <3> QED BY <2>4, <3>3, <3>4, <3>8 DEF LogInv
  <2> QED BY <2>9, <2>10
<1>7. ASSUME NEW p \in Pages, Write(p) PROVE LogInv'
  <2>1. /\ Pumping(p) /\ writePump' = [writePump EXCEPT ![p] = [at |-> "waiting"]]
        /\ shown' = IF link[p] = "up" THEN [shown EXCEPT ![p] = Append(shown[p], Pumped(p))] ELSE shown
        /\ UNCHANGED <<logged, logChannel, wsClients, link, readPump, distributor>>
    BY <1>7 DEF Write, Pumping, Pumped, Waiting
  <2>2. Pumped(p) \in Nat /\ shown[p] \in Seq(Nat)
    BY <1>t, <1>s, <2>1, Pumps
  <2>3. writePump'[p] = [at |-> "waiting"] /\ \A q \in Pages \ {p} : writePump'[q] = writePump[q]
    BY <1>t, <2>1 DEF LogTypeOK
  <2>4. /\ \A q \in Pages : Pumping(q)' => q # p /\ Pumping(q) /\ Pumped(q)' = Pumped(q)
        /\ \A q \in Pages : (Holds(q)' <=> Holds(q)) /\ Held(q)' = Held(q)
        /\ \A f, q \in Pages : Coming(f, q)' <=> Coming(f, q)
        /\ \A q \in Pages : Alone(q)' <=> Alone(q)
    BY <2>1, <2>3 DEF Pumping, Pumped, Holds, Held, Coming, Alone
  <2>5. CASE link[p] = "up"
    <3> DEFINE s == shown[p]
               w == Append(s, Pumped(p))
    <3>1. shown' = [shown EXCEPT ![p] = w]
      BY <2>1, <2>5
    <3>2. /\ w \in Seq(Nat) /\ Len(w) = Len(s) + 1 /\ Len(s) \in Nat /\ w[Len(s) + 1] = Pumped(p)
          /\ \A i \in 1..Len(s) : w[i] = s[i] /\ s[i] \in Nat
      BY <2>2, AppendProperties
    <3>3. \A i \in 1..Len(w) : \/ i \in 1..Len(s) /\ w[i] = s[i]
                               \/ i = Len(s) + 1 /\ w[i] = Pumped(p)
      BY <3>2
    <3> HIDE DEF w
    <3>4. shown'[p] = w /\ \A q \in Pages \ {p} : shown'[q] = shown[q]
      BY <1>t, <3>1 DEF LogTypeOK
    <3>5. LogTypeOK'
      BY <1>t, <2>1, <3>1, <3>2 DEF LogTypeOK
    <3>6. Queued' /\ HeldOnce'
      BY <1>t, <2>1, <2>4 DEF Queued, HeldOnce, Past
    <3>7. Unopened'
      <4>1. link[p] # "none" /\ Met' = Met
        BY <2>1, <2>5 DEF Met
      <4> QED BY <1>t, <2>1, <2>3, <3>4, <4>1 DEF Unopened
    <3>8. ASSUME NEW q \in Pages \ {p} PROVE PageOnce(q)' /\ InOrder(q)'
      <4>1. PageOnce(q) /\ InOrder(q) /\ shown'[q] = shown[q]
        BY <1>t, <3>4
      <4>3. PageOnce(q)'
        BY <2>1, <2>4, <4>1 DEF PageOnce, Past
      <4>4. InOrder(q)'
        BY <2>4, <4>1 DEF InOrder
      <4> QED BY <4>3, <4>4
    <3>9. PageOnce(p)'
      <4>1. /\ PageOnce(p) /\ Past(Pumped(p), logChannel, logged)
            /\ \A i \in 1..Len(s) : s[i] # Pumped(p)
        BY <1>t, <2>1 DEF PageOnce
      <4>2. \A i, j \in 1..Len(w) : w[i] = w[j] => i = j
        BY <3>2, <3>3, <4>1 DEF PageOnce
      <4>3. \A i \in 1..Len(w) : Past(w[i], logChannel', logged')
        BY <2>1, <3>3, <4>1 DEF PageOnce
      <4>4. \A d \in Pages : Coming(d, p) => \A i \in 1..Len(w) : w[i] # Held(d)
        BY <2>1, <3>3, <4>1 DEF PageOnce
      <4> QED BY <2>4, <3>4, <4>2, <4>3, <4>4 DEF PageOnce
    <3>10. InOrder(p)'
      <4> SUFFICES ASSUME Alone(p)
                   PROVE  /\ \A i, j \in 1..Len(w) : i < j => w[i] < w[j]
                          /\ Coming(p, p) => \A i \in 1..Len(w) : w[i] < Held(p)
        BY <2>4, <3>4 DEF InOrder
      <4>1. /\ \A i, j \in 1..Len(s) : i < j => s[i] < s[j]
            /\ \A i \in 1..Len(s) : s[i] < Pumped(p)
            /\ Coming(p, p) => Pumped(p) < Held(p) /\ \A i \in 1..Len(s) : s[i] < Held(p)
        BY <1>t, <2>1 DEF InOrder
      <4> HIDE DEF s
      <4>2. ASSUME NEW i \in 1..Len(w), NEW j \in 1..Len(w), i < j PROVE w[i] < w[j]
        <5>1. i \in 1..Len(s) /\ w[i] = s[i]
          BY <3>2, <3>3, <4>2
        <5> QED BY <3>3, <4>1, <4>2, <5>1
      <4>3. Coming(p, p) => \A i \in 1..Len(w) : w[i] < Held(p)
        BY <3>3, <4>1
      <4> QED BY <4>2, <4>3
    <3>11. \A q \in Pages : PageOnce(q)' /\ InOrder(q)'
      BY <3>8, <3>9, <3>10
    <3> QED BY <3>5, <3>6, <3>7, <3>11 DEF LogInv
  <2>6. CASE link[p] # "up"
    <3>1. shown' = shown
      BY <2>1, <2>6
    <3>2. LogTypeOK'
      BY <1>t, <2>1, <3>1 DEF LogTypeOK
    <3>3. Unopened'
      <4>1. link[p] # "none"
        BY <1>t, <2>1 DEF Unopened, Pumping
      <4> QED BY <1>t, <2>1, <2>3, <3>1, <4>1 DEF Unopened, Met
    <3> QED BY <2>1, <2>4, <3>1, <3>2, <3>3, Quieter
  <2> QED BY <2>5, <2>6
<1>8. ASSUME NEW p \in Pages, WritePumpEnds(p) PROVE LogInv'
  <2>1. /\ writePump[p].at \in {"waiting", "writing"} /\ link[p] = "down" /\ wsClients' = wsClients \ {p}
        /\ writePump' = [writePump EXCEPT ![p] = [at |-> "ended"]]
        /\ UNCHANGED <<logged, logChannel, link, readPump, distributor, shown>>
    BY <1>8 DEF WritePumpEnds, Unregister
  <2>2. LogTypeOK'
    BY <1>t, <2>1 DEF LogTypeOK
  <2>3. writePump'[p] = [at |-> "ended"] /\ \A q \in Pages \ {p} : writePump'[q] = writePump[q]
    BY <1>t, <2>1 DEF LogTypeOK
  <2>4. /\ \A q \in Pages : Pumping(q)' => Pumping(q) /\ Pumped(q)' = Pumped(q)
        /\ \A q \in Pages : Holds(q)' => Holds(q) /\ Held(q)' = Held(q)
        /\ \A f, q \in Pages : Coming(f, q)' => Coming(f, q) /\ Held(f)' = Held(f)
    BY <2>1, <2>3 DEF Pumping, Pumped, Holds, Held, Coming
  <2>5. Unopened'
    BY <1>t, <2>1, <2>3 DEF Unopened, Met
  <2> QED BY <2>1, <2>2, <2>4, <2>5, Quieter
<1>9. ASSUME NEW p \in Pages, ReadPumpEnds(p) PROVE LogInv'
  <2>1. wsClients' = wsClients \ {p} /\ UNCHANGED <<logged, logChannel, link, writePump, distributor, shown>>
    BY <1>9 DEF ReadPumpEnds, Unregister
  <2>2. LogTypeOK'
    BY <1>t, <2>1 DEF LogTypeOK
  <2>3. /\ \A q \in Pages : Pumping(q)' => Pumping(q) /\ Pumped(q)' = Pumped(q)
        /\ \A q \in Pages : Holds(q)' => Holds(q) /\ Held(q)' = Held(q)
        /\ \A f, q \in Pages : Coming(f, q)' => Coming(f, q) /\ Held(f)' = Held(f)
    BY <2>1 DEF Pumping, Pumped, Holds, Held, Coming
  <2>4. Unopened'
    BY <1>t, <2>1 DEF Unopened, Met
  <2> QED BY <2>1, <2>2, <2>3, <2>4, Quieter
<1>10. ASSUME NEW p \in Pages, PageGone(p) PROVE LogInv'
  <2>1. /\ link[p] = "up" /\ link' = [link EXCEPT ![p] = "down"]
        /\ UNCHANGED <<logged, logChannel, wsClients, writePump, readPump, distributor, shown>>
    BY <1>10 DEF PageGone
  <2>2. LogTypeOK'
    BY <1>t, <2>1 DEF LogTypeOK
  <2>3. link'[p] = "down" /\ \A q \in Pages \ {p} : link'[q] = link[q]
    BY <1>t, <2>1 DEF LogTypeOK
  <2>4. /\ \A q \in Pages : Pumping(q)' => Pumping(q) /\ Pumped(q)' = Pumped(q)
        /\ \A q \in Pages : Holds(q)' => Holds(q) /\ Held(q)' = Held(q)
        /\ \A f, q \in Pages : Coming(f, q)' => Coming(f, q) /\ Held(f)' = Held(f)
        /\ \A q \in Pages : link'[q] = "none" => link[q] = "none"
    BY <2>1, <2>3 DEF Pumping, Pumped, Holds, Held, Coming
  <2>5. Unopened'
    <3>1. Met' = Met
      BY <2>1, <2>3 DEF Met
    <3> QED BY <1>t, <2>1, <2>4, <3>1 DEF Unopened
  <2> QED BY <2>1, <2>2, <2>4, <2>5, Quieter
<1>11. CASE UNCHANGED logVars
  BY <1>11, <1>t DEF logVars, LogInv, LogTypeOK, Queued, HeldOnce, PageOnce, InOrder, Unopened, Met, Alone,
     Holds, Held, Coming, Pumping, Pumped
<1> QED
  BY <1>1, <1>2, <1>3, <1>4, <1>5, <1>6, <1>7, <1>8, <1>9, <1>10, <1>11 DEF LogNext

LEMMA LogStart == LogInit => LogInv
<1> SUFFICES ASSUME LogInit PROVE LogInv
  OBVIOUS
<1>1. LogTypeOK /\ Queued /\ HeldOnce
  BY DEF LogInit, LogTypeOK, Queued, HeldOnce, Holds
<1>2. Met = {} /\ Unopened
  BY FS_EmptySet DEF LogInit, Met, Unopened
<1>3. \A p \in Pages : PageOnce(p) /\ InOrder(p)
  BY DEF LogInit, PageOnce, InOrder, Coming, Pumping
<1> QED BY <1>1, <1>2, <1>3 DEF LogInv

\* However many pages are opened and closed, no page shows a line twice; and
\* the lines come in order to a page that is the only one there ever was
\* (mylog.go:150: every page that was ever opened leaves a distributor behind).
THEOREM LinesInOrder == LogSpec => []EntriesInOrder
<1>1. LogInit => LogInv
  BY LogStart
<1>2. LogInv /\ [LogNext]_logVars => LogInv'
  BY LogStep
<1>3. LogInv => EntriesInOrder
  <2> SUFFICES ASSUME LogInv, NEW p \in Pages
               PROVE  /\ IsInjective(shown[p])
                      /\ Cardinality({q \in Pages : link[q] # "none"}) = 1 =>
                            \A i, j \in DOMAIN shown[p] : i < j => shown[p][i] < shown[p][j]
    BY DEF EntriesInOrder
  <2>1. shown[p] \in Seq(Nat) /\ DOMAIN shown[p] = 1..Len(shown[p])
    BY DEF LogInv, LogTypeOK
  <2>2. IsInjective(shown[p])
    BY <2>1 DEF LogInv, PageOnce, IsInjective
  <2>3. ASSUME Cardinality(Met) = 1
        PROVE  \A i, j \in DOMAIN shown[p] : i < j => shown[p][i] < shown[p][j]
    <3>1. PICK q : Met = {q}
      BY <2>3, FS_Singleton DEF LogInv, Unopened
    <3>2. CASE p = q
      <4>1. Alone(p)
        BY <3>1, <3>2 DEF Met, Alone
      <4> QED BY <2>1, <4>1 DEF LogInv, InOrder
    <3>3. CASE p # q
      <4>1. shown[p] = << >>
        BY <3>1, <3>3 DEF LogInv, Unopened, Met
      <4> QED BY <4>1
    <3> QED BY <3>2, <3>3
  <2> QED BY <2>2, <2>3 DEF Met
<1> QED BY <1>1, <1>2, <1>3, PTL DEF LogSpec

\* Of a page on the list both pumps are at work, a page that is up is on the
\* list, and a distributor has only pages on it left.
PagesMinded ==
    /\ readPump \in [Pages -> {"none", "reading", "ended"}]
    /\ \A p \in wsClients :
          link[p] # "none" /\ writePump[p].at \in {"waiting", "writing"} /\ readPump[p] = "reading"
    /\ \A p \in Pages : link[p] = "up" => p \in wsClients
    /\ \A d \in Pages : distributor[d].at = "ranging" => distributor[d].left \subseteq wsClients

\* Of a step while a distributor holds the lock: it unlocks, or has fewer pages
\* left, or the step is another's.
LockNears ==
    \A d \in Pages : distributor[d].at = "ranging" =>
       \/ distributor'[d] \in {Idle, distributor[d]}
       \/ /\ distributor'[d].at = "ranging"
          /\ distributor'[d].left \subseteq distributor[d].left
          /\ distributor'[d].left # distributor[d].left

\* A page that is gone and still on the list has two pumps, either of which will
\* find that out and delete it; what they may wait for is a read lock, and who has
\* it asks each page on the list once and unlocks (mylog.go:307-319, :323 and :354).
\* This is the part of PagesForgotten that is about states.
THEOREM PagesAlwaysMinded == LogSpec => []PagesMinded /\ [][LockNears]_logVars
<1>1. LogInit => LogInv /\ PagesMinded
  <2> SUFFICES ASSUME LogInit PROVE PagesMinded
    BY LogStart
  <2> QED BY DEF LogInit, PagesMinded
<1>2. ASSUME LogInv, PagesMinded, [LogNext]_logVars PROVE PagesMinded' /\ LockNears
  <2>t. LogTypeOK
    BY <1>2 DEF LogInv
  <2>1. CASE emitLog
    BY <1>2, <2>1 DEF emitLog, PagesMinded, LockNears
  <2>2. ASSUME NEW p \in Pages, WsHandler(p) PROVE PagesMinded' /\ LockNears
    <3>1. \A d \in Pages : distributor[d].at # "ranging" /\ distributor'[d].at # "ranging"
      BY <2>2, <2>t DEF WsHandler, Ranging, Idle, LogTypeOK
    <3> QED BY <1>2, <2>2, <2>t, <3>1 DEF WsHandler, PagesMinded, LockNears, LogTypeOK, Waiting
  <2>3. ASSUME NEW p \in Pages, Take(p) PROVE PagesMinded' /\ LockNears
    BY <1>2, <2>3, <2>t DEF Take, PagesMinded, LockNears, LogTypeOK, Idle
  <2>4. ASSUME NEW p \in Pages, RLock(p) PROVE PagesMinded' /\ LockNears
    BY <1>2, <2>4, <2>t DEF RLock, PagesMinded, LockNears, LogTypeOK
  <2>5. ASSUME NEW p \in Pages, RUnlock(p) PROVE PagesMinded' /\ LockNears
    BY <1>2, <2>5, <2>t DEF RUnlock, PagesMinded, LockNears, LogTypeOK, Idle
  <2>6. ASSUME NEW p \in Pages, NEW q \in Pages, Offer(p, q) PROVE PagesMinded' /\ LockNears
    <3>1. \A d \in Pages : distributor'[d] = IF d = p THEN [distributor[d] EXCEPT !.left = @ \ {q}]
                                             ELSE distributor[d]
      BY <2>6, <2>t DEF Offer, LogTypeOK
    <3>2. /\ distributor'[p].at = "ranging" /\ distributor'[p].left = distributor[p].left \ {q}
          /\ q \in distributor[p].left
      BY <2>6, <2>t, <3>1 DEF Offer, LogTypeOK
    <3>3. \A r \in Pages : writePump'[r] = writePump[r] \/ (r = q /\ writePump'[r].at = "writing")
      BY <2>6, <2>t DEF Offer, LogTypeOK, Writing
    <3>4. PagesMinded'
      BY <1>2, <2>6, <3>1, <3>2, <3>3 DEF Offer, PagesMinded
    <3>5. LockNears
      BY <3>1, <3>2 DEF LockNears
    <3> QED BY <3>4, <3>5
  <2>7. ASSUME NEW p \in Pages, Write(p) PROVE PagesMinded' /\ LockNears
    BY <1>2, <2>7, <2>t DEF Write, PagesMinded, LockNears, LogTypeOK, Waiting
  <2>8. ASSUME NEW p \in Pages, WritePumpEnds(p) \/ ReadPumpEnds(p) PROVE PagesMinded' /\ LockNears
    <3>1. link[p] = "down" /\ wsClients' = wsClients \ {p} /\ UNCHANGED <<link, distributor>>
      BY <2>8 DEF WritePumpEnds, ReadPumpEnds, Unregister
    <3>2. \A d \in Pages : distributor[d].at # "ranging"
      BY <2>8 DEF WritePumpEnds, ReadPumpEnds, Unregister, Ranging
    <3>3. \A r \in Pages \ {p} : writePump'[r] = writePump[r] /\ readPump'[r] = readPump[r]
      BY <1>2, <2>8, <2>t DEF WritePumpEnds, ReadPumpEnds, LogTypeOK, PagesMinded
    <3>4. readPump' \in [Pages -> {"none", "reading", "ended"}]
      BY <1>2, <2>8 DEF WritePumpEnds, ReadPumpEnds, PagesMinded
    <3> QED BY <1>2, <2>t, <3>1, <3>2, <3>3, <3>4 DEF PagesMinded, LockNears, LogTypeOK
  <2>9. ASSUME NEW p \in Pages, PageGone(p) PROVE PagesMinded' /\ LockNears
    BY <1>2, <2>9, <2>t DEF PageGone, PagesMinded, LockNears, LogTypeOK
  <2>10. CASE UNCHANGED logVars
    BY <1>2, <2>10 DEF logVars, PagesMinded, LockNears
  <2> QED BY <1>2, <2>1, <2>2, <2>3, <2>4, <2>5, <2>6, <2>7, <2>8, <2>9, <2>10 DEF LogNext
<1>3. LogInv /\ [LogNext]_logVars => LogInv'
  BY LogStep
<1> QED BY <1>1, <1>2, <1>3, PTL DEF LogSpec

-------------------------------------------------------------------------------------
\* Bans.

BanSpec == BanInit /\ [][BanNext]_banVars

BanTypeOK ==
    /\ role \subseteq Members /\ forsaken \subseteq Members
    /\ asked \in [Members -> Nat] /\ applied \in [Members -> Nat] /\ timers \in [Members -> Nat]

\* Whoever has the role has it from a call that will be answered, or has a timer,
\* or a call about them failed.
BansMinded == \A m \in role : applied[m] > 0 \/ timers[m] > 0 \/ m \in forsaken

\* Of a step after which somebody still has the role and none of their calls has
\* failed: none of their timers ended or was lost in it.
TimersKept == \A m \in role' \ forsaken' : timers'[m] >= timers[m]

\* No ban is forgotten: somebody minds it as long as the role is there, and the
\* first timer that ends takes the role away, whichever ban it was started for
\* (set_group_ban.go:77).  This is the part of BanEnds that is about states.
THEOREM BansAlwaysMinded == BanSpec => []BansMinded /\ [][TimersKept]_banVars
<1> DEFINE Inv == BanTypeOK /\ BansMinded
<1>1. BanInit => Inv
  BY DEF BanInit, BanTypeOK, BansMinded
<1>2. ASSUME Inv, [BanNext]_banVars PROVE Inv' /\ TimersKept
  <2>1. ASSUME NEW m \in Members, Ban(m) \/ Refuse(m) PROVE Inv' /\ TimersKept
    BY <1>2, <2>1 DEF Ban, Refuse, BanTypeOK, BansMinded, TimersKept
  <2>2. ASSUME NEW m \in Members, Apply(m) PROVE Inv' /\ TimersKept
    BY <1>2, <2>2 DEF Apply, BanTypeOK, BansMinded, TimersKept
  <2>3. ASSUME NEW m \in Members, Answered(m) PROVE Inv' /\ TimersKept
    BY <1>2, <2>3 DEF Answered, BanTypeOK, BansMinded, TimersKept
  <2>4. ASSUME NEW m \in Members, AnswerLost(m) PROVE Inv' /\ TimersKept
    BY <1>2, <2>4 DEF AnswerLost, BanTypeOK, BansMinded, TimersKept
  <2>5. ASSUME NEW m \in Members, TimerEnds(m) PROVE Inv' /\ TimersKept
    BY <1>2, <2>5 DEF TimerEnds, Lift, BanTypeOK, BansMinded, TimersKept
  <2>6. ASSUME NEW m \in Members, Unban(m) PROVE Inv' /\ TimersKept
    BY <1>2, <2>6 DEF Unban, Lift, BanTypeOK, BansMinded, TimersKept
  <2>7. CASE Restart
    BY <1>2, <2>7 DEF Restart, BanTypeOK, BansMinded, TimersKept
  <2>8. CASE UNCHANGED banVars
    BY <1>2, <2>8 DEF banVars, BanTypeOK, BansMinded, TimersKept
  <2> QED BY <1>2, <2>1, <2>2, <2>3, <2>4, <2>5, <2>6, <2>7, <2>8 DEF BanNext
<1> HIDE DEF Inv
<1>3. Inv => BansMinded
  BY DEF Inv
<1> QED BY <1>1, <1>2, <1>3, PTL DEF BanSpec

-------------------------------------------------------------------------------------
\* The list of groups.

ListSpec == ListInit /\ [][ListNext]_listVars

Calls ==
    [at : {"idle"}] \cup [at : {"asked"}, start : Nat] \cup [at : {"again"}, start : Nat]
    \cup [at : {"served", "first"}, page : SUBSET GuildIds]

ListTypeOK ==
    /\ member \subseteq GuildIds /\ stayed \subseteq member /\ listed \subseteq GuildIds
    /\ after \in Nat /\ fresh \in BOOLEAN /\ crossed \in BOOLEAN
    /\ call \in [Callers -> Calls]

\* Every guild that stayed is listed up to here, or in the page.
ListedUpTo(n, page) == \A g \in stayed : g <= n => g \in listed \cup page

\* What a call has asked for begins where the list ends or before, and what it
\* was answered leaves no gap.
CallFits(c) ==
    /\ call[c].at = "asked" => ListedUpTo(call[c].start, {})
    /\ call[c].at = "served" => \A h \in call[c].page : ListedUpTo(h, call[c].page)

ListInv ==
    /\ ListTypeOK
    /\ ~crossed => ListedUpTo(after, {}) /\ \A c \in Callers : CallFits(c)

\* The last guild of a page.
LEMMA LastOfPage ==
    ASSUME NEW page, page \subseteq GuildIds, page # {}
    PROVE  Max(page) \in page /\ \A g \in page : g <= Max(page)
<1> DEFINE T == {MaxGuild - g : g \in page}
<1>1. T \subseteq Nat /\ T # {}
  <2>1. \A g \in page : MaxGuild - g \in Nat
    BY ListAssumption DEF GuildIds
  <2> QED BY <2>1
<1>2. PICK k \in T : \A l \in T : k <= l
  <2> HIDE DEF T
  <2> QED BY <1>1, Least
<1>3. PICK x \in page : k = MaxGuild - x
  BY <1>2
<1>4. \A y \in page : x >= y
  BY <1>2, <1>3, ListAssumption DEF GuildIds
<1>5. Max(page) \in page /\ \A y \in page : Max(page) >= y
  BY <1>4, Zenon DEF Max
<1> QED BY <1>5, ListAssumption DEF GuildIds

\* A page leaves out no guild between the one it begins after and any it holds.
LEMMA PageWhole ==
    ASSUME member \subseteq GuildIds, NEW start \in Nat,
           NEW h \in Page(start), NEW g \in member, g > start, g <= h
    PROVE  g \in Page(start)
<1> USE ListAssumption DEF GuildIds
<1> DEFINE later == {x \in member : x > start}
           below(y) == {x \in later : x < y}
<1>1. g \in later /\ h \in later /\ Cardinality(below(h)) < Limit
  BY DEF Page
<1>2. IsFiniteSet(below(h))
  <2>1. IsFiniteSet(GuildIds)
    BY FS_Interval
  <2>2. below(h) \subseteq GuildIds
    OBVIOUS
  <2> QED BY <2>1, <2>2, FS_Subset
<1>3. below(g) \subseteq below(h)
  <2>1. \A x \in later : x \in Int /\ g \in Int /\ h \in Int
    BY <1>1
  <2>2. \A x \in later : x < g => x < h
    BY <2>1
  <2> QED BY <2>2
<1>4. Cardinality(below(g)) <= Cardinality(below(h)) /\ Cardinality(below(g)) \in Nat /\ Cardinality(below(h)) \in Nat
  <2> HIDE DEF below
  <2> QED BY <1>2, <1>3, FS_Subset, FS_CardinalityType
<1>5. Cardinality(below(g)) < Limit
  BY <1>1, <1>4
<1> QED BY <1>1, <1>5 DEF Page

\* The inductive step, one action at a time.
LEMMA ListStep ==
    ASSUME ListInv, [ListNext]_listVars
    PROVE  ListInv'
<1> USE ListAssumption DEF ListedUpTo, CallFits
<1>t. ListTypeOK
  BY DEF ListInv
<1>1. ASSUME NEW c \in Callers, Begin(c) PROVE ListInv'
  <2>1. CASE fresh
    <3>1. /\ UNCHANGED <<after, listed, stayed, crossed, member, fresh>>
          /\ call' = [call EXCEPT ![c] = [at |-> "asked", start |-> after]]
      BY <1>1, <2>1 DEF Begin
    <3>2. ListTypeOK'
      BY <1>t, <3>1 DEF ListTypeOK, Calls
    <3> QED BY <1>t, <3>1, <3>2 DEF ListInv, ListTypeOK
  <2>2. CASE ~fresh
    <3>1. /\ after' = 0 /\ listed' = {} /\ stayed' = member /\ UNCHANGED <<member, fresh>>
          /\ crossed' = (\E d \in Callers : call[d] # NotCalling)
          /\ call' = [call EXCEPT ![c] = [at |-> "asked", start |-> 0]]
      BY <1>1, <2>2 DEF Begin
    <3>2. ListTypeOK'
      BY <1>t, <3>1 DEF ListTypeOK, Calls
    <3>3. \A g \in GuildIds : ~(g <= 0)
      BY DEF GuildIds
    <3>4. ASSUME ~crossed' PROVE ListedUpTo(after, {})' /\ \A d \in Callers : CallFits(d)'
      <4>1. \A d \in Callers \ {c} : call'[d] = NotCalling
        BY <1>t, <3>1, <3>4 DEF ListTypeOK
      <4>2. call'[c] = [at |-> "asked", start |-> 0]
        BY <1>t, <3>1 DEF ListTypeOK
      <4> QED BY <1>t, <3>1, <3>3, <4>1, <4>2 DEF ListTypeOK, NotCalling
    <3> QED BY <3>2, <3>4 DEF ListInv
  <2> QED BY <2>1, <2>2
<1>2. ASSUME NEW c \in Callers, Served(c) PROVE ListInv'
  <2> DEFINE page == Page(call[c].start)
  <2>1. /\ call[c].at \in {"asked", "again"}
        /\ call' = [call EXCEPT ![c] = [at |-> IF call[c].at = "asked" THEN "served" ELSE "first",
                                        page |-> page]]
        /\ UNCHANGED <<member, after, fresh, listed, stayed, crossed>>
    BY <1>2 DEF Served
  <2>2. page \subseteq member /\ call[c].start \in Nat
    BY <1>t, <2>1 DEF Page, ListTypeOK, Calls
  <2> HIDE DEF page
  <2>3. ListTypeOK'
    BY <1>t, <2>1, <2>2 DEF ListTypeOK, Calls
  <2>4. ASSUME ~crossed, call[c].at = "asked", NEW h \in page, NEW g \in stayed, g <= h
        PROVE  g \in listed \cup page
    <3>1. CASE g <= call[c].start
      BY <2>4, <3>1 DEF ListInv
    <3>2. CASE g > call[c].start
      BY <1>t, <2>2, <2>4, <3>2, PageWhole DEF page, ListTypeOK
    <3>3. g \in Int
      BY <1>t DEF ListTypeOK, GuildIds
    <3> QED BY <2>2, <3>1, <3>2, <3>3
  <2>5. \A d \in Callers \ {c} : call'[d] = call[d]
    BY <1>t, <2>1 DEF ListTypeOK
  <2>6. call'[c] = [at |-> IF call[c].at = "asked" THEN "served" ELSE "first", page |-> page]
    BY <1>t, <2>1 DEF ListTypeOK
  <2>7. ~crossed => CallFits(c)'
    BY <2>1, <2>4, <2>6
  <2>8. ASSUME NEW d \in Callers \ {c}, CallFits(d) PROVE CallFits(d)'
    BY <2>1, <2>5, <2>8
  <2> QED BY <2>1, <2>3, <2>7, <2>8 DEF ListInv
<1>3. ASSUME NEW c \in Callers, GetGroupList(c) PROVE ListInv'
  <2> DEFINE page == call[c].page
  <2>1. /\ call[c].at = "served" /\ page \subseteq GuildIds
        /\ after' = Advance(page) /\ fresh' = TRUE /\ listed' = listed \cup page
        /\ call' = [call EXCEPT ![c] = IF page = {} THEN [at |-> "again", start |-> 0] ELSE NotCalling]
        /\ UNCHANGED <<member, stayed, crossed>>
    BY <1>t, <1>3 DEF GetGroupList, ListTypeOK, Calls
  <2> HIDE DEF page
  <2>2. page # {} => Max(page) \in page /\ Max(page) \in Nat
    <3>1. page # {} => Max(page) \in page
      BY <2>1, LastOfPage
    <3>2. \A g \in page : g \in Nat
      BY <2>1 DEF GuildIds
    <3> QED BY <3>1, <3>2
  <2>3. ListTypeOK'
    <3>1. after' \in Nat
      BY <1>t, <2>1, <2>2 DEF Advance, ListTypeOK
    <3>2. call' \in [Callers -> Calls]
      BY <1>t, <2>1 DEF ListTypeOK, Calls, NotCalling
    <3> QED BY <1>t, <2>1, <3>1, <3>2 DEF ListTypeOK
  <2>4. ~crossed => ListedUpTo(after, {})'
    <3>1. CASE page = {}
      BY <2>1, <3>1 DEF ListInv, Advance
    <3>2. CASE page # {}
      BY <2>1, <2>2, <3>2 DEF ListInv, Advance, page
    <3> QED BY <3>1, <3>2
  <2>5. ASSUME ~crossed, NEW d \in Callers PROVE CallFits(d)'
    <3>1. CASE d # c
      BY <1>t, <2>1, <2>5, <3>1 DEF ListInv, ListTypeOK
    <3>2. CASE d = c
      BY <1>t, <2>1, <3>2 DEF ListTypeOK, NotCalling
    <3> QED BY <3>1, <3>2
  <2> QED BY <2>1, <2>3, <2>4, <2>5 DEF ListInv
<1>4. ASSUME NEW c \in Callers, AnswerFirst(c) PROVE ListInv'
  <2>1. /\ call[c].page \subseteq GuildIds
        /\ listed' = listed \cup call[c].page
        /\ call' = [call EXCEPT ![c] = NotCalling]
        /\ UNCHANGED <<member, after, fresh, stayed, crossed>>
    BY <1>t, <1>4 DEF AnswerFirst, ListTypeOK, Calls
  <2>2. ListTypeOK'
    BY <1>t, <2>1 DEF ListTypeOK, Calls, NotCalling
  <2> QED BY <1>t, <2>1, <2>2 DEF ListInv, ListTypeOK, NotCalling
<1>5. ASSUME NEW c \in Callers, Fails(c) PROVE ListInv'
  <2>1. /\ call' = [call EXCEPT ![c] = NotCalling]
        /\ UNCHANGED <<member, after, fresh, listed, stayed, crossed>>
    BY <1>5 DEF Fails
  <2>2. ListTypeOK'
    BY <1>t, <2>1 DEF ListTypeOK, Calls, NotCalling
  <2> QED BY <1>t, <2>1, <2>2 DEF ListInv, ListTypeOK, NotCalling
<1>6. CASE FiveMinutes
  BY <1>6 DEF FiveMinutes, ListInv, ListTypeOK
<1>7. ASSUME NEW g \in GuildIds, Joins(g) PROVE ListInv'
  BY <1>7 DEF Joins, ListInv, ListTypeOK
<1>8. ASSUME NEW g \in GuildIds, Leaves(g) PROVE ListInv'
  BY <1>8 DEF Leaves, ListInv, ListTypeOK
<1>9. CASE UNCHANGED listVars
  BY <1>9 DEF listVars, ListInv, ListTypeOK
<1> QED BY <1>1, <1>2, <1>3, <1>4, <1>5, <1>6, <1>7, <1>8, <1>9 DEF ListNext

\* However many callers share the pager and whoever of them fails, the walk
\* skips no guild the bot is in all the time (get_group_list.go:81), unless it
\* began while a call was under way.
THEOREM NoneEverSkipped == ListSpec => []NoneSkipped
<1>1. ListInit => ListInv
  <2> SUFFICES ASSUME ListInit PROVE ListInv
    OBVIOUS
  <2>1. ListTypeOK
    BY DEF ListInit, ListTypeOK, Calls, NotCalling
  <2>2. ListedUpTo(after, {}) /\ \A c \in Callers : CallFits(c)
    BY DEF ListInit, ListedUpTo, CallFits, NotCalling
  <2> QED BY <2>1, <2>2 DEF ListInv
<1>2. ListInv /\ [ListNext]_listVars => ListInv'
  BY ListStep
<1>3. ListInv => NoneSkipped
  BY DEF ListInv, ListedUpTo, NoneSkipped
<1> QED BY <1>1, <1>2, <1>3, PTL DEF ListSpec

-------------------------------------------------------------------------------------
\* Short links.

UrlSpec == UrlInit /\ [][UrlNext]_urlVars

UrlTypeOK ==
    /\ urls \in [Keys -> Urls \cup {NoUrl}]
    /\ maker \in [Makers -> [at : {"idle", "check", "store"}, url : Urls \cup {NoUrl},
                             key : Keys \cup {NoUrl}]]
    /\ \A v \in Makers : maker[v].at # "idle" => maker[v].url \in Urls /\ maker[v].key \in Keys
    /\ given \subseteq Keys \X Urls
    /\ led \subseteq Keys \X Urls
    /\ disputed \subseteq Keys

\* What holds between the two transactions of a goroutine: the name it found
\* free is still free, or somebody else took it and it is disputed.
FoundFree ==
    \A v \in Makers :
        maker[v].at = "store" => urls[maker[v].key] = NoUrl \/ maker[v].key \in disputed

\* Nothing anybody was told about a name that is not disputed has changed.
Lasting == \A t \in given \cup led : t[1] \notin disputed => urls[t[1]] = t[2]

UrlInv == UrlTypeOK /\ FoundFree /\ Lasting

\* The inductive step, one action at a time.
LEMMA UrlStep ==
    ASSUME UrlInv, [UrlNext]_urlVars
    PROVE  UrlInv'
<1> USE UrlsAssumption DEF UrlInv, UrlTypeOK, FoundFree, Lasting
<1>1. ASSUME NEW v \in Makers, NEW u \in Urls, Create(v, u) PROVE UrlInv'
  BY <1>1 DEF Create
<1>2. ASSUME NEW v \in Makers, Check(v) PROVE UrlInv'
  <2>1. CASE urls[maker[v].key] = NoUrl
    BY <1>2, <2>1 DEF Check
  <2>2. CASE urls[maker[v].key] # NoUrl
    BY <1>2, <2>2 DEF Check
  <2> QED BY <2>1, <2>2
<1>3. ASSUME NEW v \in Makers, Store(v) PROVE UrlInv'
  <2> DEFINE k == maker[v].key
             others == {w \in Makers \ {v} : maker[w].at = "store" /\ maker[w].key = k}
  <2>1. k \in Keys /\ maker[v].url \in Urls
    BY <1>3 DEF Store
  <2>2. /\ urls' = [urls EXCEPT ![k] = maker[v].url]
        /\ given' \subseteq given \cup {<<k, maker[v].url>>}
        /\ disputed' = IF others = {} THEN disputed ELSE disputed \cup {k}
        /\ maker' = [maker EXCEPT ![v] = NoMaker]
        /\ led' = led
    BY <1>3 DEF Store
  <2>3. urls[k] = NoUrl \/ k \in disputed
    BY <1>3 DEF Store
  <2>4. UrlTypeOK'
    BY <2>1, <2>2 DEF NoMaker
  <2>5. FoundFree'
    <3> SUFFICES ASSUME NEW w \in Makers, maker'[w].at = "store"
                 PROVE  urls'[maker'[w].key] = NoUrl \/ maker'[w].key \in disputed'
      OBVIOUS
    <3>1. w # v /\ maker'[w] = maker[w]
      BY <2>2 DEF NoMaker
    <3>2. CASE maker[w].key = k
      BY <3>1, <3>2, <2>2
    <3>3. CASE maker[w].key # k
      BY <3>1, <3>3, <2>2
    <3> QED BY <3>2, <3>3
  <2>6. Lasting'
    <3> SUFFICES ASSUME NEW t \in given' \cup led', t[1] \notin disputed'
                 PROVE  urls'[t[1]] = t[2]
      OBVIOUS
    <3>1. t[1] \notin disputed
      BY <2>2
    <3>2. CASE t \in given \cup led
      <4>1. t[1] \in Keys /\ t[2] \in Urls /\ urls[t[1]] = t[2]
        BY <3>1, <3>2
      <4>2. t[1] # k
        BY <3>1, <4>1, <2>3
      <4> QED BY <4>1, <4>2, <2>2
    <3>3. CASE t = <<k, maker[v].url>>
      BY <3>3, <2>1, <2>2
    <3> QED BY <3>2, <3>3, <2>2
  <2> QED BY <2>4, <2>5, <2>6
<1>4. ASSUME NEW v \in Makers, CreateFails(v) PROVE UrlInv'
  BY <1>4 DEF CreateFails, NoMaker
<1>5. ASSUME NEW k \in Keys, Redirect(k) PROVE UrlInv'
  BY <1>5 DEF Redirect
<1>6. CASE UrlRestart
  BY <1>6 DEF UrlRestart, NoMaker
<1>7. CASE UNCHANGED urlVars
  BY <1>7 DEF urlVars
<1> QED
  BY <1>1, <1>2, <1>3, <1>4, <1>5, <1>6, <1>7 DEF UrlNext

\* A short link leads where it was made to lead and nowhere else, for ever, unless
\* two goroutines found its name free at the same time (shorturl.go:192).
THEOREM LinksAlwaysLead == UrlSpec => []LinksLead
<1>1. UrlInit => UrlInv
  BY UrlsAssumption DEF UrlInit, UrlInv, UrlTypeOK, FoundFree, Lasting, NoMaker
<1>2. UrlInv /\ [UrlNext]_urlVars => UrlInv'
  BY UrlStep
<1>3. UrlInv => LinksLead
  BY DEF UrlInv, Lasting, LinksLead
<1> QED
  BY <1>1, <1>2, <1>3, PTL DEF UrlSpec

-------------------------------------------------------------------------------------
\* Uploads.

UpSpec == UpInit /\ [][UpNext]_upVars

\* The part of the state the argument is about.
Places == {"idle", "count", "judge", "save", "open", "write", "answer"}

UploadTypeOK ==
    /\ upload \in [Requests -> [at : Places, what : Contents \cup {"none"},
                                saw : Seq(Int), now : Int]]
    /\ \A q \in Requests : upload[q].at # "idle" => upload[q].what \in Contents

FileTypeOK ==
    /\ UploadTypeOK
    /\ files \in [Contents -> {"none", "part", "whole"}]
    /\ linked \subseteq Contents
    /\ cut \subseteq Contents
    /\ clock \in Int /\ stamps \in Seq(Int)

BeingWritten(c) == \E q \in Requests : upload[q].at = "write" /\ upload[q].what = c

\* A file that is not whole has somebody who writes it, or nobody ever will.
PartsWritten == \A c \in Contents : files[c] = "part" => BeingWritten(c) \/ c \in cut

\* Who found the file or wrote it, and who was told so, knows it is there.
LinkedThere ==
    /\ \A q \in Requests : upload[q].at = "answer" => files[upload[q].what] # "none"
    /\ \A c \in linked : files[c] # "none"

UpInv == FileTypeOK /\ PartsWritten /\ LinkedThere


\* Dropping what has expired leaves a sequence of times.
LEMMA FreshType ==
    ASSUME NEW s \in Seq(Int), NEW now \in Int
    PROVE  Fresh(s, now) \in Seq(Int)
<1> DEFINE kept == {k \in DOMAIN s : now - s[k] <= Interval}
           first == CHOOSE k \in kept : \A l \in kept : k <= l
<1>1. CASE kept = {}
  BY <1>1 DEF Fresh
<1>2. CASE kept # {}
  <2>1. kept \subseteq Nat
    OBVIOUS
  <2>2. \E k \in kept : \A l \in kept : k <= l
    BY <1>2, <2>1, Least
  <2>3. first \in kept
    BY <2>2, Zenon
  <2>4. SubSeq(s, first, Len(s)) \in Seq(Int)
    <3> HIDE DEF first
    <3>1. first \in 1 .. Len(s)
      BY <2>3
    <3>2. first \in Int /\ Len(s) \in Int /\ \A i \in first .. Len(s) : s[i] \in Int
      BY <3>1
    <3> QED BY <3>2, SubSeqProperties
  <2> QED BY <2>4, <1>2 DEF Fresh
<1> QED BY <1>1, <1>2

\* What an action that only moves a goroutine on does to its record.
LEMMA Moved ==
    ASSUME FileTypeOK, NEW q \in Requests, NEW a \in Places,
           upload[q].what \in Contents,
           upload' = [upload EXCEPT ![q].at = a]
    PROVE  /\ UploadTypeOK'
           /\ upload'[q].at = a /\ upload'[q].what = upload[q].what
           /\ \A r \in Requests \ {q} : upload'[r] = upload[r]
<1>1. upload' = [upload EXCEPT ![q] = [upload[q] EXCEPT !.at = a]]
  OBVIOUS
<1>2. [upload[q] EXCEPT !.at = a]
        = [at |-> a, what |-> upload[q].what, saw |-> upload[q].saw, now |-> upload[q].now]
  BY DEF FileTypeOK, UploadTypeOK
<1> QED BY <1>1, <1>2 DEF FileTypeOK, UploadTypeOK, Places

\* And one that lets it go.
LEMMA Gone ==
    ASSUME FileTypeOK, NEW q \in Requests, upload' = [upload EXCEPT ![q] = NoUpload]
    PROVE  /\ UploadTypeOK'
           /\ upload'[q].at = "idle"
           /\ \A r \in Requests \ {q} : upload'[r] = upload[r]
  BY DEF FileTypeOK, UploadTypeOK, Places, NoUpload

\* The inductive step, one action at a time.
LEMMA UpStep ==
    ASSUME UpInv, [UpNext]_upVars
    PROVE  UpInv'
<1> USE UploadsAssumption DEF UpInv, FileTypeOK, PartsWritten, LinkedThere, BeingWritten
<1>a. \A q \in Requests : upload[q].at # "idle" => upload[q].what \in Contents
  BY DEF UploadTypeOK
<1>1. ASSUME NEW q \in Requests, NEW c \in Contents, Arrive(q, c) PROVE UpInv'
  <2>1. UploadTypeOK'
    BY <1>1 DEF Arrive, UploadTypeOK, Places
  <2> QED BY <1>1, <2>1 DEF Arrive, UploadTypeOK
<1>2. ASSUME NEW q \in Requests, Count(q) PROVE UpInv'
  <2> DEFINE new == [at |-> "judge", what |-> upload[q].what, saw |-> <<>>, now |-> upload[q].now]
  <2>1. upload[q].saw \in Seq(Int) /\ upload[q].now \in Int /\ upload[q].at = "count"
    BY <1>2 DEF Count, UploadTypeOK
  <2>2. stamps' \in Seq(Int)
    BY <1>2, <2>1 DEF Count
  <2>5. upload' = [upload EXCEPT ![q] = new]
    BY <1>2 DEF Count
  <2>6. UploadTypeOK'
    BY <1>a, <2>1, <2>5 DEF UploadTypeOK, Places
  <2> QED BY <1>2, <2>1, <2>2, <2>5, <2>6 DEF Count, UploadTypeOK
<1>3. ASSUME NEW q \in Requests, Judge(q) PROVE UpInv'
  <2>1. stamps' \in Seq(Int)
    BY <1>3, FreshType DEF Judge, UploadTypeOK
  <2>2. CASE Allowed(stamps')
    <3>1. upload' = [upload EXCEPT ![q].at = "save"] /\ upload[q].at = "judge"
      BY <1>3, <2>2 DEF Judge
    <3>2. UploadTypeOK' /\ upload'[q].at = "save" /\ \A r \in Requests \ {q} : upload'[r] = upload[r]
      BY <1>a, <3>1, Moved DEF Places
    <3> QED BY <1>3, <2>1, <3>1, <3>2 DEF Judge
  <2>3. CASE ~Allowed(stamps')
    <3>1. upload' = [upload EXCEPT ![q] = NoUpload] /\ upload[q].at = "judge"
      BY <1>3, <2>3 DEF Judge
    <3>2. /\ UploadTypeOK' /\ upload'[q].at = "idle"
          /\ \A r \in Requests \ {q} : upload'[r] = upload[r]
      BY <3>1, Gone
    <3> QED BY <1>3, <2>1, <3>1, <3>2 DEF Judge
  <2> QED BY <2>2, <2>3
<1>4. ASSUME NEW q \in Requests, Reject(q) PROVE UpInv'
  <2>1. /\ upload[q].at \notin {"idle", "write"} /\ upload[q].what \in Contents
        /\ upload' = [upload EXCEPT ![q] = NoUpload]
    BY <1>4, <1>a DEF Reject
  <2>2. /\ UploadTypeOK' /\ upload'[q].at = "idle"
        /\ \A r \in Requests \ {q} : upload'[r] = upload[r]
    BY <2>1, Gone
  <2> QED BY <1>4, <2>1, <2>2 DEF Reject
<1>5. ASSUME NEW q \in Requests, Save(q) PROVE UpInv'
  <2> DEFINE c == upload[q].what
  <2>1. c \in Contents /\ upload[q].at = "save" /\ UNCHANGED <<files, linked, cut, clock, stamps>>
    BY <1>5, <1>a DEF Save
  <2>2. CASE files[c] = "none" /\ upload' = [upload EXCEPT ![q].at = "open"]
    <3>1. /\ UploadTypeOK' /\ upload'[q].at = "open" /\ upload'[q].what = c
          /\ \A r \in Requests \ {q} : upload'[r] = upload[r]
      BY <2>1, <2>2, Moved DEF Places
    <3> QED BY <2>1, <2>2, <3>1
  <2>3. CASE files[c] # "none" /\ upload' = [upload EXCEPT ![q].at = "answer"]
    <3>1. /\ UploadTypeOK' /\ upload'[q].at = "answer" /\ upload'[q].what = c
          /\ \A r \in Requests \ {q} : upload'[r] = upload[r]
      BY <2>1, <2>3, Moved DEF Places
    <3> QED BY <2>1, <2>3, <3>1
  <2> QED BY <1>5, <2>2, <2>3 DEF Save
<1>6. ASSUME NEW q \in Requests, Open(q) PROVE UpInv'
  <2>1. /\ upload[q].at = "open" /\ upload[q].what \in Contents
        /\ files' = [files EXCEPT ![upload[q].what] = "part"]
        /\ upload' = [upload EXCEPT ![q].at = "write"]
        /\ UNCHANGED <<linked, cut, clock, stamps>>
    BY <1>6, <1>a DEF Open
  <2>2. /\ UploadTypeOK' /\ upload'[q].at = "write" /\ upload'[q].what = upload[q].what
        /\ \A r \in Requests \ {q} : upload'[r] = upload[r]
    BY <2>1, Moved DEF Places
  <2> QED BY <2>1, <2>2
<1>7. ASSUME NEW q \in Requests, WriteFile(q) PROVE UpInv'
  <2> DEFINE c == upload[q].what
  <2>1. c \in Contents /\ upload[q].at = "write" /\ UNCHANGED <<linked, clock, stamps>>
    BY <1>7, <1>a DEF WriteFile
  <2>2. CASE /\ files' = [files EXCEPT ![c] = "whole"]
             /\ upload' = [upload EXCEPT ![q].at = "answer"]
             /\ UNCHANGED cut
    <3>1. /\ UploadTypeOK' /\ upload'[q].at = "answer" /\ upload'[q].what = c
          /\ \A r \in Requests \ {q} : upload'[r] = upload[r]
      BY <2>1, <2>2, Moved DEF Places
    <3> QED BY <2>1, <2>2, <3>1
  <2>3. CASE cut' = cut \cup {c} /\ upload' = [upload EXCEPT ![q] = NoUpload] /\ UNCHANGED files
    <3>1. /\ UploadTypeOK' /\ upload'[q].at = "idle"
          /\ \A r \in Requests \ {q} : upload'[r] = upload[r]
      BY <2>3, Gone
    <3> QED BY <2>1, <2>3, <3>1
  <2> QED BY <1>7, <2>2, <2>3 DEF WriteFile
<1>8. ASSUME NEW q \in Requests, Link(q) PROVE UpInv'
  <2>1. /\ upload[q].at \notin {"idle", "write"} /\ upload[q].what \in Contents
        /\ upload' = [upload EXCEPT ![q] = NoUpload]
    BY <1>8, <1>a DEF Link
  <2>2. /\ UploadTypeOK' /\ upload'[q].at = "idle"
        /\ \A r \in Requests \ {q} : upload'[r] = upload[r]
    BY <2>1, Gone
  <2> QED BY <1>8, <2>1, <2>2 DEF Link
<1>9. CASE UpRestart
  BY <1>9 DEF UpRestart, NoUpload, UploadTypeOK, Places
<1>10. CASE UpTick
  BY <1>10 DEF UpTick, UploadTypeOK
<1>11. CASE UNCHANGED upVars
  BY <1>11 DEF upVars, UploadTypeOK
<1> QED
  BY <1>1, <1>2, <1>3, <1>4, <1>5, <1>6, <1>7, <1>8, <1>9, <1>10, <1>11 DEF UpNext

LEMMA UpStart == UpInit => UpInv
  BY UploadsAssumption DEF UpInit, UpInv, FileTypeOK, UploadTypeOK, Places, PartsWritten, LinkedThere, BeingWritten, NoUpload

\* Who is told a link finds the whole file there, or one that is just being
\* written, unless a crash or an error ended its writing (uploadpic.go:82).
THEOREM LinksAreWhole == UpSpec => []WholeLinks
<1>1. UpInit => UpInv
  BY UpStart
<1>2. UpInv /\ [UpNext]_upVars => UpInv'
  BY UpStep
<1>3. UpInv => WholeLinks
  BY DEF UpInv, FileTypeOK, PartsWritten, LinkedThere, BeingWritten, WholeLinks
<1> QED
  BY <1>1, <1>2, <1>3, PTL DEF UpSpec

\* The requests let through in the interval before a moment, and that each of them
\* still has a stamp of its own among the first of the slice.
Recent(now, ac) == {k \in 1..Len(ac) : now - ac[k] <= Interval}
Covered(now, l, st, ac) ==
    \E f \in Injection(Recent(now, ac), 1..l) : \A k \in Recent(now, ac) : st[f[k]] = ac[k]

AtCounts(q) == upload[q].at \in {"count", "judge"}

OneAtSlice ==
    /\ \A q, r \in Requests : AtCounts(q) /\ AtCounts(r) => q = r
    /\ \A q \in Requests : AtCounts(q) => upload[q].now <= clock
    /\ \A q \in Requests : upload[q].at = "count" =>
          upload[q].saw = stamps /\ Covered(upload[q].now, Len(stamps), stamps, accepted)
    /\ \A q \in Requests : upload[q].at = "judge" =>
          /\ Len(stamps) > 0 /\ stamps[Len(stamps)] = upload[q].now
          /\ Covered(upload[q].now, Len(stamps) - 1, stamps, accepted)
    /\ (\A q \in Requests : ~AtCounts(q)) => Covered(clock, Len(stamps), stamps, accepted)

RateInv == accepted \in Seq(Int) /\ (~together => OneAtSlice /\ Limited)

\* As time passes there is less to have a stamp for.
LEMMA CoveredLater ==
    ASSUME NEW now \in Int, NEW later \in Int, now <= later, NEW l \in Nat, NEW st, NEW ac \in Seq(Int),
           Covered(now, l, st, ac)
    PROVE  Covered(later, l, st, ac)
<1>1. Recent(later, ac) \subseteq Recent(now, ac)
  <2> SUFFICES ASSUME NEW k \in 1..Len(ac), later - ac[k] <= Interval PROVE now - ac[k] <= Interval
    BY DEF Recent
  <2>1. ac[k] \in Int
    OBVIOUS
  <2> QED BY <2>1, UploadsAssumption
<1>2. PICK f \in Injection(Recent(now, ac), 1..l) : \A k \in Recent(now, ac) : st[f[k]] = ac[k]
  BY DEF Covered
<1> DEFINE g == [k \in Recent(later, ac) |-> f[k]]
<1>3. g \in Injection(Recent(later, ac), 1..l)
  BY <1>1, <1>2 DEF Injection, IsInjective
<1>4. \A k \in Recent(later, ac) : st[g[k]] = ac[k]
  BY <1>1, <1>2
<1> QED BY <1>3, <1>4 DEF Covered

\* A stamp at the end changes nothing for those before it.
LEMMA CoveredAppend ==
    ASSUME NEW now, NEW st \in Seq(Int), NEW ac, NEW x \in Int, Covered(now, Len(st), st, ac)
    PROVE  Covered(now, Len(st), Append(st, x), ac)
<1>1. PICK f \in Injection(Recent(now, ac), 1..Len(st)) : \A k \in Recent(now, ac) : st[f[k]] = ac[k]
  BY DEF Covered
<1>2. \A k \in Recent(now, ac) : f[k] \in 1..Len(st)
  BY <1>1 DEF Injection
<1>3. \A i \in 1..Len(st) : Append(st, x)[i] = st[i]
  BY AppendProperties
<1>4. \A k \in Recent(now, ac) : Append(st, x)[f[k]] = ac[k]
  BY <1>1, <1>2, <1>3
<1> QED BY <1>1, <1>4 DEF Covered

\* Where the slice is cut, if something in it has not expired.
LEMMA FreshKeeps ==
    ASSUME NEW s \in Seq(Int), NEW now \in Int, NEW m \in 1..Len(s), now - s[m] <= Interval
    PROVE  \E first \in 1..Len(s) :
              /\ Fresh(s, now) \in Seq(Int)
              /\ Len(Fresh(s, now)) = Len(s) - first + 1
              /\ \A i \in 1 .. Len(s) - first + 1 : Fresh(s, now)[i] = s[first + i - 1]
              /\ \A k \in 1..Len(s) : now - s[k] <= Interval => first <= k
<1> DEFINE kept == {k \in DOMAIN s : now - s[k] <= Interval}
           first == CHOOSE k \in kept : \A l \in kept : k <= l
<1>1. kept \subseteq Nat /\ kept # {} /\ DOMAIN s = 1..Len(s)
  OBVIOUS
<1>2. \E k \in kept : \A l \in kept : k <= l
  BY <1>1, Least
<1>3. first \in kept /\ \A l \in kept : first <= l
  BY <1>2, Zenon
<1>4. Fresh(s, now) = SubSeq(s, first, Len(s))
  BY <1>1 DEF Fresh
<1>5. first \in 1..Len(s) /\ \A k \in 1..Len(s) : now - s[k] <= Interval => first <= k
  BY <1>1, <1>3
<1> HIDE DEF first
<1>6. first \in Int /\ Len(s) \in Int /\ \A i \in first .. Len(s) : s[i] \in Int
  BY <1>5
<1>7. /\ SubSeq(s, first, Len(s)) \in Seq(Int)
      /\ Len(SubSeq(s, first, Len(s))) = Len(s) - first + 1
      /\ \A i \in 1 .. Len(s) - first + 1 : SubSeq(s, first, Len(s))[i] = s[first + i - 1]
  BY <1>5, <1>6, SubSeqProperties
<1> QED BY <1>4, <1>5, <1>7

\* The request that is judged: its own stamp is the last one that is kept, and
\* those of the requests let through before it in the interval are kept too.
LEMMA CoveredJudged ==
    ASSUME NEW st \in Seq(Int), Len(st) > 0, NEW now \in Int, st[Len(st)] = now, NEW ac \in Seq(Int),
           Covered(now, Len(st) - 1, st, ac)
    PROVE  LET kept == Fresh(st, now)
           IN  /\ kept \in Seq(Int) /\ Len(kept) > 0 /\ kept[Len(kept)] = now
               /\ Covered(now, Len(kept) - 1, kept, ac)
<1> DEFINE kept == Fresh(st, now)
<1>1. Len(st) \in 1..Len(st) /\ now - st[Len(st)] <= Interval
  BY UploadsAssumption
<1>2. PICK first \in 1..Len(st) :
         /\ kept \in Seq(Int) /\ Len(kept) = Len(st) - first + 1
         /\ \A i \in 1 .. Len(st) - first + 1 : kept[i] = st[first + i - 1]
         /\ \A k \in 1..Len(st) : now - st[k] <= Interval => first <= k
  BY <1>1, FreshKeeps
<1> HIDE DEF kept
<1>3. Len(kept) > 0 /\ kept[Len(kept)] = now
  <2>1. Len(kept) \in 1 .. Len(st) - first + 1 /\ first + Len(kept) - 1 = Len(st)
    BY <1>2
  <2>2. kept[Len(kept)] = st[first + Len(kept) - 1]
    BY <1>2, <2>1
  <2>3. Len(kept) > 0
    BY <2>1
  <2> QED BY <2>1, <2>2, <2>3
<1>4. PICK f \in Injection(Recent(now, ac), 1 .. Len(st) - 1) : \A k \in Recent(now, ac) : st[f[k]] = ac[k]
  BY DEF Covered
<1>5. ASSUME NEW k \in Recent(now, ac)
      PROVE  /\ f[k] \in 1 .. Len(st) - 1 /\ f[k] - first + 1 \in 1 .. Len(kept) - 1
             /\ kept[f[k] - first + 1] = ac[k]
  <2>1. f[k] \in 1 .. Len(st) - 1 /\ st[f[k]] = ac[k] /\ now - ac[k] <= Interval
    BY <1>4, <1>5 DEF Injection, Recent
  <2> DEFINE m == f[k]
  <2>0. m \in 1 .. Len(st) - 1 /\ m \in 1..Len(st) /\ now - st[m] <= Interval
    BY <2>1
  <2>2. first <= m
    BY <1>2, <2>0
  <2> HIDE DEF m
  <2>3. m - first + 1 \in 1 .. Len(kept) - 1 /\ first + (m - first + 1) - 1 = m
    BY <1>2, <2>0, <2>2
  <2>4. m - first + 1 \in 1 .. Len(st) - first + 1
    BY <1>2, <2>0, <2>2
  <2>5. kept[m - first + 1] = st[m]
    BY <1>2, <2>3, <2>4
  <2> QED BY <2>1, <2>3, <2>5 DEF m
<1> DEFINE g == [k \in Recent(now, ac) |-> f[k] - first + 1]
<1>6. g \in [Recent(now, ac) -> 1 .. Len(kept) - 1]
  BY <1>5
<1>7. \A a, b \in Recent(now, ac) : g[a] = g[b] => a = b
  <2> SUFFICES ASSUME NEW a \in Recent(now, ac), NEW b \in Recent(now, ac), g[a] = g[b] PROVE a = b
    OBVIOUS
  <2>1. f[a] = f[b]
    <3> DEFINE m == f[a]
               n == f[b]
    <3>1. m \in Int /\ n \in Int /\ m - first + 1 = n - first + 1 /\ first \in Int
      <4>1. g[a] = m - first + 1 /\ g[b] = n - first + 1
        OBVIOUS
      <4>2. m \in 1 .. Len(st) - 1 /\ n \in 1 .. Len(st) - 1
        BY <1>5
      <4>3. m - first + 1 = n - first + 1
        BY <4>1
      <4>4. first \in Int /\ Len(st) \in Int
        BY <1>2
      <4> HIDE DEF m, n, kept, g
      <4>5. m \in Int /\ n \in Int
        BY <4>2, <4>4
      <4> QED BY <4>3, <4>4, <4>5
    <3> HIDE DEF m, n
    <3>2. m = n
      BY <3>1
    <3> QED BY <3>2 DEF m, n
  <2> QED BY <1>4, <2>1 DEF Injection, IsInjective
<1>8. g \in Injection(Recent(now, ac), 1 .. Len(kept) - 1)
  BY <1>6, <1>7 DEF Injection, IsInjective
<1>9. \A k \in Recent(now, ac) : kept[g[k]] = ac[k]
  BY <1>5
<1>10. Covered(now, Len(kept) - 1, kept, ac)
  BY <1>8, <1>9 DEF Covered
<1> QED BY <1>2, <1>3, <1>10 DEF kept

\* Letting it through, its own stamp covers it.
LEMMA CoveredAccepted ==
    ASSUME NEW st \in Seq(Int), Len(st) > 0, NEW now \in Int, st[Len(st)] = now, NEW ac \in Seq(Int),
           Covered(now, Len(st) - 1, st, ac)
    PROVE  Covered(now, Len(st), st, Append(ac, now))
<1> DEFINE n == Len(ac) + 1
           w == Append(ac, now)
           l == Len(st)
<1>1. /\ w \in Seq(Int) /\ Len(w) = n /\ w[n] = now /\ n \in Nat /\ Len(ac) \in Nat /\ l \in Nat
      /\ \A k \in 1..Len(ac) : w[k] = ac[k]
  BY AppendProperties
<1> HIDE DEF w
<1>2. \A k \in Recent(now, w) : k # n => k \in Recent(now, ac)
  <2> SUFFICES ASSUME NEW k \in Recent(now, w), k # n PROVE k \in Recent(now, ac)
    OBVIOUS
  <2>1. k \in 1..Len(w) /\ now - w[k] <= Interval
    BY DEF Recent
  <2>2. k \in 1..Len(ac)
    BY <1>1, <2>1
  <2>3. w[k] = ac[k]
    BY <1>1, <2>2
  <2> QED BY <2>1, <2>2, <2>3 DEF Recent
<1>3. PICK f \in Injection(Recent(now, ac), 1 .. l - 1) : \A k \in Recent(now, ac) : st[f[k]] = ac[k]
  BY DEF Covered
<1> DEFINE g == [k \in Recent(now, w) |-> IF k = n THEN l ELSE f[k]]
<1>4. \A k \in Recent(now, w) : k # n => g[k] = f[k] /\ g[k] \in 1 .. l - 1
  BY <1>2, <1>3 DEF Injection
<1>5. g \in [Recent(now, w) -> 1..l]
  <2>1. l \in 1..l /\ 1 .. l - 1 \subseteq 1..l
    BY <1>1
  <2>2. ASSUME NEW k \in Recent(now, w) PROVE g[k] \in 1..l
    BY <1>4, <2>1, <2>2
  <2> QED BY <2>2
<1>6. \A a, b \in Recent(now, w) : g[a] = g[b] => a = b
  <2> SUFFICES ASSUME NEW a \in Recent(now, w), NEW b \in Recent(now, w), g[a] = g[b] PROVE a = b
    OBVIOUS
  <2>1. CASE a # n /\ b # n
    BY <1>2, <1>3, <1>4, <2>1 DEF Injection, IsInjective
  <2>2. CASE a = n \/ b = n
    BY <1>1, <1>4, <2>2
  <2> QED BY <2>1, <2>2
<1>7. g \in Injection(Recent(now, w), 1..l)
  BY <1>5, <1>6 DEF Injection, IsInjective
<1>8. \A k \in Recent(now, w) : st[g[k]] = w[k]
  <2> SUFFICES ASSUME NEW k \in Recent(now, w) PROVE st[g[k]] = w[k]
    OBVIOUS
  <2>1. CASE k = n
    BY <1>1, <2>1
  <2>2. CASE k # n
    <3>1. k \in Recent(now, ac) /\ g[k] = f[k]
      BY <1>2, <1>4, <2>2
    <3>2. w[k] = ac[k]
      BY <1>1, <3>1 DEF Recent
    <3> QED BY <1>3, <3>1, <3>2
  <2> QED BY <2>1, <2>2
<1> QED BY <1>7, <1>8 DEF Covered, w

\* There are no more of them than stamps.
LEMMA CoveredCount ==
    ASSUME NEW now, NEW l \in Nat, NEW st, NEW ac, Covered(now, l, st, ac)
    PROVE  Cardinality(Recent(now, ac)) \in Nat /\ Cardinality(Recent(now, ac)) <= l
<1>1. PICK f \in Injection(Recent(now, ac), 1..l) : TRUE
  BY DEF Covered
<1>2. IsFiniteSet(1..l) /\ Cardinality(1..l) = l
  BY FS_Interval
<1> QED BY <1>1, <1>2, FS_Injection, FS_CardinalityType

\* Nothing happens at the counts of the address.
LEMMA RateElsewhere ==
    ASSUME RateInv, UNCHANGED <<stamps, accepted, together, clock>>,
           \A q \in Requests : AtCounts(q)' <=> AtCounts(q),
           \A q \in Requests : AtCounts(q) => upload'[q] = upload[q]
    PROVE  RateInv'
<1> SUFFICES ASSUME ~together PROVE OneAtSlice'
  BY DEF RateInv, Limited
<1>1. OneAtSlice
  BY DEF RateInv
<1>2. \A q \in Requests : upload'[q].at \in {"count", "judge"} => upload'[q] = upload[q]
  BY DEF AtCounts
<1>3. \A q, r \in Requests : AtCounts(q)' /\ AtCounts(r)' => q = r
  BY <1>1 DEF OneAtSlice
<1>4. \A q \in Requests : AtCounts(q)' => upload'[q].now <= clock
  BY <1>1, <1>2 DEF OneAtSlice, AtCounts
<1>5. \A q \in Requests : upload'[q].at = "count" =>
          upload'[q].saw = stamps /\ Covered(upload'[q].now, Len(stamps), stamps, accepted)
  BY <1>1, <1>2 DEF OneAtSlice
<1>6. \A q \in Requests : upload'[q].at = "judge" =>
          /\ Len(stamps) > 0 /\ stamps[Len(stamps)] = upload'[q].now
          /\ Covered(upload'[q].now, Len(stamps) - 1, stamps, accepted)
  BY <1>1, <1>2 DEF OneAtSlice
<1>7. (\A q \in Requests : ~AtCounts(q)') => Covered(clock, Len(stamps), stamps, accepted)
  BY <1>1 DEF OneAtSlice
<1> QED BY <1>3, <1>4, <1>5, <1>6, <1>7 DEF OneAtSlice

LEMMA RateStep ==
    ASSUME UpInv, RateInv, [UpNext]_upVars
    PROVE  RateInv'
<1>t. FileTypeOK /\ UploadTypeOK /\ stamps \in Seq(Int) /\ Len(stamps) \in Nat /\ clock \in Int
      /\ accepted \in Seq(Int)
  BY DEF UpInv, FileTypeOK, RateInv
<1>q. \A q \in Requests : /\ upload[q].now \in Int /\ upload[q].saw \in Seq(Int)
                          /\ upload[q].at # "idle" => upload[q].what \in Contents
  BY <1>t DEF UploadTypeOK
<1>e. ASSUME NEW q \in Requests, ~AtCounts(q), UNCHANGED <<stamps, accepted, together, clock>>,
             ~AtCounts(q)', \A r \in Requests \ {q} : upload'[r] = upload[r]
      PROVE  RateInv'
  BY <1>e, RateElsewhere DEF AtCounts
<1>1. ASSUME NEW q \in Requests, NEW c \in Contents, Arrive(q, c) PROVE RateInv'
  <2>1. /\ upload[q].at = "idle" /\ UNCHANGED <<stamps, accepted, clock>>
        /\ upload' = [upload EXCEPT ![q] = [at |-> "count", what |-> c, saw |-> stamps, now |-> clock]]
        /\ together' = (together \/ \E r \in Requests : AtCounts(r))
    BY <1>1 DEF Arrive, AtCounts
  <2> SUFFICES ASSUME ~together' PROVE OneAtSlice' /\ Limited'
    BY <1>t, <2>1 DEF RateInv
  <2>2. ~together /\ \A r \in Requests : ~AtCounts(r)
    BY <2>1
  <2>3. Limited' /\ Covered(clock, Len(stamps), stamps, accepted)
    BY <2>1, <2>2 DEF RateInv, OneAtSlice, Limited
  <2>4. /\ upload'[q] = [at |-> "count", what |-> c, saw |-> stamps, now |-> clock]
        /\ \A r \in Requests \ {q} : upload'[r] = upload[r]
    BY <1>t, <2>1 DEF UploadTypeOK
  <2>5. \A r \in Requests : AtCounts(r)' <=> r = q
    BY <2>2, <2>4 DEF AtCounts
  <2>6. \A r \in Requests : upload'[r].at \in {"count", "judge"} => r = q
    BY <2>5 DEF AtCounts
  <2>7. clock <= clock
    BY <1>t
  <2> QED BY <2>1, <2>3, <2>4, <2>5, <2>6, <2>7 DEF OneAtSlice
<1>2. ASSUME NEW q \in Requests, Count(q) PROVE RateInv'
  <2> DEFINE now == upload[q].now
  <2>1. /\ upload[q].at = "count" /\ stamps' = Append(upload[q].saw, now)
        /\ upload' = [upload EXCEPT ![q] = [at |-> "judge", what |-> upload[q].what, saw |-> <<>>, now |-> now]]
        /\ UNCHANGED <<accepted, clock, together>>
    BY <1>2 DEF Count
  <2> SUFFICES ASSUME ~together PROVE OneAtSlice' /\ Limited'
    BY <1>t, <2>1 DEF RateInv
  <2>2. /\ \A r \in Requests : AtCounts(r) => r = q
        /\ now <= clock /\ upload[q].saw = stamps /\ Covered(now, Len(stamps), stamps, accepted) /\ Limited
    BY <2>1 DEF RateInv, OneAtSlice, AtCounts
  <2>3. /\ upload'[q].at = "judge" /\ upload'[q].now = now
        /\ \A r \in Requests \ {q} : upload'[r] = upload[r]
    BY <1>t, <2>1 DEF UploadTypeOK
  <2> HIDE DEF now
  <2>4. now \in Int /\ stamps' = Append(stamps, now)
    BY <1>q, <2>1, <2>2 DEF now
  <2>5. Len(stamps') = Len(stamps) + 1 /\ stamps'[Len(stamps')] = now
    BY <1>t, <2>4, AppendProperties
  <2>6. Covered(now, Len(stamps') - 1, stamps', accepted)
    <3>1. Len(stamps') - 1 = Len(stamps)
      BY <1>t, <2>5
    <3> QED BY <1>t, <2>2, <2>4, <3>1, CoveredAppend
  <2>7. \A r \in Requests : AtCounts(r)' <=> r = q
    BY <2>2, <2>3 DEF AtCounts
  <2>8. \A r \in Requests : upload'[r].at \in {"count", "judge"} => r = q
    BY <2>7 DEF AtCounts
  <2>9. Len(stamps') > 0
    BY <1>t, <2>5
  <2>10. Limited'
    BY <2>1, <2>2 DEF Limited
  <2> QED BY <2>1, <2>2, <2>3, <2>5, <2>6, <2>7, <2>8, <2>9, <2>10 DEF OneAtSlice
<1>3. ASSUME NEW q \in Requests, Judge(q) PROVE RateInv'
  <2> DEFINE now == upload[q].now
  <2>1. /\ upload[q].at = "judge" /\ stamps' = Fresh(stamps, now) /\ UNCHANGED <<clock, together>>
        /\ \/ /\ Allowed(stamps') /\ accepted' = Append(accepted, now)
              /\ upload' = [upload EXCEPT ![q].at = "save"]
           \/ upload' = [upload EXCEPT ![q] = NoUpload] /\ UNCHANGED accepted
    BY <1>3 DEF Judge
  <2>2. now \in Int /\ accepted' \in Seq(Int)
    <3>1. now \in Int
      BY <1>q
    <3> HIDE DEF now
    <3>2. Append(accepted, now) \in Seq(Int)
      BY <1>t, <3>1
    <3> QED BY <1>t, <2>1, <3>1, <3>2
  <2> SUFFICES ASSUME ~together PROVE OneAtSlice' /\ Limited'
    BY <2>1, <2>2 DEF RateInv
  <2>3. /\ \A r \in Requests : AtCounts(r) => r = q
        /\ now <= clock /\ Len(stamps) > 0 /\ stamps[Len(stamps)] = now
        /\ Covered(now, Len(stamps) - 1, stamps, accepted) /\ Limited
    BY <2>1 DEF RateInv, OneAtSlice, AtCounts
  <2>4. ~AtCounts(q)' /\ \A r \in Requests \ {q} : upload'[r] = upload[r]
    <3>1. CASE upload' = [upload EXCEPT ![q].at = "save"]
      <4>1. upload[q].what \in Contents
        BY <1>q, <2>1
      <4> QED BY <1>t, <3>1, <4>1, Moved DEF AtCounts, Places
    <3>2. CASE upload' = [upload EXCEPT ![q] = NoUpload]
      BY <1>t, <3>2, Gone DEF AtCounts
    <3> QED BY <2>1, <3>1, <3>2
  <2> HIDE DEF now
  <2>5. /\ stamps' \in Seq(Int) /\ Len(stamps') > 0 /\ stamps'[Len(stamps')] = now
        /\ Covered(now, Len(stamps') - 1, stamps', accepted)
    BY <1>t, <2>1, <2>2, <2>3, CoveredJudged
  <2>6. Len(stamps') \in Nat /\ Len(stamps') - 1 \in Nat
    BY <2>5
  <2>7. \A r \in Requests : ~AtCounts(r)' /\ upload'[r].at \notin {"count", "judge"}
    BY <2>3, <2>4 DEF AtCounts
  <2>8. Covered(now, Len(stamps'), stamps', accepted') /\ Limited'
    <3>1. CASE Allowed(stamps') /\ accepted' = Append(accepted, now)
      <4>1. Covered(now, Len(stamps'), stamps', accepted')
        BY <1>t, <2>2, <2>5, <3>1, CoveredAccepted
      <4>2. /\ Cardinality(Recent(now, accepted')) \in Nat
            /\ Cardinality(Recent(now, accepted')) <= Len(stamps')
        BY <2>6, <4>1, CoveredCount
      <4>3. /\ Len(accepted') = Len(accepted) + 1 /\ accepted'[Len(accepted) + 1] = now
            /\ \A k \in 1..Len(accepted) : accepted'[k] = accepted[k]
            /\ Len(accepted) \in Nat /\ DOMAIN accepted' = 1..Len(accepted') /\ DOMAIN accepted = 1..Len(accepted)
        BY <1>t, <2>2, <3>1, AppendProperties
      <4>4. ASSUME NEW n \in DOMAIN accepted'
            PROVE  Cardinality({k \in 1..n : accepted'[n] - accepted'[k] <= Interval}) <= MaxRequests
        <5>1. CASE n = Len(accepted')
          <6>1. {k \in 1..n : accepted'[n] - accepted'[k] <= Interval} = Recent(now, accepted')
            BY <4>3, <5>1 DEF Recent
          <6>2. Len(stamps') <= MaxRequests
            BY <3>1 DEF Allowed
          <6>3. \A a \in Nat : a <= Len(stamps') => a <= MaxRequests
            BY <2>6, <6>2, UploadsAssumption
          <6> QED BY <4>2, <6>1, <6>3
        <5>2. CASE n # Len(accepted')
          <6>1. n \in 1..Len(accepted) /\ accepted'[n] = accepted[n]
            BY <4>3, <4>4, <5>2
          <6>2. \A k \in 1..n : accepted'[k] = accepted[k]
            BY <4>3, <6>1
          <6>3. {k \in 1..n : accepted'[n] - accepted'[k] <= Interval}
                  = {k \in 1..n : accepted[n] - accepted[k] <= Interval}
            BY <6>1, <6>2
          <6> QED BY <2>3, <4>3, <6>1, <6>3 DEF Limited
        <5> QED BY <5>1, <5>2
      <4> QED BY <4>1, <4>4 DEF Limited
    <3>2. CASE UNCHANGED accepted
      <4>1. Limited'
        BY <2>1, <2>3, <3>2 DEF Limited
      <4>2. Covered(now, Len(stamps'), stamps', accepted)
        <5>1. PICK f \in Injection(Recent(now, accepted), 1 .. Len(stamps') - 1) :
                 \A k \in Recent(now, accepted) : stamps'[f[k]] = accepted[k]
          BY <2>5 DEF Covered
        <5>2. f \in Injection(Recent(now, accepted), 1 .. Len(stamps'))
          BY <2>6, <5>1 DEF Injection
        <5> QED BY <5>1, <5>2 DEF Covered
      <4> QED BY <3>2, <4>1, <4>2
    <3> QED BY <2>1, <3>1, <3>2
  <2>9. Covered(clock', Len(stamps'), stamps', accepted')
    BY <1>t, <2>1, <2>2, <2>3, <2>6, <2>8, CoveredLater
  <2> QED BY <2>7, <2>8, <2>9 DEF OneAtSlice
<1>4. ASSUME NEW q \in Requests, Reject(q) PROVE RateInv'
  <2>1. /\ upload[q].at \in {"save", "answer"} /\ upload' = [upload EXCEPT ![q] = NoUpload]
        /\ UNCHANGED <<stamps, accepted, together, clock>>
    BY <1>4 DEF Reject
  <2>2. upload'[q].at = "idle" /\ \A r \in Requests \ {q} : upload'[r] = upload[r]
    BY <1>t, <2>1, Gone
  <2> QED BY <2>1, <2>2, <1>e DEF AtCounts
<1>5. ASSUME NEW q \in Requests, Save(q) PROVE RateInv'
  <2>1. /\ upload[q].at = "save" /\ upload[q].what \in Contents
        /\ \E a \in {"open", "answer"} : upload' = [upload EXCEPT ![q].at = a]
        /\ UNCHANGED <<stamps, accepted, together, clock>>
    BY <1>5, <1>q DEF Save
  <2>2. upload'[q].at \in {"open", "answer"} /\ \A r \in Requests \ {q} : upload'[r] = upload[r]
    BY <1>t, <2>1, Moved DEF Places
  <2> QED BY <2>1, <2>2, <1>e DEF AtCounts
<1>6. ASSUME NEW q \in Requests, Open(q) PROVE RateInv'
  <2>1. /\ upload[q].at = "open" /\ upload[q].what \in Contents /\ upload' = [upload EXCEPT ![q].at = "write"]
        /\ UNCHANGED <<stamps, accepted, together, clock>>
    BY <1>6, <1>q DEF Open
  <2>2. upload'[q].at = "write" /\ \A r \in Requests \ {q} : upload'[r] = upload[r]
    BY <1>t, <2>1, Moved DEF Places
  <2> QED BY <2>1, <2>2, <1>e DEF AtCounts
<1>7. ASSUME NEW q \in Requests, WriteFile(q) PROVE RateInv'
  <2>1. /\ upload[q].at = "write" /\ upload[q].what \in Contents
        /\ \/ upload' = [upload EXCEPT ![q].at = "answer"]
           \/ upload' = [upload EXCEPT ![q] = NoUpload]
        /\ UNCHANGED <<stamps, accepted, together, clock>>
    BY <1>7, <1>q DEF WriteFile
  <2>2. upload'[q].at \in {"answer", "idle"} /\ \A r \in Requests \ {q} : upload'[r] = upload[r]
    BY <1>t, <2>1, Moved, Gone DEF Places
  <2> QED BY <2>1, <2>2, <1>e DEF AtCounts
<1>8. ASSUME NEW q \in Requests, Link(q) PROVE RateInv'
  <2>1. /\ upload[q].at = "answer" /\ upload' = [upload EXCEPT ![q] = NoUpload]
        /\ UNCHANGED <<stamps, accepted, together, clock>>
    BY <1>8 DEF Link
  <2>2. upload'[q].at = "idle" /\ \A r \in Requests \ {q} : upload'[r] = upload[r]
    BY <1>t, <2>1, Gone
  <2> QED BY <2>1, <2>2, <1>e DEF AtCounts
<1>9. CASE UpRestart
  <2>1. /\ stamps' = <<>> /\ accepted' = <<>> /\ clock' = clock
        /\ \A q \in Requests : upload'[q].at = "idle"
    BY <1>9 DEF UpRestart, NoUpload
  <2>2. Covered(clock', Len(stamps'), stamps', accepted')
    <3>1. Recent(clock, <<>>) = {}
      BY DEF Recent
    <3>2. [k \in {} |-> 0] \in Injection({}, 1..0)
      BY DEF Injection, IsInjective
    <3> QED BY <2>1, <3>1, <3>2 DEF Covered
  <2>3. Limited'
    BY <2>1 DEF Limited
  <2> QED BY <2>1, <2>2, <2>3 DEF RateInv, OneAtSlice, AtCounts
<1>10. CASE UpTick
  <2>1. clock' = clock + 1 /\ UNCHANGED <<stamps, accepted, together, upload>>
    BY <1>10 DEF UpTick
  <2> SUFFICES ASSUME ~together PROVE OneAtSlice' /\ Limited'
    BY <1>t, <2>1 DEF RateInv
  <2>2. OneAtSlice /\ Limited /\ clock' \in Int /\ clock <= clock'
    BY <1>t, <2>1 DEF RateInv
  <2>3. Covered(clock, Len(stamps), stamps, accepted) => Covered(clock', Len(stamps), stamps, accepted)
    BY <1>t, <2>2, CoveredLater
  <2>4. \A q \in Requests : AtCounts(q) => upload[q].now <= clock'
    BY <1>t, <1>q, <2>2 DEF OneAtSlice
  <2>5. Limited'
    BY <2>1, <2>2 DEF Limited
  <2> QED BY <2>1, <2>2, <2>3, <2>4, <2>5 DEF OneAtSlice, AtCounts
<1>11. CASE UNCHANGED upVars
  BY <1>11, RateElsewhere DEF upVars, AtCounts
<1> QED
  BY <1>1, <1>2, <1>3, <1>4, <1>5, <1>6, <1>7, <1>8, <1>9, <1>10, <1>11 DEF UpNext

\* In no interval are more requests of an address let through than image_limit
\* says, though refused ones count too and expired stamps are dropped as they come,
\* unless two of them met at the slice (uploadpic.go:150).
THEOREM RateAlwaysLimited == UpSpec => []Limited
<1>1. UpInit => UpInv /\ RateInv
  <2> SUFFICES ASSUME UpInit PROVE UpInv /\ RateInv
    OBVIOUS
  <2>1. UpInv
    BY UpStart
  <2>2. stamps = <<>> /\ accepted = <<>> /\ \A q \in Requests : upload[q].at = "idle"
    BY DEF UpInit, NoUpload
  <2>3. Covered(clock, Len(stamps), stamps, accepted)
    <3>1. Recent(clock, <<>>) = {}
      BY DEF Recent
    <3>2. [k \in {} |-> 0] \in Injection({}, 1..0)
      BY DEF Injection, IsInjective
    <3> QED BY <2>2, <3>1, <3>2 DEF Covered
  <2>4. Limited
    BY <2>2 DEF Limited
  <2> QED BY <2>1, <2>2, <2>3, <2>4 DEF RateInv, OneAtSlice, AtCounts
<1>2. UpInv /\ RateInv /\ [UpNext]_upVars => (UpInv /\ RateInv)'
  BY UpStep, RateStep
<1>3. RateInv => Limited
  BY DEF RateInv, Limited
<1> QED BY <1>1, <1>2, <1>3, PTL DEF UpSpec

-------------------------------------------------------------------------------------
\* The websocket server.

WsSpec == WsInit /\ [][WsNext]_wsVars

\* What cutting a client out of the slice leaves.
LEMMA CutOut ==
    ASSUME NEW s \in Seq(Apps), NEW a \in ToSet(s)
    PROVE  \E k \in 1..Len(s) :
              /\ s[k] = a
              /\ Without(s, a) \in Seq(Apps)
              /\ Len(Without(s, a)) = Len(s) - 1
              /\ \A i \in 1 .. Len(s) - 1 : Without(s, a)[i] = IF i < k THEN s[i] ELSE s[i + 1]
<1> DEFINE I == {i \in 1..Len(s) : s[i] = a}
           k == Min(I)
<1>1. I # {} /\ \E i \in 1..Len(s) : s[i] = a
  BY DEF ToSet
<1>2. Without(s, a) = SubSeq(s, 1, k - 1) \o SubSeq(s, k + 1, Len(s))
  BY <1>1 DEF Without, RemoveFirst, RemoveAt, SelectInSeq
<1>3. k \in I
  <2>1. I \subseteq Nat
    OBVIOUS
  <2> HIDE DEF I
  <2>2. \E x \in I : \A y \in I : x =< y
    BY <1>1, <2>1, Least
  <2> QED BY <2>2, Zenon DEF Min
<1>4. k \in 1..Len(s) /\ s[k] = a
  BY <1>3
<1> HIDE DEF k
<1> DEFINE p == SubSeq(s, 1, k - 1)
           q == SubSeq(s, k + 1, Len(s))
<1>5. p \in Seq(Apps) /\ Len(p) = k - 1 /\ \A i \in 1 .. k - 1 : p[i] = s[i]
  BY <1>4, SubSeqProperties
<1>6. q \in Seq(Apps) /\ Len(q) = Len(s) - k /\ \A i \in 1 .. Len(s) - k : q[i] = s[k + i]
  BY <1>4, SubSeqProperties
<1> HIDE DEF p, q
<1>7. p \o q \in Seq(Apps) /\ Len(p \o q) = Len(s) - 1
  BY <1>4, <1>5, <1>6, ConcatProperties
<1>8. \A i \in 1 .. Len(s) - 1 : (p \o q)[i] = IF i < k THEN s[i] ELSE s[i + 1]
  <2> SUFFICES ASSUME NEW i \in 1 .. Len(s) - 1
               PROVE  (p \o q)[i] = IF i < k THEN s[i] ELSE s[i + 1]
    OBVIOUS
  <2>1. (p \o q)[i] = IF i <= Len(p) THEN p[i] ELSE q[i - Len(p)]
    BY <1>4, <1>5, <1>6, ConcatProperties
  <2>2. CASE i < k
    BY <1>4, <1>5, <2>1, <2>2
  <2>3. CASE ~(i < k)
    <3>1. i - Len(p) \in 1 .. Len(s) - k /\ k + (i - Len(p)) = i + 1
      BY <1>4, <1>5, <2>3
    <3> QED BY <1>4, <1>5, <1>6, <2>1, <2>3, <3>1
  <2> QED BY <2>2, <2>3
<1> QED BY <1>2, <1>4, <1>7, <1>8 DEF p, q

EventType ==
    [at : {"idle", "sending", "done"}, view : Seq(Apps), next : Nat \ {0}, sent : Seq(Apps), calm : BOOLEAN]

WsTypeOK ==
    /\ clients \in Seq(Apps)
    /\ app \in [Apps -> {"away", "joining", "here", "leaving"}]
    /\ saw \in [Apps -> Seq(Apps)]
    /\ mixed \subseteq Apps
    /\ event \in [Events -> EventType]

\* A slice holds a client once, or not at all.
HasOnce(s, a) == \E i \in 1..Len(s) : s[i] = a /\ \A j \in 1..Len(s) : s[j] = a => j = i
Lacks(s, a) == \A i \in 1..Len(s) : s[i] # a

\* What a slice holds of a client fits where the client is.
Fits(s, a) ==
    /\ app[a] \in {"here", "leaving"} => HasOnce(s, a)
    /\ app[a] \in {"away", "joining"} => Lacks(s, a)

\* A client that met nobody at the slice was alone there, and so is right in the
\* slice and in every copy that will be written back.
Unmixed ==
    \A a \in Apps \ mixed :
        /\ Fits(clients, a)
        /\ a \in AtSlice => AtSlice = {a}
        /\ \A b \in AtSlice : Fits(saw[b], a)

\* What an event was sent to, when nobody came or went.
Follows(v, slice) ==
    v.at # "idle" /\ v.calm =>
        /\ Len(v.sent) = v.next - 1 /\ v.next <= Len(v.view) + 1
        /\ \A i \in 1 .. v.next - 1 : v.sent[i] = v.view[i]
        /\ v.at = "sending" => v.view = slice
        /\ v.at = "done" => v.next = Len(v.view) + 1

WsInv == WsTypeOK /\ Unmixed /\ \A e \in Events : Follows(event[e], clients)

\* An append adds the one client and moves no other.
LEMMA Joined ==
    ASSUME NEW s \in Seq(Apps), NEW a \in Apps
    PROVE  /\ Append(s, a) \in Seq(Apps)
           /\ Lacks(s, a) => HasOnce(Append(s, a), a)
           /\ \A c \in Apps \ {a} : /\ HasOnce(s, c) => HasOnce(Append(s, a), c)
                                    /\ Lacks(s, c) => Lacks(Append(s, a), c)
<1> DEFINE t == Append(s, a)
<1>1. /\ t \in Seq(Apps) /\ Len(t) = Len(s) + 1 /\ t[Len(s) + 1] = a /\ Len(s) \in Nat
      /\ \A i \in 1..Len(s) : t[i] = s[i]
  BY AppendProperties
<1> HIDE DEF t
<1>2. Lacks(s, a) => HasOnce(t, a)
  <2> SUFFICES ASSUME Lacks(s, a) PROVE HasOnce(t, a)
    OBVIOUS
  <2>1. Len(t) \in 1..Len(t) /\ t[Len(t)] = a
    BY <1>1
  <2>2. \A j \in 1..Len(t) : t[j] = a => j = Len(t)
    BY <1>1 DEF Lacks
  <2> QED BY <2>1, <2>2 DEF HasOnce
<1>3. ASSUME NEW c \in Apps \ {a}, HasOnce(s, c) PROVE HasOnce(t, c)
  <2>1. PICK i \in 1..Len(s) : s[i] = c /\ \A j \in 1..Len(s) : s[j] = c => j = i
    BY <1>3 DEF HasOnce
  <2>2. i \in 1..Len(t) /\ t[i] = c /\ \A j \in 1..Len(t) : t[j] = c => j = i
    BY <1>1, <2>1
  <2> QED BY <2>2 DEF HasOnce
<1>4. \A c \in Apps \ {a} : Lacks(s, c) => Lacks(t, c)
  BY <1>1 DEF Lacks
<1> QED BY <1>1, <1>2, <1>3, <1>4 DEF t

\* A cut takes the one client out and no other.
LEMMA Left ==
    ASSUME NEW s \in Seq(Apps), NEW a \in ToSet(s)
    PROVE  /\ Without(s, a) \in Seq(Apps)
           /\ HasOnce(s, a) => Lacks(Without(s, a), a)
           /\ \A c \in Apps \ {a} : /\ HasOnce(s, c) => HasOnce(Without(s, a), c)
                                    /\ Lacks(s, c) => Lacks(Without(s, a), c)
<1> DEFINE t == Without(s, a)
<1>1. PICK k \in 1..Len(s) :
         /\ s[k] = a /\ t \in Seq(Apps) /\ Len(t) = Len(s) - 1
         /\ \A i \in 1 .. Len(s) - 1 : t[i] = IF i < k THEN s[i] ELSE s[i + 1]
  BY CutOut
<1> HIDE DEF t
<1>2. ASSUME HasOnce(s, a) PROVE Lacks(t, a)
  <2>1. \A j \in 1..Len(s) : s[j] = a => j = k
    BY <1>1, <1>2 DEF HasOnce
  <2>2. ASSUME NEW i \in 1..Len(t) PROVE t[i] # a
    <3>1. CASE i < k
      BY <1>1, <2>1, <3>1
    <3>2. CASE ~(i < k)
      <4>1. i + 1 \in 1..Len(s) /\ i + 1 # k
        BY <1>1, <3>2
      <4> QED BY <1>1, <2>1, <3>2, <4>1
    <3> QED BY <3>1, <3>2
  <2> QED BY <2>2 DEF Lacks
<1>3. ASSUME NEW c \in Apps \ {a}, HasOnce(s, c) PROVE HasOnce(t, c)
  <2>1. PICK i \in 1..Len(s) : s[i] = c /\ \A j \in 1..Len(s) : s[j] = c => j = i
    BY <1>3 DEF HasOnce
  <2>2. i # k
    BY <1>1, <1>3, <2>1
  <2> DEFINE m == IF i < k THEN i ELSE i - 1
  <2>3. m \in 1..Len(t) /\ t[m] = c
    BY <1>1, <2>1, <2>2
  <2>4. \A j \in 1..Len(t) : t[j] = c => j = m
    <3> SUFFICES ASSUME NEW j \in 1..Len(t), t[j] = c PROVE j = m
      OBVIOUS
    <3>1. CASE j < k
      BY <1>1, <2>1, <3>1
    <3>2. CASE ~(j < k)
      <4>1. j + 1 \in 1..Len(s) /\ s[j + 1] = c
        BY <1>1, <3>2
      <4>2. j + 1 = i
        BY <2>1, <4>1
      <4> QED BY <1>1, <3>2, <4>2
    <3> QED BY <3>1, <3>2
  <2> QED BY <2>3, <2>4 DEF HasOnce
<1>4. \A c \in Apps \ {a} : Lacks(s, c) => Lacks(t, c)
  BY <1>1 DEF Lacks
<1> QED BY <1>1, <1>2, <1>3, <1>4 DEF t

\* A goroutine comes to the slice and reads it.
LEMMA Approach ==
    ASSUME WsInv, NEW a \in Apps, NEW to,
           \/ app[a] = "away" /\ to = "joining"
           \/ app[a] = "here" /\ to = "leaving",
           app' = [app EXCEPT ![a] = to],
           saw' = [saw EXCEPT ![a] = clients],
           mixed' = IF AtSlice = {} THEN mixed ELSE mixed \cup {a} \cup AtSlice,
           clients' = clients
    PROVE  Unmixed'
<1> USE DEF WsInv, WsTypeOK
<1>1. app'[a] = to /\ \A c \in Apps \ {a} : app'[c] = app[c]
  OBVIOUS
<1>2. saw'[a] = clients /\ \A c \in Apps \ {a} : saw'[c] = saw[c]
  OBVIOUS
<1>3. AtSlice' = AtSlice \cup {a}
  BY <1>1 DEF AtSlice
<1>4. \A s : \A c \in Apps : Fits(s, c) => Fits(s, c)'
  BY <1>1 DEF Fits, HasOnce, Lacks
<1>5. ASSUME NEW c \in Apps \ mixed'
      PROVE  /\ Fits(clients, c)'
             /\ c \in AtSlice' => AtSlice' = {c}
             /\ \A b \in AtSlice' : Fits(saw[b], c)'
  <2>1. c \in Apps \ mixed /\ (AtSlice # {} => c # a /\ c \notin AtSlice)
    BY <1>5
  <2>2. Fits(clients, c) /\ \A b \in AtSlice : Fits(saw[b], c)
    BY <2>1 DEF Unmixed
  <2>3. c \in AtSlice' => AtSlice' = {c}
    BY <1>3, <2>1
  <2>4. Fits(clients, c)'
    BY <1>4, <2>2 DEF Fits, HasOnce, Lacks
  <2>5. ASSUME NEW b \in AtSlice' PROVE Fits(saw[b], c)'
    <3>1. CASE b = a
      BY <1>2, <1>4, <2>2, <3>1 DEF Fits, HasOnce, Lacks
    <3>2. CASE b # a
      <4>1. b \in Apps \ {a} /\ b \in AtSlice /\ saw'[b] = saw[b]
        BY <1>2, <1>3, <2>5, <3>2 DEF AtSlice
      <4>2. Fits(saw[b], c)
        BY <2>2, <4>1
      <4> QED BY <1>4, <4>1, <4>2 DEF Fits, HasOnce, Lacks
    <3> QED BY <3>1, <3>2
  <2> QED BY <2>3, <2>4, <2>5
<1> QED BY <1>5 DEF Unmixed

\* A goroutine writes its copy back.
LEMMA Withdraw ==
    ASSUME WsInv, NEW a \in AtSlice, NEW to \in {"here", "away"},
           app' = [app EXCEPT ![a] = to],
           saw' = [saw EXCEPT ![a] = <<>>],
           mixed' = mixed,
           \A c \in Apps \ {a} : c \notin mixed => Fits(clients', c),
           a \notin mixed => /\ to = "here" => HasOnce(clients', a)
                             /\ to = "away" => Lacks(clients', a)
    PROVE  Unmixed'
<1> USE DEF WsInv, WsTypeOK
<1>1. a \in Apps /\ app'[a] = to /\ \A c \in Apps \ {a} : app'[c] = app[c] /\ saw'[c] = saw[c]
  BY DEF AtSlice
<1>2. AtSlice' = AtSlice \ {a}
  BY <1>1 DEF AtSlice
<1>3. \A c \in Apps \ {a} : \A s : Fits(s, c) => (app'[c] \in {"here", "leaving"} => HasOnce(s, c))
                                              /\ (app'[c] \in {"away", "joining"} => Lacks(s, c))
  BY <1>1 DEF Fits
<1>4. ASSUME NEW c \in Apps \ mixed
      PROVE  /\ Fits(clients, c)'
             /\ c \in AtSlice' => AtSlice' = {c}
             /\ \A b \in AtSlice' : Fits(saw[b], c)'
  <2>1. CASE c = a
    <3>1. AtSlice = {a}
      BY <1>4, <2>1 DEF Unmixed
    <3>2. AtSlice' = {}
      BY <1>2, <3>1
    <3> QED BY <1>1, <1>4, <2>1, <3>2 DEF Fits, HasOnce, Lacks
  <2>2. CASE c # a
    <3>1. c \notin AtSlice
      BY <1>4, <2>2 DEF Unmixed
    <3>2. Fits(clients, c)'
      BY <1>3, <1>4, <2>2 DEF Fits, HasOnce, Lacks
    <3>3. ASSUME NEW b \in AtSlice' PROVE Fits(saw[b], c)'
      <4>1. b \in AtSlice /\ b \in Apps \ {a} /\ saw'[b] = saw[b]
        BY <1>1, <1>2, <3>3 DEF AtSlice
      <4>2. Fits(saw[b], c)
        BY <1>4, <4>1 DEF Unmixed
      <4> QED BY <1>3, <1>4, <2>2, <4>1, <4>2 DEF Fits, HasOnce, Lacks
    <3> QED BY <1>2, <3>1, <3>2, <3>3
  <2> QED BY <2>1, <2>2
<1> QED BY <1>4 DEF Unmixed

\* What an event's goroutine is when it has taken hold of the slice, and when
\* it has written to one more.
LEMMA TakesHold ==
    ASSUME NEW v \in EventType, NEW s
    PROVE  [v EXCEPT !.at = "sending", !.view = s]
             = [at |-> "sending", view |-> s, next |-> v.next, sent |-> v.sent, calm |-> v.calm]
<1> DEFINE m == [v EXCEPT !.at = "sending"]
<1>1. m = [at |-> "sending", view |-> v.view, next |-> v.next, sent |-> v.sent, calm |-> v.calm]
  BY DEF EventType
<1>2. [v EXCEPT !.at = "sending", !.view = s] = [m EXCEPT !.view = s]
  OBVIOUS
<1> HIDE DEF m
<1> QED BY <1>1, <1>2

LEMMA Advances ==
    ASSUME NEW v \in EventType, NEW n, NEW s
    PROVE  [v EXCEPT !.next = n, !.sent = s]
             = [at |-> v.at, view |-> v.view, next |-> n, sent |-> s, calm |-> v.calm]
<1> DEFINE m == [v EXCEPT !.next = n]
<1>1. m = [at |-> v.at, view |-> v.view, next |-> n, sent |-> v.sent, calm |-> v.calm]
  BY DEF EventType
<1>2. [v EXCEPT !.next = n, !.sent = s] = [m EXCEPT !.sent = s]
  OBVIOUS
<1> HIDE DEF m
<1> QED BY <1>1, <1>2

\* Steps that are not at the slice.
LEMMA AwayFromSlice ==
    ASSUME Unmixed, UNCHANGED <<clients, app, saw, mixed>>
    PROVE  Unmixed'
  BY DEF Unmixed, AtSlice, Fits, HasOnce, Lacks

\* The inductive step, one action at a time.
LEMMA WsStep ==
    ASSUME WsInv, [WsNext]_wsVars
    PROVE  WsInv'
<1>t. WsTypeOK /\ Unmixed /\ \A e \in Events : Follows(event[e], clients)
  BY DEF WsInv
<1>e. UNCHANGED <<clients, event>> => \A e \in Events : Follows(event'[e], clients')
  BY <1>t DEF Follows
<1>d. event' = Disturbed => event' \in [Events -> EventType] /\ \A e \in Events : ~event'[e].calm
  <2>1. ASSUME NEW e \in Events PROVE Disturbed[e] \in EventType /\ ~Disturbed[e].calm
    <3>1. event[e] \in EventType
      BY <1>t DEF WsTypeOK
    <3>2. Disturbed[e] = [at |-> event[e].at, view |-> event[e].view, next |-> event[e].next,
                          sent |-> event[e].sent, calm |-> FALSE]
      BY <3>1 DEF Disturbed, EventType
    <3> QED BY <3>1, <3>2 DEF EventType
  <2>2. Disturbed = [e \in Events |-> Disturbed[e]]
    BY DEF Disturbed
  <2> HIDE DEF Disturbed
  <2> QED BY <2>1, <2>2
<1>f. (\A e \in Events : ~event'[e].calm) => \A e \in Events : Follows(event'[e], clients')
  BY DEF Follows
<1>1. ASSUME NEW a \in Apps, Connect(a) PROVE WsInv'
  <2>1. WsTypeOK'
    BY <1>t, <1>1 DEF Connect, WsTypeOK, AtSlice
  <2>2. Unmixed'
    BY <1>1, Approach DEF Connect
  <2> QED BY <1>1, <1>e, <2>1, <2>2 DEF Connect, WsInv
<1>2. ASSUME NEW a \in Apps, Registered(a) PROVE WsInv'
  <2>1. /\ a \in AtSlice /\ saw[a] \in Seq(Apps) /\ clients' = Append(saw[a], a)
        /\ app[a] = "joining"
        /\ app' = [app EXCEPT ![a] = "here"] /\ saw' = [saw EXCEPT ![a] = <<>>]
        /\ event' = Disturbed /\ mixed' = mixed
    BY <1>t, <1>2 DEF Registered, AtSlice, WsTypeOK
  <2>2. WsTypeOK'
    <3>1. clients' \in Seq(Apps)
      BY <2>1, Joined
    <3> QED BY <1>t, <1>d, <2>1, <3>1 DEF WsTypeOK
  <2>3. \A c \in Apps \ {a} : c \notin mixed => Fits(clients', c)
    BY <1>t, <2>1, Joined DEF Unmixed, Fits
  <2>4. a \notin mixed => HasOnce(clients', a)
    BY <1>t, <2>1, Joined DEF Unmixed, Fits
  <2>5. Unmixed'
    BY <2>1, <2>3, <2>4, Withdraw
  <2> QED BY <1>d, <1>f, <2>1, <2>2, <2>5 DEF WsInv
<1>3. ASSUME NEW a \in Apps, Leave(a) PROVE WsInv'
  <2>1. WsTypeOK'
    BY <1>t, <1>3 DEF Leave, WsTypeOK, AtSlice
  <2>2. Unmixed'
    BY <1>3, Approach DEF Leave
  <2> QED BY <1>3, <1>e, <2>1, <2>2 DEF Leave, WsInv
<1>4. ASSUME NEW a \in Apps, Unregistered(a) PROVE WsInv'
  <2>1. /\ a \in AtSlice /\ saw[a] \in Seq(Apps) /\ app[a] = "leaving"
        /\ clients' = IF a \in ToSet(saw[a]) THEN Without(saw[a], a) ELSE clients
        /\ app' = [app EXCEPT ![a] = "away"] /\ saw' = [saw EXCEPT ![a] = <<>>]
        /\ event' = Disturbed /\ mixed' = mixed
    BY <1>t, <1>4 DEF Unregistered, AtSlice, WsTypeOK
  <2>2. WsTypeOK'
    <3>1. clients' \in Seq(Apps)
      BY <1>t, <2>1, Left DEF WsTypeOK
    <3> QED BY <1>t, <1>d, <2>1, <3>1 DEF WsTypeOK
  <2>3. \A c \in Apps \ {a} : c \notin mixed => Fits(clients', c)
    BY <1>t, <2>1, Left DEF Unmixed, Fits
  <2>4. a \notin mixed => Lacks(clients', a)
    <3> SUFFICES ASSUME a \notin mixed PROVE Lacks(clients', a)
      OBVIOUS
    <3>1. HasOnce(saw[a], a)
      BY <1>t, <2>1 DEF Unmixed, Fits, AtSlice
    <3>2. a \in ToSet(saw[a])
      BY <2>1, <3>1 DEF HasOnce, ToSet
    <3> QED BY <2>1, <3>1, <3>2, Left
  <2>5. Unmixed'
    BY <2>1, <2>3, <2>4, Withdraw
  <2> QED BY <1>d, <1>f, <2>1, <2>2, <2>5 DEF WsInv
<1>5. ASSUME NEW a \in Apps, AnswerTo(a) PROVE WsInv'
  BY <1>5, <1>t, <1>e, AwayFromSlice DEF AnswerTo, WsInv, WsTypeOK
<1>6. ASSUME NEW e \in Events, Push(e) PROVE WsInv'
  <2>1. /\ event' = [event EXCEPT ![e] = [at |-> "sending", view |-> clients, next |-> 1,
                                          sent |-> <<>>, calm |-> TRUE]]
        /\ UNCHANGED <<clients, app, saw, mixed>>
    <3>1. [NoEvent EXCEPT !.at = "sending", !.view = clients]
            = [at |-> "sending", view |-> clients, next |-> 1, sent |-> <<>>, calm |-> TRUE]
      <4>1. /\ NoEvent \in EventType
            /\ NoEvent.next = 1 /\ NoEvent.sent = <<>> /\ NoEvent.calm = TRUE
        BY DEF NoEvent, EventType
      <4>2. [NoEvent EXCEPT !.at = "sending", !.view = clients]
              = [at |-> "sending", view |-> clients, next |-> NoEvent.next,
                 sent |-> NoEvent.sent, calm |-> NoEvent.calm]
        BY <4>1, TakesHold
      <4> QED BY <4>1, <4>2
    <3> QED BY <1>6, <3>1 DEF Push
  <2>2. WsTypeOK'
    BY <1>t, <2>1 DEF WsTypeOK, EventType
  <2>3. Follows(event'[e], clients')
    BY <1>t, <2>1 DEF WsTypeOK, Follows
  <2>4. \A f \in Events \ {e} : Follows(event'[f], clients')
    BY <1>t, <2>1 DEF WsTypeOK, Follows
  <2> QED BY <1>t, <2>1, <2>2, <2>3, <2>4, AwayFromSlice DEF WsInv
<1>7. ASSUME NEW e \in Events, SendTo(e) PROVE WsInv'
  <2>1. PICK s \in {event[e].view, clients} :
          /\ event[e].next <= Len(s)
          /\ event' = [event EXCEPT ![e].next = @ + 1, ![e].sent = Append(@, s[event[e].next])]
    BY <1>7 DEF SendTo
  <2> DEFINE v == event[e]
             x == s[v.next]
             w == [at |-> v.at, view |-> v.view, next |-> v.next + 1, sent |-> Append(v.sent, x), calm |-> v.calm]
  <2>2. /\ v.at = "sending" /\ v.next <= Len(v.view) /\ v.next \in Nat \ {0}
        /\ v.view \in Seq(Apps) /\ v.sent \in Seq(Apps) /\ s \in Seq(Apps) /\ v.calm \in BOOLEAN
        /\ UNCHANGED <<clients, app, saw, mixed>>
    BY <1>t, <1>7, <2>1 DEF SendTo, WsTypeOK, EventType
  <2>3. x \in Apps
    BY <2>1, <2>2
  <2>4. event' = [event EXCEPT ![e] = w]
    <3>1. v \in EventType
      BY <1>t DEF WsTypeOK
    <3>2. [v EXCEPT !.next = v.next + 1, !.sent = Append(v.sent, x)] = w
      BY <3>1, Advances
    <3>3. event' = [event EXCEPT ![e] = [v EXCEPT !.next = v.next + 1, !.sent = Append(v.sent, x)]]
      BY <1>t, <2>1 DEF WsTypeOK
    <3> QED BY <3>2, <3>3
  <2>5. /\ Append(v.sent, x) \in Seq(Apps) /\ Len(w.sent) = Len(v.sent) + 1
        /\ w.sent[Len(v.sent) + 1] = x
        /\ \A i \in 1..Len(v.sent) : w.sent[i] = v.sent[i]
    BY <2>2, <2>3, AppendProperties
  <2>6. WsTypeOK'
    <3>1. w \in EventType
      BY <2>2, <2>5 DEF EventType
    <3>2. event' \in [Events -> EventType]
      BY <1>t, <2>4, <3>1 DEF WsTypeOK
    <3> QED BY <1>t, <2>2, <3>2 DEF WsTypeOK
  <2>7. Follows(w, clients')
    <3> SUFFICES ASSUME v.calm PROVE Follows(w, clients')
      BY DEF Follows
    <3>1. /\ Len(v.sent) = v.next - 1 /\ v.view = clients
          /\ \A i \in 1 .. v.next - 1 : v.sent[i] = v.view[i]
      BY <1>t, <2>2 DEF Follows
    <3>2. x = v.view[v.next]
      BY <2>1, <3>1
    <3>3. \A i \in 1 .. v.next : w.sent[i] = v.view[i]
      <4> HIDE DEF w, x
      <4>0. v.next \in Nat
        BY <2>2
      <4>1. ASSUME NEW i \in 1 .. v.next PROVE w.sent[i] = v.view[i]
        <5>1. CASE i = v.next
          BY <2>5, <3>1, <3>2, <4>0, <5>1
        <5>2. CASE i # v.next
          <6>1. i \in 1 .. v.next - 1 /\ i \in 1..Len(v.sent)
            BY <3>1, <4>0, <5>2
          <6> QED BY <2>5, <3>1, <6>1
        <5> QED BY <5>1, <5>2
      <4> QED BY <4>1
    <3>4. w.next = v.next + 1 /\ w.view = v.view /\ w.at = "sending" /\ Len(w.sent) = v.next
      BY <2>2, <2>5, <3>1
    <3> HIDE DEF w, x
    <3> QED BY <2>2, <3>1, <3>3, <3>4 DEF Follows
  <2>8. \A f \in Events \ {e} : Follows(event'[f], clients')
    BY <1>t, <2>2, <2>4 DEF WsTypeOK, Follows
  <2>9. event'[e] = w
    BY <1>t, <2>4 DEF WsTypeOK
  <2> HIDE DEF w
  <2>10. Unmixed'
    BY <1>t, <2>2, AwayFromSlice
  <2>11. \A f \in Events : Follows(event'[f], clients')
    BY <2>7, <2>8, <2>9 DEF Follows
  <2> QED BY <2>6, <2>10, <2>11 DEF WsInv
<1>8. ASSUME NEW e \in Events, Pushed(e) PROVE WsInv'
  <2> DEFINE v == event[e]
  <2>1. /\ v.at = "sending" /\ v.next > Len(v.view)
        /\ event' = [event EXCEPT ![e] = [at |-> "done", view |-> v.view, next |-> v.next,
                                          sent |-> v.sent, calm |-> v.calm]]
        /\ UNCHANGED <<clients, app, saw, mixed>>
    <3>1. v \in EventType
      BY <1>t DEF WsTypeOK
    <3>2. [v EXCEPT !.at = "done"] = [at |-> "done", view |-> v.view, next |-> v.next,
                                      sent |-> v.sent, calm |-> v.calm]
      BY <3>1 DEF EventType
    <3>3. event' = [event EXCEPT ![e] = [v EXCEPT !.at = "done"]]
      BY <1>8 DEF Pushed
    <3> QED BY <1>8, <3>2, <3>3 DEF Pushed
  <2>2. WsTypeOK'
    BY <1>t, <2>1 DEF WsTypeOK, EventType
  <2>3. Follows(event'[e], clients')
    <3>1. v.next \in Nat /\ Len(v.view) \in Nat
      BY <1>t DEF WsTypeOK, EventType
    <3>2. v.calm => /\ Len(v.sent) = v.next - 1 /\ v.next <= Len(v.view) + 1
                    /\ \A i \in 1 .. v.next - 1 : v.sent[i] = v.view[i]
      BY <1>t, <2>1 DEF Follows
    <3>3. event'[e] = [at |-> "done", view |-> v.view, next |-> v.next, sent |-> v.sent, calm |-> v.calm]
      BY <1>t, <2>1 DEF WsTypeOK
    <3> HIDE DEF v
    <3>4. v.calm => v.next = Len(v.view) + 1
      BY <2>1, <3>1, <3>2
    <3> QED BY <3>2, <3>3, <3>4 DEF Follows
  <2>4. \A f \in Events \ {e} : Follows(event'[f], clients')
    BY <1>t, <2>1 DEF WsTypeOK, Follows
  <2> QED BY <1>t, <2>1, <2>2, <2>3, <2>4, AwayFromSlice DEF WsInv
<1>9. ASSUME NEW w \in writing, Written(w) PROVE WsInv'
  BY <1>9, <1>t, <1>e, AwayFromSlice DEF Written, WsInv, WsTypeOK
<1>10. CASE UNCHANGED wsVars
  BY <1>10, <1>t, <1>e, AwayFromSlice DEF wsVars, WsInv, WsTypeOK
<1> QED BY <1>1, <1>2, <1>3, <1>4, <1>5, <1>6, <1>7, <1>8, <1>9, <1>10 DEF WsNext

\* However many applications come and go, one that is connected is on the list
\* of those the events go to, and one that left is not, unless it met another
\* at the list (wsserver.go:82); and an event goes to everybody on it once.
THEOREM EveryoneAlwaysTold == WsSpec => []EveryoneTold
<1>1. WsInit => WsInv
  <2> SUFFICES ASSUME WsInit PROVE WsInv
    OBVIOUS
  <2>1. WsTypeOK
    BY DEF WsInit, WsTypeOK, EventType, NoEvent
  <2>2. Unmixed
    BY DEF WsInit, Unmixed, AtSlice, Fits, Lacks
  <2>3. \A e \in Events : Follows(event[e], clients)
    BY DEF WsInit, NoEvent, Follows
  <2> QED BY <2>1, <2>2, <2>3 DEF WsInv
<1>2. WsInv /\ [WsNext]_wsVars => WsInv'
  BY WsStep
<1>3. WsInv => EveryoneTold
  <2> SUFFICES ASSUME WsInv PROVE EveryoneTold
    OBVIOUS
  <2>1. ASSUME NEW a \in Apps \ mixed
        PROVE  /\ app[a] = "here" => a \in ToSet(clients)
               /\ app[a] = "away" => a \notin ToSet(clients)
    <3>1. Fits(clients, a) /\ clients \in Seq(Apps)
      BY DEF WsInv, Unmixed, WsTypeOK
    <3> QED BY <3>1 DEF Fits, HasOnce, Lacks, ToSet
  <2>2. ASSUME NEW e \in Events, event[e].at = "done", event[e].calm
        PROVE  event[e].sent = event[e].view
    <3>1. /\ event[e].sent \in Seq(Apps) /\ event[e].view \in Seq(Apps)
          /\ Len(event[e].sent) = Len(event[e].view)
          /\ \A i \in 1 .. Len(event[e].view) : event[e].sent[i] = event[e].view[i]
      <4> DEFINE v == event[e]
      <4>1. v.sent \in Seq(Apps) /\ v.view \in Seq(Apps) /\ v.next \in Nat /\ Len(v.view) \in Nat
        BY DEF WsInv, WsTypeOK, EventType
      <4>2. /\ Len(v.sent) = v.next - 1 /\ v.next = Len(v.view) + 1
            /\ \A i \in 1 .. v.next - 1 : v.sent[i] = v.view[i]
        BY <2>2 DEF WsInv, Follows
      <4> HIDE DEF v
      <4>3. v.next - 1 = Len(v.view)
        BY <4>1, <4>2
      <4> QED BY <4>1, <4>2, <4>3 DEF v
    <3> QED BY <3>1, SeqEqual
  <2> QED BY <2>1, <2>2 DEF EveryoneTold
<1> QED BY <1>1, <1>2, <1>3, PTL DEF WsSpec
=====================================================================================

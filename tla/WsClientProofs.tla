-------------------------------- MODULE WsClientProofs --------------------------------
(***************************************************************************)
(* That there is one connection to the application however often it is     *)
(* lost, and that the row of generations implements one Outbox: whatever   *)
(* breaks, nothing is written that nobody sent, and nothing twice; and     *)
(* what could not be written is on its way and never stuck.                *)
(***************************************************************************)
EXTENDS WsClient, FiniteSetTheorems, TLAPS

\* The generations as a row.  Only the last one can read, call Reconnect or
\* dial; the others have handed over and hold no connection that is up.
Row ==
    /\ \A c \in Gens : link[c] = "unused" <=> c > newest
    /\ \A c \in Gens : link[c] = "up" => c = newest
    /\ \A k \in Gens : k >= newest => conn[k] = k
    /\ \A k \in Gens : k < newest => reader[k] = "gone"
    /\ \A k \in Gens : k > newest => reader[k] = "none"
    /\ \A k \in Gens : reconnect[k] # "none" => reader[k] = "gone"

Reconnecting ==
    \A k \in Gens :
        /\ reconnect[k] \in {"called", "dialling"} => k = newest /\ link[newest] # "up"
        /\ reconnect[k] \in {"connected", "done"} => child[k] \in Gens /\ k < newest
        /\ reconnect[k] \in {"none", "called", "dialling"} => retryCount[k] <= MaxRetryAttempts
        /\ hand[k] # NoMessage => reconnect[k] = "done"

RowInv == TypeOK /\ Row /\ Reconnecting

LEMMA GenFacts ==
    /\ Gens \subseteq Nat /\ 0 \in Gens /\ Nobody \notin Gens
    /\ \A k \in Gens : Hello(k) \in Messages
    /\ Broadcasts \subseteq Messages /\ Beats \subseteq Messages
    /\ FailuresCap \in Nat \ {0} /\ MaxRetryAttempts \in Nat /\ LastGen \in Nat
  BY BoundsAssumption DEF Gens, Messages, Nobody

LEMMA InitRow == Init => RowInv
<1> SUFFICES ASSUME Init PROVE RowInv
  OBVIOUS
<1>1. TypeOK
  BY GenFacts DEF Init, TypeOK, Messages
<1>2. Row /\ Reconnecting
  BY GenFacts DEF Init, Row, Reconnecting
<1> QED BY <1>1, <1>2 DEF RowInv

\* What SendMessage changes, whether it can write or not.
LEMMA WriteEffect ==
    ASSUME TypeOK, NEW k \in Gens, NEW m \in Messages, WriteSucceeds(k, m) \/ WriteFails(k, m)
    PROVE  /\ link' \in [Gens -> {"unused", "up", "broken", "failed"}]
           /\ \A c \in Gens : link'[c] = "unused" <=> link[c] = "unused"
           /\ \A c \in Gens : link'[c] = "up" <=> link[c] = "up"
           /\ pushing' \subseteq Gens \X Messages
           /\ wire' \in Seq(Messages)
<1>1. CASE WriteSucceeds(k, m)
  BY <1>1 DEF WriteSucceeds, TypeOK
<1>2. CASE WriteFails(k, m)
  BY <1>2 DEF WriteFails, TypeOK
<1> QED BY <1>1, <1>2

\* A step of SendMessage keeps what does not depend on the rest of the step.
LEMMA WriteKeeps ==
    ASSUME RowInv, NEW k \in Gens, NEW m \in Messages, WriteSucceeds(k, m) \/ WriteFails(k, m),
           UNCHANGED <<newest, conn, cancelled, reconnect, retryCount, child, sendFailures>>,
           reader' = reader \/ (k = newest /\ reader[k] = "none"
                                /\ reader' = [reader EXCEPT ![k] = "reading"]),
           hand' \in [Gens -> Messages \cup {NoMessage}],
           \A l \in Gens : hand'[l] # NoMessage => hand'[l] = hand[l],
           sent' \subseteq Messages, posted' \subseteq Broadcasts
    PROVE  RowInv'
<1> USE DEF RowInv
<1>1. reader' \in [Gens -> {"none", "reading", "gone"}]
  BY DEF TypeOK
<1>2. TypeOK'
  BY <1>1, WriteEffect DEF TypeOK
<1>3. Row'
  <2>1. \A l \in Gens : reader'[l] # reader[l] => l = newest /\ reader[l] = "none"
    BY DEF TypeOK
  <2>2. \A l \in Gens : reader'[l] # reader[l] => reconnect[l] = "none"
    BY <2>1 DEF Row
  <2>3. \A c \in Gens : link'[c] = "unused" <=> c > newest'
    BY WriteEffect DEF Row
  <2>4. \A c \in Gens : link'[c] = "up" => c = newest'
    BY WriteEffect DEF Row
  <2>5. /\ \A l \in Gens : l >= newest' => conn'[l] = l
        /\ \A l \in Gens : l < newest' => reader'[l] = "gone"
        /\ \A l \in Gens : l > newest' => reader'[l] = "none"
        /\ \A l \in Gens : reconnect'[l] # "none" => reader'[l] = "gone"
    BY <2>1, <2>2, GenFacts DEF Row, TypeOK
  <2> QED BY <2>3, <2>4, <2>5 DEF Row
<1>4. Reconnecting'
  BY WriteEffect DEF Reconnecting, TypeOK
<1> QED BY <1>2, <1>3, <1>4

LEMMA NextRow == RowInv /\ [Next]_vars => RowInv'
<1> SUFFICES ASSUME RowInv, [Next]_vars PROVE RowInv'
  OBVIOUS
<1> USE GenFacts DEF RowInv
<1>1. ASSUME NEW m \in Broadcasts, Broadcast(m) PROVE RowInv'
  BY <1>1, WriteKeeps DEF Broadcast, linkVars, TypeOK
<1>2. ASSUME NEW k \in Gens, NEW m \in Beats, Heartbeat(k, m) PROVE RowInv'
  BY <1>2, WriteKeeps DEF Heartbeat, linkVars, TypeOK
<1>3. ASSUME NEW k \in Gens, Start(k) PROVE RowInv'
  <2>1. k = newest
    BY <1>3 DEF Start, Row, TypeOK
  <2>2. Hello(k) \in Messages /\ sent' \subseteq Messages
    BY <1>3 DEF Start, TypeOK
  <2> QED BY <1>3, <2>1, <2>2, WriteKeeps DEF Start, TypeOK
<1>4. ASSUME NEW k \in Gens, SendFailed(k) PROVE RowInv'
  <2>1. child[k] \in Gens /\ hand[k] \in Messages
    BY <1>4 DEF SendFailed, Reconnecting, TypeOK
  <2> QED BY <1>4, <2>1, WriteKeeps DEF SendFailed, linkVars, TypeOK
<1>5. ASSUME NEW c \in Gens, Break(c) PROVE RowInv'
  <2>1. TypeOK'
    BY <1>5 DEF Break, TypeOK, linkVars
  <2>2. Row'
    BY <1>5 DEF Break, Row, TypeOK, linkVars
  <2>3. Reconnecting'
    BY <1>5 DEF Break, Reconnecting, TypeOK, linkVars
  <2> QED BY <2>1, <2>2, <2>3
<1>6. ASSUME NEW k \in Gens, ReadError(k) PROVE RowInv'
  <2>1. k = newest /\ link[newest] # "up" /\ reconnect[k] = "none"
    BY <1>6 DEF ReadError, Row, TypeOK
  <2>2. TypeOK'
    BY <1>6 DEF ReadError, Moved, TypeOK, sendVars
  <2>3. Row'
    BY <1>6 DEF ReadError, Moved, Row, TypeOK, sendVars
  <2>4. Reconnecting'
    BY <1>6, <2>1 DEF ReadError, Moved, Reconnecting, TypeOK, sendVars
  <2> QED BY <2>2, <2>3, <2>4
<1>7. ASSUME NEW k \in Gens, Reconnect(k) PROVE RowInv'
  <2>1. TypeOK'
    BY <1>7 DEF Reconnect, Moved, TypeOK, sendVars
  <2>2. Row'
    BY <1>7 DEF Reconnect, Moved, Row, TypeOK, sendVars
  <2>3. Reconnecting'
    BY <1>7 DEF Reconnect, Moved, Reconnecting, TypeOK, sendVars
  <2> QED BY <2>1, <2>2, <2>3
<1>8. ASSUME NEW k \in Gens, DialFails(k) PROVE RowInv'
  <2>1. TypeOK'
    <3>1. retryCount[k] \in Nat /\ retryCount[k] <= MaxRetryAttempts
      BY <1>8 DEF DialFails, Reconnecting, TypeOK
    <3>2. retryCount' \in [Gens -> 0..(MaxRetryAttempts + 1)]
      <4> DEFINE tried == retryCount[k] + 1
      <4>1. retryCount' = [retryCount EXCEPT ![k] = tried]
        BY <1>8 DEF DialFails
      <4>2. tried \in 0..(MaxRetryAttempts + 1)
        BY <3>1, GenFacts
      <4> HIDE DEF tried
      <4>3. retryCount \in [Gens -> 0..(MaxRetryAttempts + 1)]
        BY DEF TypeOK
      <4> QED BY <4>1, <4>2, <4>3
    <3>3. /\ reconnect' \in [Gens -> {"none", "called", "dialling", "connected", "done", "gaveUp"}]
          /\ UNCHANGED <<sendVars, newest, conn, reader, cancelled, child, sendFailures, hand,
                         sent, posted>>
      BY <1>8 DEF DialFails, Moved, TypeOK
    <3> QED BY <3>2, <3>3 DEF TypeOK, sendVars
  <2>2. Row'
    BY <1>8 DEF DialFails, Moved, Row, TypeOK, sendVars
  <2>3. Reconnecting'
    BY <1>8 DEF DialFails, Moved, Reconnecting, TypeOK, sendVars
  <2> QED BY <2>1, <2>2, <2>3
<1>9. ASSUME NEW k \in Gens, DialSucceeds(k) PROVE RowInv'
  <2>1. /\ k = newest /\ link[newest] # "up" /\ newest + 1 \in Gens
        /\ reader[k] = "gone" /\ newest \in Nat
    <3>1. /\ k = newest /\ link[newest] # "up" /\ reader[k] = "gone"
          /\ newest \in Nat
      BY <1>9 DEF DialSucceeds, Reconnecting, Row, TypeOK
    <3>2. newest + 1 \in Gens
      BY <1>9, <3>1 DEF DialSucceeds, TypeOK, Gens
    <3> QED BY <3>1, <3>2
  <2>2. TypeOK'
    BY <1>9, <2>1 DEF DialSucceeds, Moved, TypeOK
  <2>3. Row'
    <3>1. /\ newest' = newest + 1 /\ UNCHANGED <<reader, conn>>
          /\ link'[newest + 1] = "up" /\ \A c \in Gens : c # newest + 1 => link'[c] = link[c]
          /\ reconnect[k] = "dialling" /\ reconnect'[k] = "connected"
          /\ \A c \in Gens : c # k => reconnect'[c] = reconnect[c]
      BY <1>9, <2>1 DEF DialSucceeds, Moved, TypeOK
    <3>2. \A c \in Gens : c \in Nat
      BY GenFacts
    <3> QED BY <1>9, <2>1, <3>1, <3>2 DEF Row
  <2>4. Reconnecting'
    BY <1>9, <2>1 DEF DialSucceeds, Moved, Reconnecting, TypeOK
  <2> QED BY <2>2, <2>3, <2>4
<1>10. ASSUME NEW k \in Gens, Swap(k) PROVE RowInv'
  <2>1. child[k] \in Gens /\ k < newest
    BY <1>10 DEF Swap, Reconnecting
  <2>2. TypeOK'
    BY <1>10, <2>1 DEF Swap, Moved, TypeOK, sendVars
  <2>3. Row'
    BY <1>10, <2>1 DEF Swap, Moved, Row, TypeOK, sendVars
  <2>4. Reconnecting'
    BY <1>10, <2>1 DEF Swap, Moved, Reconnecting, TypeOK, sendVars
  <2> QED BY <2>2, <2>3, <2>4
<1>11. ASSUME NEW k \in Gens, TakeFailed(k) PROVE RowInv'
  <2>1. /\ Head(sendFailures[k]) \in Messages
        /\ Tail(sendFailures[k]) \in Seq(Messages)
        /\ Len(Tail(sendFailures[k])) <= FailuresCap
    BY <1>11 DEF TakeFailed, TypeOK
  <2>2. TypeOK'
    BY <1>11, <2>1 DEF TakeFailed, TypeOK, sendVars, linkVars
  <2>3. /\ UNCHANGED <<link, newest, reader, conn, reconnect, child, retryCount>>
        /\ reconnect[k] = "done" /\ \A c \in Gens : c # k => hand'[c] = hand[c]
    BY <1>11 DEF TakeFailed, TypeOK, sendVars, linkVars
  <2>4. Row'
    BY <2>3 DEF Row
  <2>5. Reconnecting'
    BY <2>3 DEF Reconnecting
  <2> QED BY <2>2, <2>4, <2>5
<1>12. ASSUME NEW k \in Gens, NEW m \in Messages, Push(k, m) PROVE RowInv'
  <2> DEFINE longer == Append(sendFailures[k], m)
  <2>0. /\ longer \in Seq(Messages) /\ Len(longer) <= FailuresCap
        /\ sendFailures' = [sendFailures EXCEPT ![k] = longer]
    BY <1>12 DEF Push, TypeOK
  <2> HIDE DEF longer
  <2>a. /\ sendFailures' \in [Gens -> Seq(Messages)]
        /\ \A l \in Gens : Len(sendFailures'[l]) <= FailuresCap
    BY <2>0 DEF TypeOK
  <2>b. /\ pushing' \subseteq Gens \X Messages
        /\ UNCHANGED <<link, wire, newest, conn, reader, cancelled, reconnect, retryCount,
                       child, hand, sent, posted>>
    BY <1>12 DEF Push, TypeOK, linkVars
  <2>1. TypeOK'
    BY <2>a, <2>b DEF TypeOK
  <2>2. Row' /\ Reconnecting'
    BY <1>12 DEF Push, Row, Reconnecting, TypeOK, linkVars
  <2> QED BY <2>1, <2>2
<1>13. CASE UNCHANGED vars
  BY <1>13 DEF vars, sendVars, linkVars, TypeOK, Row, Reconnecting
<1> QED
  BY <1>1, <1>2, <1>3, <1>4, <1>5, <1>6, <1>7, <1>8, <1>9, <1>10, <1>11, <1>12, <1>13
  DEF Next, ClientStep

LEMMA RowAlways == Spec => []RowInv
  BY InitRow, NextRow, PTL DEF Spec

\* Every variable of the clients keeps its type, for any number of
\* generations, attempts and messages, and any capacity of the channels.
THEOREM ClientTypeCorrect == Spec => []TypeOK
<1>1. RowInv => TypeOK
  BY DEF RowInv
<1> QED BY <1>1, RowAlways, PTL

\* The bot never holds two connections to the application, however many times
\* it reconnects.
THEOREM OneLinkAlways == Spec => []OneLink
<1>1. RowInv => OneLink
  BY DEF RowInv, Row, OneLink
<1> QED BY <1>1, RowAlways, PTL
---------------------------------------------------------------------------------------
\* Where a message that was accepted can be; each is in one of these places once.
Waits(k, m) == <<k, m>> \in pushing
Written(m) == \E i \in DOMAIN wire : wire[i] = m

OnePlace ==
    /\ \A m \in Messages, k, l \in Gens : Waits(k, m) /\ Waits(l, m) => k = l
    /\ \A k, l \in Gens : hand[k] # NoMessage /\ hand[k] = hand[l] => k = l
    /\ \A m \in Messages, k, l \in Gens : Waits(k, m) => hand[l] # m
    /\ \A m \in Messages, k \in Gens : Waits(k, m) => ~Written(m)
    /\ \A k \in Gens : hand[k] # NoMessage => ~Written(hand[k])

\* The same for what is in the channels.
OnlyHere(k, i, m) ==
    /\ \A l \in Gens : \A j \in DOMAIN sendFailures[l] :
          sendFailures[l][j] = m => k = l /\ i = j
    /\ \A l \in Gens : ~Waits(l, m) /\ hand[l] # m
    /\ ~Written(m)
    /\ m \in sent
OneQueued ==
    \A k \in Gens : \A i \in DOMAIN sendFailures[k] : OnlyHere(k, i, sendFailures[k][i])

AllAccepted ==
    /\ \A m \in Messages, k \in Gens : Waits(k, m) => m \in sent
    /\ \A k \in Gens : hand[k] \in sent \cup {NoMessage}
    /\ \A m \in Messages : Written(m) => m \in sent
    /\ \A k \in Gens : reader[k] = "none" => Hello(k) \notin sent

BoxInv == RowInv /\ OnePlace /\ OneQueued /\ AllAccepted

LEMMA NoMessageIsNone == NoMessage \notin Messages
<1>1. \A k \in Gens : NoMessage # Hello(k)
  <2> SUFFICES ASSUME NEW k \in Gens PROVE Len(NoMessage) # Len(Hello(k))
    OBVIOUS
  <2> QED BY DEF NoMessage, Hello
<1> QED BY <1>1, MessagesAssumption DEF Messages

LEMMA InitBox == Init => BoxInv /\ Box!Init
<1> SUFFICES ASSUME Init PROVE BoxInv /\ Box!Init
  OBVIOUS
<1>1. OnePlace /\ OneQueued /\ AllAccepted
  BY DEF Init, OnePlace, OneQueued, OnlyHere, AllAccepted, Waits, Written
<1> QED BY <1>1, InitRow DEF BoxInv, Init, Box!Init

LEMMA AppendWritten ==
    ASSUME wire \in Seq(Messages), NEW m \in Messages, wire' = Append(wire, m)
    PROVE  \A x : Written(x)' <=> Written(x) \/ x = m
<1>1. /\ DOMAIN wire = 1..Len(wire) /\ DOMAIN wire' = 1..(Len(wire) + 1)
      /\ Len(wire) \in Nat
      /\ \A i \in 1..Len(wire) : wire'[i] = wire[i]
      /\ wire'[Len(wire) + 1] = m
  OBVIOUS
<1> QED BY <1>1 DEF Written

\* What SendMessage does with a message that is nowhere else.
LEMMA WritePlaces ==
    ASSUME TypeOK, NEW k \in Gens, NEW m \in Messages, WriteSucceeds(k, m) \/ WriteFails(k, m)
    PROVE  \/ /\ \A l \in Gens, x \in Messages : Waits(l, x)' <=> Waits(l, x)
              /\ \A x : Written(x)' <=> Written(x) \/ x = m
              /\ wire' = Append(wire, m)
           \/ /\ \A l \in Gens, x \in Messages : Waits(l, x)' <=> Waits(l, x) \/ (l = k /\ x = m)
              /\ \A x : Written(x)' <=> Written(x)
              /\ wire' = wire
<1>1. CASE WriteSucceeds(k, m)
  <2>1. \A l \in Gens, x \in Messages : Waits(l, x)' <=> Waits(l, x)
    BY <1>1 DEF WriteSucceeds, Waits
  <2>2. wire' = Append(wire, m) /\ wire \in Seq(Messages)
    BY <1>1 DEF WriteSucceeds, TypeOK
  <2> QED BY <2>1, <2>2, AppendWritten
<1>2. CASE WriteFails(k, m)
  <2>1. \A l \in Gens, x \in Messages : Waits(l, x)' <=> Waits(l, x) \/ (l = k /\ x = m)
    BY <1>2 DEF WriteFails, Waits
  <2>2. wire' = wire
    BY <1>2 DEF WriteFails
  <2> QED BY <2>1, <2>2 DEF Written
<1> QED BY <1>1, <1>2

\* Where messages can be.
LEMMA Holders ==
    ASSUME TypeOK
    PROVE  /\ \A l \in Gens : hand[l] \in Messages \cup {NoMessage}
           /\ \A l \in Gens : sendFailures[l] \in Seq(Messages)
           /\ \A l \in Gens : \A i \in DOMAIN sendFailures[l] : sendFailures[l][i] \in Messages
<1>1. hand \in [Gens -> Messages \cup {NoMessage}] /\ sendFailures \in [Gens -> Seq(Messages)]
  BY DEF TypeOK
<1>2. ASSUME NEW l \in Gens, NEW i \in DOMAIN sendFailures[l] PROVE sendFailures[l][i] \in Messages
  <2>1. sendFailures[l] \in Seq(Messages)
    BY <1>1
  <2> QED BY <1>2, <2>1
<1> QED BY <1>1, <1>2

\* SendMessage with a new message.
LEMMA AcceptStep ==
    ASSUME BoxInv, NEW k \in Gens, NEW m \in Messages \ sent,
           WriteSucceeds(k, m) \/ WriteFails(k, m),
           sent' = sent \cup {m}, UNCHANGED <<sendFailures, hand>>,
           \A l \in Gens : reader'[l] = "none" => reader[l] = "none" /\ Hello(l) # m
    PROVE  OnePlace' /\ OneQueued' /\ AllAccepted' /\ Box!Next
<1> USE GenFacts DEF BoxInv, RowInv
<1>1. /\ ~Written(m) /\ \A l \in Gens : ~Waits(l, m) /\ hand[l] # m
      /\ \A l \in Gens : \A i \in DOMAIN sendFailures[l] : sendFailures[l][i] # m
      /\ m \notin sent /\ m # NoMessage
  BY NoMessageIsNone DEF AllAccepted, OneQueued, OnlyHere
<1>2. /\ \A l \in Gens : hand[l] \in Messages \cup {NoMessage}
      /\ \A l \in Gens : \A i \in DOMAIN sendFailures[l] : sendFailures[l][i] \in Messages
  BY Holders
<1>3. OnePlace'
  <2>1. CASE /\ \A l \in Gens, x \in Messages : Waits(l, x)' <=> Waits(l, x)
             /\ \A x : Written(x)' <=> Written(x) \/ x = m
    BY <1>1, <1>2, <2>1 DEF OnePlace
  <2>2. CASE /\ \A l \in Gens, x \in Messages : Waits(l, x)' <=> Waits(l, x) \/ (l = k /\ x = m)
             /\ \A x : Written(x)' <=> Written(x)
    BY <1>1, <1>2, <2>2 DEF OnePlace
  <2> QED BY <2>1, <2>2, WritePlaces
<1>4. OneQueued'
  BY <1>1, <1>2, WritePlaces DEF OneQueued, OnlyHere
<1>5. AllAccepted'
  BY <1>1, <1>2, WritePlaces DEF AllAccepted
<1>6. Box!Next
  BY WritePlaces DEF Box!Next, Box!Accept
<1> QED BY <1>3, <1>4, <1>5, <1>6

\* Steps that leave every message where it is.
LEMMA StillStep ==
    ASSUME BoxInv, UNCHANGED <<pushing, sendFailures, hand, wire, sent>>,
           \A l \in Gens : reader'[l] = "none" => reader[l] = "none"
    PROVE  OnePlace' /\ OneQueued' /\ AllAccepted' /\ UNCHANGED <<sent, wire>>
<1>1. OnePlace'
  BY DEF BoxInv, OnePlace, Waits, Written
<1>2. OneQueued'
  BY DEF BoxInv, OneQueued, OnlyHere, Waits, Written
<1>3. AllAccepted'
  BY DEF BoxInv, AllAccepted, Waits, Written
<1> QED BY <1>1, <1>2, <1>3

LEMMA PushStep ==
    ASSUME BoxInv, NEW k \in Gens, NEW m \in Messages, Push(k, m)
    PROVE  OnePlace' /\ OneQueued' /\ AllAccepted' /\ UNCHANGED <<sent, wire>>
<1> USE GenFacts DEF BoxInv, RowInv
<1>1. /\ \A l \in Gens, x \in Messages : Waits(l, x)' <=> Waits(l, x) /\ ~(l = k /\ x = m)
      /\ UNCHANGED <<sent, wire, hand, reader>>
      /\ \A x : Written(x)' <=> Written(x)
      /\ Waits(k, m)
  BY DEF Push, Waits, Written, linkVars
<1> DEFINE n == Len(sendFailures[k]) + 1
<1>2. /\ n \in Nat \ {0} /\ n \notin DOMAIN sendFailures[k]
      /\ DOMAIN sendFailures'[k] = DOMAIN sendFailures[k] \cup {n}
      /\ sendFailures'[k][n] = m
      /\ \A i \in DOMAIN sendFailures[k] : sendFailures'[k][i] = sendFailures[k][i]
      /\ \A l \in Gens \ {k} : sendFailures'[l] = sendFailures[l]
  <2>1. sendFailures \in [Gens -> Seq(Messages)]
    BY DEF TypeOK
  <2>2. sendFailures' = [sendFailures EXCEPT ![k] = Append(sendFailures[k], m)]
    BY DEF Push
  <2>3. sendFailures[k] \in Seq(Messages)
    BY <2>1
  <2> QED BY <2>1, <2>2, <2>3
<1> HIDE DEF n
<1>3. /\ \A l \in Gens : hand[l] \in Messages \cup {NoMessage}
      /\ \A l \in Gens : \A i \in DOMAIN sendFailures[l] : sendFailures[l][i] \in Messages
  BY Holders
<1>4. /\ \A l \in Gens : \A i \in DOMAIN sendFailures[l] : sendFailures[l][i] # m
      /\ ~Written(m) /\ m \in sent /\ \A l \in Gens : hand[l] # m
  <2>1. \A l \in Gens : \A i \in DOMAIN sendFailures[l] : sendFailures[l][i] # m
    BY <1>1 DEF OneQueued, OnlyHere
  <2>2. ~Written(m) /\ \A l \in Gens : hand[l] # m
    BY <1>1 DEF OnePlace
  <2>3. m \in sent
    BY <1>1 DEF AllAccepted
  <2> QED BY <2>1, <2>2, <2>3
<1>5. OnePlace'
  BY <1>1, <1>3, <1>4 DEF OnePlace
<1>6. OneQueued'
  <2> SUFFICES ASSUME NEW l \in Gens, NEW i \in DOMAIN sendFailures'[l]
               PROVE  OnlyHere(l, i, sendFailures[l][i])'
    BY DEF OneQueued, OnlyHere
  <2>1. CASE l = k /\ i = n
    <3>1. sendFailures'[l][i] = m
      BY <2>1, <1>2
    <3>2. \A g \in Gens : \A j \in DOMAIN sendFailures'[g] :
             sendFailures'[g][j] = m => l = g /\ i = j
      BY <2>1, <1>2, <1>4
    <3>3. \A g \in Gens : ~Waits(g, m)'
      BY <1>1 DEF OnePlace
    <3> QED BY <3>1, <3>2, <3>3, <1>1, <1>4 DEF OnlyHere
  <2>2. CASE ~(l = k /\ i = n)
    <3>1. i \in DOMAIN sendFailures[l] /\ sendFailures'[l][i] = sendFailures[l][i]
      BY <2>2, <1>2
    <3> QED BY <3>1, <1>1, <1>2, <1>3, <1>4 DEF OneQueued, OnlyHere
  <2> QED BY <2>1, <2>2
<1>7. AllAccepted'
  BY <1>1 DEF AllAccepted
<1> QED BY <1>1, <1>5, <1>6, <1>7

LEMMA TakeStep ==
    ASSUME BoxInv, NEW k \in Gens, TakeFailed(k)
    PROVE  OnePlace' /\ OneQueued' /\ AllAccepted' /\ UNCHANGED <<sent, wire>>
<1> USE GenFacts DEF BoxInv, RowInv
<1>1. /\ UNCHANGED <<sent, wire, pushing, reader>>
      /\ \A l \in Gens, x \in Messages : Waits(l, x)' <=> Waits(l, x)
      /\ \A x : Written(x)' <=> Written(x)
  BY DEF TakeFailed, Waits, Written, linkVars, sendVars
<1> DEFINE m == sendFailures[k][1]
<1>2. /\ 1 \in DOMAIN sendFailures[k] /\ m \in Messages
      /\ hand' = [hand EXCEPT ![k] = m] /\ hand[k] = NoMessage
      /\ DOMAIN sendFailures'[k] \subseteq Nat \ {0}
      /\ \A i \in DOMAIN sendFailures'[k] :
            i + 1 \in DOMAIN sendFailures[k] /\ sendFailures'[k][i] = sendFailures[k][i + 1]
      /\ \A l \in Gens \ {k} : sendFailures'[l] = sendFailures[l]
  BY DEF TakeFailed, TypeOK
<1>3. /\ \A l \in Gens : hand[l] \in Messages \cup {NoMessage}
      /\ \A l \in Gens : \A i \in DOMAIN sendFailures[l] : sendFailures[l][i] \in Messages
      /\ hand'[k] = m /\ \A l \in Gens \ {k} : hand'[l] = hand[l]
  <2>1. hand \in [Gens -> Messages \cup {NoMessage}]
    BY DEF TypeOK
  <2>2. hand'[k] = m /\ \A l \in Gens \ {k} : hand'[l] = hand[l]
    BY <1>2, <2>1
  <2> QED BY <2>2, Holders
<1>4. /\ \A l \in Gens : ~Waits(l, m) /\ hand[l] # m
      /\ ~Written(m) /\ m \in sent
      /\ \A l \in Gens : \A i \in DOMAIN sendFailures[l] :
            sendFailures[l][i] = m => l = k /\ i = 1
  BY <1>2 DEF OneQueued, OnlyHere
<1> HIDE DEF m
<1>5. OnePlace'
  BY <1>1, <1>3, <1>4 DEF OnePlace
<1>6. OneQueued'
  <2> DEFINE At(l, i) == IF l = k THEN i + 1 ELSE i
  <2>1. \A l \in Gens : \A i \in DOMAIN sendFailures'[l] :
            /\ At(l, i) \in DOMAIN sendFailures[l]
            /\ sendFailures'[l][i] = sendFailures[l][At(l, i)]
            /\ sendFailures'[l][i] # m
    BY <1>2, <1>4
  <2>2. \A l \in Gens : \A i, j \in DOMAIN sendFailures'[l] : At(l, i) = At(l, j) => i = j
    BY <1>2
  <2> HIDE DEF At
  <2> SUFFICES ASSUME NEW l \in Gens, NEW i \in DOMAIN sendFailures'[l]
               PROVE  OnlyHere(l, i, sendFailures[l][i])'
    BY DEF OneQueued, OnlyHere
  <2> QED BY <2>1, <2>2, <1>1, <1>3 DEF OneQueued, OnlyHere
<1>7. AllAccepted'
  BY <1>1, <1>3, <1>4 DEF AllAccepted
<1> QED BY <1>1, <1>5, <1>6, <1>7

LEMMA ResendStep ==
    ASSUME BoxInv, NEW k \in Gens, SendFailed(k)
    PROVE  OnePlace' /\ OneQueued' /\ AllAccepted' /\ [Box!Next]_<<sent, wire>>
<1> USE GenFacts DEF BoxInv, RowInv
<1> DEFINE m == hand[k]
<1>1. /\ m \in Messages /\ m # NoMessage /\ child[k] \in Gens
      /\ WriteSucceeds(child[k], m) \/ WriteFails(child[k], m)
      /\ UNCHANGED <<sendFailures, sent, reader>>
      /\ hand'[k] = NoMessage /\ \A l \in Gens \ {k} : hand'[l] = hand[l]
  BY DEF SendFailed, Reconnecting, TypeOK, linkVars
<1>2. /\ \A l \in Gens : ~Waits(l, m)
      /\ \A l \in Gens \ {k} : hand[l] # m
      /\ ~Written(m) /\ m \in sent
      /\ \A l \in Gens : \A i \in DOMAIN sendFailures[l] : sendFailures[l][i] # m
  BY <1>1 DEF OnePlace, OneQueued, OnlyHere, AllAccepted
<1>3. /\ \A l \in Gens : hand[l] \in Messages \cup {NoMessage}
      /\ \A l \in Gens : \A i \in DOMAIN sendFailures[l] : sendFailures[l][i] \in Messages
      /\ NoMessage \notin Messages
  BY NoMessageIsNone, Holders
<1> HIDE DEF m
<1>4. \/ /\ \A l \in Gens, x \in Messages : Waits(l, x)' <=> Waits(l, x)
         /\ \A x : Written(x)' <=> Written(x) \/ x = m
         /\ wire' = Append(wire, m)
      \/ /\ \A l \in Gens, x \in Messages : Waits(l, x)' <=> Waits(l, x) \/ (l = child[k] /\ x = m)
         /\ \A x : Written(x)' <=> Written(x)
         /\ wire' = wire
  BY <1>1, WritePlaces
<1>5. OnePlace'
  BY <1>1, <1>2, <1>3, <1>4 DEF OnePlace
<1>6. OneQueued'
  BY <1>1, <1>2, <1>3, <1>4 DEF OneQueued, OnlyHere
<1>7. AllAccepted'
  BY <1>1, <1>2, <1>3, <1>4 DEF AllAccepted
<1>8. [Box!Next]_<<sent, wire>>
  BY <1>1, <1>2, <1>4 DEF Box!Next, Box!Resend, Box!IsWritten, Written
<1> QED BY <1>5, <1>6, <1>7, <1>8

LEMMA NextBox == BoxInv /\ [Next]_vars => BoxInv' /\ [Box!Next]_<<sent, wire>>
<1> SUFFICES ASSUME BoxInv, [Next]_vars PROVE BoxInv' /\ [Box!Next]_<<sent, wire>>
  OBVIOUS
<1> USE GenFacts
<1>1. RowInv'
  BY NextRow DEF BoxInv
<1>2. ASSUME NEW m \in Broadcasts, Broadcast(m)
      PROVE  OnePlace' /\ OneQueued' /\ AllAccepted' /\ Box!Next
  <2>1. \A l \in Gens : Hello(l) # m
    BY MessagesAssumption
  <2> QED BY <1>2, <2>1, AcceptStep DEF Broadcast, linkVars
<1>3. ASSUME NEW k \in Gens, NEW m \in Beats, Heartbeat(k, m)
      PROVE  OnePlace' /\ OneQueued' /\ AllAccepted' /\ Box!Next
  <2>1. \A l \in Gens : Hello(l) # m
    BY MessagesAssumption
  <2> QED BY <1>3, <2>1, AcceptStep DEF Heartbeat, linkVars
<1>4. ASSUME NEW k \in Gens, Start(k)
      PROVE  OnePlace' /\ OneQueued' /\ AllAccepted' /\ Box!Next
  <2>1. Hello(k) \notin sent
    BY <1>4 DEF Start, BoxInv, AllAccepted
  <2>2. \A l \in Gens : reader'[l] = "none" => reader[l] = "none" /\ Hello(l) # Hello(k)
    BY <1>4 DEF Start, Hello, BoxInv, RowInv, TypeOK
  <2> QED BY <1>4, <2>1, <2>2, AcceptStep DEF Start
<1>5. ASSUME NEW k \in Gens,
             \/ ReadError(k) \/ Reconnect(k) \/ DialSucceeds(k) \/ DialFails(k) \/ Swap(k)
      PROVE  OnePlace' /\ OneQueued' /\ AllAccepted' /\ UNCHANGED <<sent, wire>>
  <2>1. /\ UNCHANGED <<pushing, sendFailures, hand, wire, sent>>
        /\ \A l \in Gens : reader'[l] = "none" => reader[l] = "none"
    BY <1>5
    DEF ReadError, Reconnect, DialSucceeds, DialFails, Swap, sendVars, BoxInv, RowInv, TypeOK
  <2> QED BY <2>1, StillStep
<1>6. ASSUME NEW c \in Gens, Break(c)
      PROVE  OnePlace' /\ OneQueued' /\ AllAccepted' /\ UNCHANGED <<sent, wire>>
  <2>1. UNCHANGED <<pushing, sendFailures, hand, wire, sent, reader>>
    BY <1>6 DEF Break, linkVars
  <2> QED BY <2>1, StillStep
<1>7. CASE UNCHANGED vars
  <2>1. OnePlace' /\ OneQueued' /\ AllAccepted' /\ UNCHANGED <<sent, wire>>
    BY <1>7, StillStep DEF vars, sendVars, linkVars
  <2> QED BY <2>1, <1>1 DEF BoxInv
<1> QED
  BY <1>1, <1>2, <1>3, <1>4, <1>5, <1>6, <1>7, PushStep, TakeStep, ResendStep
  DEF Next, ClientStep, BoxInv

\* The row of generations implements one Outbox, for any number of connections
\* lost at any moment: what is written was sent, and nothing is written twice.
THEOREM ImplementsOutbox == Spec => BoxSpec
<1>1. Spec => []BoxInv
  BY InitBox, NextBox, PTL DEF Spec
<1>2. BoxInv /\ [Next]_vars => [Box!Next]_<<sent, wire>>
  BY NextBox
<1> QED BY <1>1, <1>2, InitBox, PTL DEF Spec, BoxSpec, Box!Spec
---------------------------------------------------------------------------------------
\* No message gets lost on its way from place to place, and none is written twice.
Queued(k, m) == \E i \in DOMAIN sendFailures[k] : sendFailures[k][i] = m
Somewhere(m) == Written(m) \/ \E k \in Gens : Waits(k, m) \/ hand[k] = m \/ Queued(k, m)
NothingLost == \A m \in sent : Somewhere(m)
WrittenOnce == \A i, j \in DOMAIN wire : wire[i] = wire[j] => i = j

LEMMA WrittenOnceStep ==
    ASSUME BoxInv, WrittenOnce, [Box!Next]_<<sent, wire>>
    PROVE  WrittenOnce'
<1>1. ASSUME NEW m \in Messages, wire' = Append(wire, m), ~Written(m) PROVE WrittenOnce'
  <2>1. /\ DOMAIN wire = 1..Len(wire) /\ DOMAIN wire' = 1..(Len(wire) + 1)
        /\ Len(wire) \in Nat /\ wire'[Len(wire) + 1] = m
        /\ \A i \in 1..Len(wire) : wire'[i] = wire[i]
    BY <1>1 DEF BoxInv, RowInv, TypeOK
  <2>2. ASSUME NEW i \in 1..(Len(wire) + 1), NEW j \in 1..(Len(wire) + 1), wire'[i] = wire'[j]
        PROVE  i = j
    <3>1. \A n \in 1..Len(wire) : wire'[n] # m
      BY <1>1, <2>1 DEF Written
    <3>2. CASE i \in 1..Len(wire) /\ j \in 1..Len(wire)
      BY <2>1, <2>2, <3>2 DEF WrittenOnce
    <3>3. CASE i = Len(wire) + 1 \/ j = Len(wire) + 1
      BY <2>1, <2>2, <3>1, <3>3
    <3> QED BY <2>1, <3>2, <3>3
  <2> QED BY <2>1, <2>2 DEF WrittenOnce
<1>2. ASSUME NEW m \in Messages, Box!Accept(m) PROVE WrittenOnce'
  <2>1. ~Written(m) /\ (wire' = wire \/ wire' = Append(wire, m))
    BY <1>2 DEF Box!Accept, BoxInv, AllAccepted
  <2> QED BY <1>1, <2>1 DEF WrittenOnce
<1>3. ASSUME NEW m \in Messages, Box!Resend(m) PROVE WrittenOnce'
  BY <1>1, <1>3 DEF Box!Resend, Box!IsWritten, Written
<1>4. CASE UNCHANGED <<sent, wire>>
  BY <1>4 DEF WrittenOnce
<1> QED BY <1>2, <1>3, <1>4 DEF Box!Next

\* A message SendMessage is called with is written or waits.
LEMMA WriteFinds ==
    ASSUME TypeOK, NEW k \in Gens, NEW m \in Messages,
           WriteSucceeds(k, m) \/ WriteFails(k, m), UNCHANGED sendFailures
    PROVE  /\ Somewhere(m)'
           /\ \A x \in Messages : Somewhere(x) =>
                 Somewhere(x)' \/ \E l \in Gens : hand[l] = x /\ hand'[l] # x
<1>1. /\ \A x : Written(x) => Written(x)'
      /\ \A l \in Gens, x \in Messages : Waits(l, x) => Waits(l, x)'
      /\ Written(m)' \/ Waits(k, m)'
  BY WritePlaces
<1>2. \A l \in Gens, x \in Messages : Queued(l, x) => Queued(l, x)'
  BY DEF Queued
<1>3. Somewhere(m)'
  BY <1>1 DEF Somewhere
<1>4. ASSUME NEW x \in Messages, Somewhere(x)
      PROVE  Somewhere(x)' \/ \E l \in Gens : hand[l] = x /\ hand'[l] # x
  BY <1>1, <1>2, <1>4 DEF Somewhere
<1> QED BY <1>3, <1>4

LEMMA NewFound ==
    ASSUME BoxInv, NothingLost, NEW k \in Gens, NEW m \in Messages,
           WriteSucceeds(k, m) \/ WriteFails(k, m),
           sent' = sent \cup {m}, UNCHANGED <<sendFailures, hand>>
    PROVE  NothingLost'
<1>1. TypeOK /\ sent \subseteq Messages
  BY DEF BoxInv, RowInv, TypeOK
<1>2. Somewhere(m)' /\ \A x \in Messages : Somewhere(x) => Somewhere(x)'
  BY <1>1, WriteFinds
<1> QED BY <1>1, <1>2 DEF NothingLost

LEMMA StillThere ==
    ASSUME NothingLost, UNCHANGED <<pushing, sendFailures, hand, wire, sent>>
    PROVE  NothingLost'
  BY DEF NothingLost, Somewhere, Written, Waits, Queued

LEMMA LostStep ==
    ASSUME BoxInv, NothingLost, [Next]_vars
    PROVE  NothingLost'
<1> USE GenFacts
<1>a. TypeOK /\ sent \subseteq Messages
  BY DEF BoxInv, RowInv, TypeOK
<1>1. ASSUME NEW m \in Broadcasts, Broadcast(m) PROVE NothingLost'
  BY <1>1, NewFound DEF Broadcast
<1>2. ASSUME NEW k \in Gens, NEW m \in Beats, Heartbeat(k, m) PROVE NothingLost'
  BY <1>2, NewFound DEF Heartbeat
<1>3. ASSUME NEW k \in Gens, Start(k) PROVE NothingLost'
  BY <1>3, NewFound DEF Start
<1>4. ASSUME NEW k \in Gens, NEW m \in Messages, Push(k, m) PROVE NothingLost'
  <2>1. /\ UNCHANGED <<sent, wire, hand>>
        /\ \A x : Written(x)' <=> Written(x)
        /\ \A l \in Gens, x \in Messages : Waits(l, x) => Waits(l, x)' \/ (l = k /\ x = m)
    BY <1>4 DEF Push, Written, Waits
  <2>2. /\ Queued(k, m)'
        /\ \A l \in Gens, x \in Messages : Queued(l, x) => Queued(l, x)'
    <3>1. /\ sendFailures \in [Gens -> Seq(Messages)]
          /\ sendFailures' = [sendFailures EXCEPT ![k] = Append(@, m)]
      BY <1>4, <1>a DEF Push, TypeOK
    <3>2. /\ DOMAIN sendFailures[k] \subseteq DOMAIN sendFailures'[k]
          /\ Len(sendFailures[k]) + 1 \in DOMAIN sendFailures'[k]
          /\ sendFailures'[k][Len(sendFailures[k]) + 1] = m
          /\ \A i \in DOMAIN sendFailures[k] : sendFailures'[k][i] = sendFailures[k][i]
          /\ \A l \in Gens \ {k} : sendFailures'[l] = sendFailures[l]
      BY <3>1
    <3> QED BY <3>2 DEF Queued
  <2>3. ASSUME NEW x \in sent PROVE Somewhere(x)'
    <3>1. Somewhere(x) /\ x \in Messages
      BY <1>a, <2>3 DEF NothingLost
    <3> QED BY <2>1, <2>2, <3>1 DEF Somewhere
  <2> QED BY <2>1, <2>3 DEF NothingLost
<1>5. ASSUME NEW k \in Gens, TakeFailed(k) PROVE NothingLost'
  <2> DEFINE m == sendFailures[k][1]
  <2>1. /\ UNCHANGED <<sent, wire, pushing>>
        /\ hand[k] = NoMessage /\ hand' = [hand EXCEPT ![k] = m] /\ hand'[k] = m
        /\ \A x : Written(x)' <=> Written(x)
        /\ \A l \in Gens, x \in Messages : Waits(l, x) => Waits(l, x)'
    BY <1>5, <1>a DEF TakeFailed, sendVars, Written, Waits, TypeOK
  <2>2. /\ \A i \in DOMAIN sendFailures[k] : i # 1 =>
              i - 1 \in DOMAIN sendFailures'[k] /\ sendFailures'[k][i - 1] = sendFailures[k][i]
        /\ \A l \in Gens \ {k} : sendFailures'[l] = sendFailures[l]
    BY <1>5, <1>a DEF TakeFailed, TypeOK
  <2>3. \A l \in Gens, x \in Messages : Queued(l, x) => Queued(l, x)' \/ x = m
    BY <2>2 DEF Queued
  <2> HIDE DEF m
  <2>4. ASSUME NEW x \in sent PROVE Somewhere(x)'
    <3>1. Somewhere(x) /\ x \in Messages /\ x # NoMessage
      BY <1>a, <2>4, NoMessageIsNone DEF NothingLost
    <3>2. \A l \in Gens : hand[l] = x => hand'[l] = x
      BY <2>1, <3>1, <1>a DEF TypeOK
    <3> QED BY <2>1, <2>3, <3>1, <3>2 DEF Somewhere
  <2> QED BY <2>1, <2>4 DEF NothingLost
<1>6. ASSUME NEW k \in Gens, SendFailed(k) PROVE NothingLost'
  <2>0. hand[k] \in Messages /\ child[k] \in Gens
    BY <1>6, <1>a DEF SendFailed, BoxInv, RowInv, Reconnecting, TypeOK
  <2> PICK m \in Messages, c \in Gens : m = hand[k] /\ c = child[k]
    BY <2>0
  <2>1. /\ WriteSucceeds(c, m) \/ WriteFails(c, m)
        /\ UNCHANGED <<sendFailures, sent>>
        /\ \A l \in Gens \ {k} : hand'[l] = hand[l]
    BY <1>6, <1>a DEF SendFailed, TypeOK
  <2>2. /\ Somewhere(m)'
        /\ \A x \in Messages : Somewhere(x) =>
              Somewhere(x)' \/ \E l \in Gens : hand[l] = x /\ hand'[l] # x
    BY <1>a, <2>1, WriteFinds
  <2>3. ASSUME NEW x \in sent PROVE Somewhere(x)'
    <3>1. x \in Messages /\ Somewhere(x)
      BY <1>a, <2>3 DEF NothingLost
    <3>2. CASE x = m
      BY <2>2, <3>2
    <3>3. CASE x # m
      BY <2>1, <2>2, <3>1, <3>3
    <3> QED BY <3>2, <3>3
  <2> QED BY <2>1, <2>3 DEF NothingLost
<1>7. ASSUME NEW k \in Gens,
             \/ ReadError(k) \/ Reconnect(k) \/ DialSucceeds(k) \/ DialFails(k) \/ Swap(k)
             \/ Break(k)
      PROVE  NothingLost'
  BY <1>7, StillThere
  DEF ReadError, Reconnect, DialSucceeds, DialFails, Swap, Break, sendVars
<1>8. CASE UNCHANGED vars
  BY <1>8, StillThere DEF vars, sendVars
<1> QED
  BY <1>1, <1>2, <1>3, <1>4, <1>5, <1>6, <1>7, <1>8 DEF Next, ClientStep

LEMMA CountUnique ==
    ASSUME NEW S, \A x, y \in S : x = y
    PROVE  Cardinality(S) = IF S = {} THEN 0 ELSE 1
<1>1. CASE S = {}
  BY <1>1, FS_EmptySet
<1>2. CASE S # {}
  <2>1. PICK x \in S : TRUE
    BY <1>2
  <2>2. S = {x}
    BY <2>1
  <2> QED BY <1>2, <2>2, FS_Singleton
<1> QED BY <1>1, <1>2

\* Being in one place, once, is having one copy.
LEMMA CopiesCounted == BoxInv /\ NothingLost /\ WrittenOnce => OneCopy
<1> SUFFICES ASSUME BoxInv, NothingLost, WrittenOnce, NEW m \in Messages
             PROVE  Copies(m) = IF m \in sent THEN 1 ELSE 0
  BY DEF OneCopy
<1> USE GenFacts
<1> DEFINE P == {k \in Gens : <<k, m>> \in pushing}
           Q == {p \in Gens \X (1..FailuresCap) :
                    p[2] \in DOMAIN sendFailures[p[1]] /\ sendFailures[p[1]][p[2]] = m}
           H == {k \in Gens : hand[k] = m}
           W == {i \in DOMAIN wire : wire[i] = m}
<1>a. m # NoMessage
  BY NoMessageIsNone
<1>b. \A k \in Gens : DOMAIN sendFailures[k] \subseteq 1..FailuresCap
  BY DEF BoxInv, RowInv, TypeOK
<1>1. \A x, y \in P : x = y
  BY DEF BoxInv, OnePlace, Waits
<1>2. \A x, y \in Q : x = y
  <2> SUFFICES ASSUME NEW x \in Q, NEW y \in Q PROVE x = y
    OBVIOUS
  <2>1. /\ x = <<x[1], x[2]>> /\ x[1] \in Gens /\ x[2] \in DOMAIN sendFailures[x[1]]
        /\ sendFailures[x[1]][x[2]] = m
    OBVIOUS
  <2>2. /\ y = <<y[1], y[2]>> /\ y[1] \in Gens /\ y[2] \in DOMAIN sendFailures[y[1]]
        /\ sendFailures[y[1]][y[2]] = m
    OBVIOUS
  <2> HIDE DEF Q
  <2>3. x[1] = y[1] /\ x[2] = y[2]
    BY <2>1, <2>2 DEF BoxInv, OneQueued, OnlyHere
  <2> QED BY <2>1, <2>2, <2>3
<1>3. \A x, y \in H : x = y
  BY <1>a DEF BoxInv, OnePlace
<1>4. \A x, y \in W : x = y
  BY DEF WrittenOnce
<1>5. /\ P # {} <=> \E k \in Gens : Waits(k, m)
      /\ Q # {} <=> \E k \in Gens : Queued(k, m)
      /\ H # {} <=> \E k \in Gens : hand[k] = m
      /\ W # {} <=> Written(m)
  <2>1. ASSUME NEW k \in Gens, Queued(k, m) PROVE Q # {}
    <3>1. PICK i \in DOMAIN sendFailures[k] : sendFailures[k][i] = m
      BY <2>1 DEF Queued
    <3>2. <<k, i>> \in Q
      BY <3>1, <1>b
    <3> QED BY <3>2
  <2>2. Q # {} => \E k \in Gens : Queued(k, m)
    BY DEF Queued
  <2> QED BY <2>1, <2>2 DEF Waits, Written
<1>6. /\ P # {} => Q = {} /\ H = {} /\ W = {}
      /\ Q # {} => P = {} /\ H = {} /\ W = {}
      /\ H # {} => P = {} /\ Q = {} /\ W = {}
      /\ W # {} => P = {} /\ Q = {} /\ H = {}
  BY <1>5, <1>a DEF BoxInv, OnePlace, OneQueued, OnlyHere, Queued
<1>7. m \in sent <=> P # {} \/ Q # {} \/ H # {} \/ W # {}
  <2>1. m \in sent => P # {} \/ Q # {} \/ H # {} \/ W # {}
    BY <1>5 DEF NothingLost, Somewhere
  <2>2. P # {} \/ Q # {} \/ H # {} \/ W # {} => m \in sent
    BY <1>5, <1>a DEF BoxInv, AllAccepted, OneQueued, OnlyHere, Queued
  <2> QED BY <2>1, <2>2
<1>8. Copies(m) = Cardinality(P) + Cardinality(Q) + Cardinality(H) + Cardinality(W)
  BY DEF Copies
<1>9. /\ Cardinality(P) = (IF P = {} THEN 0 ELSE 1) /\ Cardinality(Q) = (IF Q = {} THEN 0 ELSE 1)
      /\ Cardinality(H) = (IF H = {} THEN 0 ELSE 1) /\ Cardinality(W) = (IF W = {} THEN 0 ELSE 1)
  BY <1>1, <1>2, <1>3, <1>4, CountUnique
<1> HIDE DEF P, Q, H, W
<1> QED BY <1>6, <1>7, <1>8, <1>9

\* A message SendMessage was called with is in one place, once, over any number
\* of connections lost, channels full and failed messages sent again.
THEOREM OneCopyAlways == Spec => []OneCopy
<1>1. Init => BoxInv /\ NothingLost /\ WrittenOnce
  <2>1. Init => NothingLost /\ WrittenOnce
    BY DEF Init, NothingLost, WrittenOnce
  <2> QED BY <2>1, InitBox
<1>2. BoxInv /\ NothingLost /\ WrittenOnce /\ [Next]_vars
         => (BoxInv /\ NothingLost /\ WrittenOnce)'
  BY NextBox, LostStep, WrittenOnceStep
<1> QED BY <1>1, <1>2, CopiesCounted, PTL DEF Spec
---------------------------------------------------------------------------------------
\* That no message is stuck: the part of EverythingSent that is about states.

\* Whoever stopped reading has begun to reconnect, a generation has its own
\* connection until it swaps it for a newer one's, and its successor is a later one.
Chain ==
    /\ \A k \in Gens : reader[k] = "gone" => reconnect[k] # "none"
    /\ \A k \in Gens : reconnect[k] # "done" => conn[k] = k
    /\ \A k \in Gens : reconnect[k] \in {"connected", "done"} => k < child[k] /\ child[k] <= newest
    /\ \A k \in Gens : k <= newest => conn[k] <= newest

\* A generation that has messages it could not write had a write fail on its
\* own connection, which is not up again.
Holds(k) == sendFailures[k] # <<>> \/ \E m \in Messages : Waits(k, m)
Failing == \A k \in Gens : Holds(k) /\ reconnect[k] # "done" => link[k] = "failed"

StuckInv == BoxInv /\ Chain /\ Failing

\* A step of generation k or its successor that leads to the swap can be taken:
\* Start, ReadError, Reconnect, a dial, Swap.
Repairs(k) ==
    \/ reader[k] = "none" /\ link[k] # "unused"
    \/ reader[k] = "reading" /\ link[conn[k]] # "up"
    \/ reconnect[k] \in {"called", "dialling"}
    \/ reconnect[k] = "connected" /\ (reader[child[k]] # "none" \/ link[child[k]] # "unused")

\* The same of SendFailed, TakeFailed and Push.
Drains(k) ==
    \/ hand[k] # NoMessage /\ link[conn[child[k]]] # "unused"
    \/ hand[k] = NoMessage /\ sendFailures[k] # <<>>
    \/ \E m \in Messages : Waits(k, m) /\ Len(sendFailures[k]) < FailuresCap

\* Each generation with messages to hand on gave up, is being replaced or drained.
Tended ==
    \A k \in Gens : Holds(k) \/ hand[k] # NoMessage =>
       \/ reconnect[k] = "gaveUp"
       \/ reconnect[k] # "done" /\ Repairs(k)
       \/ reconnect[k] = "done" /\ Drains(k)

\* Of a step: a message that is not written stays where it is or gets on: from a
\* goroutine to the channel, up in the channel, into the hand, and from there to
\* the application or to a later generation.
QueueMoves(k) ==
    \A i \in DOMAIN sendFailures[k] :
       \/ i \in DOMAIN sendFailures'[k] /\ sendFailures'[k][i] = sendFailures[k][i]
       \/ i = 1 /\ hand'[k] = sendFailures[k][i]
       \/ i > 1 /\ i - 1 \in DOMAIN sendFailures'[k] /\ sendFailures'[k][i - 1] = sendFailures[k][i]
HandMoves(k) ==
    \A m \in Messages :
       hand[k] = m => hand'[k] = m \/ Written(m)' \/ \E j \in Gens : j > k /\ Waits(j, m)'
Onward ==
    \A k \in Gens :
       /\ \A m \in Messages : Waits(k, m) => Waits(k, m)' \/ Queued(k, m)'
       /\ QueueMoves(k) /\ HandMoves(k)

LEMMA InitChain == Init => Chain /\ Failing
  BY GenFacts DEF Init, Chain, Failing, Holds, Waits

\* A connection that has failed stays so, and who could not write has one.
LEMMA WriteFailing ==
    ASSUME TypeOK, NEW k \in Gens, NEW m \in Messages, WriteSucceeds(k, m) \/ WriteFails(k, m)
    PROVE  /\ \A c \in Gens : link[c] = "failed" => link'[c] = "failed"
           /\ \A l \in Gens, x \in Messages :
                 Waits(l, x)' => Waits(l, x) \/ (l = k /\ link'[conn[k]] = "failed")
<1>1. CASE WriteSucceeds(k, m)
  BY <1>1 DEF WriteSucceeds, Waits
<1>2. CASE WriteFails(k, m)
  <2>1. \A c \in Gens : link'[c] = IF c = conn[k] THEN "failed" ELSE link[c]
    BY <1>2 DEF WriteFails, TypeOK
  <2>2. conn[k] \in Gens
    BY DEF TypeOK
  <2> QED BY <1>2, <2>1, <2>2 DEF WriteFails, Waits
<1> QED BY <1>1, <1>2

LEMMA FailingWrite ==
    ASSUME StuckInv, NEW k \in Gens, NEW m \in Messages, WriteSucceeds(k, m) \/ WriteFails(k, m),
           UNCHANGED <<conn, reconnect, sendFailures>>
    PROVE  Failing'
<1>1. TypeOK /\ Chain /\ Failing
  BY DEF StuckInv, BoxInv, RowInv
<1>2. ASSUME NEW l \in Gens, Holds(l)', reconnect[l] # "done" PROVE link'[l] = "failed"
  <2>1. CASE Holds(l)
    BY <1>1, <1>2, <2>1, WriteFailing DEF Failing
  <2>2. CASE ~Holds(l)
    <3>1. PICK x \in Messages : Waits(l, x)'
      BY <1>2, <2>2 DEF Holds
    <3>2. ~Waits(l, x)
      BY <2>2 DEF Holds
    <3>3. l = k /\ link'[conn[k]] = "failed"
      BY <1>1, <3>1, <3>2, WriteFailing
    <3> QED BY <1>1, <1>2, <3>3 DEF Chain
  <2> QED BY <2>1, <2>2
<1> QED BY <1>2 DEF Failing

LEMMA ChainStep ==
    ASSUME StuckInv, [Next]_vars
    PROVE  Chain' /\ Failing'
<1> USE GenFacts
<1>a. TypeOK /\ Row /\ Reconnecting /\ Chain /\ Failing
  BY DEF StuckInv, BoxInv, RowInv
<1>1. ASSUME NEW m \in Broadcasts, Broadcast(m) PROVE Chain' /\ Failing'
  <2>1. Failing'
    BY <1>1, FailingWrite DEF Broadcast, linkVars
  <2> QED BY <1>a, <1>1, <2>1 DEF Broadcast, linkVars, Chain
<1>2. ASSUME NEW k \in Gens, NEW m \in Beats, Heartbeat(k, m) PROVE Chain' /\ Failing'
  <2>1. Failing'
    BY <1>2, FailingWrite DEF Heartbeat, linkVars
  <2> QED BY <1>a, <1>2, <2>1 DEF Heartbeat, linkVars, Chain
<1>3. ASSUME NEW k \in Gens, Start(k) PROVE Chain' /\ Failing'
  <2>1. Failing'
    BY <1>3, FailingWrite DEF Start
  <2> QED BY <1>a, <1>3, <2>1 DEF Start, Chain, TypeOK
<1>4. ASSUME NEW k \in Gens, SendFailed(k) PROVE Chain' /\ Failing'
  <2>0. hand[k] \in Messages /\ child[k] \in Gens
    BY <1>4, <1>a DEF SendFailed, Reconnecting, TypeOK
  <2>1. Failing'
    BY <1>4, <2>0, FailingWrite DEF SendFailed, linkVars
  <2> QED BY <1>a, <1>4, <2>1 DEF SendFailed, linkVars, Chain
<1>5. ASSUME NEW k \in Gens, NEW m \in Messages, Push(k, m) PROVE Chain' /\ Failing'
  <2>1. \A l \in Gens : Holds(l)' => Holds(l)
    <3>1. Waits(k, m) /\ \A l \in Gens \ {k} : sendFailures'[l] = sendFailures[l]
      BY <1>a, <1>5 DEF Push, Waits, TypeOK
    <3>2. \A l \in Gens, x \in Messages : Waits(l, x)' => Waits(l, x)
      BY <1>5 DEF Push, Waits
    <3> QED BY <3>1, <3>2 DEF Holds
  <2> QED BY <1>a, <1>5, <2>1 DEF Push, linkVars, Chain, Failing
<1>6. ASSUME NEW k \in Gens, TakeFailed(k) PROVE Chain' /\ Failing'
  <2>1. \A l \in Gens \ {k} : Holds(l)' => Holds(l)
    BY <1>a, <1>6 DEF TakeFailed, Holds, Waits, sendVars, TypeOK
  <2> QED BY <1>a, <1>6, <2>1 DEF TakeFailed, sendVars, linkVars, Chain, Failing
<1>7. ASSUME NEW c \in Gens, Break(c) PROVE Chain' /\ Failing'
  <2>1. \A l \in Gens : Holds(l)' <=> Holds(l)
    BY <1>7 DEF Break, Holds, Waits
  <2> QED BY <1>a, <1>7, <2>1 DEF Break, linkVars, Chain, Failing, TypeOK
<1>8. ASSUME NEW k \in Gens, ReadError(k) \/ Reconnect(k) \/ DialFails(k) \/ Swap(k)
      PROVE  Chain' /\ Failing'
  <2>1. /\ \A l \in Gens : Holds(l)' <=> Holds(l)
        /\ UNCHANGED <<link, newest, child>>
    BY <1>8 DEF ReadError, Reconnect, DialFails, Swap, Holds, Waits, sendVars
  <2>2. CASE ReadError(k)
    <3>1. reconnect[k] = "none"
      BY <1>a, <2>2 DEF ReadError, Row
    <3>2. /\ reconnect'[k] = "called" /\ UNCHANGED conn
          /\ \A l \in Gens \ {k} : reconnect'[l] = reconnect[l] /\ reader'[l] = reader[l]
      BY <1>a, <2>2 DEF ReadError, Moved, TypeOK
    <3> QED BY <1>a, <2>1, <3>1, <3>2 DEF Chain, Failing
  <2>3. CASE Reconnect(k)
    <3>1. /\ reconnect[k] = "called" /\ reconnect'[k] = "dialling"
          /\ \A l \in Gens \ {k} : reconnect'[l] = reconnect[l]
          /\ UNCHANGED <<conn, reader>>
      BY <1>a, <2>3 DEF Reconnect, Moved, TypeOK
    <3> QED BY <1>a, <2>1, <3>1 DEF Chain, Failing
  <2>4. CASE DialFails(k)
    <3>1. /\ reconnect[k] = "dialling" /\ reconnect'[k] \in {"dialling", "gaveUp"}
          /\ \A l \in Gens \ {k} : reconnect'[l] = reconnect[l]
          /\ UNCHANGED <<conn, reader>>
      BY <1>a, <2>4 DEF DialFails, Moved, TypeOK
    <3> QED BY <1>a, <2>1, <3>1 DEF Chain, Failing
  <2>5. CASE Swap(k)
    <3>1. child[k] \in Gens /\ k < child[k] /\ child[k] <= newest /\ conn[child[k]] <= newest
      BY <1>a, <2>5 DEF Swap, Chain, Reconnecting
    <3>2. /\ conn'[k] = conn[child[k]] /\ reconnect'[k] = "done"
          /\ \A l \in Gens \ {k} : conn'[l] = conn[l] /\ reconnect'[l] = reconnect[l]
          /\ UNCHANGED reader
      BY <1>a, <2>5 DEF Swap, Moved, TypeOK
    <3> QED BY <1>a, <2>1, <3>1, <3>2 DEF Chain, Failing
  <2> QED BY <1>8, <2>2, <2>3, <2>4, <2>5
<1>9. ASSUME NEW k \in Gens, DialSucceeds(k) PROVE Chain' /\ Failing'
  <2>1. k = newest /\ newest + 1 \in Gens /\ newest \in Nat /\ link[newest + 1] = "unused"
    BY <1>a, <1>9 DEF DialSucceeds, Reconnecting, Row, TypeOK, Gens
  <2>2. /\ newest' = newest + 1 /\ UNCHANGED <<conn, reader>>
        /\ child'[k] = newest + 1 /\ reconnect'[k] = "connected" /\ reconnect[k] = "dialling"
        /\ \A l \in Gens \ {k} : child'[l] = child[l] /\ reconnect'[l] = reconnect[l]
        /\ \A c \in Gens : c # newest + 1 => link'[c] = link[c]
        /\ \A l \in Gens : Holds(l)' <=> Holds(l)
    BY <1>a, <1>9, <2>1 DEF DialSucceeds, Moved, TypeOK, Holds, Waits
  <2>3. reconnect[newest + 1] # "done"
    BY <1>a, <2>1 DEF Reconnecting
  <2>4. ~Holds(newest + 1)
    BY <1>a, <2>1, <2>3 DEF Failing
  <2>5. Failing'
    BY <1>a, <2>1, <2>2, <2>4 DEF Failing
  <2>6. conn[newest + 1] = newest + 1
    BY <1>a, <2>1 DEF Row
  <2>7. \A l \in Gens : l <= newest + 1 => conn[l] <= newest + 1
    <3>1. \A l \in Gens : l \in Nat /\ conn[l] \in Nat /\ (l <= newest => conn[l] <= newest)
      BY <1>a DEF Chain, TypeOK
    <3> QED BY <2>1, <2>6, <3>1
  <2>8. \A l \in Gens \ {k} : reconnect[l] \in {"connected", "done"} =>
           child[l] <= newest + 1 /\ l < child[l]
    BY <1>a, <2>1 DEF Chain, Reconnecting, Gens
  <2> QED BY <1>a, <2>1, <2>2, <2>5, <2>7, <2>8 DEF Chain
<1>10. CASE UNCHANGED vars
  BY <1>a, <1>10 DEF vars, sendVars, linkVars, Chain, Failing, Holds, Waits
<1> QED
  BY <1>1, <1>2, <1>3, <1>4, <1>5, <1>6, <1>7, <1>8, <1>9, <1>10 DEF Next, ClientStep

LEMMA IsTended == StuckInv => Tended
<1> SUFFICES ASSUME StuckInv, NEW k \in Gens, Holds(k) \/ hand[k] # NoMessage
             PROVE  \/ reconnect[k] = "gaveUp"
                    \/ reconnect[k] # "done" /\ Repairs(k)
                    \/ reconnect[k] = "done" /\ Drains(k)
  BY DEF Tended
<1> USE GenFacts
<1>a. TypeOK /\ Row /\ Reconnecting /\ Chain /\ Failing
  BY DEF StuckInv, BoxInv, RowInv
<1>b. \A c \in Gens : c <= newest => link[c] # "unused"
  <2>1. newest \in Nat /\ \A c \in Gens : c \in Nat /\ (link[c] = "unused" <=> c > newest)
    BY <1>a DEF Row, TypeOK
  <2> QED BY <2>1
<1>1. CASE reconnect[k] = "none"
  <2>1. link[k] = "failed" /\ conn[k] = k /\ reader[k] \in {"none", "reading"}
    BY <1>a, <1>1 DEF Reconnecting, Chain, Failing, TypeOK
  <2> QED BY <1>1, <2>1 DEF Repairs
<1>2. CASE reconnect[k] = "connected"
  <2>1. child[k] \in Gens /\ child[k] <= newest
    BY <1>a, <1>2 DEF Reconnecting, Chain
  <2>2. link[child[k]] # "unused"
    BY <1>b, <2>1
  <2> QED BY <1>2, <2>2 DEF Repairs
<1>3. CASE reconnect[k] = "done"
  <2>1. child[k] \in Gens /\ conn[child[k]] \in Gens /\ conn[child[k]] <= newest
    BY <1>a, <1>3 DEF Reconnecting, Chain, TypeOK
  <2>2. link[conn[child[k]]] # "unused"
    BY <1>b, <2>1
  <2>3. sendFailures[k] = <<>> => Len(sendFailures[k]) < FailuresCap
    OBVIOUS
  <2> QED BY <1>3, <2>2, <2>3 DEF Drains, Holds
<1>4. CASE reconnect[k] \in {"called", "dialling", "gaveUp"}
  BY <1>4 DEF Repairs
<1> QED BY <1>a, <1>1, <1>2, <1>3, <1>4 DEF TypeOK

LEMMA OnwardStep == StuckInv /\ [Next]_vars => Onward
<1> SUFFICES ASSUME StuckInv, [Next]_vars PROVE Onward
  OBVIOUS
<1> USE GenFacts
<1>a. TypeOK /\ Reconnecting /\ Chain
  BY DEF StuckInv, BoxInv, RowInv
\* Steps that move no message that failed.
<1>b. ASSUME UNCHANGED <<sendFailures, hand>>,
             \A l \in Gens, x \in Messages : Waits(l, x) => Waits(l, x)'
      PROVE  Onward
  BY <1>b DEF Onward, QueueMoves, HandMoves
<1>1. ASSUME NEW k \in Gens, NEW m \in Messages, WriteSucceeds(k, m) \/ WriteFails(k, m),
             UNCHANGED <<sendFailures, hand>>
      PROVE  Onward
  BY <1>a, <1>b, <1>1, WritePlaces
<1>2. ASSUME NEW k \in Gens, NEW m \in Messages, Push(k, m) PROVE Onward
  <2>1. /\ UNCHANGED hand
        /\ \A l \in Gens, x \in Messages : Waits(l, x) => Waits(l, x)' \/ (l = k /\ x = m)
    BY <1>2 DEF Push, Waits
  <2>2. sendFailures' = [sendFailures EXCEPT ![k] = Append(@, m)]
    BY <1>2 DEF Push
  <2>3. /\ DOMAIN sendFailures[k] \subseteq DOMAIN sendFailures'[k]
        /\ Len(sendFailures[k]) + 1 \in DOMAIN sendFailures'[k]
        /\ sendFailures'[k][Len(sendFailures[k]) + 1] = m
        /\ \A i \in DOMAIN sendFailures[k] : sendFailures'[k][i] = sendFailures[k][i]
        /\ \A l \in Gens \ {k} : sendFailures'[l] = sendFailures[l]
    BY <1>a, <2>2 DEF TypeOK
  <2>4. Queued(k, m)'
    BY <2>3 DEF Queued
  <2>5. \A l \in Gens : QueueMoves(l)
    BY <2>3 DEF QueueMoves
  <2> QED BY <2>1, <2>4, <2>5 DEF Onward, HandMoves
<1>3. ASSUME NEW k \in Gens, TakeFailed(k) PROVE Onward
  <2>1. /\ hand[k] = NoMessage /\ hand'[k] = sendFailures[k][1]
        /\ \A l \in Gens \ {k} : hand'[l] = hand[l]
        /\ \A l \in Gens, x \in Messages : Waits(l, x) => Waits(l, x)'
    BY <1>3, <1>a DEF TakeFailed, sendVars, Waits, TypeOK
  <2>2. /\ \A i \in DOMAIN sendFailures[k] : i # 1 =>
              i > 1 /\ i - 1 \in DOMAIN sendFailures'[k]
              /\ sendFailures'[k][i - 1] = sendFailures[k][i]
        /\ \A l \in Gens \ {k} : sendFailures'[l] = sendFailures[l]
    <3>1. /\ sendFailures[k] \in Seq(Messages) /\ sendFailures[k] # <<>>
          /\ sendFailures'[k] = Tail(sendFailures[k])
          /\ \A l \in Gens \ {k} : sendFailures'[l] = sendFailures[l]
      BY <1>3, <1>a DEF TakeFailed, TypeOK
    <3>2. ASSUME NEW s \in Seq(Messages), s # <<>>, NEW i \in DOMAIN s, i # 1
          PROVE  i > 1 /\ i - 1 \in DOMAIN Tail(s) /\ Tail(s)[i - 1] = s[i]
      BY <3>2
    <3> QED BY <3>1, <3>2
  <2>3. \A l \in Gens : QueueMoves(l)
    BY <2>1, <2>2 DEF QueueMoves
  <2>4. \A l \in Gens : HandMoves(l)
    BY <2>1, NoMessageIsNone DEF HandMoves
  <2> QED BY <2>1, <2>3, <2>4 DEF Onward
<1>4. ASSUME NEW k \in Gens, SendFailed(k) PROVE Onward
  <2>0. hand[k] \in Messages /\ child[k] \in Gens /\ child[k] > k
    BY <1>4, <1>a DEF SendFailed, Reconnecting, Chain, TypeOK
  <2> PICK m \in Messages, c \in Gens : m = hand[k] /\ c = child[k]
    BY <2>0
  <2>1. /\ WriteSucceeds(c, m) \/ WriteFails(c, m)
        /\ UNCHANGED sendFailures
        /\ \A l \in Gens \ {k} : hand'[l] = hand[l]
    BY <1>4, <1>a DEF SendFailed, TypeOK
  <2>2. /\ \A l \in Gens, x \in Messages : Waits(l, x) => Waits(l, x)'
        /\ Written(m)' \/ Waits(c, m)'
    BY <1>a, <2>1, WritePlaces
  <2>3. \A l \in Gens : QueueMoves(l)
    BY <2>1 DEF QueueMoves
  <2>4. \A l \in Gens : HandMoves(l)
    BY <2>0, <2>1, <2>2 DEF HandMoves
  <2> QED BY <2>2, <2>3, <2>4 DEF Onward
<1>5. ASSUME NEW k \in Gens,
             \/ ReadError(k) \/ Reconnect(k) \/ DialSucceeds(k) \/ DialFails(k) \/ Swap(k)
             \/ Break(k)
      PROVE  Onward
  BY <1>5, <1>b
  DEF ReadError, Reconnect, DialSucceeds, DialFails, Swap, Break, sendVars, Waits
<1>6. CASE UNCHANGED vars
  BY <1>6, <1>b DEF vars, sendVars, Waits
<1>7. ASSUME NEW m \in Broadcasts, Broadcast(m) PROVE Onward
  BY <1>1, <1>7 DEF Broadcast
<1>8. ASSUME NEW k \in Gens, NEW m \in Beats, Heartbeat(k, m) PROVE Onward
  BY <1>1, <1>8 DEF Heartbeat
<1>9. ASSUME NEW k \in Gens, Start(k) PROVE Onward
  BY <1>1, <1>9 DEF Start
<1> QED
  BY <1>2, <1>3, <1>4, <1>5, <1>6, <1>7, <1>8, <1>9 DEF Next, ClientStep

\* No message is stuck: wherever one waits that could not be written, its
\* generation is being replaced or drained unless its Reconnect gave up, the
\* next step is one of the program's own (or of a dial that comes to an end), and
\* every step of a message leads on, to the application or a later generation
\* (ws.go:31-120).
THEOREM NeverStuck == Spec => []Tended /\ [][Onward]_vars
<1>1. Init => StuckInv
  BY InitBox, InitChain DEF StuckInv
<1>2. StuckInv /\ [Next]_vars => StuckInv'
  BY NextBox, ChainStep DEF StuckInv
<1>3. StuckInv /\ [Next]_vars => Onward
  BY OnwardStep
<1> QED BY <1>1, <1>2, <1>3, IsTended, PTL DEF Spec
========================================================================================

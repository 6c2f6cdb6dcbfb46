-------------------------------- MODULE GatewayProofs --------------------------------
(***************************************************************************)
(* That discordgo's Session never has two connections, whichever goroutine *)
(* of which websocket reconnects, and whatever the network and Discord do; *)
(* that it keeps its place among the events; and that somebody is always   *)
(* at its connection or about to make one.                                 *)
(***************************************************************************)
EXTENDS GatewaySession, TLAPS

\* Inside Open and CloseWithCode, with the session's lock.
Dialled == {"hello", "ask", "first"}
Holding == Dialled \cup {"dial", "closing"}

\* What the lock is for.  Who holds it is alone between the check of s.wsConn and
\* the two goroutines of the new websocket, and no websocket is being listened to
\* meanwhile; an open one is the session's.
LockInv ==
    /\ \A g \in Goroutines : pc[g] \in Holding => lock = g /\ listening = {}
    /\ \A g \in Goroutines : pc[g] = "dial" => wsConn = 0
    /\ \A g \in Goroutines : pc[g] \in Dialled => wsConn # 0

GInv == TypeOK /\ LockInv /\ OneConnection

LEMMA Names ==
    /\ Main \in Goroutines
    /\ \A c \in Conns : Listen(c) \in Goroutines /\ Heart(c) \in Goroutines
    /\ \A c \in Conns : Listen(c) # Heart(c) /\ Listen(c) # Main /\ Heart(c) # Main
    /\ \A c, d \in Conns : Listen(c) # Heart(d)
    /\ \A c, d \in Conns : (Listen(c) = Listen(d) \/ Heart(c) = Heart(d)) => c = d
    /\ Nobody \notin Goroutines
    /\ Conns \subseteq Nat /\ 0 \notin Conns
    /\ Sessions \subseteq Nat /\ 0 \notin Sessions
  BY BoundsAssumption DEF Main, Listen, Heart, Goroutines, Nobody, Conns, Sessions

\* An identify gives the session a state Discord can have, as a resume does.
DiscordTypeOK ==
    /\ served \in [Conns -> Sessions \cup {0}]
    /\ pos \in [Conns -> Nat]
    /\ length \in [Sessions -> Nat]
    /\ valid \subseteq Sessions

LEMMA NewSessionType ==
    ASSUME DiscordTypeOK, NEW c \in Conns, NewSession(c)
    PROVE  DiscordTypeOK'
<1>1. CASE link[c] = "silent"
  BY <1>1 DEF NewSession, DiscordTypeOK, discordVars
<1>2. CASE link[c] # "silent"
  BY <1>2 DEF NewSession, DiscordTypeOK
<1> QED BY <1>1, <1>2

LEMMA ResumedType ==
    ASSUME DiscordTypeOK, sequence \in Nat, NEW c \in Conns, Resumed(c)
    PROVE  DiscordTypeOK'
<1>1. CASE link[c] = "silent" \/ sessionID \notin valid
  BY <1>1 DEF Resumed, DiscordTypeOK, discordVars
<1>2. CASE ~(link[c] = "silent" \/ sessionID \notin valid)
  <2>1. sessionID \in Sessions
    BY <1>2 DEF DiscordTypeOK
  <2> QED BY <1>2, <2>1 DEF Resumed, DiscordTypeOK
<1> QED BY <1>1, <1>2

\* A packet that is read leaves the session's variables in their types.
SessionTypeOK ==
    /\ DiscordTypeOK
    /\ sessionID \in Sessions \cup {0}
    /\ sequence \in Nat
    /\ handled \in (Sessions \cup {0}) \X Nat

LEMMA PacketType ==
    ASSUME SessionTypeOK, NEW c \in Conns, OnDispatch(c) \/ OnInvalidSession(c)
    PROVE  SessionTypeOK'
<1>1. CASE OnDispatch(c)
  <2>1. served[c] \in Sessions /\ pos[c] \in Nat
    BY <1>1 DEF OnDispatch, EventWaits, SessionTypeOK, DiscordTypeOK
  <2> QED BY <1>1, <2>1 DEF OnDispatch, SessionTypeOK, DiscordTypeOK
<1>2. CASE OnInvalidSession(c)
  BY <1>2, NewSessionType DEF OnInvalidSession, SessionTypeOK
<1> QED BY <1>1, <1>2

\* Dropping the websocket leaves none open.
LEMMA Dropped ==
    ASSUME GInv, DropConn
    PROVE  /\ wsConn' = 0
           /\ \A c \in Conns : link'[c] \in {"none", "closed"}
           /\ link' \in [Conns -> {"none", "open", "silent", "broken", "closed"}]
           /\ served' \in [Conns -> Sessions \cup {0}] /\ pos' \in [Conns -> Nat]
<1> USE Names DEF GInv, TypeOK, OneConnection, DropConn
<1>1. CASE wsConn = 0
  BY <1>1
<1>2. CASE wsConn # 0
  BY <1>2
<1> QED BY <1>1, <1>2

ClientTypeOK ==
    /\ pc \in [Goroutines -> Places]
    /\ again \subseteq Conns
    /\ lock \in Goroutines \cup {Nobody}
    /\ wsConn \in Conns \cup {0}
    /\ listening \subseteq Conns
    /\ link \in [Conns -> {"none", "open", "silent", "broken", "closed"}]

ClientInv == ClientTypeOK /\ LockInv /\ OneConnection

LEMMA Parts == GInv <=> ClientInv /\ SessionTypeOK /\ faults \in 0..MaxFaults
  BY DEF GInv, TypeOK, ClientInv, ClientTypeOK, SessionTypeOK, DiscordTypeOK

LEMMA PartsNext == GInv' <=> ClientInv' /\ SessionTypeOK' /\ (faults \in 0..MaxFaults)'
  BY DEF GInv, TypeOK, ClientInv, ClientTypeOK, SessionTypeOK, DiscordTypeOK

\* A goroutine that goes from one place to another outside the lock, or at the
\* same stage of it, disturbs nothing.
LEMMA Walks ==
    ASSUME ClientInv, NEW g \in Goroutines, NEW l \in Places, Goto(g, l),
           l \in Holding => pc[g] \in Dialled /\ l \in Dialled,
           again' \subseteq Conns,
           UNCHANGED <<lock, wsConn, listening, link>>
    PROVE  ClientInv'
  BY DEF ClientInv, ClientTypeOK, LockInv, OneConnection, Goto, Dialled, Holding, Places

\* A goroutine that lets the lock go leaves it to nobody.
LEMMA LetsGo ==
    ASSUME ClientInv, NEW g \in Goroutines, pc[g] \in Holding, NEW l \in Places \ Holding,
           Goto(g, l), lock' = Nobody, DropConn, GInv, UNCHANGED listening,
           again' = again
    PROVE  ClientInv'
<1>1. /\ wsConn' = 0 /\ \A c \in Conns : link'[c] \in {"none", "closed"}
      /\ link' \in [Conns -> {"none", "open", "silent", "broken", "closed"}]
  BY Dropped
<1>2. \A h \in Goroutines \ {g} : pc[h] \notin Holding
  BY DEF ClientInv, LockInv
<1>3. listening = {}
  BY DEF ClientInv, LockInv
<1>4. /\ pc' \in [Goroutines -> Places]
      /\ \A h \in Goroutines : pc'[h] \notin Holding
  BY <1>2 DEF Goto, ClientInv, ClientTypeOK
<1> QED
  BY <1>1, <1>3, <1>4 DEF ClientInv, ClientTypeOK, LockInv, OneConnection, Holding, Dialled

\* The steps of Open and CloseWithCode.
LEMMA OpenStepInv ==
    ASSUME GInv, NEW g \in Goroutines, OpenStep(g)
    PROVE  GInv'
<1>a. ClientInv /\ SessionTypeOK /\ faults \in 0..MaxFaults
  BY Parts
<1>b. AfterReconnect(g) \in Places \ Holding
  BY DEF AfterReconnect, Places, Holding, Dialled
<1>c. \A l \in Places : Goto(g, l) => pc' \in [Goroutines -> Places] /\ pc'[g] = l
  BY DEF GInv, TypeOK, Goto
<1>1. CASE OpenBegin(g)
  <2>1. SessionTypeOK' /\ faults' \in 0..MaxFaults
    BY <1>1, <1>a DEF OpenBegin, sessionVars, discordVars, SessionTypeOK, DiscordTypeOK
  <2>2. CASE wsConn # 0
    <3>1. ClientInv'
      BY <1>1, <1>a, <1>b, <2>2, Walks DEF OpenBegin, ClientInv, ClientTypeOK
    <3> QED BY <2>1, <3>1, PartsNext
  <2>3. CASE wsConn = 0
    <3>1. \A h \in Goroutines : pc[h] \notin Holding
      BY <1>1, <1>a, Names DEF OpenBegin, LockFree, ClientInv, LockInv
    <3>2. listening = {}
      BY <2>3, <1>a, Names DEF ClientInv, ClientTypeOK, OneConnection
    <3>3. /\ Goto(g, "dial") /\ lock' = g
          /\ UNCHANGED <<again, wsConn, listening, link>>
      BY <1>1, <2>3 DEF OpenBegin
    <3>4. /\ pc' \in [Goroutines -> Places]
          /\ \A h \in Goroutines : pc'[h] \in Holding => h = g
          /\ \A h \in Goroutines : pc'[h] \notin Dialled
      BY <3>1, <3>3, <1>a DEF Goto, ClientInv, ClientTypeOK, Places, Holding, Dialled
    <3>5. ClientInv'
      BY <3>2, <3>3, <3>4, <2>3, <1>a DEF ClientInv, ClientTypeOK, LockInv, OneConnection
    <3> QED BY <2>1, <3>5, PartsNext
  <2> QED BY <2>2, <2>3
<1>2. ASSUME OpenFails(g), pc[g] \in Holding, faults' \in 0..MaxFaults PROVE GInv'
  <2>1. /\ DropConn /\ lock' = Nobody /\ again' = again /\ UNCHANGED listening
        /\ \E l \in Places \ Holding : Goto(g, l)
    BY <1>2 DEF OpenFails, Places, Holding, Dialled
  <2>2. ClientInv'
    BY <1>2, <1>a, <2>1, LetsGo
  <2>3. SessionTypeOK'
    BY <1>2, <1>a, <2>1, Dropped DEF OpenFails, SessionTypeOK, DiscordTypeOK
  <2> QED BY <1>2, <2>2, <2>3, PartsNext
<1>3. CASE DialFails(g)
  BY <1>2, <1>3, <1>a, BoundsAssumption DEF DialFails, Fault, Holding
<1>4. CASE OpenBreaks(g)
  BY <1>2, <1>4, <1>a DEF OpenBreaks, Holding, Dialled
<1>5. CASE Dial(g)
  <2>1. PICK c \in Conns : link[c] = "none" /\ link' = [link EXCEPT ![c] = "open"] /\ wsConn' = c
    BY <1>5 DEF Dial
  <2>2. /\ lock = g /\ listening = {} /\ wsConn = 0
        /\ \A h \in Goroutines \ {g} : pc[h] \notin Holding
    BY <1>5, <1>a DEF Dial, ClientInv, LockInv, Holding
  <2>3. \A d \in Conns : link[d] \in {"none", "closed"}
    BY <2>2, <1>a, Names DEF ClientInv, OneConnection
  <2>4. /\ pc' \in [Goroutines -> Places] /\ pc'[g] = "hello"
        /\ \A h \in Goroutines \ {g} : pc'[h] = pc[h]
    BY <1>5, <1>a DEF Dial, Goto, ClientInv, ClientTypeOK, Places
  <2>5. ClientInv'
    BY <1>5, <1>a, <2>1, <2>2, <2>3, <2>4, Names
    DEF Dial, ClientInv, ClientTypeOK, LockInv, OneConnection, Holding, Dialled
  <2>6. SessionTypeOK' /\ faults' \in 0..MaxFaults
    BY <1>5, <1>a DEF Dial, sessionVars, discordVars, SessionTypeOK, DiscordTypeOK
  <2> QED BY <2>5, <2>6, PartsNext
<1>6. CASE Hello(g)
  <2>1. ClientInv'
    BY <1>6, <1>a, Walks DEF Hello, restVars, Places, Holding, Dialled, ClientInv, ClientTypeOK
  <2>2. SessionTypeOK' /\ faults' \in 0..MaxFaults
    BY <1>6, <1>a DEF Hello, restVars, sessionVars, discordVars, SessionTypeOK, DiscordTypeOK
  <2> QED BY <2>1, <2>2, PartsNext
<1>7. CASE Ask(g)
  <2>1. wsConn \in Conns
    BY <1>7, <1>a DEF Ask, ClientInv, ClientTypeOK, LockInv, Dialled
  <2>2. ClientInv'
    BY <1>7, <1>a, Walks DEF Ask, Places, Holding, Dialled, ClientInv, ClientTypeOK
  <2>3. DiscordTypeOK'
    BY <1>7, <1>a, <2>1, NewSessionType, ResumedType DEF Ask, SessionTypeOK
  <2>4. SessionTypeOK' /\ faults' \in 0..MaxFaults
    BY <1>7, <1>a, <2>3 DEF Ask, SessionTypeOK
  <2> QED BY <2>2, <2>4, PartsNext
<1>8. CASE First(g)
  <2>1. /\ wsConn \in Conns /\ lock = g /\ listening = {}
        /\ \A h \in Goroutines \ {g} : pc[h] \notin Holding
    BY <1>8, <1>a DEF First, ClientInv, ClientTypeOK, LockInv, Dialled, Holding
  <2>2. SessionTypeOK' /\ faults' \in 0..MaxFaults
    BY <1>8, <1>a, <2>1, PacketType DEF First
  <2>3. /\ pc' \in [Goroutines -> Places]
        /\ \A h \in Goroutines : pc'[h] \notin Holding
    <3> DEFINE l == IF g = Main THEN "user" ELSE AfterReconnect(g)
    <3>1. l \in Places \ Holding /\ {"read", "beat"} \subseteq Places \ Holding
      BY <1>b DEF Places, Holding, Dialled
    <3>2. Listen(wsConn) \in Goroutines /\ Heart(wsConn) \in Goroutines
      BY <2>1, Names
    <3>3. pc' = [pc EXCEPT ![g] = l, ![Listen(wsConn)] = "read", ![Heart(wsConn)] = "beat"]
      BY <1>8 DEF First
    <3> HIDE DEF l
    <3> QED BY <3>1, <3>2, <3>3, <2>1, <1>a DEF ClientInv, ClientTypeOK
  <2>4. ClientInv'
    BY <1>8, <1>a, <2>1, <2>3, Names
    DEF First, ClientInv, ClientTypeOK, LockInv, OneConnection, Holding, Dialled
  <2> QED BY <2>2, <2>4, PartsNext
<1>9. CASE FirstIsRequest(g)
  <2>1. ClientInv'
    BY <1>9, <1>a, Walks DEF FirstIsRequest, Places, Holding, Dialled, ClientInv, ClientTypeOK
  <2>2. SessionTypeOK' /\ faults' \in 0..MaxFaults
    BY <1>9, <1>a, BoundsAssumption
    DEF FirstIsRequest, Fault, sessionVars, discordVars, SessionTypeOK, DiscordTypeOK
  <2> QED BY <2>1, <2>2, PartsNext
<1>10. CASE CloseBegin(g)
  <2>1. \A h \in Goroutines : pc[h] \notin Holding
    BY <1>10, <1>a, Names DEF CloseBegin, LockFree, ClientInv, LockInv
  <2>2. listening' = {}
    BY <1>10, <1>a DEF CloseBegin, ClientInv, OneConnection
  <2>3. /\ pc' \in [Goroutines -> Places]
        /\ \A h \in Goroutines : pc'[h] \in Holding => h = g
        /\ \A h \in Goroutines : pc'[h] \notin Dialled \cup {"dial"}
    BY <1>10, <1>a, <2>1 DEF CloseBegin, Goto, ClientInv, ClientTypeOK, Places, Holding, Dialled
  <2>4. ClientInv'
    BY <1>10, <1>a, <2>2, <2>3 DEF CloseBegin, ClientInv, ClientTypeOK, LockInv, OneConnection
  <2>5. SessionTypeOK' /\ faults' \in 0..MaxFaults
    BY <1>10, <1>a DEF CloseBegin, sessionVars, discordVars, SessionTypeOK, DiscordTypeOK
  <2> QED BY <2>4, <2>5, PartsNext
<1>11. CASE CloseEnd(g)
  <2>1. /\ DropConn /\ lock' = Nobody /\ again' = again /\ UNCHANGED listening
        /\ Goto(g, "open") /\ "open" \in Places \ Holding /\ pc[g] \in Holding
    BY <1>11 DEF CloseEnd, Places, Holding, Dialled
  <2>2. ClientInv'
    BY <1>a, <2>1, LetsGo
  <2>3. SessionTypeOK' /\ faults' \in 0..MaxFaults
    BY <1>11, <1>a, <2>1, Dropped DEF CloseEnd, SessionTypeOK, DiscordTypeOK
  <2> QED BY <2>2, <2>3, PartsNext
<1> QED
  BY <1>1, <1>3, <1>4, <1>5, <1>6, <1>7, <1>8, <1>9, <1>10, <1>11 DEF OpenStep

\* The steps of a websocket's two goroutines outside Open and CloseWithCode.
LEMMA ReaderStepInv ==
    ASSUME GInv, NEW c \in Conns, ListenStep(c) \/ HeartStep(c) \/ User
    PROVE  GInv'
<1>a. ClientInv /\ SessionTypeOK /\ faults \in 0..MaxFaults
  BY Parts
<1>b. Listen(c) \in Goroutines /\ Heart(c) \in Goroutines /\ Main \in Goroutines
  BY Names
<1>c. ASSUME UNCHANGED restVars, NEW g \in Goroutines, NEW l \in Places \ Holding, Goto(g, l)
      PROVE  GInv'
  <2>1. ClientInv'
    BY <1>a, <1>c, Walks DEF restVars, ClientInv, ClientTypeOK
  <2>2. SessionTypeOK' /\ faults' \in 0..MaxFaults
    BY <1>a, <1>c DEF restVars, sessionVars, discordVars, SessionTypeOK, DiscordTypeOK
  <2> QED BY <2>1, <2>2, PartsNext
<1>1. CASE ReadEvent(c) \/ ReadInvalidSession(c)
  <2>1. SessionTypeOK' /\ faults' \in 0..MaxFaults
    BY <1>1, <1>a, PacketType DEF ReadEvent, ReadInvalidSession
  <2>2. ClientInv'
    BY <1>1, <1>a
    DEF ReadEvent, ReadInvalidSession, ClientInv, ClientTypeOK, LockInv, OneConnection
  <2> QED BY <2>1, <2>2, PartsNext
<1>2. CASE ReadRequest(c)
  <2>1. Goto(Listen(c), "close") /\ "close" \in Places \ Holding /\ again' \subseteq Conns
        /\ UNCHANGED <<lock, wsConn, listening, link>>
    BY <1>2, <1>a DEF ReadRequest, Places, Holding, Dialled, ClientInv, ClientTypeOK
  <2>2. ClientInv'
    BY <1>a, <1>b, <2>1, Walks
  <2>3. SessionTypeOK' /\ faults' \in 0..MaxFaults
    BY <1>2, <1>a, BoundsAssumption
    DEF ReadRequest, Fault, sessionVars, discordVars, SessionTypeOK, DiscordTypeOK
  <2> QED BY <2>2, <2>3, PartsNext
<1>3. CASE ReadLast(c) \/ ReadFails(c) \/ SameConnection(c)
  <2>1. /\ UNCHANGED restVars
        /\ \E l \in {"done", "check", "close"} : Goto(Listen(c), l)
    BY <1>3 DEF ReadLast, ReadFails, SameConnection
  <2>2. {"done", "check", "close"} \subseteq Places \ Holding
    BY DEF Places, Holding, Dialled
  <2> QED BY <1>b, <1>c, <2>1, <2>2
<1>4. CASE Beat(c)
  <2>1. /\ UNCHANGED restVars
        /\ \E l \in {"wait", "close"} : Goto(Heart(c), l)
    BY <1>4 DEF Beat
  <2>2. {"wait", "close"} \subseteq Places \ Holding
    BY DEF Places, Holding, Dialled
  <2> QED BY <1>b, <1>c, <2>1, <2>2
<1>5. CASE Wait(c)
  <2>1. /\ \E l \in {"beat", "done"} : Goto(Heart(c), l)
        /\ UNCHANGED <<again, lock, wsConn, listening, link, sessionVars>>
        /\ faults' \in 0..MaxFaults
    BY <1>5, <1>a, BoundsAssumption DEF Wait, Fault
  <2>2. {"beat", "done"} \subseteq Places \ Holding
    BY DEF Places, Holding, Dialled
  <2>3. ClientInv'
    BY <1>a, <1>b, <2>1, <2>2, Walks DEF ClientInv, ClientTypeOK
  <2>4. SessionTypeOK'
    BY <1>a, <2>1 DEF sessionVars, discordVars, SessionTypeOK, DiscordTypeOK
  <2> QED BY <2>1, <2>3, <2>4, PartsNext
<1>6. CASE User
  <2>1. /\ UNCHANGED restVars
        /\ \E l \in {"crashed", "done"} : Goto(Main, l)
    BY <1>6 DEF User
  <2>2. {"crashed", "done"} \subseteq Places \ Holding
    BY DEF Places, Holding, Dialled
  <2> QED BY <1>b, <1>c, <2>1, <2>2
<1> QED
  BY <1>1, <1>2, <1>3, <1>4, <1>5, <1>6, <1>b, OpenStepInv DEF ListenStep, HeartStep

\* What Discord and the network do.
LEMMA OutsideStepInv ==
    ASSUME GInv, NEW c \in Conns, NEW s \in Sessions,
           Dispatch(s) \/ Invalidate(s) \/ Break(c) \/ Notice(c)
    PROVE  GInv'
<1>a. ClientInv /\ SessionTypeOK /\ faults \in 0..MaxFaults
  BY Parts
<1>1. CASE Dispatch(s) \/ Invalidate(s)
  <2>1. ClientInv'
    BY <1>1, <1>a
    DEF Dispatch, Invalidate, clientVars, ClientInv, ClientTypeOK, LockInv, OneConnection
  <2>2. SessionTypeOK' /\ faults' \in 0..MaxFaults
    BY <1>1, <1>a, BoundsAssumption
    DEF Dispatch, Invalidate, Fault, clientVars, SessionTypeOK, DiscordTypeOK
  <2> QED BY <2>1, <2>2, PartsNext
<1>2. CASE Break(c) \/ Notice(c)
  <2>1. ClientInv'
    BY <1>2, <1>a
    DEF Break, Notice, clientVars, ClientInv, ClientTypeOK, LockInv, OneConnection
  <2>2. SessionTypeOK' /\ faults' \in 0..MaxFaults
    BY <1>2, <1>a, BoundsAssumption
    DEF Break, Notice, Fault, clientVars, discordVars, SessionTypeOK, DiscordTypeOK
  <2> QED BY <2>1, <2>2, PartsNext
<1> QED BY <1>1, <1>2

LEMMA GInvAlways == Spec => []GInv
<1>1. Init => GInv
  BY Names, BoundsAssumption
  DEF Init, GInv, TypeOK, Places, LockInv, OneConnection, Holding, Dialled
<1>2. GInv /\ [Next]_vars => GInv'
  <2> SUFFICES ASSUME GInv, [Next]_vars PROVE GInv'
    OBVIOUS
  <2>1. CASE MainStep
    <3>1. PICK c \in Conns : TRUE
      BY BoundsAssumption DEF Conns
    <3> QED BY <2>1, <3>1, OpenStepInv, ReaderStepInv, Names DEF MainStep
  <2>2. CASE \E c \in Conns : ListenStep(c) \/ HeartStep(c)
    BY <2>2, ReaderStepInv
  <2>3. CASE \E s \in Sessions : Dispatch(s) \/ Invalidate(s)
    <3>1. PICK c \in Conns : TRUE
      BY BoundsAssumption DEF Conns
    <3> QED BY <2>3, <3>1, OutsideStepInv
  <2>4. CASE \E c \in Conns : Break(c) \/ Notice(c)
    <3>1. PICK s \in Sessions : TRUE
      BY BoundsAssumption DEF Sessions
    <3> QED BY <2>4, <3>1, OutsideStepInv
  <2>5. CASE UNCHANGED vars
    BY <2>5
    DEF vars, clientVars, discordVars, GInv, TypeOK, LockInv, OneConnection
  <2> QED BY <2>1, <2>2, <2>3, <2>4, <2>5 DEF Next
<1> QED BY <1>1, <1>2, PTL DEF Spec

\* Every variable of the session keeps its type, for any number of websockets,
\* Discord sessions, events and faults.
THEOREM GatewayTypeCorrect == Spec => []TypeOK
<1>1. GInv => TypeOK
  BY DEF GInv
<1> QED BY <1>1, GInvAlways, PTL

\* A websocket that is not closed is the session's own: no goroutine that
\* reconnects leaves one behind (wsapi.go:241, wsapi.go:303).
THEOREM OneConnectionAlways == Spec => []OneConnection
<1>1. GInv => OneConnection
  BY DEF GInv
<1> QED BY <1>1, GInvAlways, PTL
--------------------------------------------------------------------------------------
\* Discord numbers its sessions in the order it makes them, and each one it keeps
\* or the client knows has had its READY.
Numbered ==
    /\ \A s, t \in Sessions : t < s /\ length[s] > 0 => length[t] > 0
    /\ \A s \in valid : length[s] > 0
    /\ sessionID # 0 => length[sessionID] > 0

\* The session's websocket alone carries a session: the client's own, as far as
\* the client has read it, or a later one of which nothing was read and which
\* Discord made because the client's own is gone.
Carried ==
    \A c \in Conns : served[c] # 0 =>
       /\ c = wsConn
       /\ \/ served[c] = sessionID /\ pos[c] = sequence
          \/ served[c] > sessionID /\ pos[c] = 0 /\ sessionID \notin valid

Reading == wsConn \in listening \/ \E g \in Goroutines : pc[g] = "first"

\* A websocket that was asked for a session and carries none will be refused.
Refused ==
    wsConn # 0 /\ link[wsConn] = "open" /\ served[wsConn] = 0 /\ Reading
       => sessionID \notin valid

\* What was handled is what the client says when it resumes.
Handled == handled = <<sessionID, sequence>> /\ (sessionID = 0 <=> sequence = 0)

SInv == Numbered /\ Carried /\ Refused /\ Handled

\* A session Discord makes is later than the client's.
LEMMA NewSessionKeeps ==
    ASSUME GInv, Numbered, Carried, wsConn # 0, sessionID \notin valid,
           NewSession(wsConn), UNCHANGED <<sessionID, sequence, wsConn>>
    PROVE  /\ Numbered' /\ Carried' /\ (sessionID \notin valid)'
<1>a. /\ wsConn \in Conns /\ served \in [Conns -> Sessions \cup {0}]
      /\ pos \in [Conns -> Nat] /\ length \in [Sessions -> Nat]
      /\ sessionID \in Sessions \cup {0} /\ valid \subseteq Sessions
  BY DEF GInv, TypeOK
<1>1. CASE link[wsConn] = "silent"
  BY <1>1 DEF NewSession, discordVars, Numbered, Carried
<1>2. CASE link[wsConn] # "silent"
  <2>1. PICK s \in Sessions :
           /\ length[s] = 0 /\ \A t \in 1..(s - 1) : length[t] > 0
           /\ length' = [length EXCEPT ![s] = 1]
           /\ valid' = valid \cup {s}
           /\ served' = [served EXCEPT ![wsConn] = s]
           /\ pos' = [pos EXCEPT ![wsConn] = 0]
    BY <1>2 DEF NewSession
  <2>2. \A t \in Sessions : t < s => length[t] > 0
    BY <2>1 DEF Sessions
  <2>3. \A t \in Sessions : length[t] > 0 => t < s
    BY <1>a, <2>1, BoundsAssumption DEF Numbered, Sessions
  <2>4. sessionID < s
    BY <1>a, <2>3, BoundsAssumption DEF Numbered, Sessions
  <2>5. Numbered'
    <3>1. \A t \in Sessions : length'[t] = IF t = s THEN 1 ELSE length[t]
      BY <1>a, <2>1
    <3>2. \A t, u \in Sessions : u < t /\ length'[t] > 0 => length'[u] > 0
      BY <1>a, <2>2, <2>3, <3>1, BoundsAssumption DEF Sessions
    <3>3. \A t \in valid' : length'[t] > 0
      BY <1>a, <2>1, <3>1 DEF Numbered
    <3>4. sessionID # 0 => length'[sessionID] > 0
      BY <1>a, <3>1 DEF Numbered
    <3> QED BY <3>2, <3>3, <3>4 DEF Numbered
  <2>6. sessionID \notin valid'
    BY <2>1, <2>4, <1>a, BoundsAssumption DEF Sessions
  <2>7. Carried'
    <3>1. \A c \in Conns \ {wsConn} : served'[c] = served[c] /\ served[c] = 0
      BY <1>a, <2>1 DEF Carried
    <3>2. served'[wsConn] = s /\ pos'[wsConn] = 0
      BY <1>a, <2>1
    <3> QED BY <2>4, <2>6, <3>1, <3>2 DEF Carried
  <2> QED BY <2>5, <2>6, <2>7
<1> QED BY <1>1, <1>2

\* A session taken up goes on where the client is; one that is not, is gone.
LEMMA ResumedKeeps ==
    ASSUME GInv, Numbered, Carried, wsConn # 0, Resumed(wsConn),
           UNCHANGED <<sessionID, sequence, wsConn>>
    PROVE  /\ Numbered' /\ Carried'
           /\ link[wsConn] = "open" /\ served'[wsConn] = 0 => (sessionID \notin valid)'
<1>a. /\ wsConn \in Conns /\ served \in [Conns -> Sessions \cup {0}]
      /\ pos \in [Conns -> Nat] /\ length \in [Sessions -> Nat]
      /\ valid \subseteq Sessions /\ sequence \in Nat
  BY DEF GInv, TypeOK
<1>1. CASE link[wsConn] = "silent" \/ sessionID \notin valid
  BY <1>1 DEF Resumed, discordVars, Numbered, Carried
<1>2. CASE ~(link[wsConn] = "silent" \/ sessionID \notin valid)
  <2>1. /\ served' = [served EXCEPT ![wsConn] = sessionID]
        /\ pos' = [pos EXCEPT ![wsConn] = sequence]
        /\ length' = [length EXCEPT ![sessionID] = @ + 1]
        /\ valid' = valid /\ sessionID \in Sessions
    BY <1>2, <1>a DEF Resumed
  <2>2. \A t \in Sessions : length'[t] > 0 <=> length[t] > 0
    BY <1>a, <1>2, <2>1 DEF Numbered
  <2>3. Numbered'
    BY <1>a, <2>1, <2>2 DEF Numbered
  <2>4. Carried'
    BY <1>a, <2>1 DEF Carried
  <2>5. served'[wsConn] # 0
    BY <1>a, <2>1, Names
  <2> QED BY <2>3, <2>4, <2>5
<1> QED BY <1>1, <1>2

\* An event that is read is the next one of the client's session, or the READY
\* of a later session when the client's own is gone.
LEMMA DispatchKeeps ==
    ASSUME GInv, SInv, wsConn # 0, OnDispatch(wsConn), UNCHANGED wsConn
    PROVE  /\ Numbered' /\ Carried' /\ Handled' /\ served'[wsConn] # 0
           /\ Stream!Next /\ (sessionID' # sessionID => sessionID \notin valid)
<1>a. /\ wsConn \in Conns /\ served \in [Conns -> Sessions \cup {0}]
      /\ pos \in [Conns -> Nat] /\ sessionID \in Sessions \cup {0} /\ sequence \in Nat
      /\ valid \subseteq Sessions
  BY DEF GInv, TypeOK
<1> DEFINE s == served[wsConn]
<1>1. /\ s \in valid /\ s \in Sessions /\ s # 0
      /\ pos' = [pos EXCEPT ![wsConn] = @ + 1] /\ sequence' = pos[wsConn] + 1
      /\ sessionID' = (IF pos[wsConn] = 0 THEN s ELSE sessionID)
      /\ handled' = <<s, pos[wsConn] + 1>>
      /\ UNCHANGED <<served, length, valid>>
  BY <1>a, Names DEF OnDispatch, EventWaits
<1>2. sessionID' = s
  BY <1>a, <1>1 DEF SInv, Carried
<1>3. Numbered' /\ Handled'
  BY <1>a, <1>1, <1>2 DEF SInv, Numbered, Handled
<1>4. Carried'
  <2>1. \A c \in Conns : served'[c] # 0 => c = wsConn
    BY <1>1 DEF SInv, Carried
  <2>2. pos'[wsConn] = sequence'
    BY <1>a, <1>1
  <2> QED BY <1>1, <1>2, <2>1, <2>2 DEF Carried
<1>5. CASE s = sessionID /\ pos[wsConn] = sequence
  <2>1. handled = <<s, sequence>> /\ handled' = <<s, sequence + 1>>
    BY <1>1, <1>5 DEF SInv, Handled
  <2>2. Stream!NextEvent
    BY <2>1, <1>1 DEF Stream!NextEvent
  <2> QED BY <1>1, <1>2, <1>3, <1>4, <1>5, <2>2 DEF Stream!Next
<1>6. CASE s > sessionID /\ pos[wsConn] = 0 /\ sessionID \notin valid
  <2>1. handled = <<sessionID, sequence>> /\ handled' = <<s, 1>>
    BY <1>1, <1>6 DEF SInv, Handled
  <2>2. Stream!NewSession
    BY <2>1, <1>6 DEF Stream!NewSession
  <2> QED BY <1>1, <1>3, <1>4, <1>6, <2>2 DEF Stream!Next
<1> QED BY <1>1, <1>5, <1>6, <1>a DEF SInv, Carried

\* A websocket that is dropped takes nothing of the session along.
LEMMA DropKeeps ==
    ASSUME GInv, SInv, DropConn, UNCHANGED <<sessionID, sequence, length, valid, handled>>
    PROVE  SInv'
<1>a. wsConn \in Conns \cup {0} /\ served \in [Conns -> Sessions \cup {0}]
  BY DEF GInv, TypeOK
<1>1. \A c \in Conns : served'[c] = 0
  <2>1. CASE wsConn = 0
    BY <1>a, <2>1, Names DEF DropConn, SInv, Carried
  <2>2. CASE wsConn # 0
    BY <1>a, <2>2 DEF DropConn, SInv, Carried
  <2> QED BY <2>1, <2>2
<1>2. wsConn' = 0
  BY DEF DropConn
<1> QED BY <1>1, <1>2 DEF SInv, Numbered, Carried, Refused, Handled

\* Whoever reads no packet and asks for no session leaves the session alone.
LEMMA StillKeeps ==
    ASSUME GInv, SInv, UNCHANGED <<wsConn, sessionID, sequence, served, pos, handled>>,
           valid' \subseteq valid, \A s \in Sessions : length[s] > 0 <=> length'[s] > 0,
           \A c \in Conns : link'[c] = "open" => link[c] = "open",
           listening' \subseteq listening,
           \A g \in Goroutines : pc'[g] = "first" => pc[g] = "first"
    PROVE  SInv'
<1>a. /\ wsConn \in Conns \cup {0} /\ valid \subseteq Sessions
      /\ sessionID \in Sessions \cup {0}
  BY DEF GInv, TypeOK
<1>1. Numbered'
  BY <1>a DEF SInv, Numbered
<1>2. Carried'
  BY DEF SInv, Carried
<1>3. Refused' /\ Handled'
  BY <1>a DEF SInv, Refused, Reading, Handled
<1> QED BY <1>1, <1>2, <1>3 DEF SInv

\* What a step does to the session: it goes on with the session's stream, or
\* leaves it alone.
Kept ==
    /\ SInv'
    /\ Stream!Next \/ UNCHANGED handled
    /\ sessionID' # sessionID => sessionID \notin valid

LEMMA WalkKeeps ==
    ASSUME GInv, SInv, NEW g \in Goroutines, NEW l \in Places \ {"first"}, Goto(g, l),
           UNCHANGED <<wsConn, listening, link, sessionVars>>
    PROVE  Kept
<1>1. \A h \in Goroutines : pc'[h] = "first" => pc[h] = "first"
  BY DEF Goto, GInv, TypeOK
<1>2. SInv'
  BY <1>1, StillKeeps DEF sessionVars, discordVars
<1> QED BY <1>2 DEF Kept, sessionVars

LEMMA DropKept ==
    ASSUME GInv, SInv, DropConn, UNCHANGED <<sessionID, sequence, length, valid, handled>>
    PROVE  Kept
  BY DropKeeps DEF Kept

\* A packet that is read on the session's websocket.
LEMMA PacketKeeps ==
    ASSUME GInv, SInv, wsConn # 0, Reading, OnDispatch(wsConn) \/ OnInvalidSession(wsConn),
           UNCHANGED wsConn
    PROVE  Kept
<1>1. CASE OnDispatch(wsConn)
  <2>1. SInv'
    BY <1>1, DispatchKeeps DEF SInv, Refused
  <2> QED BY <1>1, <2>1, DispatchKeeps DEF Kept
<1>2. CASE OnInvalidSession(wsConn)
  <2>1. sessionID \notin valid
    BY <1>2 DEF OnInvalidSession, RefusalWaits, SInv, Carried, Refused, GInv, TypeOK
  <2>2. /\ Numbered' /\ Carried' /\ (sessionID \notin valid)'
        /\ UNCHANGED <<sessionID, sequence, handled>>
    BY <1>2, <2>1, NewSessionKeeps DEF OnInvalidSession, SInv
  <2>3. SInv'
    BY <2>2 DEF SInv, Refused, Handled
  <2> QED BY <2>2, <2>3 DEF Kept
<1> QED BY <1>1, <1>2

LEMMA OpenStepKeeps ==
    ASSUME GInv, SInv, NEW g \in Goroutines, OpenStep(g)
    PROVE  Kept
<1>a. AfterReconnect(g) \in Places \ {"first"}
  BY DEF AfterReconnect, Places
<1>b. {"dial", "ask", "close", "closing", "open", "hello"} \subseteq Places \ {"first"}
  BY DEF Places
<1>c. wsConn \in Conns \cup {0} /\ pc \in [Goroutines -> Places] /\ LockInv
  BY DEF GInv, TypeOK
<1>1. CASE OpenBegin(g) \/ Hello(g) \/ FirstIsRequest(g)
  <2>1. UNCHANGED <<wsConn, listening, link, sessionVars>>
    BY <1>1 DEF OpenBegin, Hello, FirstIsRequest, restVars
  <2>2. \E l \in Places \ {"first"} : Goto(g, l)
    BY <1>1, <1>a, <1>b DEF OpenBegin, Hello, FirstIsRequest
  <2> QED BY <2>1, <2>2, WalkKeeps
<1>2. CASE DialFails(g) \/ OpenBreaks(g) \/ CloseEnd(g)
  BY <1>2, DropKept DEF DialFails, OpenBreaks, OpenFails, CloseEnd
<1>3. CASE Dial(g)
  <2>1. PICK c \in Conns : wsConn' = c
    BY <1>3 DEF Dial
  <2>2. /\ wsConn = 0 /\ listening = {} /\ Goto(g, "hello") /\ UNCHANGED <<listening, sessionVars>>
        /\ \A h \in Goroutines \ {g} : pc[h] \notin Holding
    BY <1>3, <1>c DEF Dial, LockInv, Holding
  <2>3. \A d \in Conns : served[d] = 0
    BY <2>2, Names DEF SInv, Carried
  <2>4. \A h \in Goroutines : pc'[h] # "first"
    BY <1>c, <2>2 DEF Goto, Holding, Dialled
  <2>5. SInv'
    BY <2>2, <2>3, <2>4
    DEF sessionVars, discordVars, SInv, Numbered, Carried, Refused, Reading, Handled
  <2> QED BY <2>2, <2>5 DEF Kept, sessionVars
<1>4. CASE Ask(g)
  <2>1. /\ wsConn # 0 /\ wsConn \in Conns
        /\ UNCHANGED <<wsConn, listening, sessionID, sequence, link, handled>>
    BY <1>4, <1>c DEF Ask, LockInv, Dialled
  <2>2. CASE sessionID = 0 /\ sequence = 0
    <3>1. sessionID \notin valid /\ NewSession(wsConn)
      BY <1>4, <2>2, Names DEF Ask, GInv, TypeOK
    <3>2. Numbered' /\ Carried' /\ (sessionID \notin valid)'
      BY <2>1, <3>1, NewSessionKeeps DEF SInv
    <3>3. SInv'
      BY <2>1, <3>2 DEF SInv, Refused, Handled
    <3> QED BY <2>1, <3>3 DEF Kept
  <2>3. CASE ~(sessionID = 0 /\ sequence = 0)
    <3>1. Resumed(wsConn)
      BY <1>4, <2>3 DEF Ask
    <3>2. /\ Numbered' /\ Carried'
          /\ link[wsConn] = "open" /\ served'[wsConn] = 0 => (sessionID \notin valid)'
      BY <2>1, <3>1, ResumedKeeps DEF SInv
    <3>3. SInv'
      BY <2>1, <3>2 DEF SInv, Refused, Handled
    <3> QED BY <2>1, <3>3 DEF Kept
  <2> QED BY <2>2, <2>3
<1>5. CASE First(g)
  <2>1. wsConn # 0 /\ Reading /\ UNCHANGED wsConn
    BY <1>5, <1>c DEF First, Reading, LockInv, Dialled
  <2> QED BY <1>5, <2>1, PacketKeeps DEF First
<1>6. CASE CloseBegin(g)
  <2>1. \A h \in Goroutines : pc'[h] = "first" => pc[h] = "first"
    BY <1>6, <1>c DEF CloseBegin, Goto
  <2>2. listening' \subseteq listening /\ UNCHANGED <<wsConn, link, sessionVars>>
    BY <1>6 DEF CloseBegin
  <2>3. SInv'
    BY <2>1, <2>2, StillKeeps DEF sessionVars, discordVars
  <2> QED BY <2>2, <2>3 DEF Kept, sessionVars
<1> QED BY <1>1, <1>2, <1>3, <1>4, <1>5, <1>6 DEF OpenStep

LEMMA ReaderStepKeeps ==
    ASSUME GInv, SInv, NEW c \in Conns, ListenStep(c) \/ HeartStep(c) \/ User
    PROVE  Kept
<1>a. Listen(c) \in Goroutines /\ Heart(c) \in Goroutines /\ Main \in Goroutines
  BY Names
<1>b. {"close", "done", "check", "wait", "beat", "crashed"} \subseteq Places \ {"first"}
  BY DEF Places
<1>1. CASE ReadEvent(c) \/ ReadInvalidSession(c)
  <2>1. c \in listening /\ UNCHANGED wsConn
    BY <1>1 DEF ReadEvent, ReadInvalidSession
  <2>2. c = wsConn /\ wsConn # 0 /\ Reading
    BY <2>1, Names DEF GInv, OneConnection, Reading
  <2> QED BY <1>1, <2>1, <2>2, PacketKeeps DEF ReadEvent, ReadInvalidSession
<1>2. CASE ReadRequest(c) \/ ReadLast(c) \/ ReadFails(c) \/ SameConnection(c)
  <2>1. /\ UNCHANGED <<wsConn, listening, link, sessionVars>>
        /\ \E l \in {"close", "done", "check"} : Goto(Listen(c), l)
    BY <1>2 DEF ReadRequest, ReadLast, ReadFails, SameConnection, restVars
  <2> QED BY <1>a, <1>b, <2>1, WalkKeeps
<1>3. CASE Beat(c) \/ Wait(c)
  <2>1. /\ UNCHANGED <<wsConn, listening, link, sessionVars>>
        /\ \E l \in {"wait", "close", "beat", "done"} : Goto(Heart(c), l)
    BY <1>3 DEF Beat, Wait, restVars
  <2> QED BY <1>a, <1>b, <2>1, WalkKeeps
<1>4. CASE User
  <2>1. /\ UNCHANGED <<wsConn, listening, link, sessionVars>>
        /\ \E l \in {"crashed", "done"} : Goto(Main, l)
    BY <1>4 DEF User, restVars
  <2> QED BY <1>a, <1>b, <2>1, WalkKeeps
<1> QED
  BY <1>1, <1>2, <1>3, <1>4, <1>a, OpenStepKeeps DEF ListenStep, HeartStep

LEMMA OutsideStepKeeps ==
    ASSUME GInv, SInv, NEW c \in Conns, NEW s \in Sessions,
           Dispatch(s) \/ Invalidate(s) \/ Break(c) \/ Notice(c)
    PROVE  Kept
<1>1. /\ UNCHANGED <<clientVars, served, pos, handled>> /\ valid' \subseteq valid
      /\ \A d \in Conns : link'[d] = "open" => link[d] = "open"
  BY DEF Dispatch, Invalidate, Break, Notice, discordVars, GInv, TypeOK
<1>2. \A t \in Sessions : length[t] > 0 <=> length'[t] > 0
  BY DEF Dispatch, Invalidate, Break, Notice, discordVars, GInv, TypeOK
<1>3. SInv'
  BY <1>1, <1>2, StillKeeps DEF clientVars
<1> QED BY <1>1, <1>3 DEF Kept, clientVars

LEMMA NextKeeps == GInv /\ SInv /\ [Next]_vars => Kept
<1> SUFFICES ASSUME GInv, SInv, [Next]_vars PROVE Kept
  OBVIOUS
<1>a. PICK c \in Conns : TRUE
  BY BoundsAssumption DEF Conns
<1>b. PICK s \in Sessions : TRUE
  BY BoundsAssumption DEF Sessions
<1>1. CASE MainStep
  BY <1>1, <1>a, OpenStepKeeps, ReaderStepKeeps, Names DEF MainStep
<1>2. CASE \E d \in Conns : ListenStep(d) \/ HeartStep(d)
  BY <1>2, ReaderStepKeeps
<1>3. CASE \E t \in Sessions : Dispatch(t) \/ Invalidate(t)
  BY <1>3, <1>a, OutsideStepKeeps
<1>4. CASE \E d \in Conns : Break(d) \/ Notice(d)
  BY <1>4, <1>b, OutsideStepKeeps
<1>5. CASE UNCHANGED vars
  <2>1. SInv'
    BY <1>5, StillKeeps DEF vars, clientVars, discordVars
  <2> QED BY <1>5, <2>1 DEF Kept, vars, clientVars
<1> QED BY <1>1, <1>2, <1>3, <1>4, <1>5 DEF Next

LEMMA SInvAlways == Spec => []SInv
<1>1. Init => SInv
  BY Names DEF Init, SInv, Numbered, Carried, Refused, Handled
<1>2. GInv /\ SInv /\ [Next]_vars => SInv'
  BY NextKeeps DEF Kept
<1> QED BY <1>1, <1>2, GInvAlways, PTL DEF Spec

\* However often the session reconnects, it changes to another session only when
\* Discord does not have its own any more (wsapi.go:128, "Op 6 Resume").
THEOREM SessionAlwaysKept == Spec => SessionKept
<1>1. GInv /\ SInv /\ [Next]_vars => [sessionID' # sessionID => sessionID \notin valid]_vars
  BY NextKeeps DEF Kept
<1> QED BY <1>1, GInvAlways, SInvAlways, PTL DEF Spec, SessionKept

\* The handlers get the stream GatewayStream promises: the events of a session
\* one after the other, none twice and none left out, and after them those of a
\* later session from its READY on, over any number of reconnections.
THEOREM ImplementsStream == Spec => StreamSpec
<1>1. Init => Stream!Init
  BY DEF Init, Stream!Init
<1>2. GInv /\ SInv /\ [Next]_vars => [Stream!Next]_(Stream!vars)
  BY NextKeeps DEF Kept, Stream!vars
<1> QED BY <1>1, <1>2, GInvAlways, SInvAlways, PTL DEF Spec, StreamSpec, Stream!Spec
--------------------------------------------------------------------------------------
\* That somebody minds the connection: the part of Recovers that is about states.

\* Making a connection, or ending one to make the next.
Connecting == Holding \cup {"open"}

\* Only main is there yet.
Alone == \A g \in Goroutines \ {Main} : pc[g] = "none"
Stopped == ~Running \/ (pc[Main] = "done" /\ Alone)

\* main is alone in its Open, and nothing was handled before it.
Begun ==
    /\ pc[Main] \in Connecting \cup {"close"} => Alone
    /\ Alone => handled[1] = 0

\* Outside of the lock a connection is one that is listened to,
Linked == lock = Nobody /\ wsConn # 0 => wsConn \in listening
\* by its own listener, which reads or is about to close it;
Watched == wsConn \in listening => pc[Listen(wsConn)] \in {"read", "check", "close"}
\* without one somebody is on the way to make one.
Someone ==
    \/ wsConn \in listening \/ \E g \in Goroutines : pc[g] \in Connecting
    \/ SelfLocked \/ Stopped
\* Who has the lock is at a step that needs no other lock, or waits for itself.
LockUsed == lock # Nobody => pc[lock] \in Holding \cup {"close"}

WInv == Begun /\ Linked /\ Watched /\ Someone /\ LockUsed

Attended ==
    /\ wsConn \in listening => pc[Listen(wsConn)] \in {"read", "check", "close"}
    /\ \/ wsConn \in listening \/ \E g \in Goroutines : pc[g] \in Connecting
       \/ SelfLocked \/ Ended
    /\ lock # Nobody => pc[lock] \in Holding \/ SelfLocked

\* A session that has locked itself up stays so.
LockedForGood == SelfLocked => SelfLocked' /\ UNCHANGED lock

\* A goroutine that only goes from one place to another.
LEMMA Goes ==
    ASSUME GInv, WInv, Running, NEW g \in Goroutines, NEW l \in Places \ {"none"}, Goto(g, l),
           UNCHANGED <<lock, wsConn, listening, handled>>,
           pc[g] \notin {"none", "done"}, pc[g] = "close" => lock # g,
           l \in Connecting \cup {"close"} => g # Main \/ pc[g] \in Connecting,
           lock = g => l \in Holding \cup {"close"},
           wsConn \in listening /\ g = Listen(wsConn) => l \in {"read", "check", "close"},
           pc[g] \in Connecting =>
              l \in Connecting \/ (l = "close" /\ lock = g) \/ wsConn \in listening
    PROVE  WInv' /\ LockedForGood
<1>1. \A h \in Goroutines : pc'[h] = IF h = g THEN l ELSE pc[h]
  BY DEF Goto, GInv, TypeOK
<1>2. lock \in Goroutines \cup {Nobody} /\ wsConn \in Conns \cup {0} /\ listening \subseteq Conns
  BY DEF GInv, TypeOK
<1>3. (Alone' => Alone) /\ (Alone /\ g = Main => Alone') /\ (Alone => g = Main)
  BY <1>1 DEF Alone
<1>4. Begun' /\ Linked'
  BY <1>1, <1>3, Names DEF WInv, Begun, Linked
<1>5. Watched'
  BY <1>1, <1>2, Names DEF WInv, Watched
<1>6. LockUsed'
  BY <1>1, <1>2, Names DEF WInv, LockUsed
<1>7. LockedForGood
  BY <1>1, <1>2 DEF LockedForGood, SelfLocked
<1>8. Someone'
  <2>1. CASE wsConn \in listening
    BY <2>1 DEF Someone
  <2>2. CASE SelfLocked
    BY <1>7, <2>2 DEF Someone, LockedForGood
  <2>3. CASE Stopped
    BY <1>3, <2>3 DEF Stopped
  <2>4. ASSUME NEW h \in Goroutines, pc[h] \in Connecting PROVE Someone'
    <3>1. CASE h # g
      BY <1>1, <2>4, <3>1 DEF Someone
    <3>2. CASE h = g /\ l \in Connecting
      BY <1>1, <3>2 DEF Someone
    <3>3. CASE h = g /\ l = "close" /\ lock = g
      BY <1>1, <3>3, Names DEF Someone, SelfLocked
    <3> QED BY <2>1, <2>4, <3>1, <3>2, <3>3
  <2> QED BY <2>1, <2>2, <2>3, <2>4 DEF WInv, Someone
<1> QED BY <1>4, <1>5, <1>6, <1>7, <1>8 DEF WInv

\* Everything about the connection and the goroutines stays.
LEMMA Rests ==
    ASSUME WInv, UNCHANGED <<pc, lock, wsConn, listening>>, UNCHANGED handled \/ ~Alone
    PROVE  WInv' /\ LockedForGood
<1>1. Alone' <=> Alone
  BY DEF Alone
<1>2. Begun'
  BY <1>1 DEF WInv, Begun
<1>3. Linked' /\ Watched' /\ LockUsed' /\ (SelfLocked <=> SelfLocked')
  BY DEF WInv, Linked, Watched, LockUsed, SelfLocked
<1>4. Someone'
  BY <1>1, <1>3 DEF WInv, Someone, Stopped, Running
<1> QED BY <1>2, <1>3, <1>4 DEF WInv, LockedForGood

LEMMA OpenStepAttends ==
    ASSUME GInv, WInv, Running, NEW g \in Goroutines, OpenStep(g)
    PROVE  WInv' /\ LockedForGood
<1>a. /\ pc \in [Goroutines -> Places] /\ wsConn \in Conns \cup {0} /\ listening \subseteq Conns
      /\ lock \in Goroutines \cup {Nobody} /\ LockInv
  BY DEF GInv, TypeOK
<1>b. {"dial", "ask", "close", "closing", "open", "hello", "first", "done", "read", "user", "beat"}
         \subseteq Places \ {"none"}
  BY DEF Places
<1>c. AfterReconnect(g) \in {"read", "done"} /\ (g = Main => AfterReconnect(g) = "done")
  BY Names DEF AfterReconnect, GInv, TypeOK
\* One who holds the lock is the only one who does.
<1>d. pc[g] \in Holding => /\ lock = g /\ listening = {}
                           /\ \A h \in Goroutines \ {g} : pc[h] \notin Holding
  BY <1>a DEF LockInv
<1>1. CASE OpenBegin(g)
  <2>0. pc[g] = "open" /\ lock = Nobody /\ UNCHANGED <<wsConn, listening, handled>>
    BY <1>1 DEF OpenBegin, LockFree, sessionVars
  <2>1. CASE wsConn # 0
    <3>1. wsConn \in listening /\ g # Listen(wsConn)
      BY <2>0, <2>1 DEF WInv, Linked, Watched
    <3>2. Goto(g, AfterReconnect(g)) /\ UNCHANGED lock
      BY <1>1, <2>1 DEF OpenBegin
    <3>3. AfterReconnect(g) \in Places \ {"none"} /\ AfterReconnect(g) \notin Connecting \cup {"close"}
      BY <1>b, <1>c DEF Connecting, Holding, Dialled
    <3> QED BY <1>c, <2>0, <3>1, <3>2, <3>3, Goes, Names
  <2>2. CASE wsConn = 0
    <3>1. lock' = g /\ pc' = [pc EXCEPT ![g] = "dial"]
      BY <1>1, <2>2 DEF OpenBegin, Goto
    <3>2. pc'[g] = "dial" /\ \A h \in Goroutines \ {g} : pc'[h] = pc[h]
      BY <1>a, <3>1
    <3>3. Alone' <=> Alone
      BY <2>0, <3>2 DEF Alone
    <3>4. Begun'
      BY <2>0, <3>2, <3>3, Names DEF WInv, Begun, Connecting, Holding
    <3>5. Linked' /\ Watched' /\ LockUsed' /\ Someone'
      BY <1>a, <2>0, <2>2, <3>1, <3>2, Names
         DEF Linked, Watched, LockUsed, Someone, Connecting, Holding
    <3>6. ~SelfLocked
      BY <2>0 DEF SelfLocked
    <3> QED BY <3>4, <3>5, <3>6 DEF WInv, LockedForGood
  <2> QED BY <2>1, <2>2
<1>2. CASE Hello(g) \/ Ask(g)
  <2>1. /\ pc[g] \in Dialled /\ \E l \in {"ask", "first"} : Goto(g, l)
        /\ UNCHANGED <<lock, wsConn, listening, handled>>
    BY <1>2 DEF Hello, Ask, restVars, sessionVars, Dialled
  <2>2. PICK l \in {"ask", "first"} : Goto(g, l)
    BY <2>1
  <2>3. l \in Holding /\ l \in Connecting /\ l \in Places \ {"none"} /\ pc[g] \in Holding
    BY <1>b, <2>1 DEF Connecting, Holding, Dialled
  <2>4. pc[g] \in Connecting /\ pc[g] \notin {"none", "done", "close"} /\ wsConn \notin listening
    BY <1>d, <2>1, <2>3 DEF Connecting, Dialled
  <2> QED BY <2>1, <2>2, <2>3, <2>4, Goes
<1>3. CASE FirstIsRequest(g)
  <2>1. /\ pc[g] = "first" /\ Goto(g, "close") /\ UNCHANGED <<lock, wsConn, listening, handled>>
    BY <1>3 DEF FirstIsRequest, sessionVars
  <2>2. pc[g] \in Connecting /\ pc[g] \in Holding
    BY <2>1 DEF Connecting, Holding, Dialled
  <2>3. lock = g /\ listening = {}
    BY <1>d, <2>2
  <2> QED BY <1>b, <2>1, <2>2, <2>3, Goes
<1>4. CASE DialFails(g) \/ OpenBreaks(g) \/ CloseEnd(g)
  <2>1. /\ pc[g] \in Holding /\ DropConn /\ lock' = Nobody /\ UNCHANGED <<listening, handled>>
        /\ Goto(g, "open") \/ (g = Main /\ Goto(g, "done"))
    BY <1>4 DEF DialFails, OpenBreaks, OpenFails, CloseEnd, Holding, Dialled
  <2>2. wsConn' = 0 /\ lock = g /\ listening = {}
    BY <1>d, <2>1, Dropped
  <2>3. PICK l \in {"open", "done"} : Goto(g, l) /\ (l = "done" => g = Main)
    BY <2>1
  <2>4. pc'[g] = l /\ \A h \in Goroutines \ {g} : pc'[h] = pc[h]
    BY <1>a, <2>3 DEF Goto
  <2>5. pc[g] \in Connecting /\ pc[g] # "none" /\ pc[g] # "close"
    BY <2>1 DEF Connecting, Holding, Dialled
  <2>6. Alone' <=> Alone
    BY <2>4, <2>5, <1>b DEF Alone
  <2>7. Begun'
    BY <2>1, <2>4, <2>5, <2>6, Names DEF WInv, Begun
  <2>8. Linked' /\ Watched' /\ LockUsed'
    BY <2>1, <2>2, Names DEF Linked, Watched, LockUsed
  <2>9. Someone'
    <3>1. CASE l = "open"
      BY <2>4, <3>1 DEF Someone, Connecting
    <3>2. CASE l = "done"
      <4>1. g = Main /\ Alone'
        BY <2>3, <2>5, <2>6, <3>2 DEF WInv, Begun
      <4> QED BY <2>4, <3>2, <4>1 DEF Someone, Stopped
    <3> QED BY <3>1, <3>2
  <2>10. ~SelfLocked
    BY <2>2, <2>5 DEF SelfLocked
  <2> QED BY <2>7, <2>8, <2>9, <2>10 DEF WInv, LockedForGood
<1>5. CASE Dial(g)
  <2>1. /\ pc[g] = "dial" /\ Goto(g, "hello") /\ UNCHANGED <<lock, listening, handled>>
    BY <1>5 DEF Dial, sessionVars
  <2>2. lock = g /\ listening = {}
    BY <1>d, <2>1 DEF Holding
  <2>3. pc'[g] = "hello" /\ \A h \in Goroutines \ {g} : pc'[h] = pc[h]
    BY <1>a, <2>1 DEF Goto
  <2>4. Alone' <=> Alone
    BY <2>1, <2>3 DEF Alone
  <2>5. Begun'
    BY <2>1, <2>3, <2>4, Names DEF WInv, Begun, Connecting, Holding
  <2>6. Linked' /\ Watched' /\ LockUsed' /\ Someone'
    BY <2>1, <2>2, <2>3, Names
       DEF Linked, Watched, LockUsed, Someone, Connecting, Holding, Dialled
  <2>7. ~SelfLocked
    BY <2>1, <2>2 DEF SelfLocked
  <2> QED BY <2>5, <2>6, <2>7 DEF WInv, LockedForGood
<1>6. CASE First(g)
  <2>1. /\ pc[g] = "first" /\ listening' = listening \cup {wsConn} /\ lock' = Nobody
        /\ UNCHANGED wsConn
    BY <1>6 DEF First
  <2>2. lock = g /\ listening = {} /\ wsConn \in Conns
    BY <1>a, <1>d, <2>1 DEF Holding, Dialled, LockInv
  <2>3. pc' = [pc EXCEPT ![g] = IF g = Main THEN "user" ELSE AfterReconnect(g),
                         ![Listen(wsConn)] = "read", ![Heart(wsConn)] = "beat"]
    BY <1>6 DEF First
  <2>4. /\ Listen(wsConn) \in Goroutines /\ Listen(wsConn) # Heart(wsConn)
        /\ Listen(wsConn) # Main /\ Heart(wsConn) # Main
    BY <2>2, Names
  <2>5. pc'[Listen(wsConn)] = "read"
    BY <1>a, <2>3, <2>4
  <2>6. ~Alone'
    BY <2>4, <2>5 DEF Alone
  <2>7. pc'[Main] \notin Connecting \cup {"close"}
    <3>1. CASE g = Main
      <4>1. pc'[Main] = "user"
        BY <1>a, <2>3, <2>4, <3>1
      <4> QED BY <4>1 DEF Connecting, Holding, Dialled
    <3>2. CASE g # Main
      <4>1. ~Alone
        BY <2>1, <3>2 DEF Alone
      <4>2. pc'[Main] = pc[Main]
        BY <1>a, <2>3, <2>4, <3>2, Names
      <4> QED BY <4>1, <4>2 DEF WInv, Begun
    <3> QED BY <3>1, <3>2
  <2>8. Begun' /\ Linked' /\ Watched' /\ LockUsed' /\ Someone'
    BY <2>1, <2>5, <2>6, <2>7 DEF Begun, Linked, Watched, LockUsed, Someone
  <2>9. ~SelfLocked
    BY <2>1, <2>2 DEF SelfLocked
  <2> QED BY <2>8, <2>9 DEF WInv, LockedForGood
<1>7. CASE CloseBegin(g)
  <2>1. /\ pc[g] = "close" /\ lock = Nobody /\ lock' = g /\ Goto(g, "closing")
        /\ listening' = listening \ {wsConn} /\ UNCHANGED <<wsConn, handled>>
    BY <1>7 DEF CloseBegin, LockFree, sessionVars
  <2>2. pc'[g] = "closing" /\ \A h \in Goroutines \ {g} : pc'[h] = pc[h]
    BY <1>a, <2>1 DEF Goto
  <2>3. Alone' <=> Alone
    BY <2>1, <2>2 DEF Alone
  <2>4. Begun'
    BY <2>1, <2>2, <2>3, Names DEF WInv, Begun
  <2>5. Linked' /\ Watched' /\ LockUsed' /\ Someone'
    BY <2>1, <2>2, Names DEF Linked, Watched, LockUsed, Someone, Connecting, Holding
  <2>6. ~SelfLocked
    BY <2>1 DEF SelfLocked
  <2> QED BY <2>4, <2>5, <2>6 DEF WInv, LockedForGood
<1> QED BY <1>1, <1>2, <1>3, <1>4, <1>5, <1>6, <1>7 DEF OpenStep

LEMMA ReaderStepAttends ==
    ASSUME GInv, WInv, Running, NEW c \in Conns, ListenStep(c) \/ HeartStep(c) \/ User
    PROVE  WInv' /\ LockedForGood
<1>a. /\ Listen(c) \in Goroutines /\ Heart(c) \in Goroutines /\ Main \in Goroutines
      /\ Listen(c) # Main /\ Heart(c) # Main
      /\ wsConn \in listening => wsConn \in Conns
      /\ \A d \in Conns : Heart(c) # Listen(d) /\ Main # Listen(d) /\ (Listen(c) = Listen(d) => c = d)
  BY Names DEF GInv, TypeOK
<1>b. {"close", "done", "check", "wait", "beat", "crashed"} \subseteq Places \ {"none"}
  BY DEF Places
<1>c. \A g \in Goroutines : lock = g => pc[g] \in Holding \cup {"close"}
  BY Names DEF WInv, LockUsed
<1>1. CASE ReadEvent(c) \/ ReadInvalidSession(c)
  <2>1. pc[Listen(c)] = "read" /\ UNCHANGED <<pc, lock, wsConn, listening>>
    BY <1>1 DEF ReadEvent, ReadInvalidSession
  <2>2. ~Alone
    BY <1>a, <2>1 DEF Alone
  <2> QED BY <2>1, <2>2, Rests
<1>2. CASE ReadRequest(c) \/ ReadLast(c) \/ ReadFails(c) \/ SameConnection(c)
  <2>1. /\ UNCHANGED <<lock, wsConn, listening, handled>>
        /\ pc[Listen(c)] \in {"read", "check"}
        /\ \E l \in {"close", "done", "check"} :
              Goto(Listen(c), l) /\ (l = "done" => c \notin listening \/ wsConn # c)
    BY <1>2 DEF ReadRequest, ReadLast, ReadFails, SameConnection, restVars, sessionVars
  <2>2. PICK l \in {"close", "done", "check"} :
            Goto(Listen(c), l) /\ (l = "done" => c \notin listening \/ wsConn # c)
    BY <2>1
  <2>3. lock # Listen(c) /\ pc[Listen(c)] \notin Connecting
    BY <1>a, <1>c, <2>1 DEF Connecting, Holding, Dialled
  <2>4. l \in Places \ {"none"}
    BY <1>b
  <2>5. wsConn \in listening /\ Listen(c) = Listen(wsConn) => l \in {"read", "check", "close"}
    BY <1>a, <2>2
  <2> QED BY <1>a, <2>1, <2>2, <2>3, <2>4, <2>5, Goes
<1>3. CASE Beat(c) \/ Wait(c)
  <2>1. /\ UNCHANGED <<lock, wsConn, listening, handled>>
        /\ pc[Heart(c)] \in {"beat", "wait"}
        /\ \E l \in {"wait", "close", "beat", "done"} : Goto(Heart(c), l)
    BY <1>3 DEF Beat, Wait, restVars, sessionVars
  <2>2. PICK l \in {"wait", "close", "beat", "done"} : Goto(Heart(c), l)
    BY <2>1
  <2>3. lock # Heart(c) /\ pc[Heart(c)] \notin Connecting
    BY <1>a, <1>c, <2>1 DEF Connecting, Holding, Dialled
  <2>4. l \in Places \ {"none"} /\ (wsConn \in listening => Heart(c) # Listen(wsConn))
    BY <1>a, <1>b
  <2> QED BY <1>a, <2>1, <2>2, <2>3, <2>4, Goes
<1>4. CASE User
  <2>1. /\ UNCHANGED <<lock, wsConn, listening, handled>> /\ pc[Main] = "user"
        /\ \E l \in {"crashed", "done"} : Goto(Main, l)
    BY <1>4 DEF User, restVars, sessionVars
  <2>2. PICK l \in {"crashed", "done"} : Goto(Main, l)
    BY <2>1
  <2>3. lock # Main /\ pc[Main] \notin Connecting /\ l \notin Connecting \cup {"close"}
    BY <1>a, <1>c, <2>1 DEF Connecting, Holding, Dialled
  <2>4. l \in Places \ {"none"} /\ (wsConn \in listening => Main # Listen(wsConn))
    BY <1>a, <1>b
  <2> QED BY <1>a, <2>1, <2>2, <2>3, <2>4, Goes
<1> QED
  BY <1>1, <1>2, <1>3, <1>4, <1>a, OpenStepAttends DEF ListenStep, HeartStep

LEMMA NextAttends == GInv /\ WInv /\ [Next]_vars => WInv' /\ LockedForGood
<1> SUFFICES ASSUME GInv, WInv, [Next]_vars PROVE WInv' /\ LockedForGood
  OBVIOUS
<1>a. PICK c \in Conns : TRUE
  BY BoundsAssumption DEF Conns
<1>1. CASE Running /\ MainStep
  BY <1>1, <1>a, OpenStepAttends, ReaderStepAttends, Names DEF MainStep
<1>2. CASE Running /\ \E d \in Conns : ListenStep(d) \/ HeartStep(d)
  BY <1>2, ReaderStepAttends
<1>3. CASE \E t \in Sessions : Dispatch(t) \/ Invalidate(t)
  BY <1>3, Rests DEF Dispatch, Invalidate, clientVars
<1>4. CASE \E d \in Conns : Break(d) \/ Notice(d)
  BY <1>4, Rests DEF Break, Notice, clientVars
<1>5. CASE UNCHANGED vars
  BY <1>5, Rests DEF vars, clientVars
<1> QED BY <1>1, <1>2, <1>3, <1>4, <1>5 DEF Next

\* Somebody always minds the session's connection: while there is one its own
\* listener reads it or is about to close it, and while there is none somebody is
\* making one, unless the program has ended or has locked the session up, as
\* a request to reconnect that comes first does, and that for good. Who holds
\* the lock needs no other (wsapi.go:600, wsapi.go:912).
THEOREM AlwaysAttended == Spec => []Attended /\ [][LockedForGood]_vars
<1>1. Init => WInv
  BY Names DEF Init, WInv, Begun, Alone, Linked, Watched, Someone, LockUsed, Connecting
<1>2. GInv /\ WInv /\ [Next]_vars => WInv' /\ LockedForGood
  BY NextAttends
<1>3. WInv => Attended
  <2>1. WInv /\ Stopped => Ended
    BY DEF WInv, Stopped, Ended, Begun
  <2>2. WInv /\ lock # Nobody => pc[lock] \in Holding \/ SelfLocked
    BY DEF WInv, LockUsed, SelfLocked
  <2> QED BY <2>1, <2>2 DEF WInv, Watched, Someone, Attended
<1> QED BY <1>1, <1>2, <1>3, GInvAlways, PTL DEF Spec
======================================================================================

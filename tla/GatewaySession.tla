------------------------------- MODULE GatewaySession -------------------------------
(***************************************************************************)
(* The connection of discordgo's Session to the Discord gateway            *)
(* (discordgo/wsapi.go): Open, the listen and heartbeat goroutines it      *)
(* starts for each websocket, Close, and reconnect, which either of the    *)
(* two calls when it finds the connection dead.                            *)
(*                                                                         *)
(* Open and CloseWithCode hold the session's lock all through dialling,    *)
(* waiting for packets and the second CloseWithCode sleeps, so their steps *)
(* are separate.  A packet is handled in one step, and a critical section  *)
(* that only notes a time or sets DataReady (which nothing reads) belongs  *)
(* to the step before it.  Discord is the other side of each websocket.    *)
(***************************************************************************)
EXTENDS Naturals

CONSTANTS
    MaxConns,      \* bound: websockets ever dialled
    MaxSessions,   \* bound: Discord sessions ever identified
    MaxEvents,     \* bound: events of one session, not counting RESUMED
    MaxFaults      \* bound: broken links, failed dials, requests of Discord to
                   \* reconnect, sessions invalidated, ticks that meet a close

ASSUME BoundsAssumption ==
    /\ MaxConns \in Nat \ {0} /\ MaxSessions \in Nat \ {0}
    /\ MaxEvents \in Nat \ {0} /\ MaxFaults \in Nat

Conns == 1..MaxConns
Sessions == 1..MaxSessions
Main == <<"main", 0>>
Listen(c) == <<"listen", c>>
Heart(c) == <<"heartbeat", c>>
Goroutines == {Main} \cup {Listen(c) : c \in Conns} \cup {Heart(c) : c \in Conns}
Nobody == <<"nobody", 0>>

VARIABLES
    pc,         \* where each goroutine is
    again,      \* listeners that reconnect because Discord asked: they go on reading
    lock,       \* who holds the session's lock
    wsConn,     \* s.wsConn, 0 for nil
    listening,  \* the websockets whose channel s.listening is open
    sessionID,  \* s.sessionID, 0 for none
    sequence,   \* s.sequence
    link,       \* the state of each websocket
    served,     \* Discord: the session each websocket carries
    pos,        \* Discord: the last event of it that was read
    length,     \* Discord: how many events each session has had
    valid,      \* Discord: the sessions it would resume
    handled,    \* history: the session and number of the last event handled
    faults      \* bound: faults so far

clientVars == <<pc, again, lock, wsConn, listening, sessionID, sequence>>
discordVars == <<served, pos, length, valid>>
vars == <<clientVars, link, discordVars, handled, faults>>
sessionVars == <<sessionID, sequence, discordVars, handled>>
\* All but the places of the goroutines.
restVars == <<again, lock, wsConn, listening, link, sessionVars, faults>>

Places == {"none", "read", "check", "beat", "wait", "close", "closing", "open", "dial",
           "hello", "ask", "first", "user", "done", "crashed"}

TypeOK ==
    /\ pc \in [Goroutines -> Places]
    /\ again \subseteq Conns
    /\ lock \in Goroutines \cup {Nobody}
    /\ wsConn \in Conns \cup {0}
    /\ listening \subseteq Conns
    /\ sessionID \in Sessions \cup {0}
    /\ sequence \in Nat
    /\ link \in [Conns -> {"none", "open", "silent", "broken", "closed"}]
    /\ served \in [Conns -> Sessions \cup {0}]
    /\ pos \in [Conns -> Nat]
    /\ length \in [Sessions -> Nat]
    /\ valid \subseteq Sessions
    /\ handled \in (Sessions \cup {0}) \X Nat
    /\ faults \in 0..MaxFaults

\* main calls Open once.
Init ==
    /\ pc = [g \in Goroutines |-> IF g = Main THEN "open" ELSE "none"]
    /\ again = {}
    /\ lock = Nobody
    /\ wsConn = 0
    /\ listening = {}
    /\ sessionID = 0
    /\ sequence = 0
    /\ link = [c \in Conns |-> "none"]
    /\ served = [c \in Conns |-> 0]
    /\ pos = [c \in Conns |-> 0]
    /\ length = [s \in Sessions |-> 0]
    /\ valid = {}
    /\ handled = <<0, 0>>
    /\ faults = 0
-------------------------------------------------------------------------------------
Goto(g, l) == pc' = [pc EXCEPT ![g] = l]
LockFree == lock = Nobody
Fault == faults < MaxFaults /\ faults' = faults + 1

\* s.wsConn is closed and set to nil; Discord is done with it too.
DropConn ==
    /\ wsConn' = 0
    /\ IF wsConn = 0 THEN UNCHANGED <<link, served, pos>>
       ELSE /\ link' = [link EXCEPT ![wsConn] = "closed"]
            /\ served' = [served EXCEPT ![wsConn] = 0]
            /\ pos' = [pos EXCEPT ![wsConn] = 0]

\* Discord answers an identify with a session of its own, whose first event
\* is READY; a websocket that went silent does not carry the packet there.
NewSession(c) ==
    IF link[c] = "silent" THEN UNCHANGED discordVars
    ELSE \E s \in Sessions :
            /\ length[s] = 0 /\ \A t \in 1..(s - 1) : length[t] > 0
            /\ length' = [length EXCEPT ![s] = 1]
            /\ valid' = valid \cup {s}
            /\ served' = [served EXCEPT ![c] = s]
            /\ pos' = [pos EXCEPT ![c] = 0]

\* Discord takes a session up where the client says it was, and says RESUMED
\* after the events it replays; a session it no longer has it refuses (Op 9).
Resumed(c) ==
    IF link[c] = "silent" \/ sessionID \notin valid THEN UNCHANGED discordVars
    ELSE /\ served' = [served EXCEPT ![c] = sessionID]
         /\ pos' = [pos EXCEPT ![c] = sequence]
         /\ length' = [length EXCEPT ![sessionID] = @ + 1]
         /\ UNCHANGED valid

\* What can be read on a websocket: the next event, or that the session is
\* not (or no longer) valid.
EventWaits(c) == link[c] = "open" /\ served[c] \in valid /\ pos[c] < length[served[c]]
RefusalWaits(c) == link[c] = "open" /\ served[c] \notin valid

\* onEvent with a dispatch: the sequence is stored, READY sets the session id,
\* and the handlers are started, one goroutine each.
OnDispatch(c) ==
    /\ EventWaits(c)
    /\ pos' = [pos EXCEPT ![c] = @ + 1]
    /\ sequence' = pos[c] + 1
    /\ sessionID' = IF pos[c] = 0 THEN served[c] ELSE sessionID
    /\ handled' = <<served[c], pos[c] + 1>>
    /\ UNCHANGED <<served, length, valid>>

\* onEvent with Op 9: identify again, on the same websocket.
OnInvalidSession(c) ==
    /\ RefusalWaits(c)
    /\ NewSession(c)
    /\ UNCHANGED <<sequence, sessionID, handled>>
-------------------------------------------------------------------------------------
\* Slips the properties must notice: Open without the check for an open
\* websocket,
OpenBegin_Unchecked(g) ==
    /\ pc[g] = "open" /\ LockFree
    /\ lock' = g /\ Goto(g, "dial")
    /\ UNCHANGED <<again, wsConn, listening, link, sessionVars, faults>>

\* a Close that forgets the session,
CloseEnd_Forgets(g) ==
    /\ pc[g] = "closing"
    /\ DropConn
    /\ sessionID' = 0 /\ sequence' = 0
    /\ lock' = Nobody /\ Goto(g, "open")
    /\ UNCHANGED <<again, listening, length, valid, handled, faults>>

\* a reader that stores the sequence before it looks whether it was closed,
ReadLast_Stored(c) ==
    /\ pc[Listen(c)] = "read" /\ c \notin listening /\ link[c] = "open"
    /\ IF EventWaits(c) THEN sequence' = pos[c] + 1 ELSE UNCHANGED sequence
    /\ Goto(Listen(c), "done")
    /\ UNCHANGED <<again, lock, wsConn, listening, sessionID, link, discordVars, handled,
                   faults>>

\* a failed Open that leaves its dead websocket in place.
OpenFails_Kept(g) ==
    /\ lock' = Nobody
    /\ Goto(g, IF g = Main THEN "done" ELSE "open")
    /\ UNCHANGED <<again, wsConn, link, listening, sessionVars>>
-------------------------------------------------------------------------------------
\* Where reconnect returns to: a listener that Discord asked to reconnect
\* goes back to reading its old websocket, everybody else returns.
AfterReconnect(g) == IF \E c \in again : g = Listen(c) THEN "read" ELSE "done"

\* Open, up to the lock: an open websocket ends it, and reconnect with it.
OpenBegin(g) ==
    /\ pc[g] = "open" /\ LockFree
    /\ IF wsConn # 0
       THEN /\ Goto(g, AfterReconnect(g))
            /\ again' = again \ {c \in Conns : g = Listen(c)}
            /\ UNCHANGED lock
       ELSE lock' = g /\ Goto(g, "dial") /\ UNCHANGED again
    /\ UNCHANGED <<wsConn, listening, link, sessionVars, faults>>

\* Open returns an error: the websocket is closed, main gives up, reconnect
\* waits and tries again.
OpenFails(g) ==
    /\ DropConn
    /\ lock' = Nobody
    /\ Goto(g, IF g = Main THEN "done" ELSE "open")
    /\ UNCHANGED <<again, listening, sessionID, sequence, length, valid, handled>>

\* The gateway's address or the websocket itself is not to be had.
DialFails(g) == pc[g] = "dial" /\ Fault /\ OpenFails(g)

Dial(g) ==
    /\ pc[g] = "dial"
    /\ \E c \in Conns :
          /\ link[c] = "none" /\ \A d \in 1..(c - 1) : link[d] # "none"
          /\ link' = [link EXCEPT ![c] = "open"]
          /\ wsConn' = c
    /\ Goto(g, "hello")
    /\ UNCHANGED <<again, lock, listening, sessionVars, faults>>

\* Op 10 is read.
Hello(g) ==
    /\ pc[g] = "hello" /\ link[wsConn] = "open"
    /\ Goto(g, "ask")
    /\ UNCHANGED restVars

\* Op 2 for a client that never had a session, Op 6 for any other.
Ask(g) ==
    /\ pc[g] = "ask" /\ link[wsConn] # "broken"
    /\ IF sessionID = 0 /\ sequence = 0 THEN NewSession(wsConn) ELSE Resumed(wsConn)
    /\ Goto(g, "first")
    /\ UNCHANGED <<again, lock, wsConn, listening, sessionID, sequence, link, handled, faults>>

\* A read or write that fails before Open is done.
OpenBreaks(g) ==
    /\ pc[g] \in {"hello", "ask", "first"} /\ link[wsConn] = "broken"
    /\ OpenFails(g)
    /\ UNCHANGED faults

\* The first packet is read; whatever it was the two goroutines are started.
First(g) ==
    /\ pc[g] = "first"
    /\ OnDispatch(wsConn) \/ OnInvalidSession(wsConn)
    /\ listening' = listening \cup {wsConn}
    /\ lock' = Nobody
    /\ pc' = [pc EXCEPT ![g] = IF g = Main THEN "user" ELSE AfterReconnect(g),
                        ![Listen(wsConn)] = "read", ![Heart(wsConn)] = "beat"]
    /\ again' = again \ {c \in Conns : g = Listen(c)}
    /\ UNCHANGED <<wsConn, link, faults>>

\* The first packet asks to reconnect: CloseWithCode wants the lock Open has.
FirstIsRequest(g) ==
    /\ pc[g] = "first" /\ link[wsConn] = "open" /\ Fault
    /\ Goto(g, "close")
    /\ UNCHANGED <<again, lock, wsConn, listening, link, sessionVars>>

\* main asks who the bot is, which READY says.
User ==
    /\ pc[Main] = "user"
    /\ Goto(Main, IF handled[1] = 0 THEN "crashed" ELSE "done")
    /\ UNCHANGED restVars
-------------------------------------------------------------------------------------
\* CloseWithCode: the channel is closed and the close frame sent;
CloseBegin(g) ==
    /\ pc[g] = "close" /\ LockFree
    /\ lock' = g
    /\ listening' = listening \ {wsConn}
    /\ Goto(g, "closing")
    /\ UNCHANGED <<again, wsConn, link, sessionVars, faults>>

\* a second later the websocket is closed too, and reconnect called.
CloseEnd(g) ==
    /\ pc[g] = "closing"
    /\ DropConn
    /\ lock' = Nobody /\ Goto(g, "open")
    /\ UNCHANGED <<again, listening, sessionID, sequence, length, valid, handled, faults>>
-------------------------------------------------------------------------------------
\* listen: an event, or an invalid session, of a websocket nobody closed,
ReadEvent(c) ==
    /\ pc[Listen(c)] = "read" /\ c \in listening
    /\ OnDispatch(c)
    /\ UNCHANGED <<pc, again, lock, wsConn, listening, link, faults>>

ReadInvalidSession(c) ==
    /\ pc[Listen(c)] = "read" /\ c \in listening
    /\ OnInvalidSession(c)
    /\ UNCHANGED <<pc, again, lock, wsConn, listening, link, faults>>

\* Op 7, close and reconnect,
ReadRequest(c) ==
    /\ pc[Listen(c)] = "read" /\ c \in listening /\ link[c] = "open" /\ Fault
    /\ Goto(Listen(c), "close") /\ again' = again \cup {c}
    /\ UNCHANGED <<lock, wsConn, listening, link, sessionVars>>

\* a packet of a websocket somebody is closing, which is dropped,
ReadLast(c) ==
    /\ pc[Listen(c)] = "read" /\ c \notin listening /\ link[c] = "open"
    /\ Goto(Listen(c), "done")
    /\ UNCHANGED restVars

\* or an error, on which the listener of the present websocket closes it.
ReadFails(c) ==
    /\ pc[Listen(c)] = "read" /\ link[c] \in {"broken", "closed"}
    /\ Goto(Listen(c), "check")
    /\ UNCHANGED restVars

SameConnection(c) ==
    /\ pc[Listen(c)] = "check" /\ LockFree
    /\ Goto(Listen(c), IF wsConn = c THEN "close" ELSE "done")
    /\ UNCHANGED restVars
-------------------------------------------------------------------------------------
\* heartbeat: a beat that cannot be written, or none acknowledged for five
\* intervals, closes whatever websocket the session has by now.
Beat(c) ==
    /\ pc[Heart(c)] = "beat" /\ LockFree
    /\ \/ link[c] \in {"open", "silent"} /\ Goto(Heart(c), "wait")
       \/ link[c] \in {"silent", "broken", "closed"} /\ Goto(Heart(c), "close")
    /\ UNCHANGED restVars

\* The tick, or the channel closed; when both are due either may win.
Wait(c) ==
    /\ pc[Heart(c)] = "wait"
    /\ \/ c \in listening /\ Goto(Heart(c), "beat") /\ UNCHANGED faults
       \/ c \notin listening /\ Goto(Heart(c), "beat") /\ Fault
       \/ c \notin listening /\ Goto(Heart(c), "done") /\ UNCHANGED faults
    /\ UNCHANGED <<again, lock, wsConn, listening, link, sessionVars>>
-------------------------------------------------------------------------------------
\* Discord dispatches another event of a session.
Dispatch(s) ==
    /\ s \in valid /\ length[s] \in 1..(MaxEvents - 1)
    /\ length' = [length EXCEPT ![s] = @ + 1]
    /\ UNCHANGED <<clientVars, link, served, pos, valid, handled, faults>>

\* Discord gives up a session, one it was just asked for too.
Invalidate(s) ==
    /\ s \in valid /\ Fault
    /\ valid' = valid \ {s}
    /\ UNCHANGED <<clientVars, link, served, pos, length, handled>>

\* The network: a link breaks, or goes silent until TCP's keepalive notices.
Break(c) ==
    /\ link[c] = "open" /\ Fault
    /\ \E l \in {"broken", "silent"} : link' = [link EXCEPT ![c] = l]
    /\ UNCHANGED <<clientVars, discordVars, handled>>

Notice(c) ==
    /\ link[c] = "silent"
    /\ link' = [link EXCEPT ![c] = "broken"]
    /\ UNCHANGED <<clientVars, discordVars, handled, faults>>
-------------------------------------------------------------------------------------
\* The steps of one call of Open or reconnect, whoever makes it.
OpenStep(g) ==
    \/ OpenBegin(g) \/ DialFails(g) \/ Dial(g) \/ Hello(g) \/ Ask(g) \/ OpenBreaks(g)
    \/ First(g) \/ FirstIsRequest(g) \/ CloseBegin(g) \/ CloseEnd(g)

ListenStep(c) ==
    \/ ReadEvent(c) \/ ReadInvalidSession(c) \/ ReadRequest(c) \/ ReadLast(c)
    \/ ReadFails(c) \/ SameConnection(c)
    \/ OpenStep(Listen(c))

HeartStep(c) == Beat(c) \/ Wait(c) \/ OpenStep(Heart(c))
MainStep == OpenStep(Main) \/ User

\* A panic in main ends the process.
Running == pc[Main] # "crashed"

Next ==
    /\ Running
    /\ \/ MainStep
       \/ \E c \in Conns : ListenStep(c) \/ HeartStep(c)
       \/ \E s \in Sessions : Dispatch(s) \/ Invalidate(s)
       \/ \E c \in Conns : Break(c) \/ Notice(c)

\* Every goroutine runs; a lock is free often enough, because only Open and
\* CloseWithCode keep it and they end; keepalive notices a silent link.
Fairness ==
    /\ WF_vars(Running /\ MainStep)
    /\ \A c \in Conns :
          /\ WF_vars(Running /\ ListenStep(c))
          /\ WF_vars(Running /\ HeartStep(c))
          /\ WF_vars(Running /\ Notice(c))

Spec == Init /\ [][Next]_vars /\ Fairness
-------------------------------------------------------------------------------------
\* A websocket that is not closed is the session's own, and so is an open
\* listening channel: whoever reconnects, and however often, no connection is
\* left behind that would go on delivering events beside the new one.
OneConnection ==
    /\ \A c \in Conns : link[c] \notin {"none", "closed"} => wsConn = c
    /\ listening \subseteq {wsConn}

\* A reconnection resumes the session: the session changes only when Discord
\* refused the old one ("Op 6 Resume if we are resuming an existing
\* connection", wsapi.go:128).
SessionKept == [][sessionID' # sessionID => sessionID \notin valid]_vars

\* The handlers see the events of a session in order, each once and none left
\* out, over any number of reconnections.
Stream == INSTANCE GatewayStream WITH session <- handled[1], seq <- handled[2]
StreamSpec == Stream!Spec

\* Whatever breaks, the session is connected again in the end and has handled
\* every event of its session.  The program ends instead when main's own Open
\* fails or meets an invalid session; a request to reconnect that comes before
\* READY locks the session up for good (RequestObeyed); the last disjunct is
\* the bound on websockets and sessions.
CaughtUp ==
    /\ wsConn # 0 /\ link[wsConn] = "open" /\ LockFree
    /\ served[wsConn] = sessionID /\ sequence = length[sessionID]
Ended == ~Running \/ (pc[Main] = "done" /\ handled[1] = 0)
SelfLocked == lock # Nobody /\ pc[lock] = "close"
OutOfBounds == link[MaxConns] # "none" \/ length[MaxSessions] > 0
Recovers == []<>(CaughtUp \/ Ended \/ SelfLocked \/ OutOfBounds)

\* A request of Discord to reconnect is obeyed ("Must immediately disconnect
\* from gateway and reconnect to new gateway", wsapi.go:599).
RequestObeyed == \A g \in Goroutines : pc[g] = "close" ~> (pc[g] # "close" \/ Ended)
=====================================================================================

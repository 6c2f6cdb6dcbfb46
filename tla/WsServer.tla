---------------------------------- MODULE WsServer ----------------------------------
(***************************************************************************)
(* The applications that connect to the program (server/wsserver.go): the  *)
(* slice p.WsServerClients that the goroutines of the connections append   *)
(* to and cut in place without a lock, and that BroadcastMessageToAll, in  *)
(* the goroutines of the events, runs through.  A connection is written to *)
(* by the goroutine that answers its requests and by those of the events;  *)
(* the websocket library ends the one that meets another with a panic.     *)
(***************************************************************************)
EXTENDS Naturals, Sequences, SequencesExt

CONSTANTS
    Apps,       \* connections
    Events,     \* the goroutines that push events
    MaxJoins    \* a bound on connections made

VARIABLES
    clients,    \* p.WsServerClients
    app,        \* where the goroutine of a connection is
    saw,        \* the slice it read to append to it
    event,      \* where the goroutine of an event is: the slice it took hold
                \* of, the place it is at, those it wrote to
    writing,    \* <<app, goroutine>>: writes to a connection under way
    joins,      \* connections made so far
    mixed,      \* history: connections whose goroutine met another at the slice
    running     \* the process lives

wsVars == <<clients, app, saw, event, writing, joins, mixed, running>>

NoEvent == [at |-> "idle", view |-> <<>>, next |-> 1, sent |-> <<>>, calm |-> TRUE]

WsInit ==
    /\ clients = <<>> /\ app = [a \in Apps |-> "away"] /\ saw = [a \in Apps |-> <<>>]
    /\ event = [e \in Events |-> NoEvent]
    /\ writing = {} /\ joins = 0 /\ mixed = {} /\ running = TRUE
----------------------------------------------------------------------------------
\* A slip: the connection that came first is cut off the slice, whoever left.
Without_First(s, a) == IF a \in ToSet(s) THEN Tail(s) ELSE s
----------------------------------------------------------------------------------
\* The slice with a client cut out, its first occurrence.
Without(s, a) == RemoveFirst(s, a)

\* The goroutines that read the slice and have not written it back yet.
AtSlice == {a \in Apps : app[a] \in {"joining", "leaving"}}

\* Changes of the slice make what an event's goroutine goes through uncertain.
Disturbed == [e \in Events |-> [event[e] EXCEPT !.calm = FALSE]]

\* wsHandler with a token that is right: the append, in its two halves.
Connect(a) ==
    /\ app[a] = "away" /\ joins < MaxJoins
    /\ joins' = joins + 1
    /\ app' = [app EXCEPT ![a] = "joining"]
    /\ saw' = [saw EXCEPT ![a] = clients]
    /\ mixed' = IF AtSlice = {} THEN mixed ELSE mixed \cup {a} \cup AtSlice
    /\ UNCHANGED <<clients, event, writing, running>>

Registered(a) ==
    /\ app[a] = "joining"
    /\ clients' = Append(saw[a], a)
    /\ app' = [app EXCEPT ![a] = "here"]
    /\ saw' = [saw EXCEPT ![a] = <<>>]
    /\ event' = Disturbed
    /\ UNCHANGED <<writing, joins, mixed, running>>

\* ReadMessage fails, and the deferred function looks for the client.
Leave(a) ==
    /\ app[a] = "here" /\ \A w \in writing : w # <<a, "answer">>
    /\ app' = [app EXCEPT ![a] = "leaving"]
    /\ saw' = [saw EXCEPT ![a] = clients]
    /\ mixed' = IF AtSlice = {} THEN mixed ELSE mixed \cup {a} \cup AtSlice
    /\ UNCHANGED <<clients, event, writing, joins, running>>

Unregistered(a) ==
    /\ app[a] = "leaving"
    /\ clients' = IF a \in ToSet(saw[a]) THEN Without(saw[a], a) ELSE clients
    /\ app' = [app EXCEPT ![a] = "away"]
    /\ saw' = [saw EXCEPT ![a] = <<>>]
    /\ event' = Disturbed
    /\ UNCHANGED <<writing, joins, mixed, running>>

\* BroadcastMessageToAll takes hold of the slice, and runs through it; a place
\* of it may hold what a cut has moved there meanwhile.
Push(e) ==
    /\ event[e].at = "idle"
    /\ event' = [event EXCEPT ![e] = [NoEvent EXCEPT !.at = "sending", !.view = clients]]
    /\ UNCHANGED <<clients, app, saw, writing, joins, mixed, running>>

\* A goroutine that writes to a connection another one is writing to panics:
\* in a goroutine of the program's own that ends the process.
WriteTo(a, who) ==
    \/ (\A w \in writing : w[1] # a) /\ writing' = writing \cup {<<a, who>>} /\ UNCHANGED running
    \/ (\E w \in writing : w[1] = a) /\ running' = FALSE /\ UNCHANGED writing

SendTo(e) ==
    /\ event[e].at = "sending" /\ event[e].next <= Len(event[e].view)
    /\ \A w \in writing : w[2] # e
    /\ \E s \in {event[e].view, clients} :
          /\ event[e].next <= Len(s)
          /\ WriteTo(s[event[e].next], e)
          /\ event' = [event EXCEPT ![e].next = @ + 1, ![e].sent = Append(@, s[event[e].next])]
    /\ UNCHANGED <<clients, app, saw, joins, mixed>>

\* The answer to a request of the application (processWSMessage).
AnswerTo(a) ==
    /\ app[a] = "here" /\ <<a, "answer">> \notin writing
    /\ WriteTo(a, "answer")
    /\ UNCHANGED <<clients, app, saw, event, joins, mixed>>

Written(w) ==
    /\ writing' = writing \ {w}
    /\ UNCHANGED <<clients, app, saw, event, joins, mixed, running>>

Pushed(e) ==
    /\ event[e].at = "sending" /\ event[e].next > Len(event[e].view)
    /\ \A w \in writing : w[2] # e
    /\ event' = [event EXCEPT ![e].at = "done"]
    /\ UNCHANGED <<clients, app, saw, writing, joins, mixed, running>>

WsNext ==
    /\ running
    /\ \/ \E a \in Apps : Connect(a) \/ Registered(a) \/ Leave(a) \/ Unregistered(a) \/ AnswerTo(a)
       \/ \E e \in Events : Push(e) \/ SendTo(e) \/ Pushed(e)
       \/ \E w \in writing : Written(w)
----------------------------------------------------------------------------------
\* An application that is connected gets the events, and one that left gets
\* none, unless goroutines of two connections met at the slice; an event
\* reaches everybody once when no connection comes or goes meanwhile.
EveryoneTold ==
    /\ \A a \in Apps \ mixed :
          /\ app[a] = "here" => a \in ToSet(clients)
          /\ app[a] = "away" => a \notin ToSet(clients)
    /\ \A e \in Events : event[e].at = "done" /\ event[e].calm => event[e].sent = event[e].view
=====================================================================================

--------------------------------- MODULE WsClient ---------------------------------
(***************************************************************************)
(* wsclient/ws.go: the client end of one websocket to a OneBot             *)
(* application, and how it reconnects.                                     *)
(*                                                                         *)
(* Reconnect does not repair a client, it makes a new WebSocketClient with *)
(* goroutines of its own, copies the new connection into the old one and   *)
(* lets the new one send what the old one could not.  So the clients of    *)
(* one address are a row of generations 0, 1, 2...: main.go and            *)
(* BroadcastMessageToAll hold generation 0, connection k is dialled for    *)
(* generation k, and a generation reconnects at most once, as only its own *)
(* reader starts Reconnect and then ends.                                  *)
(***************************************************************************)
EXTENDS Integers, FiniteSets, Sequences

CONSTANTS
    Broadcasts,        \* messages for BroadcastMessageToAll
    Beats,             \* heartbeats: a bound on how many are sent
    LastGen,           \* a bound on the generations; its connection stays up
    MaxRetryAttempts,  \* config reconnect_times
    FailuresCap        \* capacity of sendFailures: 100 in the code

ASSUME BoundsAssumption ==
    LastGen \in Nat /\ MaxRetryAttempts \in Nat /\ FailuresCap \in Nat \ {0}

Gens == 0..LastGen
\* The lifecycle message NewWebSocketClient sends for generation k.
Hello(k) == <<"lifecycle", k>>
Messages == Broadcasts \cup Beats \cup {Hello(k) : k \in Gens}
NoMessage == <<"none">>

\* Messages of different origins are different, and all are messages.
ASSUME MessagesAssumption ==
    /\ Broadcasts \cap Beats = {}
    /\ \A k \in Gens : Hello(k) \notin Broadcasts \cup Beats
    /\ NoMessage \notin Broadcasts \cup Beats

VARIABLES
    link,          \* link[c]: connection c as the network has it
    newest,        \* the last connection dialled
    conn,          \* conn[k]: the connection in client k
    reader,        \* handleIncomingMessages of client k
    cancelled,     \* whether the heartbeat of client k was told to stop
    reconnect,     \* where Reconnect of client k is
    retryCount,    \* failed dials of that Reconnect
    child,         \* the client it made
    pushing,       \* goroutines about to put <<k, message>> into sendFailures of k
    sendFailures,  \* the channel of client k
    hand,          \* what processFailedMessages took out of the channel of k
    sent,          \* history: messages SendMessage was first called with
    wire,          \* history: messages written, oldest first
    posted         \* broadcasts also handed to PostMessageToUrls

sendVars == <<link, pushing, wire>>
linkVars == <<newest, conn, reader, cancelled, reconnect, retryCount, child>>
vars == <<sendVars, linkVars, sendFailures, hand, sent, posted>>

Nobody == -1

\* Links: up; broken (reading fails, a write may still seem to succeed);
\* failed (a write has failed, gorilla keeps the error).
TypeOK ==
    /\ link \in [Gens -> {"unused", "up", "broken", "failed"}]
    /\ newest \in Gens
    /\ conn \in [Gens -> Gens]
    /\ reader \in [Gens -> {"none", "reading", "gone"}]
    /\ cancelled \in [Gens -> BOOLEAN]
    /\ reconnect \in [Gens -> {"none", "called", "dialling", "connected", "done",
                               "gaveUp"}]
    /\ retryCount \in [Gens -> 0..(MaxRetryAttempts + 1)]
    /\ child \in [Gens -> Gens \cup {Nobody}]
    /\ pushing \subseteq Gens \X Messages
    /\ sendFailures \in [Gens -> Seq(Messages)]
    /\ \A k \in Gens : Len(sendFailures[k]) <= FailuresCap
    /\ hand \in [Gens -> Messages \cup {NoMessage}]
    /\ sent \subseteq Messages
    /\ wire \in Seq(Messages)
    /\ posted \subseteq Broadcasts

\* main.go keeps a client only when NewWebSocketClient could dial.
Init ==
    /\ link = [c \in Gens |-> IF c = 0 THEN "up" ELSE "unused"]
    /\ newest = 0
    /\ conn = [k \in Gens |-> k]
    /\ reader = [k \in Gens |-> "none"]
    /\ cancelled = [k \in Gens |-> FALSE]
    /\ reconnect = [k \in Gens |-> "none"]
    /\ retryCount = [k \in Gens |-> 0]
    /\ child = [k \in Gens |-> Nobody]
    /\ pushing = {}
    /\ sendFailures = [k \in Gens |-> <<>>]
    /\ hand = [k \in Gens |-> NoMessage]
    /\ sent = {}
    /\ wire = <<>>
    /\ posted = {}
----------------------------------------------------------------------------------
\* Slips the properties must notice.  A write that is queued although it succeeded:
WriteSucceeds_Queued(k, m) ==
    /\ link[conn[k]] \in {"up", "broken"}
    /\ wire' = Append(wire, m)
    /\ pushing' = pushing \cup {<<k, m>>}
    /\ UNCHANGED link

\* a Reconnect that goes on after it succeeded:
Swap_Again(k) ==
    /\ reconnect[k] = "connected" /\ reader[child[k]] # "none"
    /\ conn' = [conn EXCEPT ![k] = conn[child[k]]]
    /\ cancelled' = [cancelled EXCEPT ![k] = TRUE]
    /\ reconnect' = [reconnect EXCEPT ![k] = "called"]
    /\ UNCHANGED <<sendVars, newest, reader, retryCount, child, sendFailures, hand, sent, posted>>

\* a new client that drains its own channel instead of the old one's:
TakeFailed_Own(k) ==
    /\ reconnect[k] = "done" /\ hand[k] = NoMessage
    /\ sendFailures[child[k]] # <<>>
    /\ hand' = [hand EXCEPT ![k] = Head(sendFailures[child[k]])]
    /\ sendFailures' = [sendFailures EXCEPT ![child[k]] = Tail(@)]
    /\ UNCHANGED <<sendVars, linkVars, sent, posted>>

\* a drainer that keeps a message it has just sent:
SendFailed_Kept(k) ==
    /\ hand[k] # NoMessage
    /\ \/ link[conn[child[k]]] \in {"up", "broken"}
          /\ wire' = Append(wire, hand[k]) /\ UNCHANGED <<link, pushing>>
       \/ link[conn[child[k]]] \in {"broken", "failed"}
          /\ pushing' = pushing \cup {<<child[k], hand[k]>>} /\ UNCHANGED <<link, wire>>
    /\ UNCHANGED <<linkVars, sendFailures, hand, sent, posted>>
----------------------------------------------------------------------------------
Moved(k, l) == reconnect' = [reconnect EXCEPT ![k] = l]

\* SendMessage under client k's mutex: the write succeeds, or fails and a new
\* goroutine is to put the message into the client's sendFailures.
WriteSucceeds(k, m) ==
    /\ link[conn[k]] \in {"up", "broken"}
    /\ wire' = Append(wire, m)
    /\ UNCHANGED <<link, pushing>>

WriteFails(k, m) ==
    /\ link[conn[k]] \in {"broken", "failed"}
    /\ link' = [link EXCEPT ![conn[k]] = "failed"]
    /\ pushing' = pushing \cup {<<k, m>>}
    /\ UNCHANGED wire

\* The goroutine SendMessage left behind; it waits while the channel is full.
Push(k, m) ==
    /\ <<k, m>> \in pushing
    /\ Len(sendFailures[k]) < FailuresCap
    /\ sendFailures' = [sendFailures EXCEPT ![k] = Append(@, m)]
    /\ pushing' = pushing \ {<<k, m>>}
    /\ UNCHANGED <<link, wire, linkVars, hand, sent, posted>>

\* BroadcastMessageToAll with one address: the HTTP addresses get the message
\* only when no websocket returned an error.
Broadcast(m) ==
    /\ reader[0] # "none" /\ m \in Broadcasts \ sent
    /\ \/ WriteSucceeds(0, m) /\ posted' = posted \cup {m}
       \/ WriteFails(0, m) /\ UNCHANGED posted
    /\ sent' = sent \cup {m}
    /\ UNCHANGED <<linkVars, sendFailures, hand>>

\* sendHeartbeat: once per interval until its context is cancelled.
Heartbeat(k, m) ==
    /\ reader[k] # "none" /\ ~cancelled[k]
    /\ m \in Beats \ sent
    /\ WriteSucceeds(k, m) \/ WriteFails(k, m)
    /\ sent' = sent \cup {m}
    /\ UNCHANGED <<linkVars, sendFailures, hand, posted>>

\* The network or the application ends a connection.
Break(c) ==
    /\ link[c] = "up" /\ c < LastGen
    /\ link' = [link EXCEPT ![c] = "broken"]
    /\ UNCHANGED <<pushing, wire, linkVars, sendFailures, hand, sent, posted>>

\* handleIncomingMessages: ReadMessage fails, the heartbeat is cancelled and
\* Reconnect is started.
ReadError(k) ==
    /\ reader[k] = "reading" /\ link[conn[k]] # "up"
    /\ reader' = [reader EXCEPT ![k] = "gone"]
    /\ cancelled' = [cancelled EXCEPT ![k] = TRUE]
    /\ Moved(k, "called")
    /\ UNCHANGED <<sendVars, newest, conn, retryCount, child, sendFailures, hand, sent, posted>>

\* Reconnect: the first critical section.
Reconnect(k) ==
    /\ reconnect[k] = "called"
    /\ Moved(k, "dialling")
    /\ UNCHANGED <<sendVars, newest, conn, reader, cancelled, retryCount, child,
                   sendFailures, hand, sent, posted>>

\* NewWebSocketClient: the dial loop.
DialFails(k) ==
    /\ reconnect[k] = "dialling"
    /\ retryCount' = [retryCount EXCEPT ![k] = @ + 1]
    /\ IF retryCount[k] + 1 > MaxRetryAttempts THEN Moved(k, "gaveUp") ELSE UNCHANGED reconnect
    /\ UNCHANGED <<sendVars, newest, conn, reader, cancelled, child, sendFailures, hand,
                   sent, posted>>

DialSucceeds(k) ==
    /\ reconnect[k] = "dialling" /\ newest < LastGen
    /\ newest' = newest + 1
    /\ link' = [link EXCEPT ![newest + 1] = "up"]
    /\ child' = [child EXCEPT ![k] = newest + 1]
    /\ Moved(k, "connected")
    /\ UNCHANGED <<pushing, wire, conn, reader, cancelled, retryCount, sendFailures, hand,
                   sent, posted>>

\* NewWebSocketClient: the lifecycle message and the two goroutines.
Start(k) ==
    /\ link[k] # "unused" /\ reader[k] = "none"
    /\ WriteSucceeds(k, Hello(k)) \/ WriteFails(k, Hello(k))
    /\ sent' = sent \cup {Hello(k)}
    /\ reader' = [reader EXCEPT ![k] = "reading"]
    /\ UNCHANGED <<newest, conn, cancelled, reconnect, retryCount, child, sendFailures,
                   hand, posted>>

\* Reconnect: the second critical section, and processFailedMessages of the new
\* client starts on the channel of the old one.  newClient.conn is read without
\* newClient's mutex: it is whatever the new client has by now.
Swap(k) ==
    /\ reconnect[k] = "connected" /\ reader[child[k]] # "none"
    /\ conn' = [conn EXCEPT ![k] = conn[child[k]]]
    /\ cancelled' = [cancelled EXCEPT ![k] = TRUE]
    /\ Moved(k, "done")
    /\ UNCHANGED <<sendVars, newest, reader, retryCount, child, sendFailures, hand, sent, posted>>

\* processFailedMessages of the new client on the channel of k: it takes one
\* message and sends it before it takes the next.
TakeFailed(k) ==
    /\ reconnect[k] = "done" /\ hand[k] = NoMessage
    /\ sendFailures[k] # <<>>
    /\ hand' = [hand EXCEPT ![k] = Head(sendFailures[k])]
    /\ sendFailures' = [sendFailures EXCEPT ![k] = Tail(@)]
    /\ UNCHANGED <<sendVars, linkVars, sent, posted>>

SendFailed(k) ==
    /\ hand[k] # NoMessage
    /\ WriteSucceeds(child[k], hand[k]) \/ WriteFails(child[k], hand[k])
    /\ hand' = [hand EXCEPT ![k] = NoMessage]
    /\ UNCHANGED <<linkVars, sendFailures, sent, posted>>

ClientStep(k) ==
    \/ ReadError(k) \/ Reconnect(k) \/ DialSucceeds(k) \/ Start(k) \/ Swap(k)
    \/ TakeFailed(k) \/ SendFailed(k)
    \/ \E m \in Messages : Push(k, m)

Next ==
    \/ \E m \in Broadcasts : Broadcast(m)
    \/ \E c \in Gens : Break(c)
    \/ \E k \in Gens : ClientStep(k) \/ DialFails(k) \/ \E m \in Beats : Heartbeat(k, m)

Spec == Init /\ [][Next]_vars

\* Goroutines are scheduled: one that can take a step does.  Nothing is
\* assumed of the network except that a dial comes to an end.
Fairness ==
    /\ \A k \in Gens :
          /\ WF_vars(ReadError(k)) /\ WF_vars(Reconnect(k))
          /\ WF_vars(DialSucceeds(k) \/ DialFails(k))
          /\ WF_vars(Start(k)) /\ WF_vars(Swap(k))
          /\ WF_vars(TakeFailed(k)) /\ WF_vars(SendFailed(k))
    /\ \A k \in Gens, m \in Messages : WF_vars(Push(k, m))

FairSpec == Spec /\ Fairness
----------------------------------------------------------------------------------
\* The copies of a message the program has: with goroutines waiting to queue
\* it, in channels, in the hands of drainers, written.
Copies(m) ==
    Cardinality({k \in Gens : <<k, m>> \in pushing})
    + Cardinality({p \in Gens \X (1..FailuresCap) :
                      p[2] \in DOMAIN sendFailures[p[1]] /\ sendFailures[p[1]][p[2]] = m})
    + Cardinality({k \in Gens : hand[k] = m})
    + Cardinality({i \in DOMAIN wire : wire[i] = m})

\* However connections break while messages are sent, queued and sent again,
\* SendMessage's message is in one place: it is never lost between the
\* generations' channels, and never doubled.
OneCopy == \A m \in Messages : Copies(m) = IF m \in sent THEN 1 ELSE 0

\* The bot never holds two connections to the application at a time, whoever
\* notices the end of the old one: Reconnect is started once for each.
OneLink == \A c, d \in Gens : link[c] = "up" /\ link[d] = "up" => c = d

\* Seen from SendMessage's callers the generations are one Outbox.
Box == INSTANCE Outbox WITH accepted <- sent, written <- wire
BoxSpec == Box!Spec

GivenUp == \E k \in Gens : reconnect[k] = "gaveUp"

\* When the application is reachable in the end every message gets written,
\* the ones that failed on the way too, unless a Reconnect used up its
\* attempts (reconnect_times says how many there are).
EverythingSent ==
    \A m \in Messages : m \in sent ~> (m \in {wire[i] : i \in DOMAIN wire} \/ GivenUp)
==================================================================================

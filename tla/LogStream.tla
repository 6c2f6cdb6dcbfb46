---------------------------------- MODULE LogStream ----------------------------------
(***************************************************************************)
(* The log shown on the web pages (mylog/mylog.go).  Every line the        *)
(* program logs is put on a channel unless the channel is full.  The       *)
(* handler of a page's websocket registers the page, starts its two pumps  *)
(* and then stays in a loop of its own for ever, taking entries from the   *)
(* channel and offering each to every page that is registered: there are   *)
(* as many such distributors as pages were ever opened, and they outlive   *)
(* their pages.  An offer succeeds only while the page's write pump waits. *)
(***************************************************************************)
EXTENDS Integers, Sequences, SequencesExt, FiniteSets

CONSTANTS
    Pages,
    Capacity,     \* of logChannel
    MaxEntries    \* bound: lines the program logs

ASSUME LogAssumption == Capacity \in Nat \ {0} /\ MaxEntries \in Nat

VARIABLES
    logged,         \* the lines logged so far: the entries are 1..logged
    logChannel,
    wsClients,      \* the pages registered
    link,           \* per page: "none", then "up", then "down"
    writePump,      \* per page: it waits, or writes an entry, or has ended
    readPump,       \* per page: "none", "reading" or "ended"
    distributor,    \* per page: the loop of its handler
    shown           \* per page: the entries that reached it, in order

logVars == <<logged, logChannel, wsClients, link, writePump, readPump, distributor, shown>>

Idle == [at |-> "idle"]
Waiting == [at |-> "waiting"]
Writing(e) == [at |-> "writing", entry |-> e]
Ranging == {p \in Pages : distributor[p].at = "ranging"}    \* who holds the read lock

LogInit ==
    /\ logged = 0 /\ logChannel = << >> /\ wsClients = {}
    /\ link = [p \in Pages |-> "none"]
    /\ writePump = [p \in Pages |-> [at |-> "none"]]
    /\ readPump = [p \in Pages |-> "none"]
    /\ distributor = [p \in Pages |-> [at |-> "none"]]
    /\ shown = [p \in Pages |-> << >>]

\* Slips the properties must notice: an offer after which the page is asked again,
Offer_Again(d, p) ==
    /\ distributor[d].at = "ranging" /\ p \in distributor[d].left
    /\ IF writePump[p] = Waiting
       THEN /\ writePump' = [writePump EXCEPT ![p] = Writing(distributor[d].entry)]
            /\ UNCHANGED distributor
       ELSE /\ distributor' = [distributor EXCEPT ![d].left = @ \ {p}]
            /\ UNCHANGED writePump
    /\ UNCHANGED <<logged, logChannel, wsClients, link, readPump, shown>>

\* and a pump that ends while its page stays registered.
Unregister_Kept(p) == Ranging = {} /\ UNCHANGED wsClients
---------------------------------------------------------------------------------------
\* emitLog never waits: an entry that finds the channel full is not shown.
emitLog ==
    /\ logged < MaxEntries
    /\ logged' = logged + 1
    /\ logChannel' = IF Len(logChannel) < Capacity THEN Append(logChannel, logged')
                     ELSE logChannel
    /\ UNCHANGED <<wsClients, link, writePump, readPump, distributor, shown>>

\* A page is opened.  Registering takes the write lock.
WsHandler(p) ==
    /\ link[p] = "none" /\ Ranging = {}
    /\ wsClients' = wsClients \cup {p}
    /\ link' = [link EXCEPT ![p] = "up"]
    /\ writePump' = [writePump EXCEPT ![p] = Waiting]
    /\ readPump' = [readPump EXCEPT ![p] = "reading"]
    /\ distributor' = [distributor EXCEPT ![p] = Idle]
    /\ UNCHANGED <<logged, logChannel, shown>>

\* A distributor takes an entry; then it takes the read lock, offers the entry
\* to the pages registered at that moment, in any order, and unlocks.
Take(d) ==
    /\ distributor[d] = Idle /\ logChannel # << >>
    /\ distributor' = [distributor EXCEPT ![d] = [at |-> "took", entry |-> Head(logChannel)]]
    /\ logChannel' = Tail(logChannel)
    /\ UNCHANGED <<logged, wsClients, link, writePump, readPump, shown>>

RLock(d) ==
    /\ distributor[d].at = "took"
    /\ distributor' = [distributor EXCEPT ![d] =
          [at |-> "ranging", entry |-> distributor[d].entry, left |-> wsClients]]
    /\ UNCHANGED <<logged, logChannel, wsClients, link, writePump, readPump, shown>>

Offer(d, p) ==
    /\ distributor[d].at = "ranging" /\ p \in distributor[d].left
    /\ distributor' = [distributor EXCEPT ![d].left = @ \ {p}]
    /\ writePump' = IF writePump[p] = Waiting
                    THEN [writePump EXCEPT ![p] = Writing(distributor[d].entry)] ELSE writePump
    /\ UNCHANGED <<logged, logChannel, wsClients, link, readPump, shown>>

RUnlock(d) ==
    /\ distributor[d].at = "ranging" /\ distributor[d].left = {}
    /\ distributor' = [distributor EXCEPT ![d] = Idle]
    /\ UNCHANGED <<logged, logChannel, wsClients, link, writePump, readPump, shown>>

\* The write pump writes its entry.  On a link that is down the write may
\* still seem to work.
Write(p) ==
    /\ writePump[p].at = "writing"
    /\ shown' = IF link[p] = "up" THEN [shown EXCEPT ![p] = Append(@, writePump[p].entry)] ELSE shown
    /\ writePump' = [writePump EXCEPT ![p] = Waiting]
    /\ UNCHANGED <<logged, logChannel, wsClients, link, readPump, distributor>>

\* The end of either pump: the page is deleted under the write lock and the
\* link closed.
Unregister(p) == Ranging = {} /\ wsClients' = wsClients \ {p}

\* A write or a ping fails.
WritePumpEnds(p) ==
    /\ writePump[p].at \in {"waiting", "writing"} /\ link[p] = "down"
    /\ Unregister(p)
    /\ writePump' = [writePump EXCEPT ![p] = [at |-> "ended"]]
    /\ UNCHANGED <<logged, logChannel, link, readPump, distributor, shown>>

\* A read fails, or the page was silent for a minute.
ReadPumpEnds(p) ==
    /\ readPump[p] = "reading" /\ link[p] = "down"
    /\ Unregister(p)
    /\ readPump' = [readPump EXCEPT ![p] = "ended"]
    /\ UNCHANGED <<logged, logChannel, link, writePump, distributor, shown>>

\* The page is closed, is cut off or falls silent.
PageGone(p) ==
    /\ link[p] = "up"
    /\ link' = [link EXCEPT ![p] = "down"]
    /\ UNCHANGED <<logged, logChannel, wsClients, writePump, readPump, distributor, shown>>

LogNext ==
    \/ emitLog
    \/ \E p \in Pages :
          \/ WsHandler(p) \/ Take(p) \/ RLock(p) \/ RUnlock(p)
          \/ \E q \in Pages : Offer(p, q)
          \/ Write(p) \/ WritePumpEnds(p) \/ ReadPumpEnds(p) \/ PageGone(p)

\* The goroutines go on; a writer that waits for the lock holds new readers up,
\* so it gets its turn.
LogFairness ==
    \A p \in Pages :
        /\ WF_logVars(RLock(p)) /\ WF_logVars(RUnlock(p))
        /\ \A q \in Pages : WF_logVars(Offer(p, q))
        /\ SF_logVars(ReadPumpEnds(p)) /\ SF_logVars(WritePumpEnds(p))
---------------------------------------------------------------------------------------
\* A page never shows a line twice, however many distributors there are; and
\* as long as one page is all there ever was, it shows the lines in order.
\* (With two distributors a line may overtake another: each takes an entry and
\* they race to the pages.)
EntriesInOrder ==
    \A p \in Pages :
        /\ IsInjective(shown[p])
        /\ Cardinality({q \in Pages : link[q] # "none"}) = 1 =>
              \A i, j \in DOMAIN shown[p] : i < j => shown[p][i] < shown[p][j]

\* A page that is gone is taken off the list of pages, though the distributors
\* hold the lock again and again and the pumps find out at different times.
PagesForgotten ==
    \A p \in Pages : (link[p] = "down") ~> (p \notin wsClients)
=======================================================================================

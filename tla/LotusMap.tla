--------------------------------- MODULE LotusMap ---------------------------------
(***************************************************************************)
(* One id map for several programs (config lotus): the functions of        *)
(* idmap/service.go named v2 send a GET to /getid of the program that owns *)
(* the map, and GetIDHandler there does the transaction.  Any number of    *)
(* handlers of any program ask at the same time; a request may be lost, be *)
(* sent a second time when its connection breaks, or be served when nobody *)
(* waits for it any more, and its answer may be lost.                      *)
(*                                                                         *)
(* The bind requests (5, 6, 11, 12) are those of FrameworkCommand.  The    *)
(* owner's bucket "config" of WriteConfig and ReadConfig, which remembers  *)
(* the guild of a channel number, is the variable config.                  *)
(***************************************************************************)
EXTENDS IdMap

CONSTANTS Handlers,   \* the handlers, in any program, that call the v2 functions
          Known,      \* the ids they meet
          Notes,      \* what is written under a number
          MaxCalls    \* a bound on calls

ASSUME KnownAssumption == Known \subseteq Ids /\ MaxCalls \in Nat

VARIABLES
    waits,    \* the number of the call a handler waits for, 0 when for none
    net,      \* the requests that may still reach the owner
    calls,    \* calls made so far
    config,   \* the owner's bucket "config", NoId where there is no value
    told,     \* history: the numbers of ids that a handler was given
    reached,  \* history: the ids that the owner named for a number
    sure      \* history: what the note of a number must be by the last answer,
              \* NoId while a request that may still come could change it

netState == <<waits, net, calls>>
learnt == <<told, reached, sure>>
lotusVars == <<vars, netState, config, learnt>>

Numbers == {t[2] : t \in told}

\* What can be asked: requests 1 and 13 (StoreIDv2, SimplifiedStoreIDv2),
\* 8 (StoreIDv2Pro), 2 and 4 (RetrieveRowByIDv2, ReadConfigv2), 9
\* (RetrieveRowByIDv2Pro) and 3 (WriteConfigv2).
Questions ==
    [ask : {"store", "simplified"}, id : Known]
    \cup [ask : {"storePro"}, pair : Pairs]
    \cup [ask : {"row", "read"}, row : Numbers]
    \cup [ask : {"rowPro"}, rows : {fwdPair[p] : p \in Pairs} \ {NoRow}]
    \cup [ask : {"write"}, row : Numbers, note : Notes]

LotusInit ==
    /\ Init
    /\ waits = [h \in Handlers |-> 0] /\ net = {} /\ calls = 0
    /\ config = [r \in Rows |-> NoId]
    /\ told = {} /\ reached = {} /\ sure = [r \in Rows |-> NoId]
----------------------------------------------------------------------------------
\* Slips: a transaction of StoreID that does not look for the id first; a note
\* that keeps what was written first.
StoreOnce_Anew(q) ==
    /\ q.ask = "store"
    /\ counter + 1 \in CounterRows
    /\ fwd' = [fwd EXCEPT ![q.id] = counter + 1]
    /\ rev' = [rev EXCEPT ![counter + 1] = q.id]
    /\ counter' = counter + 1
    /\ UNCHANGED <<pairVars, config>>

WriteConfig_First(q) ==
    /\ q.ask = "write"
    /\ config' = IF config[q.row] = NoId THEN [config EXCEPT ![q.row] = q.note] ELSE config
    /\ UNCHANGED vars
----------------------------------------------------------------------------------
\* Requests 1 and 8: what is known keeps its numbers.
StoreOnce(q) ==
    /\ q.ask = "store"
    /\ StoreID(q.id) \/ (fwd[q.id] # NoRow /\ UNCHANGED vars)
    /\ UNCHANGED config

StorePairOnce(q) ==
    /\ q.ask = "storePro"
    /\ StoreIDPro(q.pair) \/ (fwdPair[q.pair] # NoRow /\ UNCHANGED vars)
    /\ UNCHANGED config

\* Request 13: a number that is free leads to the id too.
StoreSimplified(q) == q.ask = "simplified" /\ SimplifiedStoreID(q.id) /\ UNCHANGED config

\* Requests 2, 9 and 4: an error where there is no key.
RetrieveRowByID(q) == q.ask = "row" /\ rev[q.row] # NoId /\ UNCHANGED <<vars, config>>
RetrieveRowByIDPro(q) == q.ask = "rowPro" /\ revPair[q.rows] # NoId /\ UNCHANGED <<vars, config>>
ReadConfig(q) == q.ask = "read" /\ config[q.row] # NoId /\ UNCHANGED <<vars, config>>

\* Request 3, WriteConfig: the last value stays.
WriteConfig(q) ==
    /\ q.ask = "write"
    /\ config' = [config EXCEPT ![q.row] = q.note]
    /\ UNCHANGED vars

\* GetIDHandler, with status 200.
GetIDHandler(q) ==
    \/ StoreOnce(q) \/ StorePairOnce(q) \/ StoreSimplified(q)
    \/ RetrieveRowByID(q) \/ RetrieveRowByIDPro(q)
    \/ ReadConfig(q) \/ WriteConfig(q)

\* What the caller of c knows by an answer that is no error.
Undisputed(c) == \A o \in net \ {c} : o.q.ask = "write" => o.q.row # c.q.row

Learn(c) ==
    /\ told' = IF c.q.ask = "store" THEN told \cup {<<c.q.id, fwd'[c.q.id]>>} ELSE told
    /\ reached' = IF c.q.ask = "row" THEN reached \cup {<<rev[c.q.row], c.q.row>>} ELSE reached
    /\ sure' = IF c.q.ask = "write" /\ Undisputed(c)
               THEN [sure EXCEPT ![c.q.row] = c.q.note] ELSE sure

\* http.Get.  A call to write makes uncertain what the note will be.
Ask(h, q) ==
    /\ waits[h] = 0 /\ calls < MaxCalls
    /\ calls' = calls + 1
    /\ waits' = [waits EXCEPT ![h] = calls']
    /\ net' = net \cup {[n |-> calls', by |-> h, q |-> q]}
    /\ sure' = IF q.ask = "write" THEN [sure EXCEPT ![q.row] = NoId] ELSE sure
    /\ UNCHANGED <<vars, config, told, reached>>

\* The request is served, and the answer heard if somebody waits for it; a
\* transaction that fails changes nothing and answers an error.
Serve(c) ==
    /\ net' = net \ {c}
    /\ \/ GetIDHandler(c.q) /\ IF waits[c.by] = c.n THEN Learn(c) ELSE UNCHANGED learnt
       \/ UNCHANGED <<vars, config, learnt>>
    /\ waits' = [h \in Handlers |-> IF waits[h] = c.n THEN 0 ELSE waits[h]]
    /\ UNCHANGED calls

\* The connection breaks before the answer begins, and the transport sends the
\* GET again: it is served for nobody, and will come once more.
ServeTwice(c) ==
    /\ waits[c.by] = c.n
    /\ GetIDHandler(c.q)
    /\ UNCHANGED <<netState, learnt>>

\* The call fails: the request never comes, or is served for nobody later.
CallFails(c) ==
    /\ waits[c.by] = c.n
    /\ waits' = [waits EXCEPT ![c.by] = 0]
    /\ net' \in {net, net \ {c}}
    /\ UNCHANGED <<vars, config, calls, learnt>>

LotusNext ==
    \/ \E h \in Handlers, q \in Questions : Ask(h, q)
    \/ \E c \in net : Serve(c) \/ ServeTwice(c) \/ CallFails(c)

LotusSpec == LotusInit /\ [][LotusNext]_lotusVars
----------------------------------------------------------------------------------
\* Whichever program asks, however often a request is repeated or served too
\* late: an id has one number for all of them, the number leads to that id, and
\* no number was ever understood as two ids (requests 1 and 2).
NumbersAgree ==
    /\ \A t, u \in told : t[1] = u[1] <=> t[2] = u[2]
    /\ \A t \in told, u \in reached : t[2] = u[2] => t[1] = u[1]
    /\ \A t \in told : rev[t[2]] = t[1]

\* A note whose writing was confirmed is there, as long as no other writing of
\* it is under way or may still arrive (requests 3 and 4).
NotesKept == \A r \in Rows : sure[r] # NoId => config[r] = sure[r]
==================================================================================

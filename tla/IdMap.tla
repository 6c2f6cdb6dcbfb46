---------------------------------- MODULE IdMap ----------------------------------
(***************************************************************************)
(* The id map of idmap/service.go: the bolt bucket "ids" that converts     *)
(* Discord ids to virtual numbers and back.  Every exported operation is   *)
(* one serialised bolt transaction, hence one action; an operation that    *)
(* returns an error rolls back and is a step the guards exclude.           *)
(*                                                                         *)
(* The bucket is one flat key space, but its four kinds of keys cannot     *)
(* meet (digits; "row-<n>"; "a:b" over 17 to 19 digit Discord ids; "n:m"   *)
(* over virtual numbers), so each kind is a variable of its own.           *)
(***************************************************************************)
EXTENDS Integers

CONSTANTS
    Ids,          \* Discord ids: users, channels, messages
    Pairs,        \* the (channel, user) pairs that occur
    Rows,         \* virtual numbers that can occur
    CounterRows,  \* the numbers the counter reaches: a bound on counting
    BindRows,     \* the numbers bind commands ask for
    NoRow,        \* an absent value under a key that holds a number
    NoId,         \* an absent value under a key that holds an id
    HashIdValue,  \* config hash_id
    Hash9,        \* GenerateRowID(id, 9), NoRow when the digest is too short
    Hash10        \* GenerateRowID(id, 10), NoRow when the digest is too short

ASSUME RowsAssumption ==
    /\ Rows \subseteq Int
    /\ CounterRows \subseteq Rows
    /\ BindRows \subseteq Rows
    /\ 0 \notin CounterRows
ASSUME PairsAssumption == Pairs \subseteq Ids \X Ids
ASSUME AbsentAssumption == NoRow \notin Rows \cup (Rows \X Rows) /\ NoId \notin Ids \cup Pairs
ASSUME HashAssumption ==
    /\ HashIdValue \in BOOLEAN
    /\ Hash9 \in [Ids -> Rows \cup {NoRow}]
    /\ Hash10 \in [Ids -> Rows \cup {NoRow}]

VARIABLES
    fwd,      \* key "<id>": the virtual number of a Discord id
    rev,      \* key "row-<n>": the Discord id behind a virtual number
    counter,  \* key "currentRow": the last number handed out by counting
    fwdPair,  \* key "<id>:<subid>": the numbers of a (channel, user) pair
    revPair   \* key "<n>:<m>": the pair behind two virtual numbers

vars == <<fwd, rev, counter, fwdPair, revPair>>
pairVars == <<fwdPair, revPair>>
singleVars == <<fwd, rev, counter>>

TypeOK ==
    /\ fwd \in [Ids -> Rows \cup {NoRow}]
    /\ rev \in [Rows -> Ids \cup {NoId}]
    /\ counter \in CounterRows \cup {0}
    /\ fwdPair \in [Pairs -> (Rows \X Rows) \cup {NoRow}]
    /\ revPair \in [Rows \X Rows -> Pairs \cup {NoId}]

\* InitializeDB on a fresh file: an empty bucket.
Init ==
    /\ fwd = [i \in Ids |-> NoRow]
    /\ rev = [r \in Rows |-> NoId]
    /\ counter = 0
    /\ fwdPair = [p \in Pairs |-> NoRow]
    /\ revPair = [q \in Rows \X Rows |-> NoId]
----------------------------------------------------------------------------------
\* Slips the properties must notice: a counter that is never written back:
StoreID_NotCounted(i) ==
    /\ fwd[i] = NoRow
    /\ fwd' = [fwd EXCEPT ![i] = counter + 1]
    /\ rev' = [rev EXCEPT ![counter + 1] = i]
    /\ UNCHANGED <<counter, pairVars>>

\* a bind that leaves the id its old number, or takes a number in use:
UpdateVirtualValue_OldKept(old, new) ==
    /\ rev[old] # NoId /\ rev[new] = NoId
    /\ rev' = [rev EXCEPT ![old] = NoId, ![new] = rev[old]]
    /\ UNCHANGED <<fwd, counter, pairVars>>

UpdateVirtualValue_Taken(old, new) ==
    /\ rev[old] # NoId
    /\ fwd' = [fwd EXCEPT ![rev[old]] = new]
    /\ rev' = [rev EXCEPT ![old] = NoId, ![new] = rev[old]]
    /\ UNCHANGED <<counter, pairVars>>

\* the bind slips for a pair: its old key is kept, or a key in use is taken.
UpdateVirtualValuePro_OldKept(old, new) ==
    /\ revPair[old] # NoId /\ revPair[new] = NoId
    /\ revPair' = [revPair EXCEPT ![new] = revPair[old]]
    /\ fwdPair' = [fwdPair EXCEPT ![revPair[old]] = new]
    /\ UNCHANGED singleVars

UpdateVirtualValuePro_Taken(old, new) ==
    /\ revPair[old] # NoId
    /\ revPair' = [revPair EXCEPT ![old] = NoId, ![new] = revPair[old]]
    /\ fwdPair' = [fwdPair EXCEPT ![revPair[old]] = new]
    /\ UNCHANGED singleVars
----------------------------------------------------------------------------------
Free(r) == rev[r] = NoId

\* The hashed number an id gets: nine digits, ten when those are taken, none
\* when those are taken too or the digest has too few digits.
HashRow(i) ==
    IF Hash9[i] # NoRow /\ ~Free(Hash9[i])
    THEN IF Hash10[i] # NoRow /\ ~Free(Hash10[i]) THEN NoRow ELSE Hash10[i]
    ELSE Hash9[i]

\* StoreID for an id that is already known reads and changes nothing.  A new
\* id gets its hashed number, or the next value of the counter, which is
\* stored without looking whether "row-<n>" is already there.
StoreID(i) ==
    /\ fwd[i] = NoRow
    /\ LET r == IF HashIdValue THEN HashRow(i) ELSE counter + 1
       IN  /\ r \in IF HashIdValue THEN Rows ELSE CounterRows
           /\ fwd' = [fwd EXCEPT ![i] = r]
           /\ rev' = [rev EXCEPT ![r] = i]
           /\ counter' = IF HashIdValue THEN counter ELSE r
    /\ UNCHANGED pairVars

\* SimplifiedStoreID: only the reverse key, under a hashed number that is
\* free.  For an id stored before, that is a second number leading to it.
SimplifiedStoreID(i) ==
    /\ HashRow(i) \in Rows
    /\ rev' = [rev EXCEPT ![HashRow(i)] = i]
    /\ UNCHANGED <<fwd, counter, pairVars>>

\* StoreIDPro: a new pair gets both nine digit numbers; the reverse key is
\* written without looking whether another pair has it.
StoreIDPro(p) ==
    LET q == <<Hash9[p[1]], Hash9[p[2]]>>
    IN  /\ fwdPair[p] = NoRow
        /\ q \in Rows \X Rows
        /\ fwdPair' = [fwdPair EXCEPT ![p] = q]
        /\ revPair' = [revPair EXCEPT ![q] = p]
        /\ UNCHANGED singleVars

\* UpdateVirtualValue: the bind operation on a single number.
UpdateVirtualValue(old, new) ==
    /\ ~Free(old)
    /\ Free(new)
    /\ fwd' = [fwd EXCEPT ![rev[old]] = new]
    /\ rev' = [rev EXCEPT ![old] = NoId, ![new] = rev[old]]
    /\ UNCHANGED <<counter, pairVars>>

\* UpdateVirtualValuePro: the bind operation on the numbers of a pair.
UpdateVirtualValuePro(old, new) ==
    /\ revPair[old] # NoId
    /\ revPair[new] = NoId
    /\ revPair' = [revPair EXCEPT ![old] = NoId, ![new] = revPair[old]]
    /\ fwdPair' = [fwdPair EXCEPT ![revPair[old]] = new]
    /\ UNCHANGED singleVars

Next ==
    \/ \E i \in Ids : StoreID(i) \/ SimplifiedStoreID(i)
    \/ \E p \in Pairs : StoreIDPro(p)
    \/ \E old \in Rows, new \in BindRows : UpdateVirtualValue(old, new)
    \/ \E old \in Rows \X Rows, new \in Rows \X BindRows : UpdateVirtualValuePro(old, new)

Spec == Init /\ [][Next]_vars
----------------------------------------------------------------------------------
\* A number reported to the application leads back to the id it was reported
\* for (StoreID's answer given to RetrieveRowByID).  Holds with
\* hash_id, and without it as long as bind commands stay clear of the counter.
RoundTrip == \A i \in Ids : fwd[i] # NoRow => rev[fwd[i]] = i

\* A reply addressed to two numbers reaches a pair whose present numbers they
\* are (RetrieveRowByIDPro against StoreIDPro and UpdateVirtualValuePro): it
\* may reach nobody, it never reaches a pair that was moved elsewhere.
PairResolves == \A q \in Rows \X Rows : revPair[q] # NoId => fwdPair[revPair[q]] = q

\* The numbers a pair was told lead back to it (the comments at
\* RetrieveVirtualValuePro and RetrieveRealValuePro).  Two pairs with the
\* same hashed numbers break it: StoreIDPro overwrites the reverse key.
PairRoundTrip == \A p \in Pairs : fwdPair[p] # NoRow => revPair[fwdPair[p]] = p

\* A number never passes from one id straight to another: a message that an
\* application addresses to an old number is refused before the number can
\* mean somebody else.  Holds when RoundTrip does.
RowKeepsOwner ==
    [][\A r \in Rows : rev[r] # NoId => rev'[r] \in {rev[r], NoId}]_vars

\* Where RoundTrip holds the map keeps the promise of NameService for single ids.
Names == INSTANCE NameService WITH name <- fwd
NamesSpec == Names!Spec
==================================================================================

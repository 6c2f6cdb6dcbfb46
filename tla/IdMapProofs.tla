------------------------------- MODULE IdMapProofs -------------------------------
(***************************************************************************)
(* What IdMap guarantees for every set of ids and numbers and every hash,  *)
(* alone and among those who use it at once.                               *)
(*                                                                         *)
(* RoundTrip is not inductive by itself when numbers are counted: StoreID  *)
(* writes "row-<n>" blindly, so the proof also needs that no number above  *)
(* the counter is in use (CounterAhead), which is only true while bind     *)
(* commands and hashes stay clear of the counter's range (CountedApart).   *)
(*                                                                         *)
(* Several programs that share one map: whatever requests are repeated,    *)
(* late or lost, an id has one number for all of them, and a note that was *)
(* confirmed is there.  Any number of concurrent commands: whatever they   *)
(* do to the map is a transaction of IdMap, also the bind requests another *)
(* process serves late, so that what is shown of the map alone is true     *)
(* among commands; and one-time codes are paid for.                        *)
(***************************************************************************)
EXTENDS LotusMap, FrameworkCommand, WellFoundedInduction, SequenceTheorems, TLAPS


CountedApart ==
    ~HashIdValue => \A r \in CounterRows :
                        r \notin BindRows /\ \A i \in Ids : r \notin {Hash9[i], Hash10[i]}

CounterAhead == ~HashIdValue => \A r \in CounterRows : r > counter => Free(r)

IInv == RoundTrip /\ CounterAhead

\* A hashed number is NoRow, or free and one of the two numbers of the digest.
LEMMA HashRowFree ==
    ASSUME NEW i \in Ids, TypeOK, HashRow(i) \in Rows
    PROVE  Free(HashRow(i)) /\ HashRow(i) \in {Hash9[i], Hash10[i]}
  BY HashAssumption, AbsentAssumption DEF HashRow, Free, TypeOK

\* Every transaction keeps every key of the bucket in its value set.
LEMMA TypeStep == TypeOK /\ [Next]_vars => TypeOK'
<1> SUFFICES ASSUME TypeOK, [Next]_vars PROVE TypeOK'
  OBVIOUS
<1> USE DEF TypeOK, pairVars, singleVars
<1>1. ASSUME NEW i \in Ids, StoreID(i) PROVE TypeOK'
  BY <1>1, RowsAssumption DEF StoreID
<1>2. ASSUME NEW i \in Ids, SimplifiedStoreID(i) PROVE TypeOK'
  BY <1>2 DEF SimplifiedStoreID
<1>3. ASSUME NEW p \in Pairs, StoreIDPro(p) PROVE TypeOK'
  BY <1>3 DEF StoreIDPro
<1>4. ASSUME NEW old \in Rows, NEW new \in BindRows, UpdateVirtualValue(old, new)
      PROVE TypeOK'
  BY <1>4, RowsAssumption DEF UpdateVirtualValue, Free
<1>5. ASSUME NEW old \in Rows \X Rows, NEW new \in Rows \X BindRows,
             UpdateVirtualValuePro(old, new)
      PROVE TypeOK'
  <2>1. new \in Rows \X Rows
    BY <1>5, RowsAssumption
  <2>2. QED
    BY <1>5, <2>1 DEF UpdateVirtualValuePro
<1>6. CASE UNCHANGED vars
  BY <1>6 DEF vars
<1>7. QED
  BY <1>1, <1>2, <1>3, <1>4, <1>5, <1>6 DEF Next

THEOREM TypeCorrect == Spec => []TypeOK
<1>1. Init => TypeOK
  BY DEF Init, TypeOK
<1>2. QED
  BY <1>1, TypeStep, PTL DEF Spec

\* The inductive step behind RoundTrip, one case per transaction.
LEMMA RoundTripStep ==
    ASSUME CountedApart, TypeOK, IInv, [Next]_vars
    PROVE  IInv'
<1> USE DEF IInv, RoundTrip, CounterAhead, Free
<1>1. ASSUME NEW i \in Ids, StoreID(i) PROVE IInv'
  <2> DEFINE r == IF HashIdValue THEN HashRow(i) ELSE counter + 1
  <2>1. r \in Rows /\ Free(r)
    <3>1. CASE HashIdValue
      BY <1>1, <3>1, HashRowFree DEF StoreID
    <3>2. CASE ~HashIdValue
      BY <1>1, <3>2, RowsAssumption DEF StoreID, TypeOK
    <3>3. QED
      BY <3>1, <3>2
  <2>2. /\ fwd' = [fwd EXCEPT ![i] = r]
        /\ rev' = [rev EXCEPT ![r] = i]
        /\ counter' = IF HashIdValue THEN counter ELSE r
    BY <1>1 DEF StoreID
  <2> HIDE DEF r
  <2>3. RoundTrip'
    BY <2>1, <2>2, AbsentAssumption DEF TypeOK
  <2>4. CounterAhead'
    <3>1. CASE HashIdValue
      BY <3>1
    <3>2. CASE ~HashIdValue
      <4>1. counter \in Int /\ r = counter + 1
        <5>1. counter \in Int
          BY RowsAssumption DEF TypeOK
        <5> HIDE DEF IInv, RoundTrip, CounterAhead, Free
        <5>2. r = counter + 1
          BY <3>2 DEF r
        <5> QED BY <5>1, <5>2
      <4>2. ASSUME NEW n \in CounterRows, n > r PROVE rev'[n] = NoId
        BY <2>2, <3>2, <4>1, <4>2, RowsAssumption DEF TypeOK
      <4>3. QED
        BY <2>2, <3>2, <4>2
    <3>3. QED
      BY <3>1, <3>2
  <2>5. QED
    BY <2>3, <2>4
<1>2. ASSUME NEW i \in Ids, SimplifiedStoreID(i) PROVE IInv'
  <2> DEFINE r == HashRow(i)
  <2>1. r \in Rows /\ Free(r) /\ r \in {Hash9[i], Hash10[i]}
    BY <1>2, HashRowFree DEF SimplifiedStoreID
  <2>2. fwd' = fwd /\ counter' = counter /\ rev' = [rev EXCEPT ![r] = i]
    BY <1>2 DEF SimplifiedStoreID
  <2> HIDE DEF r
  <2>3. RoundTrip'
    BY <2>1, <2>2, AbsentAssumption DEF TypeOK
  <2>4. CounterAhead'
    BY <2>1, <2>2, RowsAssumption DEF TypeOK, CountedApart
  <2>5. QED
    BY <2>3, <2>4
<1>3. ASSUME NEW p \in Pairs, StoreIDPro(p) PROVE IInv'
  BY <1>3 DEF StoreIDPro, singleVars
<1>4. ASSUME NEW old \in Rows, NEW new \in BindRows, UpdateVirtualValue(old, new)
      PROVE IInv'
  <2>1. new \in Rows /\ rev[old] \in Ids
    BY <1>4, RowsAssumption DEF UpdateVirtualValue, TypeOK
  <2>2. RoundTrip'
    BY <1>4, <2>1, AbsentAssumption DEF UpdateVirtualValue, TypeOK
  <2>3. CounterAhead'
    BY <1>4, <2>1, RowsAssumption DEF UpdateVirtualValue, TypeOK, CountedApart
  <2>4. QED
    BY <2>2, <2>3
<1>5. ASSUME NEW old \in Rows \X Rows, NEW new \in Rows \X BindRows,
             UpdateVirtualValuePro(old, new)
      PROVE IInv'
  BY <1>5 DEF UpdateVirtualValuePro, singleVars
<1>6. CASE UNCHANGED vars
  BY <1>6 DEF vars
<1>7. QED
  BY <1>1, <1>2, <1>3, <1>4, <1>5, <1>6 DEF Next

\* A reported number always leads back to the id it was reported for.
THEOREM RoundTripHolds ==
    ASSUME CountedApart
    PROVE  Spec => []RoundTrip
<1>1. Init => IInv
  BY RowsAssumption DEF Init, IInv, RoundTrip, CounterAhead, Free
<1>2. IInv /\ TypeOK /\ [Next]_vars => IInv'
  BY RoundTripStep
<1>3. IInv => RoundTrip
  BY DEF IInv
<1>4. QED
  BY <1>1, <1>2, <1>3, TypeCorrect, PTL DEF Spec

\* A number passes from one id to another only through being nobody's.
THEOREM RowKeepsOwnerHolds ==
    ASSUME CountedApart
    PROVE  Spec => RowKeepsOwner
<1> DEFINE Keeps == \A r \in Rows : rev[r] # NoId => rev'[r] \in {rev[r], NoId}
<1>1. TypeOK /\ IInv /\ [Next]_vars => [Keeps]_vars
  <2> SUFFICES ASSUME TypeOK, IInv, Next PROVE Keeps
    OBVIOUS
  <2> USE DEF TypeOK, Free
  <2>1. ASSUME NEW i \in Ids, StoreID(i) PROVE Keeps
    <3>1. CASE HashIdValue
      BY <2>1, <3>1, HashRowFree DEF StoreID
    <3>2. CASE ~HashIdValue
      BY <2>1, <3>2, RowsAssumption DEF StoreID, IInv, CounterAhead
    <3>3. QED
      BY <3>1, <3>2
  <2>2. ASSUME NEW i \in Ids, SimplifiedStoreID(i) PROVE Keeps
    BY <2>2, HashRowFree DEF SimplifiedStoreID
  <2>3. ASSUME NEW p \in Pairs, StoreIDPro(p) PROVE Keeps
    BY <2>3 DEF StoreIDPro, singleVars
  <2>4. ASSUME NEW old \in Rows, NEW new \in BindRows, UpdateVirtualValue(old, new)
        PROVE Keeps
    BY <2>4 DEF UpdateVirtualValue
  <2>5. ASSUME NEW old \in Rows \X Rows, NEW new \in Rows \X BindRows,
               UpdateVirtualValuePro(old, new)
        PROVE Keeps
    BY <2>5 DEF UpdateVirtualValuePro, singleVars
  <2>6. QED
    BY <2>1, <2>2, <2>3, <2>4, <2>5 DEF Next
<1>2. Init => IInv
  BY RowsAssumption DEF Init, IInv, RoundTrip, CounterAhead, Free
<1>3. IInv /\ TypeOK /\ [Next]_vars => IInv'
  BY RoundTripStep
<1>4. QED
  BY <1>1, <1>2, <1>3, TypeCorrect, PTL DEF Spec, RowKeepsOwner

\* A pair is only ever reached under the numbers it has now, hash collisions
\* and bind commands included.  The property is inductive as it stands.
THEOREM PairResolvesHolds == Spec => []PairResolves
<1> USE DEF PairResolves
<1>1. Init => PairResolves
  BY DEF Init
<1>2. PairResolves /\ TypeOK /\ [Next]_vars => PairResolves'
  <2> SUFFICES ASSUME PairResolves, TypeOK, [Next]_vars PROVE PairResolves'
    OBVIOUS
  <2> USE DEF TypeOK, pairVars
  <2>1. ASSUME NEW i \in Ids, StoreID(i) PROVE PairResolves'
    BY <2>1 DEF StoreID
  <2>2. ASSUME NEW i \in Ids, SimplifiedStoreID(i) PROVE PairResolves'
    BY <2>2 DEF SimplifiedStoreID
  <2>3. ASSUME NEW p \in Pairs, StoreIDPro(p) PROVE PairResolves'
    BY <2>3, AbsentAssumption DEF StoreIDPro
  <2>4. ASSUME NEW old \in Rows, NEW new \in BindRows, UpdateVirtualValue(old, new)
        PROVE PairResolves'
    BY <2>4 DEF UpdateVirtualValue
  <2>5. ASSUME NEW old \in Rows \X Rows, NEW new \in Rows \X BindRows,
               UpdateVirtualValuePro(old, new)
        PROVE PairResolves'
    <3>1. new \in Rows \X Rows /\ revPair[old] \in Pairs /\ new # old
      BY <2>5, RowsAssumption DEF UpdateVirtualValuePro
    <3>2. QED
      BY <2>5, <3>1, AbsentAssumption DEF UpdateVirtualValuePro
  <2>6. CASE UNCHANGED vars
    BY <2>6 DEF vars
  <2>7. QED
    BY <2>1, <2>2, <2>3, <2>4, <2>5, <2>6 DEF Next
<1>3. QED
  BY <1>1, <1>2, TypeCorrect, PTL DEF Spec

\* The bucket implements NameService: RoundTrip makes a free "row-<n>" a
\* number nobody answers to.
THEOREM ImplementsNameService ==
    ASSUME CountedApart
    PROVE  Spec => NamesSpec
<1>1. Init => Names!Init
  BY DEF Init, Names!Init
<1>2. ASSUME TypeOK, IInv, [Next]_vars
      PROVE  [Names!Next]_fwd
  <2> USE <1>2 DEF TypeOK, Free
  <2>1. ASSUME NEW r \in Rows, Free(r) PROVE r \notin Names!Used
    BY <2>1, AbsentAssumption DEF Names!Used, IInv, RoundTrip
  <2>2. ASSUME NEW i \in Ids, StoreID(i) PROVE Names!Next
    <3>1. PICK r \in Rows : Free(r) /\ fwd' = [fwd EXCEPT ![i] = r]
      <4>1. CASE HashIdValue
        BY <2>2, <4>1, HashRowFree DEF StoreID
      <4>2. CASE ~HashIdValue
        <5>1. counter + 1 \in Rows /\ Free(counter + 1)
          BY <2>2, <4>2, RowsAssumption DEF StoreID, IInv, CounterAhead
        <5>2. QED
          BY <2>2, <4>2, <5>1 DEF StoreID
      <4>3. QED
        BY <4>1, <4>2
    <3>2. Names!Register(i, r)
      BY <2>1, <2>2, <3>1 DEF Names!Register, StoreID
    <3>3. QED
      BY <3>2 DEF Names!Next
  <2>3. ASSUME NEW i \in Ids, SimplifiedStoreID(i) PROVE UNCHANGED fwd
    BY <2>3 DEF SimplifiedStoreID
  <2>4. ASSUME NEW p \in Pairs, StoreIDPro(p) PROVE UNCHANGED fwd
    BY <2>4 DEF StoreIDPro, singleVars
  <2>5. ASSUME NEW old \in Rows, NEW new \in BindRows, UpdateVirtualValue(old, new)
        PROVE [Names!Next]_fwd
    <3>1. rev[old] \in Ids /\ new \in Rows /\ new \notin Names!Used
      BY <2>1, <2>5, RowsAssumption DEF UpdateVirtualValue
    <3>2. CASE fwd[rev[old]] # NoRow
      BY <2>5, <3>1, <3>2 DEF UpdateVirtualValue, Names!Rename, Names!Next
    <3>3. CASE fwd[rev[old]] = NoRow
      BY <2>5, <3>1, <3>3 DEF UpdateVirtualValue, Names!Register, Names!Next
    <3>4. QED
      BY <3>2, <3>3
  <2>6. ASSUME NEW old \in Rows \X Rows, NEW new \in Rows \X BindRows,
               UpdateVirtualValuePro(old, new)
        PROVE UNCHANGED fwd
    BY <2>6 DEF UpdateVirtualValuePro, singleVars
  <2>7. CASE UNCHANGED vars
    BY <2>7 DEF vars
  <2>8. QED
    BY <1>2, <2>2, <2>3, <2>4, <2>5, <2>6, <2>7 DEF Next
<1>3. Init => IInv
  BY RowsAssumption DEF Init, IInv, RoundTrip, CounterAhead, Free
<1>4. IInv /\ TypeOK /\ [Next]_vars => IInv'
  BY RoundTripStep
<1>5. QED
  BY <1>1, <1>2, <1>3, <1>4, TypeCorrect, PTL DEF Spec, NamesSpec, Names!Spec
----------------------------------------------------------------------------------
\* The numbers StoreIDPro gives a pair.
PairRow(p) == <<Hash9[p[1]], Hash9[p[2]]>>

\* No two pairs hash to the same numbers, and no bind names a pair's hashed ones.
PairsApart ==
    \A p \in Pairs : /\ PairRow(p) \notin Rows \X BindRows
                     /\ \A o \in Pairs : PairRow(o) = PairRow(p) => o = p

\* The numbers a pair would get are not another's, so storing it overwrites
\* nothing: either nobody is behind them or the pair itself.
PairKeysKept == \A p \in Pairs :
    PairRow(p) \in Rows \X Rows => revPair[PairRow(p)] \in {p, NoId}

PInv == PairRoundTrip /\ PairResolves /\ PairKeysKept

LEMMA PairStep ==
    ASSUME PairsApart, TypeOK, PInv, PairResolves', [Next]_vars
    PROVE  PInv'
<1>1. ASSUME UNCHANGED pairVars PROVE PInv'
  BY <1>1 DEF PInv, PairRoundTrip, PairKeysKept, pairVars
<1>2. ASSUME NEW p \in Pairs, StoreIDPro(p) PROVE PInv'
  <2> DEFINE q == PairRow(p)
  <2>1. /\ fwdPair[p] = NoRow /\ q \in Rows \X Rows
        /\ fwdPair' = [fwdPair EXCEPT ![p] = q]
        /\ revPair' = [revPair EXCEPT ![q] = p]
    BY <1>2 DEF StoreIDPro, PairRow
  <2>2. revPair[q] = NoId
    BY <2>1, AbsentAssumption DEF PInv, PairKeysKept, PairResolves
  <2>3. \A o \in Pairs : fwdPair[o] # q
    BY <2>1, <2>2, AbsentAssumption DEF PInv, PairRoundTrip
  <2> HIDE DEF q
  <2>4. PairRoundTrip'
    BY <2>1, <2>3 DEF PInv, PairRoundTrip, TypeOK
  <2>5. \A o \in Pairs : PairRow(o) \in Rows \X Rows => revPair'[PairRow(o)] \in {o, NoId}
    <3>1. \A o \in Pairs : PairRow(o) = q => o = p
      BY DEF q, PairsApart
    <3> QED BY <2>1, <3>1 DEF PInv, PairKeysKept, TypeOK
  <2> QED BY <2>4, <2>5 DEF PInv, PairKeysKept, PairRow
<1>3. ASSUME NEW old \in Rows \X Rows, NEW new \in Rows \X BindRows,
             UpdateVirtualValuePro(old, new)
      PROVE PInv'
  <2>1. new \in Rows \X Rows
    BY RowsAssumption
  <2> DEFINE p == revPair[old]
  <2>2. /\ p \in Pairs /\ revPair[new] = NoId /\ old # new
        /\ revPair' = [revPair EXCEPT ![old] = NoId, ![new] = p]
        /\ fwdPair' = [fwdPair EXCEPT ![p] = new]
    BY <1>3 DEF UpdateVirtualValuePro, TypeOK
  <2>3. \A o \in Pairs \ {p} : fwdPair[o] # NoRow => fwdPair[o] \notin {old, new}
    BY <2>2, AbsentAssumption DEF PInv, PairRoundTrip
  <2> HIDE DEF p
  <2>4. PairRoundTrip'
    BY <2>1, <2>2, <2>3 DEF PInv, PairRoundTrip, TypeOK
  <2>5. \A o \in Pairs : PairRow(o) \in Rows \X Rows => revPair'[PairRow(o)] \in {o, NoId}
    BY <2>1, <2>2 DEF PInv, PairKeysKept, PairsApart, TypeOK
  <2> QED BY <2>4, <2>5 DEF PInv, PairKeysKept, PairRow
<1>4. ASSUME NEW i \in Ids, StoreID(i) \/ SimplifiedStoreID(i) PROVE PInv'
  BY <1>1, <1>4 DEF StoreID, SimplifiedStoreID, pairVars
<1>5. ASSUME NEW old \in Rows, NEW new \in BindRows, UpdateVirtualValue(old, new) PROVE PInv'
  BY <1>1, <1>5 DEF UpdateVirtualValue
<1>6. CASE UNCHANGED vars
  BY <1>1, <1>6 DEF vars, pairVars
<1> QED BY <1>2, <1>3, <1>4, <1>5, <1>6 DEF Next

\* The numbers a pair was told lead back to it as long as no hash of another
\* pair and no bind stands in the way of its own (service.go:288).
THEOREM PairRoundTripHolds ==
    ASSUME PairsApart
    PROVE  Spec => []PairRoundTrip
<1>1. Init => PInv
  BY DEF Init, PInv, PairRoundTrip, PairResolves, PairKeysKept
<1>2. TypeOK /\ PInv /\ PairResolves' /\ [Next]_vars => PInv'
  BY PairStep
<1>3. PInv => PairRoundTrip
  BY DEF PInv
<1> QED BY <1>1, <1>2, <1>3, TypeCorrect, PairResolvesHolds, PTL DEF Spec
----------------------------------------------------------------------------------

\* Every request names ids and numbers of the map.
Asked ==
    [ask : {"store", "simplified"}, id : Known]
    \cup [ask : {"storePro"}, pair : Pairs]
    \cup [ask : {"row", "read"}, row : Rows]
    \cup [ask : {"rowPro"}, rows : Rows \X Rows]
    \cup [ask : {"write"}, row : Rows, note : Notes]

NetTypeOK ==
    /\ net \subseteq [n : Nat, by : Handlers, q : Asked]
    /\ calls \in Nat
    /\ config \in [Rows -> Notes \cup {NoId}]
    /\ sure \in [Rows -> Notes \cup {NoId}]

\* What a handler was told is still so, as no number is moved or given anew.
StillTrue ==
    /\ \A t \in told : t[1] \in Ids /\ t[2] \in Rows /\ fwd[t[1]] = t[2]
    /\ \A u \in reached : u[1] \in Ids /\ u[2] \in Rows /\ rev[u[2]] = u[1]

\* While the note of a number is sure nobody's request can change it.
SureKept ==
    \A r \in Rows : sure[r] # NoId =>
        config[r] = sure[r] /\ \A o \in net : o.q.ask = "write" => o.q.row # r

LInv == TypeOK /\ IInv /\ NetTypeOK /\ StillTrue /\ SureKept

LEMMA AskedFacts ==
    ASSUME NEW q \in Asked
    PROVE  /\ q.ask \in {"store", "simplified"} => q.id \in Ids
           /\ q.ask = "storePro" => q.pair \in Pairs
           /\ q.ask \in {"row", "read", "write"} => q.row \in Rows
           /\ q.ask = "write" => q.note \in Notes
  BY KnownAssumption DEF Asked

\* The transactions the owner is asked for change no key that is there.
LEMMA KeysStay ==
    ASSUME CountedApart, LInv, NEW q \in Asked, GetIDHandler(q)
    PROVE  /\ [Next]_vars
           /\ \A i \in Ids : fwd[i] # NoRow => fwd'[i] = fwd[i]
           /\ \A r \in Rows : rev[r] # NoId => rev'[r] = rev[r]
<1> USE DEF LInv
<1> DEFINE Stay == /\ [Next]_vars
                   /\ \A i \in Ids : fwd[i] # NoRow => fwd'[i] = fwd[i]
                   /\ \A r \in Rows : rev[r] # NoId => rev'[r] = rev[r]
<1>1. ASSUME NEW i \in Ids, StoreID(i) PROVE Stay
  <2>1. \A r \in Rows : rev[r] # NoId => rev'[r] = rev[r]
    <3>1. CASE HashIdValue
      BY <1>1, <3>1, HashRowFree DEF StoreID, Free, TypeOK
    <3>2. CASE ~HashIdValue
      BY <1>1, <3>2, RowsAssumption DEF StoreID, IInv, CounterAhead, Free, TypeOK
    <3> QED BY <3>1, <3>2
  <2>2. \A j \in Ids : fwd[j] # NoRow => fwd'[j] = fwd[j]
    BY <1>1 DEF StoreID, TypeOK
  <2> QED BY <1>1, <2>1, <2>2 DEF Next
<1>2. ASSUME NEW i \in Ids, SimplifiedStoreID(i) PROVE Stay
  BY <1>2, HashRowFree DEF SimplifiedStoreID, Free, TypeOK, Next
<1>3. ASSUME NEW p \in Pairs, StoreIDPro(p) PROVE Stay
  BY <1>3 DEF StoreIDPro, singleVars, Next
<1>4. CASE UNCHANGED vars
  BY <1>4 DEF vars
<1> QED
  BY <1>1, <1>2, <1>3, <1>4, AskedFacts
  DEF GetIDHandler, StoreOnce, StorePairOnce, StoreSimplified, RetrieveRowByID,
      RetrieveRowByIDPro, ReadConfig, WriteConfig

\* The same for the owner's notes: only a request to write changes one.
LEMMA NotesStay ==
    ASSUME LInv, NEW q \in Asked, GetIDHandler(q)
    PROVE  /\ config' \in [Rows -> Notes \cup {NoId}]
           /\ \A r \in Rows : config'[r] # config[r] => q.ask = "write" /\ r = q.row
           /\ q.ask = "write" => config'[q.row] = q.note
<1> USE DEF LInv, NetTypeOK
<1>1. CASE WriteConfig(q)
  BY <1>1, AskedFacts DEF WriteConfig
<1>2. CASE config' = config /\ q.ask # "write"
  BY <1>2
<1> QED
  BY <1>1, <1>2
  DEF GetIDHandler, StoreOnce, StorePairOnce, StoreSimplified, RetrieveRowByID,
      RetrieveRowByIDPro, ReadConfig

LEMMA LotusInitInv == LotusInit => LInv
<1> SUFFICES ASSUME LotusInit PROVE LInv
  OBVIOUS
<1>1. TypeOK /\ IInv
  BY RowsAssumption
  DEF LotusInit, Init, TypeOK, IInv, RoundTrip, CounterAhead, Free
<1>2. NetTypeOK /\ StillTrue /\ SureKept
  BY DEF LotusInit, NetTypeOK, StillTrue, SureKept
<1> QED BY <1>1, <1>2 DEF LInv

LEMMA AskInv ==
    ASSUME LInv, NEW h \in Handlers, NEW q \in Questions, Ask(h, q)
    PROVE  LInv'
<1> USE DEF LInv
<1>1. q \in Asked
  <2>1. Numbers \subseteq Rows
    BY DEF Numbers, StillTrue
  <2>2. {fwdPair[p] : p \in Pairs} \ {NoRow} \subseteq Rows \X Rows
    BY DEF TypeOK
  <2> QED BY <2>1, <2>2 DEF Questions, Asked
<1>2. UNCHANGED <<fwd, rev, counter, fwdPair, revPair, config, told, reached>>
  BY DEF Ask, vars
<1>3. TypeOK' /\ IInv' /\ StillTrue'
  BY <1>2 DEF TypeOK, IInv, RoundTrip, CounterAhead, Free, StillTrue
<1> DEFINE new == [n |-> calls', by |-> h, q |-> q]
<1>4. /\ calls' \in Nat /\ net' = net \cup {new} /\ new.q = q
      /\ new \in [n : Nat, by : Handlers, q : Asked]
  BY <1>1 DEF Ask, NetTypeOK
<1> HIDE DEF new
<1>5. /\ sure' \in [Rows -> Notes \cup {NoId}]
      /\ \A r \in Rows : sure'[r] # NoId => sure'[r] = sure[r] /\ ~(q.ask = "write" /\ q.row = r)
  BY <1>1, AskedFacts DEF Ask, NetTypeOK
<1>6. NetTypeOK'
  BY <1>2, <1>4, <1>5 DEF NetTypeOK
<1>7. SureKept'
  BY <1>2, <1>4, <1>5 DEF SureKept
<1> QED BY <1>3, <1>6, <1>7

\* The owner's side of a request, whoever hears the answer.
LEMMA HandledInv ==
    ASSUME CountedApart, LInv, NEW q \in Asked, GetIDHandler(q)
    PROVE  /\ TypeOK' /\ IInv'
           /\ \A t \in told : fwd'[t[1]] = t[2]
           /\ \A u \in reached : rev'[u[2]] = u[1]
<1> USE DEF LInv
<1>1. TypeOK' /\ IInv'
  BY KeysStay, TypeStep, RoundTripStep
<1> QED BY <1>1, KeysStay, AbsentAssumption DEF StillTrue

\* What an answer says is so.
LEMMA LearnInv ==
    ASSUME CountedApart, LInv, NEW c \in net, GetIDHandler(c.q), Learn(c), net' = net \ {c}
    PROVE  StillTrue' /\ SureKept' /\ sure' \in [Rows -> Notes \cup {NoId}]
<1> USE DEF LInv
<1> DEFINE q == c.q
<1>1. q \in Asked
  BY DEF NetTypeOK
<1>2. q.ask = "store" => q.id \in Ids /\ fwd'[q.id] \in Rows
  <2> SUFFICES ASSUME q.ask = "store" PROVE q.id \in Ids /\ fwd'[q.id] \in Rows
    OBVIOUS
  <2>1. q.id \in Ids
    BY <1>1, AskedFacts
  <2>2. StoreOnce(q)
    BY DEF GetIDHandler, StoreOnce, StorePairOnce, StoreSimplified, RetrieveRowByID,
           RetrieveRowByIDPro, ReadConfig, WriteConfig
  <2>3. CASE StoreID(q.id)
    BY <2>1, <2>3, RowsAssumption DEF StoreID, TypeOK
  <2>4. CASE fwd[q.id] # NoRow /\ UNCHANGED vars
    BY <2>1, <2>4 DEF vars, TypeOK
  <2> QED BY <2>1, <2>2, <2>3, <2>4 DEF StoreOnce
<1>3. q.ask = "row" => q.row \in Rows /\ rev[q.row] \in Ids /\ rev'[q.row] = rev[q.row]
  <2> SUFFICES ASSUME q.ask = "row"
               PROVE  q.row \in Rows /\ rev[q.row] \in Ids /\ rev'[q.row] = rev[q.row]
    OBVIOUS
  <2>1. q.row \in Rows
    BY <1>1, AskedFacts
  <2>2. RetrieveRowByID(q)
    BY DEF GetIDHandler, StoreOnce, StorePairOnce, StoreSimplified, RetrieveRowByID,
           RetrieveRowByIDPro, ReadConfig, WriteConfig
  <2> QED BY <2>1, <2>2 DEF RetrieveRowByID, TypeOK, vars
<1>4. StillTrue'
  <2>1. \A t \in told' : \/ t \in told
                         \/ q.ask = "store" /\ t = <<q.id, fwd'[q.id]>>
    BY DEF Learn
  <2>2. \A u \in reached' : \/ u \in reached
                            \/ q.ask = "row" /\ u = <<rev[q.row], q.row>>
    BY DEF Learn
  <2> QED BY <1>1, <1>2, <1>3, <2>1, <2>2, HandledInv DEF StillTrue
<1>5. \/ UNCHANGED sure
      \/ /\ q.ask = "write" /\ Undisputed(c)
         /\ sure' = [sure EXCEPT ![q.row] = q.note]
  BY DEF Learn
<1>6. sure' \in [Rows -> Notes \cup {NoId}]
  BY <1>1, <1>5, AskedFacts DEF NetTypeOK
<1>7. SureKept'
  <2>1. CASE UNCHANGED sure
    BY <1>1, <2>1, NotesStay, AskedFacts DEF SureKept
  <2>2. CASE /\ q.ask = "write" /\ Undisputed(c)
             /\ sure' = [sure EXCEPT ![q.row] = q.note]
    BY <1>1, <2>2, NotesStay, AskedFacts DEF SureKept, Undisputed, NetTypeOK
  <2> QED BY <1>5, <2>1, <2>2
<1> QED BY <1>4, <1>6, <1>7

\* A request that is served for nobody.
LEMMA UnheardInv ==
    ASSUME CountedApart, LInv, NEW c \in net, GetIDHandler(c.q), UNCHANGED learnt,
           net' \subseteq net, calls' = calls
    PROVE  LInv'
<1> USE DEF LInv
<1>1. c.q \in Asked
  BY DEF NetTypeOK
<1>2. TypeOK' /\ IInv' /\ StillTrue'
  BY <1>1, HandledInv DEF StillTrue, learnt
<1>3. NetTypeOK'
  BY <1>1, NotesStay DEF NetTypeOK, learnt
<1>4. SureKept'
  BY <1>1, NotesStay, AskedFacts DEF SureKept, learnt
<1> QED BY <1>2, <1>3, <1>4

\* A request that changes nothing, or nobody will serve.
LEMMA LostInv ==
    ASSUME LInv, UNCHANGED <<vars, config, calls, learnt>>, net' \subseteq net
    PROVE  LInv'
<1>1. UNCHANGED <<fwd, rev, counter, fwdPair, revPair, config, calls, told, reached, sure>>
  BY DEF vars, learnt
<1>2. TypeOK' /\ IInv' /\ StillTrue'
  BY <1>1 DEF LInv, TypeOK, IInv, RoundTrip, CounterAhead, Free, StillTrue
<1>3. NetTypeOK' /\ SureKept'
  BY <1>1 DEF LInv, NetTypeOK, SureKept
<1> QED BY <1>2, <1>3 DEF LInv

LEMMA LotusNextInv ==
    ASSUME CountedApart, LInv, [LotusNext]_lotusVars
    PROVE  LInv'
<1>1. ASSUME NEW h \in Handlers, NEW q \in Questions, Ask(h, q) PROVE LInv'
  BY <1>1, AskInv
<1>2. ASSUME NEW c \in net, Serve(c) PROVE LInv'
  <2>1. CASE GetIDHandler(c.q) /\ Learn(c)
    <3>1. c.q \in Asked /\ net' = net \ {c} /\ calls' = calls
      BY <1>2 DEF Serve, LInv, NetTypeOK
    <3>2. StillTrue' /\ SureKept' /\ sure' \in [Rows -> Notes \cup {NoId}]
      BY <2>1, <3>1, LearnInv
    <3>3. TypeOK' /\ IInv'
      BY <2>1, <3>1, HandledInv
    <3>4. NetTypeOK'
      BY <2>1, <3>1, <3>2, NotesStay DEF NetTypeOK, LInv
    <3> QED BY <3>2, <3>3, <3>4 DEF LInv
  <2>2. CASE GetIDHandler(c.q) /\ UNCHANGED learnt
    BY <1>2, <2>2, UnheardInv DEF Serve
  <2>3. CASE UNCHANGED <<vars, config, learnt>>
    BY <1>2, <2>3, LostInv DEF Serve
  <2> QED BY <1>2, <2>1, <2>2, <2>3 DEF Serve
<1>3. ASSUME NEW c \in net, ServeTwice(c) PROVE LInv'
  BY <1>3, UnheardInv DEF ServeTwice, netState
<1>4. ASSUME NEW c \in net, CallFails(c) PROVE LInv'
  BY <1>4, LostInv DEF CallFails
<1>5. CASE UNCHANGED lotusVars
  BY <1>5, LostInv DEF lotusVars, netState
<1> QED BY <1>1, <1>2, <1>3, <1>4, <1>5 DEF LotusNext

LEMMA LotusAlways ==
    ASSUME CountedApart
    PROVE  LotusSpec => []LInv
<1>1. LInv /\ [LotusNext]_lotusVars => LInv'
  BY LotusNextInv
<1> QED BY <1>1, LotusInitInv, PTL DEF LotusSpec

\* Programs that share a map never disagree about a number, for any number of
\* handlers, requests, repetitions and losses.
THEOREM NumbersAlwaysAgree ==
    ASSUME CountedApart
    PROVE  LotusSpec => []NumbersAgree
<1>1. LInv => NumbersAgree
  <2> SUFFICES ASSUME LInv PROVE NumbersAgree
    OBVIOUS
  <2>1. \A t \in told : rev[t[2]] = t[1]
    BY AbsentAssumption DEF LInv, StillTrue, IInv, RoundTrip
  <2> QED BY <2>1 DEF LInv, StillTrue, NumbersAgree
<1> QED BY <1>1, LotusAlways, PTL

\* A note that was confirmed is there until somebody writes it again.
THEOREM NotesAlwaysKept ==
    ASSUME CountedApart
    PROVE  LotusSpec => []NotesKept
<1>1. LInv => NotesKept
  BY DEF LInv, SureKept, NotesKept
<1> QED BY <1>1, LotusAlways, PTL
------------------------------------------------------------------------------------
\* A command that moves a pair has looked at its words; what another process
\* was asked is what a command asked.
Bound ==
    /\ \A e \in Events : pc[e] = "bindPro" => IdmapPro /\ ~Ignored(e) /\ ~Overruns(e)
    /\ userLate \subseteq Rows \X BindRows
    /\ pairLate \subseteq (Rows \X Rows) \X (Rows \X BindRows)

FCInv == FCTypeOK /\ Bound

LEMMA RequestFacts ==
    /\ \A m \in Requests :
          /\ m.pair \in Pairs /\ m.pair[1] \in Ids /\ m.pair[2] \in Ids
          /\ m.code \in Codes \cup {"none"}
          /\ m.user[1] \in Rows \cup {NoRow} /\ m.user[2] \in BindRows \cup {NoRow}
          /\ m.group[1] \in Rows \cup {NoRow} /\ m.group[2] \in BindRows \cup {NoRow}
    /\ BindRows \subseteq Rows /\ NoRow \notin Rows
  BY RequestsAssumption, PairsAssumption, RowsAssumption, AbsentAssumption DEF RequestOK
---------------------------------------------------------------------------------------
\* A set of numbers has a least one.
LEMMA Least ==
    ASSUME NEW T, T \subseteq Nat, T # {}
    PROVE  \E k \in T : \A l \in T : k <= l
<1> DEFINE R == {ss \in Nat \X Nat : ss[1] < ss[2]}
<1>1. IsWellFoundedOn(R, Nat)
  BY NatLessThanWellFounded DEF OpToRel
<1>2. \E k \in T : \A l \in T : <<l, k>> \notin R
  BY <1>1, WFMin
<1>3. \A k, l \in T : <<l, k>> \notin R => k <= l
  <2> SUFFICES ASSUME NEW k \in T, NEW l \in T, l < k PROVE <<l, k>> \in R
    OBVIOUS
  <2> QED OBVIOUS
<1> QED BY <1>2, <1>3

\* A part of a sequence, which may be empty.
LEMMA Cut ==
    ASSUME NEW S, NEW s \in Seq(S), NEW m \in Int, NEW n \in Int,
           1 <= m, n <= Len(s), m <= n + 1
    PROVE  SubSeq(s, m, n) \in Seq(S) /\ Len(SubSeq(s, m, n)) = n - m + 1
<1>1. \A i \in m..n : s[i] \in S
  OBVIOUS
<1>2. /\ SubSeq(s, m, n) \in Seq(S)
      /\ Len(SubSeq(s, m, n)) = IF m <= n THEN n - m + 1 ELSE 0
  BY <1>1, SubSeqProperties
<1> QED BY <1>2

\* A code that is used up is taken out once.
LEMMA RemoveFirstOne ==
    ASSUME NEW S, NEW s \in Seq(S), NEW c, c \in ToSet(s)
    PROVE  /\ RemoveFirst(s, c) \in Seq(S)
           /\ Len(RemoveFirst(s, c)) = Len(s) - 1
<1> DEFINE I == {i \in 1..Len(s) : s[i] = c}
<1>1. I # {} /\ I \subseteq Nat
  BY DEF ToSet
<1>2. \E k \in I : \A l \in I : k <= l
  BY <1>1, Least
<1> DEFINE k == CHOOSE x \in I : \A y \in I : x =< y
<1>3. k \in I
  BY <1>2, Zenon
<1>4. RemoveFirst(s, c) = SubSeq(s, 1, k - 1) \o SubSeq(s, k + 1, Len(s))
  BY <1>1 DEF RemoveFirst, RemoveAt, SelectInSeq, Min
<1> HIDE DEF k
<1>5. k \in 1..Len(s) /\ Len(s) \in Nat
  BY <1>3
<1> DEFINE front == SubSeq(s, 1, k - 1)
           rest == SubSeq(s, k + 1, Len(s))
<1>6. front \in Seq(S) /\ Len(front) = k - 1
  BY <1>5, Cut
<1>7. rest \in Seq(S) /\ Len(rest) = Len(s) - k
  BY <1>5, Cut
<1>8. RemoveFirst(s, c) = front \o rest
  BY <1>4
<1> HIDE DEF front, rest
<1>9. front \o rest \in Seq(S) /\ Len(front \o rest) = Len(front) + Len(rest)
  BY <1>6, <1>7
<1> QED BY <1>5, <1>6, <1>7, <1>8, <1>9
---------------------------------------------------------------------------------------
\* What moves a pair names four numbers.
LEMMA FromToType ==
    ASSUME FCInv, NEW e \in Events, ~Ignored(e), ~Overruns(e), IdmapPro
    PROVE  FromTo(e)[1] \in Rows \X Rows /\ FromTo(e)[2] \in Rows \X BindRows
<1>1. /\ req[e].user[1] \in Rows /\ req[e].user[2] \in BindRows
      /\ GroupMove(e)[1] # NoRow /\ GroupMove(e)[2] # NoRow
  BY RequestFacts DEF Ignored, Overruns, FCInv, FCTypeOK
<1>2. \A n \in {1, 2} : GroupMove(e)[n] \in Rows \cup {NoRow}
  BY RequestFacts DEF GroupMove, OrDefault, FCInv, FCTypeOK
<1> QED BY <1>1, <1>2, RequestFacts DEF FromTo

\* Every step of commands and late requests is one of the map, or none.
LEMMA MapStep == FCInv /\ [FCNext]_allVars => [Next]_vars
<1> SUFFICES ASSUME FCInv, [FCNext]_allVars PROVE [Next]_vars
  OBVIOUS
<1> USE DEF mapVars
<1>1. CASE Register
  BY <1>1 DEF Register, Next
<1>2. ASSUME NEW e \in Events, Bind(e) PROVE [Next]_vars
  <2>1. CASE UNCHANGED vars
    BY <2>1
  <2>2. CASE ~Ignored(e) /\ UpdateVirtualValue(req[e].user[1], req[e].user[2])
    <3>1. req[e].user[1] \in Rows /\ req[e].user[2] \in BindRows
      BY <2>2, RequestFacts DEF Ignored, FCInv, FCTypeOK
    <3> QED BY <2>2, <3>1 DEF Next
  <2> QED BY <1>2, <2>1, <2>2 DEF Bind
<1>3. ASSUME NEW e \in Events, BindPro(e) PROVE [Next]_vars
  <2>1. FromTo(e)[1] \in Rows \X Rows /\ FromTo(e)[2] \in Rows \X BindRows
    BY <1>3, FromToType DEF BindPro, FCInv, Bound
  <2> QED BY <1>3, <2>1 DEF BindPro, Next
<1>4. ASSUME NEW u \in userLate, ServeUserLate(u) PROVE [Next]_vars
  <2>1. u[1] \in Rows /\ u[2] \in BindRows
    BY DEF FCInv, Bound
  <2> QED BY <1>4, <2>1 DEF ServeUserLate, Next
<1>5. ASSUME NEW u \in pairLate, ServePairLate(u) PROVE [Next]_vars
  <2>1. u[1] \in Rows \X Rows /\ u[2] \in Rows \X BindRows
    BY DEF FCInv, Bound
  <2> QED BY <1>5, <2>1 DEF ServePairLate, Next
<1>6. ASSUME NEW e \in Events,
             \/ Start(e) \/ Lookup(e) \/ LookupPro(e) \/ Me(e) \/ UseCode(e)
             \/ AskBind(e) \/ Chat(e) \/ Report(e)
      PROVE UNCHANGED vars
  BY <1>6 DEF Start, Lookup, LookupPro, Me, UseCode, AskBind, Chat, Report
<1>7. CASE UNCHANGED allVars
  BY <1>7 DEF allVars
<1> QED BY <1>1, <1>2, <1>3, <1>4, <1>5, <1>6, <1>7 DEF FCNext, Command
---------------------------------------------------------------------------------------
LEMMA InitInv == FCInit => FCInv
<1> SUFFICES ASSUME FCInit PROVE FCInv
  OBVIOUS
<1>1. TypeOK
  BY DEF FCInit, Init, TypeOK
<1>2. FCTypeOK
  BY <1>1, SwitchesAssumption DEF FCInit, FCTypeOK
<1> QED BY <1>2 DEF FCInit, FCInv, Bound

Sight(T) == [new : T, group : T, user : T]

LEMMA SightParts ==
    ASSUME NEW T, NEW r \in Sight(T), NEW n \in T, NEW m \in T
    PROVE  /\ [r EXCEPT !.new = n] \in Sight(T)
           /\ [[r EXCEPT !.group = n] EXCEPT !.user = m] \in Sight(T)
<1>1. [r EXCEPT !.new = n] = [new |-> n, group |-> r.group, user |-> r.user]
  BY DEF Sight
<1>2. [[r EXCEPT !.group = n] EXCEPT !.user = m] = [new |-> r.new, group |-> n, user |-> m]
  <2> DEFINE q == [new |-> r.new, group |-> n, user |-> r.user]
  <2>1. [r EXCEPT !.group = n] = q
    BY DEF Sight
  <2>2. [q EXCEPT !.user = m] = [new |-> r.new, group |-> n, user |-> m]
    OBVIOUS
  <2> QED BY <2>1, <2>2, Zenon
<1>3. r.new \in T /\ r.group \in T /\ r.user \in T
  BY DEF Sight
<1>4. [new |-> n, group |-> r.group, user |-> r.user] \in Sight(T)
  BY <1>3 DEF Sight
<1>5. [new |-> r.new, group |-> n, user |-> m] \in Sight(T)
  BY <1>3 DEF Sight
<1> QED BY <1>1, <1>2, <1>4, <1>5

\* What a command reads of its sender's numbers is in the type of seen.
LEMMA SeenType ==
    ASSUME FCInv, NEW e \in Events, Lookup(e) \/ LookupPro(e)
    PROVE  seen' \in [Events -> Sight(Rows \cup {NoRow})]
<1> USE DEF FCInv, FCTypeOK, TypeOK
<1>1. req[e].pair \in Pairs /\ req[e].pair[2] \in Ids
  BY RequestFacts
<1>2. CASE Lookup(e)
  <2>1. CASE seen' = [seen EXCEPT ![e].new = fwd[req[e].pair[2]]]
    <3> DEFINE n == fwd[req[e].pair[2]]
    <3>1. n \in Rows \cup {NoRow}
      BY <1>1
    <3> HIDE DEF n
    <3>2. seen' = [seen EXCEPT ![e].new = n]
      BY <2>1 DEF n
    <3>3. [seen[e] EXCEPT !.new = n] \in Sight(Rows \cup {NoRow})
      <4>1. seen[e] \in Sight(Rows \cup {NoRow})
        BY DEF Sight
      <4> QED BY <3>1, <4>1, SightParts
    <3> QED BY <3>2, <3>3 DEF Sight
  <2>2. CASE UNCHANGED seen
    BY <2>2 DEF Sight
  <2> QED BY <1>2, <2>1, <2>2 DEF Lookup
<1>3. CASE LookupPro(e)
  <2> DEFINE q == fwdPair[req[e].pair]
  <2>1. CASE UNCHANGED seen
    BY <2>1 DEF Sight
  <2>2. CASE /\ q \in Rows \X Rows
             /\ seen' = [seen EXCEPT ![e].group = q[1], ![e].user = q[2]]
    <3>1. q[1] \in Rows /\ q[2] \in Rows
      BY <2>2
    <3> HIDE DEF q
    <3>2. seen' = [seen EXCEPT ![e] = [[seen[e] EXCEPT !.group = q[1]] EXCEPT !.user = q[2]]]
      BY <2>2
    <3>3. [[seen[e] EXCEPT !.group = q[1]] EXCEPT !.user = q[2]] \in Sight(Rows \cup {NoRow})
      <4>1. seen[e] \in Sight(Rows \cup {NoRow})
        BY DEF Sight
      <4> QED BY <3>1, <4>1, SightParts
    <3> QED BY <3>2, <3>3 DEF Sight
  <2> QED BY <1>1, <1>3, <2>1, <2>2 DEF LookupPro
<1> QED BY <1>2, <1>3

\* What changes the codes: none more than was issued.
LEMMA CodesStep ==
    ASSUME FCInv, [FCNext]_allVars
    PROVE  /\ tempCommands' \in Seq(Codes) /\ issued' \in Nat /\ spent' \in Nat
           /\ CodesPaid => CodesPaid'
<1> USE DEF FCInv, FCTypeOK, CodesPaid
<1>1. ASSUME IssueCode, UNCHANGED spent
      PROVE  /\ tempCommands' \in Seq(Codes) /\ issued' \in Nat /\ spent' \in Nat
             /\ CodesPaid => CodesPaid'
  BY <1>1 DEF IssueCode
<1>2. ASSUME NEW c \in ToSet(tempCommands), SpendCode(c), UNCHANGED issued
      PROVE  /\ tempCommands' \in Seq(Codes) /\ issued' \in Nat /\ spent' \in Nat
             /\ CodesPaid => CodesPaid'
  <2>1. /\ tempCommands' \in Seq(Codes) /\ Len(tempCommands') = Len(tempCommands) - 1
        /\ spent' = spent + 1 /\ issued' = issued
        /\ Len(tempCommands) \in Nat
    BY <1>2, RemoveFirstOne DEF SpendCode
  <2> QED BY <2>1
<1>3. CASE UNCHANGED <<tempCommands, issued, spent>>
  BY <1>3
<1>4. ASSUME NEW e \in Events, Start(e) \/ AskBind(e) 
      PROVE  (IssueCode /\ UNCHANGED spent) \/ UNCHANGED <<tempCommands, issued, spent>>
  BY <1>4 DEF Start, AskBind
<1>5. ASSUME NEW e \in Events, UseCode(e)
      PROVE  \/ \E c \in ToSet(tempCommands) : SpendCode(c) /\ UNCHANGED issued
             \/ UNCHANGED <<tempCommands, issued, spent>>
  BY <1>5 DEF UseCode
<1>6. ASSUME NEW e \in Events,
             Lookup(e) \/ LookupPro(e) \/ Me(e) \/ Chat(e) \/ Bind(e) \/ BindPro(e) \/ Report(e)
      PROVE  UNCHANGED <<tempCommands, issued, spent>>
  BY <1>6 DEF Lookup, LookupPro, Me, Chat, Bind, BindPro, Report
<1>7. ASSUME NEW u, ServeUserLate(u) \/ ServePairLate(u)
      PROVE  UNCHANGED <<tempCommands, issued, spent>>
  BY <1>7 DEF ServeUserLate, ServePairLate
<1>8. CASE Register \/ UNCHANGED allVars
  BY <1>8 DEF Register, allVars, cmdVars
<1> QED
  BY <1>1, <1>2, <1>3, <1>4, <1>5, <1>6, <1>7, <1>8 DEF FCNext, Command

\* Where a command goes, and what it leaves alone.
Places == {"start", "lookup", "lookupPro", "choose", "bind", "bindPro", "report", "done", "crashed"}
Replies == {"none", "me", "denied", "error", "success"}

LEMMA ControlStep ==
    ASSUME FCInv, [FCNext]_allVars
    PROVE  pc' \in [Events -> Places] /\ reply' \in [Events -> Replies] /\ UNCHANGED <<req, lotus>>
<1> USE DEF FCInv, FCTypeOK, Goto, Answer, ReturnSilently, Places, Replies, netVars
<1>1. ASSUME NEW e \in Events, Command(e)
      PROVE  pc' \in [Events -> Places] /\ reply' \in [Events -> Replies] /\ UNCHANGED <<req, lotus>>
  <2>1. CASE Start(e) \/ Lookup(e) \/ LookupPro(e)
    BY <2>1 DEF Start, Lookup, LookupPro
  <2>2. CASE Me(e) \/ Chat(e) \/ Report(e)
    BY <2>2 DEF Me, Chat, Report
  <2>3. CASE UseCode(e) \/ AskBind(e)
    BY <2>3 DEF UseCode, AskBind
  <2>4. CASE Bind(e)
    BY <2>4 DEF Bind
  <2>5. CASE BindPro(e)
    BY <2>5 DEF BindPro
  <2> QED BY <1>1, <2>1, <2>2, <2>3, <2>4, <2>5 DEF Command
<1>2. ASSUME NEW u, ServeUserLate(u) \/ ServePairLate(u)
      PROVE  UNCHANGED <<pc, reply, req, lotus>>
  BY <1>2 DEF ServeUserLate, ServePairLate
<1>3. CASE Register \/ UNCHANGED allVars
  BY <1>3 DEF Register, allVars, cmdVars
<1> QED BY <1>1, <1>2, <1>3 DEF FCNext

\* What a bind has checked stays true of its words and numbers.
LEMMA BoundStep ==
    ASSUME FCInv, [FCNext]_allVars
    PROVE  Bound'
<1> USE DEF FCInv, Bound
<1>1. UNCHANGED req /\ pc' \in [Events -> Places]
  BY ControlStep
<1>2. ASSUME NEW e \in Events, seen'[e] = seen[e]
      PROVE  (Ignored(e)' <=> Ignored(e)) /\ (Overruns(e)' <=> Overruns(e))
  BY <1>1, <1>2 DEF Ignored, Overruns, GroupMove
<1>3. ASSUME NEW e \in Events, Bind(e) PROVE Bound'
  <2>1. UNCHANGED seen /\ UNCHANGED pairLate
    BY <1>3 DEF Bind
  <2>2. \A d \in Events : pc'[d] = "bindPro" => IdmapPro /\ ~Ignored(d) /\ ~Overruns(d)
    BY <1>3 DEF Bind, Goto, Answer, ReturnSilently, FCTypeOK
  <2>3. userLate' \subseteq Rows \X BindRows
    <3>1. CASE userLate' = userLate
      BY <3>1
    <3>2. CASE ~Ignored(e) /\ userLate' = userLate \cup {req[e].user}
      <4>1. req[e].user \in Rows \X BindRows
        BY <3>2, RequestFacts, RequestsAssumption DEF Ignored, FCTypeOK, RequestOK
      <4> QED BY <3>2, <4>1
    <3> QED BY <1>3, <3>1, <3>2 DEF Bind, MayStay
  <2> QED BY <2>1, <2>2, <2>3, <1>2
<1>4. ASSUME NEW e \in Events, BindPro(e) PROVE Bound'
  <2>1. UNCHANGED seen /\ UNCHANGED userLate
    BY <1>4 DEF BindPro
  <2>2. \A d \in Events : pc'[d] = "bindPro" => pc[d] = "bindPro"
    BY <1>4 DEF BindPro, Goto, Answer, FCTypeOK
  <2>3. FromTo(e) \in (Rows \X Rows) \X (Rows \X BindRows)
    <3>1. FromTo(e)[1] \in Rows \X Rows /\ FromTo(e)[2] \in Rows \X BindRows
      BY <1>4, FromToType DEF BindPro
    <3>2. FromTo(e) = <<FromTo(e)[1], FromTo(e)[2]>>
      BY DEF FromTo
    <3> QED BY <3>1, <3>2
  <2>4. pairLate' \subseteq (Rows \X Rows) \X (Rows \X BindRows)
    BY <1>4, <2>3 DEF BindPro, MayStay
  <2> QED BY <2>1, <2>2, <2>4, <1>2
<1>5. ASSUME NEW e \in Events, Lookup(e) \/ LookupPro(e) PROVE Bound'
  <2>1. /\ UNCHANGED <<userLate, pairLate>>
        /\ \A d \in Events : pc'[d] = "bindPro" => pc[d] = "bindPro" /\ seen'[d] = seen[d]
    BY <1>5 DEF Lookup, LookupPro, Goto, FCTypeOK, netVars
  <2> QED BY <2>1, <1>2
<1>6. ASSUME NEW e \in Events, Start(e) \/ Me(e) \/ UseCode(e) \/ AskBind(e) \/ Chat(e) \/ Report(e)
      PROVE  Bound'
  <2>1. /\ UNCHANGED <<userLate, pairLate, seen>>
        /\ \A d \in Events : pc'[d] = "bindPro" => pc[d] = "bindPro"
    BY <1>6
    DEF Start, Me, UseCode, AskBind, Chat, Report, Goto, Answer, ReturnSilently, FCTypeOK, netVars
  <2> QED BY <2>1, <1>2
<1>7. ASSUME NEW u, ServeUserLate(u) \/ ServePairLate(u) PROVE Bound'
  <2>1. /\ userLate' \subseteq userLate /\ pairLate' \subseteq pairLate
        /\ UNCHANGED <<pc, seen>>
    BY <1>7 DEF ServeUserLate, ServePairLate
  <2> QED BY <2>1, <1>2
<1>8. CASE Register \/ UNCHANGED allVars
  <2>1. UNCHANGED <<pc, seen, userLate, pairLate>>
    BY <1>8 DEF Register, allVars, cmdVars, netVars
  <2> QED BY <2>1, <1>2
<1> QED BY <1>3, <1>4, <1>5, <1>6, <1>7, <1>8 DEF FCNext, Command

LEMMA SeenStep ==
    ASSUME FCInv, [FCNext]_allVars
    PROVE  seen' \in [Events -> Sight(Rows \cup {NoRow})]
<1>1. \/ UNCHANGED seen
      \/ \E e \in Events : Lookup(e) \/ LookupPro(e)
  BY DEF FCNext, Command, Start, Me, UseCode, AskBind, Chat, Bind, BindPro, Report,
         ServeUserLate, ServePairLate, Register, allVars, cmdVars
<1> QED BY <1>1, SeenType DEF FCInv, FCTypeOK, Sight

LEMMA NextInv == FCInv /\ [FCNext]_allVars => FCInv'
<1> SUFFICES ASSUME FCInv, [FCNext]_allVars PROVE FCInv'
  OBVIOUS
<1>1. TypeOK'
  BY MapStep, TypeStep DEF FCInv, FCTypeOK
<1>2. userLate' \subseteq Rows \X Rows /\ pairLate' \subseteq (Rows \X Rows) \X (Rows \X Rows)
  BY BoundStep, RowsAssumption DEF Bound
<1>3. FCTypeOK'
  BY <1>1, <1>2, ControlStep, SeenStep, CodesStep DEF FCInv, FCTypeOK, Places, Replies, Sight
<1> QED BY <1>3, BoundStep DEF FCInv

LEMMA FCInvAlways == FCSpec => []FCInv
  BY InitInv, NextInv, PTL DEF FCSpec
---------------------------------------------------------------------------------------
\* Every variable of the commands keeps its type, for any commands and numbers.
THEOREM FCTypeCorrect == FCSpec => []FCTypeOK
<1>1. FCInv => FCTypeOK
  BY DEF FCInv
<1> QED BY <1>1, FCInvAlways, PTL

\* A code lets one command through, whatever the interleaving of its issue, its
\* use and other codes that are the same two digits.
THEOREM CodesPaidAlways == FCSpec => []CodesPaid
<1>1. FCInit => CodesPaid
  BY DEF FCInit, CodesPaid
<1>2. FCInv /\ CodesPaid /\ [FCNext]_allVars => CodesPaid'
  BY CodesStep
<1> QED BY <1>1, <1>2, FCInvAlways, PTL DEF FCSpec

\* Commands, and requests of theirs that another process serves too late, do to
\* the map nothing but its transactions.
THEOREM CommandsUseTheMap == FCSpec => Spec
<1>1. FCInit => Init
  BY DEF FCInit
<1> QED BY <1>1, MapStep, FCInvAlways, PTL DEF FCSpec, Spec

\* So a number leads back to its id among commands too, raced or failed half way.
THEOREM RoundTripAmongCommands ==
    ASSUME CountedApart
    PROVE  FCSpec => []RoundTrip
  BY CommandsUseTheMap, RoundTripHolds, PTL

\* And so does a pair of numbers to its pair: nobody becomes unreachable.
THEOREM EverybodyAlwaysReachable ==
    ASSUME CountedApart, PairsApart
    PROVE  FCSpec => []EverybodyReachable
<1>1. RoundTrip /\ PairRoundTrip => EverybodyReachable
  BY DEF EverybodyReachable
<1> QED BY <1>1, CommandsUseTheMap, RoundTripHolds, PairRoundTripHolds, PTL
====================================================================================

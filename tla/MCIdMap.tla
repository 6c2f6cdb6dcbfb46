--------------------------------- MODULE MCIdMap ---------------------------------
(***************************************************************************)
(* IdMap for TLC, with digests chosen so that every branch of the hashed   *)
(* numbers is taken: ann, bob and cat share their first nine digits, cat   *)
(* has no tenth one, and dan's number loses a leading zero.                *)
(***************************************************************************)
EXTENDS LotusMap

Digests == INSTANCE RowId

CONSTANTS ann, bob, cat, dan

MCDigits ==
    [i \in {ann, bob, cat, dan} |->
        CASE i = ann -> <<1, 0, 0, 0, 0, 0, 0, 0, 7, 1, 5>>
          [] i = bob -> <<1, 0, 0, 0, 0, 0, 0, 0, 7, 2>>
          [] i = cat -> <<1, 0, 0, 0, 0, 0, 0, 0, 7>>
          [] i = dan -> <<0, 1, 2, 0, 0, 0, 0, 0, 0, 3>>]

MCHash9 == [i \in Ids |-> Digests!GenerateRowID(MCDigits[i], 9)]
MCHash10 == [i \in Ids |-> Digests!GenerateRowID(MCDigits[i], 10)]

\* Counting up to two; binds name numbers the counter does not reach, one of
\* them a hashed number that SimplifiedStoreID may ask for too.
MCCounterRows == 1..2
MCBindRows == {MCHash10[ann], 200000}
MCRows == (({MCHash9[i] : i \in Ids} \cup {MCHash10[i] : i \in Ids}) \ {NoRow})
          \cup MCCounterRows \cup MCBindRows

\* Two pairs whose ids hash to the same two numbers.
MCCollidingPairs == {<<ann, cat>>, <<cat, ann>>}

\* Either the program works with its own map, or several programs share one.
VARIABLE shared
mcVars == <<lotusVars, shared>>
MCInit == LotusInit /\ shared \in BOOLEAN
MCNext ==
    /\ UNCHANGED shared
    /\ \/ ~shared /\ Next /\ UNCHANGED <<netState, config, learnt>>
       \/ shared /\ LotusNext
MCSpec == MCInit /\ [][MCNext]_mcVars
==================================================================================

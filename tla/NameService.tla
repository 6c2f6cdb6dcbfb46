------------------------------- MODULE NameService -------------------------------
(***************************************************************************)
(* What the id map promises to the OneBot side, forgetting how it is       *)
(* stored: every Discord id gets a virtual number of its own, keeps it     *)
(* until somebody moves it, and two ids never share a number.              *)
(***************************************************************************)
CONSTANTS Ids,      \* Discord ids (users, channels, messages)
          Rows,     \* virtual numbers
          NoRow     \* an id that has no number yet

VARIABLE name       \* the number each id answers to

Used == {name[i] : i \in Ids}

Init == name = [i \in Ids |-> NoRow]

\* An id seen for the first time gets a number nobody answers to.
Register(i, r) ==
    /\ name[i] = NoRow
    /\ r \in Rows \ Used
    /\ name' = [name EXCEPT ![i] = r]

\* A known id is moved to a number nobody answers to.
Rename(i, r) ==
    /\ name[i] # NoRow
    /\ r \in Rows \ Used
    /\ name' = [name EXCEPT ![i] = r]

Next == \E i \in Ids, r \in Rows : Register(i, r) \/ Rename(i, r)

Spec == Init /\ [][Next]_name
==================================================================================

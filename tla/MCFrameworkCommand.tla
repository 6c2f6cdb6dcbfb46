--------------------------- MODULE MCFrameworkCommand ---------------------------
(***************************************************************************)
(* FrameworkCommand for TLC: two users (ann, bob) of a channel (hall) with *)
(* hashed numbers - nine digits each, the same for hall and ann - and the   *)
(* numbers 7 and 8 for bind commands to ask for.                           *)
(***************************************************************************)
EXTENDS FrameworkCommand

CONSTANTS ann, bob, hall, aa

MCPairs == {<<hall, ann>>, <<hall, bob>>}
MCHash9 == [i \in Ids |-> IF i = bob THEN 4 ELSE 1]
MCHash10 == [i \in Ids |-> NoRow]
MCRows == {1, 4, 7, 8}
MCBindRows == {1, 7, 8}
MCNoRows == {}
MCMasters == {ann, 7}

Message(pair, what, code, fields, old, new) ==
    [pair |-> pair, what |-> what, code |-> code, fields |-> fields,
     user |-> <<old, new>>, group |-> <<NoRow, NoRow>>]

Move(pair, old, new) == Message(pair, "bind", "none", 3, old, new)

\* Binds by a master: to a number, to another channel number, with four
\* words, and of somebody else to a number that was hers; by a stranger; a code
\* asked for and used.
MCRequests ==
    {Move(<<hall, ann>>, 1, 7),
     [Move(<<hall, ann>>, 1, 8) EXCEPT !.fields = 5, !.group = <<1, 8>>],
     Message(<<hall, ann>>, "bind", "none", 4, 1, 7),
     Move(<<hall, ann>>, 4, 1),
     Message(<<hall, bob>>, "t", "none", 1, NoRow, NoRow),
     Message(<<hall, bob>>, "code", aa, 3, 4, 7),
     Move(<<hall, bob>>, 4, 7),
     Message(<<hall, bob>>, "me", "none", 1, NoRow, NoRow)}
MCSymmetry == Permutations(Events)
=================================================================================

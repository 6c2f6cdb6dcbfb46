---------------------------------- MODULE RowId ----------------------------------
(***************************************************************************)
(* How idmap/service.go turns a Discord id into a virtual number.  The MD5 *)
(* hash of the id is abstracted to the decimal digits GenerateRowID keeps  *)
(* of it, a sequence over 0..9; a virtual number is what ParseInt makes of *)
(* the first `length' digits, so leading zeros disappear.                  *)
(***************************************************************************)
EXTENDS Naturals, Sequences, SequencesExt

CONSTANT NoRow      \* stands for the error results and the absent keys

\* strconv.ParseInt(digits, 10, 64)
ParseDigits(digits) == FoldLeft(LAMBDA n, d : 10 * n + d, 0, digits)

\* GenerateRowID: the number read off the first `length' digits of the hash,
\* an error when the hash has fewer digits than that.
GenerateRowID(digits, length) ==
    IF Len(digits) >= length THEN ParseDigits(SubSeq(digits, 1, length))
                             ELSE NoRow
==================================================================================

------------------------------ MODULE MCStdin -------------------------------
(* Small instances of Stdin for TLC. *)
EXTENDS Stdin, TLC

\* The empty input, a pair of carriage return and newline between two texts, a
\* lone carriage return before a pair, and a lone newline and a lone carriage
\* return before a line the input ends in.
SmallInputs ==
  LET x == CHOOSE t \in Text : TRUE
  IN  {<<>>, <<x, CR, LF, x>>, <<CR, CR, LF>>, <<LF, CR, x>>}

=============================================================================

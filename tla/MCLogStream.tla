---------------------------- MODULE MCLogStream ----------------------------
(***************************************************************************)
(* LogStream with a header of 2 bytes, 3 for a newline and 4 for a         *)
(* carriage return, frames of at most 4 and tokens of at most 9 bytes.     *)
(***************************************************************************)
EXTENDS LogStream

\* A line that is empty; one whose header has the length 3, which reads as a
\* newline; one that ends in a carriage return; one of two frames, as long as
\* a token may be; and one that is longer.
SomeLines ==
  {<<>>, <<20, 21>>, <<20, 21, 4>>, <<20, 21, 22, 23>>, <<20, 21, 22, 23, 24>>}

=============================================================================

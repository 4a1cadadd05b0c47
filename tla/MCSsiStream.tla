---------------------------- MODULE MCSsiStream ----------------------------
(***************************************************************************)
(* A stream with an empty string, the greatest int, a string with a blank  *)
(* and a digit in it, a negative number: 16 bytes for a buffer of 2.       *)
(***************************************************************************)
EXTENDS SsiStream

MCScript == << [kind |-> "int",    value |-> 12],
               [kind |-> "string", value |-> <<>>],
               [kind |-> "string", value |-> <<" ", "2">>],
               [kind |-> "int",    value |-> -10] >>
=============================================================================

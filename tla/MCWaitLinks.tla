---------------------------- MODULE MCWaitLinks ----------------------------
(***************************************************************************)
(* Three links whose descriptors are not in the order of the list, answers *)
(* of five bytes ("1 2 \n": an int) of which a buffer takes four, and a    *)
(* second of two milliseconds of two microseconds.                         *)
(***************************************************************************)
EXTENDS WaitLinks

MCFd == [i \in Links |-> IF i = 1 THEN 7 ELSE i + 2]
MCAnswer == <<"1", " ", "2", " ", "\n">>
MCTimeouts == {Forever, 0, 3}
=============================================================================

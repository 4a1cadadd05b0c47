------------------------------- MODULE SBuff -------------------------------
(***************************************************************************)
(* The buffered reader of libpolys/reporter/s_buff.cc: one read(2) fills a *)
(* buffer of BuffLen bytes, s_getc hands them out, s_ungetc steps back by  *)
(* one, s_isready looks for a byte that is not white space.  The operators *)
(* work on the record of one s_buff and on what the kernel holds for its   *)
(* file descriptor: SsiStream reads tokens with them, WaitLinks waits.     *)
(***************************************************************************)
EXTENDS Integers, Sequences

CONSTANT BuffLen    \* S_BUFF_LEN

ASSUME BuffLenAssumption == BuffLen \in Nat \ {0}

Digits == {"0", "1", "2", "3", "4", "5", "6", "7", "8", "9"}
White  == {" ", "\n", "NUL", "EOF"}   \* c <= ' ' for a signed char: (char)-1 is too
Letters == {"a", "b"}
Byte   == Digits \union White \union Letters \union {"-"}

(* bp is the position of the byte handed out last, end that of the last    *)
(* byte of the buffer, buff holds the bytes at 0 .. BuffLen - 1.           *)
Buffers == [buff : [0 .. BuffLen - 1 -> Byte], bp : -1 .. BuffLen - 1,
            end : 0 .. BuffLen - 1, is_eof : BOOLEAN]

Cleared == [i \in 0 .. BuffLen - 1 |-> "NUL"]

s_open == [buff |-> Cleared, bp |-> 0, end |-> 0, is_eof |-> FALSE]

(* What the kernel has for the descriptor: the bytes in flight, and        *)
(* whether the other side has closed it.                                   *)
Readable(pipe, closed) == pipe # <<>> \/ closed

Exhausted(F) == F.bp >= F.end

(* s_getc returns at once, or sleeps in read(2).                           *)
CanGet(F, pipe, closed) == ~Exhausted(F) \/ Readable(pipe, closed)

Chunk(pipe) == IF Len(pipe) > BuffLen THEN BuffLen ELSE Len(pipe)

(* Faulty: the end of file is not remembered.                              *)
s_getcForgetsEof(F, pipe) ==
  IF ~Exhausted(F) THEN [F EXCEPT !.bp = @ + 1]
  ELSE IF pipe = <<>> THEN [F EXCEPT !.buff = Cleared]
  ELSE [F EXCEPT !.buff = [i \in 0 .. BuffLen - 1 |->
                             IF i < Chunk(pipe) THEN pipe[i + 1] ELSE "NUL"],
                 !.end = Chunk(pipe) - 1,
                 !.bp  = 0]

s_getc(F, pipe) ==
  IF ~Exhausted(F) THEN [F EXCEPT !.bp = @ + 1]
  ELSE IF pipe = <<>> THEN [F EXCEPT !.buff = Cleared, !.is_eof = TRUE]
  ELSE [F EXCEPT !.buff = [i \in 0 .. BuffLen - 1 |->
                             IF i < Chunk(pipe) THEN pipe[i + 1] ELSE "NUL"],
                 !.end = Chunk(pipe) - 1,
                 !.bp  = 0]

(* Faulty: 0 at the end of the file.                                       *)
GotZeroAtEof(F, pipe) == IF Exhausted(F) /\ pipe = <<>> THEN "NUL"
                         ELSE LET G == s_getc(F, pipe) IN G.buff[G.bp]

(* The byte s_getc returns, and what it leaves in the kernel.              *)
Got(F, pipe) == IF Exhausted(F) /\ pipe = <<>> THEN "EOF"
                ELSE LET G == s_getc(F, pipe) IN G.buff[G.bp]

PipeAfter(F, pipe) == IF Exhausted(F)
                      THEN SubSeq(pipe, Chunk(pipe) + 1, Len(pipe))
                      ELSE pipe

(* Faulty: the byte is put back without a step back.                       *)
s_ungetcInPlace(c, F) == IF F.bp >= 0 THEN [F EXCEPT !.buff[F.bp] = c] ELSE F

s_ungetc(c, F) == IF F.bp >= 0
                  THEN [F EXCEPT !.buff[F.bp] = c, !.bp = @ - 1]
                  ELSE F

(* Faulty: any byte counts, white space too.                               *)
s_isreadyAny(F) == ~Exhausted(F)

(* The last byte of the buffer is never looked at (p < F->end).            *)
s_isready(F) == \E p \in F.bp + 1 .. F.end - 1 : F.buff[p] \notin White

s_iseof(F) == F.is_eof
=============================================================================

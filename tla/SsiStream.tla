----------------------------- MODULE SsiStream -----------------------------
(***************************************************************************)
(* The bytes of an ssi link between the process that writes it and the     *)
(* one that reads it.  The writer sends the items of Script, a byte at a   *)
(* time as far as the reader can tell, and may die at any point; the       *)
(* reader takes them with s_readint and ssiReadString out of an s_buff.    *)
(***************************************************************************)
EXTENDS SBuff

CONSTANTS Script,    \* items: [kind |-> "int" | "string", value |-> number or bytes]
          IntMax,    \* the greatest int
          MayDie     \* whether the writer can die

ASSUME ScriptAssumption ==
  /\ IntMax \in Nat
  /\ DOMAIN Script = 1 .. Len(Script) /\ Len(Script) \in Nat
  /\ \A k \in DOMAIN Script :
       \/ Script[k].kind = "int" /\ Script[k].value \in -IntMax .. IntMax
       \/ Script[k].kind = "string" /\ Script[k].value \in Seq(Byte) /\ Len(Script[k].value) <= IntMax
  /\ MayDie \in BOOLEAN

VARIABLES toSend,   \* bytes the writer has not written
          pipe,     \* bytes written and not read from the descriptor
          dead,     \* the write end is closed
          F,        \* the reader's s_buff
          pc,       \* where the reader is in s_readint or ssiReadString
          item,     \* the item of Script it reads
          r, neg,   \* the number so far and its sign, in s_readint
          part,     \* the bytes of the string so far
          got       \* what it has returned

vars == <<toSend, pipe, dead, F, pc, item, r, neg, part, got>>

-----------------------------------------------------------------------------
(* fprintf's %d, from the quotients of n by the powers of ten.             *)
Digit == <<"0", "1", "2", "3", "4", "5", "6", "7", "8", "9">>

ValueOf == [d \in Digits |-> CHOOSE v \in 0 .. 9 : Digit[v + 1] = d]     \* c - '0'

Quotients(n) == LET q[i \in 0 .. n + 1] == IF i = 0 THEN n ELSE q[i - 1] \div 10
                IN  q

DigitCount(n) == CHOOSE l \in 1 .. n + 1 : /\ Quotients(n)[l] = 0
                                           /\ \A m \in 1 .. l - 1 : Quotients(n)[m] # 0

Decimal(n) == [k \in 1 .. DigitCount(n) |-> Digit[(Quotients(n)[DigitCount(n) - k] % 10) + 1]]

Text(n) == IF n < 0 THEN <<"-">> \o Decimal(-n) ELSE Decimal(n)

(* ssiWriteInt and ssiWriteString.                                         *)
Encoded(it) == IF it.kind = "int" THEN Append(Text(it.value), " ")
               ELSE (Append(Text(Len(it.value)), " ") \o it.value) \o <<" ">>

(* The last n items, and the end of the line.                              *)
LastItems == LET last[n \in 0 .. Len(Script)] ==
                   IF n = 0 THEN <<"\n">>
                   ELSE Encoded(Script[Len(Script) + 1 - n]) \o last[n - 1]
             IN  last

Stream == LastItems[Len(Script)]

Init ==
  /\ toSend = Stream
  /\ pipe = <<>> /\ dead = FALSE
  /\ F = s_open
  /\ pc = "skip" /\ item = 1 /\ r = 0 /\ neg = 1 /\ part = <<>> /\ got = <<>>

-----------------------------------------------------------------------------
(* A fragment of the stream reaches the kernel: stdio flushes whole        *)
(* buffers, a socket delivers any prefix.                                  *)
WriteFragment ==
  /\ ~dead /\ toSend # <<>>
  /\ \E n \in 1 .. Len(toSend) :
       /\ pipe' = pipe \o SubSeq(toSend, 1, n)
       /\ toSend' = SubSeq(toSend, n + 1, Len(toSend))
  /\ UNCHANGED <<dead, F, pc, item, r, neg, part, got>>

WriterDies ==
  /\ MayDie /\ ~dead
  /\ dead' = TRUE
  /\ UNCHANGED <<toSend, pipe, F, pc, item, r, neg, part, got>>

-----------------------------------------------------------------------------
(* One s_getc of the reader; G is the buffer after it and c the byte.      *)
Take(G, c) ==
  /\ item <= Len(Script)
  /\ CanGet(F, pipe, dead)
  /\ G = s_getc(F, pipe) /\ c = Got(F, pipe)
  /\ pipe' = PipeAfter(F, pipe)
  /\ UNCHANGED <<toSend, dead>>

Returned(value) ==
  /\ got' = Append(got, value)
  /\ item' = item + 1
  /\ r' = 0 /\ neg' = 1 /\ part' = <<>>
  /\ pc' = "skip"

(* s_readint skips white space until a byte or the end of file, takes a    *)
(* sign and the digits, and puts the byte after them back.                 *)
SkipWhite ==
  /\ pc = "skip"
  /\ LET G == s_getc(F, pipe)  c == Got(F, pipe) IN
     /\ Take(G, c)
     /\ ~G.is_eof /\ c \in White
     /\ F' = G
     /\ UNCHANGED <<pc, item, r, neg, part, got>>

Sign ==
  /\ pc = "skip"
  /\ LET G == s_getc(F, pipe)  c == Got(F, pipe) IN
     /\ Take(G, c)
     /\ c = "-"
     /\ F' = G
     /\ neg' = -1 /\ pc' = "digits"
     /\ UNCHANGED <<item, r, part, got>>

NextDigit ==
  /\ pc \in {"skip", "digits"}
  /\ LET G == s_getc(F, pipe)  c == Got(F, pipe) IN
     /\ Take(G, c)
     /\ c \in Digits
     /\ F' = G
     /\ r' = r * 10 + ValueOf[c] /\ pc' = "digits"
     /\ UNCHANGED <<item, neg, part, got>>

(* The end of an int: the value itself, or the length of a string.         *)
EndOfInt ==
  /\ pc \in {"skip", "digits"}
  /\ LET G == s_getc(F, pipe)  c == Got(F, pipe) IN
     /\ Take(G, c)
     /\ c \notin Digits
     /\ pc = "skip" => c # "-" /\ (G.is_eof \/ c \notin White)
     /\ F' = s_ungetc(c, G)
     /\ IF Script[item].kind = "int" THEN Returned(r * neg)
        ELSE pc' = "blank" /\ UNCHANGED <<item, r, neg, part, got>>

(* ssiReadString: the blank after the length, then that many bytes.        *)
Blank ==
  /\ pc = "blank"
  /\ LET G == s_getc(F, pipe)  c == Got(F, pipe) IN
     /\ Take(G, c)
     /\ F' = G
     /\ IF r * neg <= 0 THEN Returned(<<>>)
        ELSE pc' = "bytes" /\ UNCHANGED <<item, r, neg, part, got>>

StringByte ==
  /\ pc = "bytes" /\ ~s_iseof(F)
  /\ LET G == s_getc(F, pipe)  c == Got(F, pipe) IN
     /\ Take(G, c)
     /\ F' = G
     /\ IF Len(part) + 1 = r * neg THEN Returned(Append(part, c))
        ELSE part' = Append(part, c) /\ UNCHANGED <<pc, item, r, neg, got>>

StringCut ==
  /\ pc = "bytes" /\ s_iseof(F)
  /\ Returned(part)
  /\ UNCHANGED <<toSend, pipe, dead, F>>

Done == item > Len(Script) /\ UNCHANGED vars

Reader == SkipWhite \/ Sign \/ NextDigit \/ EndOfInt \/ Blank \/ StringByte \/ StringCut

Next == WriteFragment \/ WriterDies \/ Reader \/ Done

Fairness == WF_vars(WriteFragment) /\ WF_vars(Reader)

Spec == Init /\ [][Next]_vars /\ Fairness

-----------------------------------------------------------------------------
TypeOK ==
  /\ toSend \in Seq(Byte) /\ pipe \in Seq(Byte)
  /\ dead \in BOOLEAN
  /\ F \in Buffers
  /\ pc \in {"skip", "digits", "blank", "bytes"}
  /\ item \in 1 .. Len(Script) + 1
  /\ r \in 0 .. IntMax /\ neg \in {1, -1}
  /\ part \in Seq(Byte)
  /\ DOMAIN got = 1 .. item - 1
  /\ \A k \in DOMAIN got : IF Script[k].kind = "int" THEN got[k] \in -IntMax .. IntMax
                           ELSE got[k] \in Seq(Byte)

(* However the kernel cuts the stream and wherever the buffer ends, each   *)
(* item is returned as it was written, unless the reader has met the end   *)
(* of the file: a writer that died in the middle of an item leaves a       *)
(* shorter value that looks like any other, and only the sticky flag       *)
(* is_eof tells.  The buffer keeps its type, and no number on its way      *)
(* leaves the range of int, at the end of file neither.                    *)
IntactUnlessEof ==
  /\ TypeOK
  /\ \A k \in DOMAIN got : got[k] = Script[k].value \/ s_iseof(F)

(* The reader gets through the whole script, by values or by the end of    *)
(* file, and never sleeps for a byte that will not come.                   *)
ReaderFinishes == <>(item > Len(Script))
=============================================================================

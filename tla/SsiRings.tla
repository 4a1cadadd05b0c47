------------------------------ MODULE SsiRings ------------------------------
(***************************************************************************)
(* Which ring a polynomial on an ssi link belongs to.  Its monomials are   *)
(* written bare; both ends keep in d->r the ring of the last one and a     *)
(* ring is written (tag 15) only when it is not that ring.  A client and   *)
(* the Singular it has forked, each with the rings it has in memory, their *)
(* reference counts, its basering, and the link between them.  A ring is   *)
(* its class (what rEqual compares) and an identity in one process.        *)
(***************************************************************************)
EXTENDS Integers, Sequences

CONSTANTS NumRings,     \* declared rings of the client, no two of them rEqual
          Kinds,        \* what is written to a process: subset of {"poly", "ring"}
          FileKinds,    \* what is written to a file: subset of the same
          MaxAhead,     \* requests to a process before an answer is read
          MaxRequests   \* bound

ASSUME RingsAssumption ==
  /\ NumRings \in Nat \ {0}
  /\ Kinds \subseteq {"poly", "ring"} /\ FileKinds \subseteq {"poly", "ring"}
  /\ MaxAhead \in Nat \ {0} /\ MaxRequests \in Nat

Sides   == {"client", "server"}
Classes == 1 .. NumRings     \* rings up to rEqual

VARIABLES file,        \* a file link: what is written is read later, nothing answered
          side,        \* the memory of each process, see Memory
          chan,        \* messages on their way to each process
          asked,       \* requests the client has sent
          answered,    \* requests that are over
          moved        \* history: a setring since the oldest of the others

vars == <<file, side, chan, asked, answered, moved>>

Peer(s) == IF s = "client" THEN "server" ELSE "client"

(* r: the rings by identity, with ref one less than the owners; dr is      *)
(* d->r of the link, cur is currRing, handles the rings with an identifier.*)
Memory == [r : Seq([class : Classes, ref : Int, live : BOOLEAN]),
           dr : Nat, cur : Nat, handles : SUBSET Nat]

Declared == [c \in Classes |-> [class |-> c, ref |-> 0, live |-> TRUE]]

(* The child of a fork has the same rings and a link with no ring.         *)
Init ==
  /\ \E c \in Classes :
       side = [s \in Sides |-> [r |-> Declared, dr |-> 0, cur |-> c, handles |-> Classes]]
  /\ chan = [s \in Sides |-> <<>>]
  /\ asked = 0 /\ answered = 0 /\ file \in BOOLEAN /\ moved = FALSE

-----------------------------------------------------------------------------
Owned(m, i) == [m EXCEPT !.r[i].ref = @ + 1]

rKill(m, i) ==
  IF i = 0 THEN m
  ELSE IF m.r[i].ref <= 0
       THEN [m EXCEPT !.r[i].live = FALSE, !.cur = IF @ = i THEN 0 ELSE @]
       ELSE [m EXCEPT !.r[i].ref = @ - 1]

(* ssiWriteRing: only the basering becomes the ring of the link.           *)
ssiWriteRing(m, i) ==
  IF i = m.cur THEN Owned([rKill(m, m.dr) EXCEPT !.dr = i], i) ELSE Owned(m, i)

Tag(kind, m, i) == <<[kind |-> kind, class |-> m.r[i].class]>>

(* Faulty: a ring is sent only if the link has none.                       *)
ssiWritePolyOnce(m) ==
  IF m.dr = 0
  THEN [mem |-> ssiWriteRing(m, m.cur), out |-> Tag("15", m, m.cur) \o Tag("6", m, m.cur)]
  ELSE [mem |-> m, out |-> Tag("6", m, m.cur)]

(* ssiWrite of a value with the basering: its memory after, what it sends. *)
ssiWritePoly(m) ==
  IF m.dr # m.cur
  THEN [mem |-> ssiWriteRing(m, m.cur), out |-> Tag("15", m, m.cur) \o Tag("6", m, m.cur)]
  ELSE [mem |-> m, out |-> Tag("6", m, m.cur)]

ssiWriteRingCmd(m, i) == [mem |-> ssiWriteRing(m, i), out |-> Tag("5", m, i)]

-----------------------------------------------------------------------------
(* ssiReadRing and ssiSetCurrRing: a new ring object, owned by the value   *)
(* that is read and by the link; by an identifier ssiRing* too if it is    *)
(* not equal to the basering, and then it is the basering.                 *)
Equal(m, i, j) == m.r[i].class = m.r[j].class

(* Faulty: the basering is not changed.                                    *)
ssiReadRingStays(m, c) ==
  [m EXCEPT !.r = Append(@, [class |-> c, ref |-> 1, live |-> TRUE]), !.dr = Len(m.r) + 1]

ssiReadRing(m, c) ==
  LET new == Len(m.r) + 1
      got == [m EXCEPT !.r = Append(@, [class |-> c, ref |-> 1, live |-> TRUE]), !.dr = new]
  IN  IF m.cur # 0 /\ Equal(got, new, m.cur) THEN got
      ELSE [Owned(got, new) EXCEPT !.cur = new, !.handles = @ \union {new}]

(* ssiRead1 of one message: after a tag 15 the next value is read (and the *)
(* first reference to the ring is lost), after a tag 5 the ring is the     *)
(* value, which its user cleans up.                                        *)
ssiRead1(m, msg) ==
  IF msg[1].kind = "6" THEN m
  ELSE IF msg[1].kind = "15" THEN ssiReadRing(m, msg[1].class)
  ELSE LET got == ssiReadRing(m, msg[1].class) IN rKill(got, got.dr)

-----------------------------------------------------------------------------
Running(s) == side[s].cur # 0

Send(s, w) == chan' = [chan EXCEPT ![Peer(s)] = Append(@, w.out)]

Request(kind, i) ==
  /\ Running("client") /\ asked < MaxRequests
  /\ IF file THEN kind \in FileKinds ELSE kind \in Kinds /\ asked - answered < MaxAhead
  /\ kind = "poly" => i = side["client"].cur
  /\ LET m == side["client"]
         w == IF kind = "poly" THEN ssiWritePoly(m) ELSE ssiWriteRingCmd(m, i)
     IN  side' = [side EXCEPT !["client"] = w.mem] /\ Send("client", w)
  /\ asked' = asked + 1 /\ moved' = (moved /\ asked # answered)
  /\ UNCHANGED <<answered, file>>

(* The loop of the child in ssiOpen: ssiRead1, ssiWrite, CleanUp.          *)
Serve ==
  /\ Running("server") /\ chan["server"] # <<>>
  /\ LET msg == Head(chan["server"])
         m == ssiRead1(side["server"], msg)
         w == IF msg[1].kind = "5" THEN ssiWriteRingCmd(m, m.dr) ELSE ssiWritePoly(m)
     IN  IF file
         THEN /\ side' = [side EXCEPT !["server"] = m]
              /\ chan' = [chan EXCEPT !["server"] = Tail(@)]
         ELSE /\ side' = [side EXCEPT !["server"] = w.mem]
              /\ chan' = [chan EXCEPT !["server"] = Tail(@), !["client"] = Append(@, w.out)]
  /\ UNCHANGED <<asked, answered, file, moved>>

ReadAnswer ==
  /\ Running("client") /\ chan["client"] # <<>>
  /\ side' = [side EXCEPT !["client"] = ssiRead1(@, Head(chan["client"]))]
  /\ chan' = [chan EXCEPT !["client"] = Tail(@)]
  /\ answered' = answered + 1
  /\ UNCHANGED <<asked, file, moved>>

(* setring of the client, which may be waiting for an answer; the basering *)
(* it had keeps its identifier.                                            *)
SetBasering(i) ==
  /\ i \in side["client"].handles /\ i # side["client"].cur
  /\ side["client"].r[i].live
  /\ side' = [side EXCEPT !["client"].cur = i]
  /\ moved' = TRUE
  /\ UNCHANGED <<chan, asked, answered, file>>

(* ssiClose of a link to a process gives back the ring of the link, and    *)
(* what is on its way is lost; the next open forks the client as it is.    *)
Close ==
  /\ Running("client") /\ ~file
  /\ LET m == [rKill(side["client"], side["client"].dr) EXCEPT !.dr = 0]
     IN  side' = [s \in Sides |-> m]
  /\ chan' = [s \in Sides |-> <<>>] /\ answered' = asked
  /\ UNCHANGED <<asked, file, moved>>

Next ==
  \/ \E kind \in Kinds \union FileKinds, i \in Classes : Request(kind, i)
  \/ Serve \/ ReadAnswer \/ Close
  \/ \E i \in side["client"].handles : SetBasering(i)

Spec == Init /\ [][Next]_vars

-----------------------------------------------------------------------------
TypeOK ==
  /\ \A s \in Sides : side[s] \in Memory
  /\ \A s \in Sides : \A k \in DOMAIN chan[s] :
        chan[s][k] \in Seq([kind : {"5", "6", "15"}, class : Classes])
  /\ answered \in 0 .. asked /\ asked \in 0 .. MaxRequests
  /\ {file, moved} \subseteq BOOLEAN

(* Every polynomial on its way will be read with a ring equal to the one   *)
(* it was written with.  A message leaves the link with the ring it names; *)
(* one without a ring is read with that of the message before it, or with  *)
(* the one the reader's end of the link has now.                           *)
RingOf(m, i) == IF i = 0 THEN 0 ELSE m.r[i].class

RingBefore(s, k) ==
  IF k > 1 THEN chan[s][k - 1][1].class ELSE RingOf(side[s], side[s].dr)

ReadAsWritten ==
  \A s \in Sides : \A k \in DOMAIN chan[s] :
    LET msg == chan[s][k] IN
    /\ msg[1].kind = "6" => msg[1].class = RingBefore(s, k)
    /\ \A j \in DOMAIN msg : msg[j].class = msg[1].class

(* No ring is freed while an identifier, the basering or the link has it.  *)
NoEarlyFree ==
  \A s \in Sides : \A i \in DOMAIN side[s].r :
    i \in side[s].handles \union {side[s].cur, side[s].dr} => side[s].r[i].live

(* Both ends agree on the ring of every polynomial, and own what they use. *)
RingsSafe == TypeOK /\ ReadAsWritten /\ NoEarlyFree

(* What the client has read is in its basering: the next operation will    *)
(* take the monomials for those of that ring.                              *)
InBasering(m) == m.cur # 0 /\ m.dr # 0 => m.r[m.cur].class = m.r[m.dr].class

(* So it is unless the client changes its basering while it has no answer. *)
AnswerInBasering == [][ReadAnswer /\ ~moved => InBasering(side["client"]')]_vars

(* doc/types.doc: a read of something from another ring than the current   *)
(* one changes the current ring.  It does not for a polynomial that comes  *)
(* without its ring because the link has that ring already.                *)
ReadChangesRing == [][ReadAnswer => InBasering(side["client"]')]_vars
=============================================================================

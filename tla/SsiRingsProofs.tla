--------------------------- MODULE SsiRingsProofs ---------------------------
(***************************************************************************)
(* Theorems about the rings of an ssi link: what both processes own, that  *)
(* an answer is read in the basering unless the client has changed it in   *)
(* the meantime, and, for a client that reads an answer before it sends    *)
(* the next request, that both ends agree on the ring of every polynomial. *)
(***************************************************************************)
EXTENDS SsiRings, SequenceTheorems, TLAPS

Kind(msg)  == msg[1].kind
Class(msg) == msg[1].class

(* A polynomial in the ring of the link, one after its ring, and a ring.   *)
Bare(c)  == <<[kind |-> "6", class |-> c]>>
Named(c) == <<[kind |-> "15", class |-> c], [kind |-> "6", class |-> c]>>
Ring(c)  == <<[kind |-> "5", class |-> c]>>

Messages == {Bare(c) : c \in Classes} \union {Named(c) : c \in Classes}
              \union {Ring(c) : c \in Classes}

(* What a process owns.  The link and an identifier may have the same ring *)
(* object, which then has two owners: so the link gives its share back     *)
(* without freeing the ring.                                               *)
Sound(m) ==
  /\ m \in Memory
  /\ m.cur \in m.handles /\ m.handles \subseteq DOMAIN m.r
  /\ Classes \subseteq m.handles
  /\ m.dr \in DOMAIN m.r \union {0}
  /\ \A i \in m.handles : m.r[i].live /\ m.r[i].ref >= 0
  /\ m.dr # 0 => m.r[m.dr].live /\ m.r[m.dr].ref >= 0
  /\ m.dr \in m.handles => m.r[m.dr].ref >= 1

(* The rings of the link and of the process at one end.                    *)
LinkRing(s) == RingOf(side[s], side[s].dr)
BaseRing(s) == RingOf(side[s], side[s].cur)

ToServer == chan["server"]
ToClient == chan["client"]

(* A request is on its way to the server, or its answer to the client.     *)
CountInv ==
  /\ asked \in 0 .. MaxRequests /\ answered \in Nat
  /\ file => answered = 0 /\ ToClient = <<>> /\ Len(ToServer) <= asked
  /\ ~file => asked = answered + Len(ToServer) + Len(ToClient)

MemoryInv ==
  /\ file \in BOOLEAN /\ moved \in BOOLEAN
  /\ side = [s \in Sides |-> side[s]] /\ chan = [s \in Sides |-> chan[s]]
  /\ \A s \in Sides : Sound(side[s])
  /\ ToServer \in Seq(Messages) /\ ToClient \in Seq(Messages)

(* The server is in the ring of the link, and so is the client while a     *)
(* polynomial of it has no answer yet, if it has not left the ring.        *)
BaseringInv ==
  /\ LinkRing("server") \in {0, BaseRing("server")}
  /\ ~file /\ ~moved =>
       /\ \A k \in 1 .. Len(ToServer) :
            Kind(ToServer[k]) # "5" => LinkRing("client") = BaseRing("client")
       /\ \A k \in 1 .. Len(ToClient) :
            Kind(ToClient[k]) # "5" => LinkRing("client") = BaseRing("client")

BInv == CountInv /\ MemoryInv /\ BaseringInv

(* A file is written from one ring to the next, as the reader will follow. *)
Before(k) == IF k > 1 THEN Class(ToServer[k - 1]) ELSE LinkRing("server")

FileInv ==
  file =>
    /\ \A k \in 1 .. Len(ToServer) :
         /\ Kind(ToServer[k]) # "5"
         /\ Kind(ToServer[k]) = "6" => Class(ToServer[k]) = Before(k)
    /\ Before(Len(ToServer) + 1) = LinkRing("client")

(* A polynomial on its way is of the client's ring of the link, and the    *)
(* only message.  The server comes to its ring with it, and the ends agree *)
(* when nothing is on its way.                                             *)
InTurn(msg) == Kind(msg) # "5" => Class(msg) = LinkRing("client")

ProcessInv ==
  ~file =>
    /\ Len(ToServer) + Len(ToClient) <= 1
    /\ \A k \in 1 .. Len(ToServer) : InTurn(ToServer[k])
    /\ \A k \in 1 .. Len(ToClient) : InTurn(ToClient[k])
    /\ ToServer # <<>> /\ Kind(ToServer[1]) = "6"
         => Class(ToServer[1]) = LinkRing("server")
    /\ ToClient # <<>> => Class(ToClient[Len(ToClient)]) = LinkRing("server")
    /\ ToServer = <<>> /\ ToClient = <<>>
         => LinkRing("server") = LinkRing("client")

Agree == FileInv /\ ProcessInv
RInv  == BInv /\ Agree

(* Nothing is written ahead of an answer, and no ring as a value to a file. *)
RingsAlone == MaxAhead = 1 /\ "ring" \notin FileKinds

-----------------------------------------------------------------------------
(* Lemmas about the operators of the link.                                 *)

RingObject == [class : Classes, ref : Int, live : BOOLEAN]

(* A memory is its four parts, and the rings are those of 1 to their number. *)
LEMMA MemoryFacts ==
  ASSUME NEW m \in Memory
  PROVE  /\ m.r \in Seq(RingObject) /\ m.dr \in Nat /\ m.cur \in Nat
         /\ m.handles \in SUBSET Nat
         /\ Len(m.r) \in Nat /\ DOMAIN m.r = 1 .. Len(m.r)
         /\ \A i \in DOMAIN m.r :
              /\ m.r[i] \in RingObject
              /\ m.r[i].class \in Classes /\ m.r[i].ref \in Int /\ m.r[i].live \in BOOLEAN
              /\ RingOf(m, i) = m.r[i].class
         /\ 0 \notin DOMAIN m.r /\ RingOf(m, 0) = 0 /\ 0 \notin Classes
<1>1. m.r \in Seq(RingObject) /\ m.dr \in Nat /\ m.cur \in Nat /\ m.handles \in SUBSET Nat
  BY DEF Memory, RingObject
<1>2. Len(m.r) \in Nat /\ DOMAIN m.r = 1 .. Len(m.r)
  BY <1>1, LenProperties
<1>3. \A i \in DOMAIN m.r : m.r[i] \in RingObject
  BY <1>1, <1>2, ElementOfSeq
<1>4. 0 \notin Classes /\ 0 \notin DOMAIN m.r
  BY <1>2, RingsAssumption DEF Classes
<1> QED
  BY <1>1, <1>2, <1>3, <1>4 DEF RingObject, RingOf

(* A ring object is replaced by another of the same class.                 *)
LEMMA ReplacedRing ==
  ASSUME NEW m \in Memory, NEW i \in DOMAIN m.r, NEW o \in RingObject,
         NEW w, w.r = [m.r EXCEPT ![i] = o], w \in [r : {w.r}, dr : Nat, cur : Nat, handles : SUBSET Nat]
  PROVE  /\ w \in Memory /\ DOMAIN w.r = DOMAIN m.r
         /\ \A j \in DOMAIN m.r : w.r[j] = IF j = i THEN o ELSE m.r[j]
<1>1. m.r \in Seq(RingObject) /\ DOMAIN m.r = 1 .. Len(m.r)
  BY MemoryFacts
<1>2. /\ w.r \in Seq(RingObject) /\ Len(w.r) = Len(m.r)
      /\ \A j \in 1 .. Len(m.r) : w.r[j] = IF j = i THEN o ELSE m.r[j]
  BY <1>1, ExceptSeq
<1>3. w \in Memory
  BY <1>2 DEF Memory, RingObject
<1> QED
  BY <1>1, <1>2, <1>3, LenProperties

(* One more owner of a ring.                                               *)
LEMMA OwnedFacts ==
  ASSUME NEW m \in Memory, NEW i \in DOMAIN m.r, NEW w, w = Owned(m, i)
  PROVE  /\ w \in Memory /\ w.dr = m.dr /\ w.cur = m.cur /\ w.handles = m.handles
         /\ DOMAIN w.r = DOMAIN m.r
         /\ \A j \in DOMAIN m.r :
              /\ w.r[j].class = m.r[j].class /\ w.r[j].live = m.r[j].live
              /\ w.r[j].ref = IF j = i THEN m.r[i].ref + 1 ELSE m.r[j].ref
<1> DEFINE o == [m.r[i] EXCEPT !.ref = @ + 1]
<1>1. m.r[i] \in RingObject
  BY MemoryFacts
<1>2. o \in RingObject /\ o.class = m.r[i].class /\ o.live = m.r[i].live /\ o.ref = m.r[i].ref + 1
  BY <1>1 DEF RingObject
<1>3. /\ w.r = [m.r EXCEPT ![i] = o] /\ w.dr = m.dr /\ w.cur = m.cur /\ w.handles = m.handles
      /\ w \in [r : {w.r}, dr : Nat, cur : Nat, handles : SUBSET Nat]
  BY DEF Owned, Memory
<1> HIDE DEF o
<1>4. /\ w \in Memory /\ DOMAIN w.r = DOMAIN m.r
      /\ \A j \in DOMAIN m.r : w.r[j] = IF j = i THEN o ELSE m.r[j]
  BY <1>2, <1>3, ReplacedRing
<1> QED
  BY <1>2, <1>3, <1>4

(* One owner less: the ring is freed, and no basering any more, only by    *)
(* its last.                                                               *)
LEMMA KillFacts ==
  ASSUME NEW m \in Memory, NEW i \in DOMAIN m.r \union {0}, NEW w, w = rKill(m, i)
  PROVE  /\ w \in Memory /\ w.dr = m.dr /\ w.handles = m.handles
         /\ DOMAIN w.r = DOMAIN m.r
         /\ \A j \in DOMAIN m.r : w.r[j].class = m.r[j].class
         /\ \A j \in DOMAIN m.r \ {i} : w.r[j] = m.r[j]
         /\ m.cur # i => w.cur = m.cur
         /\ i # 0 /\ m.r[i].ref >= 1 => /\ w.cur = m.cur
                                        /\ w.r[i].ref = m.r[i].ref - 1
                                        /\ w.r[i].live = m.r[i].live
<1>1. CASE i = 0
  BY <1>1, MemoryFacts DEF rKill
<1>2. CASE i \in DOMAIN m.r /\ m.r[i].ref <= 0
  <2> DEFINE o == [m.r[i] EXCEPT !.live = FALSE]
  <2>1. m.r[i] \in RingObject /\ i # 0
    BY <1>2, MemoryFacts
  <2>2. o \in RingObject /\ o.class = m.r[i].class
    BY <2>1 DEF RingObject
  <2>6. m.r[i].ref \in Int /\ ~(m.r[i].ref >= 1)
    BY <2>1, <1>2 DEF RingObject
  <2>3. w = [[m EXCEPT !.r[i].live = FALSE] EXCEPT !.cur = IF @ = i THEN 0 ELSE @]
    BY <2>1, <1>2 DEF rKill
  <2>4. /\ w.r = [m.r EXCEPT ![i] = o] /\ w.dr = m.dr /\ w.handles = m.handles
        /\ w.cur = IF m.cur = i THEN 0 ELSE m.cur
    BY <2>3 DEF Memory
  <2>7. w \in [r : {w.r}, dr : Nat, cur : Nat, handles : SUBSET Nat]
    <3>2. w.cur \in Nat /\ w.dr \in Nat /\ w.handles \in SUBSET Nat
      BY <2>4, MemoryFacts
    <3>3. w = [r |-> w.r, dr |-> w.dr, cur |-> w.cur, handles |-> w.handles]
      BY <2>3 DEF Memory
    <3> QED
      BY <3>2, <3>3
  <2> HIDE DEF o
  <2>5. /\ w \in Memory /\ DOMAIN w.r = DOMAIN m.r
        /\ \A j \in DOMAIN m.r : w.r[j] = IF j = i THEN o ELSE m.r[j]
    BY <2>2, <2>4, <2>7, <1>2, ReplacedRing
  <2> QED
    BY <2>2, <2>4, <2>5, <2>6
<1>3. CASE i \in DOMAIN m.r /\ ~(m.r[i].ref <= 0)
  <2> DEFINE o == [m.r[i] EXCEPT !.ref = @ - 1]
  <2>1. m.r[i] \in RingObject /\ i # 0
    BY <1>3, MemoryFacts
  <2>2. o \in RingObject /\ o.class = m.r[i].class /\ o.live = m.r[i].live /\ o.ref = m.r[i].ref - 1
    BY <2>1, <1>3 DEF RingObject
  <2>3. w = [m EXCEPT !.r[i].ref = @ - 1]
    BY <2>1, <1>3 DEF rKill
  <2>4. /\ w.r = [m.r EXCEPT ![i] = o] /\ w.dr = m.dr /\ w.cur = m.cur /\ w.handles = m.handles
        /\ w \in [r : {w.r}, dr : Nat, cur : Nat, handles : SUBSET Nat]
    BY <2>3 DEF Memory
  <2> HIDE DEF o
  <2>5. /\ w \in Memory /\ DOMAIN w.r = DOMAIN m.r
        /\ \A j \in DOMAIN m.r : w.r[j] = IF j = i THEN o ELSE m.r[j]
    BY <2>2, <2>4, <1>3, ReplacedRing
  <2> QED
    BY <2>2, <2>4, <2>5
<1> QED
  BY <1>1, <1>2, <1>3

(* The same rings by identity, each of the class it had.                   *)
SameClasses(m, w) ==
  /\ DOMAIN w.r = DOMAIN m.r
  /\ \A j \in DOMAIN m.r : w.r[j].class = m.r[j].class

(* Rings that keep their classes are the same to both ends.                *)
LEMMA SameRing ==
  ASSUME NEW m \in Memory, NEW w \in Memory, SameClasses(m, w)
  PROVE  \A j \in DOMAIN m.r \union {0} : RingOf(w, j) = RingOf(m, j)
<1>1. \A j \in DOMAIN m.r : RingOf(w, j) = RingOf(m, j)
  BY MemoryFacts DEF SameClasses
<1> QED
  BY <1>1 DEF RingOf

(* The ring of a link or a process is of a class the other side knows.     *)
LEMMA SoundRings ==
  ASSUME NEW m, Sound(m)
  PROVE  /\ m \in Memory /\ m.cur \in DOMAIN m.r /\ m.cur # 0
         /\ RingOf(m, m.cur) \in Classes
         /\ RingOf(m, m.dr) \in Classes \union {0}
         /\ m.dr # 0 <=> RingOf(m, m.dr) \in Classes
<1>1. m \in Memory /\ m.cur \in DOMAIN m.r /\ m.dr \in DOMAIN m.r \union {0}
  BY DEF Sound
<1> QED
  BY <1>1, MemoryFacts

(* The link gives back its ring: that of no identifier is freed.           *)
LEMMA GiveBack ==
  ASSUME NEW m, Sound(m), NEW k, k = rKill(m, m.dr)
  PROVE  /\ k \in Memory /\ k.handles = m.handles /\ k.cur = m.cur
         /\ DOMAIN k.r = DOMAIN m.r
         /\ \A j \in DOMAIN m.r : k.r[j].class = m.r[j].class
         /\ \A j \in DOMAIN m.r \ {m.dr} : k.r[j] = m.r[j]
         /\ \A j \in m.handles : k.r[j].live /\ k.r[j].ref >= 0
<1>1. m \in Memory /\ m.dr \in DOMAIN m.r \union {0}
  BY DEF Sound
<1>2. /\ k \in Memory /\ k.handles = m.handles /\ DOMAIN k.r = DOMAIN m.r
      /\ \A j \in DOMAIN m.r : k.r[j].class = m.r[j].class
      /\ \A j \in DOMAIN m.r \ {m.dr} : k.r[j] = m.r[j]
      /\ m.cur # m.dr => k.cur = m.cur
      /\ m.dr # 0 /\ m.r[m.dr].ref >= 1 => /\ k.cur = m.cur
                                           /\ k.r[m.dr].ref = m.r[m.dr].ref - 1
                                           /\ k.r[m.dr].live = m.r[m.dr].live
  BY <1>1, KillFacts
<1>3. m.dr \in m.handles => m.dr # 0 /\ m.r[m.dr].ref >= 1 /\ m.r[m.dr].ref \in Int
  BY <1>1, MemoryFacts DEF Sound
<1>4. k.cur = m.cur
  BY <1>2, <1>3 DEF Sound
<1>5. ASSUME NEW j \in m.handles PROVE k.r[j].live /\ k.r[j].ref >= 0
  <2>1. CASE j = m.dr
    BY <2>1, <1>2, <1>3 DEF Sound
  <2>2. CASE j # m.dr
    BY <2>2, <1>2 DEF Sound
  <2> QED
    BY <2>1, <2>2
<1> QED
  BY <1>2, <1>4, <1>5

(* Closing the link: it has no ring.                                       *)
LEMMA CloseLink ==
  ASSUME NEW m, Sound(m), NEW w, w = [rKill(m, m.dr) EXCEPT !.dr = 0]
  PROVE  Sound(w) /\ w.dr = 0 /\ w.cur = m.cur
<1>1. PICK k : k = rKill(m, m.dr)
  OBVIOUS
<1>2. /\ k \in Memory /\ k.handles = m.handles /\ k.cur = m.cur
      /\ DOMAIN k.r = DOMAIN m.r
      /\ \A j \in m.handles : k.r[j].live /\ k.r[j].ref >= 0
  BY <1>1, GiveBack
<1>3. /\ w \in Memory /\ w.dr = 0 /\ w.cur = k.cur /\ w.handles = k.handles /\ w.r = k.r
  BY <1>1, <1>2 DEF Memory
<1>4. 0 \notin m.handles
  BY MemoryFacts DEF Sound
<1> QED
  BY <1>2, <1>3, <1>4 DEF Sound

(* Writing a ring: the link takes it if it is the basering, and nothing a  *)
(* process owns is freed.                                                  *)
LEMMA WriteRing ==
  ASSUME NEW m, Sound(m), NEW i \in DOMAIN m.r, m.r[i].live, m.r[i].ref >= 0,
         NEW w, w = ssiWriteRing(m, i)
  PROVE  /\ Sound(w) /\ SameClasses(m, w)
         /\ w.cur = m.cur /\ w.handles = m.handles
         /\ w.dr = IF i = m.cur THEN i ELSE m.dr
<1>1. m \in Memory /\ i # 0
  BY MemoryFacts DEF Sound
<1>2. CASE i = m.cur
  <2>1. PICK k : k = rKill(m, m.dr)
    OBVIOUS
  <2>2. PICK l : l = [k EXCEPT !.dr = i]
    OBVIOUS
  <2>3. /\ k \in Memory /\ k.handles = m.handles /\ k.cur = m.cur
        /\ DOMAIN k.r = DOMAIN m.r
        /\ \A j \in DOMAIN m.r : k.r[j].class = m.r[j].class
        /\ \A j \in DOMAIN m.r \ {m.dr} : k.r[j] = m.r[j]
        /\ \A j \in m.handles : k.r[j].live /\ k.r[j].ref >= 0
    BY <2>1, GiveBack
  <2>4. /\ l \in Memory /\ l.dr = i /\ l.cur = k.cur /\ l.handles = k.handles /\ l.r = k.r
    <3>1. i \in Nat
      BY <1>1, MemoryFacts
    <3> QED
      BY <2>2, <2>3, <3>1 DEF Memory
  <2>5. w = Owned(l, i)
    BY <1>2, <2>1, <2>2 DEF ssiWriteRing
  <2>6. /\ w \in Memory /\ w.dr = i /\ w.cur = l.cur /\ w.handles = l.handles
        /\ DOMAIN w.r = DOMAIN m.r
        /\ \A j \in DOMAIN m.r :
             /\ w.r[j].class = k.r[j].class /\ w.r[j].live = k.r[j].live
             /\ w.r[j].ref = IF j = i THEN k.r[i].ref + 1 ELSE k.r[j].ref
    BY <2>3, <2>4, <2>5, OwnedFacts
  <2>8. \A j \in DOMAIN m.r : k.r[j].ref \in Int
    BY <2>3, MemoryFacts
  <2>9. \A j \in m.handles : w.r[j].live /\ w.r[j].ref >= 0 /\ (j = i => w.r[j].ref >= 1)
    BY <2>3, <2>6, <2>8 DEF Sound
  <2>10. Sound(w)
    BY <2>3, <2>4, <2>6, <2>9, <1>2 DEF Sound
  <2> QED
    BY <2>3, <2>4, <2>6, <2>10, <1>2 DEF SameClasses
<1>3. CASE i # m.cur
  <2>1. w = Owned(m, i)
    BY <1>3 DEF ssiWriteRing
  <2>2. /\ w \in Memory /\ w.dr = m.dr /\ w.cur = m.cur /\ w.handles = m.handles
        /\ DOMAIN w.r = DOMAIN m.r
        /\ \A j \in DOMAIN m.r :
             /\ w.r[j].class = m.r[j].class /\ w.r[j].live = m.r[j].live
             /\ w.r[j].ref = IF j = i THEN m.r[i].ref + 1 ELSE m.r[j].ref
    BY <2>1, <1>1, OwnedFacts
  <2>3. \A j \in DOMAIN m.r : m.r[j].ref \in Int /\ w.r[j].ref >= m.r[j].ref
    <3>1. \A j \in DOMAIN m.r : m.r[j].ref \in Int
      BY <1>1, MemoryFacts
    <3> QED
      BY <2>2, <3>1
  <2>4. \A j \in DOMAIN m.r : /\ m.r[j].ref >= 0 => w.r[j].ref >= 0
                              /\ m.r[j].ref >= 1 => w.r[j].ref >= 1
    BY <2>3, <2>2
  <2>5. Sound(w)
    BY <2>2, <2>4 DEF Sound
  <2> QED
    BY <2>2, <2>5, <1>3 DEF SameClasses
<1> QED
  BY <1>2, <1>3

(* Two messages written one after the other are a pair.                    *)
LEMMA PairOf ==
  ASSUME NEW a, NEW b
  PROVE  <<a>> \o <<b>> = <<a, b>>
<1> DEFINE S == {a, b}
           p == <<a>>
           q == <<b>>
           t == <<a, b>>
<1>1. p \in Seq(S) /\ Len(p) = 1 /\ p[1] = a
  OBVIOUS
<1>2. q \in Seq(S) /\ Len(q) = 1 /\ q[1] = b
  OBVIOUS
<1>3. t \in Seq(S) /\ Len(t) = 2 /\ t[1] = a /\ t[2] = b
  OBVIOUS
<1> HIDE DEF p, q, t, S
<1>4. p \o q \in Seq(S) /\ Len(p \o q) = 2 /\ (p \o q)[1] = a /\ (p \o q)[2] = b
  BY <1>1, <1>2, ConcatProperties
<1>5. p \o q = t
  BY <1>3, <1>4, SeqEqual
<1> QED
  BY <1>5 DEF p, q, t

(* Writing a polynomial: it is in the ring of the link then.               *)
LEMMA WritePoly ==
  ASSUME NEW m, Sound(m), NEW w, w = ssiWritePoly(m)
  PROVE  /\ Sound(w.mem) /\ SameClasses(m, w.mem)
         /\ w.mem.cur = m.cur /\ w.mem.handles = m.handles
         /\ RingOf(w.mem, w.mem.cur) = RingOf(m, m.cur)
         /\ RingOf(w.mem, w.mem.dr) = RingOf(m, m.cur)
         /\ w.out = IF m.dr # m.cur THEN Named(RingOf(m, m.cur)) ELSE Bare(RingOf(m, m.cur))
<1>1. m \in Memory /\ m.cur \in DOMAIN m.r /\ m.cur # 0 /\ m.cur \in m.handles
  BY SoundRings DEF Sound
<1>2. Tag("6", m, m.cur) = Bare(RingOf(m, m.cur))
  BY <1>1 DEF Tag, Bare, RingOf
<1>3. Tag("15", m, m.cur) \o Tag("6", m, m.cur) = Named(RingOf(m, m.cur))
  BY <1>1, PairOf DEF Tag, Named, RingOf
<1>4. CASE m.dr # m.cur
  <2>1. w.mem = ssiWriteRing(m, m.cur) /\ w.out = Named(RingOf(m, m.cur))
    BY <1>3, <1>4 DEF ssiWritePoly
  <2>2. /\ Sound(w.mem) /\ SameClasses(m, w.mem)
        /\ w.mem.cur = m.cur /\ w.mem.handles = m.handles /\ w.mem.dr = m.cur
    BY <2>1, <1>1, WriteRing DEF Sound
  <2>3. RingOf(w.mem, m.cur) = RingOf(m, m.cur)
    BY <2>2, <1>1, SameRing, SoundRings
  <2> QED
    BY <2>1, <2>2, <2>3, <1>4
<1>5. CASE m.dr = m.cur
  <2>1. w.mem = m /\ w.out = Bare(RingOf(m, m.cur))
    BY <1>2, <1>5 DEF ssiWritePoly
  <2> QED
    BY <2>1, <1>5 DEF SameClasses
<1> QED
  BY <1>4, <1>5

(* Writing a ring as a value.                                              *)
LEMMA WriteValue ==
  ASSUME NEW m, Sound(m), NEW i \in DOMAIN m.r, m.r[i].live, m.r[i].ref >= 0,
         NEW w, w = ssiWriteRingCmd(m, i)
  PROVE  /\ Sound(w.mem) /\ w.mem.cur = m.cur /\ w.mem.handles = m.handles
         /\ RingOf(w.mem, w.mem.cur) = RingOf(m, m.cur)
         /\ RingOf(w.mem, w.mem.dr) = IF i = m.cur THEN RingOf(m, i) ELSE RingOf(m, m.dr)
         /\ w.out = Ring(RingOf(m, i)) /\ RingOf(m, i) \in Classes
<1>1. m \in Memory /\ m.cur \in DOMAIN m.r /\ m.dr \in DOMAIN m.r \union {0}
  BY SoundRings DEF Sound
<1>2. w.mem = ssiWriteRing(m, i) /\ w.out = Tag("5", m, i)
  BY DEF ssiWriteRingCmd
<1>3. /\ Sound(w.mem) /\ SameClasses(m, w.mem)
      /\ w.mem.cur = m.cur /\ w.mem.handles = m.handles
      /\ w.mem.dr = IF i = m.cur THEN i ELSE m.dr
  BY <1>2, WriteRing
<1>4. \A j \in DOMAIN m.r \union {0} : RingOf(w.mem, j) = RingOf(m, j)
  BY <1>1, <1>3, SameRing, SoundRings
<1>5. i # 0 /\ RingOf(m, i) = m.r[i].class /\ RingOf(m, i) \in Classes
  BY <1>1, MemoryFacts
<1>6. w.out = Ring(RingOf(m, i))
  BY <1>2, <1>5 DEF Tag, Ring
<1> QED
  BY <1>1, <1>3, <1>4, <1>5, <1>6

(* Reading a ring: it is that of the link, and equal to the basering.      *)
LEMMA ReadRing ==
  ASSUME NEW m, Sound(m), NEW c \in Classes, NEW w, w = ssiReadRing(m, c)
  PROVE  /\ Sound(w) /\ w.dr \in DOMAIN w.r /\ w.r[w.dr].ref >= 1
         /\ w.dr \in w.handles => w.r[w.dr].ref >= 2
         /\ RingOf(w, w.dr) = c /\ RingOf(w, w.cur) = c
<1> DEFINE o == [class |-> c, ref |-> 1, live |-> TRUE]
           new == Len(m.r) + 1
<1>1. PICK got : got = [m EXCEPT !.r = Append(@, o), !.dr = new]
  OBVIOUS
<1>2. m \in Memory /\ m.cur \in DOMAIN m.r /\ m.cur # 0
  BY SoundRings
<1>3. m.r \in Seq(RingObject) /\ DOMAIN m.r = 1 .. Len(m.r) /\ Len(m.r) \in Nat
  BY <1>2, MemoryFacts
<1>4. o \in RingObject /\ o.class = c /\ o.ref = 1 /\ o.live
  BY DEF RingObject
<1>5. w = IF Equal(got, new, m.cur) THEN got
          ELSE [Owned(got, new) EXCEPT !.cur = new, !.handles = @ \union {new}]
  BY <1>1, <1>2 DEF ssiReadRing
<1> HIDE DEF o
<1>6. /\ got.r = Append(m.r, o) /\ got.dr = new /\ got.cur = m.cur /\ got.handles = m.handles
      /\ got = [r |-> got.r, dr |-> new, cur |-> m.cur, handles |-> m.handles]
  BY <1>1, <1>2 DEF Memory
<1>7. /\ got.r \in Seq(RingObject) /\ Len(got.r) = new
      /\ \A j \in 1 .. Len(m.r) : got.r[j] = m.r[j]
      /\ got.r[new] = o
  BY <1>3, <1>4, <1>6, AppendProperties
<1>8. got \in Memory
  <2>1. m.cur \in Nat /\ m.handles \in SUBSET Nat /\ new \in Nat
    BY <1>2, <1>3, MemoryFacts
  <2> QED
    BY <2>1, <1>6, <1>7 DEF Memory, RingObject
<1>9. DOMAIN got.r = 1 .. new /\ DOMAIN got.r = DOMAIN m.r \union {new} /\ new \notin DOMAIN m.r
  BY <1>3, <1>7, LenProperties
<1>10. new # 0 /\ m.handles \subseteq DOMAIN m.r /\ new \notin m.handles
  BY <1>3, <1>9 DEF Sound
<1>11. \A j \in m.handles : got.r[j].live /\ got.r[j].ref >= 0 /\ got.r[j].ref \in Int
  <2>1. \A j \in m.handles : got.r[j] = m.r[j] /\ j \in DOMAIN m.r
    BY <1>3, <1>7, <1>10
  <2> QED
    BY <2>1, <1>2, MemoryFacts DEF Sound
<1>12. CASE Equal(got, new, m.cur)
  <2>1. w = got
    BY <1>5, <1>12
  <2>2. Sound(w)
    BY <2>1, <1>4, <1>6, <1>7, <1>8, <1>9, <1>10, <1>11 DEF Sound
  <2>3. RingOf(got, new) = c /\ RingOf(got, m.cur) = c
    BY <1>2, <1>4, <1>7, <1>10, <1>12 DEF RingOf, Equal
  <2> QED
    BY <2>1, <2>2, <2>3, <1>4, <1>6, <1>7, <1>9, <1>10
<1>13. CASE ~Equal(got, new, m.cur)
  <2>1. PICK k : k = Owned(got, new)
    OBVIOUS
  <2>2. /\ k \in Memory /\ k.dr = new /\ k.cur = m.cur /\ k.handles = m.handles
        /\ DOMAIN k.r = DOMAIN got.r
        /\ \A j \in DOMAIN got.r :
             /\ k.r[j].class = got.r[j].class /\ k.r[j].live = got.r[j].live
             /\ k.r[j].ref = IF j = new THEN got.r[new].ref + 1 ELSE got.r[j].ref
    BY <2>1, <1>6, <1>8, <1>9, OwnedFacts
  <2>3. w = [k EXCEPT !.cur = new, !.handles = @ \union {new}]
    BY <2>1, <1>5, <1>13
  <2>4. /\ w.r = k.r /\ w.dr = new /\ w.cur = new /\ w.handles = m.handles \union {new}
        /\ w = [r |-> w.r, dr |-> new, cur |-> new, handles |-> w.handles]
    BY <2>2, <2>3 DEF Memory
  <2>5. w \in Memory
    <3>1. k.r \in Seq(RingObject) /\ m.handles \in SUBSET Nat /\ new \in Nat
      BY <2>2, <1>2, <1>3, MemoryFacts
    <3> QED
      BY <3>1, <2>4 DEF Memory, RingObject
  <2>6. k.r[new].ref = 2 /\ k.r[new].live /\ k.r[new].class = c
    BY <2>2, <1>4, <1>7, <1>9
  <2>7. \A j \in m.handles : k.r[j].live /\ k.r[j].ref >= 0
    BY <2>2, <1>9, <1>10, <1>11
  <2>8. Sound(w)
    <3>1. w.cur \in w.handles /\ w.handles \subseteq DOMAIN w.r
      BY <2>2, <2>4, <1>9, <1>10
    <3>2. Classes \subseteq w.handles
      BY <2>4 DEF Sound
    <3>3. \A j \in w.handles : w.r[j].live /\ w.r[j].ref >= 0
      BY <2>4, <2>6, <2>7
    <3>4. w.dr \in DOMAIN w.r /\ w.r[w.dr].live /\ w.r[w.dr].ref >= 1 /\ w.r[w.dr].ref >= 0
      BY <2>2, <2>4, <2>6, <1>9
    <3> QED
      BY <2>5, <3>1, <3>2, <3>3, <3>4 DEF Sound
  <2> QED
    BY <2>2, <2>4, <2>6, <2>8, <1>9, <1>10 DEF RingOf
<1> QED
  BY <1>12, <1>13

(* A message is one of three forms.                                        *)
LEMMA MessageFacts ==
  /\ \A c \in Classes :
       /\ Bare(c) \in Messages /\ Kind(Bare(c)) = "6" /\ Class(Bare(c)) = c
       /\ Named(c) \in Messages /\ Kind(Named(c)) = "15" /\ Class(Named(c)) = c
       /\ Ring(c) \in Messages /\ Kind(Ring(c)) = "5" /\ Class(Ring(c)) = c
  /\ \A msg \in Messages :
       /\ Kind(msg) \in {"5", "6", "15"} /\ Class(msg) \in Classes
       /\ msg \in Seq([kind : {"5", "6", "15"}, class : Classes])
       /\ \A j \in DOMAIN msg : msg[j].class = Class(msg)
<1>1. \A c \in Classes :
       /\ Bare(c) \in Messages /\ Named(c) \in Messages /\ Ring(c) \in Messages
  BY DEF Messages
<1>2. ASSUME NEW c \in Classes
      PROVE  /\ Kind(Bare(c)) = "6" /\ Class(Bare(c)) = c
             /\ Bare(c) \in Seq([kind : {"5", "6", "15"}, class : Classes])
             /\ \A j \in DOMAIN Bare(c) : Bare(c)[j].class = c
  BY DEF Bare, Kind, Class
<1>3. ASSUME NEW c \in Classes
      PROVE  /\ Kind(Named(c)) = "15" /\ Class(Named(c)) = c
             /\ Named(c) \in Seq([kind : {"5", "6", "15"}, class : Classes])
             /\ \A j \in DOMAIN Named(c) : Named(c)[j].class = c
  BY DEF Named, Kind, Class
<1>4. ASSUME NEW c \in Classes
      PROVE  /\ Kind(Ring(c)) = "5" /\ Class(Ring(c)) = c
             /\ Ring(c) \in Seq([kind : {"5", "6", "15"}, class : Classes])
             /\ \A j \in DOMAIN Ring(c) : Ring(c)[j].class = c
  BY DEF Ring, Kind, Class
<1>5. \A msg \in Messages : \E c \in Classes : msg = Bare(c) \/ msg = Named(c) \/ msg = Ring(c)
  BY DEF Messages
<1>6. ASSUME NEW msg \in Messages
      PROVE  /\ Kind(msg) \in {"5", "6", "15"} /\ Class(msg) \in Classes
             /\ msg \in Seq([kind : {"5", "6", "15"}, class : Classes])
             /\ \A j \in DOMAIN msg : msg[j].class = Class(msg)
  <2>1. PICK c \in Classes : msg = Bare(c) \/ msg = Named(c) \/ msg = Ring(c)
    BY <1>5
  <2>2. CASE msg = Bare(c)
    BY <2>2, <1>2
  <2>3. CASE msg = Named(c)
    BY <2>3, <1>3
  <2>4. CASE msg = Ring(c)
    BY <2>4, <1>4
  <2> QED
    BY <2>1, <2>2, <2>3, <2>4
<1> QED
  BY <1>1, <1>2, <1>3, <1>4, <1>6

(* Reading a message: a bare polynomial changes nothing, a ring before it  *)
(* or alone becomes that of the link and equal to the basering.            *)
LEMMA Read1 ==
  ASSUME NEW m, Sound(m), NEW msg \in Messages, NEW w, w = ssiRead1(m, msg)
  PROVE  /\ Sound(w)
         /\ Kind(msg) = "6" => w = m
         /\ Kind(msg) # "6" => /\ RingOf(w, w.dr) = Class(msg)
                               /\ RingOf(w, w.cur) = Class(msg)
         /\ Kind(msg) = "5" => w.dr \in DOMAIN w.r /\ w.r[w.dr].live /\ w.r[w.dr].ref >= 0
<1>1. Kind(msg) \in {"5", "6", "15"} /\ Class(msg) \in Classes
  BY MessageFacts
<1>2. CASE Kind(msg) = "6"
  BY <1>2 DEF ssiRead1, Kind
<1>3. CASE Kind(msg) = "15"
  <2>1. w = ssiReadRing(m, Class(msg))
    BY <1>3 DEF ssiRead1, Kind, Class
  <2> QED
    BY <2>1, <1>1, <1>3, ReadRing
<1>4. CASE Kind(msg) = "5"
  <2>1. PICK got : got = ssiReadRing(m, Class(msg))
    OBVIOUS
  <2>2. w = rKill(got, got.dr)
    BY <2>1, <1>4 DEF ssiRead1, Kind, Class
  <2>3. /\ Sound(got) /\ got.dr \in DOMAIN got.r /\ got.r[got.dr].ref >= 1
        /\ got.dr \in got.handles => got.r[got.dr].ref >= 2
        /\ RingOf(got, got.dr) = Class(msg) /\ RingOf(got, got.cur) = Class(msg)
    BY <2>1, <1>1, ReadRing
  <2>4. /\ got \in Memory /\ got.dr # 0 /\ got.r[got.dr].ref \in Int
        /\ got.cur \in DOMAIN got.r /\ got.r[got.dr].live
    BY <2>3, MemoryFacts DEF Sound
  <2>5. /\ w \in Memory /\ w.dr = got.dr /\ w.handles = got.handles /\ w.cur = got.cur
        /\ SameClasses(got, w)
        /\ \A j \in DOMAIN got.r \ {got.dr} : w.r[j] = got.r[j]
        /\ w.r[got.dr].ref = got.r[got.dr].ref - 1
        /\ w.r[got.dr].live = got.r[got.dr].live
    <3>1. PICK d \in DOMAIN got.r \union {0} : d = got.dr /\ w = rKill(got, d)
      BY <2>2, <2>3
    <3>4. got \in Memory /\ d # 0 /\ got.r[d].ref >= 1
      BY <2>3, <2>4, <3>1
    <3>2. /\ w \in Memory /\ w.dr = got.dr /\ w.handles = got.handles
          /\ DOMAIN w.r = DOMAIN got.r
          /\ \A j \in DOMAIN got.r : w.r[j].class = got.r[j].class
          /\ \A j \in DOMAIN got.r \ {d} : w.r[j] = got.r[j]
          /\ w.cur = got.cur /\ w.r[d].ref = got.r[d].ref - 1
          /\ w.r[d].live = got.r[d].live
      BY <3>1, <3>4, KillFacts
    <3>3. SameClasses(got, w)
      BY <3>2 DEF SameClasses
    <3> QED
      BY <3>1, <3>2, <3>3
  <2>6. /\ w.r[w.dr].live /\ w.r[w.dr].ref >= 0
        /\ w.dr \in w.handles => w.r[w.dr].ref >= 1
    BY <2>3, <2>4, <2>5
  <2>7. \A j \in w.handles : w.r[j].live /\ w.r[j].ref >= 0
    <3>1. ASSUME NEW j \in w.handles PROVE w.r[j].live /\ w.r[j].ref >= 0
      <4>1. CASE j = w.dr
        BY <4>1, <2>6
      <4>2. CASE j # w.dr
        BY <4>2, <2>3, <2>5 DEF Sound
      <4> QED
        BY <4>1, <4>2
    <3> QED
      BY <3>1
  <2>8. Sound(w)
    BY <2>3, <2>4, <2>5, <2>6, <2>7 DEF Sound, SameClasses
  <2>9. \A j \in DOMAIN got.r \union {0} : RingOf(w, j) = RingOf(got, j)
    BY <2>4, <2>5, SameRing
  <2> QED
    BY <2>3, <2>4, <2>5, <2>6, <2>8, <2>9, <1>4 DEF SameClasses
<1> QED
  BY <1>1, <1>2, <1>3, <1>4
-----------------------------------------------------------------------------
(* What each step does to the two ends and to what is on its way.          *)

Framed == /\ file' = file
          /\ side' = [s \in Sides |-> side'[s]] /\ chan' = [s \in Sides |-> chan'[s]]
          /\ \A s \in Sides : Sound(side'[s])

(* One end or one direction of the link is replaced, the other is not.     *)
LEMMA OneEnd ==
  ASSUME NEW f, NEW s \in Sides, NEW v, f = [t \in Sides |-> f[t]]
  PROVE  /\ [f EXCEPT ![s] = v] = [t \in Sides |-> [f EXCEPT ![s] = v][t]]
         /\ [f EXCEPT ![s] = v][s] = v
         /\ \A t \in Sides \ {s} : [f EXCEPT ![s] = v][t] = f[t]
  OBVIOUS

(* What holds of both ends and of both directions.                         *)
LEMMA TwoEnds ==
  /\ "client" \in Sides /\ "server" \in Sides /\ Sides = {"client", "server"}
  /\ Sides \ {"client"} = {"server"} /\ Sides \ {"server"} = {"client"}
  /\ Peer("client") = "server" /\ Peer("server") = "client"
  BY DEF Sides, Peer

(* A request is one more message to the server.  A polynomial is written   *)
(* with the ring of the link or after its own; a ring as it is.            *)
LEMMA RequestFacts ==
  ASSUME BInv, NEW kind, NEW i \in Classes, Request(kind, i)
  PROVE  \E msg \in Messages :
           /\ Framed /\ side'["server"] = side["server"]
           /\ ToServer' = Append(ToServer, msg) /\ ToClient' = ToClient
           /\ asked' = asked + 1 /\ answered' = answered /\ asked < MaxRequests
           /\ moved' = (moved /\ asked # answered)
           /\ IF file THEN kind \in FileKinds ELSE kind \in Kinds /\ asked - answered < MaxAhead
           /\ BaseRing("client")' = BaseRing("client")
           /\ kind = "poly" =>
                /\ Kind(msg) # "5" /\ Class(msg) = BaseRing("client")
                /\ Kind(msg) = "6" => LinkRing("client") = Class(msg)
                /\ LinkRing("client")' = BaseRing("client")
           /\ kind # "poly" =>
                /\ Kind(msg) = "5"
                /\ \/ LinkRing("client")' = LinkRing("client")
                   \/ /\ LinkRing("client")' = BaseRing("client")
                      /\ Class(msg) = BaseRing("client")
<1> DEFINE m == side["client"]
           w == IF kind = "poly" THEN ssiWritePoly(m) ELSE ssiWriteRingCmd(m, i)
<1>1. PICK mm, ww : mm = m /\ ww = w
  OBVIOUS
<1>2. /\ side' = [side EXCEPT !["client"] = ww.mem]
      /\ chan' = [chan EXCEPT !["server"] = Append(@, ww.out)]
      /\ asked' = asked + 1 /\ answered' = answered /\ asked < MaxRequests /\ file' = file
      /\ moved' = (moved /\ asked # answered)
      /\ IF file THEN kind \in FileKinds ELSE kind \in Kinds /\ asked - answered < MaxAhead
      /\ kind = "poly" => i = mm.cur
  BY <1>1, TwoEnds DEF Request, Send
<1>3. /\ side = [s \in Sides |-> side[s]] /\ chan = [s \in Sides |-> chan[s]]
      /\ \A s \in Sides : Sound(side[s])
  BY DEF BInv, MemoryInv
<1>4. Sound(mm) /\ mm = side["client"]
  BY <1>1, <1>3, TwoEnds
<1>5. /\ BaseRing("client") = RingOf(mm, mm.cur) /\ LinkRing("client") = RingOf(mm, mm.dr)
  BY <1>1 DEF BaseRing, LinkRing
<1>6. ww = IF kind = "poly" THEN ssiWritePoly(mm) ELSE ssiWriteRingCmd(mm, i)
  BY <1>1
<1> HIDE DEF m, w
<1>7. /\ side' = [s \in Sides |-> side'[s]]
      /\ side'["client"] = ww.mem /\ side'["server"] = side["server"]
  BY <1>2, <1>3, OneEnd, TwoEnds
<1>8. /\ chan' = [s \in Sides |-> chan'[s]]
      /\ ToServer' = Append(ToServer, ww.out) /\ ToClient' = ToClient
  BY <1>2, <1>3, OneEnd, TwoEnds DEF ToServer, ToClient
<1>9. /\ BaseRing("client")' = RingOf(ww.mem, ww.mem.cur)
      /\ LinkRing("client")' = RingOf(ww.mem, ww.mem.dr)
  BY <1>7 DEF BaseRing, LinkRing
<1>10. Sound(ww.mem) => Framed
  BY <1>2, <1>3, <1>7, <1>8, TwoEnds DEF Framed
<1>11. RingOf(mm, mm.cur) \in Classes /\ mm \in Memory
  BY <1>4, SoundRings
<1>12. CASE kind = "poly"
  <2>1. ww = ssiWritePoly(mm)
    BY <1>6, <1>12
  <2>2. /\ Sound(ww.mem)
        /\ RingOf(ww.mem, ww.mem.cur) = RingOf(mm, mm.cur)
        /\ RingOf(ww.mem, ww.mem.dr) = RingOf(mm, mm.cur)
        /\ ww.out = IF mm.dr # mm.cur THEN Named(RingOf(mm, mm.cur)) ELSE Bare(RingOf(mm, mm.cur))
    BY <2>1, <1>4, WritePoly
  <2>3. /\ ww.out \in Messages /\ Kind(ww.out) # "5" /\ Class(ww.out) = RingOf(mm, mm.cur)
        /\ Kind(ww.out) = "6" => RingOf(mm, mm.dr) = RingOf(mm, mm.cur)
    BY <2>2, <1>11, MessageFacts
  <2> QED
    BY <1>2, <1>5, <1>7, <1>8, <1>9, <1>10, <1>12, <2>2, <2>3
<1>13. CASE kind # "poly"
  <2>1. ww = ssiWriteRingCmd(mm, i)
    BY <1>6, <1>13
  <2>2. i \in DOMAIN mm.r /\ mm.r[i].live /\ mm.r[i].ref >= 0
    BY <1>4 DEF Sound
  <2>3. /\ Sound(ww.mem)
        /\ RingOf(ww.mem, ww.mem.cur) = RingOf(mm, mm.cur)
        /\ RingOf(ww.mem, ww.mem.dr) = IF i = mm.cur THEN RingOf(mm, i) ELSE RingOf(mm, mm.dr)
        /\ ww.out = Ring(RingOf(mm, i)) /\ RingOf(mm, i) \in Classes
    BY <2>1, <2>2, <1>4, WriteValue
  <2>4. ww.out \in Messages /\ Kind(ww.out) = "5" /\ Class(ww.out) = RingOf(mm, i)
    BY <2>3, MessageFacts
  <2>5. \/ RingOf(ww.mem, ww.mem.dr) = RingOf(mm, mm.dr)
        \/ /\ RingOf(ww.mem, ww.mem.dr) = RingOf(mm, mm.cur)
           /\ Class(ww.out) = RingOf(mm, mm.cur)
    BY <2>3, <2>4
  <2> QED
    BY <1>2, <1>5, <1>7, <1>8, <1>9, <1>10, <1>13, <2>3, <2>4, <2>5
<1> QED
  BY <1>12, <1>13

(* A process reads the message and answers in kind; a file is only read.   *)
(* An answer is of the ring the link and the process have come to.         *)
LEMMA ServeFacts ==
  ASSUME BInv, Serve
  PROVE  \E msg, out \in Messages :
           /\ msg = Head(ToServer) /\ ToServer # <<>>
           /\ Framed /\ side'["client"] = side["client"]
           /\ ToServer' = Tail(ToServer)
           /\ ToClient' = IF file THEN ToClient ELSE Append(ToClient, out)
           /\ asked' = asked /\ answered' = answered /\ moved' = moved
           /\ LinkRing("server")' \in {0, BaseRing("server")'}
           /\ Kind(msg) # "6" => Class(out) = Class(msg)
           /\ Kind(msg) = "6" => Class(out) = BaseRing("server")
           /\ Kind(out) = "5" <=> Kind(msg) = "5"
           /\ file => LinkRing("server")' = IF Kind(msg) = "6" THEN LinkRing("server")
                                            ELSE Class(msg)
           /\ ~file => LinkRing("server")' = Class(out)
<1>1. PICK msg, m, w, old :
        /\ msg = Head(ToServer) /\ old = side["server"]
        /\ m = ssiRead1(side["server"], msg)
        /\ w = IF msg[1].kind = "5" THEN ssiWriteRingCmd(m, m.dr) ELSE ssiWritePoly(m)
  OBVIOUS
<1>2. /\ ToServer # <<>> /\ asked' = asked /\ answered' = answered /\ file' = file
      /\ moved' = moved
      /\ file => /\ side' = [side EXCEPT !["server"] = m]
                 /\ chan' = [chan EXCEPT !["server"] = Tail(@)]
      /\ ~file =>
           /\ side' = [side EXCEPT !["server"] = w.mem]
           /\ chan' = [chan EXCEPT !["server"] = Tail(@), !["client"] = Append(@, w.out)]
  BY <1>1 DEF Serve, ToServer
<1>3. /\ side = [s \in Sides |-> side[s]] /\ chan = [s \in Sides |-> chan[s]]
      /\ \A s \in Sides : Sound(side[s])
      /\ LinkRing("server") \in {0, BaseRing("server")}
      /\ ToServer \in Seq(Messages)
  BY TwoEnds DEF BInv, MemoryInv, BaseringInv, ToServer, ToClient
<1>4. msg \in Messages /\ Class(msg) \in Classes
  BY <1>1, <1>2, <1>3, HeadTailProperties, MessageFacts
<1>5. Sound(old) /\ m = ssiRead1(old, msg)
  BY <1>1, <1>3, TwoEnds
<1>6. /\ Sound(m)
      /\ Kind(msg) = "6" => m = old
      /\ Kind(msg) # "6" => /\ RingOf(m, m.dr) = Class(msg)
                            /\ RingOf(m, m.cur) = Class(msg)
      /\ Kind(msg) = "5" => m.dr \in DOMAIN m.r /\ m.r[m.dr].live /\ m.r[m.dr].ref >= 0
  BY <1>4, <1>5, Read1
<1>7. BaseRing("server") = RingOf(old, old.cur) /\ LinkRing("server") = RingOf(old, old.dr)
  BY <1>1 DEF BaseRing, LinkRing
<1>8. /\ RingOf(m, m.dr) \in {0, RingOf(m, m.cur)}
      /\ RingOf(m, m.dr) = IF Kind(msg) = "6" THEN LinkRing("server") ELSE Class(msg)
      /\ RingOf(m, m.cur) = IF Kind(msg) = "6" THEN BaseRing("server") ELSE Class(msg)
  BY <1>3, <1>6, <1>7
<1>9. RingOf(m, m.cur) \in Classes /\ m \in Memory
  BY <1>6, SoundRings
<1>10. /\ Sound(w.mem) /\ w.out \in Messages
       /\ RingOf(w.mem, w.mem.cur) = RingOf(m, m.cur)
       /\ RingOf(w.mem, w.mem.dr) = RingOf(m, m.cur)
       /\ Class(w.out) = RingOf(m, m.cur)
       /\ Kind(w.out) = "5" <=> Kind(msg) = "5"
  <2>1. CASE Kind(msg) = "5"
    <3>1. PICK d \in DOMAIN m.r : d = m.dr /\ w = ssiWriteRingCmd(m, d)
      BY <1>1, <1>6, <2>1 DEF Kind
    <3>2. m.r[d].live /\ m.r[d].ref >= 0
      BY <1>6, <2>1, <3>1
    <3>3. /\ Sound(w.mem)
          /\ RingOf(w.mem, w.mem.cur) = RingOf(m, m.cur)
          /\ RingOf(w.mem, w.mem.dr) = IF d = m.cur THEN RingOf(m, d) ELSE RingOf(m, m.dr)
          /\ w.out = Ring(RingOf(m, d)) /\ RingOf(m, d) \in Classes
      BY <1>6, <3>1, <3>2, WriteValue
    <3>4. RingOf(m, d) = RingOf(m, m.cur)
      BY <1>6, <2>1, <3>1
    <3> QED
      BY <2>1, <3>1, <3>3, <3>4, MessageFacts
  <2>2. CASE Kind(msg) # "5"
    <3>1. w = ssiWritePoly(m)
      BY <1>1, <2>2 DEF Kind
    <3>2. /\ Sound(w.mem)
          /\ RingOf(w.mem, w.mem.cur) = RingOf(m, m.cur)
          /\ RingOf(w.mem, w.mem.dr) = RingOf(m, m.cur)
          /\ w.out = IF m.dr # m.cur THEN Named(RingOf(m, m.cur)) ELSE Bare(RingOf(m, m.cur))
      BY <1>6, <3>1, WritePoly
    <3> QED
      BY <1>9, <2>2, <3>2, MessageFacts
  <2> QED
    BY <2>1, <2>2
<1>11. CASE file
  <2>1. /\ side' = [s \in Sides |-> side'[s]]
        /\ side'["server"] = m /\ side'["client"] = side["client"]
    BY <1>2, <1>3, <1>11, OneEnd, TwoEnds
  <2>2. /\ chan' = [s \in Sides |-> chan'[s]]
        /\ ToServer' = Tail(ToServer) /\ ToClient' = ToClient
    BY <1>2, <1>3, <1>11, OneEnd, TwoEnds DEF ToServer, ToClient
  <2>3. /\ BaseRing("server")' = RingOf(m, m.cur) /\ LinkRing("server")' = RingOf(m, m.dr)
    BY <2>1 DEF BaseRing, LinkRing
  <2>4. Framed
    BY <1>2, <1>3, <1>6, <2>1, <2>2, TwoEnds DEF Framed
  <2> QED
    BY <1>1, <1>2, <1>4, <1>8, <1>10, <1>11, <2>1, <2>2, <2>3, <2>4
<1>12. CASE ~file
  <2>1. /\ side' = [s \in Sides |-> side'[s]]
        /\ side'["server"] = w.mem /\ side'["client"] = side["client"]
    BY <1>2, <1>3, <1>12, OneEnd, TwoEnds
  <2>2. /\ chan' = [s \in Sides |-> chan'[s]]
        /\ ToServer' = Tail(ToServer) /\ ToClient' = Append(ToClient, w.out)
    <3>1. chan' = [chan EXCEPT !["server"] = Tail(ToServer), !["client"] = Append(ToClient, w.out)]
      BY <1>2, <1>12 DEF ToServer, ToClient
    <3> QED
      BY <3>1, <1>3, TwoEnds DEF ToServer, ToClient
  <2>3. /\ BaseRing("server")' = RingOf(w.mem, w.mem.cur)
        /\ LinkRing("server")' = RingOf(w.mem, w.mem.dr)
    BY <2>1 DEF BaseRing, LinkRing
  <2>4. Framed
    BY <1>2, <1>3, <1>10, <2>1, <2>2, TwoEnds DEF Framed
  <2> QED
    <3>1. LinkRing("server")' = Class(w.out) /\ BaseRing("server")' = Class(w.out)
      BY <1>10, <2>3
    <3>2. /\ Kind(msg) # "6" => Class(w.out) = Class(msg)
          /\ Kind(msg) = "6" => Class(w.out) = BaseRing("server")
          /\ Kind(w.out) = "5" <=> Kind(msg) = "5"
      BY <1>8, <1>10
    <3>3. /\ ToServer' = Tail(ToServer)
          /\ ToClient' = IF file THEN ToClient ELSE Append(ToClient, w.out)
      BY <1>12, <2>2
    <3>4. PICK out \in Messages : out = w.out
      BY <1>10
    <3>5. /\ msg \in Messages /\ msg = Head(ToServer) /\ ToServer # <<>>
          /\ Framed /\ side'["client"] = side["client"]
          /\ asked' = asked /\ answered' = answered /\ moved' = moved /\ ~file
      BY <1>1, <1>2, <1>4, <1>12, <2>1, <2>4
    <3> QED
      BY <3>1, <3>2, <3>3, <3>4, <3>5
<1> QED
  BY <1>11, <1>12

(* The client reads an answer: a ring that comes with it is that of the    *)
(* link, and the basering is equal to it.                                  *)
LEMMA AnswerFacts ==
  ASSUME BInv, ReadAnswer
  PROVE  \E msg \in Messages :
           /\ msg = Head(ToClient) /\ ToClient # <<>>
           /\ Framed /\ side'["server"] = side["server"]
           /\ ToClient' = Tail(ToClient) /\ ToServer' = ToServer
           /\ asked' = asked /\ answered' = answered + 1 /\ moved' = moved
           /\ LinkRing("client")' = IF Kind(msg) = "6" THEN LinkRing("client") ELSE Class(msg)
           /\ BaseRing("client")' = IF Kind(msg) = "6" THEN BaseRing("client") ELSE Class(msg)
<1>1. PICK msg, m, old :
        /\ msg = Head(ToClient) /\ old = side["client"]
        /\ m = ssiRead1(side["client"], msg)
  OBVIOUS
<1>2. /\ ToClient # <<>> /\ asked' = asked /\ answered' = answered + 1 /\ file' = file
      /\ moved' = moved
      /\ side' = [side EXCEPT !["client"] = m]
      /\ chan' = [chan EXCEPT !["client"] = Tail(@)]
  BY <1>1 DEF ReadAnswer, ToClient
<1>3. /\ side = [s \in Sides |-> side[s]] /\ chan = [s \in Sides |-> chan[s]]
      /\ \A s \in Sides : Sound(side[s])
      /\ ToClient \in Seq(Messages)
  BY TwoEnds DEF BInv, MemoryInv, ToServer, ToClient
<1>4. msg \in Messages
  BY <1>1, <1>2, <1>3, HeadTailProperties
<1>5. Sound(old) /\ m = ssiRead1(old, msg)
  BY <1>1, <1>3, TwoEnds
<1>6. /\ Sound(m)
      /\ Kind(msg) = "6" => m = old
      /\ Kind(msg) # "6" => /\ RingOf(m, m.dr) = Class(msg)
                            /\ RingOf(m, m.cur) = Class(msg)
  BY <1>4, <1>5, Read1
<1>7. BaseRing("client") = RingOf(old, old.cur) /\ LinkRing("client") = RingOf(old, old.dr)
  BY <1>1 DEF BaseRing, LinkRing
<1>8. /\ side' = [s \in Sides |-> side'[s]]
      /\ side'["client"] = m /\ side'["server"] = side["server"]
  BY <1>2, <1>3, OneEnd, TwoEnds
<1>9. /\ chan' = [s \in Sides |-> chan'[s]]
      /\ ToClient' = Tail(ToClient) /\ ToServer' = ToServer
  BY <1>2, <1>3, OneEnd, TwoEnds DEF ToServer, ToClient
<1>10. BaseRing("client")' = RingOf(m, m.cur) /\ LinkRing("client")' = RingOf(m, m.dr)
  BY <1>8 DEF BaseRing, LinkRing
<1>11. Framed
  BY <1>2, <1>3, <1>6, <1>8, <1>9, TwoEnds DEF Framed
<1> QED
  BY <1>1, <1>2, <1>4, <1>6, <1>7, <1>8, <1>9, <1>10, <1>11

(* Another basering for the client, whatever is on its way.                *)
LEMMA BaseringFacts ==
  ASSUME BInv, NEW i, SetBasering(i)
  PROVE  /\ Framed /\ side'["server"] = side["server"]
         /\ chan' = chan /\ asked' = asked /\ answered' = answered /\ moved' = TRUE
         /\ LinkRing("client")' = LinkRing("client")
<1>1. PICK old, new : old = side["client"] /\ new = [old EXCEPT !.cur = i]
  OBVIOUS
<1>2. /\ side' = [side EXCEPT !["client"] = new]
      /\ chan' = chan /\ asked' = asked /\ answered' = answered /\ file' = file
      /\ moved' = TRUE
      /\ i \in old.handles
  BY <1>1 DEF SetBasering
<1>3. /\ side = [s \in Sides |-> side[s]] /\ chan = [s \in Sides |-> chan[s]]
      /\ \A s \in Sides : Sound(side[s])
  BY DEF BInv, MemoryInv
<1>4. Sound(old) /\ old \in Memory
  BY <1>1, <1>3, TwoEnds, SoundRings
<1>5. /\ new.cur = i /\ new.r = old.r /\ new.dr = old.dr /\ new.handles = old.handles
      /\ new \in Memory
  <2>1. i \in Nat
    BY <1>2, <1>4, MemoryFacts
  <2> QED
    BY <1>1, <1>4, <2>1 DEF Memory
<1>6. Sound(new)
  BY <1>2, <1>4, <1>5 DEF Sound
<1>7. /\ side' = [s \in Sides |-> side'[s]]
      /\ side'["client"] = new /\ side'["server"] = side["server"]
  BY <1>2, <1>3, OneEnd, TwoEnds
<1>8. LinkRing("client")' = RingOf(new, new.dr) /\ LinkRing("client") = RingOf(old, old.dr)
  BY <1>1, <1>7 DEF LinkRing
<1>9. RingOf(new, new.dr) = RingOf(old, old.dr)
  BY <1>5 DEF RingOf
<1>10. Framed
  BY <1>2, <1>3, <1>6, <1>7, TwoEnds DEF Framed
<1> QED
  BY <1>2, <1>7, <1>8, <1>9, <1>10

(* Nothing is on its way when a link is closed, and both ends of the next  *)
(* one have no ring.                                                       *)
LEMMA CloseFacts ==
  ASSUME BInv, Close
  PROVE  /\ Framed
         /\ ~file /\ ToServer' = <<>> /\ ToClient' = <<>>
         /\ asked' = asked /\ answered' = asked /\ moved' = moved
         /\ \A s \in Sides : LinkRing(s)' = 0
<1>1. PICK old, new : old = side["client"] /\ new = [rKill(old, old.dr) EXCEPT !.dr = 0]
  OBVIOUS
<1>2. /\ side' = [s \in Sides |-> new]
      /\ chan' = [s \in Sides |-> <<>>]
      /\ ~file /\ asked' = asked /\ answered' = asked /\ file' = file /\ moved' = moved
  BY <1>1 DEF Close
<1>3. \A s \in Sides : Sound(side[s])
  BY DEF BInv, MemoryInv
<1>4. Sound(new) /\ new.dr = 0
  BY <1>1, <1>3, TwoEnds, CloseLink
<1>5. \A s \in Sides : side'[s] = new
  BY <1>2
<1>6. \A s \in Sides : LinkRing(s)' = RingOf(new, new.dr)
  BY <1>5 DEF LinkRing
<1>7. RingOf(new, new.dr) = 0
  BY <1>4 DEF RingOf
<1>8. Framed
  BY <1>2, <1>4, <1>5 DEF Framed
<1>9. ToServer' = <<>> /\ ToClient' = <<>>
  BY <1>2, TwoEnds DEF ToServer, ToClient
<1> QED
  BY <1>2, <1>6, <1>7, <1>8, <1>9

(* What the two directions of the link hold.                               *)
LEMMA Directions ==
  ASSUME BInv
  PROVE  /\ ToServer \in Seq(Messages) /\ ToClient \in Seq(Messages)
         /\ Len(ToServer) \in Nat /\ Len(ToClient) \in Nat
         /\ ToServer = <<>> <=> Len(ToServer) = 0
         /\ ToClient = <<>> <=> Len(ToClient) = 0
         /\ \A k \in 1 .. Len(ToServer) : ToServer[k] \in Messages
         /\ \A k \in 1 .. Len(ToClient) : ToClient[k] \in Messages
         /\ file \in BOOLEAN /\ asked \in Nat /\ answered \in Nat
         /\ MaxRequests \in Nat /\ asked <= MaxRequests
<1>1. ToServer \in Seq(Messages) /\ ToClient \in Seq(Messages) /\ file \in BOOLEAN
  BY TwoEnds DEF BInv, MemoryInv, ToServer, ToClient
<1>2. asked \in Nat /\ answered \in Nat /\ MaxRequests \in Nat /\ asked <= MaxRequests
  BY RingsAssumption DEF BInv, CountInv
<1> QED
  BY <1>1, <1>2, LenProperties, ElementOfSeq, EmptySeq

-----------------------------------------------------------------------------
(* Every step leaves what both processes own.                              *)

(* Initially every ring has an identifier and no link.                     *)
LEMMA OwnedInit == Init => BInv
<1> SUFFICES ASSUME Init PROVE BInv
  OBVIOUS
<1>1. PICK c \in Classes :
        side = [s \in Sides |-> [r |-> Declared, dr |-> 0, cur |-> c, handles |-> Classes]]
  BY DEF Init
<1>2. PICK m : m = [r |-> Declared, dr |-> 0, cur |-> c, handles |-> Classes]
  OBVIOUS
<1>3. /\ chan = [s \in Sides |-> <<>>] /\ asked = 0 /\ answered = 0
      /\ file \in BOOLEAN /\ moved = FALSE
  BY DEF Init
<1>4. ToServer = <<>> /\ ToClient = <<>>
  BY <1>3, TwoEnds DEF ToServer, ToClient
<1>5. \A s \in Sides : side[s] = m
  BY <1>1, <1>2
<1>6. Declared \in Seq(RingObject) /\ DOMAIN Declared = Classes
  <2>1. Declared \in [1 .. NumRings -> RingObject] /\ NumRings \in Nat
    BY RingsAssumption DEF Declared, RingObject, Classes
  <2> QED
    BY <2>1, SeqDef DEF Declared, Classes
<1>7. m.r = Declared /\ m.dr = 0 /\ m.cur = c /\ m.handles = Classes
  BY <1>2
<1>8. m \in Memory
  <2>1. Classes \in SUBSET Nat
    BY RingsAssumption DEF Classes
  <2> QED
    BY <1>2, <1>6, <2>1 DEF Memory, RingObject
<1>9. \A i \in Classes : m.r[i].live /\ m.r[i].ref = 0
  BY <1>7 DEF Declared
<1>10. Sound(m)
  <2>1. 0 \notin Classes
    BY <1>8, MemoryFacts
  <2> QED
    BY <1>6, <1>7, <1>8, <1>9, <2>1 DEF Sound
<1>11. MemoryInv
  BY <1>1, <1>3, <1>4, <1>5, <1>10, EmptySeq DEF MemoryInv
<1>12. CountInv
  BY <1>3, <1>4, RingsAssumption, EmptySeq DEF CountInv
<1>13. LinkRing("server") = 0
  BY <1>5, <1>7, TwoEnds DEF LinkRing, RingOf
<1>14. BaseringInv
  BY <1>4, <1>13, EmptySeq DEF BaseringInv
<1> QED
  BY <1>11, <1>12, <1>14 DEF BInv

(* A request of the client: it owns what it has written.                   *)
LEMMA OwnedRequest ==
  ASSUME BInv, NEW kind, NEW i \in Classes, Request(kind, i)
  PROVE  BInv'
<1>1. PICK msg \in Messages :
           /\ Framed /\ side'["server"] = side["server"]
           /\ ToServer' = Append(ToServer, msg) /\ ToClient' = ToClient
           /\ asked' = asked + 1 /\ answered' = answered /\ asked < MaxRequests
           /\ moved' = (moved /\ asked # answered)
           /\ BaseRing("client")' = BaseRing("client")
           /\ kind = "poly" =>
                /\ Kind(msg) # "5" /\ Class(msg) = BaseRing("client")
                /\ LinkRing("client")' = BaseRing("client")
           /\ kind # "poly" =>
                /\ Kind(msg) = "5"
                /\ \/ LinkRing("client")' = LinkRing("client")
                   \/ LinkRing("client")' = BaseRing("client")
  BY RequestFacts
<1>2. /\ ToServer \in Seq(Messages) /\ ToClient \in Seq(Messages)
      /\ Len(ToServer) \in Nat /\ Len(ToClient) \in Nat
      /\ file \in BOOLEAN /\ asked \in Nat /\ answered \in Nat
      /\ MaxRequests \in Nat
  BY Directions
<1>3. /\ ToServer' \in Seq(Messages) /\ Len(ToServer') = Len(ToServer) + 1
      /\ \A k \in 1 .. Len(ToServer) : ToServer'[k] = ToServer[k]
      /\ ToServer'[Len(ToServer) + 1] = msg
  BY <1>1, <1>2, AppendProperties
<1>4. CountInv'
  <2>1. /\ file => answered = 0 /\ ToClient = <<>> /\ Len(ToServer) <= asked
        /\ ~file => asked = answered + Len(ToServer) + Len(ToClient)
        /\ file' = file
    BY <1>1 DEF BInv, CountInv, Framed
  <2>2. asked' \in 0 .. MaxRequests /\ answered' \in Nat
    BY <1>1, <1>2
  <2>3. /\ file => answered' = 0 /\ ToClient' = <<>> /\ Len(ToServer') <= asked'
        /\ ~file => asked' = answered' + Len(ToServer') + Len(ToClient')
    BY <1>1, <1>2, <1>3, <2>1
  <2> QED
    BY <2>1, <2>2, <2>3 DEF CountInv
<1>5. MemoryInv'
  <2>1. moved' \in BOOLEAN
    BY <1>1
  <2> QED
    BY <1>1, <1>2, <1>3, <2>1 DEF MemoryInv, Framed
<1>6. LinkRing("server")' = LinkRing("server") /\ BaseRing("server")' = BaseRing("server")
  BY <1>1 DEF LinkRing, BaseRing
<1>7. file' = file /\ LinkRing("server") \in {0, BaseRing("server")}
  BY <1>1 DEF BInv, BaseringInv, Framed
<1>8. BaseringInv'
  <2> SUFFICES ASSUME ~file, ~moved' PROVE BaseringInv'
    BY <1>6, <1>7 DEF BaseringInv
  <2>1. CASE ~moved
    BY <1>1, <1>2, <1>3, <1>6, <1>7, <2>1 DEF BaseringInv, BInv
  <2>2. CASE moved
    <3>1. asked = answered /\ asked = answered + Len(ToServer) + Len(ToClient)
      BY <1>1, <2>2 DEF BInv, CountInv
    <3>2. Len(ToServer) = 0 /\ Len(ToClient) = 0
      BY <1>2, <3>1
    <3>3. Kind(msg) # "5" => LinkRing("client")' = BaseRing("client")'
      BY <1>1
    <3>4. Len(ToServer') = 1 /\ ToServer'[1] = msg /\ ToClient' = ToClient
      BY <1>1, <1>3, <3>2
    <3> QED
      BY <1>6, <1>7, <3>2, <3>3, <3>4 DEF BaseringInv
  <2> QED
    BY <2>1, <2>2
<1> QED
  BY <1>4, <1>5, <1>8 DEF BInv

(* A request served: the answer is of the basering of the server.          *)
LEMMA OwnedServe ==
  ASSUME BInv, Serve
  PROVE  BInv'
<1>1. PICK msg, out \in Messages :
           /\ msg = Head(ToServer) /\ ToServer # <<>>
           /\ Framed /\ side'["client"] = side["client"]
           /\ ToServer' = Tail(ToServer)
           /\ ToClient' = IF file THEN ToClient ELSE Append(ToClient, out)
           /\ asked' = asked /\ answered' = answered /\ moved' = moved
           /\ LinkRing("server")' \in {0, BaseRing("server")'}
           /\ Kind(out) = "5" <=> Kind(msg) = "5"
  BY ServeFacts
<1>2. /\ ToServer \in Seq(Messages) /\ ToClient \in Seq(Messages)
      /\ Len(ToServer) \in Nat /\ Len(ToClient) \in Nat /\ Len(ToServer) # 0
      /\ file \in BOOLEAN /\ asked \in Nat /\ answered \in Nat
  BY <1>1, Directions
<1>3. /\ ToServer' \in Seq(Messages) /\ Len(ToServer') = Len(ToServer) - 1
      /\ \A k \in 1 .. Len(ToServer') : ToServer'[k] = ToServer[k + 1]
  BY <1>1, <1>2, HeadTailProperties
<1>4. file => ToClient' = ToClient
  BY <1>1
<1>5. ~file => /\ ToClient' \in Seq(Messages) /\ Len(ToClient') = Len(ToClient) + 1
               /\ \A k \in 1 .. Len(ToClient) : ToClient'[k] = ToClient[k]
               /\ ToClient'[Len(ToClient) + 1] = out
  BY <1>1, <1>2, AppendProperties
<1>6. msg = ToServer[1]
  BY <1>1
<1>7. CountInv'
  <2>1. /\ file => answered = 0 /\ ToClient = <<>> /\ Len(ToServer) <= asked
        /\ ~file => asked = answered + Len(ToServer) + Len(ToClient)
        /\ file' = file /\ asked \in 0 .. MaxRequests
    BY <1>1 DEF BInv, CountInv, Framed
  <2>2. file => answered' = 0 /\ ToClient' = <<>> /\ Len(ToServer') <= asked'
    BY <1>1, <1>2, <1>3, <1>4, <2>1
  <2>3. ~file => asked' = answered' + Len(ToServer') + Len(ToClient')
    BY <1>1, <1>2, <1>3, <1>5, <2>1
  <2> QED
    BY <1>1, <1>2, <2>1, <2>2, <2>3 DEF CountInv
<1>8. MemoryInv'
  <2>1. moved' \in BOOLEAN /\ file' = file
    BY <1>1 DEF BInv, MemoryInv, Framed
  <2> QED
    BY <1>1, <1>2, <1>3, <1>4, <1>5, <2>1 DEF MemoryInv, Framed
<1>9. LinkRing("client")' = LinkRing("client") /\ BaseRing("client")' = BaseRing("client")
  BY <1>1 DEF LinkRing, BaseRing
<1>10. BaseringInv'
  <2>1. ~file /\ ~moved =>
                 /\ \A k \in 1 .. Len(ToServer) :
                      Kind(ToServer[k]) # "5" => LinkRing("client") = BaseRing("client")
                 /\ \A k \in 1 .. Len(ToClient) :
                      Kind(ToClient[k]) # "5" => LinkRing("client") = BaseRing("client")
    BY DEF BInv, BaseringInv
  <2>2. ~file /\ ~moved => \A k \in 1 .. Len(ToServer') :
                      Kind(ToServer'[k]) # "5" => LinkRing("client") = BaseRing("client")
    BY <1>2, <1>3, <2>1
  <2>3. ~file /\ ~moved => \A k \in 1 .. Len(ToClient') :
                      Kind(ToClient'[k]) # "5" => LinkRing("client") = BaseRing("client")
    <3>1. ~file /\ ~moved /\ Kind(out) # "5" => LinkRing("client") = BaseRing("client")
      BY <1>1, <1>2, <1>6, <2>1
    <3> QED
      BY <1>2, <1>5, <2>1, <3>1
  <2> QED
    BY <1>1, <1>9, <2>2, <2>3 DEF BaseringInv, Framed
<1> QED
  BY <1>7, <1>8, <1>10 DEF BInv

(* An answer read.                                                         *)
LEMMA OwnedAnswer ==
  ASSUME BInv, ReadAnswer
  PROVE  BInv' /\ (~moved => LinkRing("client")' = BaseRing("client")')
<1>1. PICK msg \in Messages :
           /\ msg = Head(ToClient) /\ ToClient # <<>>
           /\ Framed /\ side'["server"] = side["server"]
           /\ ToClient' = Tail(ToClient) /\ ToServer' = ToServer
           /\ asked' = asked /\ answered' = answered + 1 /\ moved' = moved
           /\ LinkRing("client")' = IF Kind(msg) = "6" THEN LinkRing("client") ELSE Class(msg)
           /\ BaseRing("client")' = IF Kind(msg) = "6" THEN BaseRing("client") ELSE Class(msg)
  BY AnswerFacts
<1>2. /\ ToServer \in Seq(Messages) /\ ToClient \in Seq(Messages)
      /\ Len(ToServer) \in Nat /\ Len(ToClient) \in Nat /\ Len(ToClient) # 0
      /\ file \in BOOLEAN /\ asked \in Nat /\ answered \in Nat
  BY <1>1, Directions
<1>3. /\ ToClient' \in Seq(Messages) /\ Len(ToClient') = Len(ToClient) - 1
      /\ \A k \in 1 .. Len(ToClient') : ToClient'[k] = ToClient[k + 1]
  BY <1>1, <1>2, HeadTailProperties
<1>4. /\ ~file /\ asked = answered + Len(ToServer) + Len(ToClient)
      /\ file' = file /\ asked \in 0 .. MaxRequests
  BY <1>1, <1>2 DEF BInv, CountInv, Framed
<1>5. CountInv'
  <2>1. asked' = answered' + Len(ToServer') + Len(ToClient')
    BY <1>1, <1>2, <1>3, <1>4
  <2>2. asked' \in 0 .. MaxRequests /\ answered' \in Nat /\ ~file'
    BY <1>1, <1>2, <1>4
  <2> QED
    BY <2>1, <2>2 DEF CountInv
<1>6. MemoryInv'
  <2>1. moved' \in BOOLEAN /\ file' = file
    BY <1>1 DEF BInv, MemoryInv, Framed
  <2> QED
    BY <1>1, <1>2, <1>3, <2>1 DEF MemoryInv, Framed
<1>7. msg = ToClient[1]
  BY <1>1
<1>8. ~moved => LinkRing("client")' = BaseRing("client")'
  <2>1. ~moved /\ Kind(msg) = "6" => LinkRing("client") = BaseRing("client")
    BY <1>2, <1>4, <1>7 DEF BInv, BaseringInv
  <2> QED
    BY <1>1, <2>1
<1>9. LinkRing("server")' = LinkRing("server") /\ BaseRing("server")' = BaseRing("server")
  BY <1>1 DEF LinkRing, BaseRing
<1>10. BaseringInv'
  BY <1>1, <1>8, <1>9 DEF BInv, BaseringInv
<1> QED
  BY <1>5, <1>6, <1>8, <1>10 DEF BInv

(* Another basering, and the link closed.                                  *)
LEMMA OwnedOther ==
  ASSUME BInv, Close \/ (\E i \in side["client"].handles : SetBasering(i)) \/ UNCHANGED vars
  PROVE  BInv'
<1>1. CASE UNCHANGED vars
  BY <1>1 DEF BInv, CountInv, MemoryInv, BaseringInv, ToServer, ToClient, LinkRing, BaseRing, vars
<1>2. CASE Close
  <2>1. /\ Framed /\ ~file /\ ToServer' = <<>> /\ ToClient' = <<>>
        /\ asked' = asked /\ answered' = asked /\ moved' = moved
        /\ LinkRing("server")' = 0
    BY <1>2, CloseFacts, TwoEnds
  <2>2. Len(ToServer') = 0 /\ Len(ToClient') = 0 /\ file' = file
    BY <2>1, EmptySeq DEF Framed
  <2>3. CountInv'
    BY <2>1, <2>2, Directions DEF CountInv, BInv
  <2>4. MemoryInv'
    BY <2>1, EmptySeq DEF BInv, MemoryInv, Framed
  <2>5. BaseringInv'
    BY <2>1, <2>2 DEF BaseringInv
  <2> QED
    BY <2>3, <2>4, <2>5 DEF BInv
<1>3. CASE \E i \in side["client"].handles : SetBasering(i)
  <2>1. PICK i : SetBasering(i)
    BY <1>3
  <2>2. /\ Framed /\ side'["server"] = side["server"]
        /\ chan' = chan /\ asked' = asked /\ answered' = answered /\ moved' = TRUE
    BY <2>1, BaseringFacts
  <2>3. ToServer' = ToServer /\ ToClient' = ToClient /\ file' = file
    BY <2>2 DEF ToServer, ToClient, Framed
  <2>4. CountInv'
    BY <2>2, <2>3 DEF CountInv, BInv
  <2>5. MemoryInv'
    BY <2>2, <2>3, Directions DEF MemoryInv, Framed
  <2>6. LinkRing("server")' = LinkRing("server") /\ BaseRing("server")' = BaseRing("server")
    BY <2>2 DEF LinkRing, BaseRing
  <2>7. BaseringInv'
    BY <2>2, <2>6 DEF BaseringInv, BInv
  <2> QED
    BY <2>4, <2>5, <2>7 DEF BInv
<1> QED
  BY <1>1, <1>2, <1>3

(* All steps together.                                                     *)
LEMMA OwnedNext ==
  ASSUME BInv, [Next]_vars
  PROVE  BInv'
<1>1. ASSUME NEW kind, NEW i \in Classes, Request(kind, i) PROVE BInv'
  BY <1>1, OwnedRequest
<1>2. CASE Serve
  BY <1>2, OwnedServe
<1>3. CASE ReadAnswer
  BY <1>3, OwnedAnswer
<1> QED
  BY <1>1, <1>2, <1>3, OwnedOther DEF Next

(* The owners of rings stay owners, whatever is written and read.          *)
THEOREM OwnedInvariance == Spec => []BInv
<1>1. BInv /\ [Next]_vars => BInv'
  BY OwnedNext
<1> QED
  BY <1>1, OwnedInit, PTL DEF Spec

(* No ring is freed while an identifier, the basering or the link of either *)
(* process has it, whatever is written to the link.                        *)
THEOREM RingsOwned == Spec => []NoEarlyFree
<1>1. BInv => NoEarlyFree
  <2> SUFFICES ASSUME BInv, NEW s \in Sides, NEW i \in DOMAIN side[s].r,
                      i \in side[s].handles \union {side[s].cur, side[s].dr}
               PROVE  side[s].r[i].live
    BY DEF NoEarlyFree
  <2>1. Sound(side[s])
    BY DEF BInv, MemoryInv
  <2>2. i # 0
    BY <2>1, MemoryFacts DEF Sound
  <2> QED
    BY <2>1, <2>2 DEF Sound
<1> QED
  BY <1>1, OwnedInvariance, PTL

(* What the client has read is in its basering, whatever it had asked for  *)
(* and in which order, unless it has changed its basering since.           *)
THEOREM AnswersInBasering == Spec => AnswerInBasering
<1>1. BInv /\ [Next]_vars => (ReadAnswer /\ ~moved => InBasering(side["client"]'))
  <2> SUFFICES ASSUME BInv, ReadAnswer, ~moved PROVE InBasering(side["client"]')
    OBVIOUS
  <2>1. LinkRing("client")' = BaseRing("client")'
    BY OwnedAnswer
  <2> QED
    BY <2>1 DEF LinkRing, BaseRing, RingOf, InBasering
<1>2. BInv /\ [Next]_vars => [ReadAnswer /\ ~moved => InBasering(side["client"]')]_vars
  BY <1>1
<1> QED
  BY <1>2, OwnedInvariance, PTL DEF Spec, AnswerInBasering
-----------------------------------------------------------------------------
(* Every step leaves the ends agreed on the rings of the polynomials, for  *)
(* a client that writes nothing ahead of an answer and no ring to a file.  *)

(* Initially neither end has a ring of the link.                           *)
LEMMA AgreeInit == Init => Agree
<1> SUFFICES ASSUME Init PROVE Agree
  OBVIOUS
<1>1. ToServer = <<>> /\ ToClient = <<>>
  BY TwoEnds DEF Init, ToServer, ToClient
<1>2. \A s \in Sides : side[s].dr = 0
  BY DEF Init
<1>3. LinkRing("server") = 0 /\ LinkRing("client") = 0
  BY <1>2, TwoEnds DEF LinkRing, RingOf
<1>4. Len(ToServer) = 0 /\ Len(ToClient) = 0
  BY <1>1
<1>5. Before(1) = 0
  BY <1>3 DEF Before
<1>6. FileInv
  BY <1>3, <1>4, <1>5 DEF FileInv
<1>7. ProcessInv
  BY <1>1, <1>3, <1>4 DEF ProcessInv
<1> QED
  BY <1>6, <1>7 DEF Agree

(* A request to a process is alone; a file is written on.                  *)
LEMMA AgreeRequest ==
  ASSUME BInv, Agree, RingsAlone,
         NEW kind \in Kinds \union FileKinds, NEW i \in Classes, Request(kind, i)
  PROVE  Agree'
<1>1. PICK msg \in Messages :
           /\ Framed /\ side'["server"] = side["server"]
           /\ ToServer' = Append(ToServer, msg) /\ ToClient' = ToClient
           /\ IF file THEN kind \in FileKinds ELSE kind \in Kinds /\ asked - answered < MaxAhead
           /\ BaseRing("client")' = BaseRing("client")
           /\ kind = "poly" =>
                /\ Kind(msg) # "5" /\ Class(msg) = BaseRing("client")
                /\ Kind(msg) = "6" => LinkRing("client") = Class(msg)
                /\ LinkRing("client")' = BaseRing("client")
           /\ kind # "poly" => Kind(msg) = "5"
  BY RequestFacts
<1>2. /\ ToServer \in Seq(Messages) /\ Len(ToServer) \in Nat /\ Len(ToClient) \in Nat
      /\ ToServer = <<>> <=> Len(ToServer) = 0
      /\ ToClient = <<>> <=> Len(ToClient) = 0
      /\ asked \in Nat /\ answered \in Nat
  BY Directions
<1>3. /\ Len(ToServer') = Len(ToServer) + 1 /\ ToServer' # <<>>
      /\ \A k \in 1 .. Len(ToServer) : ToServer'[k] = ToServer[k]
      /\ ToServer'[Len(ToServer) + 1] = msg
  BY <1>1, <1>2, AppendProperties
<1>4. LinkRing("server")' = LinkRing("server") /\ file' = file
  BY <1>1 DEF LinkRing, Framed
<1>5. kind \in {"poly", "ring"}
  BY RingsAssumption
<1>6. CASE file
  <2>1. kind = "poly"
    BY <1>1, <1>5, <1>6 DEF RingsAlone
  <2>2. PICK n \in Nat : n = Len(ToServer)
    BY <1>2
  <2>3. /\ \A k \in 1 .. n :
             Kind(ToServer[k]) # "5" /\ (Kind(ToServer[k]) = "6" => Class(ToServer[k]) = Before(k))
        /\ Before(n + 1) = LinkRing("client")
    BY <1>6, <2>2 DEF Agree, FileInv
  <2>4. /\ Len(ToServer)' = n + 1
        /\ \A k \in 1 .. n : ToServer'[k] = ToServer[k]
        /\ ToServer'[n + 1] = msg
    BY <1>3, <2>2
  <2>5. ASSUME NEW k \in 1 .. n + 1 PROVE Before(k)' = Before(k)
    BY <1>4, <2>4 DEF Before
  <2>6. Before(n + 2)' = Class(msg)
    BY <2>4 DEF Before
  <2>7. ASSUME NEW k \in 1 .. n + 1
        PROVE  Kind(ToServer'[k]) # "5" /\ (Kind(ToServer'[k]) = "6" => Class(ToServer'[k]) = Before(k)')
    <3>1. CASE k = n + 1
      BY <1>1, <2>1, <2>3, <2>4, <2>5, <3>1
    <3>2. CASE k # n + 1
      BY <2>3, <2>4, <2>5, <3>2
    <3> QED
      BY <3>1, <3>2
  <2>8. Before(Len(ToServer) + 1)' = LinkRing("client")'
    <3>1. (Len(ToServer) + 1)' = n + 2
      BY <2>4
    <3>2. Before(Len(ToServer) + 1)' = Before(n + 2)'
      BY <3>1 DEF Before
    <3> QED
      BY <1>1, <2>1, <2>6, <3>2
  <2>9. \A k \in 1 .. Len(ToServer)' :
          Kind(ToServer'[k]) # "5" /\ (Kind(ToServer'[k]) = "6" => Class(ToServer'[k]) = Before(k)')
    BY <2>4, <2>7
  <2> QED
    BY <1>4, <1>6, <2>8, <2>9 DEF Agree, FileInv, ProcessInv
<1>7. CASE ~file
  <2>1. Len(ToServer) = 0 /\ Len(ToClient) = 0
    <3>1. asked = answered + Len(ToServer) + Len(ToClient)
      BY <1>7 DEF BInv, CountInv
    <3>2. asked - answered < 1
      BY <1>1, <1>7 DEF RingsAlone
    <3> QED
      BY <1>2, <3>1, <3>2
  <2>2. LinkRing("server") = LinkRing("client")
    BY <1>2, <1>7, <2>1 DEF Agree, ProcessInv
  <2>3. InTurn(msg)'
    BY <1>1, <1>5 DEF InTurn
  <2>4. Len(ToServer') = 1 /\ ToServer'[1] = msg /\ ToClient' = ToClient
    BY <1>1, <1>3, <2>1
  <2>5. Kind(msg) = "6" => Class(msg) = LinkRing("server")
    BY <1>1, <1>5, <2>2
  <2>6. \A k \in 1 .. Len(ToServer') : InTurn(ToServer[k])'
    <3>1. InTurn(ToServer[1])'
      BY <2>3, <2>4 DEF InTurn
    <3> QED
      BY <2>4, <3>1
  <2>7. ProcessInv'
    BY <1>2, <1>3, <1>4, <2>1, <2>4, <2>5, <2>6 DEF ProcessInv
  <2> QED
    BY <1>4, <1>7, <2>7 DEF Agree, FileInv
<1> QED
  BY <1>6, <1>7

(* One message on its way leaves no room for another.                      *)
LEMMA OneOfTwo ==
  ASSUME NEW a \in Nat, NEW b \in Nat, a + b <= 1
  PROVE  (a # 0 => a = 1 /\ b = 0) /\ (b # 0 => b = 1 /\ a = 0)
  OBVIOUS

(* The server comes to the ring of what it reads; a process answers in it. *)
LEMMA AgreeServe ==
  ASSUME BInv, Agree, RingsAlone, Serve
  PROVE  Agree'
<1>1. PICK msg, out \in Messages :
           /\ msg = Head(ToServer) /\ ToServer # <<>>
           /\ Framed /\ side'["client"] = side["client"]
           /\ ToServer' = Tail(ToServer)
           /\ ToClient' = IF file THEN ToClient ELSE Append(ToClient, out)
           /\ Kind(msg) # "6" => Class(out) = Class(msg)
           /\ Kind(msg) = "6" => Class(out) = BaseRing("server")
           /\ Kind(out) = "5" <=> Kind(msg) = "5"
           /\ file => LinkRing("server")' = IF Kind(msg) = "6" THEN LinkRing("server")
                                            ELSE Class(msg)
           /\ ~file => LinkRing("server")' = Class(out)
  BY ServeFacts
<1>2. /\ ToServer \in Seq(Messages) /\ ToClient \in Seq(Messages)
      /\ Len(ToServer) \in Nat /\ Len(ToClient) \in Nat /\ Len(ToServer) # 0
      /\ ToServer = <<>> <=> Len(ToServer) = 0
      /\ ToClient = <<>> <=> Len(ToClient) = 0
  BY <1>1, Directions
<1>3. /\ ToServer' \in Seq(Messages) /\ Len(ToServer') = Len(ToServer) - 1
      /\ \A k \in 1 .. Len(ToServer') : ToServer'[k] = ToServer[k + 1]
      /\ msg = ToServer[1]
  BY <1>1, <1>2, HeadTailProperties
<1>4. LinkRing("client")' = LinkRing("client") /\ file' = file
  BY <1>1 DEF LinkRing, Framed
<1>5. PICK n \in Nat : n = Len(ToServer) - 1 /\ Len(ToServer) = n + 1 /\ Len(ToServer)' = n
  BY <1>2, <1>3
<1>6. CASE file
  <2>1. /\ \A k \in 1 .. n + 1 :
             Kind(ToServer[k]) # "5" /\ (Kind(ToServer[k]) = "6" => Class(ToServer[k]) = Before(k))
        /\ Before(n + 2) = LinkRing("client")
    <3>1. Len(ToServer) + 1 = n + 2
      BY <1>5
    <3> QED
      BY <1>5, <1>6, <3>1 DEF Agree, FileInv
  <2>2. \A k \in 1 .. n : ToServer'[k] = ToServer[k + 1]
    BY <1>3, <1>5
  <2>3. LinkRing("server")' = Class(ToServer[1])
    <3>1. Kind(msg) = "6" => Class(msg) = LinkRing("server")
      BY <1>3, <2>1 DEF Before
    <3> QED
      BY <1>1, <1>3, <1>6, <3>1
  <2>4. ASSUME NEW k \in 1 .. n + 1 PROVE Before(k)' = Before(k + 1)
    BY <2>2, <2>3 DEF Before
  <2>5. \A k \in 1 .. n :
          Kind(ToServer'[k]) # "5" /\ (Kind(ToServer'[k]) = "6" => Class(ToServer'[k]) = Before(k)')
    <3> SUFFICES ASSUME NEW k \in 1 .. n
                 PROVE  Kind(ToServer'[k]) # "5"
                          /\ (Kind(ToServer'[k]) = "6" => Class(ToServer'[k]) = Before(k)')
      OBVIOUS
    <3>1. k + 1 \in 1 .. n + 1 /\ ToServer'[k] = ToServer[k + 1] /\ Before(k)' = Before(k + 1)
      BY <2>2, <2>4
    <3> QED
      BY <2>1, <3>1
  <2>6. Before(Len(ToServer) + 1)' = LinkRing("client")'
    <3>1. (Len(ToServer) + 1)' = n + 1
      BY <1>5
    <3>2. Before(Len(ToServer) + 1)' = Before(n + 1)'
      BY <3>1 DEF Before
    <3>3. Before(n + 1)' = Before(n + 2)
      BY <2>4
    <3> QED
      BY <1>4, <2>1, <3>2, <3>3
  <2> QED
    BY <1>4, <1>5, <1>6, <2>5, <2>6 DEF Agree, FileInv, ProcessInv
<1>7. CASE ~file
  <2>1. /\ Len(ToServer) = 1 /\ Len(ToClient) = 0
        /\ \A k \in 1 .. Len(ToServer) : InTurn(ToServer[k])
        /\ Kind(ToServer[1]) = "6" => Class(ToServer[1]) = LinkRing("server")
    <3>1. Len(ToServer) + Len(ToClient) <= 1
      BY <1>7 DEF Agree, ProcessInv
    <3>2. Len(ToServer) = 1 /\ Len(ToClient) = 0
      BY <1>2, <3>1, OneOfTwo
    <3> QED
      BY <1>1, <1>7, <3>2 DEF Agree, ProcessInv
  <2>2. Len(ToClient') = 1 /\ ToClient'[1] = out /\ ToClient' # <<>>
    BY <1>1, <1>2, <1>7, <2>1, AppendProperties
  <2>4. InTurn(msg)
    BY <1>2, <1>3, <2>1
  <2>5. Class(out) = Class(msg)
    <3>1. LinkRing("server") \in {0, BaseRing("server")}
      BY DEF BInv, BaseringInv
    <3>2. Class(msg) # 0
      BY MessageFacts, RingsAssumption DEF Classes
    <3> QED
      BY <1>1, <1>3, <2>1, <3>1, <3>2
  <2>6. InTurn(out)
    BY <1>1, <2>4, <2>5 DEF InTurn
  <2>7. Len(ToServer') = 0 /\ ToServer' = <<>>
    BY <1>3, <2>1, EmptySeq
  <2>8. \A k \in 1 .. Len(ToClient') : InTurn(ToClient[k])'
    <3>1. InTurn(ToClient[1])'
      BY <1>4, <2>2, <2>6 DEF InTurn
    <3> QED
      BY <2>2, <3>1
  <2>9. Class(ToClient'[Len(ToClient')]) = LinkRing("server")'
    BY <1>1, <1>7, <2>2
  <2>10. ProcessInv'
    BY <1>4, <2>2, <2>7, <2>8, <2>9 DEF ProcessInv
  <2> QED
    BY <1>4, <1>7, <2>10 DEF Agree, FileInv
<1> QED
  BY <1>6, <1>7

(* The client comes to the ring of an answer, and has it already when the  *)
(* answer is a polynomial.                                                 *)
LEMMA AgreeAnswer ==
  ASSUME BInv, Agree, RingsAlone, ReadAnswer
  PROVE  Agree'
<1>1. PICK msg \in Messages :
           /\ msg = Head(ToClient) /\ ToClient # <<>>
           /\ Framed /\ side'["server"] = side["server"]
           /\ ToClient' = Tail(ToClient) /\ ToServer' = ToServer
           /\ LinkRing("client")' = IF Kind(msg) = "6" THEN LinkRing("client") ELSE Class(msg)
  BY AnswerFacts
<1>2. /\ ToServer \in Seq(Messages) /\ ToClient \in Seq(Messages)
      /\ Len(ToServer) \in Nat /\ Len(ToClient) \in Nat /\ Len(ToClient) # 0
      /\ ToServer = <<>> <=> Len(ToServer) = 0
  BY <1>1, Directions
<1>3. /\ ToClient' \in Seq(Messages) /\ Len(ToClient') = Len(ToClient) - 1
      /\ \A k \in 1 .. Len(ToClient') : ToClient'[k] = ToClient[k + 1]
      /\ msg = ToClient[1]
  BY <1>1, <1>2, HeadTailProperties
<1>4. ~file /\ file' = file /\ LinkRing("server")' = LinkRing("server")
  BY <1>1 DEF BInv, CountInv, Framed, LinkRing
<1>5. /\ Len(ToServer) = 0 /\ Len(ToClient) = 1
      /\ \A k \in 1 .. Len(ToClient) : InTurn(ToClient[k])
      /\ Class(ToClient[Len(ToClient)]) = LinkRing("server")
  <2>1. Len(ToServer) + Len(ToClient) <= 1
    BY <1>4 DEF Agree, ProcessInv
  <2>2. Len(ToServer) = 0 /\ Len(ToClient) = 1
    BY <1>2, <2>1, OneOfTwo
  <2> QED
    BY <1>1, <1>4, <2>2 DEF Agree, ProcessInv
<1>6. LinkRing("client")' = Class(msg) /\ Class(msg) = LinkRing("server")
  <2>1. InTurn(msg)
    BY <1>3, <1>5
  <2>2. Kind(msg) = "6" => Class(msg) = LinkRing("client")
    BY <2>1 DEF InTurn
  <2> QED
    BY <1>1, <1>3, <1>5, <2>2
<1>7. Len(ToServer') = 0 /\ Len(ToClient') = 0 /\ ToServer' = <<>> /\ ToClient' = <<>>
  BY <1>1, <1>2, <1>3, <1>5, EmptySeq
<1> QED
  BY <1>4, <1>6, <1>7 DEF Agree, FileInv, ProcessInv

(* Another basering, and the link closed.                                  *)
LEMMA AgreeOther ==
  ASSUME BInv, Agree,
         Close \/ (\E i \in side["client"].handles : SetBasering(i)) \/ UNCHANGED vars
  PROVE  Agree'
<1>1. CASE UNCHANGED vars
  BY <1>1 DEF Agree, FileInv, ProcessInv, InTurn, Before, ToServer, ToClient, LinkRing, vars
<1>2. CASE \E i \in side["client"].handles : SetBasering(i)
  <2>1. PICK i : SetBasering(i)
    BY <1>2
  <2>2. /\ Framed /\ side'["server"] = side["server"] /\ chan' = chan
        /\ LinkRing("client")' = LinkRing("client")
    BY <2>1, BaseringFacts
  <2>3. /\ LinkRing("server")' = LinkRing("server") /\ file' = file
        /\ ToServer' = ToServer /\ ToClient' = ToClient
    BY <2>2 DEF LinkRing, Framed, ToServer, ToClient
  <2> QED
    BY <2>2, <2>3 DEF Agree, FileInv, ProcessInv, InTurn, Before
<1>3. CASE Close
  <2>1. /\ Framed /\ ~file /\ ToServer' = <<>> /\ ToClient' = <<>>
        /\ LinkRing("client")' = 0 /\ LinkRing("server")' = 0
    BY <1>3, CloseFacts, TwoEnds
  <2>2. file' = file /\ Len(ToServer') = 0 /\ Len(ToClient') = 0
    BY <2>1, EmptySeq DEF Framed
  <2>3. ProcessInv'
    BY <2>1, <2>2 DEF ProcessInv
  <2> QED
    BY <2>1, <2>2, <2>3 DEF Agree, FileInv
<1> QED
  BY <1>1, <1>2, <1>3

(* All steps together.                                                     *)
LEMMA AgreeNext ==
  ASSUME RInv, RingsAlone, [Next]_vars
  PROVE  RInv'
<1>1. BInv /\ Agree
  BY DEF RInv
<1>2. BInv'
  BY <1>1, OwnedNext
<1>3. ASSUME NEW kind \in Kinds \union FileKinds, NEW i \in Classes, Request(kind, i)
      PROVE  Agree'
  BY <1>1, <1>3, AgreeRequest
<1>4. ASSUME Serve PROVE Agree'
  BY <1>1, <1>4, AgreeServe
<1>5. ASSUME ReadAnswer PROVE Agree'
  BY <1>1, <1>5, AgreeAnswer
<1>6. Agree'
  BY <1>1, <1>3, <1>4, <1>5, AgreeOther DEF Next
<1> QED
  BY <1>2, <1>6 DEF RInv

(* Agreed ends read every polynomial in the ring it was written in.        *)
LEMMA AgreedRead ==
  ASSUME RInv
  PROVE  ReadAsWritten
<1>1. /\ Len(ToServer) \in Nat /\ Len(ToClient) \in Nat
      /\ ToServer \in Seq(Messages) /\ ToClient \in Seq(Messages)
      /\ ToServer = <<>> <=> Len(ToServer) = 0
      /\ ToClient = <<>> <=> Len(ToClient) = 0
      /\ \A k \in 1 .. Len(ToServer) : ToServer[k] \in Messages
      /\ \A k \in 1 .. Len(ToClient) : ToClient[k] \in Messages
      /\ DOMAIN ToServer = 1 .. Len(ToServer) /\ DOMAIN ToClient = 1 .. Len(ToClient)
  BY Directions, LenProperties DEF RInv
<1>2. ASSUME NEW k \in 1 .. Len(ToServer), Kind(ToServer[k]) = "6"
      PROVE  Class(ToServer[k]) = Before(k)
  <2>1. CASE file
    BY <1>2, <2>1 DEF RInv, Agree, FileInv
  <2>2. CASE ~file
    <3>1. k = 1
      BY <1>1, <1>2, <2>2 DEF RInv, Agree, ProcessInv
    <3>2. Kind(ToServer[1]) = "6" => Class(ToServer[1]) = LinkRing("server")
      BY <1>1, <1>2, <2>2 DEF RInv, Agree, ProcessInv
    <3> QED
      BY <1>2, <3>1, <3>2 DEF Before
  <2> QED
    BY <2>1, <2>2
<1>3. ASSUME NEW k \in 1 .. Len(ToClient), Kind(ToClient[k]) = "6"
      PROVE  Class(ToClient[k]) = IF k > 1 THEN Class(ToClient[k - 1]) ELSE LinkRing("client")
  <2>1. ~file
    BY <1>1 DEF RInv, BInv, CountInv
  <2>2. k = 1 /\ InTurn(ToClient[k])
    BY <1>1, <1>3, <2>1 DEF RInv, Agree, ProcessInv
  <2> QED
    BY <1>3, <2>2 DEF InTurn
<1>4. \A k \in 1 .. Len(ToServer) : RingBefore("server", k) = Before(k)
  BY DEF RingBefore, Before, Class, ToServer, LinkRing
<1>5. \A k \in 1 .. Len(ToClient) :
        RingBefore("client", k) = IF k > 1 THEN Class(ToClient[k - 1]) ELSE LinkRing("client")
  BY DEF RingBefore, Class, ToClient, LinkRing
<1>6. ASSUME NEW k \in DOMAIN chan["server"]
      PROVE  /\ Kind(chan["server"][k]) = "6" => Class(chan["server"][k]) = RingBefore("server", k)
             /\ chan["server"][k] \in Messages
  BY <1>1, <1>2, <1>4 DEF ToServer
<1>7. ASSUME NEW k \in DOMAIN chan["client"]
      PROVE  /\ Kind(chan["client"][k]) = "6" => Class(chan["client"][k]) = RingBefore("client", k)
             /\ chan["client"][k] \in Messages
  BY <1>1, <1>3, <1>5 DEF ToClient
<1>8. ASSUME NEW s \in Sides, NEW k \in DOMAIN chan[s]
      PROVE  /\ Kind(chan[s][k]) = "6" => Class(chan[s][k]) = RingBefore(s, k)
             /\ \A j \in DOMAIN chan[s][k] : chan[s][k][j].class = Class(chan[s][k])
  <2>1. CASE s = "server"
    BY <1>6, <1>8, <2>1, MessageFacts
  <2>2. CASE s = "client"
    BY <1>7, <1>8, <2>2, MessageFacts
  <2> QED
    BY <2>1, <2>2, TwoEnds
<1> QED
  BY <1>8 DEF ReadAsWritten, Kind, Class

(* What the owners of rings own is well formed.                            *)
LEMMA OwnedTypes ==
  ASSUME BInv
  PROVE  TypeOK
<1>1. \A s \in Sides : side[s] \in Memory
  BY DEF BInv, MemoryInv, Sound
<1>2. \A k \in DOMAIN ToServer : ToServer[k] \in Messages
  BY Directions, LenProperties
<1>3. \A k \in DOMAIN ToClient : ToClient[k] \in Messages
  BY Directions, LenProperties
<1>4. \A s \in Sides : \A k \in DOMAIN chan[s] : chan[s][k] \in Messages
  BY <1>2, <1>3, TwoEnds DEF ToServer, ToClient
<1>5. \A s \in Sides : \A k \in DOMAIN chan[s] :
        chan[s][k] \in Seq([kind : {"5", "6", "15"}, class : Classes])
  BY <1>4, MessageFacts
<1>6. answered \in 0 .. asked /\ asked \in 0 .. MaxRequests
      /\ {file, moved} \subseteq BOOLEAN
  BY Directions DEF BInv, CountInv, MemoryInv
<1> QED
  BY <1>1, <1>5, <1>6 DEF TypeOK

(* The invariant that ties the two ends together.                          *)
THEOREM AgreeInvariance == RingsAlone => (Spec => []RInv)
<1> SUFFICES ASSUME RingsAlone PROVE Spec => []RInv
  OBVIOUS
<1>1. Init => RInv
  BY OwnedInit, AgreeInit DEF RInv
<1>2. RInv /\ [Next]_vars => RInv'
  BY AgreeNext
<1> QED
  BY <1>1, <1>2, PTL DEF Spec

(* A client that sends nothing ahead of an answer and writes no ring to a  *)
(* file reads, and has its process read, every polynomial in the ring it   *)
(* was written in, though it may change its basering in between.           *)
THEOREM RingsCorrect == RingsAlone => (Spec => []RingsSafe)
<1> SUFFICES ASSUME RingsAlone PROVE Spec => []RingsSafe
  OBVIOUS
<1>1. RInv => TypeOK /\ ReadAsWritten
  BY OwnedTypes, AgreedRead DEF RInv
<1>2. Spec => []NoEarlyFree
  BY RingsOwned
<1>3. Spec => []RInv
  BY AgreeInvariance
<1>4. TypeOK /\ ReadAsWritten /\ NoEarlyFree => RingsSafe
  BY DEF RingsSafe
<1> QED
  BY <1>1, <1>2, <1>3, <1>4, PTL
=============================================================================

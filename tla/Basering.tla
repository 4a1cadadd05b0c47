------------------------------ MODULE Basering ------------------------------
(***************************************************************************)
(* Procedure levels, identifiers and rings of the interpreter.  A ring is  *)
(* shared by hand-counted references: identifiers and values own it, while *)
(* currRing and iiLocalRing only point to it.  Every call remembers the    *)
(* basering, the procedure may change it, define and kill rings, keep or   *)
(* export them and return them, itself or in a list, and at its end the    *)
(* basering is restored and everything local is killed.                    *)
(*                                                                         *)
(* memory is all of it: ids the package's list of identifiers, the newest  *)
(* first; rings those not deleted; polys[r] the levels at which the ring's *)
(* own list has a polynomial f; level myynest; local iiLocalRing, of which *)
(* the elements below myynest are of use; keeps the negation of            *)
(* iiNoKeepRing.  An identifier is known by its name and level.            *)
(***************************************************************************)
EXTENDS Integers, FiniteSets, Sequences, SequencesExt

CONSTANTS Names,
          Rings,       \* bound: rings at a time
          NoRing,
          MaxIds,      \* bound: identifiers at a time
          MaxPolys,    \* bound: polynomials at a time
          MaxLeaks,    \* bound: references a ring counts that nobody has
          SI_MAX_NEST

VARIABLE memory

NoHandle == <<>>

H(id) == <<id.name, id.lev>>
Handles(m) == {H(m.ids[i]) : i \in DOMAIN m.ids}
Id(m, h) == m.ids[CHOOSE i \in DOMAIN m.ids : H(m.ids[i]) = h]
InPlace(m, h, id) == [m EXCEPT !.ids = [i \in DOMAIN @ |-> IF H(@[i]) = h THEN id ELSE @[i]]]

FirstOf(m, found) ==
  IF found = {} THEN NoHandle ELSE H(m.ids[CHOOSE i \in found : \A j \in found : i <= j])

(* The identifier of that name at the level, or else the global one.       *)
Get(m, name, level) ==
  LET at(l) == {i \in DOMAIN m.ids : m.ids[i].name = name /\ m.ids[i].lev = l}
  IN  FirstOf(m, IF at(level) # {} THEN at(level) ELSE at(0))

rFindHdl(m, r, n) ==
  FirstOf(m, {i \in DOMAIN m.ids : m.ids[i].ring = r /\ H(m.ids[i]) # n})

rSetHdl(m, h) ==
  [m EXCEPT !.currRing = IF h = NoHandle THEN NoRing ELSE Id(m, h).ring, !.currRingHdl = h]

-----------------------------------------------------------------------------
(* Killing.                                                                *)
rDelete(m, r) ==
  [m EXCEPT !.rings = @ \ {r}, !.ref[r] = 0, !.polys[r] = <<>>,
            !.local = [j \in DOMAIN @ |-> IF @[j] = r THEN NoRing ELSE @[j]],
            !.currRing = IF @ = r THEN NoRing ELSE @,
            !.currRingHdl = IF m.currRing = r THEN NoHandle ELSE @]

rKill(m, r) == IF m.ref[r] <= 0 THEN rDelete(m, r) ELSE [m EXCEPT !.ref[r] = @ - 1]

(* Faulty: the handle of the basering is left when another has the ring.   *)
rKillIdNoFind(m, h) == rKill(m, Id(m, h).ring)

rKillId(m, h) ==
  LET r == Id(m, h).ring  killed == rKill(m, r) IN
  IF killed.currRingHdl # h THEN killed
  ELSE IF m.ref[r] <= 0 THEN [killed EXCEPT !.currRing = NoRing, !.currRingHdl = NoHandle]
  ELSE [killed EXCEPT !.currRingHdl = rFindHdl(killed, r, h)]

s_internalDelete(m, r) == IF r # m.currRing \/ m.ref[r] >= 0 THEN rKill(m, r) ELSE m

killhdl2(m, h) ==
  LET killed == IF Id(m, h).ring # NoRing THEN rKillId(m, h) ELSE m
  IN  [killed EXCEPT !.ids = SelectSeq(@, LAMBDA id : H(id) # h)]

(* The locals of a ring that is returned: unless something was exported,   *)
(* they stand before those of other levels.                                *)
killlocals0(m, v, r) ==
  LET ps == m.polys[r]
      others == {i \in DOMAIN ps : ps[i] > 0 /\ ps[i] < v}
      seen == IF m.keeps \/ others = {} THEN Len(ps) ELSE (CHOOSE i \in others : \A j \in others : i <= j) - 1
  IN  [m EXCEPT !.polys[r] = SelectSeq(SubSeq(ps, 1, seen), LAMBDA l : l < v) \o SubSeq(ps, seen + 1, Len(ps))]

killlocals_rec(m, v) ==
  LET Body(k, id) ==
        IF id.lev >= v THEN killhdl2(k, H(id))
        ELSE [k EXCEPT !.polys[id.ring] = SelectSeq(@, LAMBDA l : l < v)]
  IN  FoldLeft(Body, m, m.ids)

killlocals(m, v, ret) ==
  LET sh == m.currRingHdl
      gone == killlocals_rec(m, v)
      visits == ret.typ = "list" /\ gone.polys[ret.ring] # <<>>
      rest == IF ret.typ = "ring" \/ visits THEN killlocals0(gone, v, ret.ring) ELSE gone
      moved == visits /\ ret.ring # gone.currRing
      changed == (sh # NoHandle /\ (Id(m, sh).lev < v \/ m.ref[Id(m, sh).ring] > 0)) \/ moved
      h == rFindHdl(rest, m.currRing, NoHandle)
      k == IF ~changed THEN rest
           ELSE [rest EXCEPT !.currRingHdl = h, !.currRing = IF h = NoHandle THEN NoRing ELSE m.currRing]
  IN  IF m.level <= 1 THEN [k EXCEPT !.keeps = FALSE] ELSE k

-----------------------------------------------------------------------------
(* enterid: a new identifier at the head, in place of one of its level.    *)
CanEnter(m) == Len(m.ids) < MaxIds

enterid(m, name) ==
  LET k == IF <<name, m.level>> \in Handles(m) THEN killhdl2(m, <<name, m.level>>) ELSE m
      id == [name |-> name, lev |-> m.level, ring |-> NoRing]
  IN  [k EXCEPT !.ids = <<id>> \o @]

(* The first identifier, after enterid the new one.                        *)
New(m) == H(m.ids[1])

(* l the identifier assigned to, of a ring whose handle is from, or of a   *)
(* value, whose memory is looked at in the place of a handle's level.      *)
jiA_RING(m, l, r, outer) ==
  LET old == Id(m, l)
      k == IF old.ring # NoRing THEN rKillId(m, l) ELSE m
      a == InPlace(k, l, [old EXCEPT !.ring = r])
  IN  [a EXCEPT !.ref[r] = @ + 1,
                !.currRingHdl = IF outer /\ r = a.currRing THEN l ELSE @]

Visible(m) == {Get(m, n, m.level) : n \in Names} \ {NoHandle}
Local(m, h) == Id(m, h).lev = m.level

-----------------------------------------------------------------------------
Init ==
  memory = [ids |-> <<>>, rings |-> {}, ref |-> [r \in Rings |-> 0], polys |-> [r \in Rings |-> <<>>],
            level |-> 0, local |-> <<>>,
            currRing |-> NoRing, currRingHdl |-> NoHandle, keeps |-> FALSE]

Becomes(m) == memory' = m

(* ring name = ...: the new ring is the basering.                          *)
RingCmd(name) ==
  /\ CanEnter(memory)
  /\ LET k == enterid(memory, name)  h == New(k) IN
     \E r \in Rings \ memory.rings :
       Becomes(rSetHdl(InPlace([k EXCEPT !.rings = @ \union {r}], h, [Id(k, h) EXCEPT !.ring = r]), h))

(* def name = a                                                            *)
Define(name, a) ==
  /\ CanEnter(memory)
  /\ LET k == enterid(memory, name) IN
     a \in Visible(k) \ {New(k)} /\ Becomes(jiA_RING(k, New(k), Id(k, a).ring, ~Local(k, a)))

(* name = a                                                                *)
Assign(l, a) == l # a /\ Becomes(jiA_RING(memory, l, Id(memory, a).ring, ~Local(memory, a)))

SetRing(h) == Becomes(rSetHdl(memory, h))

(* poly f: one of the same level is redefined.                             *)
PolyCmd ==
  LET m == memory  r == m.currRing IN
  /\ r # NoRing /\ Cardinality({<<q, i>> \in Rings \X (1 .. MaxPolys) : i <= Len(m.polys[q])}) < MaxPolys
  /\ Becomes([m EXCEPT !.polys[r] = <<m.level>> \o SelectSeq(@, LAMBDA l : l # m.level)])

Kill(h) == Becomes(killhdl2(memory, h))

(* The identifier h is moved to the level toLev.                           *)
iiInternalExport(m, h, toLev) ==
  LET id == Id(m, h)  to == <<id.name, toLev>>
      there == to \in Handles(m)
      k == IF ~there THEN m
           ELSE killhdl2(IF m.local[1] = Id(m, to).ring
                         THEN [m EXCEPT !.local[1] = NoRing] ELSE m, to)
  IN  IF id.lev = 0 THEN m
      ELSE IF there /\ id.ring = Id(m, to).ring THEN [m EXCEPT !.ref[id.ring] = @ + 1]
      ELSE [InPlace(k, h, [id EXCEPT !.lev = toLev])
              EXCEPT !.keeps = TRUE, !.currRingHdl = IF @ = h THEN to ELSE @]

(* Onto an identifier of the same ring a reference is counted that nobody  *)
(* has: MaxLeaks at most.                                                  *)
Owners(m, r) == {i \in DOMAIN m.ids : m.ids[i].ring = r}

MayExport(h, toLev) ==
  LET m == memory  r == Id(m, h).ring  to == <<Id(m, h).name, toLev>>  leaks == to \in Handles(m) /\ Id(m, to).ring = r IN
  /\ m.level > 0
  /\ leaks /\ to # h => m.ref[r] + 1 < Cardinality(Owners(m, r)) + MaxLeaks

Export(h) == MayExport(h, 0) /\ Becomes(iiInternalExport(memory, h, 0))

(* The polynomials of a ring that is kept go with it: one of the level     *)
(* before, or else a global one, is killed.                                *)
PolysKept(m, r) ==
  LET prevlev == m.level - 1  ps == m.polys[r]
      old == IF prevlev \in Range(ps) THEN prevlev ELSE 0
      kept == IF m.level \in Range(ps) THEN SelectSeq(ps, LAMBDA l : l # old) ELSE ps
  IN  [m EXCEPT !.polys[r] = [i \in DOMAIN kept |-> IF kept[i] = m.level THEN prevlev ELSE kept[i]]]

KeepRing(h) ==
  LET m == memory  r == Id(m, h).ring
      k == IF Id(m, h).lev = 0 THEN m ELSE PolysKept(iiInternalExport(m, h, m.level - 1), r)
      there == IF Id(m, h).lev = 0 \/ h \in Handles(k) THEN h ELSE <<Id(m, h).name, m.level - 1>>
  IN  /\ m.level > 0
      /\ Id(m, h).lev > 0 => MayExport(h, m.level - 1)
      /\ Becomes(rSetHdl([k EXCEPT !.local[m.level] = r], there))

-----------------------------------------------------------------------------
(* Calls.                                                                  *)
Nothing == [typ |-> "none", ring |-> NoRing]

(* Faulty: the basering is restored and its handle is not.                 *)
RestoredRingOnly(m) ==
  LET L == Last(m.local)
      k == [m EXCEPT !.currRing = L]
      h == k.currRingHdl
  IN  IF L = NoRing /\ h # NoHandle THEN [k EXCEPT !.currRing = Id(k, h).ring] ELSE k

Restored(m) ==
  LET L == Last(m.local)
      k == [m EXCEPT !.currRing = L]
      h == k.currRingHdl
  IN  IF L = NoRing /\ h # NoHandle THEN [k EXCEPT !.currRing = Id(k, h).ring]
      ELSE IF L # NoRing /\ (h = NoHandle \/ Id(k, h).ring # L \/ Id(k, h).lev >= k.level - 1)
      THEN rSetHdl([k EXCEPT !.local[k.level] = NoRing], rFindHdl(k, L, NoHandle))
      ELSE k

RingChanged(m, v) == v.typ = "poly" /\ Last(m.local) # m.currRing

Left(m, v) == [killlocals(Restored(m), m.level, v) EXCEPT !.level = @ - 1, !.local = Front(@)]

(* An error ends all the procedures under way.                             *)
Failed(m) == FoldLeft(LAMBDA k, i : Left(k, Nothing), m, [i \in 1 .. m.level |-> i])

Call(arg, name) ==
  LET m == memory
      k == [m EXCEPT !.local = Append(@, m.currRing), !.level = @ + 1]
  IN  IF m.level = SI_MAX_NEST THEN Becomes(Failed(m))
      ELSE IF arg = NoHandle THEN Becomes(k)
      ELSE /\ CanEnter(m)
           /\ LET p == enterid(k, name)
              IN  Becomes(jiA_RING(p, New(p), Id(m, arg).ring, TRUE))

RingValues(m) ==
  {Nothing}
    \union {[typ |-> t, ring |-> Id(m, h).ring] : t \in {"ring", "list"}, h \in Visible(m)}
    \union (IF m.currRing = NoRing THEN {} ELSE {[typ |-> "poly", ring |-> m.currRing]})

Returned(v) ==
  LET m == memory
      copied == IF v.typ \in {"ring", "list"} THEN [m EXCEPT !.ref[v.ring] = @ + 1] ELSE m
  IN  Left(copied, v)

Return(v) ==
  /\ memory.level > 0
  /\ v \in RingValues(memory) /\ v.typ \in {"none", "poly"}
  /\ Becomes(IF RingChanged(memory, v) THEN Failed(memory) ELSE Returned(v))

Assigned(m, l, r) ==
  \E outer \in BOOLEAN : Becomes(s_internalDelete(jiA_RING(m, l, r, outer), r))

Received(m, r, name) ==
  LET old == Get(m, name, m.level)  k == enterid(m, name) IN
  IF old # NoHandle THEN Assigned(m, old, r) ELSE CanEnter(m) /\ Assigned(k, New(k), r)

(* name = p(), name = p()[1], or the same with def: what jiA_RING reads as *)
(* the level of a handle is a part of the ring.                            *)
ReturnRing(v, name) ==
  /\ memory.level > 0
  /\ v \in RingValues(memory) /\ v.typ \in {"ring", "list"}
  /\ Received(Returned(v), v.ring, name)

Error == memory.level > 0 /\ Becomes(Failed(memory))

Next ==
  \/ PolyCmd \/ Error
  \/ \E name \in Names :
       \/ RingCmd(name)
       \/ \E a \in Visible(memory) : Define(name, a)
       \/ \E v \in RingValues(memory) : ReturnRing(v, name)
       \/ \E arg \in Visible(memory) \union {NoHandle} : Call(arg, name)
  \/ \E h \in Visible(memory) :
       \/ Kill(h) \/ Export(h) \/ SetRing(h) \/ KeepRing(h)
       \/ \E a \in Visible(memory) : Assign(h, a)
  \/ \E v \in RingValues(memory) : Return(v)

Spec == Init /\ [][Next]_memory

-----------------------------------------------------------------------------
(* Types; and no two identifiers have the same name and level.             *)
TypeOK ==
  LET m == memory IN
  /\ m.rings \subseteq Rings
  /\ m.level \in 0 .. SI_MAX_NEST /\ Len(m.local) = m.level
  /\ \A i \in DOMAIN m.ids : m.ids[i].ring \in Rings
  /\ Cardinality(Handles(m)) = Len(m.ids)

(* However rings are shared, redefined, returned, kept and killed, none is *)
(* deleted while somebody has it, and none is left that nobody has: the    *)
(* count of a ring is that of its owners and of what exports leaked.       *)
CountsOwners ==
  /\ \A i \in DOMAIN memory.ids : memory.ids[i].ring \in memory.rings
  /\ \A r \in memory.rings :
       memory.ref[r] + 1 - Cardinality(Owners(memory, r)) \in 0 .. MaxLeaks

(* The basering, the handle by which it is known and the baserings that    *)
(* the calls under way will restore are still there and fit together.      *)
BaseringLives ==
  LET m == memory IN
  /\ m.currRing \in m.rings \union {NoRing}
  /\ m.currRingHdl # NoHandle =>
       m.currRingHdl \in Handles(m) /\ Id(m, m.currRingHdl).ring = m.currRing
  /\ \A j \in DOMAIN m.local : m.local[j] \in m.rings \union {NoRing}

(* Nothing of a deeper level is found by its name, in the package or in a  *)
(* ring, however the ring was shared, kept and returned.                   *)
NothingLocalLeft ==
  LET m == memory IN
  \A i \in DOMAIN m.ids :
    m.ids[i].lev <= m.level /\ \A l \in Range(m.polys[m.ids[i].ring]) : l <= m.level

(* Rings are counted exactly, what points to them points to live ones, and *)
(* a call leaves nothing of its own behind.                                *)
RingsSafe == TypeOK /\ CountsOwners /\ BaseringLives /\ NothingLocalLeft

Refers(m, h, r, level) ==
  h \in Handles(m) /\ Id(m, h).ring = r /\ Id(m, h).lev <= level

(* A call gives its caller back the basering, or the one that was kept for *)
(* it, as long as it still has an identifier outside of the call.          *)
CallRestores ==
  LET level == memory'.level  L == memory.local[level + 1] IN
  level < memory.level =>
    (L # NoRing /\ (\E h \in Handles(memory) : Refers(memory, h, L, level) /\ Refers(memory', h, L, level))
       => memory'.currRing = L)
=============================================================================

--------------------------- MODULE SsiLinksProofs ---------------------------
(***************************************************************************)
(* Theorems about the links of one Singular: with children that die when   *)
(* they are told to, or unasked wherever the interpreter holds nothing the *)
(* handler frees (Held), the interpreter, the SIGCHLD handler and the exit *)
(* routine never use freed memory, and the list ssiToBeClosed has exactly  *)
(* the open links.                                                         *)
(***************************************************************************)
EXTENDS SsiLinks, FiniteSetTheorems, TLAPS

Opened == 1 .. opens

(* slClose from where the link is marked closed to where its data is reset.*)
Marked == {"reap", "unlink", "first", "walk", "free", "closed"}

(* The program runs, or closes a link and will run on, or has just begun   *)
(* to end: as long as the handler closes links.                            *)
Normal ==
  \/ pc \in {"idle", "push", "fork", "pid", "reading", "quit", "prep"}
  \/ pc \in {"close"} \union Marked /\ back = "idle"

Live == {m \in OnList : child[m] # "failed"}

-----------------------------------------------------------------------------
(* A node is pushed in front of older ones, so numbers fall along the list.*)
ListInv ==
  /\ opens \in 0 .. MaxOpens /\ head \in Opened \union {NULL}
  /\ \A n \in Ids : next[n] < n
  /\ OnList \subseteq nodes /\ nodes \subseteq Opened
  /\ \A n \in Opened : owner[n] \in Links

(* The data of a link is that of its last open; a node on the list is that *)
(* of the data of its link, or its fork has failed.                        *)
DataInv ==
  /\ \A l \in Links : data[l] # NULL =>
       /\ data[l] \in Opened /\ owner[data[l]] = l /\ child[data[l]] # "failed"
       /\ \A m \in Opened : owner[m] = l => m <= data[l]
       /\ data[l] \in infos \/ (pc = "closed" /\ l = lnk)
  /\ \A m \in Live : data[owner[m]] = m

(* A child runs from its fork until it is waited for; a child that was     *)
(* told to end is being waited for.                                        *)
ChildInv ==
  /\ infos \subseteq Opened /\ pids \subseteq Opened
  /\ \A n \in Ids \ Opened : child[n] = "none"
  /\ \A n \in pids : child[n] \in {"running", "zombie", "reaped"}
  /\ \A n \in Ids : child[n] = "zombie" => n \in told
  /\ \A n \in told : child[n] \in {"running", "zombie"} => pc = "reap" /\ d = n
  /\ ReapedWhenFreed

(* The link the interpreter opens or closes.                               *)
LinkInv ==
  /\ pc \in {"push", "fork", "pid", "reading", "close"} \union Marked => lnk \in Links
  /\ pc \in {"push", "fork", "pid", "reading"} \union Marked => data[lnk] = d
  /\ pc \in {"push", "fork", "pid", "reading"} \union (Marked \ {"closed"}) => d # NULL
  /\ pc \in {"push", "fork"} => d = opens /\ child[d] = "none"
  /\ pc \in {"push", "fork", "pid"} => d \notin pids
  /\ pc \in {"push", "fork", "pid"} => flag[lnk]
  /\ pc = "push" => d \in nodes \ OnList /\ next[d] = head
  /\ pc \in {"fork", "pid"} => d \in OnList
  /\ pc = "pid" => child[d] = "running"
  /\ pc \in Marked => ~flag[lnk]
  /\ pc \in {"unlink", "first", "walk", "free"} /\ d \in pids => child[d] = "reaped"
  /\ pc \in {"first", "walk"} => hh \in OnList
  /\ pc = "first" => hh = head
  /\ pc = "prep" => hh \in OnList \union {NULL}
  /\ pc = "walk" => \A m \in OnList : m >= hh => owner[m] # lnk
  /\ pc \in {"free", "closed"} => d \notin OnList
  /\ pc = "closed" => d \notin infos

(* A link with data is open, on the list and has a running child, unless   *)
(* it is being opened or closed, or SIGTERM came before its pid was set.   *)
Settled(l) ==
  data[l] # NULL =>
    flag[l] /\ data[l] \in OnList /\ data[l] \in pids /\ child[data[l]] = "running"

SettledInv ==
  /\ inactive <=> Normal
  /\ Normal =>
       /\ pc \in {"close"} \union Marked => deferred
       /\ \A l \in Links :
            \/ Settled(l)
            \/ pc \in {"push", "fork", "pid"} \union Marked /\ l = lnk
            \/ pc \in {"quit", "prep"} /\ data[l] \notin pids

LInv == TypeOK /\ ListInv /\ DataInv /\ ChildInv /\ LinkInv /\ SettledInv

-----------------------------------------------------------------------------
(* Lemmas about lists: what can be reached from a node.                    *)

Places   == Ids \union {NULL}
Lists    == [Ids -> Places]
Down(nx) == \A n \in Ids : nx[n] < n

(* The reachable nodes are the least set with the first and what follows.  *)
LEMMA ReachLeast ==
  ASSUME NEW nx \in Lists, NEW h \in Places
  PROVE  /\ Reachable(nx, h) \subseteq Ids
         /\ h # NULL => h \in Reachable(nx, h)
         /\ \A k \in Reachable(nx, h) : nx[k] \in Reachable(nx, h) \union {NULL}
         /\ \A S \in SUBSET Ids :
              h \in S \union {NULL} /\ (\A k \in S : nx[k] \in S \union {NULL})
                => Reachable(nx, h) \subseteq S
<1>1. Reachable(nx, h) \subseteq Ids
  BY DEF Reachable
<1>2. h # NULL => h \in Reachable(nx, h)
  BY DEF Reachable, Places
<1>3. ASSUME NEW k \in Reachable(nx, h), nx[k] # NULL
      PROVE  nx[k] \in Reachable(nx, h)
  <2>1. nx[k] \in Ids
    BY <1>1, <1>3 DEF Lists, Places
  <2>2. ASSUME NEW S \in SUBSET Ids,
               h \in S \union {NULL}, \A j \in S : nx[j] \in S \union {NULL}
        PROVE  nx[k] \in S
    <3>1. k \in S
      BY <2>2 DEF Reachable
    <3> QED
      BY <1>3, <2>2, <3>1
  <2> QED
    BY <2>1, <2>2 DEF Reachable
<1>4. ASSUME NEW S \in SUBSET Ids,
             h \in S \union {NULL}, \A k \in S : nx[k] \in S \union {NULL}
      PROVE  Reachable(nx, h) \subseteq S
  BY <1>4 DEF Reachable
<1> QED
  BY <1>1, <1>2, <1>3, <1>4

(* The first node, and what can be reached from the next one.              *)
LEMMA ReachStep ==
  ASSUME NEW nx \in Lists, NEW h \in Ids
  PROVE  Reachable(nx, h) = {h} \union Reachable(nx, nx[h])
<1> DEFINE A == Reachable(nx, h)
           B == Reachable(nx, nx[h])
<1>1. nx[h] \in Places /\ h \in Places
  BY DEF Lists, Places
<1>2. h # NULL
  BY LinksAssumption DEF Ids, NULL
<1>3. /\ A \subseteq Ids /\ h \in A /\ \A k \in A : nx[k] \in A \union {NULL}
      /\ \A S \in SUBSET Ids :
              h \in S \union {NULL} /\ (\A k \in S : nx[k] \in S \union {NULL}) => A \subseteq S
  BY <1>1, <1>2, ReachLeast
<1>4. /\ B \subseteq Ids /\ (nx[h] # NULL => nx[h] \in B) /\ \A k \in B : nx[k] \in B \union {NULL}
      /\ \A S \in SUBSET Ids :
              nx[h] \in S \union {NULL} /\ (\A k \in S : nx[k] \in S \union {NULL}) => B \subseteq S
  BY <1>1, ReachLeast
<1> HIDE DEF A, B
<1>5. A \subseteq {h} \union B
  <2>1. {h} \union B \in SUBSET Ids /\ h \in ({h} \union B) \union {NULL}
    BY <1>4
  <2>2. \A k \in {h} \union B : nx[k] \in ({h} \union B) \union {NULL}
    BY <1>4
  <2> QED
    BY <1>3, <2>1, <2>2
<1>6. B \subseteq A
  BY <1>3, <1>4
<1> QED
  BY <1>3, <1>5, <1>6 DEF A, B

(* Nothing can be reached from the end of a list.                          *)
LEMMA ReachNone ==
  ASSUME NEW nx \in Lists
  PROVE  Reachable(nx, NULL) = {}
<1>1. NULL \in Places /\ {} \in SUBSET Ids
  BY DEF Places
<1>2. PICK h \in Places : h = NULL
  BY <1>1
<1>3. \A S \in SUBSET Ids :
        h \in S \union {NULL} /\ (\A k \in S : nx[k] \in S \union {NULL})
          => Reachable(nx, h) \subseteq S
  BY ReachLeast
<1>4. h \in {} \union {NULL} /\ \A k \in {} : nx[k] \in {} \union {NULL}
  BY <1>2
<1>5. Reachable(nx, h) \subseteq {}
  BY <1>1, <1>3, <1>4
<1> QED
  BY <1>2, <1>5

(* What can be reached from a node that can be reached.                    *)
LEMMA ReachInside ==
  ASSUME NEW nx \in Lists, NEW h \in Places, NEW m \in Reachable(nx, h)
  PROVE  Reachable(nx, m) \subseteq Reachable(nx, h)
<1>1. /\ Reachable(nx, h) \in SUBSET Ids
      /\ \A k \in Reachable(nx, h) : nx[k] \in Reachable(nx, h) \union {NULL}
  BY ReachLeast
<1>2. m \in Places
  BY <1>1 DEF Places
<1> QED
  BY <1>1, <1>2, ReachLeast

(* Numbers fall along a list that is pushed at its front.                  *)
LEMMA ReachBelow ==
  ASSUME NEW nx \in Lists, NEW h \in Places, Down(nx), NEW m \in Reachable(nx, h)
  PROVE  m <= h
<1> DEFINE S == {k \in Ids : k <= h}
<1>1. \A k \in Ids : nx[k] \in S \union {NULL} \/ ~(k <= h)
  <2> SUFFICES ASSUME NEW k \in Ids, k <= h, nx[k] # NULL PROVE nx[k] \in S
    OBVIOUS
  <2>1. nx[k] \in Ids /\ nx[k] < k
    BY DEF Lists, Places, Down
  <2>2. nx[k] \in Int /\ k \in Int /\ h \in Int
    BY <2>1, LinksAssumption DEF Places, Ids, NULL
  <2> QED
    BY <2>1, <2>2
<1>2. h \in S \union {NULL}
  BY LinksAssumption DEF Places, Ids, NULL
<1>3. Reachable(nx, h) \subseteq S
  BY <1>1, <1>2, ReachLeast
<1> QED
  BY <1>3

(* Of two nodes of a list one comes after the other.                       *)
LEMMA ReachTotal ==
  ASSUME NEW nx \in Lists, NEW h \in Places,
         NEW m \in Reachable(nx, h), NEW k \in Reachable(nx, h)
  PROVE  m \in Reachable(nx, k) \/ k \in Reachable(nx, m)
<1> DEFINE S == {j \in Reachable(nx, h) : j \in Reachable(nx, k) \/ k \in Reachable(nx, j)}
<1>1. /\ Reachable(nx, h) \subseteq Ids
      /\ \A j \in Reachable(nx, h) : nx[j] \in Reachable(nx, h) \union {NULL}
      /\ h # NULL => h \in Reachable(nx, h)
  BY ReachLeast
<1>2. h \in S \union {NULL}
  BY <1>1
<1>3. ASSUME NEW j \in S PROVE nx[j] \in S \union {NULL}
  <2>1. nx[j] \in Reachable(nx, h) \union {NULL} /\ j \in Ids /\ k \in Ids
    BY <1>1
  <2>2. Reachable(nx, j) = {j} \union Reachable(nx, nx[j])
    BY <2>1, ReachStep
  <2>3. CASE j \in Reachable(nx, k)
    <3>1. nx[j] \in Reachable(nx, k) \union {NULL}
      BY <2>1, <2>3, ReachLeast DEF Places
    <3> QED
      BY <2>1, <3>1
  <2>4. CASE k \in Reachable(nx, j)
    <3>1. CASE k = j
      <4>1. nx[j] \in Reachable(nx, k) \union {NULL}
        BY <2>1, <3>1, ReachLeast DEF Places
      <4> QED
        BY <2>1, <4>1
    <3>2. CASE k # j
      BY <2>1, <2>2, <2>4, <3>2
    <3> QED
      BY <3>1, <3>2
  <2> QED
    BY <2>3, <2>4
<1>4. Reachable(nx, h) \subseteq S
  <2>1. S \in SUBSET Ids
    BY <1>1
  <2> HIDE DEF S
  <2> QED
    BY <1>2, <1>3, <2>1, ReachLeast
<1> QED
  BY <1>4

(* No node of the list is between a node and the next one.                 *)
LEMMA ReachNext ==
  ASSUME NEW nx \in Lists, NEW h \in Places, Down(nx),
         NEW m \in Reachable(nx, h), NEW k \in Reachable(nx, h), m < k
  PROVE  m \in Reachable(nx, nx[k]) /\ m <= nx[k]
<1>1. m \in Ids /\ k \in Ids /\ m \in Int /\ k \in Int
  BY ReachLeast, LinksAssumption DEF Ids
<1>2. m \in Reachable(nx, k)
  <2>1. ~(k \in Reachable(nx, m))
    BY <1>1, ReachBelow DEF Places
  <2> QED
    BY <2>1, ReachTotal
<1>3. m \in Reachable(nx, nx[k])
  BY <1>1, <1>2, ReachStep
<1>4. nx[k] \in Places
  BY <1>1 DEF Lists
<1> QED
  BY <1>3, <1>4, ReachBelow

(* A list is what its nodes link to.                                       *)
LEMMA ReachSame ==
  ASSUME NEW nx \in Lists, NEW ny \in Lists, NEW h \in Places,
         \A k \in Reachable(nx, h) : ny[k] = nx[k]
  PROVE  Reachable(ny, h) = Reachable(nx, h)
<1> DEFINE A == Reachable(nx, h)
           B == Reachable(ny, h)
<1>1. /\ A \subseteq Ids /\ (h # NULL => h \in A) /\ \A k \in A : nx[k] \in A \union {NULL}
      /\ \A S \in SUBSET Ids :
              h \in S \union {NULL} /\ (\A k \in S : nx[k] \in S \union {NULL}) => A \subseteq S
  BY ReachLeast
<1>2. /\ B \subseteq Ids /\ (h # NULL => h \in B) /\ \A k \in B : ny[k] \in B \union {NULL}
      /\ \A S \in SUBSET Ids :
              h \in S \union {NULL} /\ (\A k \in S : ny[k] \in S \union {NULL}) => B \subseteq S
  BY ReachLeast
<1>3. \A k \in A : ny[k] = nx[k]
  OBVIOUS
<1> HIDE DEF A, B
<1>4. B \subseteq A
  BY <1>1, <1>2, <1>3
<1>5. A \subseteq B
  <2>1. A \cap B \in SUBSET Ids /\ h \in (A \cap B) \union {NULL}
    BY <1>1, <1>2
  <2>2. \A k \in A \cap B : nx[k] \in (A \cap B) \union {NULL}
    BY <1>1, <1>2, <1>3
  <2> QED
    BY <1>1, <2>1, <2>2
<1> QED
  BY <1>4, <1>5 DEF A, B

(* One node is taken out: those that link to it link to the one after it,  *)
(* and the list is what it was without it.                                 *)
LEMMA ReachRemove ==
  ASSUME NEW nx \in Lists, NEW ny \in Lists, NEW h \in Places, NEW g \in Places, Down(nx),
         NEW x \in Reachable(nx, h),
         \A k \in Ids : ny[k] = nx[k] \/ (nx[k] = x /\ ny[k] = nx[x]),
         \A k \in Reachable(nx, h) : nx[k] = x => ny[k] = nx[x],
         g = IF h = x THEN nx[x] ELSE h
  PROVE  Reachable(ny, g) = Reachable(nx, h) \ {x} /\ Down(ny)
<1> DEFINE A == Reachable(nx, h)
           B == Reachable(ny, g)
<1>1. /\ A \subseteq Ids /\ (h # NULL => h \in A) /\ \A k \in A : nx[k] \in A \union {NULL}
      /\ \A S \in SUBSET Ids :
              h \in S \union {NULL} /\ (\A k \in S : nx[k] \in S \union {NULL}) => A \subseteq S
  BY ReachLeast
<1>2. /\ B \subseteq Ids /\ (g # NULL => g \in B) /\ \A k \in B : ny[k] \in B \union {NULL}
      /\ \A S \in SUBSET Ids :
              g \in S \union {NULL} /\ (\A k \in S : ny[k] \in S \union {NULL}) => B \subseteq S
  BY ReachLeast
<1>3. x \in A /\ \A k \in A : nx[k] = x => ny[k] = nx[x]
  OBVIOUS
<1>4. x \in Ids /\ x # NULL /\ nx[x] < x /\ nx[x] # x
  BY <1>1, <1>3, LinksAssumption DEF Down, Ids, NULL, Lists, Places
<1>5. Down(ny)
  <2> SUFFICES ASSUME NEW k \in Ids PROVE ny[k] < k
    BY DEF Down
  <2>1. nx[k] < k /\ nx[x] < x
    BY <1>4 DEF Down
  <2>2. nx[x] \in Int /\ x \in Int /\ k \in Int
    BY <1>4, LinksAssumption DEF Lists, Places, Ids, NULL
  <2> QED
    BY <2>1, <2>2
<1> HIDE DEF A, B
<1>6. B \subseteq A \ {x}
  <2>1. g \in (A \ {x}) \union {NULL}
    BY <1>1, <1>3, <1>4 DEF Places
  <2>2. \A k \in A \ {x} : ny[k] \in (A \ {x}) \union {NULL}
    BY <1>1, <1>3, <1>4
  <2> QED
    BY <1>1, <1>2, <2>1, <2>2
<1>7. A \ {x} \subseteq B
  <2> DEFINE S == B \union {k \in {x} : nx[x] \in B \union {NULL}}
  <2>1. S \in SUBSET Ids
    BY <1>2, <1>4
  <2>2. h \in S \union {NULL}
    BY <1>2, <1>4 DEF Places
  <2>3. \A k \in S : nx[k] \in S \union {NULL}
    BY <1>1, <1>2, <1>3, <1>4
  <2>4. A \subseteq S
    BY <1>1, <2>1, <2>2, <2>3
  <2> QED
    BY <2>4
<1> QED
  BY <1>5, <1>6, <1>7 DEF A, B
-----------------------------------------------------------------------------
(* The invariant holds initially, and every step preserves it.             *)

(* The numbers of opens.                                                   *)
LEMMA IdFacts ==
  /\ MaxOpens \in Nat /\ NULL = 0 /\ NULL \notin Ids /\ Ids \subseteq Nat
  /\ \A n \in Ids : n \in Int /\ n >= 1 /\ n <= MaxOpens
  BY LinksAssumption DEF Ids, NULL

(* The links are in their tables.                                          *)
LEMMA ListTypes ==
  ASSUME LInv
  PROVE  /\ next \in Lists /\ head \in Places /\ Down(next) /\ OnList = Reachable(next, head)
         /\ OnList \subseteq nodes /\ OnList \subseteq Opened /\ Opened \subseteq Ids
         /\ opens \in Nat /\ NULL \notin Opened
         /\ \A m \in OnList : owner[m] \in Links /\ m \in Int /\ m <= head
         /\ Live \subseteq OnList
<1>1. next \in Lists /\ head \in Places
  BY DEF LInv, TypeOK, Lists, Places
<1>2. Down(next) /\ OnList = Reachable(next, head)
  BY DEF LInv, ListInv, Down, OnList
<1>3. OnList \subseteq nodes /\ OnList \subseteq Opened /\ \A m \in OnList : owner[m] \in Links
  BY DEF LInv, ListInv
<1>4. opens \in Nat /\ Opened \subseteq Ids /\ NULL \notin Opened
  BY IdFacts DEF LInv, ListInv, Opened, Ids
<1>5. \A m \in OnList : m \in Int /\ m <= head
  BY <1>1, <1>2, <1>3, <1>4, IdFacts, ReachBelow
<1> QED
  BY <1>1, <1>2, <1>3, <1>4, <1>5 DEF Live

(* The invariant holds when Singular starts.                               *)
LEMMA LinksInit == Init => LInv
<1> SUFFICES ASSUME Init PROVE LInv
  OBVIOUS
<1>1. /\ flag = [l \in Links |-> FALSE] /\ data = [l \in Links |-> NULL]
      /\ infos = {} /\ pids = {} /\ nodes = {} /\ opens = 0
      /\ head = NULL /\ next = [n \in Ids |-> NULL] /\ owner = [n \in Ids |-> none]
      /\ child = [n \in Ids |-> "none"] /\ told = {}
      /\ inactive = TRUE /\ doShutdown = FALSE /\ killed = {}
      /\ pc = "idle" /\ lnk = none /\ d = NULL /\ hh = NULL
      /\ back = "idle" /\ deferred = FALSE
  BY DEF Init
<1>2. next \in Lists
  BY <1>1 DEF Lists, Places
<1>3. OnList = {}
  BY <1>1, <1>2, ReachNone DEF OnList
<1>4. Opened = {}
  BY <1>1 DEF Opened
<1>5. TypeOK
  BY <1>1, LinksAssumption DEF TypeOK
<1>6. ListInv
  BY <1>1, <1>3, <1>4, IdFacts DEF ListInv
<1>7. DataInv
  BY <1>1, <1>3 DEF DataInv, Live
<1>8. ChildInv
  BY <1>1, <1>4 DEF ChildInv, ReapedWhenFreed
<1>9. LinkInv
  BY <1>1, <1>3 DEF LinkInv, Marked
<1>10. SettledInv
  BY <1>1 DEF SettledInv, Settled, Normal, Marked
<1> QED
  BY <1>5, <1>6, <1>7, <1>8, <1>9, <1>10 DEF LInv

(* The interpreter starts to read from an open link.                       *)
LEMMA LinksRead ==
  ASSUME LInv, NEW l \in Links, Read(l)
  PROVE  LInv'
<1>1. /\ pc = "idle" /\ flag[l] /\ data[l] # NULL
      /\ pc' = "reading" /\ lnk' = l /\ d' = data[l]
      /\ UNCHANGED <<flag, data, infos, pids, head, next, owner, nodes, opens, child, told,
                     inactive, hh, back, deferred, doShutdown, killed>>
  BY DEF Read, info, list, kids
<1>2. OnList' = OnList /\ Live' = Live /\ Opened' = Opened
  BY <1>1 DEF OnList, Live, Opened
<1>3. TypeOK'
  BY <1>1 DEF LInv, TypeOK
<1>4. ListInv'
  BY <1>1, <1>2 DEF LInv, ListInv
<1>5. DataInv'
  BY <1>1, <1>2 DEF LInv, DataInv
<1>6. ChildInv'
  BY <1>1, <1>2 DEF LInv, ChildInv, ReapedWhenFreed
<1>7. LinkInv'
  BY <1>1, <1>2 DEF LInv, LinkInv, Marked
<1>8. SettledInv'
  BY <1>1, <1>2 DEF LInv, SettledInv, Settled, Normal, Marked
<1> QED
  BY <1>3, <1>4, <1>5, <1>6, <1>7, <1>8 DEF LInv

(* A link is closed by the program.                                        *)
LEMMA LinksClose ==
  ASSUME LInv, NEW l \in Links, slClose(l)
  PROVE  LInv'
<1>1. /\ pc = "idle" /\ flag[l]
      /\ pc' = "close" /\ lnk' = l /\ back' = "idle" /\ deferred' = TRUE
      /\ UNCHANGED <<flag, data, infos, pids, head, next, owner, nodes, opens,
                     child, told, inactive, d, hh, doShutdown, killed>>
  BY DEF slClose, info, list, kids, intr, Goto
<1>2. OnList' = OnList /\ Opened' = Opened /\ Live' = Live
  BY <1>1 DEF OnList, Live, Opened
<1>3. TypeOK'
  BY <1>1, <1>2 DEF LInv, TypeOK
<1>4. ListInv'
  BY <1>1, <1>2 DEF LInv, ListInv
<1>5. DataInv'
  BY <1>1, <1>2 DEF LInv, DataInv
<1>6. ChildInv'
  BY <1>1, <1>2 DEF LInv, ChildInv, ReapedWhenFreed
<1>7. LinkInv'
  BY <1>1, <1>2 DEF LInv, LinkInv, Marked
<1>8. SettledInv'
  BY <1>1, <1>2 DEF LInv, SettledInv, Settled, Normal, Marked
<1> QED
  BY <1>3, <1>4, <1>5, <1>6, <1>7, <1>8 DEF LInv

(* A child is running as long as a link reads from it.                     *)
LEMMA ReadsFromRunning ==
  ASSUME LInv, pc = "reading"
  PROVE  child[d] = "running"
<1>1. lnk \in Links /\ data[lnk] = d /\ d # NULL
  BY DEF LInv, LinkInv
<1>2. Settled(lnk)
  BY <1>1 DEF LInv, SettledInv, Normal, Marked
<1> QED
  BY <1>1, <1>2 DEF Settled

(* An answer.                                                              *)
LEMMA LinksReadReturns ==
  ASSUME LInv, ReadReturns
  PROVE  LInv'
<1>1. /\ pc = "reading" /\ pc' = "idle"
      /\ UNCHANGED <<flag, data, infos, pids, head, next, owner, nodes, opens,
                     child, told, inactive, lnk, d, hh, back, deferred,
                     doShutdown, killed>>
  BY ReadsFromRunning DEF ReadReturns, info, list, kids, Goto
<1>2. OnList' = OnList /\ Opened' = Opened /\ Live' = Live
  BY <1>1 DEF OnList, Live, Opened
<1>3. TypeOK'
  BY <1>1, <1>2 DEF LInv, TypeOK
<1>4. ListInv'
  BY <1>1, <1>2 DEF LInv, ListInv
<1>5. DataInv'
  BY <1>1, <1>2 DEF LInv, DataInv
<1>6. ChildInv'
  BY <1>1, <1>2 DEF LInv, ChildInv, ReapedWhenFreed
<1>7. LinkInv'
  BY <1>1, <1>2 DEF LInv, LinkInv, Marked
<1>8. SettledInv'
  BY <1>1, <1>2 DEF LInv, SettledInv, Settled, Normal, Marked
<1> QED
  BY <1>3, <1>4, <1>5, <1>6, <1>7, <1>8 DEF LInv

(* The end of the program.                                                 *)
LEMMA LinksQuit ==
  ASSUME LInv, QuitCommand
  PROVE  LInv'
<1>1. /\ pc = "idle" /\ pc' = "quit"
      /\ UNCHANGED <<flag, data, infos, pids, head, next, owner, nodes, opens,
                     child, told, inactive, lnk, d, hh, back, deferred,
                     doShutdown, killed>>
  BY DEF QuitCommand, info, list, kids, intr, Goto
<1>2. OnList' = OnList /\ Opened' = Opened /\ Live' = Live
  BY <1>1 DEF OnList, Live, Opened
<1>3. TypeOK'
  BY <1>1, <1>2 DEF LInv, TypeOK
<1>4. ListInv'
  BY <1>1, <1>2 DEF LInv, ListInv
<1>5. DataInv'
  BY <1>1, <1>2 DEF LInv, DataInv
<1>6. ChildInv'
  BY <1>1, <1>2 DEF LInv, ChildInv, ReapedWhenFreed
<1>7. LinkInv'
  BY <1>1, <1>2 DEF LInv, LinkInv, Marked
<1>8. SettledInv'
  BY <1>1, <1>2 DEF LInv, SettledInv, Settled, Normal, Marked
<1> QED
  BY <1>3, <1>4, <1>5, <1>6, <1>7, <1>8 DEF LInv

(* The exit routine begins, once.                                          *)
LEMMA LinksEnd ==
  ASSUME LInv, m2_end
  PROVE  LInv'
<1>1. /\ pc = "quit" /\ pc' = "prep" /\ inactive /\ hh' = head
      /\ UNCHANGED <<flag, data, infos, pids, head, next, owner, nodes, opens,
                     child, told, inactive, lnk, d, back, deferred, doShutdown,
                     killed>>
  <2>1. pc = "quit"
    BY DEF m2_end
  <2>2. inactive
    BY <2>1 DEF LInv, SettledInv, Normal
  <2> QED
    BY <2>1, <2>2 DEF m2_end, info, list, kids
<1>9. head \in OnList \union {NULL} /\ head \in Ids \union {NULL}
  BY ListTypes, ReachLeast DEF Places
<1>2. OnList' = OnList /\ Opened' = Opened /\ Live' = Live
  BY <1>1 DEF OnList, Live, Opened
<1>3. TypeOK'
  BY <1>1, <1>2, <1>9 DEF LInv, TypeOK
<1>4. ListInv'
  BY <1>1, <1>2 DEF LInv, ListInv
<1>5. DataInv'
  BY <1>1, <1>2 DEF LInv, DataInv
<1>6. ChildInv'
  BY <1>1, <1>2 DEF LInv, ChildInv, ReapedWhenFreed
<1>7. LinkInv'
  BY <1>1, <1>2, <1>9 DEF LInv, LinkInv, Marked
<1>8. SettledInv'
  BY <1>1, <1>2 DEF LInv, SettledInv, Settled, Normal, Marked
<1> QED
  BY <1>3, <1>4, <1>5, <1>6, <1>7, <1>8 DEF LInv

(* Its first loop, with the handler active.                                *)
LEMMA LinksPrep ==
  ASSUME LInv, slPrepClose
  PROVE  LInv'
<1>1. /\ pc = "prep"
      /\ \/ hh # NULL /\ hh' = next[hh] /\ pc' = pc /\ inactive' = inactive
         \/ hh' = hh /\ pc' = "kill" /\ inactive' = FALSE
      /\ UNCHANGED <<flag, data, infos, pids, head, next, owner, nodes, opens,
                     child, told, lnk, d, back, deferred, doShutdown, killed>>
  BY DEF slPrepClose, info, list, kids, Goto
<1>2. OnList' = OnList /\ Opened' = Opened /\ Live' = Live
  BY <1>1 DEF OnList, Live, Opened
<1>9. hh # NULL => next[hh] \in OnList \union {NULL} /\ next[hh] \in Ids \union {NULL}
  <2>1. hh \in OnList \union {NULL}
    BY <1>1 DEF LInv, LinkInv
  <2>2. hh # NULL => next[hh] \in OnList \union {NULL}
    BY <2>1, ListTypes, ReachLeast
  <2> QED
    BY <2>2, ListTypes
<1>3. TypeOK'
  BY <1>1, <1>2, <1>9 DEF LInv, TypeOK
<1>4. ListInv'
  BY <1>1, <1>2 DEF LInv, ListInv
<1>5. DataInv'
  BY <1>1, <1>2 DEF LInv, DataInv
<1>6. ChildInv'
  BY <1>1, <1>2 DEF LInv, ChildInv, ReapedWhenFreed
<1>7. LinkInv'
  BY <1>1, <1>2, <1>9 DEF LInv, LinkInv, Marked
<1>8. SettledInv'
  BY <1>1, <1>2 DEF LInv, SettledInv, Settled, Normal, Marked
<1> QED
  BY <1>3, <1>4, <1>5, <1>6, <1>7, <1>8 DEF LInv

(* The list is searched for the link from its first node.                  *)
LEMMA LinksUnlink ==
  ASSUME LInv, Unlink
  PROVE  LInv'
<1>1. /\ pc = "unlink" /\ hh' = head
      /\ pc' = IF head = NULL THEN "free" ELSE "first"
      /\ UNCHANGED <<flag, data, infos, pids, head, next, owner, nodes, opens,
                     child, told, inactive, lnk, d, back, deferred,
                     doShutdown, killed>>
  BY DEF Unlink, info, list, kids, intr, Goto
<1>2. OnList' = OnList /\ Opened' = Opened /\ Live' = Live
  BY <1>1 DEF OnList, Live, Opened
<1>3. TypeOK'
  BY <1>1, <1>2 DEF LInv, TypeOK
<1>4. ListInv'
  BY <1>1, <1>2 DEF LInv, ListInv
<1>5. DataInv'
  BY <1>1, <1>2 DEF LInv, DataInv
<1>6. ChildInv'
  BY <1>1, <1>2 DEF LInv, ChildInv, ReapedWhenFreed
<1>7. LinkInv'
  <2>1. head = NULL => OnList = {}
    BY ListTypes, ReachNone
  <2>2. head # NULL => head \in OnList
    BY ListTypes, ReachLeast
  <2> QED
    BY <1>1, <1>2, <2>1, <2>2 DEF LInv, LinkInv, Marked
<1>8. SettledInv'
  BY <1>1, <1>2 DEF LInv, SettledInv, Settled, Normal, Marked
<1> QED
  BY <1>3, <1>4, <1>5, <1>6, <1>7, <1>8 DEF LInv

(* The child of an open runs.                                              *)
LEMMA LinksFork ==
  ASSUME LInv, Fork
  PROVE  LInv'
<1>1. /\ pc = "fork" /\ pc' = "pid"
      /\ child' = [child EXCEPT ![d] = "running"]
      /\ UNCHANGED <<flag, data, infos, pids, head, next, owner, nodes, opens, told,
                     inactive, lnk, d, hh, back, deferred, doShutdown,
                     killed>>
  BY DEF Fork, info, list, kids, intr, Goto
<1>2. OnList' = OnList /\ Opened' = Opened
  BY <1>1 DEF OnList, Live, Opened
<1>9. d \in Opened /\ d \in Ids /\ child[d] = "none" /\ Live' = Live /\ d \notin pids
  BY <1>1, <1>2, ListTypes DEF LInv, LinkInv, DataInv, TypeOK, Live
<1>10. child'[d] = "running" /\ (\A n \in Ids \ {d} : child'[n] = child[n]) /\ d \notin told
  BY <1>1, <1>9 DEF LInv, TypeOK
<1>3. TypeOK'
  BY <1>1, <1>2, <1>9 DEF LInv, TypeOK
<1>4. ListInv'
  BY <1>1, <1>2 DEF LInv, ListInv
<1>5. DataInv'
  BY <1>1, <1>2, <1>9 DEF LInv, DataInv
<1>6. ChildInv'
  BY <1>1, <1>2, <1>9, <1>10 DEF LInv, ChildInv, ReapedWhenFreed
<1>7. LinkInv'
  BY <1>1, <1>2, <1>9, <1>10 DEF LInv, LinkInv, Marked
<1>8. SettledInv'
  BY <1>1, <1>2, <1>9 DEF LInv, SettledInv, Settled, Normal, Marked
<1> QED
  BY <1>3, <1>4, <1>5, <1>6, <1>7, <1>8 DEF LInv

(* Two links have no data in common.                                       *)
LEMMA OwnData ==
  ASSUME LInv, NEW l \in Links, NEW k \in Links, data[l] # NULL, data[l] = data[k]
  PROVE  l = k
  BY DEF LInv, DataInv

(* A fork fails: the node stays on the list.                               *)
LEMMA LinksForkFailed ==
  ASSUME LInv, ForkFailed
  PROVE  LInv'
<1>1. /\ pc = "fork" /\ pc' = "idle"
      /\ data' = [data EXCEPT ![lnk] = NULL] /\ infos' = infos \ {d}
      /\ child' = [child EXCEPT ![d] = "failed"]
      /\ UNCHANGED <<flag, pids, head, next, owner, nodes, opens, told, inactive,
                     lnk, d, hh, back, deferred, doShutdown, killed>>
  BY DEF ForkFailed, info, list, kids, intr, Goto
<1>2. OnList' = OnList /\ Opened' = Opened
  BY <1>1 DEF OnList, Live, Opened
<1>9. /\ d \in Opened /\ d \in Ids /\ child[d] = "none" /\ d \notin pids /\ lnk \in Links
      /\ data[lnk] = d /\ d # NULL
  BY <1>1, <1>2, ListTypes DEF LInv, LinkInv, DataInv
<1>10. /\ child'[d] = "failed" /\ (\A n \in Ids \ {d} : child'[n] = child[n]) /\ d \notin told
       /\ data'[lnk] = NULL /\ \A l \in Links \ {lnk} : data'[l] = data[l] /\ data[l] # d
  BY <1>1, <1>9, OwnData DEF LInv, TypeOK
<1>11. \A m \in Live' : m \in Live /\ m # d /\ m \in OnList
  BY <1>2, <1>10, ListTypes DEF Live
<1>12. \A m \in Live' : owner[m] # lnk /\ owner[m] \in Links
  BY <1>9, <1>11, ListTypes DEF LInv, DataInv
<1>3. TypeOK'
  BY <1>1, <1>2, <1>9, <1>10, <1>11, <1>12 DEF LInv, TypeOK
<1>4. ListInv'
  BY <1>1, <1>2, <1>9, <1>10, <1>11, <1>12 DEF LInv, ListInv
<1>5. DataInv'
  BY <1>1, <1>2, <1>9, <1>10, <1>11, <1>12 DEF LInv, DataInv
<1>6. ChildInv'
  BY <1>1, <1>2, <1>9, <1>10, <1>11, <1>12 DEF LInv, ChildInv, ReapedWhenFreed
<1>7. LinkInv'
  BY <1>1, <1>2, <1>9, <1>10, <1>11, <1>12 DEF LInv, LinkInv, Marked
<1>8. SettledInv'
  BY <1>1, <1>2, <1>9, <1>10, <1>11, <1>12 DEF LInv, SettledInv, Settled, Normal, Marked
<1> QED
  BY <1>3, <1>4, <1>5, <1>6, <1>7, <1>8 DEF LInv

(* The interpreter knows the child.                                        *)
LEMMA LinksSetPid ==
  ASSUME LInv, SetPid
  PROVE  LInv'
<1>1. /\ pc = "pid" /\ pc' = "idle" /\ pids' = pids \union {d}
      /\ UNCHANGED <<flag, data, infos, head, next, owner, nodes, opens, child,
                     told, inactive, lnk, d, hh, back, deferred,
                     doShutdown, killed>>
  BY DEF SetPid, info, list, kids, intr, Goto
<1>2. OnList' = OnList /\ Opened' = Opened /\ Live' = Live
  BY <1>1 DEF OnList, Live, Opened
<1>9. /\ d \in Opened /\ d \in Ids /\ child[d] = "running" /\ lnk \in Links
      /\ data[lnk] = d /\ d # NULL /\ d \in infos /\ d \in OnList /\ flag[lnk]
  BY <1>1, <1>2, ListTypes DEF LInv, LinkInv, DataInv
<1>3. TypeOK'
  BY <1>1, <1>2, <1>9 DEF LInv, TypeOK
<1>4. ListInv'
  BY <1>1, <1>2, <1>9 DEF LInv, ListInv
<1>5. DataInv'
  BY <1>1, <1>2, <1>9 DEF LInv, DataInv
<1>6. ChildInv'
  BY <1>1, <1>2, <1>9 DEF LInv, ChildInv, ReapedWhenFreed
<1>7. LinkInv'
  BY <1>1, <1>2, <1>9 DEF LInv, LinkInv, Marked
<1>8. SettledInv'
  BY <1>1, <1>2, <1>9 DEF LInv, SettledInv, Settled, Normal, Marked
<1> QED
  BY <1>3, <1>4, <1>5, <1>6, <1>7, <1>8 DEF LInv

(* The link is marked closed, and its child is told to end.                *)
LEMMA LinksCloseStarts ==
  ASSUME LInv, CloseStarts
  PROVE  LInv'
<1>1. /\ pc = "close" /\ pc' = IF data[lnk] = NULL THEN "closed" ELSE "reap"
      /\ flag' = [flag EXCEPT ![lnk] = FALSE] /\ d' = data[lnk]
      /\ told' = IF data[lnk] \in pids THEN told \union {data[lnk]} ELSE told
      /\ UNCHANGED <<data, infos, pids, head, next, owner, nodes, opens, child,
                     inactive, lnk, hh, back, deferred, doShutdown, killed>>
  BY DEF CloseStarts, info, list, kids, intr, Goto
<1>2. OnList' = OnList /\ Opened' = Opened /\ Live' = Live
  BY <1>1 DEF OnList, Live, Opened
<1>9. /\ lnk \in Links /\ ~flag'[lnk] /\ \A l \in Links \ {lnk} : flag'[l] = flag[l]
      /\ NULL \notin OnList /\ NULL \notin infos /\ NULL \notin pids
  BY <1>1, <1>2, ListTypes DEF LInv, LinkInv, TypeOK, ChildInv
<1>3. TypeOK'
  BY <1>1, <1>2, <1>9 DEF LInv, TypeOK
<1>4. ListInv'
  BY <1>1, <1>2, <1>9 DEF LInv, ListInv
<1>5. DataInv'
  BY <1>1, <1>2, <1>9 DEF LInv, DataInv
<1>6. ChildInv'
  BY <1>1, <1>2, <1>9 DEF LInv, ChildInv, ReapedWhenFreed
<1>7. LinkInv'
  BY <1>1, <1>2, <1>9 DEF LInv, LinkInv, Marked
<1>8. SettledInv'
  BY <1>1, <1>2, <1>9 DEF LInv, SettledInv, Settled, Normal, Marked
<1> QED
  BY <1>3, <1>4, <1>5, <1>6, <1>7, <1>8 DEF LInv

(* The child is waited for.                                                *)
LEMMA LinksReap ==
  ASSUME LInv, Reap
  PROVE  LInv'
<1>1. /\ pc = "reap" /\ pc' = "unlink"
      /\ child' = IF d \in pids /\ child[d] \in {"running", "zombie"}
                  THEN [child EXCEPT ![d] = "reaped"] ELSE child
      /\ UNCHANGED <<flag, data, infos, pids, head, next, owner, nodes, opens, told,
                     inactive, lnk, d, hh, back, deferred, doShutdown,
                     killed>>
  BY DEF Reap, info, list, kids, intr, Goto
<1>2. OnList' = OnList /\ Opened' = Opened
  BY <1>1 DEF OnList, Live, Opened
<1>9. d \in Ids /\ d \in Opened /\ d # NULL /\ lnk \in Links /\ data[lnk] = d /\ told \subseteq pids
  BY <1>1, ListTypes DEF LInv, LinkInv, Marked, DataInv, TypeOK
<1>10. /\ d \in pids => child'[d] = "reaped"
       /\ d \notin pids => child'[d] = child[d]
       /\ \A n \in Ids \ {d} : child'[n] = child[n]
  BY <1>1, <1>9 DEF LInv, TypeOK, ChildInv
<1>11. Live' = Live
  BY <1>2, <1>9, <1>10, ListTypes DEF Live, LInv, DataInv, ChildInv
<1>12. \A l \in Links \ {lnk} : data[l] # d
  BY <1>9, OwnData
<1>3. TypeOK'
  BY <1>1, <1>2, <1>9, <1>10, <1>11, <1>12 DEF LInv, TypeOK
<1>4. ListInv'
  BY <1>1, <1>2, <1>9, <1>10, <1>11, <1>12 DEF LInv, ListInv
<1>5. DataInv'
  BY <1>1, <1>2, <1>9, <1>10, <1>11, <1>12 DEF LInv, DataInv
<1>6. ChildInv'
  BY <1>1, <1>2, <1>9, <1>10, <1>11, <1>12 DEF LInv, ChildInv, ReapedWhenFreed
<1>7. LinkInv'
  BY <1>1, <1>2, <1>9, <1>10, <1>11, <1>12 DEF LInv, LinkInv, Marked
<1>8. SettledInv'
  BY <1>1, <1>2, <1>9, <1>10, <1>11, <1>12 DEF LInv, SettledInv, Settled, Normal, Marked
<1> QED
  BY <1>3, <1>4, <1>5, <1>6, <1>7, <1>8 DEF LInv

(* The data of the link is freed.                                          *)
LEMMA LinksFree ==
  ASSUME LInv, Free
  PROVE  LInv'
<1>1. /\ pc = "free" /\ pc' = "closed" /\ infos' = infos \ {d}
      /\ UNCHANGED <<flag, data, pids, head, next, owner, nodes, opens, child, told,
                     inactive, lnk, d, hh, back, deferred, doShutdown,
                     killed>>
  BY DEF Free, info, list, kids, intr, Goto
<1>2. OnList' = OnList /\ Opened' = Opened /\ Live' = Live
  BY <1>1 DEF OnList, Live, Opened
<1>9. d \in Ids /\ d \in Opened /\ d # NULL /\ lnk \in Links /\ data[lnk] = d
  BY <1>1, ListTypes DEF LInv, LinkInv, Marked, DataInv
<1>10. \A l \in Links \ {lnk} : data[l] # d
  BY <1>9, OwnData
<1>11. \A n \in pids' \ infos' : child'[n] = "reaped"
  BY <1>1 DEF LInv, LinkInv, ChildInv, ReapedWhenFreed
<1>3. TypeOK'
  BY <1>1, <1>2, <1>9, <1>10, <1>11 DEF LInv, TypeOK
<1>4. ListInv'
  BY <1>1, <1>2, <1>9, <1>10, <1>11 DEF LInv, ListInv
<1>5. DataInv'
  BY <1>1, <1>2, <1>9, <1>10, <1>11 DEF LInv, DataInv
<1>6. ChildInv'
  BY <1>1, <1>2, <1>9, <1>10, <1>11 DEF LInv, ChildInv, ReapedWhenFreed
<1>7. LinkInv'
  BY <1>1, <1>2, <1>9, <1>10, <1>11 DEF LInv, LinkInv, Marked
<1>8. SettledInv'
  BY <1>1, <1>2, <1>9, <1>10, <1>11 DEF LInv, SettledInv, Settled, Normal, Marked
<1> QED
  BY <1>3, <1>4, <1>5, <1>6, <1>7, <1>8 DEF LInv

(* The link has no data any more.                                          *)
LEMMA LinksClosed ==
  ASSUME LInv, Closed
  PROVE  LInv'
<1>1. /\ pc = "closed" /\ pc' = IF doShutdown /\ back = "idle" THEN "quit" ELSE back
      /\ data' = [data EXCEPT ![lnk] = NULL] /\ deferred' = FALSE
      /\ lnk' = none /\ d' = NULL /\ hh' = NULL /\ back' = "idle"
      /\ UNCHANGED <<flag, infos, pids, head, next, owner, nodes, opens, child,
                     told, inactive, doShutdown, killed>>
  BY DEF Closed, info, list, kids, intr, Goto
<1>2. OnList' = OnList /\ Opened' = Opened /\ Live' = Live
  BY <1>1 DEF OnList, Live, Opened
<1>9. /\ lnk \in Links /\ data[lnk] = d /\ d \notin OnList
      /\ data'[lnk] = NULL /\ \A l \in Links \ {lnk} : data'[l] = data[l]
  BY <1>1 DEF LInv, LinkInv, Marked, TypeOK
<1>10. \A m \in Live : owner[m] # lnk /\ owner[m] \in Links
  BY <1>9, ListTypes DEF LInv, DataInv
<1>11. back \in {"idle", "kill", "loop"}
  BY DEF LInv, TypeOK
<1>3. TypeOK'
  BY <1>1, <1>2, <1>9, <1>10, <1>11 DEF LInv, TypeOK
<1>4. ListInv'
  BY <1>1, <1>2, <1>9, <1>10, <1>11 DEF LInv, ListInv
<1>5. DataInv'
  BY <1>1, <1>2, <1>9, <1>10, <1>11 DEF LInv, DataInv
<1>6. ChildInv'
  BY <1>1, <1>2, <1>9, <1>10, <1>11 DEF LInv, ChildInv, ReapedWhenFreed
<1>7. LinkInv'
  BY <1>1, <1>2, <1>9, <1>10, <1>11 DEF LInv, LinkInv, Marked
<1>8. SettledInv'
  BY <1>1, <1>2, <1>9, <1>10, <1>11 DEF LInv, SettledInv, Settled, Normal, Marked
<1> QED
  BY <1>3, <1>4, <1>5, <1>6, <1>7, <1>8 DEF LInv

(* A child ends because it was told to.                                    *)
LEMMA LinksChildExits ==
  ASSUME LInv, NEW n \in Ids, Crash # "any", ChildExits(n)
  PROVE  LInv'
<1>1. /\ child[n] = "running" /\ n \in told
      /\ child' = [child EXCEPT ![n] = "zombie"]
      /\ UNCHANGED <<flag, data, infos, pids, head, next, owner, nodes, opens, told,
                     inactive, pc, lnk, d, hh, back, deferred, doShutdown,
                     killed>>
  BY DEF ChildExits, info, list, kids, intr, Goto
<1>2. OnList' = OnList /\ Opened' = Opened
  BY <1>1 DEF OnList, Live, Opened
<1>9. pc = "reap" /\ d = n /\ lnk \in Links /\ data[lnk] = d /\ d # NULL
  BY <1>1 DEF LInv, ChildInv, LinkInv, Marked
<1>10. child'[n] = "zombie" /\ \A k \in Ids \ {n} : child'[k] = child[k]
  BY <1>1 DEF LInv, TypeOK
<1>11. Live' = Live
  BY <1>1, <1>2, <1>10, ListTypes DEF Live
<1>12. \A l \in Links \ {lnk} : data[l] # d
  BY <1>9, OwnData
<1>3. TypeOK'
  BY <1>1, <1>2, <1>9, <1>10, <1>11, <1>12 DEF LInv, TypeOK
<1>4. ListInv'
  BY <1>1, <1>2, <1>9, <1>10, <1>11, <1>12 DEF LInv, ListInv
<1>5. DataInv'
  BY <1>1, <1>2, <1>9, <1>10, <1>11, <1>12 DEF LInv, DataInv
<1>6. ChildInv'
  BY <1>1, <1>2, <1>9, <1>10, <1>11, <1>12 DEF LInv, ChildInv, ReapedWhenFreed
<1>7. LinkInv'
  BY <1>1, <1>2, <1>9, <1>10, <1>11, <1>12 DEF LInv, LinkInv, Marked
<1>8. SettledInv'
  BY <1>1, <1>2, <1>9, <1>10, <1>11, <1>12 DEF LInv, SettledInv, Settled, Normal, Marked
<1> QED
  BY <1>3, <1>4, <1>5, <1>6, <1>7, <1>8 DEF LInv

(* The handler, for a child that was told to end: its link is marked closed.*)
LEMMA LinksSigchld ==
  ASSUME LInv, NEW n \in Ids, Sigchld(n)
  PROVE  LInv'
<1>9. /\ child[n] = "zombie" /\ pc = "reap" /\ d = n
      /\ lnk \in Links /\ data[lnk] = d /\ d # NULL /\ ~flag[lnk]
  BY DEF Sigchld, LInv, ChildInv, LinkInv, Marked
<1>13. \A m \in NodesOf(n) : owner[m] = lnk
  BY <1>9, ListTypes, OwnData DEF NodesOf
<1>1. /\ child' = [child EXCEPT ![n] = "reaped"]
      /\ UNCHANGED <<flag, data, infos, pids, head, next, owner, nodes, opens, told,
                     inactive, pc, lnk, d, hh, back, deferred, doShutdown,
                     killed>>
  BY <1>9, <1>13 DEF Sigchld, sig_chld_hdl, info, list, intr
<1>2. OnList' = OnList /\ Opened' = Opened
  BY <1>1 DEF OnList, Live, Opened
<1>10. child'[n] = "reaped" /\ \A k \in Ids \ {n} : child'[k] = child[k]
  BY <1>1 DEF LInv, TypeOK
<1>11. Live' = Live
  BY <1>2, <1>9, <1>10, ListTypes DEF Live
<1>12. \A l \in Links \ {lnk} : data[l] # d
  BY <1>9, OwnData
<1>3. TypeOK'
  BY <1>1, <1>2, <1>9, <1>10, <1>11, <1>12 DEF LInv, TypeOK
<1>4. ListInv'
  BY <1>1, <1>2, <1>9, <1>10, <1>11, <1>12 DEF LInv, ListInv
<1>5. DataInv'
  BY <1>1, <1>2, <1>9, <1>10, <1>11, <1>12 DEF LInv, DataInv
<1>6. ChildInv'
  BY <1>1, <1>2, <1>9, <1>10, <1>11, <1>12 DEF LInv, ChildInv, ReapedWhenFreed
<1>7. LinkInv'
  BY <1>1, <1>2, <1>9, <1>10, <1>11, <1>12 DEF LInv, LinkInv, Marked
<1>8. SettledInv'
  BY <1>1, <1>2, <1>9, <1>10, <1>11, <1>12 DEF LInv, SettledInv, Settled, Normal, Marked
<1> QED
  BY <1>3, <1>4, <1>5, <1>6, <1>7, <1>8 DEF LInv

(* SIGTERM: it is put off while a link is closed.                          *)
LEMMA LinksTerm ==
  ASSUME LInv, sig_term_hdl
  PROVE  LInv'
<1>1. /\ pc' = pc \/ (pc' = "quit" /\ pc \in {"idle", "push", "fork", "pid", "reading"})
      /\ doShutdown' = TRUE
      /\ UNCHANGED <<flag, data, infos, pids, head, next, owner, nodes, opens,
                     child, told, inactive, lnk, d, hh, back, deferred,
                     killed>>
  <2>1. back = "idle" /\ pc \in {"close"} \union Marked => deferred
    BY DEF LInv, SettledInv, Normal
  <2>2. pc \in {"idle", "push", "fork", "pid", "reading", "close", "quit", "prep", "kill", "loop",
                 "exited"} \union Marked
    BY DEF LInv, TypeOK, Marked
  <2> QED
    BY <2>1, <2>2 DEF sig_term_hdl, info, list, kids, intr
<1>2. OnList' = OnList /\ Opened' = Opened /\ Live' = Live
  BY <1>1 DEF OnList, Live, Opened
<1>3. TypeOK'
  BY <1>1, <1>2 DEF LInv, TypeOK
<1>4. ListInv'
  BY <1>1, <1>2 DEF LInv, ListInv
<1>5. DataInv'
  BY <1>1, <1>2 DEF LInv, DataInv, Marked
<1>6. ChildInv'
  BY <1>1, <1>2 DEF LInv, ChildInv, ReapedWhenFreed, Marked
<1>7. LinkInv'
  BY <1>1, <1>2 DEF LInv, LinkInv, Marked
<1>8. SettledInv'
  <2>1. CASE pc' = pc
    BY <1>1, <1>2, <2>1 DEF LInv, SettledInv, Settled, Normal, Marked
  <2>2. CASE pc' = "quit" /\ pc \in {"idle", "push", "fork", "pid", "reading"}
    <3>1. pc \in {"push", "fork", "pid"} => data[lnk] \notin pids
      BY DEF LInv, LinkInv
    <3>2. \A l \in Links : Settled(l)' \/ data[l] \notin pids
      BY <1>1, <1>2, <2>2, <3>1 DEF LInv, SettledInv, Settled, Normal, Marked
    <3>3. inactive' /\ Normal'
      BY <1>1, <2>2 DEF LInv, SettledInv, Normal
    <3> QED
      BY <1>1, <2>2, <3>2, <3>3 DEF SettledInv, Marked
  <2> QED
    BY <1>1, <2>1, <2>2
<1> QED
  BY <1>3, <1>4, <1>5, <1>6, <1>7, <1>8 DEF LInv

(* Where the exit routine closes a link.                                   *)
LEMMA LinksQuitCloses ==
  ASSUME LInv, pc \in {"kill", "loop"}, pc' = "close", lnk' \in Links,
         back' \in {"kill", "loop"}, deferred' = TRUE,
         UNCHANGED <<flag, data, infos, pids, head, next, owner, nodes, opens,
                     child, told, inactive, d, hh, doShutdown, killed>>
  PROVE  LInv'
<1>2. OnList' = OnList /\ Opened' = Opened /\ Live' = Live
  BY DEF OnList, Live, Opened
<1>3. TypeOK'
  BY <1>2 DEF LInv, TypeOK
<1>4. ListInv'
  BY <1>2 DEF LInv, ListInv
<1>5. DataInv'
  BY <1>2 DEF LInv, DataInv
<1>6. ChildInv'
  BY <1>2 DEF LInv, ChildInv, ReapedWhenFreed
<1>7. LinkInv'
  BY <1>2 DEF LInv, LinkInv, Marked
<1>8. SettledInv'
  BY <1>2 DEF LInv, SettledInv, Settled, Normal, Marked
<1> QED
  BY <1>3, <1>4, <1>5, <1>6, <1>7, <1>8 DEF LInv

(* The exit routine kills the identifiers, and then goes through the list. *)
LEMMA LinksKill ==
  ASSUME LInv, KillIdentifier
  PROVE  LInv'
<1>1. CASE pc' = "close"
  <2>1. /\ pc = "kill" /\ lnk' \in Links /\ back' = "kill" /\ deferred' = TRUE
        /\ UNCHANGED <<flag, data, infos, pids, head, next, owner, nodes, opens,
                     child, told, inactive, d, hh, doShutdown, killed>>
    BY <1>1, LinksAssumption DEF KillIdentifier, info, list, kids, intr, Goto
  <2> QED
    BY <1>1, <2>1, LinksQuitCloses
<1>2. CASE pc' # "close"
  <2>1. /\ pc = "kill" /\ pc' \in {"kill", "loop"} /\ killed' \subseteq Top
        /\ UNCHANGED <<flag, data, infos, pids, head, next, owner, nodes, opens,
                     child, told, inactive, lnk, d, hh, back, deferred,
                     doShutdown>>
    BY <1>2 DEF KillIdentifier, info, list, kids, intr, Goto, LInv, TypeOK
  <2>2. OnList' = OnList /\ Opened' = Opened /\ Live' = Live
    BY <2>1 DEF OnList, Live, Opened
  <2>3. TypeOK'
    BY <2>1, <2>2 DEF LInv, TypeOK
  <2>4. ListInv'
    BY <2>1, <2>2 DEF LInv, ListInv
  <2>5. DataInv'
    BY <2>1, <2>2 DEF LInv, DataInv
  <2>6. ChildInv'
    BY <2>1, <2>2 DEF LInv, ChildInv, ReapedWhenFreed
  <2>7. LinkInv'
    BY <2>1, <2>2 DEF LInv, LinkInv, Marked
  <2>8. SettledInv'
    BY <2>1, <2>2 DEF LInv, SettledInv, Settled, Normal, Marked
  <2> QED
    BY <2>3, <2>4, <2>5, <2>6, <2>7, <2>8 DEF LInv
<1> QED
  BY <1>1, <1>2

(* The rest of the list.                                                  *)
LEMMA LinksRest ==
  ASSUME LInv, CloseRest
  PROVE  LInv'
<1>1. CASE pc' = "close"
  <2>1. head # NULL /\ head \in OnList /\ owner[head] \in Links
    <3>1. head # NULL
      BY <1>1 DEF CloseRest, Goto
    <3> QED
      BY <3>1, ListTypes, ReachLeast
  <2>2. /\ pc = "loop" /\ lnk' \in Links /\ back' = "loop" /\ deferred' = TRUE
        /\ UNCHANGED <<flag, data, infos, pids, head, next, owner, nodes, opens,
                     child, told, inactive, d, hh, doShutdown, killed>>
    BY <1>1, <2>1 DEF CloseRest, info, list, kids, intr, Goto
  <2> QED
    BY <1>1, <2>2, LinksQuitCloses
<1>2. CASE pc' # "close"
  <2>1. /\ pc = "loop" /\ pc' \in {"loop", "exited"}
        /\ UNCHANGED <<flag, data, infos, pids, head, next, owner, nodes, opens,
                     child, told, inactive, lnk, d, hh, back, deferred,
                     doShutdown, killed>>
    BY <1>2 DEF CloseRest, info, list, kids, intr, Goto
  <2>2. OnList' = OnList /\ Opened' = Opened /\ Live' = Live
    BY <2>1 DEF OnList, Live, Opened
  <2>3. TypeOK'
    BY <2>1, <2>2 DEF LInv, TypeOK
  <2>4. ListInv'
    BY <2>1, <2>2 DEF LInv, ListInv
  <2>5. DataInv'
    BY <2>1, <2>2 DEF LInv, DataInv
  <2>6. ChildInv'
    BY <2>1, <2>2 DEF LInv, ChildInv, ReapedWhenFreed
  <2>7. LinkInv'
    BY <2>1, <2>2 DEF LInv, LinkInv, Marked
  <2>8. SettledInv'
    BY <2>1, <2>2 DEF LInv, SettledInv, Settled, Normal, Marked
  <2> QED
    BY <2>3, <2>4, <2>5, <2>6, <2>7, <2>8 DEF LInv
<1> QED
  BY <1>1, <1>2

(* A link is opened: its node is not on the list yet.                      *)
LEMMA LinksOpen ==
  ASSUME LInv, NEW l \in Links, Open(l)
  PROVE  LInv'
<1>1. /\ pc = "idle" /\ pc' = "push" /\ ~flag[l] /\ opens < MaxOpens
      /\ opens' = opens + 1 /\ d' = opens + 1 /\ lnk' = l
      /\ flag' = [flag EXCEPT ![l] = TRUE] /\ data' = [data EXCEPT ![l] = opens + 1]
      /\ infos' = infos \union {opens + 1} /\ nodes' = nodes \union {opens + 1}
      /\ owner' = [owner EXCEPT ![opens + 1] = l] /\ next' = [next EXCEPT ![opens + 1] = head]
      /\ UNCHANGED <<pids, head, child, told, inactive, hh, back, deferred,
                     doShutdown, killed>>
  BY DEF Open, info, list, kids, intr, Goto
<1>2. PICK n \in Ids : n = opens + 1
  BY <1>1, ListTypes, IdFacts DEF Ids
<1>9. /\ Opened' = Opened \union {n} /\ n \notin Opened /\ n # NULL
      /\ \A m \in Opened : m < n
      /\ n \notin OnList /\ n \notin infos /\ n \notin pids /\ n \notin nodes /\ child[n] = "none"
  BY <1>1, <1>2, ListTypes, IdFacts DEF Opened, LInv, ListInv, ChildInv
<1>10. /\ data'[l] = n /\ (\A k \in Links \ {l} : data'[k] = data[k])
       /\ flag'[l] /\ (\A k \in Links \ {l} : flag'[k] = flag[k])
       /\ owner'[n] = l /\ (\A k \in Ids \ {n} : owner'[k] = owner[k])
       /\ next'[n] = head /\ (\A k \in Ids \ {n} : next'[k] = next[k])
  BY <1>1, <1>2 DEF LInv, TypeOK
<1>11. OnList' = OnList /\ head < n
  <2>1. next' \in Lists
    BY <1>1, <1>2, ListTypes DEF Lists
  <2>2. \A k \in OnList : next'[k] = next[k]
    BY <1>9, <1>10, ListTypes
  <2>3. Reachable(next', head) = Reachable(next, head)
    BY <2>1, <2>2, ListTypes, ReachSame
  <2>4. head < n
    BY <1>1, <1>2, IdFacts DEF LInv, ListInv, Opened
  <2> QED
    BY <1>1, <2>3, <2>4 DEF OnList
<1>12. Live' = Live
  BY <1>1, <1>11 DEF Live
<1>13. data[l] = NULL
  BY <1>1 DEF LInv, SettledInv, Settled, Normal, Marked
<1>15. /\ opens' = n /\ opens' \in Nat /\ n <= MaxOpens /\ d' = n /\ lnk' = l /\ n \in Int
       /\ infos' = infos \union {n} /\ nodes' = nodes \union {n}
  BY <1>1, <1>2, ListTypes, IdFacts
<1>16. /\ data' \in [Links -> Ids \union {NULL}] /\ flag' \in [Links -> BOOLEAN]
       /\ owner' \in [Ids -> Links \union {none}] /\ next' \in [Ids -> Ids \union {NULL}]
  BY <1>1, <1>2, ListTypes DEF LInv, TypeOK, Places
<1>14. Opened \subseteq Ids /\ OnList \subseteq Opened /\ told \subseteq pids
  BY ListTypes DEF LInv, TypeOK
<1>17. infos' \subseteq Ids /\ nodes' \subseteq Ids /\ lnk' \in Links \union {none} /\ head' \in Ids \union {NULL}
  BY <1>1, <1>2, <1>15 DEF LInv, TypeOK
<1>3. TypeOK'
  BY <1>1, <1>16, <1>17 DEF LInv, TypeOK
<1>4. ListInv'
  BY <1>1, <1>9, <1>10, <1>11, <1>14, <1>15, IdFacts DEF LInv, ListInv
<1>5. DataInv'
  BY <1>1, <1>9, <1>10, <1>12, <1>13, <1>14, <1>15, ListTypes, IdFacts DEF LInv, DataInv
<1>6. ChildInv'
  BY <1>1, <1>2, <1>9, <1>10, <1>11, <1>12, <1>13, <1>14 DEF LInv, ChildInv, ReapedWhenFreed
<1>7. LinkInv'
  BY <1>1, <1>2, <1>9, <1>10, <1>11, <1>12, <1>13, <1>14 DEF LInv, LinkInv, Marked
<1>8. SettledInv'
  BY <1>1, <1>2, <1>9, <1>10, <1>11, <1>12, <1>13, <1>14 DEF LInv, SettledInv, Settled, Normal, Marked
<1> QED
  BY <1>3, <1>4, <1>5, <1>6, <1>7, <1>8 DEF LInv

(* The node becomes the first of the list.                                 *)
LEMMA LinksPush ==
  ASSUME LInv, Push
  PROVE  LInv'
<1>1. /\ pc = "push" /\ pc' = "fork" /\ head' = d
      /\ UNCHANGED <<flag, data, infos, pids, next, owner, nodes, opens, child,
                     told, inactive, lnk, d, hh, back, deferred,
                     doShutdown, killed>>
  BY DEF Push, info, list, kids, intr, Goto
<1>2. Opened' = Opened
  BY <1>1 DEF Opened
<1>9. /\ lnk \in Links /\ data[lnk] = d /\ d \in Opened /\ d \in Ids /\ d # NULL /\ d = opens
      /\ d \notin pids /\ child[d] = "none" /\ flag[lnk] /\ d \notin OnList /\ next[d] = head
      /\ owner[d] = lnk
  BY <1>1, ListTypes DEF LInv, LinkInv, DataInv
<1>10. OnList' = OnList \union {d}
  <2>1. Reachable(next, d) = {d} \union Reachable(next, next[d])
    BY <1>9, ListTypes, ReachStep
  <2> QED
    BY <1>1, <1>9, <2>1, ListTypes DEF OnList
<1>11. Live' = Live \union {d}
  BY <1>1, <1>9, <1>10 DEF Live
<1>12. d \in nodes'
  BY <1>1, <1>9 DEF LInv, LinkInv
<1>3. TypeOK'
  BY <1>1, <1>2, <1>9, <1>10, <1>11, <1>12 DEF LInv, TypeOK
<1>4. ListInv'
  BY <1>1, <1>2, <1>9, <1>10, <1>11, <1>12 DEF LInv, ListInv
<1>5. DataInv'
  BY <1>1, <1>2, <1>9, <1>10, <1>11, <1>12 DEF LInv, DataInv
<1>6. ChildInv'
  BY <1>1, <1>2, <1>9, <1>10, <1>11, <1>12 DEF LInv, ChildInv, ReapedWhenFreed
<1>7. LinkInv'
  BY <1>1, <1>2, <1>9, <1>10, <1>11, <1>12 DEF LInv, LinkInv, Marked
<1>8. SettledInv'
  BY <1>1, <1>2, <1>9, <1>10, <1>11, <1>12 DEF LInv, SettledInv, Settled, Normal, Marked
<1> QED
  BY <1>3, <1>4, <1>5, <1>6, <1>7, <1>8 DEF LInv

(* A node of the link that is closed is taken off the list and freed.      *)
LEMMA LinksRemoved ==
  ASSUME LInv, pc \in {"first", "walk"}, pc' = "free",
         NEW x \in OnList, owner[x] = lnk, OnList' = OnList \ {x}, nodes' = nodes \ {x},
         next' \in Lists, Down(next'), head' \in Opened \union {NULL}, d \notin OnList',
         UNCHANGED <<flag, data, infos, pids, owner, opens, child, told, inactive,
                     lnk, d, hh, back, deferred, doShutdown, killed>>
  PROVE  LInv'
<1>1. Opened' = Opened
  BY DEF Opened
<1>2. Live' = Live \ {x}
  BY DEF Live
<1>9. /\ lnk \in Links /\ data[lnk] = d /\ d # NULL
      /\ \A l \in Links \ {lnk} : data[l] # NULL => data[l] # x
  BY DEF LInv, LinkInv, Marked, DataInv
<1>10. Opened \subseteq Ids /\ next' \in [Ids -> Ids \union {NULL}]
  BY ListTypes DEF Lists, Places
<1>3. TypeOK'
  BY <1>1, <1>2, <1>9, <1>10 DEF LInv, TypeOK
<1>4. ListInv'
  BY <1>1, <1>2, <1>9, <1>10 DEF LInv, ListInv, Down
<1>5. DataInv'
  BY <1>1, <1>2, <1>9, <1>10 DEF LInv, DataInv
<1>6. ChildInv'
  BY <1>1, <1>2, <1>9, <1>10 DEF LInv, ChildInv, ReapedWhenFreed
<1>7. LinkInv'
  BY <1>1, <1>2, <1>9, <1>10 DEF LInv, LinkInv, Marked
<1>8. SettledInv'
  BY <1>1, <1>2, <1>9, <1>10 DEF LInv, SettledInv, Settled, Normal, Marked
<1> QED
  BY <1>3, <1>4, <1>5, <1>6, <1>7, <1>8 DEF LInv

(* The first node of the list is that of the link, or the search goes on.  *)
LEMMA LinksUnlinkFirst ==
  ASSUME LInv, UnlinkFirst
  PROVE  LInv'
<1>1. /\ pc = "first" /\ hh = head /\ hh \in OnList /\ hh \in Ids /\ head # NULL
      /\ lnk \in Links /\ data[lnk] = d /\ d # NULL
      /\ d \in Opened /\ d \in Int /\ \A m \in Opened : owner[m] = lnk => m <= d
  <2>1. pc = "first"
    BY DEF UnlinkFirst
  <2>2. hh = head /\ hh \in OnList /\ lnk \in Links /\ data[lnk] = d /\ d # NULL
    BY <2>1 DEF LInv, LinkInv, Marked
  <2> QED
    BY <2>1, <2>2, ListTypes, IdFacts DEF LInv, DataInv
<1>2. CASE owner[hh] = lnk
  <2>1. /\ head' = next[hh] /\ nodes' = nodes \ {hh} /\ pc' = "free"
        /\ UNCHANGED <<flag, data, infos, pids, next, owner, opens, child, told,
                     inactive, lnk, d, hh, back, deferred, doShutdown,
                     killed>>
    BY <1>2 DEF UnlinkFirst, info, list, kids, Goto
  <2>2. next[hh] \in Places /\ next[hh] < hh
    BY <1>1, ListTypes DEF Lists, Down
  <2>3. OnList = {hh} \union Reachable(next, next[hh]) /\ OnList' = Reachable(next, next[hh])
    BY <1>1, <2>1, ListTypes, ReachStep DEF OnList
  <2>4. \A m \in OnList' : m <= next[hh]
    BY <2>2, <2>3, ListTypes, ReachBelow
  <2>5. /\ hh \in Int /\ next[hh] \in Int /\ opens \in Nat /\ hh \in Opened
        /\ \A m \in OnList : m \in Int
    BY <1>1, <2>2, ListTypes, IdFacts DEF Places
  <2>6. hh \notin OnList'
    BY <2>2, <2>4, <2>5
  <2>7. OnList' = OnList \ {hh}
    BY <2>3, <2>6
  <2>8. d \notin OnList'
    BY <1>1, <1>2, <2>2, <2>4, <2>5
  <2>9. head' \in Opened \union {NULL}
    BY <2>1, <2>2, <2>5, IdFacts DEF Opened, Places
  <2>10. next' \in Lists /\ Down(next')
    BY <2>1, ListTypes
  <2> QED
    BY <1>1, <1>2, <2>1, <2>7, <2>8, <2>9, <2>10, LinksRemoved
<1>3. CASE owner[hh] # lnk
  <2>1. /\ pc' = "walk"
        /\ UNCHANGED <<flag, data, infos, pids, head, next, owner, nodes, opens,
                     child, told, inactive, lnk, d, hh, back, deferred,
                     doShutdown, killed>>
    BY <1>3 DEF UnlinkFirst, info, list, kids, Goto
  <2>2. \A m \in OnList : m >= hh => m = hh
    <3>1. \A m \in OnList : m <= hh /\ m \in Int
      BY <1>1, ListTypes
    <3>2. hh \in Int
      BY <1>1, IdFacts
    <3> QED
      BY <3>1, <3>2
  <2>9. OnList' = OnList /\ Opened' = Opened /\ Live' = Live
    BY <2>1 DEF OnList, Live, Opened
  <2>3. TypeOK'
    BY <1>1, <1>3, <2>1, <2>2, <2>9 DEF LInv, TypeOK
  <2>4. ListInv'
    BY <1>1, <1>3, <2>1, <2>2, <2>9 DEF LInv, ListInv
  <2>5. DataInv'
    BY <1>1, <1>3, <2>1, <2>2, <2>9 DEF LInv, DataInv
  <2>6. ChildInv'
    BY <1>1, <1>3, <2>1, <2>2, <2>9 DEF LInv, ChildInv, ReapedWhenFreed
  <2>7. LinkInv'
    BY <1>1, <1>3, <2>1, <2>2, <2>9 DEF LInv, LinkInv, Marked
  <2>8. SettledInv'
    BY <1>1, <1>3, <2>1, <2>2, <2>9 DEF LInv, SettledInv, Settled, Normal, Marked
  <2> QED
    BY <2>3, <2>4, <2>5, <2>6, <2>7, <2>8 DEF LInv
<1> QED
  BY <1>2, <1>3

(* The search: no node that has been passed is that of the link.           *)
LEMMA LinksWalk ==
  ASSUME LInv, Walk
  PROVE  LInv'
<1>1. /\ pc = "walk" /\ hh \in OnList /\ hh \in Ids
      /\ lnk \in Links /\ data[lnk] = d /\ d # NULL
      /\ \A m \in OnList : m >= hh => owner[m] # lnk
      /\ d \in Opened /\ d \in Int /\ owner[d] = lnk
      /\ \A m \in Opened : owner[m] = lnk => m <= d
  <2>1. pc = "walk"
    BY DEF Walk
  <2>2. /\ hh \in OnList /\ lnk \in Links /\ data[lnk] = d /\ d # NULL
        /\ \A m \in OnList : m >= hh => owner[m] # lnk
    BY <2>1 DEF LInv, LinkInv, Marked
  <2> QED
    BY <2>1, <2>2, ListTypes, IdFacts DEF LInv, DataInv
<1>2. /\ next[hh] \in Places /\ next[hh] < hh /\ next[hh] \in Int /\ hh \in Int
      /\ next[hh] # NULL => next[hh] \in OnList
      /\ \A m \in OnList : m \in Int
  <2>1. next[hh] \in Places /\ next[hh] < hh /\ hh \in Int
    BY <1>1, ListTypes, IdFacts DEF Lists, Down
  <2>2. next[hh] \in Int
    <3>1. CASE next[hh] \in Ids
      BY <3>1, IdFacts
    <3>2. CASE next[hh] = NULL
      BY <3>2 DEF NULL
    <3> QED
      BY <2>1, <3>1, <3>2 DEF Places
  <2>3. next[hh] # NULL => next[hh] \in OnList
    BY <1>1, ListTypes, ReachLeast
  <2> QED
    BY <2>1, <2>2, <2>3, ListTypes
<1>3. \A m \in OnList : m < hh => m <= next[hh]
  BY <1>1, ListTypes, ReachNext
<1>4. d \in OnList => d < hh /\ d <= next[hh]
  BY <1>1, <1>2, <1>3
<1>5. CASE next[hh] = NULL
  <2>1. /\ pc' = "free"
        /\ UNCHANGED <<flag, data, infos, pids, head, next, owner, nodes, opens,
                     child, told, inactive, lnk, d, hh, back, deferred,
                     doShutdown, killed>>
    BY <1>5 DEF Walk, info, list, kids, Goto
  <2>2. d \notin OnList
    BY <1>1, <1>4, <1>5, ListTypes, IdFacts
  <2>9. OnList' = OnList /\ Opened' = Opened /\ Live' = Live
    BY <2>1 DEF OnList, Live, Opened
  <2>3. TypeOK'
    BY <1>1, <1>5, <2>1, <2>2, <2>9 DEF LInv, TypeOK
  <2>4. ListInv'
    BY <1>1, <1>5, <2>1, <2>2, <2>9 DEF LInv, ListInv
  <2>5. DataInv'
    BY <1>1, <1>5, <2>1, <2>2, <2>9 DEF LInv, DataInv
  <2>6. ChildInv'
    BY <1>1, <1>5, <2>1, <2>2, <2>9 DEF LInv, ChildInv, ReapedWhenFreed
  <2>7. LinkInv'
    BY <1>1, <1>5, <2>1, <2>2, <2>9 DEF LInv, LinkInv, Marked
  <2>8. SettledInv'
    BY <1>1, <1>5, <2>1, <2>2, <2>9 DEF LInv, SettledInv, Settled, Normal, Marked
  <2> QED
    BY <2>3, <2>4, <2>5, <2>6, <2>7, <2>8 DEF LInv
<1>6. CASE next[hh] # NULL /\ owner[next[hh]] = lnk
  <2>1. PICK x \in OnList : x = next[hh] /\ owner[x] = lnk
    BY <1>2, <1>6
  <2>2. /\ next' = [next EXCEPT ![hh] = next[x]] /\ nodes' = nodes \ {x} /\ pc' = "free"
        /\ UNCHANGED <<flag, data, infos, pids, head, owner, opens, child, told,
                     inactive, lnk, d, hh, back, deferred, doShutdown,
                     killed>>
    BY <1>6, <2>1 DEF Walk, info, list, kids, Goto
  <2>3. x \in Ids /\ next[x] \in Places /\ x \in Opened /\ x \in Int
    BY <2>1, ListTypes, IdFacts DEF Lists
  <2>4. next' \in Lists /\ next'[hh] = next[x] /\ \A k \in Ids \ {hh} : next'[k] = next[k]
    BY <1>1, <2>2, <2>3, ListTypes DEF Lists
  <2>5. ASSUME NEW k \in OnList, next[k] = x PROVE k = hh
    <3>1. k < hh => k <= x
      BY <1>3, <2>1
    <3>2. hh < k => hh <= next[k]
      BY <1>1, <2>5, ListTypes, ReachNext
    <3>3. x < hh /\ x < k /\ k \in Int
      BY <1>2, <2>1, <2>5, ListTypes DEF Down
    <3> QED
      BY <1>2, <2>1, <2>3, <2>5, <3>1, <3>2, <3>3
  <2>6. head # x
    BY <1>1, <1>2, <2>1, ListTypes, IdFacts
  <2>7. /\ \A k \in Ids : next'[k] = next[k] \/ (next[k] = x /\ next'[k] = next[x])
        /\ \A k \in OnList : next[k] = x => next'[k] = next[x]
    BY <2>1, <2>4, <2>5
  <2>8. Reachable(next', head) = OnList \ {x} /\ Down(next')
    <3>1. head = IF head = x THEN next[x] ELSE head
      BY <2>6
    <3> QED
      BY <2>1, <2>4, <2>7, <3>1, ListTypes, ReachRemove
  <2>9. OnList' = OnList \ {x}
    BY <2>2, <2>8 DEF OnList
  <2>10. d \notin OnList'
    BY <1>1, <1>4, <2>1, <2>3, <2>9
  <2>11. head' \in Opened \union {NULL}
    BY <2>2 DEF LInv, ListInv
  <2> QED
    BY <1>1, <2>1, <2>2, <2>4, <2>8, <2>9, <2>10, <2>11, LinksRemoved
<1>7. CASE next[hh] # NULL /\ owner[next[hh]] # lnk
  <2>1. /\ hh' = next[hh]
        /\ UNCHANGED <<flag, data, infos, pids, head, next, owner, nodes, opens,
                     child, told, inactive, pc, lnk, d, back, deferred,
                     doShutdown, killed>>
    BY <1>7 DEF Walk, info, list, kids
  <2>2. \A m \in OnList : m >= next[hh] => owner[m] # lnk
    <3> SUFFICES ASSUME NEW m \in OnList, m >= next[hh] PROVE owner[m] # lnk
      OBVIOUS
    <3>1. m >= hh \/ m = next[hh]
      BY <1>2, <1>3
    <3> QED
      BY <1>1, <1>7, <3>1
  <2>9. OnList' = OnList /\ Opened' = Opened /\ Live' = Live
    BY <2>1 DEF OnList, Live, Opened
  <2>3. TypeOK'
    BY <1>1, <1>2, <1>7, <2>1, <2>2, <2>9 DEF LInv, TypeOK
  <2>4. ListInv'
    BY <1>1, <1>2, <1>7, <2>1, <2>2, <2>9 DEF LInv, ListInv
  <2>5. DataInv'
    BY <1>1, <1>2, <1>7, <2>1, <2>2, <2>9 DEF LInv, DataInv
  <2>6. ChildInv'
    BY <1>1, <1>2, <1>7, <2>1, <2>2, <2>9 DEF LInv, ChildInv, ReapedWhenFreed
  <2>7. LinkInv'
    BY <1>1, <1>2, <1>7, <2>1, <2>2, <2>9 DEF LInv, LinkInv, Marked
  <2>8. SettledInv'
    BY <1>1, <1>2, <1>7, <2>1, <2>2, <2>9 DEF LInv, SettledInv, Settled, Normal, Marked
  <2> QED
    BY <2>3, <2>4, <2>5, <2>6, <2>7, <2>8 DEF LInv
<1> QED
  BY <1>5, <1>6, <1>7

(* The node of a link with data is the first of all with that link.        *)
LEMMA FirstNode ==
  ASSUME LInv, NEW l \in Links, data[l] # NULL, Settled(l)
  PROVE  NodesOf(data[l]) = {data[l]}
<1>1. PICK n \in OnList : n = data[l] /\ n \in pids /\ owner[n] = l
  BY DEF Settled, LInv, DataInv
<1>2. ASSUME NEW m \in OnList, data[owner[m]] = n
      PROVE  owner[m] = l /\ m <= n
  <2>1. owner[m] \in Links /\ m \in Opened /\ n # NULL
    BY <1>1, ListTypes
  <2>2. owner[m] = l
    BY <1>1, <1>2, <2>1, OwnData
  <2> QED
    BY <1>1, <2>1, <2>2 DEF LInv, DataInv
<1> DEFINE at == {m \in OnList : data[owner[m]] = n /\ n \in pids}
<1>3. n \in at
  BY <1>1
<1>4. /\ \A m \in OnList : m \in Ids /\ m \in Places /\ m \in Int
      /\ next \in Lists /\ Down(next) /\ OnList = Reachable(next, head) /\ head \in Places
  BY ListTypes, IdFacts DEF Places
<1>5. n \in Reachable(next, n)
  BY <1>1, <1>4, ReachLeast, IdFacts
<1>6. ASSUME NEW m \in at PROVE m \in Reachable(next, n)
  <2>1. m \in OnList /\ m <= n
    BY <1>2
  <2>2. m \in Reachable(next, n) \/ n \in Reachable(next, m)
    BY <1>1, <1>4, <2>1, ReachTotal
  <2>3. n \in Reachable(next, m) => n = m
    BY <1>1, <1>4, <2>1, ReachBelow
  <2> QED
    BY <1>5, <2>2, <2>3
<1>7. ASSUME NEW m \in at, at \subseteq Reachable(next, m) PROVE m = n
  <2>1. m \in OnList /\ m <= n /\ n \in Reachable(next, m)
    BY <1>2, <1>3, <1>7
  <2> QED
    BY <1>1, <1>4, <2>1, ReachBelow
<1>8. NodesOf(n) = {m \in at : at \subseteq Reachable(next, m)}
  BY DEF NodesOf
<1> HIDE DEF at
<1>9. NodesOf(n) = {n}
  BY <1>3, <1>6, <1>7, <1>8
<1> QED
  BY <1>1, <1>9

(* A child dies where nothing of its is held: the handler closes its link. *)
LEMMA LinksCrash ==
  ASSUME LInv, NEW n \in Ids, ChildCrashes(n)
  PROVE  LInv'
<1>1. /\ pc \notin {"push", "first", "walk", "prep", "exited"} /\ child[n] = "running"
      /\ pc \in {"pid", "reading"} => n # d
      /\ child' = [child EXCEPT ![n] = "reaped"]
      /\ UNCHANGED <<opens, told, inactive, pc, lnk, d, hh, back, deferred, doShutdown, killed>>
  BY DEF ChildCrashes, Held, sig_chld_hdl, intr
<1>2. Opened' = Opened
  BY <1>1 DEF Opened
<1>9. /\ child'[n] = "reaped" /\ \A k \in Ids \ {n} : child'[k] = child[k]
      /\ child' \in [Ids -> {"none", "running", "zombie", "reaped", "failed"}]
  BY <1>1 DEF LInv, TypeOK
<1>10. CASE inactive /\ \E l \in Links : data[l] = n /\ Settled(l)
  <2>1. PICK l \in Links : data[l] = n /\ Settled(l) /\ inactive
    BY <1>10
  <2>2. /\ n # NULL /\ flag[l] /\ n \in OnList /\ owner[n] = l /\ n \in infos
        /\ NodesOf(n) = {n} /\ n \in Opened
    <3>1. n # NULL /\ data[l] = n /\ flag[l] /\ n \in OnList
      BY <2>1, IdFacts DEF Settled
    <3>2. NodesOf(n) = {n}
      BY <2>1, <3>1, FirstNode
    <3>3. owner[n] = l /\ n \in Opened /\ (n \in infos \/ (pc = "closed" /\ l = lnk))
      BY <3>1 DEF LInv, DataInv
    <3>4. ~(pc = "closed" /\ l = lnk)
      BY <3>1 DEF LInv, LinkInv, Marked
    <3> QED
      BY <3>1, <3>2, <3>3, <3>4
  <2>3. HandlerCloses(n, n)
    BY <2>1, <2>2 DEF ChildCrashes, sig_chld_hdl
  <2>4. /\ flag' = [flag EXCEPT ![l] = FALSE] /\ data' = [data EXCEPT ![l] = NULL]
        /\ infos' = infos \ {n} /\ nodes' = nodes \ {n} /\ pids' = pids /\ owner' = owner
        /\ head' = IF head = n THEN next[n] ELSE head
        /\ next' = [k \in Ids |-> IF k \in OnList /\ next[k] = n THEN next[n] ELSE next[k]]
    BY <2>2, <2>3 DEF HandlerCloses
  <2>5. next \in Lists /\ head \in Places /\ Down(next) /\ next[n] \in Places
    BY ListTypes DEF Lists
  <2>6. next' \in Lists /\ head' \in Places
    BY <2>4, <2>5 DEF Lists
  <2>7. OnList' = OnList \ {n} /\ Down(next')
    <3>1. \A k \in Ids : next'[k] = next[k] \/ (next[k] = n /\ next'[k] = next[n])
      BY <2>4
    <3>2. \A k \in OnList : next[k] = n => next'[k] = next[n]
      BY <2>4, ListTypes
    <3>3. PICK nx \in Lists, ny \in Lists, h \in Places, g \in Places :
            nx = next /\ ny = next' /\ h = head /\ g = head'
      BY <2>5, <2>6
    <3>4. n \in Reachable(nx, h) /\ Reachable(nx, h) = OnList /\ Down(nx)
      BY <2>2, <2>5, <3>3 DEF OnList
    <3>5. /\ \A k \in Ids : ny[k] = nx[k] \/ (nx[k] = n /\ ny[k] = nx[n])
          /\ \A k \in Reachable(nx, h) : nx[k] = n => ny[k] = nx[n]
          /\ g = IF h = n THEN nx[n] ELSE h
      BY <2>4, <3>1, <3>2, <3>3, <3>4
    <3>6. Reachable(ny, g) = Reachable(nx, h) \ {n} /\ Down(ny)
      BY <3>4, <3>5, ReachRemove
    <3>7. Reachable(ny, g) = OnList'
      BY <3>3 DEF OnList
    <3>8. Down(next')
      BY <3>3, <3>6
    <3> QED
      BY <3>4, <3>6, <3>7, <3>8
  <2>8. /\ data'[l] = NULL /\ (\A k \in Links \ {l} : data'[k] = data[k] /\ data[k] # n)
        /\ \A k \in Links \ {l} : flag'[k] = flag[k]
    BY <2>1, <2>2, <2>4, OwnData DEF LInv, TypeOK
  <2>9. Live' = Live \ {n}
    BY <1>9, <2>7, ListTypes DEF Live
  <2>10. \A m \in Live' : m \in Live /\ owner[m] # l /\ owner[m] \in Links
    BY <2>1, <2>9, ListTypes DEF LInv, DataInv
  <2>11. head' \in Opened \union {NULL}
    <3>1. next[n] < n /\ n <= opens /\ opens \in Nat
      BY <2>2, <2>5, ListTypes DEF Down, Opened
    <3>2. next[n] \in Opened \union {NULL}
      <4>1. CASE next[n] = NULL
        BY <4>1
      <4>2. CASE next[n] \in Ids
        <5>1. next[n] \in Int /\ 1 <= next[n] /\ n \in Int
          BY <4>2, IdFacts DEF Ids
        <5>2. next[n] <= opens
          BY <3>1, <5>1
        <5> QED
          BY <3>1, <5>1, <5>2 DEF Opened
      <4> QED
        BY <2>5, <4>1, <4>2 DEF Places
    <3> QED
      BY <2>4, <3>2 DEF LInv, ListInv
  <2>12. TypeOK'
    <3>1. flag' \in [Links -> BOOLEAN] /\ data' \in [Links -> Ids \union {NULL}]
      BY <2>4 DEF LInv, TypeOK
    <3>2. next' \in [Ids -> Ids \union {NULL}] /\ head' \in Ids \union {NULL}
      BY <2>6 DEF Lists, Places
    <3> QED
      BY <1>1, <1>9, <2>4, <3>1, <3>2 DEF LInv, TypeOK
  <2>13. ListInv'
    BY <1>1, <1>2, <2>4, <2>7, <2>11 DEF LInv, ListInv, Down
  <2>14. DataInv'
    BY <1>1, <1>2, <1>9, <2>4, <2>8, <2>10, ListTypes DEF LInv, DataInv
  <2>15. ChildInv'
    BY <1>1, <1>2, <1>9, <2>4 DEF LInv, ChildInv, ReapedWhenFreed
  <2>16. LinkInv'
    <3>1. pc \in {"fork", "pid", "reading"} \union Marked => lnk # l /\ d # n
      <4>1. pc \in {"fork", "pid"} => d \notin pids
        BY DEF LInv, LinkInv
      <4>2. pc \in Marked => ~flag[lnk]
        BY DEF LInv, LinkInv
      <4>3. pc \in {"fork", "pid", "reading"} \union Marked => data[lnk] = d
        BY DEF LInv, LinkInv
      <4>4. pc \in {"fork", "pid", "reading"} \union Marked => lnk # l
        BY <1>1, <2>1, <2>2, <4>1, <4>2, <4>3 DEF Settled, Marked
      <4>5. pc \in {"fork", "pid", "reading"} \union Marked => lnk \in Links
        BY DEF LInv, LinkInv
      <4> QED
        BY <2>1, <2>2, <4>3, <4>4, <4>5, OwnData
    <3>2. pc \in {"fork", "pid"} => d \in OnList \ {n}
      BY <3>1 DEF LInv, LinkInv
    <3>3. pc \in {"fork", "pid", "reading"} \union Marked =>
            lnk \in Links /\ data'[lnk] = data[lnk] /\ flag'[lnk] = flag[lnk]
      BY <2>8, <3>1 DEF LInv, LinkInv, Marked
    <3>4. pc \in {"fork", "pid", "reading"} \union Marked => child'[d] = child[d] \/ d \notin Ids
      BY <1>9, <3>1
    <3>5. pc \in {"fork", "pid", "unlink", "free"} => d \in Ids
      BY <3>3, ListTypes DEF LInv, LinkInv, DataInv, Marked
    <3> QED
      BY <1>1, <2>4, <2>7, <3>1, <3>2, <3>3, <3>4, <3>5 DEF LInv, LinkInv, Marked
  <2>17. SettledInv'
    <3>1. ASSUME NEW k \in Links, Settled(k) PROVE Settled(k)'
      <4>1. data[k] # NULL => data[k] \in Opened
        BY DEF LInv, DataInv
      <4> QED
        BY <1>1, <1>9, <2>4, <2>7, <2>8, <3>1, <4>1, ListTypes DEF Settled
    <3>2. \A k \in Links : data[k] \notin pids => data'[k] \notin pids'
      BY <2>2, <2>4, <2>8, IdFacts DEF LInv, ChildInv, Opened
    <3> QED
      BY <1>1, <3>1, <3>2 DEF LInv, SettledInv, Normal
  <2> QED
    BY <2>12, <2>13, <2>14, <2>15, <2>16, <2>17 DEF LInv
<1>11. CASE ~(inactive /\ \E l \in Links : data[l] = n /\ Settled(l))
  <2>1. inactive => \A m \in NodesOf(n) : ~flag[owner[m]]
    <3> SUFFICES ASSUME inactive, NEW m \in NodesOf(n) PROVE ~flag[owner[m]]
      OBVIOUS
    <3>1. owner[m] \in Links /\ data[owner[m]] = n /\ n \in pids
      BY ListTypes DEF NodesOf
    <3>2. pc \in {"push", "fork", "pid"} \union Marked /\ owner[m] = lnk
      BY <1>11, <3>1 DEF LInv, SettledInv
    <3> QED
      BY <3>1, <3>2 DEF LInv, LinkInv, Marked
  <2>2. UNCHANGED <<flag, data, infos, pids, head, next, owner, nodes>>
    BY <2>1 DEF ChildCrashes, sig_chld_hdl, info, list
  <2>3. OnList' = OnList
    BY <2>2 DEF OnList
  <2>4. Live' = Live
    BY <1>1, <1>9, <2>3, ListTypes DEF Live
  <2>5. TypeOK'
    BY <1>1, <1>9, <2>2 DEF LInv, TypeOK
  <2>6. ListInv'
    BY <1>1, <1>2, <2>2, <2>3 DEF LInv, ListInv
  <2>7. DataInv'
    BY <1>1, <1>2, <1>9, <2>2, <2>4, ListTypes DEF LInv, DataInv
  <2>8. ChildInv'
    BY <1>1, <1>2, <1>9, <2>2 DEF LInv, ChildInv, ReapedWhenFreed
  <2>9. LinkInv'
    <3>1. pc \in {"fork", "pid"} => d # n
      BY <1>1 DEF LInv, LinkInv
    <3>2. pc \in {"fork", "pid", "unlink", "free"} => d \in Ids
      BY ListTypes DEF LInv, LinkInv, DataInv, Marked
    <3> QED
      BY <1>1, <1>9, <2>2, <2>3, <3>1, <3>2 DEF LInv, LinkInv, Marked
  <2>10. SettledInv'
    <3>1. ASSUME inactive, NEW k \in Links, Settled(k) PROVE Settled(k)'
      <4>1. data[k] # NULL => data[k] \in Opened /\ data[k] # n
        BY <1>11, <3>1 DEF LInv, DataInv
      <4> QED
        BY <1>9, <2>2, <2>3, <3>1, <4>1, ListTypes DEF Settled
    <3> QED
      BY <1>1, <2>2, <3>1 DEF LInv, SettledInv, Normal
  <2> QED
    BY <2>5, <2>6, <2>7, <2>8, <2>9, <2>10 DEF LInv
<1> QED
  BY <1>10, <1>11

-----------------------------------------------------------------------------
(* What the invariant says of the properties that are checked.             *)

(* Two ways to count the open links at the prompt: by link, and by node.   *)
LEMMA LiveIsOpen ==
  ASSUME LInv, pc = "idle"
  PROVE  LET open == {l \in Links : flag[l] /\ data[l] # NULL}
         IN  {owner[m] : m \in Live} = open /\ Cardinality(Live) = Cardinality(open)
<1> DEFINE open == {l \in Links : flag[l] /\ data[l] # NULL}
           f == [m \in Live |-> owner[m]]
<1>1. \A l \in Links : Settled(l)
  BY DEF LInv, SettledInv, Normal, Marked
<1>2. ASSUME NEW m \in Live PROVE owner[m] \in open /\ data[owner[m]] = m
  <2>1. m \in OnList /\ m \in Opened /\ owner[m] \in Links /\ m # NULL
    BY ListTypes
  <2>2. data[owner[m]] = m
    BY DEF LInv, DataInv
  <2>3. flag[owner[m]]
    BY <1>1, <2>1, <2>2 DEF Settled
  <2> QED
    BY <2>1, <2>2, <2>3
<1>3. ASSUME NEW l \in open PROVE data[l] \in Live /\ owner[data[l]] = l
  <2>1. data[l] \in OnList /\ child[data[l]] # "failed"
    BY <1>1, <1>3 DEF Settled
  <2> QED
    BY <1>3, <2>1 DEF Live, LInv, DataInv
<1>4. {owner[m] : m \in Live} = open
  BY <1>2, <1>3
<1>5. IsFiniteSet(Live)
  <2>1. IsFiniteSet(Ids)
    BY FS_Interval, IdFacts DEF Ids
  <2>2. Live \subseteq Ids
    BY ListTypes
  <2> QED
    BY <2>1, <2>2, FS_Subset
<1>6. f \in Bijection(Live, open)
  <2>1. f \in [Live -> open]
    BY <1>2
  <2>2. \A m, k \in Live : f[m] = f[k] => m = k
    BY <1>2
  <2>3. \A l \in open : \E m \in Live : f[m] = l
    BY <1>3
  <2> HIDE DEF f, open
  <2> QED
    BY <2>1, <2>2, <2>3 DEF Bijection, Injection, Surjection, IsInjective
<1>7. Cardinality(Live) = Cardinality(open)
  <2> HIDE DEF f, open
  <2>1. ExistsBijection(Live, open)
    BY <1>6 DEF ExistsBijection
  <2> QED
    BY <1>5, <2>1, FS_Bijection
<1> QED
  BY <1>4, <1>7

(* Whatever the handler and the interpreter read is allocated.             *)
LEMMA LinksAreSafe ==
  ASSUME LInv
  PROVE  LinksSafe
<1>1. TypeOK /\ ReapedWhenFreed
  BY DEF LInv, ChildInv
<1>2. HandlerReadsLive
  <2> SUFFICES ASSUME pc # "exited"
               PROVE  /\ OnList \subseteq nodes
                      /\ inactive => \A m \in OnList :
                           child[m] = "failed" \/ data[owner[m]] \in infos
    BY DEF HandlerReadsLive
  <2>1. OnList \subseteq nodes
    BY ListTypes
  <2>2. ASSUME NEW m \in Live PROVE data[owner[m]] \in infos
    <3>1. m \in OnList /\ owner[m] \in Links /\ m # NULL
      BY ListTypes
    <3>2. data[owner[m]] = m
      BY DEF LInv, DataInv
    <3>3. data[owner[m]] \in infos \/ (pc = "closed" /\ owner[m] = lnk)
      BY <3>1, <3>2 DEF LInv, DataInv
    <3>4. pc = "closed" => data[lnk] \notin OnList
      BY DEF LInv, LinkInv, Marked
    <3> QED
      BY <3>1, <3>2, <3>3, <3>4
  <2> QED
    BY <2>1, <2>2 DEF Live
<1>3. InterpreterHoldsLive
  <2>1. pc \in {"reading", "reap", "unlink", "first", "walk", "free"} => d \in infos
    BY DEF LInv, LinkInv, DataInv, Marked
  <2>2. /\ pc \in {"first", "walk"} => hh \in nodes
        /\ pc = "prep" => hh \in nodes \union {NULL}
    BY DEF LInv, LinkInv, ListInv
  <2> QED
    BY <2>1, <2>2 DEF InterpreterHoldsLive
<1>4. ListIsOpenLinks
  BY LiveIsOpen DEF ListIsOpenLinks, Live
<1> QED
  BY <1>1, <1>2, <1>3, <1>4 DEF LinksSafe

-----------------------------------------------------------------------------
(* The theorems.                                                           *)

(* A step that changes nothing.                                            *)
LEMMA LinksStutter ==
  ASSUME LInv, UNCHANGED vars
  PROVE  LInv'
<1>1. UNCHANGED <<flag, data, infos, pids, head, next, owner, nodes, opens, child, told,
                  inactive, pc, lnk, d, hh, back, deferred, doShutdown, killed>>
  BY DEF vars, info, list, kids, intr
<1>2. OnList' = OnList /\ Live' = Live /\ Opened' = Opened
  BY <1>1 DEF OnList, Live, Opened
<1>3. TypeOK'
  BY <1>1 DEF LInv, TypeOK
<1>4. ListInv'
  BY <1>1, <1>2 DEF LInv, ListInv
<1>5. DataInv'
  BY <1>1, <1>2 DEF LInv, DataInv
<1>6. ChildInv'
  BY <1>1, <1>2 DEF LInv, ChildInv, ReapedWhenFreed
<1>7. LinkInv'
  BY <1>1, <1>2 DEF LInv, LinkInv, Marked
<1>8. SettledInv'
  BY <1>1, <1>2 DEF LInv, SettledInv, Settled, Normal, Marked
<1> QED
  BY <1>3, <1>4, <1>5, <1>6, <1>7, <1>8 DEF LInv

(* Every step preserves the invariant, when no child dies unasked while    *)
(* the interpreter holds something of the list or of its link.             *)
LEMMA LinksNext ==
  ASSUME LInv, Crash # "any", [Next]_vars
  PROVE  LInv'
<1>1. ASSUME NEW l \in Links, Open(l) \/ Read(l) \/ slClose(l)
      PROVE  LInv'
  BY <1>1, LinksOpen, LinksRead, LinksClose
<1>2. ASSUME Push \/ Fork \/ ForkFailed \/ SetPid \/ ReadReturns
      PROVE  LInv'
  BY <1>2, LinksPush, LinksFork, LinksForkFailed, LinksSetPid, LinksReadReturns
<1>3. ASSUME Closing
      PROVE  LInv'
  BY <1>3, LinksCloseStarts, LinksReap, LinksUnlink, LinksUnlinkFirst, LinksWalk,
     LinksFree, LinksClosed DEF Closing
<1>4. ASSUME Quitting \/ QuitCommand \/ sig_term_hdl
      PROVE  LInv'
  BY <1>4, LinksEnd, LinksPrep, LinksKill, LinksRest, LinksQuit, LinksTerm DEF Quitting
<1>5. ASSUME NEW n \in Ids, ChildExits(n) \/ Sigchld(n) \/ ChildCrashes(n)
      PROVE  LInv'
  BY <1>5, LinksChildExits, LinksSigchld, LinksCrash
<1>6. ASSUME UNCHANGED vars \/ Exited
      PROVE  LInv'
  BY <1>6, LinksStutter DEF Exited
<1> QED
  BY <1>1, <1>2, <1>3, <1>4, <1>5, <1>6 DEF Next

(* While children die only when told to or where nothing is held, the      *)
(* invariant of the list, the ssiInfos, the children and the interpreter   *)
(* always holds.                                                           *)
THEOREM LinksInvariance == Crash # "any" => (Spec => []LInv)
<1> SUFFICES ASSUME Crash # "any" PROVE Spec => []LInv
  OBVIOUS
<1>1. Init => LInv
  BY LinksInit
<1>2. LInv /\ [Next]_vars => LInv'
  BY LinksNext
<1> QED
  BY <1>1, <1>2, PTL DEF Spec

(* Neither sig_chld_hdl, which may come between any two steps, nor the     *)
(* interpreter nor m2_end reads memory that slClose or the handler freed,  *)
(* ssiToBeClosed has exactly the open links at the prompt, each once, and  *)
(* no ssiInfo is freed before its child was waited for; for any number of  *)
(* links and opens, with forks that fail, SIGTERM at any moment, and       *)
(* children that die at any moment but those of Held: there a death is a   *)
(* use after free in the code, too (Crash = "any").                        *)
THEOREM ForkedLinksCorrect == Crash # "any" => (Spec => []LinksSafe)
<1> SUFFICES ASSUME Crash # "any" PROVE Spec => []LinksSafe
  OBVIOUS
<1>1. LInv => LinksSafe
  BY LinksAreSafe
<1> QED
  BY <1>1, LinksInvariance, PTL
=============================================================================

--------------------------- MODULE CoreTokensProofs ---------------------------
(***************************************************************************)
(* Theorems about CoreTokens for every tree of processes, every number of  *)
(* cores and every number of slots.                                        *)
(***************************************************************************)
EXTENDS CoreTokens, FiniteSetTheorems, TLAPS

(***************************************************************************)
(* Where a process is in its program determines which tokens it counts.    *)
(***************************************************************************)
Acquiring == {"enqueue", "wantcore", "regain", "lesscores"}
Releasing == {"dequeue", "finish", "yield", "morecores"}
WithCore == {"dequeue", "compute", "finish", "yield"}
WithSlot == {"wantcore", "dequeue"}

MainLabels == {"compute", "yield", "nested", "regain", "lesscores", "morecores"}
ProcLabels == Labels \ {"lesscores", "morecores"}

Counted(label, s) ==
    IF label \in (IF s = "cores" THEN WithCore ELSE WithSlot) THEN 1 ELSE 0

Closings == {"no", "quit", "term", "kill"}

Types ==
    /\ sem \in [Sems -> Nat]
    /\ acquired \in [All -> [Sems -> Int]]
    /\ pc \in [All -> Labels]
    /\ step \in [All -> {"run", "wait", "got", "posted"}]
    /\ do_shutdown \in [All -> BOOLEAN]
    /\ closing \in [Proc -> Closings]
    /\ ncores \in Int /\ saved \in Int

StepOfLabel ==
    \A p \in All :
        /\ step[p] \in {"wait", "got"} => pc[p] \in Acquiring
        /\ step[p] = "posted" => pc[p] \in Releasing

ProcCounts ==
    \A p \in Proc :
        /\ pc[p] \in ProcLabels
        /\ pc[p] # "gone" => acquired[p] = [s \in Sems |-> Counted(pc[p], s)]

\* A process that was killed may have died with a slot of sem_queue.
GoneCounts ==
    \A p \in Proc : pc[p] = "gone" =>
        /\ acquired[p]["cores"] = 0 /\ acquired[p]["queue"] \in {0, 1}
        /\ acquired[p]["queue"] = 1 => closing[p] = "kill"

\* Nobody sends SIGTERM to the main process, and it never queues.
MainApart ==
    /\ pc[Main] \in MainLabels
    /\ ~do_shutdown[Main]
    /\ acquired[Main]["queue"] = 0

CountInv == Types /\ StepOfLabel /\ ProcCounts /\ GoneCounts /\ MainApart

KilledStay == \A q \in Proc : closing[q] = "kill" => closing'[q] = "kill"

-----------------------------------------------------------------------------
(* The tables of the calls, written out.                                   *)
LEMMA Tables ==
  /\ DOMAIN Acquires = Acquiring /\ DOMAIN Releases = Releasing
  /\ Acquires["enqueue"] = "queue" /\ Acquires["wantcore"] = "cores"
  /\ Acquires["regain"] = "cores" /\ Acquires["lesscores"] = "cores"
  /\ Releases["dequeue"] = "queue" /\ Releases["finish"] = "cores"
  /\ Releases["yield"] = "cores" /\ Releases["morecores"] = "cores"
BY DEF Acquires, Releases, Acquiring, Releasing

(* Where each call leads to.                                               *)
LEMMA Follow ==
  /\ Following("enqueue") = "wantcore" /\ Following("wantcore") = "dequeue"
  /\ Following("dequeue") = "compute" /\ Following("finish") = "await"
  /\ Following("yield") = "nested" /\ Following("regain") = "compute"
  /\ Following("lesscores") = "compute" /\ Following("morecores") = "compute"
BY DEF Following, After

(* The places of a process.                                                *)
LEMMA LabelSet ==
  Labels = Acquiring \cup Releasing \cup {"new", "compute", "nested", "await", "gone"}
BY DEF Labels, After, Acquiring, Releasing

(* No process counts anything before it starts.                            *)
LEMMA CountInit == Init => CountInv
<1> SUFFICES ASSUME Init PROVE CountInv
  OBVIOUS
<1>1. Types
  BY ParamAssumption, LabelSet DEF Init, Types, None, All, Sems, Closings
<1>2. StepOfLabel
  BY DEF Init, StepOfLabel
<1>3. ProcCounts
  BY ParamAssumption, LabelSet
     DEF Init, ProcCounts, ProcLabels, Counted, WithCore, WithSlot, None, All, Sems
<1>4. MainApart
  BY DEF Init, MainApart, MainLabels, None, All, Sems
<1>5. GoneCounts
  BY ParamAssumption DEF Init, GoneCounts, All
<1> QED
  BY <1>1, <1>2, <1>3, <1>4, <1>5 DEF CountInv

\* The end of a grandchild leaves nothing counted.
LEMMA CountEnd ==
  ASSUME CountInv, NEW p \in Proc,
         NEW acq \in [Sems -> Int], M2End(p, acq)
  PROVE  /\ sem' \in [Sems -> Nat] /\ acquired' \in [All -> [Sems -> Int]]
         /\ pc' \in [All -> Labels]
         /\ step' \in [All -> {"run", "wait", "got", "posted"}]
         /\ closing' \in [Proc -> Closings]
         /\ StepOfLabel' /\ ProcCounts' /\ GoneCounts'
         /\ pc'[Main] \in MainLabels /\ acquired'[Main]["queue"] = 0
<1>0. Types /\ StepOfLabel /\ ProcCounts /\ GoneCounts /\ MainApart
  BY DEF CountInv
<1>1. p \in All /\ p # Main /\ Main \in All /\ Proc \subseteq All
  BY ParamAssumption DEF All
<1>2. /\ acquired' = [acquired EXCEPT ![p] = None]
      /\ pc' = [pc EXCEPT ![p] = "gone"]
      /\ step' = [step EXCEPT ![p] = "run"]
  BY DEF M2End
<1>3. sem' \in [Sems -> Nat]
  BY <1>0 DEF M2End, Posted, Types
<1>4. acquired' \in [All -> [Sems -> Int]]
  <2>1. None \in [Sems -> Int]
    BY DEF None
  <2> QED
    BY <1>0, <1>2, <2>1 DEF Types
<1>5. pc' \in [All -> Labels] /\ step' \in [All -> {"run", "wait", "got", "posted"}]
  BY <1>0, <1>2, LabelSet DEF Types
<1>6. closing' \in [Proc -> Closings] /\ KilledStay
  BY <1>0 DEF M2End, Types, Closings, KilledStay
<1>7. StepOfLabel'
  BY <1>0, <1>1, <1>2 DEF StepOfLabel, Types
<1>8. ProcCounts'
  <2>1. "gone" \in ProcLabels
    BY LabelSet DEF ProcLabels
  <2>2. \A q \in Proc : IF q = p THEN pc'[q] = "gone"
                                 ELSE pc'[q] = pc[q] /\ acquired'[q] = acquired[q]
    BY <1>0, <1>1, <1>2 DEF Types
  <2> QED
    BY <1>0, <2>1, <2>2 DEF ProcCounts
<1>10. GoneCounts'
  <2>1. \A q \in Proc : IF q = p THEN acquired'[q] = None
                                 ELSE pc'[q] = pc[q] /\ acquired'[q] = acquired[q]
    BY <1>0, <1>1, <1>2 DEF Types
  <2>2. None["cores"] = 0 /\ None["queue"] = 0
    BY DEF None, Sems
  <2> QED
    BY <1>0, <1>6, <2>1, <2>2 DEF GoneCounts, KilledStay
<1>9. pc'[Main] \in MainLabels /\ acquired'[Main]["queue"] = 0
  BY <1>0, <1>1, <1>2 DEF MainApart, Types
<1> QED
  BY <1>3, <1>4, <1>5, <1>6, <1>7, <1>8, <1>9, <1>10

\* Process p goes to label l, or stays there, with what it counts there.
LEMMA CountMove ==
  ASSUME CountInv, NEW p \in All, NEW l \in Labels,
         NEW st \in {"run", "wait", "got", "posted"}, NEW acq \in [Sems -> Int],
         pc' = [pc EXCEPT ![p] = l],
         step' = [step EXCEPT ![p] = st],
         acquired' = [acquired EXCEPT ![p] = acq],
         st \in {"wait", "got"} => l \in Acquiring,
         st = "posted" => l \in Releasing,
         p \in Proc => /\ l \in ProcLabels /\ l # "gone"
                      /\ acq = [s \in Sems |-> Counted(l, s)],
         KilledStay,
         p = Main => l \in MainLabels /\ acq["queue"] = 0
  PROVE  /\ acquired' \in [All -> [Sems -> Int]]
         /\ pc' \in [All -> Labels]
         /\ step' \in [All -> {"run", "wait", "got", "posted"}]
         /\ StepOfLabel' /\ ProcCounts' /\ GoneCounts'
         /\ pc'[Main] \in MainLabels /\ acquired'[Main]["queue"] = 0
<1>0. Types /\ StepOfLabel /\ ProcCounts /\ GoneCounts /\ MainApart
  BY DEF CountInv
<1>1. Main \in All /\ Proc \subseteq All
  BY DEF All
<1>2. \A q \in All : IF q = p THEN pc'[q] = l /\ step'[q] = st /\ acquired'[q] = acq
                     ELSE pc'[q] = pc[q] /\ step'[q] = step[q] /\ acquired'[q] = acquired[q]
  BY <1>0 DEF Types
<1>3. /\ acquired' \in [All -> [Sems -> Int]]
      /\ pc' \in [All -> Labels]
      /\ step' \in [All -> {"run", "wait", "got", "posted"}]
  BY <1>0 DEF Types
<1>4. StepOfLabel'
  BY <1>0, <1>2 DEF StepOfLabel
<1>5. ProcCounts'
  BY <1>0, <1>1, <1>2 DEF ProcCounts
<1>6. pc'[Main] \in MainLabels /\ acquired'[Main]["queue"] = 0
  BY <1>0, <1>1, <1>2 DEF MainApart
<1>7. GoneCounts'
  BY <1>0, <1>1, <1>2 DEF GoneCounts, KilledStay
<1> QED
  BY <1>3, <1>4, <1>5, <1>6, <1>7

\* The count of a process that completes an acquire or a release.
LEMMA CountAcquired ==
  ASSUME CountInv, NEW p \in All, step[p] = "got"
  PROVE  /\ [acquired[p] EXCEPT ![Acquires[pc[p]]] = @ + 1] \in [Sems -> Int]
         /\ Following(pc[p]) \in Labels
         /\ p \in Proc => /\ Following(pc[p]) \in ProcLabels \ {"gone"}
                          /\ [acquired[p] EXCEPT ![Acquires[pc[p]]] = @ + 1]
                               = [s \in Sems |-> Counted(Following(pc[p]), s)]
         /\ p = Main => /\ Following(pc[p]) \in MainLabels
                        /\ [acquired[p] EXCEPT ![Acquires[pc[p]]] = @ + 1]["queue"] = 0
<1>0. Types /\ StepOfLabel /\ ProcCounts /\ GoneCounts /\ MainApart
  BY DEF CountInv
<1>1. pc[p] \in Acquiring /\ acquired[p] \in [Sems -> Int]
  BY <1>0 DEF StepOfLabel, Types
<1>2. [acquired[p] EXCEPT ![Acquires[pc[p]]] = @ + 1] \in [Sems -> Int]
  BY <1>1, Tables DEF Acquiring, Sems
<1>3. Following(pc[p]) \in Labels
  BY <1>1, Follow, LabelSet DEF Acquiring, Releasing
<1>4. ASSUME p \in Proc
      PROVE  /\ Following(pc[p]) \in ProcLabels \ {"gone"}
             /\ [acquired[p] EXCEPT ![Acquires[pc[p]]] = @ + 1]
                  = [s \in Sems |-> Counted(Following(pc[p]), s)]
  <2>1. pc[p] \in {"enqueue", "wantcore", "regain"}
    BY <1>0, <1>1, <1>4 DEF ProcCounts, ProcLabels, Acquiring
  <2>2. acquired[p] = [s \in Sems |-> Counted(pc[p], s)]
    BY <1>0, <1>4, <2>1 DEF ProcCounts
  <2>3. Following(pc[p]) \in ProcLabels \ {"gone"}
    BY <2>1, Follow, LabelSet DEF ProcLabels, Acquiring, Releasing
  <2>4. \A s \in Sems : [acquired[p] EXCEPT ![Acquires[pc[p]]] = @ + 1][s]
                           = Counted(Following(pc[p]), s)
    BY <2>1, <2>2, Tables, Follow DEF Sems, Counted, WithCore, WithSlot
  <2> QED
    BY <1>2, <2>3, <2>4
<1>5. ASSUME p = Main
      PROVE  /\ Following(pc[p]) \in MainLabels
             /\ [acquired[p] EXCEPT ![Acquires[pc[p]]] = @ + 1]["queue"] = 0
  BY <1>0, <1>1, <1>5, Tables, Follow DEF MainApart, MainLabels, Acquiring, Sems
<1> QED
  BY <1>2, <1>3, <1>4, <1>5

(* A process that has posted and not counted yet: what it will count.      *)
LEMMA CountReleased ==
  ASSUME CountInv, NEW p \in All, step[p] = "posted"
  PROVE  /\ Uncounted(p) \in [Sems -> Int]
         /\ Following(pc[p]) \in Labels
         /\ p \in Proc => /\ Following(pc[p]) \in ProcLabels \ {"gone"}
                          /\ Uncounted(p) = [s \in Sems |-> Counted(Following(pc[p]), s)]
         /\ p = Main => /\ Following(pc[p]) \in MainLabels
                        /\ Uncounted(p)["queue"] = 0
<1>0. Types /\ StepOfLabel /\ ProcCounts /\ GoneCounts /\ MainApart
  BY DEF CountInv
<1>1. pc[p] \in Releasing /\ acquired[p] \in [Sems -> Int]
  BY <1>0 DEF StepOfLabel, Types
<1>2. Uncounted(p) \in [Sems -> Int]
  BY <1>1, Tables DEF Releasing, Sems, Uncounted
<1>3. Following(pc[p]) \in Labels
  BY <1>1, Follow, LabelSet DEF Acquiring, Releasing
<1>4. ASSUME p \in Proc
      PROVE  /\ Following(pc[p]) \in ProcLabels \ {"gone"}
             /\ Uncounted(p) = [s \in Sems |-> Counted(Following(pc[p]), s)]
  <2>1. pc[p] \in {"dequeue", "finish", "yield"}
    BY <1>0, <1>1, <1>4 DEF ProcCounts, ProcLabels, Releasing
  <2>2. acquired[p] = [s \in Sems |-> Counted(pc[p], s)]
    BY <1>0, <1>4, <2>1 DEF ProcCounts
  <2>3. Following(pc[p]) \in ProcLabels \ {"gone"}
    BY <2>1, Follow, LabelSet DEF ProcLabels, Acquiring, Releasing
  <2>4. \A s \in Sems : Uncounted(p)[s] = Counted(Following(pc[p]), s)
    BY <2>1, <2>2, Tables, Follow DEF Sems, Counted, WithCore, WithSlot, Uncounted
  <2> QED
    BY <1>2, <2>3, <2>4
<1>5. ASSUME p = Main
      PROVE  /\ Following(pc[p]) \in MainLabels
             /\ Uncounted(p)["queue"] = 0
  BY <1>0, <1>1, <1>5, Tables, Follow
     DEF MainApart, MainLabels, Releasing, Sems, Uncounted
<1> QED
  BY <1>2, <1>3, <1>4, <1>5

(* What a process counts follows from its place after every step.          *)
LEMMA CountNext ==
  ASSUME CountInv, [Next]_vars
  PROVE  CountInv'
<1>0. Types /\ StepOfLabel /\ ProcCounts /\ GoneCounts /\ MainApart
  BY DEF CountInv
<1>1. Main \in All /\ Proc \subseteq All /\ Main \notin Proc
  BY ParamAssumption DEF All
<1>2. ASSUME NEW p \in All, BeginAcquire(p) \/ SemWait(p) \/ SemPost(p)
      PROVE  CountInv'
  <2>5. KilledStay
    BY <1>2 DEF BeginAcquire, SemWait, SemPost, KilledStay
  <2>1. PICK st \in {"wait", "got", "posted"} :
          /\ step' = [step EXCEPT ![p] = st]
          /\ st \in {"wait", "got"} => pc[p] \in Acquiring
          /\ st = "posted" => pc[p] \in Releasing
    BY <1>0, <1>2, Tables DEF BeginAcquire, SemWait, SemPost, StepOfLabel
  <2>2. /\ pc' = [pc EXCEPT ![p] = pc[p]] /\ acquired' = [acquired EXCEPT ![p] = acquired[p]]
        /\ do_shutdown' = do_shutdown /\ closing' = closing
        /\ ncores' = ncores /\ saved' = saved
    BY <1>0, <1>2 DEF BeginAcquire, SemWait, SemPost, Types
  <2>3. sem' \in [Sems -> Nat]
    <3>1. CASE BeginAcquire(p)
      BY <1>0, <3>1 DEF BeginAcquire, Types
    <3>2. CASE SemWait(p)
      BY <1>0, <3>2, Tables DEF SemWait, Types, StepOfLabel, Acquiring, Sems
    <3>3. CASE SemPost(p)
      BY <1>0, <3>3, Tables DEF SemPost, Types, Releasing, Sems
    <3> QED
      BY <1>2, <3>1, <3>2, <3>3
  <2>4. /\ acquired' \in [All -> [Sems -> Int]]
        /\ pc' \in [All -> Labels]
        /\ step' \in [All -> {"run", "wait", "got", "posted"}]
        /\ StepOfLabel' /\ ProcCounts' /\ GoneCounts'
        /\ pc'[Main] \in MainLabels /\ acquired'[Main]["queue"] = 0
    <3>1. pc[p] \in Labels /\ acquired[p] \in [Sems -> Int]
      BY <1>0 DEF Types
    <3>2. /\ p \in Proc => /\ pc[p] \in ProcLabels /\ pc[p] # "gone"
                           /\ acquired[p] = [s \in Sems |-> Counted(pc[p], s)]
          /\ p = Main => pc[p] \in MainLabels /\ acquired[p]["queue"] = 0
      BY <1>0, <2>1 DEF ProcCounts, MainApart, Acquiring, Releasing
    <3> QED
      BY <2>1, <2>2, <2>5, <3>1, <3>2, CountMove
  <2> QED
    BY <1>0, <2>2, <2>3, <2>4 DEF CountInv, Types, MainApart
<1>3. ASSUME NEW p \in All, EndAcquire(p) \/ EndRelease(p)
      PROVE  CountInv'
  <2>1. PICK acq \in [Sems -> Int] :
          /\ Leave(p, acq)
          /\ Following(pc[p]) \in Labels
          /\ p \in Proc => /\ Following(pc[p]) \in ProcLabels \ {"gone"}
                           /\ acq = [s \in Sems |-> Counted(Following(pc[p]), s)]
          /\ p = Main => Following(pc[p]) \in MainLabels /\ acq["queue"] = 0
    BY <1>3, CountAcquired, CountReleased DEF EndAcquire, EndRelease
  <2>2. do_shutdown' = do_shutdown /\ ncores' \in Int /\ saved' = saved
    BY <1>0, <1>3 DEF EndAcquire, EndRelease, Types
  <2>3. CASE do_shutdown[p]
    <3>1. p \in Proc /\ M2End(p, acq)
      BY <1>0, <2>1, <2>3 DEF MainApart, All, Leave
    <3> QED
      BY <1>0, <2>1, <2>2, <3>1, CountEnd DEF CountInv, Types, MainApart
  <2>4. CASE ~do_shutdown[p]
    <3>1. /\ acquired' = [acquired EXCEPT ![p] = acq]
          /\ pc' = [pc EXCEPT ![p] = Following(pc[p])]
          /\ step' = [step EXCEPT ![p] = "run"]
          /\ sem' = sem /\ closing' = closing
      BY <1>0, <2>1, <2>4 DEF Leave, Types
    <3>2. /\ acquired' \in [All -> [Sems -> Int]]
          /\ pc' \in [All -> Labels]
          /\ step' \in [All -> {"run", "wait", "got", "posted"}]
          /\ StepOfLabel' /\ ProcCounts' /\ GoneCounts'
          /\ pc'[Main] \in MainLabels /\ acquired'[Main]["queue"] = 0
      BY <2>1, <3>1, CountMove DEF KilledStay
    <3> QED
      BY <1>0, <2>2, <3>1, <3>2 DEF CountInv, Types, MainApart
  <2> QED
    BY <2>3, <2>4
<1>4. ASSUME NEW p \in All, NEW l \in Labels, Goto(p, l), step[p] = "run",
             p \in Proc => /\ l \in ProcLabels /\ l # "gone" /\ pc[p] # "gone"
                          /\ [s \in Sems |-> Counted(pc[p], s)]
                               = [s \in Sems |-> Counted(l, s)],
             p = Main => l \in MainLabels
      PROVE  CountInv'
  <2>1. /\ pc' = [pc EXCEPT ![p] = l] /\ acquired' = [acquired EXCEPT ![p] = acquired[p]]
        /\ step' = [step EXCEPT ![p] = "run"]
        /\ sem' = sem /\ do_shutdown' = do_shutdown /\ closing' = closing
        /\ ncores' = ncores /\ saved' = saved
    BY <1>0, <1>4 DEF Goto, Types
  <2>2. /\ acquired[p] \in [Sems -> Int]
        /\ p \in Proc => acquired[p] = [s \in Sems |-> Counted(l, s)]
        /\ p = Main => acquired[p]["queue"] = 0
    BY <1>0, <1>4 DEF Types, ProcCounts, MainApart
  <2>3. /\ acquired' \in [All -> [Sems -> Int]]
        /\ pc' \in [All -> Labels]
        /\ step' \in [All -> {"run", "wait", "got", "posted"}]
        /\ StepOfLabel' /\ ProcCounts' /\ GoneCounts'
        /\ pc'[Main] \in MainLabels /\ acquired'[Main]["queue"] = 0
    BY <1>4, <2>1, <2>2, CountMove DEF KilledStay
  <2> QED
    BY <1>0, <2>1, <2>3 DEF CountInv, Types, MainApart
<1>5. ASSUME NEW p \in All, Wake(p) \/ TimedOut(p) \/ Computed(p) \/ WaitTasks(p)
      PROVE  CountInv'
  <2>1. PICK l \in {"regain", "finish", "yield"} :
          /\ Goto(p, l)
          /\ l = "regain" => pc[p] = "nested"
          /\ l \in {"finish", "yield"} => pc[p] = "compute"
          /\ l = "finish" => p # Main
    BY <1>5 DEF Wake, TimedOut, Computed, WaitTasks, BeforeWait
  <2>2. step[p] = "run"
    BY <1>0, <2>1 DEF StepOfLabel, Types, Acquiring, Releasing
  <2>3. l \in Labels /\ l \in ProcLabels /\ (p = Main => l \in MainLabels)
    BY <2>1, LabelSet DEF Acquiring, Releasing, ProcLabels, MainLabels
  <2>4. \A s \in Sems : Counted(pc[p], s) = Counted(l, s)
    BY <2>1 DEF Counted, WithCore, WithSlot, Sems
  <2>5. l # "gone" /\ pc[p] # "gone"
    BY <2>1
  <2> QED
    BY <1>4, <2>1, <2>2, <2>3, <2>4, <2>5
<1>6. CASE AddCores
  <2>1. PICK l \in {"morecores", "lesscores"} : Goto(Main, l)
    BY <1>6 DEF AddCores
  <2>2. step[Main] = "run"
    BY <1>0, <1>1, <1>6 DEF AddCores, StepOfLabel, Types, Acquiring, Releasing
  <2>3. l \in Labels /\ l \in MainLabels
    BY <2>1, LabelSet DEF Acquiring, Releasing, MainLabels
  <2> QED
    BY <1>1, <1>4, <2>1, <2>2, <2>3
<1>7. ASSUME NEW p \in All, StartTasks(p)
      PROVE  CountInv'
  <2>1. Main \notin Children(p) /\ Children(p) \subseteq Proc
    BY <1>1 DEF Children
  <2>2. \A q \in All : IF q \in Children(p)
                       THEN pc[q] = "new" /\ pc'[q] = "enqueue" /\ acquired'[q] = None
                       ELSE pc'[q] = pc[q] /\ acquired'[q] = acquired[q]
    BY <1>7 DEF StartTasks, CountAfterFork
  <2>3. None \in [Sems -> Int] /\ None = [s \in Sems |-> Counted("enqueue", s)]
    BY DEF None, Counted, WithCore, WithSlot
  <2>4. "enqueue" \in Labels /\ "enqueue" \in ProcLabels
    BY LabelSet DEF ProcLabels, Acquiring
  <2>5. Types'
    <3>1. pc' \in [All -> Labels] /\ acquired' \in [All -> [Sems -> Int]]
      BY <1>0, <1>7, <2>3, <2>4 DEF StartTasks, CountAfterFork, Types
    <3> QED
      BY <1>0, <1>7, <3>1 DEF StartTasks, Types
  <2>6. StepOfLabel'
    BY <1>0, <1>7, <2>2 DEF StepOfLabel, StartTasks, Acquiring, Releasing
  <2>7. ProcCounts'
    BY <1>0, <1>1, <2>2, <2>3, <2>4 DEF ProcCounts
  <2>9. GoneCounts'
    BY <1>0, <1>1, <1>7, <2>2 DEF GoneCounts, StartTasks
  <2>8. MainApart'
    BY <1>0, <1>1, <1>7, <2>1, <2>2 DEF MainApart, StartTasks
  <2> QED
    BY <2>5, <2>6, <2>7, <2>8, <2>9 DEF CountInv
<1>8. ASSUME NEW p \in Proc, ReadQuit(p) \/ (Terminate(p) /\ ~Deferred(p))
      PROVE  CountInv'
  <2>1. M2End(p, acquired[p]) /\ acquired[p] \in [Sems -> Int]
    BY <1>0, <1>1, <1>8 DEF ReadQuit, Terminate, Types
  <2>2. /\ do_shutdown' \in [All -> BOOLEAN] /\ ~do_shutdown'[Main]
        /\ ncores' = ncores /\ saved' = saved
    BY <1>0, <1>1, <1>8 DEF ReadQuit, Terminate, Types, MainApart
  <2> QED
    BY <1>0, <2>1, <2>2, CountEnd DEF CountInv, Types, MainApart
<1>9. ASSUME NEW p \in Proc, Terminate(p), Deferred(p)
      PROVE  CountInv'
  <2>1. /\ do_shutdown' = [do_shutdown EXCEPT ![p] = TRUE]
        /\ closing' = [closing EXCEPT ![p] = "term"]
        /\ UNCHANGED <<sem, acquired, pc, step, ncores, saved>>
    BY <1>9 DEF Terminate
  <2>2. closing[p] = "quit"
    BY <1>9 DEF Terminate
  <2>3. closing' \in [Proc -> Closings] /\ KilledStay
    BY <1>0, <2>1, <2>2 DEF Types, Closings, KilledStay
  <2>4. do_shutdown' \in [All -> BOOLEAN] /\ ~do_shutdown'[Main]
    BY <1>0, <1>1, <2>1 DEF Types, MainApart
  <2>5. GoneCounts'
    BY <1>0, <2>1, <2>3 DEF GoneCounts, KilledStay
  <2> QED
    BY <1>0, <2>1, <2>3, <2>4, <2>5 DEF CountInv, Types, StepOfLabel, ProcCounts, MainApart
<1>10. ASSUME NEW p \in Proc, KillNine(p)
       PROVE  CountInv'
  <2>1. /\ pc' = [pc EXCEPT ![p] = "gone"] /\ step' = [step EXCEPT ![p] = "run"]
        /\ closing' = [closing EXCEPT ![p] = "kill"]
        /\ UNCHANGED <<sem, acquired, do_shutdown, ncores, saved>>
        /\ step[p] = "wait"
    BY <1>10 DEF KillNine
  <2>2. "gone" \in Labels /\ "gone" \in ProcLabels /\ "kill" \in Closings
    BY LabelSet DEF ProcLabels, Closings
  <2>3. \A q \in All : IF q = p THEN pc'[q] = "gone" /\ step'[q] = "run"
                       ELSE pc'[q] = pc[q] /\ step'[q] = step[q]
    BY <1>0, <2>1 DEF Types
  <2>4. \A q \in Proc : closing'[q] = IF q = p THEN "kill" ELSE closing[q]
    BY <1>0, <2>1 DEF Types
  <2>5. Types'
    BY <1>0, <2>1, <2>2 DEF Types
  <2>6. StepOfLabel'
    BY <1>0, <2>3 DEF StepOfLabel
  <2>7. ProcCounts'
    BY <1>0, <1>1, <2>1, <2>2, <2>3 DEF ProcCounts
  <2>8. acquired[p]["cores"] = 0 /\ acquired[p]["queue"] \in {0, 1}
    <3>1. pc[p] \in Acquiring /\ pc[p] # "gone"
      BY <1>0, <1>1, <2>1 DEF StepOfLabel, Acquiring
    <3>2. \A s \in Sems : acquired[p][s] = Counted(pc[p], s)
      BY <1>0, <3>1 DEF ProcCounts
    <3> QED
      BY <3>1, <3>2 DEF Acquiring, Counted, WithCore, Sems
  <2>9. GoneCounts'
    BY <1>0, <1>1, <2>1, <2>3, <2>4, <2>8 DEF GoneCounts
  <2>10. MainApart'
    BY <1>0, <1>1, <2>1, <2>3 DEF MainApart
  <2> QED
    BY <2>5, <2>6, <2>7, <2>9, <2>10 DEF CountInv
<1>11. ASSUME NEW c \in Proc, Orphaned(c) \/ \E p \in All : Close(p, c)
       PROVE  CountInv'
  <2>1. /\ closing' = [closing EXCEPT ![c] = "quit"] /\ closing[c] = "no"
        /\ UNCHANGED <<sem, acquired, pc, step, do_shutdown, ncores, saved>>
    BY <1>11 DEF Close, Awaited, Orphaned
  <2>2. closing' \in [Proc -> Closings] /\ KilledStay
    BY <1>0, <2>1 DEF Types, Closings, KilledStay
  <2>3. GoneCounts'
    BY <1>0, <2>1, <2>2 DEF GoneCounts, KilledStay
  <2> QED
    BY <1>0, <2>1, <2>2, <2>3 DEF CountInv, Types, StepOfLabel, ProcCounts, MainApart
<1>12. CASE SetcoresSubtree \/ ResetcoresSubtree
  <2>1. Types'
    BY <1>0, <1>12, ParamAssumption DEF SetcoresSubtree, ResetcoresSubtree, Types
  <2> QED
    BY <1>0, <1>12, <2>1
       DEF SetcoresSubtree, ResetcoresSubtree, CountInv, StepOfLabel, ProcCounts, GoneCounts,
           MainApart
<1>13. CASE UNCHANGED vars
  BY <1>0, <1>13 DEF vars, CountInv, Types, StepOfLabel, ProcCounts, GoneCounts, MainApart
<1> QED
  BY <1>2, <1>3, <1>5, <1>6, <1>7, <1>8, <1>9, <1>10, <1>11, <1>12, <1>13
     DEF Next, Proceed, Ending, Computing

\* The counts, types included, follow from the place of every process.
LEMMA CountInvariance == Spec => []CountInv
BY CountInit, CountNext, PTL DEF Spec

-----------------------------------------------------------------------------
(***************************************************************************)
(* Who has a token.                                                        *)
(***************************************************************************)
OneAtMost == \A p \in Proc, s \in Sems : Has(p, s) \in {0, 1}

(* A grandchild has at most one token of each semaphore.                   *)
LEMMA HasValue == CountInv => OneAtMost
<1> SUFFICES ASSUME CountInv, NEW p \in Proc, NEW s \in Sems PROVE Has(p, s) \in {0, 1}
  BY DEF OneAtMost
<1>0. Types /\ StepOfLabel /\ ProcCounts /\ GoneCounts
  BY DEF CountInv
<1>1. /\ p \in All /\ pc[p] \in ProcLabels
      /\ pc[p] # "gone" => acquired[p][s] = Counted(pc[p], s)
      /\ pc[p] = "gone" => acquired[p][s] \in {0, 1}
  BY <1>0 DEF ProcCounts, GoneCounts, All, Sems
<1>2. CASE step[p] = "got"
  <2>1. pc[p] \in {"enqueue", "wantcore", "regain"}
    BY <1>0, <1>1, <1>2 DEF StepOfLabel, Acquiring, ProcLabels
  <2> QED
    BY <1>1, <1>2, <2>1, Tables DEF Has, Taking, Giving, Counted, WithCore, WithSlot, Sems
<1>3. CASE step[p] = "posted"
  <2>1. pc[p] \in {"dequeue", "finish", "yield"}
    BY <1>0, <1>1, <1>3 DEF StepOfLabel, Releasing, ProcLabels
  <2> QED
    BY <1>1, <1>3, <2>1, Tables DEF Has, Taking, Giving, Counted, WithCore, WithSlot, Sems
<1>4. CASE step[p] \notin {"got", "posted"}
  BY <1>1, <1>4 DEF Has, Taking, Giving, Counted
<1> QED
  BY <1>2, <1>3, <1>4

(* A process that does not move has the tokens it had.                     *)
LEMMA HasSame ==
  ASSUME NEW p, acquired'[p] = acquired[p], pc'[p] = pc[p], step'[p] = step[p], NEW s
  PROVE  Has(p, s)' = Has(p, s)
BY DEF Has, Taking, Giving

(* Two sets of processes that differ in one at most.                       *)
LEMMA OneElement ==
  ASSUME NEW S \in SUBSET Proc, NEW T \in SUBSET Proc, NEW p \in Proc,
         S \ {p} = T \ {p}
  PROVE  /\ Cardinality(S) \in Nat /\ Cardinality(T) \in Nat
         /\ Cardinality(T) + (IF p \in S THEN 1 ELSE 0)
              = Cardinality(S) + (IF p \in T THEN 1 ELSE 0)
<1>1. IsFiniteSet(S) /\ IsFiniteSet(T)
  BY ParamAssumption, FS_Subset
<1>2. IsFiniteSet(S \ {p})
  BY <1>1, FS_Subset
<1>3. /\ Cardinality(S) \in Nat /\ Cardinality(T) \in Nat /\ Cardinality(S \ {p}) \in Nat
  BY <1>1, <1>2, FS_CardinalityType
<1>4. Cardinality(S \ {p}) = IF p \in S THEN Cardinality(S) - 1 ELSE Cardinality(S)
  BY <1>1, FS_RemoveElement
<1>5. Cardinality(T \ {p}) = IF p \in T THEN Cardinality(T) - 1 ELSE Cardinality(T)
  BY <1>1, FS_RemoveElement
<1> QED
  BY <1>3, <1>4, <1>5

Total(s) == sem[s] + Cardinality(Holders(s)) + Has(Main, s)

\* One process exchanges tokens with a semaphore.
LEMMA Balance ==
  ASSUME CountInv, CountInv', NEW s \in Sems, NEW p \in All,
         \A q \in All \ {p} : Has(q, s)' = Has(q, s),
         sem'[s] + Has(p, s)' = sem[s] + Has(p, s)
  PROVE  Total(s)' = Total(s)
<1>0. OneAtMost /\ OneAtMost'
  BY HasValue, PTL
<1>1. \A q \in Proc : Has(q, s) \in {0, 1} /\ Has(q, s)' \in {0, 1}
  BY <1>0 DEF OneAtMost
<1>2. Holders(s) \in SUBSET Proc /\ Holders(s)' \in SUBSET Proc
  BY DEF Holders
<1>3. /\ sem[s] \in Nat /\ sem'[s] \in Nat
      /\ Main \in All /\ Main \notin Proc /\ Proc \subseteq All
  BY ParamAssumption DEF CountInv, Types, All
<1>4. Has(Main, s) \in Int /\ Has(Main, s)' \in Int
  <2>1. acquired[Main][s] \in Int /\ acquired'[Main][s] \in Int
    BY <1>3 DEF CountInv, Types
  <2> QED
    BY <2>1 DEF Has
<1>5. CASE p = Main
  <2>1. Holders(s)' = Holders(s)
    BY <1>3, <1>5 DEF Holders
  <2>2. Cardinality(Holders(s)) \in Nat
    BY <1>2, ParamAssumption, FS_Subset, FS_CardinalityType
  <2> QED
    BY <1>3, <1>4, <1>5, <2>1, <2>2 DEF Total
<1>6. CASE p \in Proc
  <2>1. Holders(s) \ {p} = Holders(s)' \ {p}
    BY <1>3 DEF Holders
  <2>2. /\ Cardinality(Holders(s)) \in Nat /\ Cardinality(Holders(s)') \in Nat
        /\ Cardinality(Holders(s)') + (IF p \in Holders(s) THEN 1 ELSE 0)
             = Cardinality(Holders(s)) + (IF p \in Holders(s)' THEN 1 ELSE 0)
    BY <1>2, <1>6, <2>1, OneElement
  <2>3. /\ p \in Holders(s) <=> Has(p, s) = 1
        /\ p \in Holders(s)' <=> Has(p, s)' = 1
    BY <1>6 DEF Holders
  <2>4. Has(Main, s)' = Has(Main, s)
    BY <1>3, <1>6
  <2> QED
    BY <1>1, <1>3, <1>4, <1>6, <2>2, <2>3, <2>4 DEF Total
<1> QED
  BY <1>5, <1>6 DEF All

\* The end of a process gives back what it has.
LEMMA EndBalance ==
  ASSUME CountInv, CountInv', NEW s \in Sems, NEW p \in Proc,
         NEW acq \in [Sems -> Int], M2End(p, acq), Has(p, s) = acq[s]
  PROVE  Total(s)' = Total(s)
<1>0. Types /\ p \in All /\ Main \in All /\ Proc \subseteq All
  BY DEF CountInv, All
<1>1. \A q \in All \ {p} : Has(q, s)' = Has(q, s)
  BY <1>0, HasSame DEF M2End, Types
<1>2. Has(p, s)' = 0
  BY <1>0 DEF M2End, Types, Has, Taking, Giving, None
<1>3. Has(p, s) \in {0, 1}
  BY HasValue DEF OneAtMost
<1>4. sem'[s] = sem[s] + acq[s]
  BY <1>0, <1>3 DEF M2End, Posted, Types
<1>5. sem[s] \in Nat
  BY <1>0 DEF Types
<1> QED
  BY <1>0, <1>1, <1>2, <1>3, <1>4, <1>5, Balance

(* Every step keeps the number of tokens of a semaphore, free or had.      *)
LEMMA TotalKept ==
  ASSUME CountInv, CountInv', [Next]_vars, NEW s \in Sems
  PROVE  Total(s)' = Total(s)
<1>0. Types /\ StepOfLabel /\ ProcCounts /\ GoneCounts /\ MainApart
  BY DEF CountInv
<1>1. Main \in All /\ Proc \subseteq All /\ Main \notin Proc
  BY ParamAssumption DEF All
<1>2. sem[s] \in Nat /\ \A p \in All : acquired[p][s] \in Int
  BY <1>0 DEF Types
<1>3. ASSUME sem' = sem, \A q \in All : Has(q, s)' = Has(q, s)
      PROVE  Total(s)' = Total(s)
  BY <1>1, <1>3, Balance
<1>4. ASSUME NEW p \in All, BeginAcquire(p)
      PROVE  Total(s)' = Total(s)
  <2>1. \A q \in All \ {p} : Has(q, s)' = Has(q, s)
    BY <1>0, <1>4, HasSame DEF BeginAcquire, Types
  <2>2. Has(p, s)' = Has(p, s)
    BY <1>0, <1>4 DEF BeginAcquire, Types, Has, Taking, Giving
  <2> QED
    BY <1>3, <1>4, <2>1, <2>2 DEF BeginAcquire
<1>5. ASSUME NEW p \in All, SemWait(p)
      PROVE  Total(s)' = Total(s)
  <2>1. \A q \in All \ {p} : Has(q, s)' = Has(q, s)
    BY <1>0, <1>5, HasSame DEF SemWait, Types
  <2>2. Has(p, s) = acquired[p][s]
    BY <1>2, <1>5 DEF SemWait, Has, Taking, Giving
  <2>3. Has(p, s)' = acquired[p][s] + (IF Acquires[pc[p]] = s THEN 1 ELSE 0)
    BY <1>0, <1>2, <1>5 DEF SemWait, Types, Has, Taking, Giving
  <2>4. sem'[s] = sem[s] - (IF Acquires[pc[p]] = s THEN 1 ELSE 0)
    BY <1>0, <1>2, <1>5 DEF SemWait, Types
  <2> QED
    BY <1>2, <2>1, <2>2, <2>3, <2>4, Balance
<1>6. ASSUME NEW p \in All, SemPost(p)
      PROVE  Total(s)' = Total(s)
  <2>1. \A q \in All \ {p} : Has(q, s)' = Has(q, s)
    BY <1>0, <1>6, HasSame DEF SemPost, Types
  <2>2. Has(p, s) = acquired[p][s]
    BY <1>2, <1>6 DEF SemPost, Has, Taking, Giving
  <2>3. Has(p, s)' = acquired[p][s] - (IF Releases[pc[p]] = s THEN 1 ELSE 0)
    BY <1>0, <1>2, <1>6 DEF SemPost, Types, Has, Taking, Giving
  <2>4. sem'[s] = sem[s] + (IF Releases[pc[p]] = s THEN 1 ELSE 0)
    BY <1>0, <1>2, <1>6 DEF SemPost, Types
  <2> QED
    BY <1>2, <2>1, <2>2, <2>3, <2>4, Balance
<1>7. ASSUME NEW p \in All, NEW acq \in [Sems -> Int],
             Leave(p, acq), Has(p, s) = acq[s]
      PROVE  Total(s)' = Total(s)
  <2>1. CASE do_shutdown[p]
    BY <1>0, <1>7, <2>1, EndBalance DEF Leave, MainApart, All
  <2>2. CASE ~do_shutdown[p]
    <3>1. /\ acquired' = [acquired EXCEPT ![p] = acq]
          /\ step' = [step EXCEPT ![p] = "run"]
          /\ \A q \in All \ {p} : pc'[q] = pc[q]
          /\ sem' = sem
      BY <1>0, <1>7, <2>2 DEF Leave, Types
    <3>2. \A q \in All \ {p} : Has(q, s)' = Has(q, s)
      BY <1>0, <3>1, HasSame DEF Types
    <3>3. Has(p, s)' = acq[s]
      BY <1>0, <1>7, <3>1 DEF Types, Has, Taking, Giving
    <3> QED
      BY <1>3, <1>7, <3>1, <3>2, <3>3
  <2> QED
    BY <2>1, <2>2
<1>8. ASSUME NEW p \in All, EndAcquire(p)
      PROVE  Total(s)' = Total(s)
  <2>1. /\ Leave(p, [acquired[p] EXCEPT ![Acquires[pc[p]]] = @ + 1])
        /\ step[p] = "got"
    BY <1>8 DEF EndAcquire
  <2>2. [acquired[p] EXCEPT ![Acquires[pc[p]]] = @ + 1] \in [Sems -> Int]
    BY <2>1, CountAcquired
  <2>3. Has(p, s) = [acquired[p] EXCEPT ![Acquires[pc[p]]] = @ + 1][s]
    BY <1>0, <1>2, <2>1 DEF Types, Has, Taking, Giving
  <2> QED
    BY <1>7, <2>1, <2>2, <2>3
<1>9. ASSUME NEW p \in All, EndRelease(p)
      PROVE  Total(s)' = Total(s)
  <2>1. Leave(p, Uncounted(p)) /\ step[p] = "posted"
    BY <1>9 DEF EndRelease
  <2>2. Uncounted(p) \in [Sems -> Int]
    BY <2>1, CountReleased
  <2>3. Has(p, s) = Uncounted(p)[s]
    BY <1>0, <1>2, <2>1 DEF Types, Has, Taking, Giving, Uncounted
  <2> QED
    BY <1>7, <2>1, <2>2, <2>3
<1>10. ASSUME NEW p \in All, NEW l, Goto(p, l), step[p] = "run"
       PROVE  Total(s)' = Total(s)
  <2>1. \A q \in All \ {p} : Has(q, s)' = Has(q, s)
    BY <1>0, <1>10, HasSame DEF Goto, Types
  <2>2. Has(p, s)' = Has(p, s)
    BY <1>10 DEF Goto, Has, Taking, Giving
  <2> QED
    BY <1>3, <1>10, <2>1, <2>2 DEF Goto
<1>11. ASSUME NEW p \in All,
              \/ Wake(p) \/ TimedOut(p) \/ Computed(p) \/ WaitTasks(p)
              \/ (AddCores /\ p = Main)
       PROVE  Total(s)' = Total(s)
  <2>1. (\E l : Goto(p, l)) /\ pc[p] \in {"nested", "compute"}
    BY <1>11 DEF Wake, TimedOut, Computed, WaitTasks, AddCores
  <2>2. step[p] = "run"
    BY <1>0, <2>1 DEF StepOfLabel, Types, Acquiring, Releasing
  <2> QED
    BY <1>10, <2>1, <2>2
<1>12. ASSUME NEW p \in All, StartTasks(p)
       PROVE  Total(s)' = Total(s)
  <2>1. \A q \in All \ Children(p) : Has(q, s)' = Has(q, s)
    BY <1>0, <1>12, HasSame DEF StartTasks, Types
  <2>2. ASSUME NEW q \in Children(p)
        PROVE  Has(q, s)' = Has(q, s)
    <3>1. q \in Proc /\ q \in All /\ pc[q] = "new" /\ step[q] = "run"
      BY <1>0, <1>1, <1>12 DEF Children, StartTasks, StepOfLabel, Types, Acquiring, Releasing
    <3>2. acquired[q][s] = 0
      BY <1>0, <3>1 DEF ProcCounts, Counted, WithCore, WithSlot
    <3>3. acquired'[q][s] = 0 /\ step'[q] = "run"
      BY <1>12, <3>1 DEF StartTasks, CountAfterFork, None
    <3> QED
      BY <3>1, <3>2, <3>3 DEF Has, Taking, Giving
  <2> QED
    BY <1>3, <1>12, <2>1, <2>2 DEF StartTasks
<1>13. ASSUME NEW p \in Proc, ReadQuit(p) \/ (Terminate(p) /\ ~Deferred(p))
       PROVE  Total(s)' = Total(s)
  <2>1. M2End(p, acquired[p]) /\ acquired[p] \in [Sems -> Int] /\ step[p] = "run"
    BY <1>0, <1>1, <1>13
       DEF ReadQuit, Terminate, Deferred, Types, StepOfLabel, Acquiring, Releasing
  <2>2. Has(p, s) = acquired[p][s]
    BY <1>1, <1>2, <2>1 DEF Has, Taking, Giving
  <2> QED
    BY <2>1, <2>2, EndBalance
<1>14. ASSUME NEW p \in Proc, KillNine(p)
       PROVE  Total(s)' = Total(s)
  <2>1. /\ acquired' = acquired /\ sem' = sem /\ p \in All
        /\ pc' = [pc EXCEPT ![p] = "gone"] /\ step' = [step EXCEPT ![p] = "run"]
        /\ step[p] = "wait"
    BY <1>1, <1>14 DEF KillNine
  <2>2. \A q \in All \ {p} : Has(q, s)' = Has(q, s)
    BY <1>0, <2>1, HasSame DEF Types
  <2>3. Has(p, s)' = Has(p, s)
    BY <1>0, <2>1 DEF Has, Taking, Giving, Types
  <2> QED
    BY <1>3, <2>1, <2>2, <2>3
<1>15. ASSUME UNCHANGED <<sem, acquired, pc, step>>
       PROVE  Total(s)' = Total(s)
  BY <1>3, <1>15, HasSame
<1>16. CASE \/ \E p \in Proc : Terminate(p) /\ Deferred(p)
            \/ \E p \in All, c \in Proc : Close(p, c)
            \/ \E p \in Proc : Orphaned(p)
            \/ SetcoresSubtree \/ ResetcoresSubtree \/ UNCHANGED vars
  BY <1>15, <1>16 DEF Terminate, Close, Orphaned, SetcoresSubtree, ResetcoresSubtree, vars
<1> QED
  BY <1>1, <1>4, <1>5, <1>6, <1>8, <1>9, <1>11, <1>12, <1>13, <1>14, <1>16
     DEF Next, Proceed, Ending, Computing

(* The tokens that are there in the beginning.                             *)
LEMMA TotalInit ==
  ASSUME Init
  PROVE  Total("cores") = NCores - 1 /\ Total("queue") = QueueSlots
<1>1. \A p \in All, s \in Sems : Has(p, s) = 0
  BY DEF Init, Has, Taking, Giving, None
<1>2. Main \in All /\ Proc \subseteq All /\ "cores" \in Sems /\ "queue" \in Sems
  BY DEF All, Sems
<1>3. Holders("cores") = {} /\ Holders("queue") = {}
  BY <1>1, <1>2 DEF Holders
<1>4. Cardinality({}) = 0
  BY FS_EmptySet
<1>5. sem["cores"] = NCores - 1 /\ sem["queue"] = QueueSlots
  BY <1>2 DEF Init
<1> QED
  BY <1>1, <1>2, <1>3, <1>4, <1>5, ParamAssumption DEF Total

CoresInv == CountInv /\ Total("cores") = NCores - 1
QueueInv == CountInv /\ Total("queue") = QueueSlots

(* Every step keeps the cores.                                             *)
LEMMA CoresNext == CoresInv /\ [Next]_vars => CoresInv'
<1> SUFFICES ASSUME CoresInv, [Next]_vars PROVE CoresInv'
  OBVIOUS
<1>1. CountInv /\ CountInv'
  BY CountNext DEF CoresInv
<1>2. Total("cores")' = Total("cores")
  BY <1>1, TotalKept DEF Sems
<1> QED
  BY <1>1, <1>2 DEF CoresInv

(* Every step keeps the slots.                                             *)
LEMMA QueueNext == QueueInv /\ [Next]_vars => QueueInv'
<1> SUFFICES ASSUME QueueInv, [Next]_vars PROVE QueueInv'
  OBVIOUS
<1>1. CountInv /\ CountInv'
  BY CountNext DEF QueueInv
<1>2. Total("queue")' = Total("queue")
  BY <1>1, TotalKept DEF Sems
<1> QED
  BY <1>1, <1>2 DEF QueueInv

(* What a process that is gone still has: no core, and a slot only if it   *)
(* was killed.                                                             *)
LEMMA LostTokens ==
  ASSUME CountInv
  PROVE  Lost("cores") = {} /\ \A p \in Lost("queue") : closing[p] = "kill"
<1>1. ASSUME NEW p \in Proc, pc[p] = "gone", NEW s \in Sems
      PROVE  Has(p, s) = acquired[p][s]
  <2>1. step[p] \notin {"got", "posted"}
    BY <1>1 DEF CountInv, StepOfLabel, Acquiring, Releasing, All
  <2>2. acquired[p][s] \in Int
    BY DEF CountInv, Types, All
  <2> QED
    BY <2>1, <2>2 DEF Has, Taking, Giving
<1>2. "cores" \in Sems /\ "queue" \in Sems
  BY DEF Sems
<1> QED
  BY <1>1, <1>2 DEF Lost, Holders, CountInv, GoneCounts

-----------------------------------------------------------------------------
\* Every variable keeps its type; in particular a grandchild never counts more
\* than one token of a semaphore, nor fewer than none.
THEOREM TokenTypes == Spec => []TypeOK
<1>1. CountInv => TypeOK
  <2> SUFFICES ASSUME CountInv PROVE TypeOK
    OBVIOUS
  <2>1. \A p \in Proc, s \in Sems : acquired[p][s] \in {0, 1}
    <3>1. \A p \in Proc, s \in Sems :
            IF pc[p] = "gone" THEN acquired[p][s] \in {0, 1}
                              ELSE acquired[p][s] = Counted(pc[p], s)
      BY DEF CountInv, ProcCounts, GoneCounts, Sems
    <3>2. \A l, s : Counted(l, s) \in {0, 1}
      BY DEF Counted
    <3> QED
      BY <3>1, <3>2
  <2> QED
    BY <2>1 DEF CountInv, Types, TypeOK, Closings
<1> QED
  BY <1>1, CountInvariance, PTL

\* A process that waits for tasks it started, or for the go-ahead, has given its
\* core back, and one that computes has its core and no slot of sem_queue.
THEOREM HoldCorrect == Spec => []NoHoldAndWait
<1>1. CountInv => NoHoldAndWait
  <2> SUFFICES ASSUME CountInv, NEW p \in Proc,
                      pc[p] \in {"nested", "await", "compute"}
               PROVE  \A s \in Sems : Has(p, s) = IF pc[p] = "compute" /\ s = "cores"
                                                  THEN 1 ELSE 0
    BY DEF NoHoldAndWait, Sems
  <2>1. p \in All /\ \A s \in Sems : acquired[p][s] = Counted(pc[p], s)
    <3>1. pc[p] # "gone"
      OBVIOUS
    <3> QED
      BY <3>1 DEF CountInv, ProcCounts, All
  <2>2. step[p] = "run"
    BY <2>1 DEF CountInv, Types, StepOfLabel, Acquiring, Releasing
  <2> QED
    BY <2>1, <2>2 DEF Has, Taking, Giving, Counted, WithCore, WithSlot, Sems
<1> QED
  BY <1>1, CountInvariance, PTL

\* The cores are conserved, also under SIGKILL: no process holds a core while it
\* is in sem_wait, where alone SIGKILL can hit it.
THEOREM CoresCorrect == Spec => []CoresConserved
<1>1. Init => CoresInv
  BY CountInit, TotalInit DEF CoresInv
<1>2. CoresInv => CoresConserved
  BY LostTokens DEF CoresInv, CoresConserved, Total
<1> QED
  BY <1>1, <1>2, CoresNext, PTL DEF Spec

\* The slots of sem_queue are conserved, whether or not processes are killed: each
\* is free, on its way to a core with a live process, or was lost by the SIGKILL of
\* a process that waited for its core.
THEOREM QueueCorrect == Spec => []QueueConserved
<1>1. Init => QueueInv
  BY CountInit, TotalInit DEF QueueInv
<1>2. QueueInv => QueueConserved
  <2> SUFFICES ASSUME QueueInv PROVE QueueConserved
    OBVIOUS
  <2>1. Types /\ StepOfLabel /\ MainApart /\ Main \in All /\ "queue" \in Sems
    BY DEF QueueInv, CountInv, All, Sems
  <2>2. Has(Main, "queue") = 0
    BY <2>1, Tables DEF Has, Taking, Giving, MainApart, MainLabels, StepOfLabel,
       Acquiring, Releasing
  <2>3. Holders("queue") \in SUBSET Proc
    BY DEF Holders
  <2>4. sem["queue"] \in Nat /\ Cardinality(Holders("queue")) \in Nat
    BY <2>1, <2>3, ParamAssumption, FS_Subset, FS_CardinalityType DEF Types
  <2> QED
    BY <2>2, <2>4, LostTokens DEF QueueInv, QueueConserved, Total
<1>3. QueueInv /\ [Next]_vars => QueueInv'
  BY QueueNext
<1> QED
  BY <1>1, <1>2, <1>3, PTL DEF Spec

(***************************************************************************)
(* NCORES: what addcores has added to it, the main process has released    *)
(* more often than acquired; while it waits in waitTasks it lends one more *)
(* core.  parallelWaitN saves NCORES and gives it back.                    *)
(***************************************************************************)
Lent == IF pc[Main] \in {"nested", "regain"} THEN 1 ELSE 0

Bound == IF saved > 0 THEN saved ELSE ncores

NcoresInv ==
    /\ CoresInv
    /\ saved >= 0 /\ Bound >= 1
    /\ Bound = NCores - acquired[Main]["cores"] - Lent
    /\ pc[Main] \in {"lesscores", "morecores"} => saved = 0
    /\ pc[Main] = "lesscores" => ncores > 1

(* Every step keeps NCORES in step with what the main process counts.      *)
LEMMA NcoresNext == NcoresInv /\ [Next]_vars => NcoresInv'
<1> SUFFICES ASSUME NcoresInv, [Next]_vars PROVE NcoresInv'
  OBVIOUS
<1>0. /\ CoresInv' /\ Types /\ StepOfLabel /\ MainApart
      /\ Main \in All /\ Main \notin Proc /\ "cores" \in Sems
  BY CoresNext, ParamAssumption DEF NcoresInv, CoresInv, CountInv, All, Sems
<1>1. acquired[Main]["cores"] \in Int /\ ncores \in Int /\ saved \in Int
  BY <1>0 DEF Types
<1>2. ASSUME UNCHANGED <<ncores, saved>>, acquired'[Main] = acquired[Main],
             \/ pc'[Main] = pc[Main]
             \/ pc'[Main] \notin {"lesscores", "morecores"} /\ Lent' = Lent
      PROVE  NcoresInv'
  BY <1>0, <1>2 DEF NcoresInv, Bound, Lent
<1>3. ASSUME NEW p \in Proc, Proceed(p) \/ WaitTasks(p) \/ TimedOut(p)
      PROVE  NcoresInv'
  <2>1. acquired'[Main] = acquired[Main] /\ pc'[Main] = pc[Main] /\ saved' = saved
    BY <1>0, <1>3 DEF Types, Proceed, BeginAcquire, SemWait, EndAcquire, SemPost,
       EndRelease, Wake, TimedOut, Computed, WaitTasks, Leave, M2End, Goto
  <2>2. pc[p] \notin {"lesscores", "morecores"}
    BY DEF NcoresInv, CoresInv, CountInv, ProcCounts, ProcLabels
  <2>3. ncores' = ncores
    BY <1>3, <2>2 DEF Proceed, BeginAcquire, SemWait, EndAcquire, SemPost, EndRelease,
       Wake, TimedOut, Computed, WaitTasks, Goto
  <2> QED
    BY <1>2, <2>1, <2>3 DEF Lent
<1>4. CASE BeginAcquire(Main) \/ SemWait(Main) \/ SemPost(Main)
  BY <1>2, <1>4 DEF BeginAcquire, SemWait, SemPost, Lent
<1>5. CASE Wake(Main) \/ TimedOut(Main) \/ Computed(Main) \/ WaitTasks(Main)
  <2>1. /\ UNCHANGED <<acquired, ncores, saved>>
        /\ \/ pc[Main] = "nested" /\ pc'[Main] = "regain"
           \/ pc[Main] = "compute" /\ pc'[Main] = "yield"
    BY <1>0, <1>5 DEF Wake, TimedOut, Computed, WaitTasks, BeforeWait, Goto, Types
  <2> QED
    BY <1>2, <2>1 DEF Lent
<1>12. CASE AddCores
  <2>1. /\ UNCHANGED <<acquired, ncores, saved>> /\ saved = 0 /\ pc[Main] = "compute"
        /\ \/ pc'[Main] = "morecores"
           \/ pc'[Main] = "lesscores" /\ ncores > 1
    BY <1>0, <1>12 DEF AddCores, Goto, Types
  <2> QED
    BY <1>0, <1>1, <2>1 DEF NcoresInv, Bound, Lent
<1>6. CASE EndAcquire(Main)
  <2>1. /\ pc[Main] \in {"regain", "lesscores"}
        /\ acquired' = [acquired EXCEPT ![Main] =
                          [acquired[Main] EXCEPT ![Acquires[pc[Main]]] = @ + 1]]
        /\ pc' = [pc EXCEPT ![Main] = Following(pc[Main])]
        /\ ncores' = IF pc[Main] = "lesscores" THEN ncores - 1 ELSE ncores
        /\ saved' = saved
    BY <1>0, <1>6 DEF EndAcquire, Leave, MainApart, StepOfLabel, MainLabels, Acquiring
  <2>2. acquired'[Main]["cores"] = acquired[Main]["cores"] + 1 /\ pc'[Main] = "compute"
    BY <1>0, <2>1, Tables, Follow DEF Types
  <2> QED
    BY <1>0, <1>1, <2>1, <2>2, ParamAssumption DEF NcoresInv, Bound, Lent
<1>7. CASE EndRelease(Main)
  <2>1. /\ pc[Main] \in {"yield", "morecores"}
        /\ acquired' = [acquired EXCEPT ![Main] = Uncounted(Main)]
        /\ pc' = [pc EXCEPT ![Main] = Following(pc[Main])]
        /\ ncores' = IF pc[Main] = "morecores" THEN ncores + 1 ELSE ncores
        /\ saved' = saved
    BY <1>0, <1>7 DEF EndRelease, Leave, MainApart, StepOfLabel, MainLabels, Releasing
  <2>2. acquired'[Main]["cores"] = acquired[Main]["cores"] - 1
    BY <1>0, <2>1, Tables DEF Types, Uncounted
  <2>3. pc'[Main] = IF pc[Main] = "yield" THEN "nested" ELSE "compute"
    BY <1>0, <2>1, Follow DEF Types
  <2> QED
    BY <1>0, <1>1, <2>1, <2>2, <2>3, ParamAssumption DEF NcoresInv, Bound, Lent
<1>8. ASSUME NEW p \in All, StartTasks(p)
      PROVE  NcoresInv'
  <2>1. Main \notin Children(p)
    BY <1>0 DEF Children
  <2> QED
    BY <1>0, <1>2, <1>8, <2>1 DEF StartTasks, Lent
<1>9. ASSUME NEW p \in Proc, Ending(p)
      PROVE  NcoresInv'
  <2>1. acquired'[Main] = acquired[Main] /\ pc'[Main] = pc[Main]
        /\ UNCHANGED <<ncores, saved>>
    BY <1>0, <1>9 DEF Ending, ReadQuit, Terminate, KillNine, M2End, Types
  <2> QED
    BY <1>2, <2>1 DEF Lent
<1>10. CASE (\E p \in All, c \in Proc : Close(p, c)) \/ (\E p \in Proc : Orphaned(p))
              \/ UNCHANGED vars
  <2>1. UNCHANGED <<acquired, pc, ncores, saved>>
    BY <1>10, Zenon DEF Close, Orphaned, vars
  <2>2. /\ UNCHANGED <<ncores, saved>> /\ acquired'[Main] = acquired[Main]
        /\ pc'[Main] = pc[Main]
    BY <2>1
  <2> QED
    BY <1>2, <2>2 DEF Lent
<1>11. CASE SetcoresSubtree \/ ResetcoresSubtree
  <2>1. acquired' = acquired /\ pc' = pc /\ pc[Main] = "compute"
    BY <1>11 DEF SetcoresSubtree, ResetcoresSubtree
  <2>2. saved' >= 0 /\ Bound' = Bound
    BY <1>1, <1>11 DEF SetcoresSubtree, ResetcoresSubtree, NcoresInv, Bound
  <2> QED
    BY <1>0, <2>1, <2>2 DEF NcoresInv, Lent
<1>13. ASSUME NEW p \in All, Proceed(p) \/ WaitTasks(p) \/ TimedOut(p)
       PROVE  NcoresInv'
  <2>1. CASE p \in Proc
    BY <1>3, <1>13, <2>1
  <2>2. CASE p = Main
    BY <1>4, <1>5, <1>6, <1>7, <1>13, <2>2 DEF Proceed
  <2> QED
    BY <1>13, <2>1, <2>2 DEF All
<1>14. CASE UNCHANGED vars \/ Computing
  BY <1>10, <1>14 DEF Computing
<1>15. CASE Next
  BY <1>8, <1>9, <1>10, <1>11, <1>12, <1>13, <1>14, <1>15 DEF Next
<1> QED
  BY <1>14, <1>15

\* At most NCORES processes compute at any time, whatever addcores does meanwhile,
\* and during parallelWaitN at most the NCORES of its caller.
THEOREM WithinCorrect == Spec => []WithinCores
<1>1. Init => NcoresInv
  BY CountInit, TotalInit, ParamAssumption
     DEF NcoresInv, CoresInv, Init, Bound, Lent, None, All, Sems
<1>2. NcoresInv => WithinCores
  <2> SUFFICES ASSUME NcoresInv PROVE WithinCores
    OBVIOUS
  <2> DEFINE Tasks == {p \in Proc : pc[p] = "compute"}
             C == {p \in All : pc[p] = "compute"}
  <2>1. /\ Types /\ StepOfLabel /\ ProcCounts /\ MainApart
        /\ Main \in All /\ Main \notin Proc /\ "cores" \in Sems /\ Proc \subseteq All
    BY ParamAssumption DEF NcoresInv, CoresInv, CountInv, All, Sems
  <2>2. Tasks \subseteq Holders("cores")
    <3> SUFFICES ASSUME NEW p \in Proc, pc[p] = "compute" PROVE Has(p, "cores") = 1
      BY DEF Holders
    <3>1. step[p] = "run" /\ acquired[p]["cores"] = 1
      BY <2>1 DEF Types, StepOfLabel, Acquiring, Releasing, ProcCounts, Counted, WithCore
    <3> QED
      BY <3>1 DEF Has, Taking, Giving
  <2>3. IsFiniteSet(Holders("cores")) /\ IsFiniteSet(Tasks)
    BY ParamAssumption, FS_Subset DEF Holders
  <2>4. /\ Cardinality(Tasks) \in Nat /\ Cardinality(Holders("cores")) \in Nat
        /\ Cardinality(Tasks) <= Cardinality(Holders("cores"))
    BY <2>2, <2>3, FS_Subset, FS_CardinalityType
  <2>5. Cardinality(C) = Cardinality(Tasks) + (IF pc[Main] = "compute" THEN 1 ELSE 0)
    <3>1. C = IF pc[Main] = "compute" THEN Tasks \cup {Main} ELSE Tasks
      BY <2>1 DEF All
    <3>2. Main \notin Tasks
      BY <2>1
    <3> HIDE DEF Tasks, C
    <3>3. Cardinality(Tasks \cup {Main}) = Cardinality(Tasks) + 1
      BY <2>3, <3>2, FS_AddElement
    <3> QED
      BY <2>4, <3>1, <3>3
  <2>6. sem["cores"] \in Nat /\ acquired[Main]["cores"] \in Int /\ Bound \in Int
    BY <2>1 DEF Types, Bound
  <2>7. /\ sem["cores"] + Cardinality(Holders("cores")) + Has(Main, "cores") = NCores - 1
        /\ Bound = NCores - acquired[Main]["cores"] - Lent
    BY DEF NcoresInv, CoresInv, Total
  <2>8. pc[Main] = "compute" => Has(Main, "cores") = acquired[Main]["cores"] /\ Lent = 0
    <3>1. pc[Main] = "compute" => step[Main] = "run"
      BY <2>1 DEF Types, StepOfLabel, Acquiring, Releasing
    <3> QED
      BY <2>6, <3>1 DEF Has, Taking, Giving, Lent
  <2>9. Has(Main, "cores") \in Int /\ Has(Main, "cores") + 1 >= acquired[Main]["cores"]
        /\ Lent \in {0, 1} /\ (Lent = 1 => Has(Main, "cores") >= acquired[Main]["cores"])
    BY <2>1, <2>6 DEF Has, Taking, Giving, Lent, StepOfLabel, Releasing
  <2>10. Cardinality(C) <= Bound
    BY <2>4, <2>5, <2>6, <2>7, <2>8, <2>9, ParamAssumption
  <2> QED
    BY <2>10 DEF WithinCores, Bound
<1>3. NcoresInv /\ [Next]_vars => NcoresInv'
  BY NcoresNext
<1> QED
  BY <1>1, <1>2, <1>3, PTL DEF Spec
===============================================================================

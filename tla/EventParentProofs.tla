------------------------- MODULE EventParentProofs -------------------------
(***************************************************************************)
(* The parent process never loses a child, whatever ServerLimit, the other *)
(* limits and the faults are: max_daemons_limit covers the scoreboard, an  *)
(* ungraceful restart and a shutdown leave no process behind, and          *)
(* total_daemons differs from the number of children only by those that    *)
(* ungraceful restarts reclaimed.                                          *)
(***************************************************************************)
EXTENDS EventParent, FiniteSetTheorems, WellFoundedInduction, TLAPS

-----------------------------------------------------------------------------
(* Greatest and least elements of sets of slots *)

\* A non-empty set of natural numbers has a least element.
LEMMA LeastNat ==
    ASSUME NEW S, S \subseteq Nat, S # {}
    PROVE  \E n \in S : \A m \in S : n <= m
<1> DEFINE R == {ss \in Nat \X Nat : ss[1] < ss[2]}
<1>1. IsWellFoundedOn(R, Nat)
  BY NatLessThanWellFounded DEF OpToRel
<1> HIDE DEF R
<1>2. PICK x \in S : \A y \in S : <<y, x>> \notin R
  BY <1>1, WFMin, Zenon
<1>3. \A y \in S : ~ (y < x)
  BY <1>2 DEF R
<1> QED
  BY <1>3

\* SetMax is the greatest element of a non-empty set that has a bound.
LEMMA SetMaxIsGreatest ==
    ASSUME NEW a \in Int, NEW b \in Int, NEW S, S \subseteq a .. b, S # {}
    PROVE  SetMax(S) \in S /\ \A m \in S : m <= SetMax(S)
<1> DEFINE T == {b - x : x \in S}
<1>1. T \subseteq Nat /\ T # {}
  OBVIOUS
<1>2. PICK t \in T : \A u \in T : t <= u
  BY <1>1, LeastNat
<1>3. PICK x \in S : t = b - x
  OBVIOUS
<1>4. \A m \in S : m <= x
  <2> TAKE m \in S
  <2>1. b - m \in T
    OBVIOUS
  <2>2. b - x <= b - m
    BY <1>2, <1>3, <2>1
  <2> QED
    BY <2>2
<1> QED
  BY <1>4 DEF SetMax

LEMMA SetMinOfTwo ==
    ASSUME NEW a \in Int, NEW b \in Int
    PROVE  SetMin({a, b}) = IF a <= b THEN a ELSE b
<1> DEFINE m == IF a <= b THEN a ELSE b
<1>1. m \in {a, b} /\ \A k \in {a, b} : m <= k
  OBVIOUS
<1>2. \A n \in {a, b} : (\A k \in {a, b} : n <= k) => n = m
  OBVIOUS
<1> QED
  BY <1>1, <1>2 DEF SetMin

LEMMA SlotsAreNumbers ==
    ServerLimit \in Nat /\ Slots = 0 .. (ServerLimit - 1) /\ \A s \in Slots : s \in Int
BY ParentAssumption DEF Slots

\* make_child raises the limit above every slot it is tried in and never lowers it.
LEMMA RaiseCovers ==
    ASSUME NEW limit \in Int, NEW A \in SUBSET Slots
    PROVE  /\ Raise(limit, A) \in Int
           /\ Raise(limit, A) >= limit
           /\ \A s \in A : s < Raise(limit, A)
<1>2. CASE A = {}
  BY <1>2 DEF Raise
<1>3. CASE A # {}
  <2>0. 0 \in Int /\ ServerLimit - 1 \in Int /\ A \subseteq 0 .. (ServerLimit - 1)
    BY SlotsAreNumbers
  <2>1. SetMax(A) \in A /\ \A m \in A : m <= SetMax(A)
    BY <1>3, <2>0, SetMaxIsGreatest, Zenon
  <2>2. SetMax(A) \in Int /\ \A m \in A : m \in Int
    BY <2>1, SlotsAreNumbers
  <2> QED
    BY <1>3, <2>1, <2>2 DEF Raise
<1> QED
  BY <1>2, <1>3

\* Maintenance lowers the limit no further than the last slot in use.
LEMMA LastNonDeadCovers ==
    /\ LastNonDead \in Int
    /\ \A s \in Slots : pid[s] => s < LastNonDead + 1
<1> DEFINE S == {-1} \cup {s \in Slots : pid[s]}
<1>1. -1 \in Int /\ ServerLimit \in Int
  BY SlotsAreNumbers
<1>2. S \subseteq -1 .. ServerLimit /\ S # {}
  BY SlotsAreNumbers
<1>3. SetMax(S) \in S /\ \A m \in S : m <= SetMax(S)
  <2> HIDE DEF S
  <2> QED
    BY <1>1, <1>2, SetMaxIsGreatest, Zenon
<1>4. LastNonDead = SetMax(S)
  BY DEF LastNonDead
<1>5. SetMax(S) \in Int /\ \A m \in S : m \in Int
  BY <1>1, <1>2, <1>3
<1>6. \A s \in Slots : pid[s] => s \in S
  OBVIOUS
<1> HIDE DEF S
<1> QED
  BY <1>3, <1>4, <1>5, <1>6, SlotsAreNumbers

-----------------------------------------------------------------------------
(* Slots in which children are started *)

LEMMA SlotsFinite ==
    /\ IsFiniteSet(Slots)
    /\ \A S \in SUBSET Slots : IsFiniteSet(S) /\ Cardinality(S) \in Nat
<1>2. IsFiniteSet(Slots)
  BY SlotsAreNumbers, FS_Interval
<1> QED
  BY <1>2, FS_Subset, FS_CardinalityType

LEMMA FirstOfMonotone ==
    ASSUME NEW S \in SUBSET Slots, NEW k \in Int, NEW n \in Int, k <= n
    PROVE  FirstOf(S, k) \subseteq FirstOf(S, n) /\ FirstOf(S, k) \subseteq S
<1>1. \A s \in S : Cardinality({t \in S : t < s}) \in Nat
  BY SlotsFinite
<1> QED
  BY <1>1 DEF FirstOf

\* startup_children tries the slots it fills, and at most one more.
LEMMA FirstOfTried ==
    ASSUME NEW S \in SUBSET Slots, NEW k \in Int
    PROVE  FirstOf(S, k) \subseteq FirstOf(S, Cardinality(FirstOf(S, k)) + 1)
<1> DEFINE F == FirstOf(S, k)
<1> SUFFICES ASSUME NEW s \in F
             PROVE  s \in FirstOf(S, Cardinality(F) + 1)
  OBVIOUS
<1> DEFINE Below(x) == {t \in S : t < x}
<1>1. s \in S /\ Cardinality(Below(s)) < k
  BY DEF FirstOf
<1>2. \A x \in S : Below(x) \in SUBSET Slots
  OBVIOUS
<1>3. \A x \in S : IsFiniteSet(Below(x)) /\ Cardinality(Below(x)) \in Nat
  BY <1>2, SlotsFinite
<1>4. \A x \in S : x \in Int
  BY SlotsAreNumbers
<1>5. Below(s) \subseteq F
  <2> SUFFICES ASSUME NEW t \in Below(s)
               PROVE  t \in F
    OBVIOUS
  <2>1. t \in S /\ Below(t) \subseteq Below(s)
    BY <1>1, <1>4
  <2>2. Cardinality(Below(t)) <= Cardinality(Below(s))
    BY <1>1, <1>3, <2>1, FS_Subset
  <2>3. Cardinality(Below(t)) < k
    BY <1>1, <1>3, <2>1, <2>2
  <2> QED
    BY <2>1, <2>3 DEF FirstOf
<1>6. F \in SUBSET Slots
  BY DEF FirstOf
<1>7. Cardinality(Below(s)) <= Cardinality(F)
  BY <1>5, <1>6, SlotsFinite, FS_Subset
<1>8. Cardinality(Below(s)) < Cardinality(F) + 1
  BY <1>1, <1>3, <1>6, <1>7, SlotsFinite
<1> QED
  BY <1>1, <1>8 DEF FirstOf

-----------------------------------------------------------------------------
(* The inductive invariant.  Children are counted and found through the
   scoreboard, so the three properties are proved together.  NoOrphans is not
   inductive: that no process is left follows from LimitCoversChildren once the
   scoreboard is empty, and Run needs it empty to count its new children. *)

Procs == Running \cup {"none", "zombie"}

Counted == {s \in Slots : pid[s]}

Bookkeeping ==
    /\ pid \in [Slots -> BOOLEAN]
    /\ proc \in [Slots -> Procs]
    /\ max_daemons_limit \in Int
    /\ total_daemons \in Int /\ reclaimed \in Int
    /\ remaining_children_to_start \in Int
    /\ ppc \in {"run", "loop", "grace", "done"}

\* The scoreboard is empty when the parent ends and before it starts over.
BoardCleared ==
    ppc = "done" \/ (ppc = "run" /\ ~is_graceful) => \A s \in Slots : ~pid[s]

ParentInv ==
    /\ Bookkeeping
    /\ LimitCoversChildren
    /\ BoardCleared
    /\ DaemonsCounted

\* What a step does that starts no child and takes none off the scoreboard
Quiet ==
    /\ UNCHANGED <<pid, ppc, total_daemons, reclaimed, remaining_children_to_start>>
    /\ proc' \in [Slots -> Procs]
    /\ \A s \in Slots : proc'[s] \in Running => proc[s] \in Running
    /\ \/ UNCHANGED max_daemons_limit
       \/ max_daemons_limit' = LastNonDead + 1
    /\ is_graceful' = is_graceful \/ ppc \in {"loop", "grace"}

LEMMA QuietKeepsInv == ParentInv /\ Quiet => ParentInv'
<1> SUFFICES ASSUME ParentInv, Quiet PROVE ParentInv'
  OBVIOUS
<1>1. Bookkeeping'
  BY LastNonDeadCovers DEF ParentInv, Bookkeeping, Quiet
<1>2. LimitCoversChildren'
  <2> SUFFICES ASSUME NEW s \in Slots, pid[s] \/ proc'[s] \in Running
               PROVE  pid[s] /\ s < max_daemons_limit'
    BY DEF LimitCoversChildren, Alive, Quiet
  <2>1. pid[s] /\ s < max_daemons_limit
    BY DEF ParentInv, LimitCoversChildren, Alive, Quiet
  <2>2. pid[s] => s < LastNonDead + 1
    BY LastNonDeadCovers
  <2> QED
    BY <2>1, <2>2 DEF Quiet
<1>3. BoardCleared'
  BY DEF ParentInv, BoardCleared, Quiet
<1>4. DaemonsCounted'
  BY DEF ParentInv, DaemonsCounted, Quiet
<1> QED
  BY <1>1, <1>2, <1>3, <1>4 DEF ParentInv

LEMMA ChildIsQuiet ==
    ASSUME Bookkeeping, NEW s \in Slots,
           ChildWork(s) \/ ChildLoad(s) \/ ChildFault(s)
    PROVE  Quiet
<1> USE DEF Quiet, Bookkeeping, parentVars, boardVars, procVars, spawnVars, stopVars,
            Procs, Running
<1>1. CASE StartThreads(s)
  BY <1>1 DEF StartThreads, SetProc
<1>2. CASE ThreadsReady(s)
  BY <1>2 DEF ThreadsReady
<1>3. CASE ReadPod(s)
  BY <1>3 DEF ReadPod
<1>4. CASE Quiesce(s)
  BY <1>4 DEF Quiesce, SetProc
<1>5. CASE MainWakes(s)
  BY <1>5 DEF MainWakes
<1>6. CASE Exit(s)
  BY <1>6 DEF Exit, Ends
<1>7. CASE \E n \in Loads : ThreadsBusy(s, n)
  BY <1>7 DEF ThreadsBusy
<1>8. CASE ToggleAccepting(s)
  BY <1>8 DEF ToggleAccepting
<1>9. CASE \E why \in SelfQuits : SelfQuit(s, why)
  BY <1>9 DEF SelfQuit, SetProc
<1>10. CASE \E why \in {"sick", "fatal"} : StartFails(s, why)
  BY <1>10 DEF StartFails, Ends
<1>11. CASE Crash(s)
  BY <1>11 DEF Crash, Ends
<1> QED
  BY <1>1, <1>2, <1>3, <1>4, <1>5, <1>6, <1>7, <1>8, <1>9, <1>10, <1>11
  DEF ChildWork, ChildLoad, ChildFault

LEMMA ParentIsQuiet ==
    ASSUME Bookkeeping,
           \/ \E s \in Slots : ReapFatal(s)
           \/ BasketCase \/ TooManySpare \/ NoChange
           \/ \E sig \in Signals : Signal(sig)
    PROVE  Quiet
<1> USE DEF Quiet, Bookkeeping, boardVars, procVars, spawnVars, stopVars,
            Procs, Running
<1>1. CASE \E s \in Slots : ReapFatal(s)
  BY <1>1 DEF ReapFatal, SetProc
<1>2. CASE BasketCase
  BY <1>2 DEF BasketCase
<1>3. CASE TooManySpare
  BY <1>3 DEF TooManySpare, Scan
<1>4. CASE NoChange
  BY <1>4 DEF NoChange, Scan
<1>5. CASE \E sig \in Signals : Signal(sig)
  BY <1>5 DEF Signal
<1> QED
  BY <1>1, <1>2, <1>3, <1>4, <1>5

-----------------------------------------------------------------------------
(* Steps that start children *)

\* Children are started in the slots F, which were free.
Starts(F) ==
    /\ F \subseteq FreeSlots
    /\ pid' = [s \in Slots |-> s \in F \/ pid[s]]
    /\ proc' = [s \in Slots |-> IF s \in F THEN "forked" ELSE proc[s]]
    /\ total_daemons' = total_daemons + Cardinality(F)
    /\ max_daemons_limit' \in Int
    /\ \A s \in Slots : s \in F \/ pid[s] => s < max_daemons_limit'
    /\ ppc \in {"run", "loop"} /\ ppc' = "loop"
    /\ remaining_children_to_start' \in Int
    /\ UNCHANGED reclaimed

LEMMA StartsKeepsInv ==
    ASSUME ParentInv, NEW F, Starts(F)
    PROVE  ParentInv'
<1> USE DEF ParentInv, Bookkeeping, Starts
<1>1. F \in SUBSET Slots /\ Counted \in SUBSET Slots /\ F \cap Counted = {}
  BY DEF FreeSlots, Counted
<1>2. /\ IsFiniteSet(F) /\ Cardinality(F) \in Nat
      /\ IsFiniteSet(Counted) /\ Cardinality(Counted) \in Nat
  BY <1>1, SlotsFinite
<1>3. Bookkeeping'
  <2>1. "forked" \in Procs
    BY DEF Procs, Running
  <2>2. pid' \in [Slots -> BOOLEAN]
    OBVIOUS
  <2>3. proc' \in [Slots -> Procs]
    BY <2>1
  <2> QED
    BY <1>2, <2>2, <2>3
<1>4. LimitCoversChildren'
  BY DEF LimitCoversChildren, Alive
<1>5. BoardCleared'
  BY DEF BoardCleared
<1>6. DaemonsCounted'
  <2>1. {s \in Slots : pid'[s]} = F \cup Counted
    BY <1>1 DEF Counted
  <2>2. Cardinality(F \cup Counted) = Cardinality(F) + Cardinality(Counted)
    <3>1. Cardinality(F \cup Counted)
            = Cardinality(F) + Cardinality(Counted) - Cardinality(F \cap Counted)
      BY <1>2, FS_Union
    <3>2. Cardinality(F \cap Counted) = 0
      BY <1>1, FS_EmptySet
    <3> QED
      BY <1>2, <3>1, <3>2
  <2>3. total_daemons = Cardinality(Counted) + reclaimed
    BY DEF DaemonsCounted, Counted
  <2>4. total_daemons' = Cardinality(F \cup Counted) + reclaimed'
    BY <1>2, <2>2, <2>3
  <2> QED
    BY <2>1, <2>4, Zenon DEF DaemonsCounted
<1> QED
  BY <1>3, <1>4, <1>5, <1>6

LEMMA StartRemainingStarts ==
    ASSUME ParentInv, StartRemaining
    PROVE  \E F : Starts(F)
<1> DEFINE n == remaining_children_to_start
           wanted == FirstOf(FreeSlots, n)
           Some == IF ForkFails THEN {FirstOf(FreeSlots, k) : k \in 0 .. n} ELSE {wanted}
<1>1. PICK F \in Some :
        /\ StartProcs(F)
        /\ NoteStarted(F)
        /\ max_daemons_limit' =
               Raise(max_daemons_limit,
                     wanted \cap FirstOf(FreeSlots, Cardinality(F) + 1))
  BY DEF StartRemaining, StartUp
<1>2. PICK k \in 0 .. n : F = FirstOf(FreeSlots, k)
  BY DEF StartRemaining, ParentInv, Bookkeeping
<1>3. FreeSlots \in SUBSET Slots /\ k \in Int /\ n \in Int /\ k <= n
  BY DEF FreeSlots, ParentInv, Bookkeeping
<1>4. F \subseteq wanted /\ F \subseteq FreeSlots
  BY <1>2, <1>3, FirstOfMonotone
<1>5. F \subseteq FirstOf(FreeSlots, Cardinality(F) + 1)
  BY <1>2, <1>3, FirstOfTried
<1> DEFINE tried == wanted \cap FirstOf(FreeSlots, Cardinality(F) + 1)
<1>6. tried \in SUBSET Slots /\ F \subseteq tried
  BY <1>3, <1>4, <1>5 DEF FirstOf
<1>7. /\ max_daemons_limit' \in Int
      /\ max_daemons_limit' >= max_daemons_limit
      /\ \A s \in tried : s < max_daemons_limit'
  BY <1>1, <1>6, RaiseCovers DEF ParentInv, Bookkeeping
<1> HIDE DEF tried, wanted, Some
<1>8. \A s \in Slots : s \in F \/ pid[s] => s < max_daemons_limit'
  BY <1>6, <1>7, SlotsAreNumbers DEF ParentInv, Bookkeeping, LimitCoversChildren
<1>9. /\ ppc = "loop" /\ UNCHANGED <<ppc, reclaimed>>
      /\ remaining_children_to_start' \in Int
  BY DEF StartRemaining, Looping
<1>10. Starts(F)
  BY <1>1, <1>4, <1>7, <1>8, <1>9 DEF Starts, StartProcs, NoteStarted
<1> QED
  BY <1>10

LEMMA SpawnChildrenStarts ==
    ASSUME ParentInv, SpawnChildren
    PROVE  \E F : Starts(F)
<1> DEFINE wanted == FirstOf(FreeSlots, idle_spawn_rate)
<1>1. PICK F \in Forks(wanted) : StartProcs(F) /\ NoteStarted(F)
  BY DEF SpawnChildren
<1>2. max_daemons_limit' = Raise(LastNonDead + 1, wanted)
  BY DEF SpawnChildren
<1>3. F \subseteq wanted /\ wanted \subseteq FreeSlots /\ wanted \in SUBSET Slots
  BY <1>1 DEF Forks, FirstOf, FreeSlots
<1>4. LastNonDead + 1 \in Int /\ \A s \in Slots : pid[s] => s < LastNonDead + 1
  BY LastNonDeadCovers
<1>5. /\ max_daemons_limit' \in Int
      /\ max_daemons_limit' >= LastNonDead + 1
      /\ \A s \in wanted : s < max_daemons_limit'
  BY <1>2, <1>3, <1>4, RaiseCovers
<1>6. /\ ppc = "loop" /\ UNCHANGED <<ppc, reclaimed>>
      /\ remaining_children_to_start' \in Int
  BY DEF SpawnChildren, Scan, Cycle, Looping, ParentInv, Bookkeeping
<1> HIDE DEF wanted
<1>7. \A s \in Slots : s \in F \/ pid[s] => s < max_daemons_limit'
  BY <1>3, <1>4, <1>5, SlotsAreNumbers
<1>8. F \subseteq FreeSlots
  BY <1>3
<1>9. Starts(F)
  BY <1>1, <1>5, <1>6, <1>7, <1>8 DEF Starts, StartProcs, NoteStarted
<1> QED
  BY <1>9

LEMMA RunKeepsInv == ParentInv /\ Run => ParentInv'
<1> SUFFICES ASSUME ParentInv, Run PROVE ParentInv'
  OBVIOUS
<1>0. InitialChildren \in Int
  <2>1. StartServers \in Int /\ DaemonsLimit \in Int
    BY ParentAssumption
  <2> QED
    BY <2>1, SetMinOfTwo DEF InitialChildren
<1>1. CASE is_graceful
  <2>1. UNCHANGED <<pid, proc, total_daemons, max_daemons_limit, reclaimed>>
    BY <1>1 DEF Run, boardVars, procVars
  <2>2. ppc = "run" /\ ppc' = "loop" /\ remaining_children_to_start' \in Int
    BY <1>0, <1>1 DEF Run
  <2> QED
    BY <2>1, <2>2
    DEF ParentInv, Bookkeeping, LimitCoversChildren, Alive, BoardCleared, DaemonsCounted
<1>2. CASE ~is_graceful
  <2>1. PICK k \in IF ForkFails THEN 0 .. InitialChildren ELSE {InitialChildren} :
          LET F == FirstOf(Slots, k) IN
          /\ StartProcs(F)
          /\ pid' = [s \in Slots |-> s \in F]
          /\ geninfo' = GenStart(geninfo, my_generation, Cardinality(F))
          /\ total_daemons' = total_daemons + Cardinality(F)
          /\ max_daemons_limit' =
                 Raise(max_daemons_limit,
                       FirstOf(Slots, SetMin({k + 1, InitialChildren})))
    BY <1>2 DEF Run
  <2> DEFINE F == FirstOf(Slots, k)
             m == SetMin({k + 1, InitialChildren})
             tried == FirstOf(Slots, m)
  <2>2. k \in Int /\ k <= InitialChildren
    BY <1>0
  <2>3. m = IF k + 1 <= InitialChildren THEN k + 1 ELSE InitialChildren
    BY <1>0, <2>2, SetMinOfTwo
  <2>4. m \in Int /\ k <= m
    BY <1>0, <2>2, <2>3
  <2> HIDE DEF m
  <2>5. F \subseteq tried /\ tried \in SUBSET Slots
    BY <2>2, <2>4, FirstOfMonotone DEF FirstOf
  <2>6. /\ max_daemons_limit' \in Int
        /\ \A s \in tried : s < max_daemons_limit'
    BY <2>1, <2>5, RaiseCovers DEF m, ParentInv, Bookkeeping
  <2>7. ppc = "run" /\ ppc' = "loop" /\ UNCHANGED reclaimed
    BY DEF Run
  <2>8. remaining_children_to_start' \in Int
    BY <1>2 DEF Run
  <2>9. \A s \in Slots : ~pid[s]
    BY <1>2, <2>7 DEF ParentInv, BoardCleared
  <2>10. /\ pid' = [s \in Slots |-> s \in F]
         /\ proc' = [s \in Slots |-> IF s \in F THEN "forked" ELSE proc[s]]
         /\ total_daemons' = total_daemons + Cardinality(F)
    BY <2>1 DEF StartProcs
  <2> HIDE DEF F, tried
  <2>11. F \subseteq FreeSlots
    BY <2>5, <2>9 DEF FreeSlots
  <2>12. \A s \in Slots : s \in F \/ pid[s] => s < max_daemons_limit'
    BY <2>5, <2>6, <2>9
  <2>13. pid' = [s \in Slots |-> s \in F \/ pid[s]]
    BY <2>9, <2>10
  <2>14. Starts(F)
    BY <2>6, <2>7, <2>8, <2>10, <2>11, <2>12, <2>13 DEF Starts
  <2> QED
    BY <2>14, StartsKeepsInv
<1> QED
  BY <1>1, <1>2

-----------------------------------------------------------------------------
(* Steps that take children off the scoreboard *)

LEMMA ReapKeepsInv ==
    ASSUME ParentInv, NEW s \in Slots, Reap(s)
    PROVE  ParentInv'
<1> DEFINE replace == code[s] # "sick" /\ remaining_children_to_start > 0
<1>1. PICK new \in BOOLEAN :
        /\ pid' = [pid EXCEPT ![s] = new]
        /\ proc' = [proc EXCEPT ![s] = IF new THEN "forked" ELSE "none"]
        /\ total_daemons' = IF new THEN total_daemons ELSE total_daemons - 1
        /\ max_daemons_limit' = Raise(max_daemons_limit, IF replace THEN {s} ELSE {})
        /\ remaining_children_to_start' =
               remaining_children_to_start - (IF replace THEN 1 ELSE 0)
  BY DEF Reap, SetProc
<1>2. ppc = "loop" /\ UNCHANGED <<ppc, reclaimed>> /\ pid[s]
  BY DEF Reap, Looping, Found
<1>3. /\ max_daemons_limit' \in Int
      /\ max_daemons_limit' >= max_daemons_limit
  <2>1. (IF replace THEN {s} ELSE {}) \in SUBSET Slots
    OBVIOUS
  <2> QED
    BY <1>1, <2>1, RaiseCovers DEF ParentInv, Bookkeeping
<1> HIDE DEF replace
<1>4. Bookkeeping'
  <2>1. {"forked", "none"} \subseteq Procs
    BY DEF Procs, Running
  <2>2. pid' \in [Slots -> BOOLEAN]
    BY <1>1 DEF ParentInv, Bookkeeping
  <2>3. proc' \in [Slots -> Procs]
    BY <1>1, <2>1 DEF ParentInv, Bookkeeping
  <2> QED
    BY <1>1, <1>2, <1>3, <2>2, <2>3 DEF ParentInv, Bookkeeping
<1>5. LimitCoversChildren'
  <2> SUFFICES ASSUME NEW t \in Slots, pid'[t] \/ proc'[t] \in Running
               PROVE  pid'[t] /\ t < max_daemons_limit'
    BY DEF LimitCoversChildren, Alive
  <2>1. pid[t] \/ proc[t] \in Running => pid[t] /\ t < max_daemons_limit
    BY DEF ParentInv, LimitCoversChildren, Alive
  <2>2. t < max_daemons_limit => t < max_daemons_limit'
    BY <1>3, SlotsAreNumbers DEF ParentInv, Bookkeeping
  <2>3. CASE t = s
    BY <1>1, <1>2, <2>1, <2>2, <2>3 DEF ParentInv, Bookkeeping, Running
  <2>4. CASE t # s
    BY <1>1, <2>1, <2>2, <2>4 DEF ParentInv, Bookkeeping
  <2> QED
    BY <2>3, <2>4
<1>6. BoardCleared'
  BY <1>2 DEF BoardCleared
<1>7. DaemonsCounted'
  <2>1. total_daemons = Cardinality(Counted) + reclaimed
    BY <1>2 DEF ParentInv, DaemonsCounted, Counted
  <2>2. Counted \in SUBSET Slots /\ s \in Counted
    BY <1>2 DEF Counted
  <2>3. IsFiniteSet(Counted) /\ Cardinality(Counted) \in Nat
    BY <2>2, SlotsFinite
  <2>4. CASE new
    <3>1. {t \in Slots : pid'[t]} = Counted
      BY <1>1, <1>2, <2>4 DEF ParentInv, Bookkeeping, Counted
    <3>2. total_daemons' = Cardinality(Counted) + reclaimed'
      BY <1>1, <1>2, <2>1, <2>4
    <3> QED
      BY <3>1, <3>2, Zenon DEF DaemonsCounted
  <2>5. CASE ~new
    <3>1. {t \in Slots : pid'[t]} = Counted \ {s}
      BY <1>1, <2>5 DEF ParentInv, Bookkeeping, Counted
    <3>2. Cardinality(Counted \ {s}) = Cardinality(Counted) - 1
      BY <2>2, <2>3, FS_RemoveElement
    <3>3. total_daemons' = Cardinality(Counted \ {s}) + reclaimed'
      BY <1>1, <1>2, <2>1, <2>3, <2>5, <3>2 DEF ParentInv, Bookkeeping
    <3> QED
      BY <3>1, <3>3, Zenon DEF DaemonsCounted
  <2> QED
    BY <2>4, <2>5
<1> QED
  BY <1>4, <1>5, <1>6, <1>7 DEF ParentInv

\* ap_reclaim_child_processes finds every child, and none is left.
LEMMA ReclaimEmptiesBoard ==
    ASSUME ParentInv, Reclaim
    PROVE  /\ Scanned = Counted
           /\ pid' = [s \in Slots |-> FALSE]
           /\ proc' \in [Slots -> Procs]
           /\ \A s \in Slots : proc'[s] \notin Running
<1>1. Scanned = Counted
  BY DEF ParentInv, LimitCoversChildren, Scanned, Found, Counted
<1>2. \A s \in Slots : pid[s] => s \in Scanned
  BY <1>1 DEF Counted
<1>3. pid' = [s \in Slots |-> FALSE]
  BY <1>2 DEF Reclaim, ParentInv, Bookkeeping
<1>4. "none" \in Procs /\ "none" \notin Running
  BY DEF Procs, Running
<1>5. proc' = [s \in Slots |-> IF s \in Scanned THEN "none" ELSE proc[s]]
  BY DEF Reclaim, Ends
<1>6. proc' \in [Slots -> Procs]
  BY <1>4, <1>5 DEF ParentInv, Bookkeeping
<1>7. \A s \in Slots : proc'[s] \notin Running
  BY <1>2, <1>4, <1>5 DEF ParentInv, LimitCoversChildren, Alive
<1> QED
  BY <1>1, <1>3, <1>6, <1>7

LEMMA ReclaimingKeepsInv ==
    ASSUME ParentInv, RestartUngraceful \/ ShutdownUngraceful \/ GraceEnds
    PROVE  ParentInv'
<1>1. Reclaim
  BY DEF RestartUngraceful, ShutdownUngraceful, GraceEnds
<1>2. UNCHANGED <<total_daemons, max_daemons_limit, remaining_children_to_start>>
  BY DEF RestartUngraceful, ShutdownUngraceful, GraceEnds, spawnVars
<1>3. \/ /\ ppc = "loop" /\ ppc' = "run"
         /\ reclaimed' = reclaimed + Cardinality(Scanned)
      \/ ppc' = "done" /\ UNCHANGED reclaimed
  BY DEF RestartUngraceful, ShutdownUngraceful, GraceEnds
<1>4. /\ Scanned = Counted
      /\ pid' = [s \in Slots |-> FALSE]
      /\ proc' \in [Slots -> Procs]
      /\ \A s \in Slots : proc'[s] \notin Running
  BY <1>1, ReclaimEmptiesBoard
<1>5. Cardinality(Counted) \in Nat
  BY SlotsFinite DEF Counted
<1>6. Bookkeeping'
  BY <1>2, <1>3, <1>4, <1>5 DEF ParentInv, Bookkeeping
<1>7. LimitCoversChildren'
  BY <1>4 DEF LimitCoversChildren, Alive
<1>8. BoardCleared'
  BY <1>4 DEF BoardCleared
<1>9. DaemonsCounted'
  <2>1. CASE ppc' = "done"
    BY <2>1 DEF DaemonsCounted
  <2>2. CASE ppc = "loop" /\ ppc' = "run"
    <3>1. total_daemons = Cardinality(Counted) + reclaimed
      BY <2>2 DEF ParentInv, DaemonsCounted, Counted
    <3>2. reclaimed' = reclaimed + Cardinality(Counted)
      BY <1>3, <1>4, <2>2
    <3>3. {s \in Slots : pid'[s]} = {}
      BY <1>4
    <3>4. Cardinality({}) = 0
      BY FS_EmptySet
    <3>5. total_daemons' = Cardinality({}) + reclaimed'
      BY <1>2, <1>5, <3>1, <3>2, <3>4 DEF ParentInv, Bookkeeping
    <3> QED
      BY <3>3, <3>5, Zenon DEF DaemonsCounted
  <2> QED
    BY <1>3, <2>1, <2>2
<1> QED
  BY <1>6, <1>7, <1>8, <1>9 DEF ParentInv

LEMMA GracefulKeepsInv ==
    ASSUME ParentInv, RestartGraceful \/ ShutdownGraceful \/ GraceTick
    PROVE  ParentInv'
<1>1. CASE RestartGraceful
  <2>1. /\ UNCHANGED <<pid, proc, total_daemons, max_daemons_limit, reclaimed,
                       remaining_children_to_start, is_graceful>>
        /\ ppc = "loop" /\ ppc' = "run" /\ is_graceful
    BY <1>1 DEF RestartGraceful, boardVars, procVars, spawnVars, stopVars
  <2> QED
    BY <2>1
    DEF ParentInv, Bookkeeping, LimitCoversChildren, Alive, BoardCleared, DaemonsCounted
<1>2. CASE ShutdownGraceful \/ GraceTick
  <2>1. /\ Relieve /\ ppc' = "grace"
        /\ UNCHANGED <<total_daemons, max_daemons_limit, reclaimed,
                       remaining_children_to_start>>
    BY <1>2 DEF ShutdownGraceful, GraceTick, spawnVars
  <2>2. "none" \in Procs /\ "none" \notin Running
    BY DEF Procs, Running
  <2>3. /\ proc' = [s \in Slots |-> IF s \in Relieved THEN "none" ELSE proc[s]]
        /\ pid' = [s \in Slots |-> pid[s] /\ s \notin Relieved]
    BY <2>1 DEF Relieve, Ends
  <2>4. Bookkeeping'
    BY <2>1, <2>2, <2>3 DEF ParentInv, Bookkeeping
  <2>5. LimitCoversChildren'
    BY <2>1, <2>2, <2>3 DEF ParentInv, LimitCoversChildren, Alive
  <2> QED
    BY <2>1, <2>4, <2>5 DEF ParentInv, BoardCleared, DaemonsCounted
<1> QED
  BY <1>1, <1>2

-----------------------------------------------------------------------------
(* The theorems *)

LEMMA InitInv == Init => ParentInv
<1> SUFFICES ASSUME Init PROVE ParentInv
  OBVIOUS
<1>1. Bookkeeping
  BY DEF Init, Bookkeeping, Procs, Running
<1>2. LimitCoversChildren /\ BoardCleared
  BY DEF Init, LimitCoversChildren, Alive, Running, BoardCleared
<1>3. DaemonsCounted
  <2>1. {s \in Slots : pid[s]} = {}
    BY DEF Init
  <2>2. total_daemons = Cardinality({}) + reclaimed
    BY FS_EmptySet DEF Init
  <2> QED
    BY <2>1, <2>2, Zenon DEF DaemonsCounted
<1> QED
  BY <1>1, <1>2, <1>3 DEF ParentInv

LEMMA StutterIsQuiet == ParentInv /\ UNCHANGED vars => Quiet
BY DEF ParentInv, Bookkeeping, Quiet, vars, boardVars, procVars, spawnVars, stopVars

LEMMA NextKeepsInv == ParentInv /\ [Next]_vars => ParentInv'
<1> SUFFICES ASSUME ParentInv, [Next]_vars PROVE ParentInv'
  OBVIOUS
<1>1. CASE \E s \in Slots : ChildWork(s) \/ ChildLoad(s) \/ ChildFault(s)
  BY <1>1, ChildIsQuiet, QuietKeepsInv DEF ParentInv
<1>2. CASE \/ \E s \in Slots : ReapFatal(s)
           \/ BasketCase \/ TooManySpare \/ NoChange
           \/ \E sig \in Signals : Signal(sig)
  BY <1>2, ParentIsQuiet, QuietKeepsInv DEF ParentInv
<1>3. CASE \E s \in Slots : Reap(s)
  BY <1>3, ReapKeepsInv
<1>4. CASE StartRemaining \/ SpawnChildren
  BY <1>4, StartRemainingStarts, SpawnChildrenStarts, StartsKeepsInv
<1>5. CASE Run
  BY <1>5, RunKeepsInv
<1>6. CASE RestartUngraceful \/ ShutdownUngraceful \/ GraceEnds
  BY <1>6, ReclaimingKeepsInv
<1>7. CASE RestartGraceful \/ ShutdownGraceful \/ GraceTick
  BY <1>7, GracefulKeepsInv
<1>8. CASE UNCHANGED vars
  BY <1>8, StutterIsQuiet, QuietKeepsInv
<1> QED
  BY <1>1, <1>2, <1>3, <1>4, <1>5, <1>6, <1>7, <1>8 DEF Next, ParentStep, Maintenance

LEMMA InvAlways == Spec => []ParentInv
BY InitInv, NextKeepsInv, PTL DEF Spec

(* For every ServerLimit, spawn rate, load and fault: every child process is on
   the scoreboard below max_daemons_limit, however maintenance lowers the limit
   and make_child raises it, so that no search of the parent misses one. *)
THEOREM LimitAlwaysCovers == Spec => []LimitCoversChildren
<1>1. ParentInv => LimitCoversChildren
  BY DEF ParentInv
<1> QED
  BY <1>1, InvAlways, PTL

(* When event_run returns for good, and when it is about to be called again with a
   cleared scoreboard, no child process is alive. *)
THEOREM NoChildLeftBehind == Spec => []NoOrphans
<1>1. ParentInv => NoOrphans
  BY DEF ParentInv, BoardCleared, LimitCoversChildren, NoOrphans
<1> QED
  BY <1>1, InvAlways, PTL

(* While the server runs, total_daemons exceeds the number of its children by
   exactly those that ungraceful restarts have reclaimed. *)
THEOREM TotalDaemonsLaw == Spec => []DaemonsCounted
<1>1. ParentInv => DaemonsCounted
  BY DEF ParentInv
<1> QED
  BY <1>1, InvAlways, PTL

=============================================================================

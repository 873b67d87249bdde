----------------------- MODULE EventParentGenerations -----------------------
(***************************************************************************)
(* What the parent process keeps, for every ServerLimit, every load and    *)
(* every fault: its variables keep their types, the counters within what   *)
(* the bounds of the model allow, and the end_generation hook of a         *)
(* generation runs after the last of its children, as long as no child of  *)
(* a later generation than the first ends before its threads are READY.    *)
(***************************************************************************)
EXTENDS EventParentProofs

-----------------------------------------------------------------------------
(* The types *)

\* The values that doubling from 1 gives
SpawnRates ==
    CHOOSE R \in SUBSET (1 .. MaxSpawnRate) :
        1 \in R /\ \A r \in R : r < MaxSpawnRate => 2 * r \in R

BoardTypes ==
    /\ quiescing \in [Slots -> BOOLEAN] /\ not_accepting \in [Slots -> BOOLEAN]
    /\ status \in [Slots -> Statuses] /\ busy \in [Slots -> 0 .. ThreadsPerChild]
    /\ watching \in [Slots -> BOOLEAN]
    /\ code \in [Slots -> {"ok", "sick", "fatal"}]

GenTypes ==
    /\ my_generation \in Generations
    /\ generation \in [Slots -> Generations]
    /\ born \in [Slots -> Generations]
    /\ pod \in [Generations -> Nat]
    /\ geninfo \in [Generations -> GenInfo]

SpawnTypes ==
    /\ max_daemons_limit \in -1 .. ServerLimit
    /\ idle_spawn_rate \in SpawnRates
    /\ hold_off \in 0 .. HoldOff
    /\ remaining_children_to_start \in 0 .. DaemonsLimit

FlagTypes ==
    {is_graceful, restart_pending, shutdown_pending, child_fatal,
     sick_child_detected, had_healthy_child} \subseteq BOOLEAN

(* Each ungraceful restart reclaims at most ServerLimit children, and a restart
   is only asked for while the bound allows one more. *)
DaemonTypes ==
    /\ total_daemons \in 0 .. MaxDaemons
    /\ reclaimed \in 0 .. (ServerLimit * my_generation)
    /\ ppc = "loop" /\ restart_pending => my_generation < MaxRestarts

TypeInv ==
    /\ ParentInv
    /\ BoardTypes /\ GenTypes /\ SpawnTypes /\ FlagTypes /\ DaemonTypes

-----------------------------------------------------------------------------
(* The generations *)

(* The generation to which the exit of the child in slot s will be charged, as far
   as the parent can know: a child that runs is of the generation it was forked in;
   when it ends, only ps->generation is left. *)
Gen(s) == IF proc[s] \in Running THEN born[s] ELSE generation[s]

Members(g) == {s \in Slots : pid[s] /\ Gen(s) = g}

(* ps->generation is never ahead of the child, and has caught up with it when the
   child may end. *)
SlotInv(s) ==
    /\ generation[s] <= my_generation
    /\ proc[s] \in Running =>
          /\ generation[s] <= born[s] /\ born[s] <= my_generation
          /\ MayEnd(s) \/ proc[s] \in {"told", "quits", "leaving"} =>
                generation[s] = born[s]
    /\ proc[s] = "forked" => status[s] = "dead"
    /\ ~pid[s] /\ (ppc = "loop" \/ (ppc = "run" /\ is_graceful)) => status[s] = "dead"

\* The generation that has not been declared done
Current == my_generation + (IF ppc = "done" THEN 1 ELSE 0)

(* The record r of generation g fits its members M, cur being the current
   generation.  While there is a record it counts the members at least, it is marked
   done just when the generation is past, and then it is kept for somebody; a
   generation without a record has no member. *)
Fits(r, M, g, cur) ==
    /\ r.known => /\ r.active >= Cardinality(M)
                  /\ r.done => r.active >= 1 /\ g < cur
                  /\ ~r.done => g = cur
    /\ ~r.known => M = {}
    /\ r.ended => ~r.known /\ g < cur

RecordInv(g) == Fits(geninfo[g], Members(g), g, Current)

GenInv ==
    /\ \A s \in Slots : SlotInv(s)
    /\ \A g \in Generations : RecordInv(g)

-----------------------------------------------------------------------------
(* The board and what the children write to it *)

LEMMA EndsTypes ==
    ASSUME NEW S, NEW p, Ends(S, p) PROVE watching' \in [Slots -> BOOLEAN]
BY DEF Ends

LEMMA ChildBoardTypes ==
    ASSUME BoardTypes, NEW s \in Slots,
           ChildWork(s) \/ ChildLoad(s) \/ ChildFault(s)
    PROVE  BoardTypes'
<1> USE DEF BoardTypes, boardVars, procVars, Statuses
<1>0. ThreadsPerChild \in Nat /\ Loads \subseteq 0 .. ThreadsPerChild
      /\ SelfQuits \subseteq {"ok", "sick"}
  BY ParentAssumption
<1>1. CASE StartThreads(s)
  BY <1>0, <1>1 DEF StartThreads, SetStatus
<1>2. CASE ThreadsReady(s)
  BY <1>0, <1>2 DEF ThreadsReady, SetStatus
<1>3. CASE ReadPod(s)
  BY <1>3 DEF ReadPod
<1>4. CASE Quiesce(s)
  BY <1>0, <1>4 DEF Quiesce, SetStatus
<1>5. CASE MainWakes(s)
  BY <1>5 DEF MainWakes
<1>6. CASE Exit(s)
  BY <1>0, <1>6, EndsTypes DEF Exit, SetStatus
<1>7. CASE \E n \in Loads : ThreadsBusy(s, n)
  BY <1>0, <1>7 DEF ThreadsBusy
<1>8. CASE ToggleAccepting(s)
  BY <1>8 DEF ToggleAccepting
<1>9. CASE \E why \in SelfQuits : SelfQuit(s, why)
  BY <1>0, <1>9 DEF SelfQuit
<1>10. CASE \E why \in {"sick", "fatal"} : StartFails(s, why)
  BY <1>10, EndsTypes DEF StartFails
<1>11. CASE Crash(s)
  BY <1>11, EndsTypes DEF Crash
<1> QED
  BY <1>1, <1>2, <1>3, <1>4, <1>5, <1>6, <1>7, <1>8, <1>9, <1>10, <1>11
  DEF ChildWork, ChildLoad, ChildFault

LEMMA ParentBoardTypes ==
    ASSUME BoardTypes, ParentStep \/ (\E sig \in Signals : Signal(sig))
    PROVE  BoardTypes'
<1> USE DEF BoardTypes, Statuses
<1>0. ThreadsPerChild \in Nat
  BY ParentAssumption
<1>1. ASSUME NEW s \in Slots, ReapFatal(s) PROVE BoardTypes'
  BY <1>1 DEF ReapFatal, boardVars
<1>2. ASSUME NEW s \in Slots, Reap(s) PROVE BoardTypes'
  <2>1. PICK new \in BOOLEAN :
          /\ SetStatus(s, "dead")
          /\ quiescing' = [quiescing EXCEPT ![s] = FALSE]
          /\ not_accepting' = [not_accepting EXCEPT ![s] = @ /\ ~new]
          /\ watching' = [watching EXCEPT ![s] = new]
          /\ code' = [code EXCEPT ![s] = "ok"]
    BY <1>2 DEF Reap
  <2> QED
    BY <1>0, <2>1 DEF SetStatus
<1>3. ASSUME NEW F, StartProcs(F) /\ NoteStarted(F) PROVE BoardTypes'
  BY <1>3 DEF StartProcs, NoteStarted
<1>4. CASE StartRemaining
  BY <1>3, <1>4 DEF StartRemaining, StartUp
<1>5. CASE SpawnChildren
  BY <1>3, <1>5 DEF SpawnChildren
<1>6. CASE BasketCase \/ TooManySpare \/ NoChange \/ RestartGraceful
           \/ \E sig \in Signals : Signal(sig)
  BY <1>6 DEF BasketCase, TooManySpare, NoChange, RestartGraceful, Signal, boardVars,
     procVars
<1>7. CASE Run
  <2>1. CASE is_graceful
    BY <1>7, <2>1 DEF Run, boardVars, procVars
  <2>2. CASE ~is_graceful
    <3>1. PICK F : StartProcs(F)
      BY <1>7, <2>2 DEF Run
    <3>2. /\ quiescing' = [s \in Slots |-> FALSE]
          /\ not_accepting' = [s \in Slots |-> FALSE]
          /\ status' = [s \in Slots |-> "dead"] /\ busy' = [s \in Slots |-> 0]
      BY <1>7, <2>2 DEF Run
    <3> QED
      BY <1>0, <3>1, <3>2 DEF StartProcs
  <2> QED
    BY <2>1, <2>2
<1>8. Reclaim => BoardTypes'
  BY EndsTypes DEF Reclaim
<1>9. Relieve => BoardTypes'
  BY EndsTypes DEF Relieve
<1>10. CASE RestartUngraceful \/ ShutdownUngraceful \/ GraceEnds
  BY <1>8, <1>10 DEF RestartUngraceful, ShutdownUngraceful, GraceEnds
<1>11. CASE ShutdownGraceful \/ GraceTick
  BY <1>9, <1>11 DEF ShutdownGraceful, GraceTick
<1> QED
  BY <1>1, <1>2, <1>4, <1>5, <1>6, <1>7, <1>10, <1>11 DEF ParentStep, Maintenance

-----------------------------------------------------------------------------
(* The generations and their records *)

LEMMA GenerationFacts ==
    /\ MaxRestarts \in Nat /\ Generations = 0 .. MaxRestarts /\ 0 \in Generations
    /\ DaemonsLimit \in Nat /\ \A g \in Generations : g \in Nat
BY ParentAssumption DEF Generations

LEMMA RecordFields ==
    ASSUME NEW r \in GenInfo
    PROVE  /\ r.known \in BOOLEAN /\ r.done \in BOOLEAN /\ r.ended \in BOOLEAN
           /\ r.active \in Int
BY DEF GenInfo

\* A record with other contents is a record.
LEMMA RecordTypes ==
    ASSUME NEW r \in GenInfo, NEW n \in Int
    PROVE  /\ [r EXCEPT !.active = n] \in GenInfo
           /\ [r EXCEPT !.done = TRUE] \in GenInfo
           /\ EndGen(r) \in GenInfo
<1>1. [r EXCEPT !.active = n] \in GenInfo
  BY DEF GenInfo
<1>2. [r EXCEPT !.done = TRUE] \in GenInfo
  BY DEF GenInfo
<1>3. EndGen(r) \in GenInfo
  BY RecordFields DEF GenInfo, EndGen
<1> QED
  BY <1>1, <1>2, <1>3

LEMMA GenStartTypes ==
    ASSUME NEW gi \in [Generations -> GenInfo], NEW g \in Generations, NEW n \in Nat
    PROVE  GenStart(gi, g, n) \in [Generations -> GenInfo]
<1> DEFINE a == n + (IF gi[g].known THEN gi[g].active ELSE 0)
           d == gi[g].known /\ gi[g].done
<1>1. gi[g] \in GenInfo
  OBVIOUS
<1>2. a \in Int /\ d \in BOOLEAN /\ gi[g].ended \in BOOLEAN
  BY <1>1, RecordFields
<1>3. GenStart(gi, g, n) =
        IF n = 0 THEN gi
        ELSE [gi EXCEPT ![g] = [known |-> TRUE, active |-> a, done |-> d,
                                ended |-> gi[g].ended]]
  BY DEF GenStart
<1> HIDE DEF a, d
<1>4. [known |-> TRUE, active |-> a, done |-> d, ended |-> gi[g].ended] \in GenInfo
  BY <1>2 DEF GenInfo
<1> QED
  BY <1>3, <1>4

LEMMA GenExitTypes ==
    ASSUME NEW gi \in [Generations -> GenInfo], NEW S \in SUBSET Slots
    PROVE  GenExit(gi, S) \in [Generations -> GenInfo]
<1> SUFFICES ASSUME NEW g \in Generations
             PROVE  LET r == gi[g]
                        n == Cardinality({s \in S : generation[s] = g})
                    IN  (IF ~r.known THEN r
                         ELSE IF r.done /\ r.active \in 1 .. n THEN EndGen(r)
                         ELSE [r EXCEPT !.active = @ - n]) \in GenInfo
  BY DEF GenExit
<1> DEFINE n == Cardinality({s \in S : generation[s] = g})
<1>1. n \in Nat
  BY SlotsFinite
<1>2. gi[g] \in GenInfo
  OBVIOUS
<1>3. gi[g].active - n \in Int
  BY <1>1, <1>2, RecordFields
<1> HIDE DEF n
<1>4. [gi[g] EXCEPT !.active = @ - n] \in GenInfo /\ EndGen(gi[g]) \in GenInfo
  BY <1>2, <1>3, RecordTypes
<1> QED
  BY <1>2, <1>4 DEF n

LEMMA GenDoneTypes ==
    ASSUME NEW gi \in [Generations -> GenInfo], NEW g \in Generations
    PROVE  GenDone(gi, g) \in [Generations -> GenInfo]
<1>1. gi[g] \in GenInfo /\ 0 \in Int
  OBVIOUS
<1>2. EndGen(gi[g]) \in GenInfo /\ [gi[g] EXCEPT !.done = TRUE] \in GenInfo
  BY <1>1, RecordTypes
<1> QED
  BY <1>1, <1>2 DEF GenDone

LEMMA ChildGenTypes ==
    ASSUME GenTypes, NEW s \in Slots,
           ChildWork(s) \/ ChildLoad(s) \/ ChildFault(s)
    PROVE  GenTypes'
<1>0. UNCHANGED <<my_generation, geninfo>>
  BY DEF ChildWork, ChildLoad, ChildFault, StartThreads, ThreadsReady, ReadPod, Quiesce,
     MainWakes, Exit, ThreadsBusy, ToggleAccepting, SelfQuit, StartFails, Crash, parentVars
<1>1. generation' = generation \/ generation' = [generation EXCEPT ![s] = born[s]]
  BY DEF ChildWork, ChildLoad, ChildFault, StartThreads, ThreadsReady, ReadPod, Quiesce,
     MainWakes, Exit, ThreadsBusy, ToggleAccepting, SelfQuit, StartFails, Crash, boardVars
<1>2. born' = born \/ born' = [t \in Slots |-> IF t \in {s} THEN 0 ELSE born[t]]
  BY DEF ChildWork, ChildLoad, ChildFault, StartThreads, ThreadsReady, ReadPod, Quiesce,
     MainWakes, Exit, ThreadsBusy, ToggleAccepting, SelfQuit, StartFails, Crash, procVars,
     Ends
<1>3. \/ pod' = pod
      \/ pod[born[s]] > 0 /\ pod' = [pod EXCEPT ![born[s]] = @ - 1]
  BY DEF ChildWork, ChildLoad, ChildFault, StartThreads, ThreadsReady, ReadPod, Quiesce,
     MainWakes, Exit, ThreadsBusy, ToggleAccepting, SelfQuit, StartFails, Crash
<1>4. pod' \in [Generations -> Nat]
  <2>1. born[s] \in Generations /\ pod[born[s]] \in Nat
    BY DEF GenTypes
  <2> QED
    BY <1>3, <2>1 DEF GenTypes
<1>5. born' \in [Slots -> Generations] /\ generation' \in [Slots -> Generations]
  BY <1>1, <1>2, GenerationFacts DEF GenTypes
<1> QED
  BY <1>0, <1>4, <1>5 DEF GenTypes

LEMMA StartGenTypes ==
    ASSUME GenTypes, NEW F \in SUBSET Slots, StartProcs(F),
           geninfo' = GenStart(geninfo, my_generation, Cardinality(F)),
           generation' \in [Slots -> Generations],
           UNCHANGED <<pod, my_generation>>
    PROVE  GenTypes'
<1>1. born' \in [Slots -> Generations]
  BY DEF StartProcs, GenTypes
<1>2. Cardinality(F) \in Nat
  BY SlotsFinite
<1>3. geninfo' \in [Generations -> GenInfo]
  BY <1>2, GenStartTypes DEF GenTypes
<1> QED
  BY <1>1, <1>3 DEF GenTypes

LEMMA ParentGenTypes ==
    ASSUME TypeInv, ParentStep \/ (\E sig \in Signals : Signal(sig))
    PROVE  GenTypes'
<1>0. GenTypes /\ my_generation \in Generations /\ geninfo \in [Generations -> GenInfo]
  BY DEF TypeInv, GenTypes
<1>1. CASE \/ \E s \in Slots : ReapFatal(s)
           \/ BasketCase \/ TooManySpare \/ NoChange
           \/ \E sig \in Signals : Signal(sig)
  <2>1. UNCHANGED <<my_generation, generation, born, geninfo>>
    BY <1>1 DEF ReapFatal, BasketCase, TooManySpare, NoChange, Scan, Signal, boardVars,
       procVars
  <2>2. \/ pod' = pod
        \/ pod' = [pod EXCEPT ![my_generation] = @ + 1]
    BY <1>1 DEF ReapFatal, BasketCase, TooManySpare, NoChange, Signal
  <2>3. pod' \in [Generations -> Nat]
    BY <1>0, <2>2 DEF GenTypes
  <2> QED
    BY <1>0, <2>1, <2>3 DEF GenTypes
<1>2. ASSUME NEW s \in Slots, Reap(s) PROVE GenTypes'
  <2>1. UNCHANGED <<my_generation, generation, pod>>
    BY <1>2 DEF Reap
  <2>2. PICK new \in BOOLEAN :
          /\ born' = [born EXCEPT ![s] = IF new THEN my_generation ELSE 0]
          /\ geninfo' = IF new THEN GenStart(GenExit(geninfo, {s}), my_generation, 1)
                               ELSE GenExit(geninfo, {s})
    BY <1>2 DEF Reap
  <2>3. GenExit(geninfo, {s}) \in [Generations -> GenInfo]
    BY <1>0, GenExitTypes
  <2>4. geninfo' \in [Generations -> GenInfo]
    BY <1>0, <2>2, <2>3, GenStartTypes
  <2>5. born' \in [Slots -> Generations]
    BY <1>0, <2>2, GenerationFacts DEF GenTypes
  <2> QED
    BY <1>0, <2>1, <2>4, <2>5 DEF GenTypes
<1>3. CASE StartRemaining \/ SpawnChildren
  <2>1. PICK F \in SUBSET Slots : StartProcs(F) /\ NoteStarted(F)
    <3>1. CASE StartRemaining
      BY <3>1 DEF StartRemaining, StartUp, FirstOf, FreeSlots
    <3>2. CASE SpawnChildren
      BY <3>2 DEF SpawnChildren, Forks, FirstOf, FreeSlots
    <3> QED
      BY <1>3, <3>1, <3>2
  <2>2. UNCHANGED <<pod, my_generation>>
    BY <1>3 DEF StartRemaining, SpawnChildren, Scan
  <2> QED
    BY <1>0, <2>1, <2>2, StartGenTypes DEF NoteStarted, GenTypes
<1>4. CASE Run
  <2>1. CASE is_graceful
    BY <1>0, <1>4, <2>1 DEF Run, boardVars, procVars, GenTypes
  <2>2. CASE ~is_graceful
    <3>1. PICK F \in SUBSET Slots :
            StartProcs(F) /\ geninfo' = GenStart(geninfo, my_generation, Cardinality(F))
      BY <1>4, <2>2 DEF Run, FirstOf
    <3>2. /\ generation' = [s \in Slots |-> 0]
          /\ UNCHANGED <<pod, my_generation>>
      BY <1>4, <2>2 DEF Run
    <3> QED
      BY <1>0, <3>1, <3>2, StartGenTypes, GenerationFacts
  <2> QED
    BY <2>1, <2>2
<1>5. CASE RestartGraceful \/ RestartUngraceful \/ ShutdownUngraceful \/ GraceEnds
  <2>1. pod' = [pod EXCEPT ![my_generation] = @ + DaemonsLimit]
    BY <1>5 DEF RestartGraceful, RestartUngraceful, ShutdownUngraceful, GraceEnds, KillGroup
  <2>2. pod' \in [Generations -> Nat]
    BY <1>0, <2>1, GenerationFacts DEF GenTypes
  <2>3. /\ generation' = generation
        /\ born' = born \/ born' = [s \in Slots |-> IF s \in Scanned THEN 0 ELSE born[s]]
    BY <1>5 DEF RestartGraceful, RestartUngraceful, ShutdownUngraceful, GraceEnds, Reclaim,
       Ends, boardVars, procVars
  <2>4. born' \in [Slots -> Generations]
    BY <1>0, <2>3, GenerationFacts DEF GenTypes
  <2>5. GenExit(geninfo, Scanned) \in [Generations -> GenInfo]
    BY <1>0, GenExitTypes DEF Scanned
  <2>6. \/ geninfo' = GenDone(geninfo, my_generation)
        \/ geninfo' = GenDone(GenExit(geninfo, Scanned), my_generation)
    BY <1>5 DEF RestartGraceful, RestartUngraceful, ShutdownUngraceful, GraceEnds
  <2>7. geninfo' \in [Generations -> GenInfo]
    BY <1>0, <2>5, <2>6, GenDoneTypes
  <2>8. my_generation' \in Generations
    <3>1. \/ my_generation' = my_generation
          \/ /\ my_generation' = my_generation + 1
             /\ ppc = "loop" /\ restart_pending
      BY <1>5 DEF RestartGraceful, RestartUngraceful, ShutdownUngraceful, GraceEnds
    <3>2. ppc = "loop" /\ restart_pending => my_generation < MaxRestarts
      BY DEF TypeInv, DaemonTypes
    <3> QED
      BY <1>0, <3>1, <3>2, GenerationFacts
  <2> QED
    BY <1>0, <2>2, <2>3, <2>4, <2>7, <2>8 DEF GenTypes
<1>6. CASE ShutdownGraceful \/ GraceTick
  <2>1. /\ Relieve /\ UNCHANGED my_generation
        /\ pod' = pod \/ pod' = [pod EXCEPT ![my_generation] = @ + DaemonsLimit]
    BY <1>6 DEF ShutdownGraceful, GraceTick, KillGroup
  <2>2. pod' \in [Generations -> Nat]
    BY <1>0, <2>1, GenerationFacts DEF GenTypes
  <2>3. born' = [s \in Slots |-> IF s \in Relieved THEN 0 ELSE born[s]]
    BY <2>1 DEF Relieve, Ends
  <2>4. born' \in [Slots -> Generations]
    BY <1>0, <2>3, GenerationFacts DEF GenTypes
  <2>5. geninfo' \in [Generations -> GenInfo]
    BY <1>0, <2>1, GenExitTypes DEF Relieve, Relieved, Scanned
  <2> QED
    BY <1>0, <2>1, <2>2, <2>4, <2>5 DEF Relieve, GenTypes
<1> QED
  BY <1>1, <1>2, <1>3, <1>4, <1>5, <1>6 DEF ParentStep, Maintenance

-----------------------------------------------------------------------------
(* The limits of maintenance *)

LEMMA SpawnRatesFacts ==
    /\ SpawnRates \subseteq 1 .. MaxSpawnRate /\ 1 \in SpawnRates
    /\ \A r \in SpawnRates : r < MaxSpawnRate => 2 * r \in SpawnRates
BY SpawnRateAssumption, Zenon DEF SpawnRates

LEMMA RaiseBounded ==
    ASSUME NEW limit \in -1 .. ServerLimit, NEW A \in SUBSET Slots
    PROVE  Raise(limit, A) \in -1 .. ServerLimit
<1>0. ServerLimit \in Nat
  BY SlotsAreNumbers
<1>1. CASE A = {}
  BY <1>1 DEF Raise
<1>2. CASE A # {}
  <2>0. 0 \in Int /\ ServerLimit - 1 \in Int /\ A \subseteq 0 .. (ServerLimit - 1)
    BY SlotsAreNumbers
  <2>1. SetMax(A) \in A
    BY <1>2, <2>0, SetMaxIsGreatest, Zenon
  <2>2. SetMax(A) \in 0 .. (ServerLimit - 1)
    BY <2>0, <2>1
  <2> QED
    BY <1>0, <1>2, <2>2 DEF Raise
<1> QED
  BY <1>1, <1>2

LEMMA LastNonDeadBounded == LastNonDead + 1 \in 0 .. ServerLimit
<1> DEFINE S == {-1} \cup {s \in Slots : pid[s]}
<1>1. -1 \in Int /\ ServerLimit - 1 \in Int /\ ServerLimit \in Nat
  BY SlotsAreNumbers
<1>2. S \subseteq -1 .. (ServerLimit - 1) /\ S # {}
  BY SlotsAreNumbers
<1>3. SetMax(S) \in S
  <2> HIDE DEF S
  <2> QED
    BY <1>1, <1>2, SetMaxIsGreatest, Zenon
<1>4. SetMax(S) \in -1 .. (ServerLimit - 1)
  BY <1>2, <1>3
<1>5. LastNonDead = SetMax(S)
  BY DEF LastNonDead
<1> HIDE DEF S
<1> QED
  BY <1>1, <1>4, <1>5

LEMMA InitialChildrenBounded == InitialChildren \in 0 .. DaemonsLimit
<1>1. StartServers \in Nat /\ DaemonsLimit \in Nat
  BY ParentAssumption
<1> QED
  BY <1>1, SetMinOfTwo DEF InitialChildren

LEMMA SpawnStep == ASSUME SpawnTypes, [Next]_vars PROVE SpawnTypes'
<1>0. ServerLimit \in Nat /\ DaemonsLimit \in Nat /\ HoldOff \in Nat /\ MaxSpawnRate \in Nat
  BY ParentAssumption
<1>1. CASE \/ \E s \in Slots : ChildWork(s) \/ ChildLoad(s) \/ ChildFault(s)
           \/ \E s \in Slots : ReapFatal(s)
           \/ BasketCase \/ RestartGraceful \/ RestartUngraceful
           \/ ShutdownUngraceful \/ ShutdownGraceful \/ GraceTick \/ GraceEnds
           \/ \E sig \in Signals : Signal(sig)
           \/ UNCHANGED vars
  <2>1. UNCHANGED spawnVars
    <3>1. CASE \E s \in Slots : ChildWork(s) \/ ChildLoad(s) \/ ChildFault(s)
      BY <3>1 DEF ChildWork, ChildLoad, ChildFault, StartThreads, ThreadsReady, ReadPod,
         Quiesce, MainWakes, Exit, ThreadsBusy, ToggleAccepting, SelfQuit, StartFails,
         Crash, parentVars
    <3>2. CASE ~\E s \in Slots : ChildWork(s) \/ ChildLoad(s) \/ ChildFault(s)
      BY <1>1, <3>2 DEF ReapFatal, BasketCase, RestartGraceful, RestartUngraceful,
         ShutdownUngraceful, ShutdownGraceful, GraceTick, GraceEnds, Signal, vars
    <3> QED
      BY <3>1, <3>2
  <2> QED
    BY <2>1 DEF SpawnTypes, spawnVars
<1>2. ASSUME NEW s \in Slots, Reap(s) PROVE SpawnTypes'
  <2> DEFINE replace == code[s] # "sick" /\ remaining_children_to_start > 0
             A == IF replace THEN {s} ELSE {}
  <2>1. /\ max_daemons_limit' = Raise(max_daemons_limit, A)
        /\ remaining_children_to_start' =
               remaining_children_to_start - (IF replace THEN 1 ELSE 0)
        /\ idle_spawn_rate' = IF code[s] = "sick" THEN 1 ELSE idle_spawn_rate
        /\ UNCHANGED hold_off
    BY <1>2 DEF Reap
  <2>2. A \in SUBSET Slots
    OBVIOUS
  <2> HIDE DEF A
  <2>3. max_daemons_limit' \in -1 .. ServerLimit
    BY <2>1, <2>2, RaiseBounded DEF SpawnTypes
  <2>4. remaining_children_to_start' \in 0 .. DaemonsLimit
    BY <1>0, <2>1 DEF SpawnTypes
  <2>5. idle_spawn_rate' \in SpawnRates
    BY <2>1, SpawnRatesFacts DEF SpawnTypes
  <2> QED
    BY <2>1, <2>3, <2>4, <2>5 DEF SpawnTypes
<1>3. CASE StartRemaining
  <2>1. \E A \in SUBSET Slots : max_daemons_limit' = Raise(max_daemons_limit, A)
    BY <1>3 DEF StartRemaining, StartUp, FirstOf, FreeSlots
  <2>2. max_daemons_limit' \in -1 .. ServerLimit
    BY <2>1, RaiseBounded DEF SpawnTypes
  <2> QED
    BY <1>0, <1>3, <2>2 DEF StartRemaining, SpawnTypes
<1>4. CASE TooManySpare \/ NoChange
  <2>1. /\ max_daemons_limit' = LastNonDead + 1
        /\ idle_spawn_rate' = 1 \/ idle_spawn_rate' = idle_spawn_rate
        /\ UNCHANGED <<hold_off, remaining_children_to_start>>
    BY <1>4 DEF TooManySpare, NoChange, Scan
  <2>2. max_daemons_limit' \in -1 .. ServerLimit
    BY <1>0, <2>1, LastNonDeadBounded
  <2> QED
    BY <2>1, <2>2, SpawnRatesFacts DEF SpawnTypes
<1>5. CASE SpawnChildren
  <2> DEFINE wanted == FirstOf(FreeSlots, idle_spawn_rate)
             last == LastNonDead + 1
  <2>1. /\ max_daemons_limit' = Raise(last, wanted)
        /\ idle_spawn_rate' = NextRate
        /\ hold_off' = IF hold_off > 0 THEN hold_off - 1 ELSE 0
        /\ UNCHANGED remaining_children_to_start
    BY <1>5 DEF SpawnChildren, Scan
  <2>2. wanted \in SUBSET Slots
    BY DEF FirstOf, FreeSlots
  <2>3. last \in -1 .. ServerLimit
    BY <1>0, LastNonDeadBounded
  <2>4. max_daemons_limit' \in -1 .. ServerLimit
    <3> HIDE DEF wanted, last
    <3> QED
      BY <2>1, <2>2, <2>3, RaiseBounded
  <2>5. idle_spawn_rate' \in SpawnRates
    BY <2>1, SpawnRatesFacts DEF SpawnTypes, NextRate
  <2>6. hold_off' \in 0 .. HoldOff
    BY <1>0, <2>1 DEF SpawnTypes
  <2> QED
    BY <2>1, <2>4, <2>5, <2>6 DEF SpawnTypes
<1>6. CASE Run
  <2>1. \/ max_daemons_limit' = max_daemons_limit
        \/ \E A \in SUBSET Slots : max_daemons_limit' = Raise(max_daemons_limit, A)
    BY <1>6 DEF Run, FirstOf
  <2>2. max_daemons_limit' \in -1 .. ServerLimit
    BY <2>1, RaiseBounded DEF SpawnTypes
  <2>3. /\ hold_off' = HoldOff \/ hold_off' = hold_off
        /\ remaining_children_to_start' = InitialChildren \/ remaining_children_to_start' = 0
        /\ UNCHANGED idle_spawn_rate
    BY <1>6 DEF Run
  <2> QED
    BY <1>0, <2>2, <2>3, InitialChildrenBounded DEF SpawnTypes
<1> QED
  BY <1>1, <1>2, <1>3, <1>4, <1>5, <1>6 DEF Next, ParentStep, Maintenance

-----------------------------------------------------------------------------
(* The flags *)

LEMMA ChildFlags ==
    ASSUME NEW s \in Slots, ChildWork(s) \/ ChildLoad(s) \/ ChildFault(s)
    PROVE  UNCHANGED <<stopVars, sickVars, ppc, my_generation, total_daemons, reclaimed>>
BY DEF ChildWork, ChildLoad, ChildFault, StartThreads, ThreadsReady, ReadPod,
   Quiesce, MainWakes, Exit, ThreadsBusy, ToggleAccepting, SelfQuit, StartFails,
   Crash, parentVars

LEMMA FlagStep == ASSUME FlagTypes, [Next]_vars PROVE FlagTypes'
<1> USE DEF FlagTypes
<1>1. CASE \E s \in Slots : ChildWork(s) \/ ChildLoad(s) \/ ChildFault(s)
  BY <1>1, ChildFlags DEF stopVars, sickVars
<1>2. ASSUME NEW s \in Slots, Reap(s) PROVE FlagTypes'
  <2>1. sick_child_detected' = (sick_child_detected \/ code[s] # "ok")
        /\ UNCHANGED <<stopVars, had_healthy_child>>
    BY <1>2 DEF Reap
  <2>2. sick_child_detected' \in BOOLEAN
    BY <2>1, Zenon
  <2> QED
    BY <2>1, <2>2 DEF stopVars
<1>3. CASE TooManySpare \/ NoChange \/ SpawnChildren
  <2>1. /\ sick_child_detected' = FALSE /\ had_healthy_child' = HealthyChild
        /\ UNCHANGED stopVars
    BY <1>3 DEF TooManySpare, NoChange, SpawnChildren, Scan
  <2>2. HealthyChild \in BOOLEAN
    BY Zenon DEF HealthyChild
  <2> QED
    BY <2>1, <2>2 DEF stopVars
<1>4. ASSUME NEW sig \in Signals, Signal(sig) PROVE FlagTypes'
  <2>1. is_graceful' = (sig \in {"usr1", "winch"})
    BY <1>4 DEF Signal
  <2>2. is_graceful' \in BOOLEAN
    BY <2>1
  <2> QED
    BY <1>4, <2>2 DEF Signal, sickVars
<1>5. CASE Run
  BY <1>5 DEF Run
<1>6. CASE \/ \E s \in Slots : ReapFatal(s)
           \/ BasketCase \/ StartRemaining \/ RestartGraceful \/ RestartUngraceful
           \/ ShutdownUngraceful \/ ShutdownGraceful \/ GraceTick \/ GraceEnds
           \/ UNCHANGED vars
  BY <1>6 DEF ReapFatal, BasketCase, StartRemaining, RestartGraceful, RestartUngraceful,
     ShutdownUngraceful, ShutdownGraceful, GraceTick, GraceEnds, vars, stopVars, sickVars
<1> QED
  BY <1>1, <1>2, <1>3, <1>4, <1>5, <1>6 DEF Next, ParentStep, Maintenance

-----------------------------------------------------------------------------
(* The number of children *)

\* What ungraceful restarts have reclaimed and what is on the board
LEMMA DaemonsFit ==
    ASSUME NEW g \in Generations, NEW k \in 0 .. ServerLimit,
           NEW r \in 0 .. (ServerLimit * g)
    PROVE  k + r \in 0 .. MaxDaemons /\ k + r \in 0 .. (ServerLimit * (g + 1))
<1>1. ServerLimit \in Nat /\ MaxRestarts \in Nat /\ g \in Nat /\ g <= MaxRestarts
  BY SlotsAreNumbers, GenerationFacts
<1>2. ServerLimit * g + ServerLimit = ServerLimit * (g + 1)
  BY <1>1
<1>3. ServerLimit * (g + 1) <= ServerLimit * (MaxRestarts + 1)
  BY <1>1
<1>4. ServerLimit * g \in Nat /\ ServerLimit * (MaxRestarts + 1) \in Nat
  BY <1>1
<1>5. ServerLimit * (g + 1) \in Nat
  BY <1>1
<1> QED
  BY <1>1, <1>2, <1>3, <1>4, <1>5 DEF MaxDaemons

LEMMA CountedBounded ==
    ASSUME NEW S \in SUBSET Slots PROVE Cardinality(S) \in 0 .. ServerLimit
<1>1. Cardinality(S) \in Nat /\ Cardinality(S) <= Cardinality(Slots)
  BY SlotsFinite, FS_Subset
<1>2. Cardinality(Slots) = ServerLimit
  <2>1. 0 \in Int /\ ServerLimit - 1 \in Int
    BY SlotsAreNumbers
  <2>2. Cardinality(0 .. (ServerLimit - 1)) =
          IF 0 > ServerLimit - 1 THEN 0 ELSE (ServerLimit - 1) - 0 + 1
    BY <2>1, FS_Interval
  <2>3. ServerLimit \in Nat \ {0}
    BY ParentAssumption
  <2> QED
    BY <2>2, <2>3, SlotsAreNumbers
<1> QED
  BY <1>1, <1>2, SlotsAreNumbers

LEMMA DaemonStep ==
    ASSUME TypeInv, ParentInv', GenTypes', [Next]_vars PROVE DaemonTypes'
<1>0. DaemonTypes /\ my_generation \in Generations /\ my_generation' \in Generations
  BY DEF TypeInv, GenTypes
<1>1. ppc' = "loop" /\ restart_pending' => my_generation' < MaxRestarts
  <2>1. CASE \E s \in Slots : ChildWork(s) \/ ChildLoad(s) \/ ChildFault(s)
    BY <1>0, <2>1, ChildFlags DEF DaemonTypes, stopVars
  <2>2. CASE ParentStep
    BY <1>0, <2>2 DEF ParentStep, Maintenance, ReapFatal, Reap, StartRemaining, BasketCase,
       TooManySpare, SpawnChildren, NoChange, Scan, Run, RestartGraceful,
       RestartUngraceful, ShutdownUngraceful, ShutdownGraceful, GraceTick, GraceEnds,
       DaemonTypes, stopVars
  <2>3. CASE (\E sig \in Signals : Signal(sig)) \/ UNCHANGED vars
    BY <1>0, <2>3 DEF Signal, vars, DaemonTypes, stopVars
  <2> QED
    BY <2>1, <2>2, <2>3 DEF Next
<1>2. reclaimed' \in 0 .. (ServerLimit * my_generation')
  <2>1. CASE RestartUngraceful
    <3>1. /\ reclaimed' = Cardinality(Scanned) + reclaimed
          /\ my_generation' = my_generation + 1
      <4>1. Cardinality(Scanned) \in Nat /\ reclaimed \in Int
        BY SlotsFinite DEF Scanned, TypeInv, ParentInv, Bookkeeping
      <4> QED
        BY <2>1, <4>1 DEF RestartUngraceful
    <3>2. Cardinality(Scanned) \in 0 .. ServerLimit
      BY CountedBounded DEF Scanned
    <3> QED
      BY <1>0, <3>1, <3>2, DaemonsFit DEF DaemonTypes
  <2>2. CASE RestartGraceful
    <3>1. UNCHANGED reclaimed /\ my_generation' = my_generation + 1
      BY <2>2 DEF RestartGraceful
    <3>2. 0 \in 0 .. ServerLimit /\ reclaimed \in Int
      BY SlotsAreNumbers DEF TypeInv, ParentInv, Bookkeeping
    <3>3. 0 + reclaimed = reclaimed
      BY <3>2
    <3> QED
      BY <1>0, <3>1, <3>2, <3>3, DaemonsFit DEF DaemonTypes
  <2>3. CASE ~RestartUngraceful /\ ~RestartGraceful
    <3>1. UNCHANGED <<reclaimed, my_generation>>
      <4>1. CASE \E s \in Slots : ChildWork(s) \/ ChildLoad(s) \/ ChildFault(s)
        BY <4>1, ChildFlags
      <4>2. CASE ParentStep
        BY <2>3, <4>2 DEF ParentStep, Maintenance, ReapFatal, Reap, StartRemaining,
           BasketCase, TooManySpare, SpawnChildren, NoChange, Scan, Run,
           ShutdownUngraceful, ShutdownGraceful, GraceTick, GraceEnds
      <4>3. CASE (\E sig \in Signals : Signal(sig)) \/ UNCHANGED vars
        BY <4>3 DEF Signal, vars
      <4> QED
        BY <4>1, <4>2, <4>3 DEF Next
    <3> QED
      BY <1>0, <3>1 DEF DaemonTypes
  <2> QED
    BY <2>1, <2>2, <2>3
<1>3. total_daemons' \in 0 .. MaxDaemons
  <2>1. CASE ppc' \in {"run", "loop"}
    <3>1. total_daemons' = Cardinality({s \in Slots : pid'[s]}) + reclaimed'
      BY <2>1 DEF ParentInv, DaemonsCounted
    <3>2. Cardinality({s \in Slots : pid'[s]}) \in 0 .. ServerLimit
      BY CountedBounded
    <3> QED
      BY <1>0, <1>2, <3>1, <3>2, DaemonsFit
  <2>2. CASE ppc' \notin {"run", "loop"}
    <3>1. UNCHANGED total_daemons
      <4>1. CASE \E s \in Slots : ChildWork(s) \/ ChildLoad(s) \/ ChildFault(s)
        BY <4>1, ChildFlags
      <4>2. CASE ParentStep
        BY <2>2, <4>2 DEF ParentStep, Maintenance, ReapFatal, Reap, StartRemaining,
           BasketCase, TooManySpare, SpawnChildren, NoChange, Scan, Cycle, Looping, Run,
           RestartGraceful, RestartUngraceful, ShutdownUngraceful, ShutdownGraceful,
           GraceTick, GraceEnds
      <4>3. CASE (\E sig \in Signals : Signal(sig)) \/ UNCHANGED vars
        BY <4>3 DEF Signal, vars
      <4> QED
        BY <4>1, <4>2, <4>3 DEF Next
    <3> QED
      BY <1>0, <3>1 DEF DaemonTypes
  <2> QED
    BY <2>1, <2>2
<1> QED
  BY <1>1, <1>2, <1>3 DEF DaemonTypes

LEMMA TypeInit == Init => TypeInv
<1> SUFFICES ASSUME Init PROVE TypeInv
  OBVIOUS
<1>0. /\ ServerLimit \in Nat /\ DaemonsLimit \in Nat /\ HoldOff \in Nat
      /\ ThreadsPerChild \in Nat /\ MaxRestarts \in Nat
  BY ParentAssumption
<1>1. ParentInv
  BY InitInv
<1>2. BoardTypes
  BY <1>0 DEF Init, BoardTypes, Statuses
<1>3. GenTypes
  BY GenerationFacts DEF Init, GenTypes, GenInfo
<1>4. SpawnTypes
  BY <1>0, SpawnRatesFacts DEF Init, SpawnTypes
<1>5. FlagTypes
  BY DEF Init, FlagTypes
<1>6. DaemonTypes
  <2>1. MaxDaemons \in Nat /\ ServerLimit * 0 \in Nat
    BY <1>0 DEF MaxDaemons
  <2> QED
    BY <2>1 DEF Init, DaemonTypes
<1> QED
  BY <1>1, <1>2, <1>3, <1>4, <1>5, <1>6 DEF TypeInv

LEMMA TypeStep == TypeInv /\ [Next]_vars => TypeInv'
<1> SUFFICES ASSUME TypeInv, [Next]_vars PROVE TypeInv'
  OBVIOUS
<1>1. ParentInv'
  BY NextKeepsInv DEF TypeInv
<1>2. BoardTypes'
  <2>1. CASE UNCHANGED vars
    BY <2>1 DEF TypeInv, BoardTypes, vars, boardVars, procVars
  <2> QED
    BY <2>1, ChildBoardTypes, ParentBoardTypes DEF Next, TypeInv
<1>3. GenTypes'
  <2>1. CASE UNCHANGED vars
    BY <2>1 DEF TypeInv, GenTypes, vars, boardVars, procVars
  <2> QED
    BY <2>1, ChildGenTypes, ParentGenTypes DEF Next, TypeInv
<1>4. SpawnTypes' /\ FlagTypes'
  BY SpawnStep, FlagStep DEF TypeInv
<1>5. DaemonTypes'
  BY <1>1, <1>3, DaemonStep
<1> QED
  BY <1>1, <1>2, <1>3, <1>4, <1>5 DEF TypeInv

LEMMA TypeAlways == Spec => []TypeInv
BY TypeInit, TypeStep, PTL DEF Spec

(* The parent's variables keep their types, whatever ServerLimit, the load and the
   faults are: max_daemons_limit stays within the scoreboard, idle_spawn_rate within
   free_slots[MAX_SPAWN_RATE], no slot is asked to hold what it cannot, and
   total_daemons never falls below zero. *)
THEOREM ParentTypeOK == Spec => []TypeOK
<1>1. TypeInv => TypeOK
  <2> SUFFICES ASSUME TypeInv PROVE TypeOK
    OBVIOUS
  <2>1. /\ pid \in [Slots -> BOOLEAN] /\ proc \in [Slots -> Running \cup {"none", "zombie"}]
        /\ ppc \in {"run", "loop", "grace", "done"}
    BY DEF TypeInv, ParentInv, Bookkeeping, Procs
  <2>2. idle_spawn_rate \in 1 .. MaxSpawnRate
    BY SpawnRatesFacts DEF TypeInv, SpawnTypes
  <2>3. reclaimed \in 0 .. MaxDaemons
    <3>1. 0 \in 0 .. ServerLimit /\ reclaimed \in 0 .. (ServerLimit * my_generation)
          /\ my_generation \in Generations /\ reclaimed \in Int
      BY SlotsAreNumbers DEF TypeInv, DaemonTypes, GenTypes, ParentInv, Bookkeeping
    <3>2. 0 + reclaimed \in 0 .. MaxDaemons
      BY <3>1, DaemonsFit
    <3> QED
      BY <3>1, <3>2
  <2> QED
    BY <2>1, <2>2, <2>3
    DEF TypeInv, BoardTypes, GenTypes, SpawnTypes, FlagTypes, DaemonTypes, TypeOK
<1> QED
  BY <1>1, TypeAlways, PTL

-----------------------------------------------------------------------------
(* A record keeps fitting the members of its generation. *)

LEMMA MembersFinite ==
    ASSUME NEW M \in SUBSET Slots, NEW R \in SUBSET M
    PROVE  /\ IsFiniteSet(M) /\ Cardinality(M) \in Nat
           /\ IsFiniteSet(R) /\ Cardinality(R) \in Nat
           /\ Cardinality(R) <= Cardinality(M)
           /\ Cardinality(R) = Cardinality(M) => R = M
           /\ Cardinality(M \ R) = Cardinality(M) - Cardinality(R)
<1>1. IsFiniteSet(M) /\ IsFiniteSet(R) /\ R \in SUBSET Slots
  BY SlotsFinite
<1>2. /\ Cardinality(R) <= Cardinality(M)
      /\ Cardinality(R) = Cardinality(M) => R = M
  BY <1>1, FS_Subset
<1>3. IsFiniteSet(M \ R) /\ Cardinality(M \ R) \in Nat
  <2>1. M \ R \in SUBSET Slots
    OBVIOUS
  <2> QED
    BY <2>1, SlotsFinite
<1>4. (M \ R) \cup R = M /\ (M \ R) \cap R = {}
  OBVIOUS
<1>5. Cardinality((M \ R) \cup R) =
        Cardinality(M \ R) + Cardinality(R) - Cardinality((M \ R) \cap R)
  BY <1>1, <1>3, FS_Union
<1>6. Cardinality({}) = 0
  BY FS_EmptySet
<1>7. Cardinality(M) = Cardinality(M \ R) + Cardinality(R) - 0
  BY <1>4, <1>5, <1>6, Zenon
<1> QED
  BY <1>1, <1>2, <1>3, <1>7, SlotsFinite

\* The record of the current generation is told of the children in F.
LEMMA FitsStart ==
    ASSUME NEW gi \in [Generations -> GenInfo], NEW cur \in Generations,
           NEW M \in SUBSET Slots, NEW F \in SUBSET Slots, M \cap F = {},
           Fits(gi[cur], M, cur, cur)
    PROVE  Fits(GenStart(gi, cur, Cardinality(F))[cur], M \cup F, cur, cur)
<1> DEFINE r == gi[cur]
           n == Cardinality(F)
           a == n + (IF r.known THEN r.active ELSE 0)
           d == r.known /\ r.done
<1>1. r \in GenInfo /\ cur \in Int
  BY GenerationFacts
<1>2. /\ IsFiniteSet(M) /\ IsFiniteSet(F) /\ Cardinality(M) \in Nat /\ n \in Nat
      /\ r.known \in BOOLEAN /\ r.done \in BOOLEAN /\ r.ended \in BOOLEAN
      /\ r.active \in Int
  BY <1>1, SlotsFinite, RecordFields
<1>3. Cardinality(M \cup F) = Cardinality(M) + n
  <2>1. Cardinality(M \cup F) = Cardinality(M) + n - Cardinality(M \cap F)
    BY <1>2, FS_Union
  <2>2. Cardinality(M \cap F) = 0
    BY FS_EmptySet
  <2> QED
    BY <1>2, <2>1, <2>2
<1>4. CASE n = 0
  <2>1. F = {}
    BY <1>2, <1>4, FS_EmptySet
  <2>2. GenStart(gi, cur, n)[cur] = r /\ M \cup F = M
    BY <1>4, <2>1 DEF GenStart
  <2> QED
    BY <2>2
<1>5. CASE n # 0
  <2>1. GenStart(gi, cur, n) =
          [gi EXCEPT ![cur] = [known |-> TRUE, active |-> a, done |-> d,
                               ended |-> r.ended]]
    BY <1>5 DEF GenStart
  <2>2. PICK x : x = GenStart(gi, cur, n)[cur]
    OBVIOUS
  <2>3. x.known = TRUE /\ x.active = a /\ x.done = d /\ x.ended = r.ended
    <3> HIDE DEF a, d, r
    <3> QED
      BY <2>1, <2>2
  <2>4. a >= Cardinality(M) + n
    <3>1. ~r.known => Cardinality(M) = 0
      BY FS_EmptySet DEF Fits
    <3> QED
      BY <1>2, <3>1 DEF Fits
  <2>5. ~d /\ ~r.ended
    BY <1>1 DEF Fits
  <2> HIDE DEF a, d, r
  <2>6. Fits(x, M \cup F, cur, cur)
    BY <1>3, <2>3, <2>4, <2>5 DEF Fits
  <2> QED
    BY <2>2, <2>6
<1> QED
  BY <1>4, <1>5

\* The slots of S whose exits are charged to g
Charged(S, g) == {s \in S : generation[s] = g}

\* The record x is what is left of r after n exits.
AfterExits(r, x, n) ==
    \/ ~r.known /\ x = r
    \/ r.known /\ r.done /\ r.active \in 1 .. n /\ ~x.known /\ x.ended
    \/ /\ r.known /\ ~(r.done /\ r.active \in 1 .. n)
       /\ x.known /\ x.active = r.active - n /\ x.done = r.done /\ x.ended = r.ended

LEMMA GenExitRecord ==
    ASSUME NEW gi \in [Generations -> GenInfo], NEW g \in Generations,
           NEW S \in SUBSET Slots
    PROVE  \E x \in GenInfo : /\ x = GenExit(gi, S)[g]
                              /\ AfterExits(gi[g], x, Cardinality(Charged(S, g)))
<1>0. PICK n \in Nat : n = Cardinality(Charged(S, g))
  BY SlotsFinite DEF Charged
<1> DEFINE r == gi[g]
<1>1. r \in GenInfo
  OBVIOUS
<1>2. GenExit(gi, S)[g] =
        IF ~r.known THEN r
        ELSE IF r.done /\ r.active \in 1 .. n THEN EndGen(r)
        ELSE [r EXCEPT !.active = @ - n]
  BY <1>0 DEF GenExit, Charged
<1>3. GenExit(gi, S)[g] \in GenInfo
  BY GenExitTypes
<1>4. ~EndGen(r).known /\ EndGen(r).ended
  BY DEF EndGen
<1>5. PICK y : y = [r EXCEPT !.active = @ - n]
  OBVIOUS
<1>6. /\ y.known = r.known /\ y.active = r.active - n /\ y.done = r.done
      /\ y.ended = r.ended
  <2> HIDE DEF r
  <2> QED
    BY <1>1, <1>5 DEF GenInfo
<1> HIDE DEF r
<1>7. PICK x \in GenInfo : x = GenExit(gi, S)[g]
  BY <1>3
<1>8. AfterExits(r, x, n)
  BY <1>2, <1>4, <1>5, <1>6, <1>7 DEF AfterExits
<1> QED
  BY <1>0, <1>7, <1>8 DEF r

\* The children in R, members of g, have exited and were charged to it.
LEMMA FitsExit ==
    ASSUME NEW gi \in [Generations -> GenInfo], NEW g \in Generations,
           NEW cur \in Int, NEW M \in SUBSET Slots, NEW S \in SUBSET Slots,
           NEW R \in SUBSET M, R = Charged(S, g),
           Fits(gi[g], M, g, cur)
    PROVE  Fits(GenExit(gi, S)[g], M \ R, g, cur)
<1>1. PICK n \in Nat : n = Cardinality(R)
  BY MembersFinite
<1>2. n = Cardinality(Charged(S, g))
  BY <1>1
<1>3. PICK x \in GenInfo : x = GenExit(gi, S)[g] /\ AfterExits(gi[g], x, n)
  BY <1>2, GenExitRecord
<1>4. PICK r \in GenInfo : r = gi[g]
  OBVIOUS
<1>5. /\ Cardinality(M) \in Nat /\ n <= Cardinality(M) /\ r.active \in Int
      /\ n = Cardinality(M) => R = M
      /\ Cardinality(M \ R) = Cardinality(M) - n
  BY <1>1, <1>4, MembersFinite, RecordFields
<1>6. Fits(r, M, g, cur) /\ AfterExits(r, x, n)
  BY <1>3, <1>4
<1> SUFFICES Fits(x, M \ R, g, cur)
  BY <1>3
<1>7. CASE ~r.known /\ x = r
  BY <1>6, <1>7 DEF Fits
<1>8. CASE r.known /\ r.done /\ r.active \in 1 .. n /\ ~x.known /\ x.ended
  <2>1. R = M /\ g < cur
    BY <1>5, <1>6, <1>8 DEF Fits
  <2> QED
    BY <1>8, <2>1 DEF Fits
<1>9. CASE /\ r.known /\ ~(r.done /\ r.active \in 1 .. n)
           /\ x.known /\ x.active = r.active - n /\ x.done = r.done /\ x.ended = r.ended
  BY <1>5, <1>6, <1>9 DEF Fits
<1> QED
  BY <1>6, <1>7, <1>8, <1>9 DEF AfterExits

(* All children are gone.  Some of them may have been charged to a generation before
   their own, which then can only end the sooner. *)
LEMMA FitsExitAll ==
    ASSUME NEW gi \in [Generations -> GenInfo], NEW g \in Generations,
           NEW cur \in Int, NEW M \in SUBSET Slots, NEW S \in SUBSET Slots,
           g = cur => Charged(S, g) \subseteq M,
           Fits(gi[g], M, g, cur)
    PROVE  Fits(GenExit(gi, S)[g], {}, g, cur)
<1>0. PICK R \in SUBSET Slots : R = Charged(S, g)
  BY DEF Charged
<1>1. PICK n \in Nat : n = Cardinality(R)
  BY <1>0, SlotsFinite
<1>2. n = Cardinality(Charged(S, g))
  BY <1>0, <1>1
<1>3. PICK x \in GenInfo : x = GenExit(gi, S)[g] /\ AfterExits(gi[g], x, n)
  BY <1>2, GenExitRecord
<1>4. PICK r \in GenInfo : r = gi[g]
  OBVIOUS
<1>5. /\ Cardinality(M) \in Nat /\ r.active \in Int /\ Cardinality({}) = 0
      /\ g = cur => n <= Cardinality(M)
  <2>1. g = cur => R \in SUBSET M
    BY <1>0
  <2> QED
    BY <1>1, <1>4, <2>1, MembersFinite, RecordFields, FS_EmptySet, SlotsFinite
<1>6. Fits(r, M, g, cur) /\ AfterExits(r, x, n)
  BY <1>3, <1>4
<1> SUFFICES Fits(x, {}, g, cur)
  BY <1>3
<1>7. CASE ~r.known /\ x = r
  BY <1>6, <1>7 DEF Fits
<1>8. CASE r.known /\ r.done /\ r.active \in 1 .. n /\ ~x.known /\ x.ended
  BY <1>6, <1>8 DEF Fits
<1>9. CASE /\ r.known /\ ~(r.done /\ r.active \in 1 .. n)
           /\ x.known /\ x.active = r.active - n /\ x.done = r.done /\ x.ended = r.ended
  BY <1>5, <1>6, <1>9 DEF Fits
<1> QED
  BY <1>6, <1>7, <1>8, <1>9 DEF AfterExits

\* The current generation is declared done; the next one has become current.
LEMMA FitsDone ==
    ASSUME NEW gi \in [Generations -> GenInfo], NEW g \in Generations,
           NEW cur \in Generations, NEW M \in SUBSET Slots,
           Fits(gi[g], M, g, cur)
    PROVE  Fits(GenDone(gi, cur)[g], M, g, cur + 1)
<1>1. g \in Int /\ cur \in Int
  BY GenerationFacts
<1>2. CASE g # cur
  <2>1. GenDone(gi, cur)[g] = gi[g]
    BY <1>2 DEF GenDone
  <2>2. PICK r \in GenInfo : r = gi[g]
    OBVIOUS
  <2>3. Fits(r, M, g, cur + 1)
    BY <1>1, <1>2, <2>2 DEF Fits
  <2> QED
    BY <2>1, <2>2, <2>3
<1>3. CASE g = cur
  <2>1. PICK r \in GenInfo : r = gi[g]
    OBVIOUS
  <2>2. GenDone(gi, cur)[g] =
          IF ~r.known THEN r ELSE IF r.active = 0 THEN EndGen(r)
          ELSE [r EXCEPT !.done = TRUE]
    BY <1>3, <2>1 DEF GenDone
  <2>3. ~EndGen(r).known /\ EndGen(r).ended
    BY DEF EndGen
  <2>4. PICK y : y = [r EXCEPT !.done = TRUE]
    OBVIOUS
  <2>5. y.known = r.known /\ y.active = r.active /\ y.done /\ y.ended = r.ended
    BY <2>1, <2>4 DEF GenInfo
  <2>6. PICK e : e = EndGen(r)
    OBVIOUS
  <2>7. IsFiniteSet(M) /\ Cardinality(M) \in Nat /\ r.active \in Int
    BY <2>1, SlotsFinite, RecordFields
  <2>8. Cardinality(M) = 0 => M = {}
    BY <2>7, FS_EmptySet
  <2>9. PICK x : x = GenDone(gi, cur)[g]
    OBVIOUS
  <2>10. \/ ~r.known /\ x = r
         \/ r.known /\ r.active = 0 /\ ~x.known /\ x.ended
         \/ /\ r.known /\ r.active # 0
            /\ x.known = r.known /\ x.active = r.active /\ x.done /\ x.ended = r.ended
    BY <2>2, <2>3, <2>4, <2>5, <2>9
  <2>11. Fits(r, M, g, cur)
    BY <2>1
  <2>12. Fits(x, M, g, cur + 1)
    BY <1>1, <1>3, <2>7, <2>8, <2>10, <2>11 DEF Fits
  <2> QED
    BY <2>9, <2>12
<1> QED
  BY <1>2, <1>3

-----------------------------------------------------------------------------
(* No step of a child moves it to another generation. *)

\* What the generations depend on, for one slot
SlotFrame(t) ==
    /\ proc'[t] = proc[t] /\ born'[t] = born[t]
    /\ generation'[t] = generation[t] /\ status'[t] = status[t]

ChildFrame == UNCHANGED <<pid, ppc, my_generation, is_graceful, geninfo>>

SlotTypes ==
    /\ proc \in [Slots -> Procs] /\ born \in [Slots -> Generations]
    /\ generation \in [Slots -> Generations] /\ status \in [Slots -> Statuses]
    /\ my_generation \in Generations

LEMMA SlotTypesHold == TypeInv => SlotTypes
BY DEF TypeInv, ParentInv, Bookkeeping, BoardTypes, GenTypes, SlotTypes

LEMMA ChildFrames ==
    ASSUME SlotTypes, NEW s \in Slots, ChildWork(s) \/ ChildLoad(s) \/ ChildFault(s)
    PROVE  ChildFrame /\ \A t \in Slots \ {s} : SlotFrame(t)
<1> USE DEF ChildFrame, SlotFrame, SlotTypes, parentVars, boardVars, procVars, stopVars,
            SetStatus, SetProc, Ends
<1>1. CASE StartThreads(s)
  BY <1>1 DEF StartThreads
<1>2. CASE ThreadsReady(s)
  BY <1>2 DEF ThreadsReady
<1>3. CASE ReadPod(s)
  BY <1>3 DEF ReadPod
<1>4. CASE Quiesce(s)
  BY <1>4 DEF Quiesce
<1>5. CASE MainWakes(s)
  BY <1>5 DEF MainWakes
<1>6. CASE Exit(s)
  BY <1>6 DEF Exit
<1>7. CASE \E n \in Loads : ThreadsBusy(s, n)
  BY <1>7 DEF ThreadsBusy
<1>8. CASE ToggleAccepting(s)
  BY <1>8 DEF ToggleAccepting
<1>9. CASE \E why \in SelfQuits : SelfQuit(s, why)
  BY <1>9 DEF SelfQuit
<1>10. CASE \E why \in {"sick", "fatal"} : StartFails(s, why)
  BY <1>10 DEF StartFails
<1>11. CASE Crash(s)
  BY <1>11 DEF Crash
<1> QED
  BY <1>1, <1>2, <1>3, <1>4, <1>5, <1>6, <1>7, <1>8, <1>9, <1>10, <1>11
  DEF ChildWork, ChildLoad, ChildFault

LEMMA FrameKeepsSlot ==
    ASSUME NEW t \in Slots, SlotInv(t), SlotFrame(t), ChildFrame
    PROVE  SlotInv(t)' /\ Gen(t)' = Gen(t)
BY DEF SlotInv, SlotFrame, ChildFrame, Gen, MayEnd, Settled

(* A child ends or is told to end only when ps->generation is its own: its threads
   have been READY, or it is of the first generation and the scoreboard says 0. *)
LEMMA ChildKeepsSlot ==
    ASSUME SlotTypes, LimitCoversChildren, EarlyEnds \subseteq {0},
           NEW s \in Slots, SlotInv(s), ChildFrame,
           ChildWork(s) \/ ChildLoad(s) \/ ChildFault(s)
    PROVE  SlotInv(s)' /\ Gen(s)' = Gen(s)
<1> DEFINE G == generation[s]
           B == born[s]
           Y == my_generation
<1>0. /\ G \in Nat /\ B \in Nat /\ Y \in Nat /\ status[s] \in Statuses
      /\ proc[s] \in Procs
  BY GenerationFacts DEF SlotTypes
<1>1. \A b \in EarlyEnds : b = 0
  OBVIOUS
<1>2. proc[s] \in Running => pid[s]
  BY DEF LimitCoversChildren, Alive
<1>3. ChildFrame
  OBVIOUS
<1> USE DEF SlotInv, Gen, MayEnd, Settled, Running, ChildFrame, SlotTypes
<1>4. CASE StartThreads(s)
  BY <1>0, <1>1, <1>2, <1>4 DEF StartThreads, SetStatus, SetProc
<1>5. CASE ThreadsReady(s)
  BY <1>0, <1>1, <1>2, <1>5 DEF ThreadsReady, SetStatus, procVars
<1>6. CASE ReadPod(s)
  BY <1>0, <1>1, <1>2, <1>6 DEF ReadPod, boardVars
<1>7. CASE Quiesce(s)
  BY <1>0, <1>1, <1>2, <1>7 DEF Quiesce, SetStatus, SetProc
<1>8. CASE MainWakes(s)
  BY <1>0, <1>8 DEF MainWakes, boardVars
<1>9. CASE Exit(s)
  BY <1>0, <1>1, <1>2, <1>9 DEF Exit, SetStatus, Ends
<1>10. CASE \E n \in Loads : ThreadsBusy(s, n)
  BY <1>0, <1>10 DEF ThreadsBusy, procVars
<1>11. CASE ToggleAccepting(s)
  BY <1>0, <1>11 DEF ToggleAccepting, procVars
<1>12. CASE \E why \in SelfQuits : SelfQuit(s, why)
  BY <1>0, <1>1, <1>2, <1>12 DEF SelfQuit, SetProc, boardVars
<1>13. CASE \E why \in {"sick", "fatal"} : StartFails(s, why)
  BY <1>0, <1>1, <1>2, <1>13 DEF StartFails, Ends, boardVars
<1>14. CASE Crash(s)
  BY <1>0, <1>1, <1>2, <1>14 DEF Crash, Ends, boardVars
<1> QED
  BY <1>4, <1>5, <1>6, <1>7, <1>8, <1>9, <1>10, <1>11, <1>12, <1>13, <1>14
  DEF ChildWork, ChildLoad, ChildFault

\* The records still fit when no slot changes its generation.
LEMMA SameMembers ==
    ASSUME UNCHANGED <<pid, geninfo>>, Current' = Current,
           \A t \in Slots : Gen(t)' = Gen(t),
           \A g \in Generations : RecordInv(g)
    PROVE  \A g \in Generations : RecordInv(g)'
<1> SUFFICES ASSUME NEW g \in Generations PROVE RecordInv(g)'
  OBVIOUS
<1>1. Members(g)' = Members(g)
  BY DEF Members
<1>2. RecordInv(g)
  OBVIOUS
<1> QED
  BY <1>1, <1>2 DEF RecordInv

LEMMA ChildKeepsGen ==
    ASSUME TypeInv, GenInv, EarlyEnds \subseteq {0}, NEW s \in Slots,
           ChildWork(s) \/ ChildLoad(s) \/ ChildFault(s)
    PROVE  GenInv'
<1>1. SlotTypes /\ LimitCoversChildren
  BY SlotTypesHold DEF TypeInv, ParentInv
<1>2. ChildFrame /\ \A t \in Slots \ {s} : SlotFrame(t)
  BY <1>1, ChildFrames
<1>3. \A t \in Slots \ {s} : SlotInv(t)' /\ Gen(t)' = Gen(t)
  BY <1>2, FrameKeepsSlot DEF GenInv
<1>4. SlotInv(s)' /\ Gen(s)' = Gen(s)
  BY <1>1, <1>2, ChildKeepsSlot DEF GenInv
<1>5. \A t \in Slots : SlotInv(t)' /\ Gen(t)' = Gen(t)
  BY <1>3, <1>4
<1>6. UNCHANGED <<pid, geninfo>> /\ Current' = Current
  BY <1>2 DEF ChildFrame, Current
<1> QED
  BY <1>5, <1>6, SameMembers DEF GenInv

-----------------------------------------------------------------------------
(* Steps of the parent that neither start children nor take them off the board *)

LEMMA QuietKeepsGen ==
    ASSUME TypeInv, GenInv,
           \/ \E s \in Slots : ReapFatal(s)
           \/ BasketCase \/ TooManySpare \/ NoChange
           \/ \E sig \in Signals : Signal(sig)
           \/ Run /\ is_graceful
           \/ UNCHANGED vars
    PROVE  GenInv'
<1>1. UNCHANGED <<pid, geninfo, my_generation, born, generation, status>>
  BY DEF ReapFatal, BasketCase, TooManySpare, NoChange, Scan, Signal, Run, vars, boardVars,
     procVars
<1>2. /\ ppc' = ppc \/ (ppc = "run" /\ is_graceful /\ ppc' = "loop")
      /\ is_graceful' = is_graceful \/ ppc' \in {"loop", "grace"}
      /\ is_graceful' = is_graceful \/ ppc' = ppc
  BY DEF ReapFatal, BasketCase, TooManySpare, NoChange, Scan, Signal, Run, vars, stopVars
<1>3. \A t \in Slots : \/ proc'[t] = proc[t]
                       \/ proc[t] = "zombie" /\ proc'[t] = "none"
  BY SlotTypesHold DEF ReapFatal, BasketCase, TooManySpare, NoChange, Scan, Signal, Run,
     vars, procVars, SetProc, SlotTypes
<1>4. \A t \in Slots : Gen(t)' = Gen(t)
  BY <1>1, <1>3 DEF Gen, Running
<1>5. \A t \in Slots : SlotInv(t)'
  <2> SUFFICES ASSUME NEW t \in Slots PROVE SlotInv(t)'
    OBVIOUS
  <2>1. SlotInv(t)
    BY DEF GenInv
  <2>2. \/ proc'[t] = proc[t]
        \/ proc[t] = "zombie" /\ proc'[t] = "none"
    BY <1>3
  <2> QED
    BY <1>1, <1>2, <2>1, <2>2 DEF SlotInv, MayEnd, Settled, Running
<1>6. Current' = Current
  BY <1>1, <1>2 DEF Current
<1> QED
  BY <1>1, <1>4, <1>5, <1>6, SameMembers DEF GenInv

-----------------------------------------------------------------------------
(* Steps that start children *)

\* The slots F were free; what the old child left there says nothing of the new one.
StartsFresh(F) ==
    /\ F \subseteq FreeSlots
    /\ StartProcs(F)
    /\ pid' = [s \in Slots |-> s \in F \/ pid[s]]
    /\ geninfo' = GenStart(geninfo, my_generation, Cardinality(F))
    /\ ppc \in {"run", "loop"} /\ ppc' = "loop" /\ UNCHANGED my_generation
    /\ \A s \in Slots :
          IF pid[s] THEN generation'[s] = generation[s] /\ status'[s] = status[s]
          ELSE /\ generation'[s] = generation[s] \/ generation'[s] = 0
               /\ status'[s] = "dead"

LEMMA StartKeepsSlots ==
    ASSUME TypeInv, GenInv, EarlyEnds \subseteq {0}, NEW F, StartsFresh(F),
           NEW t \in Slots
    PROVE  /\ SlotInv(t)'
           /\ pid'[t] = (t \in F \/ pid[t])
           /\ Gen(t)' = IF t \in F THEN my_generation
                        ELSE IF pid[t] THEN Gen(t) ELSE generation'[t]
<1>0. /\ generation[t] \in Nat /\ my_generation \in Nat /\ SlotInv(t)
      /\ \A b \in EarlyEnds : b = 0
      /\ proc[t] \in Running => pid[t]
  BY SlotTypesHold, GenerationFacts
  DEF SlotTypes, GenInv, TypeInv, ParentInv, LimitCoversChildren, Alive
<1>1. /\ proc'[t] = IF t \in F THEN "forked" ELSE proc[t]
      /\ born'[t] = IF t \in F THEN my_generation ELSE born[t]
      /\ pid'[t] = (t \in F \/ pid[t])
      /\ t \in F => ~pid[t]
      /\ ppc' = "loop" /\ my_generation' = my_generation
  BY DEF StartsFresh, StartProcs, FreeSlots
<1>2. IF pid[t] THEN generation'[t] = generation[t] /\ status'[t] = status[t]
      ELSE /\ generation'[t] = generation[t] \/ generation'[t] = 0
           /\ status'[t] = "dead"
  BY DEF StartsFresh
<1> USE DEF Gen, SlotInv, MayEnd, Settled, Running
<1>3. CASE t \in F
  BY <1>0, <1>1, <1>2, <1>3
<1>4. CASE t \notin F /\ pid[t]
  BY <1>0, <1>1, <1>2, <1>4
<1>5. CASE t \notin F /\ ~pid[t]
  BY <1>0, <1>1, <1>2, <1>5
<1> QED
  BY <1>3, <1>4, <1>5

LEMMA StartKeepsGen ==
    ASSUME TypeInv, GenInv, EarlyEnds \subseteq {0}, NEW F, StartsFresh(F)
    PROVE  GenInv'
<1>1. \A t \in Slots :
        /\ SlotInv(t)'
        /\ pid'[t] = (t \in F \/ pid[t])
        /\ Gen(t)' = IF t \in F THEN my_generation
                     ELSE IF pid[t] THEN Gen(t) ELSE generation'[t]
  BY StartKeepsSlots
<1>2. /\ F \in SUBSET Slots /\ \A s \in F : ~pid[s]
      /\ geninfo' = GenStart(geninfo, my_generation, Cardinality(F))
      /\ Current = my_generation /\ Current' = my_generation
  <2>1. my_generation \in Int
    BY SlotTypesHold, GenerationFacts DEF SlotTypes
  <2> QED
    BY <2>1 DEF StartsFresh, FreeSlots, Current
<1>3. /\ my_generation \in Generations /\ geninfo \in [Generations -> GenInfo]
      /\ Cardinality(F) \in Nat
  BY <1>2, SlotsFinite DEF TypeInv, GenTypes
<1>4. ASSUME NEW g \in Generations PROVE RecordInv(g)'
  <2>1. Members(g)' = IF g = my_generation THEN Members(g) \cup F ELSE Members(g)
    BY <1>1, <1>2 DEF Members
  <2>2. Fits(geninfo[g], Members(g), g, my_generation)
    BY <1>2 DEF GenInv, RecordInv
  <2>3. CASE g = my_generation
    <3>1. Members(g) \in SUBSET Slots /\ Members(g) \cap F = {}
      BY <1>2 DEF Members
    <3>2. Fits(geninfo'[g], Members(g) \cup F, g, my_generation)
      BY <1>2, <1>3, <2>2, <2>3, <3>1, FitsStart
    <3> QED
      BY <1>2, <2>1, <2>3, <3>2 DEF RecordInv
  <2>4. CASE g # my_generation
    <3>1. geninfo'[g] = geninfo[g]
      BY <1>2, <1>3, <2>4 DEF GenStart
    <3> QED
      BY <1>2, <2>1, <2>2, <2>4, <3>1 DEF RecordInv
  <2> QED
    BY <2>3, <2>4
<1> QED
  BY <1>1, <1>4 DEF GenInv

LEMMA StartingKeepsGen ==
    ASSUME TypeInv, GenInv, EarlyEnds \subseteq {0},
           StartRemaining \/ SpawnChildren \/ (Run /\ ~is_graceful)
    PROVE  GenInv'
<1>0. FreeSlots \in SUBSET Slots /\ \A S, k : FirstOf(S, k) \subseteq S
  BY DEF FreeSlots, FirstOf
<1>1. CASE StartRemaining \/ SpawnChildren
  <2>1. PICK F \in SUBSET FreeSlots : StartProcs(F) /\ NoteStarted(F)
    <3>1. CASE StartRemaining
      BY <1>0, <3>1 DEF StartRemaining, StartUp
    <3>2. CASE SpawnChildren
      BY <1>0, <3>2 DEF SpawnChildren, Forks
    <3> QED
      BY <1>1, <3>1, <3>2
  <2>2. ppc = "loop" /\ UNCHANGED <<ppc, my_generation>>
    BY <1>1 DEF StartRemaining, SpawnChildren, Scan, Cycle, Looping
  <2>3. \A s \in Slots : ~pid[s] => status[s] = "dead"
    BY <2>2 DEF GenInv, SlotInv
  <2>4. StartsFresh(F)
    BY <2>1, <2>2, <2>3 DEF StartsFresh, NoteStarted
  <2> QED
    BY <2>4, StartKeepsGen
<1>2. CASE Run /\ ~is_graceful
  <2>1. PICK F \in SUBSET Slots :
          /\ StartProcs(F)
          /\ pid' = [s \in Slots |-> s \in F]
          /\ geninfo' = GenStart(geninfo, my_generation, Cardinality(F))
    BY <1>0, <1>2 DEF Run
  <2>2. /\ ppc = "run" /\ ppc' = "loop" /\ UNCHANGED my_generation
        /\ generation' = [s \in Slots |-> 0] /\ status' = [s \in Slots |-> "dead"]
    BY <1>2 DEF Run
  <2>3. \A s \in Slots : ~pid[s]
    BY <1>2, <2>2 DEF TypeInv, ParentInv, BoardCleared
  <2>4. F \subseteq FreeSlots /\ pid' = [s \in Slots |-> s \in F \/ pid[s]]
    BY <2>1, <2>3 DEF FreeSlots
  <2>5. StartsFresh(F)
    BY <2>1, <2>2, <2>3, <2>4 DEF StartsFresh
  <2> QED
    BY <2>5, StartKeepsGen
<1> QED
  BY <1>1, <1>2

-----------------------------------------------------------------------------
(* Steps that take children off the board *)

\* Children that have ended are charged to the generation they are members of.
LEMMA ExitsFit ==
    ASSUME TypeInv, GenInv, NEW S \in SUBSET Slots,
           \A s \in S : pid[s] /\ proc[s] \notin Running,
           NEW g \in Generations
    PROVE  Fits(GenExit(geninfo, S)[g], Members(g) \ S, g, Current)
<1>1. /\ geninfo \in [Generations -> GenInfo]
      /\ Current \in Int
  BY GenerationFacts DEF TypeInv, GenTypes, Current
<1>2. PICK M \in SUBSET Slots : M = Members(g)
  BY DEF Members
<1>3. PICK R \in SUBSET M : R = Charged(S, g)
  BY <1>2 DEF Members, Charged, Gen
<1>4. Members(g) \ S = M \ R
  BY <1>2, <1>3 DEF Members, Charged, Gen
<1>5. Fits(geninfo[g], M, g, Current)
  BY <1>2 DEF GenInv, RecordInv
<1>6. PICK cur \in Int : cur = Current
  BY <1>1
<1>7. Fits(GenExit(geninfo, S)[g], M \ R, g, cur)
  BY <1>1, <1>3, <1>5, <1>6, FitsExit
<1> QED
  BY <1>4, <1>6, <1>7

LEMMA RelieveKeepsGen ==
    ASSUME TypeInv, GenInv, ShutdownGraceful \/ GraceTick
    PROVE  GenInv'
<1>1. /\ Relieve /\ UNCHANGED my_generation
      /\ ppc \in {"loop", "grace"} /\ ppc' = "grace"
  BY DEF ShutdownGraceful, GraceTick
<1>2. PICK S \in SUBSET Slots : S = Relieved
  BY DEF Relieved, Scanned
<1>3. /\ \A s \in S : pid[s] /\ proc[s] \notin Running
      /\ geninfo' = GenExit(geninfo, S)
  BY <1>1, <1>2 DEF Relieved, Scanned, Found, Running, Relieve
<1>4. \A t \in Slots :
        /\ proc'[t] = IF t \in S THEN "none" ELSE proc[t]
        /\ born'[t] = IF t \in S THEN 0 ELSE born[t]
        /\ pid'[t] = (pid[t] /\ t \notin S)
        /\ generation'[t] = generation[t] /\ status'[t] = status[t]
  BY <1>1, <1>2 DEF Relieve, Ends
<1>5. \A t \in Slots : t \notin S => Gen(t)' = Gen(t)
  BY <1>4 DEF Gen
<1>6. ASSUME NEW t \in Slots PROVE SlotInv(t)'
  <2>1. SlotInv(t)
    BY DEF GenInv
  <2> QED
    BY <1>1, <1>4, <2>1 DEF SlotInv, MayEnd, Settled, Running
<1>7. ASSUME NEW g \in Generations PROVE RecordInv(g)'
  <2>1. Members(g)' = Members(g) \ S
    BY <1>4, <1>5 DEF Members
  <2>2. Current' = Current
    BY <1>1 DEF Current
  <2>3. Fits(GenExit(geninfo, S)[g], Members(g) \ S, g, Current)
    BY <1>3, ExitsFit
  <2> QED
    BY <1>3, <2>1, <2>2, <2>3 DEF RecordInv
<1> QED
  BY <1>6, <1>7 DEF GenInv

LEMMA ReapKeepsGen ==
    ASSUME TypeInv, GenInv, EarlyEnds \subseteq {0}, NEW s \in Slots, Reap(s)
    PROVE  GenInv'
<1>0. /\ SlotTypes /\ my_generation \in Generations /\ my_generation \in Nat
      /\ generation[s] \in Nat /\ geninfo \in [Generations -> GenInfo]
      /\ \A b \in EarlyEnds : b = 0
      /\ pid \in [Slots -> BOOLEAN]
  BY SlotTypesHold, GenerationFacts
  DEF SlotTypes, TypeInv, GenTypes, ParentInv, Bookkeeping
<1>1. PICK new \in BOOLEAN :
        /\ pid' = [pid EXCEPT ![s] = new]
        /\ SetStatus(s, "dead")
        /\ SetProc(s, IF new THEN "forked" ELSE "none")
        /\ born' = [born EXCEPT ![s] = IF new THEN my_generation ELSE 0]
        /\ geninfo' = IF new THEN GenStart(GenExit(geninfo, {s}), my_generation, 1)
                             ELSE GenExit(geninfo, {s})
  BY DEF Reap
<1>2. /\ UNCHANGED <<generation, my_generation, ppc, is_graceful>>
      /\ ppc = "loop" /\ pid[s] /\ proc[s] \notin Running
      /\ Current = my_generation /\ Current' = my_generation
  BY <1>0 DEF Reap, Looping, Found, stopVars, Current, Running
<1>3. /\ \A t \in Slots \ {s} : SlotFrame(t) /\ pid'[t] = pid[t]
      /\ proc'[s] = (IF new THEN "forked" ELSE "none") /\ status'[s] = "dead"
      /\ born'[s] = (IF new THEN my_generation ELSE 0) /\ pid'[s] = new
      /\ generation'[s] = generation[s]
  BY <1>0, <1>1, <1>2 DEF SlotTypes, SlotFrame, SetStatus, SetProc
<1>4. ASSUME NEW t \in Slots PROVE SlotInv(t)'
  <2>1. SlotInv(t)
    BY DEF GenInv
  <2>2. CASE t = s
    BY <1>0, <1>2, <1>3, <2>1, <2>2 DEF SlotInv, MayEnd, Settled, Running
  <2>3. CASE t # s
    <3>1. SlotFrame(t) /\ pid'[t] = pid[t]
      BY <1>3, <2>3
    <3> QED
      BY <1>2, <2>1, <3>1 DEF SlotInv, SlotFrame, MayEnd, Settled
  <2> QED
    BY <2>2, <2>3
<1>5. \A t \in Slots \ {s} : Gen(t)' = Gen(t)
  BY <1>3 DEF Gen, SlotFrame
<1>6. new => Gen(s)' = my_generation
  BY <1>3 DEF Gen, Running
<1>7. ASSUME NEW g \in Generations PROVE RecordInv(g)'
  <2>1. PICK gone \in [Generations -> GenInfo] : gone = GenExit(geninfo, {s})
    BY <1>0, GenExitTypes
  <2>2. PICK M \in SUBSET Slots : M = Members(g) \ {s}
    BY DEF Members
  <2>3. Fits(gone[g], M, g, my_generation)
    BY <1>2, <2>1, <2>2, ExitsFit
  <2>4. CASE new /\ g = my_generation
    <3>1. Members(g)' = M \cup {s}
      BY <1>3, <1>5, <1>6, <2>2, <2>4 DEF Members
    <3>2. Cardinality({s}) = 1
      BY FS_Singleton
    <3>3. {s} \in SUBSET Slots /\ M \cap {s} = {}
      BY <2>2
    <3>4. Fits(GenStart(gone, g, Cardinality({s}))[g], M \cup {s}, g, g)
      BY <2>3, <2>4, <3>3, FitsStart
    <3>5. Fits(geninfo'[g], M \cup {s}, g, my_generation)
      BY <1>1, <2>1, <2>4, <3>2, <3>4
    <3> QED
      BY <1>2, <3>1, <3>5 DEF RecordInv
  <2>5. CASE ~(new /\ g = my_generation)
    <3>1. Members(g)' = M
      BY <1>3, <1>5, <1>6, <2>2, <2>5 DEF Members
    <3>2. geninfo'[g] = gone[g]
      BY <1>0, <1>1, <2>1, <2>5 DEF GenStart
    <3> QED
      BY <1>2, <2>3, <3>1, <3>2 DEF RecordInv
  <2> QED
    BY <2>4, <2>5
<1> QED
  BY <1>4, <1>7 DEF GenInv

(* ap_reclaim_child_processes takes every child off the board.  A child that was not
   READY yet is charged to what its slot says, never to a later generation than its
   own: the current generation is charged with members of it only. *)
LEMMA ReclaimKeepsGen ==
    ASSUME TypeInv, GenInv, RestartUngraceful \/ ShutdownUngraceful \/ GraceEnds
    PROVE  GenInv'
<1>0. /\ my_generation \in Generations /\ my_generation \in Nat
      /\ geninfo \in [Generations -> GenInfo] /\ ParentInv /\ SlotTypes
  BY SlotTypesHold, GenerationFacts DEF SlotTypes, TypeInv, GenTypes
<1>1. Reclaim /\ ppc \in {"loop", "grace"}
  BY DEF RestartUngraceful, ShutdownUngraceful, GraceEnds
<1>2. /\ Scanned = Counted
      /\ pid' = [s \in Slots |-> FALSE]
      /\ \A s \in Slots : proc'[s] \notin Running
  BY <1>0, <1>1, ReclaimEmptiesBoard
<1>3. /\ geninfo' = GenDone(GenExit(geninfo, Scanned), my_generation)
      /\ \/ ppc' = "run" /\ my_generation' = my_generation + 1 /\ ~is_graceful'
         \/ ppc' = "done" /\ my_generation' = my_generation
  BY DEF RestartUngraceful, ShutdownUngraceful, GraceEnds, stopVars
<1>4. Current = my_generation /\ Current' = my_generation + 1
  BY <1>0, <1>1, <1>3 DEF Current
<1>5. ASSUME NEW t \in Slots PROVE SlotInv(t)'
  <2>1. SlotInv(t) /\ generation[t] \in Nat
    BY <1>0, GenerationFacts DEF GenInv, SlotTypes
  <2>2. proc'[t] \notin Running /\ generation'[t] = generation[t]
    BY <1>1, <1>2 DEF Reclaim
  <2> QED
    BY <1>0, <1>3, <2>1, <2>2 DEF SlotInv, Running
<1>6. ASSUME NEW g \in Generations PROVE RecordInv(g)'
  <2>1. Members(g)' = {}
    BY <1>2 DEF Members
  <2>2. PICK S \in SUBSET Slots : S = Scanned
    BY DEF Scanned
  <2>3. PICK M \in SUBSET Slots : M = Members(g)
    BY DEF Members
  <2>4. g = my_generation => Charged(S, g) \subseteq M
    <3> SUFFICES ASSUME NEW s \in S, generation[s] = my_generation
                 PROVE  pid[s] /\ Gen(s) = my_generation
      BY <2>2, <2>3 DEF Charged, Members
    <3>1. pid[s] /\ SlotInv(s) /\ born[s] \in Nat
      BY <1>0, <2>2, GenerationFacts DEF Scanned, Found, GenInv, SlotTypes
    <3> QED
      BY <1>0, <3>1 DEF SlotInv, Gen
  <2>5. Fits(geninfo[g], M, g, my_generation)
    BY <1>4, <2>3 DEF GenInv, RecordInv
  <2>6. Fits(GenExit(geninfo, S)[g], {}, g, my_generation)
    BY <1>0, <2>4, <2>5, FitsExitAll
  <2>7. PICK gone \in [Generations -> GenInfo] : gone = GenExit(geninfo, S)
    BY <1>0, GenExitTypes
  <2>8. {} \in SUBSET Slots
    OBVIOUS
  <2>9. Fits(GenDone(gone, my_generation)[g], {}, g, my_generation + 1)
    BY <1>0, <2>6, <2>7, <2>8, FitsDone
  <2> QED
    BY <1>3, <1>4, <2>1, <2>2, <2>7, <2>9 DEF RecordInv
<1> QED
  BY <1>5, <1>6 DEF GenInv

LEMMA GracefulRestartKeepsGen ==
    ASSUME TypeInv, GenInv, RestartGraceful
    PROVE  GenInv'
<1>0. /\ my_generation \in Generations /\ my_generation \in Nat
      /\ geninfo \in [Generations -> GenInfo] /\ SlotTypes
  BY SlotTypesHold, GenerationFacts DEF SlotTypes, TypeInv, GenTypes
<1>1. /\ UNCHANGED <<pid, generation, status, proc, born, is_graceful>>
      /\ ppc = "loop" /\ ppc' = "run" /\ my_generation' = my_generation + 1
      /\ geninfo' = GenDone(geninfo, my_generation)
  BY DEF RestartGraceful, boardVars, procVars, stopVars
<1>2. Current = my_generation /\ Current' = my_generation + 1
  BY <1>0, <1>1 DEF Current
<1>3. ASSUME NEW t \in Slots PROVE SlotInv(t)'
  <2>1. SlotInv(t) /\ generation[t] \in Nat /\ born[t] \in Nat
    BY <1>0, GenerationFacts DEF GenInv, SlotTypes
  <2> QED
    BY <1>0, <1>1, <2>1 DEF SlotInv, MayEnd, Settled
<1>4. ASSUME NEW g \in Generations PROVE RecordInv(g)'
  <2>1. PICK M \in SUBSET Slots : M = Members(g)
    BY DEF Members
  <2>2. Members(g)' = M
    BY <1>1, <2>1 DEF Members, Gen
  <2>3. Fits(geninfo[g], M, g, my_generation)
    BY <1>2, <2>1 DEF GenInv, RecordInv
  <2>4. Fits(GenDone(geninfo, my_generation)[g], M, g, my_generation + 1)
    BY <1>0, <2>3, FitsDone
  <2> QED
    BY <1>1, <1>2, <2>2, <2>4 DEF RecordInv
<1> QED
  BY <1>3, <1>4 DEF GenInv

-----------------------------------------------------------------------------
(* The invariant, and what it says of the end of a generation *)

LEMMA GenInit == Init => GenInv
<1> SUFFICES ASSUME Init PROVE GenInv
  OBVIOUS
<1>1. ASSUME NEW s \in Slots PROVE SlotInv(s)
  BY DEF Init, SlotInv, Running
<1>2. ASSUME NEW g \in Generations PROVE RecordInv(g)
  <2>1. Members(g) = {}
    BY DEF Init, Members
  <2>2. geninfo[g] = [known |-> FALSE, active |-> 0, done |-> FALSE, ended |-> FALSE]
    BY DEF Init
  <2>3. ~geninfo[g].known /\ ~geninfo[g].ended
    BY <2>2
  <2> QED
    BY <2>1, <2>3 DEF RecordInv, Fits
<1> QED
  BY <1>1, <1>2 DEF GenInv

LEMMA GenStep ==
    ASSUME TypeInv, GenInv, EarlyEnds \subseteq {0}, [Next]_vars
    PROVE  GenInv'
<1>1. CASE \E s \in Slots : ChildWork(s) \/ ChildLoad(s) \/ ChildFault(s)
  BY <1>1, ChildKeepsGen
<1>2. CASE \E s \in Slots : Reap(s)
  BY <1>2, ReapKeepsGen
<1>3. CASE StartRemaining \/ SpawnChildren \/ (Run /\ ~is_graceful)
  BY <1>3, StartingKeepsGen
<1>4. CASE \/ \E s \in Slots : ReapFatal(s)
           \/ BasketCase \/ TooManySpare \/ NoChange
           \/ \E sig \in Signals : Signal(sig)
           \/ Run /\ is_graceful
           \/ UNCHANGED vars
  BY <1>4, QuietKeepsGen
<1>5. CASE RestartGraceful
  BY <1>5, GracefulRestartKeepsGen
<1>6. CASE RestartUngraceful \/ ShutdownUngraceful \/ GraceEnds
  BY <1>6, ReclaimKeepsGen
<1>7. CASE ShutdownGraceful \/ GraceTick
  BY <1>7, RelieveKeepsGen
<1> QED
  BY <1>1, <1>2, <1>3, <1>4, <1>5, <1>6, <1>7, Zenon DEF Next, ParentStep, Maintenance

(* As long as only children of the first generation may end before their threads are
   READY, the end_generation hook of a generation runs after the last of its
   children, in every order of forks, exits, crashes and restarts.  The assumption is
   the point of run parent_generation: without it mpm_common.c is told of the exit
   under the generation of an earlier child of the slot. *)
THEOREM GenerationsEndLast ==
    ASSUME EarlyEnds \subseteq {0}
    PROVE  Spec => []GenerationEndsLast
<1>1. Init => TypeInv /\ GenInv
  BY TypeInit, GenInit
<1>2. TypeInv /\ GenInv /\ [Next]_vars => (TypeInv /\ GenInv)'
  BY TypeStep, GenStep
<1>3. TypeInv /\ GenInv => GenerationEndsLast
  <2> SUFFICES ASSUME TypeInv, GenInv, NEW g \in Generations, geninfo[g].ended,
                      NEW s \in Slots, Alive(s)
               PROVE  born[s] # g
    BY DEF GenerationEndsLast
  <2>1. pid[s]
    BY DEF TypeInv, ParentInv, LimitCoversChildren
  <2>2. Members(g) = {}
    BY DEF GenInv, RecordInv, Fits
  <2> QED
    BY <2>1, <2>2 DEF Members, Gen, Alive
<1> QED
  BY <1>1, <1>2, <1>3, PTL DEF Spec

=============================================================================

--------------------------- MODULE FdQueueProofs ---------------------------
(***************************************************************************)
(* Theorems about FdQueue for any number of workers, sockets and timers.   *)
(***************************************************************************)
EXTENDS FdQueue, FiniteSetTheorems, SequenceTheorems, TLAPS

\* The ring has at least one slot (ap_queue_init gets threads_per_child).
LEMMA BoundsType == bounds \in Nat /\ bounds >= 1
BY WorkersAssumption, FS_CardinalityType, FS_EmptySet, SMT DEF bounds

\* Advancing in or out stays inside the ring (ap_queue_push, pop_something).
LEMMA WrapType ==
    ASSUME NEW i \in Slots
    PROVE  Wrap(i + 1) \in Slots
BY BoundsType, SMT DEF Slots, Wrap

\* A signal on not_empty wakes one sleeping worker, or finds none.
LEMMA SignalCases ==
    ASSUME NEW pcs \in [Workers -> WorkerPCs],
           NEW pcs2 \in SignalNotEmpty(pcs)
    PROVE  \/ pcs2 = pcs /\ \A w \in Workers : pcs[w] # "waiting"
           \/ \E w \in Workers : /\ pcs[w] = "waiting"
                                 /\ pcs2 = [pcs EXCEPT ![w] = "woken"]
BY Zenon DEF SignalNotEmpty

LEMMA SignalType ==
    ASSUME NEW pcs \in [Workers -> WorkerPCs],
           NEW pcs2 \in SignalNotEmpty(pcs)
    PROVE  pcs2 \in [Workers -> WorkerPCs]
BY SignalCases, SMT DEF WorkerPCs

LEMMA BroadcastType ==
    ASSUME NEW pcs \in [Workers -> WorkerPCs]
    PROVE  BroadcastNotEmpty(pcs) \in [Workers -> WorkerPCs]
BY SMT DEF BroadcastNotEmpty, WorkerPCs

-----------------------------------------------------------------------------
LEMMA TypeInit == FdInit => FdTypeOK
BY BoundsType, SMT DEF FdInit, FdTypeOK, Slots, ListenerPCs, WorkerPCs

LEMMA TypeTake ==
    ASSUME FdTypeOK, NEW w \in Workers, ~Empty, Take(w)
    PROVE  /\ data' \in [Slots -> Conns \cup {NoConn}]
           /\ in' \in Slots
           /\ out' \in Slots
           /\ nelts' \in Int
           /\ timers' \in Seq(Timers)
           /\ wpc' \in [Workers -> WorkerPCs]
           /\ job' \in [Workers -> Conns \cup Timers \cup {NoConn}]
<1>1. CASE timers # <<>>
  <2>1. Head(timers) \in Timers /\ Tail(timers) \in Seq(Timers)
    BY <1>1, HeadTailProperties DEF FdTypeOK
  <2>2. job' \in [Workers -> Conns \cup Timers \cup {NoConn}]
    BY <1>1, <2>1, SMT DEF FdTypeOK, Take
  <2>3. wpc' \in [Workers -> WorkerPCs]
    BY <1>1, SMT DEF FdTypeOK, Take, WorkerPCs
  <2> QED BY <1>1, <2>1, <2>2, <2>3 DEF FdTypeOK, Take, ringVars
<1>2. CASE timers = <<>>
  BY <1>2, WrapType, SMT DEF FdTypeOK, Take, WorkerPCs
<1> QED BY <1>1, <1>2

LEMMA TypeStep == FdTypeOK /\ [FdNext]_fdvars => FdTypeOK'
<1> SUFFICES ASSUME FdTypeOK, [FdNext]_fdvars PROVE FdTypeOK'
  OBVIOUS
<1>1. ASSUME NEW w \in Workers,
             SetIdle(w) \/ SignalListener(w) \/ CheckTerm(w)
             \/ FinishSocket(w) \/ FinishTimer(w) \/ Exit(w)
      PROVE  FdTypeOK'
  <2>1. wpc' \in [Workers -> WorkerPCs]
    BY <1>1, SMT DEF FdTypeOK, SetIdle, SignalListener, CheckTerm,
       FinishSocket, FinishTimer, Exit, WorkerPCs
  <2>2. job' \in [Workers -> Conns \cup Timers \cup {NoConn}]
    BY <1>1, SMT DEF FdTypeOK, SetIdle, SignalListener, CheckTerm,
       FinishSocket, FinishTimer, Exit
  <2> QED BY <1>1, <2>1, <2>2, SMT DEF FdTypeOK, SetIdle, SignalListener,
          CheckTerm, FinishSocket, FinishTimer, Exit, ListenerPCs, infoVars,
          ringVars
<1>2. ASSUME NEW w \in Workers, Pop(w) \/ WakeUp(w) PROVE FdTypeOK'
  <2>1. CASE Empty
    BY <1>2, <2>1, SMT DEF FdTypeOK, Pop, WakeUp, WorkerPCs, infoVars, ringVars
  <2>2. CASE ~Empty
    <3>1. Take(w) /\ UNCHANGED <<idlers, infoTerm, qTerm, lpc, overrun>>
      BY <1>2, <2>2 DEF Pop, WakeUp, infoVars
    <3> QED BY <2>2, <3>1, TypeTake, SMT DEF FdTypeOK
  <2> QED BY <2>1, <2>2
<1>3. CASE TryGetIdler \/ BackOut \/ WaitForIdler \/ Recheck
  BY <1>3, SMT DEF FdTypeOK, TryGetIdler, BackOut, WaitForIdler, Recheck,
     ListenerPCs, infoVars, ringVars
<1>8. CASE InfoTerm \/ QueueTerm
  <2>1. lpc' \in ListenerPCs
    BY <1>8, SMT DEF FdTypeOK, InfoTerm, QueueTerm, ListenerPCs
  <2>2. infoTerm' \in BOOLEAN /\ qTerm' \in BOOLEAN
    BY <1>8 DEF FdTypeOK, InfoTerm, QueueTerm, infoVars
  <2> QED BY <1>8, <2>1, <2>2 DEF FdTypeOK, InfoTerm, QueueTerm, infoVars,
          ringVars
<1>4. ASSUME NEW c \in Conns, Push(c) PROVE FdTypeOK'
  <2>1. wpc' \in [Workers -> WorkerPCs]
    BY <1>4, SignalType DEF Push, FdTypeOK
  <2>2. in' \in Slots
    BY <1>4, WrapType DEF Push, FdTypeOK
  <2> QED BY <1>4, <2>1, <2>2, SMT DEF Push, FdTypeOK, ListenerPCs, infoVars
<1>5. ASSUME NEW t \in Timers, PushTimer(t) PROVE FdTypeOK'
  <2>1. wpc' \in [Workers -> WorkerPCs]
    BY <1>5, SignalType DEF PushTimer, FdTypeOK
  <2> QED BY <1>5, <2>1, SMT DEF PushTimer, FdTypeOK, infoVars, ringVars
<1>6. CASE InterruptOne \/ InterruptAll \/ QueueTermBroadcast
  <2>1. wpc' \in [Workers -> WorkerPCs]
    BY <1>6, SignalType, BroadcastType
    DEF InterruptOne, InterruptAll, QueueTermBroadcast, FdTypeOK
  <2> QED BY <1>6, <2>1, SMT DEF InterruptOne, InterruptAll,
          QueueTermBroadcast, FdTypeOK, ListenerPCs, infoVars, ringVars
<1>7. CASE UNCHANGED fdvars
  BY <1>7, SMT DEF FdTypeOK, fdvars
<1> QED
  BY <1>1, <1>2, <1>3, <1>4, <1>5, <1>6, <1>7, <1>8, Zenon
  DEF FdNext, Running, Shutdown, ListenerStep, WorkerStep

\* Type correctness of the queue, in every interleaving and every shutdown.
THEOREM TypeCorrect == FdSpec => []FdTypeOK
BY TypeInit, TypeStep, PTL DEF FdSpec

-----------------------------------------------------------------------------
(* Accounting.  Every step leaves the set of counted workers alone, adds the
   worker that counts itself, or removes the worker that takes a socket. *)

LEMMA CountedFinite == IsFiniteSet(CountedIdle) /\ Cardinality(CountedIdle) \in Nat
<1>1. CountedIdle \subseteq Workers BY DEF CountedIdle
<1> QED BY <1>1, WorkersAssumption, FS_Subset, FS_CardinalityType

\* Waking sleepers does not change who is counted.
LEMMA WakeKeepsCount ==
    ASSUME FdTypeOK,
           wpc' \in SignalNotEmpty(wpc) \/ wpc' = BroadcastNotEmpty(wpc)
    PROVE  CountedIdle' = CountedIdle
<1>1. CASE wpc' \in SignalNotEmpty(wpc)
  <2>1. \/ wpc' = wpc
        \/ \E w \in Workers : /\ wpc[w] = "waiting"
                              /\ wpc' = [wpc EXCEPT ![w] = "woken"]
    BY <1>1, SignalCases DEF FdTypeOK
  <2> QED BY <2>1, SMT DEF CountedIdle, FdTypeOK
<1>2. CASE wpc' = BroadcastNotEmpty(wpc)
  BY <1>2, SMT DEF CountedIdle, FdTypeOK, BroadcastNotEmpty
<1> QED BY <1>1, <1>2

LEMMA AccountingTake ==
    ASSUME FdTypeOK, Accounting, NEW w \in Workers, ~Empty, Take(w),
           wpc[w] \in {"pop", "woken"}, UNCHANGED <<idlers, lpc>>
    PROVE  Accounting'
<1>1. CASE timers # <<>>
  <2>1. CountedIdle' = CountedIdle
    BY <1>1, SMT DEF CountedIdle, FdTypeOK, Take
  <2> QED BY <1>1, <2>1, SMT DEF Accounting, Reservation, Take, ringVars
<1>2. CASE timers = <<>>
  <2>1. w \in CountedIdle /\ CountedIdle' = CountedIdle \ {w}
    BY <1>2, SMT DEF CountedIdle, FdTypeOK, Take
  <2>2. Cardinality(CountedIdle') = Cardinality(CountedIdle) - 1
    BY <2>1, CountedFinite, FS_RemoveElement
  <2>3. nelts' = nelts - 1
    BY <1>2 DEF Take
  <2> QED BY <2>2, <2>3, CountedFinite, SMT
          DEF Accounting, Reservation, FdTypeOK
<1> QED BY <1>1, <1>2

LEMMA AccountingStep == FdTypeOK /\ Accounting /\ [FdNext]_fdvars => Accounting'
<1> SUFFICES ASSUME FdTypeOK, Accounting, [FdNext]_fdvars PROVE Accounting'
  OBVIOUS
<1>1. ASSUME NEW w \in Workers, SetIdle(w) PROVE Accounting'
  <2>1. w \notin CountedIdle /\ CountedIdle' = CountedIdle \cup {w}
    BY <1>1, SMT DEF SetIdle, CountedIdle, FdTypeOK
  <2>2. Cardinality(CountedIdle') = Cardinality(CountedIdle) + 1
    BY <2>1, CountedFinite, FS_AddElement
  <2> QED BY <1>1, <2>2, CountedFinite, SMT
          DEF SetIdle, Accounting, Reservation, FdTypeOK, ringVars
<1>2. ASSUME NEW w \in Workers,
             SignalListener(w) \/ CheckTerm(w) \/ FinishSocket(w)
             \/ FinishTimer(w) \/ Exit(w)
      PROVE  Accounting'
  <2>1. CountedIdle' = CountedIdle
    BY <1>2, SMT DEF SignalListener, CheckTerm, FinishSocket, FinishTimer, Exit,
       CountedIdle, FdTypeOK
  <2> QED BY <1>2, <2>1, SMT DEF SignalListener, CheckTerm, FinishSocket,
          FinishTimer, Exit, Accounting, Reservation, infoVars, ringVars
<1>3. ASSUME NEW w \in Workers, Pop(w) \/ WakeUp(w) PROVE Accounting'
  <2>1. CASE Empty
    <3>1. CountedIdle' = CountedIdle
      BY <1>3, <2>1, SMT DEF Pop, WakeUp, CountedIdle, FdTypeOK
    <3> QED BY <1>3, <2>1, <3>1, SMT DEF Pop, WakeUp, Accounting, Reservation,
            infoVars, ringVars
  <2>2. CASE ~Empty
    BY <1>3, <2>2, AccountingTake DEF Pop, WakeUp, infoVars
  <2> QED BY <2>1, <2>2
<1>4. CASE TryGetIdler \/ BackOut \/ WaitForIdler \/ Recheck \/ InfoTerm
           \/ QueueTerm
  <2>1. CountedIdle' = CountedIdle
    BY <1>4 DEF TryGetIdler, BackOut, WaitForIdler, Recheck, InfoTerm,
       QueueTerm, CountedIdle
  <2> QED BY <1>4, <2>1, CountedFinite, SMT DEF TryGetIdler, BackOut,
          WaitForIdler, Recheck, InfoTerm, QueueTerm, Accounting, Reservation,
          FdTypeOK, infoVars, ringVars
<1>5. ASSUME NEW c \in Conns, Push(c) PROVE Accounting'
  <2>1. CountedIdle' = CountedIdle
    BY <1>5, WakeKeepsCount DEF Push
  <2> QED BY <1>5, <2>1, CountedFinite, SMT DEF Push, Accounting, Reservation,
          FdTypeOK, infoVars
<1>6. ASSUME (\E t \in Timers : PushTimer(t)) \/ InterruptOne \/ InterruptAll
             \/ QueueTermBroadcast
      PROVE  Accounting'
  <2>1. CountedIdle' = CountedIdle
    BY <1>6, WakeKeepsCount DEF PushTimer, InterruptOne, InterruptAll,
       QueueTermBroadcast
  <2> QED BY <1>6, <2>1, SMT DEF PushTimer, InterruptOne, InterruptAll,
          QueueTermBroadcast, Accounting, Reservation, infoVars, ringVars
<1>7. CASE UNCHANGED fdvars
  BY <1>7, SMT DEF fdvars, Accounting, Reservation, CountedIdle
<1> QED
  BY <1>1, <1>2, <1>3, <1>4, <1>5, <1>6, <1>7, Zenon
  DEF FdNext, Running, Shutdown, ListenerStep, WorkerStep

(* The reservation counter and the ring account for every idle worker, for any
   number of threads and in any interleaving (fdqueue.c). *)
THEOREM AccountingHolds == FdSpec => []Accounting
<1>1. FdInit => Accounting
  <2> SUFFICES ASSUME FdInit PROVE Accounting
    OBVIOUS
  <2>1. CountedIdle = {}
    BY SMT DEF FdInit, CountedIdle
  <2> QED BY <2>1, FS_EmptySet, SMT DEF FdInit, Accounting, Reservation
<1> QED BY <1>1, TypeInit, TypeStep, AccountingStep, PTL DEF FdSpec

-----------------------------------------------------------------------------
(* Condition variables.  NoLostWakeup is inductive as it stands. *)

LEMMA WakeupStep == FdTypeOK /\ NoLostWakeup /\ [FdNext]_fdvars => NoLostWakeup'
<1> SUFFICES ASSUME FdTypeOK, NoLostWakeup, [FdNext]_fdvars PROVE NoLostWakeup'
  OBVIOUS
<1>1. ASSUME NEW w \in Workers, SetIdle(w) PROVE NoLostWakeup'
  BY <1>1, SMT DEF SetIdle, NoLostWakeup, FdTypeOK
<1>2. ASSUME NEW w \in Workers, SignalListener(w) PROVE NoLostWakeup'
  BY <1>2 DEF SignalListener, NoLostWakeup
<1>3. ASSUME NEW w \in Workers,
             CheckTerm(w) \/ FinishSocket(w) \/ FinishTimer(w) \/ Exit(w)
             \/ Pop(w) \/ WakeUp(w)
      PROVE  NoLostWakeup'
  BY <1>3, SMT DEF CheckTerm, FinishSocket, FinishTimer, Exit, Pop, WakeUp,
     Take, NoLostWakeup, FdTypeOK, infoVars
<1>4. CASE TryGetIdler \/ BackOut \/ WaitForIdler \/ Recheck \/ InfoTerm
           \/ QueueTerm \/ QueueTermBroadcast \/ \E c \in Conns : Push(c)
  BY <1>4, SMT DEF TryGetIdler, BackOut, WaitForIdler, Recheck, InfoTerm,
     QueueTerm, QueueTermBroadcast, Push, NoLostWakeup, FdTypeOK, infoVars
<1>5. ASSUME (\E t \in Timers : PushTimer(t)) \/ InterruptOne \/ InterruptAll
      PROVE  NoLostWakeup'
  <2>1. \A w \in Workers : wpc[w] = "signal" => wpc'[w] = "signal"
    <3>1. CASE wpc' \in SignalNotEmpty(wpc)
      <4>1. \/ wpc' = wpc
            \/ \E w \in Workers : /\ wpc[w] = "waiting"
                                  /\ wpc' = [wpc EXCEPT ![w] = "woken"]
        BY <3>1, SignalCases DEF FdTypeOK
      <4> QED BY <4>1, SMT DEF FdTypeOK
    <3>2. CASE wpc' = BroadcastNotEmpty(wpc)
      BY <3>2, SMT DEF BroadcastNotEmpty
    <3> QED BY <1>5, <3>1, <3>2 DEF PushTimer, InterruptOne, InterruptAll
  <2> QED BY <1>5, <2>1 DEF PushTimer, InterruptOne, InterruptAll,
          NoLostWakeup, infoVars
<1>6. CASE UNCHANGED fdvars
  BY <1>6 DEF fdvars, NoLostWakeup
<1> QED
  BY <1>1, <1>2, <1>3, <1>4, <1>5, <1>6, Zenon
  DEF FdNext, Running, Shutdown, ListenerStep, WorkerStep

(* A listener never sleeps in ap_queue_info_wait_for_idler past a worker that
   has become idle and has nothing more to say to it. *)
THEOREM WakeupNotLost == FdSpec => []NoLostWakeup
<1>1. FdInit => NoLostWakeup
  BY DEF FdInit, NoLostWakeup
<1> QED BY <1>1, TypeInit, TypeStep, WakeupStep, PTL DEF FdSpec

\* The workers that have been woken in ap_queue_pop_something
Woken == {w \in Workers : wpc[w] = "woken"}

LEMMA WokenFinite == IsFiniteSet(Woken) /\ Cardinality(Woken) \in Nat
<1>1. Woken \subseteq Workers BY DEF Woken
<1> QED BY <1>1, WorkersAssumption, FS_Subset, FS_CardinalityType

\* A signal either finds no sleeper or adds one worker to the woken ones.
LEMMA SignalAddsWoken ==
    ASSUME FdTypeOK, wpc' \in SignalNotEmpty(wpc)
    PROVE  \/ \A w \in Workers : wpc'[w] # "waiting"
           \/ /\ \E w \in Workers : wpc[w] = "waiting"
              /\ Cardinality(Woken') = Cardinality(Woken) + 1
<1>1. CASE wpc' = wpc /\ \A w \in Workers : wpc[w] # "waiting"
  BY <1>1
<1>2. ASSUME NEW w \in Workers, wpc[w] = "waiting",
             wpc' = [wpc EXCEPT ![w] = "woken"]
      PROVE  Cardinality(Woken') = Cardinality(Woken) + 1
  <2>1. w \notin Woken /\ Woken' = Woken \cup {w}
    BY <1>2, SMT DEF Woken, FdTypeOK
  <2> QED BY <2>1, WokenFinite, FS_AddElement
<1> QED BY <1>1, <1>2, SignalCases DEF FdTypeOK

LEMMA SleepersStep ==
    FdTypeOK /\ SleepersCovered /\ [FdNext]_fdvars => SleepersCovered'
<1> SUFFICES ASSUME FdTypeOK, SleepersCovered, [FdNext]_fdvars
             PROVE  SleepersCovered'
  OBVIOUS
<1> DEFINE Asleep == \E w \in Workers : wpc[w] = "waiting"
<1>a. Asleep => nelts + Len(timers) <= Cardinality(Woken)
  BY DEF SleepersCovered, Woken
<1>b. SUFFICES ASSUME Asleep' PROVE (nelts + Len(timers) <= Cardinality(Woken))'
  BY DEF SleepersCovered, Woken
<1>c. Len(timers) \in Nat /\ nelts \in Int
  BY DEF FdTypeOK
<1>1. ASSUME NEW w \in Workers,
             SetIdle(w) \/ SignalListener(w) \/ CheckTerm(w)
             \/ FinishSocket(w) \/ FinishTimer(w) \/ Exit(w)
      PROVE  (nelts + Len(timers) <= Cardinality(Woken))'
  <2>1. Woken' = Woken /\ Asleep
    BY <1>1, <1>b, SMT DEF SetIdle, SignalListener, CheckTerm, FinishSocket,
       FinishTimer, Exit, Woken, FdTypeOK
  <2> QED BY <1>1, <1>a, <2>1 DEF SetIdle, SignalListener, CheckTerm,
          FinishSocket, FinishTimer, Exit, ringVars
<1>2. ASSUME NEW w \in Workers, Pop(w), Empty
      PROVE  (nelts + Len(timers) <= Cardinality(Woken))'
  <2>1. nelts' = 0 /\ timers' = <<>>
    BY <1>2 DEF Pop, Empty, ringVars
  <2>2. Woken' = Woken
    BY <1>2, SMT DEF Pop, Woken, FdTypeOK
  <2> QED BY <2>1, <2>2, WokenFinite, SMT
<1>3. ASSUME NEW w \in Workers, WakeUp(w), Empty
      PROVE  (nelts + Len(timers) <= Cardinality(Woken))'
  <2>1. nelts' = 0 /\ timers' = <<>>
    BY <1>3 DEF WakeUp, Empty, ringVars
  <2>2. w \in Woken /\ Woken' = Woken \ {w}
    BY <1>3, SMT DEF WakeUp, Woken, FdTypeOK
  <2>3. IsFiniteSet(Woken') /\ Cardinality(Woken') \in Nat
    BY <2>2, WokenFinite, FS_RemoveElement, FS_CardinalityType
  <2> QED BY <2>1, <2>3, SMT
<1>4. ASSUME NEW w \in Workers, Pop(w) \/ WakeUp(w), ~Empty
      PROVE  (nelts + Len(timers) <= Cardinality(Woken))'
  <2>1. Take(w) /\ wpc[w] \in {"pop", "woken"}
    BY <1>4 DEF Pop, WakeUp
  <2>2. Asleep
    BY <1>b, <2>1, SMT DEF Take, FdTypeOK
  <2>3. nelts' + Len(timers') = nelts + Len(timers) - 1
    <3>1. CASE timers # <<>>
      <4>1. Len(Tail(timers)) = Len(timers) - 1
        BY <3>1, HeadTailProperties DEF FdTypeOK
      <4> QED BY <1>c, <2>1, <3>1, <4>1, SMT DEF Take, ringVars
    <3>2. CASE timers = <<>>
      BY <1>c, <2>1, <3>2, SMT DEF Take
    <3> QED BY <3>1, <3>2
  <2>4. CASE wpc[w] = "pop"
    <3>1. Woken' = Woken
      BY <2>1, <2>4, SMT DEF Take, Woken, FdTypeOK
    <3> QED BY <1>a, <1>c, <2>2, <2>3, <3>1, WokenFinite, SMT
  <2>5. CASE wpc[w] = "woken"
    <3>1. w \in Woken /\ Woken' = Woken \ {w}
      BY <2>1, <2>5, SMT DEF Take, Woken, FdTypeOK
    <3>2. Cardinality(Woken') = Cardinality(Woken) - 1
      BY <3>1, WokenFinite, FS_RemoveElement
    <3> QED BY <1>a, <1>c, <2>2, <2>3, <3>2, WokenFinite, SMT
  <2> QED BY <2>1, <2>4, <2>5
<1>5. CASE TryGetIdler \/ BackOut \/ WaitForIdler \/ Recheck \/ InfoTerm
           \/ QueueTerm \/ UNCHANGED fdvars
  BY <1>5, <1>a, <1>b DEF TryGetIdler, BackOut, WaitForIdler, Recheck,
     InfoTerm, QueueTerm, fdvars, Woken, ringVars
<1>6. ASSUME InterruptAll \/ QueueTermBroadcast PROVE FALSE
  BY <1>6, <1>b, SMT DEF InterruptAll, QueueTermBroadcast, BroadcastNotEmpty
<1>7. ASSUME (\E c \in Conns : Push(c)) \/ (\E t \in Timers : PushTimer(t))
             \/ InterruptOne
      PROVE  (nelts + Len(timers) <= Cardinality(Woken))'
  <2>1. Asleep /\ Cardinality(Woken') = Cardinality(Woken) + 1
    BY <1>7, <1>b, SignalAddsWoken DEF Push, PushTimer, InterruptOne
  <2>2. nelts' + Len(timers') <= nelts + Len(timers) + 1
    <3>1. \A t \in Timers : Len(Append(timers, t)) = Len(timers) + 1
      BY AppendProperties DEF FdTypeOK
    <3> QED BY <1>7, <1>c, <3>1, SMT
            DEF Push, PushTimer, InterruptOne, ringVars
  <2>3. nelts' + Len(timers') \in Int
    <3>1. \A t \in Timers : Len(Append(timers, t)) = Len(timers) + 1
      BY AppendProperties DEF FdTypeOK
    <3> QED BY <1>7, <1>c, <3>1, SMT
            DEF Push, PushTimer, InterruptOne, ringVars
  <2> QED BY <1>a, <1>c, <2>1, <2>2, <2>3, WokenFinite, SMT
<1> QED
  BY <1>1, <1>2, <1>3, <1>4, <1>5, <1>6, <1>7, Zenon
  DEF FdNext, Running, Shutdown, ListenerStep, WorkerStep

(* No worker sleeps in ap_queue_pop_something while an element is queued for
   which nobody has been woken. *)
THEOREM SleepersAreCovered == FdSpec => []SleepersCovered
<1>1. FdInit => SleepersCovered
  BY SMT DEF FdInit, SleepersCovered
<1> QED BY <1>1, TypeInit, TypeStep, SleepersStep, PTL DEF FdSpec

-----------------------------------------------------------------------------
(* Termination.  The flag is set before the broadcast, and a popper reads it
   under the mutex before it sleeps. *)
TermInv == /\ lpc \in {"term", "done"} => qTerm
           /\ NoSleepAfterTerm

LEMMA TermStep == FdTypeOK /\ TermInv /\ [FdNext]_fdvars => TermInv'
<1> SUFFICES ASSUME FdTypeOK, TermInv, [FdNext]_fdvars PROVE TermInv'
  OBVIOUS
<1> USE DEF TermInv, NoSleepAfterTerm
<1>1. ASSUME NEW w \in Workers, Pop(w) \/ WakeUp(w) PROVE TermInv'
  BY <1>1, SMT DEF Pop, WakeUp, Take, FdTypeOK
<1>2. ASSUME NEW w \in Workers,
             SetIdle(w) \/ SignalListener(w) \/ CheckTerm(w)
             \/ FinishSocket(w) \/ FinishTimer(w) \/ Exit(w)
      PROVE  TermInv'
  BY <1>2, SMT DEF SetIdle, SignalListener, CheckTerm, FinishSocket,
     FinishTimer, Exit, FdTypeOK
<1>3. CASE TryGetIdler \/ BackOut \/ WaitForIdler \/ Recheck \/ InfoTerm
           \/ (\E c \in Conns : Push(c)) \/ UNCHANGED fdvars
  BY <1>3, SMT DEF TryGetIdler, BackOut, WaitForIdler, Recheck, InfoTerm, Push,
     fdvars
<1>4. CASE QueueTerm
  BY <1>4 DEF QueueTerm
<1>5. CASE QueueTermBroadcast \/ InterruptAll
  BY <1>5, SMT DEF QueueTermBroadcast, InterruptAll, BroadcastNotEmpty
<1>6. CASE InterruptOne \/ \E t \in Timers : PushTimer(t)
  <2>1. \/ wpc' = wpc
        \/ \E w \in Workers : /\ wpc[w] = "waiting"
                              /\ wpc' = [wpc EXCEPT ![w] = "woken"]
    BY <1>6, SignalCases DEF InterruptOne, PushTimer, FdTypeOK
  <2> QED BY <1>6, <2>1, SMT DEF InterruptOne, PushTimer, FdTypeOK
<1> QED
  BY <1>1, <1>2, <1>3, <1>4, <1>5, <1>6, Zenon
  DEF FdNext, Running, Shutdown, ListenerStep, WorkerStep

(* Once ap_queue_term has returned no worker sleeps on not_empty, nor will one
   ever again: the workers can be joined. *)
THEOREM NobodySleepsAfterTerm == FdSpec => []NoSleepAfterTerm
<1>1. FdInit => TermInv
  BY SMT DEF FdInit, TermInv, NoSleepAfterTerm
<1>2. TermInv => NoSleepAfterTerm
  BY DEF TermInv
<1> QED BY <1>1, <1>2, TypeInit, TypeStep, TermStep, PTL DEF FdSpec

-----------------------------------------------------------------------------
(* Over-commitment.  A worker between the two halves of ap_queue_info_set_idle
   holds a signal that may go to the wrong wait; each wrong wake-up costs one
   such signal, and there is at most one per worker. *)
Signallers == {w \in Workers : wpc[w] = "signal"}

Unserved == IF lpc \in {"recheck", "blocked", "backout"} THEN 1 ELSE 0

Slack == idlers + Unserved + bounds >= Cardinality(Signallers)

RunningInv ==
    /\ FdTypeOK
    /\ Accounting
    /\ lpc \notin {"term", "done"}
    /\ Slack

LEMMA SignallersFinite ==
    /\ IsFiniteSet(Signallers)
    /\ Cardinality(Signallers) \in Nat
    /\ Cardinality(Signallers) <= bounds
<1>1. Signallers \subseteq Workers BY DEF Signallers
<1> QED BY <1>1, WorkersAssumption, FS_Subset, FS_CardinalityType DEF bounds

LEMMA SlackStep == RunningInv /\ [Running]_fdvars => Slack' /\ lpc' \notin {"term", "done"}
<1> SUFFICES ASSUME RunningInv, [Running]_fdvars
             PROVE  Slack' /\ lpc' \notin {"term", "done"}
  OBVIOUS
<1>a. FdTypeOK /\ Slack /\ lpc \notin {"term", "done"}
  BY DEF RunningInv
<1>b. idlers \in Int /\ bounds \in Nat
  BY <1>a, BoundsType DEF FdTypeOK
<1>1. ASSUME NEW w \in Workers, SetIdle(w)
      PROVE  Slack' /\ lpc' \notin {"term", "done"}
  <2>1. CASE idlers < 0
    <3>1. w \notin Signallers /\ Signallers' = Signallers \cup {w}
      BY <1>1, <1>a, <2>1, SMT DEF SetIdle, Signallers, FdTypeOK
    <3>2. Cardinality(Signallers') = Cardinality(Signallers) + 1
      BY <3>1, SignallersFinite, FS_AddElement
    <3> QED BY <1>1, <1>a, <1>b, <3>2, SignallersFinite, SMT
            DEF SetIdle, Slack, Unserved, bounds
  <2>2. CASE ~(idlers < 0)
    <3>1. Signallers' = Signallers
      BY <1>1, <1>a, <2>2, SMT DEF SetIdle, Signallers, FdTypeOK
    <3> QED BY <1>1, <1>a, <1>b, <3>1, SignallersFinite, SMT
            DEF SetIdle, Slack, Unserved, bounds
  <2> QED BY <2>1, <2>2
<1>2. ASSUME NEW w \in Workers, SignalListener(w)
      PROVE  Slack' /\ lpc' \notin {"term", "done"}
  <2>1. w \in Signallers /\ Signallers' = Signallers \ {w}
    BY <1>2, <1>a, SMT DEF SignalListener, Signallers, FdTypeOK
  <2>2. Cardinality(Signallers') = Cardinality(Signallers) - 1
    BY <2>1, SignallersFinite, FS_RemoveElement
  <2> QED BY <1>2, <1>a, <1>b, <2>2, SignallersFinite, SMT
          DEF SignalListener, Slack, Unserved, infoVars, bounds
<1>3. ASSUME NEW w \in Workers,
             CheckTerm(w) \/ FinishSocket(w) \/ FinishTimer(w)
             \/ Pop(w) \/ WakeUp(w)
      PROVE  Slack' /\ lpc' \notin {"term", "done"}
  <2>1. Signallers' = Signallers
    BY <1>3, <1>a, SMT DEF CheckTerm, FinishSocket, FinishTimer, Pop, WakeUp,
       Take, Signallers, FdTypeOK
  <2> QED BY <1>3, <1>a, <2>1 DEF CheckTerm, FinishSocket, FinishTimer, Pop,
          WakeUp, Slack, Unserved, infoVars, bounds
<1>4. CASE TryGetIdler \/ BackOut \/ WaitForIdler \/ Recheck
  <2>1. Signallers' = Signallers
    BY <1>4 DEF TryGetIdler, BackOut, WaitForIdler, Recheck, Signallers
  <2> QED BY <1>4, <1>a, <1>b, <2>1, SignallersFinite, SMT DEF TryGetIdler,
          BackOut, WaitForIdler, Recheck, Slack, Unserved, infoVars, bounds
<1>5. CASE (\E c \in Conns : Push(c)) \/ (\E t \in Timers : PushTimer(t))
  <2>1. \/ wpc' = wpc
        \/ \E w \in Workers : /\ wpc[w] = "waiting"
                              /\ wpc' = [wpc EXCEPT ![w] = "woken"]
    BY <1>5, <1>a, SignalCases DEF Push, PushTimer, FdTypeOK
  <2>2. Signallers' = Signallers
    BY <2>1, <1>a, SMT DEF Signallers, FdTypeOK
  <2> QED BY <1>5, <1>a, <1>b, <2>2, SignallersFinite, SMT
          DEF Push, PushTimer, Slack, Unserved, infoVars, bounds
<1>6. CASE UNCHANGED fdvars
  BY <1>6, <1>a DEF fdvars, Slack, Unserved, Signallers, bounds
<1> QED
  BY <1>1, <1>2, <1>3, <1>4, <1>5, <1>6, Zenon
  DEF Running, ListenerStep, WorkerStep

LEMMA OvercommitFromInv == RunningInv => OvercommitBounded
<1> SUFFICES ASSUME RunningInv PROVE OvercommitBounded
  OBVIOUS
<1>1. CountedIdle \subseteq Workers
  BY DEF CountedIdle
<1>2. Cardinality(CountedIdle) <= bounds
  BY <1>1, WorkersAssumption, FS_Subset DEF bounds
<1> QED BY <1>2, BoundsType, CountedFinite, SignallersFinite, SMT
        DEF RunningInv, OvercommitBounded, Accounting, Slack, Unserved,
            Reservation, FdTypeOK

(* Until the child is told to stop, late signals of ap_queue_info_set_idle can
   overfill the ring by no more than threads_per_child elements. *)
THEOREM OvercommitIsBounded == RunningSpec => []OvercommitBounded
<1>1. FdInit => RunningInv
  <2> SUFFICES ASSUME FdInit PROVE RunningInv
    OBVIOUS
  <2>1. CountedIdle = {} /\ Signallers = {}
    BY SMT DEF FdInit, CountedIdle, Signallers
  <2>2. Cardinality(CountedIdle) = 0 /\ Cardinality(Signallers) = 0
    BY <2>1, FS_EmptySet
  <2> QED BY <2>2, TypeInit, BoundsType, SMT DEF FdInit, RunningInv, Accounting,
          Reservation, Slack, Unserved
<1>2. RunningInv /\ [Running /\ PushesOnce']_fdvars => RunningInv'
  <2> SUFFICES ASSUME RunningInv, [Running]_fdvars PROVE RunningInv'
    OBVIOUS
  <2>1. [FdNext]_fdvars
    BY DEF FdNext
  <2> QED BY <2>1, TypeStep, AccountingStep, SlackStep DEF RunningInv
<1> QED BY <1>1, <1>2, OvercommitFromInv, PTL DEF RunningSpec
=============================================================================

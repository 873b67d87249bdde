-------------------------- MODULE EventChildCounts --------------------------
(***************************************************************************)
(* The numbers a child process keeps, for every number of workers,         *)
(* connections, timers and listening sockets: connection_count,            *)
(* lingering_count and suspended_count are exact, every variable keeps its *)
(* type, and MaxConnectionsPerChild is overshot by less than one batch.    *)
(***************************************************************************)
EXTENDS EventChildOwnership

-----------------------------------------------------------------------------
(* The connection counters *)

\* The states in which a connection has a conn_state, and so is counted
OpenStates == {"read", "wc", "ka", "lingering", "suspended"}

\* The connections in one of the states S
InState(S) == {c \in Conns : cst[c] \in S}

Bit(b) == IF b THEN 1 ELSE 0

\* Conns may be infinite, the open ones are finitely many.
CountInv ==
    /\ IsFiniteSet(InState(OpenStates))
    /\ connection_count = Cardinality(InState(OpenStates))
    /\ lingering_count = Cardinality(InState({"lingering"}))
    /\ suspended_count = Cardinality(InState({"suspended"}))

\* When one connection changes its state
LEMMA OneChanges ==
    ASSUME NEW S, cst \in [Conns -> ConnStates], IsFiniteSet(InState(S)),
           NEW c \in Conns, NEW x, cst' = [cst EXCEPT ![c] = x]
    PROVE  /\ IsFiniteSet(InState(S)')
           /\ Cardinality(InState(S)') =
                 Cardinality(InState(S)) + Bit(x \in S) - Bit(cst[c] \in S)
<1>1. cst'[c] = x /\ \A d \in Conns : d # c => cst'[d] = cst[d]
  OBVIOUS
<1>2. Cardinality(InState(S)) \in Nat
  BY FS_CardinalityType
<1>3. CASE x \in S <=> cst[c] \in S
  <2>1. InState(S)' = InState(S)
    BY <1>1, <1>3 DEF InState
  <2> QED
    BY <1>2, <1>3, <2>1 DEF Bit
<1>4. CASE x \in S /\ cst[c] \notin S
  <2>1. InState(S)' = InState(S) \cup {c} /\ c \notin InState(S)
    BY <1>1, <1>4 DEF InState
  <2> QED
    BY <1>2, <1>4, <2>1, FS_AddElement DEF Bit
<1>5. CASE x \notin S /\ cst[c] \in S
  <2>1. InState(S)' = InState(S) \ {c} /\ c \in InState(S)
    BY <1>1, <1>5 DEF InState
  <2> QED
    BY <1>2, <1>5, <2>1, FS_RemoveElement DEF Bit
<1> QED
  BY <1>3, <1>4, <1>5

\* The lingering and the suspended connections are among the open ones.
LEMMA CountTypes ==
    ASSUME CountInv
    PROVE  /\ IsFiniteSet(InState({"lingering"})) /\ IsFiniteSet(InState({"suspended"}))
           /\ connection_count \in Nat /\ lingering_count \in Nat /\ suspended_count \in Nat
<1>1. /\ InState({"lingering"}) \subseteq InState(OpenStates)
      /\ InState({"suspended"}) \subseteq InState(OpenStates)
  BY DEF InState, OpenStates
<1>2. IsFiniteSet(InState({"lingering"})) /\ IsFiniteSet(InState({"suspended"}))
  BY <1>1, FS_Subset DEF CountInv
<1> QED
  BY <1>2, FS_CardinalityType DEF CountInv

(* A step that puts connection c into state x and counts accordingly *)
Recounts(c, x) ==
    /\ cst' = [cst EXCEPT ![c] = x]
    /\ connection_count' =
          connection_count + Bit(x \in OpenStates) - Bit(cst[c] \in OpenStates)
    /\ lingering_count' =
          lingering_count + Bit(x = "lingering") - Bit(cst[c] = "lingering")
    /\ suspended_count' =
          suspended_count + Bit(x = "suspended") - Bit(cst[c] = "suspended")

LEMMA RecountsExact ==
    ASSUME CountInv, cst \in [Conns -> ConnStates], NEW c \in Conns, NEW x,
           Recounts(c, x)
    PROVE  CountInv'
<1>1. /\ IsFiniteSet(InState({"lingering"})) /\ IsFiniteSet(InState({"suspended"}))
      /\ IsFiniteSet(InState(OpenStates))
  BY CountTypes DEF CountInv
<1>2. /\ IsFiniteSet(InState(OpenStates)')
      /\ Cardinality(InState(OpenStates)') = Cardinality(InState(OpenStates))
            + Bit(x \in OpenStates) - Bit(cst[c] \in OpenStates)
  BY <1>1, OneChanges DEF Recounts
<1>3. Cardinality(InState({"lingering"})') = Cardinality(InState({"lingering"}))
         + Bit(x \in {"lingering"}) - Bit(cst[c] \in {"lingering"})
  BY <1>1, OneChanges DEF Recounts
<1>4. Cardinality(InState({"suspended"})') = Cardinality(InState({"suspended"}))
         + Bit(x \in {"suspended"}) - Bit(cst[c] \in {"suspended"})
  BY <1>1, OneChanges DEF Recounts
<1>5. \A s, t : s \in {t} <=> s = t
  OBVIOUS
<1> QED
  BY <1>2, <1>3, <1>4, <1>5 DEF CountInv, Recounts, Bit

LEMMA SameCounts ==
    ASSUME CountInv, UNCHANGED <<cst, countVars>> PROVE CountInv'
BY DEF CountInv, InState, countVars

(* decrement_connection_count runs once for a connection that is counted. *)
LEMMA ClosedRecounts ==
    ASSUME CountInv, NEW c, cst[c] \in {"read", "wc", "ka", "lingering"}, Closed(c)
    PROVE  Recounts(c, "none")
BY CountTypes DEF Closed, Recounts, Bit, OpenStates

LEMMA LingersRecounts ==
    ASSUME CountInv, NEW c, cst[c] \in {"read", "wc", "ka"}, Lingers(c)
    PROVE  Recounts(c, "none") \/ Recounts(c, "lingering")
<1>1. CASE Closed(c)
  BY <1>1, ClosedRecounts
<1>2. CASE ~Closed(c)
  BY <1>2, CountTypes DEF Lingers, Recounts, Bit, OpenStates
<1> QED
  BY <1>1, <1>2

LEMMA LingerNonblockingRecounts ==
    ASSUME CountInv, NEW c, cst[c] \in {"read", "wc", "ka"}, LingerNonblocking(c)
    PROVE  Recounts(c, "none") \/ Recounts(c, "lingering")
BY ClosedRecounts, LingersRecounts DEF LingerNonblocking

LEMMA ParksRecounts ==
    ASSUME CountInv, NEW c, NEW q \in {"wc", "ka"}, cst[c] \in {"read", "wc"},
           Parks(c, q)
    PROVE  Recounts(c, q)
BY CountTypes DEF Parks, Recounts, Bit, OpenStates, countVars

\* One connection changes its state, or none does.
CountedStep ==
    \/ UNCHANGED <<cst, countVars>>
    \/ \E c \in Conns, x \in ConnStates : Recounts(c, x)

LEMMA ListenerCounts == ASSUME PlaceInv, CountInv, Listener PROVE CountedStep
<1>0. /\ connection_count \in Nat /\ lingering_count \in Nat /\ suspended_count \in Nat
      /\ {"none", "new", "read", "lingering"} \subseteq ConnStates
  BY CountTypes DEF ConnStates
<1>1. CASE LTop \/ LQuota \/ LPoll \/ LCheck \/ LTimersDone \/ LGetWorker
             \/ LLoopEnd \/ LLeave
  BY <1>1 DEF CountedStep, connVars, LTop, LQuota, LPoll, LCheck, LTimersDone,
     LGetWorker, LLoopEnd, LLeave
<1>2. CASE LDispatch
  <2>1. CASE UNCHANGED <<cst, countVars>>
    BY <2>1 DEF CountedStep
  <2>2. CASE LingerNonblocking(lcur)
    <3>1. lcur \in Conns /\ cst[lcur] \in {"read", "wc"}
      BY <1>2 DEF LDispatch, PlaceInv, LoopInv
    <3> QED
      BY <1>0, <2>2, <3>1, LingerNonblockingRecounts DEF CountedStep
  <2> QED
    BY <1>2, <2>1, <2>2 DEF LDispatch
<1>3. CASE LAccept
  <2>1. UNCHANGED countVars
    BY <1>3 DEF LAccept
  <2>2. UNCHANGED cst \/ \E c \in Conns : cst[c] = "none" /\ cst' = [cst EXCEPT ![c] = "new"]
    BY <1>3 DEF LAccept
  <2>3. ASSUME NEW c \in Conns, cst[c] = "none", cst' = [cst EXCEPT ![c] = "new"]
        PROVE  Recounts(c, "new")
    BY <1>0, <2>1, <2>3 DEF Recounts, Bit, OpenStates, countVars
  <2> QED
    BY <1>0, <2>1, <2>2, <2>3 DEF CountedStep
<1>4. ASSUME NEW t \in Timers, LPushTimer(t) PROVE CountedStep
  BY <1>4 DEF CountedStep, connVars, LPushTimer
<1>5. ASSUME NEW c \in Conns, LReady(c) PROVE CountedStep
  <2>1. UNCHANGED countVars
    BY <1>5 DEF LReady
  <2>2. UNCHANGED cst \/ (cst[c] = "ka" /\ cst' = [cst EXCEPT ![c] = "read"])
    BY <1>5 DEF LReady
  <2>3. cst[c] = "ka" /\ cst' = [cst EXCEPT ![c] = "read"] => Recounts(c, "read")
    BY <1>0, <2>1 DEF Recounts, Bit, OpenStates, countVars
  <2> QED
    BY <1>0, <2>1, <2>2, <2>3 DEF CountedStep
<1>6. ASSUME NEW c \in Conns, LLinger(c) PROVE CountedStep
  <2>1. cst[c] = "lingering" /\ (UNCHANGED <<connVars, countVars>> \/ Closed(c))
    BY <1>6 DEF LLinger
  <2> QED
    BY <1>0, <2>1, ClosedRecounts DEF CountedStep, connVars
<1>7. ASSUME NEW c \in Conns, LExpire(c) PROVE CountedStep
  <2>1. c \in Trashed
    BY <1>7 DEF LExpire, Trashed
  <2>2. cst[c] \in Waiting
    BY <2>1 DEF PlaceInv, PlaceOK, TrashedOK
  <2>3. IF cst[c] = "lingering" THEN Closed(c) ELSE LingerNonblocking(c)
    BY <1>7 DEF LExpire
  <2> QED
    BY <1>0, <2>2, <2>3, ClosedRecounts, LingerNonblockingRecounts DEF CountedStep, Waiting
<1>8. ASSUME NEW l \in Listeners, LRefuse(l) \/ LAcceptReady(l) PROVE CountedStep
  BY <1>8 DEF CountedStep, connVars, LRefuse, LAcceptReady
<1>9. ASSUME NEW q, NEW E, LTimeoutPass(q, E) PROVE CountedStep
  BY <1>9 DEF CountedStep, LTimeoutPass
<1> QED
  BY <1>1, <1>2, <1>3, <1>4, <1>5, <1>6, <1>7, <1>8, <1>9 DEF Listener

LEMMA WorkerCounts ==
    ASSUME PlaceInv, CountInv, NEW w \in Workers, Worker(w) PROVE CountedStep
<1>0. /\ connection_count \in Nat /\ lingering_count \in Nat /\ suspended_count \in Nat
      /\ {"none", "read", "wc", "ka", "lingering", "suspended"} \subseteq ConnStates
  BY CountTypes DEF ConnStates
<1>1. CASE WStart(w) \/ WTest(w) \/ WDecide(w) \/ WPop(w) \/ WTimer(w)
             \/ WKeepAlive(w) \/ WRelease(w)
  BY <1>1 DEF CountedStep, connVars, WStart, WTest, WDecide, WPop, WTimer, WKeepAlive,
     WRelease
<1>2. CASE WCreate(w)
  <2>1. PICK c \in Conns :
          /\ cst[c] = "new"
          /\ \/ cst' = [cst EXCEPT ![c] = "none"] /\ UNCHANGED connection_count
             \/ /\ cst' = [cst EXCEPT ![c] = "read"]
                /\ connection_count' = connection_count + 1
    BY <1>2 DEF WCreate
  <2>2. UNCHANGED <<lingering_count, suspended_count>>
    BY <1>2 DEF WCreate
  <2>3. Recounts(c, "none") \/ Recounts(c, "read")
    BY <1>0, <2>1, <2>2 DEF Recounts, Bit, OpenStates
  <2> QED
    BY <1>0, <2>3 DEF CountedStep
<1>3. CASE WParkWrite(w)
  <2>1. PICK c \in Conns : Serving(w, c) /\ Parks(c, "wc")
    BY <1>3 DEF WParkWrite
  <2>2. Recounts(c, "wc")
    BY <2>1, ServingAtHand, ParksRecounts
  <2> QED
    BY <1>0, <2>2 DEF CountedStep
<1>4. CASE WPark(w)
  <2>1. PICK c \in Conns : At(w, "park", c) /\ Parks(c, "ka")
    BY <1>4 DEF WPark
  <2>2. Hands[w] = c /\ wat[w] = "park"
    BY <2>1, AtHand
  <2>3. cst[c] \in {"read", "wc"}
    BY <2>2 DEF PlaceInv, PlaceOK, HeldOK, InWork
  <2>4. Recounts(c, "ka")
    BY <2>1, <2>3, ParksRecounts
  <2> QED
    BY <1>0, <2>4 DEF CountedStep
<1>5. CASE WLinger(w)
  <2>1. PICK c \in Conns : Serving(w, c) /\ (Closed(c) \/ Lingers(c))
    BY <1>5 DEF WLinger
  <2>2. Recounts(c, "none") \/ Recounts(c, "lingering")
    BY <2>1, ServingAtHand, ClosedRecounts, LingersRecounts
  <2> QED
    BY <1>0, <2>2 DEF CountedStep
<1>6. CASE WSuspend(w)
  <2>1. PICK c \in Conns : Serving(w, c) /\ cst' = [cst EXCEPT ![c] = "suspended"]
    BY <1>6 DEF WSuspend
  <2>2. /\ suspended_count' = suspended_count + 1
        /\ UNCHANGED <<connection_count, lingering_count>>
    BY <1>6 DEF WSuspend
  <2>3. cst[c] \in {"read", "wc"}
    BY <2>1, ServingAtHand
  <2>4. Recounts(c, "suspended")
    BY <1>0, <2>1, <2>2, <2>3 DEF Recounts, Bit, OpenStates
  <2> QED
    BY <1>0, <2>4 DEF CountedStep
<1> QED
  BY <1>1, <1>2, <1>3, <1>4, <1>5, <1>6 DEF Worker

LEMMA CountStep == PlaceInv /\ CountInv /\ [Next /\ ~overrun']_vars => CountInv'
<1> SUFFICES ASSUME PlaceInv, CountInv, [Next]_vars PROVE CountInv'
  OBVIOUS
<1>1. CountedStep
  <2>1. CASE Main
    BY <2>1 DEF CountedStep, connVars, Main, MWatch, MInfo, MWorkers, MInterrupt,
       MWakeAgain, MExit
  <2>2. CASE UNCHANGED vars
    BY <2>2 DEF CountedStep, vars, connVars
  <2> QED
    BY <2>1, <2>2, ListenerCounts, WorkerCounts DEF Next
<1>2. cst \in [Conns -> ConnStates]
  BY DEF PlaceInv, ConnTypes
<1> QED
  BY <1>1, <1>2, RecountsExact, SameCounts DEF CountedStep

LEMMA CountInit == Init => CountInv
<1> SUFFICES ASSUME Init PROVE CountInv
  OBVIOUS
<1>1. /\ InState(OpenStates) = {} /\ InState({"lingering"}) = {}
      /\ InState({"suspended"}) = {}
  BY DEF Init, InState, OpenStates
<1> QED
  BY <1>1, FS_EmptySet DEF Init, CountInv

LEMMA CountAlways == ChildSpec => []CountInv
BY CountInit, CountStep, PlaceAlways, PTL DEF ChildSpec

(* connection_count, lingering_count and suspended_count are the numbers of open,
   lingering and suspended connections at every moment: the atomic increments and
   decrements of process_socket, decrement_connection_count, notify_suspend and
   start_lingering_close_common never miss one and never count one twice. *)
THEOREM CountsStayExact == ChildSpec => []CountsExact
<1>1. PlaceInv /\ CountInv => CountsExact
  <2> SUFFICES ASSUME PlaceInv, CountInv PROVE CountsExact
    OBVIOUS
  <2>1. cst \in [Conns -> ConnStates]
    BY DEF PlaceInv, ConnTypes
  <2>2. InState(OpenStates) = {c \in Conns : cst[c] \notin {"none", "new"}}
    BY <2>1 DEF InState, OpenStates, ConnStates
  <2>3. /\ InState({"lingering"}) = {c \in Conns : cst[c] = "lingering"}
        /\ InState({"suspended"}) = {c \in Conns : cst[c] = "suspended"}
    BY DEF InState
  <2> QED
    BY <2>2, <2>3, Zenon DEF CountInv, CountsExact
<1> QED
  BY <1>1, PlaceAlways, CountAlways, PTL

-----------------------------------------------------------------------------
(* The types.  What PlaceInv and CountInv do not type already is typed by three
   groups, each of which only a few actions change. *)

FlagTypes == {accepting, dying, busy, disabled, listener_may_exit, workers_may_exit}
                 \subseteq BOOLEAN

ExitTypes ==
    /\ threads_shutdown \in 0 .. bounds
    /\ chk \in [Workers -> {"test", "decide", "go"}]
    /\ snap \in [Workers -> Nat]

RestTypes ==
    /\ conns_this_child \in Int
    /\ terminate_mode \in {"init", "graceful", "ungraceful"}
    /\ armed \subseteq Timers
    /\ mat \in {"watch", "info", "workers", "interrupt", "join", "exited"}
    /\ mmode \in {"init", "graceful", "ungraceful"}
    /\ tries \in 0 .. JoinTries

\* A worker at a timer's callback holds that timer.
TimerJobs == \A w \in Workers : wpc[w] = "timer" => job[w] \in Timers

TypeInv ==
    /\ PlaceInv /\ CountInv
    /\ FlagTypes /\ ExitTypes /\ RestTypes /\ TimerJobs

LEMMA TimerJobsStep ==
    ASSUME FdTypeOK, TimerJobs, [FdNext]_fdvars PROVE TimerJobs'
<1>1. ASSUME NEW w \in Workers,
             SetIdle(w) \/ SignalListener(w) \/ CheckTerm(w)
             \/ FinishSocket(w) \/ FinishTimer(w) \/ Exit(w)
      PROVE  TimerJobs'
  BY <1>1 DEF SetIdle, SignalListener, CheckTerm, FinishSocket, FinishTimer, Exit,
     TimerJobs, FdTypeOK
<1>2. ASSUME NEW w \in Workers, Pop(w) \/ WakeUp(w) PROVE TimerJobs'
  <2>1. timers # <<>> => Head(timers) \in Timers
    BY DEF FdTypeOK
  <2>2. CASE Take(w)
    BY <2>1, <2>2 DEF Take, TimerJobs, FdTypeOK
  <2>3. CASE ~Take(w)
    BY <1>2, <2>3 DEF Pop, WakeUp, TimerJobs, FdTypeOK
  <2> QED
    BY <2>2, <2>3
<1>3. ASSUME job' = job, \/ wpc' = wpc \/ wpc' \in SignalNotEmpty(wpc)
                         \/ wpc' = BroadcastNotEmpty(wpc)
      PROVE  TimerJobs'
  <2>1. CASE wpc' \in SignalNotEmpty(wpc)
    <3>1. \/ wpc' = wpc
          \/ \E w \in Workers : /\ wpc[w] = "waiting"
                                /\ wpc' = [wpc EXCEPT ![w] = "woken"]
      BY <2>1, SignalCases DEF FdTypeOK
    <3> QED
      BY <1>3, <3>1 DEF TimerJobs, FdTypeOK
  <2>2. CASE wpc' = BroadcastNotEmpty(wpc)
    BY <1>3, <2>2 DEF TimerJobs, FdTypeOK, BroadcastNotEmpty
  <2> QED
    BY <1>3, <2>1, <2>2 DEF TimerJobs
<1>4. CASE \/ TryGetIdler \/ BackOut \/ WaitForIdler \/ Recheck \/ InfoTerm
           \/ QueueTerm \/ QueueTermBroadcast \/ InterruptOne \/ InterruptAll
           \/ (\E c \in Conns : Push(c)) \/ (\E t \in Timers : PushTimer(t))
           \/ UNCHANGED fdvars
  BY <1>3, <1>4 DEF TryGetIdler, BackOut, WaitForIdler, Recheck, InfoTerm, QueueTerm,
     QueueTermBroadcast, InterruptOne, InterruptAll, Push, PushTimer, fdvars
<1> QED
  BY <1>1, <1>2, <1>4, Zenon DEF FdNext, Running, Shutdown, ListenerStep, WorkerStep

LEMMA BooleanOr == \A a, b : (a \/ b) \in BOOLEAN /\ (a /\ b) \in BOOLEAN /\ (~a) \in BOOLEAN
OBVIOUS

LEMMA ListenerFlags ==
    ASSUME FlagTypes, Listener PROVE FlagTypes'
<1>1. ASSUME NEW p, LeaveOr(p) PROVE {accepting', dying'} \subseteq BOOLEAN
  BY <1>1 DEF LeaveOr, FlagTypes
<1>2. SignalGraceful => {listener_may_exit', workers_may_exit'} \subseteq BOOLEAN
  BY DEF SignalGraceful, FlagTypes, flagVars
<1>3. CASE LTop
  BY <1>1, <1>3 DEF LTop, FlagTypes, flagVars
<1>4. CASE LQuota
  BY <1>2, <1>4 DEF LQuota, FlagTypes, gateVars
<1>5. CASE LPoll
  BY <1>1, <1>2, <1>5 DEF LPoll, FlagTypes, flagVars
<1>6. CASE LCheck
  BY <1>1, <1>6 DEF LCheck, FlagTypes, flagVars
<1>7. CASE LGetWorker
  <2>1. busy' \in BOOLEAN
    BY <1>7, BooleanOr, Zenon DEF LGetWorker
  <2> QED
    BY <1>7, <2>1 DEF LGetWorker, FlagTypes, flagVars, gateVars
<1>8. CASE LAccept
  BY <1>2, <1>8 DEF LAccept, FlagTypes, flagVars
<1>9. CASE LLoopEnd
  <2>1. accepting' \in BOOLEAN /\ disabled' \in BOOLEAN
    <3>1. accepting \in BOOLEAN /\ disabled \in BOOLEAN
      BY DEF FlagTypes
    <3> QED
      BY <1>9, <3>1, BooleanOr, Zenon DEF LLoopEnd
  <2> QED
    BY <1>9, <2>1 DEF LLoopEnd, FlagTypes, flagVars
<1>10. ASSUME NEW l \in Listeners, LRefuse(l) PROVE FlagTypes'
  BY <1>10 DEF LRefuse, FlagTypes, flagVars
<1>11. ASSUME NEW l \in Listeners, LAcceptReady(l) PROVE FlagTypes'
  <2>1. accepting' \in BOOLEAN
    BY <1>11, BooleanOr, Zenon DEF LAcceptReady
  <2> QED
    BY <1>11, <2>1 DEF LAcceptReady, FlagTypes, flagVars
<1>12. CASE \/ LTimersDone \/ LDispatch \/ LLeave
            \/ \E t \in Timers : LPushTimer(t)
            \/ \E c \in Conns : LReady(c) \/ LLinger(c) \/ LExpire(c)
            \/ \E q \in QueueNames \ {"no"}, E \in SUBSET Conns : LTimeoutPass(q, E)
  <2>1. UNCHANGED <<flagVars, gateVars, busy>>
    BY <1>12 DEF LTimersDone, LDispatch, LLeave, LPushTimer, LReady, LLinger, LExpire,
       LTimeoutPass, loopVars
  <2> QED
    BY <2>1 DEF FlagTypes, flagVars, gateVars
<1> QED
  BY <1>3, <1>4, <1>5, <1>6, <1>7, <1>8, <1>9, <1>10, <1>11, <1>12, Zenon DEF Listener

LEMMA FlagStep == ASSUME FlagTypes, [Next]_vars PROVE FlagTypes'
<1>1. CASE Main
  BY <1>1 DEF Main, MWatch, MInfo, MWorkers, MInterrupt, MWakeAgain, MExit, FlagTypes,
     flagVars, gateVars, loopVars
<1>2. CASE \E w \in Workers : Worker(w)
  BY <1>2 DEF Worker, WStart, WTest, WDecide, WPop, WTimer, WCreate, WParkWrite,
     WKeepAlive, WPark, WLinger, WSuspend, WRelease, FlagTypes, flagVars, gateVars,
     loopVars
<1>3. CASE UNCHANGED vars
  BY <1>3 DEF FlagTypes, vars, flagVars, gateVars, loopVars
<1> QED
  BY <1>1, <1>2, <1>3, ListenerFlags DEF Next

(* worker_thread_should_exit_early: threads_shutdown never exceeds
   threads_per_child, since the connection_count it is compared with is never
   negative. *)
LEMMA ExitStep ==
    ASSUME CountInv, ExitTypes, [Next]_vars PROVE ExitTypes'
<1>1. bounds \in Nat /\ connection_count \in Nat
  BY WorkersAssumption, FS_CardinalityType, CountTypes DEF bounds
<1>2. CASE Listener \/ Main \/ UNCHANGED vars
  <2>1. UNCHANGED exitVars
    BY <1>2 DEF Listener, LTop, LQuota, LPoll, LCheck, LTimersDone, LGetWorker,
       LDispatch, LAccept, LLoopEnd, LLeave, LPushTimer, LReady, LLinger, LExpire,
       LRefuse, LAcceptReady, LTimeoutPass, Main, MWatch, MInfo, MWorkers, MInterrupt,
       MWakeAgain, MExit, vars
  <2> QED
    BY <2>1 DEF ExitTypes, exitVars
<1>3. ASSUME NEW w \in Workers, Worker(w) PROVE ExitTypes'
  <2>1. CASE WTest(w)
    BY <1>1, <2>1 DEF WTest, ExitTypes
  <2>2. CASE WDecide(w)
    <3>1. /\ chk' \in [Workers -> {"test", "decide", "go"}]
          /\ snap' \in [Workers -> Nat]
      BY <2>2 DEF WDecide, ExitTypes
    <3>2. snap[w] \in Nat /\ threads_shutdown \in 0 .. bounds
      BY DEF ExitTypes
    <3>3. \/ threads_shutdown' = threads_shutdown
          \/ snap[w] < bounds - threads_shutdown /\ threads_shutdown' = threads_shutdown + 1
      BY <1>1, <2>2, <3>2 DEF WDecide
    <3>4. threads_shutdown' \in 0 .. bounds
      BY <1>1, <3>2, <3>3
    <3> QED
      BY <3>1, <3>4 DEF ExitTypes
  <2>3. CASE WPop(w)
    BY <2>3 DEF WPop, ExitTypes
  <2>4. CASE \/ WStart(w) \/ WTimer(w) \/ WCreate(w) \/ WParkWrite(w) \/ WKeepAlive(w)
             \/ WPark(w) \/ WLinger(w) \/ WSuspend(w) \/ WRelease(w)
    <3>1. UNCHANGED exitVars
      BY <2>4 DEF WStart, WTimer, WCreate, WParkWrite, WKeepAlive, WPark, WLinger,
         WSuspend, WRelease
    <3> QED
      BY <3>1 DEF ExitTypes, exitVars
  <2> QED
    BY <1>3, <2>1, <2>2, <2>3, <2>4 DEF Worker
<1> QED
  BY <1>2, <1>3 DEF Next

LEMMA RestStep == ASSUME RestTypes, TimerJobs, [Next]_vars PROVE RestTypes'
<1>1. CASE Listener
  <2>1. UNCHANGED mainVars /\ (armed' = armed \/ \E t \in Timers : armed' = armed \ {t})
    BY <1>1 DEF Listener, LTop, LQuota, LPoll, LCheck, LTimersDone, LGetWorker,
       LDispatch, LAccept, LLoopEnd, LLeave, LPushTimer, LReady, LLinger, LExpire,
       LRefuse, LAcceptReady, LTimeoutPass
  <2>2. SignalGraceful => terminate_mode' \in {"init", "graceful", "ungraceful"}
    BY DEF SignalGraceful, RestTypes, flagVars
  <2>3. terminate_mode' \in {"init", "graceful", "ungraceful"}
    <3>1. CASE LQuota \/ LPoll \/ LAccept
      BY <2>2, <3>1 DEF LQuota, LPoll, LAccept, RestTypes, flagVars
    <3>2. CASE ~(LQuota \/ LPoll \/ LAccept)
      <4>1. UNCHANGED flagVars
        BY <1>1, <3>2 DEF Listener, LTop, LCheck, LTimersDone, LGetWorker, LDispatch,
           LLoopEnd, LLeave, LPushTimer, LReady, LLinger, LExpire, LRefuse,
           LAcceptReady, LTimeoutPass
      <4> QED
        BY <4>1 DEF RestTypes, flagVars
    <3> QED
      BY <3>1, <3>2
  <2>4. conns_this_child' \in {conns_this_child, conns_this_child - 1}
    <3>1. CASE LAccept
      BY <3>1 DEF LAccept
    <3>2. CASE ~LAccept
      BY <1>1, <3>2 DEF Listener, LTop, LQuota, LPoll, LCheck, LTimersDone, LGetWorker,
         LDispatch, LLoopEnd, LLeave, LPushTimer, LReady, LLinger, LExpire, LRefuse,
         LAcceptReady, LTimeoutPass, gateVars
    <3> QED
      BY <3>1, <3>2
  <2> QED
    BY <2>1, <2>3, <2>4 DEF RestTypes, mainVars
<1>2. CASE Main
  <2>1. JoinTries \in Nat
    BY ChildAssumption
  <2> QED
    BY <1>2, <2>1 DEF Main, MWatch, MInfo, MWorkers, MInterrupt, MWakeAgain, MExit,
       RestTypes, flagVars, gateVars
<1>3. ASSUME NEW w \in Workers, Worker(w) PROVE RestTypes'
  <2>1. UNCHANGED <<flagVars, gateVars, mainVars>>
    BY <1>3 DEF Worker, WStart, WTest, WDecide, WPop, WTimer, WCreate, WParkWrite,
       WKeepAlive, WPark, WLinger, WSuspend, WRelease
  <2>2. armed' = armed \/ \E t \in Timers : armed' = armed \cup {t}
    BY <1>3 DEF Worker, WStart, WTest, WDecide, WPop, WTimer, WCreate, WParkWrite,
       WKeepAlive, WPark, WLinger, WSuspend, WRelease, FinishTimer, TimerJobs
  <2> QED
    BY <2>1, <2>2 DEF RestTypes, flagVars, gateVars, mainVars
<1>4. CASE UNCHANGED vars
  BY <1>4 DEF RestTypes, vars, flagVars, gateVars, mainVars
<1> QED
  BY <1>1, <1>2, <1>3, <1>4 DEF Next

LEMMA TypeAlways == ChildSpec => []TypeInv
<1>1. Init => FlagTypes /\ ExitTypes /\ RestTypes /\ TimerJobs
  <2>1. bounds \in Nat /\ JoinTries \in Nat /\ MaxConnections \in Nat
    BY WorkersAssumption, ChildAssumption, FS_CardinalityType DEF bounds
  <2>2. Init => ExitTypes
    BY <2>1 DEF Init, ExitTypes
  <2>3. Init => RestTypes
    BY <2>1 DEF Init, RestTypes
  <2> QED
    BY <2>2, <2>3 DEF Init, FdInit, FlagTypes, TimerJobs
<1>2. TypeInv /\ [Next /\ ~overrun']_vars => TypeInv'
  BY PlaceStep, CountStep, FlagStep, ExitStep, RestStep, TimerJobsStep, ChildStepFd
  DEF TypeInv, PlaceInv, RInv
<1>3. Init => TypeInv
  BY <1>1, PlaceInit, CountInit DEF TypeInv
<1> QED
  BY <1>2, <1>3, PTL DEF ChildSpec

(* The variables of a child keep their types: in particular connection_count,
   lingering_count and suspended_count, unsigned in the code, never go below
   zero, and no more than threads_per_child workers leave early. *)
THEOREM ChildTypeOK == ChildSpec => []TypeOK
<1>1. TypeInv => TypeOK
  <2> SUFFICES ASSUME TypeInv PROVE TypeOK
    OBVIOUS
  <2>1. FdTypeOK
    BY DEF TypeInv, PlaceInv, RInv
  <2>2. pollset \subseteq Conns /\ lcur \in Conns \cup Listeners \cup {NoConn}
    BY DEF TypeInv, PlaceInv, LoopInv, ConnTypes
  <2>3. {connection_count, lingering_count, suspended_count} \subseteq Nat
    BY CountTypes DEF TypeInv
  <2> QED
    BY <2>1, <2>2, <2>3
    DEF TypeInv, PlaceInv, ConnTypes, FlagTypes, ExitTypes, RestTypes, TypeOK
<1> QED
  BY <1>1, TypeAlways, PTL

-----------------------------------------------------------------------------
(* MaxConnectionsPerChild.  check_infinite_requests looks at conns_this_child at
   the top of the loop only, so each batch may be accepted whole; but a listener
   that has seen the limit reached polls no listening socket again before it has
   noticed listener_may_exit, and then it accepts nothing. *)

\* How many more connections the listening sockets in hand may bring
Ready == Cardinality(batch \cap Listeners)

QuotaInv ==
    /\ terminate_mode # "init" \/ lat = "check" => listener_may_exit
    /\ MaxConnections = 0 => conns_this_child = 0
    /\ MaxConnections > 0 =>
         /\ conns_this_child > -Cardinality(Listeners)
         /\ ~dying /\ lat = "poll" => conns_this_child > 0 \/ listener_may_exit
         /\ ~dying /\ lat \in {"timers", "batch", "get"} =>
                conns_this_child > Ready - Cardinality(Listeners)

LEMMA ReadyTypes ==
    /\ IsFiniteSet(batch \cap Listeners) /\ Ready \in Nat
    /\ Cardinality(Listeners) \in Nat /\ Cardinality(Listeners) >= 1
    /\ Ready <= Cardinality(Listeners)
<1>1. IsFiniteSet(Listeners) /\ Listeners # {}
  BY ChildAssumption
<1>2. Cardinality(Listeners) \in Nat /\ Cardinality(Listeners) # 0
  BY <1>1, FS_CardinalityType, FS_EmptySet
<1>3. batch \cap Listeners \subseteq Listeners
  OBVIOUS
<1> QED
  BY <1>1, <1>2, <1>3, FS_Subset, FS_CardinalityType DEF Ready

\* Fewer events in hand leave less to accept.
LEMMA ReadyShrinks ==
    ASSUME NEW x, batch' = batch \ {x}
    PROVE  /\ Ready' <= Ready
           /\ x \in batch \cap Listeners => Ready' = Ready - 1
<1>1. IsFiniteSet(batch \cap Listeners) /\ Ready \in Nat
  BY ReadyTypes
<1>2. batch' \cap Listeners = (batch \cap Listeners) \ {x}
  OBVIOUS
<1>3. CASE x \in batch \cap Listeners
  <2>1. Cardinality((batch \cap Listeners) \ {x}) = Cardinality(batch \cap Listeners) - 1
    BY <1>1, <1>3, FS_RemoveElement
  <2> QED
    BY <1>1, <1>2, <2>1 DEF Ready
<1>4. CASE x \notin batch \cap Listeners
  <2>1. batch' \cap Listeners = batch \cap Listeners
    BY <1>2, <1>4
  <2>2. Ready' = Ready
    BY <2>1, Zenon DEF Ready
  <2> QED
    BY <1>1, <1>4, <2>2
<1> QED
  BY <1>3, <1>4

\* A step that accepts nothing and polls nothing
LEMMA QuotaFrame ==
    ASSUME QuotaInv, UNCHANGED <<conns_this_child, dying>>,
           listener_may_exit => listener_may_exit',
           terminate_mode' # "init" => listener_may_exit',
           lat' # "check",
           lat' = "poll" => lat = "poll",
           lat' \in {"timers", "batch", "get"} => lat \in {"timers", "batch", "get"},
           batch' = batch \/ \E x : batch' = batch \ {x},
           conns_this_child \in Int
    PROVE  QuotaInv'
<1>1. Ready \in Nat /\ Cardinality(Listeners) \in Nat /\ Ready' \in Nat
  <2>1. Ready' \in Nat
    <3>1. IsFiniteSet(Listeners) /\ batch' \cap Listeners \subseteq Listeners
      BY ChildAssumption
    <3> QED
      BY <3>1, FS_Subset, FS_CardinalityType DEF Ready
  <2> QED
    BY <2>1, ReadyTypes
<1>2. Ready' <= Ready
  <2>1. CASE batch' = batch
    <3>1. Ready' = Ready
      BY <2>1, Zenon DEF Ready
    <3> QED
      BY <1>1, <3>1
  <2> QED
    BY <2>1, ReadyShrinks
<1> QED
  BY <1>1, <1>2 DEF QuotaInv

\* signal_threads leaves listener_may_exit set.
LEMMA SignalSets ==
    ASSUME QuotaInv, SignalGraceful PROVE listener_may_exit'
BY DEF SignalGraceful, QuotaInv, flagVars

(* Past the two tests of listener_may_exit: the child is dying, or the listener
   goes on at p. *)
LEMMA LeaveOrExits ==
    ASSUME NEW p, LeaveOr(p)
    PROVE  \/ dying' /\ lat' \in {"leave", p}
           \/ ~listener_may_exit /\ lat' = p /\ dying' = dying
BY DEF LeaveOr

LEMMA QuotaTests ==
    ASSUME TypeInv, QuotaInv, LTop \/ LQuota \/ LPoll \/ LCheck PROVE QuotaInv'
<1>0. /\ Ready \in Nat /\ Cardinality(Listeners) \in Nat /\ Cardinality(Listeners) >= 1
      /\ conns_this_child \in Int /\ MaxConnections \in Nat
  BY ReadyTypes, ChildAssumption DEF TypeInv, RestTypes
<1>1. conns_this_child' = conns_this_child
  BY DEF LTop, LQuota, LPoll, LCheck, gateVars
<1>2. CASE LTop
  <2>1. UNCHANGED <<terminate_mode, listener_may_exit>>
    BY <1>2 DEF LTop, flagVars
  <2>2. \/ dying' /\ lat' \in {"leave", "quota", "poll"}
        \/ lat' = "quota"
        \/ lat' = "poll" /\ ~QuotaSpent
    BY <1>2, LeaveOrExits DEF LTop
  <2> QED
    BY <1>0, <1>1, <2>1, <2>2 DEF QuotaInv, QuotaSpent
<1>3. CASE LQuota
  <2>1. listener_may_exit' /\ lat' = "poll"
    BY <1>3, SignalSets DEF LQuota
  <2> QED
    BY <1>0, <1>1, <2>1 DEF QuotaInv
<1>4. CASE LCheck
  <2>1. UNCHANGED <<terminate_mode, listener_may_exit>> /\ lat = "check"
    BY <1>4 DEF LCheck, flagVars
  <2>2. dying' /\ lat' # "check"
    BY <1>4, <2>1 DEF LCheck, LeaveOr, QuotaInv
  <2> QED
    BY <1>0, <1>1, <2>1, <2>2 DEF QuotaInv
<1>5. CASE LPoll
  <2>1. CASE \E ready \in SUBSET (pollset \cup IF accepting THEN Listeners ELSE {}) :
               /\ LeaveOr(IF armed = {} THEN "batch" ELSE "timers")
               /\ UNCHANGED flagVars
    <3>1. UNCHANGED <<terminate_mode, listener_may_exit>> /\ lat = "poll"
      BY <1>5, <2>1 DEF LPoll, flagVars
    <3>2. /\ lat' \in {"leave", "batch", "timers"}
          /\ dying' \/ (~listener_may_exit /\ dying' = dying)
      BY <2>1, LeaveOrExits
    <3>3. Ready' \in Nat /\ Ready' <= Cardinality(Listeners)
      <4>1. IsFiniteSet(Listeners) /\ batch' \cap Listeners \subseteq Listeners
        BY ChildAssumption
      <4> QED
        BY <4>1, FS_Subset, FS_CardinalityType DEF Ready
    <3> QED
      BY <1>0, <1>1, <3>1, <3>2, <3>3 DEF QuotaInv
  <2>2. CASE lat' = "top" /\ UNCHANGED flagVars
    BY <1>0, <1>1, <2>2 DEF QuotaInv, flagVars
  <2>3. CASE lat' = "check" /\ SignalGraceful
    <3>1. listener_may_exit'
      BY <2>3, SignalSets
    <3> QED
      BY <1>0, <1>1, <2>3, <3>1 DEF QuotaInv
  <2> QED
    BY <1>5, <2>1, <2>2, <2>3 DEF LPoll
<1> QED
  BY <1>2, <1>3, <1>4, <1>5

\* One of the ready listening sockets brings a connection, or fails to.
LEMMA QuotaAccept ==
    ASSUME TypeInv, QuotaInv, LAccept PROVE QuotaInv'
<1>0. /\ Ready \in Nat /\ Cardinality(Listeners) \in Nat /\ Cardinality(Listeners) >= 1
      /\ conns_this_child \in Int /\ MaxConnections \in Nat
  BY ReadyTypes, ChildAssumption DEF TypeInv, RestTypes
<1>1. lat = "get" /\ lcur \in batch \cap Listeners
  BY DEF LAccept, TypeInv, PlaceInv, LoopInv
<1>2. lat' = "batch" /\ batch' = batch \ {lcur} /\ dying' = dying
  BY DEF LAccept
<1>3. Ready' = Ready - 1
  BY <1>1, <1>2, ReadyShrinks
<1>4. Ready >= 1
  <2>1. IsFiniteSet(batch \cap Listeners) /\ batch \cap Listeners # {}
    BY <1>1, ReadyTypes
  <2>2. Ready # 0
    BY <2>1, FS_EmptySet DEF Ready
  <2> QED
    BY <1>0, <2>2
<1>5. terminate_mode' # "init" => listener_may_exit'
  BY SignalSets DEF LAccept, QuotaInv, flagVars
<1>6. \/ conns_this_child' = conns_this_child
      \/ /\ ~dying
         /\ conns_this_child' =
              IF MaxConnections > 0 THEN conns_this_child - 1 ELSE conns_this_child
  BY DEF LAccept
<1> QED
  BY <1>0, <1>1, <1>2, <1>3, <1>4, <1>5, <1>6 DEF QuotaInv

LEMMA QuotaRest ==
    ASSUME TypeInv, QuotaInv,
           \/ LTimersDone \/ LGetWorker \/ LDispatch \/ LLoopEnd \/ LLeave
           \/ \E t \in Timers : LPushTimer(t)
           \/ \E c \in Conns : LReady(c) \/ LLinger(c) \/ LExpire(c)
           \/ \E l \in Listeners : LRefuse(l) \/ LAcceptReady(l)
           \/ \E q \in QueueNames \ {"no"}, E \in SUBSET Conns : LTimeoutPass(q, E)
    PROVE  QuotaInv'
<1>1. UNCHANGED <<flagVars, conns_this_child, dying>>
  BY DEF LTimersDone, LGetWorker, LDispatch, LLoopEnd, LLeave, LPushTimer, LReady,
     LLinger, LExpire, LRefuse, LAcceptReady, LTimeoutPass, gateVars
<1>2. conns_this_child \in Int
  BY DEF TypeInv, RestTypes
<1>3. CASE \/ LTimersDone \/ LGetWorker \/ LDispatch
           \/ \E t \in Timers : LPushTimer(t)
           \/ \E c \in Conns : LReady(c) \/ LLinger(c)
           \/ \E l \in Listeners : LRefuse(l) \/ LAcceptReady(l)
  <2>1. /\ lat \in {"timers", "batch", "get"} /\ lat' \in {"timers", "batch", "get"}
        /\ batch' = batch \/ \E x : batch' = batch \ {x}
    BY <1>3 DEF LTimersDone, LGetWorker, LDispatch, LPushTimer, LReady, LLinger,
       LRefuse, LAcceptReady, loopVars
  <2> QED
    BY <1>1, <1>2, <2>1, QuotaFrame DEF flagVars, QuotaInv
<1>4. CASE \/ LLoopEnd \/ LLeave
           \/ \E c \in Conns : LExpire(c)
           \/ \E q \in QueueNames \ {"no"}, E \in SUBSET Conns : LTimeoutPass(q, E)
  <2>1. lat' \notin {"check", "poll", "timers", "batch", "get"}
    BY <1>4 DEF LLoopEnd, LLeave, LExpire, LTimeoutPass, Sweep, Sweeps, QueueNames
  <2> QED
    BY <1>1, <1>2, <2>1 DEF flagVars, QuotaInv
<1> QED
  BY <1>3, <1>4

LEMMA QuotaStep == ASSUME TypeInv, QuotaInv, [Next]_vars PROVE QuotaInv'
<1>1. CASE Listener
  BY <1>1, QuotaTests, QuotaAccept, QuotaRest, Zenon DEF Listener
<1>2. CASE Main \/ (\E w \in Workers : Worker(w)) \/ UNCHANGED vars
  <2>1. UNCHANGED <<gateVars, loopVars>>
    BY <1>2 DEF Main, MWatch, MInfo, MWorkers, MInterrupt, MWakeAgain, MExit,
       Worker, WStart, WTest, WDecide, WPop, WTimer, WCreate, WParkWrite, WKeepAlive,
       WPark, WLinger, WSuspend, WRelease, vars
  <2>2. /\ listener_may_exit => listener_may_exit'
        /\ terminate_mode' # "init" => listener_may_exit'
    <3>1. CASE Main
      BY <3>1 DEF Main, MWatch, MInfo, MWorkers, MInterrupt, MWakeAgain, MExit,
         QuotaInv, flagVars
    <3>2. CASE UNCHANGED flagVars
      BY <3>2 DEF QuotaInv, flagVars
    <3>3. CASE \E w \in Workers : Worker(w)
      BY <3>2, <3>3 DEF Worker, WStart, WTest, WDecide, WPop, WTimer, WCreate,
         WParkWrite, WKeepAlive, WPark, WLinger, WSuspend, WRelease
    <3> QED
      BY <1>2, <3>1, <3>2, <3>3 DEF vars
  <2>3. Ready' = Ready
    BY <2>1, Zenon DEF Ready, loopVars
  <2> QED
    BY <2>1, <2>2, <2>3 DEF QuotaInv, gateVars, loopVars
<1> QED
  BY <1>1, <1>2 DEF Next

(* A child accepts fewer connections beyond MaxConnectionsPerChild than it has
   listening sockets, whatever the listener is doing when the limit is reached and
   whatever the main thread does meanwhile (check_infinite_requests). *)
THEOREM QuotaBounded == ChildSpec => []QuotaOvershoot
<1>1. Init => QuotaInv
  <2>1. MaxConnections \in Nat /\ Cardinality(Listeners) \in Nat
    BY ReadyTypes, ChildAssumption
  <2> QED
    BY <2>1 DEF Init, QuotaInv
<1>2. TypeInv /\ QuotaInv => QuotaOvershoot
  <2>1. MaxConnections \in Nat /\ Cardinality(Listeners) \in Nat
        /\ Cardinality(Listeners) >= 1
    BY ReadyTypes, ChildAssumption
  <2> QED
    BY <2>1 DEF QuotaInv, QuotaOvershoot
<1> QED
  BY <1>1, <1>2, QuotaStep, TypeAlways, PTL DEF ChildSpec

=============================================================================

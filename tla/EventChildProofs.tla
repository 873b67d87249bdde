-------------------------- MODULE EventChildProofs --------------------------
(***************************************************************************)
(* Theorems about EventChild, for every number of workers, connections,    *)
(* timers and listening sockets.                                           *)
(***************************************************************************)
EXTENDS EventChild, FdQueueProofs

-----------------------------------------------------------------------------
\* The helpers that act on the worker queue do one step of FdQueue or none.
LEMMA LeaveOrFd == ASSUME NEW p, LeaveOr(p) PROVE [FdNext]_fdvars
BY DEF LeaveOr, FdNext, Shutdown

LEMMA SignalGracefulFd == SignalGraceful => [FdNext]_fdvars
BY DEF SignalGraceful, FdNext, Shutdown

LEMMA InterruptIfDyingFd == InterruptIfDying => [FdNext]_fdvars
BY DEF InterruptIfDying, FdNext, Shutdown

LEMMA LingerNonblockingFd ==
    ASSUME NEW c, LingerNonblocking(c) PROVE [FdNext]_fdvars
BY InterruptIfDyingFd DEF LingerNonblocking

\* Each step of the listener does one step of FdQueue or none.
LEMMA ListenerFd == Listener => [FdNext]_fdvars
<1> SUFFICES ASSUME Listener PROVE [FdNext]_fdvars
  OBVIOUS
<1>1. CASE LTop
  BY <1>1, LeaveOrFd DEF LTop
<1>2. CASE LQuota
  BY <1>2, SignalGracefulFd DEF LQuota
<1>3. CASE LPoll
  BY <1>3, LeaveOrFd, SignalGracefulFd DEF LPoll
<1>4. CASE LCheck
  BY <1>4, LeaveOrFd DEF LCheck
<1>5. CASE LTimersDone
  BY <1>5 DEF LTimersDone
<1>6. CASE LGetWorker
  BY <1>6 DEF LGetWorker, FdNext, Running, ListenerStep
<1>7. CASE LDispatch
  BY <1>7, LingerNonblockingFd DEF LDispatch, FdNext, Running, ListenerStep
<1>8. CASE LAccept
  BY <1>8, SignalGracefulFd DEF LAccept, FdNext, Running, ListenerStep
<1>9. CASE LLoopEnd
  BY <1>9 DEF LLoopEnd
<1>10. CASE LLeave
  BY <1>10 DEF LLeave, FdNext, Shutdown
<1>11. ASSUME NEW t \in Timers, LPushTimer(t) PROVE [FdNext]_fdvars
  BY <1>11 DEF LPushTimer, FdNext, Running, ListenerStep
<1>12. ASSUME NEW c \in Conns, LReady(c) PROVE [FdNext]_fdvars
  BY <1>12 DEF LReady, FdNext, Running, ListenerStep
<1>13. ASSUME NEW c \in Conns, LLinger(c) PROVE [FdNext]_fdvars
  BY <1>13, InterruptIfDyingFd DEF LLinger
<1>14. ASSUME NEW c \in Conns, LExpire(c) PROVE [FdNext]_fdvars
  BY <1>14, InterruptIfDyingFd, LingerNonblockingFd DEF LExpire
<1>15. ASSUME NEW l \in Listeners, LRefuse(l) PROVE [FdNext]_fdvars
  BY <1>15 DEF LRefuse
<1>16. ASSUME NEW l \in Listeners, LAcceptReady(l) PROVE [FdNext]_fdvars
  BY <1>16 DEF LAcceptReady, FdNext, Running, ListenerStep
<1>17. ASSUME NEW q, NEW E, LTimeoutPass(q, E) PROVE [FdNext]_fdvars
  BY <1>17 DEF LTimeoutPass
<1> QED BY <1>1, <1>2, <1>3, <1>4, <1>5, <1>6, <1>7, <1>8, <1>9, <1>10, <1>11,
           <1>12, <1>13, <1>14, <1>15, <1>16, <1>17 DEF Listener

\* Each step of a worker does one step of FdQueue or none.
LEMMA WorkerFd == ASSUME NEW w \in Workers, Worker(w) PROVE [FdNext]_fdvars
<1>1. CASE WStart(w)
  BY <1>1 DEF WStart, FdNext, Running, WorkerStep, Shutdown
<1>2. CASE WTest(w)
  BY <1>2 DEF WTest, FdNext, Shutdown
<1>3. CASE WDecide(w)
  BY <1>3 DEF WDecide, FdNext, Shutdown
<1>4. CASE WPop(w)
  BY <1>4 DEF WPop, FdNext, Running, WorkerStep
<1>5. CASE WTimer(w)
  BY <1>5 DEF WTimer, FdNext, Running, WorkerStep
<1>6. CASE WRelease(w)
  BY <1>6 DEF WRelease, FdNext, Running, WorkerStep
<1>7. CASE WCreate(w) \/ WParkWrite(w) \/ WKeepAlive(w) \/ WPark(w) \/ WLinger(w)
             \/ WSuspend(w)
  BY <1>7 DEF WCreate, WParkWrite, WKeepAlive, WPark, WLinger, WSuspend
<1> QED BY <1>1, <1>2, <1>3, <1>4, <1>5, <1>6, <1>7 DEF Worker

\* Each step of the main thread does one step of FdQueue or none.
LEMMA MainFd == Main => [FdNext]_fdvars
<1> SUFFICES ASSUME Main PROVE [FdNext]_fdvars
  OBVIOUS
<1>1. ASSUME NEW mode, MWatch(mode) PROVE [FdNext]_fdvars
  BY <1>1 DEF MWatch
<1>2. CASE MInfo \/ MInterrupt \/ MWakeAgain
  BY <1>2 DEF MInfo, MInterrupt, MWakeAgain, FdNext, Shutdown
<1>3. CASE MWorkers \/ MExit
  BY <1>3 DEF MWorkers, MExit
<1> QED BY <1>1, <1>2, <1>3 DEF Main

LEMMA ChildStepFd == [Next]_vars => [FdNext]_fdvars
BY ListenerFd, WorkerFd, MainFd DEF Next, vars

(* The threads of event.c use the worker queue as FdQueue says: whatever is
   proved of FdSpec holds in the whole child. *)
THEOREM ChildUsesQueue == Spec => FdSpec
<1>1. Init => FdInit
  BY DEF Init
<1> QED BY <1>1, ChildStepFd, PTL DEF Spec, FdSpec

(* In a whole child, in every interleaving of its three kinds of threads and
   during every kind of stop: the idle-worker counter is exact, no wake-up of
   the listener is lost, every queued element has a worker awake for it while
   another sleeps, and nobody sleeps once the queue is terminated. *)
THEOREM ChildQueueSafe ==
    Spec => [](Accounting /\ NoLostWakeup /\ SleepersCovered /\ NoSleepAfterTerm)
BY ChildUsesQueue, AccountingHolds, WakeupNotLost, SleepersAreCovered,
   NobodySleepsAfterTerm, PTL

-----------------------------------------------------------------------------
(* The pollset and the timeout queues.  Only their types and the helpers that
   change both matter. *)
SyncInv == toq \in [Conns -> QueueNames] /\ PollsetInSync

LEMMA ClosedSync == ASSUME NEW c \in Conns, SyncInv, Closed(c) PROVE SyncInv'
BY DEF SyncInv, PollsetInSync, Closed, QueueNames

LEMMA LingersSync ==
    ASSUME NEW c \in Conns, SyncInv, ~PollsetFails, Lingers(c) PROVE SyncInv'
BY DEF SyncInv, PollsetInSync, Lingers, QueueNames

LEMMA LingerNonblockingSync ==
    ASSUME NEW c \in Conns, SyncInv, ~PollsetFails, LingerNonblocking(c)
    PROVE  SyncInv'
BY ClosedSync, LingersSync DEF LingerNonblocking

LEMMA ParksSync ==
    ASSUME NEW c \in Conns, NEW q \in {"wc", "ka"}, SyncInv, ~PollsetFails,
           Parks(c, q)
    PROVE  SyncInv'
BY DEF SyncInv, PollsetInSync, Parks, QueueNames

LEMMA SameSync == SyncInv /\ UNCHANGED connVars => SyncInv'
BY DEF SyncInv, PollsetInSync, connVars

LEMMA ListenerSync ==
    ASSUME SyncInv, ~PollsetFails, Listener PROVE SyncInv'
<1>1. CASE LTop \/ LQuota \/ LPoll \/ LCheck \/ LTimersDone \/ LGetWorker
             \/ LLoopEnd \/ LLeave
  BY <1>1, SameSync
     DEF LTop, LQuota, LPoll, LCheck, LTimersDone, LGetWorker, LLoopEnd, LLeave
<1>2. CASE LDispatch
  <2>1. CASE LingerNonblocking(lcur)
    BY <1>2, <2>1, LingerNonblockingSync DEF LDispatch
  <2>2. CASE ~LingerNonblocking(lcur)
    BY <1>2, <2>2 DEF LDispatch, SyncInv, PollsetInSync, QueueNames
  <2> QED BY <2>1, <2>2
<1>3. CASE LAccept
  BY <1>3 DEF LAccept, SyncInv, PollsetInSync
<1>4. ASSUME NEW t \in Timers, LPushTimer(t) PROVE SyncInv'
  BY <1>4, SameSync DEF LPushTimer
<1>5. ASSUME NEW c \in Conns, LReady(c) PROVE SyncInv'
  BY <1>5 DEF LReady, SyncInv, PollsetInSync
<1>6. ASSUME NEW c \in Conns, LLinger(c) PROVE SyncInv'
  BY <1>6, SameSync, ClosedSync DEF LLinger
<1>7. ASSUME NEW c \in Conns, LExpire(c) PROVE SyncInv'
  BY <1>7, ClosedSync, LingerNonblockingSync DEF LExpire
<1>8. ASSUME NEW l \in Listeners, LRefuse(l) \/ LAcceptReady(l) PROVE SyncInv'
  BY <1>8, SameSync DEF LRefuse, LAcceptReady
<1>9. ASSUME NEW q, NEW E, LTimeoutPass(q, E) PROVE SyncInv'
  BY <1>9 DEF LTimeoutPass, SyncInv, PollsetInSync, QueueNames
<1> QED BY <1>1, <1>2, <1>3, <1>4, <1>5, <1>6, <1>7, <1>8, <1>9 DEF Listener

LEMMA WorkerSync ==
    ASSUME SyncInv, ~PollsetFails, NEW w \in Workers, Worker(w) PROVE SyncInv'
<1>1. CASE WStart(w) \/ WTest(w) \/ WDecide(w) \/ WPop(w) \/ WTimer(w)
             \/ WKeepAlive(w) \/ WRelease(w)
  BY <1>1, SameSync
     DEF WStart, WTest, WDecide, WPop, WTimer, WKeepAlive, WRelease
<1>2. CASE WCreate(w) \/ WSuspend(w)
  BY <1>2 DEF WCreate, WSuspend, SyncInv, PollsetInSync
<1>3. CASE WParkWrite(w) \/ WPark(w)
  BY <1>3, ParksSync DEF WParkWrite, WPark
<1>4. CASE WLinger(w)
  BY <1>4, ClosedSync, LingersSync DEF WLinger
<1> QED BY <1>1, <1>2, <1>3, <1>4 DEF Worker

LEMMA MainSync == ASSUME SyncInv, Main PROVE SyncInv'
BY SameSync DEF Main, MWatch, MInfo, MWorkers, MInterrupt, MWakeAgain, MExit

(* As long as apr_pollset_add succeeds, a connection is in the pollset exactly
   while it is in a timeout queue, between any two steps of any threads. *)
THEOREM PollsetStaysInSync ==
    ASSUME ~PollsetFails PROVE Spec => []PollsetInSync
<1>1. Init => SyncInv
  BY DEF Init, SyncInv, PollsetInSync, QueueNames
<1>2. SyncInv /\ [Next]_vars => SyncInv'
  <2>1. SyncInv /\ UNCHANGED vars => SyncInv'
    BY SameSync DEF vars
  <2> QED BY <2>1, ListenerSync, WorkerSync, MainSync DEF Next
<1>3. SyncInv => PollsetInSync
  BY DEF SyncInv
<1> QED BY <1>1, <1>2, <1>3, PTL DEF Spec

-----------------------------------------------------------------------------
(* An ungraceful stop.  Once the main thread has let the workers go, its mode
   is still in force: nobody else sets terminate_mode. *)
ModeInv ==
    /\ lat # "quota"
    /\ mat = "watch" => terminate_mode = "init"
    /\ mat # "watch" => listener_may_exit /\ terminate_mode = mmode
    /\ mat \in {"workers", "interrupt"} \/ workers_may_exit => mmode = "ungraceful"
    /\ workers_may_exit => mat # "watch"

\* process_timeout_queue is not called near the tests of listener_may_exit.
LEMMA PassAway ==
    ASSUME NEW q, NEW E, LTimeoutPass(q, E)
    PROVE  lat \notin {"top", "poll", "check"} /\ lat' # "quota"
BY DEF LTimeoutPass, Turn, Sweep

LEMMA ModeStep ==
    ASSUME ~ResourceErrors, MaxConnections = 0 PROVE ModeInv /\ [Next]_vars => ModeInv'
<1> SUFFICES ASSUME ModeInv, [Next]_vars PROVE ModeInv'
  OBVIOUS
<1>1. CASE Listener
  <2>1. UNCHANGED <<flagVars, mainVars>>
    <3>1. CASE LQuota \/ LPoll \/ LAccept
      BY <3>1 DEF LQuota, LPoll, LAccept, ModeInv
    <3>2. CASE ~(LQuota \/ LPoll \/ LAccept)
      BY <1>1, <3>2 DEF Listener, LTop, LCheck, LTimersDone, LGetWorker, LDispatch,
         LLoopEnd, LLeave, LPushTimer, LReady, LLinger, LExpire, LRefuse,
         LAcceptReady, LTimeoutPass
    <3> QED BY <3>1, <3>2
  <2>2. lat' # "quota"
    <3>1. CASE LTop \/ LPoll \/ LCheck
      BY <3>1 DEF LTop, LPoll, LCheck, LeaveOr, QuotaSpent
    <3>2. CASE ~(LTop \/ LPoll \/ LCheck)
      BY <1>1, <3>2, PassAway DEF Listener, LQuota, LTimersDone, LGetWorker, LDispatch,
         LAccept, LLoopEnd, LLeave, LPushTimer, LReady, LLinger, LExpire, LRefuse,
         LAcceptReady, Sweeps, ModeInv, loopVars
    <3> QED BY <3>1, <3>2
  <2> QED BY <2>1, <2>2 DEF ModeInv, flagVars, mainVars
<1>2. CASE \E w \in Workers : Worker(w)
  <2>1. UNCHANGED <<flagVars, mainVars, lat>>
    BY <1>2 DEF Worker, WStart, WTest, WDecide, WPop, WTimer, WCreate, WParkWrite,
       WKeepAlive, WPark, WLinger, WSuspend, WRelease, loopVars
  <2> QED BY <2>1 DEF ModeInv, flagVars, mainVars
<1>3. CASE Main
  BY <1>3 DEF Main, MWatch, MInfo, MWorkers, MInterrupt, MWakeAgain, MExit, ModeInv,
     flagVars, loopVars
<1>4. CASE UNCHANGED vars
  BY <1>4 DEF ModeInv, vars, flagVars, mainVars, loopVars
<1> QED BY <1>1, <1>2, <1>3, <1>4 DEF Next

(* Without resource shortage and MaxConnectionsPerChild (which make the listener
   call signal_threads itself), an ungraceful stop never waits for connections:
   the listener leaves at its next test of listener_may_exit. *)
THEOREM UngracefulDoesNotWait ==
    ASSUME ~ResourceErrors, MaxConnections = 0 PROVE Spec => UngracefulLeavesAtOnce
<1>1. Init => ModeInv
  BY DEF Init, ModeInv
<1>2. ModeInv /\ [Next]_vars
        => [workers_may_exit /\ lat \in {"top", "poll", "check"}
              => lat' \in {lat, "top", "check", "leave"}]_vars
  <2> SUFFICES ASSUME ModeInv, Next, workers_may_exit, lat \in {"top", "poll", "check"}
               PROVE  lat' \in {lat, "top", "check", "leave"}
    OBVIOUS
  <2>1. listener_may_exit /\ terminate_mode = "ungraceful"
    BY DEF ModeInv
  <2>2. CASE Listener
    BY <2>1, <2>2, PassAway DEF Listener, LTop, LQuota, LPoll, LCheck, LTimersDone, LGetWorker,
       LDispatch, LAccept, LLoopEnd, LLeave, LPushTimer, LReady, LLinger, LExpire,
       LRefuse, LAcceptReady, Sweeps, LeaveOr
  <2>3. CASE Main \/ \E w \in Workers : Worker(w)
    BY <2>3 DEF Main, MWatch, MInfo, MWorkers, MInterrupt, MWakeAgain, MExit,
       Worker, WStart, WTest, WDecide, WPop, WTimer, WCreate, WParkWrite,
       WKeepAlive, WPark, WLinger, WSuspend, WRelease, loopVars
  <2> QED BY <2>2, <2>3 DEF Next
<1> QED BY <1>1, <1>2, ModeStep, PTL DEF Spec, UngracefulLeavesAtOnce
=============================================================================

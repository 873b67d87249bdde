------------------------------ MODULE FdQueue ------------------------------
(***************************************************************************)
(* The hand-off between the listener thread and the worker threads of one  *)
(* child process of the event MPM: server/mpm/event/fdqueue.c, with the    *)
(* client code of event.c that decides in which order its functions are    *)
(* called (get_worker, push2worker, the main loop of worker_thread).       *)
(*                                                                         *)
(* Two objects are shared.  fd_queue_info_t counts the idle workers and    *)
(* lets the listener reserve one before it pushes; fd_queue_t is the ring  *)
(* of sockets (plus the list of due timers) the workers pop from.          *)
(*                                                                         *)
(* Atomicity.  A critical section of one_big_mutex or of idlers_mutex is   *)
(* one step, split where it waits on its condition variable; an apr_atomic *)
(* operation is one step.  `idlers' is kept relative to zero_pt, so that a *)
(* negative value counts listeners waiting for a worker.                   *)
(***************************************************************************)
EXTENDS Integers, Sequences, FiniteSets

CONSTANTS
    Workers,    \* the worker threads, threads_per_child of them
    Conns,      \* the sockets / connections that can be pushed
    Timers,     \* the timer events that can be pushed
    NoConn      \* the NULL socket

ASSUME WorkersAssumption == IsFiniteSet(Workers) /\ Workers # {}
ASSUME NoConnAssumption  == NoConn \notin Conns /\ NoConn \notin Timers
ASSUME TimersAssumption  == Conns \cap Timers = {}

VARIABLES
    idlers,     \* queue_info->idlers - zero_pt
    infoTerm,   \* queue_info->terminated
    data,       \* queue->data[i].sd
    in,         \* queue->in
    out,        \* queue->out
    nelts,      \* queue->nelts
    timers,     \* queue->timers
    qTerm,      \* queue->terminated
    lpc,        \* where the listener is in get_worker/ap_queue_push
    wpc,        \* where each worker is in its main loop
    job,        \* the socket or timer a worker has popped
    overrun     \* history: AP_DEBUG_ASSERT(!ap_queue_full) has failed

infoVars == <<idlers, infoTerm>>
ringVars == <<data, in, out, nelts>>
fdvars   == <<idlers, infoTerm, data, in, out, nelts, timers, qTerm,
              lpc, wpc, job, overrun>>

bounds == Cardinality(Workers)
Slots  == 0 .. bounds - 1

(* Listener: "free" and "reserved" are have_idle_worker = 0 and 1; at
   "recheck" it found no idle worker and is about to take idlers_mutex; at
   "backout" it must undo its decrement; "term" and "done" are ap_queue_term. *)
ListenerPCs == {"free", "recheck", "blocked", "backout", "reserved",
                "term", "done"}

(* Worker: "start" is the top of the loop with is_idle = 0; at "signal" it has
   incremented idlers and must wake the listener; "pop" is worker_pop; at
   "empty" it has released one_big_mutex and has not read `terminated' yet.
   "exitedIdle" left while it was still counted in idlers. *)
WorkerPCs == {"start", "signal", "pop", "waiting", "woken", "empty",
              "busy", "timer", "exited", "exitedIdle"}

FdTypeOK ==
    /\ idlers \in Int
    /\ infoTerm \in BOOLEAN
    /\ data \in [Slots -> Conns \cup {NoConn}]
    /\ in \in Slots
    /\ out \in Slots
    /\ nelts \in Int
    /\ timers \in Seq(Timers)
    /\ qTerm \in BOOLEAN
    /\ lpc \in ListenerPCs
    /\ wpc \in [Workers -> WorkerPCs]
    /\ job \in [Workers -> Conns \cup Timers \cup {NoConn}]
    /\ overrun \in BOOLEAN

\* ap_queue_info_create and ap_queue_init; every thread has just started.
FdInit ==
    /\ idlers = 0
    /\ infoTerm = FALSE
    /\ data = [i \in Slots |-> NoConn]
    /\ in = 0
    /\ out = 0
    /\ nelts = 0
    /\ timers = <<>>
    /\ qTerm = FALSE
    /\ lpc = "free"
    /\ wpc = [w \in Workers |-> "start"]
    /\ job = [w \in Workers |-> NoConn]
    /\ overrun = FALSE

-----------------------------------------------------------------------------
\* ap_queue_full and ap_queue_empty
Full  == nelts = bounds
Empty == nelts = 0 /\ timers = <<>>

\* Mutant: the index wraps one slot too late.
Wrap_Late(i) == IF i > bounds THEN i - bounds ELSE i

\* in and out wrap at bounds
Wrap(i) == IF i >= bounds THEN i - bounds ELSE i

\* The slots in use: an overrun ring holds no more than bounds sockets.
Depth == IF nelts < bounds THEN nelts ELSE bounds

\* The sockets in the ring, oldest first
Pending == [i \in 1 .. Depth |-> data[Wrap(out + i - 1)]]

\* apr_thread_cond_signal(queue->not_empty): wakes one waiter, if there is one
SignalNotEmpty(pcs) ==
    LET sleeping == {w \in Workers : pcs[w] = "waiting"} IN
    IF sleeping = {} THEN {pcs}
                     ELSE {[pcs EXCEPT ![w] = "woken"] : w \in sleeping}

\* apr_thread_cond_broadcast(queue->not_empty)
BroadcastNotEmpty(pcs) ==
    [w \in Workers |-> IF pcs[w] = "waiting" THEN "woken" ELSE pcs[w]]

-----------------------------------------------------------------------------
(* ap_queue_info_set_idle, first half: count this worker, remember whether the
   listener was waiting.  (The pool to recycle is NULL in this MPM.) *)
SetIdle(w) ==
    /\ wpc[w] = "start"
    /\ idlers' = idlers + 1
    /\ wpc' = [wpc EXCEPT ![w] = IF idlers < 0 THEN "signal" ELSE "pop"]
    /\ UNCHANGED <<infoTerm, ringVars, timers, qTerm, lpc, job, overrun>>

\* Mutant: the wake-up of the listener is forgotten.
SignalListener_Forgotten(w) ==
    /\ wpc[w] = "signal"
    /\ wpc' = [wpc EXCEPT ![w] = "pop"]
    /\ UNCHANGED <<infoVars, ringVars, timers, qTerm, lpc, job, overrun>>

(* ap_queue_info_set_idle, second half: signal wait_for_idler under
   idlers_mutex.  A listener that is woken returns from
   ap_queue_info_wait_for_idler without looking at idlers again. *)
SignalListener(w) ==
    /\ wpc[w] = "signal"
    /\ wpc' = [wpc EXCEPT ![w] = "pop"]
    /\ lpc' = IF lpc = "blocked" THEN "reserved" ELSE lpc
    /\ UNCHANGED <<infoVars, ringVars, timers, qTerm, job, overrun>>

(* ap_queue_info_try_get_idler: takes a worker only if another one stays idle,
   otherwise undoes the decrement with a second atomic operation. *)
TryGetIdler ==
    /\ lpc = "free"
    /\ idlers' = idlers - 1
    /\ lpc' = IF idlers - 1 <= 0 THEN "backout" ELSE "reserved"
    /\ UNCHANGED <<infoTerm, ringVars, timers, qTerm, wpc, job, overrun>>

BackOut ==
    /\ lpc = "backout"
    /\ idlers' = idlers + 1
    /\ lpc' = "free"
    /\ UNCHANGED <<infoTerm, ringVars, timers, qTerm, wpc, job, overrun>>

\* Mutant: the listener blocks without looking at idlers under the mutex.
Recheck_Blind ==
    /\ lpc = "recheck"
    /\ lpc' = "blocked"
    /\ UNCHANGED <<infoVars, ringVars, timers, qTerm, wpc, job, overrun>>

\* Mutant: the listener never blocks.
Recheck_NoWait ==
    /\ lpc = "recheck"
    /\ lpc' = "reserved"
    /\ UNCHANGED <<infoVars, ringVars, timers, qTerm, wpc, job, overrun>>

(* ap_queue_info_wait_for_idler.  SUCCESS and EOF are the same to get_worker,
   so the final test of queue_info->terminated is not a step of its own. *)
WaitForIdler ==
    /\ lpc = "free"
    /\ idlers' = idlers - 1
    /\ lpc' = IF idlers <= 0 THEN "recheck" ELSE "reserved"
    /\ UNCHANGED <<infoTerm, ringVars, timers, qTerm, wpc, job, overrun>>

Recheck ==
    /\ lpc = "recheck"
    /\ lpc' = IF idlers < 0 THEN "blocked" ELSE "reserved"
    /\ UNCHANGED <<infoVars, ringVars, timers, qTerm, wpc, job, overrun>>

-----------------------------------------------------------------------------
\* Mutant: poppers are woken only when the ring was empty.
Push_SignalsIfEmpty(c) ==
    /\ lpc = "reserved"
    /\ lpc' = "free"
    /\ overrun' = (overrun \/ Full)
    /\ data' = [data EXCEPT ![in] = c]
    /\ in' = Wrap(in + 1)
    /\ nelts' = nelts + 1
    /\ wpc' \in IF nelts = 0 THEN SignalNotEmpty(wpc) ELSE {wpc}
    /\ UNCHANGED <<infoVars, out, timers, qTerm, job>>

\* Mutant: poppers are not woken at all.
Push_Silent(c) ==
    /\ lpc = "reserved"
    /\ lpc' = "free"
    /\ overrun' = (overrun \/ Full)
    /\ data' = [data EXCEPT ![in] = c]
    /\ in' = Wrap(in + 1)
    /\ nelts' = nelts + 1
    /\ UNCHANGED <<infoVars, out, timers, qTerm, wpc, job>>

(* ap_queue_push.  Nothing but the AP_DEBUG assertion stands against a full
   ring; `overrun' records that it failed. *)
Push(c) ==
    /\ lpc = "reserved"
    /\ lpc' = "free"
    /\ overrun' = (overrun \/ Full)
    /\ data' = [data EXCEPT ![in] = c]
    /\ in' = Wrap(in + 1)
    /\ nelts' = nelts + 1
    /\ wpc' \in SignalNotEmpty(wpc)
    /\ UNCHANGED <<infoVars, out, timers, qTerm, job>>

\* ap_queue_push_timer: no worker is reserved for a timer.
PushTimer(t) ==
    /\ lpc \in {"free", "reserved"}
    /\ timers' = Append(timers, t)
    /\ wpc' \in SignalNotEmpty(wpc)
    /\ UNCHANGED <<infoVars, ringVars, qTerm, lpc, job, overrun>>

\* Mutant: the read index is not advanced past the socket taken.
Take_KeepsOut(w) ==
    IF timers # <<>>
    THEN /\ timers' = Tail(timers)
         /\ job' = [job EXCEPT ![w] = Head(timers)]
         /\ wpc' = [wpc EXCEPT ![w] = "timer"]
         /\ UNCHANGED ringVars
    ELSE /\ nelts' = nelts - 1
         /\ job' = [job EXCEPT ![w] = data[out]]
         /\ wpc' = [wpc EXCEPT ![w] = "busy"]
         /\ UNCHANGED <<data, in, out, timers>>

\* The part of ap_queue_pop_something that removes something: timers first.
Take(w) ==
    IF timers # <<>>
    THEN /\ timers' = Tail(timers)
         /\ job' = [job EXCEPT ![w] = Head(timers)]
         /\ wpc' = [wpc EXCEPT ![w] = "timer"]
         /\ UNCHANGED ringVars
    ELSE /\ out' = Wrap(out + 1)
         /\ nelts' = nelts - 1
         /\ job' = [job EXCEPT ![w] = data[out]]
         /\ wpc' = [wpc EXCEPT ![w] = "busy"]
         /\ UNCHANGED <<data, in, timers>>

\* ap_queue_pop_something up to the wait on not_empty
Pop(w) ==
    /\ wpc[w] = "pop"
    /\ IF Empty
       THEN /\ wpc' = [wpc EXCEPT ![w] = IF qTerm THEN "empty" ELSE "waiting"]
            /\ UNCHANGED <<ringVars, timers, job>>
       ELSE Take(w)
    /\ UNCHANGED <<infoVars, qTerm, lpc, overrun>>

\* ap_queue_pop_something after the wait; there is no loop around the wait
WakeUp(w) ==
    /\ wpc[w] = "woken"
    /\ IF Empty
       THEN /\ wpc' = [wpc EXCEPT ![w] = "empty"]
            /\ UNCHANGED <<ringVars, timers, job>>
       ELSE Take(w)
    /\ UNCHANGED <<infoVars, qTerm, lpc, overrun>>

(* queue->terminated is read after one_big_mutex is released: EOF ends the
   worker, EINTR sends it back to worker_pop. *)
CheckTerm(w) ==
    /\ wpc[w] = "empty"
    /\ wpc' = [wpc EXCEPT ![w] = IF qTerm THEN "exitedIdle" ELSE "pop"]
    /\ UNCHANGED <<infoVars, ringVars, timers, qTerm, lpc, job, overrun>>

\* worker_thread after process_socket: is_idle = 0
FinishSocket(w) ==
    /\ wpc[w] = "busy"
    /\ wpc' = [wpc EXCEPT ![w] = "start"]
    /\ job' = [job EXCEPT ![w] = NoConn]
    /\ UNCHANGED <<infoVars, ringVars, timers, qTerm, lpc, overrun>>

\* Mutant: a worker that ran a timer counts itself as idle once more.
FinishTimer_Recounts(w) ==
    /\ wpc[w] = "timer"
    /\ wpc' = [wpc EXCEPT ![w] = "start"]
    /\ job' = [job EXCEPT ![w] = NoConn]
    /\ UNCHANGED <<infoVars, ringVars, timers, qTerm, lpc, overrun>>

\* worker_thread after a timer callback: is_idle stays 1
FinishTimer(w) ==
    /\ wpc[w] = "timer"
    /\ wpc' = [wpc EXCEPT ![w] = "pop"]
    /\ job' = [job EXCEPT ![w] = NoConn]
    /\ UNCHANGED <<infoVars, ringVars, timers, qTerm, lpc, overrun>>

-----------------------------------------------------------------------------
\* ap_queue_interrupt_one and ap_queue_interrupt_all
InterruptOne ==
    /\ wpc' \in SignalNotEmpty(wpc)
    /\ UNCHANGED <<infoVars, ringVars, timers, qTerm, lpc, job, overrun>>

InterruptAll ==
    /\ wpc' = BroadcastNotEmpty(wpc)
    /\ UNCHANGED <<infoVars, ringVars, timers, qTerm, lpc, job, overrun>>

\* ap_queue_info_term: a blocked listener gets APR_EOF
InfoTerm ==
    /\ infoTerm' = TRUE
    /\ lpc' = IF lpc = "blocked" THEN "reserved" ELSE lpc
    /\ UNCHANGED <<idlers, ringVars, timers, qTerm, wpc, job, overrun>>

\* Mutant: only one popper is woken at the end.
QueueTermBroadcast_One ==
    /\ lpc = "term"
    /\ lpc' = "done"
    /\ wpc' \in SignalNotEmpty(wpc)
    /\ UNCHANGED <<infoVars, ringVars, timers, qTerm, job, overrun>>

\* ap_queue_term: set the flag under the mutex, then wake every popper
QueueTerm ==
    /\ lpc \in {"free", "reserved"}
    /\ qTerm' = TRUE
    /\ lpc' = "term"
    /\ UNCHANGED <<infoVars, ringVars, timers, wpc, job, overrun>>

QueueTermBroadcast ==
    /\ lpc = "term"
    /\ lpc' = "done"
    /\ wpc' = BroadcastNotEmpty(wpc)
    /\ UNCHANGED <<infoVars, ringVars, timers, qTerm, job, overrun>>

(* A worker that sees workers_may_exit, or that worker_thread_should_exit_early
   tells to go, leaves from worker_pop still counted as idle, or from the top
   of its loop. *)
Exit(w) ==
    /\ \/ wpc[w] = "pop"   /\ wpc' = [wpc EXCEPT ![w] = "exitedIdle"]
       \/ wpc[w] = "start" /\ wpc' = [wpc EXCEPT ![w] = "exited"]
    /\ UNCHANGED <<infoVars, ringVars, timers, qTerm, lpc, job, overrun>>

-----------------------------------------------------------------------------
\* What the workers hold and what is queued
Held   == {job[w] : w \in Workers}
Queued == {Pending[i] : i \in DOMAIN Pending}

WorkerStep(w) ==
    \/ SetIdle(w) \/ SignalListener(w) \/ Pop(w) \/ WakeUp(w) \/ CheckTerm(w)
    \/ FinishSocket(w) \/ FinishTimer(w)

ListenerStep ==
    \/ TryGetIdler \/ BackOut \/ WaitForIdler \/ Recheck
    \/ \E c \in Conns : Push(c)
    \/ \E t \in Timers : PushTimer(t)

Shutdown ==
    \/ InterruptOne \/ InterruptAll \/ InfoTerm
    \/ QueueTerm \/ QueueTermBroadcast
    \/ \E w \in Workers : Exit(w)

Running == ListenerStep \/ \E w \in Workers : WorkerStep(w)

FdNext == Running \/ Shutdown

(* Nothing here depends on what is pushed: that a socket is not queued twice is
   the listener's affair (EventChild). *)
FdSpec == FdInit /\ [][FdNext]_fdvars

\* The listener pushes each socket and each timer once until it is popped.
PushesOnce == Cardinality(Queued) = Depth /\ Len(timers) <= Cardinality(Timers)

\* A child nobody has asked to stop yet
RunningSpec == FdInit /\ [][Running /\ PushesOnce']_fdvars

(* The AP_DEBUG build: AP_DEBUG_ASSERT(!ap_queue_full(queue)) ends the process
   instead of letting the ring run over. *)
DebugSpec == FdInit /\ [][FdNext /\ ~overrun']_fdvars

\* The same with sockets and timers pushed once
OnceSpec == FdInit /\ [][FdNext /\ ~overrun' /\ PushesOnce']_fdvars

(* Every worker thread keeps running, and process_socket returns: the work of
   a request is bounded by TimeOut. *)
FairRunningSpec == RunningSpec /\ \A w \in Workers : WF_fdvars(WorkerStep(w))

-----------------------------------------------------------------------------
\* Workers the counter stands for: those past set_idle with is_idle = 1.
CountedIdle ==
    {w \in Workers : wpc[w] \in {"signal", "pop", "waiting", "woken", "empty",
                                 "timer", "exitedIdle"}}

\* 1 while the listener owns a decrement of idlers it has not used
Reservation ==
    IF lpc \in {"recheck", "blocked", "backout", "reserved"} THEN 1 ELSE 0

(* Every decrement of idlers is either held by the listener or has become an
   element of the ring; so idle workers are never counted twice or forgotten by
   ap_queue_info_set_idle, try_get_idler, wait_for_idler, ap_queue_push and
   ap_queue_pop_something, in any interleaving, shutdown included. *)
Accounting ==
    lpc \notin {"term", "done"} =>
        idlers + nelts + Reservation = Cardinality(CountedIdle)

(* The comment in ap_queue_info_wait_for_idler: a listener that sleeps although
   a worker has become idle is about to be signalled by that worker. *)
NoLostWakeup ==
    lpc = "blocked" /\ idlers >= 0 => \E w \in Workers : wpc[w] = "signal"

(* ap_queue_push and ap_queue_push_timer signal once per element: while a
   worker sleeps in ap_queue_pop_something, each queued element has a worker
   already woken for it. *)
SleepersCovered ==
    (\E w \in Workers : wpc[w] = "waiting") =>
        nelts + Len(timers) <= Cardinality({w \in Workers : wpc[w] = "woken"})

(* ap_queue_term (comment at its assignment of `terminated'): once it has
   returned nobody sleeps on not_empty, and nobody starts to. *)
NoSleepAfterTerm == lpc = "done" => \A w \in Workers : wpc[w] # "waiting"

(* A signal of ap_queue_info_set_idle that arrives late wakes a listener that
   waits for another worker; until shutdown such false reservations overfill
   the ring by at most threads_per_child elements. *)
OvercommitBounded == nelts <= 2 * bounds

(* The precondition of ap_queue_push and its AP_DEBUG_ASSERT: a reserved worker
   means a free slot. *)
NeverFull == ~overrun

(* What the queue promises: sockets are delivered in order, each to one worker,
   at most threads_per_child are pending, and due timers go first. *)
Abstract == INSTANCE Handoff WITH
    pending <- Pending, due <- timers, holding <- job, capacity <- bounds
DeliversInOrder == Abstract!Spec

\* A listener that blocks for an idle worker gets one.
ListenerGetsWorker == lpc = "blocked" ~> lpc = "reserved"

\* A queued socket reaches a worker, unless the ring has run over.
QueuedIsServed == \A c \in Conns : c \in Queued ~> c \in Held \/ overrun
=============================================================================

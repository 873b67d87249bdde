----------------------------- MODULE EventChild -----------------------------
(***************************************************************************)
(* One child process of the event MPM (server/mpm/event/event.c): the      *)
(* listener thread, the worker threads and the main thread, around the     *)
(* worker queue of module FdQueue, the pollset, the timeout queues and the *)
(* connection counters.                                                    *)
(*                                                                         *)
(* A connection is a member of Conns; `cst' is its CONN_STATE, "none" for  *)
(* a socket not accepted yet (or closed: the name is used again), "new"    *)
(* for an accepted socket that has no conn_state yet.  The order inside a  *)
(* timeout queue and the clock are abstracted: any entry may be found      *)
(* expired.  Membership of a timeout queue and of the pollset change in    *)
(* one step where the code holds timeout_mutex around both.                *)
(***************************************************************************)
EXTENDS FdQueue

CONSTANTS
    Listeners,        \* the listening sockets
    MaxConnections,   \* ap_max_requests_per_child, 0 for no limit
    WorkerFactor,     \* worker_factor, in sixteenths
    StopRequests,     \* what the parent may write to the pipe of death
    ResourceErrors,   \* poll and accept may fail for good (APR_EGENERAL)
    PollsetFails,     \* apr_pollset_add and _remove may fail
    Suspends,         \* a module may suspend a connection
    JoinTries         \* how often join_workers wakes the listener (10)

ASSUME ChildAssumption ==
    /\ Listeners \cap Conns = {} /\ NoConn \notin Listeners
    /\ IsFiniteSet(Listeners) /\ Listeners # {}
    /\ MaxConnections \in Nat /\ WorkerFactor \in Nat \ {0} /\ JoinTries \in Nat
    /\ StopRequests \subseteq {"graceful", "ungraceful"}
    /\ {ResourceErrors, PollsetFails, Suspends} \subseteq BOOLEAN

VARIABLES
    cst,                \* cs->pub.state
    toq,                \* the timeout queue a connection is in
    pollset,            \* event_pollset, without the listening sockets
    accepting,          \* the listening sockets are in event_pollset
    connection_count, lingering_count, suspended_count, threads_shutdown,
    conns_this_child,
    terminate_mode, listener_may_exit, workers_may_exit, dying,
    lat,                \* where listener_thread is in its loop
    batch,              \* polled events, or expired connections, to handle
    lcur,               \* the event for which get_worker was called
    busy,               \* workers_were_busy
    disabled,           \* listeners_disabled
    wat,                \* where a worker is in process_socket
    chk,                \* a worker's tests at worker_pop
    snap,               \* connection_count as read by should_exit_early
    armed,              \* timers in timer_skiplist
    mat, mmode, tries   \* the main thread: where, which mode, iter

connVars  == <<cst, toq, pollset>>
countVars == <<connection_count, lingering_count, suspended_count>>
flagVars  == <<terminate_mode, listener_may_exit, workers_may_exit>>
gateVars  == <<accepting, disabled, dying, conns_this_child>>
loopVars  == <<lat, batch, lcur, busy>>
exitVars  == <<chk, snap, threads_shutdown>>
mainVars  == <<mat, mmode, tries>>
vars      == <<fdvars, connVars, countVars, flagVars, gateVars, loopVars,
               wat, exitVars, armed, mainVars>>

ConnStates == {"none", "new", "read", "wc", "ka", "lingering", "suspended"}
QueueNames == {"no", "wc", "ka", "linger"}

\* The callbacks after each pass over a timeout queue
Sweeps     == {"kaTrash", "wcTrash", "lingerTrash"}
LoopPoints == {"top", "quota", "poll", "check", "timers", "batch", "get",
               "leave", "broadcast", "gone"} \cup Sweeps

TypeOK ==
    /\ FdTypeOK
    /\ cst \in [Conns -> ConnStates]
    /\ toq \in [Conns -> QueueNames]
    /\ pollset \subseteq Conns
    /\ {accepting, dying, busy, disabled, listener_may_exit, workers_may_exit}
           \subseteq BOOLEAN
    /\ {connection_count, lingering_count, suspended_count} \subseteq Nat
    /\ threads_shutdown \in 0 .. bounds
    /\ conns_this_child \in Int
    /\ terminate_mode \in {"init", "graceful", "ungraceful"}
    /\ lat \in LoopPoints
    /\ batch \subseteq Conns \cup Listeners
    /\ lcur \in Conns \cup Listeners \cup {NoConn}
    /\ wat \in [Workers -> {"resume", "serve", "park", "release"}]
    /\ chk \in [Workers -> {"test", "decide", "go"}]
    /\ snap \in [Workers -> Nat]
    /\ armed \subseteq Timers
    /\ mat \in {"watch", "info", "workers", "interrupt", "join", "exited"}
    /\ mmode \in {"init", "graceful", "ungraceful"}
    /\ tries \in 0 .. JoinTries

\* child_main and start_threads have run; module timers are registered.
Init ==
    /\ FdInit
    /\ cst = [c \in Conns |-> "none"]
    /\ toq = [c \in Conns |-> "no"]
    /\ pollset = {}
    /\ accepting = TRUE
    /\ connection_count = 0 /\ lingering_count = 0 /\ suspended_count = 0
    /\ threads_shutdown = 0
    /\ conns_this_child = MaxConnections
    /\ terminate_mode = "init"
    /\ listener_may_exit = FALSE /\ workers_may_exit = FALSE /\ dying = FALSE
    /\ lat = "top" /\ batch = {} /\ lcur = NoConn
    /\ busy = FALSE /\ disabled = FALSE
    /\ wat = [w \in Workers |-> "resume"]
    /\ chk = [w \in Workers |-> "test"]
    /\ snap = [w \in Workers |-> 0]
    /\ armed = Timers
    /\ mat = "watch" /\ mmode = "init" /\ tries = 0

-----------------------------------------------------------------------------
(* Unsigned arithmetic.  The code computes modulo 2^32; TLC's integers are
   narrower, and 2^20 is as far from every count of the model. *)
UIntSize == 2^20
U(n) == n % UIntSize

\* ap_queue_info_get_idlers
IdleWorkers == IF idlers < 0 THEN 0 ELSE idlers

\* n * worker_factor / WORKER_FACTOR_SCALE, where worker_factor is unsigned
Scaled(n) == U(n * WorkerFactor) \div 16

\* connection_count - lingering_count
ActiveConns == connection_count - lingering_count

\* The tests before accept() and at the end of the loop
TooManyConns == U(ActiveConns) > bounds + Scaled(IdleWorkers)
FewEnough    == U(ActiveConns) < Scaled(IdleWorkers - 1) + bounds

\* Mutant: the limit is noticed one connection late.
QuotaSpent_Late == MaxConnections > 0 /\ conns_this_child < 0

\* conns_this_child <= 0 and MaxConnectionsPerChild is not 0
QuotaSpent == MaxConnections > 0 /\ conns_this_child <= 0

(* signal_threads(ST_GRACEFUL) called by the listener itself: it overwrites
   terminate_mode whatever the main thread has put there. *)
SignalGraceful ==
    IF terminate_mode = "graceful"
    THEN UNCHANGED <<flagVars, fdvars>>
    ELSE /\ terminate_mode' = "graceful"
         /\ listener_may_exit' = TRUE
         /\ InfoTerm
         /\ UNCHANGED workers_may_exit

\* ap_queue_interrupt_one, if the child is dying
InterruptIfDying == IF dying THEN InterruptOne ELSE UNCHANGED fdvars

\* Mutant: the pool of a lingering connection keeps its lingering_count.
Closed_LeaksLinger(c) ==
    /\ cst' = [cst EXCEPT ![c] = "none"]
    /\ toq' = [toq EXCEPT ![c] = "no"]
    /\ pollset' = pollset \ {c}
    /\ connection_count' = connection_count - 1
    /\ UNCHANGED <<lingering_count, suspended_count>>

\* Mutant: a cleanup runs twice.
Closed_CountsTwice(c) ==
    /\ cst' = [cst EXCEPT ![c] = "none"]
    /\ toq' = [toq EXCEPT ![c] = "no"]
    /\ pollset' = pollset \ {c}
    /\ connection_count' = connection_count - 2
    /\ lingering_count' = lingering_count - (IF cst[c] = "lingering" THEN 1 ELSE 0)
    /\ UNCHANGED suspended_count

(* Connection c is closed and its pool cleared: decrement_connection_count. *)
Closed(c) ==
    /\ cst' = [cst EXCEPT ![c] = "none"]
    /\ toq' = [toq EXCEPT ![c] = "no"]
    /\ pollset' = pollset \ {c}
    /\ connection_count' = connection_count - 1
    /\ lingering_count' = lingering_count - (IF cst[c] = "lingering" THEN 1 ELSE 0)
    /\ UNCHANGED suspended_count

\* Mutant: a connection the pollset refuses is closed but stays queued.
Lingers_StaysQueued(c) ==
    /\ cst' = [cst EXCEPT ![c] = IF PollsetFails THEN "none" ELSE "lingering"]
    /\ toq' = [toq EXCEPT ![c] = "linger"]
    /\ connection_count' = connection_count - (IF PollsetFails THEN 1 ELSE 0)
    /\ UNCHANGED <<pollset, lingering_count, suspended_count>>

(* start_lingering_close_common: into a linger queue and the pollset.  When
   the pollset refuses c, it is taken out of the queue again and closed; it is
   in the queue too shortly to be found expired. *)
Lingers(c) ==
    \/ /\ cst' = [cst EXCEPT ![c] = "lingering"]
       /\ toq' = [toq EXCEPT ![c] = "linger"]
       /\ pollset' = pollset \cup {c}
       /\ lingering_count' = lingering_count + 1
       /\ UNCHANGED <<connection_count, suspended_count>>
    \/ PollsetFails /\ Closed(c)

\* start_lingering_close_nonblocking, called by the listener
LingerNonblocking(c) ==
    \/ Closed(c) /\ InterruptIfDying
    \/ Lingers(c) /\ UNCHANGED fdvars

(* A parked connection: appended to timeout queue q and added to the pollset
   under timeout_mutex; the result of apr_pollset_add is at best logged. *)
Parks(c, q) ==
    /\ cst' = [cst EXCEPT ![c] = q]
    /\ toq' = [toq EXCEPT ![c] = q]
    /\ \/ pollset' = pollset \cup {c}
       \/ PollsetFails /\ UNCHANGED pollset
    /\ UNCHANGED countVars

-----------------------------------------------------------------------------
\* The listener thread: listener_thread.

\* Mutant: an ungraceful stop waits for the connections too.
LeaveOr_Waits(next) ==
    IF listener_may_exit
    THEN /\ dying' = TRUE
         /\ accepting' = FALSE
         /\ IF dying THEN UNCHANGED fdvars ELSE InterruptAll
         /\ lat' = IF connection_count = 0 THEN "leave" ELSE next
    ELSE lat' = next /\ UNCHANGED <<dying, accepting, fdvars>>

(* The two tests of listener_may_exit: close_listeners on the first one, then
   leave the loop or go on at `next'. *)
LeaveOr(next) ==
    IF listener_may_exit
    THEN /\ dying' = TRUE
         /\ accepting' = FALSE
         /\ IF dying THEN UNCHANGED fdvars ELSE InterruptAll
         /\ lat' = IF terminate_mode = "ungraceful" \/ connection_count = 0
                   THEN "leave" ELSE next
    ELSE lat' = next /\ UNCHANGED <<dying, accepting, fdvars>>

LTop ==
    /\ lat = "top"
    /\ LeaveOr(IF QuotaSpent THEN "quota" ELSE "poll")
    /\ UNCHANGED <<connVars, countVars, flagVars, disabled, conns_this_child,
                   batch, lcur, busy, wat, exitVars, armed, mainVars>>

\* check_infinite_requests
LQuota ==
    /\ lat = "quota"
    /\ lat' = "poll"
    /\ SignalGraceful
    /\ UNCHANGED <<connVars, countVars, gateVars, batch, lcur, busy, wat,
                   exitVars, armed, mainVars>>

(* apr_pollset_poll returns: some events, none (timeout), EINTR (back to the
   top), or an error that ends the child.  The test that follows reads flags no
   poll depends on, so it belongs to the same step. *)
LPoll ==
    /\ lat = "poll"
    /\ \/ \E ready \in SUBSET (pollset \cup IF accepting THEN Listeners ELSE {}) :
             /\ LeaveOr(IF armed = {} THEN "batch" ELSE "timers")
             /\ batch' = IF lat' = "leave" THEN {} ELSE ready
             /\ UNCHANGED flagVars
       \/ lat' = "top" /\ UNCHANGED <<batch, flagVars, dying, accepting, fdvars>>
       \/ /\ ResourceErrors
          /\ lat' = "check" /\ SignalGraceful
          /\ UNCHANGED <<batch, dying, accepting>>
    /\ UNCHANGED <<connVars, countVars, disabled, conns_this_child, lcur, busy, wat,
                   exitVars, armed, mainVars>>

\* The same test after a poll that failed
LCheck ==
    /\ lat = "check"
    /\ LeaveOr(IF armed = {} THEN "batch" ELSE "timers")
    /\ UNCHANGED <<connVars, countVars, flagVars, disabled, conns_this_child,
                   batch, lcur, busy, wat, exitVars, armed, mainVars>>

\* Due timers go to the workers before the polled events.
LPushTimer(t) ==
    /\ lat = "timers" /\ t \in armed
    /\ PushTimer(t)
    /\ armed' = armed \ {t}
    /\ UNCHANGED <<connVars, countVars, flagVars, gateVars, loopVars, wat,
                   exitVars, mainVars>>

LTimersDone ==
    /\ lat = "timers"
    /\ lat' = "batch"
    /\ UNCHANGED <<fdvars, connVars, countVars, flagVars, gateVars, batch, lcur,
                   busy, wat, exitVars, armed, mainVars>>

\* A polled connection that needs a worker: get_worker, blocking or not
LReady(c) ==
    /\ lat = "batch" /\ c \in batch /\ cst[c] \in {"ka", "wc"}
    /\ lat' = "get" /\ lcur' = c
    /\ cst' = IF cst[c] = "ka" THEN [cst EXCEPT ![c] = "read"] ELSE cst
    /\ IF lpc = "reserved" THEN UNCHANGED fdvars
       ELSE IF cst[c] = "ka" THEN TryGetIdler ELSE WaitForIdler
    /\ UNCHANGED <<toq, pollset, countVars, flagVars, gateVars, batch, busy, wat,
                   exitVars, armed, mainVars>>

\* The rest of get_worker; blocking, or finding nobody, sets workers_were_busy.
LGetWorker ==
    /\ lat = "get"
    /\ \/ Recheck /\ busy' = (busy \/ idlers < 0)
       \/ BackOut /\ busy' = TRUE
    /\ UNCHANGED <<connVars, countVars, flagVars, gateVars, lat, batch, lcur, wat,
                   exitVars, armed, mainVars>>

\* Mutant: the connection stays in the pollset when a worker gets it.
LDispatch_KeepsPolling ==
    /\ lat = "get" /\ lcur \in Conns
    /\ \/ /\ Push(lcur)
          /\ toq' = [toq EXCEPT ![lcur] = "no"]
          /\ UNCHANGED <<cst, pollset, countVars>>
       \/ /\ lpc = "free" \/ (lpc = "reserved" /\ PollsetFails)
          /\ LingerNonblocking(lcur)
    /\ lat' = "batch" /\ batch' = batch \ {lcur} /\ lcur' = NoConn
    /\ UNCHANGED <<flagVars, gateVars, busy, wat, exitVars, armed, mainVars>>

(* The connection leaves its queue and the pollset and goes to the reserved
   worker; without one, or if the pollset keeps it, it is closed. *)
LDispatch ==
    /\ lat = "get" /\ lcur \in Conns
    /\ \/ /\ Push(lcur)
          /\ toq' = [toq EXCEPT ![lcur] = "no"]
          /\ pollset' = pollset \ {lcur}
          /\ UNCHANGED <<cst, countVars>>
       \/ /\ lpc = "free" \/ (lpc = "reserved" /\ PollsetFails)
          /\ LingerNonblocking(lcur)
    /\ lat' = "batch" /\ batch' = batch \ {lcur} /\ lcur' = NoConn
    /\ UNCHANGED <<flagVars, gateVars, busy, wat, exitVars, armed, mainVars>>

\* process_lingering_close: more to come, or closed
LLinger(c) ==
    /\ lat = "batch" /\ c \in batch /\ cst[c] = "lingering"
    /\ \/ UNCHANGED <<fdvars, connVars, countVars>>
       \/ Closed(c) /\ InterruptIfDying
    /\ batch' = batch \ {c}
    /\ UNCHANGED <<flagVars, gateVars, lat, lcur, busy, wat, exitVars, armed,
                   mainVars>>

(* A listening socket is ready: stop listening, or (listening again) reserve a
   worker, blocking. *)
LRefuse(l) ==
    /\ lat = "batch" /\ l \in batch
    /\ busy \/ TooManyConns
    /\ disabled' = TRUE /\ accepting' = FALSE
    /\ batch' = batch \ {l}
    /\ UNCHANGED <<fdvars, connVars, countVars, flagVars, dying, conns_this_child,
                   lat, lcur, busy, wat, exitVars, armed, mainVars>>

LAcceptReady(l) ==
    /\ lat = "batch" /\ l \in batch
    /\ ~busy /\ ~TooManyConns
    /\ disabled' = FALSE
    /\ accepting' = (accepting \/ (disabled /\ ~dying))
    /\ lat' = "get" /\ lcur' = l
    /\ IF lpc = "reserved" THEN UNCHANGED fdvars ELSE WaitForIdler
    /\ UNCHANGED <<connVars, countVars, flagVars, dying, conns_this_child, batch,
                   busy, wat, exitVars, armed, mainVars>>

(* accept_func, then ap_queue_push.  Without a socket the reservation is kept;
   a closed listening socket yields none and is no resource shortage. *)
LAccept ==
    /\ lat = "get" /\ lcur \in Listeners /\ lpc = "reserved"
    /\ \/ /\ ~dying
          /\ \E c \in Conns \ Held :
                /\ cst[c] = "none"
                /\ cst' = [cst EXCEPT ![c] = "new"]
                /\ Push(c)
          /\ conns_this_child' =
                 IF MaxConnections > 0 THEN conns_this_child - 1 ELSE conns_this_child
          /\ UNCHANGED flagVars
       \/ UNCHANGED <<fdvars, cst, conns_this_child, flagVars>>
       \/ /\ ResourceErrors /\ ~dying
          /\ SignalGraceful
          /\ UNCHANGED <<cst, conns_this_child>>
    /\ lat' = "batch" /\ batch' = batch \ {lcur} /\ lcur' = NoConn
    /\ UNCHANGED <<toq, pollset, countVars, accepting, disabled, dying, busy, wat,
                   exitVars, armed, mainVars>>

(* The queue after which process_timeout_queue gets to q.  The passes
   over "wc" and "linger" (two queues in one here) are skipped if they find nothing. *)
Turn(q) == \/ q = "ka" /\ lat = "batch"
           \/ q = "wc" /\ lat = "kaTrash"
           \/ q = "linger" /\ lat \in {"kaTrash", "wcTrash"}

\* The callbacks for what was in queue q
Sweep == [ka |-> "kaTrash", wc |-> "wcTrash", linger |-> "lingerTrash"]

\* Mutant: a dying child lets its keep-alive connections wait.
LTimeoutPass_KeepsKeepalive(q, expired) ==
    /\ Turn(q) /\ batch = {}
    /\ \A c \in expired : toq[c] = q
    /\ q = "ka" /\ busy => {c \in Conns : toq[c] = "ka"} \subseteq expired
    /\ toq' = [c \in Conns |-> IF c \in expired THEN "no" ELSE toq[c]]
    /\ pollset' = pollset \ expired
    /\ batch' = expired
    /\ lat' = Sweep[q]
    /\ UNCHANGED <<fdvars, cst, countVars, flagVars, gateVars, lcur, busy, wat,
                   exitVars, armed, mainVars>>

(* process_timeout_queue: unlink under timeout_mutex what has expired in queue q;
   keep-alive connections go at once if the workers were busy or the child is
   dying. *)
LTimeoutPass(q, expired) ==
    /\ Turn(q) /\ batch = {}
    /\ \A c \in expired : toq[c] = q
    /\ q = "ka" /\ (busy \/ dying) => {c \in Conns : toq[c] = "ka"} \subseteq expired
    /\ toq' = [c \in Conns |-> IF c \in expired THEN "no" ELSE toq[c]]
    /\ pollset' = pollset \ expired
    /\ batch' = expired
    /\ lat' = Sweep[q]
    /\ UNCHANGED <<fdvars, cst, countVars, flagVars, gateVars, lcur, busy, wat,
                   exitVars, armed, mainVars>>

\* The callbacks: stop_lingering_close, or start_lingering_close_nonblocking
LExpire(c) ==
    /\ lat \in Sweeps /\ c \in batch
    /\ IF cst[c] = "lingering" THEN Closed(c) /\ InterruptIfDying
                               ELSE LingerNonblocking(c)
    /\ batch' = batch \ {c}
    /\ UNCHANGED <<flagVars, gateVars, lat, lcur, busy, wat, exitVars, armed,
                   mainVars>>

(* The end of the loop, with or without a pass over the timeout queues (one
   pass each 0.1 s): listen again if there are few enough connections.
   workers_were_busy is a variable of the loop's body. *)
LLoopEnd ==
    /\ lat \in {"batch"} \cup Sweeps /\ batch = {}
    /\ lat' = "top" /\ busy' = FALSE
    /\ IF disabled /\ ~busy /\ FewEnough
       THEN disabled' = FALSE /\ accepting' = ~dying
       ELSE UNCHANGED <<disabled, accepting>>
    /\ UNCHANGED <<fdvars, connVars, countVars, flagVars, dying, conns_this_child,
                   batch, lcur, wat, exitVars, armed, mainVars>>

LLeave ==
    /\ \/ lat = "leave" /\ QueueTerm /\ lat' = "broadcast"
       \/ lat = "broadcast" /\ QueueTermBroadcast /\ lat' = "gone"
    /\ batch' = {}
    /\ UNCHANGED <<connVars, countVars, flagVars, gateVars, lcur, busy, wat,
                   exitVars, armed, mainVars>>

Listener ==
    \/ LTop \/ LQuota \/ LPoll \/ LCheck \/ LTimersDone \/ LGetWorker
    \/ LDispatch \/ LAccept \/ LLoopEnd \/ LLeave
    \/ \E t \in Timers : LPushTimer(t)
    \/ \E c \in Conns : LReady(c) \/ LLinger(c) \/ LExpire(c)
    \/ \E l \in Listeners : LRefuse(l) \/ LAcceptReady(l)
    \/ \E q \in QueueNames \ {"no"}, expired \in SUBSET Conns : LTimeoutPass(q, expired)

-----------------------------------------------------------------------------
\* A worker thread: worker_thread and process_socket.

\* The loop test, then ap_queue_info_set_idle
WStart(w) ==
    /\ IF workers_may_exit THEN wpc[w] = "start" /\ Exit(w) ELSE SetIdle(w)
    /\ UNCHANGED <<connVars, countVars, flagVars, gateVars, loopVars, wat,
                   exitVars, armed, mainVars>>

(* worker_pop: leave if workers_may_exit; in a dying child read the number of
   connections for worker_thread_should_exit_early. *)
WTest(w) ==
    /\ wpc[w] = "pop" /\ chk[w] = "test"
    /\ IF workers_may_exit
       THEN Exit(w) /\ UNCHANGED <<chk, snap>>
       ELSE /\ chk' = [chk EXCEPT ![w] = IF dying THEN "decide" ELSE "go"]
            /\ snap' = [snap EXCEPT ![w] = IF dying THEN connection_count ELSE 0]
            /\ UNCHANGED fdvars
    /\ UNCHANGED <<connVars, countVars, flagVars, gateVars, loopVars, wat,
                   threads_shutdown, armed, mainVars>>

(* The rest of worker_thread_should_exit_early.  The compare-and-swap makes
   reading and incrementing threads_shutdown one step, not reading
   connection_count. *)
WDecide(w) ==
    /\ wpc[w] = "pop" /\ chk[w] = "decide"
    /\ IF snap[w] >= bounds - threads_shutdown
       THEN /\ chk' = [chk EXCEPT ![w] = "go"]
            /\ UNCHANGED <<fdvars, threads_shutdown>>
       ELSE /\ chk' = [chk EXCEPT ![w] = "test"]
            /\ threads_shutdown' = threads_shutdown + 1
            /\ Exit(w)
    /\ snap' = [snap EXCEPT ![w] = 0]
    /\ UNCHANGED <<connVars, countVars, flagVars, gateVars, loopVars, wat, armed,
                   mainVars>>

\* ap_queue_pop_something; EINTR leads back to worker_pop, EOF out of the loop
WPop(w) ==
    /\ \/ chk[w] = "go" /\ Pop(w)
       \/ WakeUp(w) \/ CheckTerm(w) \/ SignalListener(w)
    /\ chk' = [chk EXCEPT ![w] = "test"]
    /\ UNCHANGED <<connVars, countVars, flagVars, gateVars, loopVars, wat, snap,
                   threads_shutdown, armed, mainVars>>

\* A timer's callback; it may register the timer again.
WTimer(w) ==
    /\ FinishTimer(w)
    /\ armed' \in {armed, armed \cup {job[w]}}
    /\ UNCHANGED <<connVars, countVars, flagVars, gateVars, loopVars, wat,
                   exitVars, mainVars>>

\* process_socket is at point `at' with connection c
At(w, at, c) == wpc[w] = "busy" /\ wat[w] = at /\ job[w] = c

\* A new connection: ap_run_create_connection may refuse it.
WCreate(w) ==
    /\ \E c \in Conns :
          /\ At(w, "resume", c) /\ cst[c] = "new"
          /\ \/ /\ cst' = [cst EXCEPT ![c] = "none"]
                /\ wat' = [wat EXCEPT ![w] = "release"]
                /\ UNCHANGED connection_count
             \/ /\ cst' = [cst EXCEPT ![c] = "read"]
                /\ wat' = [wat EXCEPT ![w] = "serve"]
                /\ connection_count' = connection_count + 1
    /\ UNCHANGED <<fdvars, toq, pollset, lingering_count, suspended_count,
                   flagVars, gateVars, loopVars, exitVars, armed, mainVars>>

\* The connection w is working on
Serving(w, c) ==
    \/ At(w, "serve", c)
    \/ At(w, "resume", c) /\ cst[c] # "new"

\* The response cannot be written at once: park in the write-completion queue.
WParkWrite(w) ==
    /\ \E c \in Conns : Serving(w, c) /\ Parks(c, "wc")
    /\ wat' = [wat EXCEPT ![w] = "release"]
    /\ UNCHANGED <<fdvars, flagVars, gateVars, loopVars, exitVars, armed, mainVars>>

\* A keep-alive connection of a child that may not exit yet ...
WKeepAlive(w) ==
    /\ \E c \in Conns : Serving(w, c)
    /\ ~listener_may_exit
    /\ wat' = [wat EXCEPT ![w] = "park"]
    /\ UNCHANGED <<fdvars, connVars, countVars, flagVars, gateVars, loopVars,
                   exitVars, armed, mainVars>>

\* ... is parked in the keep-alive queue.
WPark(w) ==
    /\ \E c \in Conns : At(w, "park", c) /\ Parks(c, "ka")
    /\ wat' = [wat EXCEPT ![w] = "release"]
    /\ UNCHANGED <<fdvars, flagVars, gateVars, loopVars, exitVars, armed, mainVars>>

(* start_lingering_close_blocking.  Closing here interrupts nobody: the worker
   itself is about to pass worker_pop. *)
WLinger(w) ==
    /\ \E c \in Conns : Serving(w, c) /\ (Closed(c) \/ Lingers(c))
    /\ wat' = [wat EXCEPT ![w] = "release"]
    /\ UNCHANGED <<fdvars, flagVars, gateVars, loopVars, exitVars, armed, mainVars>>

\* A module takes the connection over (CONN_STATE_SUSPENDED) and keeps it.
WSuspend(w) ==
    /\ Suspends
    /\ \E c \in Conns : Serving(w, c) /\ cst' = [cst EXCEPT ![c] = "suspended"]
    /\ suspended_count' = suspended_count + 1
    /\ wat' = [wat EXCEPT ![w] = "release"]
    /\ UNCHANGED <<fdvars, toq, pollset, connection_count, lingering_count,
                   flagVars, gateVars, loopVars, exitVars, armed, mainVars>>

\* Mutant: is_idle stays 1 after a socket.
WRelease_StaysIdle(w) ==
    /\ wat[w] = "release" /\ wpc[w] = "busy"
    /\ wpc' = [wpc EXCEPT ![w] = "pop"]
    /\ job' = [job EXCEPT ![w] = NoConn]
    /\ wat' = [wat EXCEPT ![w] = "resume"]
    /\ UNCHANGED <<infoVars, ringVars, timers, qTerm, lpc, overrun, connVars,
                   countVars, flagVars, gateVars, loopVars, exitVars, armed, mainVars>>

\* process_socket returns: worker_sockets[thread_slot] = NULL, is_idle = 0
WRelease(w) ==
    /\ wat[w] = "release"
    /\ FinishSocket(w)
    /\ wat' = [wat EXCEPT ![w] = "resume"]
    /\ UNCHANGED <<connVars, countVars, flagVars, gateVars, loopVars, exitVars,
                   armed, mainVars>>

Worker(w) ==
    \/ WStart(w) \/ WTest(w) \/ WDecide(w) \/ WPop(w) \/ WTimer(w)
    \/ WCreate(w) \/ WParkWrite(w) \/ WKeepAlive(w) \/ WPark(w) \/ WLinger(w)
    \/ WSuspend(w) \/ WRelease(w)

-----------------------------------------------------------------------------
\* The main thread: the loop of child_main over the pipe of death, then
\* signal_threads and join_workers.

(* A message of the parent, or the mode a thread of this child has set; nothing
   is signalled twice. *)
MWatch(mode) ==
    /\ mat = "watch"
    /\ mode \in StopRequests \/ (mode = terminate_mode /\ mode # "init")
    /\ mmode' = mode
    /\ IF terminate_mode = mode
       THEN mat' = "join" /\ UNCHANGED <<terminate_mode, listener_may_exit>>
       ELSE mat' = "info" /\ terminate_mode' = mode /\ listener_may_exit' = TRUE
    /\ UNCHANGED <<fdvars, connVars, countVars, workers_may_exit, gateVars,
                   loopVars, wat, exitVars, armed, tries>>

\* ap_queue_info_term; an ungraceful stop also lets the workers go.
MInfo ==
    /\ mat = "info"
    /\ InfoTerm
    /\ mat' = IF mmode = "ungraceful" THEN "workers" ELSE "join"
    /\ UNCHANGED <<connVars, countVars, flagVars, gateVars, loopVars, wat,
                   exitVars, armed, mmode, tries>>

MWorkers ==
    /\ mat = "workers"
    /\ workers_may_exit' = TRUE
    /\ mat' = "interrupt"
    /\ UNCHANGED <<fdvars, connVars, countVars, terminate_mode, listener_may_exit,
                   gateVars, loopVars, wat, exitVars, armed, mmode, tries>>

(* ap_queue_interrupt_all, close_worker_sockets (whose effect, that serving a
   connection fails, may happen at any time in this model). *)
MInterrupt ==
    /\ mat = "interrupt"
    /\ InterruptAll
    /\ mat' = "join"
    /\ UNCHANGED <<connVars, countVars, flagVars, gateVars, loopVars, wat,
                   exitVars, armed, mmode, tries>>

\* join_workers: wake the listener again until it has stopped accepting
MWakeAgain ==
    /\ mat = "join" /\ ~dying /\ tries < JoinTries
    /\ tries' = tries + 1
    /\ listener_may_exit' = TRUE
    /\ InfoTerm
    /\ UNCHANGED <<connVars, countVars, terminate_mode, workers_may_exit, gateVars,
                   loopVars, wat, exitVars, armed, mat, mmode>>

Gone(w) == wpc[w] \in {"exited", "exitedIdle"}

\* join_workers has joined everybody; a listener that did not react is left.
MExit ==
    /\ mat = "join"
    /\ tries >= JoinTries \/ (dying /\ lat = "gone")
    /\ \A w \in Workers : Gone(w)
    /\ mat' = "exited"
    /\ UNCHANGED <<fdvars, connVars, countVars, flagVars, gateVars, loopVars, wat,
                   exitVars, armed, mmode, tries>>

Main ==
    \/ \E mode \in {"graceful", "ungraceful"} : MWatch(mode)
    \/ MInfo \/ MWorkers \/ MInterrupt \/ MWakeAgain \/ MExit

Next == mat # "exited" /\ (Listener \/ Main \/ \E w \in Workers : Worker(w))

Spec == Init /\ [][Next]_vars

(* The AP_DEBUG build, which stops when the ring would run over (see FdQueue);
   every other property is about what happens up to that point. *)
ChildSpec == Init /\ [][Next /\ ~overrun']_vars

-----------------------------------------------------------------------------
\* The connections worker w still owns
Owned(w) == {c \in Conns : job[w] = c /\ wpc[w] = "busy" /\ wat[w] # "release"}

\* The connections the listener has unlinked and not closed yet
Trashed == IF lat \in Sweeps THEN batch \cap Conns ELSE {}

(* No connection is ever in two hands, or in none: an open connection is in the
   ring once, or with one worker, or parked in a timeout queue, or unlinked by
   the listener, or suspended (pre-conditions of push2worker,
   start_lingering_close_* and process_lingering_close). *)
Ownership ==
    \A c \in Conns :
        LET inRing   == {i \in DOMAIN Pending : Pending[i] = c}
            owners   == {w \in Workers : c \in Owned(w)}
            parked   == IF toq[c] # "no" THEN {c} ELSE {}
            trashed  == {c} \cap Trashed
            detached == IF cst[c] = "suspended" THEN {c} ELSE {}
        IN Cardinality(inRing) + Cardinality(owners) + Cardinality(parked)
             + Cardinality(trashed) + Cardinality(detached)
           = IF cst[c] = "none" THEN 0 ELSE 1

(* What the listener polled is still parked when it gets to it, in a state its
   switch expects: the ap_assert(0) of "unexpected state" is never reached. *)
ExpectedState ==
    lat \in {"timers", "batch", "get"} =>
        \A c \in batch \cap Conns :
            /\ c \in pollset
            /\ cst[c] \in {"ka", "wc", "lingering"} \/ c = lcur

(* "connections are added/removed atomically to/from both event_pollset and a
   timeout queue" (comment at event_pollset). *)
PollsetInSync == pollset = {c \in Conns : toq[c] # "no"}

(* connection_count and lingering_count are exact, so the listener leaves a
   graceful shutdown (connection_count == 0) neither early nor never. *)
CountsExact ==
    /\ connection_count = Cardinality({c \in Conns : cst[c] \notin {"none", "new"}})
    /\ lingering_count = Cardinality({c \in Conns : cst[c] = "lingering"})
    /\ suspended_count = Cardinality({c \in Conns : cst[c] = "suspended"})

(* MaxConnectionsPerChild: check_infinite_requests looks once per loop, so one
   batch of ready listening sockets is all that can be accepted beyond it. *)
QuotaOvershoot == conns_this_child > -Cardinality(Listeners)

(* An ungraceful stop does not wait for connections ("we definitely don't want
   to wait for active connections to finish"): a listener that tests
   listener_may_exit after the workers were told to go leaves its loop. *)
UngracefulLeavesAtOnce ==
    [][workers_may_exit /\ lat \in {"top", "poll", "check"}
           => lat' \in {lat, "top", "check", "leave"}]_vars

(* worker_thread: "We get APR_EOF during a graceful shutdown once all the
   connections accepted by this server process have been handled." *)
EofMeansHandled ==
    [][\A w \in Workers :
         wpc[w] = "empty" /\ wpc'[w] = "exitedIdle" /\ terminate_mode = "graceful"
           => \A c \in Conns : cst[c] = "none"]_vars

-----------------------------------------------------------------------------
(* Fairness.  Every thread keeps running.  Polls are not interrupted for ever,
   the timeout queues are looked at every 0.1 s, write-completion and lingering
   timeouts are finite (nothing is said of KeepAliveTimeout), and a response
   ends: its client reads it or goes away. *)
TimesOut(c) ==
    /\ toq[c] \in {"wc", "linger"}
    /\ \E expired \in SUBSET Conns : c \in expired /\ LTimeoutPass(toq[c], expired)

Fairness ==
    /\ WF_vars(Listener) /\ SF_vars(LPoll /\ lat' # "top")
    /\ SF_vars(\E expired \in SUBSET Conns : LTimeoutPass("ka", expired))
    /\ \A c \in Conns : SF_vars(TimesOut(c))
    /\ \A w \in Workers : WF_vars(Worker(w)) /\ SF_vars(WLinger(w))
    /\ WF_vars(Main /\ (mat = "watch" => terminate_mode # "init"))

FairSpec == ChildSpec /\ Fairness

(* Sockets are queued and every worker has left: nobody will pop them. *)
Stranded == Queued # {} /\ \A w \in Workers : Gone(w)

(* The manual: gracefully finishing processes are forced to close their
   connections in keep-alive state. *)
KeepaliveForcedClosed ==
    \A c \in Conns : dying /\ toq[c] = "ka" ~> toq[c] # "ka" \/ lat = "gone"

(* wakeup_listener: "unblock the listener if it's waiting for a worker". *)
StopUnblocksListener ==
    infoTerm /\ lpc = "blocked" ~> lpc # "blocked" \/ mat = "exited"

(* A stop requested by the parent, or begun by the child itself, ends with the
   process gone, unless a socket was stranded. *)
StopEnds == terminate_mode # "init" ~> mat = "exited" \/ Stranded
=============================================================================

--------------------------- MODULE RecycledPools ---------------------------
(***************************************************************************)
(* The recycled transaction pools of server/mpm/event/fdqueue.c: a linked  *)
(* list changed by compare-and-swap, a count and a limit that are read and *)
(* changed apart from it.  Any thread pushes (ap_push_pool); only the      *)
(* listener pops (ap_pop_pool): for a new connection, or to empty the list *)
(* when the listening sockets are closed (ap_free_idle_pools).             *)
(*                                                                         *)
(* The accesses to shared memory that matter are steps of their own: the   *)
(* loads of the count, of the head and of a `next', and each atomic call.  *)
(* The list node of a pool lies in the memory of that pool: its `next' is  *)
(* dead once the pool is unlinked, and Null here.  `stack' is a history    *)
(* variable: the pools linked by successful swaps and not yet unlinked,    *)
(* the last one first.                                                     *)
(***************************************************************************)
EXTENDS Integers, Sequences, FiniteSets

CONSTANTS
    Workers, Listener,
    Pools,      \* as many transaction pools as may exist at once
    Null,       \* the null pointer
    UIntSize    \* the values of apr_uint32_t

\* MAX_THREAD_LIMIT keeps the number of workers far below 2^31.
ASSUME PoolsAssumption ==
    /\ IsFiniteSet(Workers) /\ Listener \notin Workers
    /\ Null \notin Pools
    /\ UIntSize \in Nat /\ 2 * Cardinality(Workers) + 1 < UIntSize

Threads == Workers \cup {Listener}

\* start_threads: no limit, or one derived from ThreadsPerChild if MaxMemFree
\* is set
Limits == {-1, (Cardinality(Workers) * 3) \div 4}

VARIABLES
    recycled_pools,         \* head of the list
    next,                   \* recycled_pool.next, in the memory of the pool
    recycled_pools_count, max_recycled_pools,
    configured,             \* max_recycled_pools at start-up
    stack,                  \* the list (history variable)
    place,                  \* who has a pool
    pc,                     \* where a thread is in push or pop
    mine,                   \* pool_to_recycle
    seen,                   \* cnt in ap_push_pool
    top,                    \* next in ap_push_pool
    first, after,           \* first_pool and first_pool->next in ap_pop_pool
    draining,               \* ap_pop_pool was called by ap_free_idle_pools
    closed,                 \* close_listeners has been called
    exited                  \* pchild is being destroyed

listVars  == <<recycled_pools, next, stack>>
countVars == <<recycled_pools_count, max_recycled_pools, configured>>
pushVars  == <<mine, seen, top>>
popVars   == <<first, after, draining>>
vars == <<listVars, countVars, place, pc, pushVars, popVars, closed, exited>>

PushPoints == {"compare", "inc", "load", "cas"}
PopPoints  == {"pload", "pnext", "pcas", "pdec"}

TypeOK ==
    /\ recycled_pools \in Pools \cup {Null}
    /\ next \in [Pools -> Pools \cup {Null}]
    /\ recycled_pools_count \in 0 .. UIntSize - 1
    /\ configured \in Limits /\ max_recycled_pools \in {configured, 0}
    /\ stack \in Seq(Pools)
    /\ place \in [Pools -> {"none", "conn", "pushing", "listed", "popped"}]
    /\ pc \in [Threads -> {"idle"} \cup PushPoints \cup PopPoints]
    /\ mine \in [Threads -> Pools \cup {Null}]
    /\ seen \in [Threads -> 0 .. UIntSize - 1]
    /\ top \in [Threads -> Pools \cup {Null}]
    /\ first \in Pools \cup {Null} /\ after \in Pools \cup {Null}
    /\ draining \in BOOLEAN /\ closed \in BOOLEAN /\ exited \in BOOLEAN

\* ap_queue_info_create
Init ==
    /\ recycled_pools = Null
    /\ next = [p \in Pools |-> Null]
    /\ recycled_pools_count = 0
    /\ configured \in Limits /\ max_recycled_pools = configured
    /\ stack = <<>>
    /\ place = [p \in Pools |-> "none"]
    /\ pc = [t \in Threads |-> "idle"]
    /\ mine = [t \in Threads |-> Null]
    /\ seen = [t \in Threads |-> 0]
    /\ top = [t \in Threads |-> Null]
    /\ first = Null /\ after = Null
    /\ draining = FALSE /\ closed = FALSE /\ exited = FALSE

GoTo(t, point) == pc' = [pc EXCEPT ![t] = point]

\* A thread leaves ap_push_pool; its local variables are gone.
PushReturn(t) ==
    /\ GoTo(t, "idle")
    /\ mine' = [mine EXCEPT ![t] = Null]
    /\ seen' = [seen EXCEPT ![t] = 0]
    /\ top' = [top EXCEPT ![t] = Null]

\* ap_pop_pool starts over, or its caller goes on.
PopReturn(point) ==
    /\ GoTo(Listener, point)
    /\ first' = Null /\ after' = Null

At(t, point)   == pc[t] = point /\ ~exited

-----------------------------------------------------------------------------
(* ap_push_pool *)

(* A thread ends a connection and gives its pool back.  With a limit it reads
   the count; the two loads are one step, as the limit only changes to 0, which
   the comparison below sees. *)
PushEnter(t, p) ==
    /\ At(t, "idle") /\ place[p] = "conn"
    /\ place' = [place EXCEPT ![p] = "pushing"]
    /\ mine' = [mine EXCEPT ![t] = p]
    /\ \/ /\ max_recycled_pools >= 0
          /\ seen' = [seen EXCEPT ![t] = recycled_pools_count]
          /\ GoTo(t, "compare")
       \/ /\ max_recycled_pools < 0
          /\ GoTo(t, "load") /\ UNCHANGED seen
    /\ UNCHANGED <<listVars, countVars, top, popVars, closed, exited>>

\* Mutant: the test admits one pool too many.
PushCompare_OffByOne(t) ==
    /\ At(t, "compare")
    /\ \/ /\ seen[t] > max_recycled_pools
          /\ place' = [place EXCEPT ![mine[t]] = "none"]
          /\ PushReturn(t)
       \/ /\ seen[t] <= max_recycled_pools
          /\ GoTo(t, "inc")
          /\ UNCHANGED <<place, pushVars>>
    /\ UNCHANGED <<listVars, countVars, popVars, closed, exited>>

\* Mutant: the pool is admitted without being counted.
PushCompare_NotCounted(t) ==
    /\ At(t, "compare")
    /\ \/ /\ seen[t] >= max_recycled_pools
          /\ place' = [place EXCEPT ![mine[t]] = "none"]
          /\ PushReturn(t)
       \/ /\ seen[t] < max_recycled_pools
          /\ GoTo(t, "load")
          /\ UNCHANGED <<place, pushVars>>
    /\ UNCHANGED <<listVars, countVars, popVars, closed, exited>>

\* The count read before is compared with the limit of now.
PushCompare(t) ==
    /\ At(t, "compare")
    /\ \/ /\ seen[t] >= max_recycled_pools
          /\ place' = [place EXCEPT ![mine[t]] = "none"]    \* apr_pool_destroy
          /\ PushReturn(t)
       \/ /\ seen[t] < max_recycled_pools
          /\ GoTo(t, "inc")
          /\ UNCHANGED <<place, pushVars>>
    /\ UNCHANGED <<listVars, countVars, popVars, closed, exited>>

PushCount(t) ==
    /\ At(t, "inc")
    /\ recycled_pools_count' = (recycled_pools_count + 1) % UIntSize
    /\ GoTo(t, "load")
    /\ UNCHANGED <<listVars, max_recycled_pools, configured, place, pushVars,
                   popVars, closed, exited>>

\* The pool is cleared, the node allocated in it and linked to the head read.
PushLoad(t) ==
    /\ At(t, "load")
    /\ top' = [top EXCEPT ![t] = recycled_pools]
    /\ next' = [next EXCEPT ![mine[t]] = recycled_pools]
    /\ GoTo(t, "cas")
    /\ UNCHANGED <<recycled_pools, stack, countVars, place, mine, seen, popVars,
                   closed, exited>>

\* Mutant: a failed swap is tried again without linking to the new head.
PushSwap_KeepsNext(t) ==
    /\ At(t, "cas")
    /\ \/ /\ recycled_pools = top[t]
          /\ recycled_pools' = mine[t]
          /\ stack' = <<mine[t]>> \o stack
          /\ place' = [place EXCEPT ![mine[t]] = "listed"]
          /\ PushReturn(t)
       \/ /\ recycled_pools # top[t]
          /\ top' = [top EXCEPT ![t] = recycled_pools]
          /\ UNCHANGED <<recycled_pools, stack, place, pc, mine, seen>>
    /\ UNCHANGED <<next, countVars, popVars, closed, exited>>

PushSwap(t) ==
    /\ At(t, "cas")
    /\ \/ /\ recycled_pools = top[t]
          /\ recycled_pools' = mine[t]
          /\ stack' = <<mine[t]>> \o stack
          /\ place' = [place EXCEPT ![mine[t]] = "listed"]
          /\ PushReturn(t)
       \/ /\ recycled_pools # top[t]
          /\ GoTo(t, "load")
          /\ UNCHANGED <<recycled_pools, stack, place, pushVars>>
    /\ UNCHANGED <<next, countVars, popVars, closed, exited>>

-----------------------------------------------------------------------------
(* ap_pop_pool and its two callers *)

\* The listener wants a pool for a connection it is going to accept.
WantPool ==
    /\ At(Listener, "idle")
    /\ \E p \in Pools : place[p] = "none"       \* bound: Pools
    /\ draining' = FALSE
    /\ GoTo(Listener, "pload")
    /\ UNCHANGED <<listVars, countVars, place, pushVars, first, after, closed, exited>>

\* Mutant: the limit is not set to 0.
FreeIdlePools_KeepsLimit ==
    /\ At(Listener, "idle") /\ ~closed
    /\ closed' = TRUE /\ draining' = TRUE
    /\ GoTo(Listener, "pload")
    /\ UNCHANGED <<listVars, countVars, place, pushVars, first, after, exited>>

\* close_listeners calls ap_free_idle_pools, once.
FreeIdlePools ==
    /\ At(Listener, "idle") /\ ~closed
    /\ closed' = TRUE /\ draining' = TRUE
    /\ max_recycled_pools' = 0
    /\ GoTo(Listener, "pload")
    /\ UNCHANGED <<listVars, recycled_pools_count, configured, place, pushVars,
                   first, after, exited>>

\* On an empty list the caller ends its loop, or creates a pool.
PopLoad ==
    /\ At(Listener, "pload")
    /\ \/ /\ recycled_pools # Null
          /\ first' = recycled_pools
          /\ GoTo(Listener, "pnext")
          /\ UNCHANGED <<place, after>>
       \/ /\ recycled_pools = Null /\ draining
          /\ PopReturn("idle")
          /\ UNCHANGED place
       \/ /\ recycled_pools = Null /\ ~draining
          /\ LET p == CHOOSE q \in Pools : place[q] = "none"
             IN  place' = [place EXCEPT ![p] = "conn"]
          /\ PopReturn("idle")
    /\ UNCHANGED <<listVars, countVars, pushVars, draining, closed, exited>>

PopNext ==
    /\ At(Listener, "pnext")
    /\ after' = next[first]
    /\ GoTo(Listener, "pcas")
    /\ UNCHANGED <<listVars, countVars, place, pushVars, first, draining, closed, exited>>

\* Mutant: a failed swap is tried again with the head read before.
PopSwap_NoReload ==
    /\ At(Listener, "pcas") /\ recycled_pools = first
    /\ recycled_pools' = after
    /\ stack' = Tail(stack)
    /\ next' = [next EXCEPT ![first] = Null]
    /\ place' = [place EXCEPT ![first] = "popped"]
    /\ GoTo(Listener, "pdec")
    /\ UNCHANGED <<countVars, pushVars, popVars, closed, exited>>

PopSwap ==
    /\ At(Listener, "pcas")
    /\ \/ /\ recycled_pools = first
          /\ recycled_pools' = after
          /\ stack' = Tail(stack)
          /\ next' = [next EXCEPT ![first] = Null]
          /\ place' = [place EXCEPT ![first] = "popped"]
          /\ GoTo(Listener, "pdec")
       \/ /\ recycled_pools # first
          /\ GoTo(Listener, "pload")
          /\ UNCHANGED <<listVars, place>>
    /\ UNCHANGED <<countVars, pushVars, popVars, closed, exited>>

\* Mutant: the count is signed.
PopCount_Signed ==
    /\ At(Listener, "pdec")
    /\ recycled_pools_count' =
           IF max_recycled_pools >= 0 THEN recycled_pools_count - 1
                                      ELSE recycled_pools_count
    /\ place' = [place EXCEPT ![first] = IF draining THEN "none" ELSE "conn"]
    /\ PopReturn(IF draining THEN "pload" ELSE "idle")
    /\ UNCHANGED <<listVars, max_recycled_pools, configured, pushVars, draining,
                   closed, exited>>

\* The count is given back; the pool is used, or destroyed by the drain loop.
PopCount ==
    /\ At(Listener, "pdec")
    /\ recycled_pools_count' =
           IF max_recycled_pools >= 0 THEN (recycled_pools_count - 1) % UIntSize
                                      ELSE recycled_pools_count
    /\ place' = [place EXCEPT ![first] = IF draining THEN "none" ELSE "conn"]
    /\ PopReturn(IF draining THEN "pload" ELSE "idle")
    /\ UNCHANGED <<listVars, max_recycled_pools, configured, pushVars, draining,
                   closed, exited>>

-----------------------------------------------------------------------------
(* queue_info_cleanup: the threads have been joined, the child exits. *)

ChildExit ==
    /\ closed /\ ~exited /\ \A t \in Threads : pc[t] = "idle"
    /\ exited' = TRUE
    /\ UNCHANGED <<listVars, countVars, place, pc, pushVars, popVars, closed>>

CleanupOne ==
    /\ exited /\ recycled_pools # Null
    /\ recycled_pools' = next[recycled_pools]
    /\ stack' = Tail(stack)
    /\ next' = [next EXCEPT ![recycled_pools] = Null]
    /\ place' = [place EXCEPT ![recycled_pools] = "none"]
    /\ UNCHANGED <<countVars, pc, pushVars, popVars, closed, exited>>

ThreadStep(t) ==
    PushCompare(t) \/ PushCount(t) \/ PushLoad(t) \/ PushSwap(t)

PopStep == PopLoad \/ PopNext \/ PopSwap \/ PopCount

Next ==
    \/ \E t \in Threads : ThreadStep(t) \/ \E p \in Pools : PushEnter(t, p)
    \/ WantPool \/ FreeIdlePools \/ PopStep
    \/ ChildExit \/ CleanupOne

Spec == Init /\ [][Next]_vars

\* The scheduler runs every thread that is inside a push or a pop.
FairSpec ==
    /\ Spec
    /\ \A t \in Threads : WF_vars(ThreadStep(t))
    /\ WF_vars(PopStep)

-----------------------------------------------------------------------------
(* Properties *)

\* Threads that have passed the limit test and not yet linked their pool
Admitted == {t \in Threads : pc[t] \in {"inc", "load", "cas"}}

\* Of these, the ones that have counted it; and a pool that is no longer linked
\* but still counted
Linking  == {t \in Threads : pc[t] \in {"load", "cas"}}
Unlinked == IF pc[Listener] = "pdec" THEN 1 ELSE 0

(* The memory spells out the list: the head and the `next' pointers of the
   linked pools lead through exactly the pools that were pushed and not popped,
   each once, and none of them is in use, whatever pushes run between the loads
   and the swap of the listener's pop. *)
ChainIntact ==
    /\ recycled_pools = IF stack = <<>> THEN Null ELSE stack[1]
    /\ \A i \in 1 .. Len(stack) :
           /\ next[stack[i]] = IF i < Len(stack) THEN stack[i + 1] ELSE Null
           /\ place[stack[i]] = "listed"
           /\ \A j \in 1 .. Len(stack) : stack[i] = stack[j] => i = j

(* With a limit, recycled_pools_count is the length of the list, up to the pools
   counted but not yet linked and the one unlinked but not yet discounted. *)
CountExact ==
    configured >= 0 /\ ~exited =>
        recycled_pools_count = Len(stack) + Cardinality(Linking) + Unlinked

(* The count is tested and incremented in two steps, so the list may grow past
   max_recycled_pools, but only by one pool for each other thread. *)
OvershootBounded ==
    configured > 0 => Len(stack) <= configured + Cardinality(Threads) - 1

(* After ap_free_idle_pools has emptied the list, only pools whose push had
   passed the limit test before are linked: one for each worker. *)
LateLinksBounded ==
    closed /\ pc[Listener] \notin PopPoints =>
        Len(stack) + Cardinality(Admitted) <= Cardinality(Workers)

\* ap_free_idle_pools ends although workers push concurrently.
DrainEnds == (closed /\ draining /\ pc[Listener] \in PopPoints) ~> (pc[Listener] = "idle")

=============================================================================

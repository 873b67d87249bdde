------------------------ MODULE RecycledPoolsProofs ------------------------
(***************************************************************************)
(* The list of recycled pools stays a list, for any number of workers and  *)
(* pools, although it is changed without a lock; its count is exact and    *)
(* bounds its length, although it is tested and changed in separate steps. *)
(***************************************************************************)
EXTENDS RecycledPools, FiniteSetTheorems, TLAPS

LEMMA LenOfEmpty == Len(<<>>) = 0
OBVIOUS

LEMMA PushedStack ==
    ASSUME NEW s \in Seq(Pools), NEW m \in Pools
    PROVE  /\ <<m>> \o s \in Seq(Pools)
           /\ Len(<<m>> \o s) = Len(s) + 1
           /\ (<<m>> \o s)[1] = m
           /\ \A i \in 1 .. Len(s) : (<<m>> \o s)[i + 1] = s[i]
OBVIOUS

LEMMA PoppedStack ==
    ASSUME NEW s \in Seq(Pools), s # <<>>
    PROVE  /\ Tail(s) \in Seq(Pools)
           /\ Len(s) >= 1 /\ Len(Tail(s)) = Len(s) - 1
           /\ \A i \in 1 .. Len(s) - 1 : Tail(s)[i] = s[i + 1]
OBVIOUS

-----------------------------------------------------------------------------
(* The inductive invariant *)

\* A pool that is being given back belongs to one thread.
OwnPools ==
    \A t \in Threads : pc[t] \in PushPoints =>
        /\ mine[t] \in Pools /\ place[mine[t]] = "pushing"
        /\ \A u \in Threads : pc[u] \in PushPoints /\ mine[u] = mine[t] => u = t

\* What a thread is about to swap in is linked to the head it expects.
LinkedToTop == \A t \in Threads : pc[t] = "cas" => next[mine[t]] = top[t]

(* The head the listener has read is still in the list, since nobody else pops,
   and what followed it still does: the swap cannot succeed on a pool that was
   popped and pushed again (no ABA). *)
PopSeesList ==
    /\ pc[Listener] \in {"pnext", "pcas"} => \E i \in 1 .. Len(stack) : stack[i] = first
    /\ pc[Listener] = "pcas" => after = next[first]
    /\ pc[Listener] = "pdec" => first \in Pools /\ place[first] = "popped"

\* Bound Pools: a pool can be created for the connection to be accepted.
RoomToCreate ==
    pc[Listener] \in {"pload", "pnext", "pcas"} /\ ~draining =>
        \E p \in Pools : place[p] = "none"

Joined == exited => \A t \in Threads : pc[t] = "idle"

ListInv ==
    /\ TypeOK
    /\ ChainIntact
    /\ OwnPools
    /\ LinkedToTop
    /\ PopSeesList
    /\ RoomToCreate
    /\ Joined

-----------------------------------------------------------------------------
(* The list is left alone when its pools keep their links and their place. *)

LEMMA ChainKept ==
    ASSUME TypeOK, ChainIntact, UNCHANGED <<recycled_pools, stack>>,
           \A p \in Pools : place[p] = "listed" => next'[p] = next[p] /\ place'[p] = "listed"
    PROVE  ChainIntact'
<1>1. \A i \in 1 .. Len(stack) : stack[i] \in Pools /\ place[stack[i]] = "listed"
  BY DEF TypeOK, ChainIntact
<1>2. \A i \in 1 .. Len(stack) :
         next'[stack[i]] = next[stack[i]] /\ place'[stack[i]] = "listed"
  BY <1>1
<1> QED
  BY <1>2 DEF ChainIntact

LEMMA PopKept ==
    ASSUME ListInv, UNCHANGED <<stack, first, after, draining>>,
           pc'[Listener] = pc[Listener] \/ pc'[Listener] \notin PopPoints,
           \A p \in Pools : place[p] = "listed" => next'[p] = next[p],
           \A p \in Pools : place[p] \in {"popped", "none"} => place'[p] = place[p]
    PROVE  PopSeesList' /\ RoomToCreate'
<1>1. \A i \in 1 .. Len(stack) : stack[i] \in Pools /\ place[stack[i]] = "listed"
  BY DEF ListInv, TypeOK, ChainIntact
<1>2. CASE pc'[Listener] \notin PopPoints
  BY <1>2 DEF PopSeesList, RoomToCreate, PopPoints
<1>3. CASE pc'[Listener] = pc[Listener]
  <2>1. pc[Listener] \in {"pnext", "pcas"} => next'[first] = next[first]
    BY <1>1 DEF ListInv, PopSeesList
  <2>2. PopSeesList'
    BY <1>3, <2>1 DEF ListInv, PopSeesList
  <2>3. RoomToCreate'
    BY <1>3 DEF ListInv, RoomToCreate
  <2> QED
    BY <2>2, <2>3
<1> QED
  BY <1>2, <1>3

LEMMA CountInRange ==
    ASSUME NEW n \in 0 .. UIntSize - 1
    PROVE  /\ (n + 1) % UIntSize \in 0 .. UIntSize - 1
           /\ (n - 1) % UIntSize \in 0 .. UIntSize - 1
           /\ 0 \in 0 .. UIntSize - 1
<1>1. Cardinality(Workers) \in Nat
  BY PoolsAssumption, FS_CardinalityType
<1>2. UIntSize \in Nat /\ UIntSize > 0
  BY <1>1, PoolsAssumption
<1> QED
  BY <1>2

LEMMA PushReturnTyped ==
    ASSUME TypeOK, NEW t \in Threads, PushReturn(t)
    PROVE  /\ pc' \in [Threads -> {"idle"} \cup PushPoints \cup PopPoints]
           /\ mine' \in [Threads -> Pools \cup {Null}]
           /\ seen' \in [Threads -> 0 .. UIntSize - 1]
           /\ top' \in [Threads -> Pools \cup {Null}]
<1>1. 0 \in 0 .. UIntSize - 1
  BY CountInRange DEF TypeOK
<1>2. pc' \in [Threads -> {"idle"} \cup PushPoints \cup PopPoints]
  BY DEF TypeOK, PushReturn, GoTo
<1>3. seen' \in [Threads -> 0 .. UIntSize - 1]
  BY <1>1 DEF TypeOK, PushReturn
<1>4. /\ mine' \in [Threads -> Pools \cup {Null}]
      /\ top' \in [Threads -> Pools \cup {Null}]
  BY DEF TypeOK, PushReturn
<1> QED
  BY <1>2, <1>3, <1>4

-----------------------------------------------------------------------------
(* Pushing *)

LEMMA PushEnterKeeps ==
    ASSUME ListInv, NEW t \in Threads, NEW p \in Pools, PushEnter(t, p)
    PROVE  ListInv'
<1> USE DEF ListInv, PushEnter, At, GoTo, listVars, countVars, popVars
<1>1. TypeOK'
  BY DEF TypeOK, PushPoints
<1>2. ChainIntact'
  BY ChainKept DEF TypeOK
<1>3. OwnPools'
  BY DEF OwnPools, TypeOK, PushPoints
<1>4. LinkedToTop' /\ Joined'
  BY DEF LinkedToTop, Joined, TypeOK
<1>5. PopSeesList' /\ RoomToCreate'
  BY PopKept DEF TypeOK, Threads, PopPoints
<1> QED
  BY <1>1, <1>2, <1>3, <1>4, <1>5

LEMMA PushCompareKeeps ==
    ASSUME ListInv, NEW t \in Threads, PushCompare(t)
    PROVE  ListInv'
<1> USE DEF ListInv, PushCompare, PushReturn, At, GoTo, listVars, countVars, pushVars,
            popVars
<1>0. mine[t] \in Pools /\ place[mine[t]] = "pushing"
  BY DEF OwnPools, PushPoints
<1>1. TypeOK'
  <2>2. place' \in [Pools -> {"none", "conn", "pushing", "listed", "popped"}]
    BY DEF TypeOK
  <2>3. /\ pc' \in [Threads -> {"idle"} \cup PushPoints \cup PopPoints]
        /\ mine' \in [Threads -> Pools \cup {Null}]
        /\ seen' \in [Threads -> 0 .. UIntSize - 1]
        /\ top' \in [Threads -> Pools \cup {Null}]
    <3>1. CASE PushReturn(t)
      BY <3>1, PushReturnTyped, Zenon
    <3>2. CASE GoTo(t, "inc") /\ UNCHANGED pushVars
      BY <3>2 DEF TypeOK, PushPoints
    <3> QED
      BY <3>1, <3>2, Zenon DEF PushCompare
  <2> QED
    BY <2>2, <2>3 DEF TypeOK
<1>2. ChainIntact'
  BY <1>0, ChainKept DEF TypeOK
<1>3. OwnPools'
  <2>1. \A u \in Threads : u # t => pc'[u] = pc[u] /\ mine'[u] = mine[u]
    BY DEF TypeOK
  <2>2. \A u \in Threads : u # t /\ pc[u] \in PushPoints =>
           mine[u] # mine[t] /\ place'[mine[u]] = "pushing"
    BY <1>0 DEF OwnPools, TypeOK, PushPoints
  <2>3. pc'[t] = "idle" \/ (pc'[t] = "inc" /\ UNCHANGED <<mine, place>>)
    BY DEF TypeOK
  <2> QED
    BY <1>0, <2>1, <2>2, <2>3 DEF OwnPools, PushPoints
<1>4. LinkedToTop' /\ Joined'
  BY DEF LinkedToTop, Joined, TypeOK
<1>5. PopSeesList' /\ RoomToCreate'
  BY <1>0, PopKept DEF TypeOK, Threads, PopPoints
<1> QED
  BY <1>1, <1>2, <1>3, <1>4, <1>5

LEMMA PushCountKeeps ==
    ASSUME ListInv, NEW t \in Threads, PushCount(t)
    PROVE  ListInv'
<1> USE DEF ListInv, PushCount, At, GoTo, listVars, pushVars, popVars
<1>1. TypeOK'
  <2>1. recycled_pools_count' \in 0 .. UIntSize - 1
    BY CountInRange DEF TypeOK
  <2> QED
    BY <2>1 DEF TypeOK, PushPoints
<1>2. ChainIntact'
  BY ChainKept DEF TypeOK
<1>3. OwnPools'
  BY DEF OwnPools, TypeOK, PushPoints
<1>4. LinkedToTop' /\ Joined'
  BY DEF LinkedToTop, Joined, TypeOK
<1>5. PopSeesList' /\ RoomToCreate'
  BY DEF PopSeesList, RoomToCreate, TypeOK
<1> QED
  BY <1>1, <1>2, <1>3, <1>4, <1>5

LEMMA PushLoadKeeps ==
    ASSUME ListInv, NEW t \in Threads, PushLoad(t)
    PROVE  ListInv'
<1> USE DEF ListInv, PushLoad, At, GoTo, countVars, popVars
<1>0. mine[t] \in Pools /\ place[mine[t]] = "pushing"
  BY DEF OwnPools, PushPoints
<1>1. TypeOK'
  BY <1>0 DEF TypeOK, PushPoints
<1>2. ChainIntact'
  BY <1>0, ChainKept DEF TypeOK
<1>3. OwnPools'
  BY DEF OwnPools, TypeOK, PushPoints
<1>4. LinkedToTop'
  BY <1>0 DEF LinkedToTop, OwnPools, TypeOK, PushPoints
<1>5. Joined' /\ RoomToCreate'
  BY DEF Joined, RoomToCreate, TypeOK
<1>6. PopSeesList'
  <2>1. \A i \in 1 .. Len(stack) : stack[i] \in Pools /\ stack[i] # mine[t]
    BY <1>0 DEF TypeOK, ChainIntact
  <2> QED
    BY <1>0, <2>1 DEF PopSeesList, TypeOK
<1> QED
  BY <1>1, <1>2, <1>3, <1>4, <1>5, <1>6

\* The successful swap puts the pool of the thread in front of the list.
LEMMA PushSwapKeeps ==
    ASSUME ListInv, NEW t \in Threads, PushSwap(t)
    PROVE  ListInv'
<1> USE DEF ListInv, PushSwap, PushReturn, At, GoTo, countVars, pushVars, popVars
<1>0. mine[t] \in Pools /\ place[mine[t]] = "pushing"
  BY DEF OwnPools, PushPoints
<1>1. CASE recycled_pools # top[t]
  <2>1. TypeOK'
    BY <1>1 DEF TypeOK, PushPoints
  <2>2. ChainIntact'
    BY <1>1, ChainKept DEF TypeOK
  <2>3. OwnPools'
    BY <1>1 DEF OwnPools, TypeOK, PushPoints
  <2>4. LinkedToTop' /\ Joined'
    BY <1>1 DEF LinkedToTop, Joined, TypeOK
  <2>5. PopSeesList' /\ RoomToCreate'
    BY <1>1, PopKept DEF TypeOK, Threads, PopPoints
  <2> QED
    BY <2>1, <2>2, <2>3, <2>4, <2>5
<1>2. CASE recycled_pools = top[t]
  <2>0. /\ stack \in Seq(Pools) /\ Len(stack) \in Nat
        /\ \A i \in 1 .. Len(stack) : stack[i] \in Pools
        /\ \A i \in 1 .. Len(stack) : stack[i] # mine[t]
    BY <1>0 DEF TypeOK, ChainIntact
  <2>1. /\ stack' = <<mine[t]>> \o stack
        /\ recycled_pools' = mine[t] /\ next' = next
        /\ place' = [place EXCEPT ![mine[t]] = "listed"]
    BY <1>2
  <2>2. /\ stack' \in Seq(Pools) /\ Len(stack') = Len(stack) + 1
        /\ stack'[1] = mine[t]
        /\ \A i \in 1 .. Len(stack) : stack'[i + 1] = stack[i]
    BY <1>0, <2>0, <2>1, PushedStack
  <2>3. next[mine[t]] = recycled_pools
    BY <1>2 DEF LinkedToTop
  <2>4. TypeOK'
    <3>1. PushReturn(t)
      BY <1>2
    <3>2. /\ place' \in [Pools -> {"none", "conn", "pushing", "listed", "popped"}]
          /\ recycled_pools' \in Pools
      BY <1>0, <2>1 DEF TypeOK
    <3>3. /\ pc' \in [Threads -> {"idle"} \cup PushPoints \cup PopPoints]
          /\ mine' \in [Threads -> Pools \cup {Null}]
          /\ seen' \in [Threads -> 0 .. UIntSize - 1]
          /\ top' \in [Threads -> Pools \cup {Null}]
      BY <3>1, PushReturnTyped, Zenon
    <3> QED
      BY <2>2, <3>2, <3>3 DEF TypeOK
  <2>5. ChainIntact'
    <3>1. recycled_pools' = IF stack' = <<>> THEN Null ELSE stack'[1]
      BY <2>0, <2>1, <2>2
    <3>2. ASSUME NEW i \in 1 .. Len(stack')
          PROVE  /\ next'[stack'[i]] = IF i < Len(stack') THEN stack'[i + 1] ELSE Null
                 /\ place'[stack'[i]] = "listed"
      <4>1. CASE i = 1
        BY <1>0, <2>0, <2>1, <2>2, <2>3, <4>1 DEF ChainIntact, TypeOK
      <4>2. CASE i # 1
        <5>1. i - 1 \in 1 .. Len(stack) /\ stack'[i] = stack[i - 1]
          BY <2>0, <2>2, <4>2
        <5>2. next[stack[i - 1]] = IF i - 1 < Len(stack) THEN stack[i] ELSE Null
          BY <5>1 DEF ChainIntact
        <5>3. i < Len(stack') => stack'[i + 1] = stack[i]
          BY <2>0, <2>2
        <5>4. place'[stack'[i]] = "listed"
          BY <2>0, <2>1, <5>1 DEF ChainIntact, TypeOK
        <5> QED
          BY <2>0, <2>1, <2>2, <5>1, <5>2, <5>3, <5>4
      <4> QED
        BY <4>1, <4>2
    <3>3. ASSUME NEW i \in 1 .. Len(stack'), NEW j \in 1 .. Len(stack'),
                 stack'[i] = stack'[j]
          PROVE  i = j
      <4>1. \A k \in 1 .. Len(stack') : k # 1 =>
               k - 1 \in 1 .. Len(stack) /\ stack'[k] = stack[k - 1]
        BY <2>0, <2>2
      <4>2. CASE i = 1 \/ j = 1
        BY <2>0, <2>2, <3>3, <4>1, <4>2
      <4>3. CASE i # 1 /\ j # 1
        <5>1. i - 1 = j - 1
          BY <3>3, <4>1, <4>3 DEF ChainIntact
        <5> QED
          BY <2>0, <2>2, <5>1
      <4> QED
        BY <4>2, <4>3
    <3> QED
      BY <3>1, <3>2, <3>3 DEF ChainIntact
  <2>6. OwnPools'
    <3>1. \A u \in Threads : u # t => pc'[u] = pc[u] /\ mine'[u] = mine[u]
      BY <1>2 DEF TypeOK
    <3>2. \A u \in Threads : u # t /\ pc[u] \in PushPoints =>
             mine[u] # mine[t] /\ place'[mine[u]] = "pushing"
      BY <1>0, <2>1 DEF OwnPools, TypeOK, PushPoints
    <3>3. pc'[t] = "idle"
      BY <1>2 DEF TypeOK
    <3> QED
      BY <3>1, <3>2, <3>3 DEF OwnPools, PushPoints
  <2>7. LinkedToTop' /\ Joined'
    BY <1>2 DEF LinkedToTop, Joined, TypeOK
  <2>8. RoomToCreate'
    <3>1. pc'[Listener] \in {"pload", "pnext", "pcas"} => pc[Listener] = pc'[Listener]
      BY <1>2 DEF TypeOK, Threads
    <3>2. \A p \in Pools : place[p] = "none" => place'[p] = "none"
      BY <1>0, <2>1 DEF TypeOK
    <3> QED
      BY <1>2, <3>1, <3>2 DEF RoomToCreate
  <2>9. PopSeesList'
    <3>1. t # Listener => pc'[Listener] = pc[Listener]
      BY <1>2 DEF TypeOK, Threads
    <3>2. t = Listener => pc'[Listener] = "idle"
      BY <1>2 DEF TypeOK, Threads
    <3>3. ASSUME NEW i \in 1 .. Len(stack), stack[i] = first
          PROVE  \E j \in 1 .. Len(stack') : stack'[j] = first
      <4>1. i + 1 \in 1 .. Len(stack') /\ stack'[i + 1] = first
        BY <2>0, <2>2, <3>3
      <4> QED
        BY <4>1
    <3>4. pc[Listener] = "pdec" => first \in Pools /\ place'[first] = "popped"
      BY <1>0, <2>1 DEF PopSeesList, TypeOK
    <3> QED
      BY <2>1, <3>1, <3>2, <3>3, <3>4 DEF PopSeesList
  <2> QED
    BY <2>4, <2>5, <2>6, <2>7, <2>8, <2>9
<1> QED
  BY <1>1, <1>2

-----------------------------------------------------------------------------
(* Popping.  The listener is not pushing then, and pushers keep their pools. *)

LEMMA ListenerIsThread == Listener \in Threads
BY DEF Threads

LEMMA PopFrame ==
    ASSUME ListInv, pc[Listener] \notin PushPoints,
           NEW point \in {"idle"} \cup PopPoints, GoTo(Listener, point),
           UNCHANGED <<mine, top>>,
           \A p \in Pools : place[p] = "pushing" => place'[p] = "pushing" /\ next'[p] = next[p]
    PROVE  OwnPools' /\ LinkedToTop'
<1>1. pc' = [pc EXCEPT ![Listener] = point]
  BY DEF GoTo
<1>2. pc'[Listener] \notin PushPoints
  BY <1>1, ListenerIsThread DEF ListInv, TypeOK, PushPoints, PopPoints
<1>3. \A t \in Threads : t # Listener => pc'[t] = pc[t]
  BY <1>1 DEF ListInv, TypeOK
<1>4. OwnPools'
  BY <1>2, <1>3 DEF ListInv, OwnPools
<1>5. LinkedToTop'
  BY <1>2, <1>3 DEF ListInv, OwnPools, LinkedToTop, PushPoints
<1> QED
  BY <1>4, <1>5

LEMMA PcTyped ==
    ASSUME TypeOK, NEW point \in {"idle"} \cup PopPoints, GoTo(Listener, point)
    PROVE  /\ pc' \in [Threads -> {"idle"} \cup PushPoints \cup PopPoints]
           /\ pc'[Listener] = point
BY ListenerIsThread DEF TypeOK, GoTo

LEMMA WantPoolKeeps == ListInv /\ WantPool => ListInv'
<1> SUFFICES ASSUME ListInv, WantPool PROVE ListInv'
  OBVIOUS
<1> USE DEF listVars, countVars, pushVars
<1>1. /\ GoTo(Listener, "pload") /\ ~exited /\ draining' = FALSE
      /\ pc[Listener] = "idle" /\ \E p \in Pools : place[p] = "none"
      /\ UNCHANGED <<listVars, countVars, place, pushVars, first, after, closed, exited>>
  BY DEF WantPool, At
<1>2. "pload" \in {"idle"} \cup PopPoints /\ pc[Listener] \notin PushPoints
  BY <1>1 DEF PopPoints, PushPoints
<1>3. pc' \in [Threads -> {"idle"} \cup PushPoints \cup PopPoints] /\ pc'[Listener] = "pload"
  BY <1>1, <1>2, PcTyped DEF ListInv
<1>4. TypeOK'
  BY <1>1, <1>3 DEF ListInv, TypeOK
<1>5. ChainIntact'
  BY <1>1 DEF ListInv, ChainIntact
<1>6. OwnPools' /\ LinkedToTop'
  BY <1>1, <1>2, PopFrame
<1>7. PopSeesList' /\ RoomToCreate' /\ Joined'
  BY <1>1, <1>3 DEF PopSeesList, RoomToCreate, Joined
<1> QED
  BY <1>4, <1>5, <1>6, <1>7 DEF ListInv

LEMMA FreeIdlePoolsKeeps == ListInv /\ FreeIdlePools => ListInv'
<1> SUFFICES ASSUME ListInv, FreeIdlePools PROVE ListInv'
  OBVIOUS
<1> USE DEF listVars, pushVars
<1>1. /\ GoTo(Listener, "pload") /\ ~exited /\ draining' = TRUE
      /\ pc[Listener] = "idle" /\ closed' = TRUE /\ max_recycled_pools' = 0
      /\ UNCHANGED <<listVars, recycled_pools_count, configured, place, pushVars,
                     first, after, exited>>
  BY DEF FreeIdlePools, At
<1>2. "pload" \in {"idle"} \cup PopPoints /\ pc[Listener] \notin PushPoints
  BY <1>1 DEF PopPoints, PushPoints
<1>3. pc' \in [Threads -> {"idle"} \cup PushPoints \cup PopPoints] /\ pc'[Listener] = "pload"
  BY <1>1, <1>2, PcTyped DEF ListInv
<1>4. TypeOK'
  BY <1>1, <1>3 DEF ListInv, TypeOK
<1>5. ChainIntact'
  BY <1>1 DEF ListInv, ChainIntact
<1>6. OwnPools' /\ LinkedToTop'
  BY <1>1, <1>2, PopFrame
<1>7. PopSeesList' /\ RoomToCreate' /\ Joined'
  BY <1>1, <1>3 DEF PopSeesList, RoomToCreate, Joined
<1> QED
  BY <1>4, <1>5, <1>6, <1>7 DEF ListInv

LEMMA PopLoadKeeps == ListInv /\ PopLoad => ListInv'
<1> SUFFICES ASSUME ListInv, PopLoad PROVE ListInv'
  OBVIOUS
<1> USE DEF listVars, countVars, pushVars
<1>1. /\ pc[Listener] = "pload" /\ ~exited
      /\ UNCHANGED <<listVars, countVars, pushVars, draining, closed, exited>>
  BY DEF PopLoad, At
<1>2. {"idle", "pnext"} \subseteq {"idle"} \cup PopPoints /\ pc[Listener] \notin PushPoints
  BY <1>1 DEF PopPoints, PushPoints
<1>3. CASE recycled_pools # Null
  <2>1. first' = recycled_pools /\ GoTo(Listener, "pnext") /\ UNCHANGED <<place, after>>
    BY <1>3 DEF PopLoad
  <2>2. /\ pc' \in [Threads -> {"idle"} \cup PushPoints \cup PopPoints]
        /\ pc'[Listener] = "pnext"
    BY <1>2, <2>1, PcTyped DEF ListInv
  <2>3. TypeOK'
    BY <1>1, <2>1, <2>2 DEF ListInv, TypeOK
  <2>4. ChainIntact'
    BY <1>1, <2>1 DEF ListInv, ChainIntact
  <2>5. OwnPools' /\ LinkedToTop'
    BY <1>1, <1>2, <2>1, PopFrame
  <2>6. PopSeesList'
    <3>1. 1 \in 1 .. Len(stack) /\ stack[1] = first'
      BY <1>3, <2>1 DEF ListInv, TypeOK, ChainIntact
    <3> QED
      BY <1>1, <2>2, <3>1 DEF PopSeesList
  <2>7. RoomToCreate' /\ Joined'
    BY <1>1, <2>1, <2>2 DEF ListInv, RoomToCreate, Joined
  <2> QED
    BY <2>3, <2>4, <2>5, <2>6, <2>7 DEF ListInv
<1>4. CASE recycled_pools = Null
  <2>1. GoTo(Listener, "idle") /\ first' = Null /\ after' = Null
    BY <1>4 DEF PopLoad, PopReturn
  <2>2. \/ UNCHANGED place
        \/ \E p \in Pools : place[p] = "none" /\ place' = [place EXCEPT ![p] = "conn"]
    <3>1. CASE draining
      BY <1>4, <3>1 DEF PopLoad
    <3>2. CASE ~draining
      <4>1. \E q \in Pools : place[q] = "none"
        BY <1>1, <3>2 DEF ListInv, RoomToCreate
      <4> DEFINE p == CHOOSE q \in Pools : place[q] = "none"
      <4>2. p \in Pools /\ place[p] = "none"
        BY <4>1
      <4>3. place' = [place EXCEPT ![p] = "conn"]
        BY <1>4, <3>2 DEF PopLoad
      <4> QED
        BY <4>2, <4>3
    <3> QED
      BY <3>1, <3>2
  <2>3. /\ place' \in [Pools -> {"none", "conn", "pushing", "listed", "popped"}]
        /\ \A p \in Pools : place[p] # "none" => place'[p] = place[p]
    BY <2>2 DEF ListInv, TypeOK
  <2>4. /\ pc' \in [Threads -> {"idle"} \cup PushPoints \cup PopPoints]
        /\ pc'[Listener] = "idle"
    BY <1>2, <2>1, PcTyped DEF ListInv
  <2>5. TypeOK'
    BY <1>1, <2>1, <2>3, <2>4 DEF ListInv, TypeOK
  <2>6. ChainIntact'
    BY <1>1, <2>3, ChainKept DEF ListInv
  <2>7. OwnPools' /\ LinkedToTop'
    BY <1>1, <1>2, <2>1, <2>3, PopFrame
  <2>8. PopSeesList' /\ RoomToCreate' /\ Joined'
    BY <1>1, <2>4 DEF PopSeesList, RoomToCreate, Joined
  <2> QED
    BY <2>5, <2>6, <2>7, <2>8 DEF ListInv
<1> QED
  BY <1>3, <1>4

LEMMA PopNextKeeps == ListInv /\ PopNext => ListInv'
<1> SUFFICES ASSUME ListInv, PopNext PROVE ListInv'
  OBVIOUS
<1> USE DEF listVars, countVars, pushVars
<1>1. /\ pc[Listener] = "pnext" /\ ~exited
      /\ after' = next[first] /\ GoTo(Listener, "pcas")
      /\ UNCHANGED <<listVars, countVars, place, pushVars, first, draining, closed, exited>>
  BY DEF PopNext, At
<1>2. "pcas" \in {"idle"} \cup PopPoints /\ pc[Listener] \notin PushPoints
  BY <1>1 DEF PopPoints, PushPoints
<1>3. pc' \in [Threads -> {"idle"} \cup PushPoints \cup PopPoints] /\ pc'[Listener] = "pcas"
  BY <1>1, <1>2, PcTyped DEF ListInv
<1>4. first \in Pools
  BY <1>1 DEF ListInv, PopSeesList, TypeOK
<1>5. TypeOK'
  BY <1>1, <1>3, <1>4 DEF ListInv, TypeOK
<1>6. ChainIntact'
  BY <1>1 DEF ListInv, ChainIntact
<1>7. OwnPools' /\ LinkedToTop'
  BY <1>1, <1>2, PopFrame
<1>8. PopSeesList' /\ RoomToCreate' /\ Joined'
  BY <1>1, <1>3 DEF ListInv, PopSeesList, RoomToCreate, Joined
<1> QED
  BY <1>5, <1>6, <1>7, <1>8 DEF ListInv

\* The list without its first pool
LEMMA ChainPopped ==
    ASSUME TypeOK, ChainIntact, recycled_pools # Null,
           recycled_pools' = next[recycled_pools],
           stack' = Tail(stack),
           next' = [next EXCEPT ![recycled_pools] = Null],
           NEW where, place' = [place EXCEPT ![recycled_pools] = where]
    PROVE  ChainIntact' /\ stack' \in Seq(Pools) /\ Len(stack') = Len(stack) - 1
<1>1. stack # <<>> /\ recycled_pools = stack[1] /\ stack \in Seq(Pools)
  BY DEF ChainIntact, TypeOK
<1>2. /\ stack' \in Seq(Pools)
      /\ Len(stack) >= 1 /\ Len(stack) \in Nat /\ Len(stack') = Len(stack) - 1
      /\ \A i \in 1 .. Len(stack) - 1 : stack'[i] = stack[i + 1]
  BY <1>1, PoppedStack
<1>3. \A i \in 1 .. Len(stack) : stack[i] \in Pools
  BY <1>1
<1>4. \A i \in 1 .. Len(stack') :
         i + 1 \in 1 .. Len(stack) /\ stack'[i] = stack[i + 1] /\ stack[i + 1] # stack[1]
  BY <1>2 DEF ChainIntact
<1>5. recycled_pools' = IF stack' = <<>> THEN Null ELSE stack'[1]
  <2>1. next[stack[1]] = IF 1 < Len(stack) THEN stack[2] ELSE Null
    BY <1>2 DEF ChainIntact
  <2>2. CASE Len(stack) = 1
    BY <1>1, <1>2, <2>1, <2>2
  <2>3. CASE Len(stack) > 1
    <3>1. 1 \in 1 .. Len(stack') /\ 1 \in 1 .. Len(stack) - 1
      BY <1>2, <2>3
    <3>2. stack'[1] = stack[1 + 1]
      BY <1>2, <3>1, Zenon
    <3>3. stack' # <<>>
      <4>1. Len(stack') # 0
        BY <1>2, <2>3
      <4> QED
        BY <4>1, LenOfEmpty, Zenon
    <3> QED
      BY <1>1, <2>1, <2>3, <3>2, <3>3
  <2> QED
    BY <1>2, <2>2, <2>3
<1>6. ASSUME NEW i \in 1 .. Len(stack')
      PROVE  /\ next'[stack'[i]] = IF i < Len(stack') THEN stack'[i + 1] ELSE Null
             /\ place'[stack'[i]] = "listed"
  <2>1. next'[stack'[i]] = next[stack[i + 1]] /\ place'[stack'[i]] = place[stack[i + 1]]
    BY <1>1, <1>3, <1>4 DEF TypeOK
  <2>2. /\ next[stack[i + 1]] = IF i + 1 < Len(stack) THEN stack[i + 2] ELSE Null
        /\ place[stack[i + 1]] = "listed"
    BY <1>4 DEF ChainIntact
  <2>3. i < Len(stack') => i + 1 < Len(stack) /\ stack'[i + 1] = stack[i + 2]
    BY <1>2, <1>4
  <2>4. ~(i < Len(stack')) => ~(i + 1 < Len(stack))
    BY <1>2
  <2> QED
    BY <2>1, <2>2, <2>3, <2>4
<1>7. \A i, j \in 1 .. Len(stack') : stack'[i] = stack'[j] => i = j
  BY <1>2, <1>4 DEF ChainIntact
<1> QED
  BY <1>2, <1>5, <1>6, <1>7 DEF ChainIntact

LEMMA PopSwapKeeps == ListInv /\ PopSwap => ListInv'
<1> SUFFICES ASSUME ListInv, PopSwap PROVE ListInv'
  OBVIOUS
<1> USE DEF listVars, countVars, pushVars, popVars
<1>1. /\ pc[Listener] = "pcas" /\ ~exited
      /\ UNCHANGED <<countVars, pushVars, popVars, closed, exited>>
  BY DEF PopSwap, At
<1>2. {"pload", "pdec"} \subseteq {"idle"} \cup PopPoints /\ pc[Listener] \notin PushPoints
  BY <1>1 DEF PopPoints, PushPoints
<1>3. CASE recycled_pools # first
  <2>1. GoTo(Listener, "pload") /\ UNCHANGED <<listVars, place>>
    BY <1>3 DEF PopSwap
  <2>2. /\ pc' \in [Threads -> {"idle"} \cup PushPoints \cup PopPoints]
        /\ pc'[Listener] = "pload"
    BY <1>2, <2>1, PcTyped DEF ListInv
  <2>3. TypeOK'
    BY <1>1, <2>1, <2>2 DEF ListInv, TypeOK
  <2>4. ChainIntact'
    BY <1>1, <2>1 DEF ListInv, ChainIntact
  <2>5. OwnPools' /\ LinkedToTop'
    BY <1>1, <1>2, <2>1, PopFrame
  <2>6. PopSeesList' /\ RoomToCreate' /\ Joined'
    BY <1>1, <2>1, <2>2 DEF ListInv, PopSeesList, RoomToCreate, Joined
  <2> QED
    BY <2>3, <2>4, <2>5, <2>6 DEF ListInv
<1>4. CASE recycled_pools = first
  <2>1. /\ recycled_pools' = after /\ stack' = Tail(stack)
        /\ next' = [next EXCEPT ![first] = Null]
        /\ place' = [place EXCEPT ![first] = "popped"]
        /\ GoTo(Listener, "pdec")
    BY <1>4 DEF PopSwap
  <2>2. /\ first \in Pools /\ place[first] = "listed" /\ after = next[first]
        /\ first # Null
    BY <1>1, PoolsAssumption DEF ListInv, PopSeesList, TypeOK, ChainIntact
  <2>3. ChainIntact' /\ stack' \in Seq(Pools)
    BY <1>4, <2>1, <2>2, ChainPopped DEF ListInv
  <2>4. /\ pc' \in [Threads -> {"idle"} \cup PushPoints \cup PopPoints]
        /\ pc'[Listener] = "pdec"
    BY <1>2, <2>1, PcTyped DEF ListInv
  <2>5. TypeOK'
    BY <1>1, <2>1, <2>2, <2>3, <2>4 DEF ListInv, TypeOK
  <2>6. OwnPools' /\ LinkedToTop'
    <3>1. \A p \in Pools : place[p] = "pushing" =>
             place'[p] = "pushing" /\ next'[p] = next[p]
      BY <2>1, <2>2 DEF ListInv, TypeOK
    <3> QED
      BY <1>1, <1>2, <2>1, <3>1, PopFrame
  <2>7. PopSeesList' /\ RoomToCreate' /\ Joined'
    BY <1>1, <2>1, <2>2, <2>4 DEF ListInv, TypeOK, PopSeesList, RoomToCreate, Joined
  <2> QED
    BY <2>3, <2>5, <2>6, <2>7 DEF ListInv
<1> QED
  BY <1>3, <1>4

LEMMA PopCountKeeps == ListInv /\ PopCount => ListInv'
<1> SUFFICES ASSUME ListInv, PopCount PROVE ListInv'
  OBVIOUS
<1> USE DEF listVars, pushVars
<1> DEFINE point == IF draining THEN "pload" ELSE "idle"
<1>1. /\ pc[Listener] = "pdec" /\ ~exited
      /\ GoTo(Listener, point) /\ first' = Null /\ after' = Null
      /\ place' = [place EXCEPT ![first] = IF draining THEN "none" ELSE "conn"]
      /\ UNCHANGED <<listVars, max_recycled_pools, configured, pushVars, draining,
                     closed, exited>>
  BY DEF PopCount, PopReturn, At
<1>2. /\ point \in {"idle"} \cup PopPoints /\ pc[Listener] \notin PushPoints
      /\ draining \/ point = "idle"
  BY <1>1 DEF PopPoints, PushPoints
<1>3. point \notin {"pnext", "pcas", "pdec"}
  OBVIOUS
<1> HIDE DEF point
<1>4. pc' \in [Threads -> {"idle"} \cup PushPoints \cup PopPoints] /\ pc'[Listener] = point
  BY <1>1, <1>2, PcTyped DEF ListInv
<1>5. first \in Pools /\ place[first] = "popped"
  BY <1>1 DEF ListInv, PopSeesList
<1>6. /\ place' \in [Pools -> {"none", "conn", "pushing", "listed", "popped"}]
      /\ \A p \in Pools : place[p] # "popped" => place'[p] = place[p]
  BY <1>1, <1>5 DEF ListInv, TypeOK
<1>7. recycled_pools_count' \in 0 .. UIntSize - 1
  BY CountInRange DEF PopCount, ListInv, TypeOK
<1>8. TypeOK'
  BY <1>1, <1>4, <1>6, <1>7 DEF ListInv, TypeOK
<1>9. ChainIntact'
  BY <1>1, <1>6, ChainKept DEF ListInv
<1>10. OwnPools' /\ LinkedToTop'
  BY <1>1, <1>2, <1>6, PopFrame
<1>11. PopSeesList' /\ RoomToCreate' /\ Joined'
  BY <1>1, <1>2, <1>3, <1>4 DEF PopSeesList, RoomToCreate, Joined
<1> QED
  BY <1>8, <1>9, <1>10, <1>11 DEF ListInv

-----------------------------------------------------------------------------
(* The end of the child *)

LEMMA ExitKeeps == ListInv /\ (ChildExit \/ CleanupOne) => ListInv'
<1> SUFFICES ASSUME ListInv, ChildExit \/ CleanupOne PROVE ListInv'
  OBVIOUS
<1> USE DEF listVars, countVars, pushVars, popVars
<1>1. CASE ChildExit
  BY <1>1 DEF ChildExit, ListInv, TypeOK, ChainIntact, OwnPools, LinkedToTop,
              PopSeesList, RoomToCreate, Joined
<1>2. CASE CleanupOne
  <2>1. /\ exited /\ recycled_pools # Null
        /\ recycled_pools' = next[recycled_pools] /\ stack' = Tail(stack)
        /\ next' = [next EXCEPT ![recycled_pools] = Null]
        /\ place' = [place EXCEPT ![recycled_pools] = "none"]
        /\ UNCHANGED <<countVars, pc, pushVars, popVars, closed, exited>>
    BY <1>2 DEF CleanupOne
  <2>2. \A t \in Threads : pc[t] = "idle" /\ pc'[t] = "idle"
    BY <2>1 DEF ListInv, Joined
  <2>3. ChainIntact' /\ stack' \in Seq(Pools)
    BY <2>1, ChainPopped DEF ListInv
  <2>4. TypeOK'
    BY <2>1, <2>3 DEF ListInv, TypeOK
  <2>5. OwnPools' /\ LinkedToTop' /\ PopSeesList' /\ RoomToCreate' /\ Joined'
    BY <2>2, ListenerIsThread
    DEF OwnPools, LinkedToTop, PopSeesList, RoomToCreate, Joined, PushPoints
  <2> QED
    BY <2>3, <2>4, <2>5 DEF ListInv
<1> QED
  BY <1>1, <1>2

-----------------------------------------------------------------------------
(* The theorems about the list *)

LEMMA InitListInv == Init => ListInv
<1> SUFFICES ASSUME Init PROVE ListInv
  OBVIOUS
<1>1. TypeOK
  <2>1. 0 \in 0 .. UIntSize - 1
    <3>1. Cardinality(Workers) \in Nat
      BY PoolsAssumption, FS_CardinalityType
    <3> QED
      BY <3>1, PoolsAssumption
  <2>2. /\ seen \in [Threads -> 0 .. UIntSize - 1]
        /\ recycled_pools_count \in 0 .. UIntSize - 1
    BY <2>1 DEF Init
  <2>3. stack \in Seq(Pools)
    BY DEF Init
  <2> QED
    BY <2>2, <2>3 DEF Init, TypeOK
<1>2. ChainIntact
  BY DEF Init, ChainIntact
<1>3. OwnPools /\ LinkedToTop /\ PopSeesList /\ RoomToCreate /\ Joined
  BY ListenerIsThread
  DEF Init, OwnPools, LinkedToTop, PopSeesList, RoomToCreate, Joined, PushPoints
<1> QED
  BY <1>1, <1>2, <1>3 DEF ListInv

LEMMA NextKeepsListInv == ListInv /\ [Next]_vars => ListInv'
<1> SUFFICES ASSUME ListInv, [Next]_vars PROVE ListInv'
  OBVIOUS
<1>1. CASE \E t \in Threads : ThreadStep(t) \/ \E p \in Pools : PushEnter(t, p)
  BY <1>1, PushEnterKeeps, PushCompareKeeps, PushCountKeeps, PushLoadKeeps, PushSwapKeeps
  DEF ThreadStep
<1>2. CASE WantPool \/ FreeIdlePools \/ PopStep
  BY <1>2, WantPoolKeeps, FreeIdlePoolsKeeps, PopLoadKeeps, PopNextKeeps, PopSwapKeeps,
     PopCountKeeps
  DEF PopStep
<1>3. CASE ChildExit \/ CleanupOne
  BY <1>3, ExitKeeps
<1>4. CASE UNCHANGED vars
  BY <1>4
  DEF vars, listVars, countVars, pushVars, popVars, ListInv, TypeOK, ChainIntact,
      OwnPools, LinkedToTop, PopSeesList, RoomToCreate, Joined
<1> QED
  BY <1>1, <1>2, <1>3, <1>4 DEF Next

LEMMA ListInvAlways == Spec => []ListInv
BY InitListInv, NextKeepsListInv, PTL DEF Spec

(* The shared words and the local variables of ap_push_pool and ap_pop_pool keep
   their types; in particular recycled_pools_count stays an unsigned number. *)
THEOREM PoolsTypeCorrect == Spec => []TypeOK
<1>1. ListInv => TypeOK
  BY DEF ListInv
<1> QED
  BY <1>1, ListInvAlways, PTL

(* For any number of workers and pools, the compare-and-swap loops of ap_push_pool
   and ap_pop_pool never lose, duplicate or hand out twice a recycled pool. *)
THEOREM ListNeverBreaks == Spec => []ChainIntact
<1>1. ListInv => ChainIntact
  BY DEF ListInv
<1> QED
  BY <1>1, ListInvAlways, PTL

-----------------------------------------------------------------------------
(* The count.  A second invariant on top of the first: a thread that will pass the
   test of the limit, or has passed it, is one pool of overshoot at most. *)

\* Threads that are going to count their pool
WillCount ==
    {t \in Threads : \/ pc[t] = "inc"
                     \/ pc[t] = "compare" /\ seen[t] < max_recycled_pools}

LimitNow == max_recycled_pools = IF closed THEN 0 ELSE configured

Overshoot ==
    configured >= 0 =>
        Len(stack) + Cardinality(Linking) + Cardinality(WillCount) + Unlinked
            <= configured + Cardinality(Threads) - 1

LateLinks ==
    closed /\ ~(draining /\ pc[Listener] \in PopPoints) =>
        Len(stack) + Cardinality(Admitted) <= Cardinality(Workers)

CountInv == LimitNow /\ CountExact /\ Overshoot /\ LateLinks

LEMMA ThreadsCounted ==
    /\ IsFiniteSet(Threads)
    /\ Cardinality(Workers) \in Nat
    /\ Cardinality(Threads) = Cardinality(Workers) + 1
    /\ \A S \in SUBSET Threads : IsFiniteSet(S) /\ Cardinality(S) \in Nat
                                 /\ Cardinality(S) <= Cardinality(Threads)
<1>1. IsFiniteSet(Workers) /\ Cardinality(Workers) \in Nat
  BY PoolsAssumption, FS_CardinalityType
<1>2. IsFiniteSet(Threads) /\ Cardinality(Threads) = Cardinality(Workers) + 1
  BY <1>1, PoolsAssumption, FS_AddElement DEF Threads
<1> QED
  BY <1>1, <1>2, FS_Subset, FS_CardinalityType

\* The numbers the invariant is about
LEMMA Numbers ==
    ASSUME TypeOK
    PROVE  /\ Len(stack) \in Nat /\ Unlinked \in 0 .. 1
           /\ Cardinality(Linking) \in Nat /\ Cardinality(WillCount) \in Nat
           /\ Cardinality(Admitted) \in Nat
           /\ configured \in Int /\ configured <= Cardinality(Workers)
           /\ configured >= -1 /\ max_recycled_pools \in Int
           /\ recycled_pools_count \in Int
           /\ \A t \in Threads : seen[t] \in Nat
<1>1. /\ Linking \in SUBSET Threads /\ WillCount \in SUBSET Threads
      /\ Admitted \in SUBSET Threads
  BY DEF Linking, WillCount, Admitted
<1>2. \A n \in Limits : n \in Int /\ n >= -1 /\ n <= Cardinality(Workers)
  BY ThreadsCounted DEF Limits
<1>3. configured \in Limits /\ max_recycled_pools \in {configured, 0}
  BY DEF TypeOK
<1>4. configured \in Int /\ max_recycled_pools \in Int
  BY <1>2, <1>3
<1>5. recycled_pools_count \in Int /\ \A t \in Threads : seen[t] \in Nat
  BY DEF TypeOK
<1>6. Len(stack) \in Nat
  BY DEF TypeOK
<1> QED
  BY <1>1, <1>2, <1>3, <1>4, <1>5, <1>6, ThreadsCounted DEF Unlinked

\* A set of threads after one thread has, or has not, been put in
LEMMA CardMove ==
    ASSUME NEW S \in SUBSET Threads, NEW t \in Threads,
           NEW old \in BOOLEAN, NEW new \in BOOLEAN, NEW T,
           t \in S <=> old,
           T = IF new THEN S \cup {t} ELSE S \ {t}
    PROVE  Cardinality(T) = Cardinality(S) + (IF new THEN 1 ELSE 0) - (IF old THEN 1 ELSE 0)
<1>1. IsFiniteSet(S) /\ Cardinality(S) \in Nat
  BY ThreadsCounted
<1>2. /\ Cardinality(S \cup {t}) = IF t \in S THEN Cardinality(S) ELSE Cardinality(S) + 1
      /\ Cardinality(S \ {t}) = IF t \in S THEN Cardinality(S) - 1 ELSE Cardinality(S)
  BY <1>1, FS_AddElement, FS_RemoveElement, Zenon
<1>3. CASE new
  <2>1. Cardinality(T) = IF t \in S THEN Cardinality(S) ELSE Cardinality(S) + 1
    BY <1>2, <1>3, Zenon
  <2> QED
    BY <1>1, <1>3, <2>1
<1>4. CASE ~new
  <2>1. Cardinality(T) = IF t \in S THEN Cardinality(S) - 1 ELSE Cardinality(S)
    BY <1>2, <1>4, Zenon
  <2> QED
    BY <1>1, <1>4, <2>1
<1> QED
  BY <1>3, <1>4

\* One thread goes from one point to another: how the sets of threads change
Moves(t, point) ==
    /\ Cardinality(Linking') = Cardinality(Linking)
         + (IF point \in {"load", "cas"} THEN 1 ELSE 0)
         - (IF pc[t] \in {"load", "cas"} THEN 1 ELSE 0)
    /\ Cardinality(Admitted') = Cardinality(Admitted)
         + (IF point \in {"inc", "load", "cas"} THEN 1 ELSE 0)
         - (IF pc[t] \in {"inc", "load", "cas"} THEN 1 ELSE 0)
    /\ Cardinality(WillCount') = Cardinality(WillCount)
         + (IF point = "inc" \/ (point = "compare" /\ seen'[t] < max_recycled_pools)
            THEN 1 ELSE 0)
         - (IF pc[t] = "inc" \/ (pc[t] = "compare" /\ seen[t] < max_recycled_pools)
            THEN 1 ELSE 0)
    /\ Unlinked' = IF t # Listener THEN Unlinked ELSE IF point = "pdec" THEN 1 ELSE 0

LEMMA ThreadMoves ==
    ASSUME TypeOK, NEW t \in Threads, NEW point, GoTo(t, point),
           UNCHANGED max_recycled_pools,
           \A u \in Threads : u # t => seen'[u] = seen[u]
    PROVE  Moves(t, point)
<1>1. pc'[t] = point /\ \A u \in Threads : u # t => pc'[u] = pc[u]
  BY DEF TypeOK, GoTo
<1>3. Cardinality(Linking') = Cardinality(Linking)
        + (IF point \in {"load", "cas"} THEN 1 ELSE 0)
        - (IF pc[t] \in {"load", "cas"} THEN 1 ELSE 0)
  <2> DEFINE new == point \in {"load", "cas"}
             old == pc[t] \in {"load", "cas"}
  <2>1. Linking' = IF new THEN Linking \cup {t} ELSE Linking \ {t}
    BY <1>1 DEF Linking
  <2>2. Linking \in SUBSET Threads /\ (t \in Linking <=> old)
    BY DEF Linking
  <2>3. old \in BOOLEAN /\ new \in BOOLEAN
    OBVIOUS
  <2> HIDE DEF new, old
  <2>4. Cardinality(Linking') = Cardinality(Linking)
          + (IF new THEN 1 ELSE 0) - (IF old THEN 1 ELSE 0)
    BY <2>1, <2>2, <2>3, CardMove
  <2> QED
    BY <2>4 DEF new, old
<1>4. Cardinality(Admitted') = Cardinality(Admitted)
        + (IF point \in {"inc", "load", "cas"} THEN 1 ELSE 0)
        - (IF pc[t] \in {"inc", "load", "cas"} THEN 1 ELSE 0)
  <2> DEFINE new == point \in {"inc", "load", "cas"}
             old == pc[t] \in {"inc", "load", "cas"}
  <2>1. Admitted' = IF new THEN Admitted \cup {t} ELSE Admitted \ {t}
    BY <1>1 DEF Admitted
  <2>2. Admitted \in SUBSET Threads /\ (t \in Admitted <=> old)
    BY DEF Admitted
  <2>3. old \in BOOLEAN /\ new \in BOOLEAN
    OBVIOUS
  <2> HIDE DEF new, old
  <2>4. Cardinality(Admitted') = Cardinality(Admitted)
          + (IF new THEN 1 ELSE 0) - (IF old THEN 1 ELSE 0)
    BY <2>1, <2>2, <2>3, CardMove
  <2> QED
    BY <2>4 DEF new, old
<1>5. Cardinality(WillCount') = Cardinality(WillCount)
        + (IF point = "inc" \/ (point = "compare" /\ seen'[t] < max_recycled_pools)
           THEN 1 ELSE 0)
        - (IF pc[t] = "inc" \/ (pc[t] = "compare" /\ seen[t] < max_recycled_pools)
           THEN 1 ELSE 0)
  <2> DEFINE new == point = "inc" \/ (point = "compare" /\ seen'[t] < max_recycled_pools)
             old == pc[t] = "inc" \/ (pc[t] = "compare" /\ seen[t] < max_recycled_pools)
  <2>1. WillCount' = IF new THEN WillCount \cup {t} ELSE WillCount \ {t}
    BY <1>1 DEF WillCount
  <2>2. WillCount \in SUBSET Threads /\ (t \in WillCount <=> old)
    BY DEF WillCount
  <2>3. old \in BOOLEAN /\ new \in BOOLEAN
    OBVIOUS
  <2> HIDE DEF new, old
  <2>4. Cardinality(WillCount') = Cardinality(WillCount)
          + (IF new THEN 1 ELSE 0) - (IF old THEN 1 ELSE 0)
    BY <2>1, <2>2, <2>3, CardMove
  <2> QED
    BY <2>4 DEF new, old
<1>6. Unlinked' = IF t # Listener THEN Unlinked ELSE IF point = "pdec" THEN 1 ELSE 0
  BY <1>1, ListenerIsThread DEF Unlinked
<1> QED
  BY <1>3, <1>4, <1>5, <1>6 DEF Moves

\* Steps that leave the list and the count alone, and admit nobody
LEMMA CountUnmoved ==
    ASSUME TypeOK, CountInv,
           UNCHANGED <<recycled_pools_count, max_recycled_pools, configured, closed, exited>>,
           Len(stack') = Len(stack), Unlinked' = Unlinked,
           Cardinality(Linking') = Cardinality(Linking),
           Cardinality(WillCount') = Cardinality(WillCount),
           Cardinality(Admitted') = Cardinality(Admitted),
           \/ ~(draining /\ pc[Listener] \in PopPoints)
           \/ draining' /\ pc'[Listener] \in PopPoints
    PROVE  CountInv'
<1>1. LimitNow' /\ CountExact'
  BY DEF CountInv, LimitNow, CountExact
<1>2. Overshoot'
  BY DEF CountInv, Overshoot
<1>3. LateLinks'
  BY DEF CountInv, LateLinks
<1> QED
  BY <1>1, <1>2, <1>3 DEF CountInv

\* While a thread is outside ap_pop_pool, it is not the one that drains the list.
LEMMA NotDraining ==
    ASSUME TypeOK, NEW t \in Threads, NEW point, GoTo(t, point),
           pc[t] \notin PopPoints, UNCHANGED draining
    PROVE  \/ ~(draining /\ pc[Listener] \in PopPoints)
           \/ draining' /\ pc'[Listener] \in PopPoints
<1>1. CASE t = Listener
  BY <1>1
<1>2. CASE t # Listener
  BY <1>2, ListenerIsThread DEF GoTo, TypeOK
<1> QED
  BY <1>1, <1>2

LEMMA CountPushEnter ==
    ASSUME ListInv, CountInv, NEW t \in Threads, NEW p \in Pools, PushEnter(t, p)
    PROVE  CountInv'
<1>0. TypeOK
  BY DEF ListInv
<1>1. /\ pc[t] = "idle" /\ UNCHANGED <<stack, recycled_pools_count, max_recycled_pools,
                                       configured, closed, exited, draining>>
  BY DEF PushEnter, At, listVars, countVars, popVars
<1>2. \A u \in Threads : u # t => seen'[u] = seen[u]
  BY <1>0 DEF PushEnter, TypeOK
<1>3. t = Listener => Unlinked = 0
  BY <1>1 DEF Unlinked
<1>4. CASE max_recycled_pools >= 0
  <2>1. GoTo(t, "compare") /\ seen'[t] = recycled_pools_count
    BY <1>0, <1>4, Numbers DEF PushEnter, TypeOK
  <2>2. /\ Cardinality(Linking') = Cardinality(Linking)
        /\ Cardinality(Admitted') = Cardinality(Admitted)
        /\ Cardinality(WillCount') = Cardinality(WillCount)
             + (IF recycled_pools_count < max_recycled_pools THEN 1 ELSE 0)
        /\ Unlinked' = Unlinked
    <3>1. Moves(t, "compare")
      BY <1>0, <1>1, <1>2, <1>3, <2>1, ThreadMoves
    <3> QED
      BY <1>0, <1>1, <1>2, <1>3, <2>1, <3>1, Numbers DEF Moves
  <2>3. CASE ~(recycled_pools_count < max_recycled_pools)
    BY <1>0, <1>1, <2>1, <2>2, <2>3, CountUnmoved, NotDraining, Numbers DEF PopPoints
  <2>4. CASE recycled_pools_count < max_recycled_pools
    <3>1. recycled_pools_count < configured /\ configured >= 0 /\ ~closed
      BY <1>0, <1>4, <2>4, Numbers DEF CountInv, LimitNow, TypeOK
    <3>2. ~exited
      BY DEF PushEnter, At
    <3>3. recycled_pools_count = Len(stack) + Cardinality(Linking) + Unlinked
      BY <3>1, <3>2 DEF CountInv, CountExact
    <3>4. WillCount' \in SUBSET Threads
      BY DEF WillCount
    <3>5. Cardinality(WillCount') \in Nat /\ Cardinality(WillCount') <= Cardinality(Threads)
      BY <3>4, ThreadsCounted, Zenon
    <3>6. Overshoot'
      <4>1. /\ Len(stack) \in Nat /\ Cardinality(Linking) \in Nat /\ Unlinked \in Nat
            /\ configured \in Int /\ Cardinality(Threads) \in Nat
        BY <1>0, Numbers, ThreadsCounted
      <4>2. Len(stack) + Cardinality(Linking) + Cardinality(WillCount') + Unlinked
              <= configured + Cardinality(Threads) - 1
        BY <3>1, <3>3, <3>5, <4>1
      <4> QED
        BY <1>1, <2>2, <4>2 DEF Overshoot
    <3>7. LimitNow' /\ CountExact' /\ LateLinks'
      BY <1>1, <2>2, <3>1 DEF CountInv, LimitNow, CountExact, LateLinks
    <3> QED
      BY <3>6, <3>7 DEF CountInv
  <2> QED
    BY <2>3, <2>4
<1>5. CASE ~(max_recycled_pools >= 0)
  <2>1. ~closed /\ ~(configured >= 0)
    BY <1>0, <1>5, Numbers DEF CountInv, LimitNow
  <2> QED
    BY <1>1, <2>1 DEF CountInv, LimitNow, CountExact, Overshoot, LateLinks
<1> QED
  BY <1>4, <1>5

LEMMA CountPushCompare ==
    ASSUME ListInv, CountInv, NEW t \in Threads, PushCompare(t)
    PROVE  CountInv'
<1>0. TypeOK
  BY DEF ListInv
<1>1. /\ pc[t] = "compare" /\ UNCHANGED <<stack, recycled_pools_count, max_recycled_pools,
                                          configured, closed, exited, draining>>
  BY DEF PushCompare, At, listVars, countVars, popVars
<1>2. \A u \in Threads : u # t => seen'[u] = seen[u]
  BY <1>0 DEF PushCompare, PushReturn, pushVars, TypeOK
<1>3. t = Listener => Unlinked = 0
  BY <1>1 DEF Unlinked
<1>4. CASE ~(seen[t] < max_recycled_pools)
  <2>1. GoTo(t, "idle")
    BY <1>4 DEF PushCompare, PushReturn
  <2>2. /\ Cardinality(Linking') = Cardinality(Linking)
        /\ Cardinality(Admitted') = Cardinality(Admitted)
        /\ Cardinality(WillCount') = Cardinality(WillCount)
        /\ Unlinked' = Unlinked
    <3>1. Moves(t, "idle")
      BY <1>0, <1>1, <1>2, <1>3, <1>4, <2>1, ThreadMoves
    <3> QED
      BY <1>0, <1>1, <1>2, <1>3, <1>4, <2>1, <3>1, Numbers DEF Moves
  <2> QED
    BY <1>0, <1>1, <2>1, <2>2, CountUnmoved, NotDraining DEF PopPoints
<1>5. CASE seen[t] < max_recycled_pools
  <2>1. GoTo(t, "inc")
    BY <1>0, <1>5, Numbers DEF PushCompare
  <2>2. /\ Cardinality(Linking') = Cardinality(Linking)
        /\ Cardinality(WillCount') = Cardinality(WillCount)
        /\ Unlinked' = Unlinked
    <3>1. Moves(t, "inc")
      BY <1>0, <1>1, <1>2, <1>3, <1>5, <2>1, ThreadMoves
    <3> QED
      BY <1>0, <1>1, <1>2, <1>3, <1>5, <2>1, <3>1, Numbers DEF Moves
  <2>3. ~closed
    BY <1>0, <1>5, Numbers DEF CountInv, LimitNow
  <2> QED
    BY <1>1, <2>2, <2>3 DEF CountInv, LimitNow, CountExact, Overshoot, LateLinks
<1> QED
  BY <1>4, <1>5

\* The increment does not wrap: the overshoot keeps the count below 2 * Workers.
LEMMA CountPushCount ==
    ASSUME ListInv, CountInv, NEW t \in Threads, PushCount(t)
    PROVE  CountInv'
<1>0. TypeOK
  BY DEF ListInv
<1>1. /\ pc[t] = "inc" /\ ~exited /\ GoTo(t, "load")
      /\ UNCHANGED <<stack, max_recycled_pools, configured, seen, closed, exited, draining>>
  BY DEF PushCount, At, listVars, pushVars, popVars
<1>2. t = Listener => Unlinked = 0
  BY <1>1 DEF Unlinked
<1>3. /\ Cardinality(Linking') = Cardinality(Linking) + 1
      /\ Cardinality(Admitted') = Cardinality(Admitted)
      /\ Cardinality(WillCount') = Cardinality(WillCount) - 1
      /\ Unlinked' = Unlinked
  <2>1. Moves(t, "load")
    BY <1>0, <1>1, <1>2, ThreadMoves
  <2> QED
    BY <1>0, <1>1, <1>2, <2>1, Numbers DEF Moves
<1>4. LimitNow' /\ LateLinks'
  BY <1>0, <1>1, <1>3, NotDraining DEF CountInv, LimitNow, LateLinks, PopPoints
<1>5. Overshoot'
  BY <1>0, <1>1, <1>3, Numbers DEF CountInv, Overshoot
<1>6. CountExact'
  <2> SUFFICES ASSUME configured >= 0
               PROVE  recycled_pools_count' =
                        Len(stack) + Cardinality(Linking) + 1 + Unlinked
    BY <1>0, <1>1, <1>3, Numbers DEF CountExact
  <2>1. recycled_pools_count = Len(stack) + Cardinality(Linking) + Unlinked
    BY <1>1 DEF CountInv, CountExact
  <2>2. WillCount' \in SUBSET Threads
    BY DEF WillCount
  <2>3. Cardinality(WillCount') \in Nat
    BY <2>2, ThreadsCounted, Zenon
  <2>4. Cardinality(WillCount) >= 1
    BY <1>0, <1>3, <2>3, Numbers
  <2>5. /\ Len(stack) \in Nat /\ Cardinality(Linking) \in Nat /\ Unlinked \in Nat
        /\ Cardinality(WillCount) \in Nat
        /\ configured \in Int /\ configured <= Cardinality(Workers)
        /\ Cardinality(Workers) \in Nat /\ Cardinality(Threads) = Cardinality(Workers) + 1
    BY <1>0, Numbers, ThreadsCounted
  <2>6. recycled_pools_count + 1 < UIntSize
    <3>1. Len(stack) + Cardinality(Linking) + Cardinality(WillCount) + Unlinked
            <= configured + Cardinality(Threads) - 1
      BY DEF CountInv, Overshoot
    <3>2. recycled_pools_count + 1 <= 2 * Cardinality(Workers)
      BY <2>1, <2>4, <2>5, <3>1
    <3>3. UIntSize \in Nat /\ 2 * Cardinality(Workers) + 1 < UIntSize
      BY PoolsAssumption
    <3> QED
      BY <2>1, <2>5, <3>2, <3>3
  <2>7. recycled_pools_count' = (recycled_pools_count + 1) % UIntSize
    BY DEF PushCount
  <2>8. recycled_pools_count \in Nat /\ UIntSize \in Nat
    BY <1>0, PoolsAssumption DEF TypeOK
  <2>9. recycled_pools_count' = recycled_pools_count + 1
    BY <2>6, <2>7, <2>8
  <2> QED
    BY <1>0, <2>1, <2>9, Numbers
<1> QED
  BY <1>4, <1>5, <1>6 DEF CountInv

LEMMA CountPushLoad ==
    ASSUME ListInv, CountInv, NEW t \in Threads, PushLoad(t)
    PROVE  CountInv'
<1>0. TypeOK
  BY DEF ListInv
<1>1. /\ pc[t] = "load" /\ GoTo(t, "cas")
      /\ UNCHANGED <<stack, recycled_pools_count, max_recycled_pools, configured, seen,
                     closed, exited, draining>>
  BY DEF PushLoad, At, countVars, popVars
<1>2. t = Listener => Unlinked = 0
  BY <1>1 DEF Unlinked
<1>3. /\ Cardinality(Linking') = Cardinality(Linking)
      /\ Cardinality(Admitted') = Cardinality(Admitted)
      /\ Cardinality(WillCount') = Cardinality(WillCount)
      /\ Unlinked' = Unlinked
  <2>1. Moves(t, "cas")
    BY <1>0, <1>1, <1>2, ThreadMoves
  <2> QED
    BY <1>0, <1>1, <1>2, <2>1, Numbers DEF Moves
<1> QED
  BY <1>0, <1>1, <1>3, CountUnmoved, NotDraining DEF PopPoints

LEMMA CountPushSwap ==
    ASSUME ListInv, CountInv, NEW t \in Threads, PushSwap(t)
    PROVE  CountInv'
<1>0. TypeOK
  BY DEF ListInv
<1>1. /\ pc[t] = "cas"
      /\ UNCHANGED <<recycled_pools_count, max_recycled_pools, configured, closed, exited,
                     draining>>
  BY DEF PushSwap, At, countVars, popVars
<1>2. \A u \in Threads : u # t => seen'[u] = seen[u]
  BY <1>0 DEF PushSwap, PushReturn, pushVars, TypeOK
<1>3. t = Listener => Unlinked = 0
  BY <1>1 DEF Unlinked
<1>4. CASE recycled_pools # top[t]
  <2>1. GoTo(t, "load") /\ UNCHANGED stack
    BY <1>4 DEF PushSwap
  <2>2. /\ Cardinality(Linking') = Cardinality(Linking)
        /\ Cardinality(Admitted') = Cardinality(Admitted)
        /\ Cardinality(WillCount') = Cardinality(WillCount)
        /\ Unlinked' = Unlinked
    <3>1. Moves(t, "load")
      BY <1>0, <1>1, <1>2, <1>3, <2>1, ThreadMoves
    <3> QED
      BY <1>0, <1>1, <1>2, <1>3, <2>1, <3>1, Numbers DEF Moves
  <2> QED
    BY <1>0, <1>1, <2>1, <2>2, CountUnmoved, NotDraining DEF PopPoints
<1>5. CASE recycled_pools = top[t]
  <2>1. GoTo(t, "idle") /\ stack' = <<mine[t]>> \o stack
    BY <1>5 DEF PushSwap, PushReturn
  <2>2. mine[t] \in Pools
    BY <1>1 DEF ListInv, OwnPools, PushPoints
  <2>3. Len(stack') = Len(stack) + 1
    BY <1>0, <2>1, <2>2, PushedStack DEF TypeOK
  <2>4. /\ Cardinality(Linking') = Cardinality(Linking) - 1
        /\ Cardinality(Admitted') = Cardinality(Admitted) - 1
        /\ Cardinality(WillCount') = Cardinality(WillCount)
        /\ Unlinked' = Unlinked
    <3>1. Moves(t, "idle")
      BY <1>0, <1>1, <1>2, <1>3, <2>1, ThreadMoves
    <3> QED
      BY <1>0, <1>1, <1>2, <1>3, <2>1, <3>1, Numbers DEF Moves
  <2>5. LimitNow' /\ CountExact' /\ Overshoot'
    BY <1>0, <1>1, <2>3, <2>4, Numbers DEF CountInv, LimitNow, CountExact, Overshoot
  <2>6. LateLinks'
    <3>1. \/ ~(draining /\ pc[Listener] \in PopPoints)
          \/ draining' /\ pc'[Listener] \in PopPoints
      BY <1>0, <1>1, <2>1, NotDraining DEF PopPoints
    <3> QED
      BY <1>0, <1>1, <2>3, <2>4, <3>1, Numbers DEF CountInv, LateLinks
  <2> QED
    BY <2>5, <2>6 DEF CountInv
<1> QED
  BY <1>4, <1>5

\* The steps of the listener between two points that are not in ap_push_pool
LEMMA ListenerMoves ==
    ASSUME TypeOK, pc[Listener] \notin PushPoints,
           NEW point \in {"idle"} \cup PopPoints, GoTo(Listener, point),
           UNCHANGED <<max_recycled_pools, seen>>
    PROVE  /\ Cardinality(Linking') = Cardinality(Linking)
           /\ Cardinality(Admitted') = Cardinality(Admitted)
           /\ Cardinality(WillCount') = Cardinality(WillCount)
           /\ Unlinked' = IF point = "pdec" THEN 1 ELSE 0
           /\ pc'[Listener] = point
<1>1. Moves(Listener, point)
  BY ThreadMoves, ListenerIsThread
<1>2. point \notin PushPoints
  BY DEF PushPoints, PopPoints
<1> QED
  BY <1>1, <1>2, Numbers, PcTyped DEF Moves, PushPoints

LEMMA CountWantPool == ListInv /\ CountInv /\ WantPool => CountInv'
<1> SUFFICES ASSUME ListInv, CountInv, WantPool PROVE CountInv'
  OBVIOUS
<1>1. /\ TypeOK /\ pc[Listener] = "idle" /\ GoTo(Listener, "pload")
      /\ UNCHANGED <<stack, recycled_pools_count, max_recycled_pools, configured, seen,
                     closed, exited>>
  BY DEF ListInv, WantPool, At, listVars, countVars, pushVars
<1>2. "pload" \in {"idle"} \cup PopPoints /\ pc[Listener] \notin PushPoints
  BY <1>1 DEF PopPoints, PushPoints
<1>3. /\ Cardinality(Linking') = Cardinality(Linking)
      /\ Cardinality(Admitted') = Cardinality(Admitted)
      /\ Cardinality(WillCount') = Cardinality(WillCount)
      /\ Unlinked' = 0
  BY <1>1, <1>2, ListenerMoves
<1>4. Unlinked = 0
  BY <1>1 DEF Unlinked
<1> QED
  BY <1>1, <1>3, <1>4, CountUnmoved DEF PopPoints

\* The limit becomes 0: who has not passed the test will not.
LEMMA CountFreeIdlePools == ListInv /\ CountInv /\ FreeIdlePools => CountInv'
<1> SUFFICES ASSUME ListInv, CountInv, FreeIdlePools PROVE CountInv'
  OBVIOUS
<1>1. /\ TypeOK /\ pc[Listener] = "idle" /\ GoTo(Listener, "pload") /\ ~exited
      /\ max_recycled_pools' = 0 /\ closed' = TRUE /\ draining' = TRUE /\ ~closed
      /\ UNCHANGED <<stack, recycled_pools_count, configured, seen, exited>>
  BY DEF ListInv, FreeIdlePools, At, listVars, pushVars
<1>2. "pload" \in {"idle"} \cup PopPoints
  BY DEF PopPoints
<1>3. pc'[Listener] = "pload" /\ \A t \in Threads : t # Listener => pc'[t] = pc[t]
  BY <1>1, <1>2, PcTyped DEF GoTo, TypeOK
<1>4. Linking' = Linking
  BY <1>1, <1>3 DEF Linking
<1>5. Unlinked' = Unlinked
  BY <1>1, <1>3 DEF Unlinked
<1>6. WillCount' \subseteq WillCount
  <2> SUFFICES ASSUME NEW t \in Threads, t \in WillCount' PROVE t \in WillCount
    BY DEF WillCount
  <2>1. seen[t] \in Nat
    BY <1>1, Numbers
  <2>2. pc'[t] = "inc"
    BY <1>1, <2>1 DEF WillCount
  <2> QED
    BY <1>3, <2>2 DEF WillCount
<1>7. WillCount \in SUBSET Threads
  BY DEF WillCount
<1>8. Cardinality(WillCount') \in Nat /\ Cardinality(WillCount') <= Cardinality(WillCount)
  BY <1>6, <1>7, ThreadsCounted, FS_Subset
<1>9. LimitNow' /\ CountExact'
  BY <1>1, <1>4, <1>5 DEF CountInv, LimitNow, CountExact
<1>10. Overshoot'
  <2>1. /\ Len(stack) \in Nat /\ Cardinality(Linking) \in Nat /\ Unlinked \in Nat
        /\ Cardinality(WillCount) \in Nat
        /\ configured \in Int /\ Cardinality(Threads) \in Nat
    BY <1>1, Numbers, ThreadsCounted
  <2>2. configured >= 0 =>
          Len(stack) + Cardinality(Linking) + Cardinality(WillCount') + Unlinked
            <= configured + Cardinality(Threads) - 1
    BY <1>8, <2>1 DEF CountInv, Overshoot
  <2> QED
    BY <1>1, <1>4, <1>5, <2>2 DEF Overshoot
<1>11. LateLinks'
  BY <1>1, <1>3 DEF LateLinks, PopPoints
<1> QED
  BY <1>9, <1>10, <1>11 DEF CountInv

LEMMA CountPopLoad == ListInv /\ CountInv /\ PopLoad => CountInv'
<1> SUFFICES ASSUME ListInv, CountInv, PopLoad PROVE CountInv'
  OBVIOUS
<1>1. /\ TypeOK /\ pc[Listener] = "pload"
      /\ UNCHANGED <<stack, recycled_pools_count, max_recycled_pools, configured, seen,
                     closed, exited, draining>>
  BY DEF ListInv, PopLoad, At, listVars, countVars, pushVars
<1>2. PICK point \in {"idle", "pnext"} :
        /\ GoTo(Listener, point)
        /\ point = "idle" => recycled_pools = Null
  BY DEF PopLoad, PopReturn
<1>3. point \in {"idle"} \cup PopPoints /\ pc[Listener] \notin PushPoints
  BY <1>1 DEF PopPoints, PushPoints
<1>4. /\ Cardinality(Linking') = Cardinality(Linking)
      /\ Cardinality(Admitted') = Cardinality(Admitted)
      /\ Cardinality(WillCount') = Cardinality(WillCount)
      /\ Unlinked' = 0 /\ pc'[Listener] = point
  BY <1>1, <1>2, <1>3, ListenerMoves
<1>5. Unlinked = 0
  BY <1>1 DEF Unlinked
<1>6. CASE draining /\ point = "idle"
  <2>1. Len(stack) = 0
    <3>1. \A i \in 1 .. Len(stack) : stack[i] # Null
      BY <1>1, PoolsAssumption DEF TypeOK
    <3>2. stack = <<>>
      <4>1. stack # <<>> => 1 \in 1 .. Len(stack) /\ stack[1] = Null
        BY <1>1, <1>2, <1>6 DEF ListInv, ChainIntact, TypeOK
      <4> QED
        BY <3>1, <4>1
    <3> QED
      BY <3>2, LenOfEmpty
  <2>2. Cardinality(Admitted) <= Cardinality(Workers)
    <3>1. Admitted \in SUBSET Workers
      BY <1>1 DEF Admitted, Threads
    <3> QED
      BY <3>1, PoolsAssumption, FS_Subset
  <2>3. LateLinks'
    BY <1>1, <1>4, <2>1, <2>2, Numbers DEF LateLinks
  <2> QED
    BY <1>1, <1>4, <1>5, <2>3 DEF CountInv, LimitNow, CountExact, Overshoot
<1>7. CASE ~(draining /\ point = "idle")
  BY <1>1, <1>2, <1>4, <1>5, <1>7, CountUnmoved DEF PopPoints
<1> QED
  BY <1>6, <1>7

LEMMA CountPopNext == ListInv /\ CountInv /\ PopNext => CountInv'
<1> SUFFICES ASSUME ListInv, CountInv, PopNext PROVE CountInv'
  OBVIOUS
<1>1. /\ TypeOK /\ pc[Listener] = "pnext" /\ GoTo(Listener, "pcas")
      /\ UNCHANGED <<stack, recycled_pools_count, max_recycled_pools, configured, seen,
                     closed, exited, draining>>
  BY DEF ListInv, PopNext, At, listVars, countVars, pushVars
<1>2. "pcas" \in {"idle"} \cup PopPoints /\ pc[Listener] \notin PushPoints
  BY <1>1 DEF PopPoints, PushPoints
<1>3. /\ Cardinality(Linking') = Cardinality(Linking)
      /\ Cardinality(Admitted') = Cardinality(Admitted)
      /\ Cardinality(WillCount') = Cardinality(WillCount)
      /\ Unlinked' = 0 /\ pc'[Listener] = "pcas"
  BY <1>1, <1>2, ListenerMoves
<1>4. Unlinked = 0
  BY <1>1 DEF Unlinked
<1> QED
  BY <1>1, <1>3, <1>4, CountUnmoved DEF PopPoints

LEMMA CountPopSwap == ListInv /\ CountInv /\ PopSwap => CountInv'
<1> SUFFICES ASSUME ListInv, CountInv, PopSwap PROVE CountInv'
  OBVIOUS
<1>1. /\ TypeOK /\ pc[Listener] = "pcas"
      /\ UNCHANGED <<recycled_pools_count, max_recycled_pools, configured, seen,
                     closed, exited, draining>>
  BY DEF ListInv, PopSwap, At, countVars, pushVars, popVars
<1>2. {"pload", "pdec"} \subseteq {"idle"} \cup PopPoints /\ pc[Listener] \notin PushPoints
  BY <1>1 DEF PopPoints, PushPoints
<1>3. Unlinked = 0
  BY <1>1 DEF Unlinked
<1>4. CASE recycled_pools # first
  <2>1. GoTo(Listener, "pload") /\ UNCHANGED stack
    BY <1>4 DEF PopSwap, listVars
  <2>2. /\ Cardinality(Linking') = Cardinality(Linking)
        /\ Cardinality(Admitted') = Cardinality(Admitted)
        /\ Cardinality(WillCount') = Cardinality(WillCount)
        /\ Unlinked' = 0 /\ pc'[Listener] = "pload"
    BY <1>1, <1>2, <2>1, ListenerMoves
  <2> QED
    BY <1>1, <1>3, <2>1, <2>2, CountUnmoved DEF PopPoints
<1>5. CASE recycled_pools = first
  <2>1. GoTo(Listener, "pdec") /\ stack' = Tail(stack)
    BY <1>5 DEF PopSwap
  <2>2. /\ Cardinality(Linking') = Cardinality(Linking)
        /\ Cardinality(Admitted') = Cardinality(Admitted)
        /\ Cardinality(WillCount') = Cardinality(WillCount)
        /\ Unlinked' = 1 /\ pc'[Listener] = "pdec"
    BY <1>1, <1>2, <2>1, ListenerMoves
  <2>3. stack \in Seq(Pools) /\ stack # <<>>
    BY <1>1 DEF ListInv, PopSeesList, TypeOK
  <2>4. Len(stack') = Len(stack) - 1
    BY <2>1, <2>3, PoppedStack
  <2>5. LimitNow' /\ CountExact' /\ Overshoot'
    BY <1>1, <1>3, <2>2, <2>4, Numbers DEF CountInv, LimitNow, CountExact, Overshoot
  <2>6. LateLinks'
    <3>1. /\ Len(stack) \in Nat /\ Cardinality(Admitted) \in Nat
          /\ Cardinality(Workers) \in Nat
      BY <1>1, Numbers, ThreadsCounted
    <3>2. closed /\ ~draining => Len(stack) + Cardinality(Admitted) <= Cardinality(Workers)
      BY DEF CountInv, LateLinks
    <3>3. closed' /\ ~(draining' /\ pc'[Listener] \in PopPoints) => closed /\ ~draining
      BY <1>1, <2>2 DEF PopPoints
    <3> QED
      BY <2>2, <2>4, <3>1, <3>2, <3>3 DEF LateLinks
  <2> QED
    BY <2>5, <2>6 DEF CountInv
<1> QED
  BY <1>4, <1>5

LEMMA ModSmall ==
    ASSUME NEW x \in Nat, NEW m \in Nat, x < m
    PROVE  x % m = x
OBVIOUS

\* The decrement does not wrap, if pools were counted at all.
LEMMA CountPopCount == ListInv /\ CountInv /\ PopCount => CountInv'
<1> SUFFICES ASSUME ListInv, CountInv, PopCount PROVE CountInv'
  OBVIOUS
<1> DEFINE point == IF draining THEN "pload" ELSE "idle"
<1>1. /\ TypeOK /\ pc[Listener] = "pdec" /\ GoTo(Listener, point) /\ ~exited
      /\ UNCHANGED <<stack, max_recycled_pools, configured, seen, closed, exited, draining>>
  BY DEF ListInv, PopCount, PopReturn, At, listVars, pushVars
<1>2. /\ point \in {"idle"} \cup PopPoints /\ pc[Listener] \notin PushPoints
      /\ point # "pdec" /\ (draining => point \in PopPoints)
  BY <1>1 DEF PopPoints, PushPoints
<1> HIDE DEF point
<1>3. /\ Cardinality(Linking') = Cardinality(Linking)
      /\ Cardinality(Admitted') = Cardinality(Admitted)
      /\ Cardinality(WillCount') = Cardinality(WillCount)
      /\ Unlinked' = 0 /\ pc'[Listener] = point
  BY <1>1, <1>2, ListenerMoves
<1>4. Unlinked = 1
  BY <1>1 DEF Unlinked
<1>5. CountExact'
  <2> SUFFICES ASSUME configured >= 0
               PROVE  recycled_pools_count' = Len(stack) + Cardinality(Linking)
    BY <1>1, <1>3, Numbers DEF CountExact
  <2>1. recycled_pools_count = Len(stack) + Cardinality(Linking) + 1
    BY <1>1, <1>4 DEF CountInv, CountExact
  <2>2. max_recycled_pools >= 0
    BY <1>1, Numbers DEF TypeOK
  <2>3. recycled_pools_count' = (recycled_pools_count - 1) % UIntSize
    BY <2>2 DEF PopCount
  <2>4. recycled_pools_count \in 0 .. UIntSize - 1 /\ UIntSize \in Nat
    BY <1>1, PoolsAssumption DEF TypeOK
  <2>5. Len(stack) \in Nat /\ Cardinality(Linking) \in Nat
    BY <1>1, Numbers
  <2>6. /\ recycled_pools_count - 1 = Len(stack) + Cardinality(Linking)
        /\ recycled_pools_count - 1 \in Nat /\ recycled_pools_count - 1 < UIntSize
    BY <2>1, <2>4, <2>5
  <2> QED
    BY <2>3, <2>4, <2>6, ModSmall
<1>6. LimitNow' /\ Overshoot'
  <2>1. /\ Len(stack) \in Nat /\ Cardinality(Linking) \in Nat
        /\ Cardinality(WillCount) \in Nat
        /\ configured \in Int /\ Cardinality(Threads) \in Nat
    BY <1>1, Numbers, ThreadsCounted
  <2>2. configured >= 0 =>
          Len(stack) + Cardinality(Linking) + Cardinality(WillCount) + 0
            <= configured + Cardinality(Threads) - 1
    BY <1>4, <2>1 DEF CountInv, Overshoot
  <2> QED
    BY <1>1, <1>3, <2>2 DEF CountInv, LimitNow, Overshoot
<1>7. LateLinks'
  BY <1>1, <1>2, <1>3 DEF CountInv, LateLinks
<1> QED
  BY <1>5, <1>6, <1>7 DEF CountInv

LEMMA CountExit == ListInv /\ CountInv /\ (ChildExit \/ CleanupOne) => CountInv'
<1> SUFFICES ASSUME ListInv, CountInv, ChildExit \/ CleanupOne PROVE CountInv'
  OBVIOUS
<1>1. /\ TypeOK /\ exited'
      /\ UNCHANGED <<recycled_pools_count, max_recycled_pools, configured, seen, pc, closed,
                     draining>>
  BY DEF ListInv, ChildExit, CleanupOne, countVars, pushVars, popVars
<1>2. /\ Linking' = Linking /\ WillCount' = WillCount /\ Admitted' = Admitted
      /\ Unlinked' = Unlinked
  BY <1>1 DEF Linking, WillCount, Admitted, Unlinked
<1>3. Len(stack') \in Nat /\ Len(stack') <= Len(stack)
  <2>1. CASE ChildExit
    BY <1>1, <2>1, Numbers DEF ChildExit, listVars
  <2>2. CASE CleanupOne
    <3>1. stack \in Seq(Pools) /\ stack # <<>> /\ stack' = Tail(stack)
      BY <2>2 DEF ListInv, TypeOK, ChainIntact, CleanupOne
    <3> QED
      BY <3>1, PoppedStack
  <2> QED
    BY <2>1, <2>2
<1>4. LimitNow' /\ CountExact'
  BY <1>1 DEF CountInv, LimitNow, CountExact
<1>5. Overshoot'
  <2>1. /\ Len(stack) \in Nat /\ Cardinality(Linking) \in Nat /\ Unlinked \in Nat
        /\ Cardinality(WillCount) \in Nat
        /\ configured \in Int /\ Cardinality(Threads) \in Nat
    BY <1>1, Numbers, ThreadsCounted
  <2> QED
    BY <1>1, <1>2, <1>3, <2>1 DEF CountInv, Overshoot
<1>6. LateLinks'
  BY <1>1, <1>2, <1>3, Numbers, ThreadsCounted DEF CountInv, LateLinks
<1> QED
  BY <1>4, <1>5, <1>6 DEF CountInv

LEMMA InitCountInv == Init => CountInv
<1> SUFFICES ASSUME Init PROVE CountInv
  OBVIOUS
<1>1. TypeOK
  BY InitListInv DEF ListInv
<1>2. Linking = {} /\ WillCount = {} /\ Admitted = {} /\ Unlinked = 0
  BY ListenerIsThread DEF Init, Linking, WillCount, Admitted, Unlinked
<1>3. Cardinality({}) = 0 /\ Len(stack) = 0
  BY FS_EmptySet, LenOfEmpty DEF Init
<1>4. LimitNow /\ LateLinks
  BY DEF Init, LimitNow, LateLinks
<1>5. CountExact
  BY <1>2, <1>3 DEF Init, CountExact
<1>6. Overshoot
  BY <1>1, <1>2, <1>3, Numbers, ThreadsCounted DEF Overshoot
<1> QED
  BY <1>4, <1>5, <1>6 DEF CountInv

LEMMA NextKeepsCountInv == ListInv /\ CountInv /\ [Next]_vars => CountInv'
<1> SUFFICES ASSUME ListInv, CountInv, [Next]_vars PROVE CountInv'
  OBVIOUS
<1>1. CASE \E t \in Threads : ThreadStep(t) \/ \E p \in Pools : PushEnter(t, p)
  BY <1>1, CountPushEnter, CountPushCompare, CountPushCount, CountPushLoad, CountPushSwap
  DEF ThreadStep
<1>2. CASE WantPool \/ FreeIdlePools \/ PopStep
  BY <1>2, CountWantPool, CountFreeIdlePools, CountPopLoad, CountPopNext, CountPopSwap,
     CountPopCount
  DEF PopStep
<1>3. CASE ChildExit \/ CleanupOne
  BY <1>3, CountExit
<1>4. CASE UNCHANGED vars
  BY <1>4
  DEF vars, listVars, countVars, pushVars, popVars, CountInv, LimitNow, CountExact,
      Overshoot, LateLinks, Linking, WillCount, Admitted, Unlinked
<1> QED
  BY <1>1, <1>2, <1>3, <1>4 DEF Next

LEMMA CountInvAlways == Spec => [](TypeOK /\ CountInv)
<1>1. ListInv => TypeOK
  BY DEF ListInv
<1> QED
  BY <1>1, InitCountInv, NextKeepsCountInv, ListInvAlways, PTL DEF Spec

(* recycled_pools_count never drifts from the length of the list and never wraps,
   as long as a limit was configured: only then pops and pushes both count. *)
THEOREM CountNeverDrifts == Spec => []CountExact
<1>1. CountInv => CountExact
  BY DEF CountInv
<1> QED
  BY <1>1, CountInvAlways, PTL

(* The unlocked test of the limit in ap_push_pool lets the list grow past it by one
   pool for every other thread and no more, for any number of threads. *)
THEOREM OvershootIsBounded == Spec => []OvershootBounded
<1>1. TypeOK /\ CountInv => OvershootBounded
  <2> SUFFICES ASSUME TypeOK, CountInv, configured > 0
               PROVE  Len(stack) <= configured + Cardinality(Threads) - 1
    BY DEF OvershootBounded
  <2>1. /\ Len(stack) \in Nat /\ Cardinality(Linking) \in Nat /\ Unlinked \in Nat
        /\ Cardinality(WillCount) \in Nat
        /\ configured \in Int /\ Cardinality(Threads) \in Nat
    BY Numbers, ThreadsCounted
  <2> QED
    BY <2>1 DEF CountInv, Overshoot
<1> QED
  BY <1>1, CountInvAlways, PTL

(* What is linked after ap_free_idle_pools has emptied the list, and stays there
   until the child exits, is at most one pool for each worker. *)
THEOREM LateLinksAreBounded == Spec => []LateLinksBounded
<1>1. CountInv => LateLinksBounded
  BY DEF CountInv, LateLinks, LateLinksBounded
<1> QED
  BY <1>1, CountInvAlways, PTL

=============================================================================

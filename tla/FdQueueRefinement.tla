------------------------ MODULE FdQueueRefinement ------------------------
(***************************************************************************)
(* The ring of fdqueue.c implements the first-in first-out hand-off of     *)
(* module Handoff, as long as AP_DEBUG_ASSERT(!ap_queue_full(queue)) does  *)
(* not fail, for any number of workers.                                    *)
(***************************************************************************)
EXTENDS FdQueueProofs

Socks == Conns \cup {NoConn}

\* in, out and nelts fit together, and only a busy worker holds something.
RingInv ==
    /\ nelts \in 0 .. bounds
    /\ in = Wrap(out + nelts)
    /\ \A w \in Workers : wpc[w] \notin {"busy", "timer"} => job[w] = NoConn

RInv == FdTypeOK /\ RingInv

\* n slots of the ring d, from slot o on
Window(d, o, n) == [i \in 1 .. n |-> d[Wrap(o + i - 1)]]

LEMMA WindowSeq ==
    ASSUME NEW d \in [Slots -> Socks], NEW o \in Slots, NEW n \in 0 .. bounds
    PROVE  /\ Window(d, o, n) \in Seq(Socks)
           /\ Len(Window(d, o, n)) = n
           /\ \A i \in 1 .. n : Window(d, o, n)[i] = d[Wrap(o + i - 1)]
<1>1. n \in Nat /\ bounds \in Nat
  BY BoundsType, SMT
<1>2. \A i \in 1 .. n : Wrap(o + i - 1) \in Slots
  BY <1>1, BoundsType, SMT DEF Wrap, Slots
<1>3. Window(d, o, n) \in [1 .. n -> Socks]
  BY <1>1, <1>2, SMT DEF Window
<1> QED BY <1>1, <1>3, SMT DEF Window

LEMMA PendingWindow ==
    /\ RInv  => Pending = Window(data, out, nelts)
    /\ RInv' => Pending' = Window(data', out', nelts')
BY BoundsType, SMT DEF RInv, RingInv, Pending, Depth, Window, Wrap, bounds

\* The elements of Pending are the slots out, out + 1, ... of the ring.
LEMMA PendingSeq ==
    ASSUME RInv
    PROVE  /\ Pending \in Seq(Socks)
           /\ Len(Pending) = nelts
           /\ \A i \in 1 .. nelts : Pending[i] = data[Wrap(out + i - 1)]
BY PendingWindow, WindowSeq DEF RInv, RingInv, FdTypeOK, Socks

LEMMA PendingSeqPrime ==
    ASSUME RInv'
    PROVE  /\ Pending' \in Seq(Socks)
           /\ Len(Pending') = nelts'
           /\ \A i \in 1 .. nelts' : Pending'[i] = data'[Wrap(out' + i - 1)]
<1>1. data' \in [Slots -> Socks] /\ out' \in Slots /\ nelts' \in 0 .. bounds
  BY DEF RInv, RingInv, FdTypeOK, Socks, bounds, Slots
<1> QED BY <1>1, PendingWindow, WindowSeq

LEMMA PushAppends ==
    ASSUME RInv, RInv', NEW c \in Conns, Push(c), ~overrun'
    PROVE  Pending' = Append(Pending, c) /\ Len(Pending) < bounds
<1>1. nelts < bounds /\ nelts \in Nat /\ bounds \in Nat
  BY BoundsType, SMT DEF RInv, RingInv, Push, Full
<1>2. /\ Pending' \in Seq(Socks)
      /\ Len(Pending') = nelts + 1
      /\ \A i \in 1 .. nelts + 1 : Pending'[i] = data'[Wrap(out + i - 1)]
  BY PendingSeqPrime DEF Push
<1>3. /\ Append(Pending, c) \in Seq(Socks)
      /\ Len(Append(Pending, c)) = nelts + 1
      /\ Append(Pending, c)[nelts + 1] = c
      /\ \A i \in 1 .. nelts : Append(Pending, c)[i] = Pending[i]
  BY <1>1, PendingSeq, SMT DEF Socks
<1>4. \A i \in 1 .. nelts : Wrap(out + i - 1) # in /\ Wrap(out + i - 1) \in Slots
  BY <1>1, SMT DEF RInv, RingInv, FdTypeOK, Wrap, Slots
<1>5. \A i \in 1 .. nelts : Pending'[i] = Pending[i]
  BY <1>1, <1>2, <1>4, PendingSeq, SMT DEF Push, RInv, FdTypeOK
<1>6. Pending'[nelts + 1] = c
  <2>1. in \in Slots /\ in = Wrap(out + (nelts + 1) - 1)
    BY <1>1, SMT DEF RInv, RingInv, FdTypeOK, Slots
  <2> QED BY <1>1, <1>2, <2>1, SMT DEF Push, RInv, FdTypeOK
<1>7. \A i \in 1 .. nelts + 1 : Pending'[i] = Append(Pending, c)[i]
  BY <1>1, <1>3, <1>5, <1>6, SMT
<1> QED BY <1>1, <1>2, <1>3, <1>7, PendingSeq, SeqEqual

LEMMA TakeRemovesHead ==
    ASSUME RInv, RInv', NEW w \in Workers, Take(w), timers = <<>>, ~Empty
    PROVE  /\ Pending # <<>>
           /\ data[out] = Head(Pending)
           /\ Pending' = Tail(Pending)
<1>1. nelts \in Nat /\ nelts >= 1 /\ nelts' = nelts - 1 /\ bounds \in Nat
  BY BoundsType, SMT DEF RInv, RingInv, Take, Empty
<1>2. Pending # <<>> /\ Head(Pending) = Pending[1]
  BY <1>1, PendingSeq, SMT
<1>3. Wrap(out + 1 - 1) = out
  BY <1>1, SMT DEF RInv, FdTypeOK, Slots, Wrap
<1>4. data[out] = Head(Pending)
  BY <1>1, <1>2, <1>3, PendingSeq, SMT
<1>5. /\ Pending' \in Seq(Socks)
      /\ Len(Pending') = nelts - 1
      /\ \A i \in 1 .. nelts - 1 : Pending'[i] = data[Wrap(Wrap(out + 1) + i - 1)]
  <2>1. data' = data /\ out' = Wrap(out + 1)
    BY DEF Take
  <2> QED BY <1>1, <2>1, PendingSeqPrime
<1>6. /\ Tail(Pending) \in Seq(Socks)
      /\ Len(Tail(Pending)) = nelts - 1
      /\ \A i \in 1 .. nelts - 1 : Tail(Pending)[i] = Pending[i + 1]
  BY <1>1, <1>2, PendingSeq, HeadTailProperties, SMT
<1>7. \A i \in 1 .. nelts - 1 :
         Wrap(Wrap(out + 1) + i - 1) = Wrap(out + (i + 1) - 1)
  BY <1>1, SMT DEF RInv, RingInv, FdTypeOK, Slots, Wrap
<1>8. \A i \in 1 .. nelts - 1 : Pending'[i] = Tail(Pending)[i]
  BY <1>1, <1>5, <1>6, <1>7, PendingSeq, SMT
<1>9. Pending' = Tail(Pending)
  BY <1>1, <1>5, <1>6, <1>8, SeqEqual
<1> QED BY <1>2, <1>4, <1>9

-----------------------------------------------------------------------------
LEMMA RInvInit == FdInit => RInv
BY TypeInit, BoundsType, SMT DEF FdInit, RInv, RingInv, Wrap

\* Waking a sleeper keeps RingInv's third conjunct.
LEMMA WakeKeepsJobs ==
    ASSUME RInv, wpc' \in SignalNotEmpty(wpc) \/ wpc' = BroadcastNotEmpty(wpc),
           job' = job
    PROVE  \A w \in Workers : wpc'[w] \notin {"busy", "timer"} => job'[w] = NoConn
<1>1. CASE wpc' \in SignalNotEmpty(wpc)
  <2>1. \/ wpc' = wpc
        \/ \E w \in Workers : /\ wpc[w] = "waiting"
                              /\ wpc' = [wpc EXCEPT ![w] = "woken"]
    BY <1>1, SignalCases DEF RInv, FdTypeOK
  <2> QED BY <2>1, SMT DEF RInv, RingInv, FdTypeOK
<1>2. CASE wpc' = BroadcastNotEmpty(wpc)
  BY <1>2, SMT DEF RInv, RingInv, FdTypeOK, BroadcastNotEmpty
<1> QED BY <1>1, <1>2

LEMMA RInvStep == RInv /\ [FdNext /\ ~overrun']_fdvars => RInv'
<1> SUFFICES ASSUME RInv, [FdNext /\ ~overrun']_fdvars PROVE RingInv'
  BY TypeStep DEF RInv
<1>a. FdTypeOK /\ RingInv /\ bounds \in Nat /\ bounds >= 1
  BY BoundsType DEF RInv
<1>1. ASSUME NEW w \in Workers,
             SetIdle(w) \/ SignalListener(w) \/ CheckTerm(w)
             \/ FinishSocket(w) \/ FinishTimer(w) \/ Exit(w)
      PROVE  RingInv'
  <2>1. \A v \in Workers : wpc'[v] \notin {"busy", "timer"} => job'[v] = NoConn
    BY <1>1, <1>a, SMT DEF SetIdle, SignalListener, CheckTerm, FinishSocket,
       FinishTimer, Exit, RingInv, FdTypeOK
  <2> QED BY <1>1, <1>a, <2>1 DEF SetIdle, SignalListener, CheckTerm,
          FinishSocket, FinishTimer, Exit, RingInv, ringVars, Wrap, bounds
<1>2. ASSUME NEW w \in Workers, Pop(w) \/ WakeUp(w), Empty PROVE RingInv'
  <2>1. \A v \in Workers : wpc'[v] \notin {"busy", "timer"} => job'[v] = NoConn
    BY <1>2, <1>a, SMT DEF Pop, WakeUp, RingInv, FdTypeOK
  <2> QED BY <1>2, <1>a, <2>1 DEF Pop, WakeUp, RingInv, ringVars, Wrap, bounds
<1>3. ASSUME NEW w \in Workers, Pop(w) \/ WakeUp(w), ~Empty PROVE RingInv'
  <2>1. Take(w)
    BY <1>3 DEF Pop, WakeUp
  <2>2. \A v \in Workers : wpc'[v] \notin {"busy", "timer"} => job'[v] = NoConn
    BY <2>1, <1>a, SMT DEF Take, RingInv, FdTypeOK
  <2>3. CASE timers # <<>>
    BY <2>1, <2>2, <2>3, <1>a DEF Take, RingInv, ringVars, Wrap, bounds
  <2>4. CASE timers = <<>>
    <3>1. nelts' = nelts - 1 /\ out' = Wrap(out + 1) /\ in' = in
      BY <2>1, <2>4 DEF Take
    <3>2. nelts \in 1 .. bounds /\ out \in 0 .. bounds - 1
      BY <1>3, <1>a, <2>4, SMT DEF RingInv, Empty, FdTypeOK, Slots
    <3>3. in' = Wrap(out' + nelts') /\ nelts' \in 0 .. bounds
      BY <1>a, <3>1, <3>2, SMT DEF RingInv, Wrap
    <3> QED BY <2>2, <3>3 DEF RingInv, Wrap, bounds
  <2> QED BY <2>3, <2>4
<1>4. CASE TryGetIdler \/ BackOut \/ WaitForIdler \/ Recheck \/ InfoTerm
           \/ QueueTerm \/ UNCHANGED fdvars
  BY <1>4, <1>a DEF TryGetIdler, BackOut, WaitForIdler, Recheck, InfoTerm,
     QueueTerm, fdvars, RingInv, ringVars, Wrap, bounds
<1>5. ASSUME NEW c \in Conns, Push(c), ~overrun' PROVE RingInv'
  <2>1. \A v \in Workers : wpc'[v] \notin {"busy", "timer"} => job'[v] = NoConn
    BY <1>5, WakeKeepsJobs DEF Push
  <2>2. nelts' = nelts + 1 /\ in' = Wrap(in + 1) /\ out' = out /\ nelts # bounds
    BY <1>5 DEF Push, Full
  <2>3. in' = Wrap(out' + nelts') /\ nelts' \in 0 .. bounds
    BY <1>a, <2>2, SMT DEF RingInv, FdTypeOK, Slots, Wrap
  <2> QED BY <2>1, <2>3 DEF RingInv, Wrap, bounds
<1>6. CASE (\E t \in Timers : PushTimer(t)) \/ InterruptOne \/ InterruptAll
           \/ QueueTermBroadcast
  <2>1. \A v \in Workers : wpc'[v] \notin {"busy", "timer"} => job'[v] = NoConn
    BY <1>6, WakeKeepsJobs DEF PushTimer, InterruptOne, InterruptAll,
       QueueTermBroadcast
  <2> QED BY <1>6, <1>a, <2>1 DEF PushTimer, InterruptOne, InterruptAll,
          QueueTermBroadcast, RingInv, ringVars, Wrap, bounds
<1> QED
  BY <1>1, <1>2, <1>3, <1>4, <1>5, <1>6, Zenon
  DEF FdNext, Running, Shutdown, ListenerStep, WorkerStep

\* When the ring's variables do not change, neither does what it holds.
LEMMA PendingUnchanged ==
    ASSUME UNCHANGED <<data, out, nelts>>
    PROVE  Pending' = Pending
BY DEF Pending, Depth, Wrap, bounds

LEMMA StepRefines ==
    RInv /\ RInv' /\ [FdNext /\ ~overrun']_fdvars
        => [Abstract!Next]_(Abstract!vars)
<1> SUFFICES ASSUME RInv, RInv', [FdNext /\ ~overrun']_fdvars
             PROVE  [Abstract!Next]_(Abstract!vars)
  OBVIOUS
<1> USE DEF Abstract!vars
<1>1. ASSUME NEW w \in Workers,
             SetIdle(w) \/ SignalListener(w) \/ CheckTerm(w) \/ Exit(w)
      PROVE  UNCHANGED Abstract!vars
  BY <1>1, PendingUnchanged DEF SetIdle, SignalListener, CheckTerm, Exit,
     ringVars
<1>2. ASSUME NEW w \in Workers, FinishSocket(w) \/ FinishTimer(w)
      PROVE  Abstract!Next
  <2>1. Abstract!Complete(w)
    BY <1>2, PendingUnchanged DEF FinishSocket, FinishTimer, ringVars,
       Abstract!Complete
  <2> QED BY <2>1 DEF Abstract!Next
<1>3. ASSUME NEW w \in Workers, Pop(w) \/ WakeUp(w), Empty
      PROVE  UNCHANGED Abstract!vars
  BY <1>3, PendingUnchanged DEF Pop, WakeUp, ringVars
<1>4. ASSUME NEW w \in Workers, Pop(w) \/ WakeUp(w), ~Empty
      PROVE  Abstract!Next
  <2>1. Take(w) /\ wpc[w] \in {"pop", "woken"}
    BY <1>4 DEF Pop, WakeUp
  <2>2. job[w] = NoConn
    BY <2>1 DEF RInv, RingInv
  <2>3. CASE timers # <<>>
    <3>1. Abstract!DeliverTimer(w)
      BY <2>1, <2>2, <2>3, PendingUnchanged
      DEF Take, ringVars, Abstract!DeliverTimer
    <3> QED BY <3>1 DEF Abstract!Next
  <2>4. CASE timers = <<>>
    <3>1. Abstract!Deliver(w)
      BY <1>4, <2>1, <2>2, <2>4, TakeRemovesHead DEF Take, Abstract!Deliver
    <3> QED BY <3>1 DEF Abstract!Next
  <2> QED BY <2>3, <2>4
<1>5. CASE TryGetIdler \/ BackOut \/ WaitForIdler \/ Recheck \/ InfoTerm
           \/ QueueTerm \/ InterruptOne \/ InterruptAll \/ QueueTermBroadcast
           \/ UNCHANGED fdvars
  BY <1>5, PendingUnchanged DEF TryGetIdler, BackOut, WaitForIdler, Recheck,
     InfoTerm, QueueTerm, InterruptOne, InterruptAll, QueueTermBroadcast,
     fdvars, ringVars
<1>6. ASSUME NEW c \in Conns, Push(c), ~overrun' PROVE Abstract!Next
  <2>1. Abstract!Submit(c)
    BY <1>6, PushAppends DEF Push, Abstract!Submit
  <2> QED BY <2>1 DEF Abstract!Next
<1>7. ASSUME NEW t \in Timers, PushTimer(t) PROVE Abstract!Next
  <2>1. Abstract!SubmitTimer(t)
    BY <1>7, PendingUnchanged DEF PushTimer, ringVars, Abstract!SubmitTimer
  <2> QED BY <2>1 DEF Abstract!Next
<1> QED
  BY <1>1, <1>2, <1>3, <1>4, <1>5, <1>6, <1>7, Zenon
  DEF FdNext, Running, Shutdown, ListenerStep, WorkerStep

(* ap_queue_push and ap_queue_pop_something hand sockets over in order, each to
   one worker, and never hold more than threads_per_child of them, until the
   assertion against a full ring fails. *)
THEOREM RingDeliversInOrder == DebugSpec => DeliversInOrder
<1>1. FdInit => Abstract!Init
  <2> SUFFICES ASSUME FdInit PROVE Abstract!Init
    OBVIOUS
  <2>1. Pending = <<>>
    BY RInvInit, PendingSeq, EmptySeq, SMT DEF FdInit
  <2> QED BY <2>1 DEF FdInit, Abstract!Init
<1> QED BY <1>1, RInvInit, RInvStep, StepRefines, PTL
        DEF DebugSpec, DeliversInOrder, Abstract!Spec
=============================================================================

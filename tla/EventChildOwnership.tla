------------------------ MODULE EventChildOwnership ------------------------
(***************************************************************************)
(* Who holds a connection of a child process, for every number of workers, *)
(* connections, timers and listening sockets: no connection is in two      *)
(* hands or in none, and the listener's switch meets no unexpected state.  *)
(***************************************************************************)
EXTENDS EventChildProofs, FdQueueRefinement

-----------------------------------------------------------------------------
(* The inductive invariant.  An open connection is in one of four places, or in none
   while it is suspended, and each place allows some of its states only. *)

\* The connection each worker owns: process_socket has not given it away yet.
Hands ==
    [w \in Workers |->
        IF wpc[w] = "busy" /\ wat[w] # "release" THEN job[w] ELSE NoConn]

\* No socket is in the ring twice.
RingOnce == \A i, j \in DOMAIN Pending : Pending[i] = Pending[j] => i = j

\* A queued or served connection is new, being read or being written.
InWork == {"new", "read", "wc"}

\* A parked or expired one waits for its client.
Waiting == {"ka", "wc", "lingering"}

ConnTypes ==
    /\ cst \in [Conns -> ConnStates]
    /\ toq \in [Conns -> QueueNames]
    /\ wat \in [Workers -> {"resume", "serve", "park", "release"}]
    /\ Hands \in [Workers -> Conns \cup {NoConn}]
    /\ lat \in LoopPoints
    /\ batch \subseteq Conns \cup Listeners

QueuedOK(c) ==
    c \in Queued => cst[c] \in InWork /\ toq[c] = "no" /\ c \notin Trashed

ParkedOK(c) ==
    toq[c] # "no" =>
        /\ c \notin Trashed
        /\ cst[c] \in Waiting \/ (cst[c] = "read" /\ lat = "get" /\ lcur = c)

TrashedOK(c) == c \in Trashed => cst[c] \in Waiting

HeldOK(c) ==
    \A w \in Workers : Hands[w] = c =>
        /\ cst[c] \in InWork /\ toq[c] = "no"
        /\ c \notin Queued /\ c \notin Trashed
        /\ cst[c] = "new" => wat[w] = "resume"
        /\ \A v \in Workers : Hands[v] = c => v = w

\* An open connection is somewhere.
FoundOK(c) ==
    cst[c] \notin {"none", "suspended"} =>
        \/ c \in Queued \/ c \in Trashed \/ toq[c] # "no"
        \/ \E w \in Workers : Hands[w] = c

PlaceOK(c) == QueuedOK(c) /\ ParkedOK(c) /\ TrashedOK(c) /\ HeldOK(c) /\ FoundOK(c)

\* process_socket starts from the beginning with every socket.
RestInv == \A w \in Workers : wpc[w] # "busy" => wat[w] = "resume"

(* Only what is parked is polled, and what the listener has polled stays there
   until the listener itself takes it out. *)
LoopInv ==
    /\ pollset \subseteq {c \in Conns : toq[c] # "no"}
    /\ lat \in {"top", "quota", "poll", "check"} => batch = {}
    /\ lat \in {"timers", "batch", "get"} => batch \cap Conns \subseteq pollset
    /\ IF lat = "get" THEN lcur \in batch ELSE lcur = NoConn
    /\ lat = "get" /\ lcur \in Conns => cst[lcur] \in {"read", "wc"}

PlaceInv ==
    /\ RInv /\ ConnTypes
    /\ RingOnce /\ Queued \subseteq Conns
    /\ \A c \in Conns : PlaceOK(c)
    /\ RestInv /\ LoopInv

-----------------------------------------------------------------------------
(* What the operations of the worker queue do to the sockets in the ring *)

LEMMA PendingFacts ==
    ASSUME RInv
    PROVE  /\ Pending \in Seq(Socks) /\ DOMAIN Pending = 1 .. Len(Pending)
           /\ Len(Pending) \in Nat
BY PendingSeq

LEMMA PushQueues ==
    ASSUME RInv, RInv', NEW c \in Conns, Push(c), ~overrun'
    PROVE  /\ Queued' = Queued \cup {c}
           /\ RingOnce /\ c \notin Queued => RingOnce'
<1>1. Pending' = Append(Pending, c)
  BY PushAppends
<1> DEFINE n == Len(Pending)
<1>2. Pending \in Seq(Socks) /\ n \in Nat /\ DOMAIN Pending = 1 .. n
  BY PendingFacts
<1>3. c \in Socks
  BY DEF Socks
<1>4. /\ DOMAIN Pending' = 1 .. (n + 1)
      /\ Pending'[n + 1] = c
      /\ \A i \in 1 .. n : Pending'[i] = Pending[i]
  BY <1>1, <1>2, <1>3, AppendProperties
<1> HIDE DEF n
<1>5. Queued' = Queued \cup {c}
  BY <1>2, <1>4 DEF Queued
<1>6. ASSUME RingOnce, c \notin Queued PROVE RingOnce'
  <2> SUFFICES ASSUME NEW i \in 1 .. (n + 1), NEW j \in 1 .. (n + 1),
                      Pending'[i] = Pending'[j]
               PROVE  i = j
    BY <1>4 DEF RingOnce
  <2>1. \A k \in 1 .. n : Pending[k] # c
    BY <1>2, <1>6 DEF Queued
  <2>2. i \in 1 .. n <=> j \in 1 .. n
    BY <1>2, <1>4, <2>1
  <2>3. i \in 1 .. n /\ j \in 1 .. n => i = j
    BY <1>2, <1>4, <1>6 DEF RingOnce
  <2> QED
    BY <1>2, <2>2, <2>3
<1> QED
  BY <1>5, <1>6

LEMMA TakeUnqueues ==
    ASSUME RInv, RInv', NEW w \in Workers, Take(w), timers = <<>>, ~Empty
    PROVE  /\ data[out] \in Queued
           /\ Queued' \subseteq Queued /\ Queued \subseteq Queued' \cup {data[out]}
           /\ RingOnce => RingOnce' /\ data[out] \notin Queued'
<1> DEFINE n == Len(Pending)
<1>1. Pending # <<>> /\ data[out] = Head(Pending) /\ Pending' = Tail(Pending)
  BY TakeRemovesHead
<1>2. Pending \in Seq(Socks) /\ n \in Nat /\ DOMAIN Pending = 1 .. n
  BY PendingFacts
<1>3. n >= 1
  BY <1>1, <1>2
<1>4. /\ data[out] = Pending[1]
      /\ DOMAIN Pending' = 1 .. (n - 1)
      /\ \A i \in 1 .. (n - 1) : Pending'[i] = Pending[i + 1]
  BY <1>1, <1>2, <1>3, HeadTailProperties
<1> HIDE DEF n
<1>5. data[out] \in Queued
  BY <1>2, <1>3, <1>4 DEF Queued
<1>6. \A i \in 1 .. (n - 1) : i + 1 \in 1 .. n
  BY <1>2
<1>7. Queued' \subseteq Queued
  BY <1>2, <1>4, <1>6 DEF Queued
<1>8. Queued \subseteq Queued' \cup {data[out]}
  <2> SUFFICES ASSUME NEW i \in 1 .. n, i # 1 PROVE Pending[i] \in Queued'
    BY <1>2, <1>4 DEF Queued
  <2>1. i - 1 \in 1 .. (n - 1) /\ (i - 1) + 1 = i
    BY <1>2
  <2>2. Pending'[i - 1] = Pending[i]
    BY <1>4, <2>1
  <2> QED
    BY <1>4, <2>1, <2>2 DEF Queued
<1>9. ASSUME RingOnce PROVE RingOnce' /\ data[out] \notin Queued'
  <2>1. \A i, j \in 1 .. n : Pending[i] = Pending[j] => i = j
    BY <1>2, <1>9 DEF RingOnce
  <2>2. RingOnce'
    <3> SUFFICES ASSUME NEW i \in 1 .. (n - 1), NEW j \in 1 .. (n - 1),
                        Pending'[i] = Pending'[j]
                 PROVE  i = j
      BY <1>4 DEF RingOnce
    <3>1. i + 1 = j + 1
      BY <1>4, <1>6, <2>1
    <3> QED
      BY <3>1
  <2>3. \A i \in 1 .. (n - 1) : Pending'[i] # data[out]
    <3> TAKE i \in 1 .. (n - 1)
    <3>1. i + 1 \in 1 .. n /\ 1 \in 1 .. n /\ i + 1 # 1
      BY <1>2, <1>3
    <3> QED
      BY <1>4, <2>1, <3>1
  <2> QED
    BY <1>4, <2>2, <2>3 DEF Queued
<1> QED
  BY <1>5, <1>7, <1>8, <1>9

LEMMA RingSame ==
    ASSUME UNCHANGED <<data, out, nelts>>
    PROVE  Queued' = Queued /\ (RingOnce => RingOnce')
<1>1. Pending' = Pending
  BY PendingUnchanged
<1> QED
  BY <1>1 DEF Queued, RingOnce

(* What a step of the queue does that neither moves a socket nor ends a call of
   process_socket: waking, counting, timers, shutdown. *)
QueueQuiet ==
    /\ Queued' = Queued /\ (RingOnce => RingOnce')
    /\ \A w \in Workers : wpc'[w] = "busy" <=> wpc[w] = "busy"
    /\ \A w \in Workers : wpc[w] = "busy" => job'[w] = job[w]

\* Waking sleepers does not change who is busy.
LEMMA WakeKeepsBusy ==
    ASSUME FdTypeOK,
           wpc' \in SignalNotEmpty(wpc) \/ wpc' = BroadcastNotEmpty(wpc)
    PROVE  \A w \in Workers : wpc'[w] = "busy" <=> wpc[w] = "busy"
<1>1. CASE wpc' \in SignalNotEmpty(wpc)
  <2>1. \/ wpc' = wpc
        \/ \E w \in Workers : /\ wpc[w] = "waiting"
                              /\ wpc' = [wpc EXCEPT ![w] = "woken"]
    BY <1>1, SignalCases DEF FdTypeOK
  <2> QED
    BY <2>1 DEF FdTypeOK
<1>2. CASE wpc' = BroadcastNotEmpty(wpc)
  BY <1>2 DEF FdTypeOK, BroadcastNotEmpty
<1> QED
  BY <1>1, <1>2

LEMMA ListenerQueueQuiet ==
    ASSUME FdTypeOK,
           \/ TryGetIdler \/ BackOut \/ WaitForIdler \/ Recheck \/ InfoTerm
           \/ QueueTerm \/ QueueTermBroadcast \/ InterruptOne \/ InterruptAll
           \/ \E t \in Timers : PushTimer(t)
           \/ UNCHANGED fdvars
    PROVE  QueueQuiet
<1>1. UNCHANGED <<data, out, nelts, job>>
  BY DEF TryGetIdler, BackOut, WaitForIdler, Recheck, InfoTerm, QueueTerm,
     QueueTermBroadcast, InterruptOne, InterruptAll, PushTimer, ringVars, fdvars
<1>2. \/ wpc' = wpc
      \/ wpc' \in SignalNotEmpty(wpc)
      \/ wpc' = BroadcastNotEmpty(wpc)
  BY DEF TryGetIdler, BackOut, WaitForIdler, Recheck, InfoTerm, QueueTerm,
     QueueTermBroadcast, InterruptOne, InterruptAll, PushTimer, fdvars
<1>3. \A w \in Workers : wpc'[w] = "busy" <=> wpc[w] = "busy"
  BY <1>2, WakeKeepsBusy
<1> QED
  BY <1>1, <1>3, RingSame DEF QueueQuiet

LEMMA WorkerQueueQuiet ==
    ASSUME FdTypeOK, NEW w \in Workers,
           \/ SetIdle(w) \/ SignalListener(w) \/ CheckTerm(w) \/ FinishTimer(w) \/ Exit(w)
           \/ (Pop(w) \/ WakeUp(w)) /\ (Empty \/ timers # <<>>)
    PROVE  QueueQuiet
<1>1. UNCHANGED <<data, out, nelts>>
  BY DEF SetIdle, SignalListener, CheckTerm, FinishTimer, Exit, Pop, WakeUp, Take,
     ringVars, Empty
<1>2. /\ \A v \in Workers : wpc'[v] = "busy" <=> wpc[v] = "busy"
      /\ \A v \in Workers : wpc[v] = "busy" => job'[v] = job[v]
  BY DEF FdTypeOK, SetIdle, SignalListener, CheckTerm, FinishTimer, Exit, Pop, WakeUp,
     Take
<1> QED
  BY <1>1, <1>2, RingSame DEF QueueQuiet

-----------------------------------------------------------------------------
(* What a step leaves alone *)

\* The place and the state of connection d do not change.
SameFor(d) ==
    /\ cst'[d] = cst[d] /\ toq'[d] = toq[d]
    /\ d \in Queued' <=> d \in Queued
    /\ d \in Trashed' <=> d \in Trashed
    /\ \A w \in Workers : Hands'[w] = d <=> Hands[w] = d
    /\ \A w \in Workers : Hands[w] = d /\ cst[d] = "new" => wat'[w] = wat[w]
    /\ lat = "get" /\ lcur = d => lat' = "get" /\ lcur' = d

LEMMA FrameOK == ASSUME NEW d, PlaceOK(d), SameFor(d) PROVE PlaceOK(d)'
<1>1. QueuedOK(d)' /\ ParkedOK(d)' /\ TrashedOK(d)'
  BY DEF PlaceOK, SameFor, QueuedOK, ParkedOK, TrashedOK
<1>2. HeldOK(d)'
  BY DEF PlaceOK, SameFor, HeldOK
<1>3. FoundOK(d)'
  BY DEF PlaceOK, SameFor, FoundOK
<1> QED
  BY <1>1, <1>2, <1>3 DEF PlaceOK

\* A quiet step of the queue changes nobody's hands.
LEMMA QuietHands ==
    ASSUME QueueQuiet, UNCHANGED wat PROVE Hands' = Hands
BY DEF QueueQuiet, Hands

LEMMA QuietRest ==
    ASSUME RestInv, QueueQuiet, UNCHANGED wat PROVE RestInv'
BY DEF RestInv, QueueQuiet

LEMMA TrashedSame ==
    ASSUME \/ UNCHANGED <<lat, batch>>
           \/ lat \notin Sweeps /\ lat' \notin Sweeps
           \/ batch = {} /\ batch' = {}
    PROVE  Trashed' = Trashed
BY DEF Trashed

(* Connection c is closed, parked or left to linger.  If it is parked although the
   pollset refused it, it is not polled. *)
Outcomes == {<<"none", "no">>, <<"lingering", "linger">>, <<"wc", "wc">>, <<"ka", "ka">>}

Settles(c) ==
    \E o \in Outcomes :
        /\ cst' = [cst EXCEPT ![c] = o[1]]
        /\ toq' = [toq EXCEPT ![c] = o[2]]
        /\ pollset' \in {pollset, pollset \cup {c}, pollset \ {c}}
        /\ o[2] = "no" => c \notin pollset'

LEMMA ClosedSettles == ASSUME NEW c, Closed(c) PROVE Settles(c)
<1>1. <<"none", "no">> \in Outcomes
  BY DEF Outcomes
<1> QED
  BY <1>1 DEF Closed, Settles

LEMMA LingersSettles == ASSUME NEW c, Lingers(c) PROVE Settles(c)
<1>1. <<"lingering", "linger">> \in Outcomes
  BY DEF Outcomes
<1>2. CASE Closed(c)
  BY <1>2, ClosedSettles
<1>3. CASE ~Closed(c)
  BY <1>1, <1>3 DEF Lingers, Settles
<1> QED
  BY <1>2, <1>3

LEMMA ParksSettles ==
    ASSUME NEW c, NEW q \in {"wc", "ka"}, Parks(c, q) PROVE Settles(c)
<1>1. <<q, q>> \in Outcomes /\ q # "no"
  BY DEF Outcomes
<1> QED
  BY <1>1 DEF Parks, Settles

LEMMA LingerNonblockingSettles ==
    ASSUME NEW c, LingerNonblocking(c) PROVE Settles(c)
BY ClosedSettles, LingersSettles DEF LingerNonblocking

LEMMA SettlesTypes ==
    ASSUME NEW c \in Conns, Settles(c), ConnTypes, LoopInv
    PROVE  /\ cst' \in [Conns -> ConnStates] /\ toq' \in [Conns -> QueueNames]
           /\ pollset' \subseteq {d \in Conns : toq'[d] # "no"}
           /\ pollset' \ {c} = pollset \ {c}
           /\ \A d \in Conns : d # c => cst'[d] = cst[d] /\ toq'[d] = toq[d]
           /\ toq'[c] # "no" => cst'[c] \in Waiting
           /\ toq'[c] = "no" => cst'[c] = "none"
<1>1. PICK o \in Outcomes :
        /\ cst' = [cst EXCEPT ![c] = o[1]]
        /\ toq' = [toq EXCEPT ![c] = o[2]]
        /\ pollset' \in {pollset, pollset \cup {c}, pollset \ {c}}
        /\ o[2] = "no" => c \notin pollset'
  BY DEF Settles
<1>2. /\ o[1] \in ConnStates /\ o[2] \in QueueNames
      /\ o[2] # "no" => o[1] \in Waiting
      /\ o[2] = "no" => o[1] = "none"
  BY DEF Outcomes, ConnStates, QueueNames, Waiting
<1>3. cst' \in [Conns -> ConnStates] /\ toq' \in [Conns -> QueueNames]
  BY <1>1, <1>2 DEF ConnTypes
<1>4. /\ cst'[c] = o[1] /\ toq'[c] = o[2]
      /\ \A d \in Conns : d # c => cst'[d] = cst[d] /\ toq'[d] = toq[d]
  BY <1>1 DEF ConnTypes
<1>5. pollset \subseteq {d \in Conns : toq[d] # "no"}
  BY DEF LoopInv
<1>6. pollset' \subseteq {d \in Conns : toq'[d] # "no"}
  BY <1>1, <1>4, <1>5
<1>7. pollset' \ {c} = pollset \ {c}
  BY <1>1
<1> QED
  BY <1>2, <1>3, <1>4, <1>6, <1>7

(* One connection leaves the hands of a worker, or of the listener, for good or
   until its client is heard of. *)
LEMMA SettleStep ==
    ASSUME PlaceInv, NEW c \in Conns, Settles(c),
           Queued' = Queued, c \notin Queued,
           \A w \in Workers : Hands'[w] = IF Hands[w] = c THEN NoConn ELSE Hands[w],
           \A w \in Workers : Hands[w] # c => wat'[w] = wat[w],
           Trashed' = Trashed \ {c},
           \A d \in Conns \ {c} : lat = "get" /\ lcur = d => lat' = "get" /\ lcur' = d
    PROVE  \A d \in Conns : PlaceOK(d)'
<1>1. /\ \A d \in Conns : d # c => cst'[d] = cst[d] /\ toq'[d] = toq[d]
      /\ toq'[c] # "no" => cst'[c] \in Waiting
      /\ toq'[c] = "no" => cst'[c] = "none"
  BY SettlesTypes DEF PlaceInv
<1>2. ASSUME NEW d \in Conns, d # c PROVE PlaceOK(d)'
  <2>1. d # NoConn /\ PlaceOK(d)
    BY NoConnAssumption DEF PlaceInv
  <2>2. SameFor(d)
    BY <1>1, <1>2, <2>1 DEF SameFor
  <2> QED
    BY <2>1, <2>2, FrameOK
<1>3. PlaceOK(c)'
  <2>1. c # NoConn
    BY NoConnAssumption
  <2>2. \A w \in Workers : Hands'[w] # c
    BY <2>1
  <2>3. c \notin Queued' /\ c \notin Trashed'
    OBVIOUS
  <2> QED
    BY <1>1, <2>2, <2>3 DEF PlaceOK, QueuedOK, ParkedOK, TrashedOK, HeldOK, FoundOK
<1> QED
  BY <1>2, <1>3

-----------------------------------------------------------------------------
(* The listener *)

\* No connection changes its place.
LEMMA QuietStep ==
    ASSUME PlaceInv, RInv', QueueQuiet, UNCHANGED <<connVars, wat>>,
           Trashed' = Trashed,
           lat' \in LoopPoints, batch' \subseteq Conns \cup Listeners, LoopInv',
           \A d \in Conns : lat = "get" /\ lcur = d => lat' = "get" /\ lcur' = d
    PROVE  PlaceInv'
<1>1. Hands' = Hands
  BY QuietHands
<1>2. UNCHANGED <<cst, toq, wat>>
  BY DEF connVars
<1>3. ConnTypes'
  BY <1>1, <1>2 DEF PlaceInv, ConnTypes
<1>4. \A d \in Conns : PlaceOK(d)'
  <2> TAKE d \in Conns
  <2>1. SameFor(d)
    BY <1>1, <1>2 DEF SameFor, QueueQuiet
  <2> QED
    BY <2>1, FrameOK DEF PlaceInv
<1>5. RingOnce' /\ Queued' \subseteq Conns
  BY DEF PlaceInv, QueueQuiet
<1>6. RestInv'
  BY QuietRest DEF PlaceInv
<1> QED
  BY <1>3, <1>4, <1>5, <1>6 DEF PlaceInv

\* The helpers that the listener and the main thread use to stop the child
LEMMA LeaveOrQuiet == ASSUME RInv, NEW p, LeaveOr(p) PROVE QueueQuiet
<1>1. InterruptAll \/ UNCHANGED fdvars
  BY DEF LeaveOr
<1> QED
  BY <1>1, ListenerQueueQuiet DEF RInv

LEMMA SignalGracefulQuiet == ASSUME RInv, SignalGraceful PROVE QueueQuiet
<1>1. InfoTerm \/ UNCHANGED fdvars
  BY DEF SignalGraceful
<1> QED
  BY <1>1, ListenerQueueQuiet DEF RInv

LEMMA InterruptIfDyingQuiet == ASSUME RInv, InterruptIfDying PROVE QueueQuiet
<1>1. InterruptOne \/ UNCHANGED fdvars
  BY DEF InterruptIfDying
<1> QED
  BY <1>1, ListenerQueueQuiet DEF RInv

LEMMA LingerNonblockingQuiet ==
    ASSUME RInv, NEW c, LingerNonblocking(c) PROVE QueueQuiet
<1>1. CASE UNCHANGED fdvars
  BY <1>1, ListenerQueueQuiet DEF RInv
<1>2. CASE InterruptIfDying
  BY <1>2, InterruptIfDyingQuiet
<1> QED
  BY <1>1, <1>2 DEF LingerNonblocking

(* Around the poll: LoopInv does not speak of what is polled before, and the events
   are connections in the pollset. *)
LEMMA PollPlaces ==
    ASSUME PlaceInv, RInv', LTop \/ LQuota \/ LPoll \/ LCheck
    PROVE  PlaceInv'
<1>1. UNCHANGED <<connVars, wat, lcur>>
  BY DEF LTop, LQuota, LPoll, LCheck
<1>2. QueueQuiet
  <2>1. CASE LTop \/ LCheck
    BY <2>1, LeaveOrQuiet DEF LTop, LCheck, PlaceInv
  <2>2. CASE LQuota
    BY <2>2, SignalGracefulQuiet DEF LQuota, PlaceInv
  <2>3. CASE LPoll
    <3>1. CASE UNCHANGED fdvars
      BY <3>1, ListenerQueueQuiet DEF PlaceInv, RInv
    <3>2. CASE ~UNCHANGED fdvars
      BY <2>3, <3>2, LeaveOrQuiet, SignalGracefulQuiet DEF LPoll, PlaceInv
    <3> QED
      BY <3>1, <3>2
  <2> QED
    BY <2>1, <2>2, <2>3
<1>3. lat \in {"top", "quota", "poll", "check"}
  BY DEF LTop, LQuota, LPoll, LCheck
<1>4. batch = {} /\ lcur = NoConn
  BY <1>3 DEF PlaceInv, LoopInv
<1>5. /\ lat' \in {"top", "quota", "poll", "check", "timers", "batch", "leave"}
      /\ \/ batch' = {}
         \/ /\ lat' \in {"timers", "batch"}
            /\ batch' \subseteq pollset \cup Listeners
  <2>1. CASE LTop \/ LQuota \/ LCheck
    BY <1>4, <2>1 DEF LTop, LQuota, LCheck, LeaveOr
  <2>2. CASE LPoll
    BY <1>4, <2>2 DEF LPoll, LeaveOr
  <2> QED
    BY <2>1, <2>2
<1>6. lat' \in LoopPoints /\ lat' \notin Sweeps /\ lat \notin Sweeps
  BY <1>3, <1>5 DEF LoopPoints, Sweeps
<1>7. pollset' = pollset /\ toq' = toq /\ cst' = cst
  BY <1>1 DEF connVars
<1>8. pollset \subseteq Conns
  BY DEF PlaceInv, LoopInv
<1>9. LoopInv'
  BY <1>1, <1>4, <1>5, <1>7, ChildAssumption DEF PlaceInv, LoopInv
<1>10. Trashed' = Trashed
  BY <1>6, TrashedSame
<1>11. batch' \subseteq Conns \cup Listeners
  BY <1>5, <1>8
<1> QED
  BY <1>1, <1>2, <1>3, <1>6, <1>9, <1>10, <1>11, QuietStep

\* Timers, the wait for a worker, refused events, the end of the loop
LEMMA LoopPlaces ==
    ASSUME PlaceInv, RInv',
           \/ LTimersDone \/ LGetWorker \/ LLoopEnd \/ LLeave
           \/ \E t \in Timers : LPushTimer(t)
           \/ \E l \in Listeners : LRefuse(l) \/ LAcceptReady(l)
    PROVE  PlaceInv'
<1>1. UNCHANGED <<connVars, wat>>
  BY DEF LTimersDone, LGetWorker, LLoopEnd, LLeave, LPushTimer, LRefuse, LAcceptReady
<1>2. QueueQuiet
  <2>1. CASE LTimersDone \/ LLoopEnd \/ \E l \in Listeners : LRefuse(l)
    BY <2>1, ListenerQueueQuiet DEF LTimersDone, LLoopEnd, LRefuse, PlaceInv, RInv
  <2>2. CASE LGetWorker \/ LLeave
    BY <2>2, ListenerQueueQuiet DEF LGetWorker, LLeave, PlaceInv, RInv
  <2>3. CASE \E t \in Timers : LPushTimer(t)
    BY <2>3, ListenerQueueQuiet DEF LPushTimer, PlaceInv, RInv
  <2>4. CASE \E l \in Listeners : LAcceptReady(l)
    BY <2>4, ListenerQueueQuiet DEF LAcceptReady, PlaceInv, RInv
  <2> QED
    BY <2>1, <2>2, <2>3, <2>4
<1>3. pollset' = pollset /\ toq' = toq /\ cst' = cst
  BY <1>1 DEF connVars
<1>a. lat \in LoopPoints /\ batch \subseteq Conns \cup Listeners /\ LoopInv
  BY DEF PlaceInv, ConnTypes
<1>b. NoConn \notin Conns /\ NoConn \notin Listeners /\ Listeners \cap Conns = {}
  BY NoConnAssumption, ChildAssumption
<1> USE DEF LoopInv
<1>4. CASE LTimersDone \/ \E t \in Timers : LPushTimer(t)
  <2>1. /\ lat = "timers" /\ lat' \in {"timers", "batch"}
        /\ UNCHANGED <<batch, lcur>>
    BY <1>4 DEF LTimersDone, LPushTimer, loopVars
  <2>2. LoopInv'
    BY <1>3, <1>a, <2>1
  <2>3. lat' \in LoopPoints /\ lat' \notin Sweeps /\ lat \notin Sweeps
    BY <2>1 DEF LoopPoints, Sweeps
  <2> QED
    BY <1>1, <1>2, <1>a, <2>1, <2>2, <2>3, TrashedSame, QuietStep
<1>5. CASE LGetWorker
  <2>1. lat = "get" /\ UNCHANGED <<lat, batch, lcur>>
    BY <1>5 DEF LGetWorker
  <2>2. LoopInv'
    BY <1>3, <1>a, <2>1
  <2> QED
    BY <1>1, <1>2, <1>a, <2>1, <2>2, TrashedSame, QuietStep
<1>6. CASE LLoopEnd \/ LLeave
  <2>1. /\ lat \in {"batch", "leave", "broadcast"} \cup Sweeps
        /\ lat' \in {"top", "broadcast", "gone"}
        /\ batch' = {} /\ lcur' = lcur
        /\ batch = {} \/ lat \notin Sweeps
    BY <1>6 DEF LLoopEnd, LLeave, Sweeps
  <2>2. lcur = NoConn /\ lat # "get"
    BY <1>a, <2>1 DEF Sweeps
  <2>3. LoopInv'
    BY <1>3, <1>a, <2>1, <2>2
  <2>4. lat' \in LoopPoints /\ lat' \notin Sweeps
    BY <2>1 DEF LoopPoints, Sweeps
  <2> QED
    BY <1>1, <1>2, <1>a, <2>1, <2>2, <2>3, <2>4, TrashedSame, QuietStep
<1>7. ASSUME NEW l \in Listeners, LRefuse(l) PROVE PlaceInv'
  <2>1. lat = "batch" /\ UNCHANGED <<lat, lcur>> /\ batch' = batch \ {l}
    BY <1>7 DEF LRefuse
  <2>2. LoopInv'
    BY <1>3, <1>a, <2>1
  <2>3. lat \notin Sweeps
    BY <2>1 DEF Sweeps
  <2> QED
    BY <1>1, <1>2, <1>a, <2>1, <2>2, <2>3, TrashedSame, QuietStep
<1>8. ASSUME NEW l \in Listeners, LAcceptReady(l) PROVE PlaceInv'
  <2>1. lat = "batch" /\ lat' = "get" /\ lcur' = l /\ UNCHANGED batch /\ l \in batch
    BY <1>8 DEF LAcceptReady
  <2>2. LoopInv'
    BY <1>3, <1>a, <1>b, <2>1
  <2>3. lat' \in LoopPoints /\ lat' \notin Sweeps /\ lat \notin Sweeps
    BY <2>1 DEF LoopPoints, Sweeps
  <2> QED
    BY <1>1, <1>2, <1>a, <2>1, <2>2, <2>3, TrashedSame, QuietStep
<1> QED
  BY <1>4, <1>5, <1>6, <1>7, <1>8

\* A parked or an expired connection is in no other place.
LEMMA ParkedAlone ==
    ASSUME PlaceInv, NEW c \in Conns, toq[c] # "no" \/ c \in Trashed
    PROVE  c \notin Queued /\ \A w \in Workers : Hands[w] # c
BY DEF PlaceInv, PlaceOK, QueuedOK, HeldOK

\* get_worker is called for a polled connection: it is parked until LDispatch.
LEMMA ReadyPlaces ==
    ASSUME PlaceInv, RInv', NEW c \in Conns, LReady(c)
    PROVE  PlaceInv'
<1>1. /\ lat = "batch" /\ c \in batch /\ cst[c] \in {"ka", "wc"}
      /\ lat' = "get" /\ lcur' = c
      /\ cst' = IF cst[c] = "ka" THEN [cst EXCEPT ![c] = "read"] ELSE cst
      /\ UNCHANGED <<toq, pollset, batch, wat>>
  BY DEF LReady
<1>2. QueueQuiet
  <2>1. TryGetIdler \/ WaitForIdler \/ UNCHANGED fdvars
    BY DEF LReady
  <2> QED
    BY <2>1, ListenerQueueQuiet DEF PlaceInv, RInv
<1>3. Hands' = Hands /\ Queued' = Queued
  BY <1>1, <1>2, QuietHands DEF QueueQuiet
<1>4. c \in pollset /\ toq[c] # "no"
  BY <1>1 DEF PlaceInv, LoopInv
<1>5. c \notin Queued /\ \A w \in Workers : Hands[w] # c
  BY <1>4, ParkedAlone
<1>6. lat \notin Sweeps /\ lat' \notin Sweeps /\ lat' \in LoopPoints
  BY <1>1 DEF Sweeps, LoopPoints
<1>7. Trashed' = {} /\ Trashed = {}
  BY <1>6 DEF Trashed
<1>8. /\ cst' \in [Conns -> ConnStates] /\ cst'[c] \in {"read", "wc"}
      /\ \A d \in Conns : d # c => cst'[d] = cst[d]
  BY <1>1 DEF PlaceInv, ConnTypes, ConnStates
<1>9. ConnTypes'
  BY <1>1, <1>3, <1>6, <1>8 DEF PlaceInv, ConnTypes
<1>10. PlaceOK(c)'
  BY <1>1, <1>3, <1>4, <1>5, <1>7, <1>8
  DEF PlaceOK, QueuedOK, ParkedOK, TrashedOK, HeldOK, FoundOK, Waiting
<1>11. \A d \in Conns : PlaceOK(d)'
  <2> SUFFICES ASSUME NEW d \in Conns, d # c PROVE PlaceOK(d)'
    BY <1>10
  <2>1. SameFor(d)
    BY <1>1, <1>3, <1>7, <1>8 DEF SameFor
  <2> QED
    BY <2>1, FrameOK DEF PlaceInv
<1>12. LoopInv'
  BY <1>1, <1>4, <1>8 DEF PlaceInv, LoopInv
<1>13. RestInv' /\ RingOnce' /\ Queued' \subseteq Conns
  BY <1>1, <1>2, QuietRest DEF PlaceInv, QueueQuiet
<1> QED
  BY <1>9, <1>11, <1>12, <1>13 DEF PlaceInv

(* The listener settles connection c, which it has in its batch: it was polled and
   is parked, or has expired. *)
LEMMA ListenerSettles ==
    ASSUME PlaceInv, RInv', NEW c \in Conns, Settles(c), QueueQuiet, UNCHANGED wat,
           c \in batch, batch' = batch \ {c},
           \/ lat \in {"batch"} \cup Sweeps /\ lat' = lat /\ lcur' = lcur
           \/ lat = "get" /\ lcur = c /\ lat' = "batch" /\ lcur' = NoConn
    PROVE  PlaceInv'
<1>1. Hands' = Hands /\ Queued' = Queued
  BY QuietHands DEF QueueQuiet
<1>2. toq[c] # "no" \/ c \in Trashed
  <2>1. CASE lat \in {"batch", "get"}
    BY <2>1 DEF PlaceInv, LoopInv
  <2>2. CASE lat \in Sweeps
    BY <2>2 DEF Trashed
  <2> QED
    BY <2>1, <2>2
<1>3. c \notin Queued /\ \A w \in Workers : Hands[w] # c
  BY <1>2, ParkedAlone
<1>4. Trashed' = Trashed \ {c}
  BY DEF Trashed, Sweeps
<1>5. \A d \in Conns : PlaceOK(d)'
  <2>1. \A w \in Workers : Hands'[w] = IF Hands[w] = c THEN NoConn ELSE Hands[w]
    BY <1>1, <1>3
  <2>2. \A d \in Conns \ {c} : ~(lat = "get" /\ lcur = d)
    BY DEF Sweeps
  <2> QED
    BY <1>1, <1>3, <1>4, <2>1, <2>2, SettleStep
<1>6. /\ cst' \in [Conns -> ConnStates] /\ toq' \in [Conns -> QueueNames]
      /\ pollset' \subseteq {d \in Conns : toq'[d] # "no"}
      /\ pollset' \ {c} = pollset \ {c}
  BY SettlesTypes DEF PlaceInv
<1>7. lat' \in LoopPoints
  BY DEF LoopPoints
<1>8. ConnTypes'
  BY <1>1, <1>6, <1>7 DEF PlaceInv, ConnTypes
<1>9. LoopInv'
  <2>1. lat' \in {"batch"} \cup Sweeps /\ lcur' = NoConn
    BY DEF PlaceInv, LoopInv, Sweeps
  <2>2. lat' = "batch" => batch' \cap Conns \subseteq pollset'
    <3>1. lat' = "batch" => batch \cap Conns \subseteq pollset
      BY DEF PlaceInv, LoopInv
    <3> QED
      BY <1>6, <3>1
  <2> QED
    BY <1>6, <2>1, <2>2 DEF LoopInv, Sweeps
<1>10. RestInv' /\ RingOnce' /\ Queued' \subseteq Conns
  BY QuietRest DEF PlaceInv, QueueQuiet
<1> QED
  BY <1>5, <1>8, <1>9, <1>10 DEF PlaceInv

\* process_lingering_close and the callbacks of process_timeout_queue
LEMMA LingerPlaces ==
    ASSUME PlaceInv, RInv', NEW c \in Conns, LLinger(c) \/ LExpire(c)
    PROVE  PlaceInv'
<1>1. /\ c \in batch /\ batch' = batch \ {c}
      /\ lat \in {"batch"} \cup Sweeps /\ lat' = lat /\ lcur' = lcur /\ wat' = wat
  BY DEF LLinger, LExpire
<1>2. CASE Settles(c) /\ QueueQuiet
  BY <1>1, <1>2, ListenerSettles
<1>3. CASE LLinger(c) /\ UNCHANGED <<fdvars, connVars, countVars>>
  <2>1. QueueQuiet
    BY <1>3, ListenerQueueQuiet DEF PlaceInv, RInv
  <2>2. lat = "batch" /\ lat \notin Sweeps
    BY <1>3 DEF LLinger, Sweeps
  <2>3. Trashed' = Trashed
    BY <1>1, <2>2, TrashedSame
  <2>4. LoopInv'
    BY <1>1, <1>3, <2>2 DEF PlaceInv, LoopInv, connVars
  <2>5. lat' \in LoopPoints /\ batch' \subseteq Conns \cup Listeners
    BY <1>1 DEF PlaceInv, ConnTypes
  <2> QED
    BY <1>1, <1>3, <2>1, <2>2, <2>3, <2>4, <2>5, QuietStep
<1>4. LLinger(c) => (Settles(c) /\ QueueQuiet) \/ UNCHANGED <<fdvars, connVars, countVars>>
  BY ClosedSettles, InterruptIfDyingQuiet DEF LLinger, PlaceInv
<1>5. LExpire(c) => Settles(c) /\ QueueQuiet
  BY ClosedSettles, InterruptIfDyingQuiet, LingerNonblockingSettles, LingerNonblockingQuiet
  DEF LExpire, PlaceInv
<1> QED
  BY <1>2, <1>3, <1>4, <1>5

(* Connection c, which nobody has, goes into the ring: it was just accepted, or the
   listener takes it out of the pollset and its queue. *)
LEMMA PushPlaces ==
    ASSUME PlaceInv, RInv', NEW c \in Conns, Push(c), ~overrun',
           c \notin Queued, \A w \in Workers : Hands[w] # c,
           cst' \in [Conns -> ConnStates], toq' \in [Conns -> QueueNames],
           \A d \in Conns : d # c => cst'[d] = cst[d] /\ toq'[d] = toq[d],
           cst'[c] \in InWork, toq'[c] = "no", pollset' = pollset \ {c},
           lat = "get" /\ lat' = "batch", batch' = batch \ {lcur}, lcur' = NoConn,
           lcur = c \/ (lcur \notin Conns /\ toq[c] = "no"), UNCHANGED wat
    PROVE  PlaceInv'
<1>1. Queued' = Queued \cup {c} /\ RingOnce'
  BY PushQueues DEF PlaceInv
<1>2. \A w \in Workers : wpc'[w] = "busy" <=> wpc[w] = "busy"
  BY WakeKeepsBusy DEF Push, PlaceInv, RInv
<1>3. job' = job
  BY DEF Push
<1>4. Hands' = Hands
  BY <1>2, <1>3 DEF Hands
<1>5. lat \notin Sweeps /\ lat' \notin Sweeps /\ lat' \in LoopPoints
  BY DEF Sweeps, LoopPoints
<1>6. Trashed = {} /\ Trashed' = {}
  BY <1>5 DEF Trashed
<1>7. ConnTypes'
  BY <1>4, <1>5 DEF PlaceInv, ConnTypes
<1>8. PlaceOK(c)'
  BY <1>1, <1>4, <1>6
  DEF PlaceOK, QueuedOK, ParkedOK, TrashedOK, HeldOK, FoundOK
<1>9. \A d \in Conns : PlaceOK(d)'
  <2> SUFFICES ASSUME NEW d \in Conns, d # c PROVE PlaceOK(d)'
    BY <1>8
  <2>1. SameFor(d)
    BY <1>1, <1>4, <1>6 DEF SameFor
  <2> QED
    BY <2>1, FrameOK DEF PlaceInv
<1>10. LoopInv'
  <2>1. pollset' \subseteq {d \in Conns : toq'[d] # "no"}
    BY DEF PlaceInv, LoopInv
  <2>2. batch' \cap Conns \subseteq pollset'
    <3>1. batch \cap Conns \subseteq pollset
      BY DEF PlaceInv, LoopInv
    <3>2. c \in batch => toq[c] # "no"
      BY <3>1 DEF PlaceInv, LoopInv
    <3> QED
      BY <3>1, <3>2
  <2> QED
    BY <2>1, <2>2 DEF LoopInv
<1>11. RestInv' /\ Queued' \subseteq Conns
  BY <1>1, <1>2 DEF PlaceInv, RestInv
<1> QED
  BY <1>1, <1>7, <1>9, <1>10, <1>11 DEF PlaceInv

LEMMA DispatchPlaces ==
    ASSUME PlaceInv, RInv', LDispatch, ~overrun'
    PROVE  PlaceInv'
<1>1. /\ lat = "get" /\ lcur \in Conns
      /\ lat' = "batch" /\ batch' = batch \ {lcur} /\ lcur' = NoConn /\ wat' = wat
  BY DEF LDispatch
<1>2. lcur \in batch
  BY <1>1 DEF PlaceInv, LoopInv
<1>3. CASE LingerNonblocking(lcur)
  BY <1>1, <1>2, <1>3, LingerNonblockingSettles, LingerNonblockingQuiet, ListenerSettles
  DEF PlaceInv
<1>4. CASE ~LingerNonblocking(lcur)
  <2>1. /\ Push(lcur)
        /\ toq' = [toq EXCEPT ![lcur] = "no"]
        /\ pollset' = pollset \ {lcur}
        /\ UNCHANGED cst
    BY <1>4 DEF LDispatch
  <2>2. toq[lcur] # "no" /\ cst[lcur] \in InWork
    BY <1>1, <1>2 DEF PlaceInv, LoopInv, InWork
  <2>3. lcur \notin Queued /\ \A w \in Workers : Hands[w] # lcur
    BY <1>1, <2>2, ParkedAlone
  <2>4. /\ cst' \in [Conns -> ConnStates] /\ toq' \in [Conns -> QueueNames]
        /\ toq'[lcur] = "no" /\ cst'[lcur] \in InWork
        /\ \A d \in Conns : d # lcur => cst'[d] = cst[d] /\ toq'[d] = toq[d]
    BY <1>1, <2>1, <2>2 DEF PlaceInv, ConnTypes, QueueNames
  <2> QED
    BY <1>1, <2>1, <2>3, <2>4, PushPlaces
<1> QED
  BY <1>3, <1>4

LEMMA AcceptPlaces ==
    ASSUME PlaceInv, RInv', LAccept, ~overrun'
    PROVE  PlaceInv'
<1>1. /\ lat = "get" /\ lcur \in Listeners
      /\ lat' = "batch" /\ batch' = batch \ {lcur} /\ lcur' = NoConn
      /\ UNCHANGED <<toq, pollset, wat>>
  BY DEF LAccept
<1>2. lcur \notin Conns
  BY <1>1, ChildAssumption
<1>3. ASSUME NEW c \in Conns, cst[c] = "none", cst' = [cst EXCEPT ![c] = "new"], Push(c)
      PROVE  PlaceInv'
  <2>1. PlaceOK(c)
    BY DEF PlaceInv
  <2>2. toq[c] = "no" /\ c \notin Queued /\ \A w \in Workers : Hands[w] # c
    BY <1>1, <1>2, <1>3, <2>1
    DEF PlaceOK, QueuedOK, ParkedOK, HeldOK, InWork, Waiting
  <2>3. pollset' = pollset \ {c}
    BY <1>1, <2>2 DEF PlaceInv, LoopInv
  <2>4. /\ cst' \in [Conns -> ConnStates] /\ toq' \in [Conns -> QueueNames]
        /\ toq'[c] = "no" /\ cst'[c] \in InWork
        /\ \A d \in Conns : d # c => cst'[d] = cst[d] /\ toq'[d] = toq[d]
    BY <1>1, <1>3, <2>2 DEF PlaceInv, ConnTypes, ConnStates, InWork
  <2> QED
    BY <1>1, <1>2, <1>3, <2>2, <2>3, <2>4, PushPlaces
<1>4. CASE UNCHANGED cst /\ (UNCHANGED fdvars \/ SignalGraceful)
  <2>1. QueueQuiet
    BY <1>4, ListenerQueueQuiet, SignalGracefulQuiet DEF PlaceInv, RInv
  <2>2. lat \notin Sweeps /\ lat' \notin Sweeps /\ lat' \in LoopPoints
    BY <1>1 DEF Sweeps, LoopPoints
  <2>3. Trashed' = Trashed
    BY <2>2, TrashedSame
  <2>4. LoopInv'
    BY <1>1, <1>4 DEF PlaceInv, LoopInv
  <2>5. UNCHANGED <<connVars, wat>>
    BY <1>1, <1>4 DEF connVars
  <2>6. batch' \subseteq Conns \cup Listeners
    BY <1>1 DEF PlaceInv, ConnTypes
  <2> QED
    BY <1>1, <1>2, <2>1, <2>2, <2>3, <2>4, <2>5, <2>6, QuietStep
<1> QED
  BY <1>3, <1>4 DEF LAccept

\* process_timeout_queue unlinks what has expired.
LEMMA PassPlaces ==
    ASSUME PlaceInv, RInv', NEW q \in QueueNames \ {"no"}, NEW E \in SUBSET Conns,
           LTimeoutPass(q, E)
    PROVE  PlaceInv'
<1>1. /\ batch = {} /\ \A c \in E : toq[c] = q
      /\ toq' = [c \in Conns |-> IF c \in E THEN "no" ELSE toq[c]]
      /\ pollset' = pollset \ E
      /\ batch' = E
      /\ UNCHANGED <<fdvars, cst, lcur, wat>>
  BY DEF LTimeoutPass
<1>2. lat \in {"batch"} \cup Sweeps /\ lat' \in Sweeps
  BY DEF LTimeoutPass, Turn, Sweep, Sweeps, QueueNames
<1>3. lat # "get" /\ lat' # "get" /\ lat' \in LoopPoints /\ lat' # "batch"
  BY <1>2 DEF Sweeps, LoopPoints
<1>4. QueueQuiet
  BY <1>1, ListenerQueueQuiet DEF PlaceInv, RInv
<1>5. Hands' = Hands /\ Queued' = Queued
  BY <1>1, <1>4, QuietHands DEF QueueQuiet
<1>6. Trashed = {} /\ Trashed' = E
  BY <1>1, <1>2 DEF Trashed
<1>7. ASSUME NEW c \in Conns PROVE PlaceOK(c)'
  <2>1. PlaceOK(c)
    BY DEF PlaceInv
  <2>2. CASE c \in E
    <3>1. toq[c] # "no" /\ cst'[c] = cst[c] /\ toq'[c] = "no"
      BY <1>1, <2>2
    <3>2. c \notin Queued /\ \A w \in Workers : Hands[w] # c
      BY <3>1, ParkedAlone
    <3>3. cst[c] \in Waiting
      BY <1>3, <2>1, <3>1 DEF PlaceOK, ParkedOK
    <3> QED
      BY <1>5, <1>6, <2>2, <3>1, <3>2, <3>3
      DEF PlaceOK, QueuedOK, ParkedOK, TrashedOK, HeldOK, FoundOK
  <2>3. CASE c \notin E
    <3>1. SameFor(c)
      BY <1>1, <1>3, <1>5, <1>6, <2>3 DEF SameFor
    <3> QED
      BY <2>1, <3>1, FrameOK
  <2> QED
    BY <2>2, <2>3
<1>8. toq' \in [Conns -> QueueNames]
  BY <1>1 DEF PlaceInv, ConnTypes, QueueNames
<1>9. ConnTypes'
  BY <1>1, <1>3, <1>5, <1>8 DEF PlaceInv, ConnTypes
<1>10. LoopInv'
  <2>1. lcur' = NoConn
    BY <1>1, <1>3 DEF PlaceInv, LoopInv
  <2>2. pollset' \subseteq {c \in Conns : toq'[c] # "no"}
    BY <1>1 DEF PlaceInv, LoopInv
  <2> QED
    BY <1>2, <1>3, <2>1, <2>2 DEF LoopInv, Sweeps
<1>11. RestInv' /\ RingOnce' /\ Queued' \subseteq Conns
  BY <1>1, <1>4, QuietRest DEF PlaceInv, QueueQuiet
<1> QED
  BY <1>7, <1>9, <1>10, <1>11 DEF PlaceInv

LEMMA ListenerPlaces ==
    ASSUME PlaceInv, RInv', Listener, ~overrun'
    PROVE  PlaceInv'
BY PollPlaces, LoopPlaces, ReadyPlaces, LingerPlaces, DispatchPlaces, AcceptPlaces,
   PassPlaces, Zenon DEF Listener

-----------------------------------------------------------------------------
(* The workers and the main thread *)

\* No connection changes its place, and the listener does nothing.
LEMMA AsidePlaces ==
    ASSUME PlaceInv, RInv', QueueQuiet, UNCHANGED <<connVars, wat, loopVars>>
    PROVE  PlaceInv'
<1>1. UNCHANGED <<lat, batch, lcur, cst, toq, pollset>>
  BY DEF loopVars, connVars
<1>2. LoopInv'
  BY <1>1 DEF PlaceInv, LoopInv
<1>3. lat' \in LoopPoints /\ batch' \subseteq Conns \cup Listeners
  BY <1>1 DEF PlaceInv, ConnTypes
<1>4. Trashed' = Trashed
  BY <1>1, TrashedSame
<1>5. UNCHANGED <<connVars, wat>>
  OBVIOUS
<1> QED
  BY <1>1, <1>2, <1>3, <1>4, <1>5, QuietStep

LEMMA WorkerQuietPlaces ==
    ASSUME PlaceInv, RInv', NEW w \in Workers,
           WStart(w) \/ WTest(w) \/ WDecide(w) \/ WTimer(w)
    PROVE  PlaceInv'
<1>1. UNCHANGED <<connVars, wat, loopVars>>
  BY DEF WStart, WTest, WDecide, WTimer
<1>2. \/ SetIdle(w) \/ Exit(w) \/ FinishTimer(w)
      \/ UNCHANGED fdvars
  BY DEF WStart, WTest, WDecide, WTimer
<1>3. QueueQuiet
  BY <1>2, WorkerQueueQuiet, ListenerQueueQuiet DEF PlaceInv, RInv
<1> QED
  BY <1>1, <1>3, AsidePlaces

\* A worker takes the oldest socket of the ring: ap_queue_pop_something
LEMMA TakePlaces ==
    ASSUME PlaceInv, RInv', NEW w \in Workers, wpc[w] \in {"pop", "woken"},
           Take(w), timers = <<>>, ~Empty, UNCHANGED <<connVars, wat, loopVars>>
    PROVE  PlaceInv'
<1>0. PICK x : x = data[out]
  OBVIOUS
<1>1. /\ x \in Queued
      /\ Queued' \subseteq Queued /\ Queued \subseteq Queued' \cup {x}
      /\ RingOnce' /\ x \notin Queued'
  BY <1>0, TakeUnqueues DEF PlaceInv
<1>2. /\ job' = [job EXCEPT ![w] = x]
      /\ wpc' = [wpc EXCEPT ![w] = "busy"]
  BY <1>0 DEF Take
<1>3. x \in Conns /\ PlaceOK(x) /\ x # NoConn
  BY <1>1, NoConnAssumption DEF PlaceInv
<1>4. wat[w] = "resume"
  BY DEF PlaceInv, RestInv
<1>5. Hands[w] = NoConn
  BY DEF Hands
<1>6. Hands' = [Hands EXCEPT ![w] = x]
  BY <1>2, <1>4 DEF Hands, PlaceInv, RInv, FdTypeOK
<1>7. UNCHANGED <<lat, batch, lcur, cst, toq, pollset, wat>>
  BY DEF loopVars, connVars
<1>8. Trashed' = Trashed
  BY <1>7, TrashedSame
<1>9. ConnTypes'
  BY <1>3, <1>6, <1>7 DEF PlaceInv, ConnTypes
<1>10. cst[x] \in InWork /\ toq[x] = "no" /\ x \notin Trashed
  BY <1>1, <1>3 DEF PlaceOK, QueuedOK
<1>11. \A v \in Workers : Hands[v] # x
  BY <1>1, <1>3 DEF PlaceOK, HeldOK
<1>12. Hands \in [Workers -> Conns \cup {NoConn}]
  BY DEF PlaceInv, ConnTypes
<1>13. \A v \in Workers : Hands'[v] = IF v = w THEN x ELSE Hands[v]
  BY <1>6, <1>12
<1>14. PlaceOK(x)'
  <2>1. \A v \in Workers : Hands'[v] = x <=> v = w
    BY <1>11, <1>13
  <2> QED
    BY <1>1, <1>4, <1>7, <1>8, <1>10, <2>1
    DEF PlaceOK, QueuedOK, ParkedOK, TrashedOK, HeldOK, FoundOK
<1>15. \A d \in Conns : PlaceOK(d)'
  <2> SUFFICES ASSUME NEW d \in Conns, d # x PROVE PlaceOK(d)'
    BY <1>14
  <2>1. d # NoConn
    BY NoConnAssumption
  <2>2. SameFor(d)
    BY <1>1, <1>5, <1>7, <1>8, <1>13, <2>1 DEF SameFor
  <2> QED
    BY <2>2, FrameOK DEF PlaceInv
<1>16. LoopInv'
  BY <1>7 DEF PlaceInv, LoopInv
<1>17. RestInv'
  BY <1>2, <1>7 DEF PlaceInv, RestInv, RInv, FdTypeOK
<1> QED
  BY <1>1, <1>9, <1>15, <1>16, <1>17 DEF PlaceInv

LEMMA PopPlaces ==
    ASSUME PlaceInv, RInv', NEW w \in Workers, WPop(w)
    PROVE  PlaceInv'
<1>1. UNCHANGED <<connVars, wat, loopVars>>
  BY DEF WPop
<1>2. CASE QueueQuiet
  BY <1>1, <1>2, AsidePlaces
<1>3. CASE (Pop(w) \/ WakeUp(w)) /\ timers = <<>> /\ ~Empty
  <2>1. Take(w) /\ wpc[w] \in {"pop", "woken"}
    BY <1>3 DEF Pop, WakeUp
  <2> QED
    BY <1>1, <1>3, <2>1, TakePlaces
<1>4. QueueQuiet \/ ((Pop(w) \/ WakeUp(w)) /\ timers = <<>> /\ ~Empty)
  BY WorkerQueueQuiet DEF WPop, PlaceInv, RInv
<1> QED
  BY <1>2, <1>3, <1>4

\* What process_socket works on is in the worker's hands.
LEMMA AtHand ==
    ASSUME NEW w \in Workers, NEW c, NEW p \in {"resume", "serve", "park"}, At(w, p, c)
    PROVE  Hands[w] = c /\ wpc[w] = "busy" /\ job[w] = c /\ wat[w] = p
BY DEF At, Hands

LEMMA ServingAtHand ==
    ASSUME PlaceInv, NEW w \in Workers, NEW c \in Conns, Serving(w, c)
    PROVE  /\ Hands[w] = c /\ wpc[w] = "busy" /\ job[w] = c
           /\ cst[c] \in {"read", "wc"}
<1>1. Hands[w] = c /\ wpc[w] = "busy" /\ job[w] = c /\ (cst[c] # "new" \/ wat[w] = "serve")
  BY AtHand DEF Serving
<1>2. cst[c] \in InWork /\ (cst[c] = "new" => wat[w] = "resume")
  BY <1>1 DEF PlaceInv, PlaceOK, HeldOK
<1> QED
  BY <1>1, <1>2 DEF InWork

\* The worker goes on in process_socket; the queue does not change.
LEMMA SameQueue ==
    ASSUME PlaceInv, UNCHANGED fdvars
    PROVE  /\ Queued' = Queued /\ RingOnce' /\ Queued' \subseteq Conns
           /\ wpc' = wpc /\ job' = job
BY ListenerQueueQuiet DEF PlaceInv, RInv, QueueQuiet, fdvars

(* The worker is done with connection c, whose state may have changed: its hands
   are empty. *)
LEMMA HandsEmptied ==
    ASSUME PlaceInv, UNCHANGED fdvars, NEW w \in Workers, NEW c \in Conns, Hands[w] = c,
           wat' = [wat EXCEPT ![w] = "release"]
    PROVE  /\ Hands' \in [Workers -> Conns \cup {NoConn}]
           /\ \A v \in Workers : Hands'[v] = IF Hands[v] = c THEN NoConn ELSE Hands[v]
           /\ \A v \in Workers : Hands[v] # c => wat'[v] = wat[v]
           /\ wat' \in [Workers -> {"resume", "serve", "park", "release"}]
           /\ RestInv'
<1>1. \A v \in Workers : Hands[v] = c => v = w
  BY DEF PlaceInv, PlaceOK, HeldOK
<1>2. wpc' = wpc /\ job' = job
  BY DEF fdvars
<1>3. wat \in [Workers -> {"resume", "serve", "park", "release"}]
  BY DEF PlaceInv, ConnTypes
<1>4. \A v \in Workers : wat'[v] = IF v = w THEN "release" ELSE wat[v]
  BY <1>3
<1>5. wpc[w] = "busy"
  BY NoConnAssumption DEF Hands
<1>6. Hands \in [Workers -> Conns \cup {NoConn}]
  BY DEF PlaceInv, ConnTypes
<1>7. \A v \in Workers : Hands'[v] = IF v = w THEN NoConn ELSE Hands[v]
  BY <1>2, <1>4 DEF Hands
<1>8. Hands' \in [Workers -> Conns \cup {NoConn}]
  <2>1. Hands' = [v \in Workers |-> Hands'[v]]
    BY DEF Hands
  <2> QED
    BY <1>6, <1>7, <2>1
<1>9. RestInv'
  BY <1>2, <1>4, <1>5 DEF PlaceInv, RestInv
<1> QED
  BY <1>1, <1>3, <1>4, <1>7, <1>8, <1>9

\* The connection is parked, or closed, or lingers.
LEMMA WorkerSettles ==
    ASSUME PlaceInv, RInv', NEW w \in Workers, WParkWrite(w) \/ WPark(w) \/ WLinger(w)
    PROVE  PlaceInv'
<1>1. /\ wat' = [wat EXCEPT ![w] = "release"]
      /\ UNCHANGED <<fdvars, loopVars>>
  BY DEF WParkWrite, WPark, WLinger
<1>2. PICK c \in Conns : Hands[w] = c /\ Settles(c)
  BY ServingAtHand, AtHand, ParksSettles, ClosedSettles, LingersSettles
  DEF WParkWrite, WPark, WLinger
<1>3. /\ Hands' \in [Workers -> Conns \cup {NoConn}]
      /\ \A v \in Workers : Hands'[v] = IF Hands[v] = c THEN NoConn ELSE Hands[v]
      /\ \A v \in Workers : Hands[v] # c => wat'[v] = wat[v]
      /\ wat' \in [Workers -> {"resume", "serve", "park", "release"}]
      /\ RestInv'
  BY <1>1, <1>2, HandsEmptied
<1>4. UNCHANGED <<lat, batch, lcur>>
  BY <1>1 DEF loopVars
<1>5. Queued' = Queued /\ RingOnce' /\ Queued' \subseteq Conns
  BY <1>1, SameQueue
<1>6. c \notin Queued /\ c \notin Trashed /\ toq[c] = "no"
  BY <1>2 DEF PlaceInv, PlaceOK, HeldOK
<1>7. Trashed' = Trashed \ {c}
  BY <1>4, <1>6, TrashedSame
<1>8. \A d \in Conns : PlaceOK(d)'
  BY <1>2, <1>3, <1>4, <1>5, <1>6, <1>7, SettleStep
<1>9. /\ cst' \in [Conns -> ConnStates] /\ toq' \in [Conns -> QueueNames]
      /\ pollset' \subseteq {d \in Conns : toq'[d] # "no"}
      /\ pollset' \ {c} = pollset \ {c}
      /\ \A d \in Conns : d # c => cst'[d] = cst[d] /\ toq'[d] = toq[d]
  BY <1>2, SettlesTypes DEF PlaceInv
<1>10. ConnTypes'
  BY <1>3, <1>4, <1>9 DEF PlaceInv, ConnTypes
<1>11. LoopInv'
  <2>1. c \notin pollset
    BY <1>6 DEF PlaceInv, LoopInv
  <2>2. lat = "get" => lcur # c
    BY <2>1 DEF PlaceInv, LoopInv
  <2>3. pollset \subseteq pollset'
    BY <1>9, <2>1
  <2>4. lat = "get" /\ lcur \in Conns => cst'[lcur] = cst[lcur]
    BY <1>9, <2>2
  <2> QED
    BY <1>4, <1>9, <2>3, <2>4 DEF PlaceInv, LoopInv
<1> QED
  BY <1>3, <1>5, <1>8, <1>10, <1>11 DEF PlaceInv

(* The state of the connection in the worker's hands changes: it is read from now
   on, or is refused, or a module takes it over. *)
LEMMA StatePlaces ==
    ASSUME PlaceInv, RInv', NEW w \in Workers, WCreate(w) \/ WSuspend(w)
    PROVE  PlaceInv'
<1>1. UNCHANGED <<fdvars, loopVars, toq, pollset>>
  BY DEF WCreate, WSuspend
<1>2. PICK c \in Conns, st \in {"none", "read", "suspended"} :
        /\ Hands[w] = c /\ wpc[w] = "busy" /\ job[w] = c
        /\ cst' = [cst EXCEPT ![c] = st]
        /\ wat' = [wat EXCEPT ![w] = IF st = "read" THEN "serve" ELSE "release"]
  BY ServingAtHand, AtHand DEF WCreate, WSuspend
<1>3. UNCHANGED <<lat, batch, lcur>>
  BY <1>1 DEF loopVars
<1>4. Queued' = Queued /\ RingOnce' /\ Queued' \subseteq Conns /\ wpc' = wpc /\ job' = job
  BY <1>1, SameQueue
<1>5. /\ c \notin Queued /\ c \notin Trashed /\ toq[c] = "no" /\ c # NoConn
      /\ \A v \in Workers : Hands[v] = c => v = w
  BY <1>2, NoConnAssumption DEF PlaceInv, PlaceOK, HeldOK
<1>6. Trashed' = Trashed
  BY <1>3, TrashedSame
<1>7. /\ cst' \in [Conns -> ConnStates] /\ cst'[c] = st
      /\ \A d \in Conns : d # c => cst'[d] = cst[d]
  BY <1>2 DEF PlaceInv, ConnTypes, ConnStates
<1>8. /\ wat' \in [Workers -> {"resume", "serve", "park", "release"}]
      /\ wat'[w] = IF st = "read" THEN "serve" ELSE "release"
      /\ \A v \in Workers : v # w => wat'[v] = wat[v]
  BY <1>2 DEF PlaceInv, ConnTypes
<1>9. \A v \in Workers :
        Hands'[v] = IF v = w THEN IF st = "read" THEN c ELSE NoConn ELSE Hands[v]
  BY <1>2, <1>4, <1>8 DEF Hands
<1>10. Hands' \in [Workers -> Conns \cup {NoConn}]
  <2>1. Hands' = [v \in Workers |-> Hands'[v]]
    BY DEF Hands
  <2>2. Hands \in [Workers -> Conns \cup {NoConn}]
    BY DEF PlaceInv, ConnTypes
  <2> QED
    BY <1>9, <2>1, <2>2
<1>11. ConnTypes'
  BY <1>1, <1>3, <1>7, <1>8, <1>10 DEF PlaceInv, ConnTypes
<1>12. PlaceOK(c)'
  <2>1. \A v \in Workers : Hands'[v] = c <=> v = w /\ st = "read"
    BY <1>5, <1>9
  <2> QED
    BY <1>1, <1>4, <1>5, <1>6, <1>7, <2>1
    DEF PlaceOK, QueuedOK, ParkedOK, TrashedOK, HeldOK, FoundOK, InWork
<1>13. \A d \in Conns : PlaceOK(d)'
  <2> SUFFICES ASSUME NEW d \in Conns, d # c PROVE PlaceOK(d)'
    BY <1>12
  <2>1. d # NoConn
    BY NoConnAssumption
  <2>2. SameFor(d)
    BY <1>1, <1>2, <1>3, <1>4, <1>6, <1>7, <1>8, <1>9, <2>1 DEF SameFor
  <2> QED
    BY <2>2, FrameOK DEF PlaceInv
<1>14. LoopInv'
  <2>1. lat = "get" => lcur # c
    BY <1>5 DEF PlaceInv, LoopInv
  <2> QED
    BY <1>1, <1>3, <1>7, <2>1 DEF PlaceInv, LoopInv
<1>15. RestInv'
  BY <1>2, <1>4, <1>8 DEF PlaceInv, RestInv
<1> QED
  BY <1>4, <1>11, <1>13, <1>14, <1>15 DEF PlaceInv

\* process_socket goes on with a connection that is not new, or returns.
LEMMA OnwardPlaces ==
    ASSUME PlaceInv, RInv', NEW w \in Workers, WKeepAlive(w) \/ WRelease(w)
    PROVE  PlaceInv'
<1>1. UNCHANGED <<connVars, loopVars>> /\ UNCHANGED <<data, out, nelts>>
  BY DEF WKeepAlive, WRelease, FinishSocket, fdvars, ringVars
<1>2. UNCHANGED <<lat, batch, lcur, cst, toq, pollset>>
  BY <1>1 DEF loopVars, connVars
<1>3. Queued' = Queued /\ RingOnce' /\ Queued' \subseteq Conns
  BY <1>1, RingSame DEF PlaceInv
<1>4. Trashed' = Trashed
  BY <1>2, TrashedSame
<1>5. /\ Hands' = Hands /\ RestInv'
      /\ wat' \in [Workers -> {"resume", "serve", "park", "release"}]
      /\ \A v \in Workers : Hands[v] # NoConn /\ cst[Hands[v]] = "new" => wat'[v] = wat[v]
  <2>0. wat \in [Workers -> {"resume", "serve", "park", "release"}]
    BY DEF PlaceInv, ConnTypes
  <2>1. CASE WKeepAlive(w)
    <3>1. wat' = [wat EXCEPT ![w] = "park"] /\ wpc' = wpc /\ job' = job
      BY <2>1 DEF WKeepAlive, fdvars
    <3>2. PICK c \in Conns : Serving(w, c)
      BY <2>1 DEF WKeepAlive
    <3>3. Hands[w] = c /\ wpc[w] = "busy" /\ job[w] = c /\ cst[c] \in {"read", "wc"}
      BY <3>2, ServingAtHand
    <3>4. wat[w] # "release"
      BY <3>2 DEF Serving, At
    <3>5. Hands' = Hands
      BY <2>0, <3>1, <3>4 DEF Hands
    <3>6. RestInv'
      BY <2>0, <3>1, <3>3 DEF PlaceInv, RestInv
    <3> QED
      BY <2>0, <3>1, <3>3, <3>5, <3>6
  <2>2. CASE WRelease(w)
    <3>1. /\ wat[w] = "release" /\ wat' = [wat EXCEPT ![w] = "resume"]
          /\ wpc[w] = "busy" /\ wpc' = [wpc EXCEPT ![w] = "start"]
          /\ job' = [job EXCEPT ![w] = NoConn]
      BY <2>2 DEF WRelease, FinishSocket
    <3>2. /\ wpc \in [Workers -> WorkerPCs]
          /\ job \in [Workers -> Conns \cup Timers \cup {NoConn}]
      BY DEF PlaceInv, RInv, FdTypeOK
    <3>3. Hands[w] = NoConn
      BY <3>1 DEF Hands
    <3>4. Hands' = Hands
      BY <2>0, <3>1, <3>2 DEF Hands
    <3>5. RestInv'
      BY <2>0, <3>1, <3>2 DEF PlaceInv, RestInv
    <3> QED
      BY <2>0, <3>1, <3>3, <3>4, <3>5
  <2> QED
    BY <2>1, <2>2
<1>6. ConnTypes'
  BY <1>2, <1>5 DEF PlaceInv, ConnTypes
<1>7. \A d \in Conns : PlaceOK(d)'
  <2> TAKE d \in Conns
  <2>1. d # NoConn
    BY NoConnAssumption
  <2>2. SameFor(d)
    BY <1>2, <1>3, <1>4, <1>5, <2>1 DEF SameFor
  <2> QED
    BY <2>2, FrameOK DEF PlaceInv
<1>8. LoopInv'
  BY <1>2 DEF PlaceInv, LoopInv
<1> QED
  BY <1>3, <1>5, <1>6, <1>7, <1>8 DEF PlaceInv

LEMMA WorkerPlaces ==
    ASSUME PlaceInv, RInv', NEW w \in Workers, Worker(w)
    PROVE  PlaceInv'
BY WorkerQuietPlaces, PopPlaces, WorkerSettles, StatePlaces, OnwardPlaces DEF Worker

LEMMA MainPlaces ==
    ASSUME PlaceInv, RInv', Main
    PROVE  PlaceInv'
<1>1. UNCHANGED <<connVars, wat, loopVars>>
  BY DEF Main, MWatch, MInfo, MWorkers, MInterrupt, MWakeAgain, MExit
<1>2. InfoTerm \/ InterruptAll \/ UNCHANGED fdvars
  BY DEF Main, MWatch, MInfo, MWorkers, MInterrupt, MWakeAgain, MExit
<1>3. QueueQuiet
  BY <1>2, ListenerQueueQuiet DEF PlaceInv, RInv
<1> QED
  BY <1>1, <1>3, AsidePlaces

LEMMA PlaceInit == Init => PlaceInv
<1> SUFFICES ASSUME Init PROVE PlaceInv
  OBVIOUS
<1>1. RInv
  BY RInvInit DEF Init
<1>2. Pending = <<>>
  BY <1>1, PendingSeq, EmptySeq DEF Init, FdInit
<1>3. RingOnce /\ Queued = {}
  BY <1>2 DEF RingOnce, Queued
<1>4. Hands = [w \in Workers |-> NoConn] /\ Trashed = {}
  BY DEF Init, FdInit, Hands, Trashed
<1>5. ConnTypes
  BY <1>4 DEF Init, ConnTypes, ConnStates, QueueNames, LoopPoints
<1>6. \A c \in Conns : PlaceOK(c)
  BY <1>3, <1>4, NoConnAssumption
  DEF Init, PlaceOK, QueuedOK, ParkedOK, TrashedOK, HeldOK, FoundOK
<1>7. RestInv /\ LoopInv
  BY DEF Init, RestInv, LoopInv
<1> QED
  BY <1>1, <1>3, <1>5, <1>6, <1>7 DEF PlaceInv

LEMMA PlaceStep == PlaceInv /\ [Next /\ ~overrun']_vars => PlaceInv'
<1> SUFFICES ASSUME PlaceInv, [Next /\ ~overrun']_vars PROVE PlaceInv'
  OBVIOUS
<1>1. RInv'
  <2>1. [FdNext]_fdvars
    BY ChildStepFd
  <2>2. UNCHANGED fdvars \/ ~overrun'
    BY DEF vars
  <2> QED
    BY <2>1, <2>2, RInvStep DEF PlaceInv
<1>2. CASE UNCHANGED vars
  <2>1. QueueQuiet
    BY <1>2, ListenerQueueQuiet DEF PlaceInv, RInv, vars
  <2> QED
    BY <1>1, <1>2, <2>1, AsidePlaces DEF vars
<1>3. CASE Next /\ ~overrun'
  BY <1>1, <1>3, ListenerPlaces, WorkerPlaces, MainPlaces DEF Next
<1> QED
  BY <1>2, <1>3

LEMMA PlaceAlways == ChildSpec => []PlaceInv
BY PlaceInit, PlaceStep, PTL DEF ChildSpec

-----------------------------------------------------------------------------
(* No connection in two hands or in none *)

\* The number of elements of a set that has at most one
LEMMA AtMostOne ==
    ASSUME NEW S, \A x, y \in S : x = y
    PROVE  Cardinality(S) = IF S = {} THEN 0 ELSE 1
<1>1. CASE S = {}
  BY <1>1, FS_EmptySet
<1>2. CASE S # {}
  <2>1. PICK x \in S : TRUE
    BY <1>2
  <2>2. S = {x}
    BY <2>1
  <2> QED
    BY <1>2, <2>2, FS_Singleton
<1> QED
  BY <1>1, <1>2

\* Each place counts a connection once, or not at all.
LEMMA PlaceCounts ==
    ASSUME PlaceInv, NEW c \in Conns
    PROVE  /\ Cardinality({i \in DOMAIN Pending : Pending[i] = c})
                = IF c \in Queued THEN 1 ELSE 0
           /\ Cardinality({w \in Workers : c \in Owned(w)})
                = IF \E w \in Workers : Hands[w] = c THEN 1 ELSE 0
           /\ Cardinality({c} \cap Trashed) = IF c \in Trashed THEN 1 ELSE 0
<1>1. Cardinality({i \in DOMAIN Pending : Pending[i] = c}) = IF c \in Queued THEN 1 ELSE 0
  <2> DEFINE S == {i \in DOMAIN Pending : Pending[i] = c}
  <2>1. \A i, j \in S : i = j
    BY DEF PlaceInv, RingOnce
  <2>2. S = {} <=> c \notin Queued
    BY DEF Queued
  <2> QED
    BY <2>1, <2>2, AtMostOne
<1>2. Cardinality({w \in Workers : c \in Owned(w)})
        = IF \E w \in Workers : Hands[w] = c THEN 1 ELSE 0
  <2> DEFINE S == {w \in Workers : c \in Owned(w)}
  <2>1. c # NoConn
    BY NoConnAssumption
  <2>2. \A w \in Workers : c \in Owned(w) <=> Hands[w] = c
    BY <2>1 DEF Owned, Hands
  <2>3. \A v, w \in S : v = w
    BY <2>2 DEF PlaceInv, PlaceOK, HeldOK
  <2>4. S = {} <=> ~\E w \in Workers : Hands[w] = c
    BY <2>2
  <2> QED
    BY <2>3, <2>4, AtMostOne
<1>3. Cardinality({c} \cap Trashed) = IF c \in Trashed THEN 1 ELSE 0
  <2>1. {c} \cap Trashed = {} <=> c \notin Trashed
    OBVIOUS
  <2> QED
    BY <2>1, AtMostOne
<1> QED
  BY <1>1, <1>2, <1>3

LEMMA PlaceOwnership == PlaceInv => Ownership
<1> SUFFICES ASSUME PlaceInv PROVE Ownership
  OBVIOUS
<1> SUFFICES ASSUME NEW c \in Conns
             PROVE  LET inRing   == {i \in DOMAIN Pending : Pending[i] = c}
                        owners   == {w \in Workers : c \in Owned(w)}
                        parked   == IF toq[c] # "no" THEN {c} ELSE {}
                        trashed  == {c} \cap Trashed
                        detached == IF cst[c] = "suspended" THEN {c} ELSE {}
                    IN Cardinality(inRing) + Cardinality(owners) + Cardinality(parked)
                         + Cardinality(trashed) + Cardinality(detached)
                       = IF cst[c] = "none" THEN 0 ELSE 1
  BY DEF Ownership
<1>1. /\ Cardinality({i \in DOMAIN Pending : Pending[i] = c})
           = IF c \in Queued THEN 1 ELSE 0
      /\ Cardinality({w \in Workers : c \in Owned(w)})
           = IF \E w \in Workers : Hands[w] = c THEN 1 ELSE 0
      /\ Cardinality({c} \cap Trashed) = IF c \in Trashed THEN 1 ELSE 0
  BY PlaceCounts
<1>2. Cardinality(IF toq[c] # "no" THEN {c} ELSE {}) = IF toq[c] # "no" THEN 1 ELSE 0
  BY FS_EmptySet, FS_Singleton
<1>3. Cardinality(IF cst[c] = "suspended" THEN {c} ELSE {})
        = IF cst[c] = "suspended" THEN 1 ELSE 0
  BY FS_EmptySet, FS_Singleton
<1>4. QueuedOK(c) /\ ParkedOK(c) /\ TrashedOK(c) /\ HeldOK(c) /\ FoundOK(c)
  BY DEF PlaceInv, PlaceOK
<1>5. /\ c \in Queued => /\ cst[c] \in InWork /\ toq[c] = "no" /\ c \notin Trashed
                         /\ ~\E w \in Workers : Hands[w] = c
      /\ (\E w \in Workers : Hands[w] = c) =>
            cst[c] \in InWork /\ toq[c] = "no" /\ c \notin Trashed
      /\ toq[c] # "no" => cst[c] \in Waiting \cup {"read"} /\ c \notin Trashed
      /\ c \in Trashed => cst[c] \in Waiting
  BY <1>4 DEF QueuedOK, ParkedOK, TrashedOK, HeldOK
<1>6. cst[c] \notin {"none", "suspended"} =>
        c \in Queued \/ c \in Trashed \/ toq[c] # "no" \/ \E w \in Workers : Hands[w] = c
  BY <1>4 DEF FoundOK
<1> QED
  BY <1>1, <1>2, <1>3, <1>5, <1>6 DEF InWork, Waiting

(* In every interleaving of the listener, the workers and the main thread, up to
   the point where the ring would run over: an open connection is with exactly
   one of them, or parked, or suspended, and a closed one with nobody, so it is
   closed once and counted out once (push2worker, start_lingering_close_*,
   process_lingering_close). *)
THEOREM OneOwner == ChildSpec => []Ownership
BY PlaceAlways, PlaceOwnership, PTL

(* The listener's switch over cs->pub.state never reaches ap_assert(0): what it
   polled is still parked, in one of the three states it handles. *)
THEOREM NoUnexpectedState == ChildSpec => []ExpectedState
<1>1. PlaceInv => ExpectedState
  <2> SUFFICES ASSUME PlaceInv, lat \in {"timers", "batch", "get"},
                      NEW c \in batch \cap Conns
               PROVE  /\ c \in pollset
                      /\ cst[c] \in {"ka", "wc", "lingering"} \/ c = lcur
    BY DEF ExpectedState
  <2>1. c \in pollset /\ toq[c] # "no"
    BY DEF PlaceInv, LoopInv
  <2>2. ParkedOK(c)
    BY DEF PlaceInv, PlaceOK
  <2> QED
    BY <2>1, <2>2 DEF ParkedOK, Waiting
<1> QED
  BY <1>1, PlaceAlways, PTL

=============================================================================

------------------------------ MODULE Handoff ------------------------------
(***************************************************************************)
(* What the listener and the workers of a child rely on in fd_queue_t,     *)
(* without its ring, its counters or its condition variables: sockets are  *)
(* handed over first in first out, each one to exactly one worker, timers  *)
(* that are due are handed over before any socket, and no more than        *)
(* `capacity' sockets wait for a worker.                                   *)
(***************************************************************************)
EXTENDS Integers, Sequences

CONSTANTS Workers, Conns, Timers, NoConn, capacity

VARIABLES
    pending,    \* the sockets that wait, oldest first
    due,        \* the timers that wait
    holding     \* what each worker works on

vars == <<pending, due, holding>>

Init ==
    /\ pending = <<>>
    /\ due = <<>>
    /\ holding = [w \in Workers |-> NoConn]

Submit(c) ==
    /\ Len(pending) < capacity
    /\ pending' = Append(pending, c)
    /\ UNCHANGED <<due, holding>>

SubmitTimer(t) ==
    /\ due' = Append(due, t)
    /\ UNCHANGED <<pending, holding>>

Deliver(w) ==
    /\ due = <<>>
    /\ pending # <<>>
    /\ holding[w] = NoConn
    /\ holding' = [holding EXCEPT ![w] = Head(pending)]
    /\ pending' = Tail(pending)
    /\ UNCHANGED due

DeliverTimer(w) ==
    /\ due # <<>>
    /\ holding[w] = NoConn
    /\ holding' = [holding EXCEPT ![w] = Head(due)]
    /\ due' = Tail(due)
    /\ UNCHANGED pending

Complete(w) ==
    /\ holding' = [holding EXCEPT ![w] = NoConn]
    /\ UNCHANGED <<pending, due>>

Next ==
    \/ \E c \in Conns : Submit(c)
    \/ \E t \in Timers : SubmitTimer(t)
    \/ \E w \in Workers : Deliver(w) \/ DeliverTimer(w) \/ Complete(w)

Spec == Init /\ [][Next]_vars
=============================================================================

---------------------------- MODULE EventParent ----------------------------
(***************************************************************************)
(* The parent process of the event MPM (server/mpm/event/event.c) and its  *)
(* children as the parent can see them: the scoreboard, the pipe of death, *)
(* idle server maintenance, restarts and shutdown, the reclaiming of       *)
(* children (server/mpm_unix.c) and the record of the children of each     *)
(* generation (server/mpm_common.c).                                       *)
(*                                                                         *)
(* A child process is named by its scoreboard slot: a slot gets a new      *)
(* process only after the old one was waited for.  There is one bucket of  *)
(* listeners, hence one pipe of death for each generation.  What a child   *)
(* does between two steps the parent can see is module EventChild.         *)
(***************************************************************************)
EXTENDS Integers, FiniteSets, Folds

CONSTANTS
    ServerLimit,      \* server_limit
    DaemonsLimit,     \* active_daemons_limit = MaxRequestWorkers / ThreadsPerChild
    ThreadsPerChild,
    StartServers,     \* ap_daemons_to_start
    MinSpare, MaxSpare,   \* min_spare_threads, max_spare_threads
    MaxSpawnRate,     \* MAX_SPAWN_RATE
    HoldOff,          \* hold_off_on_exponential_spawning after a graceful restart
    Signals,          \* the signals the parent may get
    SelfQuits,        \* why a child stops by itself: "ok" or "sick"
    Crashes,          \* children may be killed by a signal
    ForkFails,        \* fork may fail
    Disables,         \* children may stop accepting for a while
    EarlyEnds,        \* generations whose children may end before they are READY
    Loads,            \* how many threads of a child may be busy
    MaxRestarts,      \* bound: restarts
    MaxUnread         \* bound: bytes in the pipe before the parent sends another

ASSUME ParentAssumption ==
    /\ {ServerLimit, DaemonsLimit, ThreadsPerChild, MaxSpawnRate} \subseteq Nat \ {0}
    /\ DaemonsLimit <= ServerLimit
    /\ MinSpare >= 1 /\ MaxSpare >= MinSpare + ThreadsPerChild + 1    \* event_run
    /\ Loads \subseteq 0 .. ThreadsPerChild
    /\ {StartServers, MinSpare, MaxSpare, HoldOff, MaxRestarts, MaxUnread} \subseteq Nat
    /\ Signals \subseteq {"hup", "usr1", "term", "winch"}
    /\ SelfQuits \subseteq {"ok", "sick"}
    /\ {Crashes, ForkFails, Disables} \subseteq BOOLEAN
    /\ EarlyEnds \subseteq 0 .. MaxRestarts

(* MAX_SPAWN_RATE is 32: doubling from 1 reaches it exactly, so that the test
   before the doubling keeps idle_spawn_rate within free_slots[]. *)
ASSUME SpawnRateAssumption ==
    \E R \in SUBSET (1 .. MaxSpawnRate) :
        1 \in R /\ \A r \in R : r < MaxSpawnRate => 2 * r \in R

Slots       == 0 .. ServerLimit - 1
Generations == 0 .. MaxRestarts

VARIABLES
    \* ap_scoreboard_image
    pid,             \* the slot has a pid
    generation,      \* ps->generation
    quiescing, not_accepting,
    status,          \* ws->status of the threads that are not busy
    busy,            \* number of threads with a BUSY status
    \* the processes
    proc,            \* what the process of a slot is doing
    born,            \* its copy of my_generation
    watching,        \* its main thread reads the pipe of death
    code,            \* its exit status
    pod,             \* unread bytes in the pipe of death of each generation
    \* the parent
    ppc, total_daemons, max_daemons_limit, idle_spawn_rate, hold_off,
    remaining_children_to_start, sick_child_detected, had_healthy_child,
    my_generation, is_graceful, restart_pending, shutdown_pending, child_fatal,
    geninfo,         \* mpm_gen_info_t of each generation (mpm_common.c)
    reclaimed        \* history: children reclaimed by ungraceful restarts

boardVars == <<pid, generation, quiescing, not_accepting, status, busy>>
procVars  == <<proc, born, watching, code>>
spawnVars == <<max_daemons_limit, idle_spawn_rate, hold_off,
               remaining_children_to_start>>
sickVars  == <<sick_child_detected, had_healthy_child>>
stopVars  == <<is_graceful, restart_pending, shutdown_pending, child_fatal>>
vars == <<boardVars, procVars, pod, ppc, total_daemons, spawnVars, sickVars,
          my_generation, stopVars, geninfo, reclaimed>>

Statuses == {"dead", "starting", "ready", "graceful"}
Running  == {"forked", "up", "told", "quits", "leaving"}

\* A generation is `known' while it has a record in the ring; `ended' remembers
\* that its end_generation hook has run.
GenInfo == [known : BOOLEAN, active : Int, done : BOOLEAN, ended : BOOLEAN]

\* Numbers of the parent are bounded by what it can have forked.
MaxDaemons == ServerLimit * (MaxRestarts + 1)

TypeOK ==
    /\ pid \in [Slots -> BOOLEAN]
    /\ generation \in [Slots -> Generations]
    /\ quiescing \in [Slots -> BOOLEAN] /\ not_accepting \in [Slots -> BOOLEAN]
    /\ status \in [Slots -> Statuses] /\ busy \in [Slots -> 0 .. ThreadsPerChild]
    /\ proc \in [Slots -> Running \cup {"none", "zombie"}]
    /\ born \in [Slots -> Generations] /\ watching \in [Slots -> BOOLEAN]
    /\ code \in [Slots -> {"ok", "sick", "fatal"}]
    /\ pod \in [Generations -> Nat]
    /\ ppc \in {"run", "loop", "grace", "done"}
    /\ total_daemons \in 0 .. MaxDaemons
    /\ max_daemons_limit \in -1 .. ServerLimit
    /\ idle_spawn_rate \in 1 .. MaxSpawnRate
    /\ hold_off \in 0 .. HoldOff
    /\ remaining_children_to_start \in 0 .. DaemonsLimit
    /\ my_generation \in Generations
    /\ {is_graceful, restart_pending, shutdown_pending, child_fatal,
        sick_child_detected, had_healthy_child} \subseteq BOOLEAN
    /\ geninfo \in [Generations -> GenInfo]
    /\ reclaimed \in 0 .. MaxDaemons

\* event_run is called for the first time.
Init ==
    /\ pid = [s \in Slots |-> FALSE]
    /\ generation = [s \in Slots |-> 0]
    /\ quiescing = [s \in Slots |-> FALSE]
    /\ not_accepting = [s \in Slots |-> FALSE]
    /\ status = [s \in Slots |-> "dead"] /\ busy = [s \in Slots |-> 0]
    /\ proc = [s \in Slots |-> "none"]
    /\ born = [s \in Slots |-> 0]
    /\ watching = [s \in Slots |-> FALSE]
    /\ code = [s \in Slots |-> "ok"]
    /\ pod = [g \in Generations |-> 0]
    /\ ppc = "run" /\ total_daemons = 0 /\ max_daemons_limit = -1
    /\ idle_spawn_rate = 1 /\ hold_off = 0 /\ remaining_children_to_start = 0
    /\ sick_child_detected = FALSE /\ had_healthy_child = FALSE
    /\ my_generation = 0
    /\ is_graceful = FALSE /\ restart_pending = FALSE
    /\ shutdown_pending = FALSE /\ child_fatal = FALSE
    /\ geninfo = [g \in Generations |->
                    [known |-> FALSE, active |-> 0, done |-> FALSE, ended |-> FALSE]]
    /\ reclaimed = 0

-----------------------------------------------------------------------------
(* Children.  "forked": no thread yet; "up": serving; "told": stopped by the
   pipe of death; "quits": stopped by its listener; "leaving": the listening
   sockets are closed. *)

SetStatus(s, st) ==
    /\ status' = [status EXCEPT ![s] = st]
    /\ busy' = [busy EXCEPT ![s] = 0]
SetProc(s, p) == proc' = [proc EXCEPT ![s] = p]

\* The processes of slots S become p; nothing is left of what only they knew.
Ends(S, p) ==
    /\ proc' = [s \in Slots |-> IF s \in S THEN p ELSE proc[s]]
    /\ born' = [s \in Slots |-> IF s \in S THEN 0 ELSE born[s]]
    /\ watching' = [s \in Slots |-> s \notin S /\ watching[s]]

parentVars == <<ppc, total_daemons, spawnVars, sickVars, my_generation, stopVars,
                geninfo, reclaimed>>

\* The threads have been READY; only then ps->generation is this child's.
Settled(s) == status[s] \notin {"dead", "starting"}
MayEnd(s)  == born[s] \in EarlyEnds \/ Settled(s)

\* start_threads
StartThreads(s) ==
    /\ proc[s] = "forked"
    /\ SetProc(s, "up")
    /\ SetStatus(s, "starting")
    /\ UNCHANGED <<pid, generation, quiescing, not_accepting, born, watching, code,
                   pod, parentVars>>

\* The workers wait for work; the first time tells the generation of the child.
ThreadsReady(s) ==
    /\ proc[s] \in {"up", "told", "quits"} /\ status[s] = "starting"
    /\ SetStatus(s, "ready")
    /\ generation' = [generation EXCEPT ![s] = born[s]]
    /\ UNCHANGED <<pid, quiescing, not_accepting, procVars, pod, parentVars>>

\* Workers take and finish connections.
ThreadsBusy(s, n) ==
    /\ proc[s] \in Running /\ Settled(s) /\ n # busy[s]
    /\ busy' = [busy EXCEPT ![s] = n]
    /\ UNCHANGED <<pid, generation, quiescing, not_accepting, status, procVars, pod,
                   parentVars>>

\* disable_listensocks, enable_listensocks
ToggleAccepting(s) ==
    /\ Disables /\ proc[s] = "up"
    /\ not_accepting' = [not_accepting EXCEPT ![s] = ~@]
    /\ UNCHANGED <<pid, generation, quiescing, status, busy, procVars, pod,
                   parentVars>>

(* The main thread of a child reads one byte of its pipe of death, and no other.
   A child that is stopping by itself may still take one. *)
ReadPod(s) ==
    /\ proc[s] \in {"up", "quits", "leaving"} /\ watching[s]
    /\ proc[s] = "up" => MayEnd(s)
    /\ pod[born[s]] > 0
    /\ pod' = [pod EXCEPT ![born[s]] = @ - 1]
    /\ watching' = [watching EXCEPT ![s] = FALSE]
    /\ proc' = [proc EXCEPT ![s] = IF @ = "up" THEN "told" ELSE @]
    /\ UNCHANGED <<boardVars, born, code, parentVars>>

\* signal_threads(ST_GRACEFUL) by the listener: MaxConnectionsPerChild, shortage
SelfQuit(s, why) ==
    /\ proc[s] = "up" /\ MayEnd(s)
    /\ SetProc(s, "quits")
    /\ code' = [code EXCEPT ![s] = why]
    /\ UNCHANGED <<boardVars, born, watching, pod, parentVars>>

\* close_listeners
Quiesce(s) ==
    /\ proc[s] \in {"told", "quits"}
    /\ SetProc(s, "leaving")
    /\ quiescing' = [quiescing EXCEPT ![s] = TRUE]
    /\ not_accepting' = [not_accepting EXCEPT ![s] = TRUE]
    /\ SetStatus(s, "graceful")
    /\ UNCHANGED <<pid, generation, born, watching, code, pod, parentVars>>

\* The main thread is woken by SIGTERM and finds terminate_mode set.
MainWakes(s) ==
    /\ proc[s] = "leaving" /\ watching[s]
    /\ watching' = [watching EXCEPT ![s] = FALSE]
    /\ UNCHANGED <<boardVars, proc, born, code, pod, parentVars>>

\* clean_child_exit after join_workers
Exit(s) ==
    /\ proc[s] = "leaving" /\ ~watching[s]
    /\ Ends({s}, "zombie")
    /\ SetStatus(s, "dead")
    /\ UNCHANGED <<pid, generation, quiescing, not_accepting, code, pod, parentVars>>

\* clean_child_exit while threads are being created
StartFails(s, why) ==
    /\ proc[s] = "forked" /\ born[s] \in EarlyEnds
    /\ Ends({s}, "zombie")
    /\ code' = [code EXCEPT ![s] = why]
    /\ UNCHANGED <<boardVars, pod, parentVars>>

\* Killed by a signal; the scoreboard stays as it is.
Crash(s) ==
    /\ Crashes /\ proc[s] \in Running
    /\ proc[s] \in {"forked", "up"} => MayEnd(s)
    /\ Ends({s}, "zombie")
    /\ code' = [code EXCEPT ![s] = "ok"]
    /\ UNCHANGED <<boardVars, pod, parentVars>>

-----------------------------------------------------------------------------
(* The record of generations: ap_core_child_status, ap_mpm_end_gen_helper *)

GenStart(gi, g, n) ==
    IF n = 0 THEN gi
    ELSE [gi EXCEPT ![g] = [known |-> TRUE,
                            active |-> n + (IF @.known THEN @.active ELSE 0),
                            done |-> @.known /\ @.done, ended |-> @.ended]]

EndGen(r) == [known |-> FALSE, active |-> 0, done |-> r.done, ended |-> TRUE]

\* The children of slots S have exited, each with the generation of its slot.
GenExit(gi, S) ==
    [g \in Generations |->
        LET r == gi[g]
            n == Cardinality({s \in S : generation[s] = g})
        IN  IF ~r.known THEN r
            ELSE IF r.done /\ r.active \in 1 .. n THEN EndGen(r)
            ELSE [r EXCEPT !.active = @ - n]]

GenDone_AtOnce(gi, g) ==
    [gi EXCEPT ![g] = IF ~@.known THEN @ ELSE EndGen(@)]

GenDone(gi, g) ==
    [gi EXCEPT ![g] = IF ~@.known THEN @
                      ELSE IF @.active = 0 THEN EndGen(@)
                      ELSE [@ EXCEPT !.done = TRUE]]

-----------------------------------------------------------------------------
(* make_child in the slots F; A are the slots it was tried in. *)

SetMax(S) == CHOOSE n \in S : \A m \in S : m <= n
SetMin(S) == CHOOSE n \in S : \A m \in S : n <= m

\* The n first slots of S, or all of them
FirstOf(S, n) == {s \in S : Cardinality({t \in S : t < s}) < n}

Raise_ToSlot(limit, A) ==
    IF A # {} /\ SetMax(A) > limit THEN SetMax(A) ELSE limit

Raise(limit, A) ==
    IF A = {} THEN limit
    ELSE IF SetMax(A) + 1 > limit THEN SetMax(A) + 1 ELSE limit

\* Slots in which fork succeeds
Forks(A) == IF ForkFails THEN SUBSET A ELSE {A}

StartProcs(F) ==
    /\ proc' = [s \in Slots |-> IF s \in F THEN "forked" ELSE proc[s]]
    /\ born' = [s \in Slots |-> IF s \in F THEN my_generation ELSE born[s]]
    /\ watching' = [s \in Slots |-> s \in F \/ watching[s]]
    /\ code' = [s \in Slots |-> IF s \in F THEN "ok" ELSE code[s]]

NoteStarted_CountsOnce(F) ==
    /\ pid' = [s \in Slots |-> s \in F \/ pid[s]]
    /\ quiescing' = [s \in Slots |-> s \notin F /\ quiescing[s]]
    /\ not_accepting' = [s \in Slots |-> s \notin F /\ not_accepting[s]]
    /\ geninfo' = GenStart(geninfo, my_generation, Cardinality(F))
    /\ total_daemons' = total_daemons + 1
    /\ UNCHANGED <<generation, status, busy>>

NoteStarted(F) ==
    /\ pid' = [s \in Slots |-> s \in F \/ pid[s]]
    /\ quiescing' = [s \in Slots |-> s \notin F /\ quiescing[s]]
    /\ not_accepting' = [s \in Slots |-> s \notin F /\ not_accepting[s]]
    /\ geninfo' = GenStart(geninfo, my_generation, Cardinality(F))
    /\ total_daemons' = total_daemons + Cardinality(F)
    /\ UNCHANGED <<generation, status, busy>>

FreeSlots == {s \in Slots : ~pid[s]}

-----------------------------------------------------------------------------
(* server_main_loop *)

Looping == ppc = "loop" /\ ~restart_pending /\ ~shutdown_pending

(* startup_children(n): the first free slots, up to the first fork that fails *)
StartUp(n) ==
    LET wanted == FirstOf(FreeSlots, n)
    IN  \E F \in IF ForkFails THEN {FirstOf(FreeSlots, k) : k \in 0 .. n} ELSE {wanted} :
            /\ StartProcs(F)
            /\ NoteStarted(F)
            /\ max_daemons_limit' =
                   Raise(max_daemons_limit,
                         wanted \cap FirstOf(FreeSlots, Cardinality(F) + 1))

\* A second without a dead child: what is left to start is started.
StartRemaining ==
    /\ Looping /\ remaining_children_to_start > 0
    /\ StartUp(remaining_children_to_start)
    /\ remaining_children_to_start' = 0
    /\ UNCHANGED <<pod, ppc, idle_spawn_rate, hold_off, sickVars, my_generation,
                   stopVars, reclaimed>>

\* ap_find_child_by_pid.  By LimitCoversChildren every child is found.
Found(s) == pid[s] /\ s < max_daemons_limit

\* A fatal error of a child of this generation: its slot is not even freed.
FatalChild(s) ==
    code[s] = "fatal" /\ (Found(s) => generation[s] = my_generation)

ReapFatal(s) ==
    /\ Looping /\ proc[s] = "zombie" /\ FatalChild(s)
    /\ SetProc(s, "none")
    /\ shutdown_pending' = TRUE /\ child_fatal' = TRUE
    /\ UNCHANGED <<boardVars, born, watching, code, pod, ppc, total_daemons,
                   spawnVars, sickVars, my_generation, is_graceful,
                   restart_pending, geninfo, reclaimed>>

(* Another child is gone: it is taken off the scoreboard and, while the children
   of a restart are being replaced one for one, its slot is given to a new one. *)
Reap(s) ==
    /\ Looping /\ proc[s] = "zombie" /\ Found(s) /\ ~FatalChild(s)
    /\ sick_child_detected' = (sick_child_detected \/ code[s] # "ok")
    /\ idle_spawn_rate' = IF code[s] = "sick" THEN 1 ELSE idle_spawn_rate
    /\ LET replace == code[s] # "sick" /\ remaining_children_to_start > 0
           gone    == GenExit(geninfo, {s})
       IN  \E new \in IF replace THEN IF ForkFails THEN BOOLEAN ELSE {TRUE} ELSE {FALSE} :
            /\ pid' = [pid EXCEPT ![s] = new]
            /\ SetStatus(s, "dead")
            /\ quiescing' = [quiescing EXCEPT ![s] = FALSE]
            /\ not_accepting' = [not_accepting EXCEPT ![s] = @ /\ ~new]
            /\ SetProc(s, IF new THEN "forked" ELSE "none")
            /\ born' = [born EXCEPT ![s] = IF new THEN my_generation ELSE 0]
            /\ watching' = [watching EXCEPT ![s] = new]
            /\ code' = [code EXCEPT ![s] = "ok"]
            /\ geninfo' = IF new THEN GenStart(gone, my_generation, 1) ELSE gone
            /\ total_daemons' = IF new THEN total_daemons ELSE total_daemons - 1
            /\ max_daemons_limit' =
                   Raise(max_daemons_limit, IF replace THEN {s} ELSE {})
            /\ remaining_children_to_start' =
                   remaining_children_to_start - (IF replace THEN 1 ELSE 0)
    /\ UNCHANGED <<generation, pod, ppc, hold_off, had_healthy_child, my_generation,
                   stopVars, reclaimed>>

-----------------------------------------------------------------------------
(* perform_idle_server_maintenance.  The scoreboard is read in one step. *)

SumOver(f(_)) == MapThenFoldSet(+, 0, f, LAMBDA S : CHOOSE s \in S : TRUE, Slots)

\* Threads with status <= SERVER_READY of a child that accepts connections
IdleIn_FreeSlots(s) ==
    IF /\ status[s] # "graceful"
       /\ ~quiescing[s] /\ ~not_accepting[s] /\ generation[s] = my_generation
    THEN ThreadsPerChild - busy[s] ELSE 0

IdleIn(s) ==
    IF /\ pid[s] /\ status[s] # "graceful"
       /\ ~quiescing[s] /\ ~not_accepting[s] /\ generation[s] = my_generation
    THEN ThreadsPerChild - busy[s] ELSE 0

\* Threads with SERVER_READY <= status < SERVER_GRACEFUL
ActiveIn(s) ==
    IF ~pid[s] THEN 0 ELSE IF status[s] = "ready" THEN ThreadsPerChild ELSE busy[s]

IdleThreads   == SumOver(IdleIn)
ActiveThreads == SumOver(ActiveIn)

HealthyChild ==
    had_healthy_child \/ \E s \in Slots : ActiveIn(s) = ThreadsPerChild

LastNonDead == SetMax({-1} \cup {s \in Slots : pid[s]})

Cycle == Looping /\ remaining_children_to_start = 0

\* A sick child, and none was ever healthy: give up.
BasketCase ==
    /\ Cycle /\ sick_child_detected /\ ~HealthyChild
    /\ shutdown_pending' = TRUE /\ child_fatal' = TRUE
    /\ UNCHANGED <<boardVars, procVars, pod, ppc, total_daemons, spawnVars, sickVars,
                   my_generation, is_graceful, restart_pending, geninfo, reclaimed>>

\* What every other cycle does
Scan ==
    /\ Cycle /\ (sick_child_detected => HealthyChild)
    /\ sick_child_detected' = FALSE
    /\ had_healthy_child' = HealthyChild
    /\ UNCHANGED <<ppc, my_generation, stopVars, remaining_children_to_start,
                   reclaimed>>

KillOneChild == total_daemons <= DaemonsLimit /\ total_daemons < ServerLimit

\* Too many spare threads: one byte in the pipe, whoever reads it.
TooManySpare ==
    /\ Scan /\ IdleThreads > MaxSpare
    /\ max_daemons_limit' = LastNonDead + 1
    /\ \/ /\ KillOneChild
          /\ pod[my_generation] < MaxUnread             \* bound
          /\ pod' = [pod EXCEPT ![my_generation] = @ + 1]
          /\ idle_spawn_rate' = 1
       \/ ~KillOneChild /\ UNCHANGED <<pod, idle_spawn_rate>>
    /\ UNCHANGED <<boardVars, procVars, total_daemons, hold_off, geninfo>>

AtLimit == ActiveThreads >= DaemonsLimit * ThreadsPerChild

(* The next time twice as many, but not just after a graceful restart.  free_slots
   has room for MAX_SPAWN_RATE slots. *)
NextRate_Uncapped ==
    IF hold_off = 0 THEN 2 * idle_spawn_rate ELSE idle_spawn_rate
NextRate ==
    IF hold_off = 0 /\ idle_spawn_rate < MaxSpawnRate
    THEN 2 * idle_spawn_rate ELSE idle_spawn_rate

\* Too few: as many children as the spawn rate allows
SpawnChildren ==
    /\ Scan /\ IdleThreads < MinSpare /\ IdleThreads <= MaxSpare
    /\ ~AtLimit /\ FreeSlots # {}
    /\ LET wanted == FirstOf(FreeSlots, idle_spawn_rate)
       IN  /\ \E F \in Forks(wanted) : StartProcs(F) /\ NoteStarted(F)
           /\ max_daemons_limit' = Raise(LastNonDead + 1, wanted)
    /\ hold_off' = IF hold_off > 0 THEN hold_off - 1 ELSE 0
    /\ idle_spawn_rate' = NextRate
    /\ UNCHANGED pod

\* Enough, or nothing can be done: MaxRequestWorkers reached, scoreboard full
NoChange ==
    /\ Scan /\ IdleThreads <= MaxSpare
    /\ IdleThreads < MinSpare => AtLimit \/ FreeSlots = {}
    /\ max_daemons_limit' = LastNonDead + 1
    /\ idle_spawn_rate' = 1
    /\ UNCHANGED <<boardVars, procVars, pod, total_daemons, hold_off, geninfo>>

-----------------------------------------------------------------------------
(* Signals, event_run before and after its loop *)

\* ap_start_restart and ap_start_shutdown: the last one decides on `graceful'.
Signal(sig) ==
    /\ \/ /\ sig \in {"hup", "usr1"} /\ ppc = "loop"
          /\ ~restart_pending /\ my_generation < MaxRestarts      \* bound
          /\ restart_pending' = TRUE /\ UNCHANGED shutdown_pending
       \/ /\ sig \in {"term", "winch"} /\ ppc \in {"loop", "grace"}
          /\ ~shutdown_pending
          /\ shutdown_pending' = TRUE /\ UNCHANGED restart_pending
    /\ is_graceful' = (sig \in {"usr1", "winch"})
    /\ UNCHANGED <<boardVars, procVars, pod, ppc, total_daemons, spawnVars, sickVars,
                   my_generation, child_fatal, geninfo, reclaimed>>

InitialChildren == SetMin({StartServers, DaemonsLimit})

(* event_run up to its loop.  Unless the restart was graceful there is a new,
   cleared scoreboard. *)
Run ==
    /\ ppc = "run" /\ ppc' = "loop"
    /\ restart_pending' = FALSE /\ shutdown_pending' = FALSE
    /\ had_healthy_child' = FALSE
    /\ \/ /\ is_graceful
          /\ hold_off' = HoldOff
          /\ remaining_children_to_start' = InitialChildren
          /\ UNCHANGED <<boardVars, procVars, geninfo, total_daemons, max_daemons_limit>>
       \/ /\ ~is_graceful
          /\ \E k \in IF ForkFails THEN 0 .. InitialChildren ELSE {InitialChildren} :
                LET F == FirstOf(Slots, k) IN
                /\ StartProcs(F)
                /\ pid' = [s \in Slots |-> s \in F]
                /\ geninfo' = GenStart(geninfo, my_generation, Cardinality(F))
                /\ total_daemons' = total_daemons + Cardinality(F)
                /\ max_daemons_limit' =
                       Raise(max_daemons_limit,
                             FirstOf(Slots, SetMin({k + 1, InitialChildren})))
          /\ generation' = [s \in Slots |-> 0]
          /\ quiescing' = [s \in Slots |-> FALSE]
          /\ not_accepting' = [s \in Slots |-> FALSE]
          /\ status' = [s \in Slots |-> "dead"] /\ busy' = [s \in Slots |-> 0]
          /\ remaining_children_to_start' = 0
          /\ UNCHANGED hold_off
    /\ UNCHANGED <<pod, idle_spawn_rate, sick_child_detected, my_generation,
                   is_graceful, child_fatal, reclaimed>>

(* ap_mpm_podx_killpg: one byte for each child there may be.  RESTART and GRACEFUL
   bytes are not told apart: either makes its reader leave, and the children that
   are sent RESTART are reclaimed before the parent does anything else. *)
KillGroup_OneByte == pod' = [pod EXCEPT ![my_generation] = @ + 1]
KillGroup == pod' = [pod EXCEPT ![my_generation] = @ + DaemonsLimit]

\* The slots that ap_reclaim_child_processes and ap_relieve_child_processes scan
Scanned_Short == {s \in Slots : s + 1 < max_daemons_limit /\ pid[s]}
Scanned == {s \in Slots : Found(s)}

(* ap_reclaim_child_processes: SIGTERM and at last SIGKILL, until every child it
   knows of is gone. *)
Reclaim ==
    /\ Ends(Scanned, "none")
    /\ pid' = [s \in Slots |-> pid[s] /\ s \notin Scanned]
    /\ code' = [s \in Slots |-> IF s \in Scanned THEN "ok" ELSE code[s]]
    /\ UNCHANGED <<generation, quiescing, not_accepting, status, busy>>

\* ap_relieve_child_processes: the zombies are waited for.
Relieved_NotDone == {s \in Scanned : proc[s] = "zombie"}
Relieved == {s \in Scanned : proc[s] \in {"zombie", "none"}}

RestartGraceful ==
    /\ ppc = "loop" /\ restart_pending /\ ~shutdown_pending /\ is_graceful
    /\ ppc' = "run"
    /\ KillGroup
    /\ my_generation' = my_generation + 1
    /\ geninfo' = GenDone(geninfo, my_generation)
    /\ UNCHANGED <<boardVars, procVars, total_daemons, spawnVars, sickVars, stopVars,
                   reclaimed>>

RestartUngraceful ==
    /\ ppc = "loop" /\ restart_pending /\ ~shutdown_pending /\ ~is_graceful
    /\ ppc' = "run"
    /\ KillGroup
    /\ Reclaim
    /\ my_generation' = my_generation + 1
    /\ geninfo' = GenDone(GenExit(geninfo, Scanned), my_generation)
    /\ reclaimed' = reclaimed + Cardinality(Scanned)
    /\ UNCHANGED <<total_daemons, spawnVars, sickVars, stopVars>>

ShutdownUngraceful ==
    /\ ppc = "loop" /\ shutdown_pending /\ ~is_graceful
    /\ ppc' = "done"
    /\ KillGroup
    /\ Reclaim
    /\ geninfo' = GenDone(GenExit(geninfo, Scanned), my_generation)
    /\ UNCHANGED <<total_daemons, spawnVars, sickVars, my_generation, stopVars,
                   reclaimed>>

Relieve ==
    /\ Ends(Relieved, "none")
    /\ pid' = [s \in Slots |-> pid[s] /\ s \notin Relieved]
    /\ code' = [s \in Slots |-> IF s \in Relieved THEN "ok" ELSE code[s]]
    /\ geninfo' = GenExit(geninfo, Relieved)
    /\ UNCHANGED <<generation, quiescing, not_accepting, status, busy>>

ShutdownGraceful ==
    /\ ppc = "loop" /\ shutdown_pending /\ is_graceful
    /\ ppc' = "grace"
    /\ KillGroup
    /\ Relieve
    /\ shutdown_pending' = FALSE
    /\ UNCHANGED <<total_daemons, spawnVars, sickVars, my_generation, is_graceful,
                   restart_pending, child_fatal, reclaimed>>

\* One second of waiting for the children, who are still there
GraceTick ==
    /\ ppc = "grace" /\ ~shutdown_pending
    /\ Relieved # {}
    /\ Relieve
    /\ UNCHANGED <<pod, ppc, total_daemons, spawnVars, sickVars, my_generation,
                   stopVars, reclaimed>>

(* The loop ends: no child is left, a second signal, or GracefulShutdownTimeout *)
GraceEnds ==
    /\ ppc = "grace"
    /\ ppc' = "done"
    /\ KillGroup
    /\ Reclaim
    /\ geninfo' = GenDone(GenExit(geninfo, Scanned), my_generation)
    /\ UNCHANGED <<total_daemons, spawnVars, sickVars, my_generation, stopVars,
                   reclaimed>>

ChildWork(s) ==
    \/ StartThreads(s)
    \/ ThreadsReady(s)
    \/ ReadPod(s) \/ Quiesce(s) \/ MainWakes(s) \/ Exit(s)

ChildLoad(s) ==
    \/ \E n \in Loads : ThreadsBusy(s, n)
    \/ ToggleAccepting(s)

ChildFault(s) ==
    \/ \E why \in SelfQuits : SelfQuit(s, why)
    \/ \E why \in {"sick", "fatal"} : StartFails(s, why)
    \/ Crash(s)

Maintenance == BasketCase \/ TooManySpare \/ SpawnChildren \/ NoChange

ParentStep ==
    \/ \E s \in Slots : ReapFatal(s) \/ Reap(s)
    \/ StartRemaining \/ Maintenance
    \/ Run \/ RestartGraceful \/ RestartUngraceful
    \/ ShutdownUngraceful \/ ShutdownGraceful \/ GraceTick \/ GraceEnds

Next ==
    \/ \E s \in Slots : ChildWork(s) \/ ChildLoad(s) \/ ChildFault(s)
    \/ ParentStep
    \/ \E sig \in Signals : Signal(sig)

Spec == Init /\ [][Next]_vars

(* The parent waits for dead children in every turn of its loop and does its
   maintenance in each second without one (only finitely many children die between
   two forks).  A child starts its threads and reads the pipe, and one that was told
   to leave leaves: that is StopEnds of EventChild.  Nothing is assumed of load,
   faults, signals, or of a GracefulShutdownTimeout. *)
Fairness ==
    /\ \A s \in Slots : WF_vars(Reap(s)) /\ WF_vars(ReapFatal(s))
    /\ WF_vars(StartRemaining) /\ WF_vars(Maintenance)
    /\ WF_vars(Run) /\ WF_vars(RestartGraceful) /\ WF_vars(RestartUngraceful)
    /\ WF_vars(ShutdownGraceful) /\ WF_vars(ShutdownUngraceful)
    /\ WF_vars(GraceTick) /\ WF_vars((Scanned = {} \/ shutdown_pending) /\ GraceEnds)
    /\ \A s \in Slots :
          /\ WF_vars(StartThreads(s)) /\ WF_vars(ThreadsReady(s))
          /\ WF_vars(ReadPod(s)) /\ WF_vars(Quiesce(s))
          /\ WF_vars(MainWakes(s)) /\ WF_vars(Exit(s))

FairSpec == Spec /\ Fairness

-----------------------------------------------------------------------------
(* Properties *)

Alive(s) == proc[s] \in Running

(* Every process is on the scoreboard below max_daemons_limit, the part of it that
   ap_reclaim_child_processes, ap_find_child_by_pid and the graceful shutdown look
   at: maintenance lowers the limit (event.c 2616) while make_child raises it. *)
LimitCoversChildren ==
    \A s \in Slots : pid[s] \/ Alive(s) => pid[s] /\ s < max_daemons_limit

(* The parent leaves no child behind: not when it ends, and not when it is about to
   start over with a cleared scoreboard (event.c 2906, 2973, 3018). *)
NoOrphans ==
    ppc = "done" \/ (ppc = "run" /\ ~is_graceful) => \A s \in Slots : ~Alive(s)

(* total_daemons counts the children on the scoreboard and, for ever, those that
   ungraceful restarts have reclaimed (event.c 3018), which event_note_child_killed
   does not subtract.  It is not kept up while shutting down. *)
DaemonsCounted ==
    ppc \in {"run", "loop"} =>
        total_daemons = Cardinality({s \in Slots : pid[s]}) + reclaimed

(* The end_generation hook of a generation runs when the last of its children has
   exited (mpm_common.c 461): none is alive then, or later. *)
GenerationEndsLast ==
    \A g \in Generations : geninfo[g].ended =>
        \A s \in Slots : Alive(s) => born[s] # g

(* A graceful restart reaches every child of the old generation: it leaves, however
   the bytes of the pipe of death are shared out. *)
OldChildrenLeave ==
    \A s \in Slots : (Alive(s) /\ born[s] < my_generation) ~>
                         ~(Alive(s) /\ born[s] < my_generation)

(* A server that lost all of its children gets a new one, or ends. *)
ServerRecovers ==
    (ppc = "loop" /\ \A s \in Slots : ~Alive(s)) ~>
        (\E s \in Slots : Alive(s)) \/ ppc = "done"

(* A shutdown ends, graceful or not, whatever restart it interrupts. *)
ShutdownEnds == shutdown_pending ~> ppc = "done"

=============================================================================

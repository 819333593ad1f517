------------------------------ MODULE ModelCache ------------------------------
(* The model cache of one ACE-Step worker (src/acestep_worker/model_cache.py), *)
(* the child processes it starts and stops (subprocess_runner.py) and the way  *)
(* the worker leaves and comes back after its language model failed            *)
(* (lm_failure.py).                                                            *)
(*                                                                             *)
(* One asyncio lock serialises every operation of the cache.  A load gives the *)
(* event loop away while it stops its victims and starts its child, so it is   *)
(* several steps here, with `op' as the holder of the lock; an operation that  *)
(* does not start while `op' is busy is one that waits for the lock.           *)
EXTENDS Naturals, Sequences, SequencesExt, FiniteSetsExt

CONSTANTS
    Modes, Sizes, Budget,   \* as in ModelSlots
    Users,                  \* tasks (takes, trainings) that use a model
    MaxForeign,             \* most GPU memory other programs take
    MaxFaults,              \* bound on child failures and process deaths
    None

ASSUME CacheConstants ==
    /\ Sizes \in [Modes -> Nat] /\ Budget \in Nat
    /\ MaxForeign \in Nat /\ MaxFaults \in Nat
    /\ None \notin Modes
    /\ IsFiniteSet(Modes) /\ IsFiniteSet(Users)

VARIABLES
    loaded,     \* _loaded: modes, least recently used first
    inUse,      \* _in_use
    pinned,     \* _pinned
    op,         \* the load that holds _lock, or Idle
    child,      \* child[m]: a child process for mode m is alive on its port
    foreign,    \* GPU memory taken by other programs
    use,        \* use[u]: the mode task u acquired
    proc,       \* "down", "starting" (retry_failed_load) or "up" (registered)
    exiting,    \* request_shutdown or SIGTERM was called
    lmFailure,  \* the Redis key lm_failure_key(worker)
    faults

vars == <<loaded, inUse, pinned, op, child, foreign, use, proc, exiting, lmFailure, faults>>
memory == <<loaded, inUse, pinned, op, use>>
world == <<foreign, proc, exiting, lmFailure, faults>>

-----------------------------------------------------------------------------
Idle == [kind |-> "idle", mode |-> None, plan |-> {}, running |-> 0]

Loaded == Range(loaded)

\* The declared sizes of some modes together.
Sum(S) == MapThenSumSet(LAMBDA m : Sizes[m], S)

\* Mutant: the old place is kept.
AppendOnly(s, m) == Append(s, m)

MoveToEnd(s, m) == Append(RemoveFirst(s, m), m)

Larger(a, b) == IF a > b THEN a ELSE b
Smaller(a, b) == IF a < b THEN a ELSE b

(* _declared_used_gb *)
DeclaredUsed(modes) == Sum(modes)

(* What NVML would report: the children that are alive, and the others. *)
GpuUse(alive) == foreign + Sum({m \in Modes : alive[m]})

(* _planning_used_gb: never below the declared sizes; the reading of NVML    *)
(* counts when there is one.                                                  *)
PlanningUsed(modes, alive, measured) ==
    IF measured THEN Larger(GpuUse(alive), DeclaredUsed(modes)) ELSE DeclaredUsed(modes)

\* Mutant: a task that runs on the mode is forgotten.
EvictableUnlessPinned(m) == m \notin pinned

(* The modes an eviction for somebody else may take. *)
Evictable(m) == m \notin pinned /\ inUse[m] = 0

Fits(used, m) == used + Sizes[m] <= Budget

(* The modes an eviction may take among the n least recently used. *)
Victims(n) == {loaded[i] : i \in {j \in 1..n : Evictable(loaded[j])}}

(* _build_eviction_plan: least recently used first, until mode m fits beside   *)
(* what is left, or to the end.                                               *)
Suffices(used, m, n) == used + Sizes[m] <= Budget + Sum(Victims(n))
EvictionPlan(used, m) ==
    Victims(Min({n \in 0..Len(loaded) : Suffices(used, m, n)} \cup {Len(loaded)}))

-----------------------------------------------------------------------------
Init ==
    /\ loaded = <<>> /\ pinned = {} /\ op = Idle
    /\ inUse = [m \in Modes |-> 0]
    /\ child = [m \in Modes |-> FALSE]
    /\ foreign \in 0..MaxForeign
    /\ use = [u \in Users |-> None]
    /\ proc = "up" /\ exiting = FALSE /\ lmFailure = None
    /\ faults = 0

\* Mutant: operations go ahead while a load stops its victims.
LockFreeOnceLoading == op.kind # "loading"

(* stop_acestep_subprocess: SIGTERM, then SIGKILL; `gone' is FALSE when even   *)
(* that was not reaped in time.  A mode has its own port (MODEL_INNER_PORT_    *)
(* OFFSETS), so `child' has one entry per mode.                                *)
StopChild(m, gone) == [child EXCEPT ![m] = ~gone]

(* leave_if_lm_failed: the mode is recorded for the next start (the write may  *)
(* fail) and the process asked to end.                                         *)
LeaveIfLmFailed(m, recorded) ==
    /\ exiting' = TRUE
    /\ lmFailure' = IF recorded THEN m ELSE lmFailure

(* retry_failed_load, once its load has ended otherwise than by the LM: the    *)
(* key goes, and the start goes on to registration.                            *)
RetryDone ==
    /\ proc' = "up"
    /\ lmFailure' = IF proc = "up" THEN lmFailure ELSE None

(* Every operation waits for the lock. *)
LockFree == op = Idle

(* load of a mode that is loaded already. *)
LoadAgain(m) ==
    /\ proc = "up" /\ LockFree /\ m \in Loaded
    /\ loaded' = MoveToEnd(loaded, m)
    /\ UNCHANGED <<inUse, pinned, op, child, use, world>>

(* load: takes the lock, plans.  A mode larger than the budget, or one that   *)
(* does not fit after every eligible eviction, is refused with CapacityError  *)
(* before anything is evicted, which is no step here.                         *)
BeginLoad(m, measured) ==
    LET used == PlanningUsed(Loaded, child, measured)
        plan == EvictionPlan(used, m)
    IN /\ LockFree /\ m \notin Loaded
       /\ Sizes[m] <= Budget
       /\ used + Sizes[m] <= Budget + Sum(plan)
       /\ op' = [kind |-> "evicting", mode |-> m, plan |-> plan, running |-> used]

Load(m, measured) ==
    /\ proc = "up" /\ BeginLoad(m, measured)
    /\ UNCHANGED <<loaded, inUse, pinned, child, use, world>>

MoreToEvict == op.plan # {} /\ ~Fits(op.running, op.mode)

(* The plan is worked off in the order of _loaded, which nobody changes         *)
(* meanwhile: the lock is held.                                                *)
NextVictim == loaded[Min({i \in 1..Len(loaded) : loaded[i] \in op.plan})]

(* One round of the loop of _evict_to_fit: the child stops, its entry goes.   *)
(* running_used_gb trusts the reading only when it fell further.              *)
EvictNext(measured) ==
    LET m == NextVictim
        left == Loaded \ {m}
        alive == StopChild(m, TRUE)
        now == PlanningUsed(left, alive, measured)
    IN /\ op.kind = "evicting" /\ MoreToEvict
       /\ loaded' = RemoveFirst(loaded, m)
       /\ child' = alive
       /\ op' = [op EXCEPT !.plan = @ \ {m}, !.running = Smaller(now, @ - Sizes[m])]
       /\ UNCHANGED <<inUse, pinned, use, world>>

(* A child that cannot be stopped (SIGKILL not reaped in time) raises out of  *)
(* the load: what was evicted before stays evicted, its own entry stays too,  *)
(* whether or not the process is gone.                                        *)
EvictNextFails(gone) ==
    LET m == NextVictim
    IN /\ op.kind = "evicting" /\ MoreToEvict /\ faults < MaxFaults
       /\ child' = StopChild(m, gone)
       /\ op' = Idle
       /\ faults' = faults + 1
       /\ UNCHANGED <<loaded, inUse, pinned, use, foreign, proc, exiting, lmFailure>>

(* start_acestep_subprocess: the child takes its memory from here on.  A      *)
(* child of the same mode that could not be stopped still answers /health.    *)
StartChild ==
    /\ op.kind = "evicting" /\ ~MoreToEvict
    /\ op' = [op EXCEPT !.kind = "loading"]
    /\ child' = [child EXCEPT ![op.mode] = TRUE]
    /\ UNCHANGED <<loaded, inUse, pinned, use, world>>

(* wait_for_health and verify_requested_lm_is_up passed.  A retried load ends *)
(* the start: the key goes, registration and heartbeat begin.                 *)
ChildReady ==
    /\ op.kind = "loading" /\ child[op.mode]
    /\ loaded' = Append(loaded, op.mode)
    /\ op' = Idle
    /\ RetryDone
    /\ UNCHANGED <<inUse, pinned, child, use, foreign, exiting, faults>>

\* Mutant: a failed load does not give the lock back.
FailureKeepsLock(gone) ==
    /\ op.kind = "loading"
    /\ IF child[op.mode] THEN faults < MaxFaults ELSE gone
    /\ child' = StopChild(op.mode, gone)
    /\ faults' = IF child[op.mode] THEN faults + 1 ELSE faults
    /\ UNCHANGED <<memory, foreign, proc, exiting, lmFailure>>

(* The child exits or is not healthy in time; it is stopped, or cannot be.    *)
(* A retried load that fails this way starts the worker empty.                *)
ChildFails(gone) ==
    /\ op.kind = "loading"
    /\ IF child[op.mode] THEN faults < MaxFaults ELSE gone
    /\ child' = StopChild(op.mode, gone)
    /\ op' = Idle
    /\ RetryDone
    /\ faults' = IF child[op.mode] THEN faults + 1 ELSE faults
    /\ UNCHANGED <<loaded, inUse, pinned, use, foreign, exiting>>

\* Mutant: the worker registers although its language model failed again.
RegistersWithoutLm(recorded) ==
    /\ op.kind = "loading" /\ child[op.mode] /\ faults < MaxFaults
    /\ child' = [child EXCEPT ![op.mode] = FALSE]
    /\ op' = Idle /\ proc' = "up"
    /\ exiting' = (proc = "up")
    /\ lmFailure' = IF recorded THEN op.mode ELSE lmFailure
    /\ faults' = faults + 1
    /\ UNCHANGED <<loaded, inUse, pinned, use, foreign>>

(* Healthy, but without its language model: the worker records the mode (the  *)
(* write to Redis may fail) and leaves.  While it starts, the start fails and *)
(* the key stays.                                                             *)
ChildHasNoLm(recorded) ==
    /\ op.kind = "loading" /\ child[op.mode] /\ faults < MaxFaults
    /\ child' = [child EXCEPT ![op.mode] = FALSE]
    /\ op' = Idle
    /\ \/ /\ proc = "up"
          /\ LeaveIfLmFailed(op.mode, recorded)
          /\ UNCHANGED proc
       \/ /\ proc = "starting"
          /\ proc' = "down"
          /\ UNCHANGED <<exiting, lmFailure>>
    /\ faults' = faults + 1
    /\ UNCHANGED <<loaded, inUse, pinned, use, foreign>>

-----------------------------------------------------------------------------
(* evict: refused while in use; also removes the admin's pin. *)
Evict(m) ==
    /\ proc = "up" /\ LockFree /\ m \in Loaded /\ inUse[m] = 0
    /\ loaded' = RemoveFirst(loaded, m)
    /\ pinned' = pinned \ {m}
    /\ child' = StopChild(m, TRUE)
    /\ UNCHANGED <<inUse, op, use, world>>

EvictFails(m, gone) ==
    /\ proc = "up" /\ LockFree /\ m \in Loaded /\ inUse[m] = 0 /\ faults < MaxFaults
    /\ child' = StopChild(m, gone)
    /\ faults' = faults + 1
    /\ UNCHANGED <<memory, foreign, proc, exiting, lmFailure>>

Pin(m) ==
    /\ proc = "up" /\ LockFree /\ m \in Loaded
    /\ pinned' = pinned \cup {m}
    /\ UNCHANGED <<loaded, inUse, op, child, use, world>>

Unpin(m) ==
    /\ proc = "up" /\ LockFree
    /\ pinned' = pinned \ {m}
    /\ UNCHANGED <<loaded, inUse, op, child, use, world>>

(* acquire_for_use: NULL, so no step, when the mode is not loaded. *)
AcquireForUse(u, m) ==
    /\ proc = "up" /\ LockFree /\ use[u] = None /\ m \in Loaded
    /\ loaded' = MoveToEnd(loaded, m)
    /\ inUse' = [inUse EXCEPT ![m] = @ + 1]
    /\ use' = [use EXCEPT ![u] = m]
    /\ UNCHANGED <<pinned, op, child, world>>

\* Mutant: the count of the last use stays.
ReleaseKeepsLast(u) ==
    /\ proc = "up" /\ LockFree /\ use[u] # None
    /\ inUse' = [inUse EXCEPT ![use[u]] = IF @ = 1 THEN 1 ELSE @ - 1]
    /\ use' = [use EXCEPT ![u] = None]
    /\ UNCHANGED <<loaded, pinned, op, child, world>>

(* release: a count that is gone already (evict_all) is ignored. *)
Release(u) ==
    /\ proc = "up" /\ LockFree /\ use[u] # None
    /\ inUse' = [inUse EXCEPT ![use[u]] = IF @ = 0 THEN 0 ELSE @ - 1]
    /\ use' = [use EXCEPT ![u] = None]
    /\ UNCHANGED <<loaded, pinned, op, child, world>>

(* release_and_stop: the last use of a training also stops its child and      *)
(* drops the entry, even when the child cannot be stopped.  The pin stays.    *)
ReleaseAndStop(u, gone) ==
    LET m == use[u]
        last == inUse[m] = 1
    IN /\ proc = "up" /\ LockFree /\ m # None
       /\ gone \/ (last /\ faults < MaxFaults)
       /\ inUse' = [inUse EXCEPT ![m] = IF @ = 0 THEN 0 ELSE @ - 1]
       /\ use' = [use EXCEPT ![u] = None]
       /\ loaded' = IF last THEN RemoveFirst(loaded, m) ELSE loaded
       /\ child' = IF last /\ m \in Loaded THEN StopChild(m, gone) ELSE child
       /\ faults' = IF gone THEN faults ELSE faults + 1
       /\ UNCHANGED <<pinned, op, foreign, proc, exiting, lmFailure>>

-----------------------------------------------------------------------------
(* POST /restart: SIGTERM to this process. *)
Restart ==
    /\ proc = "up" /\ ~exiting
    /\ exiting' = TRUE
    /\ UNCHANGED <<memory, child, foreign, proc, lmFailure, faults>>

Forget ==
    /\ loaded' = <<>> /\ pinned' = {} /\ op' = Idle
    /\ inUse' = [m \in Modes |-> 0]
    /\ use' = [u \in Users |-> None]
    /\ child' = [m \in Modes |-> FALSE]
    /\ proc' = "down"
    /\ exiting' = FALSE

(* The end of lifespan: evict_all waits for the lock and stops every child;   *)
(* the container ends, so that one that could not be stopped ends as well.    *)
EvictAll ==
    /\ exiting /\ LockFree
    /\ Forget
    /\ UNCHANGED <<foreign, lmFailure, faults>>

(* The watchdog's forced exit, or the death of the process. *)
Die ==
    /\ proc # "down" /\ (exiting \/ faults < MaxFaults)
    /\ Forget
    /\ faults' = IF exiting THEN faults ELSE faults + 1
    /\ UNCHANGED <<foreign, lmFailure>>

(* lifespan: retry_failed_load runs ahead of registration and heartbeat.  A   *)
(* retry refused for capacity clears the key and starts the worker empty.     *)
Start(measured) ==
    /\ proc = "down"
    /\ \/ /\ lmFailure = None
          /\ proc' = "up"
          /\ UNCHANGED <<op, lmFailure>>
       \/ /\ lmFailure # None
          /\ BeginLoad(lmFailure, measured)
          /\ proc' = "starting"
          /\ UNCHANGED lmFailure
       \/ /\ lmFailure # None
          /\ ~Fits(PlanningUsed({}, child, measured), lmFailure)
          /\ RetryDone
          /\ UNCHANGED op
    /\ UNCHANGED <<loaded, inUse, pinned, child, foreign, use, exiting, faults>>

-----------------------------------------------------------------------------
(* A child exits by itself: the cache does not notice. *)
ChildDies(m) ==
    /\ child[m] /\ faults < MaxFaults
    /\ child' = [child EXCEPT ![m] = FALSE]
    /\ faults' = faults + 1
    /\ UNCHANGED <<memory, foreign, proc, exiting, lmFailure>>

(* One that was not reaped in time is gone in the end. *)
StrayDies(m) ==
    /\ child[m] /\ m \notin Loaded /\ op.mode # m
    /\ child' = [child EXCEPT ![m] = FALSE]
    /\ UNCHANGED <<memory, world>>

ForeignUse ==
    /\ foreign' \in 0..MaxForeign
    /\ UNCHANGED <<memory, child, proc, exiting, lmFailure, faults>>

Next ==
    \/ \E m \in Modes :
          \/ LoadAgain(m) \/ Evict(m) \/ Pin(m) \/ Unpin(m) \/ ChildDies(m) \/ StrayDies(m)
          \/ \E b \in BOOLEAN : Load(m, b) \/ EvictFails(m, b)
          \/ \E u \in Users : AcquireForUse(u, m)
    \/ \E b \in BOOLEAN :
          \/ EvictNext(b) \/ EvictNextFails(b) \/ ChildFails(b) \/ ChildHasNoLm(b) \/ Start(b)
          \/ \E u \in Users : ReleaseAndStop(u, b)
    \/ \E u \in Users : Release(u)
    \/ StartChild \/ ChildReady \/ Restart \/ EvictAll \/ Die \/ ForeignUse

Spec == Init /\ [][Next]_vars

(* Stopping and starting a child are bounded by time-outs, so a load that     *)
(* holds the lock goes on; a shutdown that was asked for ends; Docker starts  *)
(* the container again.                                                       *)
LoadGoesOn == (\E b \in BOOLEAN : EvictNext(b)) \/ StartChild
ChildSettles == ChildReady \/ \E b \in BOOLEAN : ChildFails(b)

FairSpec ==
    /\ Spec
    /\ WF_vars(LoadGoesOn)
    /\ WF_vars(ChildSettles)
    /\ WF_vars(EvictAll)
    /\ WF_vars(\E b \in BOOLEAN : Start(b))

-----------------------------------------------------------------------------
(* The type of the state; a mode is loaded at most once. *)
TypeOK ==
    /\ loaded \in Seq(Modes) /\ IsInjective(loaded)
    /\ inUse \in [Modes -> 0..Cardinality(Users)]
    /\ pinned \subseteq Modes
    /\ op \in [kind : {"idle", "evicting", "loading"}, mode : Modes \cup {None},
              plan : SUBSET Modes, running : Nat]
    /\ child \in [Modes -> BOOLEAN]
    /\ foreign \in 0..MaxForeign /\ faults \in 0..MaxFaults
    /\ use \in [Users -> Modes \cup {None}]
    /\ proc \in {"down", "starting", "up"} /\ exiting \in BOOLEAN
    /\ lmFailure \in Modes \cup {None}

(* The modes that occupy the GPU: the loaded ones and, from the start of its  *)
(* child, the one that is being loaded.                                       *)
Occupying == Loaded \cup (IF op.kind = "loading" THEN {op.mode} ELSE {})

Slots == INSTANCE ModelSlots WITH resident <- Occupying, users <- inUse

(* The cache keeps the promise of ModelSlots: the declared sizes of what      *)
(* occupies the GPU never exceed the budget, counting a child from its start, *)
(* and no model is taken from under a running task, whatever mix of loads,    *)
(* evictions, failed stops and restarts happens meanwhile (model_cache.py).   *)
ImplementsModelSlots == Slots!Spec

(* Each task is counted once on the mode it uses, through release,            *)
(* release_and_stop and shutdown: a lost count would let evict stop the child *)
(* of a running take, a surplus one would keep the mode for ever.             *)
UsesAreCounted ==
    \A m \in Modes : inUse[m] = Cardinality({u \in Users : use[u] = m})

(* A load never evicts a mode an admin pinned, and takes its victims in LRU   *)
(* order: what _build_eviction_plan decided still holds when each victim's    *)
(* turn comes, after the children before it have been stopped.                *)
VictimIsStillRight ==
    [][\A m \in Modes :
          (op.kind = "evicting" /\ op'.kind = "evicting" /\ m \in Loaded /\ m \notin Range(loaded'))
          => /\ Evictable(m)
             /\ \A i, j \in 1..Len(loaded) :
                    loaded[j] = m /\ i < j => ~Evictable(loaded[i])]_vars

(* A worker that left because its language model failed offers itself again   *)
(* only after it retried that load: while it is registered the key is gone,   *)
(* unless it is on its way out (lm_failure.py, lifespan).                     *)
RetriedBeforeOffered == proc = "up" /\ lmFailure # None => exiting

(* The lock of the cache does not stay with a load: its children stop or      *)
(* start within their time-outs, so the takes waiting behind it go on.        *)
LockIsFreed == op # Idle ~> op = Idle
=============================================================================

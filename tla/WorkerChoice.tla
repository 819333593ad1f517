---------------------------- MODULE WorkerChoice ----------------------------
(* How a job finds a GPU worker: workers register, publish what they have in a *)
(* heartbeat key that expires, and a job picks one from keys it reads one by   *)
(* one (scheduler.pick_worker) and is admitted by a script in Redis.           *)
EXTENDS Integers, FiniteSets, FiniteSetsExt

CONSTANTS
    Workers,       \* worker ids, in the order of list_worker_identities
    Picks,         \* jobs that choose a worker
    MaxEnds,       \* bounds how often a worker process ends
    None

(* What a heartbeat tells of a worker (build_state_payload, worker_is_online): *)
(* its GPU does not answer or the heartbeat is unreadable, or it takes jobs    *)
(* and has the mode that is asked for loaded or not.                           *)
Payloads == {"broken", "bare", "loaded"}
Online == {"bare", "loaded"}

VARIABLES
    registered, \* workers with an identity row
    proc,       \* proc[w]: the worker process; "off" after a clean end, "dead" after another
    beat,       \* beat[w]: whether a publish is on its way
    key,        \* key[w]: the heartbeat key, or None
    hold,       \* hold[w]: whether the worker is held for a training
    depth,      \* depth[w]: the queue-depth key
    pick,       \* pick[p]: a job's choice
    steady,     \* steady[p]: what was true of workers ever since the choice began
    ends

vars == <<registered, proc, beat, key, hold, depth, pick, steady, ends>>
workerVars == <<registered, proc, beat, ends>>
jobVars == <<depth, pick>>

NoPick == [pc |-> "idle", any |-> FALSE, todo |-> {}, seen |-> {}, choice |-> None]

Init ==
    /\ registered = {} /\ ends = 0
    /\ proc = [w \in Workers |-> "off"]
    /\ beat = [w \in Workers |-> FALSE]
    /\ key = [w \in Workers |-> None]
    /\ hold = [w \in Workers |-> FALSE]
    /\ depth = [w \in Workers |-> 0]
    /\ pick = [p \in Picks |-> NoPick]
    /\ steady = [p \in Picks |-> {}]

-----------------------------------------------------------------------------
(* lifespan: the registration runs beside the start, which first removes what  *)
(* an earlier process left in Redis.                                           *)
Start(w) ==
    /\ proc[w] \in {"off", "dead"}
    /\ proc' = [proc EXCEPT ![w] = "starting"]
    /\ UNCHANGED <<registered, beat, key, hold, jobVars, ends>>

(* register_worker: the row is made, or brought up to date. *)
RegisterWorker(w) == registered' = registered \cup {w}

(* RegistryClient.register tries until the web server answers. *)
Register(w) ==
    /\ proc[w] \in {"starting", "up"} /\ w \notin registered
    /\ RegisterWorker(w)
    /\ UNCHANGED <<proc, beat, key, hold, jobVars, ends>>

ClearOrphanedQueue(w) ==
    /\ proc[w] = "starting" /\ proc' = [proc EXCEPT ![w] = "up"]
    /\ depth' = [depth EXCEPT ![w] = 0] /\ hold' = [hold EXCEPT ![w] = FALSE]
    /\ UNCHANGED <<registered, beat, key, pick, ends>>

(* HeartbeatLoop._run: once per interval a publish begins, *)
Beat(w) ==
    /\ proc[w] = "up" /\ ~beat[w] /\ beat' = [beat EXCEPT ![w] = TRUE]
    /\ UNCHANGED <<registered, proc, key, hold, jobVars, ends>>

(* ... and what the worker tells reaches Redis, or the loop goes on without it. *)
PublishOnce(w) ==
    /\ beat[w] /\ beat' = [beat EXCEPT ![w] = FALSE]
    /\ \/ \E payload \in Payloads : key' = [key EXCEPT ![w] = payload]
       \/ UNCHANGED key
    /\ UNCHANGED <<registered, proc, hold, jobVars, ends>>

(* No publish succeeded within the key's time to live. *)
Expire(w) ==
    /\ key[w] # None /\ key' = [key EXCEPT ![w] = None]
    /\ UNCHANGED <<workerVars, hold, jobVars>>

(* HeartbeatLoop.stop: no further publish begins. *)
Stop(w) ==
    /\ proc[w] = "up" /\ ends < MaxEnds /\ ends' = ends + 1
    /\ proc' = [proc EXCEPT ![w] = "stopping"]
    /\ UNCHANGED <<registered, beat, key, hold, jobVars>>

\* Mutant: the key is deleted while a publish still waits.
DeleteAtOnce(w) ==
    /\ proc[w] = "stopping" /\ proc' = [proc EXCEPT ![w] = "off"]
    /\ key' = [key EXCEPT ![w] = None]
    /\ UNCHANGED <<registered, beat, hold, jobVars, ends>>

(* settle_child_task: the loop's task has ended, its publish with it. *)
Settled(w) == ~beat[w]

(* HeartbeatLoop.shutdown deletes the key once the loop has settled. *)
Shutdown(w) ==
    /\ proc[w] = "stopping" /\ Settled(w)
    /\ proc' = [proc EXCEPT ![w] = "off"]
    /\ key' = [key EXCEPT ![w] = None]
    /\ UNCHANGED <<registered, beat, hold, jobVars, ends>>

(* The process dies; its key stays until it expires. *)
Die(w) ==
    /\ proc[w] \notin {"off", "dead"} /\ ends < MaxEnds /\ ends' = ends + 1
    /\ proc' = [proc EXCEPT ![w] = "dead"] /\ beat' = [beat EXCEPT ![w] = FALSE]
    /\ UNCHANGED <<registered, key, hold, jobVars>>

(* A training takes a worker with nothing admitted, and lets it go (GpuHold). *)
Hold(w) ==
    /\ proc[w] = "up" /\ (hold[w] \/ depth[w] <= 0)
    /\ hold' = [hold EXCEPT ![w] = ~hold[w]]
    /\ UNCHANGED <<workerVars, key, jobVars>>

-----------------------------------------------------------------------------
Become(p, r) ==
    /\ pick' = [pick EXCEPT ![p] = r]
    /\ UNCHANGED <<workerVars, key, hold, depth>>

(* pick_worker for a mode, or pick_any_online_worker *)
Begin(p) ==
    /\ pick[p].pc = "idle"
    /\ \E any \in BOOLEAN :
         Become(p, [NoPick EXCEPT !.pc = "list", !.any = any, !.todo = registered])

Now(p) == Min(pick[p].todo)
(* A worker as the job saw it: its heartbeat, later its depth. *)
Seen(w, payload) == [id |-> w, payload |-> payload, depth |-> None]

\* Mutant: a worker without a usable heartbeat ends the listing.
StopAtOffline(p) ==
    /\ pick[p].pc = "list" /\ pick[p].todo # {}
    /\ IF key[Now(p)] \in Online
         THEN Become(p, [pick[p] EXCEPT !.pc = "depth", !.choice = Seen(Now(p), key[Now(p)])])
         ELSE Become(p, [pick[p] EXCEPT !.todo = {}])

(* _list_online_workers: a heartbeat is read, *)
ReadState(p) ==
    /\ pick[p].pc = "list" /\ pick[p].todo # {}
    /\ IF key[Now(p)] \in Online
         THEN Become(p, [pick[p] EXCEPT !.pc = "depth", !.choice = Seen(Now(p), key[Now(p)])])
         ELSE Become(p, [pick[p] EXCEPT !.todo = @ \ {Now(p)}])

(* ... then, of a worker that takes jobs, the queue depth. *)
ReadDepth(p) ==
    /\ pick[p].pc = "depth"
    /\ Become(p, [pick[p] EXCEPT !.pc = "list", !.todo = @ \ {Now(p)}, !.choice = None,
                                 !.seen = @ \cup {[pick[p].choice EXCEPT !.depth = depth[Now(p)]]}])

Ids(seen) == {v.id : v \in seen}

(* NoCapacityError, the worker with the least id, or on to the holds *)
Listed(p) ==
    /\ pick[p].pc = "list" /\ pick[p].todo = {}
    /\ \/ pick[p].seen = {} /\ Become(p, [pick[p] EXCEPT !.pc = "none"])
       \/ /\ pick[p].seen # {} /\ pick[p].any
          /\ \E v \in pick[p].seen :
               /\ v.id = Min(Ids(pick[p].seen))
               /\ Become(p, [NoPick EXCEPT !.pc = "picked", !.any = TRUE, !.choice = v])
       \/ /\ pick[p].seen # {} /\ ~pick[p].any
          /\ Become(p, [pick[p] EXCEPT !.pc = "holds", !.todo = Ids(pick[p].seen)])

ReadHold(p) ==
    /\ pick[p].pc = "holds" /\ pick[p].todo # {}
    /\ Become(p, [pick[p] EXCEPT !.todo = @ \ {Now(p)},
                                 !.seen = {v \in @ : v.id # Now(p) \/ ~hold[Now(p)]}])

(* _pick_from: the shortest queue, of the workers that have the mode if any do *)
Best(seen) ==
    LET loaded == {v \in seen : v.payload = "loaded"}
        pool == IF loaded # {} THEN loaded ELSE seen
        least == {v \in pool : \A u \in pool : v.depth <= u.depth}
    IN CHOOSE v \in least : v.id = Min(Ids(least))

PickFrom(p) ==
    /\ pick[p].pc = "holds" /\ pick[p].todo = {}
    /\ \/ pick[p].seen = {} /\ Become(p, [pick[p] EXCEPT !.pc = "held"])
       \/ /\ pick[p].seen # {}
          /\ Become(p, [NoPick EXCEPT !.pc = "picked", !.choice = Best(pick[p].seen)])

(* admit_generation_worker: the script counts the job unless the worker was    *)
(* held meanwhile; a job for any worker is not counted.                        *)
Admit(p) ==
    /\ pick[p].pc = "picked" /\ ~pick[p].any /\ ~hold[pick[p].choice.id]
    /\ depth' = [depth EXCEPT ![pick[p].choice.id] = @ + 1]
    /\ pick' = [pick EXCEPT ![p].pc = "admitted"]
    /\ UNCHANGED <<workerVars, key, hold>>

(* The job's end lowers the depth (decr_queue_depth). *)
Finish(p) ==
    /\ pick[p].pc = "admitted"
    /\ depth' = [depth EXCEPT ![pick[p].choice.id] = @ - 1]
    /\ pick' = [pick EXCEPT ![p] = NoPick]
    /\ UNCHANGED <<workerVars, key, hold>>

(* A refused job comes back later, as does one whose worker was held late. *)
ComeBack(p) ==
    /\ \/ pick[p].pc \in {"none", "held"}
       \/ pick[p].pc = "picked" /\ (pick[p].any \/ hold[pick[p].choice.id])
    /\ Become(p, NoPick)

Step ==
    \/ \E w \in Workers :
        \/ Start(w) \/ Register(w) \/ ClearOrphanedQueue(w) \/ Beat(w) \/ PublishOnce(w)
        \/ Expire(w) \/ Stop(w) \/ Shutdown(w) \/ Die(w) \/ Hold(w)
    \/ \E p \in Picks :
        \/ Begin(p) \/ ReadState(p) \/ ReadDepth(p) \/ Listed(p) \/ ReadHold(p) \/ PickFrom(p)
        \/ Admit(p) \/ Finish(p) \/ ComeBack(p)

(* Which workers can be had, and which of them have the mode. *)
Free == {w \in registered : key[w] \in Online /\ ~hold[w]}
Facts == (Free \X {"free"}) \cup ({w \in Free : key[w] = "loaded"} \X {"loaded"})

(* What stays true from the moment a choice begins is watched. *)
Watch == steady' = [p \in Picks |-> Facts' \cap IF pick[p].pc = "idle" THEN Facts' ELSE steady[p]]

Next == Step /\ Watch

-----------------------------------------------------------------------------
(* Although a job reads heartbeats, depths and holds one by one while they     *)
(* change, it is refused for want of a worker only if none could be had all    *)
(* the while, and it gets a worker that must load its mode first only if none  *)
(* had the mode all the while (pick_worker, _pick_from).                       *)
RefusalIsTrue ==
    \A p \in Picks :
        /\ pick[p].pc \in {"none", "held"} => \A w \in Workers : <<w, "free">> \notin steady[p]
        /\ pick[p].pc = "picked" /\ ~pick[p].any /\ pick[p].choice.payload = "bare"
             => \A w \in Workers : <<w, "loaded">> \notin steady[p]

(* A worker that shut down is offered to nobody: no publish still on its way   *)
(* brings its key back (HeartbeatLoop.shutdown).                               *)
NoGhostWorker == \A w \in Workers : proc[w] = "off" => key[w] = None

=============================================================================

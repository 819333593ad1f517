----------------------------- MODULE JobStreams -----------------------------
(* The event stream of one job (jobs_api.py) and the expiring leases that      *)
(* bound how many are open (redis_client.RedisConcurrentLeaseLimiter; the      *)
(* resource stream takes its own leases the same way).  A tick is the slack by *)
(* which a lease outlives its connection.                                      *)
EXTENDS Naturals, FiniteSets

CONSTANTS
    Clients,        \* browser tabs of one user that follow the job
    Slots,          \* lease tokens; as many as MaxOpen
    MaxOpen,        \* job_stream_lease_max_per_user
    ConnTicks,      \* JOB_STREAM_CONNECTION_SECONDS
    LeaseTicks,     \* JOB_STREAM_LEASE_SECONDS
    MaxFaults,      \* bound on clients that go and releases that fail
    None

(* A lease outlives the connection it admits. *)
StreamConstants ==
    /\ IsFiniteSet(Clients) /\ IsFiniteSet(Slots) /\ None \notin Slots
    /\ MaxOpen \in Nat /\ MaxFaults \in Nat
    /\ ConnTicks \in Nat /\ LeaseTicks \in Nat /\ LeaseTicks > ConnTicks

Terminal == {"completed", "failed", "cancelled"}
Statuses == {"queued", "running"} \cup Terminal

VARIABLES
    job,        \* the job's status
    tab,        \* tab[c]: a client's stream and what it shows
    lease,      \* lease[t]: ticks left of a lease, 0: free or expired
    faults

vars == <<job, tab, lease, faults>>

Closed(shown) == [pc |-> "closed", age |-> 0, slot |-> None, prev |-> None, shown |-> shown]

Init ==
    /\ job = "queued"
    /\ tab = [c \in Clients |-> Closed("queued")]
    /\ lease = [t \in Slots |-> 0]
    /\ faults = 0

Fault == faults < MaxFaults /\ faults' = faults + 1
Held == {t \in Slots : lease[t] > 0}

(* update_job_status, api_cancel_job: an active job moves on or ends. *)
Work ==
    /\ job \notin Terminal
    /\ job' \in (IF job = "queued" THEN {"running"} ELSE {"completed", "failed"}) \cup {"cancelled"}
    /\ UNCHANGED <<tab, lease, faults>>

(* RedisConcurrentLeaseLimiter.acquire: expired leases go, then the count. *)
Acquirable(t) == t \notin Held /\ Cardinality(Held) < MaxOpen

\* Mutant: the lease is as long as the connection.
ShortLease == ConnTicks

(* expires_at *)
LeaseLength == LeaseTicks

(* api_stream_job, _acquire_job_stream_lease: a full limiter answers 429, an   *)
(* unreachable one 503, and the client tries again.                            *)
Admit(c) ==
    /\ tab[c].pc = "closed" /\ tab[c].shown \notin Terminal
    /\ \E t \in Slots :
        /\ Acquirable(t)
        /\ lease' = [lease EXCEPT ![t] = LeaseLength]
        /\ tab' = [tab EXCEPT ![c] = [@ EXCEPT !.pc = "admitted", !.slot = t]]
    /\ UNCHANGED <<job, faults>>

(* The generator starts; its deadline counts from here. *)
Start(c) ==
    /\ tab[c].pc = "admitted"
    /\ tab' = [tab EXCEPT ![c].pc = "open", ![c].age = 0]
    /\ UNCHANGED <<job, lease, faults>>

(* release_lease_in_background *)
Release(c) == IF tab[c].slot = None THEN lease ELSE [lease EXCEPT ![tab[c].slot] = 0]

(* _job_event_generator, one poll: a changed observation is sent; a terminal   *)
(* one ends the stream.                                                        *)
Poll(c) ==
    /\ tab[c].pc = "open" /\ tab[c].age < ConnTicks /\ job # tab[c].prev
    /\ IF job \in Terminal
         THEN tab' = [tab EXCEPT ![c] = Closed(job)] /\ lease' = Release(c)
         ELSE tab' = [tab EXCEPT ![c].prev = job, ![c].shown = job] /\ UNCHANGED lease
    /\ UNCHANGED <<job, faults>>

(* The deadline, or a poll cut off by it. *)
Deadline(c) ==
    /\ tab[c].pc = "open" /\ tab[c].age = ConnTicks
    /\ tab' = [tab EXCEPT ![c] = Closed(tab[c].shown)]
    /\ lease' = Release(c)
    /\ UNCHANGED <<job, faults>>

(* The client goes before the generator starts, or the release fails: the      *)
(* lease stays until it expires.                                               *)
Leak(c) ==
    /\ tab[c].pc # "closed" /\ Fault
    /\ tab' = [tab EXCEPT ![c] = Closed(tab[c].shown)]
    /\ UNCHANGED <<job, lease>>

(* A response starts within the slack, a stream ends at its deadline. *)
Tick ==
    /\ \A c \in Clients :
        /\ tab[c].pc = "open" => tab[c].age < ConnTicks
        /\ tab[c].pc = "admitted" => tab[c].age < LeaseTicks - ConnTicks - 1
    /\ tab' = [c \in Clients |-> IF tab[c].pc = "closed" THEN tab[c] ELSE [tab[c] EXCEPT !.age = @ + 1]]
    /\ lease' = [t \in Slots |-> IF lease[t] = 0 THEN 0 ELSE lease[t] - 1]
    /\ UNCHANGED <<job, faults>>

Next ==
    \/ Work \/ Tick
    \/ \E c \in Clients : Admit(c) \/ Start(c) \/ Poll(c) \/ Deadline(c) \/ Leak(c)

Spec == Init /\ [][Next]_vars

-----------------------------------------------------------------------------
(* No more streams are open than the limit allows: no lease ends before the    *)
(* stream it admitted, however late it started and whatever leases leak.       *)
StreamsWithinLimit == Cardinality({c \in Clients : tab[c].pc # "closed"}) <= MaxOpen

=============================================================================

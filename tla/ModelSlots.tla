------------------------------ MODULE ModelSlots ------------------------------
(* What the model cache of an ACE-Step worker promises its callers, whatever   *)
(* it does inside: the models that occupy the GPU never add up to more than    *)
(* the budget, and a model leaves only when no task uses it (or the process    *)
(* ends).  ModelCache.tla is the code; it is shown to implement this.          *)
EXTENDS Naturals, FiniteSetsExt

CONSTANTS
    Modes,      \* the model modes of MODEL_CONFIG_PATHS
    Sizes,      \* declared size of each mode, in GB
    Budget      \* settings.vram_budget_gb

VARIABLES
    resident,   \* the modes that occupy the GPU
    users       \* how many tasks use each mode

slots == <<resident, users>>

NoUsers == [m \in Modes |-> 0]

\* The declared sizes of some modes together.
Total(S) == MapThenSumSet(LAMBDA m : Sizes[m], S)

Init == resident = {} /\ users = NoUsers

(* A mode comes in only if it fits beside everything already there. *)
Enter(m) ==
    /\ m \notin resident
    /\ Total(resident \cup {m}) <= Budget
    /\ resident' = resident \cup {m}
    /\ UNCHANGED users

(* A mode goes only while nobody uses it. *)
Leave(m) ==
    /\ m \in resident /\ users[m] = 0
    /\ resident' = resident \ {m}
    /\ UNCHANGED users

Use(m) ==
    /\ m \in resident
    /\ users' = [users EXCEPT ![m] = @ + 1]
    /\ UNCHANGED resident

EndUse(m) ==
    /\ users[m] > 0
    /\ users' = [users EXCEPT ![m] = @ - 1]
    /\ resident' \in {resident} \cup {r \in {resident \ {m}} : users[m] = 1}

(* The process ends: nothing is resident, nobody uses anything. *)
Reset == resident' = {} /\ users' = NoUsers

Next == Reset \/ \E m \in Modes : Enter(m) \/ Leave(m) \/ Use(m) \/ EndUse(m)

Spec == Init /\ [][Next]_slots
=============================================================================

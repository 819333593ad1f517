---------------------------- MODULE TakePromise ----------------------------
(* What dispatch_generation_on_worker promises to the job that awaits a take,  *)
(* whatever happens to the task, its stream and its result file: it ends once, *)
(* with the whole take in a file of its own or with nothing, and what it       *)
(* brought is not touched again.  TakeDelivery.tla is the code; it is shown to *)
(* implement this.                                                             *)

CONSTANT Takes      \* takes that are dispatched

VARIABLES
    outcome,    \* outcome[t]: "open", "take" or "nothing"
    copy        \* copy[t]: what the music worker has of it: "none", "part", "whole"

promise == <<outcome, copy>>

Init ==
    /\ outcome = [t \in Takes |-> "open"]
    /\ copy = [t \in Takes |-> "none"]

(* The file is created, and filled to its end. *)
Grow(t) ==
    /\ outcome[t] = "open"
    /\ \/ copy[t] = "none" /\ copy' = [copy EXCEPT ![t] = "part"]
       \/ copy[t] = "part" /\ copy' = [copy EXCEPT ![t] = "whole"]
    /\ UNCHANGED outcome

(* Only a whole take is brought. *)
Bring(t) ==
    /\ outcome[t] = "open" /\ copy[t] = "whole"
    /\ outcome' = [outcome EXCEPT ![t] = "take"]
    /\ UNCHANGED copy

(* Any failure leaves no file. *)
GiveUp(t) ==
    /\ outcome[t] = "open"
    /\ outcome' = [outcome EXCEPT ![t] = "nothing"]
    /\ copy' = [copy EXCEPT ![t] = "none"]

Next == \E t \in Takes : Grow(t) \/ Bring(t) \/ GiveUp(t)

Spec == Init /\ [][Next]_promise
=============================================================================

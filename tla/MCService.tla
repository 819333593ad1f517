---- MODULE MCService ----
(* Seven parts of the service that share no state, checked side by side (a     *)
(* behaviour works on one of them): the ledger of resource events, the built   *)
(* streams of queues, a library pool's queue, the streams of a job's status,   *)
(* the sessions, the mirrored logins of the agent CLIs and the secrets of the  *)
(* stack.                                                                      *)
EXTENDS Naturals, Sequences, FiniteSets, TLC

CONSTANTS Writers, MaxSeq, PageSize, MaxDrops,
          Clients, Slots, MaxOpen, ConnTicks, LeaseTicks, MaxTabFaults,
          Users, MaxSessions, MaxRows,
          Clis, Strict, Shapes, MaxRenewals, MaxCells,
          Builders, Snaps, Takes, Quota, MaxEdits,
          NumTakes, ScanLimit, PlayableLimit,
          Requests, Runs, Values, MaxLines, MaxEnvEdits, MaxFresh,
          None, Refused, Blank, Public, Empty

VARIABLES part,
          mark, rows, appended, alloc, conn, wire, lastId, known, drops,
          offer, edits, tmp, audio, manifest, age, newer, gone, used, task, lockOf, entry,
          lib, ask, answer,
          followed, tab, lease, tabFaults,
          group, role, row, sessionRows, call,
          source, target, run, flock, fresh,
          env, file, copy, setter, grafana, made, envEdits

E == INSTANCE ResourceEvents
Q == INSTANCE QueueStreams
P == INSTANCE PoolQueue
T == INSTANCE JobStreams WITH MaxFaults <- MaxTabFaults, job <- followed, faults <- tabFaults
A == INSTANCE Sessions WITH made <- sessionRows, req <- call
C == INSTANCE CredentialMirror WITH lock <- flock
K == INSTANCE StackSecrets WITH Copies <- Runs, MaxEdits <- MaxEnvEdits, edits <- envEdits

(* What the proofs assume of the constants holds here. *)
ASSUME PartConstants ==
    /\ T!StreamConstants /\ E!EventConstants /\ P!PoolConstants /\ Q!QueueConstants /\ C!MirrorConstants /\ K!SecretConstants
    /\ MaxRows \in Nat

(* The CLIs in the order of the script, and the fields their logins may have. *)
MCClis == <<"claude", "grok">>
MCShapes == {None, {"needed", "renewal", "person"}, {"needed", "renewal", "unseen"}, {"renewal"}}

Sym == Permutations(Snaps) \cup Permutations(Runs)

eventVars == <<mark, rows, appended, alloc, conn, wire, lastId, known, drops>>
queueVars == <<offer, edits, tmp, audio, manifest, age, newer, gone, used, task, lockOf, entry>>
poolVars == <<lib, ask, answer>>
tabVars == <<followed, tab, lease, tabFaults>>
sessionVars == <<group, role, row, sessionRows, call>>
mirrorVars == <<source, target, run, flock, fresh>>
secretVars == <<env, file, copy, setter, grafana, made, envEdits>>
vars == <<part, eventVars, queueVars, poolVars, tabVars, sessionVars, mirrorVars,
          secretVars>>

(* A part's choices of an initial state are made only where it runs. *)
Init ==
    /\ part \in {"events", "queues", "pool", "tabs", "sessions", "mirror", "secrets"}
    /\ P!Init
    /\ part # "pool" => /\ \A t \in DOMAIN lib : lib[t] = [mark |-> "plain", readable |-> TRUE]
                        /\ ask = [pool |-> "all", start |-> None, shuffle |-> FALSE]
    /\ K!Init /\ (part # "secrets" => env = <<>>)
    /\ A!Init /\ (part # "sessions" => \A u \in DOMAIN group : group[u] = "login")
    /\ E!Init /\ Q!Init /\ T!Init /\ C!Init

Next ==
    \/ part = "events" /\ E!Next
       /\ UNCHANGED <<part, queueVars, poolVars, tabVars, sessionVars,
                      mirrorVars, secretVars>>
    \/ part = "queues" /\ Q!Next
       /\ UNCHANGED <<part, eventVars, poolVars, tabVars, sessionVars,
                      mirrorVars, secretVars>>
    \/ part = "pool" /\ P!Next
       /\ UNCHANGED <<part, eventVars, queueVars, tabVars, sessionVars,
                      mirrorVars, secretVars>>
    \/ part = "tabs" /\ T!Next
       /\ UNCHANGED <<part, eventVars, queueVars, poolVars, sessionVars,
                      mirrorVars, secretVars>>
    \/ part = "sessions" /\ A!Next
       /\ UNCHANGED <<part, eventVars, queueVars, poolVars, tabVars,
                      mirrorVars, secretVars>>
    \/ part = "mirror" /\ C!Next
       /\ UNCHANGED <<part, eventVars, queueVars, poolVars, tabVars,
                      sessionVars, secretVars>>
    \/ part = "secrets" /\ K!Next
       /\ UNCHANGED <<part, eventVars, queueVars, poolVars, tabVars,
                      sessionVars, mirrorVars>>

Spec == Init /\ [][Next]_vars

-----------------------------------------------------------------------------
(* A client that read up to an id knows every event up to it (ResourceEvents). *)
NoEventMissed == E!NoEventMissed
(* A built stream is kept whole, once, and served only while the page still    *)
(* offers its takes (QueueStreams).                                            *)
StreamsAreTrue == Q!ManifestHasAudio /\ Q!OneStreamPerQueue /\ Q!ServedIsOffered
(* A pool's queue leaves out no take without saying so (PoolQueue). *)
PoolIsWhole == P!PoolIsWhole
(* No more streams of jobs are open than allowed (JobStreams). *)
StreamsWithinLimit == T!StreamsWithinLimit
(* A deleted session never comes back (Sessions). *)
RevokedStaysRevoked == A!RevokedStaysRevoked
(* A mirrored login is whole, current and without its renewal secret           *)
(* (CredentialMirror).                                                         *)
MirrorIsTrue == C!NothingLeaks /\ C!MirrorIsFresh
(* A copied secret is not overwritten and passes the verification; Grafana has *)
(* the password .env names (StackSecrets).                                     *)
SecretsStand == []K!PasswordIsSet /\ K!SecretIsKept
====

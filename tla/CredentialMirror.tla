-------------------------- MODULE CredentialMirror --------------------------
(* The copies of the agent CLIs' logins that the containers read               *)
(* (scripts/mirror_agent_cli_credentials.py): runs of the script, started by   *)
(* systemd or by the operator, write in place what a container may hold, while *)
(* the CLIs renew their logins and a run may be killed between two writes.     *)
(* A file is a sequence of cells, the unit one write() certainly takes.        *)
EXTENDS Naturals, Sequences, FiniteSetsExt

CONSTANTS
    Clis,           \* the CLIs in the order mirror() takes them, a sequence
    Strict,         \* those whose whole document is carried (grok, codex)
    Runs,           \* runs of the script
    Shapes,         \* field sets a login may have; None: signed out, Blank: no login document
    MaxRenewals,    \* bound on new logins
    MaxCells,       \* most cells a document takes
    None, Blank

Names == {Clis[i] : i \in DOMAIN Clis}

VARIABLES
    source,     \* source[c]: the login: its version, its size and its fields, of which the
                \* redaction tells apart "needed", "renewal", "person" and "unseen"
    target,     \* target[c]: the cells of the copy, None before the first run
    run,        \* run[r]: place of a run, its CLI, what it still writes, how it ends
    lock,       \* holder of the flock
    fresh       \* fresh[c]: the version the newest successful run started from

vars == <<source, target, run, lock, fresh>>

(* The fields a redaction tells apart, and what a copy may keep of them. *)
Fields == {"needed", "renewal", "person", "unseen"}

NoRun == [pc |-> "idle", cli |-> 1, todo |-> <<>>, at |-> 0, since |-> <<>>, failed |-> FALSE]

(* A document of n cells; each cell tells the version and which fields it has. *)
Cell == [version : Nat, has : SUBSET Fields, cell : Nat, of : Nat]
Cells(v, has, n) == [i \in 1..n |-> [version |-> v, has |-> has, cell |-> i, of |-> n]]

(* What the copies need of the constants: the script takes each CLI once; a    *)
(* login has fields or is one of the two others; None and Blank are no data.   *)
MirrorConstants ==
    /\ Clis \in Seq(Names) \ {<<>>}
    /\ \A i, j \in DOMAIN Clis : Clis[i] = Clis[j] => i = j
    /\ MaxCells \in Nat
    /\ \A has \in Shapes : has \in {None, Blank} \/ has \subseteq Fields
    /\ None \notin Runs /\ None \notin Nat /\ None \notin Seq(Cell \cup {Blank})
    /\ Blank \notin Cell /\ \A has \in SUBSET Fields : has # Blank

Init ==
    /\ source = [c \in Names |-> [version |-> 0, has |-> None, size |-> 1]]
    /\ target = [c \in Names |-> None]
    /\ run = [r \in Runs |-> NoRun]
    /\ lock = None
    /\ fresh = [c \in Names |-> None]

-----------------------------------------------------------------------------
(* What may leave the host.  Blank stands for MirrorError.                     *)

\* Mutant: a field nobody has measured is carried along.
CarriesUnseen(has) == FALSE

(* _reject_unknown *)
RejectUnknown(has) == "unseen" \in has

(* _redact_grok, _redact_codex: required fields there, nothing unknown, the    *)
(* renewal token blanked, the person dropped.                                  *)
RedactStrict(has) ==
    IF RejectUnknown(has) \/ ~({"needed", "renewal"} \subseteq has) THEN Blank
    ELSE has \ {"renewal", "person"}

(* _redact_claude: an allowlist. *)
RedactAllowed(has) == IF "needed" \in has THEN {"needed"} ELSE Blank

(* mirror_one up to the write: no login is a signed-out document; one that is  *)
(* no JSON object, fails a safety check or cannot be redacted is an error.     *)
Redact(c, has) ==
    IF has = None THEN {} ELSE IF has = Blank THEN Blank
    ELSE IF c \in Strict THEN RedactStrict(has) ELSE RedactAllowed(has)

-----------------------------------------------------------------------------
(* A run.                                                                      *)

Cli(r) == Clis[run[r].cli]

(* mirror: the next CLI, or the end. *)
Advance(r, failed) ==
    [run[r] EXCEPT !.cli = @ + 1, !.todo = <<>>, !.at = 0, !.failed = @ \/ failed,
                   !.pc = IF run[r].cli = Len(Clis) THEN "end" ELSE "read"]

(* main: the directory and the lock file are there. *)
Start(r) ==
    /\ run[r].pc = "idle"
    /\ run' = [run EXCEPT ![r].pc = "lock", ![r].since = [c \in Names |-> source[c].version]]
    /\ UNCHANGED <<source, target, lock, fresh>>

\* Mutant: runs do not wait for each other.
NoFlock(r) == UNCHANGED lock

(* _take_lock *)
TakeLock(r) == lock = None /\ lock' = r

Locked(r) ==
    /\ run[r].pc = "lock" /\ TakeLock(r)
    /\ run' = [run EXCEPT ![r].pc = "read"]
    /\ UNCHANGED <<source, target, fresh>>

(* LOCK_WAIT_SECONDS went by. *)
LockTimeout(r) ==
    /\ run[r].pc = "lock" /\ lock \notin {None, r}
    /\ run' = [run EXCEPT ![r].pc = "over", ![r].failed = TRUE]
    /\ UNCHANGED <<source, target, lock, fresh>>

(* read_source: one open file, whatever replaces it meanwhile; a login that    *)
(* cannot be published leaves the copy as it was.                              *)
ReadSource(r) ==
    LET c == Cli(r)
        s == source[c]
        out == Redact(c, s.has)
    IN /\ run[r].pc = "read"
       /\ run' = [run EXCEPT ![r] =
             IF out = Blank THEN Advance(r, TRUE)
             ELSE [@ EXCEPT !.pc = "open", !.todo = Cells(s.version, out, IF out = {} THEN 1 ELSE s.size)]]
       /\ UNCHANGED <<source, target, lock, fresh>>

\* Mutant: shorter content is not padded.
NotPadded(cells, size) == cells

(* write_in_place: payload.ljust(st_size) *)
Padded(cells, size) == cells \o [i \in 1..(size - Len(cells)) |-> Blank]

(* write_in_place: the file is created empty or opened as it is. *)
OpenTarget(r) ==
    LET c == Cli(r)
        old == IF target[c] = None THEN <<>> ELSE target[c]
    IN /\ run[r].pc = "open"
       /\ target' = [target EXCEPT ![c] = old]
       /\ run' = [run EXCEPT ![r].pc = "write", ![r].at = 1, ![r].todo = Padded(@, Len(old))]
       /\ UNCHANGED <<source, lock, fresh>>

Put(s, i, x) == IF i <= Len(s) THEN [s EXCEPT ![i] = x] ELSE Append(s, x)

(* _write_all: one pwrite, short or not, is some of these steps. *)
WriteAll(r) ==
    LET c == Cli(r) IN
    /\ run[r].pc = "write" /\ run[r].at <= Len(run[r].todo)
    /\ target' = [target EXCEPT ![c] = Put(@, run[r].at, run[r].todo[run[r].at])]
    /\ run' = [run EXCEPT ![r].at = @ + 1]
    /\ UNCHANGED <<source, lock, fresh>>

(* _verify: the file is read back through the same descriptor. *)
VerifyWritten(r) ==
    /\ run[r].pc = "write" /\ run[r].at > Len(run[r].todo)
    /\ run' = [run EXCEPT ![r] = Advance(r, target[Cli(r)] # run[r].todo)]
    /\ UNCHANGED <<source, target, lock, fresh>>

(* A copy left half written by run r; the next run writes it anew. *)
Torn(r) == [c \in Names |-> IF run[r].pc = "write" /\ c = Cli(r) THEN None ELSE fresh[c]]

(* The disk refuses a write: the run goes on with the next CLI. *)
WriteFails(r) ==
    /\ run[r].pc = "write" /\ run[r].at <= Len(run[r].todo)
    /\ run' = [run EXCEPT ![r] = Advance(r, TRUE)]
    /\ fresh' = Torn(r)
    /\ UNCHANGED <<source, target, lock>>

(* main: the exit code, and the lock goes with its descriptor. *)
Finish(r) ==
    /\ run[r].pc = "end"
    /\ run' = [run EXCEPT ![r].pc = "over"]
    /\ lock' = IF lock = r THEN None ELSE lock
    /\ fresh' = IF run[r].failed THEN fresh
                ELSE [c \in Names |-> Max({run[r].since[c]} \cup ({fresh[c]} \ {None}))]
    /\ UNCHANGED <<source, target>>

Kill(r) ==
    /\ run[r].pc \notin {"idle", "over"}
    /\ run' = [run EXCEPT ![r].pc = "over", ![r].failed = TRUE]
    /\ lock' = IF lock = r THEN None ELSE lock
    /\ fresh' = Torn(r)
    /\ UNCHANGED <<source, target>>

-----------------------------------------------------------------------------
(* A CLI renews its login, signs out or leaves something else; its file is     *)
(* replaced by a rename.                                                       *)
Renew(c) ==
    /\ MapThenSumSet(LAMBDA d : source[d].version, Names) < MaxRenewals
    /\ \E has \in Shapes, n \in 1..MaxCells :
        source' = [source EXCEPT ![c] = [version |-> @.version + 1, has |-> has, size |-> n]]
    /\ UNCHANGED <<target, run, lock, fresh>>

Next ==
    \/ \E r \in Runs :
        \/ Start(r) \/ Locked(r) \/ LockTimeout(r) \/ ReadSource(r) \/ OpenTarget(r)
        \/ WriteAll(r) \/ VerifyWritten(r) \/ WriteFails(r) \/ Finish(r) \/ Kill(r)
    \/ \E c \in Names : Renew(c)

-----------------------------------------------------------------------------
Written(c) == IF target[c] = None THEN {} ELSE {target[c][i] : i \in DOMAIN target[c]} \ {Blank}

(* verify_mirror_file: one whole document and nothing behind it, without a     *)
(* renewal token.                                                              *)
Mountable(c) ==
    /\ target[c] # None /\ Written(c) # {}
    /\ \A x \in Written(c) : "renewal" \notin x.has
    /\ \E x \in Written(c) : target[c] = Padded(Cells(x.version, x.has, x.of), Len(target[c]))

(* No byte of a renewal token, of the person or of a field nobody has seen     *)
(* before is ever in a copy, not even in a half written one; and what is there *)
(* can drive its CLI or says that nobody is signed in (_redact_claude,         *)
(* _redact_grok, _reject_unknown, _require_present).                           *)
NothingLeaks == \A c \in Names : \A x \in Written(c) : x.has \in {{}, {"needed"}}

(* After a run that reported success each copy is one whole document, at least *)
(* as new as the login when that run was started, until a later run is at work *)
(* on it or was killed there: no older run ever writes its login back          *)
(* (_take_lock, write_in_place).                                               *)
MirrorIsFresh ==
    \A c \in Names : fresh[c] # None /\ (\A r \in Runs : run[r].pc = "write" => Cli(r) # c) =>
        Mountable(c) /\ \A x \in Written(c) : x.version >= fresh[c]
=============================================================================

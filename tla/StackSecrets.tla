---------------------------- MODULE StackSecrets ----------------------------
(* The stack's secrets on the operator's machine: the reader of .env           *)
(* (scripts/dotenv_file.py), the command that copies secrets from it into      *)
(* files (scripts/secret_files.py) and the one that gives Grafana a password   *)
(* nobody has to know (scripts/grafana_password.py).  Copies may run at the    *)
(* same time; a command may die between any two steps; the operator edits      *)
(* .env, though not while the password command is between reading and          *)
(* rewriting it, which takes the edit back.                                    *)
EXTENDS Naturals, Sequences, FiniteSets, FiniteSetsExt

CONSTANTS
    Copies,         \* runs of the copy command
    Values,         \* values the operator gives a secret
    MaxLines,       \* bound on the lines of .env
    MaxEdits,       \* bound on edits
    MaxFresh,       \* bound on generated passwords
    Public,         \* a publicly known password
    Empty,          \* the empty value
    None, Refused

Secret == "secret"          \* a key of TABLE that is not optional
Password == "password"      \* GRAFANA_PASSWORD

(* A line of .env: a key, how its value is written and the value.  "bare"      *)
(* stands for every form the reader understands, "open" for an unclosed quote  *)
(* and "other" for escapes, interpolation, text behind a quote and a value     *)
(* that differs from the exported one, which the commands refuse.              *)
Lines == [key : {Secret}, form : {"bare"}, value : Values \cup {Empty}]
    \cup [key : {Secret}, form : {"open", "other"}, value : {Empty}]
    \cup [key : {Password}, form : {"bare", "other"}, value : {Public}]

VARIABLES
    env,        \* the lines of .env
    file,       \* the secret's file: None or its content
    copy,       \* copy[r]: a run of the copy command
    setter,     \* the run of the password command
    grafana,    \* the password Grafana accepts
    made,       \* passwords generated so far
    edits

vars == <<env, file, copy, setter, grafana, made, edits>>

(* A generated password is none of the public ones. *)
SecretConstants == MaxLines \in Nat /\ MaxFresh \in Nat /\ None \notin Nat /\ Empty \notin Nat /\ Public \notin Nat

Init ==
    /\ env \in UNION {[1..n -> Lines] : n \in 0..MaxLines}
    /\ file = None
    /\ copy = [r \in Copies |-> [pc |-> "idle", value |-> None, read |-> <<>>]]
    /\ setter = [pc |-> "idle", value |-> None, read |-> <<>>]
    /\ grafana = Public
    /\ made = 0 /\ edits = 0

-----------------------------------------------------------------------------
(* dotenv_file.py                                                              *)

Of(text, key) == {i \in DOMAIN text : text[i].key = key}

(* effective_assignment: the last assignment wins; an unclosed quote refuses   *)
(* even a shadowed one.                                                        *)
EffectiveAssignment(text, key) ==
    IF Of(text, key) = {} THEN [line |-> 0, value |-> None]
    ELSE LET i == Max(Of(text, key)) IN
         IF \/ \E j \in Of(text, key) : text[j].form = "open"
            \/ text[i].form # "bare"
         THEN [line |-> i, value |-> Refused]
         ELSE [line |-> i, value |-> text[i].value]

-----------------------------------------------------------------------------
(* secret_files.py: copy                                                       *)

CopyRun(pc, value, read) == [pc |-> pc, value |-> value, read |-> read]
CopyEnds(r, how) == copy' = [copy EXCEPT ![r] = CopyRun(how, None, <<>>)]

(* _plan_copies: every refusal comes before any write. *)
PlanCopies(r) ==
    /\ copy[r].pc = "idle"
    /\ \E v \in {EffectiveAssignment(env, Secret).value} :
        IF v = None THEN CopyEnds(r, "skipped")
        ELSE IF v \in {Refused, Empty} \/ file \notin {None, v} THEN CopyEnds(r, "refused")
        ELSE IF file = v THEN CopyEnds(r, "done")
        ELSE copy' = [copy EXCEPT ![r] = CopyRun("publish", v, env)]
    /\ UNCHANGED <<env, file, setter, grafana, made, edits>>

\* Mutant: the finished temporary file replaces what is there.
LinkReplaces(v) == file' = v

(* _publish: os.link of a finished temporary file. *)
Link(v) == file' = IF file = None THEN v ELSE file

Publish(r) ==
    /\ copy[r].pc = "publish"
    /\ Link(copy[r].value)
    /\ CopyEnds(r, IF file \in {None, copy[r].value} THEN "done" ELSE "refused")
    /\ UNCHANGED <<env, setter, grafana, made, edits>>

(* A run dies; its temporary file is nobody's. *)
CopyDies(r) ==
    /\ copy[r].pc = "publish"
    /\ CopyEnds(r, "dead")
    /\ UNCHANGED <<env, file, setter, grafana, made, edits>>

(* verify, _judge: the verdict on the file compose declares. *)
Judged(text, content) ==
    LET v == EffectiveAssignment(text, Secret).value IN
    /\ v # Refused
    /\ content \notin {None, Empty}
    /\ v # None => content = v

-----------------------------------------------------------------------------
(* grafana_password.py                                                         *)

(* _is_publicly_known *)
PubliclyKnown(v) == v \in {None, Empty, Public}

\* Mutant: the key's first line is replaced.
WithFirstReplaced(text, v) ==
    IF Of(text, Password) = {} THEN Append(text, [key |-> Password, form |-> "bare", value |-> v])
    ELSE [text EXCEPT ![Min(Of(text, Password))] = [key |-> Password, form |-> "bare", value |-> v]]

(* _with_password: the effective line is replaced, or one appended. *)
WithPassword(text, v) ==
    LET i == EffectiveAssignment(text, Password).line IN
    IF i = 0 THEN Append(text, [key |-> Password, form |-> "bare", value |-> v])
    ELSE [text EXCEPT ![i] = [key |-> Password, form |-> "bare", value |-> v]]

(* main: .env is read; a password outside the reader's subset is refused. *)
ReadEnv ==
    /\ setter.pc = "idle"
    /\ \E v \in {EffectiveAssignment(env, Password).value} :
        setter' = [pc |-> IF v = Refused THEN "failed"
                          ELSE IF PubliclyKnown(v) THEN "rewrite" ELSE "apply",
                   value |-> v, read |-> env]
    /\ UNCHANGED <<env, file, copy, grafana, made, edits>>

(* _password_to_apply: a fresh value, and .env swapped for a new file. *)
WriteEnvFile ==
    /\ setter.pc = "rewrite" /\ made < MaxFresh
    /\ made' = made + 1
    /\ env' = WithPassword(setter.read, made + 1)
    /\ setter' = [setter EXCEPT !.pc = "apply", !.value = made + 1]
    /\ UNCHANGED <<file, copy, grafana, edits>>

(* _apply_to_grafana: confirmed, with or without effect, or not confirmed. *)
ApplyToGrafana ==
    /\ setter.pc = "apply"
    /\ \/ /\ grafana' \in {grafana, setter.value}
          /\ setter' = [setter EXCEPT !.pc = "prove"]
       \/ /\ grafana' \in {grafana, setter.value}
          /\ setter' = [setter EXCEPT !.pc = "failed"]
    /\ UNCHANGED <<env, file, copy, made, edits>>

\* Mutant: what Grafana says is believed.
Believed == TRUE

(* _prove_grafana_accepts: a login with the value. *)
Accepted == grafana = setter.value

(* "set" or "already set" *)
ProveGrafanaAccepts ==
    /\ setter.pc = "prove"
    /\ setter' = [setter EXCEPT !.pc = IF Accepted THEN "set" ELSE "failed"]
    /\ UNCHANGED <<env, file, copy, grafana, made, edits>>

SetterDies ==
    /\ setter.pc \in {"rewrite", "apply", "prove"}
    /\ setter' = [setter EXCEPT !.pc = "failed"]
    /\ UNCHANGED <<env, file, copy, grafana, made, edits>>

(* The operator runs the command again. *)
SetterAgain ==
    /\ setter.pc \in {"failed", "set"} /\ made < MaxFresh
    /\ setter' = [pc |-> "idle", value |-> None, read |-> <<>>]
    /\ UNCHANGED <<env, file, copy, grafana, made, edits>>

-----------------------------------------------------------------------------
(* The operator changes or adds a line. *)
Edit ==
    /\ edits < MaxEdits /\ edits' = edits + 1
    /\ setter.pc \notin {"rewrite", "apply", "prove", "set"}
    /\ \/ \E i \in DOMAIN env, l \in Lines : env' = [env EXCEPT ![i] = l]
       \/ Len(env) < MaxLines /\ \E l \in Lines : env' = Append(env, l)
    /\ UNCHANGED <<file, copy, setter, grafana, made>>

Next ==
    \/ \E r \in Copies : PlanCopies(r) \/ Publish(r) \/ CopyDies(r)
    \/ ReadEnv \/ WriteEnvFile \/ ApplyToGrafana \/ ProveGrafanaAccepts \/ SetterDies \/ SetterAgain
    \/ Edit

-----------------------------------------------------------------------------
(* A copied secret is never overwritten, by another copy at the same time or   *)
(* after an edit of .env; and a copy that ends without a refusal leaves a file *)
(* the verification before a deploy accepts for the .env it read (_publish,    *)
(* _judge).                                                                    *)
SecretIsKept ==
    [][/\ file # None => file' = file
       /\ \A r \in Copies : (copy[r].pc # "done" /\ copy'[r].pc = "done")
            => Judged(IF copy[r].pc = "publish" THEN copy[r].read ELSE env, file')]_vars

(* When the command says the password is set, .env and Grafana hold the same   *)
(* one and it is not publicly known; and writing it changed what no other key  *)
(* means (_with_password, _prove_grafana_accepts).                             *)
PasswordIsSet ==
    setter.pc = "set" =>
        LET now == EffectiveAssignment(env, Password).value IN
        /\ now = grafana /\ ~PubliclyKnown(now)
        /\ EffectiveAssignment(env, Secret).value = EffectiveAssignment(setter.read, Secret).value
=============================================================================

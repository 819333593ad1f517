---------------------------- MODULE Conversation ----------------------------
(***************************************************************************)
(* The co-writer's turns of one person (conversation_api.py and            *)
(* cowriter/history.py).  A turn is admitted by a chat job, reads and      *)
(* compacts the history of the active conversation, stores the person's    *)
(* message and then runs as a task of the web process, whether or not      *)
(* anybody listens, until the agent answers or does not.  Meanwhile the    *)
(* person may open a new conversation, delete one, cancel the job or purge *)
(* a song whose messages go with it, the reaper may fail a job whose       *)
(* heartbeat stopped, and the web process may die and start again.         *)
(*                                                                         *)
(* api_chat_turn is a coroutine that prepares a turn without awaiting, so  *)
(* no other turn is prepared or completed in between ("loop"); the other   *)
(* endpoints run in threads and interleave with it.  A summary is modelled *)
(* by the messages it tells of, in order; its cut at                       *)
(* COWRITER_MAX_SUMMARY_CHARS is left out.                                 *)
(***************************************************************************)
EXTENDS Integers, Sequences, SequencesExt, FiniteSets, FiniteSetsExt, Selection

CONSTANTS
    NTurns,         \* requests to api_chat_turn, numbered in the order they are served
    Texts,          \* what the person may write
    Songs,          \* songs a turn may be about
    Budgets,        \* values the tail budget setting takes
    None,           \* no song, no turn, no summary
    MaxConversations,   \* conversations the person may open before their turns open more
    MaxFaults       \* crashes and lost heartbeats

VARIABLES
    conv,       \* conversation rows, by the order they were created in
    made,       \* number of conversations created so far
    written,    \* number of messages written so far
    song,       \* live, trashed or purged
    budget,     \* the tail budget setting
    job,        \* each turn's chat job: running, or over however it ended
    turn,       \* where each turn is and what it prepared
    loop,       \* the turn being prepared on the event loop, or None
    up,         \* whether the web process runs
    faults

vars == <<conv, made, written, song, budget, job, turn, loop, up, faults>>

Turns == 1..NTurns
ConvIds == 1..(MaxConversations + NTurns)
NoConv == [st |-> "none", msgs |-> << >>, summary |-> None, boundary |-> 0, torn |-> FALSE]
NoTurn == [pc |-> "idle", text |-> None, about |-> None, conv |-> 0, msg |-> 0,
           summary |-> << >>, tail |-> << >>, told |-> << >>, torn |-> FALSE]

Ids(ms) == [i \in DOMAIN ms |-> ms[i].id]
HasMessage(c, m) == \E i \in DOMAIN conv[c].msgs : conv[c].msgs[i].id = m

(* What the conversation assumes of its constants. *)
ChatConstants ==
    /\ NTurns \in Nat /\ MaxConversations \in Nat /\ Budgets \subseteq Int
    /\ None \notin Turns \cup Songs \cup Texts \cup Seq(Nat)

Init ==
    /\ conv = [c \in ConvIds |-> NoConv]
    /\ made = 0
    /\ written = 0
    /\ song = [s \in Songs |-> "live"]
    /\ budget \in Budgets
    /\ job = [t \in Turns |-> "none"]
    /\ turn = [t \in Turns |-> NoTurn]
    /\ loop = None
    /\ up = TRUE
    /\ faults = 0

-----------------------------------------------------------------------------
(* Compaction of a history.                                                *)

(* count_tokens, with one token for each message. *)
Cost(ms) == Len(ms)

(* _newest_fitting_tail: the newest message whatever it costs, and as many before it as fit. *)
NewestFittingTail(ms, b) ==
    IF ms = << >> THEN << >>
    ELSE LET n == Max({k \in 1..Len(ms) :
                         k = 1 \/ Cost(SubSeq(ms, Len(ms) - k + 1, Len(ms))) <= b}) IN
         SubSeq(ms, Len(ms) - n + 1, Len(ms))

(* _unsummarized_messages: what follows the boundary, or everything when it is not found. *)
Unsummarized(ms, boundary) ==
    LET at == {i \in DOMAIN ms : ms[i] = boundary} IN
    IF at = {} THEN [boundary |-> 0, rest |-> ms]
    ELSE [boundary |-> boundary, rest |-> SubSeq(ms, Max(at) + 1, Len(ms))]

(* Mutant: the boundary is the newest folded message only when a summary existed. *)
CompactWithOldBoundary(ms, b, old, boundary) ==
    IF Cost(ms) <= b
    THEN [summary |-> None, tail |-> ms, boundary |-> boundary, windowed |-> FALSE]
    ELSE LET u    == Unsummarized(ms, boundary)
             tail == NewestFittingTail(u.rest, b)
             fold == SubSeq(u.rest, 1, Len(u.rest) - Len(tail))
             prev == IF old = None THEN << >> ELSE old
         IN  [summary |-> prev \o fold, tail |-> tail, boundary |-> u.boundary,
              windowed |-> TRUE]

(* compact_conversation with fold_summary: verbatim within the budget; over it the older
   messages that no summary tells of are folded into the rolling summary. *)
CompactConversation(ms, b, old, boundary) ==
    IF Cost(ms) <= b
    THEN [summary |-> None, tail |-> ms, boundary |-> boundary, windowed |-> FALSE]
    ELSE LET u    == Unsummarized(ms, boundary)
             tail == NewestFittingTail(u.rest, b)
             fold == SubSeq(u.rest, 1, Len(u.rest) - Len(tail))
             prev == IF old = None THEN << >> ELSE old
         IN  [summary |-> prev \o fold, tail |-> tail, windowed |-> TRUE,
              boundary |-> IF fold = << >> THEN u.boundary ELSE Last(fold)]

-----------------------------------------------------------------------------
(* Starting a turn.                                                        *)

Running == {t \in Turns : job[t] = "running"}
FailJob(t) == [job EXCEPT ![t] = "over"]

(* _chat_turn_context: the open song and every mentioned one must be found. *)
ContextFound(about, mentions) ==
    \A s \in ({about} \cup mentions) \ {None} : song[s] = "live"

(* _refuse_while_another_turn_runs, under the lock of create_job_with_rate_limit. *)
AnotherTurnRuns == Running # {}

(* api_chat_turn up to the commit that makes the job run. *)
Send(t) ==
    /\ up /\ loop = None
    /\ turn[t].pc = "idle" /\ (t > 1 => turn[t - 1].pc # "idle")
    /\ \E text \in Texts, about \in Songs \cup {None}, mentions \in SUBSET Songs :
        /\ ContextFound(about, mentions)
        /\ ~AnotherTurnRuns
        /\ turn' = [turn EXCEPT ![t].pc = "admitted", ![t].text = text, ![t].about = about]
    /\ job' = [job EXCEPT ![t] = "running"]
    /\ loop' = t
    /\ UNCHANGED <<conv, made, written, song, budget, up, faults>>

Active == {c \in ConvIds : conv[c].st = "active"}

(* Mutant: an unanswered message is never found again. *)
NeverSentAgain(ms, text) == 0

(* _unanswered_message_sent_again: the last message of the history, or 0. *)
UnansweredMessageSentAgain(ms, text) ==
    IF ms # << >> /\ Last(ms).role = "user" /\ Last(ms).text = text THEN Last(ms).id ELSE 0

(* _prepare_chat_messages: get or create the active conversation, read and compact its
   history; a new summary is committed at once.  A conversation created here is seen by
   nobody before the message is committed. *)
PrepareHistory(t) ==
    /\ loop = t
    /\ turn[t].pc = "admitted"
    /\ \E c \in {IF Active = {} THEN made + 1 ELSE Max(Active)} :
       \E again \in {UnansweredMessageSentAgain(conv[c].msgs, turn[t].text)} :
       \E hist \in {Ids(IF again = 0 THEN conv[c].msgs ELSE Front(conv[c].msgs))} :
       \E out \in {CompactConversation(hist, budget, conv[c].summary, conv[c].boundary)} :
           /\ made' = IF Active = {} THEN made + 1 ELSE made
           /\ turn' = [turn EXCEPT ![t].pc = "prepared", ![t].conv = c, ![t].msg = again,
                                   ![t].summary = IF out.summary = None THEN << >>
                                                  ELSE out.summary,
                                   ![t].tail = out.tail, ![t].told = hist,
                                   ![t].torn = conv[c].torn]
           /\ conv' = IF out.windowed
                      THEN [conv EXCEPT ![c].summary = out.summary,
                                        ![c].boundary = out.boundary]
                      ELSE conv
    /\ UNCHANGED <<written, song, budget, job, loop, up, faults>>

(* A conversation the turn did not find was created by it. *)
Created(t) == conv[turn[t].conv].st = "none"
ConvGone(t) == conv[turn[t].conv].st = "deleted"
SongGone(t) == turn[t].about # None /\ song[turn[t].about] = "purged"

(* What the running turn still uses: its conversation, its song and the message it answers. *)
Started(t, m) ==
    [turn EXCEPT ![t] = [NoTurn EXCEPT !.pc = "running", !.conv = turn[t].conv,
                                       !.about = turn[t].about, !.msg = m]]

(* The message is stored and the turn starts as a task of its own (_start_chat_turn). *)
StoreMessage(t) ==
    /\ loop = t
    /\ turn[t].pc = "prepared"
    /\ turn[t].msg = 0 /\ ~ConvGone(t) /\ ~SongGone(t)
    /\ written' = written + 1
    /\ conv' = [conv EXCEPT
          ![turn[t].conv].st = IF Created(t) THEN "active" ELSE @,
          ![turn[t].conv].msgs = Append(@, [id |-> written + 1, role |-> "user",
                                            text |-> turn[t].text, about |-> turn[t].about,
                                            to |-> 0])]
    /\ turn' = Started(t, written + 1)
    /\ loop' = None
    /\ UNCHANGED <<made, song, budget, job, up, faults>>

(* An unanswered message sent again is reused as it is. *)
ReuseMessage(t) ==
    /\ loop = t
    /\ turn[t].pc = "prepared"
    /\ turn[t].msg # 0 /\ HasMessage(turn[t].conv, turn[t].msg)
    /\ turn' = Started(t, turn[t].msg)
    /\ loop' = None
    /\ UNCHANGED <<conv, made, written, song, budget, job, up, faults>>

(* The conversation or the song went away meanwhile: storing breaks a foreign key. *)
SetupFails(t) ==
    /\ loop = t
    /\ turn[t].pc = "prepared"
    /\ turn[t].msg = 0 /\ (ConvGone(t) \/ SongGone(t))
    /\ job' = FailJob(t)
    /\ turn' = [turn EXCEPT ![t] = [NoTurn EXCEPT !.pc = "ended"]]
    /\ loop' = None
    /\ UNCHANGED <<conv, made, written, song, budget, up, faults>>

(* The reused message went away meanwhile: reading it again after the commit raises outside
   the handler that fails the job, which is left to the reaper. *)
SetupLost(t) ==
    /\ loop = t
    /\ turn[t].pc = "prepared"
    /\ turn[t].msg # 0 /\ ~HasMessage(turn[t].conv, turn[t].msg)
    /\ turn' = [turn EXCEPT ![t] = [NoTurn EXCEPT !.pc = "lost"]]
    /\ loop' = None
    /\ UNCHANGED <<conv, made, written, song, budget, job, up, faults>>

-----------------------------------------------------------------------------
(* Ending a turn.                                                          *)

Ended(t) == [turn EXCEPT ![t] = [NoTurn EXCEPT !.pc = "ended"]]

(* Mutant: a reply is stored whatever became of its job. *)
NoJobLock(t) == TRUE

(* lock_active_job: a job that ended meanwhile is not found. *)
LockActiveJob(t) == job[t] = "running"

(* _complete_chat_turn: the agent answered. *)
CompleteTurn(t) ==
    /\ up /\ loop = None
    /\ turn[t].pc = "running"
    /\ \/ /\ ~LockActiveJob(t)                 \* the reply came too late
          /\ UNCHANGED <<conv, written, job>>
       \/ /\ LockActiveJob(t)                  \* a foreign key is broken
          /\ ConvGone(t) \/ SongGone(t)
          /\ job' = FailJob(t)
          /\ UNCHANGED <<conv, written>>
       \/ /\ LockActiveJob(t) /\ ~ConvGone(t) /\ ~SongGone(t)
                /\ written' = written + 1
          /\ conv' = [conv EXCEPT ![turn[t].conv].msgs =
                         Append(@, [id |-> written + 1, role |-> "assistant", text |-> None,
                                    about |-> turn[t].about, to |-> turn[t].msg])]
          /\ job' = [job EXCEPT ![t] = "over"]
    /\ turn' = Ended(t)
    /\ UNCHANGED <<made, song, budget, loop, up, faults>>

(* The agent refused, stopped or raised, or the turn's task was cancelled: the message stays
   in the conversation and the job fails (_chat_event_generator, _fail_chat_job). *)
TurnFails(t) ==
    /\ up /\ loop = None
    /\ turn[t].pc = "running"
    /\ job' = FailJob(t)
    /\ turn' = Ended(t)
    /\ UNCHANGED <<conv, made, written, song, budget, loop, up, faults>>

(* api_cancel_job. *)
CancelJob(t) ==
    /\ up
    /\ job[t] = "running"
    /\ job' = [job EXCEPT ![t] = "over"]
    /\ UNCHANGED <<conv, made, written, song, budget, turn, loop, up, faults>>

(* The heartbeat of a turn nobody runs is old; that of a running one may fail to be written. *)
HeartbeatIsOld(t) == turn[t].pc = "lost" \/ faults < MaxFaults

(* The stale-job reaper, also run by every admission. *)
Reap(t) ==
    /\ job[t] = "running"
    /\ HeartbeatIsOld(t)
    /\ job' = [job EXCEPT ![t] = "over"]
    /\ faults' = IF turn[t].pc = "lost" THEN faults ELSE faults + 1
    /\ UNCHANGED <<conv, made, written, song, budget, turn, loop, up>>

Crash ==
    /\ up
    /\ faults < MaxFaults
    /\ faults' = faults + 1
    /\ up' = FALSE
    /\ loop' = None
    /\ turn' = [t \in Turns |-> IF turn[t].pc = "idle" THEN NoTurn
                                ELSE [NoTurn EXCEPT !.pc = "ended"]]
    /\ UNCHANGED <<conv, made, written, song, budget, job>>

(* Mutant: a restart leaves the jobs to the reaper, which finds their heartbeat fresh. *)
RestartKeepsJobs == up' = TRUE /\ UNCHANGED job

(* fail_chat_turns_ended_by_restart, before the first request is served. *)
FailTurnsEndedByRestart ==
    /\ up' = TRUE
    /\ job' = [t \in Turns |-> IF job[t] = "running" THEN "over" ELSE job[t]]

Restart ==
    /\ ~up
    /\ FailTurnsEndedByRestart
    /\ UNCHANGED <<conv, made, written, song, budget, turn, loop, faults>>

-----------------------------------------------------------------------------
(* What else the person and the administrator do.                         *)

(* api_new_conversation: archive the active one, create a fresh one. *)
NewConversation ==
    /\ up
    /\ made < MaxConversations
    /\ made' = made + 1
    /\ conv' = [c \in ConvIds |->
                  IF c = made + 1 THEN [NoConv EXCEPT !.st = "active"]
                  ELSE IF Active # {} /\ c = Max(Active)
                       THEN [conv[c] EXCEPT !.st = "archived"]
                       ELSE conv[c]]
    /\ UNCHANGED <<written, song, budget, job, turn, loop, up, faults>>

(* api_delete_conversation: messages and summary go with the row. *)
DeleteConversation(c) ==
    /\ up
    /\ conv[c].st \in {"active", "archived"}
    /\ conv' = [conv EXCEPT ![c] = [NoConv EXCEPT !.st = "deleted"]]
    /\ UNCHANGED <<made, written, song, budget, job, turn, loop, up, faults>>

TrashSong(s) ==
    /\ song[s] = "live"
    /\ song' = [song EXCEPT ![s] = "trashed"]
    /\ UNCHANGED <<conv, made, written, budget, job, turn, loop, up, faults>>

(* Purging a song deletes the messages about it and clears a boundary that was one of them. *)
PurgeSong(s) ==
    /\ song[s] = "trashed"
    /\ song' = [song EXCEPT ![s] = "purged"]
    /\ conv' = [c \in ConvIds |->
                  LET ms   == conv[c].msgs
                      kept == Selected(ms, {i \in DOMAIN ms : ms[i].about # s})
                      cut  == /\ conv[c].boundary # 0
                              /\ ~\E i \in DOMAIN kept : kept[i].id = conv[c].boundary
                  IN  [conv[c] EXCEPT !.msgs = kept,
                                      !.boundary = IF cut THEN 0 ELSE @,
                                      !.torn = @ \/ Len(kept) # Len(ms)]]
    /\ UNCHANGED <<made, written, budget, job, turn, loop, up, faults>>

(* get_cowriter_tail_token_budget reads a setting the administrator changes. *)
SetBudget(b) ==
    /\ budget # b
    /\ Running = {}     \* only read when a turn is prepared
    /\ budget' = b
    /\ UNCHANGED <<conv, made, written, song, job, turn, loop, up, faults>>

Step(t) ==
    \/ PrepareHistory(t) \/ StoreMessage(t) \/ ReuseMessage(t) \/ SetupFails(t)
    \/ SetupLost(t) \/ CompleteTurn(t) \/ TurnFails(t)

Next ==
    \/ \E t \in Turns : Send(t) \/ Step(t) \/ CancelJob(t) \/ Reap(t)
    \/ \E c \in ConvIds : DeleteConversation(c)
    \/ \E s \in Songs : TrashSong(s) \/ PurgeSong(s)
    \/ \E b \in Budgets : SetBudget(b)
    \/ NewConversation \/ Crash \/ Restart

(* The agent's turn ends: the gateway bounds it.  The reaper and the restart come.  Each
   turn takes a few steps, so it is enough that some step is taken while one can be. *)
FairStep == Restart \/ \E t \in Turns : Step(t) \/ (turn[t].pc = "lost" /\ Reap(t))

-----------------------------------------------------------------------------
(* No message is answered twice, and a reply stands directly behind the    *)
(* message it answers, even when a turn was cancelled, reaped or ended by  *)
(* a restart, the person tried again and the first turn's reply came late. *)
AnsweredOnce ==
    \A c \in ConvIds :
        LET ms == conv[c].msgs IN
        \A i \in DOMAIN ms : ms[i].role = "assistant" =>
            /\ HasMessage(c, ms[i].to) => i > 1 /\ ms[i - 1].id = ms[i].to
            /\ \A j \in DOMAIN ms : ms[j].role = "assistant" /\ ms[j].to = ms[i].to => j = i

(* Trying again never repeats the message: two messages of the person that *)
(* follow each other differ, unless a purge removed what stood between.    *)
TryAgainIsOneMessage ==
    \A c \in ConvIds :
        LET ms == conv[c].msgs IN
        \A i \in 1..(Len(ms) - 1) :
            ms[i].role = "user" /\ ms[i + 1].role = "user" /\ ~conv[c].torn
                => ms[i].text # ms[i + 1].text

(* What a turn sends to the agent tells of every message of the history    *)
(* exactly once, in order, whatever the budget was in earlier turns; after *)
(* a purge tore the history it may repeat messages but still leaves none   *)
(* out.                                                                    *)
HistoryCoveredOnce ==
    \A t \in Turns : turn[t].pc = "prepared" =>
        LET sent == turn[t].summary \o turn[t].tail IN
        /\ ToSet(turn[t].told) \subseteq ToSet(sent)
        /\ ~turn[t].torn => sent = turn[t].told

(* Every admitted turn's job ends, so the person can send again: through   *)
(* its own task, the reaper or the restart of the web process.             *)
EveryTurnEnds == \A t \in Turns : job[t] = "running" ~> job[t] # "running"
=============================================================================

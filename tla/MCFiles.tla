------------------------------ MODULE MCFiles ------------------------------
(* Files beside their rows, side by side: the cover of an item with the jobs   *)
(* that draw suggestions for it (Covers), and an owner's reference recordings  *)
(* (References).  A behaviour works on one of them.                            *)
EXTENDS Naturals, FiniteSets

CONSTANTS Jobs, DailyLimit, MaxCrashes,
          Refs, Holders, Requests, Quota, MaxFaults,
          None

VARIABLES kind, item, key, final, old, req, job, today, session, runner, cancelling,
          row, png, staged, doomed, crashes,
          recording, file, link, song, save, pend, up, owner, named, faults

(* The parts. *)
C == INSTANCE Covers
R == INSTANCE References WITH row <- recording, req <- save

(* What the proofs assume of the constants holds here. *)
ASSUME PartConstants == C!CoverConstants /\ R!ReferenceConstants

coverVars == <<kind, item, key, final, old, req, job, today, session, runner, cancelling,
               row, png, staged, doomed, crashes>>
referenceVars == <<recording, file, link, song, save, pend, up, owner, named, faults>>

(* The cover of an item; the recordings rest. *)
CoverSpec ==
    /\ C!Init /\ R!Init
    /\ [][C!Next /\ UNCHANGED referenceVars]_<<coverVars, referenceVars>>
    /\ C!Fairness

(* The recordings of an owner; the cover rests. *)
ReferenceSpec ==
    /\ C!Init /\ kind = "album" /\ R!Init
    /\ [][R!Next /\ UNCHANGED coverVars]_<<coverVars, referenceVars>>
    /\ R!Fairness

-----------------------------------------------------------------------------
(* An album keeps a cover whole through crashes, a suggestion is a picture on  *)
(* disk, none is left behind, the daily limit holds and a cancelled job        *)
(* registers no picture (Covers).                                              *)
CoversStand ==
    /\ C!CoverSurvives
    /\ C!SuggestionIsBacked
    /\ C!NoSuggestionLitter
    /\ C!DailyLimitHolds
    /\ C!CancelReachesPicture

(* A queued suggestion job ends, restarts included (Covers). *)
EveryCoverJobEnds == C!EveryCoverJobEnds

(* A kept recording has its file, a used one is known as used, and no user has *)
(* more than the quota (References).                                           *)
FilesAreTrue == R!StampIsTrue /\ R!RowHasFile /\ R!QuotaHolds

(* No save waits for ever on another one's locks, and what is left over by a   *)
(* failed stamp or a dead process is found in the end (References).            *)
EverythingSettles == R!EverySaveEnds /\ R!LeftoversAreFound
=============================================================================

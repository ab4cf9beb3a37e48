------------------------------ MODULE FileApply ------------------------------
(* Replacing one workspace file by a file an Agent Run produced:              *)
(* store/agentRunFileApply.ts and components/AgentRunFileApplyReview.tsx,      *)
(* above the desktop's baselines and operations (FileOps).                    *)
EXTENDS FileOps

CONSTANTS Runs,        \* Agent Runs whose file output a person may pick
          MaxCalls,    \* bound: calls of the store in flight at once
          MaxCrashes,  \* bound: exits of the application
          MaxPicks     \* bound: times a person starts over from a pick

ASSUME FileApplyAssumption == MaxCalls \in Nat /\ MaxCrashes \in Nat /\ MaxPicks \in Nat

NoRun == "no_run"
ASSUME NoRunAssumption == NoRun \notin Runs

VARIABLES genuine,    \* runs whose exact row still yields the picked file
          candidate, review, loading,
          calls,      \* continuations of stageTarget, validate and apply
          crashes, picks

applyVars == <<genuine, candidate, review, loading, calls, crashes, picks>>
fileVars == <<opsVars, applyVars>>

NoReview == [status |-> "none", run |-> NoRun, snap |-> 0, op |-> 0, expired |-> FALSE]
Busy == {"verifying_source", "checking", "writing"}
OpenReview == {"ready", "checked"}
Status == Busy \cup OpenReview \cup {"none", "conflict", "applied", "uncertain"}
Phases == {"source", "capture", "captured", "asked", "running", "ok", "bad",
           "applied", "cancelled", "error"}
Calls == [kind: {"stage", "check", "verify", "write"}, phase: Phases, run: Runs,
          path: Paths, snap: Snaps \cup {0}, op: Ops \cup {0}, was: {"none"} \cup OpenReview,
          mine: BOOLEAN]

FileTypeOK ==
  /\ FileOpsTypeOK
  /\ genuine \subseteq Runs
  /\ candidate \in Runs \cup {NoRun}
  /\ review \in [status: Status, run: Runs \cup {NoRun}, snap: Snaps \cup {0},
                 op: Ops \cup {0}, expired: BOOLEAN]
  /\ loading \in BOOLEAN
  /\ calls \subseteq Calls
  /\ crashes \in 0..MaxCrashes /\ picks \in 0..MaxPicks

FileInit ==
  /\ FileOpsInit
  /\ genuine = Runs
  /\ candidate = NoRun /\ review = NoReview /\ loading = FALSE
  /\ calls = {} /\ crashes = 0 /\ picks = 0

\* ++revision, and a new review object: every continuation in flight finds that
\* the store has moved on.
Orphan(C) == {[c EXCEPT !.mine = FALSE] : c \in C}
Call(kind, phase, was) ==
  [kind |-> kind, phase |-> phase, run |-> review.run, snap |-> review.snap,
   path |-> snaps[review.snap].path, op |-> review.op, was |-> was, mine |-> TRUE]
Replace(c, d) == (calls \ {c}) \cup {d}

UnchangedNative == UNCHANGED <<disk, native, ops, edits>>
UnchangedSource == UNCHANGED <<genuine, crashes, picks>>

\* clear(): the candidate and its review are dropped, whatever they were doing.
Clear(C) ==
  /\ candidate' = NoRun /\ review' = NoReview /\ loading' = FALSE
  /\ calls' = Orphan(C)
  /\ snaps' = Gone({review.snap})

Discard ==
  /\ candidate # NoRun
  /\ Clear(calls)
  /\ UnchangedNative /\ UnchangedSource /\ UNCHANGED reminders

\* select(): another output of an Agent Run takes the place of the last one.
Select(r) ==
  /\ picks < MaxPicks
  /\ picks' = picks + 1
  /\ candidate' = r /\ review' = NoReview /\ loading' = FALSE
  /\ calls' = Orphan(calls)
  /\ snaps' = Gone({review.snap})
  /\ UnchangedNative /\ UNCHANGED <<genuine, crashes, reminders>>

-----------------------------------------------------------------------------
(* stageTarget(): the run is read again, then the file.                      *)

StageTarget(p) ==
  /\ candidate # NoRun /\ review = NoReview /\ ~loading
  /\ Cardinality(calls) < MaxCalls
  /\ loading' = TRUE
  /\ calls' = Orphan(calls) \cup
       {[kind |-> "stage", phase |-> "source", run |-> candidate, path |-> p,
         snap |-> 0, op |-> 0, was |-> "none", mine |-> TRUE]}
  /\ UnchangedNative /\ UnchangedSource
  /\ UNCHANGED <<snaps, reminders, candidate, review>>

StageFails(c) ==
  /\ c.phase \in {"source", "capture"}
  /\ calls' = calls \ {c}
  /\ loading' = (loading /\ ~c.mine)
  /\ UNCHANGED snaps

StageSource(c) ==
  /\ c.phase = "source" /\ c.run \in genuine
  /\ calls' = IF c.mine THEN Replace(c, [c EXCEPT !.phase = "capture"]) ELSE calls \ {c}
  /\ UNCHANGED <<snaps, loading>>

StageCapture(c) ==
  /\ c.phase = "capture"
  /\ \E i \in Snaps : /\ Capture(i, c.path)
                      /\ calls' = Replace(c, [c EXCEPT !.phase = "captured", !.snap = i])
  /\ UNCHANGED loading

Stage ==
  /\ \E c \in {d \in calls : d.kind = "stage"} : StageFails(c) \/ StageSource(c) \/ StageCapture(c)
  /\ UnchangedNative /\ UnchangedSource
  /\ UNCHANGED <<reminders, candidate, review>>

NextOp(o) == o \in Ops /\ o > review.op /\ ops[o] = UnusedOp /\ \A q \in Ops : q < o => ops[q] # UnusedOp

\* Mutant: the baseline of an abandoned review is not given back.
StageAnswer_KeepsLate(c) ==
  /\ c.kind = "stage" /\ c.phase = "captured"
  /\ IF c.mine /\ snaps[c.snap].base # "candidate"
     THEN \E o \in Ops :
            /\ NextOp(o)
            /\ review' = [status |-> "ready", run |-> c.run, snap |-> c.snap, op |-> o, expired |-> FALSE]
            /\ ops' = [ops EXCEPT ![o].snap = c.snap]
     ELSE UNCHANGED <<review, ops>>
  /\ loading' = (loading /\ ~c.mine)
  /\ calls' = calls \ {c}
  /\ UnchangedSource /\ UNCHANGED <<disk, snaps, native, edits, reminders, candidate>>
\* The answer of the desktop: a late one, or one equal to the output, is released.
StageAnswer(c) ==
  /\ c.kind = "stage" /\ c.phase = "captured"
  /\ IF c.mine /\ snaps[c.snap].base # "candidate"
     THEN \E o \in Ops :
            /\ NextOp(o)
            /\ review' = [status |-> "ready", run |-> c.run, snap |-> c.snap, op |-> o, expired |-> FALSE]
            /\ ops' = [ops EXCEPT ![o].snap = c.snap]
            /\ UNCHANGED snaps
     ELSE snaps' = Gone({c.snap}) /\ UNCHANGED <<review, ops>>
  /\ loading' = (loading /\ ~c.mine)
  /\ calls' = calls \ {c}
  /\ UnchangedSource /\ UNCHANGED <<disk, native, edits, reminders, candidate>>

-----------------------------------------------------------------------------
(* validate(): a fresh look that grants nothing.                             *)

Ask(kind, status) ==
  IF review.expired THEN Clear(calls)
  ELSE /\ Cardinality(calls) < MaxCalls
       /\ review' = [review EXCEPT !.status = status]
       /\ calls' = calls \cup {Call(kind, "asked", review.status)}
       /\ UNCHANGED <<snaps, candidate, loading>>

Validate ==
  /\ review.status \in OpenReview
  /\ Ask("check", "checking")
  /\ UnchangedNative /\ UnchangedSource /\ UNCHANGED reminders

ValidateNative(c) ==
  /\ c.kind = "check" /\ c.phase = "asked"
  /\ calls' = Replace(c, [c EXCEPT !.phase = IF Unchanged(c.snap) THEN "ok" ELSE "bad"])
  /\ snaps' = ValidatedSnaps({c.snap})
  /\ UnchangedNative /\ UnchangedSource
  /\ UNCHANGED <<reminders, candidate, review, loading>>

ValidateAnswer(c) ==
  /\ c.kind = "check" /\ c.phase \in {"ok", "bad"}
  /\ CASE ~c.mine -> calls' = calls \ {c} /\ UNCHANGED <<snaps, candidate, review, loading>>
       [] c.mine /\ c.phase = "ok" /\ review.expired -> Clear(calls \ {c})
       [] c.mine /\ c.phase = "ok" /\ ~review.expired ->
            /\ review' = [review EXCEPT !.status = "checked"]
            /\ calls' = calls \ {c} /\ UNCHANGED <<snaps, candidate, loading>>
       [] OTHER ->
            /\ review' = [review EXCEPT !.status = "conflict"]
            /\ snaps' = Gone({c.snap})
            /\ calls' = calls \ {c} /\ UNCHANGED <<candidate, loading>>
  /\ UnchangedNative /\ UnchangedSource /\ UNCHANGED reminders

-----------------------------------------------------------------------------
(* apply(): after the person's confirmation the run is read once more, then  *)
(* the reminder is stored, then the desktop is asked, once.                  *)

Apply ==
  /\ review.status \in OpenReview
  /\ Ask("verify", "verifying_source")
  /\ UnchangedNative /\ UnchangedSource /\ UNCHANGED reminders

SourceAnswers == {"current", "changed", "unreachable"}
SourceAnswer(c, a) == (a = "current" => c.run \in genuine) /\ (a = "changed" => c.run \notin genuine)

VerifyAnswer(c, a) ==
  /\ c.kind = "verify" /\ SourceAnswer(c, a)
  /\ CASE ~c.mine ->
            calls' = calls \ {c}
            /\ UNCHANGED <<snaps, candidate, review, loading, ops, reminders>>
       [] c.mine /\ a = "changed" ->
            /\ review' = [review EXCEPT !.status = "conflict"]
            /\ snaps' = Gone({c.snap}) /\ calls' = calls \ {c}
            /\ UNCHANGED <<candidate, loading, ops, reminders>>
       [] c.mine /\ a = "unreachable" ->
            /\ review' = [review EXCEPT !.status = c.was]
            /\ calls' = calls \ {c}
            /\ UNCHANGED <<snaps, candidate, loading, ops, reminders>>
       [] c.mine /\ a = "current" /\ review.expired ->
            Clear(calls \ {c}) /\ UNCHANGED <<ops, reminders>>
       [] OTHER ->
            /\ review' = [review EXCEPT !.status = "writing"]
            /\ reminders' = Begun(c.op)
            /\ ops' = [ops EXCEPT ![c.op].sent = @ + 1]
            /\ calls' = Replace(c, [c EXCEPT !.kind = "write", !.was = "none"])
            /\ UNCHANGED <<snaps, candidate, loading>>
  /\ UnchangedSource /\ UNCHANGED <<disk, native, edits>>

WriteBegin(c) ==
  /\ c.kind = "write" /\ c.phase = "asked"
  /\ NativeBegin(c.op, c.snap)
  /\ calls' = Replace(c, [c EXCEPT !.phase = IF NativeBegins(c.op, c.snap) THEN "running" ELSE "error"])
  /\ UnchangedSource
  /\ UNCHANGED <<disk, ops, edits, reminders, candidate, review, loading>>

\* The native window and the system authorisation: refused, cancelled from the
\* page, exchanged, or broken off with the file exchanged or not.
WriteNative(c, answer) ==
  /\ c.kind = "write" /\ c.phase = "running"
  /\ \/ answer = "cancelled" /\ UNCHANGED <<disk, ops>>
     \/ answer = "error" /\ UNCHANGED <<disk, ops>>
     \/ answer \in {"applied", "error"} /\ Exchanges /\ Exchange
  /\ native' = NoOp
  /\ calls' = Replace(c, [c EXCEPT !.phase = answer])
  /\ UnchangedSource
  /\ UNCHANGED <<snaps, edits, reminders, candidate, review, loading>>

\* Mutants: a write broken off is said to have changed nothing, or is not listed.
Outcome_NothingWritten == [applied |-> "applied", cancelled |-> "conflict", error |-> "conflict"]
Settlement_Confirmed == [applied |-> "confirmed", cancelled |-> "confirmed", error |-> "confirmed"]
Outcome == [applied |-> "applied", cancelled |-> "conflict", error |-> "uncertain"]
Settlement == [applied |-> "confirmed", cancelled |-> "confirmed", error |-> "uncertain"]

WriteAnswer(c) ==
  /\ c.kind = "write" /\ c.phase \in DOMAIN Outcome
  /\ reminders' = Settled(c.op, Settlement[c.phase])
  /\ review' = IF c.mine THEN [review EXCEPT !.status = Outcome[c.phase]] ELSE review
  /\ ops' = [ops EXCEPT ![c.op].told = c.phase # "error"]
  /\ calls' = calls \ {c}
  /\ UnchangedSource /\ UNCHANGED <<disk, snaps, native, edits, candidate, loading>>

\* The page asks to cancel the operation it is waiting for.
CancelOperation ==
  /\ review.status = "writing"
  /\ NativeCancel(review.op)
  /\ UnchangedSource
  /\ UNCHANGED <<disk, snaps, ops, edits, reminders, candidate, review, loading, calls>>

-----------------------------------------------------------------------------
\* The client counts the baseline's time from the answer, so it expires on the
\* desktop first; the page's timer then drops the review, a writing one too.
ReviewExpires ==
  /\ review # NoReview /\ ~review.expired /\ snaps[review.snap].st = "gone"
  /\ review' = [review EXCEPT !.expired = TRUE]
  /\ UnchangedNative /\ UnchangedSource
  /\ UNCHANGED <<snaps, reminders, candidate, loading, calls>>
ReviewTimer ==
  /\ review.expired
  /\ Clear(calls)
  /\ UnchangedNative /\ UnchangedSource /\ UNCHANGED reminders

\* The run's delivery or body is no longer the one that was picked.
SourceChanges ==
  /\ \E r \in genuine : genuine' = genuine \ {r}
  /\ UNCHANGED <<opsVars, candidate, review, loading, calls, crashes, picks>>

\* The application exits: the stores are empty, baselines and calls are gone,
\* the helper process may still finish its exchange, the reminders are read back.
Exit ==
  /\ crashes < MaxCrashes
  /\ crashes' = crashes + 1
  /\ candidate' = NoRun /\ review' = NoReview /\ loading' = FALSE /\ calls' = {}
  /\ snaps' = Gone(Snaps)
  /\ native' = NoOp
  /\ \/ UNCHANGED <<disk, ops>>
     \/ native # NoOp /\ Exchanges /\ Exchange
  /\ reminders' = Reloaded
  /\ UNCHANGED <<genuine, edits, picks>>

World == (SnapshotExpires \/ ExternalEdit \/ Dismiss) /\ UNCHANGED applyVars
Person == \/ \E r \in Runs : Select(r)
          \/ \E p \in Paths : StageTarget(p)
          \/ Discard \/ Validate \/ Apply \/ CancelOperation
Answers == \E c \in calls :
             \/ StageAnswer(c) \/ ValidateNative(c) \/ ValidateAnswer(c)
             \/ \E a \in SourceAnswers : VerifyAnswer(c, a)
             \/ WriteBegin(c) \/ \E a \in DOMAIN Outcome : WriteNative(c, a)
             \/ WriteAnswer(c)

FileNext == World \/ Person \/ Stage \/ Answers
        \/ ReviewExpires \/ ReviewTimer \/ SourceChanges \/ Exit

FileSpec == FileInit /\ [][FileNext]_fileVars

-----------------------------------------------------------------------------
\* A baseline the desktop keeps is in the hands of a review or of a call that
\* will hand it over or release it: the eight places cannot be used up by
\* reviews a person has closed (release() in every path of stageTarget, clear).
BaselinesAreHeld ==
  \A i \in Live : i = review.snap \/ \E c \in calls : c.kind = "stage" /\ c.snap = i

\* What the page says of an outcome is so: "applied" only when the file was
\* exchanged by this operation, "conflict" (nothing was written) only when not.
ShownOutcomeIsTrue ==
  /\ review.status = "applied" => ops[review.op].wrote
  /\ review.status \in OpenReview \cup {"checking", "verifying_source", "conflict"} =>
       ~ops[review.op].wrote /\ (review.status # "conflict" => ops[review.op].sent = 0)

\* An operation whose outcome this window did not see stays on the list a
\* person checks, over exits too, unless it was ticked off or pushed off the
\* end of the list by newer ones.
UnseenOutcomeIsListed ==
  \A o \in Ops :
    /\ ops[o].sent > 0 /\ ~ops[o].told => reminders[o] \in Listed \cup {"dismissed", "dropped"}
    /\ reminders[o] = "dropped" => Cardinality({q \in Ops : q > o /\ ops[q].sent > 0}) >= ReminderCap
    /\ reminders[o] = "dismissed" => ~\E c \in calls : c.kind = "write" /\ c.op = o

\* A file is exchanged only over the bytes that were reviewed, by an operation
\* that was sent to the desktop exactly once.
WritesReviewedBytesOnce ==
  [][\A o \in Ops : ops'[o].wrote /\ ~ops[o].wrote =>
       /\ ops[o].sent = 1
       /\ disk[snaps[ops[o].snap].path] = snaps[ops[o].snap].base]_fileVars
=============================================================================

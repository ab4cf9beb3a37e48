---------------------------- MODULE FocusRecords ----------------------------
(* A Focus session and the time it is worth: the clock that settles it, the   *)
(* last heartbeat that bounds what a crash leaves known, the minutes its task  *)
(* is credited with, and the clock the page shows beside its buttons.          *)
EXTENDS Integers

CONSTANTS LastSecond,   \* the last reading of the clock
          PlannedSeconds,      \* the seconds a session is planned to last
          MinuteLength  \* the seconds that make a minute

VARIABLE record

Open == {"active", "paused", "recovery_pending"}
Ended == {"completed", "cancelled", "interrupted"}
NoTime == -1
Least(a, b) == IF a < b THEN a ELSE b
Most(a, b) == IF a > b THEN a ELSE b

Init == record =
  [now |-> 0, status |-> "none", accumulated |-> 0, resumed |-> NoTime, beat |-> NoTime,
   ended |-> NoTime, exact |-> 0, applied |-> 0]
Session(fields) == record' = fields

\* closeOpenFocusInterval: what the open interval adds up to a moment, capped by the plan.
Settled(r, through) ==
  r.accumulated + Least(PlannedSeconds - r.accumulated, Most(0, through - r.resumed))
\* focusHeartbeatCutoff: what is known of a session the process died under.
Cutoff(r) == Least(r.beat, r.now)

Accepts(command) ==
  CASE command = "start" -> record.status \notin Open
    [] command = "pause" -> record.status = "active"
    [] command = "resume" -> record.status = "paused"
    [] command \in {"stop", "cancel"} -> record.status \in {"active", "paused"}
    [] command = "recover" -> record.status = "recovery_pending"
    [] OTHER -> FALSE

----------------------------------------------------------------------------
Running(r) == [r EXCEPT !.status = "active", !.resumed = r.now, !.beat = r.now]
Over(r, status) == [r EXCEPT !.status = status, !.resumed = NoTime, !.ended = r.now]
Start == Accepts("start")
  /\ Session(Running([record EXCEPT !.accumulated = 0, !.ended = NoTime]))
\* The polled snapshot and the service's own ticker both move the heartbeat.
Heartbeat == record.status = "active" /\ Session([record EXCEPT !.beat = record.now])
Pause == Accepts("pause") /\ Session(
  [record EXCEPT !.status = "paused", !.accumulated = Settled(record, record.now),
                 !.resumed = NoTime, !.beat = record.now])
Resume == Accepts("resume") /\ Session(Running(record))

\* recoverFocusSessionsOnStartup: the service comes up after it stopped or died.
Restart == record.status = "active" /\ Session([record EXCEPT !.status = "recovery_pending"])
IncludeGap == Accepts("recover")
  /\ Session(Running([record EXCEPT !.accumulated = Settled(record, record.now)]))
ExcludeGap == Accepts("recover")
  /\ Session(Running([record EXCEPT !.accumulated = Settled(record, Cutoff(record))]))
Interrupt == Accepts("recover")
  /\ Session(Over([record EXCEPT !.accumulated = Settled(record, Cutoff(record))], "interrupted"))

\* What an end command settles; the heartbeat is moved for a running session only.
Settlement ==
  IF record.status = "active"
  THEN [record EXCEPT !.accumulated = Settled(record, record.now), !.beat = record.now]
  ELSE record
\* creditFocusSecondsToTask: whole minutes only, the rest waits for the next session.
Credited(r) == LET exact == r.exact + r.accumulated IN
  [r EXCEPT !.exact = exact, !.applied = exact \div MinuteLength]
Stop == Accepts("stop") /\ Session(Over(Credited(Settlement), "completed"))
Cancel == Accepts("cancel") /\ Session(Over(Settlement, "cancelled"))

Tick == record.now < LastSecond /\ Session([record EXCEPT !.now = @ + 1])

Next == Start \/ Heartbeat \/ Pause \/ Resume \/ Restart \/ IncludeGap \/ ExcludeGap
  \/ Interrupt \/ Stop \/ Cancel \/ Tick
Spec == Init /\ [][Next]_record

----------------------------------------------------------------------------
\* deriveFocusClock: the seconds the page shows as confirmed, and those it shows as
\* the gap to decide about.
Confirmed(r) ==
  LET through == IF r.status = "active" THEN r.now ELSE Least(r.now, r.beat)
      open == IF r.status \in {"active", "recovery_pending"} THEN Most(0, through - r.resumed) ELSE 0
  IN Least(PlannedSeconds, r.accumulated + open)
Uncertain(r) ==
  IF r.status # "recovery_pending" THEN 0
  ELSE Least(PlannedSeconds - Confirmed(r), Most(0, r.now - r.beat))

\* normalizeFocusSession, and the list that holds ended sessions only: every status
\* has the times the clock is derived from.
Reads ==
  /\ record.accumulated >= 0
  /\ record.status \in Ended <=> record.ended # NoTime
  /\ record.status \in {"active", "recovery_pending"} =>
       record.resumed # NoTime /\ record.beat # NoTime

\* FocusPage and FocusRecoveryModal.
Offers ==
  (IF record.status \notin Open THEN {"start"} ELSE {})
  \cup (IF record.status = "active" THEN {"pause"} ELSE {})
  \cup (IF record.status = "paused" THEN {"resume"} ELSE {})
  \cup (IF record.status \in {"active", "paused"} THEN {"stop", "cancel"} ELSE {})
  \cup (IF record.status = "recovery_pending" THEN {"recover"} ELSE {})

\* The time on the page is the time that is settled: no command, crash or recovery
\* moves it, but that the gap is dropped by the two answers that say so; and a task
\* has been credited with every whole minute of its completed sessions.
Answers ==
  /\ record'.now = record.now /\ ~Start =>
       \/ Confirmed(record)' + Uncertain(record)' = Confirmed(record) + Uncertain(record)
       \/ (ExcludeGap \/ Interrupt) /\ Confirmed(record)' = Confirmed(record)
  /\ record'.applied * MinuteLength <= record'.exact
  /\ record'.exact < (record'.applied + 1) * MinuteLength
=============================================================================

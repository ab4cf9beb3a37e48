---------------------------- MODULE BackupRecords ----------------------------
(* A restore from a backup: planned by a running service, carried out by the   *)
(* next start before the database is opened, part by part and by renames only, *)
(* which a crash, a full disk or a second attempt may interrupt anywhere; and  *)
(* the settings page and the recovery page that show it.                       *)
EXTENDS Naturals, Sequences

VARIABLE record

\* What the swap replaces, in its order, and what is put back. (The journal files of the
\* database go with it. Bound: the avatars, which are swapped as the invoices are and
\* put back as the objects are, are left out.)
Swapped == <<"database", "objects", "invoices">>
Returned == <<"invoices", "objects", "database">>
Parts == {Swapped[i] : i \in DOMAIN Swapped}
Steps == DOMAIN Swapped
\* What lies at a path: nothing, what the person works with, what the package holds,
\* or what is neither: a copy that was cut short, a directory or a database made anew.
Pair(live) == [live |-> live, prepared |-> "none", previous |-> "none"]

Init == record =
  [phase |-> "up", step |-> 1, parts |-> [p \in Parts |-> Pair("current")], stuck |-> FALSE,
   plan |-> FALSE, sound |-> TRUE, told |-> "nothing", held |-> FALSE, worked |-> FALSE,
   applied |-> FALSE, residual |-> FALSE, failed |-> FALSE, package |-> "sound"]
Session(r) == record' = r
Part == record.parts[Swapped[record.step]]

----------------------------------------------------------------------------
(* The running service.                                                       *)
\* scheduleBackupRestore, and scheduleRestorePackage before a start. What lies at the
\* paths of an earlier attempt has another operation's name and is never seen again.
Settled(r) == [r EXCEPT !.parts = [p \in Parts |-> Pair("current")]]
Planned(r) == [Settled(r) EXCEPT !.plan = TRUE, !.sound = TRUE, !.told = "scheduled", !.held = TRUE, !.worked = FALSE]
\* The plan is published by a rename; where only the directory cannot be synced after
\* it, the answer is that nothing was scheduled, and the plan is there. (Bound: nothing
\* is planned any more once a cleanup has failed.)
Schedule == record.phase = "up" /\ ~record.plan /\ record.package = "sound" /\ ~record.residual
  /\ \/ Session(Planned(record))
     \/ Session([Planned(record) EXCEPT !.told = "refused", !.held = FALSE])
\* The same choice again, on a plan that is there: its rollback backup stays as it was.
ScheduleAgain == record.phase = "up" /\ record.plan /\ Session([record EXCEPT !.held = TRUE])
\* A command of any page changes the data.
Work == record.phase = "up" /\ ~record.held /\ record.plan /\ Session([record EXCEPT !.worked = TRUE])
\* A package in the list is damaged; its list entry says so only where its manifest is.
\* (Bound: before anything was planned.)
SpoilPackage == record.phase = "up" /\ ~record.plan /\ record.told = "nothing"
  /\ \E damage \in {"spoiled", "unreadable"} : record.package = "sound"
       /\ Session([record EXCEPT !.package = damage])
DeletePackage == record.phase = "up" /\ ~record.held /\ ~record.plan /\ record.package # "sound"
  /\ Session([record EXCEPT !.package = "sound"])
\* The pending copy or the rollback backup does not verify any more.
SpoilPlan == record.plan /\ record.sound /\ Session([record EXCEPT !.sound = FALSE])
Stop == record.phase = "up"
  /\ Session([record EXCEPT !.phase = "down", !.held = FALSE, !.applied = FALSE])

----------------------------------------------------------------------------
(* A start of the service: ApplyPendingRestore, before the database is opened. *)
Made(parts, missing) ==
  [p \in Parts |-> IF p \in missing /\ parts[p].live = "none" THEN [parts[p] EXCEPT !.live = "broken"] ELSE parts[p]]
\* prepareInvoicePDFDirectory comes first.
Start == record.phase = "down"
  /\ LET r == [record EXCEPT !.parts = Made(@, {"invoices"}), !.step = 1, !.stuck = FALSE] IN
     IF ~r.plan THEN Session([r EXCEPT !.phase = "up"])
     ELSE IF r.sound THEN Session([r EXCEPT !.phase = "prepare"]) ELSE Session(r)
\* The process dies, or an error ends it that leaves everything where it is.
Die == record.phase \notin {"up", "down"} /\ Session([record EXCEPT !.phase = "down"])

\* prepareRestoreSwap: nothing is copied once anything was moved.
Begun == \E p \in Parts : record.parts[p].previous # "none"
Fill(content) == [p \in Parts |-> [record.parts[p] EXCEPT !.prepared = content]]
Prepare == record.phase = "prepare" /\ ~Begun /\ Session([record EXCEPT !.phase = "copying", !.parts = Fill("broken")])
Prepared == record.phase = "copying" /\ Session([record EXCEPT !.phase = "swap", !.parts = Fill("restored")])
CarryOn == record.phase = "prepare" /\ Begun /\ Session([record EXCEPT !.phase = "swap"])

\* applyRestoreSwap and swapRestoreDirectory, one rename at a time.
Put(live, prepared, previous) ==
  Session([record EXCEPT !.parts[Swapped[record.step]] =
             [live |-> live, prepared |-> prepared, previous |-> previous]])
MoveAway == record.phase = "swap" /\ record.step \in Steps
  /\ Part.previous = "none" /\ Part.live # "none" /\ Part.prepared # "none"
  /\ Put("none", Part.prepared, Part.live)
MoveIn == record.phase = "swap" /\ record.step \in Steps
  /\ Part.previous # "none" /\ Part.live = "none" /\ Part.prepared # "none"
  /\ Put(Part.prepared, "none", Part.previous)
Swap == record.phase = "swap" /\ record.step \in Steps
  /\ Part.previous # "none" /\ Part.live # "none" /\ Part.prepared = "none"
  /\ Session([record EXCEPT !.step = @ + 1])
\* Inputs that are incomplete, a swap that is ambiguous, or a rename that fails.
Rolling(r) == [r EXCEPT !.phase = "roll", !.step = 1]
Abandon == record.phase = "swap" /\ record.step \in Steps /\ Session(Rolling(record))
EndSwap == record.phase = "swap" /\ record.step \notin Steps /\ Session([record EXCEPT !.phase = "verify"])

\* verifyLiveRestore takes the data of the package and nothing else, and may fail on it.
Verified(r) == \A p \in Parts : r.parts[p].live = "restored"
Commit == record.phase = "verify" /\ Verified(record)
  /\ Session([record EXCEPT !.phase = "clean", !.plan = FALSE, !.applied = TRUE, !.residual = TRUE])
Distrust == record.phase = "verify" /\ Session(Rolling(record))
\* cleanupSuccessfulRestore; its failure is a warning.
Clean == record.phase = "clean" /\ \E failing \in BOOLEAN :
  Session([record EXCEPT !.phase = "up", !.residual = failing,
             !.parts = IF failing THEN record.parts
                       ELSE [p \in Parts |-> Pair(record.parts[p].live)]])

\* rollbackRestoreSwap goes through the parts whatever fails, and tells at the end.
Back == Returned[record.step]
Skip == record.phase = "roll" /\ record.step \in Steps /\ record.parts[Back].previous = "none"
  /\ Session([record EXCEPT !.step = @ + 1])
Remove == record.phase = "roll" /\ record.step \in Steps /\ record.parts[Back].previous # "none"
  /\ record.parts[Back].live # "none" /\ \E left \in {"none", "broken"} :
       Session([record EXCEPT !.parts[Back].live = left])
Return == record.phase = "roll" /\ record.step \in Steps
  /\ record.parts[Back].previous # "none" /\ record.parts[Back].live = "none"
  /\ LET p == record.parts[Back] IN Session([record EXCEPT !.step = @ + 1,
       !.parts[Back] = [live |-> p.previous, prepared |-> p.prepared, previous |-> "none"]])
LeaveBehind == record.phase = "roll" /\ record.step \in Steps /\ record.parts[Back].previous # "none"
  /\ Session([record EXCEPT !.step = @ + 1, !.stuck = TRUE])
\* quarantineFailedRestorePlan; the start fails either way.
GiveUp == record.phase = "roll" /\ record.step \notin Steps
  /\ Session(IF record.stuck THEN [record EXCEPT !.phase = "down"]
             ELSE [record EXCEPT !.phase = "down", !.plan = FALSE, !.failed = TRUE,
                                 !.parts = [p \in Parts |-> [record.parts[p] EXCEPT !.prepared = "none"]]])

\* PrepareStartupRestore, from the recovery page: it opens the database and the stores
\* as a service would, before it looks for a plan. A database made anew is not the one
\* the stores are claimed by, and ends it.
Choose == record.phase = "down" /\ record.package # "unreadable"
  /\ IF record.parts["database"].live \in {"none", "broken"}
     THEN Session([record EXCEPT !.parts = Made(@, {"database"})])
     ELSE LET r == [record EXCEPT !.parts = Made(@, Parts)] IN
          IF r.plan \/ r.package # "sound" THEN Session(r)
          ELSE Session([Planned(r) EXCEPT !.held = FALSE])

Next == Schedule \/ ScheduleAgain \/ Work \/ SpoilPackage \/ DeletePackage \/ SpoilPlan \/ Stop
  \/ Start \/ Die \/ Prepare \/ Prepared \/ CarryOn \/ MoveAway \/ MoveIn \/ Swap \/ Abandon
  \/ EndSwap \/ Commit \/ Distrust \/ Clean \/ Skip \/ Remove \/ Return \/ LeaveBehind \/ GiveUp
  \/ Choose
Spec == Init /\ [][Next]_record

----------------------------------------------------------------------------
(* What the client makes of it.                                               *)
\* inspectRestoreDiagnostics: what the backup directory holds, and what the start did.
Diagnosis(r) ==
  [restart |-> r.plan, applied |-> r.applied, cleanup |-> r.residual, attention |-> r.failed,
   named |-> r.plan \/ r.applied \/ r.residual \/ r.failed,
   status |-> IF r.failed THEN "attention_required" ELSE IF r.plan THEN "restart_required"
              ELSE IF r.residual THEN "cleanup_required" ELSE IF r.applied THEN "restored" ELSE "idle"]
\* getRestoreDiagnostics: a status says what its facts say, and a fact has its backups.
DiagnosisReads(d) ==
  /\ d.status = "restart_required" => d.restart
  /\ d.status = "cleanup_required" => d.cleanup
  /\ d.status = "attention_required" => d.attention
  /\ d.status = "restored" => d.applied
  /\ d.status = "idle" => ~d.restart /\ ~d.applied /\ ~d.cleanup /\ ~d.attention
\* normalizeBackupSummary: only a package that is listed as invalid has no time.
Listed(r) ==
  IF r.package = "unreadable" THEN [status |-> "invalid", created |-> FALSE, kind |-> "unknown"]
  ELSE [status |-> "verified", created |-> TRUE, kind |-> "manual"]
PackageReads(b) == (b.created \/ b.status = "invalid") /\ b.kind \in {"manual", "scheduled", "unknown"}

\* ServiceRecoveryGate: the pages are there while the service is up, and the recovery
\* page once it is known to be down.
PagesShown == record.phase = "up"
Reads == PagesShown => DiagnosisReads(Diagnosis(record)) /\ PackageReads(Listed(record))

\* BackupSettings: a restore that waits for the restart, known from the diagnostics, locks
\* the page, and the buttons of a package follow its list entry.
Locked == Diagnosis(record).restart /\ Diagnosis(record).named
PackageOffers == {"verify", "delete"}
  \cup (IF Listed(record).status = "invalid" THEN {} ELSE {"download", "drill", "restore"})
Offers ==
  IF ~PagesShown THEN {}
  ELSE IF Locked THEN {"restart"} ELSE {"create", "import", "policy"} \cup PackageOffers

\* maintenanceReadMiddleware, and each command upon the package; "none" is no refusal.
Refusal(command) ==
  IF command = "restart" THEN "none"
  ELSE IF record.held /\ command # "restore" THEN "RESTORE_RESTART_REQUIRED"
  ELSE IF command \in {"verify", "download", "drill", "restore"} /\ record.package # "sound"
       THEN "BACKUP_INVALID" ELSE "none"
Accepts(command) == Refusal(command) = "none"
\* Damage that the list does not show, and that is found when the package is read.
FindsDamage(command) == Refusal(command) = "BACKUP_INVALID"

\* The data a person works with is never a mixture of what was and what was restored:
\* a service that is up, whatever starts failed before it, has all parts of the one or
\* all of the other. Until the restored data has been verified every part that was
\* replaced can be put back; a plan is given up only when all of them were. And nothing
\* that was done since the rollback backup is replaced, but where the page was told that
\* nothing had been scheduled.
Whole(parts, content) == \A p \in Parts : parts[p].live = content
Answers ==
  /\ record'.phase = "up" => \E c \in {"current", "restored"} : Whole(record'.parts, c)
  /\ record'.plan => \A p \in Parts : "current" \in {record'.parts[p].live, record'.parts[p].previous}
  /\ record.plan /\ ~record'.plan /\ ~Commit => Whole(record'.parts, "current")
  /\ Commit /\ record.worked => record.told = "refused"
=============================================================================

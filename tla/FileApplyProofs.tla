--------------------------- MODULE FileApplyProofs ---------------------------
(* Proofs about FileApply for every set of files, runs, baselines and          *)
(* operations, every capacity, and any number of calls, exits and edits.       *)
EXTENDS FileApply, FiniteSetTheorems, TLAPS

-----------------------------------------------------------------------------
(* What ties the review, the calls in flight and the desktop together.       *)

\* The status a review has while a call of its own is in flight.
Awaited == [check |-> "checking", verify |-> "verifying_source", write |-> "writing"]
PhasesOf ==
  [stage |-> {"source", "capture", "captured"}, check |-> {"asked", "ok", "bad"},
   verify |-> {"asked"}, write |-> {"asked", "running", "applied", "cancelled", "error"}]
Unsent == OpenReview \cup {"checking", "verifying_source"}

Reviewed ==
  \/ review = NoReview
  \/ /\ review.status # "none" /\ review.run \in Runs
     /\ review.snap \in Snaps /\ review.op \in Ops
     /\ ops[review.op].snap = review.snap
     /\ review.status \in Unsent => ops[review.op].sent = 0
     /\ review.status = "conflict" => ~ops[review.op].wrote
     /\ review.status = "applied" => ops[review.op].wrote

Staging(c) ==
  /\ c.phase # "captured" => c.snap = 0
  /\ c.phase = "captured" => c.snap \in Snaps
  /\ c.mine => review = NoReview

\* A call of a review has the review's operation, and no other review will have it.
Bound(c) ==
  /\ c.op \in Ops /\ c.snap \in Snaps /\ ops[c.op].snap = c.snap
  /\ c.mine <=> c.op = review.op
  /\ c.mine => review.status = Awaited[c.kind]
  /\ c.mine /\ c.kind = "verify" => c.was \in OpenReview
  /\ c.kind # "write" => ops[c.op].sent = 0

Writing(c) ==
  /\ ops[c.op].sent = 1 /\ ~ops[c.op].told
  /\ c.phase \in {"asked", "running", "cancelled"} => ~ops[c.op].wrote
  /\ c.phase = "applied" => ops[c.op].wrote
  /\ c.phase = "running" <=> native.op = c.op
  /\ reminders[c.op] \in {"in_flight", "dropped"}

Called ==
  \A c \in calls :
    /\ c.phase \in PhasesOf[c.kind]
    /\ c.kind = "stage" => Staging(c)
    /\ c.kind # "stage" => Bound(c)
    /\ c.kind = "write" => Writing(c)

\* An operation is in the hands of one call at most, and so is the page.
Single ==
  \A c, d \in calls :
    \/ c.kind # "stage" /\ d.kind # "stage" /\ c.op = d.op
    \/ c.mine /\ d.mine
    => c = d

\* What the desktop has in hand was asked for by a call that waits for it.
Handed ==
  \/ native = NoOp
  \/ /\ native.op \in Ops /\ native.snap \in Snaps /\ native.snap = ops[native.op].snap
     /\ \E c \in calls : c.kind = "write" /\ c.op = native.op

Sent(o) == {q \in Ops : q > o /\ ops[q].sent > 0}
Remembered ==
  \A o \in Ops :
    /\ ops[o].sent \in {0, 1}
    /\ ops[o].sent = 0 => ~ops[o].wrote /\ ~ops[o].told
    /\ reminders[o] = "none" <=> ops[o].sent = 0
    /\ reminders[o] = "confirmed" => ops[o].told
    /\ reminders[o] = "dropped" => Cardinality(Sent(o)) >= ReminderCap

FileInv == FileTypeOK /\ Reviewed /\ Called /\ Single /\ Handed /\ Remembered

LEMMA Identities ==
  /\ 0 \notin Ops /\ 0 \notin Snaps /\ Ops \subseteq Nat /\ Snaps \subseteq Nat
  /\ NoRun \notin Runs /\ IsFiniteSet(Ops) /\ ReminderCap \in Nat
  BY FileOpsAssumption, NoRunAssumption

SnapRecords == [st : {"unused", "live", "gone"}, path : Paths, base : FileContents]
OpRecords == [sent : 0..2, snap : Snaps \cup {0}, wrote : BOOLEAN, told : BOOLEAN]
NativeRecords == [op : Ops \cup {0}, snap : Snaps \cup {0}, cancelled : BOOLEAN]
Reviews == [status : Status, run : Runs \cup {NoRun}, snap : Snaps \cup {0},
            op : Ops \cup {0}, expired : BOOLEAN]
Bounded ==
  /\ edits \in 0..MaxEdits /\ genuine \subseteq Runs /\ candidate \in Runs \cup {NoRun}
  /\ loading \in BOOLEAN /\ crashes \in 0..MaxCrashes /\ picks \in 0..MaxPicks

LEMMA TypesAre ==
  FileTypeOK <=> /\ disk \in [Paths -> FileContents] /\ snaps \in [Snaps -> SnapRecords]
                 /\ native \in NativeRecords /\ ops \in [Ops -> OpRecords]
                 /\ reminders \in [Ops -> ReminderStatus]
                 /\ review \in Reviews /\ calls \subseteq Calls /\ Bounded
  BY DEF FileTypeOK, FileOpsTypeOK, SnapRecords, OpRecords, NativeRecords, Reviews, Bounded

LEMMA CallKinds ==
  /\ \A c \in Calls : /\ c.kind \in {"stage", "check", "verify", "write"}
                      /\ c.run \in Runs /\ c.path \in Paths /\ c.snap \in Snaps \cup {0}
                      /\ c.op \in Ops \cup {0} /\ c.phase \in Phases
                      /\ c.mine \in BOOLEAN
  /\ NoReview \in Reviews /\ NoReview.snap = 0 /\ NoReview.op = 0 /\ NoReview.status = "none"
  /\ NoReview.expired = FALSE /\ NoOp \in NativeRecords /\ NoOp.op = 0 /\ NoOp.snap = 0
  BY DEF Calls, NoReview, Reviews, Status, NoOp, NativeRecords, OpenReview

LEMMA GoneSnaps ==
  ASSUME snaps \in [Snaps -> SnapRecords], NEW ids
  PROVE  /\ Gone(ids) \in [Snaps -> SnapRecords]
         /\ \A i \in Snaps : /\ Gone(ids)[i].st = "live" <=> snaps[i].st = "live" /\ i \notin ids
                             /\ Gone(ids)[i].path = snaps[i].path
                             /\ Gone(ids)[i].base = snaps[i].base
  BY DEF Gone, SnapRecords

Orphaned(c) == [c EXCEPT !.mine = FALSE]
LEMMA OrphanedCall ==
  ASSUME NEW c \in Calls
  PROVE  /\ Orphaned(c) \in Calls /\ Orphaned(c).mine = FALSE
         /\ Orphaned(c).kind = c.kind /\ Orphaned(c).phase = c.phase
         /\ Orphaned(c).snap = c.snap /\ Orphaned(c).op = c.op
  BY DEF Orphaned, Calls
LEMMA Orphans ==
  ASSUME NEW C \in SUBSET Calls
  PROVE  /\ \A c \in C : Orphaned(c) \in Orphan(C)
         /\ \A d \in Orphan(C) : \E c \in C : d = Orphaned(c)
  BY DEF Orphan, Orphaned


Phased(c, p) == [c EXCEPT !.phase = p]
Captured(c, i) == [c EXCEPT !.phase = "captured", !.snap = i]
Turned(c) == [c EXCEPT !.kind = "write", !.was = "none"]
LEMMA MovedCall ==
  ASSUME NEW c \in Calls, NEW p \in Phases, NEW i \in Snaps
  PROVE  /\ Phased(c, p) \in Calls /\ Phased(c, p).phase = p
         /\ Phased(c, p).kind = c.kind /\ Phased(c, p).mine = c.mine
         /\ Phased(c, p).snap = c.snap /\ Phased(c, p).op = c.op
         /\ Captured(c, i) \in Calls /\ Captured(c, i).phase = "captured"
         /\ Captured(c, i).kind = c.kind /\ Captured(c, i).mine = c.mine
         /\ Captured(c, i).snap = i /\ Captured(c, i).op = c.op
         /\ Turned(c) \in Calls /\ Turned(c).phase = c.phase
         /\ Turned(c).kind = "write" /\ Turned(c).mine = c.mine
         /\ Turned(c).snap = c.snap /\ Turned(c).op = c.op
<1>1. /\ Phased(c, p) \in Calls /\ Phased(c, p).phase = p
      /\ Phased(c, p).kind = c.kind /\ Phased(c, p).mine = c.mine
      /\ Phased(c, p).snap = c.snap /\ Phased(c, p).op = c.op
  BY DEF Phased, Calls
<1>2. /\ Captured(c, i) \in Calls /\ Captured(c, i).phase = "captured"
      /\ Captured(c, i).kind = c.kind /\ Captured(c, i).mine = c.mine
      /\ Captured(c, i).snap = i /\ Captured(c, i).op = c.op
  BY DEF Captured, Calls, Phases
<1>3. /\ Turned(c) \in Calls /\ Turned(c).phase = c.phase
      /\ Turned(c).kind = "write" /\ Turned(c).mine = c.mine
      /\ Turned(c).snap = c.snap /\ Turned(c).op = c.op
  BY DEF Turned, Calls
<1> QED BY <1>1, <1>2, <1>3

\* A review's status moves without its identity.
Restated(s) == [review EXCEPT !.status = s]
LEMMA RestatedReview ==
  ASSUME review \in Reviews, NEW s \in Status
  PROVE  /\ Restated(s) \in Reviews /\ Restated(s).status = s /\ Restated(s).run = review.run
         /\ Restated(s).snap = review.snap /\ Restated(s).op = review.op
  BY DEF Restated, Reviews

LEMMA CalledCalls ==
  ASSUME FileInv, NEW c \in calls
  PROVE  /\ c \in Calls /\ c.phase \in PhasesOf[c.kind]
         /\ c.kind = "stage" => Staging(c)
         /\ c.kind # "stage" => Bound(c)
         /\ c.kind = "write" => Writing(c)
  BY TypesAre DEF FileInv, Called

-----------------------------------------------------------------------------
LEMMA FileInvInit == FileInit => FileInv
<1> SUFFICES ASSUME FileInit PROVE FileInv
  OBVIOUS
<1>1. (CHOOSE p \in Paths : TRUE) \in Paths
  BY FileOpsAssumption
<1>2. FileTypeOK
  <2>1. UnusedSnap \in [st : {"unused", "live", "gone"}, path : Paths, base : FileContents]
    BY <1>1 DEF UnusedSnap, FileContents
  <2>2. snaps \in [Snaps -> [st : {"unused", "live", "gone"}, path : Paths, base : FileContents]]
    BY <2>1 DEF FileInit, FileOpsInit
  <2>3. disk \in [Paths -> FileContents] /\ edits \in 0..MaxEdits
    BY FileOpsAssumption DEF FileInit, FileOpsInit, FileContents
  <2>4. native \in [op : Ops \cup {0}, snap : Snaps \cup {0}, cancelled : BOOLEAN]
    BY DEF FileInit, FileOpsInit, NoOp
  <2>5. ops \in [Ops -> [sent : 0..2, snap : Snaps \cup {0}, wrote : BOOLEAN, told : BOOLEAN]]
    BY DEF FileInit, FileOpsInit, UnusedOp
  <2>6. reminders \in [Ops -> ReminderStatus]
    BY DEF FileInit, FileOpsInit, ReminderStatus
  <2>7. review \in [status : Status, run : Runs \cup {NoRun}, snap : Snaps \cup {0},
                    op : Ops \cup {0}, expired : BOOLEAN]
    BY DEF FileInit, NoReview, Status
  <2>8. genuine \subseteq Runs /\ candidate \in Runs \cup {NoRun} /\ loading \in BOOLEAN
    BY DEF FileInit
  <2>9. calls \subseteq Calls
    BY DEF FileInit
  <2>10. crashes \in 0..MaxCrashes /\ picks \in 0..MaxPicks
    BY FileApplyAssumption DEF FileInit
  <2> QED BY <2>2, <2>3, <2>4, <2>5, <2>6, <2>7, <2>8, <2>9, <2>10 DEF FileTypeOK, FileOpsTypeOK
<1>3. Reviewed /\ Called /\ Single /\ Handed
  BY DEF FileInit, FileOpsInit, Reviewed, Called, Single, Handed
<1>4. Remembered
  BY DEF FileInit, FileOpsInit, Remembered, UnusedOp
<1> QED BY <1>2, <1>3, <1>4 DEF FileInv

\* Dropping a review leaves every call of it without an owner.
LEMMA Clears ==
  ASSUME FileInv, NEW C \in SUBSET calls, \A c \in calls \ C : c.kind # "write",
         review' = NoReview, calls' = Orphan(C), snaps' = Gone({review.snap}),
         candidate' \in Runs \cup {NoRun}, loading' = FALSE, picks' \in 0..MaxPicks,
         UNCHANGED <<disk, native, ops, edits, reminders, genuine, crashes>>
  PROVE  FileInv'
<1> USE Identities, CallKinds
<1>0. /\ calls \subseteq Calls /\ snaps \in [Snaps -> SnapRecords] /\ C \in SUBSET Calls
  BY TypesAre DEF FileInv
<1>a. /\ \A c \in C : Orphaned(c) \in calls'
      /\ \A d \in calls' : \E c \in C : d = Orphaned(c)
  BY <1>0, Orphans
<1>b. \A c \in C : /\ Orphaned(c) \in Calls /\ Orphaned(c).mine = FALSE
                   /\ Orphaned(c).kind = c.kind /\ Orphaned(c).phase = c.phase
                   /\ Orphaned(c).snap = c.snap /\ Orphaned(c).op = c.op
  BY <1>0, OrphanedCall
<1>1. FileTypeOK'
  <2>1. snaps' \in [Snaps -> SnapRecords]
    BY <1>0, GoneSnaps
  <2>2. calls' \subseteq Calls
    BY <1>a, <1>b
  <2>3. Bounded'
    BY TypesAre DEF FileInv, Bounded
  <2> QED BY <2>1, <2>2, <2>3, TypesAre DEF FileInv, FileTypeOK, FileOpsTypeOK, SnapRecords,
               OpRecords, NativeRecords, Reviews, Bounded
<1>2. Reviewed'
  BY DEF Reviewed
<1>3. Called'
  <2> SUFFICES ASSUME NEW d \in calls'
               PROVE  /\ d.phase \in PhasesOf[d.kind]
                      /\ d.kind = "stage" => Staging(d)'
                      /\ d.kind # "stage" => Bound(d)'
                      /\ d.kind = "write" => Writing(d)'
    BY DEF Called
  <2>1. PICK c \in C : d = Orphaned(c)
    BY <1>a
  <2>3. /\ d.mine = FALSE /\ d.kind = c.kind /\ d.phase = c.phase
        /\ d.snap = c.snap /\ d.op = c.op
    BY <1>b, <2>1
  <2>2. /\ c.phase \in PhasesOf[c.kind]
        /\ c.kind = "stage" => Staging(c)
        /\ c.kind # "stage" => Bound(c)
        /\ c.kind = "write" => Writing(c)
    BY CalledCalls
  <2> QED BY <2>2, <2>3 DEF Staging, Bound, Writing
<1>4. Single'
  <2> SUFFICES ASSUME NEW c \in calls', NEW d \in calls', c.kind # "stage", d.kind # "stage",
                      c.op = d.op
               PROVE  c = d
    BY <1>a, <1>b DEF Single
  <2>1. PICK c1 \in C : c = Orphaned(c1) /\ c.kind = c1.kind /\ c.op = c1.op
    BY <1>a, <1>b
  <2>2. PICK d1 \in C : d = Orphaned(d1) /\ d.kind = d1.kind /\ d.op = d1.op
    BY <1>a, <1>b
  <2> QED BY <2>1, <2>2 DEF FileInv, Single
<1>5. Handed'
  <2>1. CASE native # NoOp
    <3>1. PICK c \in calls : c.kind = "write" /\ c.op = native.op
      BY <2>1 DEF FileInv, Handed
    <3>2. c \in C
      BY <3>1
    <3>3. Orphaned(c) \in calls' /\ Orphaned(c).kind = "write" /\ Orphaned(c).op = native.op
      BY <1>a, <1>b, <3>1, <3>2
    <3> QED BY <2>1, <3>3 DEF FileInv, Handed
  <2> QED BY <2>1 DEF Handed
<1>6. Remembered'
  BY DEF FileInv, Remembered, Sent
<1> QED BY <1>1, <1>2, <1>3, <1>4, <1>5, <1>6 DEF FileInv

-----------------------------------------------------------------------------
(* The steps.                                                                *)

LEMMA WorldStep == FileInv /\ World => FileInv'
<1> SUFFICES ASSUME FileInv, World PROVE FileInv'
  OBVIOUS
<1> USE Identities DEF World, applyVars
<1>0. /\ snaps \in [Snaps -> SnapRecords] /\ reminders \in [Ops -> ReminderStatus]
      /\ UNCHANGED <<ops, native, calls, review>>
  BY TypesAre DEF FileInv, SnapshotExpires, ExternalEdit, Dismiss
<1>1. CASE SnapshotExpires
  <2>1. snaps' \in [Snaps -> SnapRecords] /\ UNCHANGED <<reminders, disk, edits>>
    BY <1>0, <1>1, GoneSnaps DEF SnapshotExpires
  <2>2. FileTypeOK'
    BY <1>0, <2>1, TypesAre DEF FileInv, FileTypeOK, FileOpsTypeOK, SnapRecords
  <2>3. Reviewed' /\ Single' /\ Handed'
    BY <1>0 DEF FileInv, Reviewed, Single, Handed
  <2>4. Called' /\ Remembered'
    BY <1>0, <2>1 DEF FileInv, Called, Staging, Bound, Writing, Remembered, Sent
  <2> QED BY <2>2, <2>3, <2>4 DEF FileInv
<1>2. CASE ExternalEdit
  <2>1. disk' \in [Paths -> FileContents] /\ edits' \in 0..MaxEdits
    BY <1>2, TypesAre, FileOpsAssumption DEF ExternalEdit, FileInv, FileContents, Bounded
  <2>2. FileTypeOK' /\ UNCHANGED reminders
    BY <1>0, <1>2, <2>1 DEF ExternalEdit, FileInv, FileTypeOK, FileOpsTypeOK
  <2>3. Reviewed' /\ Single' /\ Handed'
    BY <1>0 DEF FileInv, Reviewed, Single, Handed
  <2>4. Called' /\ Remembered'
    BY <1>0, <2>2 DEF FileInv, Called, Staging, Bound, Writing, Remembered, Sent
  <2> QED BY <2>2, <2>3, <2>4 DEF FileInv
<1>3. CASE Dismiss
  <2>1. PICK o \in Ops : /\ reminders[o] \in Listed \ {"in_flight"}
                         /\ reminders' = [reminders EXCEPT ![o] = "dismissed"]
    BY <1>3 DEF Dismiss
  <2>2. FileTypeOK'
    BY <1>0, <1>3, <2>1 DEF Dismiss, FileInv, FileTypeOK, FileOpsTypeOK, ReminderStatus
  <2>3. Remembered'
    BY <1>0, <2>1 DEF FileInv, Remembered, Listed, Sent
  <2>4. Called'
    <3> SUFFICES ASSUME NEW c \in calls
                 PROVE  /\ c.phase \in PhasesOf[c.kind]
                        /\ c.kind = "stage" => Staging(c)'
                        /\ c.kind # "stage" => Bound(c)'
                        /\ c.kind = "write" => Writing(c)'
      BY <1>0 DEF Called
    <3>1. c.kind = "write" => c.op \in Ops /\ reminders'[c.op] = reminders[c.op]
      BY <1>0, <2>1, CalledCalls DEF Writing, Bound, Listed
    <3> QED BY <1>0, <3>1, CalledCalls DEF Staging, Bound, Writing
  <2> QED BY <1>0, <2>2, <2>3, <2>4 DEF FileInv, Reviewed, Single, Handed
<1> QED BY <1>1, <1>2, <1>3

LEMMA DropStep ==
  FileInv /\ (Discard \/ (\E r \in Runs : Select(r)) \/ ReviewTimer) => FileInv'
<1> SUFFICES ASSUME FileInv, Discard \/ (\E r \in Runs : Select(r)) \/ ReviewTimer
             PROVE  FileInv'
  OBVIOUS
<1>0. picks \in 0..MaxPicks
  BY TypesAre DEF FileInv, Bounded
<1>1. /\ review' = NoReview /\ calls' = Orphan(calls) /\ snaps' = Gone({review.snap})
      /\ candidate' \in Runs \cup {NoRun} /\ loading' = FALSE /\ picks' \in 0..MaxPicks
      /\ UNCHANGED <<disk, native, ops, edits, reminders, genuine, crashes>>
  BY <1>0, FileApplyAssumption
     DEF Discard, Select, ReviewTimer, Clear, UnchangedNative, UnchangedSource
<1> QED BY <1>1, Clears

LEMMA SourceStep == FileInv /\ (SourceChanges \/ CancelOperation) => FileInv'
<1> SUFFICES ASSUME FileInv, SourceChanges \/ CancelOperation PROVE FileInv'
  OBVIOUS
<1>1. native \in NativeRecords /\ review \in Reviews
  BY TypesAre DEF FileInv
<1>2. native' \in NativeRecords /\ native'.op = native.op /\ native'.snap = native.snap
  BY <1>1 DEF SourceChanges, opsVars, CancelOperation, NativeCancel, NativeRecords
<1>3. native' = NoOp <=> native = NoOp
  <2>1. CASE native = NoOp
    <3>1. review.op # 0 \/ native' = native
      BY <1>1, Identities DEF SourceChanges, opsVars, CancelOperation, FileInv, Reviewed, NoReview
    <3> QED BY <2>1, <3>1, CallKinds DEF SourceChanges, opsVars, CancelOperation, NativeCancel
  <2>2. CASE native # NoOp
    BY <1>2, <2>2, CallKinds, Identities DEF FileInv, Handed
  <2> QED BY <2>1, <2>2
<1>4. /\ UNCHANGED <<disk, snaps, ops, edits, reminders, candidate, review, loading, calls>>
      /\ genuine' \subseteq Runs /\ UNCHANGED <<crashes, picks>>
  BY TypesAre DEF SourceChanges, opsVars, CancelOperation, UnchangedSource, FileInv, Bounded
<1>5. FileTypeOK'
  BY <1>2, <1>4, TypesAre DEF FileInv, FileTypeOK, FileOpsTypeOK, NativeRecords
<1>6. Called'
  BY <1>2, <1>4 DEF FileInv, Called, Staging, Bound, Writing
<1>7. Reviewed' /\ Single' /\ Remembered'
  BY <1>4 DEF FileInv, Reviewed, Single, Remembered, Sent
<1>8. Handed'
  BY <1>2, <1>3, <1>4 DEF FileInv, Handed
<1> QED BY <1>5, <1>6, <1>7, <1>8 DEF FileInv

LEMMA ExpiryStep == FileInv /\ ReviewExpires => FileInv'
<1> SUFFICES ASSUME FileInv, ReviewExpires PROVE FileInv'
  OBVIOUS
<1>1. /\ review \in Reviews
      /\ UNCHANGED <<disk, snaps, native, ops, edits, reminders, genuine, candidate, loading, calls,
                     crashes, picks>>
  BY TypesAre DEF FileInv, ReviewExpires, UnchangedNative, UnchangedSource
<1>2. /\ review' \in Reviews /\ review'.status = review.status /\ review'.run = review.run
      /\ review'.snap = review.snap /\ review'.op = review.op
  BY <1>1 DEF ReviewExpires, Reviews
<1>3. FileTypeOK'
  BY <1>1, <1>2, TypesAre DEF FileInv, FileTypeOK, FileOpsTypeOK, Reviews
<1>4. Reviewed' /\ review # NoReview
  BY <1>1, <1>2 DEF ReviewExpires, FileInv, Reviewed
<1>5. Called'
  BY <1>1, <1>2, <1>4 DEF FileInv, Called, Staging, Bound, Writing
<1>6. Single' /\ Handed' /\ Remembered'
  BY <1>1 DEF FileInv, Single, Handed, Remembered, Sent
<1> QED BY <1>3, <1>4, <1>5, <1>6 DEF FileInv

LEMMA StagingEnds ==
  ASSUME FileInv, NEW c \in calls, c.kind = "stage", calls' = calls \ {c},
         snaps' \in [Snaps -> SnapRecords], loading' \in BOOLEAN,
         UNCHANGED <<disk, native, ops, edits, reminders, genuine, candidate, review, crashes, picks>>
  PROVE  FileInv'
<1>1. FileTypeOK'
  BY TypesAre DEF FileInv, FileTypeOK, FileOpsTypeOK, SnapRecords
<1>2. Reviewed' /\ Remembered'
  BY DEF FileInv, Reviewed, Remembered, Sent
<1>3. Called'
  BY DEF FileInv, Called, Staging, Bound, Writing
<1>4. Single' /\ Handed'
  BY DEF FileInv, Single, Handed
<1> QED BY <1>1, <1>2, <1>3, <1>4 DEF FileInv

\* Of the calls that stage a file nothing but the call itself is known.
LEMMA StagingMoves ==
  ASSUME FileInv, NEW c \in calls, c.kind = "stage", NEW d \in Calls,
         calls' = (calls \ {c}) \cup {d}, d.mine = c.mine,
         d.kind = "stage", d.phase \in PhasesOf["stage"], Staging(d),
         snaps' \in [Snaps -> SnapRecords], loading' \in BOOLEAN,
         UNCHANGED <<disk, native, ops, edits, reminders, genuine, candidate, review, crashes, picks>>
  PROVE  FileInv'
<1>1. FileTypeOK'
  BY TypesAre DEF FileInv, FileTypeOK, FileOpsTypeOK, SnapRecords
<1>2. Reviewed' /\ Remembered'
  BY DEF FileInv, Reviewed, Remembered, Sent
<1>3. Called'
  BY DEF FileInv, Called, Staging, Bound, Writing
<1>4. Single'
  BY DEF FileInv, Single
<1>5. Handed'
  BY DEF FileInv, Handed
<1> QED BY <1>1, <1>2, <1>3, <1>4, <1>5 DEF FileInv

LEMMA StageStep == FileInv /\ Stage => FileInv'
<1> SUFFICES ASSUME FileInv, NEW c \in calls, c.kind = "stage",
                    StageFails(c) \/ StageSource(c) \/ StageCapture(c),
                    UnchangedNative, UnchangedSource,
                    UNCHANGED <<reminders, candidate, review>>
             PROVE  FileInv'
  BY DEF Stage
<1>0. /\ c \in Calls /\ c.phase \in PhasesOf["stage"] /\ Staging(c)
      /\ snaps \in [Snaps -> SnapRecords] /\ loading \in BOOLEAN /\ calls \subseteq Calls
  BY CalledCalls, TypesAre DEF FileInv, Bounded
<1>1. UNCHANGED <<disk, native, ops, edits, genuine, crashes, picks>>
  BY DEF UnchangedNative, UnchangedSource
<1>2. ASSUME StageFails(c) PROVE FileInv'
  <2>1. /\ calls' = calls \ {c} /\ snaps' = snaps /\ loading' \in BOOLEAN
    BY <1>0, <1>2, Zenon DEF StageFails
  <2> QED BY <1>0, <1>1, <2>1, StagingEnds
<1>3. ASSUME StageSource(c) PROVE FileInv'
  <2>1. snaps' = snaps /\ loading' = loading /\ c.phase = "source"
    BY <1>3 DEF StageSource
  <2>2. CASE c.mine
    <3>1. calls' = (calls \ {c}) \cup {Phased(c, "capture")}
      BY <1>3, <2>2 DEF StageSource, Replace, Phased
    <3>2. Phased(c, "capture") \in Calls /\ "capture" \in Phases
      BY <1>0, MovedCall DEF Phased, Phases, Calls
    <3>3. /\ Phased(c, "capture").phase \in PhasesOf["stage"] /\ Staging(Phased(c, "capture"))
          /\ Phased(c, "capture").kind = "stage" /\ Phased(c, "capture").mine = c.mine
      BY <1>0, <2>1, <3>2, MovedCall DEF Staging, PhasesOf, Phased, Calls
    <3> QED BY <1>0, <1>1, <2>1, <3>1, <3>2, <3>3, StagingMoves
  <2>3. CASE ~c.mine
    <3>1. calls' = calls \ {c}
      BY <1>3, <2>3 DEF StageSource
    <3> QED BY <1>0, <1>1, <2>1, <3>1, StagingEnds
  <2> QED BY <2>2, <2>3
<1>4. ASSUME StageCapture(c) PROVE FileInv'
  <2>1. PICK i \in Snaps : Capture(i, c.path) /\ calls' = (calls \ {c}) \cup {Captured(c, i)}
    BY <1>4 DEF StageCapture, Replace, Captured
  <2>2. Captured(c, i) \in Calls /\ loading' = loading
    BY <1>0, <1>4, MovedCall DEF StageCapture, Phases
  <2>3. /\ Captured(c, i).phase \in PhasesOf["stage"] /\ Staging(Captured(c, i))
        /\ Captured(c, i).kind = "stage" /\ Captured(c, i).mine = c.mine
    BY <1>0, <2>1 DEF Staging, PhasesOf, Captured, Calls
  <2>4. snaps' \in [Snaps -> SnapRecords]
    <3>1. disk[c.path] \in FileContents /\ c.path \in Paths
      BY <1>0, CallKinds, TypesAre DEF FileInv
    <3>2. [st |-> "live", path |-> c.path, base |-> disk[c.path]] \in SnapRecords
      BY <3>1 DEF SnapRecords
    <3> QED BY <1>0, <2>1, <3>2 DEF Capture
  <2> QED BY <1>0, <1>1, <2>1, <2>2, <2>3, <2>4, StagingMoves
<1> QED BY <1>2, <1>3, <1>4

LEMMA StageTargetStep == FileInv /\ (\E p \in Paths : StageTarget(p)) => FileInv'
<1> SUFFICES ASSUME FileInv, NEW p \in Paths, StageTarget(p) PROVE FileInv'
  OBVIOUS
<1> DEFINE new == [kind |-> "stage", phase |-> "source", run |-> candidate, path |-> p,
                   snap |-> 0, op |-> 0, was |-> "none", mine |-> TRUE]
<1>0. /\ calls \subseteq Calls /\ review = NoReview /\ candidate \in Runs
      /\ calls' = Orphan(calls) \cup {new} /\ loading' = TRUE
      /\ UNCHANGED <<disk, native, ops, edits, genuine, crashes, picks, snaps, reminders,
                     candidate, review>>
  BY TypesAre DEF StageTarget, UnchangedNative, UnchangedSource, FileInv, Bounded
<1>1. new \in Calls /\ Staging(new) /\ new.kind = "stage" /\ new.phase \in PhasesOf["stage"]
  BY <1>0 DEF Calls, Phases, Staging, PhasesOf
<1> HIDE DEF new
<1>a. /\ \A c \in calls : Orphaned(c) \in calls'
      /\ \A d \in calls' : d = new \/ \E c \in calls : d = Orphaned(c)
  BY <1>0, Orphans
<1>b. \A c \in calls : /\ Orphaned(c) \in Calls /\ Orphaned(c).mine = FALSE
                       /\ Orphaned(c).kind = c.kind /\ Orphaned(c).phase = c.phase
                       /\ Orphaned(c).snap = c.snap /\ Orphaned(c).op = c.op
  BY <1>0, OrphanedCall
<1>2. FileTypeOK'
  BY <1>0, <1>1, <1>a, <1>b, TypesAre DEF FileInv, FileTypeOK, FileOpsTypeOK, Calls
<1>3. Reviewed' /\ Remembered'
  BY <1>0 DEF FileInv, Reviewed, Remembered, Sent
<1>4. Called'
  <2> SUFFICES ASSUME NEW d \in calls'
               PROVE  /\ d.phase \in PhasesOf[d.kind]
                      /\ d.kind = "stage" => Staging(d)'
                      /\ d.kind # "stage" => Bound(d)'
                      /\ d.kind = "write" => Writing(d)'
    BY DEF Called
  <2>1. CASE d = new
    BY <1>0, <1>1, <2>1 DEF Staging
  <2>2. ASSUME NEW c \in calls, d = Orphaned(c)
        PROVE  /\ d.phase \in PhasesOf[d.kind]
               /\ d.kind = "stage" => Staging(d)'
               /\ d.kind # "stage" => Bound(d)'
               /\ d.kind = "write" => Writing(d)'
    BY <1>0, <1>b, <2>2, CalledCalls, CallKinds, Identities DEF Staging, Bound, Writing
  <2> QED BY <1>a, <2>1, <2>2
<1>5. Single'
  <2>1. ASSUME NEW e \in calls', NEW d \in calls', e.kind # "stage", d.kind # "stage", e.op = d.op
        PROVE  e = d
    <3>1. PICK e1 \in calls : e = Orphaned(e1) /\ e.kind = e1.kind /\ e.op = e1.op
      BY <1>1, <1>a, <1>b, <2>1
    <3>2. PICK d1 \in calls : d = Orphaned(d1) /\ d.kind = d1.kind /\ d.op = d1.op
      BY <1>1, <1>a, <1>b, <2>1
    <3> QED BY <2>1, <3>1, <3>2 DEF FileInv, Single
  <2>2. \A e \in calls' : e.mine => e = new
    BY <1>a, <1>b
  <2> QED BY <2>1, <2>2 DEF Single
<1>6. Handed'
  BY <1>0, <1>a, <1>b DEF FileInv, Handed
<1> QED BY <1>2, <1>3, <1>4, <1>5, <1>6 DEF FileInv

\* The review of a call that is its own is open, and no other call belongs to it.
LEMMA OwnCall ==
  ASSUME FileInv, NEW c \in calls, c.kind # "stage", c.mine
  PROVE  /\ review # NoReview /\ review.op = c.op /\ review.snap = c.snap
         /\ c.op \in Ops /\ c.snap \in Snaps
         /\ \A d \in calls : d.mine => d = c
<1>1. c.op = review.op /\ c.op \in Ops /\ c.snap \in Snaps /\ ops[c.op].snap = c.snap
  BY CalledCalls DEF Bound
<1>2. review # NoReview
  BY <1>1, CallKinds, Identities
<1>3. review.snap = c.snap
  BY <1>1, <1>2 DEF FileInv, Reviewed
<1>4. ASSUME NEW d \in calls, d.mine PROVE d = c
  <2> QED BY <1>4 DEF FileInv, Single
<1> QED BY <1>1, <1>2, <1>3, <1>4

\* The answer to a look at the file or at the run moves the status of its own review.
LEMMA AnswerMoves ==
  ASSUME FileInv, NEW c \in calls, c.kind \in {"check", "verify"}, calls' = calls \ {c},
         snaps' \in [Snaps -> SnapRecords],
         \/ review' = review
         \/ c.mine /\ \E s \in Unsent \cup {"conflict"} : review' = Restated(s),
         UNCHANGED <<disk, native, ops, edits, reminders, genuine, candidate, loading, crashes, picks>>
  PROVE  FileInv'
<1>0. review \in Reviews /\ c \in Calls /\ calls \subseteq Calls
  BY TypesAre DEF FileInv
<1>1. /\ review' \in Reviews
      /\ review' = review \/ (c.mine /\ review' # NoReview /\ review'.op = review.op
                              /\ review'.snap = review.snap /\ review'.run = review.run
                              /\ review'.status \in Unsent \cup {"conflict"})
  <2>1. CASE review' = review
    BY <1>0, <2>1
  <2>2. ASSUME c.mine, NEW s \in Unsent \cup {"conflict"}, review' = Restated(s)
        PROVE  /\ review' \in Reviews /\ review' # NoReview /\ review'.op = review.op
               /\ review'.snap = review.snap /\ review'.run = review.run
               /\ review'.status \in Unsent \cup {"conflict"}
    <3>1. s \in Status /\ s # "none"
      BY DEF Status, Busy, OpenReview, Unsent
    <3> QED BY <1>0, <2>2, <3>1, RestatedReview, CallKinds
  <2> QED BY <2>1, <2>2
<1>2. FileTypeOK'
  BY <1>1, TypesAre DEF FileInv, FileTypeOK, FileOpsTypeOK, SnapRecords, Reviews
<1>3. Reviewed'
  <2>1. CASE review' = review
    BY <2>1 DEF FileInv, Reviewed
  <2>2. CASE review' # review
    <3>1. /\ review # NoReview /\ review.op = c.op /\ ops[review.op].sent = 0
          /\ ~ops[review.op].wrote
      BY <1>1, <2>2, OwnCall, CalledCalls DEF Bound, FileInv, Remembered
    <3>2. review'.status \notin {"none", "applied"}
      BY <1>1, <2>2 DEF Unsent, OpenReview
    <3> QED BY <1>1, <2>2, <3>1, <3>2 DEF FileInv, Reviewed
  <2> QED BY <2>1, <2>2
<1>4. Called'
  <2>1. CASE review' = review
    BY <2>1 DEF FileInv, Called, Staging, Bound, Writing
  <2>2. CASE review' # review
    <3>1. \A d \in calls' : ~d.mine
      BY <1>1, <2>2, OwnCall
    <3> QED BY <1>1, <2>2, <3>1 DEF FileInv, Called, Staging, Bound, Writing
  <2> QED BY <2>1, <2>2
<1>5. Single' /\ Handed' /\ Remembered'
  BY DEF FileInv, Single, Handed, Remembered, Sent
<1> QED BY <1>2, <1>3, <1>4, <1>5 DEF FileInv

LEMMA ValidateAnswerStep == FileInv /\ (\E c \in calls : ValidateAnswer(c)) => FileInv'
<1> SUFFICES ASSUME FileInv, NEW c \in calls, ValidateAnswer(c) PROVE FileInv'
  OBVIOUS
<1>0. /\ c.kind = "check" /\ c.phase \in {"ok", "bad"} /\ snaps \in [Snaps -> SnapRecords]
      /\ UNCHANGED <<disk, native, ops, edits, genuine, crashes, picks, reminders>>
      /\ picks \in 0..MaxPicks
  BY TypesAre DEF ValidateAnswer, UnchangedNative, UnchangedSource, FileInv, Bounded
<1>1. CASE ~c.mine
  <2>1. calls' = calls \ {c} /\ UNCHANGED <<snaps, candidate, review, loading>>
    BY <1>1 DEF ValidateAnswer
  <2> QED BY <1>0, <2>1, AnswerMoves
<1>2. CASE c.mine /\ c.phase = "ok" /\ review.expired
  <2>1. Clear(calls \ {c})
    BY <1>2 DEF ValidateAnswer
  <2>2. /\ review' = NoReview /\ calls' = Orphan(calls \ {c}) /\ snaps' = Gone({review.snap})
        /\ candidate' \in Runs \cup {NoRun} /\ loading' = FALSE /\ picks' \in 0..MaxPicks
    BY <1>0, <2>1 DEF Clear
  <2>3. \A d \in calls \ (calls \ {c}) : d.kind # "write"
    BY <1>0
  <2>4. calls \ {c} \in SUBSET calls
    OBVIOUS
  <2> QED BY <1>0, <2>2, <2>3, <2>4, Clears
<1>3. CASE c.mine /\ c.phase = "ok" /\ ~review.expired
  <2>1. /\ review' = Restated("checked") /\ calls' = calls \ {c}
        /\ UNCHANGED <<snaps, candidate, loading>>
    BY <1>3 DEF ValidateAnswer, Restated
  <2>2. "checked" \in Unsent \cup {"conflict"}
    BY DEF Unsent, OpenReview
  <2> QED BY <1>0, <1>3, <2>1, <2>2, AnswerMoves
<1>4. CASE c.mine /\ c.phase # "ok"
  <2>1. /\ review' = Restated("conflict") /\ calls' = calls \ {c} /\ snaps' = Gone({c.snap})
        /\ UNCHANGED <<candidate, loading>>
    BY <1>4 DEF ValidateAnswer, Restated
  <2>2. snaps' \in [Snaps -> SnapRecords]
    BY <1>0, <2>1, GoneSnaps
  <2> QED BY <1>0, <1>4, <2>1, <2>2, AnswerMoves
<1> QED BY <1>1, <1>2, <1>3, <1>4

\* What one call does to its own operation, and to reminders it pushes off the
\* list, leaves what is known of every other call.
LEMMA OthersStay ==
  ASSUME FileInv, NEW c \in calls, c.kind # "stage",
         review' = review \/ (c.mine /\ review' # NoReview /\ review'.op = review.op),
         \A o \in Ops \ {c.op} : /\ ops'[o] = ops[o] /\ (native'.op = o <=> native.op = o)
                                 /\ \/ reminders'[o] = reminders[o]
                                    \/ reminders'[o] = "dropped" /\ reminders[o] \in Listed
  PROVE  \A e \in calls \ {c} :
           /\ e.phase \in PhasesOf[e.kind]
           /\ e.kind = "stage" => Staging(e)'
           /\ e.kind # "stage" => Bound(e)'
           /\ e.kind = "write" => Writing(e)'
<1>1. c.op \in Ops
  BY CalledCalls DEF Bound
<1> SUFFICES ASSUME NEW e \in calls \ {c}
             PROVE  /\ e.phase \in PhasesOf[e.kind]
                    /\ e.kind = "stage" => Staging(e)'
                    /\ e.kind # "stage" => Bound(e)'
                    /\ e.kind = "write" => Writing(e)'
  OBVIOUS
<1>2. review' = review \/ (~e.mine /\ review'.op = review.op)
  BY OwnCall
<1>3. e.kind = "stage" => Staging(e)'
  BY <1>2, CalledCalls DEF Staging
<1>4. e.kind # "stage" => e.op \in Ops \ {c.op}
  BY CalledCalls DEF Bound, FileInv, Single
<1>5. e.kind # "stage" => Bound(e)'
  BY <1>2, <1>4, CalledCalls, OwnCall DEF Bound
<1>6. e.kind = "write" => Writing(e)'
  BY <1>4, CalledCalls DEF Writing
<1> QED BY <1>3, <1>5, <1>6, CalledCalls

\* A call takes the place of another for the same operation.
LEMMA CallMoves ==
  ASSUME FileInv, NEW c \in calls, c.kind # "stage", NEW d \in Calls, d.kind # "stage",
         calls' = (calls \ {c}) \cup {d}, d.op = c.op, d.mine = c.mine,
         d.phase \in PhasesOf[d.kind], Bound(d)', d.kind = "write" => Writing(d)',
         review' = review \/ (c.mine /\ review' # NoReview /\ review'.op = review.op),
         \A o \in Ops \ {c.op} : /\ ops'[o] = ops[o] /\ (native'.op = o <=> native.op = o)
                                 /\ \/ reminders'[o] = reminders[o]
                                    \/ reminders'[o] = "dropped" /\ reminders[o] \in Listed
  PROVE  Called' /\ Single'
<1>1. Called'
  BY OthersStay DEF Called
<1>2. Single'
  BY DEF FileInv, Single
<1> QED BY <1>1, <1>2

LEMMA ValidateNativeStep == FileInv /\ (\E c \in calls : ValidateNative(c)) => FileInv'
<1> SUFFICES ASSUME FileInv, NEW c \in calls, ValidateNative(c) PROVE FileInv'
  OBVIOUS
<1>0. /\ c.kind = "check" /\ snaps \in [Snaps -> SnapRecords] /\ c \in Calls
      /\ UNCHANGED <<disk, native, ops, edits, genuine, crashes, picks, reminders, candidate,
                     review, loading>>
  BY TypesAre DEF ValidateNative, UnchangedNative, UnchangedSource, FileInv
<1>1. snaps' \in [Snaps -> SnapRecords]
  BY <1>0, GoneSnaps DEF ValidateNative, ValidatedSnaps
<1>2. \E d \in Calls : /\ d.phase \in {"ok", "bad"} /\ d.kind = "check" /\ d.mine = c.mine
                       /\ d.snap = c.snap /\ d.op = c.op
                       /\ calls' = (calls \ {c}) \cup {d}
  <2>0. c.snap \in Snaps
    BY <1>0, CalledCalls DEF Bound
  <2>1. "ok" \in Phases /\ "bad" \in Phases
    BY DEF Phases
  <2>2. CASE Unchanged(c.snap)
    <3>1. calls' = (calls \ {c}) \cup {Phased(c, "ok")}
      BY <2>2 DEF ValidateNative, Replace, Phased
    <3> QED BY <1>0, <2>0, <2>1, <3>1, MovedCall
  <2>3. CASE ~Unchanged(c.snap)
    <3>1. calls' = (calls \ {c}) \cup {Phased(c, "bad")}
      BY <2>3 DEF ValidateNative, Replace, Phased
    <3> QED BY <1>0, <2>0, <2>1, <3>1, MovedCall
  <2> QED BY <2>2, <2>3
<1>3. PICK d \in Calls : /\ d.phase \in {"ok", "bad"} /\ d.kind = "check" /\ d.mine = c.mine
                         /\ d.snap = c.snap /\ d.op = c.op
                         /\ calls' = (calls \ {c}) \cup {d}
  BY <1>2
<1>4. FileTypeOK'
  BY <1>0, <1>1, <1>3, TypesAre DEF FileInv, FileTypeOK, FileOpsTypeOK, SnapRecords
<1>5. Called' /\ Single'
  <2>1. d.phase \in PhasesOf[d.kind] /\ Bound(d)'
    BY <1>0, <1>3, CalledCalls DEF PhasesOf, Bound, Awaited
  <2> QED BY <1>0, <1>3, <2>1, CallMoves
<1>6. Reviewed' /\ Handed' /\ Remembered'
  BY <1>0, <1>3 DEF FileInv, Reviewed, Handed, Remembered, Sent
<1> QED BY <1>4, <1>5, <1>6 DEF FileInv

\* The answer of a capture: a late one lets its baseline go, the page's own opens
\* a review for an operation no call has.
LEMMA StageAnswerStep == FileInv /\ (\E c \in calls : StageAnswer(c)) => FileInv'
<1> SUFFICES ASSUME FileInv, NEW c \in calls, StageAnswer(c) PROVE FileInv'
  OBVIOUS
<1>0. /\ c.kind = "stage" /\ c.phase = "captured" /\ snaps \in [Snaps -> SnapRecords] /\ c \in Calls
      /\ loading' \in BOOLEAN /\ calls' = calls \ {c}
      /\ UNCHANGED <<disk, native, edits, genuine, crashes, picks, reminders, candidate>>
  <2>1. c.mine \in BOOLEAN /\ loading \in BOOLEAN
    BY TypesAre, CallKinds DEF FileInv, Bounded
  <2>2. loading' \in BOOLEAN
    BY <2>1, Zenon DEF StageAnswer
  <2> QED BY <2>2, TypesAre DEF StageAnswer, UnchangedSource, FileInv
<1>1. CASE c.mine /\ snaps[c.snap].base # "candidate"
  <2> DEFINE opened(o) == [status |-> "ready", run |-> c.run, snap |-> c.snap, op |-> o,
                           expired |-> FALSE]
  <2>1. PICK o \in Ops : /\ ops[o] = UnusedOp /\ review' = opened(o) /\ UNCHANGED snaps
                         /\ ops' = [ops EXCEPT ![o].snap = c.snap]
    BY <1>1 DEF StageAnswer, NextOp
  <2>2. /\ review = NoReview /\ c.snap \in Snaps /\ c.run \in Runs
    BY <1>0, <1>1, CalledCalls, CallKinds DEF Staging
  <2>3. /\ review' \in Reviews /\ review'.status = "ready" /\ review'.run \in Runs
        /\ review'.snap = c.snap /\ review'.op = o
    BY <2>1, <2>2 DEF Reviews, Status, OpenReview
  <2>4. /\ ops' \in [Ops -> OpRecords] /\ ops'[o].snap = c.snap
        /\ \A q \in Ops : /\ q # o => ops'[q] = ops[q]
                          /\ ops'[q].sent = ops[q].sent /\ ops'[q].wrote = ops[q].wrote
                          /\ ops'[q].told = ops[q].told
    BY <2>1, <2>2, TypesAre DEF FileInv, OpRecords
  <2>5. ops[o].sent = 0 /\ ops[o].snap = 0 /\ ~ops[o].wrote
    BY <2>1 DEF UnusedOp
  <2>6. FileTypeOK'
    BY <1>0, <2>1, <2>3, <2>4, TypesAre DEF FileInv, FileTypeOK, FileOpsTypeOK, OpRecords, Reviews
  <2>7. Reviewed'
    BY <2>2, <2>3, <2>4, <2>5 DEF Reviewed, Unsent, OpenReview
  <2>8. Called'
    <3>1. ASSUME NEW e \in calls, e # c
          PROVE  /\ ~e.mine
                 /\ e.kind = "stage" => Staging(e)'
                 /\ e.kind # "stage" => Bound(e)'
                 /\ e.kind = "write" => Writing(e)'
      <4>1. ~e.mine
        BY <1>1, <3>1 DEF FileInv, Single
      <4>2. e.kind # "stage" => e.op \in Ops /\ e.op # o
        BY <2>5, CalledCalls, Identities DEF Bound
      <4>3. e.kind = "stage" => Staging(e)'
        BY <4>1, CalledCalls DEF Staging
      <4>4. e.kind # "stage" => Bound(e)'
        BY <2>3, <2>4, <4>1, <4>2, CalledCalls DEF Bound
      <4>5. e.kind = "write" => Writing(e)'
        BY <1>0, <2>4, <4>2, CalledCalls DEF Writing
      <4> QED BY <4>1, <4>3, <4>4, <4>5
    <3> QED BY <1>0, <3>1, CalledCalls DEF Called
  <2>9. Single' /\ Handed'
    <3>1. native # NoOp => native.op # o
      BY <2>5, Identities DEF FileInv, Handed
    <3> QED BY <1>0, <2>4, <3>1 DEF FileInv, Single, Handed
  <2>10. Remembered'
    <3>1. \A q \in Ops : Sent(q)' = Sent(q)
      BY <2>4 DEF Sent
    <3> QED BY <1>0, <2>4, <3>1 DEF FileInv, Remembered
  <2> QED BY <2>6, <2>7, <2>8, <2>9, <2>10 DEF FileInv
<1>2. CASE ~(c.mine /\ snaps[c.snap].base # "candidate")
  <2>1. snaps' = Gone({c.snap}) /\ UNCHANGED <<review, ops>>
    BY <1>2 DEF StageAnswer
  <2>2. snaps' \in [Snaps -> SnapRecords]
    BY <1>0, <2>1, GoneSnaps
  <2> QED BY <1>0, <2>1, <2>2, StagingEnds
<1> QED BY <1>1, <1>2

\* A look at the file or at the run is asked for by an open review: no call is its own yet.
LEMMA AskStep ==
  FileInv /\ (Validate \/ Apply) => FileInv'
<1> SUFFICES ASSUME FileInv, NEW k \in {"check", "verify"}, review.status \in OpenReview,
                    Ask(k, Awaited[k]), UnchangedNative, UnchangedSource, UNCHANGED reminders
             PROVE  FileInv'
  BY DEF Validate, Apply, Awaited
<1>0. /\ review \in Reviews /\ calls \subseteq Calls /\ snaps \in [Snaps -> SnapRecords]
      /\ picks \in 0..MaxPicks
      /\ UNCHANGED <<disk, native, ops, edits, genuine, crashes, picks, reminders>>
  BY TypesAre DEF UnchangedNative, UnchangedSource, FileInv, Bounded
<1>1. CASE review.expired
  <2>1. /\ review' = NoReview /\ calls' = Orphan(calls) /\ snaps' = Gone({review.snap})
        /\ candidate' \in Runs \cup {NoRun} /\ loading' = FALSE /\ picks' \in 0..MaxPicks
    BY <1>0, <1>1 DEF Ask, Clear
  <2> QED BY <1>0, <2>1, Clears
<1>2. CASE ~review.expired
  <2>1. /\ review' = Restated(Awaited[k]) /\ calls' = calls \cup {Call(k, "asked", review.status)}
        /\ UNCHANGED <<snaps, candidate, loading>>
    BY <1>2 DEF Ask, Restated
  <2>2. /\ review # NoReview /\ review.run \in Runs /\ review.snap \in Snaps /\ review.op \in Ops
        /\ ops[review.op].snap = review.snap /\ ops[review.op].sent = 0
    BY CallKinds DEF FileInv, Reviewed, OpenReview, Unsent
  <2>3. Awaited[k] \in Status /\ Awaited[k] \in Unsent /\ Awaited[k] # "none"
    BY DEF Awaited, Status, Busy, Unsent
  <2>4. /\ review' \in Reviews /\ review'.status = Awaited[k] /\ review'.run = review.run
        /\ review'.snap = review.snap /\ review'.op = review.op /\ review' # NoReview
    BY <1>0, <2>1, <2>3, RestatedReview, CallKinds
  <2>5. PICK new \in Calls : /\ new.kind = k /\ new.phase = "asked" /\ new.mine = TRUE
                             /\ new.op = review.op /\ new.snap = review.snap
                             /\ new.was = review.status
                             /\ calls' = calls \cup {new}
    <3>1. snaps[review.snap].path \in Paths
      BY <1>0, <2>2 DEF SnapRecords
    <3>2. /\ Call(k, "asked", review.status) \in Calls
          /\ Call(k, "asked", review.status).kind = k
          /\ Call(k, "asked", review.status).phase = "asked"
          /\ Call(k, "asked", review.status).mine = TRUE
          /\ Call(k, "asked", review.status).op = review.op
          /\ Call(k, "asked", review.status).snap = review.snap
          /\ Call(k, "asked", review.status).was = review.status
      BY <2>2, <3>1 DEF Call, Calls, Phases
    <3> QED BY <2>1, <3>2
  <2>6. \A e \in calls : /\ ~e.mine
                         /\ e.kind # "stage" => e.op # review.op
    BY <2>2, CalledCalls, CallKinds, <1>0 DEF Staging, Bound, Awaited, OpenReview
  <2>7. FileTypeOK'
    BY <1>0, <2>1, <2>4, <2>5, TypesAre DEF FileInv, FileTypeOK, FileOpsTypeOK, Reviews
  <2>8. Reviewed'
    BY <1>0, <2>2, <2>3, <2>4 DEF Reviewed, Unsent, OpenReview
  <2>9. Called'
    <3>1. new.phase \in PhasesOf[new.kind] /\ Bound(new)' /\ new.kind # "write"
      BY <1>0, <2>2, <2>4, <2>5 DEF PhasesOf, Bound
    <3>2. \A e \in calls : /\ e.phase \in PhasesOf[e.kind]
                           /\ e.kind = "stage" => Staging(e)'
                           /\ e.kind # "stage" => Bound(e)'
                           /\ e.kind = "write" => Writing(e)'
      BY <1>0, <2>4, <2>6, CalledCalls DEF Staging, Bound, Writing
    <3>3. new.kind # "stage"
      BY <2>5
    <3> QED BY <2>5, <3>1, <3>2, <3>3 DEF Called
  <2>10. Single'
    BY <2>1, <2>5, <2>6 DEF FileInv, Single
  <2>11. Handed' /\ Remembered'
    BY <1>0, <2>1 DEF FileInv, Handed, Remembered, Sent
  <2> QED BY <2>7, <2>8, <2>9, <2>10, <2>11 DEF FileInv
<1> QED BY <1>1, <1>2

\* Storing a reminder pushes off the end of the list only what newer ones displace.
LEMMA Pushed ==
  ASSUME FileInv, NEW o \in Ops, reminders' = Begun(o), ops[o].sent = 0,
         ops'[o].sent = 1, \A q \in Ops \ {o} : ops'[q] = ops[q]
  PROVE  /\ reminders' \in [Ops -> ReminderStatus]
         /\ reminders'[o] \in {"in_flight", "dropped"}
         /\ \A q \in Ops \ {o} : \/ reminders'[q] = reminders[q]
                                 \/ reminders'[q] = "dropped" /\ reminders[q] \in Listed
         /\ \A q \in Ops : reminders'[q] = "dropped" => Cardinality(Sent(q)') >= ReminderCap
<1> DEFINE r == [reminders EXCEPT ![o] = "in_flight"]
<1>0. /\ reminders \in [Ops -> ReminderStatus] /\ Ops \subseteq Nat /\ IsFiniteSet(Ops)
      /\ ReminderCap \in Nat
      /\ \A q \in Ops : /\ ops[q].sent \in {0, 1}
                        /\ reminders[q] = "none" <=> ops[q].sent = 0
                        /\ reminders[q] = "dropped" => Cardinality(Sent(q)) >= ReminderCap
  BY TypesAre, Identities DEF FileInv, Remembered
<1>1. r \in [Ops -> ReminderStatus] /\ r[o] = "in_flight" /\ \A q \in Ops \ {o} : r[q] = reminders[q]
  BY <1>0 DEF ReminderStatus, Listed
<1>2. reminders' = Trim(r)
  BY DEF Begun
<1> HIDE DEF r
<1>3. \A q \in Ops : \/ Trim(r)[q] = r[q]
                     \/ /\ Trim(r)[q] = "dropped" /\ r[q] \in Listed
                        /\ Cardinality(Newer(q, r)) >= ReminderCap
  BY DEF Trim
<1>4. \A q \in Ops : Newer(q, r) \subseteq Sent(q)' /\ Sent(q) \subseteq Sent(q)'
  <2> SUFFICES ASSUME NEW q \in Ops, NEW p \in Ops, p > q
               PROVE  (r[p] \in Listed => ops'[p].sent > 0) /\ (ops[p].sent > 0 => ops'[p].sent > 0)
    BY DEF Newer, Sent
  <2> QED BY <1>0, <1>1 DEF Listed
<1>5. \A q \in Ops : /\ Cardinality(Newer(q, r)) <= Cardinality(Sent(q)')
                     /\ Cardinality(Sent(q)) <= Cardinality(Sent(q)')
                     /\ Cardinality(Sent(q)') \in Nat /\ Cardinality(Sent(q)) \in Nat
                     /\ Cardinality(Newer(q, r)) \in Nat
  <2> SUFFICES ASSUME NEW q \in Ops
               PROVE  /\ Cardinality(Newer(q, r)) <= Cardinality(Sent(q)')
                      /\ Cardinality(Sent(q)) <= Cardinality(Sent(q)')
                      /\ Cardinality(Sent(q)') \in Nat /\ Cardinality(Sent(q)) \in Nat
                      /\ Cardinality(Newer(q, r)) \in Nat
    OBVIOUS
  <2>1. Sent(q)' \subseteq Ops
    BY DEF Sent
  <2>2. IsFiniteSet(Sent(q)') /\ IsFiniteSet(Sent(q)) /\ IsFiniteSet(Newer(q, r))
    BY <1>0, <1>4, <2>1, FS_Subset
  <2> QED BY <1>4, <2>2, FS_Subset, FS_CardinalityType
<1>6. \A q \in Ops : Trim(r)[q] = "dropped" => Cardinality(Sent(q)') >= ReminderCap
  <2> SUFFICES ASSUME NEW q \in Ops, Trim(r)[q] = "dropped"
               PROVE  Cardinality(Sent(q)') >= ReminderCap
    OBVIOUS
  <2>1. CASE Cardinality(Newer(q, r)) >= ReminderCap
    BY <1>0, <1>5, <2>1
  <2>2. CASE r[q] = "dropped"
    BY <1>0, <1>1, <1>5, <2>2
  <2> QED BY <1>3, <2>1, <2>2
<1>7. Trim(r) \in [Ops -> ReminderStatus]
  <2>1. DOMAIN Trim(r) = Ops /\ Trim(r) = [q \in Ops |-> Trim(r)[q]]
    BY DEF Trim
  <2> QED BY <1>1, <1>3, <2>1 DEF ReminderStatus
<1> QED BY <1>1, <1>2, <1>3, <1>6, <1>7

LEMMA VerifyAnswerStep ==
  FileInv /\ (\E c \in calls : \E a \in SourceAnswers : VerifyAnswer(c, a)) => FileInv'
<1> SUFFICES ASSUME FileInv, NEW c \in calls, NEW a \in SourceAnswers, VerifyAnswer(c, a)
             PROVE  FileInv'
  OBVIOUS
<1>0. /\ c.kind = "verify" /\ c.phase = "asked" /\ snaps \in [Snaps -> SnapRecords] /\ c \in Calls
      /\ UNCHANGED <<disk, native, edits, genuine, crashes, picks>>
      /\ picks \in 0..MaxPicks /\ review \in Reviews
  BY TypesAre, CalledCalls DEF VerifyAnswer, UnchangedSource, FileInv, Bounded, PhasesOf
<1>1. CASE ~c.mine
  <2>1. calls' = calls \ {c} /\ UNCHANGED <<snaps, candidate, review, loading, ops, reminders>>
    BY <1>1 DEF VerifyAnswer
  <2> QED BY <1>0, <2>1, AnswerMoves
<1>2. CASE c.mine /\ a = "changed"
  <2>1. /\ review' = Restated("conflict") /\ calls' = calls \ {c} /\ snaps' = Gone({c.snap})
        /\ UNCHANGED <<candidate, loading, ops, reminders>>
    BY <1>2 DEF VerifyAnswer, Restated
  <2>2. snaps' \in [Snaps -> SnapRecords]
    BY <1>0, <2>1, GoneSnaps
  <2> QED BY <1>0, <1>2, <2>1, <2>2, AnswerMoves
<1>3. CASE c.mine /\ a = "unreachable"
  <2>1. /\ review' = Restated(c.was) /\ calls' = calls \ {c}
        /\ UNCHANGED <<snaps, candidate, loading, ops, reminders>>
    BY <1>3 DEF VerifyAnswer, Restated
  <2>2. c.was \in Unsent
    BY <1>0, <1>3, CalledCalls DEF Unsent, Bound
  <2> QED BY <1>0, <1>3, <2>1, <2>2, AnswerMoves
<1>4. CASE c.mine /\ a = "current" /\ review.expired
  <2>1. Clear(calls \ {c}) /\ UNCHANGED <<ops, reminders>>
    BY <1>4 DEF VerifyAnswer
  <2>2. /\ review' = NoReview /\ calls' = Orphan(calls \ {c}) /\ snaps' = Gone({review.snap})
        /\ candidate' \in Runs \cup {NoRun} /\ loading' = FALSE /\ picks' \in 0..MaxPicks
    BY <1>0, <2>1 DEF Clear
  <2>3. \A d \in calls \ (calls \ {c}) : d.kind # "write"
    BY <1>0
  <2>4. calls \ {c} \in SUBSET calls
    OBVIOUS
  <2> QED BY <1>0, <2>1, <2>2, <2>3, <2>4, Clears
<1>5. CASE c.mine /\ a = "current" /\ ~review.expired
  <2>1. /\ review' = Restated("writing") /\ reminders' = Begun(c.op)
        /\ ops' = [ops EXCEPT ![c.op].sent = @ + 1]
        /\ calls' = (calls \ {c}) \cup {Turned(c)}
        /\ UNCHANGED <<snaps, candidate, loading>>
    BY <1>5 DEF VerifyAnswer, Restated, Turned, Replace
  <2>2. /\ review # NoReview /\ review.op = c.op /\ review.snap = c.snap /\ c.op \in Ops
        /\ c.snap \in Snaps /\ review.run \in Runs /\ ops[c.op].snap = c.snap
        /\ ops[c.op].sent = 0 /\ ~ops[c.op].wrote /\ ~ops[c.op].told
    BY <1>0, <1>5, OwnCall, CalledCalls DEF FileInv, Reviewed, Bound, Remembered
  <2>3. /\ review' \in Reviews /\ review'.status = "writing" /\ review'.run = review.run
        /\ review'.snap = c.snap /\ review'.op = c.op /\ review' # NoReview
    BY <1>0, <2>1, <2>2, RestatedReview, CallKinds DEF Status, Busy
  <2>4. PICK d \in Calls : /\ d.kind = "write" /\ d.phase = "asked" /\ d.mine = c.mine
                           /\ d.op = c.op /\ d.snap = c.snap
                           /\ calls' = (calls \ {c}) \cup {d}
    <3>1. "asked" \in Phases
      BY DEF Phases
    <3> QED BY <1>0, <2>1, <2>2, <3>1, MovedCall
  <2>5. /\ ops' \in [Ops -> OpRecords] /\ ops'[c.op].sent = 1 /\ ops'[c.op].snap = c.snap
        /\ ~ops'[c.op].wrote /\ ~ops'[c.op].told
        /\ \A q \in Ops \ {c.op} : ops'[q] = ops[q]
    BY <2>1, <2>2, TypesAre DEF FileInv, OpRecords
  <2>6. /\ reminders' \in [Ops -> ReminderStatus]
        /\ reminders'[c.op] \in {"in_flight", "dropped"}
        /\ \A q \in Ops \ {c.op} : \/ reminders'[q] = reminders[q]
                                   \/ reminders'[q] = "dropped" /\ reminders[q] \in Listed
        /\ \A q \in Ops : reminders'[q] = "dropped" => Cardinality(Sent(q)') >= ReminderCap
    BY <2>1, <2>2, <2>5, Pushed
  <2>7. native.op # c.op
    BY <1>0, <2>2, CallKinds, Identities DEF FileInv, Handed, Single
  <2>8. FileTypeOK'
    BY <1>0, <2>1, <2>3, <2>4, <2>5, <2>6, TypesAre
       DEF FileInv, FileTypeOK, FileOpsTypeOK, OpRecords, Reviews
  <2>9. Reviewed'
    BY <2>2, <2>3, <2>5 DEF Reviewed, Unsent, OpenReview
  <2>10. Called' /\ Single'
    <3>1. d.phase \in PhasesOf[d.kind] /\ Bound(d)' /\ Writing(d)' /\ d.kind # "stage"
      BY <1>0, <1>5, <2>2, <2>3, <2>4, <2>5, <2>6, <2>7 DEF PhasesOf, Bound, Writing, Awaited
    <3> QED BY <1>0, <1>5, <2>2, <2>3, <2>4, <2>5, <2>6, <3>1, CallMoves
  <2>11. Handed'
    BY <1>0, <2>4, <2>5, <2>7 DEF FileInv, Handed
  <2>12. Remembered'
    <3> SUFFICES ASSUME NEW o \in Ops
                 PROVE  /\ ops'[o].sent \in {0, 1}
                        /\ ops'[o].sent = 0 => ~ops'[o].wrote /\ ~ops'[o].told
                        /\ reminders'[o] = "none" <=> ops'[o].sent = 0
                        /\ reminders'[o] = "confirmed" => ops'[o].told
      BY <2>6 DEF Remembered
    <3>1. CASE o = c.op
      BY <2>5, <2>6, <3>1
    <3>2. CASE o # c.op
      BY <2>5, <2>6, <3>2 DEF FileInv, Remembered, Listed
    <3> QED BY <3>1, <3>2
  <2> QED BY <2>8, <2>9, <2>10, <2>11, <2>12 DEF FileInv
<1> QED BY <1>1, <1>2, <1>3, <1>4, <1>5 DEF SourceAnswers

\* A write goes on: what it does is for its own operation.
LEMMA WritingMoves ==
  ASSUME FileInv, NEW c \in calls, c.kind = "write", NEW p \in PhasesOf["write"],
         calls' = (calls \ {c}) \cup {Phased(c, p)},
         review' = review, reminders' = reminders,
         native' \in NativeRecords, ops' \in [Ops -> OpRecords],
         disk' \in [Paths -> FileContents], snaps' \in [Snaps -> SnapRecords],
         \A o \in Ops \ {c.op} : ops'[o] = ops[o] /\ (native'.op = o <=> native.op = o),
         /\ ops'[c.op].sent = ops[c.op].sent /\ ops'[c.op].snap = ops[c.op].snap
         /\ ops'[c.op].told = ops[c.op].told,
         p \in {"asked", "running", "cancelled"} => ~ops'[c.op].wrote,
         p = "applied" => ops'[c.op].wrote,
         p = "running" <=> native'.op = c.op,
         native' = NoOp \/ (native' = native /\ native.op # c.op)
           \/ (native'.op = c.op /\ native'.snap = c.snap),
         UNCHANGED <<edits, genuine, candidate, loading, crashes, picks>>
  PROVE  FileInv'
<1>0. /\ c \in Calls /\ Bound(c) /\ Writing(c) /\ p \in Phases /\ c.op \in Ops /\ c.snap \in Snaps
      /\ ops[c.op].snap = c.snap
  BY CalledCalls DEF PhasesOf, Phases, Bound
<1>1. PICK d \in Calls : /\ d.kind = "write" /\ d.phase = p /\ d.mine = c.mine
                         /\ d.op = c.op /\ d.snap = c.snap
                         /\ calls' = (calls \ {c}) \cup {d}
  <2>1. /\ Phased(c, p) \in Calls /\ Phased(c, p).phase = p
        /\ Phased(c, p).kind = c.kind /\ Phased(c, p).mine = c.mine
        /\ Phased(c, p).snap = c.snap /\ Phased(c, p).op = c.op
    BY ONLY <1>0, MovedCall
  <2> QED BY <2>1
<1>2. FileTypeOK'
  BY <1>1, TypesAre DEF FileInv, FileTypeOK, FileOpsTypeOK, OpRecords, NativeRecords, SnapRecords
<1>3. Called' /\ Single'
  <2>1. d.phase \in PhasesOf[d.kind] /\ Bound(d)' /\ Writing(d)' /\ d.kind # "stage"
    BY <1>0, <1>1 DEF Bound, Writing
  <2> QED BY <1>1, <2>1, CallMoves
<1>4. Reviewed'
  <2>1. CASE review.op = c.op
    BY <1>0, <2>1, CallKinds, Identities DEF FileInv, Reviewed, Bound, Awaited, Unsent, OpenReview
  <2>2. CASE review.op # c.op
    BY <2>2 DEF FileInv, Reviewed
  <2> QED BY <2>1, <2>2
<1>5. Handed'
  <2>1. CASE native' = NoOp
    BY <2>1 DEF Handed
  <2>2. CASE native'.op = c.op /\ native'.snap = c.snap
    BY <1>0, <1>1, <2>2 DEF Handed
  <2>3. CASE native' = native /\ native.op # c.op
    BY <1>1, <2>3 DEF FileInv, Handed
  <2> QED BY <2>1, <2>2, <2>3
<1>6. Remembered'
  <2>1. \A o \in Ops : ops'[o].sent = ops[o].sent /\ ops'[o].told = ops[o].told
    OBVIOUS
  <2>2. \A o \in Ops : Sent(o)' = Sent(o)
    BY <2>1 DEF Sent
  <2>3. ops[c.op].sent = 1
    BY <1>0 DEF Writing
  <2> QED BY <2>1, <2>2, <2>3 DEF FileInv, Remembered
<1> QED BY <1>2, <1>3, <1>4, <1>5, <1>6 DEF FileInv

LEMMA WriteBeginStep == FileInv /\ (\E c \in calls : WriteBegin(c)) => FileInv'
<1> SUFFICES ASSUME FileInv, NEW c \in calls, WriteBegin(c) PROVE FileInv'
  OBVIOUS
<1>0. /\ c.kind = "write" /\ c.phase = "asked" /\ snaps \in [Snaps -> SnapRecords]
      /\ Bound(c) /\ Writing(c) /\ c.op \in Ops /\ c.snap \in Snaps
      /\ native \in NativeRecords /\ ops \in [Ops -> OpRecords] /\ disk \in [Paths -> FileContents]
      /\ UNCHANGED <<disk, ops, edits, reminders, candidate, review, loading, genuine, crashes, picks>>
  BY TypesAre, CalledCalls DEF WriteBegin, UnchangedSource, FileInv, Bound
<1>1. snaps' \in [Snaps -> SnapRecords]
  BY <1>0, GoneSnaps DEF WriteBegin, NativeBegin
<1>2. native.op # c.op
  BY <1>0 DEF Writing
<1>3. CASE NativeBegins(c.op, c.snap)
  <2>1. /\ native = NoOp /\ native' = [op |-> c.op, snap |-> c.snap, cancelled |-> FALSE]
        /\ calls' = (calls \ {c}) \cup {Phased(c, "running")}
    BY <1>3 DEF WriteBegin, NativeBegin, NativeBegins, Replace, Phased
  <2>2. native' \in NativeRecords /\ native'.op = c.op /\ native'.snap = c.snap
    BY <1>0, <2>1 DEF NativeRecords
  <2>3. \A o \in Ops \ {c.op} : native'.op = o <=> native.op = o
    BY <2>1, <2>2, CallKinds, Identities
  <2>4. "running" \in PhasesOf["write"] /\ ~ops[c.op].wrote
    BY <1>0 DEF PhasesOf, Writing
  <2> QED BY <1>0, <1>1, <2>1, <2>2, <2>3, <2>4, WritingMoves
<1>4. CASE ~NativeBegins(c.op, c.snap)
  <2>1. native' = native /\ calls' = (calls \ {c}) \cup {Phased(c, "error")}
    BY <1>4 DEF WriteBegin, NativeBegin, Replace, Phased
  <2>2. "error" \in PhasesOf["write"]
    BY DEF PhasesOf
  <2> QED BY <1>0, <1>1, <1>2, <2>1, <2>2, WritingMoves
<1> QED BY <1>3, <1>4

\* The exchange is for the operation in hand.
LEMMA Exchanged ==
  ASSUME FileInv, Exchange, native.op \in Ops, native.snap \in Snaps
  PROVE  /\ disk' \in [Paths -> FileContents] /\ ops' \in [Ops -> OpRecords]
         /\ \A o \in Ops \ {native.op} : ops'[o] = ops[o]
         /\ ops'[native.op].wrote
         /\ ops'[native.op].sent = ops[native.op].sent
         /\ ops'[native.op].snap = ops[native.op].snap
         /\ ops'[native.op].told = ops[native.op].told
<1>1. /\ disk \in [Paths -> FileContents] /\ ops \in [Ops -> OpRecords]
      /\ snaps[native.snap].path \in Paths
  BY TypesAre DEF FileInv, SnapRecords
<1>2. disk' \in [Paths -> FileContents]
  BY <1>1 DEF Exchange, FileContents
<1>3. /\ ops' \in [Ops -> OpRecords]
      /\ \A o \in Ops \ {native.op} : ops'[o] = ops[o]
      /\ ops'[native.op].wrote
      /\ ops'[native.op].sent = ops[native.op].sent
      /\ ops'[native.op].snap = ops[native.op].snap
      /\ ops'[native.op].told = ops[native.op].told
  BY <1>1 DEF Exchange, OpRecords
<1> QED BY <1>2, <1>3

LEMMA WriteNativeStep ==
  FileInv /\ (\E c \in calls : \E a \in DOMAIN Outcome : WriteNative(c, a)) => FileInv'
<1> SUFFICES ASSUME FileInv, NEW c \in calls, NEW a \in DOMAIN Outcome, WriteNative(c, a)
             PROVE  FileInv'
  OBVIOUS
<1>0. /\ c.kind = "write" /\ c.phase = "running" /\ snaps \in [Snaps -> SnapRecords]
      /\ Bound(c) /\ Writing(c) /\ c.op \in Ops /\ c.snap \in Snaps
      /\ native \in NativeRecords /\ ops \in [Ops -> OpRecords] /\ disk \in [Paths -> FileContents]
      /\ UNCHANGED <<snaps, edits, reminders, candidate, review, loading, genuine, crashes, picks>>
      /\ native' = NoOp /\ calls' = (calls \ {c}) \cup {Phased(c, a)}
  BY TypesAre, CalledCalls DEF WriteNative, UnchangedSource, FileInv, Bound, Replace, Phased
<1>1. native.op = c.op /\ native.snap \in Snaps /\ ~ops[c.op].wrote
  BY <1>0, CallKinds, Identities DEF Writing, FileInv, Handed
<1>2. /\ a \in PhasesOf["write"] /\ a \in {"applied", "cancelled", "error"}
      /\ native' \in NativeRecords /\ native'.op = 0
  BY <1>0, CallKinds DEF PhasesOf, Outcome
<1>3. \A o \in Ops : o # c.op => (native'.op = o <=> native.op = o)
  BY <1>1, <1>2, Identities
<1>4. native'.op # c.op
  BY <1>0, <1>2, Identities
<1>5. CASE a \in {"cancelled", "error"} /\ UNCHANGED <<disk, ops>>
  BY <1>0, <1>1, <1>2, <1>3, <1>4, <1>5, WritingMoves
<1>6. CASE a \in {"applied", "error"} /\ Exchange
  BY <1>0, <1>1, <1>2, <1>3, <1>4, <1>6, Exchanged, WritingMoves
<1> QED BY <1>5, <1>6 DEF WriteNative

LEMMA WriteAnswerStep == FileInv /\ (\E c \in calls : WriteAnswer(c)) => FileInv'
<1> SUFFICES ASSUME FileInv, NEW c \in calls, WriteAnswer(c) PROVE FileInv'
  OBVIOUS
<1> DEFINE how == Settlement[c.phase]
<1>0. /\ c.kind = "write" /\ c.phase \in {"applied", "cancelled", "error"} /\ c \in Calls
      /\ Bound(c) /\ Writing(c) /\ c.op \in Ops /\ c.snap \in Snaps
      /\ review \in Reviews /\ ops \in [Ops -> OpRecords] /\ reminders \in [Ops -> ReminderStatus]
      /\ UNCHANGED <<disk, snaps, native, edits, candidate, loading, genuine, crashes, picks>>
      /\ calls' = calls \ {c} /\ reminders' = Settled(c.op, how)
      /\ ops' = [ops EXCEPT ![c.op].told = c.phase # "error"]
  BY TypesAre, CalledCalls DEF WriteAnswer, UnchangedSource, FileInv, Bound, Outcome
<1>1. how \in {"confirmed", "uncertain"} /\ (how = "confirmed" => c.phase # "error")
  BY <1>0 DEF Settlement
<1> HIDE DEF how
<1>2. /\ ops' \in [Ops -> OpRecords] /\ ops'[c.op].sent = 1 /\ ops'[c.op].snap = ops[c.op].snap
      /\ ops'[c.op].wrote = ops[c.op].wrote /\ (ops'[c.op].told <=> c.phase # "error")
      /\ \A o \in Ops \ {c.op} : ops'[o] = ops[o]
  BY <1>0 DEF OpRecords, Writing
<1>3. /\ reminders' \in [Ops -> ReminderStatus]
      /\ reminders'[c.op] \in {how, "dropped"}
      /\ reminders'[c.op] = "dropped" => reminders[c.op] = "dropped"
      /\ \A o \in Ops \ {c.op} : reminders'[o] = reminders[o]
  <2>1. CASE reminders[c.op] = "in_flight"
    BY <1>0, <1>1, <2>1 DEF Settled, Listed, ReminderStatus
  <2>2. CASE reminders[c.op] = "dropped"
    BY <1>0, <2>2 DEF Settled, Listed
  <2> QED BY <1>0, <2>1, <2>2 DEF Writing
<1>4. /\ review' \in Reviews
      /\ ~c.mine => review' = review
      /\ c.mine => /\ review'.status = Outcome[c.phase] /\ review'.run = review.run
                   /\ review'.snap = review.snap /\ review'.op = review.op
                   /\ review # NoReview /\ review' # NoReview /\ review.op = c.op
  <2>1. CASE c.mine
    <3>1. Outcome[c.phase] \in Status /\ Outcome[c.phase] # "none"
      BY <1>0 DEF Outcome, Status
    <3>2. review' = Restated(Outcome[c.phase])
      BY <2>1 DEF WriteAnswer, Restated
    <3> QED BY <1>0, <2>1, <3>1, <3>2, RestatedReview, OwnCall, CallKinds
  <2>2. CASE ~c.mine
    BY <1>0, <2>2 DEF WriteAnswer
  <2> QED BY <2>1, <2>2
<1>5. FileTypeOK'
  BY <1>0, <1>2, <1>3, <1>4, TypesAre
     DEF FileInv, FileTypeOK, FileOpsTypeOK, OpRecords, Reviews
<1>6. Reviewed'
  <2>1. CASE c.mine
    <3>1. Outcome[c.phase] \notin Unsent /\ Outcome[c.phase] # "none"
      BY <1>0 DEF Outcome, Unsent, OpenReview
    <3>2. /\ Outcome[c.phase] = "conflict" => c.phase = "cancelled"
          /\ Outcome[c.phase] = "applied" => c.phase = "applied"
      BY <1>0 DEF Outcome
    <3> QED BY <1>0, <1>2, <1>4, <2>1, <3>1, <3>2 DEF FileInv, Reviewed, Writing
  <2>2. CASE ~c.mine
    <3>1. review.op # c.op
      BY <1>0, <2>2 DEF Bound
    <3> QED BY <1>2, <1>4, <2>2, <3>1 DEF FileInv, Reviewed
  <2> QED BY <2>1, <2>2
<1>7. Called'
  <2>1. \A o \in Ops \ {c.op} : /\ ops'[o] = ops[o] /\ (native'.op = o <=> native.op = o)
                                /\ reminders'[o] = reminders[o]
    BY <1>0, <1>2, <1>3
  <2>2. review' = review \/ (c.mine /\ review' # NoReview /\ review'.op = review.op)
    BY <1>4
  <2> QED BY <1>0, <2>1, <2>2, OthersStay DEF Called
<1>8. Single'
  BY <1>0 DEF FileInv, Single
<1>9. Handed'
  <2>1. native.op # c.op
    BY <1>0 DEF Writing
  <2> QED BY <1>0, <1>2, <2>1 DEF FileInv, Handed
<1>10. Remembered'
  <2>1. \A o \in Ops : ops'[o].sent = ops[o].sent
    BY <1>0, <1>2 DEF Writing
  <2>2. \A o \in Ops : Sent(o)' = Sent(o)
    BY <2>1 DEF Sent
  <2> SUFFICES ASSUME NEW o \in Ops
               PROVE  /\ ops'[o].sent \in {0, 1}
                      /\ ops'[o].sent = 0 => ~ops'[o].wrote /\ ~ops'[o].told
                      /\ reminders'[o] = "none" <=> ops'[o].sent = 0
                      /\ reminders'[o] = "confirmed" => ops'[o].told
                      /\ reminders'[o] = "dropped" => Cardinality(Sent(o)') >= ReminderCap
    BY DEF Remembered
  <2>3. CASE o = c.op
    BY <1>0, <1>1, <1>2, <1>3, <2>2, <2>3 DEF FileInv, Remembered
  <2>4. CASE o # c.op
    BY <1>2, <1>3, <2>2, <2>4 DEF FileInv, Remembered
  <2> QED BY <2>3, <2>4
<1> QED BY <1>5, <1>6, <1>7, <1>8, <1>9, <1>10 DEF FileInv

LEMMA ExitStep == FileInv /\ Exit => FileInv'
<1> SUFFICES ASSUME FileInv, Exit PROVE FileInv'
  OBVIOUS
<1>0. /\ snaps \in [Snaps -> SnapRecords] /\ ops \in [Ops -> OpRecords]
      /\ disk \in [Paths -> FileContents] /\ reminders \in [Ops -> ReminderStatus]
      /\ candidate' = NoRun /\ review' = NoReview /\ loading' = FALSE /\ calls' = {}
      /\ snaps' = Gone(Snaps) /\ native' = NoOp /\ reminders' = Reloaded
      /\ UNCHANGED <<genuine, edits, picks>> /\ crashes' \in 0..MaxCrashes
  BY TypesAre, FileApplyAssumption DEF Exit, FileInv, Bounded
<1>1. /\ ops' \in [Ops -> OpRecords] /\ disk' \in [Paths -> FileContents]
      /\ \A o \in Ops : /\ ops'[o].sent = ops[o].sent /\ ops'[o].told = ops[o].told
                        /\ ops'[o].wrote /\ ~ops[o].wrote => ops[o].sent = 1
  <2>1. CASE UNCHANGED <<disk, ops>>
    BY <1>0, <2>1
  <2>2. CASE native # NoOp /\ Exchange
    <3>1. /\ native.op \in Ops /\ native.snap \in Snaps
          /\ \E c \in calls : c.kind = "write" /\ c.op = native.op
      BY <2>2 DEF FileInv, Handed
    <3>2. ops[native.op].sent = 1
      BY <3>1, CalledCalls DEF Writing
    <3> QED BY <2>2, <3>1, <3>2, Exchanged
  <2> QED BY <2>1, <2>2 DEF Exit
<1>2. /\ reminders' \in [Ops -> ReminderStatus]
      /\ \A o \in Ops : reminders'[o] = reminders[o]
                        \/ (reminders[o] = "in_flight" /\ reminders'[o] = "interrupted")
  BY <1>0 DEF Reloaded, ReminderStatus, Listed
<1>3. snaps' \in [Snaps -> SnapRecords]
  BY <1>0, GoneSnaps
<1>4. FileTypeOK'
  BY <1>0, <1>1, <1>2, <1>3, TypesAre, CallKinds
     DEF FileInv, FileTypeOK, FileOpsTypeOK, SnapRecords, OpRecords, NativeRecords, Reviews
<1>5. Reviewed' /\ Called' /\ Single' /\ Handed'
  BY <1>0 DEF Reviewed, Called, Single, Handed
<1>6. Remembered'
  <2>1. \A o \in Ops : Sent(o)' = Sent(o)
    BY <1>1 DEF Sent
  <2> QED BY <1>1, <1>2, <2>1 DEF FileInv, Remembered
<1> QED BY <1>4, <1>5, <1>6 DEF FileInv

-----------------------------------------------------------------------------
(* Theorems.                                                                 *)

LEMMA FileInvStep == FileInv /\ [FileNext]_fileVars => FileInv'
<1> SUFFICES ASSUME FileInv, [FileNext]_fileVars PROVE FileInv'
  OBVIOUS
<1>1. CASE World
  BY <1>1, WorldStep
<1>2. CASE Person
  BY <1>2, DropStep, StageTargetStep, AskStep, SourceStep DEF Person
<1>3. CASE Stage
  BY <1>3, StageStep
<1>4. CASE Answers
  BY <1>4, StageAnswerStep, ValidateNativeStep, ValidateAnswerStep, VerifyAnswerStep,
     WriteBeginStep, WriteNativeStep, WriteAnswerStep DEF Answers
<1>5. CASE ReviewExpires \/ ReviewTimer \/ SourceChanges \/ Exit
  BY <1>5, ExpiryStep, DropStep, SourceStep, ExitStep
<1>6. CASE UNCHANGED fileVars
  <2>1. UNCHANGED <<disk, snaps, native, ops, reminders, edits, genuine, candidate, review,
                    loading, calls, crashes, picks>>
    BY <1>6 DEF fileVars, opsVars, applyVars
  <2>2. FileTypeOK'
    BY <2>1 DEF FileInv, FileTypeOK, FileOpsTypeOK
  <2>3. Reviewed' /\ Single' /\ Handed'
    BY <2>1 DEF FileInv, Reviewed, Single, Handed
  <2>4. Remembered'
    BY <2>1 DEF FileInv, Remembered, Sent
  <2>5. Called'
    BY <2>1 DEF FileInv, Called, Staging, Bound, Writing
  <2> QED BY <2>2, <2>3, <2>4, <2>5 DEF FileInv
<1> QED BY <1>1, <1>2, <1>3, <1>4, <1>5, <1>6 DEF FileNext

LEMMA FileInvAlways == FileSpec => []FileInv
  BY FileInvInit, FileInvStep, PTL DEF FileSpec

\* The stores and the desktop keep values of the kinds they are declared with.
THEOREM TypeCorrect == FileSpec => []FileTypeOK
<1>1. FileInv => FileTypeOK
  BY DEF FileInv
<1> QED BY <1>1, FileInvAlways, PTL

\* "Applied" is shown only for an exchange this operation made, "conflict" and
\* every state before the write only while it made none.
THEOREM OutcomesAreTrue == FileSpec => []ShownOutcomeIsTrue
<1>1. FileInv => ShownOutcomeIsTrue
  BY CallKinds DEF FileInv, Reviewed, Remembered, ShownOutcomeIsTrue, Unsent, OpenReview
<1> QED BY <1>1, FileInvAlways, PTL

\* What this window did not see end stays listed, over exits and over any
\* number of newer operations, for every length of the list.
THEOREM UnseenOutcomesAreListed == FileSpec => []UnseenOutcomeIsListed
<1>1. FileInv => UnseenOutcomeIsListed
  <2> SUFFICES ASSUME FileInv, NEW o \in Ops
               PROVE  /\ ops[o].sent > 0 /\ ~ops[o].told =>
                           reminders[o] \in Listed \cup {"dismissed", "dropped"}
                      /\ reminders[o] = "dropped" =>
                           Cardinality({q \in Ops : q > o /\ ops[q].sent > 0}) >= ReminderCap
                      /\ reminders[o] = "dismissed" =>
                           ~\E c \in calls : c.kind = "write" /\ c.op = o
    BY DEF UnseenOutcomeIsListed
  <2>1. reminders[o] \in ReminderStatus
    BY TypesAre DEF FileInv
  <2>2. ops[o].sent > 0 /\ ~ops[o].told =>
          reminders[o] \in Listed \cup {"dismissed", "dropped"}
    BY <2>1 DEF FileInv, Remembered, ReminderStatus
  <2>3. reminders[o] = "dropped" =>
          Cardinality({q \in Ops : q > o /\ ops[q].sent > 0}) >= ReminderCap
    BY DEF FileInv, Remembered, Sent
  <2>4. reminders[o] = "dismissed" => ~\E c \in calls : c.kind = "write" /\ c.op = o
    BY CalledCalls DEF Writing
  <2> QED BY <2>2, <2>3, <2>4
<1> QED BY <1>1, FileInvAlways, PTL

\* Baselines: a live one is the review's, or comes with a call that stages a file.
Held ==
  \A i \in Snaps : snaps[i].st = "live" =>
    i = review.snap \/ \E c \in calls : c.kind = "stage" /\ c.snap = i

LEMMA HeldInit == FileInit => Held
  BY DEF FileInit, FileOpsInit, Held, UnusedSnap

\* Orphaned calls keep their baselines.
LEMMA HeldClear ==
  ASSUME FileInv, Held, NEW C \in SUBSET calls, \A c \in calls \ C : c.kind # "stage",
         Orphan(C) \subseteq calls', snaps' = Gone({review.snap}) \/ (snaps' = snaps /\ review' = review)
  PROVE  Held'
<1>1. /\ snaps \in [Snaps -> SnapRecords] /\ C \in SUBSET Calls
  BY TypesAre DEF FileInv
<1>2. \A c \in C : Orphaned(c) \in calls' /\ Orphaned(c).kind = c.kind /\ Orphaned(c).snap = c.snap
  BY <1>1, Orphans, OrphanedCall
<1>3. \A i \in Snaps : snaps'[i].st = "live" =>
         snaps[i].st = "live" /\ (i # review.snap \/ review' = review)
  BY <1>1, GoneSnaps
<1> QED BY <1>2, <1>3 DEF Held

\* A step that keeps the review's baseline, and every call with one, keeps what is held.
LEMMA HeldKept ==
  ASSUME FileInv, Held, NEW ids, snaps' = snaps \/ snaps' = Gone(ids),
         review'.snap = review.snap \/ review.snap = 0,
         \A c \in calls : c.kind = "stage" /\ c.phase = "captured" =>
           \/ c \in calls'
           \/ snaps' = Gone(ids) /\ c.snap \in ids
           \/ review'.snap = c.snap
  PROVE  Held'
<1>1. snaps \in [Snaps -> SnapRecords]
  BY TypesAre DEF FileInv
<1> SUFFICES ASSUME NEW i \in Snaps, snaps'[i].st = "live",
                    i # review'.snap
             PROVE  \E c \in calls' : c.kind = "stage" /\ c.snap = i
  BY DEF Held
<1>2. snaps[i].st = "live" /\ (snaps' = Gone(ids) => i \notin ids)
  BY <1>1, GoneSnaps
<1>3. PICK c \in calls : c.kind = "stage" /\ c.snap = i
  BY <1>2, Identities DEF Held
<1>4. c.phase = "captured"
  BY <1>3, CalledCalls, Identities DEF Staging
<1> QED BY <1>2, <1>3, <1>4

LEMMA HeldStep == FileInv /\ Held /\ [FileNext]_fileVars => Held'
<1> SUFFICES ASSUME FileInv, Held, [FileNext]_fileVars PROVE Held'
  OBVIOUS
<1>0. review \in Reviews /\ snaps \in [Snaps -> SnapRecords]
  BY TypesAre DEF FileInv
<1>1. CASE World
  <2>1. review' = review /\ calls' = calls
    BY <1>1 DEF World, applyVars
  <2>2. snaps' = snaps \/ \E ids \in SUBSET Snaps : snaps' = Gone(ids)
    BY <1>1 DEF World, SnapshotExpires, ExternalEdit, Dismiss, Live
  <2> QED BY <2>1, <2>2, HeldKept
<1>2. CASE Discard \/ (\E r \in Runs : Select(r)) \/ ReviewTimer
  <2>1. calls' = Orphan(calls) /\ snaps' = Gone({review.snap})
    BY <1>2 DEF Discard, Select, ReviewTimer, Clear
  <2> QED BY <2>1, HeldClear
<1>3. CASE \E p \in Paths : StageTarget(p)
  <2>1. Orphan(calls) \subseteq calls' /\ snaps' = snaps /\ review' = review
    BY <1>3 DEF StageTarget
  <2> QED BY <2>1, HeldClear
<1>4. CASE Validate \/ Apply
  <2>1. PICK k \in {"check", "verify"} : Ask(k, Awaited[k])
    BY <1>4 DEF Validate, Apply, Awaited
  <2>2. CASE review.expired
    <3>1. calls' = Orphan(calls) /\ snaps' = Gone({review.snap})
      BY <2>1, <2>2 DEF Ask, Clear
    <3> QED BY <3>1, HeldClear
  <2>3. CASE ~review.expired
    <3>1. review' = Restated(Awaited[k]) /\ snaps' = snaps /\ calls \subseteq calls'
      BY <2>1, <2>3 DEF Ask, Restated
    <3>2. review'.snap = review.snap
      BY <1>0, <3>1 DEF Restated, Reviews
    <3> QED BY <3>1, <3>2, HeldKept
  <2> QED BY <2>2, <2>3
<1>5. CASE CancelOperation \/ SourceChanges
  <2>1. review' = review /\ calls' = calls /\ snaps' = snaps
    BY <1>5 DEF CancelOperation, SourceChanges, opsVars
  <2> QED BY <2>1, HeldKept
<1>6. CASE Stage
  <2> SUFFICES ASSUME NEW c \in calls, c.kind = "stage", review' = review,
                      StageFails(c) \/ StageSource(c) \/ StageCapture(c)
               PROVE  Held'
    BY <1>6 DEF Stage
  <2>1. CASE StageFails(c) \/ StageSource(c)
    <3>1. snaps' = snaps /\ c.phase # "captured" /\ calls \ {c} \subseteq calls'
      BY <2>1 DEF StageFails, StageSource, Replace
    <3> QED BY <3>1, HeldKept
  <2>2. CASE StageCapture(c)
    <3>1. PICK i \in Snaps : Capture(i, c.path) /\ calls' = (calls \ {c}) \cup {Captured(c, i)}
      BY <2>2 DEF StageCapture, Replace, Captured
    <3>2. Captured(c, i).kind = "stage" /\ Captured(c, i).snap = i
      BY TypesAre DEF Captured, FileInv, Calls
    <3>3. \A j \in Snaps : j # i => snaps'[j] = snaps[j]
      BY <1>0, <3>1 DEF Capture
    <3>4. c.snap \notin Snaps
      BY <2>2, CalledCalls, Identities DEF StageCapture, Staging
    <3> QED BY <3>1, <3>2, <3>3, <3>4 DEF Held
  <2> QED BY <2>1, <2>2
<1>7. CASE \E c \in calls : StageAnswer(c)
  <2>1. PICK c \in calls : StageAnswer(c)
    BY <1>7
  <2>2. calls' = calls \ {c} /\ c.kind = "stage" /\ c.phase = "captured"
    BY <2>1 DEF StageAnswer
  <2>3. CASE c.mine /\ snaps[c.snap].base # "candidate"
    <3>1. review'.snap = c.snap /\ snaps' = snaps /\ review = NoReview
      BY <2>1, <2>2, <2>3, CalledCalls DEF StageAnswer, Staging
    <3> QED BY <2>2, <3>1, HeldKept, CallKinds
  <2>4. CASE ~(c.mine /\ snaps[c.snap].base # "candidate")
    <3>1. review' = review /\ snaps' = Gone({c.snap})
      BY <2>1, <2>4 DEF StageAnswer
    <3> QED BY <2>2, <3>1, HeldKept
  <2> QED BY <2>3, <2>4
<1>8. CASE \E c \in calls : ValidateNative(c) \/ WriteBegin(c) \/ \E a \in DOMAIN Outcome : WriteNative(c, a)
  <2>1. PICK c \in calls : ValidateNative(c) \/ WriteBegin(c) \/ \E a \in DOMAIN Outcome : WriteNative(c, a)
    BY <1>8
  <2>2. calls \ {c} \subseteq calls' /\ c.kind # "stage" /\ review' = review
    BY <2>1 DEF ValidateNative, WriteBegin, WriteNative, Replace
  <2>3. snaps' = snaps \/ \E ids \in SUBSET Snaps : snaps' = Gone(ids)
    <3>1. c.snap \in Snaps
      BY <2>2, CalledCalls DEF Bound
    <3> QED BY <2>1, <3>1 DEF ValidateNative, ValidatedSnaps, WriteBegin, NativeBegin, WriteNative
  <2> QED BY <2>2, <2>3, HeldKept
<1>9. CASE \E c \in calls : ValidateAnswer(c) \/ WriteAnswer(c) \/ \E a \in SourceAnswers : VerifyAnswer(c, a)
  <2>1. PICK c \in calls : ValidateAnswer(c) \/ WriteAnswer(c) \/ \E a \in SourceAnswers : VerifyAnswer(c, a)
    BY <1>9
  <2>2. c.kind # "stage"
    BY <2>1 DEF ValidateAnswer, WriteAnswer, VerifyAnswer
  <2>3. CASE Clear(calls \ {c})
    <3>1. calls' = Orphan(calls \ {c}) /\ snaps' = Gone({review.snap})
      BY <2>3 DEF Clear
    <3> QED BY <2>2, <3>1, HeldClear
  <2>4. CASE /\ calls \ {c} \subseteq calls'
             /\ review' = review \/ \E s : review' = Restated(s)
             /\ snaps' = snaps \/ snaps' = Gone({c.snap})
    <3>1. review'.snap = review.snap
      BY <1>0, <2>4 DEF Restated, Reviews
    <3> QED BY <2>2, <2>4, <3>1, HeldKept
  <2>5. Clear(calls \ {c}) \/ /\ calls \ {c} \subseteq calls'
                              /\ review' = review \/ \E s : review' = Restated(s)
                              /\ snaps' = snaps \/ snaps' = Gone({c.snap})
    <3>1. CASE ValidateAnswer(c)
      BY <3>1, Zenon DEF ValidateAnswer, Restated
    <3>2. CASE WriteAnswer(c)
      <4>1. calls' = calls \ {c} /\ snaps' = snaps
        BY <3>2 DEF WriteAnswer
      <4>2. review' = review \/ \E s : review' = Restated(s)
        BY <3>2, Zenon DEF WriteAnswer, Restated
      <4> QED BY <4>1, <4>2
    <3>3. CASE \E a \in SourceAnswers : VerifyAnswer(c, a)
      <4>1. PICK a \in SourceAnswers : VerifyAnswer(c, a)
        BY <3>3
      <4>2. CASE c.mine /\ a = "current" /\ ~review.expired
        <5>1. /\ review' = Restated("writing") /\ snaps' = snaps
              /\ calls' = (calls \ {c}) \cup {Turned(c)}
          BY <4>1, <4>2 DEF VerifyAnswer, Restated, Replace, Turned
        <5> QED BY <5>1, Zenon
      <4>3. CASE c.mine /\ a = "current" /\ review.expired
        BY <4>1, <4>3 DEF VerifyAnswer
      <4>4. CASE ~c.mine
        BY <4>1, <4>4 DEF VerifyAnswer
      <4>5. CASE c.mine /\ a = "changed"
        <5>1. review' = Restated("conflict") /\ snaps' = Gone({c.snap}) /\ calls' = calls \ {c}
          BY <4>1, <4>5 DEF VerifyAnswer, Restated
        <5> QED BY <5>1, Zenon
      <4>6. CASE c.mine /\ a = "unreachable"
        <5>1. review' = Restated(c.was) /\ snaps' = snaps /\ calls' = calls \ {c}
          BY <4>1, <4>6 DEF VerifyAnswer, Restated
        <5> QED BY <5>1, Zenon
      <4> QED BY <4>2, <4>3, <4>4, <4>5, <4>6 DEF SourceAnswers
    <3> QED BY <2>1, <3>1, <3>2, <3>3
  <2> QED BY <2>3, <2>4, <2>5
<1>10. CASE ReviewExpires
  <2>1. review'.snap = review.snap /\ calls' = calls /\ snaps' = snaps
    BY <1>0, <1>10 DEF ReviewExpires, Reviews
  <2> QED BY <2>1, HeldKept
<1>11. CASE Exit
  <2>1. snaps' = Gone(Snaps)
    BY <1>11 DEF Exit
  <2> QED BY <1>0, <2>1, GoneSnaps DEF Held
<1>12. CASE UNCHANGED fileVars
  <2>1. review' = review /\ calls' = calls /\ snaps' = snaps
    BY <1>12 DEF fileVars, opsVars, applyVars
  <2> QED BY <2>1, HeldKept
<1> QED BY <1>1, <1>2, <1>3, <1>4, <1>5, <1>6, <1>7, <1>8, <1>9, <1>10, <1>11, <1>12
        DEF FileNext, Person, Answers

\* However reviews are opened, closed, expired and answered late, every place of
\* the desktop's baselines is given back or somebody will give it back.
THEOREM BaselinesAreGivenBack == FileSpec => []BaselinesAreHeld
<1>1. Held => BaselinesAreHeld
  BY DEF Held, BaselinesAreHeld, Live
<1>2. FileInit => Held
  BY HeldInit
<1>3. FileInv /\ Held /\ [FileNext]_fileVars => Held'
  BY HeldStep
<1> QED BY <1>1, <1>2, <1>3, FileInvAlways, PTL DEF FileSpec

\* A file is exchanged over the reviewed bytes only, by an operation sent once.
THEOREM ReviewedBytesAreWritten == FileSpec => WritesReviewedBytesOnce
<1> DEFINE Reviewedly ==
      \A o \in Ops : ops'[o].wrote /\ ~ops[o].wrote =>
        /\ ops[o].sent = 1
        /\ disk[snaps[ops[o].snap].path] = snaps[ops[o].snap].base
<1>1. FileInv /\ [FileNext]_fileVars => Reviewedly
  <2> SUFFICES ASSUME FileInv, [FileNext]_fileVars, NEW o \in Ops, ops'[o].wrote, ~ops[o].wrote
               PROVE  /\ ops[o].sent = 1
                      /\ disk[snaps[ops[o].snap].path] = snaps[ops[o].snap].base
    OBVIOUS
  <2>0. ops \in [Ops -> OpRecords] /\ ops' # ops
    BY TypesAre DEF FileInv
  <2>1. ASSUME Exchanges, Exchange, native # NoOp
        PROVE  /\ ops[o].sent = 1
               /\ disk[snaps[ops[o].snap].path] = snaps[ops[o].snap].base
    <3>1. /\ native.op \in Ops /\ native.snap \in Snaps /\ native.snap = ops[native.op].snap
          /\ \E c \in calls : c.kind = "write" /\ c.op = native.op
      BY <2>1 DEF FileInv, Handed
    <3>2. ops[native.op].sent = 1
      BY <3>1, CalledCalls DEF Writing
    <3>3. o = native.op
      BY <2>1, <3>1, Exchanged
    <3> QED BY <2>1, <3>1, <3>2, <3>3 DEF Exchanges
  <2>2. CASE \E c \in calls : \E a \in DOMAIN Outcome : WriteNative(c, a)
    <3>1. PICK c \in calls, a \in DOMAIN Outcome : WriteNative(c, a)
      BY <2>2
    <3>2. native # NoOp
      BY <3>1, CalledCalls, CallKinds, Identities DEF WriteNative, Writing, Bound
    <3> QED BY <2>0, <2>1, <3>1, <3>2 DEF WriteNative
  <2>3. CASE Exit
    BY <2>0, <2>1, <2>3 DEF Exit
  <2>4. CASE \E c \in calls : StageAnswer(c)
    <3>1. ops'[o].wrote = ops[o].wrote
      BY <2>0, <2>4 DEF StageAnswer, OpRecords
    <3> QED BY <3>1
  <2>5. CASE \E c \in calls : \E a \in SourceAnswers : VerifyAnswer(c, a)
    <3>1. PICK c \in calls, a \in SourceAnswers : VerifyAnswer(c, a)
      BY <2>5
    <3>2. ops' = ops \/ ops' = [ops EXCEPT ![c.op].sent = @ + 1]
      BY <3>1 DEF VerifyAnswer
    <3> QED BY <2>0, <3>2 DEF OpRecords
  <2>6. CASE \E c \in calls : WriteAnswer(c)
    <3>1. PICK c \in calls : ops' = [ops EXCEPT ![c.op].told = c.phase # "error"]
      BY <2>6 DEF WriteAnswer
    <3>2. ops'[o].wrote = ops[o].wrote
      BY <2>0, <3>1 DEF OpRecords
    <3> QED BY <3>2
  <2>7. CASE World \/ Person \/ Stage \/ ReviewExpires \/ ReviewTimer \/ SourceChanges
    BY <2>0, <2>7
       DEF World, SnapshotExpires, ExternalEdit, Dismiss, Person, Select, StageTarget, Discard,
           Validate, Apply, CancelOperation, Stage, ReviewExpires, ReviewTimer, SourceChanges,
           opsVars, UnchangedNative
  <2>8. CASE \E c \in calls : ValidateNative(c) \/ ValidateAnswer(c) \/ WriteBegin(c)
    BY <2>0, <2>8 DEF ValidateNative, ValidateAnswer, WriteBegin, UnchangedNative
  <2>9. CASE UNCHANGED fileVars
    BY <2>0, <2>9 DEF fileVars, opsVars
  <2> QED BY <2>2, <2>3, <2>4, <2>5, <2>6, <2>7, <2>8, <2>9 DEF FileNext, Answers
<1> QED BY <1>1, FileInvAlways, PTL DEF FileSpec, WritesReviewedBytesOnce
=============================================================================

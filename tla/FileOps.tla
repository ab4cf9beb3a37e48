------------------------------- MODULE FileOps -------------------------------
(* What the desktop application keeps for the single-file writes of the web   *)
(* client: the baselines it has read (workspace_file_snapshot.rs), the one    *)
(* operation it lets run at a time (workspace_file_snapshot/edits.rs), the    *)
(* file itself, and the reminders the client stores beside it                 *)
(* (store/fileOperationReminders.ts).                                         *)
EXTENDS Integers, FiniteSets

CONSTANTS Paths,          \* files of the chosen workspace root
          Snaps,          \* identities of baselines, 1..n, never reused
          SnapCap,        \* MAX_SNAPSHOTS: baselines kept at once
          Ops,            \* identities of operations, 1..n, never reused
          ReminderCap,    \* maxReminders
          MaxEdits        \* bound: edits another program makes

ASSUME FileOpsAssumption ==
  /\ Snaps \subseteq Nat \ {0} /\ Ops \subseteq Nat \ {0}
  /\ Paths # {} /\ IsFiniteSet(Ops)
  /\ SnapCap \in Nat \ {0} /\ ReminderCap \in Nat \ {0} /\ MaxEdits \in Nat

VARIABLES disk,       \* what each file holds
          snaps,      \* baselines: never taken, live, or gone (used, released, expired)
          native,     \* the operation the desktop has in hand
          ops,        \* every operation: times sent, its baseline, whether the file was
                      \* exchanged, whether this window was told how it ended
          reminders,  \* reminder of every operation, in local storage
          edits       \* edits made so far by another program

opsVars == <<disk, snaps, native, ops, reminders, edits>>

FileContents == {"original", "edited", "candidate"}
NoOp == [op |-> 0, snap |-> 0, cancelled |-> FALSE]
UnusedSnap == [st |-> "unused", path |-> CHOOSE p \in Paths : TRUE, base |-> "original"]
UnusedOp == [sent |-> 0, snap |-> 0, wrote |-> FALSE, told |-> FALSE]
Listed == {"in_flight", "interrupted", "uncertain"}
ReminderStatus == Listed \cup {"none", "confirmed", "dismissed", "dropped"}

FileOpsTypeOK ==
  /\ disk \in [Paths -> FileContents]
  /\ snaps \in [Snaps -> [st: {"unused", "live", "gone"}, path: Paths, base: FileContents]]
  /\ native \in [op: Ops \cup {0}, snap: Snaps \cup {0}, cancelled: BOOLEAN]
  /\ ops \in [Ops -> [sent: 0..2, snap: Snaps \cup {0}, wrote: BOOLEAN, told: BOOLEAN]]
  /\ reminders \in [Ops -> ReminderStatus]
  /\ edits \in 0..MaxEdits

FileOpsInit ==
  /\ disk = [p \in Paths |-> "original"]
  /\ snaps = [i \in Snaps |-> UnusedSnap]
  /\ native = NoOp
  /\ ops = [o \in Ops |-> UnusedOp]
  /\ reminders = [o \in Ops |-> "none"]
  /\ edits = 0

-----------------------------------------------------------------------------
(* Baselines.                                                                *)

Live == {i \in Snaps : snaps[i].st = "live"}
NextSnap(i) == i \in Snaps /\ snaps[i].st = "unused" /\ \A j \in Snaps : j < i => snaps[j].st # "unused"
Gone(ids) == [i \in Snaps |-> IF i \in ids /\ snaps[i].st = "live"
                              THEN [snaps[i] EXCEPT !.st = "gone"] ELSE snaps[i]]
Unchanged(i) == snaps[i].st = "live" /\ disk[snaps[i].path] = snaps[i].base

\* capture: the whole file is read and kept, unless eight baselines are kept already.
Capture(i, p) ==
  /\ NextSnap(i) /\ Cardinality(Live) < SnapCap
  /\ snaps' = [snaps EXCEPT ![i] = [st |-> "live", path |-> p, base |-> disk[p]]]

\* validate: a baseline that no longer matches the file is dropped for good.
ValidatedSnaps(ids) == Gone({i \in ids : ~Unchanged(i)})

\* A baseline outlives TTL: every later use of it is refused.
SnapshotExpires ==
  /\ \E i \in Live : snaps' = Gone({i})
  /\ UNCHANGED <<disk, native, ops, reminders, edits>>

\* Another program saves the file.
ExternalEdit ==
  /\ edits < MaxEdits
  /\ \E p \in Paths : disk[p] # "edited" /\ disk' = [disk EXCEPT ![p] = "edited"]
  /\ edits' = edits + 1
  /\ UNCHANGED <<snaps, native, ops, reminders>>

-----------------------------------------------------------------------------
(* Operations. The answer of a step is what the client's call will return.   *)

\* begin refuses a second operation; freeze_edit_request consumes the baseline
\* before it compares anything, so a refused operation cannot be tried again.
NativeBegins(o, i) == native = NoOp /\ Unchanged(i)
NativeBegin(o, i) ==
  /\ ops[o].snap = i
  /\ snaps' = IF native = NoOp THEN Gone({i}) ELSE snaps
  /\ native' = IF NativeBegins(o, i) THEN [op |-> o, snap |-> i, cancelled |-> FALSE] ELSE native

NativeCancel(o) == native' = IF native.op = o THEN [native EXCEPT !.cancelled = TRUE] ELSE native

\* The exchange compares the file with the frozen baseline once more.
\* Mutant: the file is not compared again.
Exchanges_Blind == ~native.cancelled
Exchanges == /\ ~native.cancelled
             /\ disk[snaps[native.snap].path] = snaps[native.snap].base
Exchange ==
  /\ disk' = [disk EXCEPT ![snaps[native.snap].path] = "candidate"]
  /\ ops' = [ops EXCEPT ![native.op].wrote = TRUE]

-----------------------------------------------------------------------------
(* Reminders: written before the native call, newest first, at most twenty.  *)

Newer(o, r) == {q \in Ops : q > o /\ r[q] \in Listed}
Trim(r) == [o \in Ops |-> IF r[o] \in Listed /\ Cardinality(Newer(o, r)) >= ReminderCap
                          THEN "dropped" ELSE r[o]]
Begun(o) == Trim([reminders EXCEPT ![o] = "in_flight"])
Settled(o, how) == IF reminders[o] \in Listed THEN [reminders EXCEPT ![o] = how] ELSE reminders
Reloaded == [o \in Ops |-> IF reminders[o] = "in_flight" THEN "interrupted" ELSE reminders[o]]

\* A person ticks a reminder off; the ones of this window's running operation are not shown.
Dismiss ==
  /\ \E o \in Ops : /\ reminders[o] \in Listed \ {"in_flight"}
                    /\ reminders' = [reminders EXCEPT ![o] = "dismissed"]
  /\ UNCHANGED <<disk, snaps, native, ops, edits>>
=============================================================================

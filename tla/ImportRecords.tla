---------------------------- MODULE ImportRecords ----------------------------
(* The import of an exported package into a workspace that may hold data: the  *)
(* preview sorts every incoming row and rehearses the writing, a person        *)
(* confirms what it showed, and the service sorts again, backs up, publishes   *)
(* the files and writes the rows, while the workspace may change in between.   *)
EXTENDS Naturals, FiniteSets, FiniteSetsExt

VARIABLE record

\* The schemas of the service and of packages: the first is out of the contract, the
\* third added a column, and the fifth is of a newer application.
Current == 4
Step == 3
Schemas == 1 .. 5
\* The contents of a unique column stand for the whole row. A document has a file.
Row(table, key, content) == [table |-> table, key |-> key, content |-> content]
Names == {"x", "y"}
Document == Row("documents", "d", "x")
Task == Row("tasks", "t", "x")
Profile(content) == Row("settings", "profile", content)
Rule(content) == Row("rules", "rule", content)

\* Official packages. (Bound: one feature at a time. The row of an automation is in all
\* of them; "history" ties rows by what spans tables, "parent" the second tag, which
\* stands for a task here, to the first; "buried" tells of a task that was deleted.)
Package(rows) == [files |-> FALSE, schema |-> Current, tie |-> "none", buried |-> FALSE,
                  rows |-> rows \cup {Rule("default")}]
First == Row("tags", "a", "x")
Second == Row("tags", "b", "y")
Packages ==
  {[Package({First}) EXCEPT !.schema = s] : s \in Schemas}
  \cup {[Package({First, Second}) EXCEPT !.tie = tie] : tie \in {"none", "history", "parent"}}
  \cup {[Package({First}) EXCEPT !.buried = TRUE], Package({Profile("theirs")}),
        [Package({First}) EXCEPT !.rows = {First, Rule("set")}],
        [Package({First, Document}) EXCEPT !.files = TRUE]}

Nothing == [none |-> TRUE]
Init == record = [rows |-> {Rule("default")}, object |-> FALSE, phase |-> "idle", file |-> Nothing, shown |-> Nothing]
Session(r) == record' = r

----------------------------------------------------------------------------
(* The plan of an import: planBusinessImport and validateBusinessImportPlan.   *)
\* An automation nobody touched is not counted, and is written over.
Counted(rows) == rows \ {Rule("default")}
Same(r, q) == r.table = q.table /\ r.key = q.key
Held(r, rows) == {q \in Counted(rows) : Same(r, q)}
SettingsKept(rows) == \E q \in rows : q.table = "settings"
Fate(r, rows) ==
  IF SettingsKept(rows) /\ r.table = "settings" THEN "keep_target"
  ELSE IF Held(r, rows) = {} THEN "write"
  ELSE IF Held(r, rows) = {r} THEN "skip_identical" ELSE "conflict"
Left(p, rows) == {r \in p.rows : Fate(r, rows) \in {"keep_target", "skip_identical"}}
\* businessImportSemanticConflicts: only names are unique here.
Repeated(applied, rows) ==
  {r \in applied : r.table = "tags" /\ \E q \in rows : q.table = "tags" /\ q.key # r.key /\ q.content = r.content}
Sorted(p, rows) ==
  LET applied == p.rows \ Left(p, rows)
      conflicts == {r \in p.rows : Fate(r, rows) = "conflict"} IN
  [apply |-> applied, conflicts |-> conflicts, left |-> Left(p, rows),
   repeated |-> IF conflicts = {} THEN Repeated(applied, rows) ELSE {}]
\* businessImportCrossTableValid
Replayable(p, plan) == p.tie = "history" => {First, Second} \subseteq plan.apply \/ {First, Second} \cap plan.apply = {}
Plan(p, rows) ==
  LET plan == Sorted(p, rows) IN
  IF plan.left = {} \/ plan.conflicts # {} \/ Replayable(p, plan) THEN plan
  ELSE [apply |-> p.rows, conflicts |-> {r \in p.rows : Held(r, rows) # {}}, left |-> {}, repeated |-> {}]
\* rehearseBusinessImport writes the plan by the code of the apply, and rolls it back.
Rejection(p, plan, rows) ==
  IF p.buried /\ Task \in rows THEN "TASK_DUE_DELETED_SOURCE_COLLISION"
  ELSE IF p.tie = "parent" /\ Second \in plan.apply /\ First \notin plan.apply THEN "INTEGRITY_VALIDATION"
  ELSE "none"

In(table, rows) == {r \in rows : r.table = table}
Resolutions(plan, rows) ==
  {[table |-> t, rule |-> f, rows |-> Cardinality({r \in In(t, plan.left) : Fate(r, rows) = f})] :
     t \in {r.table : r \in plan.left}, f \in {Fate(r, rows) : r \in plan.left}}
Resolved(plan, rows) == {s \in Resolutions(plan, rows) : s.rows # 0}
Unsupported(p) ==
  [schema |-> p.schema, steps |-> {}, total |-> Cardinality(p.rows), target |-> 0, conflicts |-> 0,
   tables |-> {}, repeated |-> 0, rules |-> {}, resolutions |-> {}, digest |-> FALSE, can |-> FALSE, mode |-> "none",
   blocker |-> IF p.schema > Current THEN "source_schema_newer" ELSE "source_schema_older",
   rejection |-> "none", files |-> Cardinality(In("documents", p.rows)), inTheWay |-> 0, skipped |-> 0]
\* validateBusinessImportPlan; with files, validateBusinessPackageImport upon it.
Preview(p, rows, object) ==
  IF p.schema = 1 \/ p.schema > Current THEN Unsupported(p)
  ELSE LET plan == Plan(p, rows)
           mode == IF Counted(rows) = {} THEN "replace_empty" ELSE "append"
           inTheWay == IF object THEN Cardinality(In("documents", plan.apply)) ELSE 0
           blocker == IF plan.conflicts # {} THEN "target_key_conflicts"
                      ELSE IF plan.repeated # {} THEN "target_semantic_conflicts"
                      ELSE IF Rejection(p, plan, rows) # "none" THEN "apply_rehearsal_failed"
                      ELSE IF inTheWay # 0 THEN "target_file_conflicts" ELSE "none" IN
       [Unsupported(p) EXCEPT
          !.steps = IF p.schema < Step THEN {Step} ELSE {},
          !.target = Cardinality(Counted(rows)), !.conflicts = Cardinality(plan.conflicts),
          !.tables = {[table |-> t, target |-> Cardinality(In(t, Counted(rows))),
                       conflicts |-> Cardinality(In(t, plan.conflicts))] : t \in {r.table : r \in Counted(rows)}},
          !.repeated = Cardinality(plan.repeated),
          !.rules = {[table |-> t, conflicts |-> Cardinality(In(t, plan.repeated))] : t \in {r.table : r \in plan.repeated}},
          !.resolutions = Resolved(plan, rows),
          !.digest = blocker = "none" /\ plan.left # {}, !.can = blocker = "none",
          !.mode = IF blocker = "none" THEN mode ELSE "none", !.blocker = blocker,
          !.rejection = IF blocker = "apply_rehearsal_failed" THEN Rejection(p, plan, rows) ELSE "none",
          !.inTheWay = inTheWay, !.skipped = Cardinality(In("documents", plan.left))]
Now == Preview(record.file, record.rows, record.object)

----------------------------------------------------------------------------
(* The workspace and the import.                                              *)
Idle == record.phase = "idle"
Shown == record.shown # Nothing
\* A file is chosen and previewed, or put back.
Choose == Idle /\ \E p \in Packages :
  Session([record EXCEPT !.file = p, !.shown = Preview(p, record.rows, record.object)])
Cancel == Idle /\ Shown /\ Session([record EXCEPT !.file = Nothing, !.shown = Nothing])

\* What commands of any page do meanwhile. (Bound: a person's own rows are two at most.)
MostRows == 2
Without(table, key) == {q \in record.rows : ~(q.table = table /\ q.key = key)}
Save(r) == Idle /\ LET rows == Without(r.table, r.key) \cup {r} IN
  Cardinality(Counted(rows)) <= MostRows /\ Session([record EXCEPT !.rows = rows])
SaveTag == \E k \in {"a", "b"}, c \in Names :
  /\ \A q \in In("tags", record.rows) : q.key # k => q.content # c
  /\ Save(Row("tags", k, c))
DeleteTag == Idle /\ \E r \in In("tags", record.rows) : Session([record EXCEPT !.rows = @ \ {r}])
SaveProfile == Save(Profile("mine"))
SetRule == Save(Rule("mine"))
CreateTask == Save(Task)
DeleteTask == Idle /\ Task \in record.rows /\ Session([record EXCEPT !.rows = @ \ {Task}])
\* The row of a deleted document stays; its object is removed after it, or is not.
DeleteDocument == Idle /\ Document \in record.rows /\ \E removed \in BOOLEAN :
  Session([record EXCEPT !.rows = Without("documents", "d") \cup {Row("documents", "d", "deleted")},
                         !.object = ~removed])

\* What the client sends with the file: the phrase of the mode it showed, and the digest
\* of the rows that are left out, which stands for the mode and how many of them.
Upgrade(v) == v.schema < Current
Phrase(v) == [mode |-> v.mode, upgrade |-> Upgrade(v)]
Digest(v) == [mode |-> v.mode, resolutions |-> v.resolutions]
\* applyBusinessImport and applyBusinessPackageImport, under the locks of a backup.
\* (Bound: there is room for the backup.)
Code ==
  [none |-> "none", source_schema_older |-> "IMPORT_VERSION_UNSUPPORTED",
   source_schema_newer |-> "IMPORT_VERSION_UNSUPPORTED", target_key_conflicts |-> "IMPORT_TARGET_CONFLICT",
   target_semantic_conflicts |-> "IMPORT_TARGET_SEMANTIC_CONFLICT", target_file_conflicts |-> "IMPORT_TARGET_FILE_CONFLICT",
   apply_rehearsal_failed |-> "IMPORT_REHEARSAL_FAILED"]
Refusal ==
  IF ~Now.can THEN Code[Now.blocker]
  ELSE IF Phrase(record.shown) # Phrase(Now) THEN "IMPORT_CONFIRMATION_REQUIRED"
  ELSE IF Now.digest /\ ~(record.shown.digest /\ Digest(record.shown) = Digest(Now)) THEN "IMPORT_PLAN_CHANGED"
  ELSE "none"
Confirm == Idle /\ Shown /\ record.shown.can /\ Refusal = "none" /\ Session([record EXCEPT !.phase = "backed"])
\* The files first, and then the rows, all of them or none.
Publishes == In("documents", Plan(record.file, record.rows).apply) # {}
Publish == record.phase = "backed" /\ Session([record EXCEPT !.phase = "published", !.object = @ \/ Publishes])
Apply == record.phase = "published"
  /\ LET plan == Plan(record.file, record.rows)
         applied == plan.apply IN
     Rejection(record.file, plan, record.rows) = "none" /\ Session([record EXCEPT
       !.rows = {q \in @ : ~\E r \in applied : Same(r, q)} \cup applied,
       !.phase = "idle", !.file = Nothing, !.shown = Nothing])
\* The files are taken away again; that may fail, and is logged.
Fail == record.phase \in {"backed", "published"} /\ \E kept \in BOOLEAN :
  Session([record EXCEPT !.phase = "idle",
                         !.object = IF Publishes /\ record.phase = "published" THEN kept ELSE @])
Die == Session([record EXCEPT !.phase = "down", !.file = Nothing, !.shown = Nothing])
\* ArtifactStore.Reconcile: what no row names is set aside.
Start == record.phase = "down" /\ Session([record EXCEPT !.phase = "idle", !.object = Document \in record.rows])

Next == Choose \/ Cancel \/ SaveTag \/ DeleteTag \/ SaveProfile \/ SetRule \/ CreateTask \/ DeleteTask
  \/ DeleteDocument \/ Confirm \/ Publish \/ Apply \/ Fail \/ Die \/ Start
Spec == Init /\ [][Next]_record

----------------------------------------------------------------------------
(* What the client makes of it.                                               *)
\* normalizeBusinessImportConflictMetadata
TablesRead(v) ==
  /\ \A t \in v.tables : t.target >= 1 /\ t.conflicts <= t.target
  /\ MapThenSumSet(LAMBDA t : t.target, v.tables) = v.target
  /\ MapThenSumSet(LAMBDA t : t.conflicts, v.tables) = v.conflicts
\* normalizeBusinessImportPlanMetadata
RulesOfIt == {"keep_target", "skip_identical"}
PlanRead(v) ==
  /\ \A r \in v.rules : r.conflicts >= 1
  /\ MapThenSumSet(LAMBDA r : r.conflicts, v.rules) = v.repeated
  /\ \A s \in v.resolutions : s.rule \in RulesOfIt /\ s.rows >= 1
\* businessImportPlanIsConsistent
Supported(v) == v.schema <= Current
Consistent(v) ==
  /\ v.schema = Current => v.steps = {}
  /\ \A s \in v.steps : v.schema < s /\ s <= Current
  /\ (v.rejection # "none") = (v.blocker = "apply_rehearsal_failed")
  /\ v.blocker = "apply_rehearsal_failed" => Supported(v) /\ v.conflicts = 0 /\ v.repeated = 0 /\ ~v.digest
  /\ v.can => Supported(v) /\ v.conflicts = 0 /\ v.repeated = 0 /\ v.digest = (v.resolutions # {})
  /\ ~v.can => ~v.digest
  /\ v.blocker = "target_key_conflicts" => Supported(v)
  /\ v.blocker = "target_semantic_conflicts" => Supported(v) /\ v.conflicts = 0 /\ v.repeated # 0
  /\ v.blocker \in {"source_schema_older", "source_schema_newer"} => v.steps = {} /\ v.repeated = 0 /\ v.resolutions = {}
  /\ v.blocker = "target_file_conflicts" => v.repeated = 0
\* normalizeBusinessImportPreview, and normalizeBusinessPackageImportPreview for the files.
Foreign(v) == v.target = 0 /\ v.conflicts = 0 /\ v.tables = {}
PreviewReads(v) ==
  /\ v.can = (v.blocker = "none") /\ v.can = (v.mode # "none")
  /\ v.mode = "replace_empty" => v.target = 0
  /\ v.mode = "append" => v.target # 0
  /\ v.blocker = "target_key_conflicts" => v.target # 0 /\ v.conflicts # 0
  /\ v.blocker = "source_schema_older" => v.schema < Current /\ Foreign(v)
  /\ v.blocker = "source_schema_newer" => v.schema > Current /\ Foreign(v)
FilesRead(v) ==
  /\ v.skipped <= v.files
  /\ v.can => v.inTheWay = 0
  /\ v.blocker = "target_file_conflicts" => Supported(v) /\ v.conflicts = 0 /\ v.inTheWay # 0
\* ImportBlockerDetails, importRehearsalReasons: every obstacle has its words.
Worded(v) == v.can \/ v.blocker \in DOMAIN Code \ {"none"}
Reads == Shown => LET v == record.shown IN
  TablesRead(v) /\ PlanRead(v) /\ Consistent(v) /\ PreviewReads(v) /\ FilesRead(v) /\ Worded(v)

\* What was previewed upon the workspace as it is can be confirmed; where the workspace
\* has changed, the refusal says so (backupErrorText).
Offers == IF Idle /\ Shown /\ record.shown.can THEN {"confirm"} ELSE {}
Explained == {"IMPORT_TARGET_CONFLICT", "IMPORT_TARGET_SEMANTIC_CONFLICT", "IMPORT_TARGET_FILE_CONFLICT",
              "IMPORT_REHEARSAL_FAILED", "IMPORT_CONFIRMATION_REQUIRED", "IMPORT_PLAN_CHANGED"}
Accepts(command) == Refusal = "none" \/ (record.shown # Now /\ Refusal \in Explained)

\* An import writes over nothing but an automation nobody touched, brings every row that
\* is not kept from it, as the preview said it would, and never a document whose file is
\* not there; a name stays unique. The rows it leaves out are as many as were shown, or
\* there are none left to leave out.
Promised(v) == \A s \in Resolved(Plan(record.file, record.rows), record.rows) : s \in v.resolutions
Answers ==
  /\ Document \in record'.rows /\ record'.phase = "idle" => record'.object
  /\ Apply =>
       /\ Counted(record.rows) \subseteq record'.rows
       /\ \A r \in record.file.rows : r \in record'.rows \/ Fate(r, record.rows) = "keep_target"
       /\ \A r, q \in In("tags", record'.rows) : r.content = q.content => r = q
       /\ record.shown.mode = "replace_empty" => record'.rows = record.file.rows
       /\ Promised(record.shown)
=============================================================================

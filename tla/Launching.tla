------------------------------ MODULE Launching ------------------------------
(* One Agent Run started from the web client: chosen, previewed, agreed to in   *)
(* parts, checked again and sent, while the task, the provider, the files and   *)
(* the sources change and the page reads them again at any time. There are      *)
(* four ways in: a start, a new start from an old run's current facts, the      *)
(* retry that asks again, and the retry of an old plain run that does not.      *)
EXTENDS Naturals

CONSTANT MaxMoves       \* of each fact a start rests on
ASSUME LaunchingAssumption == MaxMoves \in Nat

VARIABLES launch,   \* the way in, and what goes with the task
          world,    \* what the service holds
          desk,     \* the open form: its copies, its preview and what is agreed
          call      \* the start on its way
launchVars == <<launch, world, desk, call>>

\* Versions of what a start rests on; the task's moves with its assignment too.
Facts == {"task", "provider", "file", "source"}
Unknown == MaxMoves + 1
NotShown == [f \in Facts |-> Unknown]
Frozen == [f \in Facts |-> 0]
Loads == {"file", "project", "rework"}
Consents == Loads \cup {"restart", "execution"}
Ways ==
  {w \in [way : {"start", "restart", "retry", "again"}, carries : SUBSET Loads] :
     w.way = "again" => w.carries \subseteq {"file"}}

Carries(c) == c \in launch.carries
Involved ==
  {"task", "provider"} \cup {f \in {"file"} : Carries("file")} \cup {f \in {"source"} : Carries("project")}
\* What each consent is about: a file is known by its id, a file of another task by
\* the submission that was accepted, what is reworked by the task's version.
RestsOn(c) ==
  CASE c = "file" -> {"provider", "file"}
    [] c = "project" -> {"provider", "source"}
    [] c = "rework" -> {"provider", "task"}
    [] c = "restart" -> Involved
    [] OTHER -> {"provider"}
Asked ==
  launch.carries \cup CASE launch.way = "restart" -> {"restart"}
                        [] launch.way = "retry" -> {"execution"}
                        [] OTHER -> {}

NothingAgreed == [c \in Consents |-> NotShown]
Agreed(c) == desk.given[c] # NotShown
NoCall == [phase |-> "none", told |-> NotShown, agreed |-> NothingAgreed, live |-> FALSE, assign |-> Unknown]
NewDesk(view) == [open |-> TRUE, view |-> view, shown |-> NotShown, given |-> NothingAgreed]
\* The plain retry asks for nothing: it stands on what the old run was started with.
Inherited == [c \in Consents |-> IF Carries(c) THEN [f \in Facts |-> IF f \in RestsOn(c) THEN 0 ELSE Unknown]
                                 ELSE NotShown]

LaunchInit ==
  /\ launch \in Ways
  /\ \E s \in {"empty", "agent", "other"} : world = [facts |-> Frozen, slot |-> s, active |-> FALSE]
  /\ desk = NewDesk(Frozen)
  /\ call = NoCall

AtRest == call.phase = "none"
AtDesk == desk.open /\ AtRest

----------------------------------------------------------------------------
\* Others.
Edits ==
  /\ \E f \in Involved :
       /\ world.facts[f] < MaxMoves
       /\ world' = [world EXCEPT !.facts[f] = @ + 1]
  /\ UNCHANGED <<launch, desk, call>>
Reassigns ==
  /\ world.facts["task"] < MaxMoves
  /\ \E s \in {"empty", "agent", "other"} \ {world.slot} :
       world' = [world EXCEPT !.slot = s, !.facts["task"] = @ + 1]
  /\ UNCHANGED <<launch, desk, call>>
RunsElsewhere ==
  /\ world' = [world EXCEPT !.active = ~@]
  /\ UNCHANGED <<launch, desk, call>>

----------------------------------------------------------------------------
\* The form.
\* A newer task or provider takes back what the start form was told; in the other
\* forms any newer read does, and the preview with it.
Watched == IF launch.way = "start" THEN {"task", "provider"} ELSE Facts
Cleared(f) == IF f \in Watched THEN NothingAgreed ELSE desk.given
Preview(f) ==
  IF launch.way = "restart" \/ f = "task" THEN NotShown ELSE desk.shown
\* Mutant: a read changes what is shown and takes nothing back.
Reread_KeepsConsent(f, v) == [desk EXCEPT !.view[f] = v, !.shown = Preview(f)]
Reread(f, v) == [desk EXCEPT !.view[f] = v, !.shown = Preview(f), !.given = Cleared(f)]
Overtaken(f) == [call EXCEPT !.live = @ /\ f \notin Watched]
Reads ==
  /\ desk.open
  /\ \E f \in Involved \ {"source"} :
       /\ desk.view[f] # world.facts[f]
       /\ desk' = Reread(f, world.facts[f])
       /\ call' = Overtaken(f)
  /\ UNCHANGED <<launch, world>>
\* A file of another task stays the one that was picked until another is.
PicksAgain ==
  /\ AtDesk /\ Carries("project") /\ launch.way \in {"start", "restart"}
  /\ desk.view["source"] # world.facts["source"]
  /\ desk' = [desk EXCEPT !.view["source"] = world.facts["source"],
                          !.shown = IF launch.way = "restart" THEN NotShown ELSE @,
                          !.given = IF launch.way = "restart" THEN NothingAgreed
                                    ELSE [@ EXCEPT !["file"] = NotShown, !["project"] = NotShown]]
  /\ UNCHANGED <<launch, world, call>>
TakesBack ==
  /\ AtDesk
  /\ desk' = NewDesk(desk.view)
  /\ UNCHANGED <<launch, world, call>>
Leaves ==
  /\ desk.open
  /\ desk' = [NewDesk(desk.view) EXCEPT !.open = FALSE]
  /\ call' = [call EXCEPT !.live = FALSE]
  /\ UNCHANGED <<launch, world>>
Returns ==
  /\ ~desk.open /\ AtRest
  /\ desk' = NewDesk(desk.view)
  /\ UNCHANGED <<launch, world, call>>

\* What the service would freeze now, were it asked with these versions.
FilesStand == Carries("file") => world.facts["file"] = 0
SourceStands(v) == Carries("project") => world.facts["source"] = v["source"]
ReworkStands(v) == Carries("rework") => world.facts["task"] = v["task"]
Freezable(v) == FilesStand /\ SourceStands(v) /\ ReworkStands(v)
PreviewsRework ==
  /\ AtDesk /\ launch.way = "start" /\ Carries("rework")
  /\ world.facts["task"] = desk.view["task"]
  /\ desk' = [desk EXCEPT !.shown["task"] = desk.view["task"], !.given["rework"] = NotShown]
  /\ UNCHANGED <<launch, world, call>>
PreviewsRestart ==
  /\ AtDesk /\ launch.way = "restart"
  /\ world.facts["task"] = desk.view["task"] /\ Freezable(desk.view)
  /\ world.slot = "agent" /\ ~world.active
  /\ desk' = [desk EXCEPT !.shown = world.facts, !.given = NothingAgreed]
  /\ UNCHANGED <<launch, world, call>>

\* What the person looks at when they agree.
Sight ==
  CASE launch.way = "start" -> desk.view
    [] launch.way = "restart" -> desk.shown
    [] OTHER -> Frozen
Legible(c) ==
  CASE launch.way = "start" /\ c = "file" -> desk.view["file"] = 0
    [] launch.way = "start" /\ c = "rework" -> desk.shown["task"] = desk.view["task"]
    [] launch.way = "restart" -> desk.shown # NotShown
    [] launch.way = "retry" -> desk.view["provider"] = 0
    [] OTHER -> TRUE
Agrees ==
  /\ AtDesk /\ launch.way # "again"
  /\ \E c \in Asked :
       /\ ~Agreed(c) /\ Legible(c)
       /\ desk' = [desk EXCEPT !.given[c] = [f \in Facts |-> IF f \in RestsOn(c) THEN Sight[f] ELSE Unknown]]
  /\ UNCHANGED <<launch, world, call>>

----------------------------------------------------------------------------
\* The start, and what is read again before it is sent.
Ready ==
  \/ launch.way = "again"
  \/ /\ \A c \in Asked : Agreed(c)
     /\ launch.way = "start" /\ Carries("file") => desk.view["file"] = 0
     /\ launch.way = "retry" => desk.view["provider"] = 0
Clicks ==
  /\ AtDesk /\ Ready
  /\ call' = [NoCall EXCEPT !.phase = IF launch.way \in {"start", "again"} THEN "checking" ELSE "rechecking",
                            !.told = Sight, !.live = TRUE,
                            !.agreed = IF launch.way = "again" THEN Inherited ELSE desk.given]
  /\ UNCHANGED <<launch, world, desk>>

Confirms == launch.carries # {}
\* A plain start looks at the protocol and the model, which a newer provider may share.
SameProvider == call.told["provider"] = world.facts["provider"]
Startable ==
  /\ ~world.active
  /\ world.slot \in IF launch.way = "again" \/ Carries("rework") THEN {"agent"} ELSE {"agent", "empty"}
  /\ launch.way = "start" /\ Confirms => SameProvider
\* The check reads the provider for the form as well. It also fails when a read does,
\* or the Agent or the model is no longer fit.
Checks ==
  /\ call.phase = "checking"
  /\ LET newer == desk.open /\ desk.view["provider"] # world.facts["provider"]
         read == IF newer THEN Overtaken("provider") ELSE call
     IN /\ desk' = IF newer THEN Reread("provider", world.facts["provider"]) ELSE desk
        /\ \/ /\ Startable
              /\ call' = [read EXCEPT !.phase = IF launch.way = "again" THEN "sent" ELSE "rechecking",
                            !.assign = IF world.slot = "empty" THEN world.facts["task"] ELSE Unknown]
           \/ call' = [read EXCEPT !.phase = "failed"]
  /\ UNCHANGED <<launch, world>>

\* Only where something of another task or an old submission goes along does the
\* start form mind that it was left or overtaken.
MindsTheOwner == launch.way # "start" \/ Carries("project") \/ Carries("rework")
SamePreview == \A f \in Involved : world.facts[f] = call.told[f]
Rechecked ==
  /\ MindsTheOwner => call.live
  /\ launch.way = "start" => Freezable(call.told)
  /\ launch.way = "restart" => SamePreview /\ world.slot = "agent" /\ ~world.active
SendsStart ==
  /\ call.phase = "rechecking" /\ Rechecked
  /\ call' = [call EXCEPT !.phase = "sent"]
  /\ UNCHANGED <<launch, world, desk>>
\* What the service refuses to preview again is a conflict to the start form.
RefusedAgain ==
  /\ launch.way = "start"
  /\ ~ReworkStands(call.told) \/ ~SourceStands(call.told)
GivesUp ==
  /\ call.phase = "rechecking"
  /\ \/ call' = [call EXCEPT !.phase = "failed"]
     \/ RefusedAgain /\ call' = [call EXCEPT !.phase = "conflict"]
  /\ UNCHANGED <<launch, world, desk>>

----------------------------------------------------------------------------
\* The service, in one transaction.
\* Only a slot that was seen empty is filled, and only if the task is as it was then.
Assigned ==
  IF call.assign = Unknown THEN world.slot = "agent"
  ELSE world.slot = "empty" /\ call.assign = world.facts["task"]
\* A retry is held to the whole identity of the old run.
Identity ==
  CASE launch.way = "start" -> Confirms => SameProvider
    [] launch.way = "restart" ->
         /\ world.facts["task"] = call.told["task"]
         /\ Confirms => SameProvider
    [] OTHER -> world.facts["task"] = 0 /\ world.facts["provider"] = 0
Fingerprint == launch.way = "restart" => SamePreview
\* Mutant: the provider that was agreed to is not looked at.
Accepts_AnyProvider == Assigned /\ ~world.active /\ Freezable(call.told) /\ Fingerprint
Accepts == Assigned /\ ~world.active /\ Identity /\ Freezable(call.told) /\ Fingerprint
Creates ==
  /\ call.phase = "sent" /\ Accepts
  /\ world.slot = "empty" => world.facts["task"] < MaxMoves
  /\ world' = [world EXCEPT !.active = TRUE, !.slot = "agent",
                            !.facts["task"] = IF world.slot = "empty" THEN @ + 1 ELSE @]
  /\ call' = [call EXCEPT !.phase = "created"]
  /\ UNCHANGED <<launch, desk>>
\* A full queue refuses too, and is no conflict.
Declines ==
  /\ call.phase = "sent"
  /\ \/ ~Accepts /\ call' = [call EXCEPT !.phase = "conflict"]
     \/ call' = [call EXCEPT !.phase = "failed"]
  /\ UNCHANGED <<launch, world, desk>>
Vanishes ==
  /\ call.phase = "created"
  /\ call' = [call EXCEPT !.phase = "failed"]
  /\ UNCHANGED <<launch, world, desk>>

----------------------------------------------------------------------------
\* The answer. A failure that is no conflict leaves the start form its plain consents.
Succeeds ==
  /\ call.phase = "created"
  /\ desk' = IF desk.open THEN [NewDesk(desk.view) EXCEPT !.open = launch.way \in {"start", "again"}] ELSE desk
  /\ call' = NoCall
  /\ UNCHANGED <<launch, world>>
AfterFailure ==
  CASE launch.way # "start" \/ call.phase = "conflict" -> NewDesk(desk.view)
    [] OTHER -> IF Carries("project")
                THEN [desk EXCEPT !.given["file"] = NotShown, !.given["project"] = NotShown]
                ELSE desk
Failed ==
  /\ call.phase \in {"conflict", "failed"}
  /\ desk' = IF desk.open THEN AfterFailure ELSE desk
  /\ call' = NoCall
  /\ UNCHANGED <<launch, world>>

LaunchNext ==
  \/ Edits \/ Reassigns \/ RunsElsewhere
  \/ Reads \/ PicksAgain \/ TakesBack \/ Leaves \/ Returns
  \/ PreviewsRework \/ PreviewsRestart \/ Agrees
  \/ Clicks \/ Checks \/ SendsStart \/ GivesUp
  \/ Creates \/ Declines \/ Vanishes \/ Succeeds \/ Failed
LaunchSpec == LaunchInit /\ [][LaunchNext]_launchVars

----------------------------------------------------------------------------
Versioned == [Facts -> 0..Unknown]
LaunchTypeOK ==
  /\ launch \in Ways
  /\ world \in [facts : [Facts -> 0..MaxMoves], slot : {"empty", "agent", "other"}, active : BOOLEAN]
  /\ desk \in [open : BOOLEAN, view : Versioned, shown : Versioned, given : [Consents -> Versioned]]
  /\ call \in [phase : {"none", "checking", "rechecking", "sent", "created", "conflict", "failed"},
               told : Versioned, agreed : [Consents -> Versioned], live : BOOLEAN, assign : 0..Unknown]

\* A run is made of what was agreed to: every consent that its way asks for was given
\* before it was sent, and whatever the consent is about (the provider as it is
\* configured, the file, the accepted submission it comes from, the submission that
\* is reworked, the facts of the preview) is as it was when it was given. What was
\* left before it was sent is not sent, but for a start with nothing of another
\* task or submission.
LaunchesAreAgreed ==
  [][/\ Creates => \A c \in Asked : \A f \in RestsOn(c) : call.agreed[c][f] = world.facts[f]
     /\ SendsStart /\ MindsTheOwner => desk.open]_launchVars
=============================================================================

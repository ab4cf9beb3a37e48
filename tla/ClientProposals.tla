-------------------------- MODULE ClientProposals --------------------------
(* The proposals about a client, its contact, a local person, an activity and *)
(* a follow-up: what the service previews and does, what the client believes. *)
EXTENDS ProposalText

Manners == {"active", "lead", "inactive"}
Presence == {"active", "inactive"}

\* A linked person stays active (020_client_actor_links.sql:123), and so does the
\* one a planned follow-up is assigned to (actorUpdates).
Worlds ==
  {[of |-> "client", status |-> s, blocked |-> b] : s \in Manners, b \in BOOLEAN}
  \cup {v \in [of : {"contact"}, status : Manners, person : Presence, linked : BOOLEAN] :
          v.linked => v.person = "active"}
  \cup {[of |-> "person", status |-> s, busy |-> b] : s \in Presence, b \in BOOLEAN}
  \cup {[of |-> "activity", client |-> s, status |-> t] :
          s \in Manners, t \in {"visible", "system", "deleted"}}
  \cup [of : {"followup"}, client : Manners, status : {"planned", "over"}, other : Presence]

----------------------------------------------------------------------------
(* What the tool takes from the model.                                        *)
ClientTexts == [name |-> {"new", "padded"}, notes |-> {"new", "padded", "null"},
                status |-> Manners]
PersonTexts == [display_name |-> {"new", "padded"}, notes |-> {"new"},
                status |-> Presence]
ActivityTexts == [title |-> {"new", "padded"}, body |-> {"new"}]
FollowupTexts == [purpose |-> {"new", "padded"}, notes |-> {"new", "null"},
                  assigned_actor |-> {"mine", "other"}]
Plan == DOMAIN FollowupTexts
Plans == {f \in Written(FollowupTexts) : DOMAIN f = Plan}

Act(kind, changes) == [kind |-> kind, changes |-> changes]
Acts(kind, all) == {Act(kind, c) : c \in all}

\* parseAIClientAction, parseAIClientContactAction, parseAIPersonAction,
\* parseAIClientActivityAction, parseAIClientFollowupAction: all but the person's
\* write the changes down as the service cleans them.
Actions ==
  [client |-> Acts("client.create", {Clean(f) : f \in {g \in Written(ClientTexts) : "name" \in DOMAIN g}})
        \cup Acts("client.update", {Clean(f) : f \in Written(ClientTexts) \ {Nothing}})
        \cup {Act("client.delete", Nothing)},
   contact |-> {Act("client_contact.link", [actor_id |-> "person"]),
                Act("client_contact.unlink", [reason |-> "new"])},
   person |-> Acts("person.create", {f \in Written(PersonTexts) :
                     "display_name" \in DOMAIN f /\ "status" \notin DOMAIN f})
        \cup Acts("person.update", Written(PersonTexts) \ {Nothing}),
   activity |-> Acts("client_activity.create", {[title |-> "new", body |-> "new"]})
        \cup Acts("client_activity.update", {Clean(f) : f \in Written(ActivityTexts) \ {Nothing}})
        \cup {Act("client_activity.delete", [reason |-> "new"])},
   followup |-> Acts("client_followup.create", {Clean(f) : f \in Plans})
        \cup Acts("client_followup.update", {Clean(f) : f \in Written(FollowupTexts) \ {Nothing}})
        \cup Acts("client_followup.cancel", {[reason |-> "new"]})
        \cup Acts("client_followup.skip", {[reason |-> "new"]})
        \cup Acts("client_followup.complete", {[result |-> "new"]}
               \cup {[result |-> "new", next |-> Clean(f)] : f \in Plans})
        \cup Acts("client_followup.reschedule", {[reason |-> "new", next |-> Clean(f)] : f \in Plans})]

----------------------------------------------------------------------------
(* The service: what it refuses, what it shows, what it does.                  *)
ActorOf(w, who) == IF who = "mine" THEN "active" ELSE w.other
Plannable(w, plan) == w.client # "inactive" /\ ActorOf(w, plan.assigned_actor) = "active"

\* previewAIClientAction, previewAIClientContactAction, previewAIPersonAction,
\* prepareClientActivityChange, prepareClientFollowupChange
Previews(a, w) ==
  LET k == a.kind  c == a.changes IN
  CASE k = "client.delete" -> w.status = "inactive" /\ ~w.blocked
    [] k = "client_contact.link" -> w.person = "active" /\ ~w.linked
    [] k = "client_contact.unlink" -> w.linked
    [] k = "person.update" ->
         "status" \in DOMAIN c => ~(w.status = "active" /\ c.status = "inactive" /\ w.busy)
    [] k \in {"client_activity.update", "client_activity.delete"} -> w.status = "visible"
    [] k = "client_followup.create" -> Plannable(w, c)
    [] k = "client_followup.update" ->
         /\ w.status = "planned" /\ w.client # "inactive"
         /\ "assigned_actor" \in DOMAIN c => ActorOf(w, c.assigned_actor) = "active"
    [] k \in {"client_followup.complete", "client_followup.reschedule"} ->
         w.status = "planned" /\ ("next" \in DOMAIN c => Plannable(w, c.next))
    [] k \in {"client_followup.cancel", "client_followup.skip"} -> w.status = "planned"
    [] OTHER -> TRUE

ClientRow(w) == [name |-> "old", notes |-> "null", status |-> w.status]
NewClient == [name |-> "new", notes |-> "null", status |-> "lead"]
PersonRow(w) == [display_name |-> "old", notes |-> "old", status |-> w.status]
Contact(w, state) == [client_status |-> w.status, actor_id |-> "person",
                      actor_status |-> w.person, link_state |-> state]
ActivityRow(w, patch, state) ==
  [client_status |-> w.client, title |-> "old", activity_state |-> state]
    @@ (IF "body" \in DOMAIN patch THEN [body |-> "old"] ELSE Nothing)
\* addAIClientFollowupIdentities
Identified(w, plan) ==
  [client_status |-> w.client, assigned_actor_status |-> ActorOf(w, plan.assigned_actor)] @@ plan
\* The notes are shown only where they are edited.
FollowupRow(w, c, edits) ==
  [purpose |-> "old", assigned_actor |-> "mine", status |-> "planned"]
    @@ (IF edits /\ "notes" \in DOMAIN c THEN [notes |-> "null"] ELSE Nothing)
EndOf(kind) ==
  CASE kind = "client_followup.complete" -> "completed"
    [] kind = "client_followup.skip" -> "skipped"
    [] OTHER -> "cancelled"

Before(a, w) ==
  LET k == a.kind  c == a.changes IN
  CASE k = "client.update" -> Cut(ClientRow(w), DOMAIN c)
    [] k = "client.delete" -> [status |-> w.status]
    [] k = "client_contact.link" -> [link_state |-> "none"]
    [] k = "client_contact.unlink" -> Contact(w, "active")
    [] k = "person.update" -> Cut(PersonRow(w), DOMAIN c)
    [] k \in {"client_activity.update", "client_activity.delete"} -> ActivityRow(w, c, "visible")
    [] k = "client_followup.update" -> Identified(w, FollowupRow(w, c, TRUE))
    [] k \in {"client_followup.cancel", "client_followup.skip", "client_followup.complete",
              "client_followup.reschedule"} -> Identified(w, FollowupRow(w, c, FALSE))
    [] OTHER -> Nothing

After(a, w) ==
  LET k == a.kind  c == a.changes IN
  CASE k = "client.create" -> c @@ NewClient
    [] k = "client.delete" -> [client_deleted |-> "yes"]
    [] k = "client_contact.link" -> Contact(w, "active")
    [] k = "client_contact.unlink" -> c @@ Contact(w, "unlinked")
    [] k = "person.create" ->
         Clean(c) @@ [notes |-> "old", status |-> "active", person_type |-> "person"]
    [] k \in {"client.update", "person.update"} -> Clean(c)
    [] k = "client_activity.create" ->
         c @@ [client_status |-> w.client, activity_state |-> "visible"]
    [] k = "client_activity.update" -> c @@ ActivityRow(w, c, "visible")
    [] k = "client_activity.delete" -> c @@ ActivityRow(w, c, "deleted")
    [] k = "client_followup.create" -> Identified(w, c @@ [status |-> "planned"])
    [] k = "client_followup.update" -> Identified(w, c @@ FollowupRow(w, c, TRUE))
    [] OTHER -> Identified(w, Without(c, {"next"}) @@ [status |-> EndOf(k)] @@ FollowupRow(w, c, FALSE))

\* The plan that takes the place of the one that ends.
More(a, w) ==
  IF "next" \in DOMAIN a.changes
  THEN Identified(w, a.changes.next @@ [status |-> "planned"]) ELSE Nothing

----------------------------------------------------------------------------
(* The client.                                                                *)
ClientField(f, v) ==
  IF f = "status" THEN v \in Manners ELSE IF f = "name" THEN Text(v) ELSE OptionalText(v)
PersonField(f, v) == IF f = "status" THEN v \in Presence ELSE Text(v)

SameKeys(p) == p.changes # Nothing /\ DOMAIN p.before = DOMAIN p.changes
                 /\ DOMAIN p.after = DOMAIN p.changes
ValidClientProposal(p) ==
  IF p.kind = "client.delete"
  THEN p.before = [status |-> "inactive"] /\ p.after = [client_deleted |-> "yes"]
  ELSE /\ \A f \in {p.changes, p.before, p.after} : \A k \in DOMAIN f : ClientField(k, f[k])
       /\ Says(p.changes, p.after)
       /\ IF p.kind = "client.create"
          THEN "name" \in DOMAIN p.changes /\ p.before = Nothing /\ DOMAIN p.after = DOMAIN ClientTexts
          ELSE SameKeys(p)

ValidPersonProposal(p) ==
  /\ \A k \in DOMAIN p.changes : PersonField(k, p.changes[k])
  /\ Says(p.changes, p.after)
  /\ IF p.kind = "person.create"
     THEN /\ "display_name" \in DOMAIN p.changes /\ "status" \notin DOMAIN p.changes
          /\ p.before = Nothing /\ p.after.status = "active" /\ p.after.person_type = "person"
          /\ \A k \in {"display_name", "notes"} : PersonField(k, p.after[k])
     ELSE /\ SameKeys(p)
          /\ \A f \in {p.before, p.after} : \A k \in DOMAIN f : PersonField(k, f[k])

Identity(f, state) ==
  f.client_status \in Manners /\ f.actor_status = "active" /\ f.link_state = state
ValidClientContactProposal(p) ==
  IF p.kind = "client_contact.link"
  THEN /\ Identity(p.after, "active") /\ p.before = [link_state |-> "none"]
       /\ p.changes.actor_id = p.after.actor_id
  ELSE /\ Identity(p.after, "unlinked") /\ Identity(p.before, "active")
       /\ p.changes.reason = p.after.reason
       /\ Says(Without(p.before, {"link_state"}), p.after)

Record(f, edited, state) ==
  /\ f.client_status \in Manners /\ Text(f.title) /\ f.activity_state = state
  /\ "body" \in edited => Text(f.body)
\* parseAiActionProposal, the activities.
ValidActivityProposal(p) ==
  LET edited == DOMAIN p.changes
      deletes == p.kind = "client_activity.delete"
      known == {"client_status", "title", "activity_state"} \cup (edited \cap {"body"})
  IN /\ Record(p.after, edited, IF deletes THEN "deleted" ELSE "visible")
     /\ DOMAIN p.after \subseteq known \cup (IF deletes THEN {"reason"} ELSE {})
     /\ edited # {} /\ Says(p.changes, p.after)
     /\ IF p.kind = "client_activity.create" THEN p.before = Nothing /\ edited = {"title", "body"}
        ELSE /\ Record(p.before, edited, "visible") /\ DOMAIN p.before \subseteq known
             /\ \A f \in {"client_status", "title"} \ edited : p.before[f] = p.after[f]

Planned(f) ==
  /\ Text(f.purpose) /\ f.client_status \in Manners /\ f.assigned_actor_status \in Presence
  /\ "notes" \in DOMAIN f => OptionalText(f.notes)
ShownOfPlan == Plan \cup {"client_status", "assigned_actor_status", "status"}
\* parseAiActionProposal, the follow-ups: who is shown, and in what state.
FollowupIdentity(p) ==
  LET creates == p.kind = "client_followup.create"
      edits == creates \/ p.kind = "client_followup.update"
      ends == IF p.kind = "client_followup.complete" THEN {"result"}
              ELSE IF edits THEN {} ELSE {"reason"}
  IN /\ Planned(p.after)
     /\ p.after.status = IF edits THEN "planned" ELSE EndOf(p.kind)
     /\ edits => p.after.client_status # "inactive"
     /\ creates \/ (edits /\ "assigned_actor" \in DOMAIN p.changes) =>
          p.after.assigned_actor_status = "active"
     /\ IF creates THEN p.before = Nothing ELSE Planned(p.before) /\ p.before.status = "planned"
     /\ DOMAIN p.before \subseteq ShownOfPlan /\ DOMAIN p.after \subseteq ShownOfPlan \cup ends
     /\ p.changes # Nothing
\* The same, what changes: nothing but what the person is shown to change.
FollowupChange(p) ==
  LET c == DOMAIN p.changes
      edited == IF p.kind = "client_followup.update"
                THEN c \cup (IF "assigned_actor" \in c THEN {"assigned_actor_status"} ELSE {})
                ELSE {}
  IN /\ \A k \in DOMAIN p.before \ (edited \cup {"status"}) :
          k \in DOMAIN p.after /\ p.after[k] = p.before[k]
     /\ CASE p.kind = "client_followup.complete" ->
               c \subseteq {"result", "next"} /\ Text(p.after.result)
                 /\ p.after.result = p.changes.result /\ ("next" \in c <=> p.more # Nothing)
          [] p.kind = "client_followup.reschedule" ->
               p.changes.reason = p.after.reason /\ p.more # Nothing
          [] p.kind \in {"client_followup.cancel", "client_followup.skip"} ->
               c = {"reason"} /\ p.changes.reason = p.after.reason
          [] OTHER -> c \subseteq Plan /\ Says(p.changes, p.after)
               /\ (p.kind = "client_followup.create" => c = Plan)
               /\ (p.kind = "client_followup.update" /\ "notes" \in c => "notes" \in DOMAIN p.before)
FollowupNext(p) ==
  p.more # Nothing =>
    /\ p.kind \in {"client_followup.complete", "client_followup.reschedule"}
    /\ Planned(p.more) /\ p.more.status = "planned"
    /\ p.more.client_status = p.after.client_status /\ p.more.client_status # "inactive"
    /\ p.more.assigned_actor_status = "active" /\ DOMAIN p.more \subseteq ShownOfPlan
    /\ DOMAIN p.changes.next = Plan /\ Says(p.changes.next, p.more)
ValidFollowupProposal(p) == FollowupIdentity(p) /\ FollowupChange(p) /\ FollowupNext(p)

Valid(p) ==
  CASE p.of = "client" -> ValidClientProposal(p)
    [] p.of = "contact" -> ValidClientContactProposal(p)
    [] p.of = "person" -> ValidPersonProposal(p)
    [] p.of = "activity" -> ValidActivityProposal(p)
    [] p.of = "followup" -> ValidFollowupProposal(p)
=============================================================================

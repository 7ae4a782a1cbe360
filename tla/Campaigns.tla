----------------------------- MODULE Campaigns ------------------------------
(* Notification campaigns: administrators schedule and cancel them, a runner*)
(* claims those that are due and turns each into recipients and notices, and*)
(* the dispatchers of the outbox report what became of the pushes.          *)
(*                                                                          *)
(* Abstractions.  Every call of the runner and of a dispatcher is a         *)
(* transaction of its own and may fail; a run's queries of users, tokens and*)
(* preferences are one step.  Every campaign is of the category "marketing".*)
(* A campaign that is scheduled is due at some time.  push_failed and       *)
(* read_count, which follow push_sent, are left out, as are other sources of*)
(* notifications.                                                           *)
(***************************************************************************)
EXTENDS PushOutbox

CONSTANTS
  Campaigns,
  Runs,        \* of a campaign: no more of them are explored
  MaxDeciding, \* administrators at work at the same time
  FirstPreferences, \* user_notification_preferences to begin with
  Settings,    \* <<user, preference>>: what users may ask for
  TokensOnly,  \* the audience filter has has_tokens_only or platforms
  NoNotice

\* marketing_push_enabled and marketing_inapp_enabled; both if there is no row
Preference == [push : BOOLEAN, inapp : BOOLEAN]

ASSUME CampaignsAssumption ==
  /\ Notices = Campaigns \X Runs \X Users
  /\ UserOf = [n \in Notices |-> n[3]]
  /\ FirstPreferences \in [Users -> Preference]
  /\ Settings \subseteq Users \X Preference
  /\ TokensOnly \in BOOLEAN /\ MaxDeciding \in Nat
  /\ NoNotice \notin Notices

VARIABLES
  campaign,  \* status of each campaign
  deciding,  \* <<campaign, status>>: administrators who have read it
  run,       \* a run of a campaign: how far it is, its plan for each user
  recipient, \* notification_campaign_recipients: push_status, notification
  pushSent,  \* notification_campaigns.push_sent
  tally,     \* what a dispatcher has read of it
  preference, \* user_notification_preferences
  readBefore \* history: the runs that had read a user's preference when the
             \* user last turned something off

runnerVars == <<campaign, deciding, run>>
prefVars == <<preference, readBefore>>
vars == <<outboxVars, runnerVars, prefVars, recipient, pushSent, tally>>

CampaignStatus ==
  {"draft", "scheduled", "running", "completed", "cancelled", "failed"}
Plans == {"none", "pending", "no_inapp", "no_push", "no_token"}
PushStatus == {"none", "pending", "sent", "failed", "suppressed", "skipped"}
RunPhases ==
  {"none", "claimed", "read", "planned", "inserted", "linked", "ended"}
UnderWay == {"claimed", "read", "planned", "inserted", "linked"}
Ended == [at |-> "ended", plan |-> [u \in Users |-> "none"]]
Muted(u) == ~(preference[u].push /\ preference[u].inapp)

Init ==
  /\ OutboxInit
  /\ campaign = [c \in Campaigns |-> "draft"]
  /\ deciding = {}
  /\ run = [x \in Campaigns \X Runs |->
              [at |-> "none", plan |-> [u \in Users |-> "none"]]]
  /\ recipient = [x \in Campaigns \X Users |->
                    [status |-> "none", notice |-> NoNotice]]
  /\ pushSent = [c \in Campaigns |-> 0]
  /\ tally = [w \in Workers |-> 0]
  /\ preference = FirstPreferences
  /\ readBefore = [u \in Users |-> {}]
-----------------------------------------------------------------------------
(* Users.                                                                   *)

\* user_notification_preferences_upsert_self
SetPreference(u, p) ==
  /\ <<u, p>> \in Settings /\ p # preference[u]
  /\ preference' = [preference EXCEPT ![u] = p]
  /\ readBefore' = [readBefore EXCEPT ![u] =
       IF p.push /\ p.inapp THEN {}
       ELSE {x \in Campaigns \X Runs : run[x].at \notin {"none", "claimed"}}]
  /\ UNCHANGED <<outboxVars, runnerVars, recipient, pushSent, tally>>
-----------------------------------------------------------------------------
(* Administrators.                                                          *)

\* admin-notification-campaign-send, -schedule and -cancel read the status ...
AdminReads(c, to) ==
  /\ campaign[c] \in {"draft", "scheduled"} /\ <<c, to>> \notin deciding
  /\ Cardinality(deciding) < MaxDeciding
  /\ deciding' = deciding \cup {<<c, to>>}
  /\ UNCHANGED <<campaign, run, outboxVars, recipient, pushSent, tally>>

\* ... and write it, whatever it is by then
AdminWrites(c, to) ==
  /\ <<c, to>> \in deciding
  /\ to = "scheduled" => \E r \in Runs : run[<<c, r>>].at = "none"
  /\ deciding' = deciding \ {<<c, to>>}
  /\ campaign' = [campaign EXCEPT ![c] = to]
  /\ UNCHANGED <<run, outboxVars, recipient, pushSent, tally>>
-----------------------------------------------------------------------------
(* The runner.                                                              *)

\* notification_campaign_claim_due.  As it is written the call raises, since
\* "id" is both a column and a result of the function; what the code can do
\* is a part of what is modelled here.
ClaimDue(c, r) ==
  /\ campaign[c] = "scheduled" /\ run[<<c, r>>].at = "none"
  /\ campaign' = [campaign EXCEPT ![c] = "running"]
  /\ run' = [run EXCEPT ![<<c, r>>].at = "claimed"]
  /\ UNCHANGED <<deciding, outboxVars, recipient, pushSent, tally>>

Reachable(u) == \E d \in Devices : device[d].user = u /\ device[d].on

\* previewCampaignAudience: tokens are only read if the filter is about them
Audience == IF TokensOnly THEN {u \in Users : Reachable(u)} ELSE Users
HasToken(u) == TokensOnly /\ Reachable(u)

PlanOf(u) ==
  IF u \notin Audience THEN "none"
  ELSE IF ~preference[u].inapp THEN "no_inapp"
  ELSE IF ~preference[u].push THEN "no_push"
  ELSE IF HasToken(u) THEN "pending" ELSE "no_token"

Planned == [none |-> "none", pending |-> "pending", no_token |-> "skipped",
            no_inapp |-> "suppressed", no_push |-> "suppressed"]

\* a campaign for nobody is complete at once
FindNobody(c, r) ==
  /\ run[<<c, r>>].at = "claimed" /\ Audience = {}
  /\ campaign' = [campaign EXCEPT ![c] = "completed"]
  /\ pushSent' = [pushSent EXCEPT ![c] = 0]
  /\ run' = [run EXCEPT ![<<c, r>>] = Ended]
  /\ UNCHANGED <<deciding, outboxVars, recipient, tally>>

\* The audience, its tokens and its preferences are read; nothing looks at any
\* of them again.
ReadAudience(c, r) ==
  /\ run[<<c, r>>].at = "claimed" /\ Audience # {}
  /\ run' = [run EXCEPT ![<<c, r>>] =
               [at |-> "read", plan |-> [u \in Users |-> PlanOf(u)]]]
  /\ UNCHANGED <<campaign, deciding, outboxVars, recipient, pushSent, tally>>

\* users whose plan is one of those named
With(c, r, plans) == {u \in Users : run[<<c, r>>].plan[u] \in plans}

\* the upsert of the recipients: an earlier run's notification stays linked
PlanRecipients(c, r) ==
  /\ run[<<c, r>>].at = "read"
  /\ run' = [run EXCEPT ![<<c, r>>].at = "planned"]
  /\ recipient' = [x \in Campaigns \X Users |->
       IF x[1] = c /\ x[2] \in With(c, r, Plans \ {"none"})
         THEN [recipient[x] EXCEPT !.status = Planned[run[<<c, r>>].plan[x[2]]]]
         ELSE recipient[x]]
  /\ UNCHANGED <<campaign, deciding, outboxVars, pushSent, tally>>
NoticesTo(c, r, users) == {<<c, r, u>> : u \in users}

\* user_notifications, with the trigger that fills the outbox
InsertNotices(c, r) ==
  /\ run[<<c, r>>].at = "planned"
  /\ run' = [run EXCEPT ![<<c, r>>].at = "inserted"]
  /\ item' = Enqueued(
       NoticesTo(c, r, With(c, r, {"pending", "no_push", "no_token"})),
       NoticesTo(c, r, With(c, r, {"no_push"})))
  /\ UNCHANGED <<device, registering, worker, accepted, campaign, deciding,
                 recipient, pushSent, tally>>

\* the upsert that links the recipients to their notifications
LinkRecipients(c, r) ==
  /\ run[<<c, r>>].at = "inserted"
  /\ run' = [run EXCEPT ![<<c, r>>].at = "linked"]
  /\ recipient' = [x \in Campaigns \X Users |->
       IF x[1] = c /\ x[2] \in With(c, r, {"pending", "no_push", "no_token"})
         THEN [recipient[x] EXCEPT !.notice = <<c, r, x[2]>>]
         ELSE recipient[x]]
  /\ UNCHANGED <<campaign, deciding, outboxVars, pushSent, tally>>

\* none of the planned rows is "sent": the counter starts at 0 again
Complete(c, r) ==
  /\ run[<<c, r>>].at = "linked"
  /\ campaign' = [campaign EXCEPT ![c] = "completed"]
  /\ pushSent' = [pushSent EXCEPT ![c] = 0]
  /\ run' = [run EXCEPT ![<<c, r>>] = Ended]
  /\ UNCHANGED <<deciding, outboxVars, recipient, tally>>

\* a query fails, and the campaign with it
RunFails(c, r) ==
  /\ run[<<c, r>>].at \in UnderWay
  /\ campaign' = [campaign EXCEPT ![c] = "failed"]
  /\ run' = [run EXCEPT ![<<c, r>>] = Ended]
  /\ UNCHANGED <<deciding, outboxVars, recipient, pushSent, tally>>

\* the function is stopped, and the campaign stays "running"
RunnerDies(c, r) ==
  /\ run[<<c, r>>].at \in UnderWay
  /\ run' = [run EXCEPT ![<<c, r>>] = Ended]
  /\ UNCHANGED <<campaign, deciding, outboxVars, recipient, pushSent, tally>>
-----------------------------------------------------------------------------
(* What a dispatcher reports.                                               *)

CampaignOf(i) == i[1][1]
RunOf(i) == <<i[1][1], i[1][2]>>
RowOf(i) == <<i[1][1], i[1][3]>>
\* Mutant: the reason is stored as the status.
Outcome_Reason == [ok |-> "sent", off |-> "disabled", failed |-> "failed"]
Outcome == [ok |-> "sent", off |-> "skipped", failed |-> "failed"]

\* Mutant: the row of the user is taken for that of the notification, and
\* what is over is taken for sent.
RecordRecipient_AnyEnd(w) ==
  LET i == worker[w].item IN
  /\ worker[w].at = "marked"
  /\ worker' = [worker EXCEPT ![w] = Idle]
  /\ recipient' = IF recipient[RowOf(i)].notice = i[1]
                    THEN [recipient EXCEPT ![RowOf(i)].status =
                            IF worker[w].answer = "failed" THEN "failed" ELSE "sent"]
                    ELSE recipient
  /\ UNCHANGED <<device, registering, item, accepted, runnerVars, pushSent, tally>>

\* updateCampaignRecipientStatus: the row that is linked to the notification,
\* if there is one yet
RecordRecipient(w) ==
  LET i == worker[w].item
      linked == recipient[RowOf(i)].notice = i[1]
  IN
  /\ worker[w].at = "marked"
  /\ worker' = [worker EXCEPT ![w] =
                  IF linked /\ worker[w].answer = "ok"
                    THEN [@ EXCEPT !.at = "recorded"] ELSE Idle]
  /\ recipient' = IF linked
                    THEN [recipient EXCEPT ![RowOf(i)].status =
                            Outcome[worker[w].answer]]
                    ELSE recipient
  /\ UNCHANGED <<device, registering, item, accepted, runnerVars, pushSent, tally>>

\* currentNumericStat ...
ReadCount(w) ==
  /\ worker[w].at = "recorded"
  /\ tally' = [tally EXCEPT ![w] = pushSent[CampaignOf(worker[w].item)]]
  /\ worker' = [worker EXCEPT ![w].at = "counting"]
  /\ UNCHANGED <<device, registering, item, accepted, runnerVars, recipient,
                 pushSent>>

\* ... and the update with what it returned, plus one
WriteCount(w) ==
  /\ worker[w].at = "counting"
  /\ pushSent' = [pushSent EXCEPT ![CampaignOf(worker[w].item)] = tally[w] + 1]
  /\ tally' = [tally EXCEPT ![w] = 0]
  /\ worker' = [worker EXCEPT ![w] = Idle]
  /\ UNCHANGED <<device, registering, item, accepted, runnerVars, recipient>>
-----------------------------------------------------------------------------
AdminStep(c) ==
  \E to \in {"scheduled", "cancelled"} : AdminReads(c, to) \/ AdminWrites(c, to)

RunStep(c, r) ==
  \/ FindNobody(c, r) \/ ReadAudience(c, r) \/ PlanRecipients(c, r)
  \/ InsertNotices(c, r)
  \/ LinkRecipients(c, r) \/ Complete(c, r) \/ RunFails(c, r)

ReportStep(w) == RecordRecipient(w) \/ ReadCount(w) \/ WriteCount(w)

Next ==
  \/ /\ \E c \in Campaigns :
          \/ AdminStep(c)
          \/ \E r \in Runs : ClaimDue(c, r) \/ RunStep(c, r) \/ RunnerDies(c, r)
     /\ UNCHANGED prefVars
  \/ (\E w \in Workers : ReportStep(w)) /\ UNCHANGED prefVars
  \/ /\ DeviceStep \/ \E w \in Workers : DispatchStep(w) \/ Dies(w)
     /\ UNCHANGED <<runnerVars, prefVars, recipient, pushSent, tally>>
  \/ \E s \in Settings : SetPreference(s[1], s[2])

Spec == Init /\ [][Next]_vars
-----------------------------------------------------------------------------
CampaignsTypeOK ==
  /\ OutboxTypeOK
  /\ campaign \in [Campaigns -> CampaignStatus]
  /\ deciding \subseteq Campaigns \X {"scheduled", "cancelled"}
  /\ run \in [Campaigns \X Runs -> [at : RunPhases, plan : [Users -> Plans]]]
  /\ recipient \in [Campaigns \X Users ->
                      [status : PushStatus, notice : Notices \cup {NoNotice}]]
  /\ pushSent \in [Campaigns -> Nat]
  /\ tally \in [Workers -> Nat]
  /\ preference \in [Users -> Preference]
  /\ readBefore \in [Users -> SUBSET (Campaigns \X Runs)]

(* A recipient that is recorded as sent was sent a push of the campaign,    *)
(* whichever of its runs and of the user's devices that was for.            *)
RecordedSentWasSent ==
  \A x \in Campaigns \X Users :
    recipient[x].status = "sent" => \E i \in accepted : RowOf(i) = x

(* push_sent may fall behind, since dispatchers that read it together write *)
(* the same number and a run sets it back, but never counts what was not    *)
(* sent.                                                                    *)
CountNeverOverstates ==
  \A c \in Campaigns :
    pushSent[c] <= Cardinality({i \in accepted : CampaignOf(i) = c})

(* Who has turned off marketing notifications is sent none that is addressed*)
(* to them, in whatever order runs, registrations and failures come, but for*)
(* runs that had read the preferences by then: neither the insertion nor a  *)
(* dispatcher looks at them again.  This follows whom a notice is for; a    *)
(* device that has changed hands since gets what was due to its last user,  *)
(* whatever its new one prefers.                                            *)
MutedAreLeftAlone ==
  \A i \in Items :
    item[i] # "none" /\ Muted(UserOf[i[1]]) => RunOf(i) \in readBefore[UserOf[i[1]]]
=============================================================================

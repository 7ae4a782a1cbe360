------------------------ MODULE NotificationProofs -------------------------
(***************************************************************************)
(* Theorems about PushOutbox and Campaigns for every set of users, devices, *)
(* dispatchers, campaigns and runs.                                         *)
(*                                                                          *)
(* The argument is made for the outbox by itself, whatever fills it, and    *)
(* carried over to the campaigns by showing that they implement it.         *)
(***************************************************************************)
EXTENDS Campaigns, FiniteSetTheorems, TLAPS

-----------------------------------------------------------------------------
(* The outbox.                                                              *)

\* A dispatcher that does something has an item, and if it was told "ok" the
\* item is accepted; before the mark, an accepted item means that it was.
HeldItems ==
  \A w \in Workers : worker[w].at # "idle" =>
    /\ worker[w].item \in Items
    /\ worker[w].answer = "ok" => worker[w].item \in accepted
    /\ worker[w].at = "working" /\ worker[w].item \in accepted
         => worker[w].answer = "ok"
    /\ worker[w].at # "working" => worker[w].answer \in {"ok", "off", "failed"}

OutboxInv ==
  /\ OutboxTypeOK
  /\ HeldItems
  /\ OneWorkerPerItem
  /\ AcceptedIsNotRetried

LEMMA OutboxInitInv == OutboxInit => OutboxInv
<1> SUFFICES ASSUME OutboxInit PROVE OutboxInv
  OBVIOUS
<1>1. OutboxTypeOK
  BY OutboxAssumption DEF OutboxInit, OutboxTypeOK, Idle, ItemStatus, Phases, Answers
<1>2. HeldItems /\ OneWorkerPerItem /\ AcceptedIsNotRetried
  BY DEF OutboxInit, HeldItems, OneWorkerPerItem, AcceptedIsNotRetried, Idle
<1> QED BY <1>1, <1>2 DEF OutboxInv

\* Only device_tokens and the registrations change.
LEMMA DeviceStepInv ==
  ASSUME OutboxInv, DeviceStep
  PROVE  OutboxInv' /\ UNCHANGED <<item, worker, accepted>>
<1> USE DEF OutboxInv
<1>1. UNCHANGED <<item, worker, accepted>>
  BY DEF DeviceStep, StartRegister, FinishRegister, DisableDevice
<1>2. registering' \subseteq Registrations
  <2>1. registering \subseteq Registrations
    BY DEF OutboxTypeOK
  <2>2. ASSUME NEW r \in Registrations, StartRegister(r[1], r[2], r[3])
        PROVE  registering' \subseteq Registrations
    BY <2>1, <2>2 DEF StartRegister
  <2>3. ASSUME NEW r \in Registrations, FinishRegister(r[1], r[2], r[3])
        PROVE  registering' \subseteq Registrations
    BY <2>1, <2>3 DEF FinishRegister
  <2>4. ASSUME NEW d \in Devices, DisableDevice(d)
        PROVE  registering' \subseteq Registrations
    BY <2>1, <2>4 DEF DisableDevice
  <2> QED BY <2>2, <2>3, <2>4 DEF DeviceStep
<1> DEFINE Row == [user : Users \cup {Nobody},
                   token : Tokens \cup {NoToken}, on : BOOLEAN]
<1>3. device' \in [Devices -> Row]
  <2>1. ASSUME NEW r \in Registrations, StartRegister(r[1], r[2], r[3])
        PROVE  device' \in [Devices -> Row]
    <3> DEFINE row(x) == [device[x] EXCEPT
                            !.on = @ /\ (x = r[1] \/ device[x].token # r[3])]
    <3>1. device' = device \/ device' = [x \in Devices |-> row(x)]
      BY <2>1 DEF StartRegister
    <3>2. ASSUME NEW x \in Devices
          PROVE  row(x) \in Row
      <4> DEFINE b == device[x].on /\ (x = r[1] \/ device[x].token # r[3])
      <4>1. device[x] \in Row
        BY DEF OutboxTypeOK
      <4>2. b \in BOOLEAN
        OBVIOUS
      <4>3. row(x) = [device[x] EXCEPT !.on = b]
        OBVIOUS
      <4> HIDE DEF b
      <4> QED BY <4>1, <4>2, <4>3
    <3>3. device \in [Devices -> Row]
      BY DEF OutboxTypeOK
    <3> QED BY <3>1, <3>2, <3>3
  <2>2. ASSUME NEW r \in Registrations, FinishRegister(r[1], r[2], r[3])
        PROVE  device' \in [Devices -> Row]
    BY <2>2, OutboxAssumption DEF FinishRegister, OutboxTypeOK
  <2>3. ASSUME NEW d \in Devices, DisableDevice(d) PROVE device' \in [Devices -> Row]
    BY <2>3 DEF DisableDevice, OutboxTypeOK
  <2> QED BY <2>1, <2>2, <2>3 DEF DeviceStep
<1>4. OutboxTypeOK'
  BY <1>1, <1>2, <1>3 DEF OutboxTypeOK
<1>5. (HeldItems /\ OneWorkerPerItem /\ AcceptedIsNotRetried)'
  BY <1>1 DEF HeldItems, OneWorkerPerItem, AcceptedIsNotRetried
<1> QED BY <1>1, <1>4, <1>5

LEMMA ClaimInv ==
  ASSUME OutboxInv, NEW w \in Workers, NEW i \in Items, Claim(w, i)
  PROVE  OutboxInv' /\ item[i] = "pending" /\ \A j \in Items \ {i} : item'[j] = item[j]
<1> USE DEF OutboxInv, Claim
<1>1. OutboxTypeOK'
  BY DEF OutboxTypeOK, ItemStatus, Phases, Answers
<1>2. HeldItems'
  BY DEF HeldItems, OutboxTypeOK, AcceptedIsNotRetried
<1>3. OneWorkerPerItem'
  BY DEF OneWorkerPerItem, OutboxTypeOK, HeldItems
<1>4. AcceptedIsNotRetried'
  BY DEF AcceptedIsNotRetried, OutboxTypeOK
<1>5. item[i] = "pending" /\ \A j \in Items \ {i} : item'[j] = item[j]
  BY DEF OutboxTypeOK
<1> QED BY <1>1, <1>2, <1>3, <1>4, <1>5

LEMMA PushInv ==
  ASSUME OutboxInv, NEW w \in Workers, Push(w)
  PROVE  OutboxInv' /\ UNCHANGED item
<1> USE DEF OutboxInv, Push
<1>1. OutboxTypeOK'
  BY DEF OutboxTypeOK, HeldItems, Answers, Phases
<1>2. HeldItems'
  BY DEF HeldItems, OutboxTypeOK, OneWorkerPerItem
<1>3. OneWorkerPerItem'
  BY DEF OneWorkerPerItem, OutboxTypeOK
<1>4. AcceptedIsNotRetried'
  BY DEF AcceptedIsNotRetried, OutboxTypeOK, OneWorkerPerItem
<1> QED BY <1>1, <1>2, <1>3, <1>4

LEMMA DisableTokenInv ==
  ASSUME OutboxInv, NEW w \in Workers, DisableToken(w)
  PROVE  OutboxInv' /\ UNCHANGED item
<1> USE DEF OutboxInv, DisableToken
<1> DEFINE Row == [user : Users \cup {Nobody},
                   token : Tokens \cup {NoToken}, on : BOOLEAN]
<1>1. OutboxTypeOK'
  <2>1. device \in [Devices -> Row] /\ worker[w].item[2] \in Devices
    BY DEF OutboxTypeOK, HeldItems, Items
  <2>2. device' \in [Devices -> Row]
    BY <2>1
  <2>3. worker' \in [Workers -> [at : Phases, item : Items \cup {NoItem},
                                answer : Answers]]
    BY DEF OutboxTypeOK, Answers
  <2> QED BY <2>2, <2>3 DEF OutboxTypeOK
<1>2. HeldItems'
  BY DEF HeldItems, OutboxTypeOK
<1>3. OneWorkerPerItem'
  BY DEF OneWorkerPerItem, OutboxTypeOK
<1>4. AcceptedIsNotRetried'
  BY DEF AcceptedIsNotRetried
<1> QED BY <1>1, <1>2, <1>3, <1>4

LEMMA MarkInv ==
  ASSUME OutboxInv, NEW w \in Workers, Mark(w)
  PROVE  /\ OutboxInv'
         /\ item[worker[w].item] = "processing"
         /\ \A j \in Items \ {worker[w].item} : item'[j] = item[j]
<1> USE DEF OutboxInv, Mark
<1> DEFINE i == worker[w].item  a == worker[w].answer
<1>1. i \in Items /\ item[i] = "processing" /\ a \in {"ok", "off", "failed"}
  BY DEF HeldItems, OneWorkerPerItem, Marked
<1>2. Marked[a] \in ItemStatus /\ (a = "ok" => Marked[a] = "sent")
  BY <1>1 DEF Marked, ItemStatus
<1>3. /\ worker' = [worker EXCEPT ![w].at = "marked"]
      /\ item' = [item EXCEPT ![i] = Marked[a]] \/ item' = item
      /\ UNCHANGED <<device, registering, accepted>>
  OBVIOUS
<1>4. OutboxTypeOK'
  BY <1>1, <1>2, <1>3 DEF OutboxTypeOK, Phases
<1>5. HeldItems'
  BY <1>1, <1>3 DEF HeldItems, OutboxTypeOK
<1>6. OneWorkerPerItem'
  BY <1>1, <1>3 DEF OneWorkerPerItem, OutboxTypeOK, HeldItems
<1>7. AcceptedIsNotRetried'
  BY <1>1, <1>2, <1>3 DEF AcceptedIsNotRetried, OutboxTypeOK, HeldItems
<1>8. \A j \in Items \ {i} : item'[j] = item[j]
  BY <1>3 DEF OutboxTypeOK
<1> QED BY <1>1, <1>4, <1>5, <1>6, <1>7, <1>8

\* A dispatcher that has marked its item, or dies, is none of the outbox's
\* business.
LEMMA LeaveInv ==
  ASSUME OutboxInv, NEW w \in Workers, Dies(w) \/ Reports(w)
  PROVE  OutboxInv' /\ UNCHANGED item
<1> USE DEF OutboxInv
<1>1. UNCHANGED <<device, registering, item, accepted>>
  BY DEF Dies, Reports
<1>2. \/ worker' = [worker EXCEPT ![w] = Idle]
      \/ /\ worker[w].at \notin {"idle", "working"}
         /\ \E a \in Phases \ {"working"} : worker' = [worker EXCEPT ![w].at = a]
  BY DEF Dies, Reports
<1>3. OutboxTypeOK'
  BY <1>1, <1>2 DEF OutboxTypeOK, Idle, Phases, Answers
<1>4. HeldItems'
  <2>1. CASE worker' = [worker EXCEPT ![w] = Idle]
    BY <1>1, <2>1 DEF HeldItems, OutboxTypeOK, Idle
  <2>2. ASSUME worker[w].at \notin {"idle", "working"}, NEW a \in Phases \ {"working"},
               worker' = [worker EXCEPT ![w].at = a]
        PROVE  HeldItems'
    BY <1>1, <2>2 DEF HeldItems, OutboxTypeOK
  <2> QED BY <1>2, <2>1, <2>2
<1>5. OneWorkerPerItem'
  BY <1>1, <1>2 DEF OneWorkerPerItem, OutboxTypeOK, Idle
<1>6. AcceptedIsNotRetried'
  BY <1>1 DEF AcceptedIsNotRetried
<1> QED BY <1>1, <1>3, <1>4, <1>5, <1>6

LEMMA NotifyInv ==
  ASSUME OutboxInv, NEW ns \in SUBSET Notices, Notify(ns)
  PROVE  OutboxInv' /\ \A j \in Items : item'[j] = item[j] \/ item[j] = "none"
<1> USE DEF OutboxInv
<1>1. UNCHANGED <<device, registering, worker, accepted>>
  BY DEF Notify
<1>2. item' \in [Items -> ItemStatus]
  BY DEF Notify, Enqueued, OutboxTypeOK, ItemStatus
<1>3. \A j \in Items : item'[j] = item[j] \/ item[j] = "none"
  BY DEF Notify, Enqueued
<1>4. OutboxTypeOK'
  BY <1>1, <1>2 DEF OutboxTypeOK
<1>5. HeldItems'
  BY <1>1 DEF HeldItems
<1>6. OneWorkerPerItem'
  BY <1>1, <1>3 DEF OneWorkerPerItem, HeldItems
<1>7. AcceptedIsNotRetried'
  BY <1>1, <1>3 DEF AcceptedIsNotRetried, OutboxTypeOK
<1> QED BY <1>3, <1>4, <1>5, <1>6, <1>7

\* Every step keeps the invariant, and none changes an item that has ended.
LEMMA OutboxStep ==
  ASSUME OutboxInv, [OutboxNext]_outboxVars
  PROVE  /\ OutboxInv'
         /\ \A i \in Items : item[i] \in {"sent", "skipped"} => item'[i] = item[i]
<1>1. CASE DeviceStep
  BY <1>1, DeviceStepInv
<1>2. ASSUME NEW w \in Workers, DispatchStep(w) \/ Dies(w) \/ Reports(w)
      PROVE  /\ OutboxInv'
             /\ \A i \in Items : item[i] \in {"sent", "skipped"} => item'[i] = item[i]
  BY <1>2, ClaimInv, PushInv, DisableTokenInv, MarkInv, LeaveInv DEF DispatchStep
<1>3. CASE \E ns \in SUBSET Notices : Notify(ns)
  BY <1>3, NotifyInv
<1>4. CASE UNCHANGED outboxVars
  BY <1>4 DEF outboxVars, OutboxInv, OutboxTypeOK, HeldItems, OneWorkerPerItem,
              AcceptedIsNotRetried
<1> QED BY <1>1, <1>2, <1>3, <1>4 DEF OutboxNext

LEMMA OutboxInvariant == OutboxSpec => []OutboxInv
  BY OutboxInitInv, OutboxStep, PTL DEF OutboxSpec

(* Claims that skip locked rows give every item to one dispatcher, however  *)
(* many there are and wherever they die.                                    *)
THEOREM OneWorkerPerItemHolds == OutboxSpec => []OneWorkerPerItem
<1>1. OutboxInv => OneWorkerPerItem
  BY DEF OutboxInv
<1> QED BY <1>1, OutboxInvariant, PTL

(* An acknowledged push is not tried again.                                 *)
THEOREM AcceptedIsNotRetriedHolds == OutboxSpec => []AcceptedIsNotRetried
<1>1. OutboxInv => AcceptedIsNotRetried
  BY DEF OutboxInv
<1> QED BY <1>1, OutboxInvariant, PTL

(* notification_outbox_mark, which looks at no status, overwrites none that *)
(* is final.                                                                *)
THEOREM EndedItemStaysHolds == OutboxSpec => EndedItemStays
<1>1. OutboxInv /\ [OutboxNext]_outboxVars =>
        [\A i \in Items :
           item[i] \in {"sent", "skipped"} => item'[i] = item[i]]_outboxVars
  BY OutboxStep
<1> QED BY <1>1, OutboxInvariant, PTL DEF OutboxSpec, EndedItemStays
-----------------------------------------------------------------------------
(* The campaigns.                                                           *)

Unread == {"none", "claimed"}
Early == {"none", "claimed", "read", "planned"}

\* A run that has read nothing plans nothing, and the items of one that has not
\* inserted its notices are new.
FreshRuns ==
  \A c \in Campaigns, r \in Runs : run[<<c, r>>].at \in Unread =>
    \A u \in Users : run[<<c, r>>].plan[u] = "none"
FreshItems ==
  \A c \in Campaigns, r \in Runs, i \in Items :
    run[<<c, r>>].at \in Early /\ RunOf(i) = <<c, r>> => item[i] = "none"

\* A run that is going to push to somebody who is muted read before that.
Heeds(x, plan) ==
  \A u \in Users : plan[u] \in {"pending", "no_token"} /\ Muted(u)
                      => x \in readBefore[u]
PlansRespectMutes ==
  \A c \in Campaigns, r \in Runs : Heeds(<<c, r>>, run[<<c, r>>].plan)

CampaignsInv ==
  /\ OutboxInv
  /\ CampaignsTypeOK
  /\ FreshRuns
  /\ FreshItems
  /\ PlansRespectMutes
  /\ RecordedSentWasSent
  /\ MutedAreLeftAlone

LEMMA CampaignsInitInv == Init => CampaignsInv
<1> SUFFICES ASSUME Init PROVE CampaignsInv
  OBVIOUS
<1>1. OutboxInv
  BY OutboxInitInv DEF Init
<1>2. CampaignsTypeOK
  <2>1. run \in [Campaigns \X Runs -> [at : RunPhases, plan : [Users -> Plans]]]
    BY DEF Init, RunPhases, Plans
  <2>2. recipient \in [Campaigns \X Users ->
                         [status : PushStatus, notice : Notices \cup {NoNotice}]]
    BY DEF Init, PushStatus
  <2>3. /\ preference \in [Users -> Preference]
        /\ readBefore \in [Users -> SUBSET (Campaigns \X Runs)]
    BY CampaignsAssumption DEF Init
  <2> QED BY <1>1, <2>1, <2>2, <2>3
        DEF Init, CampaignsTypeOK, OutboxInv, CampaignStatus
<1>3. FreshRuns /\ FreshItems /\ MutedAreLeftAlone
  BY DEF Init, OutboxInit, FreshRuns, FreshItems, MutedAreLeftAlone
<1>4. PlansRespectMutes
  BY DEF Init, PlansRespectMutes, Heeds
<1>5. RecordedSentWasSent
  BY DEF Init, RecordedSentWasSent
<1> QED BY <1>1, <1>2, <1>3, <1>4, <1>5 DEF CampaignsInv

\* Devices and dispatchers add no item and forget no answer.
LEMMA QuietOutbox ==
  ASSUME OutboxInv, DeviceStep \/ \E w \in Workers : DispatchStep(w) \/ Dies(w)
  PROVE  /\ OutboxInv'
         /\ \A i \in Items : item[i] = "none" <=> item'[i] = "none"
         /\ accepted \subseteq accepted'
<1> DEFINE Goal == /\ OutboxInv'
                   /\ \A i \in Items : item[i] = "none" <=> item'[i] = "none"
                   /\ accepted \subseteq accepted'
<1>1. CASE DeviceStep
  BY <1>1, DeviceStepInv
<1>2. ASSUME NEW w \in Workers, NEW i \in Items, Claim(w, i) PROVE Goal
  BY <1>2, ClaimInv DEF Claim, OutboxInv, OutboxTypeOK
<1>3. ASSUME NEW w \in Workers, Push(w) PROVE Goal
  BY <1>3, PushInv DEF Push
<1>4. ASSUME NEW w \in Workers, DisableToken(w) PROVE Goal
  BY <1>4, DisableTokenInv DEF DisableToken
<1>5. ASSUME NEW w \in Workers, Mark(w) PROVE Goal
  <2> DEFINE i == worker[w].item  a == worker[w].answer
  <2>1. i \in Items /\ a \in {"ok", "off", "failed"} /\ item \in [Items -> ItemStatus]
    BY <1>5 DEF Mark, OutboxInv, OutboxTypeOK, HeldItems, Marked
  <2>2. Marked[a] # "none"
    BY <2>1 DEF Marked
  <2>3. item' = [item EXCEPT ![i] = Marked[a]] \/ item' = item
    BY <1>5 DEF Mark
  <2>4. item'[i] # "none"
    BY <2>1, <2>2, <2>3, <1>5, MarkInv
  <2> QED BY <2>4, <1>5, MarkInv DEF Mark
<1>6. ASSUME NEW w \in Workers, Dies(w) PROVE Goal
  BY <1>6, LeaveInv DEF Dies
<1> QED BY <1>1, <1>2, <1>3, <1>4, <1>5, <1>6 DEF DispatchStep

LEMMA OutboxUntouched ==
  ASSUME OutboxInv, UNCHANGED outboxVars
  PROVE  OutboxInv'
BY DEF outboxVars, OutboxInv, OutboxTypeOK, HeldItems, OneWorkerPerItem,
       AcceptedIsNotRetried

LEMMA AdminInv ==
  ASSUME CampaignsInv, NEW c \in Campaigns, AdminStep(c), UNCHANGED prefVars
  PROVE  CampaignsInv' /\ UNCHANGED outboxVars
<1>1. /\ UNCHANGED <<outboxVars, prefVars, run, recipient, pushSent, tally>>
      /\ campaign' \in [Campaigns -> CampaignStatus]
      /\ deciding' \subseteq Campaigns \X {"scheduled", "cancelled"}
  BY DEF AdminStep, AdminReads, AdminWrites, CampaignsInv, CampaignsTypeOK,
         CampaignStatus
<1>2. OutboxInv'
  BY <1>1, OutboxUntouched DEF CampaignsInv
<1>3. CampaignsTypeOK'
  BY <1>1, <1>2 DEF CampaignsInv, CampaignsTypeOK, OutboxInv, prefVars
<1>4. (FreshRuns /\ FreshItems)'
  BY <1>1 DEF CampaignsInv, FreshRuns, FreshItems, outboxVars
<1>5. (PlansRespectMutes /\ RecordedSentWasSent /\ MutedAreLeftAlone)'
  BY <1>1 DEF CampaignsInv, PlansRespectMutes, Heeds, Muted, RecordedSentWasSent,
              MutedAreLeftAlone, outboxVars, prefVars
<1> QED BY <1>1, <1>2, <1>3, <1>4, <1>5 DEF CampaignsInv

\* A user who turns something off goes down as read by the runs that read.
LEMMA SetPreferenceInv ==
  ASSUME CampaignsInv, NEW u, NEW p, SetPreference(u, p)
  PROVE  CampaignsInv' /\ UNCHANGED outboxVars
<1> DEFINE reads == {x \in Campaigns \X Runs : run[x].at \notin Unread}
           on == p.push /\ p.inapp
<1>1. /\ UNCHANGED <<outboxVars, campaign, deciding, run, recipient, pushSent, tally>>
      /\ u \in Users /\ p \in Preference
      /\ preference' = [preference EXCEPT ![u] = p]
      /\ readBefore' = [readBefore EXCEPT ![u] = IF on THEN {} ELSE reads]
  BY CampaignsAssumption DEF SetPreference, runnerVars, Unread
<1>2. /\ preference \in [Users -> Preference]
      /\ readBefore \in [Users -> SUBSET (Campaigns \X Runs)]
  BY DEF CampaignsInv, CampaignsTypeOK
<1>3. OutboxInv'
  BY <1>1, OutboxUntouched DEF CampaignsInv
<1>4. /\ preference' \in [Users -> Preference]
      /\ readBefore' \in [Users -> SUBSET (Campaigns \X Runs)]
  BY <1>1, <1>2
<1>5. CampaignsTypeOK'
  BY <1>1, <1>3, <1>4 DEF CampaignsInv, CampaignsTypeOK, OutboxInv
<1>6. (FreshRuns /\ FreshItems /\ RecordedSentWasSent)'
  BY <1>1 DEF CampaignsInv, FreshRuns, FreshItems, RecordedSentWasSent, outboxVars
\* whoever is muted afterwards was so before, or goes down as read
<1>7. ASSUME NEW v \in Users, Muted(v)'
      PROVE  \/ Muted(v) /\ readBefore'[v] = readBefore[v]
             \/ readBefore'[v] = reads
  <2>1. CASE v = u
    <3>1. preference'[v] = p
      BY <1>1, <1>2, <2>1
    <3>2. ~on
      BY <3>1, <1>7 DEF Muted
    <3> QED BY <1>1, <1>2, <2>1, <3>2
  <2>2. CASE v # u
    BY <1>1, <1>2, <1>7, <2>2 DEF Muted
  <2> QED BY <2>1, <2>2
<1>8. PlansRespectMutes'
  <2> SUFFICES ASSUME NEW c \in Campaigns, NEW r \in Runs, NEW v \in Users,
                      run[<<c, r>>].plan[v] \in {"pending", "no_token"}, Muted(v)'
               PROVE  <<c, r>> \in readBefore'[v]
    BY <1>1 DEF PlansRespectMutes, Heeds
  <2>1. <<c, r>> \in reads
    BY DEF CampaignsInv, FreshRuns
  <2>2. Muted(v) => <<c, r>> \in readBefore[v]
    BY DEF CampaignsInv, PlansRespectMutes, Heeds
  <2> QED BY <1>7, <2>1, <2>2
<1>9. MutedAreLeftAlone'
  <2> SUFFICES ASSUME NEW i \in Items, item[i] # "none", Muted(UserOf[i[1]])'
               PROVE  RunOf(i) \in readBefore'[UserOf[i[1]]]
    BY <1>1 DEF MutedAreLeftAlone, outboxVars
  <2> DEFINE v == UserOf[i[1]]
  <2>1. v \in Users /\ RunOf(i) \in Campaigns \X Runs
    BY CampaignsAssumption, OutboxAssumption DEF Items, RunOf
  <2>2. RunOf(i) \in reads
    BY <2>1 DEF CampaignsInv, FreshItems, Unread, Early
  <2>3. Muted(v) => RunOf(i) \in readBefore[v]
    BY DEF CampaignsInv, MutedAreLeftAlone
  <2> QED BY <1>7, <2>1, <2>2, <2>3
<1> QED BY <1>1, <1>3, <1>5, <1>6, <1>8, <1>9 DEF CampaignsInv

\* The steps of a run that leave the outbox alone: where it is, its plan and
\* the rows of the recipients change, and none of these becomes "sent".
LEMMA QuietRunStep ==
  ASSUME CampaignsInv, NEW c \in Campaigns, NEW r \in Runs,
         UNCHANGED <<outboxVars, prefVars, deciding, tally>>,
         campaign' \in [Campaigns -> CampaignStatus],
         pushSent' \in [Campaigns -> Nat],
         NEW new \in [at : RunPhases, plan : [Users -> Plans]],
         run' = [run EXCEPT ![<<c, r>>] = new],
         new.at \in Early => run[<<c, r>>].at \in Early,
         new.at \in Unread => \A u \in Users : new.plan[u] = "none",
         Heeds(<<c, r>>, new.plan),
         recipient' \in [Campaigns \X Users ->
                           [status : PushStatus, notice : Notices \cup {NoNotice}]],
         \A x \in Campaigns \X Users :
           recipient'[x].status = "sent" => recipient[x].status = "sent"
  PROVE  CampaignsInv'
<1>1. OutboxInv'
  BY OutboxUntouched DEF CampaignsInv
<1>2. run \in [Campaigns \X Runs -> [at : RunPhases, plan : [Users -> Plans]]]
  BY DEF CampaignsInv, CampaignsTypeOK
<1>3. CampaignsTypeOK'
  BY <1>1, <1>2 DEF CampaignsInv, CampaignsTypeOK, OutboxInv, prefVars
<1>4. \A x \in Campaigns \X Runs : run'[x] = IF x = <<c, r>> THEN new ELSE run[x]
  BY <1>2
<1>5. FreshRuns'
  BY <1>4 DEF CampaignsInv, FreshRuns
<1>6. FreshItems'
  BY <1>4 DEF CampaignsInv, FreshItems, outboxVars
<1>7. PlansRespectMutes'
  BY <1>4 DEF CampaignsInv, PlansRespectMutes, Heeds, Muted, prefVars
<1>8. (RecordedSentWasSent /\ MutedAreLeftAlone)'
  BY DEF CampaignsInv, RecordedSentWasSent, MutedAreLeftAlone, Muted, outboxVars,
         prefVars
<1> QED BY <1>1, <1>3, <1>5, <1>6, <1>7, <1>8 DEF CampaignsInv

\* ClaimDue and every way in which a run ends change neither plan nor
\* recipients, or forget the plan.
LEMMA RunStatusInv ==
  ASSUME CampaignsInv, NEW c \in Campaigns, NEW r \in Runs,
         \/ ClaimDue(c, r) \/ FindNobody(c, r) \/ Complete(c, r)
         \/ RunFails(c, r) \/ RunnerDies(c, r),
         UNCHANGED prefVars
  PROVE  CampaignsInv' /\ UNCHANGED outboxVars
<1> DEFINE Shape == [at : RunPhases, plan : [Users -> Plans]]
<1>0. /\ run \in [Campaigns \X Runs -> Shape]
      /\ campaign \in [Campaigns -> CampaignStatus]
      /\ pushSent \in [Campaigns -> Nat]
      /\ recipient \in [Campaigns \X Users ->
                          [status : PushStatus, notice : Notices \cup {NoNotice}]]
  BY DEF CampaignsInv, CampaignsTypeOK
<1>1. /\ UNCHANGED <<outboxVars, deciding, tally, recipient>>
      /\ campaign' \in [Campaigns -> CampaignStatus]
      /\ pushSent' \in [Campaigns -> Nat]
  <2>1. CASE ClaimDue(c, r)
    BY <2>1, <1>0 DEF ClaimDue, CampaignStatus
  <2>2. CASE FindNobody(c, r)
    BY <2>2, <1>0 DEF FindNobody, CampaignStatus
  <2>3. CASE Complete(c, r)
    BY <2>3, <1>0 DEF Complete, CampaignStatus
  <2>4. CASE RunFails(c, r)
    BY <2>4, <1>0 DEF RunFails, CampaignStatus
  <2>5. CASE RunnerDies(c, r)
    BY <2>5, <1>0 DEF RunnerDies
  <2> QED BY <2>1, <2>2, <2>3, <2>4, <2>5
<1>2. CASE ClaimDue(c, r)
  <2> DEFINE new == [run[<<c, r>>] EXCEPT !.at = "claimed"]
  <2>1. new \in Shape /\ new.plan = run[<<c, r>>].plan /\ new.at = "claimed"
    BY <1>0 DEF RunPhases
  <2>2. run' = [run EXCEPT ![<<c, r>>] = new] /\ run[<<c, r>>].at = "none"
    BY <1>2, <1>0 DEF ClaimDue
  <2>3. Heeds(<<c, r>>, new.plan) /\ \A u \in Users : new.plan[u] = "none"
    BY <2>1, <2>2 DEF CampaignsInv, FreshRuns, Unread, PlansRespectMutes
  <2> HIDE DEF new
  <2> QED BY <1>0, <1>1, <2>1, <2>2, <2>3, QuietRunStep DEF Early
<1>3. CASE ~ClaimDue(c, r)
  <2>1. run' = [run EXCEPT ![<<c, r>>] = Ended]
    BY <1>3 DEF FindNobody, Complete, RunFails, RunnerDies
  <2>2. Ended \in Shape /\ Ended.at = "ended" /\ \A u \in Users : Ended.plan[u] = "none"
    BY DEF Ended, RunPhases, Plans
  <2>3. Heeds(<<c, r>>, Ended.plan)
    BY <2>2 DEF Heeds
  <2> QED BY <1>0, <1>1, <2>1, <2>2, <2>3, QuietRunStep DEF Early
<1> QED BY <1>1, <1>2, <1>3

\* What a user has turned off decides the plan.
LEMMA PlanFacts ==
  ASSUME NEW u \in Users
  PROVE  /\ PlanOf(u) \in Plans
         /\ PlanOf(u) \in {"pending", "no_token"} => ~Muted(u)
BY DEF PlanOf, Plans, Muted

LEMMA ReadAudienceInv ==
  ASSUME CampaignsInv, NEW c \in Campaigns, NEW r \in Runs, ReadAudience(c, r),
         UNCHANGED prefVars
  PROVE  CampaignsInv' /\ UNCHANGED outboxVars
<1> DEFINE new == [at |-> "read", plan |-> [u \in Users |-> PlanOf(u)]]
<1>1. /\ UNCHANGED <<outboxVars, deciding, tally, campaign, pushSent, recipient>>
      /\ run' = [run EXCEPT ![<<c, r>>] = new]
      /\ run[<<c, r>>].at = "claimed"
  BY DEF ReadAudience
<1>2. /\ campaign' \in [Campaigns -> CampaignStatus]
      /\ pushSent' \in [Campaigns -> Nat]
      /\ recipient' \in [Campaigns \X Users ->
                           [status : PushStatus, notice : Notices \cup {NoNotice}]]
  BY <1>1 DEF CampaignsInv, CampaignsTypeOK
<1>3. new \in [at : RunPhases, plan : [Users -> Plans]] /\ new.at = "read"
  BY PlanFacts DEF RunPhases
<1>4. Heeds(<<c, r>>, new.plan)
  BY PlanFacts DEF Heeds
<1> HIDE DEF new
<1> QED BY <1>1, <1>2, <1>3, <1>4, QuietRunStep DEF Early, Unread

LEMMA PlanRecipientsInv ==
  ASSUME CampaignsInv, NEW c \in Campaigns, NEW r \in Runs, PlanRecipients(c, r),
         UNCHANGED prefVars
  PROVE  CampaignsInv' /\ UNCHANGED outboxVars
<1> DEFINE new == [run[<<c, r>>] EXCEPT !.at = "planned"]
           Rows == [status : PushStatus, notice : Notices \cup {NoNotice}]
<1>0. /\ run \in [Campaigns \X Runs -> [at : RunPhases, plan : [Users -> Plans]]]
      /\ recipient \in [Campaigns \X Users -> Rows]
  BY DEF CampaignsInv, CampaignsTypeOK
<1>1. /\ UNCHANGED <<outboxVars, deciding, tally, campaign, pushSent>>
      /\ run' = [run EXCEPT ![<<c, r>>] = new]
      /\ run[<<c, r>>].at = "read"
  BY <1>0 DEF PlanRecipients
<1>2. /\ campaign' \in [Campaigns -> CampaignStatus]
      /\ pushSent' \in [Campaigns -> Nat]
  BY <1>1 DEF CampaignsInv, CampaignsTypeOK
<1>3. /\ new \in [at : RunPhases, plan : [Users -> Plans]]
      /\ new.at = "planned" /\ new.plan = run[<<c, r>>].plan
  <2>1. run[<<c, r>>] \in [at : RunPhases, plan : [Users -> Plans]]
    BY <1>0
  <2> QED BY <2>1 DEF RunPhases
<1>4. Heeds(<<c, r>>, new.plan)
  BY <1>3 DEF CampaignsInv, PlansRespectMutes
<1>5. ASSUME NEW x \in Campaigns \X Users
      PROVE  /\ recipient'[x] \in Rows
             /\ recipient'[x].status = "sent" => recipient[x].status = "sent"
  <2> DEFINE plan == run[<<c, r>>].plan[x[2]]
  <2>1. /\ x[2] \in Users /\ recipient[x] \in Rows
        /\ plan \in Plans
    BY <1>0
  <2>2. Planned[plan] \in PushStatus \ {"sent"}
    BY <2>1 DEF Plans, Planned, PushStatus
  <2>3. recipient'[x] = recipient[x]
        \/ recipient'[x] = [recipient[x] EXCEPT !.status = Planned[plan]]
    BY DEF PlanRecipients
  <2> HIDE DEF plan
  <2> QED BY <2>1, <2>2, <2>3
<1>6. recipient' \in [Campaigns \X Users -> Rows]
  BY <1>5 DEF PlanRecipients
<1> HIDE DEF new
<1> QED BY <1>1, <1>2, <1>3, <1>4, <1>5, <1>6, QuietRunStep DEF Early, Unread

LEMMA LinkRecipientsInv ==
  ASSUME CampaignsInv, NEW c \in Campaigns, NEW r \in Runs, LinkRecipients(c, r),
         UNCHANGED prefVars
  PROVE  CampaignsInv' /\ UNCHANGED outboxVars
<1> DEFINE new == [run[<<c, r>>] EXCEPT !.at = "linked"]
           Rows == [status : PushStatus, notice : Notices \cup {NoNotice}]
<1>0. /\ run \in [Campaigns \X Runs -> [at : RunPhases, plan : [Users -> Plans]]]
      /\ recipient \in [Campaigns \X Users -> Rows]
  BY DEF CampaignsInv, CampaignsTypeOK
<1>1. /\ UNCHANGED <<outboxVars, deciding, tally, campaign, pushSent>>
      /\ run' = [run EXCEPT ![<<c, r>>] = new]
  BY <1>0 DEF LinkRecipients
<1>2. /\ campaign' \in [Campaigns -> CampaignStatus]
      /\ pushSent' \in [Campaigns -> Nat]
  BY <1>1 DEF CampaignsInv, CampaignsTypeOK
<1>3. /\ new \in [at : RunPhases, plan : [Users -> Plans]]
      /\ new.at = "linked" /\ new.plan = run[<<c, r>>].plan
  <2>1. run[<<c, r>>] \in [at : RunPhases, plan : [Users -> Plans]]
    BY <1>0
  <2> QED BY <2>1 DEF RunPhases
<1>4. Heeds(<<c, r>>, new.plan)
  BY <1>3 DEF CampaignsInv, PlansRespectMutes
<1>5. ASSUME NEW x \in Campaigns \X Users
      PROVE  /\ recipient'[x] \in Rows
             /\ recipient'[x].status = recipient[x].status
  <2>1. recipient[x] \in Rows
    BY <1>0
  <2>2. <<c, r, x[2]>> \in Notices
    BY CampaignsAssumption
  <2>3. recipient'[x] = recipient[x]
        \/ recipient'[x] = [recipient[x] EXCEPT !.notice = <<c, r, x[2]>>]
    BY DEF LinkRecipients
  <2> QED BY <2>1, <2>2, <2>3
<1>6. recipient' \in [Campaigns \X Users -> Rows]
  BY <1>5 DEF LinkRecipients
<1> HIDE DEF new
<1> QED BY <1>1, <1>2, <1>3, <1>4, <1>5, <1>6, QuietRunStep DEF Early, Unread

\* The insertion is a Notify of the outbox, and tells nobody who was muted when
\* the run read.
LEMMA InsertNoticesInv ==
  ASSUME CampaignsInv, NEW c \in Campaigns, NEW r \in Runs, InsertNotices(c, r),
         UNCHANGED prefVars
  PROVE  CampaignsInv' /\ \E ns \in SUBSET Notices : Notify(ns)
<1> DEFINE all == NoticesTo(c, r, With(c, r, {"pending", "no_push", "no_token"}))
           quiet == NoticesTo(c, r, With(c, r, {"no_push"}))
           ns == all \ quiet
           new == [run[<<c, r>>] EXCEPT !.at = "inserted"]
<1>0. /\ run \in [Campaigns \X Runs -> [at : RunPhases, plan : [Users -> Plans]]]
      /\ run[<<c, r>>].at = "planned"
  BY DEF CampaignsInv, CampaignsTypeOK, InsertNotices
<1>1. all \subseteq Notices
  BY CampaignsAssumption DEF NoticesTo, With
<1>2. \A n \in ns : /\ n[1] = c /\ n[2] = r /\ n[3] \in Users
                    /\ run[<<c, r>>].plan[n[3]] \in {"pending", "no_token"}
  BY DEF NoticesTo, With
<1>3. \A i \in Items : i[1] \in ns => item[i] = "none"
  BY <1>0, <1>2 DEF CampaignsInv, FreshItems, RunOf, Early
<1>4. item' = Enqueued(ns, {})
  BY DEF InsertNotices, Enqueued
<1>5. Notify(ns)
  BY <1>3, <1>4 DEF Notify, InsertNotices
<1>6. OutboxInv' /\ \A j \in Items : item'[j] = item[j] \/ item[j] = "none"
  BY <1>1, <1>5, NotifyInv DEF CampaignsInv
<1>7. /\ UNCHANGED <<accepted, campaign, deciding, recipient, pushSent, tally>>
      /\ run' = [run EXCEPT ![<<c, r>>] = new]
  BY <1>0 DEF InsertNotices
<1>8. /\ new \in [at : RunPhases, plan : [Users -> Plans]]
      /\ new.at = "inserted" /\ new.plan = run[<<c, r>>].plan
  BY <1>0 DEF RunPhases
<1>9. run' \in [Campaigns \X Runs -> [at : RunPhases, plan : [Users -> Plans]]]
  BY <1>0, <1>7, <1>8
<1>10. CampaignsTypeOK'
  BY <1>6, <1>7, <1>9 DEF CampaignsInv, CampaignsTypeOK, OutboxInv, prefVars
<1>11. FreshItems'
  <2> SUFFICES ASSUME NEW e \in Campaigns, NEW q \in Runs, NEW i \in Items,
                      run'[<<e, q>>].at \in Early, RunOf(i) = <<e, q>>
               PROVE  item'[i] = "none"
    BY DEF FreshItems
  <2>1. <<e, q>> # <<c, r>> /\ run[<<e, q>>].at \in Early
    BY <1>0, <1>7, <1>8 DEF Early
  <2>2. i[1] \notin ns
    BY <1>2, <2>1 DEF RunOf
  <2>3. item[i] = "none"
    BY <2>1 DEF CampaignsInv, FreshItems
  <2> QED BY <1>4, <2>2, <2>3 DEF Enqueued
<1>12. (FreshRuns /\ PlansRespectMutes)'
  <2>1. \A x \in Campaigns \X Runs : run'[x] = IF x = <<c, r>> THEN new ELSE run[x]
    BY <1>0, <1>7
  <2>2. FreshRuns'
    BY <1>8, <2>1 DEF CampaignsInv, FreshRuns, Unread
  <2>3. PlansRespectMutes'
    BY <1>8, <2>1 DEF CampaignsInv, PlansRespectMutes, Heeds, Muted, prefVars
  <2> QED BY <2>2, <2>3
<1>13. RecordedSentWasSent'
  BY <1>7 DEF CampaignsInv, RecordedSentWasSent
<1>14. MutedAreLeftAlone'
  <2> SUFFICES ASSUME NEW i \in Items, item'[i] # "none", Muted(UserOf[i[1]])
               PROVE  RunOf(i) \in readBefore[UserOf[i[1]]]
    BY DEF MutedAreLeftAlone, Muted, prefVars
  <2>1. CASE i[1] \in ns
    <3>1. UserOf[i[1]] = i[1][3] /\ RunOf(i) = <<c, r>>
      BY <1>1, <1>2, <2>1, CampaignsAssumption DEF RunOf
    <3> QED BY <1>2, <2>1, <3>1 DEF CampaignsInv, PlansRespectMutes, Heeds
  <2>2. CASE i[1] \notin ns
    BY <1>4, <2>2 DEF Enqueued, CampaignsInv, MutedAreLeftAlone
  <2> QED BY <2>1, <2>2
<1> QED BY <1>1, <1>5, <1>6, <1>10, <1>11, <1>12, <1>13, <1>14 DEF CampaignsInv

\* What a dispatcher does after the mark is a Reports of the outbox.
LEMMA ReportIsReports ==
  ASSUME CampaignsInv, NEW w \in Workers, ReportStep(w)
  PROVE  /\ Reports(w)
         /\ OutboxInv'
         /\ UNCHANGED <<item, accepted, campaign, deciding, run>>
<1> DEFINE Goal == Reports(w) /\ UNCHANGED <<item, accepted, campaign, deciding, run>>
<1>1. ASSUME RecordRecipient(w) PROVE Goal
  <2>1. /\ worker[w].at = "marked"
        /\ UNCHANGED <<device, registering, item, accepted, runnerVars>>
    BY <1>1 DEF RecordRecipient
  <2>2. \/ worker' = [worker EXCEPT ![w] = Idle]
        \/ worker' = [worker EXCEPT ![w].at = "recorded"]
    BY <1>1 DEF RecordRecipient
  <2> QED BY <2>1, <2>2 DEF Reports, Phases, runnerVars
<1>2. ASSUME ReadCount(w) PROVE Goal
  BY <1>2 DEF ReadCount, Reports, Phases, runnerVars
<1>3. ASSUME WriteCount(w) PROVE Goal
  BY <1>3 DEF WriteCount, Reports, runnerVars
<1>4. Reports(w) /\ UNCHANGED <<item, accepted, campaign, deciding, run>>
  BY <1>1, <1>2, <1>3 DEF ReportStep
<1> QED BY <1>4, LeaveInv DEF CampaignsInv

\* A recipient is recorded as sent by a dispatcher that was told "ok".
LEMMA RecordRecipientInv ==
  ASSUME CampaignsInv, NEW w \in Workers, RecordRecipient(w)
  PROVE  /\ RecordedSentWasSent'
         /\ recipient' \in [Campaigns \X Users ->
                              [status : PushStatus, notice : Notices \cup {NoNotice}]]
         /\ UNCHANGED <<pushSent, tally>>
<1> DEFINE i == worker[w].item  a == worker[w].answer
           Rows == [status : PushStatus, notice : Notices \cup {NoNotice}]
<1>1. /\ i \in Items /\ a \in {"ok", "off", "failed"}
      /\ a = "ok" => i \in accepted
      /\ accepted' = accepted
  BY DEF RecordRecipient, CampaignsInv, OutboxInv, HeldItems
<1>2. i[1] \in Notices /\ RowOf(i) \in Campaigns \X Users
  BY <1>1, CampaignsAssumption DEF Items, RowOf
<1>3. Outcome[a] \in PushStatus /\ (Outcome[a] = "sent" => a = "ok")
  BY <1>1 DEF Outcome, PushStatus
<1>4. recipient \in [Campaigns \X Users -> Rows]
  BY DEF CampaignsInv, CampaignsTypeOK
<1>5. \/ recipient' = recipient
      \/ recipient' = [recipient EXCEPT ![RowOf(i)].status = Outcome[a]]
  BY DEF RecordRecipient
<1>6. recipient' \in [Campaigns \X Users -> Rows]
  BY <1>2, <1>3, <1>4, <1>5
<1>7. RecordedSentWasSent'
  BY <1>1, <1>2, <1>3, <1>4, <1>5 DEF RecordedSentWasSent, CampaignsInv
<1> QED BY <1>6, <1>7 DEF RecordRecipient

LEMMA ReportInv ==
  ASSUME CampaignsInv, NEW w \in Workers, ReportStep(w), UNCHANGED prefVars
  PROVE  CampaignsInv' /\ Reports(w)
<1> DEFINE Rows == [status : PushStatus, notice : Notices \cup {NoNotice}]
<1>0. /\ recipient \in [Campaigns \X Users -> Rows]
      /\ pushSent \in [Campaigns -> Nat] /\ tally \in [Workers -> Nat]
  BY DEF CampaignsInv, CampaignsTypeOK
<1>1. /\ Reports(w) /\ OutboxInv'
      /\ UNCHANGED <<item, accepted, campaign, deciding, run>>
  BY ReportIsReports
<1>2. /\ RecordedSentWasSent'
      /\ recipient' \in [Campaigns \X Users -> Rows]
      /\ pushSent' \in [Campaigns -> Nat] /\ tally' \in [Workers -> Nat]
  <2>1. CASE RecordRecipient(w)
    BY <2>1, <1>0, RecordRecipientInv
  <2>2. ASSUME worker[w].at \in {"recorded", "counting"}
        PROVE  CampaignOf(worker[w].item) \in Campaigns
    BY <2>2, CampaignsAssumption DEF CampaignsInv, OutboxInv, HeldItems, Items, CampaignOf
  <2>3. CASE ReadCount(w)
    <3>1. UNCHANGED <<recipient, pushSent, accepted>>
      BY <2>3 DEF ReadCount
    <3>2. tally' \in [Workers -> Nat]
      BY <2>3, <2>2, <1>0 DEF ReadCount
    <3> QED BY <3>1, <3>2, <1>0 DEF CampaignsInv, RecordedSentWasSent
  <2>4. CASE WriteCount(w)
    <3>1. UNCHANGED <<recipient, accepted>>
      BY <2>4 DEF WriteCount
    <3>2. pushSent' \in [Campaigns -> Nat] /\ tally' \in [Workers -> Nat]
      BY <2>4, <2>2, <1>0 DEF WriteCount
    <3> QED BY <3>1, <3>2, <1>0 DEF CampaignsInv, RecordedSentWasSent
  <2> QED BY <2>1, <2>3, <2>4 DEF ReportStep
<1>3. CampaignsTypeOK'
  BY <1>1, <1>2 DEF CampaignsInv, CampaignsTypeOK, OutboxInv, prefVars
<1>4. (FreshRuns /\ FreshItems /\ PlansRespectMutes /\ MutedAreLeftAlone)'
  BY <1>1 DEF CampaignsInv, FreshRuns, FreshItems, PlansRespectMutes, Heeds,
              MutedAreLeftAlone, Muted, prefVars
<1> QED BY <1>1, <1>2, <1>3, <1>4 DEF CampaignsInv

LEMMA OutboxPartInv ==
  ASSUME CampaignsInv,
         DeviceStep \/ \E w \in Workers : DispatchStep(w) \/ Dies(w),
         UNCHANGED <<runnerVars, prefVars, recipient, pushSent, tally>>
  PROVE  CampaignsInv'
<1>1. /\ OutboxInv'
      /\ \A i \in Items : item[i] = "none" <=> item'[i] = "none"
      /\ accepted \subseteq accepted'
  BY QuietOutbox DEF CampaignsInv
<1>2. CampaignsTypeOK'
  BY <1>1 DEF CampaignsInv, CampaignsTypeOK, OutboxInv, runnerVars, prefVars
<1>3. (FreshRuns /\ FreshItems /\ PlansRespectMutes)'
  BY <1>1 DEF CampaignsInv, FreshRuns, FreshItems, PlansRespectMutes, Heeds, Muted,
              runnerVars, prefVars
<1>4. (RecordedSentWasSent /\ MutedAreLeftAlone)'
  BY <1>1 DEF CampaignsInv, RecordedSentWasSent, MutedAreLeftAlone, Muted, prefVars
<1> QED BY <1>1, <1>2, <1>3, <1>4 DEF CampaignsInv

LEMMA CampaignsStep ==
  ASSUME CampaignsInv, [Next]_vars
  PROVE  CampaignsInv' /\ [OutboxNext]_outboxVars
<1>1. ASSUME NEW c \in Campaigns, AdminStep(c), UNCHANGED prefVars
      PROVE  CampaignsInv' /\ UNCHANGED outboxVars
  BY <1>1, AdminInv
<1>2. ASSUME NEW c \in Campaigns, NEW r \in Runs, UNCHANGED prefVars,
             ClaimDue(c, r) \/ RunStep(c, r) \/ RunnerDies(c, r)
      PROVE  CampaignsInv' /\ [OutboxNext]_outboxVars
  BY <1>2, RunStatusInv, ReadAudienceInv, PlanRecipientsInv, LinkRecipientsInv,
     InsertNoticesInv DEF RunStep, OutboxNext
<1>3. ASSUME NEW w \in Workers, ReportStep(w), UNCHANGED prefVars
      PROVE  CampaignsInv' /\ OutboxNext
  BY <1>3, ReportInv DEF OutboxNext
<1>4. CASE /\ DeviceStep \/ \E w \in Workers : DispatchStep(w) \/ Dies(w)
           /\ UNCHANGED <<runnerVars, prefVars, recipient, pushSent, tally>>
  BY <1>4, OutboxPartInv DEF OutboxNext
<1>5. ASSUME NEW s \in Settings, SetPreference(s[1], s[2])
      PROVE  CampaignsInv' /\ UNCHANGED outboxVars
  BY <1>5, SetPreferenceInv
<1>6. CASE UNCHANGED vars
  <2>1. UNCHANGED <<outboxVars, prefVars, campaign, deciding, run, recipient,
                    pushSent, tally>>
    BY <1>6 DEF vars, runnerVars
  <2>2. OutboxInv'
    BY <2>1, OutboxUntouched DEF CampaignsInv
  <2>3. CampaignsTypeOK'
    BY <2>1, <2>2 DEF CampaignsInv, CampaignsTypeOK, OutboxInv, prefVars
  <2>4. (FreshRuns /\ FreshItems /\ PlansRespectMutes)'
    BY <2>1 DEF CampaignsInv, FreshRuns, FreshItems, PlansRespectMutes, Heeds, Muted,
                outboxVars, prefVars
  <2>5. (RecordedSentWasSent /\ MutedAreLeftAlone)'
    BY <2>1 DEF CampaignsInv, RecordedSentWasSent, MutedAreLeftAlone, Muted,
                outboxVars, prefVars
  <2> QED BY <2>1, <2>2, <2>3, <2>4, <2>5 DEF CampaignsInv
<1> QED BY <1>1, <1>2, <1>3, <1>4, <1>5, <1>6 DEF Next

LEMMA CampaignsInvariant == Spec => []CampaignsInv
  BY CampaignsInitInv, CampaignsStep, PTL DEF Spec

(* The tables of the campaigns and of the outbox keep their types.          *)
THEOREM CampaignsTypeCorrect == Spec => []CampaignsTypeOK
<1>1. CampaignsInv => CampaignsTypeOK
  BY DEF CampaignsInv
<1> QED BY <1>1, CampaignsInvariant, PTL

(* Campaigns keep to the outbox: whatever a run does when, and wherever it  *)
(* or a dispatcher dies, is a behaviour of PushOutbox by itself, so that    *)
(* its theorems hold here as well.                                          *)
THEOREM CampaignsUseTheOutbox == Spec => OutboxSpec
<1>1. Init => OutboxInit
  BY DEF Init
<1>2. CampaignsInv /\ [Next]_vars => [OutboxNext]_outboxVars
  BY CampaignsStep
<1> QED BY <1>1, <1>2, CampaignsInvariant, PTL DEF Spec, OutboxSpec

(* No recipient is recorded as sent unless the service acknowledged a push  *)
(* of the campaign to that user.                                            *)
THEOREM RecordedSentWasSentHolds == Spec => []RecordedSentWasSent
<1>1. CampaignsInv => RecordedSentWasSent
  BY DEF CampaignsInv
<1> QED BY <1>1, CampaignsInvariant, PTL

(* Who has turned marketing off has no item in the outbox but from a run    *)
(* that had read the preferences before: whatever a run plans, inserts or   *)
(* leaves half done, and however often the user changes their mind.         *)
THEOREM MutedAreLeftAloneHolds == Spec => []MutedAreLeftAlone
<1>1. CampaignsInv => MutedAreLeftAlone
  BY DEF CampaignsInv
<1> QED BY <1>1, CampaignsInvariant, PTL
-----------------------------------------------------------------------------
(* What push_sent counts.                                                   *)

\* a dispatcher that was told "ok" and has not finished reporting it
Acknowledged(w) == worker[w].at # "idle" /\ worker[w].answer = "ok"

OneAcknowledgement ==
  \A w \in Workers : Acknowledged(w) =>
    \A v \in Workers \ {w} : Acknowledged(v) => worker[v].item # worker[w].item

CountersWereTold ==
  \A w \in Workers :
    worker[w].at \in {"recorded", "counting"} => worker[w].answer = "ok"

\* pushes of c that no dispatcher is going to add to the counter any more
Countable(c) ==
  {i \in accepted : /\ CampaignOf(i) = c
                    /\ \A w \in Workers : Acknowledged(w) => worker[w].item # i}

\* The counter, and every number a dispatcher has read of it, leaves out the
\* pushes still being reported: so there is room for the one each adds.
CountBehind ==
  \A c \in Campaigns : pushSent[c] <= Cardinality(Countable(c))
TallyBehind ==
  \A w \in Workers : worker[w].at = "counting" =>
    tally[w] <= Cardinality(Countable(CampaignOf(worker[w].item)))

CountInv ==
  /\ CampaignsInv
  /\ IsFiniteSet(accepted)
  /\ OneAcknowledgement
  /\ CountersWereTold
  /\ CountBehind
  /\ TallyBehind

LEMMA CountableFinite ==
  ASSUME IsFiniteSet(accepted), NEW c
  PROVE  IsFiniteSet(Countable(c)) /\ Cardinality(Countable(c)) \in Nat
<1>1. Countable(c) \in SUBSET accepted
  BY DEF Countable
<1>2. IsFiniteSet(Countable(c))
  BY <1>1, FS_Subset
<1> QED  BY <1>2, FS_CardinalityType

LEMMA CountableGrows ==
  ASSUME IsFiniteSet(accepted), IsFiniteSet(accepted'), NEW c,
         Countable(c) \subseteq Countable(c)'
  PROVE  /\ Cardinality(Countable(c)) \in Nat
         /\ Cardinality(Countable(c)') \in Nat
         /\ Cardinality(Countable(c)) <= Cardinality(Countable(c)')
<1> DEFINE new == Countable(c)'
<1>1. new \in SUBSET accepted'
  BY DEF Countable
<1>2. IsFiniteSet(new)
  BY <1>1, FS_Subset
<1>3. Cardinality(new) \in Nat
  BY <1>2, FS_CardinalityType
<1>4. Cardinality(Countable(c)) <= Cardinality(new)
  <2>1. Countable(c) \in SUBSET new
    OBVIOUS
  <2> HIDE DEF new
  <2> QED  BY <1>2, <2>1, FS_Subset
<1> QED  BY <1>3, <1>4, CountableFinite

\* A step of one dispatcher that is told nothing new adds no report to come.
LEMMA NothingNewTold ==
  ASSUME OneAcknowledgement, UNCHANGED accepted, NEW w \in Workers,
         \A v \in Workers \ {w} : worker'[v] = worker[v],
         Acknowledged(w)' => Acknowledged(w) /\ worker'[w].item = worker[w].item
  PROVE  /\ OneAcknowledgement'
         /\ \A c : Countable(c) \subseteq Countable(c)'
<1>1. \A v \in Workers :
        Acknowledged(v)' => Acknowledged(v) /\ worker'[v].item = worker[v].item
  BY DEF Acknowledged
<1>2. OneAcknowledgement'
  BY <1>1 DEF OneAcknowledgement
<1>3. \A c : Countable(c) \subseteq Countable(c)'
  BY <1>1 DEF Countable
<1> QED  BY <1>2, <1>3

\* What a step must show that sets no counter up.
LEMMA CountKept ==
  ASSUME CountInv, CampaignsInv', IsFiniteSet(accepted'), OneAcknowledgement',
         CountersWereTold',
         \A c \in Campaigns : Countable(c) \subseteq Countable(c)',
         \A c \in Campaigns : pushSent'[c] \in {0, pushSent[c]},
         \A w \in Workers : worker'[w].at = "counting" =>
           \/ /\ worker[w].at = "counting" /\ tally'[w] = tally[w]
              /\ worker'[w].item = worker[w].item
           \/ tally'[w] = pushSent[CampaignOf(worker'[w].item)]
  PROVE  CountInv'
<1>1. ASSUME NEW c \in Campaigns
      PROVE  /\ Cardinality(Countable(c)) \in Nat
             /\ Cardinality(Countable(c)') \in Nat
             /\ Cardinality(Countable(c)) <= Cardinality(Countable(c)')
             /\ pushSent[c] \in Nat /\ pushSent[c] <= Cardinality(Countable(c))
  BY CountableGrows DEF CountInv, CountBehind, CampaignsInv, CampaignsTypeOK
<1>2. CountBehind'
  BY <1>1 DEF CountBehind
<1>3. ASSUME NEW w \in Workers, worker'[w].at = "counting"
      PROVE  (tally[w] <= Cardinality(Countable(CampaignOf(worker[w].item))))'
  <2>1. PICK c \in Campaigns : c = CampaignOf(worker'[w].item)
    <3>1. worker'[w].item \in Items
      BY <1>3 DEF CampaignsInv, OutboxInv, HeldItems
    <3> QED  BY <3>1, CampaignsAssumption DEF Items, CampaignOf
  <2>2. tally'[w] <= Cardinality(Countable(c)) /\ tally'[w] \in Nat
    <3>1. CASE /\ worker[w].at = "counting" /\ tally'[w] = tally[w]
               /\ worker'[w].item = worker[w].item
      BY <2>1, <3>1 DEF CountInv, TallyBehind, CampaignsInv, CampaignsTypeOK
    <3>2. CASE tally'[w] = pushSent[c]
      BY <1>1, <3>2
    <3> QED  BY <1>3, <2>1, <3>1, <3>2
  <2>3. tally'[w] <= Cardinality(Countable(c)')
    BY <1>1, <2>2
  <2>4. Countable(CampaignOf(worker[w].item))' = Countable(c)'
    BY <2>1 DEF Countable
  <2> QED  BY <2>3, <2>4
<1>4. TallyBehind'
  BY <1>3 DEF TallyBehind
<1> QED  BY <1>2, <1>4 DEF CountInv

\* Administrators, runners and devices: a run may set the counter back.
LEMMA QuietCount ==
  ASSUME CountInv, CampaignsInv', UNCHANGED <<worker, accepted, tally>>,
         \A c \in Campaigns : pushSent'[c] \in {0, pushSent[c]}
  PROVE  CountInv'
<1>1. OneAcknowledgement' /\ CountersWereTold' /\ IsFiniteSet(accepted')
  BY DEF CountInv, OneAcknowledgement, CountersWereTold, Acknowledged
<1>2. \A c \in Campaigns : Countable(c) \subseteq Countable(c)'
  BY DEF Countable, Acknowledged
<1> QED  BY <1>1, <1>2, CountKept

LEMMA RunnerCount ==
  ASSUME CountInv, CampaignsInv', NEW c \in Campaigns,
         \/ AdminStep(c)
         \/ \E r \in Runs : ClaimDue(c, r) \/ RunStep(c, r) \/ RunnerDies(c, r)
  PROVE  CountInv'
<1>1. pushSent \in [Campaigns -> Nat]
  BY DEF CountInv, CampaignsInv, CampaignsTypeOK
<1>2. /\ UNCHANGED <<worker, accepted, tally>>
      /\ pushSent' = pushSent \/ pushSent' = [pushSent EXCEPT ![c] = 0]
  BY DEF AdminStep, AdminReads, AdminWrites, ClaimDue, RunStep, FindNobody,
         ReadAudience, PlanRecipients, InsertNotices, LinkRecipients, Complete,
         RunFails, RunnerDies, outboxVars
<1>3. \A e \in Campaigns : pushSent'[e] \in {0, pushSent[e]}
  BY <1>1, <1>2
<1> QED  BY <1>2, <1>3, QuietCount

\* A dispatcher goes on without being told of another push: it may end, and
\* then what it was told is free to be counted.
LEMMA WorkerMovesOn ==
  ASSUME CountInv, CampaignsInv', UNCHANGED <<accepted, pushSent, tally>>,
         NEW w \in Workers, NEW row,
         worker' = [worker EXCEPT ![w] = row],
         row.at # "idle" /\ row.answer = "ok"
           => Acknowledged(w) /\ row.item = worker[w].item,
         row.at \in {"recorded", "counting"} => row.answer = "ok",
         row.at # "counting"
  PROVE  CountInv'
<1>1. /\ worker'[w] = row
      /\ \A v \in Workers \ {w} : worker'[v] = worker[v]
  BY DEF CountInv, CampaignsInv, CampaignsTypeOK, OutboxTypeOK
<1>2. Acknowledged(w)' => Acknowledged(w) /\ worker'[w].item = worker[w].item
  BY <1>1 DEF Acknowledged
<1>3. /\ OneAcknowledgement'
      /\ \A c : Countable(c) \subseteq Countable(c)'
  BY <1>1, <1>2, NothingNewTold DEF CountInv
<1>4. CountersWereTold'
  BY <1>1 DEF CountInv, CountersWereTold
<1>5. IsFiniteSet(accepted') /\ \A c \in Campaigns : pushSent'[c] = pushSent[c]
  BY DEF CountInv
<1> QED  BY <1>1, <1>3, <1>4, <1>5, CountKept

(* The push service answers "ok": no other dispatcher was told so of this   *)
(* item, because it was not accepted before.                                *)
LEMMA PushCount ==
  ASSUME CountInv, CampaignsInv', NEW w \in Workers, Push(w),
         UNCHANGED <<pushSent, tally>>
  PROVE  CountInv'
<1> DEFINE i == worker[w].item
<1>1. PICK a \in {"ok", "invalid", "failed"} :
        /\ worker' = [worker EXCEPT ![w].answer = a]
        /\ accepted' = IF a = "ok" THEN accepted \cup {i} ELSE accepted
  BY DEF Push
<1>2. /\ worker \in [Workers -> [at : Phases, item : Items \cup {NoItem},
                                 answer : Answers]]
      /\ worker[w].at = "working" /\ worker[w].answer = "none"
  BY DEF Push, CountInv, CampaignsInv, CampaignsTypeOK, OutboxTypeOK
<1>3. CASE a # "ok"
  <2> DEFINE row == [worker[w] EXCEPT !.answer = a]
  <2>1. /\ worker' = [worker EXCEPT ![w] = row]
        /\ row.at = "working" /\ row.answer # "ok"
    BY <1>1, <1>2, <1>3
  <2>2. UNCHANGED accepted
    BY <1>1, <1>3
  <2> HIDE DEF row
  <2> QED  BY <2>1, <2>2, WorkerMovesOn
<1>4. CASE a = "ok"
  <2>1. i \notin accepted
    BY <1>2 DEF CountInv, CampaignsInv, OutboxInv, HeldItems
  <2>2. \A v \in Workers : Acknowledged(v) => worker[v].item \in accepted
    BY DEF Acknowledged, CountInv, CampaignsInv, OutboxInv, HeldItems
  <2>3. /\ \A v \in Workers \ {w} : worker'[v] = worker[v]
        /\ worker'[w].item = i /\ worker'[w].at = "working"
        /\ worker'[w].answer = "ok"
    BY <1>1, <1>2, <1>4
  <2>4. \A v \in Workers \ {w} :
          Acknowledged(v)' => Acknowledged(v) /\ worker'[v].item # i
    BY <2>1, <2>2, <2>3 DEF Acknowledged
  <2>5. OneAcknowledgement'
    BY <2>2, <2>3, <2>4 DEF CountInv, OneAcknowledgement
  <2>6. \A c \in Campaigns : Countable(c) \subseteq Countable(c)'
    BY <1>1, <2>1, <2>3, <2>4 DEF Countable
  <2>7. IsFiniteSet(accepted')
    BY <1>1, <1>4, FS_AddElement DEF CountInv
  <2>8. CountersWereTold'
    BY <2>3 DEF CountInv, CountersWereTold
  <2>9. \A c \in Campaigns : pushSent'[c] = pushSent[c]
    OBVIOUS
  <2> QED  BY <2>3, <2>5, <2>6, <2>7, <2>8, <2>9, CountKept
<1> QED  BY <1>3, <1>4

LEMMA DispatcherCount ==
  ASSUME CountInv, CampaignsInv', NEW w \in Workers, DispatchStep(w) \/ Dies(w),
         UNCHANGED <<pushSent, tally>>
  PROVE  CountInv'
<1> DEFINE WorkerRow == [at : Phases, item : Items \cup {NoItem},
                         answer : Answers]
<1>1. worker \in [Workers -> WorkerRow]
  BY DEF CountInv, CampaignsInv, CampaignsTypeOK, OutboxTypeOK
<1>2. ASSUME NEW i \in Items, Claim(w, i) PROVE CountInv'
  <2> DEFINE row == [at |-> "working", item |-> i,
                     answer |-> IF device[i[2]].on THEN "none" ELSE "off"]
  <2>1. /\ worker' = [worker EXCEPT ![w] = row] /\ UNCHANGED accepted
        /\ row.at = "working" /\ row.answer # "ok"
    BY <1>2 DEF Claim
  <2> HIDE DEF row
  <2> QED  BY <2>1, WorkerMovesOn
<1>3. CASE Push(w)
  BY <1>3, PushCount
<1>4. CASE DisableToken(w)
  <2> DEFINE row == [worker[w] EXCEPT !.answer = "off"]
  <2>1. /\ worker' = [worker EXCEPT ![w] = row] /\ UNCHANGED accepted
        /\ row.at = "working" /\ row.answer = "off"
    BY <1>1, <1>4 DEF DisableToken
  <2> HIDE DEF row
  <2> QED  BY <2>1, WorkerMovesOn
<1>5. CASE Mark(w)
  <2> DEFINE row == [worker[w] EXCEPT !.at = "marked"]
  <2>1. /\ worker' = [worker EXCEPT ![w] = row] /\ UNCHANGED accepted
        /\ row.at = "marked" /\ row.answer = worker[w].answer
        /\ row.item = worker[w].item /\ worker[w].at = "working"
    BY <1>1, <1>5 DEF Mark
  <2> HIDE DEF row
  <2> QED  BY <2>1, WorkerMovesOn DEF Acknowledged
<1>6. CASE Dies(w)
  <2>1. Idle.at = "idle"
    BY DEF Idle
  <2> QED  BY <1>6, <2>1, WorkerMovesOn DEF Dies
<1> QED  BY <1>2, <1>3, <1>4, <1>5, <1>6 DEF DispatchStep

LEMMA RecordCount ==
  ASSUME CountInv, CampaignsInv', NEW w \in Workers, RecordRecipient(w)
  PROVE  CountInv'
<1> DEFINE row == [worker[w] EXCEPT !.at = "recorded"]
<1>1. /\ worker \in [Workers -> [at : Phases, item : Items \cup {NoItem},
                                 answer : Answers]]
      /\ worker[w].at = "marked"
      /\ UNCHANGED <<accepted, pushSent, tally>>
  BY DEF RecordRecipient, CountInv, CampaignsInv, CampaignsTypeOK, OutboxTypeOK
<1>2. \/ worker' = [worker EXCEPT ![w] = Idle]
      \/ worker' = [worker EXCEPT ![w] = row] /\ worker[w].answer = "ok"
  BY DEF RecordRecipient
<1>3. CASE worker' = [worker EXCEPT ![w] = Idle]
  <2>1. Idle.at = "idle"
    BY DEF Idle
  <2> QED  BY <1>1, <1>3, <2>1, WorkerMovesOn
<1>4. CASE worker' = [worker EXCEPT ![w] = row] /\ worker[w].answer = "ok"
  <2>1. /\ row.at = "recorded" /\ row.answer = "ok"
        /\ row.item = worker[w].item
    BY <1>1, <1>4
  <2> HIDE DEF row
  <2> QED  BY <1>1, <1>4, <2>1, WorkerMovesOn DEF Acknowledged
<1> QED  BY <1>2, <1>3, <1>4

\* What is read is the counter, which is behind.
LEMMA ReadCountInv ==
  ASSUME CountInv, CampaignsInv', NEW w \in Workers, ReadCount(w)
  PROVE  CountInv'
<1> DEFINE c == CampaignOf(worker[w].item)
<1>1. /\ worker \in [Workers -> [at : Phases, item : Items \cup {NoItem},
                                 answer : Answers]]
      /\ tally \in [Workers -> Nat]
      /\ worker[w].at = "recorded" /\ UNCHANGED <<accepted, pushSent>>
      /\ tally' = [tally EXCEPT ![w] = pushSent[c]]
      /\ worker' = [worker EXCEPT ![w].at = "counting"]
  BY DEF ReadCount, CountInv, CampaignsInv, CampaignsTypeOK, OutboxTypeOK
<1>2. /\ \A v \in Workers \ {w} : worker'[v] = worker[v] /\ tally'[v] = tally[v]
      /\ worker'[w].item = worker[w].item /\ worker'[w].answer = worker[w].answer
      /\ worker[w].answer = "ok"
      /\ tally'[w] = pushSent[c]
  BY <1>1 DEF CountInv, CountersWereTold
<1>3. /\ OneAcknowledgement'
      /\ \A e : Countable(e) \subseteq Countable(e)'
  <2>1. Acknowledged(w)' => Acknowledged(w) /\ worker'[w].item = worker[w].item
    BY <1>1, <1>2 DEF Acknowledged
  <2> QED  BY <1>1, <1>2, <2>1, NothingNewTold DEF CountInv
<1>4. CountersWereTold'
  BY <1>2 DEF CountInv, CountersWereTold
<1>5. \A v \in Workers : worker'[v].at = "counting" =>
        \/ /\ worker[v].at = "counting" /\ tally'[v] = tally[v]
           /\ worker'[v].item = worker[v].item
        \/ tally'[v] = pushSent[CampaignOf(worker'[v].item)]
  BY <1>2
<1>6. IsFiniteSet(accepted') /\ \A e \in Campaigns : pushSent'[e] = pushSent[e]
  BY <1>1 DEF CountInv
<1> QED  BY <1>3, <1>4, <1>5, <1>6, CountKept

(* The dispatcher that writes takes its push from those being reported to   *)
(* those that are counted: the room for the one it adds.                    *)
LEMMA WriteCountInv ==
  ASSUME CountInv, CampaignsInv', NEW w \in Workers, WriteCount(w)
  PROVE  CountInv'
<1>1. /\ worker \in [Workers -> [at : Phases, item : Items \cup {NoItem},
                                 answer : Answers]]
      /\ tally \in [Workers -> Nat] /\ pushSent \in [Campaigns -> Nat]
      /\ worker[w].at = "counting" /\ UNCHANGED accepted
      /\ worker' = [worker EXCEPT ![w] = Idle]
  BY DEF WriteCount, CountInv, CampaignsInv, CampaignsTypeOK, OutboxTypeOK
<1>2. PICK i \in accepted : i = worker[w].item
  BY <1>1 DEF CountInv, CountersWereTold, CampaignsInv, OutboxInv, HeldItems
<1>3. PICK c \in Campaigns : c = CampaignOf(i)
  <2>1. i \in Items
    BY <1>2 DEF CountInv, CampaignsInv, CampaignsTypeOK, OutboxTypeOK
  <2> QED  BY <2>1, CampaignsAssumption DEF Items, CampaignOf
<1>4. /\ Acknowledged(w) /\ ~Acknowledged(w)'
      /\ \A v \in Workers \ {w} : worker'[v] = worker[v]
      /\ \A v \in Workers \ {w} : Acknowledged(v) => worker[v].item # i
      /\ worker'[w].at = "idle"
  <2>1. Acknowledged(w)
    BY <1>1 DEF Acknowledged, CountInv, CountersWereTold
  <2>2. worker'[w] = Idle /\ \A v \in Workers \ {w} : worker'[v] = worker[v]
    BY <1>1
  <2> QED
    BY <1>2, <2>1, <2>2 DEF CountInv, OneAcknowledgement, Acknowledged, Idle
<1>5. /\ OneAcknowledgement'
      /\ \A e : Countable(e) \subseteq Countable(e)'
  BY <1>1, <1>4, NothingNewTold DEF CountInv
<1>6. i \notin Countable(c) /\ Countable(c) \cup {i} \subseteq Countable(c)'
  <2>1. i \notin Countable(c)
    BY <1>2, <1>4 DEF Countable
  <2>2. i \in Countable(c)'
    BY <1>1, <1>2, <1>3, <1>4 DEF Countable, Acknowledged
  <2> QED  BY <1>5, <2>1, <2>2
<1>7. /\ IsFiniteSet(accepted) /\ IsFiniteSet(accepted')
      /\ CountersWereTold'
  BY <1>1, <1>4 DEF CountInv, CountersWereTold
<1>8. ASSUME NEW e \in Campaigns
      PROVE  /\ Cardinality(Countable(e)) \in Nat
             /\ Cardinality(Countable(e)') \in Nat
             /\ Cardinality(Countable(e)) <= Cardinality(Countable(e)')
             /\ pushSent[e] \in Nat /\ pushSent[e] <= Cardinality(Countable(e))
  BY <1>1, <1>5, <1>7, CountableGrows DEF CountInv, CountBehind
<1>9. Cardinality(Countable(c)) + 1 <= Cardinality(Countable(c)')
  <2> DEFINE old == Countable(c)
             new == Countable(c)'
  <2>1. IsFiniteSet(old) /\ IsFiniteSet(new)
    <3>1. IsFiniteSet(old)
      BY <1>7, CountableFinite
    <3>2. new \in SUBSET accepted'
      BY DEF Countable
    <3> QED  BY <1>7, <3>1, <3>2, FS_Subset
  <2>2. i \notin old /\ old \cup {i} \in SUBSET new
    BY <1>6
  <2> HIDE DEF old, new
  <2>3. Cardinality(old \cup {i}) = Cardinality(old) + 1
    BY <2>1, <2>2, FS_AddElement
  <2>4. Cardinality(old \cup {i}) <= Cardinality(new)
    BY <2>1, <2>2, FS_Subset
  <2> QED  BY <2>3, <2>4 DEF old, new
<1>10. CountBehind'
  <2>1. tally[w] \in Nat /\ tally[w] <= Cardinality(Countable(c))
    BY <1>1, <1>2, <1>3 DEF CountInv, TallyBehind
  <2>2. pushSent' = [pushSent EXCEPT ![c] = tally[w] + 1]
    BY <1>2, <1>3 DEF WriteCount
  <2>3. \A e \in Campaigns :
          pushSent'[e] = IF e = c THEN tally[w] + 1 ELSE pushSent[e]
    BY <1>1, <2>2
  <2>4. pushSent'[c] <= Cardinality(Countable(c)')
    BY <1>8, <1>9, <2>1, <2>3
  <2>5. \A e \in Campaigns \ {c} : pushSent'[e] <= Cardinality(Countable(e)')
    BY <1>8, <2>3
  <2> QED  BY <2>4, <2>5 DEF CountBehind
<1>11. ASSUME NEW v \in Workers, worker'[v].at = "counting"
       PROVE  (tally[v] <= Cardinality(Countable(CampaignOf(worker[v].item))))'
  <2>1. v # w /\ worker'[v] = worker[v] /\ tally'[v] = tally[v]
    BY <1>1, <1>4, <1>11 DEF WriteCount
  <2>2. PICK e \in Campaigns : e = CampaignOf(worker[v].item)
    <3>1. worker[v].item \in Items
      BY <1>11, <2>1 DEF CountInv, CampaignsInv, OutboxInv, HeldItems
    <3> QED  BY <3>1, CampaignsAssumption DEF Items, CampaignOf
  <2>3. tally[v] \in Nat /\ tally[v] <= Cardinality(Countable(e))
    BY <1>1, <1>11, <2>1, <2>2 DEF CountInv, TallyBehind
  <2>4. tally'[v] <= Cardinality(Countable(e)')
    BY <1>8, <2>1, <2>3
  <2>5. Countable(CampaignOf(worker[v].item))' = Countable(e)'
    BY <2>1, <2>2 DEF Countable
  <2> QED  BY <2>4, <2>5
<1>12. TallyBehind'
  BY <1>11 DEF TallyBehind
<1> QED  BY <1>5, <1>7, <1>10, <1>12 DEF CountInv

LEMMA CountStep == CountInv /\ [Next]_vars => CountInv'
<1> SUFFICES ASSUME CountInv, [Next]_vars PROVE CountInv'
  OBVIOUS
<1>1. CampaignsInv'
  BY CampaignsStep DEF CountInv
<1>2. ASSUME NEW c \in Campaigns,
             \/ AdminStep(c)
             \/ \E r \in Runs : ClaimDue(c, r) \/ RunStep(c, r) \/ RunnerDies(c, r)
      PROVE  CountInv'
  BY <1>1, <1>2, RunnerCount
<1>3. ASSUME NEW w \in Workers, ReportStep(w) PROVE CountInv'
  BY <1>1, <1>3, RecordCount, ReadCountInv, WriteCountInv DEF ReportStep
<1>4. CASE DeviceStep /\ UNCHANGED <<pushSent, tally>>
  <2>1. UNCHANGED <<worker, accepted, tally>>
    BY <1>4, DeviceStepInv DEF CountInv, CampaignsInv
  <2> QED  BY <1>1, <1>4, <2>1, QuietCount
<1>5. ASSUME NEW w \in Workers, DispatchStep(w) \/ Dies(w),
             UNCHANGED <<pushSent, tally>>
      PROVE  CountInv'
  BY <1>1, <1>5, DispatcherCount
<1>6. CASE \/ UNCHANGED vars
           \/ \E s \in Settings : SetPreference(s[1], s[2])
  BY <1>1, <1>6, QuietCount DEF vars, SetPreference, outboxVars
<1> QED  BY <1>2, <1>3, <1>4, <1>5, <1>6 DEF Next

LEMMA CountInit == Init => CountInv
<1> SUFFICES ASSUME Init PROVE CountInv
  OBVIOUS
<1>1. CampaignsInv
  BY CampaignsInitInv
<1>2. /\ accepted = {} /\ \A c \in Campaigns : pushSent[c] = 0
      /\ \A w \in Workers : worker[w].at = "idle"
  BY DEF Init, OutboxInit, Idle
<1>3. IsFiniteSet(accepted)
  BY <1>2, FS_EmptySet
<1>4. OneAcknowledgement /\ CountersWereTold /\ TallyBehind
  BY <1>2 DEF OneAcknowledgement, CountersWereTold, TallyBehind, Acknowledged
<1>5. CountBehind
  BY <1>2, <1>3, CountableFinite DEF CountBehind
<1> QED  BY <1>1, <1>3, <1>4, <1>5 DEF CountInv

(* push_sent never counts more pushes than the service acknowledged,        *)
(* although dispatchers read and write it in two steps, may die in between  *)
(* and a run sets it back to 0 while they count.                            *)
THEOREM CountNeverOverstatesHolds == Spec => []CountNeverOverstates
<1>1. ASSUME CountInv PROVE CountNeverOverstates
  <2> SUFFICES ASSUME NEW c \in Campaigns
               PROVE  pushSent[c] <= Cardinality({i \in accepted : CampaignOf(i) = c})
    BY DEF CountNeverOverstates
  <2> DEFINE all == {i \in accepted : CampaignOf(i) = c}
  <2>1. /\ all \in SUBSET accepted /\ Countable(c) \in SUBSET all
        /\ IsFiniteSet(accepted)
    BY <1>1 DEF Countable, CountInv
  <2>2. /\ pushSent[c] <= Cardinality(Countable(c))
        /\ pushSent[c] \in Nat /\ Cardinality(Countable(c)) \in Nat
    BY <1>1, <2>1, CountableFinite
       DEF CountInv, CountBehind, CampaignsInv, CampaignsTypeOK
  <2> HIDE DEF all
  <2>3. IsFiniteSet(all) /\ Cardinality(all) \in Nat
    BY <2>1, FS_Subset, FS_CardinalityType
  <2>4. Cardinality(Countable(c)) <= Cardinality(all)
    BY <2>1, <2>3, FS_Subset
  <2>5. pushSent[c] <= Cardinality(all)
    BY <2>2, <2>3, <2>4
  <2> QED  BY <2>5 DEF all
<1> QED  BY <1>1, CountInit, CountStep, PTL DEF Spec
=============================================================================

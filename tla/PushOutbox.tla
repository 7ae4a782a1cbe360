----------------------------- MODULE PushOutbox -----------------------------
(* Push notifications: the devices that users register, the outbox that a   *)
(* trigger fills when a notification is inserted, and the dispatchers that  *)
(* empty it.                                                                *)
(*                                                                          *)
(* Abstractions.  A call of notifications-dispatch claims a batch and reads *)
(* the tokens of all of it at once, then takes its items one by one; it is  *)
(* as many workers here, each of one item.  Nobody looks at an item between *)
(* its claim and the reading of its token: one step.  next_attempt_at only  *)
(* delays a claim and is left out, as are the texts.  All devices are of one*)
(* platform.                                                                *)
(***************************************************************************)
EXTENDS Integers, FiniteSets

CONSTANTS
  Users, Devices, Tokens,
  FirstDevices,  \* device_tokens to begin with
  Registrations, \* <<device, user, token>>: calls of device-token-upsert
  Notices,       \* rows of user_notifications
  UserOf,        \* of each notice
  Workers,
  Nobody, NoToken, NoItem

\* A row of notification_outbox, unique per notification and device.
Items == Notices \X Devices

ASSUME OutboxAssumption ==
  /\ Registrations \subseteq Devices \X Users \X Tokens
  /\ UserOf \in [Notices -> Users]
  /\ FirstDevices \in [Devices -> [user : Users \cup {Nobody},
                                  token : Tokens \cup {NoToken}, on : BOOLEAN]]
  /\ Nobody \notin Users /\ NoToken \notin Tokens /\ NoItem \notin Items

VARIABLES
  device,      \* device_tokens: user, token, and whether it is enabled
  registering, \* registrations between their two statements
  item,        \* status of each outbox row, "none" before it is inserted
  worker,      \* what a dispatcher does with its item
  accepted     \* items for which the push service has answered "ok"

outboxVars == <<device, registering, item, worker, accepted>>

ItemStatus == {"none", "pending", "processing", "sent", "skipped"}
Answers == {"none", "ok", "invalid", "failed", "off"}
Phases == {"idle", "working", "marked", "recorded", "counting"}

Idle == [at |-> "idle", item |-> NoItem, answer |-> "none"]

OutboxInit ==
  /\ device = FirstDevices
  /\ registering = {}
  /\ item = [i \in Items |-> "none"]
  /\ worker = [w \in Workers |-> Idle]
  /\ accepted = {}
-----------------------------------------------------------------------------
(* Devices.                                                                 *)

\* device-token-upsert disables the token on other devices, and does not look
\* at the error of that ...
StartRegister(d, u, t) ==
  /\ <<d, u, t>> \in Registrations \ registering
  /\ registering' = registering \cup {<<d, u, t>>}
  /\ \/ device' = [x \in Devices |->
                     [device[x] EXCEPT !.on = @ /\ (x = d \/ device[x].token # t)]]
     \/ UNCHANGED device
  /\ UNCHANGED <<item, worker, accepted>>

\* ux_device_tokens_user_token
Taken(d, u, t) ==
  \E x \in Devices \ {d} : device[x].user = u /\ device[x].token = t

\* ... and then writes the row of its device; a unique index may refuse it
FinishRegister(d, u, t) ==
  /\ <<d, u, t>> \in registering
  /\ registering' = registering \ {<<d, u, t>>}
  /\ device' = IF Taken(d, u, t)
                 THEN device
                 ELSE [device EXCEPT ![d] =
                         [user |-> u, token |-> t, on |-> TRUE]]
  /\ UNCHANGED <<item, worker, accepted>>

\* device-token-disable, by the user who has the device
DisableDevice(d) ==
  /\ device[d].on
  /\ device' = [device EXCEPT ![d].on = FALSE]
  /\ UNCHANGED <<registering, item, worker, accepted>>
-----------------------------------------------------------------------------
(* The outbox.                                                              *)

\* Mutant: data.push is not looked at.
Enqueued_All(ns, silent) ==
  [i \in Items |->
     IF i[1] \in ns /\ device[i[2]].user = UserOf[i[1]] /\ device[i[2]].on
       THEN "pending" ELSE item[i]]

\* enqueue_notification_outbox, for an INSERT of the notices ns: one row per
\* enabled device of the user, unless the notice says data.push = false
Enqueued(ns, silent) ==
  [i \in Items |->
     IF /\ i[1] \in ns \ silent
        /\ device[i[2]].user = UserOf[i[1]] /\ device[i[2]].on
       THEN "pending" ELSE item[i]]

\* Mutant: what looks abandoned is claimed again, as in the outbox of the
\* trusted contacts.
Claim_Lease(w, i) ==
  /\ worker[w].at = "idle" /\ item[i] \in {"pending", "processing"}
  /\ item' = [item EXCEPT ![i] = "processing"]
  /\ worker' = [worker EXCEPT ![w] =
                  [at |-> "working", item |-> i,
                   answer |-> IF device[i[2]].on THEN "none" ELSE "off"]]
  /\ UNCHANGED <<device, registering, accepted>>

\* notification_outbox_claim, and the query of device_tokens after it
Claim(w, i) ==
  /\ worker[w].at = "idle" /\ item[i] = "pending"
  /\ item' = [item EXCEPT ![i] = "processing"]
  /\ worker' = [worker EXCEPT ![w] =
                  [at |-> "working", item |-> i,
                   answer |-> IF device[i[2]].on THEN "none" ELSE "off"]]
  /\ UNCHANGED <<device, registering, accepted>>

\* sendFcmMessage; an answer that is lost is a failure here, although the
\* service may have accepted the message
Push(w) ==
  /\ worker[w].at = "working" /\ worker[w].answer = "none"
  /\ \E a \in {"ok", "invalid", "failed"} :
       /\ worker' = [worker EXCEPT ![w].answer = a]
       /\ accepted' = IF a = "ok" THEN accepted \cup {worker[w].item} ELSE accepted
  /\ UNCHANGED <<device, registering, item>>

\* the row is disabled by its id, whatever token it has by now; an error of
\* the update is not looked at
DisableToken(w) ==
  /\ worker[w].at = "working" /\ worker[w].answer = "invalid"
  /\ \/ device' = [device EXCEPT ![worker[w].item[2]].on = FALSE]
     \/ UNCHANGED device
  /\ worker' = [worker EXCEPT ![w].answer = "off"]
  /\ UNCHANGED <<registering, item, accepted>>

Marked == [ok |-> "sent", off |-> "skipped", failed |-> "pending"]

\* Mutant: a push that is accepted is tried again.
Mark_Again(w) ==
  /\ worker[w].at = "working" /\ worker[w].answer \in DOMAIN Marked
  /\ worker' = [worker EXCEPT ![w].at = "marked"]
  /\ item' = [item EXCEPT ![worker[w].item] =
                IF worker[w].answer = "off" THEN "skipped" ELSE "pending"]
  /\ UNCHANGED <<device, registering, accepted>>

\* notification_outbox_mark, by the id of the row; its error is not looked at
Mark(w) ==
  /\ worker[w].at = "working" /\ worker[w].answer \in DOMAIN Marked
  /\ worker' = [worker EXCEPT ![w].at = "marked"]
  /\ \/ item' = [item EXCEPT ![worker[w].item] = Marked[worker[w].answer]]
     \/ UNCHANGED item
  /\ UNCHANGED <<device, registering, accepted>>

\* The function is stopped, or its query of the tokens fails: its item stays
\* where it is.
Dies(w) ==
  /\ worker[w].at # "idle"
  /\ worker' = [worker EXCEPT ![w] = Idle]
  /\ UNCHANGED <<device, registering, item, accepted>>

DeviceStep ==
  \/ \E r \in Registrations :
       StartRegister(r[1], r[2], r[3]) \/ FinishRegister(r[1], r[2], r[3])
  \/ \E d \in Devices : DisableDevice(d)

DispatchStep(w) ==
  (\E i \in Items : Claim(w, i)) \/ Push(w) \/ DisableToken(w) \/ Mark(w)
-----------------------------------------------------------------------------
(* The outbox by itself: notices come from anywhere, and what a dispatcher  *)
(* does once it has marked its item touches nothing here.                   *)

\* an INSERT of user_notifications; those with data.push = false have no part
Notify(ns) ==
  /\ \A i \in Items : i[1] \in ns => item[i] = "none"
  /\ item' = Enqueued(ns, {})
  /\ UNCHANGED <<device, registering, worker, accepted>>

Reports(w) ==
  /\ worker[w].at \notin {"idle", "working"}
  /\ \/ worker' = [worker EXCEPT ![w] = Idle]
     \/ \E a \in Phases \ {"working"} : worker' = [worker EXCEPT ![w].at = a]
  /\ UNCHANGED <<device, registering, item, accepted>>

OutboxNext ==
  \/ DeviceStep
  \/ \E w \in Workers : DispatchStep(w) \/ Dies(w) \/ Reports(w)
  \/ \E ns \in SUBSET Notices : Notify(ns)

OutboxSpec == OutboxInit /\ [][OutboxNext]_outboxVars
-----------------------------------------------------------------------------
OutboxTypeOK ==
  /\ device \in [Devices -> [user : Users \cup {Nobody},
                             token : Tokens \cup {NoToken}, on : BOOLEAN]]
  /\ registering \subseteq Registrations
  /\ item \in [Items -> ItemStatus]
  /\ worker \in [Workers -> [at : Phases, item : Items \cup {NoItem},
                             answer : Answers]]
  /\ accepted \subseteq Items

(* Two dispatchers are never at the same item, and the item of a dispatcher *)
(* that has not marked it yet is "processing": nobody pushes what is sent.  *)
OneWorkerPerItem ==
  \A w \in Workers : worker[w].at = "working" =>
    /\ item[worker[w].item] = "processing"
    /\ \A v \in Workers \ {w} :
         worker[v].at = "working" => worker[v].item # worker[w].item

(* A push that the service has acknowledged is never tried again, whatever  *)
(* dies or fails between the answer and the mark: its item is left as it is.*)
AcceptedIsNotRetried ==
  \A i \in accepted : item[i] \in {"processing", "sent"}

(* What is sent or skipped stays so, although notification_outbox_mark does *)
(* not look at the status it overwrites.                                    *)
EndedItemStays ==
  [][\A i \in Items :
       item[i] \in {"sent", "skipped"} => item'[i] = item[i]]_outboxVars
=============================================================================

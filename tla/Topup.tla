-------------------------------- MODULE Topup --------------------------------
(***************************************************************************)
(* Wallet top-ups.  topup-create opens a payment at a provider; the result  *)
(* comes back through the webhook queue, through the user's topup-check or  *)
(* the return page, and through the topup-reconcile job, in any order and   *)
(* any number of times.  wallet_finalize_topup credits the wallet.          *)
(*                                                                          *)
(* Abstractions.  The provider is external: a payment is opened, its page   *)
(* handed to the payer, and paid or refused.  A provider reports only what  *)
(* has happened, as often and as late as it likes.  A request for the       *)
(* status of a payment may fail, which the code takes for "pending".        *)
(***************************************************************************)
EXTENDS WebhookQueue

CONSTANTS
  Intents,    \* rows of topup_intents
  IntentOf,   \* [Reports -> Intents]
  SaysOf,     \* [Reports -> {"open", "paid", "refused"}]
  NeedsTx,    \* intents whose provider is asked by provider_tx_id
  Replays,    \* intents whose creation the client sends again
  Pollers,    \* concurrent topup-check, zaincash-return and reconcile calls
  NoIntent,   \* an idle poller
  MaxCredits  \* bound: how often one intent may be credited in a run

ASSUME TopupAssumption ==
  /\ IntentOf \in [Reports -> Intents]
  /\ \A m \in Nameless : IntentOf[m] \in NeedsTx
  /\ SaysOf \in [Reports -> {"open", "paid", "refused"}]
  /\ NeedsTx \subseteq Intents
  /\ Replays \subseteq Intents
  /\ NoIntent \notin Intents
  /\ MaxCredits \in Nat \ {0}

VARIABLES
  intent,    \* topup_intents: status, and whether provider_tx_id is known
  creating,  \* where the topup-create call of an intent is
  payment,   \* the payment at the provider
  poll,      \* the intent a poller asks about and the answer it got
  credited   \* how often the amount was added to the wallet

topupVars == <<intent, creating, payment, poll, credited>>
vars == <<queueVars, topupVars>>

IntentStatus == {"none", "created", "pending", "succeeded", "failed"}
NoIntentRow == [status |-> "none", tx |-> FALSE]
NoPoll == [intent |-> NoIntent, says |-> "open"]

Init ==
  /\ QueueInit
  /\ intent = [i \in Intents |-> NoIntentRow]
  /\ creating = [i \in Intents |-> "idle"]
  /\ payment = [i \in Intents |-> "none"]
  /\ poll = [p \in Pollers |-> NoPoll]
  /\ credited = [i \in Intents |-> 0]
-----------------------------------------------------------------------------
(* What an answer of the provider does to the intent and to the wallet.     *)

\* Mutants: every call credits; only a pending intent is credited.
Finalize_Always(i) ==
  /\ credited[i] < MaxCredits
  /\ intent' = [intent EXCEPT ![i] = [status |-> "succeeded", tx |-> TRUE]]
  /\ credited' = [credited EXCEPT ![i] = @ + 1]
Finalize_PendingOnly(i) ==
  IF intent[i].status # "pending"
    THEN UNCHANGED <<intent, credited>>
    ELSE /\ credited[i] < MaxCredits
         /\ intent' = [intent EXCEPT ![i] =
                         [status |-> "succeeded", tx |-> TRUE]]
         /\ credited' = [credited EXCEPT ![i] = @ + 1]

\* wallet_finalize_topup
Finalize(i) ==
  IF intent[i].status = "succeeded"
    THEN UNCHANGED <<intent, credited>>
    ELSE /\ credited[i] < MaxCredits
         /\ intent' = [intent EXCEPT ![i] =
                         [status |-> "succeeded", tx |-> TRUE]]
         /\ credited' = [credited EXCEPT ![i] = @ + 1]

\* Mutant: the provider's word is written, which is not a topup_status.
FailTopup_RawStatus(i) ==
  /\ intent' = [intent EXCEPT ![i].status =
                  IF @ \in {"failed", "succeeded"} THEN @ ELSE "refused"]
  /\ UNCHANGED credited

\* wallet_fail_topup
FailTopup(i) ==
  /\ intent' = [intent EXCEPT ![i].status =
                  IF @ \in {"failed", "succeeded"} THEN @ ELSE "failed"]
  /\ UNCHANGED credited

\* Mutant: a report without a known status counts as success.
Apply_OpenIsPaid(i, says) ==
  IF says = "refused" THEN FailTopup(i) ELSE Finalize(i)

\* mapStatus and the three branches of every processor.  "pending" is
\* written whatever the row says, and an error of that update is ignored.
Apply(i, says) ==
  CASE says = "paid"    -> Finalize(i)
    [] says = "refused" -> FailTopup(i)
    [] OTHER -> /\ \/ intent' = [intent EXCEPT ![i].status = "pending"]
                   \/ UNCHANGED intent
                /\ UNCHANGED credited
-----------------------------------------------------------------------------
(* topup-create: insert, call the provider, record.                         *)

CreateTopup(i) ==
  /\ intent[i].status = "none"
  /\ intent' = [intent EXCEPT ![i].status = "created"]
  /\ creating' = [creating EXCEPT ![i] = "init"]
  /\ UNCHANGED <<queueVars, payment, poll, credited>>

\* the same idempotency_key again: the row is found, and the call goes on
ReplayTopup(i) ==
  /\ i \in Replays
  /\ intent[i].status # "none" /\ creating[i] = "idle"
  /\ creating' = [creating EXCEPT ![i] = "init"]
  /\ UNCHANGED <<queueVars, intent, payment, poll, credited>>

\* the provider opens the payment, or the call fails; when the answer is
\* lost it fails although the payment is open
InitPayment(i) ==
  LET opened == [payment EXCEPT ![i] = IF @ = "none" THEN "opened" ELSE @] IN
  /\ creating[i] = "init"
  /\ \/ creating' = [creating EXCEPT ![i] = "opened"] /\ payment' = opened
     \/ /\ i \in NeedsTx
        /\ creating' = [creating EXCEPT ![i] = "refused"]
        /\ payment' \in {payment, opened}
  /\ UNCHANGED <<queueVars, intent, poll, credited>>

\* status and transaction id are written, an error of the update being
\* ignored; the payer gets the page
RecordInit(i) ==
  /\ \/ /\ creating[i] = "opened"
        /\ \/ intent' = [intent EXCEPT ![i] =
                           [status |-> "pending", tx |-> i \in NeedsTx]]
           \/ UNCHANGED intent
        /\ payment' = [payment EXCEPT ![i] =
                         IF @ = "opened" THEN "offered" ELSE @]
     \/ /\ creating[i] = "refused"
        /\ \/ intent' = [intent EXCEPT ![i].status = "failed"]
           \/ UNCHANGED intent
        /\ UNCHANGED payment
  /\ creating' = [creating EXCEPT ![i] = "idle"]
  /\ UNCHANGED <<queueVars, poll, credited>>

CreateDies(i) ==
  /\ creating[i] # "idle"
  /\ creating' = [creating EXCEPT ![i] = "idle"]
  /\ UNCHANGED <<queueVars, intent, payment, poll, credited>>
-----------------------------------------------------------------------------
(* The provider and its webhooks.                                           *)

PayerPays(i) ==
  /\ payment[i] = "offered"
  /\ payment' = [payment EXCEPT ![i] = "paid"]
  /\ UNCHANGED <<queueVars, intent, creating, poll, credited>>

PaymentRefused(i) ==
  /\ payment[i] \in {"opened", "offered"}
  /\ payment' = [payment EXCEPT ![i] = "refused"]
  /\ UNCHANGED <<queueVars, intent, creating, poll, credited>>

\* what has come true of the payment of a report
Reached(m) ==
  IF SaysOf[m] = "open" THEN payment[IntentOf[m]] # "none"
                        ELSE payment[IntentOf[m]] = SaysOf[m]

ReportArrives(m) ==
  /\ Reached(m)
  /\ Receive(m) \/ Ignore(m)
  /\ UNCHANGED topupVars

\* Mutant: an error of the database call is not raised.
Process_Swallow(w) ==
  /\ Work(w, TRUE)
  /\ LET m == inbox[claim[w].event] IN
       Apply(IntentOf[m], SaysOf[m]) \/ UNCHANGED <<intent, credited>>
  /\ UNCHANGED <<creating, payment, poll>>

\* processTopupWebhook on the stored payload
Process(w) ==
  /\ \/ /\ Work(w, TRUE)
        /\ LET m == inbox[claim[w].event] IN Apply(IntentOf[m], SaysOf[m])
     \/ /\ Work(w, FALSE)
        /\ UNCHANGED <<intent, credited>>
  /\ UNCHANGED <<creating, payment, poll>>
-----------------------------------------------------------------------------
(* topup-check, zaincash-return and topup-reconcile.                        *)

\* AsiaPay has no inquiry: its stored reports are read instead
Answers(i) ==
  {"open"} \cup
  {s \in {"paid", "refused"} :
     IF i \in NeedsTx THEN payment[i] = s
     ELSE \E e \in Events : /\ inbox[e] # NoReport
                            /\ IntentOf[inbox[e]] = i
                            /\ SaysOf[inbox[e]] = s}

\* by the transaction id of the row, or, on the return page, by the one in
\* the token the payer comes back with
AskProvider(p, i, says) ==
  /\ poll[p] = NoPoll
  /\ intent[i].status # "none"
  /\ i \in NeedsTx => intent[i].tx \/ payment[i] \in {"paid", "refused"}
  /\ says \in Answers(i)
  /\ poll' = [poll EXCEPT ![p] = [intent |-> i, says |-> says]]
  /\ UNCHANGED <<queueVars, intent, creating, payment, credited>>

SettlePoll(p) ==
  /\ poll[p] # NoPoll
  /\ Apply(poll[p].intent, poll[p].says)
  /\ poll' = [poll EXCEPT ![p] = NoPoll]
  /\ UNCHANGED <<queueVars, creating, payment>>

PollDies(p) ==
  /\ poll[p] # NoPoll
  /\ poll' = [poll EXCEPT ![p] = NoPoll]
  /\ UNCHANGED <<queueVars, intent, creating, payment, credited>>
-----------------------------------------------------------------------------
IntentStep(i) ==
  \/ CreateTopup(i) \/ ReplayTopup(i) \/ InitPayment(i) \/ RecordInit(i)
  \/ CreateDies(i) \/ PayerPays(i) \/ PaymentRefused(i)

QueueStep ==
  \/ \E m \in Reports : EndpointStep(m)
  \/ \E w \in Workers : WorkerStep(w)
  \/ \E e \in Events : LeaseLapses(e)

Next ==
  \/ \E i \in Intents : IntentStep(i)
  \/ \E m \in Reports : ReportArrives(m)
  \/ QueueStep /\ UNCHANGED topupVars
  \/ \E w \in Workers : Process(w)
  \/ \E p \in Pollers :
       \/ \E i \in Intents, says \in {"open", "paid", "refused"} :
            AskProvider(p, i, says)
       \/ SettlePoll(p)
       \/ PollDies(p)

Spec == Init /\ [][Next]_vars

(* The provider repeats a report until it is accepted, and an endpoint does *)
(* not die for ever on it.  The runner is scheduled again and again, leases *)
(* lapse by themselves, and a worker does not die for ever at the same      *)
(* point of the same job.                                                   *)
DeliveryFairness ==
  /\ \A m \in Reports :
       /\ WF_vars(m \notin acked \cup ignored /\ ReportArrives(m))
       /\ SF_vars(Enqueue(m) /\ UNCHANGED topupVars)
  /\ \A w \in Workers : WF_vars(WorkerStep(w) /\ UNCHANGED topupVars)
  /\ \A e \in Events :
       /\ WF_vars(LeaseLapses(e) /\ UNCHANGED topupVars)
       /\ SF_vars(\E w \in Workers : Claim(w, e) /\ UNCHANGED topupVars)
       /\ SF_vars(\E w \in Workers : Holds(w, e) /\ Process(w))
       /\ SF_vars(\E w \in Workers :
                    /\ Holds(w, e) /\ (MarkDone(w) \/ MarkFailed(w))
                    /\ UNCHANGED topupVars)

FairSpec == Spec /\ DeliveryFairness
-----------------------------------------------------------------------------
(* Every variable has its type; no intent is credited more often than the   *)
(* bound.                                                                   *)
TopupTypeOK ==
  /\ intent \in [Intents -> [status : IntentStatus, tx : BOOLEAN]]
  /\ creating \in [Intents -> {"idle", "init", "opened", "refused"}]
  /\ payment \in [Intents -> {"none", "opened", "offered", "paid", "refused"}]
  /\ poll \in [Pollers -> [intent : Intents \cup {NoIntent},
                           says   : {"open", "paid", "refused"}]]
  /\ credited \in [Intents -> 0..MaxCredits]

(* The wallet is credited only for a payment that was made, although stored *)
(* reports, job retries and answers to polls are acted upon long after they *)
(* were given.                                                              *)
CreditOnlyIfPaid ==
  \A i \in Intents : credited[i] > 0 => payment[i] = "paid"

(* A webhook job is marked succeeded only after its payment was credited:   *)
(* no retry is given up before the effect.                                  *)
SucceededJobCredited ==
  \A e \in Events :
    /\ job[e].status = "succeeded"
    /\ inbox[e] # NoReport /\ SaysOf[inbox[e]] = "paid"
    => credited[IntentOf[inbox[e]]] > 0

(* An intent is credited once: "duplicate deliveries are no-ops"            *)
(* (docs/webhook-processing.md), retried jobs too.                          *)
CreditedOnce == \A i \in Intents : credited[i] <= 1

(* A payment that was made is credited in the end, unless the job of its    *)
(* report has failed max_attempts times.                                    *)
PaidReports(i) == {m \in Reports : IntentOf[m] = i /\ SaysOf[m] = "paid"}

PaidIsCredited ==
  \A i \in Intents :
    payment[i] = "paid"
      ~> \/ credited[i] > 0
         \/ \E m \in PaidReports(i) : job[EventOf[m]].status = "dead"
=============================================================================

------------------------------ MODULE Withdraw ------------------------------
(* Withdrawals of a driver's wallet and the payout jobs that send the money.*)
(* The user asks and cancels, an administrator approves, rejects and marks  *)
(* paid; payout jobs are created, sent, canceled, retried and confirmed by  *)
(* administrators, and the provider reports through its webhook.            *)
(*                                                                          *)
(* Abstractions.  The provider is external: it accepts a transfer once per  *)
(* provider_idempotency_key, that is, once per job, and pays or refuses it. *)
(* All requests are of one day and of one payout kind; eligibility and the  *)
(* daily amount (read with the daily count) are left out, and so are the    *)
(* attempts, which payout-job-send only counts.                             *)
(*                                                                          *)
(* system_withdraw_mark_paid, system_withdraw_mark_failed and               *)
(* payout_claim_jobs compare current_user with 'service_role' although they *)
(* are SECURITY DEFINER functions of postgres: they always raise, and what  *)
(* calls them goes on (payout-job-action) or fails after its own writes     *)
(* (the webhook).  payout-job-runner never gets a job.                      *)
(***************************************************************************)
EXTENDS Integers, FiniteSets, Functions

CONSTANTS
  Users,          \* drivers with a wallet
  Withdrawals,    \* rows of wallet_withdraw_requests
  UserOf,         \* [Withdrawals -> Users]
  AmountOf,       \* [Withdrawals -> positive amounts]
  OpeningBalance, \* [Users -> Nat]
  DailyCap,       \* wallet_withdrawal_policy.daily_cap_count
  Jobs,           \* rows of payout_provider_jobs
  WithdrawalOf,   \* [Jobs -> Withdrawals]
  Senders,        \* concurrent calls of payout-job-send
  NoSender, NoPayout

ASSUME WithdrawAssumption ==
  /\ UserOf \in [Withdrawals -> Users]
  /\ AmountOf \in [Withdrawals -> Nat \ {0}]
  /\ OpeningBalance \in [Users -> Nat]
  /\ DailyCap \in Nat
  /\ WithdrawalOf \in [Jobs -> Withdrawals]
  /\ NoSender \notin Senders
  /\ NoPayout \notin Jobs

VARIABLES
  withdrawal, \* status of each request, "none" before it is inserted
  asking,     \* requests whose call has read the daily caps
  hold,       \* status of the request's wallet_holds row
  account,    \* wallet_accounts: balance and held
  job,        \* payout_provider_jobs: status, canceled_at, the lock
  calls,      \* jobs an administrator's call has read and not yet written
  sender,     \* the job a payout-job-send call has locked, and its step
  transfer    \* the transfer of a job at the provider

walletVars == <<withdrawal, asking, hold, account>>
payoutVars == <<job, calls, sender, transfer>>
vars == <<walletVars, payoutVars>>

WithdrawalStatus ==
  {"none", "requested", "approved", "rejected", "paid", "cancelled"}
PayoutStatus == {"none", "queued", "sent", "confirmed", "failed", "canceled"}
NoJobRow ==
  [status |-> "none", canceled |-> FALSE, by |-> NoSender, lapsed |-> FALSE]
IdleSender == [job |-> NoPayout, step |-> "idle"]

Init ==
  /\ withdrawal = [w \in Withdrawals |-> "none"]
  /\ asking = {}
  /\ hold = [w \in Withdrawals |-> "none"]
  /\ account = [u \in Users |-> [balance |-> OpeningBalance[u], held |-> 0]]
  /\ job = [j \in Jobs |-> NoJobRow]
  /\ calls = {}
  /\ sender = [s \in Senders |-> IdleSender]
  /\ transfer = [j \in Jobs |-> "none"]
-----------------------------------------------------------------------------
(* The request and its hold.                                                *)

CountedToday(u) ==
  {w \in Withdrawals : /\ UserOf[w] = u
                       /\ withdrawal[w] \notin {"none", "rejected", "cancelled"}}

\* wallet_request_withdraw reads the caps before it takes any lock ...
ReadCaps(w) ==
  /\ withdrawal[w] = "none" /\ w \notin asking
  /\ Cardinality(CountedToday(UserOf[w])) < DailyCap
  /\ asking' = asking \cup {w}
  /\ UNCHANGED <<withdrawal, hold, account, payoutVars>>

Available(u) == account[u].balance - account[u].held

\* Mutant: held funds count as available.
PlaceWithdrawal_Balance(w) ==
  /\ w \in asking
  /\ AmountOf[w] <= account[UserOf[w]].balance
  /\ asking' = asking \ {w}
  /\ withdrawal' = [withdrawal EXCEPT ![w] = "requested"]
  /\ hold' = [hold EXCEPT ![w] = "active"]
  /\ account' = [account EXCEPT ![UserOf[w]].held = @ + AmountOf[w]]
  /\ UNCHANGED payoutVars

\* ... and the funds with the account locked
PlaceWithdrawal(w) ==
  /\ w \in asking
  /\ asking' = asking \ {w}
  /\ IF Available(UserOf[w]) < AmountOf[w]
       THEN UNCHANGED <<withdrawal, hold, account>>
       ELSE /\ withdrawal' = [withdrawal EXCEPT ![w] = "requested"]
            /\ hold' = [hold EXCEPT ![w] = "active"]
            /\ account' = [account EXCEPT ![UserOf[w]].held = @ + AmountOf[w]]
  /\ UNCHANGED payoutVars

HeldWithout(w) ==
  LET rest == account[UserOf[w]].held - AmountOf[w] IN
    IF rest > 0 THEN rest ELSE 0

\* Mutants: the hold is forgotten; the account is forgotten.
GiveBack_KeepHold(w, to) ==
  /\ withdrawal' = [withdrawal EXCEPT ![w] = to]
  /\ account' = [account EXCEPT ![UserOf[w]].held = HeldWithout(w)]
  /\ UNCHANGED <<asking, hold, payoutVars>>
GiveBack_KeepHeld(w, to) ==
  /\ withdrawal' = [withdrawal EXCEPT ![w] = to]
  /\ hold' = [hold EXCEPT ![w] = "released"]
  /\ UNCHANGED <<asking, account, payoutVars>>

GiveBack(w, to) ==
  /\ withdrawal' = [withdrawal EXCEPT ![w] = to]
  /\ hold' = [hold EXCEPT ![w] = "released"]
  /\ account' = [account EXCEPT ![UserOf[w]].held = HeldWithout(w)]
  /\ UNCHANGED <<asking, payoutVars>>

\* Mutants: an approved request can be cancelled too; the status is spelled
\* as in payout_provider_job_status.
CancelWithdrawal_Approved(w) ==
  /\ withdrawal[w] \in {"requested", "approved"}
  /\ GiveBack(w, "cancelled")
CancelWithdrawal_Spelling(w) ==
  /\ withdrawal[w] = "requested"
  /\ GiveBack(w, "canceled")

\* wallet_cancel_withdraw
CancelWithdrawal(w) ==
  /\ withdrawal[w] = "requested"
  /\ GiveBack(w, "cancelled")

\* admin_withdraw_approve
ApproveWithdrawal(w) ==
  /\ withdrawal[w] = "requested" /\ hold[w] = "active"
  /\ withdrawal' = [withdrawal EXCEPT ![w] = "approved"]
  /\ UNCHANGED <<asking, hold, account, payoutVars>>

\* admin_withdraw_reject: the payout jobs are not looked at
RejectWithdrawal(w) ==
  /\ withdrawal[w] \in {"requested", "approved"} /\ hold[w] = "active"
  /\ GiveBack(w, "rejected")

PayOut(w) ==
  /\ withdrawal' = [withdrawal EXCEPT ![w] = "paid"]
  /\ hold' = [hold EXCEPT ![w] = "captured"]
  /\ account' = [account EXCEPT ![UserOf[w]] =
                   [balance |-> @.balance - AmountOf[w], held |-> HeldWithout(w)]]
  /\ UNCHANGED asking

\* admin_withdraw_mark_paid
MarkPaid(w) ==
  /\ withdrawal[w] = "approved" /\ hold[w] = "active"
  /\ account[UserOf[w]].held >= AmountOf[w]
  /\ account[UserOf[w]].balance >= AmountOf[w]
  /\ PayOut(w)
  /\ UNCHANGED payoutVars

\* inside a SECURITY DEFINER function, current_user is its owner
CurrentUser == "postgres"

\* system_withdraw_mark_paid, called by reports and by force_confirm
SystemMarkPaid(w) ==
  IF CurrentUser = "service_role" /\ withdrawal[w] = "approved"
    THEN PayOut(w) ELSE UNCHANGED walletVars
-----------------------------------------------------------------------------
(* Payout jobs.  ux_payout_provider_jobs_active_per_withdraw allows one     *)
(* queued or sent job per request.  Endpoints read the row in one           *)
(* transaction and write in another.                                        *)

Siblings(j) == {k \in Jobs : WithdrawalOf[k] = WithdrawalOf[j]}
Active(j) == job[j].status \in {"queued", "sent"}
SlotFree(j) == \A k \in Siblings(j) \ {j} : ~Active(k)
Unlocked(row, to) ==
  [row EXCEPT !.status = to, !.by = NoSender, !.lapsed = FALSE]

\* payout-job-create: the request must be approved when it is read
CreateReads(j) ==
  /\ job[j].status = "none" /\ j \notin calls
  /\ withdrawal[WithdrawalOf[j]] = "approved"
  /\ calls' = calls \cup {j}
  /\ UNCHANGED <<walletVars, job, sender, transfer>>

InsertJob(j) ==
  /\ j \in calls /\ job[j].status = "none"
  /\ calls' = calls \ {j}
  /\ job' = IF SlotFree(j) THEN [job EXCEPT ![j].status = "queued"] ELSE job
  /\ UNCHANGED <<walletVars, sender, transfer>>

\* Mutant: a cancel leaves the lock to the call that holds it.
CancelJob_KeepLock(j) ==
  /\ job[j].status # "none"
  /\ job' = [job EXCEPT ![j].status = "canceled", ![j].canceled = TRUE]
  /\ UNCHANGED <<walletVars, calls, sender, transfer>>

\* payout-job-action, cancel: whatever the status is
CancelJob(j) ==
  /\ job[j].status # "none"
  /\ job' = [job EXCEPT ![j] = [Unlocked(@, "canceled") EXCEPT !.canceled = TRUE]]
  /\ UNCHANGED <<walletVars, calls, sender, transfer>>

\* payout-job-action, retry_now: canceled_at stays
RetryJob(j) ==
  /\ job[j].status # "none" /\ SlotFree(j)
  /\ job' = [job EXCEPT ![j] = Unlocked(@, "queued")]
  /\ UNCHANGED <<walletVars, calls, sender, transfer>>

\* payout-job-action, force_confirm: the lock stays
ForceReads(j) ==
  /\ job[j].status \in {"sent", "confirmed"} /\ j \notin calls
  /\ calls' = calls \cup {j}
  /\ UNCHANGED <<walletVars, job, sender, transfer>>

ForceConfirm(j) ==
  /\ j \in calls /\ job[j].status # "none"
  /\ calls' = calls \ {j}
  /\ job' = [job EXCEPT ![j].status = "confirmed"]
  /\ SystemMarkPaid(WithdrawalOf[j])
  /\ UNCHANGED <<sender, transfer>>

CallDies(j) ==
  /\ j \in calls
  /\ calls' = calls \ {j}
  /\ UNCHANGED <<walletVars, job, sender, transfer>>
-----------------------------------------------------------------------------
(* payout-job-send: lock the job, read the request, call the provider,      *)
(* record the outcome where the lock token still matches.                   *)

At(s, step) == sender[s].step = step
Goes(s, step) == sender' = [sender EXCEPT ![s].step = step]
Ends(s) == sender' = [sender EXCEPT ![s] = IdleSender]
Owns(s) == job[sender[s].job].by = s

LockJob(s, j) ==
  /\ At(s, "idle")
  /\ job[j].status \in {"queued", "failed"} /\ ~job[j].canceled
  /\ job[j].by = NoSender \/ job[j].lapsed
  /\ job' = [job EXCEPT ![j].by = s, ![j].lapsed = FALSE]
  /\ sender' = [sender EXCEPT ![s] = [job |-> j, step |-> "locked"]]
  /\ UNCHANGED <<walletVars, calls, transfer>>

ReadRequest(s) ==
  /\ At(s, "locked")
  /\ Goes(s, IF withdrawal[WithdrawalOf[sender[s].job]] = "approved"
               THEN "sending" ELSE "failing")
  /\ UNCHANGED <<walletVars, job, calls, transfer>>

\* the provider takes the transfer, or the call fails; when the answer is
\* lost it fails although the transfer was taken
SendPayout(s) ==
  LET j == sender[s].job
      taken == [transfer EXCEPT ![j] = IF @ = "none" THEN "accepted" ELSE @] IN
  /\ At(s, "sending")
  /\ \/ Goes(s, "accepted") /\ transfer' = taken
     \/ Goes(s, "failing") /\ transfer' \in {transfer, taken}
  /\ UNCHANGED <<walletVars, job, calls>>

\* the update finds no row of this token, or the unique index refuses it:
\* the call goes on as after a failure
RecordSent(s) ==
  LET j == sender[s].job IN
  /\ At(s, "accepted")
  /\ IF Owns(s) /\ SlotFree(j)
       THEN job' = [job EXCEPT ![j] = Unlocked(@, "sent")] /\ Ends(s)
       ELSE UNCHANGED job /\ Goes(s, "failing")
  /\ UNCHANGED <<walletVars, calls, transfer>>

RecordFailed(s) ==
  LET j == sender[s].job IN
  /\ At(s, "failing")
  /\ job' = IF Owns(s) THEN [job EXCEPT ![j] = Unlocked(@, "failed")] ELSE job
  /\ Ends(s)
  /\ UNCHANGED <<walletVars, calls, transfer>>

SenderDies(s) ==
  /\ ~At(s, "idle")
  /\ Ends(s)
  /\ UNCHANGED <<walletVars, job, calls, transfer>>

\* five minutes pass
LockLapses(j) ==
  /\ job[j].by # NoSender /\ ~job[j].lapsed
  /\ job' = [job EXCEPT ![j].lapsed = TRUE]
  /\ UNCHANGED <<walletVars, calls, sender, transfer>>
-----------------------------------------------------------------------------
(* The provider, and its report as processWithdrawWebhook applies it, any   *)
(* number of times: every job of the request is written, whatever its       *)
(* status, then the request is settled.                                     *)

TransferEnds(j) ==
  /\ transfer[j] = "accepted"
  /\ \E to \in {"made", "refused"} : transfer' = [transfer EXCEPT ![j] = to]
  /\ UNCHANGED <<walletVars, job, calls, sender>>

ReportApplied(j) ==
  /\ transfer[j] \in {"made", "refused"}
  /\ job' = [k \in Jobs |->
               IF k \in Siblings(j) /\ job[k].status # "none"
                 THEN [job[k] EXCEPT !.status =
                         IF transfer[j] = "made" THEN "confirmed" ELSE "failed"]
                 ELSE job[k]]
  /\ IF transfer[j] = "made" THEN SystemMarkPaid(WithdrawalOf[j])
                             ELSE UNCHANGED walletVars
  /\ UNCHANGED <<calls, sender, transfer>>
-----------------------------------------------------------------------------
RequestStep(w) ==
  \/ ReadCaps(w) \/ PlaceWithdrawal(w) \/ CancelWithdrawal(w)
  \/ ApproveWithdrawal(w) \/ RejectWithdrawal(w) \/ MarkPaid(w)

JobStep(j) ==
  \/ CreateReads(j) \/ InsertJob(j) \/ CancelJob(j) \/ RetryJob(j)
  \/ ForceReads(j) \/ ForceConfirm(j) \/ CallDies(j) \/ LockLapses(j)
  \/ TransferEnds(j) \/ ReportApplied(j)

SenderStep(s) ==
  \/ \E j \in Jobs : LockJob(s, j)
  \/ ReadRequest(s) \/ SendPayout(s) \/ RecordSent(s) \/ RecordFailed(s)
  \/ SenderDies(s)

Next ==
  \/ \E w \in Withdrawals : RequestStep(w)
  \/ \E j \in Jobs : JobStep(j)
  \/ \E s \in Senders : SenderStep(s)

Spec == Init /\ [][Next]_vars

\* Calls go on, locks lapse and the provider reports again and again;
\* nothing is assumed of users and administrators.
FairSpec ==
  /\ Spec
  /\ \A s \in Senders : WF_vars(SenderStep(s) /\ ~SenderDies(s))
  /\ \A j \in Jobs : /\ WF_vars(LockLapses(j))
                     /\ WF_vars(TransferEnds(j))
                     /\ WF_vars(ReportApplied(j))
                     /\ WF_vars(ForceConfirm(j))
-----------------------------------------------------------------------------
(* Every variable has its type.                                             *)
WithdrawTypeOK ==
  /\ withdrawal \in [Withdrawals -> WithdrawalStatus]
  /\ asking \subseteq Withdrawals
  /\ hold \in [Withdrawals -> {"none", "active", "released", "captured"}]
  /\ account \in [Users -> [balance : Nat, held : Nat]]
  /\ job \in [Jobs -> [status : PayoutStatus, canceled : BOOLEAN,
                       by : Senders \cup {NoSender}, lapsed : BOOLEAN]]
  /\ calls \subseteq Jobs
  /\ sender \in [Senders ->
       [job : Jobs \cup {NoPayout},
        step : {"idle", "locked", "sending", "accepted", "failing"}]]
  /\ transfer \in [Jobs -> {"none", "accepted", "made", "refused"}]

(* The hold of a request stands as long as the request is open, is captured *)
(* when it is paid and released when it is rejected or cancelled: user and  *)
(* administrator never settle it twice.                                     *)
HoldFollowsRequest ==
  \A w \in Withdrawals :
    hold[w] = CASE withdrawal[w] \in {"requested", "approved"} -> "active"
                [] withdrawal[w] \in {"rejected", "cancelled"} -> "released"
                [] withdrawal[w] = "paid" -> "captured"
                [] OTHER -> "none"

(* The account shows as held what the open requests add up to, as spent     *)
(* what was paid, and covers both, although the caps are read before the    *)
(* account is locked and calls of one user overlap.                         *)
RequestsWith(u, status) ==
  {w \in Withdrawals : UserOf[w] = u /\ hold[w] = status}
Total(ws) == SumFunctionOnSet(AmountOf, ws)

AccountAddsUp ==
  \A u \in Users :
    /\ account[u].held = Total(RequestsWith(u, "active"))
    /\ account[u].balance
         = OpeningBalance[u] - Total(RequestsWith(u, "captured"))
    /\ account[u].held <= account[u].balance

(* A user who could cancel gets the money back only: for a cancelled        *)
(* request no transfer is ever started, whatever jobs and calls are around. *)
CancelledIsNeverSent ==
  \A j \in Jobs :
    withdrawal[WithdrawalOf[j]] \in {"none", "requested", "cancelled"}
      => transfer[j] = "none"

(* Of the jobs of a request one at most is queued or sent: created, retried *)
(* and sent by calls that do not see each other.                            *)
OneActiveJob ==
  \A j, k \in Jobs :
    j # k /\ WithdrawalOf[j] = WithdrawalOf[k] => ~(Active(j) /\ Active(k))

(* A canceled job never shows as sent, also when it was canceled, or        *)
(* canceled and retried, while a call had it locked.                        *)
CanceledIsNotSent ==
  \A j \in Jobs : job[j].canceled => job[j].status # "sent"

(* A job shows as sent or confirmed only if the provider took a transfer    *)
(* for its request; force_confirm acts on a row read earlier.               *)
ShownSentWasTaken ==
  \A j \in Jobs :
    job[j].status \in {"sent", "confirmed"}
      => \E k \in Siblings(j) : transfer[k] # "none"

(* What the jobs of a request show is what was sent for it: one of them at  *)
(* most is under way, and none shows a payout that was called off or that   *)
(* the provider never took, though calls, senders and reports overtake each *)
(* other.                                                                   *)
JobsTellTheTruth == OneActiveJob /\ CanceledIsNotSent /\ ShownSentWasTaken

(* What the wallet promises for a withdrawal, see ReservedFunds.            *)
Stage ==
  [w \in Withdrawals |->
     CASE withdrawal[w] = "none" -> "none"
       [] withdrawal[w] \in {"requested", "approved"} -> "reserved"
       [] withdrawal[w] = "paid" -> "spent"
       [] OTHER -> "returned"]
Free == [u \in Users |-> Available(u)]

Funds == INSTANCE ReservedFunds WITH Claims <- Withdrawals, OwnerOf <- UserOf,
           Opening <- OpeningBalance, stage <- Stage, free <- Free

ImplementsReservation == Funds!Spec

(* A payout the provider has made settles its request: reports and          *)
(* force_confirm call system_withdraw_mark_paid, "service role only         *)
(* function" (payout-job-action).                                           *)
MadePayoutSettles ==
  \A j \in Jobs :
    transfer[j] = "made" ~> withdrawal[WithdrawalOf[j]] # "approved"
=============================================================================

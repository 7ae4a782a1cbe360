--------------------------- MODULE WithdrawProofs ---------------------------
(***************************************************************************)
(* Theorems about withdrawals and payout jobs, for any number of users,     *)
(* requests, jobs and concurrent senders.                                   *)
(***************************************************************************)
EXTENDS Withdraw, SumLemmas

\* An approved request never returns to where its user could cancel it.
Committed(w) == withdrawal[w] \in {"approved", "rejected", "paid"}
Taken(j) == \E k \in Siblings(j) : transfer[k] # "none"

\* A request whose call is under way has no row yet.
AskingInv == \A w \in asking : withdrawal[w] = "none"

\* Whatever exists of a job, its request has been approved.
CommittedInv ==
  \A j \in Jobs :
    job[j].status # "none" \/ j \in calls \/ transfer[j] # "none"
      => Committed(WithdrawalOf[j])

\* A busy sender has a job, and has its transfer when it says so.
SenderInv ==
  \A s \in Senders :
    sender[s].step # "idle" =>
      /\ sender[s].job \in Jobs
      /\ job[sender[s].job].status # "none"
      /\ sender[s].step = "accepted" => transfer[sender[s].job] # "none"

\* Nobody holds the lock of a canceled job.
CanceledInv ==
  \A j \in Jobs :
    job[j].canceled => job[j].by = NoSender /\ job[j].status # "sent"

\* Whoever is about to confirm a job read that it had been sent.
TakenInv ==
  \A j \in Jobs :
    job[j].status \in {"sent", "confirmed"}
      \/ (j \in calls /\ job[j].status # "none")
      => Taken(j)

PayoutInv ==
  /\ CommittedInv
  /\ SenderInv
  /\ CanceledInv
  /\ TakenInv
  /\ OneActiveJob

WithdrawInv ==
  /\ WithdrawTypeOK
  /\ HoldFollowsRequest
  /\ AskingInv
  /\ PayoutInv
-----------------------------------------------------------------------------
LEMMA HeldWithoutType ==
  ASSUME WithdrawTypeOK, NEW w \in Withdrawals
  PROVE  UserOf[w] \in Users /\ AmountOf[w] \in Nat /\ HeldWithout(w) \in Nat
  BY WithdrawAssumption DEF HeldWithout, WithdrawTypeOK

LEMMA SystemMarkPaidRefuses ==
  ASSUME NEW w, SystemMarkPaid(w)
  PROVE  UNCHANGED walletVars
  BY DEF SystemMarkPaid, CurrentUser

LEMMA WithdrawInit == Init => WithdrawInv
<1> SUFFICES ASSUME Init PROVE WithdrawInv
  OBVIOUS
<1>1. WithdrawTypeOK
  BY WithdrawAssumption
  DEF Init, WithdrawTypeOK, WithdrawalStatus, PayoutStatus, NoJobRow, IdleSender
<1>2. HoldFollowsRequest
  BY DEF Init, HoldFollowsRequest
<1>3. AskingInv /\ PayoutInv
  BY DEF Init, AskingInv, PayoutInv, CommittedInv, SenderInv, CanceledInv, TakenInv,
         OneActiveJob, Active, NoJobRow, IdleSender
<1> QED
  BY <1>1, <1>2, <1>3 DEF WithdrawInv
-----------------------------------------------------------------------------
(* The request: what it does to its own row, hold and account.              *)

LEMMA GiveBackSettles ==
  ASSUME WithdrawTypeOK, HoldFollowsRequest, NEW w \in Withdrawals,
         NEW to \in {"rejected", "cancelled"}, GiveBack(w, to)
  PROVE  WithdrawTypeOK' /\ HoldFollowsRequest'
<1>1. WithdrawTypeOK'
  BY HeldWithoutType DEF GiveBack, WithdrawTypeOK, WithdrawalStatus, payoutVars
<1>2. HoldFollowsRequest'
  BY DEF GiveBack, WithdrawTypeOK, HoldFollowsRequest
<1> QED
  BY <1>1, <1>2

LEMMA RequestKeepsWallet ==
  ASSUME WithdrawTypeOK, HoldFollowsRequest, NEW w \in Withdrawals, RequestStep(w)
  PROVE  WithdrawTypeOK' /\ HoldFollowsRequest'
<1> USE DEF payoutVars
<1>1. CASE ReadCaps(w)
  BY <1>1 DEF ReadCaps, WithdrawTypeOK, HoldFollowsRequest
<1>2. CASE PlaceWithdrawal(w)
  <2>1. UserOf[w] \in Users /\ AmountOf[w] \in Nat
    BY HeldWithoutType
  <2>2. WithdrawTypeOK'
    BY <1>2, <2>1 DEF PlaceWithdrawal, WithdrawTypeOK, WithdrawalStatus
  <2>3. HoldFollowsRequest'
    BY <1>2 DEF PlaceWithdrawal, WithdrawTypeOK, HoldFollowsRequest
  <2> QED
    BY <2>2, <2>3
<1>3. CASE CancelWithdrawal(w)
  BY <1>3, GiveBackSettles DEF CancelWithdrawal
<1>4. CASE ApproveWithdrawal(w)
  BY <1>4 DEF ApproveWithdrawal, WithdrawTypeOK, WithdrawalStatus, HoldFollowsRequest
<1>5. CASE RejectWithdrawal(w)
  BY <1>5, GiveBackSettles DEF RejectWithdrawal
<1>6. CASE MarkPaid(w)
  <2>1. /\ UserOf[w] \in Users /\ AmountOf[w] \in Nat /\ HeldWithout(w) \in Nat
        /\ account[UserOf[w]].balance - AmountOf[w] \in Nat
    BY <1>6, HeldWithoutType DEF MarkPaid, WithdrawTypeOK
  <2>2. account' \in [Users -> [balance : Nat, held : Nat]]
    BY <1>6, <2>1 DEF MarkPaid, PayOut, WithdrawTypeOK
  <2>3. WithdrawTypeOK'
    BY <1>6, <2>2 DEF MarkPaid, PayOut, WithdrawTypeOK, WithdrawalStatus
  <2>4. HoldFollowsRequest'
    BY <1>6 DEF MarkPaid, PayOut, WithdrawTypeOK, HoldFollowsRequest
  <2> QED
    BY <2>3, <2>4
<1> QED
  BY <1>1, <1>2, <1>3, <1>4, <1>5, <1>6 DEF RequestStep

LEMMA RequestStaysCommitted ==
  ASSUME WithdrawTypeOK, AskingInv, NEW w \in Withdrawals, RequestStep(w)
  PROVE  /\ UNCHANGED payoutVars
         /\ AskingInv'
         /\ \A v \in Withdrawals : Committed(v) => Committed(v)'
<1> USE DEF Committed, AskingInv, WithdrawTypeOK
<1>1. CASE ReadCaps(w)
  BY <1>1 DEF ReadCaps
<1>2. CASE PlaceWithdrawal(w)
  BY <1>2 DEF PlaceWithdrawal
<1>3. CASE CancelWithdrawal(w)
  BY <1>3 DEF CancelWithdrawal, GiveBack
<1>4. CASE ApproveWithdrawal(w)
  BY <1>4 DEF ApproveWithdrawal
<1>5. CASE RejectWithdrawal(w)
  BY <1>5 DEF RejectWithdrawal, GiveBack
<1>6. CASE MarkPaid(w)
  BY <1>6 DEF MarkPaid, PayOut
<1> QED
  BY <1>1, <1>2, <1>3, <1>4, <1>5, <1>6 DEF RequestStep

LEMMA RequestKeepsPayouts ==
  ASSUME WithdrawTypeOK, PayoutInv, UNCHANGED payoutVars,
         \A v \in Withdrawals : Committed(v) => Committed(v)'
  PROVE  PayoutInv'
<1> USE DEF payoutVars, PayoutInv
<1>1. CommittedInv'
  BY WithdrawAssumption DEF CommittedInv
<1>2. SenderInv' /\ CanceledInv' /\ OneActiveJob'
  BY DEF SenderInv, CanceledInv, OneActiveJob, Active
<1>3. TakenInv'
  BY DEF TakenInv, Taken
<1> QED
  BY <1>1, <1>2, <1>3
-----------------------------------------------------------------------------
(* The jobs: no call of theirs settles a request.                           *)

\* What a step that leaves the requests alone must show of its own variables.
LEMMA JobsKeepWallet ==
  ASSUME WithdrawTypeOK, HoldFollowsRequest, AskingInv, UNCHANGED walletVars,
         job' \in [Jobs -> [status : PayoutStatus, canceled : BOOLEAN,
                            by : Senders \cup {NoSender}, lapsed : BOOLEAN]],
         calls' \subseteq Jobs,
         sender' \in [Senders ->
           [job : Jobs \cup {NoPayout},
            step : {"idle", "locked", "sending", "accepted", "failing"}]],
         transfer' \in [Jobs -> {"none", "accepted", "made", "refused"}]
  PROVE  /\ WithdrawTypeOK' /\ HoldFollowsRequest' /\ AskingInv'
         /\ \A w : Committed(w)' = Committed(w)
  BY DEF WithdrawTypeOK, HoldFollowsRequest, AskingInv, walletVars, Committed

LEMMA CreateReadsInv ==
  ASSUME WithdrawInv, NEW j \in Jobs, CreateReads(j)
  PROVE  WithdrawInv'
<1> USE DEF WithdrawInv, PayoutInv, CreateReads
<1>1. WithdrawTypeOK' /\ HoldFollowsRequest' /\ AskingInv'
      /\ \A w : Committed(w)' = Committed(w)
  BY JobsKeepWallet DEF WithdrawTypeOK, PayoutStatus, Committed
<1>2. CommittedInv'
  BY <1>1 DEF CommittedInv, WithdrawTypeOK, Committed
<1>3. SenderInv'
  BY DEF SenderInv, WithdrawTypeOK, Committed
<1>4. CanceledInv'
  BY DEF CanceledInv, WithdrawTypeOK, Committed
<1>5. TakenInv'
  BY DEF TakenInv, Taken, WithdrawTypeOK, Committed
<1>6. OneActiveJob'
  BY DEF OneActiveJob, Active, SlotFree, Siblings, WithdrawTypeOK, Committed
<1> QED
  BY <1>1, <1>2, <1>3, <1>4, <1>5, <1>6

LEMMA InsertJobInv ==
  ASSUME WithdrawInv, NEW j \in Jobs, InsertJob(j)
  PROVE  WithdrawInv'
<1> USE DEF WithdrawInv, PayoutInv, InsertJob
<1>1. WithdrawTypeOK' /\ HoldFollowsRequest' /\ AskingInv'
      /\ \A w : Committed(w)' = Committed(w)
  BY JobsKeepWallet DEF WithdrawTypeOK, PayoutStatus
<1>2. CommittedInv'
  BY <1>1 DEF CommittedInv, WithdrawTypeOK
<1>3. SenderInv'
  BY DEF SenderInv, WithdrawTypeOK
<1>4. CanceledInv'
  BY DEF CanceledInv, WithdrawTypeOK
<1>5. TakenInv'
  BY DEF TakenInv, Taken, WithdrawTypeOK
<1>6. OneActiveJob'
  BY DEF OneActiveJob, Active, SlotFree, Siblings, WithdrawTypeOK
<1> QED
  BY <1>1, <1>2, <1>3, <1>4, <1>5, <1>6

LEMMA CancelJobInv ==
  ASSUME WithdrawInv, NEW j \in Jobs, CancelJob(j)
  PROVE  WithdrawInv'
<1> USE DEF WithdrawInv, PayoutInv, CancelJob
<1>1. WithdrawTypeOK' /\ HoldFollowsRequest' /\ AskingInv'
      /\ \A w : Committed(w)' = Committed(w)
  BY JobsKeepWallet DEF WithdrawTypeOK, PayoutStatus, Unlocked
<1>2. CommittedInv'
  BY <1>1 DEF CommittedInv, WithdrawTypeOK, Unlocked
<1>3. SenderInv'
  BY DEF SenderInv, WithdrawTypeOK, Unlocked
<1>4. CanceledInv'
  BY DEF CanceledInv, WithdrawTypeOK, Unlocked
<1>5. TakenInv'
  BY DEF TakenInv, Taken, WithdrawTypeOK, Unlocked
<1>6. OneActiveJob'
  BY DEF OneActiveJob, Active, SlotFree, Siblings, WithdrawTypeOK, Unlocked
<1> QED
  BY <1>1, <1>2, <1>3, <1>4, <1>5, <1>6

LEMMA RetryJobInv ==
  ASSUME WithdrawInv, NEW j \in Jobs, RetryJob(j)
  PROVE  WithdrawInv'
<1> USE DEF WithdrawInv, PayoutInv, RetryJob
<1>1. WithdrawTypeOK' /\ HoldFollowsRequest' /\ AskingInv'
      /\ \A w : Committed(w)' = Committed(w)
  BY JobsKeepWallet DEF WithdrawTypeOK, PayoutStatus, Unlocked
<1>2. CommittedInv'
  BY <1>1 DEF CommittedInv, WithdrawTypeOK, Unlocked
<1>3. SenderInv'
  BY DEF SenderInv, WithdrawTypeOK, Unlocked
<1>4. CanceledInv'
  BY DEF CanceledInv, WithdrawTypeOK, Unlocked
<1>5. TakenInv'
  BY DEF TakenInv, Taken, WithdrawTypeOK, Unlocked
<1>6. OneActiveJob'
  BY DEF OneActiveJob, Active, SlotFree, Siblings, WithdrawTypeOK, Unlocked
<1> QED
  BY <1>1, <1>2, <1>3, <1>4, <1>5, <1>6

LEMMA ForceReadsInv ==
  ASSUME WithdrawInv, NEW j \in Jobs, ForceReads(j)
  PROVE  WithdrawInv'
<1> USE DEF WithdrawInv, PayoutInv, ForceReads
<1>1. WithdrawTypeOK' /\ HoldFollowsRequest' /\ AskingInv'
      /\ \A w : Committed(w)' = Committed(w)
  BY JobsKeepWallet DEF WithdrawTypeOK, PayoutStatus
<1>2. CommittedInv'
  BY <1>1 DEF CommittedInv, WithdrawTypeOK
<1>3. SenderInv'
  BY DEF SenderInv, WithdrawTypeOK
<1>4. CanceledInv'
  BY DEF CanceledInv, WithdrawTypeOK
<1>5. TakenInv'
  BY DEF TakenInv, Taken, WithdrawTypeOK
<1>6. OneActiveJob'
  BY DEF OneActiveJob, Active, SlotFree, Siblings, WithdrawTypeOK
<1> QED
  BY <1>1, <1>2, <1>3, <1>4, <1>5, <1>6

LEMMA ForceConfirmInv ==
  ASSUME WithdrawInv, NEW j \in Jobs, ForceConfirm(j)
  PROVE  WithdrawInv'
<1> USE DEF WithdrawInv, PayoutInv, ForceConfirm
<1>1. WithdrawTypeOK' /\ HoldFollowsRequest' /\ AskingInv'
      /\ \A w : Committed(w)' = Committed(w)
  BY JobsKeepWallet, SystemMarkPaidRefuses DEF WithdrawTypeOK, PayoutStatus
<1>2. CommittedInv'
  BY <1>1 DEF CommittedInv, WithdrawTypeOK
<1>3. SenderInv'
  BY DEF SenderInv, WithdrawTypeOK
<1>4. CanceledInv'
  BY DEF CanceledInv, WithdrawTypeOK
<1>5. TakenInv'
  BY DEF TakenInv, Taken, WithdrawTypeOK
<1>6. OneActiveJob'
  BY DEF OneActiveJob, Active, SlotFree, Siblings, WithdrawTypeOK
<1> QED
  BY <1>1, <1>2, <1>3, <1>4, <1>5, <1>6

LEMMA CallDiesInv ==
  ASSUME WithdrawInv, NEW j \in Jobs, CallDies(j)
  PROVE  WithdrawInv'
<1> USE DEF WithdrawInv, PayoutInv, CallDies
<1>1. WithdrawTypeOK' /\ HoldFollowsRequest' /\ AskingInv'
      /\ \A w : Committed(w)' = Committed(w)
  BY JobsKeepWallet DEF WithdrawTypeOK, PayoutStatus
<1>2. CommittedInv'
  BY <1>1 DEF CommittedInv, WithdrawTypeOK
<1>3. SenderInv'
  BY DEF SenderInv, WithdrawTypeOK
<1>4. CanceledInv'
  BY DEF CanceledInv, WithdrawTypeOK
<1>5. TakenInv'
  BY DEF TakenInv, Taken, WithdrawTypeOK
<1>6. OneActiveJob'
  BY DEF OneActiveJob, Active, SlotFree, Siblings, WithdrawTypeOK
<1> QED
  BY <1>1, <1>2, <1>3, <1>4, <1>5, <1>6

LEMMA LockLapsesInv ==
  ASSUME WithdrawInv, NEW j \in Jobs, LockLapses(j)
  PROVE  WithdrawInv'
<1> USE DEF WithdrawInv, PayoutInv, LockLapses
<1>1. WithdrawTypeOK' /\ HoldFollowsRequest' /\ AskingInv'
      /\ \A w : Committed(w)' = Committed(w)
  BY JobsKeepWallet DEF WithdrawTypeOK, PayoutStatus
<1>2. CommittedInv'
  BY <1>1 DEF CommittedInv, WithdrawTypeOK
<1>3. SenderInv'
  BY DEF SenderInv, WithdrawTypeOK
<1>4. CanceledInv'
  BY DEF CanceledInv, WithdrawTypeOK
<1>5. TakenInv'
  BY DEF TakenInv, Taken, WithdrawTypeOK
<1>6. OneActiveJob'
  BY DEF OneActiveJob, Active, SlotFree, Siblings, WithdrawTypeOK
<1> QED
  BY <1>1, <1>2, <1>3, <1>4, <1>5, <1>6

LEMMA TransferEndsInv ==
  ASSUME WithdrawInv, NEW j \in Jobs, TransferEnds(j)
  PROVE  WithdrawInv'
<1> USE DEF WithdrawInv, PayoutInv, TransferEnds
<1>1. WithdrawTypeOK' /\ HoldFollowsRequest' /\ AskingInv'
      /\ \A w : Committed(w)' = Committed(w)
  BY JobsKeepWallet DEF WithdrawTypeOK, PayoutStatus
<1>2. CommittedInv'
  BY <1>1 DEF CommittedInv, WithdrawTypeOK
<1>3. SenderInv'
  BY DEF SenderInv, WithdrawTypeOK
<1>4. CanceledInv'
  BY DEF CanceledInv, WithdrawTypeOK
<1>5. TakenInv'
  BY DEF TakenInv, Taken, WithdrawTypeOK
<1>6. OneActiveJob'
  BY DEF OneActiveJob, Active, SlotFree, Siblings, WithdrawTypeOK
<1> QED
  BY <1>1, <1>2, <1>3, <1>4, <1>5, <1>6

LEMMA ReportAppliedInv ==
  ASSUME WithdrawInv, NEW j \in Jobs, ReportApplied(j)
  PROVE  WithdrawInv'
<1> USE DEF WithdrawInv, PayoutInv, ReportApplied
<1>1. WithdrawTypeOK' /\ HoldFollowsRequest' /\ AskingInv'
      /\ \A w : Committed(w)' = Committed(w)
  BY JobsKeepWallet, SystemMarkPaidRefuses DEF WithdrawTypeOK, PayoutStatus
<1>2. CommittedInv'
  BY <1>1 DEF CommittedInv, WithdrawTypeOK
<1>3. SenderInv'
  BY DEF SenderInv, WithdrawTypeOK
<1>4. CanceledInv'
  BY DEF CanceledInv, WithdrawTypeOK
<1>5. TakenInv'
  <2>1. \A k \in Siblings(j) : j \in Siblings(k) /\ transfer[j] # "none"
    BY DEF Siblings
  <2>2. \A k \in Jobs :
          /\ job'[k].status # "none" => job[k].status # "none"
          /\ job'[k].status \in {"sent", "confirmed"} /\ k \notin Siblings(j)
               => job'[k].status = job[k].status
          /\ job'[k].status = "sent" => job[k].status = "sent"
    BY DEF WithdrawTypeOK
  <2>3. \A k \in Jobs : Taken(k)' = Taken(k)
    BY DEF Taken
  <2> QED
    BY <2>1, <2>2, <2>3 DEF TakenInv, Taken, WithdrawTypeOK
<1>6. OneActiveJob'
  BY DEF OneActiveJob, Active, SlotFree, Siblings, WithdrawTypeOK
<1> QED
  BY <1>1, <1>2, <1>3, <1>4, <1>5, <1>6
-----------------------------------------------------------------------------
(* The senders.                                                             *)

JobRows == [status : PayoutStatus, canceled : BOOLEAN,
            by : Senders \cup {NoSender}, lapsed : BOOLEAN]

LEMMA UnlockedRow ==
  ASSUME NEW row \in JobRows, NEW to \in PayoutStatus
  PROVE  /\ Unlocked(row, to) \in JobRows
         /\ Unlocked(row, to).status = to /\ Unlocked(row, to).by = NoSender
         /\ Unlocked(row, to).canceled = row.canceled
  BY DEF JobRows, Unlocked

LEMMA LockJobInv ==
  ASSUME WithdrawInv, NEW s \in Senders, NEW j \in Jobs, LockJob(s, j)
  PROVE  WithdrawInv'
<1> USE DEF WithdrawInv, PayoutInv
<1>1. /\ UNCHANGED walletVars /\ calls' = calls /\ transfer' = transfer
      /\ job' = [job EXCEPT ![j].by = s, ![j].lapsed = FALSE]
      /\ job[j].status \in {"queued", "failed"} /\ ~job[j].canceled
      /\ sender' = [sender EXCEPT ![s] = [job |-> j, step |-> "locked"]]
  BY DEF LockJob
<1>2. /\ job' \in [Jobs -> [status : PayoutStatus, canceled : BOOLEAN,
                             by : Senders \cup {NoSender}, lapsed : BOOLEAN]]
      /\ \A k \in Jobs : /\ job'[k].status = job[k].status
                         /\ job'[k].canceled = job[k].canceled
                         /\ job[k].canceled => job'[k].by = job[k].by
  <2> DEFINE row == [job[j] EXCEPT !.by = s, !.lapsed = FALSE]
  <2>1. job \in [Jobs -> JobRows]
    BY DEF WithdrawTypeOK, JobRows
  <2>2. /\ row \in JobRows /\ row.status = job[j].status
        /\ row.canceled = job[j].canceled
    BY <2>1 DEF JobRows
  <2>3. job' = [job EXCEPT ![j] = row]
    BY <1>1, <2>1 DEF JobRows
  <2> QED
    BY <1>1, <2>1, <2>2, <2>3 DEF JobRows
<1>3. sender' \in [Senders ->
        [job : Jobs \cup {NoPayout},
         step : {"idle", "locked", "sending", "accepted", "failing"}]]
  BY <1>1 DEF WithdrawTypeOK
<1>4. WithdrawTypeOK' /\ HoldFollowsRequest' /\ AskingInv'
      /\ \A w : Committed(w)' = Committed(w)
  BY <1>1, <1>2, <1>3, JobsKeepWallet DEF WithdrawTypeOK
<1>5. CommittedInv'
  BY <1>1, <1>2, <1>4 DEF CommittedInv
<1>6. SenderInv'
  BY <1>1, <1>2 DEF SenderInv, WithdrawTypeOK
<1>7. CanceledInv' /\ OneActiveJob'
  BY <1>1, <1>2 DEF CanceledInv, OneActiveJob, Active
<1>8. TakenInv'
  BY <1>1, <1>2 DEF TakenInv, Taken
<1> QED
  BY <1>4, <1>5, <1>6, <1>7, <1>8

LEMMA ReadRequestInv ==
  ASSUME WithdrawInv, NEW s \in Senders, ReadRequest(s)
  PROVE  WithdrawInv'
<1> USE DEF WithdrawInv, PayoutInv, ReadRequest
<1>1. WithdrawTypeOK' /\ HoldFollowsRequest' /\ AskingInv'
      /\ \A w : Committed(w)' = Committed(w)
  BY JobsKeepWallet DEF WithdrawTypeOK, PayoutStatus, At, Goes
<1>2. CommittedInv'
  BY <1>1 DEF CommittedInv, WithdrawTypeOK, At, Goes
<1>3. SenderInv'
  BY DEF SenderInv, WithdrawTypeOK, At, Goes
<1>4. CanceledInv'
  BY DEF CanceledInv, WithdrawTypeOK, At, Goes
<1>5. TakenInv'
  BY DEF TakenInv, Taken, WithdrawTypeOK, At, Goes
<1>6. OneActiveJob'
  BY DEF OneActiveJob, Active, SlotFree, Siblings, WithdrawTypeOK, At, Goes
<1> QED
  BY <1>1, <1>2, <1>3, <1>4, <1>5, <1>6

LEMMA SendPayoutInv ==
  ASSUME WithdrawInv, NEW s \in Senders, SendPayout(s)
  PROVE  WithdrawInv'
<1> USE DEF WithdrawInv, PayoutInv
<1> DEFINE j == sender[s].job
<1>1. UNCHANGED walletVars /\ job' = job /\ calls' = calls
  BY DEF SendPayout
<1>2. j \in Jobs /\ job[j].status # "none"
  BY DEF SendPayout, At, SenderInv
<1>3. /\ transfer' \in [Jobs -> {"none", "accepted", "made", "refused"}]
      /\ \A k \in Jobs : /\ transfer[k] # "none" => transfer'[k] # "none"
                         /\ k # j => transfer'[k] = transfer[k]
  BY <1>2 DEF SendPayout, WithdrawTypeOK
<1>4. \/ /\ sender' = [sender EXCEPT ![s].step = "accepted"]
         /\ transfer'[j] # "none"
      \/ sender' = [sender EXCEPT ![s].step = "failing"]
  BY <1>2 DEF SendPayout, Goes, WithdrawTypeOK
<1>5. sender' \in [Senders ->
        [job : Jobs \cup {NoPayout},
         step : {"idle", "locked", "sending", "accepted", "failing"}]]
  BY <1>4 DEF WithdrawTypeOK
<1>6. WithdrawTypeOK' /\ HoldFollowsRequest' /\ AskingInv'
      /\ \A w : Committed(w)' = Committed(w)
  BY <1>1, <1>3, <1>5, JobsKeepWallet DEF WithdrawTypeOK
<1>7. CommittedInv'
  BY <1>1, <1>2, <1>3, <1>6 DEF CommittedInv
<1>8. SenderInv'
  BY <1>1, <1>2, <1>3, <1>4 DEF SenderInv, WithdrawTypeOK
<1>9. CanceledInv' /\ OneActiveJob'
  BY <1>1 DEF CanceledInv, OneActiveJob, Active
<1>10. TakenInv'
  <2>1. \A k \in Jobs : Taken(k) => Taken(k)'
    BY <1>3 DEF Taken, Siblings
  <2> QED
    BY <1>1, <2>1 DEF TakenInv
<1> QED
  BY <1>6, <1>7, <1>8, <1>9, <1>10

LEMMA RecordSentInv ==
  ASSUME WithdrawInv, NEW s \in Senders, RecordSent(s)
  PROVE  WithdrawInv'
<1> USE DEF WithdrawInv, PayoutInv
<1> DEFINE j == sender[s].job
<1>1. UNCHANGED walletVars /\ calls' = calls /\ transfer' = transfer
  BY DEF RecordSent
<1>2. j \in Jobs /\ job[j].status # "none" /\ transfer[j] # "none"
  BY DEF RecordSent, At, SenderInv
<1>3. CASE Owns(s) /\ SlotFree(j)
  <2>1. /\ job' = [job EXCEPT ![j] = Unlocked(@, "sent")]
        /\ sender' = [sender EXCEPT ![s] = IdleSender]
    BY <1>3 DEF RecordSent, Ends
  <2>2. ~job[j].canceled
    BY <1>2, <1>3, WithdrawAssumption DEF Owns, CanceledInv
  <2>3. /\ job' \in [Jobs -> [status : PayoutStatus, canceled : BOOLEAN,
                               by : Senders \cup {NoSender}, lapsed : BOOLEAN]]
        /\ job'[j].status = "sent" /\ job'[j].canceled = FALSE
        /\ \A k \in Jobs : k # j => job'[k] = job[k]
    <3>1. job \in [Jobs -> JobRows] /\ "sent" \in PayoutStatus
      BY DEF WithdrawTypeOK, JobRows, PayoutStatus
    <3> QED
      BY <1>2, <2>1, <2>2, <3>1, UnlockedRow DEF JobRows
  <2>4. sender' \in [Senders ->
          [job : Jobs \cup {NoPayout},
           step : {"idle", "locked", "sending", "accepted", "failing"}]]
    BY <2>1 DEF WithdrawTypeOK, IdleSender
  <2>5. WithdrawTypeOK' /\ HoldFollowsRequest' /\ AskingInv'
        /\ \A w : Committed(w)' = Committed(w)
    BY <1>1, <2>3, <2>4, JobsKeepWallet DEF WithdrawTypeOK
  <2>6. CommittedInv'
    BY <1>1, <1>2, <2>3, <2>5 DEF CommittedInv
  <2>7. SenderInv'
    BY <1>1, <2>1, <2>3 DEF SenderInv, WithdrawTypeOK, IdleSender
  <2>8. CanceledInv'
    BY <2>3 DEF CanceledInv
  <2>9. TakenInv'
    BY <1>1, <1>2, <2>3 DEF TakenInv, Taken, Siblings
  <2>10. OneActiveJob'
    BY <1>2, <1>3, <2>3 DEF OneActiveJob, Active, SlotFree, Siblings
  <2> QED
    BY <2>5, <2>6, <2>7, <2>8, <2>9, <2>10
<1>4. CASE ~(Owns(s) /\ SlotFree(j))
  <2>1. job' = job /\ sender' = [sender EXCEPT ![s].step = "failing"]
    BY <1>4 DEF RecordSent, Goes
  <2>2. sender' \in [Senders ->
          [job : Jobs \cup {NoPayout},
           step : {"idle", "locked", "sending", "accepted", "failing"}]]
    BY <2>1 DEF WithdrawTypeOK
  <2>3. WithdrawTypeOK' /\ HoldFollowsRequest' /\ AskingInv'
        /\ \A w : Committed(w)' = Committed(w)
    BY <1>1, <2>1, <2>2, JobsKeepWallet DEF WithdrawTypeOK
  <2>4. CommittedInv' /\ CanceledInv' /\ OneActiveJob'
    BY <1>1, <2>1, <2>3 DEF CommittedInv, CanceledInv, OneActiveJob, Active
  <2>5. SenderInv'
    BY <1>1, <1>2, <2>1 DEF SenderInv, WithdrawTypeOK
  <2>6. TakenInv'
    BY <1>1, <2>1 DEF TakenInv, Taken
  <2> QED
    BY <2>3, <2>4, <2>5, <2>6
<1> QED
  BY <1>3, <1>4

LEMMA RecordFailedInv ==
  ASSUME WithdrawInv, NEW s \in Senders, RecordFailed(s)
  PROVE  WithdrawInv'
<1> USE DEF WithdrawInv, PayoutInv
<1> DEFINE j == sender[s].job
<1>1. /\ UNCHANGED walletVars /\ calls' = calls /\ transfer' = transfer
      /\ sender' = [sender EXCEPT ![s] = IdleSender]
  BY DEF RecordFailed, Ends
<1>2. j \in Jobs /\ job[j].status # "none"
  BY DEF RecordFailed, At, SenderInv
<1>3. /\ job' \in [Jobs -> [status : PayoutStatus, canceled : BOOLEAN,
                             by : Senders \cup {NoSender}, lapsed : BOOLEAN]]
      /\ \A k \in Jobs :
           /\ job'[k].status \in {job[k].status, "failed"}
           /\ job[k].status = "none" => job'[k].status = "none"
           /\ job'[k].canceled = job[k].canceled
           /\ job[k].by = NoSender => job'[k].by = NoSender
  <2>1. job \in [Jobs -> JobRows] /\ "failed" \in PayoutStatus
    BY DEF WithdrawTypeOK, JobRows, PayoutStatus
  <2>2. job' = job \/ job' = [job EXCEPT ![j] = Unlocked(@, "failed")]
    BY DEF RecordFailed
  <2> QED
    BY <1>2, <2>1, <2>2, UnlockedRow DEF JobRows
<1>4. sender' \in [Senders ->
        [job : Jobs \cup {NoPayout},
         step : {"idle", "locked", "sending", "accepted", "failing"}]]
  BY <1>1 DEF WithdrawTypeOK, IdleSender
<1>5. WithdrawTypeOK' /\ HoldFollowsRequest' /\ AskingInv'
      /\ \A w : Committed(w)' = Committed(w)
  BY <1>1, <1>3, <1>4, JobsKeepWallet DEF WithdrawTypeOK
<1>6. CommittedInv'
  BY <1>1, <1>3, <1>5 DEF CommittedInv
<1>7. SenderInv'
  BY <1>1, <1>3 DEF SenderInv, WithdrawTypeOK, IdleSender
<1>8. CanceledInv' /\ OneActiveJob'
  BY <1>3 DEF CanceledInv, OneActiveJob, Active
<1>9. TakenInv'
  <2>1. \A k \in Jobs : Taken(k)' = Taken(k)
    BY <1>1 DEF Taken
  <2> QED
    BY <1>1, <1>3, <2>1 DEF TakenInv
<1> QED
  BY <1>5, <1>6, <1>7, <1>8, <1>9

LEMMA SenderDiesInv ==
  ASSUME WithdrawInv, NEW s \in Senders, SenderDies(s)
  PROVE  WithdrawInv'
<1> USE DEF WithdrawInv, PayoutInv, SenderDies
<1>1. WithdrawTypeOK' /\ HoldFollowsRequest' /\ AskingInv'
      /\ \A w : Committed(w)' = Committed(w)
  BY JobsKeepWallet DEF WithdrawTypeOK, PayoutStatus, At, Ends, IdleSender
<1>2. CommittedInv'
  BY <1>1 DEF CommittedInv, WithdrawTypeOK, At, Ends, IdleSender
<1>3. SenderInv'
  BY DEF SenderInv, WithdrawTypeOK, At, Ends, IdleSender
<1>4. CanceledInv'
  BY DEF CanceledInv, WithdrawTypeOK, At, Ends, IdleSender
<1>5. TakenInv'
  BY DEF TakenInv, Taken, WithdrawTypeOK, At, Ends, IdleSender
<1>6. OneActiveJob'
  BY DEF OneActiveJob, Active, SlotFree, Siblings, WithdrawTypeOK, At, Ends, IdleSender
<1> QED
  BY <1>1, <1>2, <1>3, <1>4, <1>5, <1>6
-----------------------------------------------------------------------------
(* The theorems.                                                            *)

LEMMA WithdrawStep == WithdrawInv /\ [Next]_vars => WithdrawInv'
<1> SUFFICES ASSUME WithdrawInv, [Next]_vars PROVE WithdrawInv'
  OBVIOUS
<1>1. ASSUME NEW w \in Withdrawals, RequestStep(w) PROVE WithdrawInv'
  BY <1>1, RequestKeepsWallet, RequestStaysCommitted, RequestKeepsPayouts
  DEF WithdrawInv
<1>2. ASSUME NEW j \in Jobs, JobStep(j) PROVE WithdrawInv'
  BY <1>2, CreateReadsInv, InsertJobInv, CancelJobInv, RetryJobInv,
     ForceReadsInv, ForceConfirmInv, CallDiesInv, LockLapsesInv,
     TransferEndsInv, ReportAppliedInv
  DEF JobStep
<1>3. ASSUME NEW s \in Senders, SenderStep(s) PROVE WithdrawInv'
  BY <1>3, LockJobInv, ReadRequestInv, SendPayoutInv, RecordSentInv,
     RecordFailedInv, SenderDiesInv
  DEF SenderStep
<1>4. CASE UNCHANGED vars
  <2>1. WithdrawTypeOK' /\ HoldFollowsRequest' /\ AskingInv' /\ OneActiveJob'
        /\ CanceledInv'
    BY <1>4 DEF WithdrawInv, PayoutInv, vars, walletVars, payoutVars,
                WithdrawTypeOK, HoldFollowsRequest, AskingInv, OneActiveJob,
                Active, CanceledInv
  <2>2. CommittedInv' /\ SenderInv' /\ TakenInv'
    BY <1>4 DEF WithdrawInv, PayoutInv, vars, walletVars, payoutVars,
                CommittedInv, Committed, SenderInv, TakenInv, Taken
  <2> QED
    BY <2>1, <2>2 DEF WithdrawInv, PayoutInv
<1> QED
  BY <1>1, <1>2, <1>3, <1>4 DEF Next

THEOREM WithdrawInvariant == Spec => []WithdrawInv
  BY WithdrawInit, WithdrawStep, PTL DEF Spec

(* Every variable keeps its type; no balance and no held amount becomes     *)
(* negative.                                                                *)
THEOREM WithdrawTypeOKHolds == Spec => []WithdrawTypeOK
<1>1. WithdrawInv => WithdrawTypeOK
  BY DEF WithdrawInv
<1> QED
  BY <1>1, WithdrawInvariant, PTL

(* User and administrators settle the hold of a request once, in whatever   *)
(* order their calls arrive.                                                *)
THEOREM HoldFollowsRequestHolds == Spec => []HoldFollowsRequest
<1>1. WithdrawInv => HoldFollowsRequest
  BY DEF WithdrawInv
<1> QED
  BY <1>1, WithdrawInvariant, PTL

(* No transfer is started for a request its user has cancelled or still     *)
(* could cancel.                                                            *)
THEOREM CancelledIsNeverSentHolds == Spec => []CancelledIsNeverSent
<1>1. WithdrawInv => CancelledIsNeverSent
  BY DEF WithdrawInv, PayoutInv, CommittedInv, Committed, CancelledIsNeverSent
<1> QED
  BY <1>1, WithdrawInvariant, PTL

(* For any number of jobs and calls about them: a request never has two     *)
(* jobs queued or sent, a canceled job never shows as sent, and what shows  *)
(* as sent or confirmed was taken by the provider.                          *)
THEOREM JobsTellTheTruthHolds == Spec => []JobsTellTheTruth
<1>1. WithdrawInv => OneActiveJob
  BY DEF WithdrawInv, PayoutInv
<1>2. WithdrawInv => CanceledIsNotSent
  BY DEF WithdrawInv, PayoutInv, CanceledInv, CanceledIsNotSent
<1>3. WithdrawInv => ShownSentWasTaken
  BY DEF WithdrawInv, PayoutInv, TakenInv, Taken, ShownSentWasTaken
<1>4. WithdrawInv => JobsTellTheTruth
  BY <1>1, <1>2, <1>3 DEF JobsTellTheTruth
<1> QED
  BY <1>4, WithdrawInvariant, PTL
-----------------------------------------------------------------------------
(* The account: what is held and what is spent are sums over the holds.     *)

\* Holds are taken one by one, so there are finitely many at any time.
AccountInv ==
  /\ IsFiniteSet({w \in Withdrawals : hold[w] # "none"})
  /\ AccountAddsUp

(* The hold of one request moves: it leaves one sum and joins another.      *)
LEMMA HoldMoves ==
  ASSUME WithdrawTypeOK, IsFiniteSet({v \in Withdrawals : hold[v] # "none"}),
         NEW w \in Withdrawals, NEW to, to # "none", to # hold[w],
         hold' = [hold EXCEPT ![w] = to]
  PROVE  /\ IsFiniteSet({v \in Withdrawals : hold[v] # "none"})'
         /\ \A u \in Users, s \in {"active", "captured"} :
              /\ Total(RequestsWith(u, s)) \in Nat
              /\ Total(RequestsWith(u, s)')
                   = Total(RequestsWith(u, s))
                     + (IF u = UserOf[w] /\ s = to THEN AmountOf[w] ELSE 0)
                     - (IF u = UserOf[w] /\ s = hold[w] THEN AmountOf[w] ELSE 0)
<1> DEFINE Held == {v \in Withdrawals : hold[v] # "none"}
<1>1. hold' \in [Withdrawals -> {"none", "active", "released", "captured", to}]
      /\ hold'[w] = to /\ \A v \in Withdrawals \ {w} : hold'[v] = hold[v]
  BY DEF WithdrawTypeOK
<1>2. IsFiniteSet(Held \cup {w})
  BY FS_AddElement
<1>3. {v \in Withdrawals : hold'[v] # "none"} = Held \cup {w}
  BY <1>1
<1>4. ASSUME NEW u \in Users, NEW s \in {"active", "captured"}
      PROVE  /\ Total(RequestsWith(u, s)) \in Nat
             /\ Total(RequestsWith(u, s)')
                  = Total(RequestsWith(u, s))
                    + (IF u = UserOf[w] /\ s = to THEN AmountOf[w] ELSE 0)
                    - (IF u = UserOf[w] /\ s = hold[w] THEN AmountOf[w] ELSE 0)
  <2> DEFINE R == RequestsWith(u, s)
  <2>1. R \in SUBSET Held /\ R \subseteq Withdrawals
    BY DEF RequestsWith
  <2>2. IsFiniteSet(R)
    BY <2>1, FS_Subset
  <2>3. \A v \in Withdrawals : AmountOf[v] \in Nat /\ AmountOf[v] \in Int
    BY WithdrawAssumption
  <2>4. Total(R) \in Nat
    BY <2>1, <2>2, <2>3, SumNat DEF Total
  <2>5. CASE u = UserOf[w] /\ s = to
    <3>1. w \notin R /\ RequestsWith(u, s)' = R \cup {w}
      BY <1>1, <2>5 DEF RequestsWith
    <3>2. SumFunctionOnSet(AmountOf, R \cup {w})
            = AmountOf[w] + SumFunctionOnSet(AmountOf, R)
      <4> HIDE DEF R
      <4> QED  BY <2>1, <2>2, <2>3, <3>1, SumAdd
    <3> QED  BY <2>3, <2>4, <2>5, <3>1, <3>2 DEF Total
  <2>6. CASE u = UserOf[w] /\ s = hold[w]
    <3>1. w \in R /\ RequestsWith(u, s)' = R \ {w}
      BY <1>1, <2>6 DEF RequestsWith
    <3>2. SumFunctionOnSet(AmountOf, R)
            = AmountOf[w] + SumFunctionOnSet(AmountOf, R \ {w})
      <4> HIDE DEF R
      <4> QED  BY <2>1, <2>2, <2>3, <3>1, SumRemove
    <3>3. SumFunctionOnSet(AmountOf, R \ {w}) \in Int
      <4>1. IsFiniteSet(R \ {w})
        BY <2>2, FS_RemoveElement
      <4> QED  BY <4>1, <2>1, <2>3, SumType
    <3> QED  BY <2>3, <2>4, <2>6, <3>1, <3>2, <3>3 DEF Total
  <2>7. CASE ~(u = UserOf[w] /\ s \in {to, hold[w]})
    <3>1. RequestsWith(u, s)' = R
      BY <1>1, <2>7 DEF RequestsWith
    <3> QED  BY <2>4, <2>7, <3>1
  <2> QED  BY <2>5, <2>6, <2>7
<1> QED  BY <1>2, <1>3, <1>4

(* An account holds at least what each of its open requests asks for: what  *)
(* a settlement takes off never stops at zero.                              *)
LEMMA HeldCoversEach ==
  ASSUME WithdrawTypeOK, AccountInv, NEW w \in Withdrawals, hold[w] = "active"
  PROVE  /\ AmountOf[w] <= account[UserOf[w]].held
         /\ HeldWithout(w) = account[UserOf[w]].held - AmountOf[w]
<1> DEFINE R == RequestsWith(UserOf[w], "active")
<1>1. w \in R /\ R \subseteq Withdrawals
      /\ R \in SUBSET {v \in Withdrawals : hold[v] # "none"}
  BY DEF RequestsWith
<1>2. IsFiniteSet(R)
  BY <1>1, FS_Subset DEF AccountInv
<1>3. \A v \in R : AmountOf[v] \in Nat
  BY <1>1, WithdrawAssumption
<1>4. AmountOf[w] <= SumFunctionOnSet(AmountOf, R)
  <2> HIDE DEF R
  <2> QED  BY <1>1, <1>2, <1>3, SumCoversEach
<1>5. account[UserOf[w]].held = SumFunctionOnSet(AmountOf, R)
  BY WithdrawAssumption DEF AccountInv, AccountAddsUp, Total
<1>6. account[UserOf[w]].held \in Nat /\ AmountOf[w] \in Nat
  BY WithdrawAssumption DEF WithdrawTypeOK
<1> QED  BY <1>4, <1>5, <1>6 DEF HeldWithout

LEMMA AccountInit == Init => AccountInv
<1> SUFFICES ASSUME Init PROVE AccountInv
  OBVIOUS
<1>1. {w \in Withdrawals : hold[w] # "none"} = {}
  BY DEF Init
<1>2. \A u \in Users, s \in {"active", "captured"} : RequestsWith(u, s) = {}
  BY DEF Init, RequestsWith
<1>3. \A u \in Users, s \in {"active", "captured"} : Total(RequestsWith(u, s)) = 0
  BY <1>2, SumEmpty DEF Total
<1>4. AccountAddsUp
  BY <1>3, WithdrawAssumption DEF Init, AccountAddsUp
<1> QED  BY <1>1, <1>4, FS_EmptySet DEF AccountInv

LEMMA GiveBackAddsUp ==
  ASSUME WithdrawTypeOK, AccountInv, NEW w \in Withdrawals, hold[w] = "active",
         NEW to, GiveBack(w, to)
  PROVE  AccountInv'
<1>1. /\ hold' = [hold EXCEPT ![w] = "released"]
      /\ account' = [account EXCEPT ![UserOf[w]].held = @ - AmountOf[w]]
  BY HeldCoversEach, WithdrawAssumption DEF GiveBack, WithdrawTypeOK
<1>2. /\ IsFiniteSet({v \in Withdrawals : hold[v] # "none"})'
      /\ \A u \in Users :
           /\ Total(RequestsWith(u, "active")) \in Nat
           /\ Total(RequestsWith(u, "active")')
                = Total(RequestsWith(u, "active"))
                  - (IF u = UserOf[w] THEN AmountOf[w] ELSE 0)
           /\ Total(RequestsWith(u, "captured")) \in Nat
           /\ Total(RequestsWith(u, "captured")')
                = Total(RequestsWith(u, "captured"))
  <2>1. AmountOf[w] \in Nat
    BY WithdrawAssumption
  <2>2. "released" # hold[w] /\ "released" # "none"
    OBVIOUS
  <2>3. /\ IsFiniteSet({v \in Withdrawals : hold[v] # "none"})'
        /\ \A u \in Users, s \in {"active", "captured"} :
             /\ Total(RequestsWith(u, s)) \in Nat
             /\ Total(RequestsWith(u, s)')
                  = Total(RequestsWith(u, s))
                    + (IF u = UserOf[w] /\ s = "released" THEN AmountOf[w] ELSE 0)
                    - (IF u = UserOf[w] /\ s = hold[w] THEN AmountOf[w] ELSE 0)
    BY <1>1, <2>2, HoldMoves DEF AccountInv
  <2> QED  BY <2>1, <2>3
<1>3. AccountAddsUp'
  <2> SUFFICES ASSUME NEW u \in Users
               PROVE  /\ account'[u].held = Total(RequestsWith(u, "active")')
                      /\ account'[u].balance
                           = OpeningBalance[u] - Total(RequestsWith(u, "captured")')
                      /\ account'[u].held <= account'[u].balance
    BY DEF AccountAddsUp, Total
  <2>1. /\ account[u].held = Total(RequestsWith(u, "active"))
        /\ account[u].balance
             = OpeningBalance[u] - Total(RequestsWith(u, "captured"))
        /\ account[u].held <= account[u].balance
    BY DEF AccountInv, AccountAddsUp
  <2>2. /\ account[u].held \in Nat /\ account[u].balance \in Nat
        /\ AmountOf[w] \in Nat
    BY WithdrawAssumption DEF WithdrawTypeOK
  <2>3. /\ account'[u].balance = account[u].balance
        /\ account'[u].held
             = account[u].held - (IF u = UserOf[w] THEN AmountOf[w] ELSE 0)
    BY <1>1, <2>2, WithdrawAssumption DEF WithdrawTypeOK
  <2> QED  BY <1>2, <2>1, <2>2, <2>3
<1> QED  BY <1>2, <1>3 DEF AccountInv

LEMMA PlaceAddsUp ==
  ASSUME WithdrawInv, AccountInv, NEW w \in Withdrawals, PlaceWithdrawal(w),
         Available(UserOf[w]) >= AmountOf[w]
  PROVE  AccountInv'
<1>1. AmountOf[w] \in Nat /\ UserOf[w] \in Users
  BY WithdrawAssumption
<1>2. /\ hold' = [hold EXCEPT ![w] = "active"]
      /\ account' = [account EXCEPT ![UserOf[w]].held = @ + AmountOf[w]]
  <2>1. Available(UserOf[w]) \in Int
    BY <1>1 DEF Available, WithdrawInv, WithdrawTypeOK
  <2> QED  BY <1>1, <2>1 DEF PlaceWithdrawal
<1>3. hold[w] = "none"
  BY DEF WithdrawInv, AskingInv, HoldFollowsRequest, PlaceWithdrawal
<1>4. /\ IsFiniteSet({v \in Withdrawals : hold[v] # "none"})'
      /\ \A u \in Users, s \in {"active", "captured"} :
           /\ Total(RequestsWith(u, s)) \in Nat
           /\ Total(RequestsWith(u, s)')
                = Total(RequestsWith(u, s))
                  + (IF u = UserOf[w] /\ s = "active" THEN AmountOf[w] ELSE 0)
                  - (IF u = UserOf[w] /\ s = hold[w] THEN AmountOf[w] ELSE 0)
  BY <1>2, <1>3, HoldMoves DEF WithdrawInv, AccountInv
<1>5. AccountAddsUp'
  <2> SUFFICES ASSUME NEW u \in Users
               PROVE  /\ account'[u].held = Total(RequestsWith(u, "active")')
                      /\ account'[u].balance
                           = OpeningBalance[u] - Total(RequestsWith(u, "captured")')
                      /\ account'[u].held <= account'[u].balance
    BY DEF AccountAddsUp, Total
  <2>1. /\ account[u].held = Total(RequestsWith(u, "active"))
        /\ account[u].balance
             = OpeningBalance[u] - Total(RequestsWith(u, "captured"))
        /\ account[u].held <= account[u].balance
    BY DEF AccountInv, AccountAddsUp
  <2>2. account[u].held \in Nat /\ account[u].balance \in Nat
    BY DEF WithdrawInv, WithdrawTypeOK
  <2>3. /\ account'[u].balance = account[u].balance
        /\ account'[u].held
             = account[u].held + (IF u = UserOf[w] THEN AmountOf[w] ELSE 0)
        /\ u = UserOf[w] => account[u].held + AmountOf[w] <= account[u].balance
    BY <1>1, <1>2, <2>2 DEF WithdrawInv, WithdrawTypeOK, Available
  <2> QED  BY <1>1, <1>3, <1>4, <2>1, <2>2, <2>3
<1> QED  BY <1>4, <1>5 DEF AccountInv

LEMMA PayOutAddsUp ==
  ASSUME WithdrawInv, AccountInv, NEW w \in Withdrawals, hold[w] = "active",
         PayOut(w)
  PROVE  AccountInv'
<1>1. AmountOf[w] \in Nat /\ UserOf[w] \in Users
  BY WithdrawAssumption
<1>2. /\ hold' = [hold EXCEPT ![w] = "captured"]
      /\ account' = [account EXCEPT ![UserOf[w]] =
                       [balance |-> @.balance - AmountOf[w],
                        held |-> account[UserOf[w]].held - AmountOf[w]]]
  BY HeldCoversEach DEF WithdrawInv, PayOut
<1>3. /\ IsFiniteSet({v \in Withdrawals : hold[v] # "none"})'
      /\ \A u \in Users, s \in {"active", "captured"} :
           /\ Total(RequestsWith(u, s)) \in Nat
           /\ Total(RequestsWith(u, s)')
                = Total(RequestsWith(u, s))
                  + (IF u = UserOf[w] /\ s = "captured" THEN AmountOf[w] ELSE 0)
                  - (IF u = UserOf[w] /\ s = hold[w] THEN AmountOf[w] ELSE 0)
  BY <1>2, HoldMoves DEF WithdrawInv, AccountInv
<1>4. AccountAddsUp'
  <2> SUFFICES ASSUME NEW u \in Users
               PROVE  /\ account'[u].held = Total(RequestsWith(u, "active")')
                      /\ account'[u].balance
                           = OpeningBalance[u] - Total(RequestsWith(u, "captured")')
                      /\ account'[u].held <= account'[u].balance
    BY DEF AccountAddsUp, Total
  <2>1. /\ account[u].held = Total(RequestsWith(u, "active"))
        /\ account[u].balance
             = OpeningBalance[u] - Total(RequestsWith(u, "captured"))
        /\ account[u].held <= account[u].balance
    BY DEF AccountInv, AccountAddsUp
  <2>2. /\ account[u].held \in Nat /\ account[u].balance \in Nat
        /\ OpeningBalance[u] \in Nat
    BY WithdrawAssumption DEF WithdrawInv, WithdrawTypeOK
  <2>3. LET taken == IF u = UserOf[w] THEN AmountOf[w] ELSE 0 IN
        /\ account'[u].balance = account[u].balance - taken
        /\ account'[u].held = account[u].held - taken
    BY <1>1, <1>2, <2>2 DEF WithdrawInv, WithdrawTypeOK
  <2> QED  BY <1>1, <1>3, <2>1, <2>2, <2>3
<1> QED  BY <1>3, <1>4 DEF AccountInv

LEMMA RequestAddsUp ==
  ASSUME WithdrawInv, AccountInv, NEW w \in Withdrawals, RequestStep(w)
  PROVE  AccountInv'
<1>1. CASE UNCHANGED <<hold, account>>
  BY <1>1 DEF AccountInv, AccountAddsUp, RequestsWith, Total
<1>2. CASE PlaceWithdrawal(w)
  <2>1. CASE Available(UserOf[w]) >= AmountOf[w]
    BY <1>2, <2>1, PlaceAddsUp
  <2>2. CASE Available(UserOf[w]) < AmountOf[w]
    BY <1>1, <1>2, <2>2 DEF PlaceWithdrawal
  <2>3. Available(UserOf[w]) \in Int /\ AmountOf[w] \in Int
    BY WithdrawAssumption DEF Available, WithdrawInv, WithdrawTypeOK
  <2> QED  BY <2>1, <2>2, <2>3
<1>3. CASE CancelWithdrawal(w)
  BY <1>3, GiveBackAddsUp DEF CancelWithdrawal, WithdrawInv, HoldFollowsRequest
<1>4. CASE RejectWithdrawal(w)
  BY <1>4, GiveBackAddsUp DEF RejectWithdrawal, WithdrawInv
<1>5. CASE MarkPaid(w)
  BY <1>5, PayOutAddsUp DEF MarkPaid
<1>6. CASE ReadCaps(w) \/ ApproveWithdrawal(w)
  BY <1>1, <1>6 DEF ReadCaps, ApproveWithdrawal
<1> QED  BY <1>2, <1>3, <1>4, <1>5, <1>6 DEF RequestStep

LEMMA PayoutsLeaveWallet ==
  ASSUME (\E j \in Jobs : JobStep(j)) \/ (\E s \in Senders : SenderStep(s))
         \/ UNCHANGED vars
  PROVE  UNCHANGED walletVars
<1>1. ASSUME NEW j \in Jobs, JobStep(j) PROVE UNCHANGED walletVars
  BY <1>1, SystemMarkPaidRefuses
  DEF JobStep, CreateReads, InsertJob, CancelJob, RetryJob, ForceReads,
      ForceConfirm, CallDies, LockLapses, TransferEnds, ReportApplied
<1>2. ASSUME NEW s \in Senders, SenderStep(s) PROVE UNCHANGED walletVars
  BY <1>2 DEF SenderStep, LockJob, ReadRequest, SendPayout, RecordSent,
              RecordFailed, SenderDies
<1> QED  BY <1>1, <1>2 DEF vars

LEMMA AccountStep == WithdrawInv /\ AccountInv /\ [Next]_vars => AccountInv'
<1> SUFFICES ASSUME WithdrawInv, AccountInv, [Next]_vars PROVE AccountInv'
  OBVIOUS
<1>1. CASE \E w \in Withdrawals : RequestStep(w)
  BY <1>1, RequestAddsUp
<1>2. CASE UNCHANGED walletVars
  BY <1>2 DEF walletVars, AccountInv, AccountAddsUp, RequestsWith, Total
<1> QED  BY <1>1, <1>2, PayoutsLeaveWallet DEF Next

LEMMA AccountInvariant == Spec => []AccountInv
  BY WithdrawInvariant, AccountInit, AccountStep, PTL DEF Spec

(* What the account shows as held is the sum of the open requests, what it  *)
(* has lost is the sum of the paid ones, and it covers what it holds: for   *)
(* any number of requests, users and overlapping calls.                     *)
THEOREM AccountAddsUpHolds == Spec => []AccountAddsUp
<1>1. AccountInv => AccountAddsUp
  BY DEF AccountInv
<1> QED  BY <1>1, AccountInvariant, PTL
-----------------------------------------------------------------------------
(* The wallet keeps the promise of ReservedFunds.                           *)

LEMMA ReservesInit == Init => Funds!Init
  BY WithdrawAssumption DEF Init, Funds!Init, Stage, Free, Available

LEMMA GiveBackReturns ==
  ASSUME WithdrawInv, AccountInv, NEW w \in Withdrawals, hold[w] = "active",
         NEW to \in {"rejected", "cancelled"}, GiveBack(w, to)
  PROVE  Funds!GiveBack(w)
<1>1. /\ withdrawal' = [withdrawal EXCEPT ![w] = to]
      /\ account' = [account EXCEPT ![UserOf[w]].held = @ - AmountOf[w]]
      /\ AmountOf[w] \in Nat /\ UserOf[w] \in Users
  BY HeldCoversEach, WithdrawAssumption DEF GiveBack, WithdrawInv, WithdrawTypeOK
<1>2. withdrawal[w] \in {"requested", "approved"}
  BY DEF WithdrawInv, HoldFollowsRequest, WithdrawTypeOK, WithdrawalStatus
<1>3. Stage[w] = "reserved" /\ Stage' = [Stage EXCEPT ![w] = "returned"]
  BY <1>1, <1>2 DEF Stage, WithdrawInv, WithdrawTypeOK
<1>4. Free' = [Free EXCEPT ![UserOf[w]] = @ + AmountOf[w]]
  BY <1>1 DEF Free, Available, WithdrawInv, WithdrawTypeOK
<1> QED  BY <1>3, <1>4 DEF Funds!GiveBack

LEMMA RequestReserves ==
  ASSUME WithdrawInv, AccountInv, NEW w \in Withdrawals, RequestStep(w)
  PROVE  [Funds!Next]_<<Stage, Free>>
<1> USE DEF WithdrawInv, WithdrawTypeOK
<1>1. AmountOf[w] \in Nat /\ UserOf[w] \in Users
  BY WithdrawAssumption
<1>2. CASE ReadCaps(w)
  BY <1>2 DEF ReadCaps, Stage, Free, Available
<1>3. CASE PlaceWithdrawal(w)
  <2>1. CASE Available(UserOf[w]) < AmountOf[w]
    BY <1>3, <2>1 DEF PlaceWithdrawal, Stage, Free, Available
  <2>2. CASE Available(UserOf[w]) >= AmountOf[w]
    <3>1. Available(UserOf[w]) \in Int
      BY <1>1 DEF Available
    <3>2. /\ withdrawal' = [withdrawal EXCEPT ![w] = "requested"]
          /\ account' = [account EXCEPT ![UserOf[w]].held = @ + AmountOf[w]]
      BY <1>1, <1>3, <2>2, <3>1 DEF PlaceWithdrawal
    <3>3. withdrawal[w] = "none"
      BY <1>3 DEF AskingInv, PlaceWithdrawal
    <3>4. Stage[w] = "none" /\ Stage' = [Stage EXCEPT ![w] = "reserved"]
      BY <3>2, <3>3 DEF Stage
    <3>5. /\ AmountOf[w] <= Free[UserOf[w]]
          /\ Free' = [Free EXCEPT ![UserOf[w]] = @ - AmountOf[w]]
      BY <1>1, <2>2, <3>2 DEF Free, Available
    <3>6. Funds!Reserve(w)
      BY <3>4, <3>5 DEF Funds!Reserve
    <3> QED  BY <3>6 DEF Funds!Next
  <2>3. Available(UserOf[w]) \in Int
    BY <1>1 DEF Available
  <2> QED  BY <1>1, <2>1, <2>2, <2>3
<1>4. CASE CancelWithdrawal(w)
  BY <1>4, GiveBackReturns DEF CancelWithdrawal, HoldFollowsRequest, Funds!Next
<1>5. CASE RejectWithdrawal(w)
  BY <1>5, GiveBackReturns DEF RejectWithdrawal, Funds!Next
<1>6. CASE ApproveWithdrawal(w)
  BY <1>6 DEF ApproveWithdrawal, Stage, Free, Available
<1>7. CASE MarkPaid(w)
  <2>1. /\ withdrawal[w] = "approved"
        /\ withdrawal' = [withdrawal EXCEPT ![w] = "paid"]
        /\ account' = [account EXCEPT ![UserOf[w]] =
                         [balance |-> @.balance - AmountOf[w],
                          held |-> account[UserOf[w]].held - AmountOf[w]]]
    BY <1>7, HeldCoversEach DEF MarkPaid, PayOut
  <2>2. Stage[w] = "reserved" /\ Stage' = [Stage EXCEPT ![w] = "spent"]
    BY <2>1 DEF Stage
  <2>3. Free' = Free
    BY <1>1, <2>1 DEF Free, Available
  <2>4. Funds!Spend(w)
    BY <2>2, <2>3 DEF Funds!Spend
  <2> QED  BY <2>4 DEF Funds!Next
<1> QED  BY <1>2, <1>3, <1>4, <1>5, <1>6, <1>7 DEF RequestStep

LEMMA ReservesStep ==
  WithdrawInv /\ AccountInv /\ [Next]_vars => [Funds!Next]_<<Stage, Free>>
<1> SUFFICES ASSUME WithdrawInv, AccountInv, [Next]_vars
             PROVE  [Funds!Next]_<<Stage, Free>>
  OBVIOUS
<1>1. CASE \E w \in Withdrawals : RequestStep(w)
  BY <1>1, RequestReserves
<1>2. CASE UNCHANGED walletVars
  BY <1>2 DEF walletVars, Stage, Free, Available
<1> QED  BY <1>1, <1>2, PayoutsLeaveWallet DEF Next

(* A withdrawal keeps the promise of ReservedFunds: an amount is set aside  *)
(* only out of free money, and then either spent once or given back once.   *)
THEOREM WithdrawImplementsReservation == Spec => ImplementsReservation
  BY WithdrawInvariant, AccountInvariant, ReservesInit, ReservesStep, PTL
  DEF Spec, ImplementsReservation, Funds!Spec
=============================================================================

----------------------------- MODULE Settlement -----------------------------
(* Settlement accounts of drivers and merchants: a ledger of entries, one   *)
(* per idempotency key, and the requests to pay in and to be paid out, which*)
(* an administrator approves or rejects.                                    *)
(*                                                                          *)
(* Abstractions.  Each approval and each rejection is a transaction that    *)
(* locks the request's row; only the approval of a payout reads, before it  *)
(* posts, an account it has not locked, so it takes two steps here.  Ride   *)
(* fees and the receipts and payouts that an administrator records by hand  *)
(* are Postings.  Agents, document numbers and notes are left out.          *)
(***************************************************************************)
EXTENDS Integers, FiniteSets, Functions

CONSTANTS
  Parties,        \* drivers and merchants
  Payments,       \* rows of settlement_payment_requests
  Payouts,        \* rows of settlement_payout_requests
  Postings,       \* ride fees, receipts and payouts posted directly
  PartyOf,        \* of every request and posting
  AmountOf,       \* of a request: positive; of a posting: its sign tells
  OpeningBalance, \* [Parties -> Int], or NoAccount
  NoAccount

Requests == Payments \cup Payouts
Keys == Requests \cup Postings

ASSUME SettlementAssumption ==
  /\ Payments \cap Payouts = {} /\ Requests \cap Postings = {}
  /\ PartyOf \in [Keys -> Parties]
  /\ AmountOf \in [Keys -> Int]
  /\ \A r \in Requests : AmountOf[r] > 0
  /\ NoAccount \notin Int
  /\ OpeningBalance \in [Parties -> Int \cup {NoAccount}]

VARIABLES
  balance,  \* settlement_accounts, NoAccount where there is no row
  entries,  \* keys of the rows of settlement_entries
  request,  \* status of each request, "none" before it is inserted
  approving,\* payouts whose approval has read the balance and not yet posted
  seen      \* for the properties: the entries behind the balance it has read

settlementVars == <<balance, entries, request, approving, seen>>

RequestStatus == {"none", "requested", "approved", "rejected"}

SettlementInit ==
  /\ balance = OpeningBalance
  /\ entries = {}
  /\ request = [r \in Requests |-> "none"]
  /\ approving = {}
  /\ seen = [r \in Payouts |-> {}]

Delta(k) == IF k \in Payouts THEN -AmountOf[k] ELSE AmountOf[k]
Known(b) == IF b = NoAccount THEN 0 ELSE b

\* of one party; what is taken from it that S does not have yet
EntriesOf(p) == {k \in entries : PartyOf[k] = p}
DebitsSince(p, S) == {k \in EntriesOf(p) \ S : Delta(k) < 0}
Sum(ks) == SumFunctionOnSet([k \in Keys |-> Delta(k)], ks)

\* Mutant: an account that is not there is not made.
Post_NoRow(k) ==
  /\ entries' = entries \cup {k}
  /\ balance' = [balance EXCEPT ![PartyOf[k]] =
                   IF @ = NoAccount THEN NoAccount ELSE @ + Delta(k)]

\* settlement_post_entry: once per key; the account is made when it is not
\* there and locked before it changes
Post(k) ==
  IF k \in entries
    THEN UNCHANGED <<balance, entries>>
    ELSE /\ entries' = entries \cup {k}
         /\ balance' = [balance EXCEPT ![PartyOf[k]] = Known(@) + Delta(k)]

\* NULL < amount is not true: a party without an account passes
Covers(b, amount) == b # NoAccount => b >= amount

\* driver_ and merchant_settlement_request_payment_v1
RequestPayment(r) ==
  /\ request[r] = "none" /\ r \in Payments
  /\ request' = [request EXCEPT ![r] = "requested"]
  /\ UNCHANGED <<balance, entries, approving, seen>>

\* driver_ and merchant_settlement_request_payout_v1
RequestPayout(r) ==
  /\ request[r] = "none" /\ r \in Payouts
  /\ Covers(balance[PartyOf[r]], AmountOf[r])
  /\ request' = [request EXCEPT ![r] = "requested"]
  /\ UNCHANGED <<balance, entries, approving, seen>>

\* admin_settlement_approve_payment_request_v1
ApprovePayment(r) ==
  /\ request[r] = "requested" /\ r \in Payments
  /\ Post(r)
  /\ request' = [request EXCEPT ![r] = "approved"]
  /\ UNCHANGED <<approving, seen>>

\* Mutant: the approval trusts the check that was made at the request.
CheckPayout_AsRequested(r) ==
  /\ request[r] = "requested" /\ r \in Payouts \ approving
  /\ approving' = approving \cup {r}
  /\ seen' = [seen EXCEPT ![r] = EntriesOf(PartyOf[r])]
  /\ UNCHANGED <<balance, entries, request>>

\* admin_settlement_approve_payout_request_v1 locks the request, reads the
\* balance ...
CheckPayout(r) ==
  /\ request[r] = "requested" /\ r \in Payouts \ approving
  /\ Covers(balance[PartyOf[r]], AmountOf[r])
  /\ approving' = approving \cup {r}
  /\ seen' = [seen EXCEPT ![r] = EntriesOf(PartyOf[r])]
  /\ UNCHANGED <<balance, entries, request>>

\* ... and posts, whatever the balance is by then
PostPayout(r) ==
  /\ r \in approving
  /\ Post(r)
  /\ request' = [request EXCEPT ![r] = "approved"]
  /\ approving' = approving \ {r}
  /\ seen' = [seen EXCEPT ![r] = {}]

ApprovalDies(r) ==
  /\ r \in approving
  /\ approving' = approving \ {r}
  /\ seen' = [seen EXCEPT ![r] = {}]
  /\ UNCHANGED <<balance, entries, request>>

\* Mutant: a rejection that does not look at the status again.
Reject_Any(r) ==
  /\ request[r] # "none" /\ r \notin approving
  /\ request' = [request EXCEPT ![r] = "rejected"]
  /\ UNCHANGED <<balance, entries, approving, seen>>

\* admin_settlement_reject_payment_request_v1 and _payout_request_v1: the
\* update waits for the row and looks at its status again
Reject(r) ==
  /\ request[r] = "requested" /\ r \notin approving
  /\ request' = [request EXCEPT ![r] = "rejected"]
  /\ UNCHANGED <<balance, entries, approving, seen>>

\* a ride's fee, admin_settlement_record_receipt_v2, _record_payout_v2; a
\* call repeated with its key posts nothing more
PostDirectly(k) ==
  /\ k \in Postings
  /\ Post(k)
  /\ UNCHANGED <<request, approving, seen>>

SettlementStep ==
  \/ \E r \in Requests :
       \/ RequestPayment(r) \/ RequestPayout(r) \/ ApprovePayment(r)
       \/ CheckPayout(r) \/ PostPayout(r) \/ ApprovalDies(r) \/ Reject(r)
  \/ \E k \in Postings : PostDirectly(k)
-----------------------------------------------------------------------------
SettlementTypeOK ==
  /\ balance \in [Parties -> Int \cup {NoAccount}]
  /\ entries \subseteq Keys
  /\ request \in [Requests -> RequestStatus]
  /\ approving \subseteq Payouts
  /\ seen \in [Payouts -> SUBSET Keys]

(* A request is posted to the account exactly when it is approved, whatever *)
(* the order in which administrators approve and reject it and calls die:   *)
(* settlement_entries and the requests tell the same story.                 *)
PostedIfApproved ==
  \A r \in Requests : r \in entries <=> request[r] = "approved"

(* An account is its opening balance and its entries, and there is one for  *)
(* every party that has entries.                                            *)
AccountIsItsLedger ==
  \A p \in Parties :
    /\ Known(balance[p]) = Known(OpeningBalance[p]) + Sum(EntriesOf(p))
    /\ EntriesOf(p) # {} => balance[p] # NoAccount

\* r is posted now, and leaves no more of a debt than what others have taken
\* since its approval read the balance
Posted(r) == r \in entries' \ entries
CoveredButForOthers(r) ==
  balance'[PartyOf[r]] >= Sum(DebitsSince(PartyOf[r], seen[r]))
HadAccount(r) == OpeningBalance[PartyOf[r]] # NoAccount \/ seen[r] # {}

(* Approvals that overlap each read a balance the other has not lowered yet,*)
(* so a payout may overdraw its party, but by no more than what was taken   *)
(* between its own check and its posting: what was there to be seen when it *)
(* was checked is not overdrawn.  A party without an account is excepted:   *)
(* COALESCE finds no row, and NULL is less than no amount.                  *)
OverdrawnByOverlapOnly ==
  [][\A r \in Payouts :
       Posted(r) /\ HadAccount(r) => CoveredButForOthers(r)]_settlementVars
=============================================================================

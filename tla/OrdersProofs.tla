---------------------------- MODULE OrdersProofs ----------------------------
(***************************************************************************)
(* Theorems about Orders and Settlement for every set of orders, drivers,   *)
(* parties and requests: the tables first, then what needs the sum of an    *)
(* account's entries.                                                       *)
(***************************************************************************)
EXTENDS Orders, SumLemmas

-----------------------------------------------------------------------------
(* The settlement.  PostedIfApproved rests on what the lock of a request's  *)
(* row gives: while an approval is on its way, nobody changes the status.   *)

ApprovingIsRequested == \A r \in approving : request[r] = "requested"

SettlementInv == SettlementTypeOK /\ ApprovingIsRequested /\ PostedIfApproved

LEMMA SettlementInitInv == SettlementInit => SettlementInv
  BY SettlementAssumption
     DEF SettlementInit, SettlementInv, SettlementTypeOK, RequestStatus,
         ApprovingIsRequested, PostedIfApproved

\* An entry changes an account by an integer and is there afterwards.
LEMMA PostFacts ==
  ASSUME SettlementTypeOK, NEW k \in Keys, Post(k)
  PROVE  /\ entries' = entries \cup {k}
         /\ balance' \in [Parties -> Int \cup {NoAccount}]
<1>1. Delta(k) \in Int
  BY SettlementAssumption DEF Delta
<1>2. PartyOf[k] \in Parties
  BY SettlementAssumption
<1>3. Known(balance[PartyOf[k]]) \in Int
  BY <1>2 DEF Known, SettlementTypeOK
<1> QED BY <1>1, <1>2, <1>3 DEF Post, SettlementTypeOK

\* A request that is posted and approved in one step.
LEMMA ApprovalInv ==
  ASSUME SettlementInv, NEW r \in Requests, request[r] = "requested", Post(r),
         request' = [request EXCEPT ![r] = "approved"],
         approving' = approving \ {r}, seen' \in [Payouts -> SUBSET Keys]
  PROVE  SettlementInv'
<1> USE DEF SettlementInv
<1>1. entries' = entries \cup {r} /\ balance' \in [Parties -> Int \cup {NoAccount}]
  BY PostFacts DEF Keys
<1>2. SettlementTypeOK'
  BY <1>1 DEF SettlementTypeOK, RequestStatus, Keys
<1>3. ApprovingIsRequested'
  BY DEF ApprovingIsRequested, SettlementTypeOK, Requests
<1>4. PostedIfApproved'
  BY <1>1 DEF PostedIfApproved, SettlementTypeOK
<1> QED BY <1>2, <1>3, <1>4

\* A step of a request that posts nothing.
LEMMA RequestInv ==
  ASSUME SettlementInv, NEW r \in Requests, UNCHANGED <<balance, entries>>,
         NEW s \in RequestStatus \ {"approved"},
         request' = [request EXCEPT ![r] = s],
         s # request[r] => request[r] \in {"none", "requested"} /\ r \notin approving,
         approving' \subseteq approving \cup {r},
         r \in approving' => s = "requested" /\ r \in Payouts,
         request[r] # "approved", seen' \in [Payouts -> SUBSET Keys]
  PROVE  SettlementInv'
<1> USE DEF SettlementInv
<1>1. SettlementTypeOK'
  BY DEF SettlementTypeOK, RequestStatus
<1>2. ApprovingIsRequested'
  BY DEF ApprovingIsRequested, SettlementTypeOK, Requests
<1>3. PostedIfApproved'
  BY DEF PostedIfApproved, SettlementTypeOK
<1> QED BY <1>1, <1>2, <1>3

LEMMA SettlementStepInv ==
  ASSUME SettlementInv, SettlementStep
  PROVE  SettlementInv'
<1>0. /\ SettlementTypeOK /\ ApprovingIsRequested /\ PostedIfApproved
      /\ request \in [Requests -> RequestStatus] /\ approving \subseteq Payouts
      /\ seen \in [Payouts -> SUBSET Keys] /\ \A p : EntriesOf(p) \in SUBSET Keys
  BY DEF SettlementInv, SettlementTypeOK, EntriesOf
<1>1. ASSUME NEW r \in Requests, RequestPayment(r) \/ RequestPayout(r)
      PROVE  SettlementInv'
  <2>1. /\ request[r] = "none" /\ r \notin approving
        /\ request' = [request EXCEPT ![r] = "requested"]
        /\ UNCHANGED <<balance, entries, approving, seen>>
    BY <1>0, <1>1 DEF RequestPayment, RequestPayout, ApprovingIsRequested
  <2> QED BY <1>0, <2>1, RequestInv DEF RequestStatus
<1>2. ASSUME NEW r \in Requests, ApprovePayment(r) PROVE SettlementInv'
  <2>1. r \notin approving
    BY <1>0, <1>2, SettlementAssumption DEF ApprovePayment
  <2> QED BY <1>0, <1>2, <2>1, ApprovalInv DEF ApprovePayment
<1>3. ASSUME NEW r \in Requests, CheckPayout(r) PROVE SettlementInv'
  <2>1. request' = [request EXCEPT ![r] = "requested"] /\ request[r] = "requested"
    BY <1>0, <1>3 DEF CheckPayout
  <2>2. seen' \in [Payouts -> SUBSET Keys]
    BY <1>0, <1>3 DEF CheckPayout
  <2> QED BY <1>3, <2>1, <2>2, RequestInv DEF CheckPayout, RequestStatus
<1>4. ASSUME NEW r \in Requests, PostPayout(r) PROVE SettlementInv'
  <2>1. seen' \in [Payouts -> SUBSET Keys]
    BY <1>0, <1>4 DEF PostPayout
  <2> QED BY <1>0, <1>4, <2>1, ApprovalInv DEF PostPayout, ApprovingIsRequested
<1>5. ASSUME NEW r \in Requests, ApprovalDies(r) PROVE SettlementInv'
  <2>1. request' = [request EXCEPT ![r] = "requested"] /\ request[r] = "requested"
    BY <1>0, <1>5 DEF ApprovalDies, ApprovingIsRequested
  <2>2. seen' \in [Payouts -> SUBSET Keys]
    BY <1>0, <1>5 DEF ApprovalDies
  <2> QED BY <1>5, <2>1, <2>2, RequestInv DEF ApprovalDies, RequestStatus
<1>6. ASSUME NEW r \in Requests, Reject(r) PROVE SettlementInv'
  BY <1>0, <1>6, RequestInv DEF Reject, RequestStatus
<1>7. ASSUME NEW k \in Postings, PostDirectly(k) PROVE SettlementInv'
  <2>1. entries' = entries \cup {k} /\ balance' \in [Parties -> Int \cup {NoAccount}]
    BY <1>0, <1>7, PostFacts DEF PostDirectly, Keys
  <2>2. k \notin Requests
    BY SettlementAssumption
  <2> QED BY <1>0, <1>7, <2>1, <2>2
          DEF PostDirectly, SettlementInv, SettlementTypeOK, ApprovingIsRequested,
              PostedIfApproved, Keys
<1> QED BY <1>1, <1>2, <1>3, <1>4, <1>5, <1>6, <1>7 DEF SettlementStep
-----------------------------------------------------------------------------
(* The ledger.  Entries are posted one by one, so an account has finitely   *)
(* many at any time and their sum is defined.                               *)

Signed == [k \in Keys |-> Delta(k)]

\* A payout was covered when it was checked, and since then only what others
\* have taken has lowered the account.
CoveredSinceChecked ==
  \A r \in approving :
    /\ seen[r] \subseteq entries
    /\ HadAccount(r) =>
         /\ balance[PartyOf[r]] # NoAccount
         /\ Known(balance[PartyOf[r]])
              >= AmountOf[r] + Sum(DebitsSince(PartyOf[r], seen[r]))

LedgerInv ==
  /\ IsFiniteSet(entries)
  /\ AccountIsItsLedger
  /\ \A p \in Parties : OpeningBalance[p] # NoAccount => balance[p] # NoAccount
  /\ CoveredSinceChecked

(* A sum over entries is an integer, and 0 over none.                       *)
LEMMA SumOfEntries ==
  ASSUME NEW ks, ks \subseteq Keys, IsFiniteSet(ks)
  PROVE  Sum(ks) \in Int
<1>1. \A k \in ks : Signed[k] \in Int
  BY SettlementAssumption DEF Signed, Delta
<1> QED  BY <1>1, SumType DEF Sum, Signed

(* One more entry adds what it posts.                                       *)
LEMMA SumWithEntry ==
  ASSUME NEW ks, ks \subseteq Keys, IsFiniteSet(ks), NEW k \in Keys, k \notin ks
  PROVE  Sum(ks \cup {k}) = Sum(ks) + Delta(k)
<1>1. \A l \in ks \cup {k} : Signed[l] \in Int
  BY SettlementAssumption DEF Signed, Delta
<1>2. SumFunctionOnSet(Signed, ks \cup {k}) = Signed[k] + SumFunctionOnSet(Signed, ks)
  BY <1>1, SumAdd
<1>3. SumFunctionOnSet(Signed, ks) \in Int
  BY <1>1, SumType
<1>4. Signed[k] = Delta(k) /\ Signed[k] \in Int
  BY <1>1 DEF Signed
<1> HIDE DEF Signed
<1>5. SumFunctionOnSet(Signed, ks \cup {k}) = SumFunctionOnSet(Signed, ks) + Delta(k)
  BY <1>2, <1>3, <1>4
<1> QED  BY <1>5 DEF Sum, Signed

(* What a party has posted is finite, and so is each part of it.            *)
LEMMA EntriesAreFinite ==
  ASSUME SettlementTypeOK, IsFiniteSet(entries), NEW p
  PROVE  /\ EntriesOf(p) \subseteq Keys /\ IsFiniteSet(EntriesOf(p))
         /\ \A ks \in SUBSET EntriesOf(p) : ks \subseteq Keys /\ IsFiniteSet(ks)
<1>1. EntriesOf(p) \in SUBSET entries /\ entries \subseteq Keys
  BY DEF EntriesOf, SettlementTypeOK
<1>2. \A ks \in SUBSET EntriesOf(p) : ks \in SUBSET entries
  BY <1>1
<1> QED  BY <1>1, <1>2, FS_Subset

LEMMA LedgerInit == SettlementInit => LedgerInv
<1> SUFFICES ASSUME SettlementInit PROVE LedgerInv
  OBVIOUS
<1>1. entries = {} /\ approving = {} /\ balance = OpeningBalance
  BY DEF SettlementInit
<1>2. \A p : EntriesOf(p) = {}
  BY <1>1 DEF EntriesOf
<1>3. Sum({}) = 0
  BY SumEmpty DEF Sum
<1>4. \A p \in Parties : Known(OpeningBalance[p]) \in Int
  BY SettlementAssumption DEF Known
<1>5. AccountIsItsLedger
  BY <1>1, <1>2, <1>3, <1>4 DEF AccountIsItsLedger
<1>6. IsFiniteSet(entries)
  BY <1>1, FS_EmptySet
<1> QED  BY <1>1, <1>5, <1>6 DEF LedgerInv, CoveredSinceChecked

(* What posting k does to one account and to the sums over its entries.     *)
LEMMA PostToLedger ==
  ASSUME SettlementTypeOK, LedgerInv, NEW k \in Keys \ entries, Post(k)
  PROVE  /\ IsFiniteSet(entries)'
         /\ AccountIsItsLedger'
         /\ \A p \in Parties :
              /\ OpeningBalance[p] # NoAccount => balance[p]' # NoAccount
              /\ p # PartyOf[k] => balance[p]' = balance[p]
              /\ balance[p] # NoAccount /\ p = PartyOf[k]
                   => balance[p]' = balance[p] + Delta(k)
<1>0. /\ IsFiniteSet(entries) /\ AccountIsItsLedger /\ entries \subseteq Keys
      /\ balance \in [Parties -> Int \cup {NoAccount}]
      /\ PartyOf[k] \in Parties /\ Delta(k) \in Int /\ NoAccount \notin Int
      /\ \A p \in Parties : OpeningBalance[p] # NoAccount => balance[p] # NoAccount
  BY SettlementAssumption DEF LedgerInv, SettlementTypeOK, Delta
<1>1. /\ entries' = entries \cup {k}
      /\ balance' = [balance EXCEPT ![PartyOf[k]] = Known(@) + Delta(k)]
  BY DEF Post
<1>2. IsFiniteSet(entries)'
  BY <1>0, <1>1, FS_AddElement
<1>3. \A p \in Parties : Known(balance[p]) \in Int /\ Known(OpeningBalance[p]) \in Int
  BY <1>0, SettlementAssumption DEF Known
<1>4. \A p \in Parties :
        balance'[p] = IF p = PartyOf[k] THEN Known(balance[p]) + Delta(k)
                                        ELSE balance[p]
  BY <1>0, <1>1
<1>5. ASSUME NEW p \in Parties
      PROVE  /\ Known(balance'[p]) = Known(OpeningBalance[p]) + Sum(EntriesOf(p)')
             /\ EntriesOf(p)' # {} => balance'[p] # NoAccount
  <2> DEFINE E == EntriesOf(p)
  <2>1. E \subseteq Keys /\ IsFiniteSet(E)
    BY <1>0, EntriesAreFinite
  <2>2. /\ Known(balance[p]) = Known(OpeningBalance[p]) + Sum(E)
        /\ E # {} => balance[p] # NoAccount
    BY <1>0 DEF AccountIsItsLedger
  <2>3. Sum(E) \in Int
    BY <2>1, SumOfEntries
  <2>4. CASE p = PartyOf[k]
    <3>1. EntriesOf(p)' = E \cup {k} /\ k \notin E
      BY <1>1, <2>4 DEF EntriesOf
    <3>2. Sum(E \cup {k}) = Sum(E) + Delta(k)
      <4> HIDE DEF E
      <4> QED  BY <2>1, <3>1, SumWithEntry
    <3>3. balance'[p] = Known(balance[p]) + Delta(k) /\ balance'[p] \in Int
      BY <1>0, <1>3, <1>4, <2>4
    <3>4. Known(balance'[p]) = balance'[p] /\ balance'[p] # NoAccount
      BY <1>0, <3>3 DEF Known
    <3> QED  BY <1>0, <1>3, <2>2, <2>3, <3>1, <3>2, <3>3, <3>4
  <2>5. CASE p # PartyOf[k]
    <3>1. EntriesOf(p)' = E
      BY <1>1, <2>5 DEF EntriesOf
    <3> QED  BY <1>4, <2>2, <2>5, <3>1
  <2> QED  BY <2>4, <2>5
<1>6. AccountIsItsLedger'
  BY <1>5 DEF AccountIsItsLedger, Sum, Known
<1>7. \A p \in Parties :
        /\ OpeningBalance[p] # NoAccount => balance[p]' # NoAccount
        /\ p # PartyOf[k] => balance[p]' = balance[p]
        /\ balance[p] # NoAccount /\ p = PartyOf[k]
             => balance[p]' = balance[p] + Delta(k)
  BY <1>0, <1>3, <1>4 DEF Known
<1> QED  BY <1>2, <1>6, <1>7

(* While entries are posted, an account stays above a floor and what is     *)
(* taken from it: each entry that lowers it is one of the debits.           *)
LEMMA FloorIsKept ==
  ASSUME SettlementTypeOK, LedgerInv, NEW k \in Keys, Post(k),
         NEW p \in Parties, NEW S, S \subseteq entries, NEW floor \in Int,
         Known(balance[p]) >= floor + Sum(DebitsSince(p, S))
  PROVE  /\ S \subseteq entries'
         /\ Known(balance[p])' >= floor + Sum(DebitsSince(p, S))'
         /\ balance[p] # NoAccount => balance'[p] # NoAccount
<1>1. CASE k \in entries
  <2>1. UNCHANGED <<balance, entries>>
    BY <1>1 DEF Post
  <2> QED  BY <2>1 DEF DebitsSince, EntriesOf, Sum, Known
<1>2. CASE k \notin entries
  <2> DEFINE D == DebitsSince(p, S)
             more == IF PartyOf[k] = p /\ Delta(k) < 0 THEN Delta(k) ELSE 0
  <2>1. /\ entries' = entries \cup {k}
        /\ balance' = [balance EXCEPT ![PartyOf[k]] = Known(@) + Delta(k)]
        /\ PartyOf[k] \in Parties /\ Delta(k) \in Int /\ NoAccount \notin Int
        /\ balance \in [Parties -> Int \cup {NoAccount}]
    BY <1>2, SettlementAssumption DEF Post, Delta, SettlementTypeOK
  <2>2. Known(balance[p]) \in Int /\ Known(balance[PartyOf[k]]) \in Int
    BY <2>1 DEF Known
  <2>3. balance'[p] = IF p = PartyOf[k] THEN Known(balance[p]) + Delta(k)
                                        ELSE balance[p]
    BY <2>1
  <2>4. /\ Known(balance'[p])
             = Known(balance[p]) + (IF p = PartyOf[k] THEN Delta(k) ELSE 0)
        /\ balance[p] # NoAccount => balance'[p] # NoAccount
    BY <2>1, <2>2, <2>3 DEF Known
  <2>5. D \in SUBSET EntriesOf(p) /\ k \notin D
    BY <1>2 DEF DebitsSince, EntriesOf
  <2>6. D \subseteq Keys /\ IsFiniteSet(D)
    BY <2>5, EntriesAreFinite DEF LedgerInv
  <2>7. DebitsSince(p, S)' = IF PartyOf[k] = p /\ Delta(k) < 0 THEN D \cup {k} ELSE D
    BY <1>2, <2>1 DEF DebitsSince, EntriesOf, Delta
  <2>8. Sum(D) \in Int /\ Sum(D \cup {k}) = Sum(D) + Delta(k)
    <3> HIDE DEF D
    <3> QED  BY <2>5, <2>6, SumOfEntries, SumWithEntry
  <2> DEFINE E == DebitsSince(p, S)'
  <2>9. Sum(E) = Sum(D) + more
    <3> HIDE DEF D, E
    <3> QED  BY <2>7, <2>8 DEF E
  <2>10. Known(balance'[p]) >= floor + Sum(E)
    <3> DEFINE was == Sum(D)
    <3>1. was \in Int /\ Sum(E) = was + more /\ Known(balance[p]) >= floor + was
      BY <2>8, <2>9
    <3> HIDE DEF D, E, was
    <3> QED  BY <2>1, <2>2, <2>4, <3>1
  <2> QED  BY <2>1, <2>4, <2>10 DEF Sum, Known
<1> QED  BY <1>1, <1>2

LEMMA PostKeepsLedger ==
  ASSUME SettlementInv, LedgerInv, NEW k \in Keys, Post(k),
         approving' \subseteq approving, \A r \in approving' : seen'[r] = seen[r]
  PROVE  LedgerInv'
<1>0. SettlementTypeOK /\ approving \subseteq Payouts
  BY DEF SettlementInv, SettlementTypeOK
<1>1. CoveredSinceChecked'
  <2> SUFFICES ASSUME NEW r \in approving'
               PROVE  /\ seen'[r] \subseteq entries'
                      /\ HadAccount(r)' =>
                           /\ balance'[PartyOf[r]] # NoAccount
                           /\ Known(balance'[PartyOf[r]])
                                >= AmountOf[r] + Sum(DebitsSince(PartyOf[r], seen[r])')
    BY DEF CoveredSinceChecked, Sum, Known, DebitsSince, EntriesOf
  <2>1. r \in approving /\ r \in Payouts /\ r \in Keys /\ seen'[r] = seen[r]
    BY <1>0 DEF Keys, Requests
  <2>2. PartyOf[r] \in Parties /\ AmountOf[r] \in Int
    BY <2>1, SettlementAssumption
  <2>3. HadAccount(r)' <=> HadAccount(r)
    BY <2>1 DEF HadAccount
  <2>4. /\ seen[r] \subseteq entries
        /\ HadAccount(r) =>
             /\ balance[PartyOf[r]] # NoAccount
             /\ Known(balance[PartyOf[r]])
                  >= AmountOf[r] + Sum(DebitsSince(PartyOf[r], seen[r]))
    BY <2>1 DEF LedgerInv, CoveredSinceChecked
  <2>5. entries \subseteq entries'
    BY DEF Post
  <2>6. CASE HadAccount(r)
    BY <1>0, <2>1, <2>2, <2>4, <2>6, FloorIsKept DEF Sum, Known
  <2> QED  BY <2>1, <2>3, <2>4, <2>5, <2>6
<1>2. CASE k \in entries
  <2>1. UNCHANGED <<balance, entries>>
    BY <1>2 DEF Post
  <2> QED  BY <1>1, <2>1 DEF LedgerInv, AccountIsItsLedger, EntriesOf, Sum, Known
<1>3. CASE k \notin entries
  BY <1>0, <1>1, <1>3, PostToLedger DEF LedgerInv
<1> QED  BY <1>2, <1>3

\* Nothing has been taken since all that there is.
LEMMA NothingSince ==
  ASSUME NEW p
  PROVE  /\ EntriesOf(p) \subseteq entries
         /\ Sum(DebitsSince(p, EntriesOf(p))) = 0
<1>1. DebitsSince(p, EntriesOf(p)) = {}
  BY DEF DebitsSince
<1> QED  BY <1>1, SumEmpty DEF Sum, EntriesOf

(* The check of a payout: an account that is there covers the amount.       *)
LEMMA CheckKeepsLedger ==
  ASSUME SettlementInv, LedgerInv, NEW r \in Requests, CheckPayout(r)
  PROVE  LedgerInv'
<1> DEFINE p == PartyOf[r]
<1>1. /\ r \in Payouts /\ Covers(balance[p], AmountOf[r])
      /\ approving' = approving \cup {r} /\ UNCHANGED <<balance, entries>>
      /\ seen' = [seen EXCEPT ![r] = EntriesOf(p)]
      /\ seen \in [Payouts -> SUBSET Keys] /\ approving \subseteq Payouts
  BY DEF CheckPayout, SettlementInv, SettlementTypeOK
<1>2. /\ p \in Parties /\ AmountOf[r] \in Int
      /\ balance \in [Parties -> Int \cup {NoAccount}] /\ NoAccount \notin Int
  BY SettlementAssumption DEF Keys, SettlementInv, SettlementTypeOK
<1>3. OpeningBalance[p] # NoAccount \/ EntriesOf(p) # {}
        => balance[p] # NoAccount /\ Known(balance[p]) >= AmountOf[r] + 0
  BY <1>1, <1>2 DEF Covers, Known, LedgerInv, AccountIsItsLedger
<1>4. CoveredSinceChecked'
  <2> SUFFICES ASSUME NEW s \in approving'
               PROVE  /\ seen'[s] \subseteq entries
                      /\ OpeningBalance[PartyOf[s]] # NoAccount \/ seen'[s] # {} =>
                           /\ balance[PartyOf[s]] # NoAccount
                           /\ Known(balance[PartyOf[s]])
                                >= AmountOf[s] + Sum(DebitsSince(PartyOf[s], seen'[s]))
    BY <1>1 DEF CoveredSinceChecked, HadAccount, Sum, Known, DebitsSince, EntriesOf
  <2>1. CASE s = r
    BY <1>1, <1>3, <2>1, NothingSince
  <2>2. CASE s # r
    BY <1>1, <2>2 DEF LedgerInv, CoveredSinceChecked, HadAccount
  <2> QED  BY <2>1, <2>2
<1>5. AccountIsItsLedger'
  BY <1>1 DEF LedgerInv, AccountIsItsLedger, EntriesOf, Sum, Known
<1> QED  BY <1>1, <1>4, <1>5 DEF LedgerInv

(* A step that posts nothing and starts no approval.                        *)
LEMMA QuietKeepsLedger ==
  ASSUME LedgerInv, UNCHANGED <<balance, entries>>, approving' \subseteq approving,
         \A r \in approving' : seen'[r] = seen[r]
  PROVE  LedgerInv'
  BY DEF LedgerInv, AccountIsItsLedger, CoveredSinceChecked, HadAccount, DebitsSince,
         EntriesOf, Sum, Known

LEMMA SettlementKeepsLedger ==
  ASSUME SettlementInv, LedgerInv, SettlementStep
  PROVE  LedgerInv'
<1>0. /\ approving \subseteq Payouts /\ Payments \cap Payouts = {}
      /\ Requests \cap Postings = {} /\ seen \in [Payouts -> SUBSET Keys]
  BY SettlementAssumption DEF SettlementInv, SettlementTypeOK
<1>1. ASSUME NEW r \in Requests,
             RequestPayment(r) \/ RequestPayout(r) \/ Reject(r) \/ ApprovalDies(r)
      PROVE  LedgerInv'
  BY <1>0, <1>1, QuietKeepsLedger
  DEF RequestPayment, RequestPayout, Reject, ApprovalDies
<1>2. ASSUME NEW r \in Requests, ApprovePayment(r) PROVE LedgerInv'
  BY <1>0, <1>2, PostKeepsLedger DEF ApprovePayment, Keys
<1>3. ASSUME NEW r \in Requests, CheckPayout(r) PROVE LedgerInv'
  BY <1>3, CheckKeepsLedger
<1>4. ASSUME NEW r \in Requests, PostPayout(r) PROVE LedgerInv'
  BY <1>0, <1>4, PostKeepsLedger DEF PostPayout, Keys
<1>5. ASSUME NEW k \in Postings, PostDirectly(k) PROVE LedgerInv'
  <2>1. k \in Keys
    BY DEF Keys
  <2> QED  BY <1>5, <2>1, PostKeepsLedger DEF PostDirectly
<1> QED  BY <1>1, <1>2, <1>3, <1>4, <1>5 DEF SettlementStep
-----------------------------------------------------------------------------
(* Orders and deliveries.                                                   *)

\* What each step of an order and of a delivery does to their columns.
OrderTypes ==
  /\ order \in [Orders -> OrderStatus]
  /\ method \in [Orders -> Methods]
  /\ actor \in [Orders -> {"nobody", "customer", "owner", "admin"}]
  /\ canceling \subseteq Orders
DeliveryTypes ==
  /\ delivery \in [Orders -> [status : DeliveryStatus, driver : Drivers \cup {NoDriver}]]
  /\ claiming \subseteq Drivers \X Orders
  /\ read \in [Drivers \X Orders -> SUBSET Keys]

Lawful(o) ==
  order'[o] # order[o] =>
    /\ actor'[o] = "customer"
         => <<order[o], order'[o]>> \in {<<"none", "placed">>, <<"placed", "cancelled">>}
    /\ actor'[o] = "owner" => order[o] \notin Final \cup {"none"}

KeptByDriver(o) ==
  delivery[o].driver # NoDriver => delivery'[o].driver = delivery[o].driver

\* The guard sees the status that is overwritten.
LEMMA UpdateStatusFacts ==
  ASSUME OrderTypes, NEW o \in Orders, NEW by \in {"customer", "owner", "admin"},
         NEW to \in OrderStatus, UpdateStatus(o, by, to)
  PROVE  /\ order' \in [Orders -> OrderStatus]
         /\ actor' \in [Orders -> {"nobody", "customer", "owner", "admin"}]
         /\ method' = method
         /\ \A p \in Orders : Lawful(p)
<1>1. /\ order' = [order EXCEPT ![o] = to] /\ actor' = [actor EXCEPT ![o] = by]
      /\ method' = method /\ Guard(by, order[o], to) /\ order[o] \in OrderStatus
  BY DEF UpdateStatus, OrderTypes
<1>2. /\ order' \in [Orders -> OrderStatus]
      /\ actor' \in [Orders -> {"nobody", "customer", "owner", "admin"}]
  BY <1>1 DEF OrderTypes
<1>3. ASSUME NEW p \in Orders \ {o} PROVE Lawful(p)
  BY <1>1 DEF Lawful, OrderTypes
<1>4. by = "customer" => order[o] = "placed" /\ to = "cancelled"
  BY <1>1 DEF Guard
<1>5. by = "owner" => order[o] \notin Final \cup {"none"}
  BY <1>1 DEF Guard, OwnerNext, Final, OrderStatus
<1>6. order'[o] = to /\ actor'[o] = by
  BY <1>1 DEF OrderTypes
<1>7. Lawful(o)
  BY <1>4, <1>5, <1>6 DEF Lawful
<1> QED BY <1>1, <1>2, <1>3, <1>7

LEMMA OrderStepFacts ==
  ASSUME OrderTypes, NEW o \in Orders, OrderStep(o)
  PROVE  /\ OrderTypes'
         /\ \A p \in Orders : Lawful(p)
         /\ UNCHANGED <<deliveryVars, settlementVars>>
<1> DEFINE Goal == /\ OrderTypes'
                   /\ \A p \in Orders : Lawful(p)
                   /\ UNCHANGED <<deliveryVars, settlementVars>>
<1>1. ASSUME CreateOrder(o) PROVE Goal
  <2>1. /\ order' = [order EXCEPT ![o] = "placed"] /\ order[o] = "none"
        /\ actor' = [actor EXCEPT ![o] = "customer"]
        /\ UNCHANGED <<method, canceling, deliveryVars, settlementVars>>
    BY <1>1 DEF CreateOrder
  <2>2. OrderTypes'
    BY <2>1 DEF OrderTypes, OrderStatus
  <2>3. \A p \in Orders : Lawful(p)
    BY <2>1 DEF Lawful, OrderTypes
  <2> QED BY <2>1, <2>2, <2>3
<1>2. ASSUME NEW by \in {"owner", "admin"}, SetStatus(o, by) PROVE Goal
  BY <1>2, UpdateStatusFacts DEF SetStatus, OrderTypes
<1>3. ASSUME CustomerReads(o) PROVE Goal
  BY <1>3 DEF CustomerReads, OrderTypes, Lawful
<1>4. ASSUME CustomerCancels(o) PROVE Goal
  <2>1. /\ canceling' \subseteq canceling
        /\ UNCHANGED <<deliveryVars, settlementVars>>
        /\ UpdateStatus(o, "customer", "cancelled") \/ UNCHANGED <<order, method, actor>>
    BY <1>4 DEF CustomerCancels
  <2>2. CASE UpdateStatus(o, "customer", "cancelled")
    BY <2>1, <2>2, UpdateStatusFacts DEF OrderTypes, OrderStatus
  <2>3. CASE UNCHANGED <<order, method, actor>>
    BY <2>1, <2>3 DEF OrderTypes, Lawful
  <2> QED BY <2>1, <2>2, <2>3
<1> QED BY <1>1, <1>2, <1>3, <1>4 DEF OrderStep

LEMMA DeliveryStepFacts ==
  ASSUME DeliveryTypes, SettlementTypeOK, NEW o \in Orders, DeliveryStep(o)
  PROVE  /\ DeliveryTypes'
         /\ \A p \in Orders : KeptByDriver(p)
         /\ UNCHANGED <<orderVars, settlementVars>>
<1> DEFINE Goal == /\ DeliveryTypes'
                   /\ \A p \in Orders : KeptByDriver(p)
                   /\ UNCHANGED <<orderVars, settlementVars>>
<1>1. ASSUME NEW s \in DeliveryStatus, delivery' = [delivery EXCEPT ![o].status = s],
             UNCHANGED <<claiming, read, orderVars, settlementVars>>
      PROVE  Goal
  BY <1>1 DEF DeliveryTypes, KeptByDriver
<1>2. ASSUME RequestDelivery(o) \/ PickUp(o) \/ Deliver(o) \/ CancelDelivery(o)
      PROVE  Goal
  <2>1. \E s \in {"requested", "picked_up", "delivered", "cancelled"} :
          delivery' = [delivery EXCEPT ![o].status = s]
    BY <1>2 DEF RequestDelivery, PickUp, Deliver, CancelDelivery
  <2>2. UNCHANGED <<claiming, read, orderVars, settlementVars>>
    BY <1>2 DEF RequestDelivery, PickUp, Deliver, CancelDelivery
  <2> QED BY <1>1, <2>1, <2>2 DEF DeliveryStatus
<1>3. ASSUME NEW d \in Drivers, ClaimReads(d, o) PROVE Goal
  BY <1>3 DEF ClaimReads, DeliveryTypes, KeptByDriver, SettlementTypeOK, EntriesOf
<1>4. ASSUME NEW d \in Drivers, ClaimWrites(d, o) PROVE Goal
  BY <1>4 DEF ClaimWrites, DeliveryTypes, KeptByDriver, DeliveryStatus
<1> QED BY <1>2, <1>3, <1>4 DEF DeliveryStep
-----------------------------------------------------------------------------
OrdersInv == OrderTypes /\ DeliveryTypes /\ SettlementInv

LEMMA OrdersInitInv == Init => OrdersInv
<1> SUFFICES ASSUME Init PROVE OrdersInv
  OBVIOUS
<1>1. OrderTypes
  BY DEF Init, OrderTypes, OrderStatus
<1>2. DeliveryTypes
  BY DEF Init, DeliveryTypes, DeliveryStatus
<1> QED BY <1>1, <1>2, SettlementInitInv DEF Init, OrdersInv

LEMMA OrdersStep ==
  ASSUME OrdersInv, [Next]_vars
  PROVE  /\ OrdersInv'
         /\ \A o \in Orders : Lawful(o) /\ KeptByDriver(o)
<1> USE DEF OrdersInv
<1>1. ASSUME UNCHANGED settlementVars PROVE SettlementInv'
  BY <1>1 DEF settlementVars, SettlementInv, SettlementTypeOK, ApprovingIsRequested,
              PostedIfApproved
<1>2. ASSUME UNCHANGED orderVars PROVE OrderTypes' /\ \A o \in Orders : Lawful(o)
  BY <1>2 DEF orderVars, OrderTypes, Lawful
<1>3. ASSUME UNCHANGED deliveryVars
      PROVE  DeliveryTypes' /\ \A o \in Orders : KeptByDriver(o)
  BY <1>3 DEF deliveryVars, DeliveryTypes, KeptByDriver
<1>4. CASE \E o \in Orders : OrderStep(o)
  BY <1>1, <1>3, <1>4, OrderStepFacts
<1>5. CASE \E o \in Orders : DeliveryStep(o)
  BY <1>1, <1>2, <1>5, DeliveryStepFacts DEF SettlementInv
<1>6. CASE SettlementStep /\ UNCHANGED <<orderVars, deliveryVars>>
  BY <1>2, <1>3, <1>6, SettlementStepInv
<1>7. CASE UNCHANGED vars
  BY <1>1, <1>2, <1>3, <1>7 DEF vars
<1> QED BY <1>4, <1>5, <1>6, <1>7 DEF Next

LEMMA OrdersInvariant == Spec => []OrdersInv
  BY OrdersInitInv, OrdersStep, PTL DEF Spec

(* The tables of orders, deliveries and settlements keep their types.       *)
THEOREM OrdersTypeCorrect == Spec => []OrdersTypeOK
<1>1. OrdersInv => OrdersTypeOK
  BY DEF OrdersInv, OrdersTypeOK, OrderTypes, DeliveryTypes, SettlementInv
<1> QED BY <1>1, OrdersInvariant, PTL

(* settlement_entries and the requests agree: nothing is posted that is not *)
(* approved, and nothing approved that is not posted.                       *)
THEOREM PostedIfApprovedHolds == Spec => []PostedIfApproved
<1>1. OrdersInv => PostedIfApproved
  BY DEF OrdersInv, SettlementInv
<1> QED BY <1>1, OrdersInvariant, PTL

(* The trigger keeps customers and merchants to the changes that are theirs.*)
THEOREM EventsAreLawfulHolds == Spec => EventsAreLawful
<1>1. OrdersInv /\ [Next]_vars =>
        [\A o \in Orders : order'[o] # order[o] =>
           /\ actor'[o] = "customer"
                => <<order[o], order'[o]>> \in {<<"none", "placed">>,
                                              <<"placed", "cancelled">>}
           /\ actor'[o] = "owner" => order[o] \notin Final \cup {"none"}]_vars
  BY OrdersStep DEF Lawful
<1> QED BY <1>1, OrdersInvariant, PTL DEF Spec, EventsAreLawful

(* No claim takes a delivery from the driver who has it.                    *)
THEOREM FirstClaimStandsHolds == Spec => FirstClaimStands
<1>1. OrdersInv /\ [Next]_vars =>
        [\A o \in Orders : delivery[o].driver # NoDriver
           => delivery'[o].driver = delivery[o].driver]_vars
  BY OrdersStep DEF KeptByDriver
<1> QED BY <1>1, OrdersInvariant, PTL DEF Spec, FirstClaimStands
-----------------------------------------------------------------------------
(* Who carries cash.  Since a claim has read an account that is within the  *)
(* limit, only what others have taken has lowered it.                       *)

\* a cash claim that is on its way
WithinSinceRead(d, o) ==
  /\ read[<<d, o>>] \subseteq entries
  /\ Known(balance[d]) >= -CashLimit + Sum(DebitsSince(d, read[<<d, o>>]))

CarrierInv ==
  \A d \in Drivers, o \in Orders :
    method[o] = "cod" /\ <<d, o>> \in claiming => WithinSinceRead(d, o)

CashInv == LedgerInv /\ CarrierInv

\* d takes the cash delivery o
Takes(d, o) ==
  /\ method[o] = "cod"
  /\ delivery'[o].driver = d /\ delivery[o].driver # d

LEMMA OrderKeepsMethod ==
  ASSUME NEW o \in Orders, OrderStep(o)
  PROVE  method' = method
  BY DEF OrderStep, CreateOrder, SetStatus, CustomerReads, CustomerCancels, UpdateStatus

LEMMA CashInit == Init => CashInv
  BY LedgerInit DEF Init, CashInv, CarrierInv

\* What an entry does to a claim that is on its way.
LEMMA EntryKeepsClaims ==
  ASSUME OrdersInv, CashInv, SettlementStep, UNCHANGED <<orderVars, deliveryVars>>
  PROVE  CarrierInv'
<1> SUFFICES ASSUME NEW d \in Drivers, NEW o \in Orders, method[o] = "cod",
                    <<d, o>> \in claiming
             PROVE  WithinSinceRead(d, o)'
  BY DEF CarrierInv, orderVars, deliveryVars
<1>1. WithinSinceRead(d, o) /\ read' = read
  BY DEF CashInv, CarrierInv, deliveryVars
<1>2. d \in Parties /\ -CashLimit \in Int
  BY OrdersAssumption
<1>3. CASE UNCHANGED <<balance, entries>>
  BY <1>1, <1>3 DEF WithinSinceRead, DebitsSince, EntriesOf, Sum, Known
<1>4. ASSUME NEW k \in Keys, Post(k) PROVE WithinSinceRead(d, o)'
  BY <1>1, <1>2, <1>4, FloorIsKept
  DEF OrdersInv, SettlementInv, CashInv, WithinSinceRead, Sum, Known, DebitsSince,
      EntriesOf
<1> QED  BY <1>3, <1>4
  DEF SettlementStep, RequestPayment, RequestPayout, ApprovePayment, CheckPayout,
      PostPayout, ApprovalDies, Reject, PostDirectly, Keys

\* Only a claim gives a delivery to a driver, and it has read his account.
LEMMA DeliveryKeepsCarriers ==
  ASSUME OrdersInv, CashInv, NEW o \in Orders, DeliveryStep(o)
  PROVE  /\ CarrierInv'
         /\ \A d \in Drivers, q \in Orders : Takes(d, q) => WithinSinceRead(d, q)
<1> USE DEF CashInv, OrdersInv
<1>1. UNCHANGED <<orderVars, settlementVars>>
  BY DeliveryStepFacts DEF SettlementInv
<1>2. method' = method /\ UNCHANGED <<balance, entries>>
  BY <1>1 DEF orderVars, settlementVars
<1>3. \A d \in Drivers, q \in Orders :
        read'[<<d, q>>] = read[<<d, q>>] /\ WithinSinceRead(d, q)
          => WithinSinceRead(d, q)'
  BY <1>2 DEF WithinSinceRead, DebitsSince, EntriesOf, Sum, Known
<1>4. read \in [Drivers \X Orders -> SUBSET Keys] /\ CarrierInv
  BY DEF DeliveryTypes
<1>5. ASSUME NEW e \in Drivers, ClaimReads(e, o)
      PROVE  CarrierInv' /\ \A d \in Drivers, q \in Orders : ~Takes(d, q)
  <2>1. /\ claiming' = claiming \cup {<<e, o>>} /\ delivery' = delivery
        /\ read' = [read EXCEPT ![<<e, o>>] = EntriesOf(e)]
        /\ method[o] = "cod" => Known(balance[e]) >= -CashLimit
    BY <1>5 DEF ClaimReads, MayCarry
  <2>2. method[o] = "cod" => WithinSinceRead(e, o)'
    <3>1. read'[<<e, o>>] = EntriesOf(e)
      BY <1>4, <2>1
    <3>2. /\ EntriesOf(e) \subseteq entries
          /\ Sum(DebitsSince(e, EntriesOf(e))) = 0
      BY NothingSince
    <3>3. -CashLimit + 0 = -CashLimit
      BY OrdersAssumption
    <3>4. method[o] = "cod" =>
            Known(balance[e]) >= -CashLimit + Sum(DebitsSince(e, EntriesOf(e)))
      BY <2>1, <3>2, <3>3
    <3> QED  BY <1>2, <3>1, <3>2, <3>4
             DEF WithinSinceRead, DebitsSince, EntriesOf, Sum, Known
  <2>3. ASSUME NEW d \in Drivers, NEW q \in Orders, <<d, q>> # <<e, o>>
        PROVE  read'[<<d, q>>] = read[<<d, q>>]
    BY <1>4, <2>1, <2>3
  <2>4. CarrierInv'
    BY <1>2, <1>3, <1>4, <2>1, <2>2, <2>3 DEF CarrierInv
  <2> QED  BY <2>1, <2>4 DEF Takes
<1>6. ASSUME NEW e \in Drivers, ClaimWrites(e, o)
      PROVE  /\ CarrierInv'
             /\ \A d \in Drivers, q \in Orders : Takes(d, q) => WithinSinceRead(d, q)
  <2>1. /\ <<e, o>> \in claiming /\ claiming' = claiming \ {<<e, o>>}
        /\ read' = [read EXCEPT ![<<e, o>>] = {}]
        /\ \/ delivery' = [delivery EXCEPT ![o] =
                              [status |-> "assigned", driver |-> e]]
           \/ delivery' = delivery
    BY <1>6 DEF ClaimWrites
  <2>2. \A d \in Drivers, q \in Orders :
          <<d, q>> # <<e, o>> => read'[<<d, q>>] = read[<<d, q>>]
    BY <1>4, <2>1
  <2>3. CarrierInv'
    BY <1>2, <1>3, <1>4, <2>1, <2>2 DEF CarrierInv
  <2>4. ASSUME NEW d \in Drivers, NEW q \in Orders, Takes(d, q)
        PROVE  d = e /\ q = o
    BY <2>1, <2>4 DEF Takes, DeliveryTypes
  <2> QED  BY <1>4, <2>1, <2>3, <2>4 DEF CarrierInv, Takes
<1>7. ASSUME RequestDelivery(o) \/ PickUp(o) \/ Deliver(o) \/ CancelDelivery(o)
      PROVE  CarrierInv' /\ \A d \in Drivers, q \in Orders : ~Takes(d, q)
  <2>1. /\ \E s : delivery' = [delivery EXCEPT ![o].status = s]
        /\ claiming' = claiming /\ read' = read
    BY <1>7 DEF RequestDelivery, PickUp, Deliver, CancelDelivery
  <2>2. \A q \in Orders : delivery'[q].driver = delivery[q].driver
    BY <2>1 DEF DeliveryTypes
  <2> QED  BY <1>2, <1>3, <1>4, <2>1, <2>2 DEF CarrierInv, Takes
<1> QED  BY <1>5, <1>6, <1>7 DEF DeliveryStep

LEMMA CashStep ==
  ASSUME OrdersInv, CashInv, [Next]_vars
  PROVE  /\ CashInv'
         /\ \A d \in Drivers, o \in Orders : Takes(d, o) => WithinSinceRead(d, o)
<1> USE DEF CashInv
<1>1. ASSUME UNCHANGED settlementVars PROVE LedgerInv'
  BY <1>1, QuietKeepsLedger DEF settlementVars
<1>2. ASSUME method' = method, UNCHANGED <<deliveryVars, balance, entries>>
      PROVE  /\ CarrierInv'
             /\ \A d \in Drivers, o \in Orders : ~Takes(d, o)
  BY <1>2 DEF CarrierInv, deliveryVars, WithinSinceRead, DebitsSince, EntriesOf, Sum,
              Known, Takes
<1>3. CASE \E o \in Orders : OrderStep(o)
  <2>1. method' = method /\ UNCHANGED <<deliveryVars, settlementVars>>
    BY <1>3, OrderStepFacts, OrderKeepsMethod DEF OrdersInv
  <2> QED  BY <1>1, <1>2, <2>1 DEF settlementVars
<1>4. CASE \E o \in Orders : DeliveryStep(o)
  BY <1>1, <1>4, DeliveryStepFacts, DeliveryKeepsCarriers DEF OrdersInv, SettlementInv
<1>5. CASE SettlementStep /\ UNCHANGED <<orderVars, deliveryVars>>
  <2>1. LedgerInv'
    BY <1>5, SettlementKeepsLedger DEF OrdersInv
  <2>2. CarrierInv'
    BY <1>5, EntryKeepsClaims
  <2> QED  BY <1>5, <2>1, <2>2 DEF deliveryVars, Takes
<1>6. CASE UNCHANGED vars
  BY <1>1, <1>2, <1>6 DEF vars, orderVars, settlementVars
<1> QED  BY <1>3, <1>4, <1>5, <1>6 DEF Next

LEMMA CashInvariant == Spec => []CashInv
<1>1. OrdersInv /\ CashInv /\ [Next]_vars => CashInv'
  BY CashStep
<1> QED  BY <1>1, OrdersInvariant, CashInit, PTL DEF Spec

(* Every account is its opening balance plus its entries, and no entry is   *)
(* posted to a party without an account.                                    *)
THEOREM AccountIsItsLedgerHolds == Spec => []AccountIsItsLedger
<1>1. CashInv => AccountIsItsLedger
  BY DEF CashInv, LedgerInv
<1> QED  BY <1>1, CashInvariant, PTL

\* A payout is posted by its own approval, which has checked the account.
LEMMA PostedIsCovered ==
  ASSUME OrdersInv, CashInv, SettlementStep, NEW r \in Payouts, Posted(r),
         HadAccount(r)
  PROVE  CoveredButForOthers(r)
<1> DEFINE p == PartyOf[r]
<1>1. PostPayout(r)
  <2>1. ASSUME NEW k, Post(k) PROVE k = r
    BY <2>1 DEF Post, Posted
  <2>2. r \notin Payments /\ r \notin Postings
    BY SettlementAssumption DEF Requests
  <2> QED  BY <2>1, <2>2
    DEF SettlementStep, RequestPayment, RequestPayout, ApprovePayment, CheckPayout,
        PostPayout, ApprovalDies, Reject, PostDirectly, Posted
<1>2. /\ r \in Requests /\ r \in Keys /\ p \in Parties
      /\ AmountOf[r] \in Int /\ Delta(r) = -AmountOf[r]
  BY SettlementAssumption DEF Delta, Requests, Keys
<1>3. /\ balance[p] \in Int
      /\ balance[p] >= AmountOf[r] + Sum(DebitsSince(p, seen[r]))
  BY <1>1, <1>2 DEF PostPayout, CashInv, LedgerInv, CoveredSinceChecked, OrdersInv,
                    SettlementInv, SettlementTypeOK, Known
<1>4. balance'[p] = balance[p] - AmountOf[r]
  BY <1>1, <1>2, <1>3, SettlementAssumption
  DEF PostPayout, Post, Posted, Known, OrdersInv, SettlementInv, SettlementTypeOK
<1>5. Sum(DebitsSince(p, seen[r])) \in Int
  <2>1. DebitsSince(p, seen[r]) \in SUBSET EntriesOf(p)
    BY DEF DebitsSince
  <2> QED  BY <2>1, EntriesAreFinite, SumOfEntries
           DEF CashInv, LedgerInv, OrdersInv, SettlementInv
<1> DEFINE taken == Sum(DebitsSince(p, seen[r]))
<1>6. balance'[p] >= taken
  <2>1. taken \in Int /\ balance[p] >= AmountOf[r] + taken
    BY <1>3, <1>5
  <2> HIDE DEF taken
  <2> QED  BY <1>2, <1>3, <1>4, <2>1
<1> QED  BY <1>6 DEF CoveredButForOthers

(* A payout overdraws its party by no more than what was taken between its  *)
(* check and its posting, however many approvals overlap.                   *)
THEOREM OverdrawnByOverlapOnlyHolds == Spec => OverdrawnByOverlapOnly
<1>1. OrdersInv /\ CashInv /\ [Next]_vars =>
        [\A r \in Payouts :
           Posted(r) /\ HadAccount(r) => CoveredButForOthers(r)]_settlementVars
  <2> SUFFICES ASSUME OrdersInv, CashInv, [Next]_vars, NEW r \in Payouts,
                      Posted(r), HadAccount(r)
               PROVE  CoveredButForOthers(r)
    OBVIOUS
  <2>1. ~UNCHANGED settlementVars
    BY DEF Posted, settlementVars
  <2>2. SettlementStep
    BY <2>1, OrderStepFacts, DeliveryStepFacts DEF Next, vars, OrdersInv, SettlementInv
  <2> QED  BY <2>2, PostedIsCovered
<1> QED  BY <1>1, OrdersInvariant, CashInvariant, PTL DEF Spec, OverdrawnByOverlapOnly

(* A driver takes a cash delivery only while he owes no more than the limit *)
(* and what was taken after his claim had read the account.                 *)
THEOREM CashCarriersWithinLimitHolds == Spec => CashCarriersWithinLimit
<1>1. OrdersInv /\ CashInv /\ [Next]_vars =>
        [\A d \in Drivers, o \in Orders :
           /\ method[o] = "cod"
           /\ delivery'[o].driver = d /\ delivery[o].driver # d
           => Known(balance[d])
                >= -CashLimit + Sum(DebitsSince(d, read[<<d, o>>]))]_vars
  BY CashStep DEF Takes, WithinSinceRead
<1> QED  BY <1>1, OrdersInvariant, CashInvariant, PTL DEF Spec, CashCarriersWithinLimit
=============================================================================

--------------------------- MODULE MatchLoopProofs ---------------------------
(***************************************************************************)
(* A theorem about the matching loop, for any drivers and any number of     *)
(* passes, when it takes more than one empty answer to fall back.           *)
(***************************************************************************)
EXTENDS MatchLoop, TLAPS

(* Why the fallback is out of reach: a search for a rider who asked for      *)
(* women drivers and is still looking has counted no empty answer yet, so    *)
(* the next one is the first, not the last, and ends it.                     *)
NothingCounted ==
  /\ ~fallback
  /\ outcome = "looking" /\ wanted => attempts = 0

\* outcomes are not drivers; more than one empty answer leads to the fallback
LoopConstants ==
  /\ {"looking", "none"} \cap Drivers = {}
  /\ MaxPreferred \in Nat /\ MaxPreferred > 1

LoopInv == NothingCounted /\ WantedIsKept

LEMMA LoopInit ==
  ASSUME LoopConstants PROVE Init => LoopInv
  BY DEF LoopConstants, Init, LoopInv, NothingCounted, WantedIsKept

LEMMA LoopStep ==
  ASSUME LoopConstants, LoopInv, [Next]_vars
  PROVE  LoopInv'
<1> USE DEF LoopConstants, LoopInv, NothingCounted, WantedIsKept
<1>1. CASE GiveUp
  <2>1. outcome' = "none" /\ fallback' = FALSE
    <3>1. ~(wanted /\ ~fallback /\ attempts + 1 >= MaxPreferred)
      BY <1>1 DEF GiveUp
    <3> QED  BY <1>1, <3>1 DEF GiveUp
  <2> QED  BY <2>1
<1>2. CASE Exhausted
  BY <1>2 DEF Exhausted
<1>3. ASSUME NEW d \in Drivers, Conflict(d) PROVE LoopInv'
  BY <1>3 DEF Conflict
<1>4. ASSUME NEW d \in Drivers, Match(d) PROVE LoopInv'
  <2>1. outcome' = d /\ d # "looking" /\ UNCHANGED <<wanted, optedIn, fallback>>
    BY <1>4 DEF Match
  <2>2. wanted => d \in optedIn
    BY <1>4 DEF Match, Candidates
  <2> QED  BY <2>1, <2>2
<1>5. ASSUME NEW d \in Drivers, TakenByOthers(d) PROVE LoopInv'
  BY <1>5 DEF TakenByOthers
<1>6. CASE UNCHANGED vars
  BY <1>6 DEF vars
<1> QED  BY <1>1, <1>2, <1>3, <1>4, <1>5, <1>6 DEF Next

(* Whatever other transactions take meanwhile, and however many passes the   *)
(* loop has: a rider who asked for women drivers is given one or nobody,     *)
(* because the first empty answer ends the search.                           *)
THEOREM WantedIsKeptHolds ==
  ASSUME LoopConstants PROVE Spec => []WantedIsKept
<1>1. LoopInv /\ [Next]_vars => LoopInv'
  BY LoopStep
<1>2. LoopInv => WantedIsKept
  BY DEF LoopInv
<1> QED  BY <1>1, <1>2, LoopInit, PTL DEF Spec
=============================================================================

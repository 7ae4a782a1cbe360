------------------------------ MODULE MatchLoop ------------------------------
(***************************************************************************)
(* The matching loop of dispatch_match_ride, attempt by attempt: Dispatch   *)
(* models its net effect on the rows, this module how it looks for a driver *)
(* and what becomes of a rider's preference for women drivers.              *)
(*                                                                          *)
(* Each attempt is one query with its own snapshot, so other transactions   *)
(* may take drivers between two attempts.                                   *)
(***************************************************************************)
EXTENDS Naturals

CONSTANTS
  Drivers,
  MaxTries,      \* passes of the FOR loop
  MaxPreferred   \* preferred attempts before the fallback

VARIABLES
  pool,       \* drivers the candidate query returns, preference apart
  optedIn,    \* drivers eligible and opted in to the preference
  conflicted, \* drivers whose old match row still blocks the unique index
  wanted,     \* women_preferences_requested
  pass,       \* number of the next attempt, i of the FOR loop
  tried,      \* drivers tried without success
  attempts,   \* v_women_pref_attempts
  fallback,   \* v_women_pref_fallback
  outcome     \* "looking", "none", or the driver

vars == <<pool, optedIn, conflicted, wanted, pass, tried, attempts, fallback,
          outcome>>

\* what the query of one attempt may return
Candidates ==
  {d \in pool \ tried : (wanted /\ ~fallback) => d \in optedIn}

Init ==
  /\ pool \in SUBSET Drivers
  /\ optedIn \in SUBSET Drivers
  /\ conflicted \in SUBSET Drivers
  /\ wanted \in BOOLEAN
  /\ pass = 1
  /\ tried = {}
  /\ attempts = 0
  /\ fallback = FALSE
  /\ outcome = "looking"

\* nobody found: count the attempt if the preference is on; at the maximum
\* turn to the fallback and go round again, otherwise leave the loop
GiveUp ==
  LET preferred == wanted /\ ~fallback
      last == preferred /\ attempts + 1 >= MaxPreferred
  IN
  /\ outcome = "looking" /\ pass <= MaxTries /\ Candidates = {}
  /\ attempts' = IF preferred THEN attempts + 1 ELSE attempts
  /\ fallback' = (fallback \/ last)
  /\ pass' = pass + 1
  /\ outcome' = IF last THEN "looking" ELSE "none"
  /\ UNCHANGED <<pool, optedIn, conflicted, wanted, tried>>

\* the unique index refuses the match; the driver is handed back and skipped
\* from now on
Conflict(d) ==
  /\ outcome = "looking" /\ pass <= MaxTries
  /\ d \in Candidates \cap conflicted
  /\ tried' = tried \cup {d}
  /\ pass' = pass + 1
  /\ UNCHANGED <<pool, optedIn, conflicted, wanted, attempts, fallback,
                 outcome>>

Match(d) ==
  /\ outcome = "looking" /\ pass <= MaxTries
  /\ d \in Candidates \ conflicted
  /\ outcome' = d
  /\ UNCHANGED <<pool, optedIn, conflicted, wanted, pass, tried, attempts,
                 fallback>>

\* all attempts used
Exhausted ==
  /\ outcome = "looking" /\ pass > MaxTries
  /\ outcome' = "none"
  /\ UNCHANGED <<pool, optedIn, conflicted, wanted, pass, tried, attempts,
                 fallback>>

\* another transaction reserves d between two attempts
TakenByOthers(d) ==
  /\ outcome = "looking" /\ d \in pool
  /\ pool' = pool \ {d}
  /\ UNCHANGED <<optedIn, conflicted, wanted, pass, tried, attempts, fallback,
                 outcome>>

Next ==
  \/ GiveUp
  \/ Exhausted
  \/ \E d \in Drivers : Conflict(d) \/ Match(d) \/ TakenByOthers(d)

Spec == Init /\ [][Next]_vars
-----------------------------------------------------------------------------
(* A rider who asked for women drivers is given one or nobody.  This is how  *)
(* the loop behaves, not what its comments say it does: only a second empty  *)
(* answer turns the fallback on, and the first one ends the search at EXIT   *)
(* WHEN candidate IS NULL.  A loop repaired to fall back as promised breaks  *)
(* this and keeps FallbackBeforeNone.                                        *)
WantedIsKept == outcome \in Drivers /\ wanted => outcome \in optedIn

(* The comments in dispatch_match_ride say "try women-only matching twice    *)
(* before fallback" and "retry with fallback": with drivers left that were   *)
(* never tried, the search for such a rider gives up only after falling back *)
(* or when it has used up its passes.  The code violates it.                 *)
FallbackBeforeNone ==
  wanted /\ outcome = "none" /\ pool \ tried # {} =>
    fallback \/ pass > MaxTries
=============================================================================

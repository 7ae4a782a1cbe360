----------------------------- MODULE WebhookQueue -----------------------------
(***************************************************************************)
(* The durable inbox and the job queue behind the webhooks of the payment   *)
(* providers: provider_events, webhook_jobs, and the workers that call      *)
(* runWebhookJobs (the webhook-job-runner and the background run of every   *)
(* webhook endpoint).                                                       *)
(*                                                                          *)
(* Abstractions.  A lock_token is fresh at every claim, so all that matters *)
(* of it is whether a worker's token is still the one in the row.  A lease  *)
(* (locked_at) is held until it lapses.  Backoff is a free delay.  A worker *)
(* that has claimed a batch is as many workers as the batch has jobs.  What *)
(* a job does to other tables is added by the module that extends this one. *)
(***************************************************************************)
EXTENDS Naturals

CONSTANTS
  Reports,      \* verified deliveries a provider can make
  Events,       \* provider_event_id values
  EventOf,      \* [Reports -> Events], the id an endpoint derives
  Nameless,     \* deliveries that do not say which intent they are about
  Ignorable,    \* deliveries that may come while their provider is disabled,
                \* or that the endpoint has no use for
  NoReport,     \* no row in provider_events
  NoEvent,      \* a worker without a job
  Workers,      \* workers, each with one claimed job at most
  MaxAttempts   \* webhook_jobs.max_attempts

ASSUME QueueAssumption ==
  /\ EventOf \in [Reports -> Events]
  /\ Nameless \cup Ignorable \subseteq Reports
  /\ NoReport \notin Reports
  /\ NoEvent \notin Events
  /\ MaxAttempts \in Nat \ {0}

VARIABLES
  inbox,     \* provider_events.payload, by event id
  handling,  \* deliveries stored by an endpoint that has not enqueued yet
  acked,     \* deliveries answered with 2xx after they were stored
  ignored,   \* deliveries answered with 2xx and not looked at
  job,       \* webhook_jobs: status, attempt_count, lease
  claim      \* what each worker is doing

endpointVars == <<inbox, handling, acked, ignored>>
queueVars == <<inbox, handling, acked, ignored, job, claim>>

JobStatus == {"none", "queued", "failed", "succeeded", "dead"}
Ended == {"succeeded", "dead"}
NoJob == [status |-> "none", attempts |-> 0, lease |-> "free"]
Idle == [event |-> NoEvent, seen |-> 0, phase |-> "idle", token |-> FALSE]

QueueInit ==
  /\ inbox = [e \in Events |-> NoReport]
  /\ handling = {}
  /\ acked = {}
  /\ ignored = {}
  /\ job = [e \in Events |-> NoJob]
  /\ claim = [w \in Workers |-> Idle]
-----------------------------------------------------------------------------
(* The endpoint: two statements, and the answer.                            *)

\* Mutant: the endpoint answers before it has queued the job.
Receive_EarlyAck(m) ==
  /\ m \notin handling
  /\ inbox' = [inbox EXCEPT ![EventOf[m]] = IF @ = NoReport THEN m ELSE @]
  /\ handling' = handling \cup {m}
  /\ acked' = acked \cup {m}
  /\ UNCHANGED <<ignored, job, claim>>

\* storeProviderEvent: a second delivery of an event leaves the row alone
Receive(m) ==
  /\ m \notin handling
  /\ inbox' = [inbox EXCEPT ![EventOf[m]] = IF @ = NoReport THEN m ELSE @]
  /\ handling' = handling \cup {m}
  /\ UNCHANGED <<acked, ignored, job, claim>>

\* enqueueWebhookJob, and the 2xx answer; dedupe_key keeps one job per event
Enqueue(m) ==
  /\ m \in handling \ Nameless
  /\ job' = [job EXCEPT ![EventOf[m]].status =
               IF @ = "none" THEN "queued" ELSE @]
  /\ handling' = handling \ {m}
  /\ acked' = acked \cup {m}
  /\ UNCHANGED <<inbox, ignored, claim>>

\* a delivery that names no intent is answered with 2xx and has no job
AnswerNameless(m) ==
  /\ m \in handling \cap Nameless
  /\ handling' = handling \ {m}
  /\ acked' = acked \cup {m}
  /\ UNCHANGED <<inbox, ignored, job, claim>>

\* the provider is disabled or not configured, or (AsiaPay) the delivery
\* names no intent: answered with 2xx so that it is not repeated
Ignore(m) ==
  /\ m \in Ignorable
  /\ ignored' = ignored \cup {m}
  /\ UNCHANGED <<inbox, handling, acked, job, claim>>

\* the endpoint dies or the insert fails: no 2xx, the provider tries again
HandlerDies(m) ==
  /\ m \in handling
  /\ handling' = handling \ {m}
  /\ UNCHANGED <<inbox, acked, ignored, job, claim>>
-----------------------------------------------------------------------------
(* The workers.                                                             *)

\* w has the job of e; any worker that had it before holds an old token
Claimed(w, e) ==
  [v \in Workers |->
     IF v = w THEN [event |-> e, seen |-> job[e].attempts,
                    phase |-> "work", token |-> TRUE]
     ELSE IF claim[v].event = e THEN [claim[v] EXCEPT !.token = FALSE]
     ELSE claim[v]]

\* Mutant: a job whose worker died is not taken over.
Claim_FreeOnly(w, e) ==
  /\ claim[w] = Idle
  /\ job[e].status \in {"queued", "failed"}
  /\ job[e].attempts < MaxAttempts
  /\ job[e].lease = "free"
  /\ job' = [job EXCEPT ![e].lease = "held"]
  /\ claim' = Claimed(w, e)
  /\ UNCHANGED endpointVars

\* webhook_claim_jobs
Claim(w, e) ==
  /\ claim[w] = Idle
  /\ job[e].status \in {"queued", "failed"}
  /\ job[e].attempts < MaxAttempts
  /\ job[e].lease # "held"
  /\ job' = [job EXCEPT ![e].lease = "held"]
  /\ claim' = Claimed(w, e)
  /\ UNCHANGED endpointVars

\* the processor returns, or throws (ok = FALSE)
Work(w, ok) ==
  /\ claim[w].phase = "work"
  /\ claim' = [claim EXCEPT ![w].phase = IF ok THEN "done" ELSE "failing"]
  /\ UNCHANGED <<endpointVars, job>>

\* markJobDone: the update finds no row when the token is an old one
MarkDone(w) ==
  /\ claim[w].phase = "done"
  /\ job' = IF claim[w].token
              THEN [job EXCEPT ![claim[w].event].status = "succeeded",
                               ![claim[w].event].lease = "free"]
              ELSE job
  /\ claim' = [claim EXCEPT ![w] = Idle]
  /\ UNCHANGED endpointVars

\* markJobDone throws: the catch block counts a failed attempt
MarkDoneThrows(w) ==
  /\ claim[w].phase = "done"
  /\ claim' = [claim EXCEPT ![w].phase = "failing"]
  /\ UNCHANGED <<endpointVars, job>>

FailedRow(c) ==
  [job EXCEPT ![c.event] =
     [status   |-> IF c.seen + 1 >= MaxAttempts THEN "dead" ELSE "failed",
      attempts |-> c.seen + 1,
      lease    |-> "free"]]

\* Mutants: the token is not compared; the last attempt does not kill.
MarkFailed_NoToken(w) ==
  /\ claim[w].phase = "failing"
  /\ job' = FailedRow(claim[w])
  /\ claim' = [claim EXCEPT ![w] = Idle]
  /\ UNCHANGED endpointVars
\* markJobFailed
MarkFailed(w) ==
  /\ claim[w].phase = "failing"
  /\ job' = IF claim[w].token THEN FailedRow(claim[w]) ELSE job
  /\ claim' = [claim EXCEPT ![w] = Idle]
  /\ UNCHANGED endpointVars

\* the edge function is shut down, or markJobFailed throws
WorkerDies(w) ==
  /\ claim[w] # Idle
  /\ claim' = [claim EXCEPT ![w] = Idle]
  /\ UNCHANGED <<endpointVars, job>>

\* p_lock_seconds go by
LeaseLapses(e) ==
  /\ job[e].lease = "held"
  /\ job' = [job EXCEPT ![e].lease = "lapsed"]
  /\ UNCHANGED <<endpointVars, claim>>
-----------------------------------------------------------------------------
EndpointStep(m) == Enqueue(m) \/ AnswerNameless(m) \/ HandlerDies(m)

\* every step of a worker but the processing itself
WorkerStep(w) ==
  \/ \E e \in Events : Claim(w, e)
  \/ MarkDone(w)
  \/ MarkDoneThrows(w)
  \/ MarkFailed(w)
  \/ WorkerDies(w)

QueueNext ==
  \/ \E m \in Reports : Receive(m) \/ Ignore(m) \/ EndpointStep(m)
  \/ \E w \in Workers : WorkerStep(w) \/ \E ok \in BOOLEAN : Work(w, ok)
  \/ \E e \in Events : LeaseLapses(e)

QueueSpec == QueueInit /\ [][QueueNext]_queueVars

\* w is the worker the row of e names
Holds(w, e) == claim[w].event = e /\ claim[w].token
-----------------------------------------------------------------------------
(* Every variable has its type; attempt_count stays within max_attempts.    *)
QueueTypeOK ==
  /\ inbox \in [Events -> Reports \cup {NoReport}]
  /\ handling \subseteq Reports
  /\ acked \subseteq Reports
  /\ ignored \subseteq Reports
  /\ job \in [Events -> [status : JobStatus, attempts : 0..MaxAttempts,
                         lease : {"free", "held", "lapsed"}]]
  /\ claim \in [Workers -> [event : Events \cup {NoEvent},
                            seen  : 0..MaxAttempts,
                            phase : {"idle", "work", "done", "failing"},
                            token : BOOLEAN]]

(* An accepted delivery that names its intent has a row under its event id  *)
(* and a job, wherever an endpoint died before: the 2xx that stops the      *)
(* provider from repeating it is given last.  The row may be that of an     *)
(* earlier delivery with the same id (EveryAckedIsStored); a delivery that  *)
(* names nothing has no job, and one that is ignored has neither.           *)
AckedHasJob ==
  \A m \in acked :
    /\ inbox[EventOf[m]] # NoReport
    /\ m \notin Nameless => job[EventOf[m]].status # "none"

(* docs/webhook-processing.md: "Persist every verified delivery for         *)
(* forensics and safe reprocessing", "Every verified delivery is written to *)
(* public.provider_events".  The code violates it: of two deliveries with   *)
(* one event id the second is answered as accepted and dropped.             *)
EveryAckedIsStored == \A m \in acked : inbox[EventOf[m]] = m

(* A job is dead exactly when it has failed max_attempts times: it neither  *)
(* dies early nor stays "failed" with no attempt left to claim it.          *)
DeadIffExhausted ==
  \A e \in Events : job[e].status = "dead" <=> job[e].attempts = MaxAttempts

(* A job that has ended stays as it is: a worker whose lease lapsed, and    *)
(* who reports late, does not reopen what another worker has finished.      *)
JobStaysEnded ==
  [][\A e \in Events : job[e].status \in Ended => job'[e] = job[e]]_queueVars

(* A queued job is finished or dead in the end, whoever died on the way.    *)
JobEnds ==
  \A e \in Events : job[e].status # "none" ~> job[e].status \in Ended
=============================================================================

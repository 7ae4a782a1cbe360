----------------------------- MODULE TopupProofs -----------------------------
(***************************************************************************)
(* Theorems about the inbox and the job queue, for any number of            *)
(* deliveries, events, workers and attempts, and about the top-ups they     *)
(* settle, for any number of intents, reports and pollers.                  *)
(***************************************************************************)
EXTENDS Topup, TLAPS

-----------------------------------------------------------------------------
(* The inbox and the queue.                                                 *)

\* What is in the queue has been stored, and ended jobs are not leased.
StoredInv ==
  /\ \A m \in handling : inbox[EventOf[m]] # NoReport
  /\ \A e \in Events : job[e].status # "none" => inbox[e] # NoReport
  /\ \A e \in Events : job[e].status \in Ended => job[e].lease = "free"

\* A busy worker has a stored event and an attempt left; a worker without a
\* job is Idle.
BusyInv ==
  \A w \in Workers :
    IF claim[w].phase = "idle" THEN claim[w] = Idle
    ELSE /\ claim[w].event \in Events
         /\ inbox[claim[w].event] # NoReport
         /\ claim[w].seen < MaxAttempts

\* The token of a row is held by one worker at most, and who holds it knows
\* the row: nobody has counted an attempt or ended the job meanwhile.
TokenInv ==
  \A w \in Workers :
    claim[w].token =>
      /\ claim[w].phase # "idle"
      /\ job[claim[w].event].status \in {"queued", "failed"}
      /\ job[claim[w].event].attempts = claim[w].seen
      /\ job[claim[w].event].lease # "free"
      /\ \A v \in Workers :
           claim[v].token /\ claim[v].event = claim[w].event => v = w

QueueInv ==
  /\ QueueTypeOK
  /\ StoredInv
  /\ BusyInv
  /\ TokenInv
  /\ AckedHasJob
  /\ DeadIffExhausted
-----------------------------------------------------------------------------
LEMMA IdleType ==
  /\ Idle \in [event : Events \cup {NoEvent}, seen : 0..MaxAttempts,
               phase : {"idle", "work", "done", "failing"}, token : BOOLEAN]
  /\ Idle.phase = "idle" /\ Idle.token = FALSE /\ Idle.event = NoEvent
  BY QueueAssumption DEF Idle

LEMMA QueueInitInv == QueueInit => QueueInv
<1> SUFFICES ASSUME QueueInit PROVE QueueInv
  OBVIOUS
<1>1. QueueTypeOK
  BY QueueAssumption, IdleType DEF QueueInit, QueueTypeOK, NoJob, JobStatus
<1>2. StoredInv
  BY DEF QueueInit, StoredInv, NoJob, Ended
<1>3. BusyInv /\ TokenInv
  BY IdleType DEF QueueInit, BusyInv, TokenInv
<1>4. AckedHasJob /\ DeadIffExhausted
  BY QueueAssumption DEF QueueInit, AckedHasJob, DeadIffExhausted, NoJob
<1> QED
  BY <1>1, <1>2, <1>3, <1>4 DEF QueueInv

-----------------------------------------------------------------------------
(* The endpoint.                                                            *)

LEMMA ReceiveInv ==
  ASSUME QueueInv, NEW m \in Reports, Receive(m)
  PROVE  QueueInv'
<1> USE DEF QueueInv
<1>1. EventOf[m] \in Events /\ m # NoReport
  BY QueueAssumption
<1>2. inbox' \in [Events -> Reports \cup {NoReport}]
  BY DEF Receive, QueueTypeOK
<1>3. /\ inbox'[EventOf[m]] # NoReport
      /\ \A e \in Events : inbox[e] # NoReport => inbox'[e] # NoReport
  BY <1>1 DEF Receive, QueueTypeOK
<1>4. QueueTypeOK'
  BY <1>2 DEF Receive, QueueTypeOK
<1>5. StoredInv'
  <2>1. \A n \in handling : EventOf[n] \in Events
    BY QueueAssumption DEF QueueTypeOK
  <2> QED
    BY <1>3, <2>1 DEF Receive, StoredInv, QueueTypeOK
<1>6. BusyInv' /\ TokenInv'
  BY <1>3 DEF Receive, BusyInv, TokenInv
<1>7. AckedHasJob' /\ DeadIffExhausted'
  <2>1. \A n \in acked : EventOf[n] \in Events
    BY QueueAssumption DEF QueueTypeOK
  <2> QED
    BY <1>3, <2>1 DEF Receive, AckedHasJob, DeadIffExhausted, QueueTypeOK
<1> QED
  BY <1>4, <1>5, <1>6, <1>7

LEMMA EnqueueInv ==
  ASSUME QueueInv, NEW m \in Reports, Enqueue(m)
  PROVE  QueueInv'
<1> USE DEF QueueInv
<1> DEFINE e0 == EventOf[m]
<1>1. e0 \in Events /\ inbox[e0] # NoReport
  BY QueueAssumption DEF Enqueue, StoredInv
<1>2. \A e \in Events :
        /\ job'[e].attempts = job[e].attempts
        /\ job'[e].lease = job[e].lease
        /\ job'[e].status = IF e = e0 /\ job[e].status = "none"
                              THEN "queued" ELSE job[e].status
  BY <1>1 DEF Enqueue, QueueTypeOK
<1>3. QueueTypeOK'
  BY <1>1 DEF Enqueue, QueueTypeOK, JobStatus
<1>4. StoredInv'
  BY <1>1, <1>2 DEF Enqueue, StoredInv, Ended
<1>5. BusyInv'
  BY DEF Enqueue, BusyInv
<1>6. TokenInv'
  <2>1. \A w \in Workers : claim[w].token => claim[w].event \in Events
    BY DEF TokenInv, BusyInv
  <2> QED
    BY <1>2, <2>1 DEF Enqueue, TokenInv
<1>7. AckedHasJob'
  <2>1. \A n \in acked : EventOf[n] \in Events
    BY QueueAssumption DEF QueueTypeOK
  <2> QED
    BY <1>1, <1>2, <2>1 DEF Enqueue, AckedHasJob
<1>8. DeadIffExhausted'
  BY <1>2 DEF DeadIffExhausted
<1> QED
  BY <1>3, <1>4, <1>5, <1>6, <1>7, <1>8

LEMMA AnswerNamelessInv ==
  ASSUME QueueInv, NEW m \in Reports, AnswerNameless(m)
  PROVE  QueueInv'
<1> USE DEF QueueInv
<1>1. inbox[EventOf[m]] # NoReport
  BY DEF AnswerNameless, StoredInv
<1>2. QueueTypeOK' /\ StoredInv' /\ BusyInv' /\ TokenInv' /\ DeadIffExhausted'
  BY DEF AnswerNameless, QueueTypeOK, StoredInv, BusyInv, TokenInv,
         DeadIffExhausted
<1>3. AckedHasJob'
  BY <1>1 DEF AnswerNameless, AckedHasJob
<1> QED
  BY <1>2, <1>3

LEMMA IgnoreInv ==
  ASSUME QueueInv, NEW m \in Reports, Ignore(m)
  PROVE  QueueInv'
  BY DEF QueueInv, Ignore, QueueTypeOK, StoredInv, BusyInv, TokenInv,
         AckedHasJob, DeadIffExhausted

LEMMA HandlerDiesInv ==
  ASSUME QueueInv, NEW m \in Reports, HandlerDies(m)
  PROVE  QueueInv'
  BY DEF QueueInv, HandlerDies, QueueTypeOK, StoredInv, BusyInv, TokenInv,
         AckedHasJob, DeadIffExhausted

-----------------------------------------------------------------------------
(* The workers.                                                             *)

LEMMA ClaimInv ==
  ASSUME QueueInv, NEW w \in Workers, NEW e \in Events, Claim(w, e)
  PROVE  QueueInv'
<1> USE DEF QueueInv
<1>1. /\ claim' \in [Workers -> [event : Events \cup {NoEvent},
                                 seen  : 0..MaxAttempts,
                                 phase : {"idle", "work", "done", "failing"},
                                 token : BOOLEAN]]
      /\ claim'[w] = [event |-> e, seen |-> job[e].attempts,
                      phase |-> "work", token |-> TRUE]
      /\ \A v \in Workers \ {w} :
           /\ claim'[v].event = claim[v].event
           /\ claim'[v].seen = claim[v].seen
           /\ claim'[v].phase = claim[v].phase
           /\ claim'[v].token <=> claim[v].token /\ claim[v].event # e
           /\ claim[v].token = FALSE => claim'[v] = claim[v]
  <2> DEFINE Own == [event |-> e, seen |-> job[e].attempts,
                     phase |-> "work", token |-> TRUE]
  <2> DEFINE Kept(v) == IF claim[v].event = e
                          THEN [claim[v] EXCEPT !.token = FALSE] ELSE claim[v]
  <2>1. claim' = [v \in Workers |-> IF v = w THEN Own ELSE Kept(v)]
    BY DEF Claim, Claimed
  <2>2. Own \in [event : Events \cup {NoEvent}, seen : 0..MaxAttempts,
                 phase : {"idle", "work", "done", "failing"},
                 token : BOOLEAN]
    BY DEF QueueTypeOK
  <2>3. ASSUME NEW v \in Workers
        PROVE  /\ Kept(v) \in [event : Events \cup {NoEvent},
                               seen  : 0..MaxAttempts,
                               phase : {"idle", "work", "done", "failing"},
                               token : BOOLEAN]
               /\ Kept(v).event = claim[v].event
               /\ Kept(v).seen = claim[v].seen
               /\ Kept(v).phase = claim[v].phase
               /\ Kept(v).token <=> claim[v].token /\ claim[v].event # e
               /\ claim[v].token = FALSE => Kept(v) = claim[v]
    BY DEF QueueTypeOK
  <2> HIDE DEF Own, Kept
  <2> QED
    BY <2>1, <2>2, <2>3 DEF Own
<1>2. \A f \in Events :
        /\ job'[f].status = job[f].status
        /\ job'[f].attempts = job[f].attempts
        /\ job'[f].lease = IF f = e THEN "held" ELSE job[f].lease
  BY DEF Claim, QueueTypeOK
<1>3. UNCHANGED endpointVars
  BY DEF Claim
<1>4. QueueTypeOK'
  BY <1>1, <1>3 DEF Claim, QueueTypeOK, endpointVars
<1>5. StoredInv'
  BY <1>2, <1>3 DEF Claim, StoredInv, Ended, endpointVars
<1>6. BusyInv'
  <2>1. job[e].attempts < MaxAttempts /\ inbox[e] # NoReport
    BY DEF Claim, StoredInv
  <2>2. \A v \in Workers : claim[v].phase = "idle" => claim'[v] = claim[v] \/ v = w
    BY <1>1, IdleType DEF BusyInv
  <2> QED
    BY <1>1, <1>3, <2>1, <2>2 DEF BusyInv, endpointVars
<1>7. TokenInv'
  <2>1. \A v \in Workers : claim[v].token => claim[v].event \in Events
    BY DEF TokenInv, BusyInv
  <2>2. ASSUME NEW v \in Workers, claim'[v].token
        PROVE  /\ claim'[v].phase # "idle"
               /\ job'[claim'[v].event].status \in {"queued", "failed"}
               /\ job'[claim'[v].event].attempts = claim'[v].seen
               /\ job'[claim'[v].event].lease # "free"
               /\ \A u \in Workers :
                    claim'[u].token /\ claim'[u].event = claim'[v].event
                      => u = v
    <3>1. CASE v = w
      BY <3>1, <1>1, <1>2 DEF Claim
    <3>2. CASE v # w
      BY <3>2, <2>2, <2>1, <1>1, <1>2 DEF TokenInv
    <3> QED
      BY <3>1, <3>2
  <2> QED
    BY <2>2 DEF TokenInv
<1>8. AckedHasJob' /\ DeadIffExhausted'
  <2>1. \A n \in acked : EventOf[n] \in Events
    BY QueueAssumption DEF QueueTypeOK
  <2> QED
    BY <1>2, <1>3, <2>1 DEF AckedHasJob, DeadIffExhausted, endpointVars
<1> QED
  BY <1>4, <1>5, <1>6, <1>7, <1>8

\* A step of a busy worker that leaves the rows alone.
LEMMA PhaseInv ==
  ASSUME QueueInv, NEW w \in Workers, claim[w].phase # "idle",
         NEW phase \in {"work", "done", "failing"},
         claim' = [claim EXCEPT ![w].phase = phase],
         UNCHANGED <<endpointVars, job>>
  PROVE  QueueInv'
<1> USE DEF QueueInv
<1>1. \A v \in Workers :
        /\ claim'[v].event = claim[v].event
        /\ claim'[v].seen = claim[v].seen
        /\ claim'[v].token = claim[v].token
        /\ claim'[v].phase = IF v = w THEN phase ELSE claim[v].phase
        /\ v # w => claim'[v] = claim[v]
  BY DEF QueueTypeOK
<1>2. QueueTypeOK'
  BY DEF QueueTypeOK, endpointVars
<1>3. StoredInv' /\ AckedHasJob' /\ DeadIffExhausted'
  BY DEF StoredInv, AckedHasJob, DeadIffExhausted, endpointVars
<1>4. BusyInv'
  BY <1>1 DEF BusyInv, endpointVars
<1>5. TokenInv'
  BY <1>1 DEF TokenInv, endpointVars
<1> QED
  BY <1>2, <1>3, <1>4, <1>5

LEMMA WorkInv ==
  ASSUME QueueInv, NEW w \in Workers, NEW ok \in BOOLEAN, Work(w, ok)
  PROVE  QueueInv'
<1>1. claim[w].phase # "idle"
  BY DEF Work
<1>2. UNCHANGED <<endpointVars, job>>
  BY DEF Work
<1>3. CASE ok
  BY <1>1, <1>2, <1>3, PhaseInv DEF Work
<1>4. CASE ~ok
  BY <1>1, <1>2, <1>4, PhaseInv DEF Work
<1> QED
  BY <1>3, <1>4

LEMMA MarkDoneThrowsInv ==
  ASSUME QueueInv, NEW w \in Workers, MarkDoneThrows(w)
  PROVE  QueueInv'
  BY PhaseInv DEF MarkDoneThrows

\* A worker lets go of its job, and the row of a token it held is written.
LEMMA ReleaseInv ==
  ASSUME QueueInv, NEW w \in Workers, claim' = [claim EXCEPT ![w] = Idle],
         UNCHANGED endpointVars,
         job' \in [Events -> [status : JobStatus, attempts : 0..MaxAttempts,
                              lease : {"free", "held", "lapsed"}]],
         \A e \in Events :
           job'[e] # job[e] =>
             /\ claim[w].token /\ claim[w].event = e
             /\ job'[e].status # "none" /\ job'[e].lease = "free"
             /\ job'[e].status = "dead" <=> job'[e].attempts = MaxAttempts
  PROVE  QueueInv'
<1> USE DEF QueueInv
<1>1. \A v \in Workers : claim'[v] = IF v = w THEN Idle ELSE claim[v]
  BY DEF QueueTypeOK
<1>2. QueueTypeOK'
  BY IdleType DEF QueueTypeOK, endpointVars
<1>3. \A v \in Workers : claim[v].token => claim[v].event \in Events
  BY DEF TokenInv, BusyInv
<1>4. StoredInv'
  <2>1. claim[w].token =>
          claim[w].event \in Events /\ inbox[claim[w].event] # NoReport
    BY DEF BusyInv, TokenInv
  <2> QED
    BY <2>1 DEF StoredInv, endpointVars
<1>5. BusyInv'
  BY <1>1, IdleType DEF BusyInv, endpointVars
<1>6. TokenInv'
  <2>1. ASSUME NEW v \in Workers, claim'[v].token
        PROVE  /\ v # w /\ claim'[v] = claim[v]
               /\ job'[claim[v].event] = job[claim[v].event]
    BY <2>1, <1>1, <1>3, IdleType DEF TokenInv
  <2> QED
    BY <2>1 DEF TokenInv
<1>7. AckedHasJob'
  <2>1. \A n \in acked : EventOf[n] \in Events
    BY QueueAssumption DEF QueueTypeOK
  <2> QED
    BY <2>1 DEF AckedHasJob, endpointVars
<1>8. DeadIffExhausted'
  BY DEF DeadIffExhausted
<1> QED
  BY <1>2, <1>4, <1>5, <1>6, <1>7, <1>8
LEMMA MarkDoneInv ==
  ASSUME QueueInv, NEW w \in Workers, MarkDone(w)
  PROVE  QueueInv'
<1> DEFINE e0 == claim[w].event
<1>1. CASE ~claim[w].token
  <2>1. job' = job
    BY <1>1 DEF MarkDone
  <2>2. job' \in [Events -> [status : JobStatus, attempts : 0..MaxAttempts,
                            lease : {"free", "held", "lapsed"}]]
    BY <2>1 DEF QueueInv, QueueTypeOK
  <2> QED
    BY <2>1, <2>2, ReleaseInv DEF MarkDone
<1>2. CASE claim[w].token
  <2>1. /\ e0 \in Events
        /\ job[e0].status \in {"queued", "failed"}
    BY <1>2 DEF QueueInv, TokenInv, BusyInv
  <2>2. /\ \A e \in Events : e # e0 => job'[e] = job[e]
        /\ job'[e0].status = "succeeded" /\ job'[e0].lease = "free"
        /\ job'[e0].attempts = job[e0].attempts
    BY <1>2, <2>1 DEF MarkDone, QueueInv, QueueTypeOK
  <2>3. job[e0].attempts # MaxAttempts
    BY <2>1 DEF QueueInv, DeadIffExhausted
  <2>4. job' \in [Events -> [status : JobStatus, attempts : 0..MaxAttempts,
                            lease : {"free", "held", "lapsed"}]]
    BY <1>2, <2>1 DEF MarkDone, QueueInv, QueueTypeOK, JobStatus
  <2> QED
    BY <1>2, <2>2, <2>3, <2>4, ReleaseInv DEF MarkDone
<1> QED
  BY <1>1, <1>2

LEMMA MarkFailedInv ==
  ASSUME QueueInv, NEW w \in Workers, MarkFailed(w)
  PROVE  QueueInv'
<1> DEFINE e0 == claim[w].event
<1>1. CASE ~claim[w].token
  <2>1. job' = job
    BY <1>1 DEF MarkFailed
  <2>2. job' \in [Events -> [status : JobStatus, attempts : 0..MaxAttempts,
                            lease : {"free", "held", "lapsed"}]]
    BY <2>1 DEF QueueInv, QueueTypeOK
  <2> QED
    BY <2>1, <2>2, ReleaseInv DEF MarkFailed
<1>2. CASE claim[w].token
  <2> DEFINE n == claim[w].seen + 1
             row == [status   |-> IF n >= MaxAttempts THEN "dead" ELSE "failed",
                     attempts |-> n,
                     lease    |-> "free"]
  <2>1. e0 \in Events /\ claim[w].seen < MaxAttempts /\ claim[w].seen \in Nat
    BY <1>2, QueueAssumption DEF QueueInv, TokenInv, BusyInv, QueueTypeOK
  <2>2. n \in 0..MaxAttempts /\ (n >= MaxAttempts <=> n = MaxAttempts)
    BY <2>1, QueueAssumption
  <2>3. job' = [job EXCEPT ![e0] = row]
    BY <1>2 DEF MarkFailed, FailedRow
  <2>4. /\ row.status # "none" /\ row.lease = "free"
        /\ row.status = "dead" <=> row.attempts = MaxAttempts
        /\ row \in [status : JobStatus, attempts : 0..MaxAttempts,
                    lease : {"free", "held", "lapsed"}]
    BY <2>2 DEF JobStatus
  <2> HIDE DEF row
  <2>5. \A e \in Events : job'[e] = IF e = e0 THEN row ELSE job[e]
    BY <2>1, <2>3 DEF QueueInv, QueueTypeOK
  <2>6. job' \in [Events -> [status : JobStatus, attempts : 0..MaxAttempts,
                            lease : {"free", "held", "lapsed"}]]
    BY <2>3, <2>4 DEF QueueInv, QueueTypeOK
  <2> QED
    BY <1>2, <2>4, <2>5, <2>6, ReleaseInv DEF MarkFailed
<1> QED
  BY <1>1, <1>2

LEMMA WorkerDiesInv ==
  ASSUME QueueInv, NEW w \in Workers, WorkerDies(w)
  PROVE  QueueInv'
<1>1. job' \in [Events -> [status : JobStatus, attempts : 0..MaxAttempts,
                          lease : {"free", "held", "lapsed"}]]
  BY DEF WorkerDies, QueueInv, QueueTypeOK
<1> QED
  BY <1>1, ReleaseInv DEF WorkerDies

LEMMA LeaseLapsesInv ==
  ASSUME QueueInv, NEW e \in Events, LeaseLapses(e)
  PROVE  QueueInv'
<1> USE DEF QueueInv
<1>1. \A f \in Events :
        /\ job'[f].status = job[f].status
        /\ job'[f].attempts = job[f].attempts
        /\ job'[f].lease = IF f = e THEN "lapsed" ELSE job[f].lease
  BY DEF LeaseLapses, QueueTypeOK
<1>2. QueueTypeOK'
  BY DEF LeaseLapses, QueueTypeOK, endpointVars
<1>3. StoredInv'
  BY <1>1 DEF LeaseLapses, StoredInv, endpointVars
<1>4. BusyInv'
  BY DEF LeaseLapses, BusyInv, endpointVars
<1>5. TokenInv'
  <2>1. \A w \in Workers : claim[w].token => claim[w].event \in Events
    BY DEF TokenInv, BusyInv
  <2> QED
    BY <1>1, <2>1 DEF LeaseLapses, TokenInv
<1>6. AckedHasJob' /\ DeadIffExhausted'
  <2>1. \A n \in acked : EventOf[n] \in Events
    BY QueueAssumption DEF QueueTypeOK
  <2> QED
    BY <1>1, <2>1 DEF LeaseLapses, AckedHasJob, DeadIffExhausted, endpointVars
<1> QED
  BY <1>2, <1>3, <1>4, <1>5, <1>6

-----------------------------------------------------------------------------
(* The invariant, and what it is for.                                       *)

LEMMA QueueStepInv == QueueInv /\ [QueueNext]_queueVars => QueueInv'
<1> SUFFICES ASSUME QueueInv, [QueueNext]_queueVars PROVE QueueInv'
  OBVIOUS
<1>1. CASE UNCHANGED queueVars
  BY <1>1 DEF queueVars, QueueInv, QueueTypeOK, StoredInv, BusyInv, TokenInv,
              AckedHasJob, DeadIffExhausted
<1>2. ASSUME NEW m \in Reports, Receive(m) \/ Ignore(m) \/ EndpointStep(m)
      PROVE  QueueInv'
  BY <1>2, ReceiveInv, IgnoreInv, EnqueueInv, AnswerNamelessInv, HandlerDiesInv
     DEF EndpointStep
<1>3. ASSUME NEW w \in Workers, WorkerStep(w)
      PROVE  QueueInv'
  BY <1>3, ClaimInv, MarkDoneInv, MarkDoneThrowsInv, MarkFailedInv,
     WorkerDiesInv DEF WorkerStep
<1>4. ASSUME NEW w \in Workers, NEW ok \in BOOLEAN, Work(w, ok)
      PROVE  QueueInv'
  BY <1>4, WorkInv
<1>5. ASSUME NEW e \in Events, LeaseLapses(e)
      PROVE  QueueInv'
  BY <1>5, LeaseLapsesInv
<1> QED
  BY <1>1, <1>2, <1>3, <1>4, <1>5 DEF QueueNext

LEMMA QueueInvHolds == QueueSpec => []QueueInv
  BY QueueInitInv, QueueStepInv, PTL DEF QueueSpec

\* Every variable of the queue has its type (webhook_jobs, webhook_claim_jobs,
\* markJobFailed): attempt_count never passes max_attempts.
THEOREM QueueTypeOKHolds == QueueSpec => []QueueTypeOK
<1>1. QueueInv => QueueTypeOK
  BY DEF QueueInv
<1> QED
  BY <1>1, QueueInvHolds, PTL

\* An accepted delivery that names its intent has a job, and the row of its
\* event id is there for it (storeProviderEvent, enqueueWebhookJob), for any
\* number of deliveries, ids shared or not, and whatever is ignored.
THEOREM AckedHasJobHolds == QueueSpec => []AckedHasJob
<1>1. QueueInv => AckedHasJob
  BY DEF QueueInv
<1> QED
  BY <1>1, QueueInvHolds, PTL

\* A job is dead exactly when its attempts are used up (markJobFailed), for
\* any max_attempts and any number of workers.
THEOREM DeadIffExhaustedHolds == QueueSpec => []DeadIffExhausted
<1>1. QueueInv => DeadIffExhausted
  BY DEF QueueInv
<1> QED
  BY <1>1, QueueInvHolds, PTL

LEMMA EndedStep ==
  ASSUME QueueInv, [QueueNext]_queueVars,
         NEW e \in Events, job[e].status \in Ended
  PROVE  job'[e] = job[e]
<1> USE DEF Ended
<1>1. job[e].lease = "free" /\ job[e].status # "none"
  BY DEF QueueInv, StoredInv
<1>2. job \in [Events -> [status : JobStatus, attempts : 0..MaxAttempts,
                         lease : {"free", "held", "lapsed"}]]
  BY DEF QueueInv, QueueTypeOK
<1>3. \A w \in Workers : claim[w].token => claim[w].event # e
  BY DEF QueueInv, TokenInv
<1>4. CASE UNCHANGED queueVars
  BY <1>4 DEF queueVars
<1>5. ASSUME NEW m \in Reports, Receive(m) \/ Ignore(m) \/ EndpointStep(m)
      PROVE  job'[e] = job[e]
  <2>1. CASE Enqueue(m)
    BY <2>1, <1>1, <1>2 DEF Enqueue
  <2> QED
    BY <1>5, <2>1 DEF Receive, Ignore, EndpointStep, AnswerNameless, HandlerDies
<1>6. ASSUME NEW w \in Workers, WorkerStep(w)
      PROVE  job'[e] = job[e]
  <2>1. ASSUME NEW f \in Events, Claim(w, f)
        PROVE  job'[e] = job[e]
    BY <2>1, <1>2 DEF Claim
  <2>2. CASE MarkDone(w)
    BY <2>2, <1>2, <1>3 DEF MarkDone
  <2>3. CASE MarkFailed(w)
    BY <2>3, <1>2, <1>3 DEF MarkFailed, FailedRow
  <2> QED
    BY <1>6, <2>1, <2>2, <2>3 DEF WorkerStep, MarkDoneThrows, WorkerDies
<1>7. ASSUME NEW f \in Events, LeaseLapses(f)
      PROVE  job'[e] = job[e]
  BY <1>7, <1>1, <1>2 DEF LeaseLapses
<1> QED
  BY <1>4, <1>5, <1>6, <1>7 DEF QueueNext, Work

\* A finished job is never reopened, whatever late workers report
\* (the lock_token comparison of markJobDone and markJobFailed).
THEOREM JobStaysEndedHolds == QueueSpec => JobStaysEnded
<1>1. QueueInv /\ [QueueNext]_queueVars =>
        [\A e \in Events :
           job[e].status \in Ended => job'[e] = job[e]]_queueVars
  BY EndedStep
<1> QED
  BY <1>1, QueueInvHolds, PTL DEF QueueSpec, JobStaysEnded
-----------------------------------------------------------------------------
(* The top-ups.                                                             *)

Says == {"open", "paid", "refused"}

\* What has been said has come true, whoever has said it, and is acted upon
\* only then.
TruthInv ==
  /\ \A m \in handling : Reached(m)
  /\ \A e \in Events : inbox[e] # NoReport => Reached(inbox[e])
  /\ \A p \in Pollers :
       poll[p] # NoPoll =>
         /\ poll[p].intent \in Intents
         /\ poll[p].says = "paid" => payment[poll[p].intent] = "paid"
  /\ CreditOnlyIfPaid

\* A succeeded intent has been credited, and a worker that is done with a
\* report of a payment has seen to it.
EffectInv ==
  /\ \A i \in Intents : intent[i].status = "succeeded" => credited[i] > 0
  /\ \A w \in Workers :
       /\ claim[w].phase = "done"
       /\ SaysOf[inbox[claim[w].event]] = "paid"
       => credited[IntentOf[inbox[claim[w].event]]] > 0
  /\ SucceededJobCredited

TopupInv == QueueInv /\ TopupTypeOK /\ TruthInv /\ EffectInv

-----------------------------------------------------------------------------
(* The queue inside Topup is WebhookQueue.                                  *)

LEMMA QueueInside == [Next]_vars => [QueueNext]_queueVars
<1> SUFFICES ASSUME [Next]_vars PROVE [QueueNext]_queueVars
  OBVIOUS
<1>1. CASE UNCHANGED vars
  BY <1>1 DEF vars
<1>2. ASSUME NEW i \in Intents, IntentStep(i) PROVE UNCHANGED queueVars
  BY <1>2 DEF IntentStep, CreateTopup, ReplayTopup, InitPayment, RecordInit,
              CreateDies, PayerPays, PaymentRefused
<1>3. ASSUME NEW m \in Reports, ReportArrives(m) PROVE QueueNext
  BY <1>3 DEF ReportArrives, QueueNext
<1>4. CASE QueueStep
  BY <1>4 DEF QueueStep, QueueNext
<1>5. ASSUME NEW w \in Workers, Process(w) PROVE QueueNext
  BY <1>5 DEF Process, QueueNext
<1>6. ASSUME NEW p \in Pollers,
             \/ \E i \in Intents, says \in Says : AskProvider(p, i, says)
             \/ SettlePoll(p) \/ PollDies(p)
      PROVE  UNCHANGED queueVars
  BY <1>6 DEF AskProvider, SettlePoll, PollDies
<1> QED
  BY <1>1, <1>2, <1>3, <1>4, <1>5, <1>6 DEF Next, Says

\* Every behaviour of Topup is one of WebhookQueue: what the queue promises
\* (webhookJobs.ts) holds whatever the processors do to intents and wallets.
THEOREM TopupImplementsQueue == Spec => QueueSpec
<1>1. Init => QueueInit
  BY DEF Init
<1> QED
  BY <1>1, QueueInside, PTL DEF Spec, QueueSpec

-----------------------------------------------------------------------------
(* What single steps do.                                                    *)

IntentRows == [Intents -> [status : IntentStatus, tx : BOOLEAN]]

\* wallet_finalize_topup, wallet_fail_topup or the "pending" update.
LEMMA ApplyEffect ==
  ASSUME TopupTypeOK, NEW i \in Intents, NEW says \in Says, Apply(i, says),
         \A j \in Intents : intent[j].status = "succeeded" => credited[j] > 0
  PROVE  /\ intent' \in IntentRows
         /\ credited' \in [Intents -> 0..MaxCredits]
         /\ \A j \in Intents : credited'[j] >= credited[j]
         /\ \A j \in Intents :
              credited'[j] # credited[j] => j = i /\ says = "paid"
         /\ says = "paid" => credited'[i] > 0
         /\ \A j \in Intents :
              intent'[j].status = "succeeded" => credited'[j] > 0
<1> USE TopupAssumption DEF IntentRows, IntentStatus
<1>0. /\ intent \in IntentRows /\ credited \in [Intents -> 0..MaxCredits]
      /\ MaxCredits \in Nat
  BY DEF TopupTypeOK
<1>1. CASE says = "paid" /\ intent[i].status # "succeeded"
  <2>1. /\ intent' = [intent EXCEPT ![i] = [status |-> "succeeded", tx |-> TRUE]]
        /\ credited' = [credited EXCEPT ![i] = credited[i] + 1]
        /\ credited[i] < MaxCredits
    BY <1>1 DEF Apply, Finalize
  <2>2. credited[i] + 1 \in 0..MaxCredits /\ credited[i] + 1 > 0
    BY <1>0, <2>1
  <2>3. \A j \in Intents :
          credited'[j] = IF j = i THEN credited[i] + 1 ELSE credited[j]
    BY <1>0, <2>1
  <2>4. credited' \in [Intents -> 0..MaxCredits] /\ intent' \in IntentRows
    BY <1>0, <2>1, <2>2
  <2> QED
    BY <1>0, <1>1, <2>1, <2>2, <2>3, <2>4
<1>2. CASE says = "paid" /\ intent[i].status = "succeeded"
  BY <1>0, <1>2 DEF Apply, Finalize
<1>3. CASE says = "refused"
  <2>1. credited' = credited
    BY <1>3 DEF Apply, FailTopup
  <2>2. intent' \in IntentRows
    BY <1>0, <1>3 DEF Apply, FailTopup
  <2>3. \A j \in Intents :
          intent'[j].status = "succeeded" => intent[j].status = "succeeded"
    BY <1>0, <1>3 DEF Apply, FailTopup
  <2> QED
    BY <1>0, <1>3, <2>1, <2>2, <2>3
<1>4. CASE says = "open"
  <2>1. credited' = credited
    BY <1>4 DEF Apply
  <2>2. intent' \in IntentRows
    BY <1>0, <1>4 DEF Apply
  <2>3. \A j \in Intents :
          intent'[j].status = "succeeded" => intent[j].status = "succeeded"
    BY <1>0, <1>4 DEF Apply
  <2> QED
    BY <1>0, <1>4, <2>1, <2>2, <2>3
<1> QED
  BY <1>1, <1>2, <1>3, <1>4 DEF Says

\* A payment that is made or refused stays so, and none is forgotten.
PaymentKept ==
  \A i \in Intents :
    /\ payment[i] # "none" => payment'[i] # "none"
    /\ payment[i] \in {"paid", "refused"} => payment'[i] = payment[i]

LEMMA IntentStepEffect ==
  ASSUME TopupTypeOK, NEW i \in Intents, IntentStep(i)
  PROVE  /\ TopupTypeOK' /\ PaymentKept
         /\ UNCHANGED <<queueVars, poll, credited>>
         /\ \A j \in Intents : intent'[j].status = "succeeded" =>
                                 intent[j].status = "succeeded"
<1> USE DEF TopupTypeOK, IntentStatus, PaymentKept
<1>1. CASE CreateTopup(i)
  BY <1>1 DEF CreateTopup
<1>2. CASE ReplayTopup(i) \/ CreateDies(i)
  BY <1>2 DEF ReplayTopup, CreateDies
<1>3. CASE InitPayment(i)
  <2> DEFINE opened == [payment EXCEPT ![i] = IF payment[i] = "none"
                                                THEN "opened" ELSE payment[i]]
  <2>1. /\ payment' \in {payment, opened} /\ UNCHANGED <<intent, queueVars, poll, credited>>
        /\ \/ creating' = [creating EXCEPT ![i] = "opened"]
           \/ creating' = [creating EXCEPT ![i] = "refused"]
    BY <1>3 DEF InitPayment
  <2> QED
    BY <2>1
<1>4. CASE RecordInit(i)
  <2>1. /\ UNCHANGED <<queueVars, poll, credited>>
        /\ creating' = [creating EXCEPT ![i] = "idle"]
        /\ \/ intent' = intent
           \/ intent' = [intent EXCEPT ![i] =
                           [status |-> "pending", tx |-> i \in NeedsTx]]
           \/ intent' = [intent EXCEPT ![i].status = "failed"]
        /\ \/ payment' = payment
           \/ payment' = [payment EXCEPT ![i] =
                IF payment[i] = "opened" THEN "offered" ELSE payment[i]]
    BY <1>4 DEF RecordInit
  <2>2. intent' \in IntentRows /\ (\A j \in Intents :
          intent'[j].status = "succeeded" => intent[j].status = "succeeded")
    <3> DEFINE row == [status |-> "pending", tx |-> i \in NeedsTx]
    <3>1. row \in [status : IntentStatus, tx : BOOLEAN] /\ row.status = "pending"
      <4>1. (i \in NeedsTx) \in BOOLEAN
        OBVIOUS
      <4>2. "pending" \in IntentStatus
        OBVIOUS
      <4> QED
        BY ONLY <4>1, <4>2, Zenon
    <3> HIDE DEF row
    <3>2. CASE intent' = [intent EXCEPT ![i] = row]
      BY <3>1, <3>2 DEF IntentRows
    <3>3. CASE intent' = [intent EXCEPT ![i].status = "failed"]
      BY <3>3 DEF IntentRows
    <3>4. CASE intent' = intent
      BY <3>4 DEF IntentRows
    <3> QED
      BY <2>1, <3>2, <3>3, <3>4 DEF row
  <2> QED
    BY <2>1, <2>2 DEF IntentRows
<1>5. CASE PayerPays(i) \/ PaymentRefused(i)
  BY <1>5 DEF PayerPays, PaymentRefused
<1> QED
  BY <1>1, <1>2, <1>3, <1>4, <1>5 DEF IntentStep

\* What any step does to intents, payments and credits: only the settling of
\* a "paid" answer credits, and that answer is true.
LEMMA CreditStep ==
  ASSUME TopupInv, [Next]_vars
  PROVE  /\ TopupTypeOK' /\ PaymentKept
         /\ \A j \in Intents :
              /\ credited'[j] >= credited[j]
              /\ credited'[j] # credited[j] => payment[j] = "paid"
              /\ intent'[j].status = "succeeded" => credited'[j] > 0
<1> DEFINE Goal == /\ TopupTypeOK' /\ PaymentKept
                   /\ \A j \in Intents :
                        /\ credited'[j] >= credited[j]
                        /\ credited'[j] # credited[j] => payment[j] = "paid"
                        /\ intent'[j].status = "succeeded" => credited'[j] > 0
<1>0. /\ TopupTypeOK
      /\ \A j \in Intents : credited[j] \in Nat
      /\ \A j \in Intents : intent[j].status = "succeeded" => credited[j] > 0
  BY TopupAssumption DEF TopupInv, EffectInv, TopupTypeOK
<1>1. CASE UNCHANGED topupVars
  BY <1>0, <1>1 DEF topupVars, TopupTypeOK, PaymentKept
<1>2. ASSUME NEW i \in Intents, IntentStep(i) PROVE Goal
  BY <1>0, <1>2, IntentStepEffect
<1>3. ASSUME NEW i \in Intents, NEW says \in Says, Apply(i, says),
             says = "paid" => payment[i] = "paid",
             UNCHANGED <<creating, payment>>,
             poll' \in [Pollers -> [intent : Intents \cup {NoIntent}, says : Says]]
      PROVE  Goal
  <2>1. /\ intent' \in IntentRows
        /\ credited' \in [Intents -> 0..MaxCredits]
        /\ \A j \in Intents : credited'[j] >= credited[j]
        /\ \A j \in Intents :
             credited'[j] # credited[j] => j = i /\ says = "paid"
        /\ \A j \in Intents :
             intent'[j].status = "succeeded" => credited'[j] > 0
    BY <1>0, <1>3, ApplyEffect
  <2>2. TopupTypeOK' /\ PaymentKept
    BY <1>0, <1>3, <2>1 DEF TopupTypeOK, PaymentKept, IntentRows, Says
  <2> QED
    BY <1>3, <2>1, <2>2
<1>4. ASSUME NEW w \in Workers, Process(w) PROVE Goal
  <2> DEFINE m == inbox[claim[w].event]
  <2>1. CASE Work(w, FALSE) /\ UNCHANGED <<intent, credited>>
    BY <1>1, <1>4, <2>1 DEF Process, topupVars
  <2>2. CASE Work(w, TRUE) /\ Apply(IntentOf[m], SaysOf[m])
    <3>1. m \in Reports /\ Reached(m)
      BY <2>2 DEF Work, TopupInv, QueueInv, BusyInv, QueueTypeOK, TruthInv
    <3>2. /\ IntentOf[m] \in Intents /\ SaysOf[m] \in Says
          /\ SaysOf[m] = "paid" => payment[IntentOf[m]] = "paid"
      BY <3>1, TopupAssumption DEF Reached, Says
    <3>3. poll' = poll /\ UNCHANGED <<creating, payment>>
      BY <1>4 DEF Process
    <3> HIDE DEF m
    <3>4. poll' \in [Pollers -> [intent : Intents \cup {NoIntent}, says : Says]]
      BY <1>0, <3>3 DEF TopupTypeOK, Says
    <3> HIDE DEF Goal
    <3> QED
      BY <1>3, <2>2, <3>2, <3>3, <3>4
  <2> QED
    BY <1>4, <2>1, <2>2 DEF Process
<1>5. ASSUME NEW p \in Pollers, SettlePoll(p) PROVE Goal
  <2>1. /\ poll[p].intent \in Intents /\ poll[p].says \in Says
        /\ poll[p].says = "paid" => payment[poll[p].intent] = "paid"
    BY <1>0, <1>5 DEF SettlePoll, TopupInv, TruthInv, TopupTypeOK, Says
  <2>2. poll' \in [Pollers -> [intent : Intents \cup {NoIntent}, says : Says]]
    BY <1>0, <1>5 DEF SettlePoll, TopupTypeOK, NoPoll, Says
  <2> HIDE DEF Goal
  <2> QED
    BY <1>3, <1>5, <2>1, <2>2 DEF SettlePoll
<1>6. ASSUME NEW p \in Pollers, PollDies(p) PROVE Goal
  BY <1>0, <1>6 DEF PollDies, TopupTypeOK, PaymentKept, NoPoll
<1>7. ASSUME NEW p \in Pollers, NEW i \in Intents, NEW says \in Says,
             AskProvider(p, i, says)
      PROVE  Goal
  BY <1>0, <1>7 DEF AskProvider, TopupTypeOK, PaymentKept, Says
<1> QED
  BY <1>1, <1>2, <1>4, <1>5, <1>6, <1>7
     DEF Next, vars, ReportArrives, Says
-----------------------------------------------------------------------------
(* Money is credited only if it was paid.                                   *)

\* A report arrives, or the inbox and the endpoints are as before.
LEMMA InboxStep ==
  ASSUME [Next]_vars
  PROVE  \/ \E m \in Reports : ReportArrives(m)
         \/ inbox' = inbox /\ handling' \subseteq handling
<1> USE DEF queueVars, endpointVars
<1>1. ASSUME NEW i \in Intents, IntentStep(i) PROVE UNCHANGED queueVars
  BY <1>1 DEF IntentStep, CreateTopup, ReplayTopup, InitPayment, RecordInit,
              CreateDies, PayerPays, PaymentRefused
<1>2. CASE QueueStep
  BY <1>2 DEF QueueStep, EndpointStep, Enqueue, AnswerNameless, HandlerDies,
       WorkerStep, Claim, MarkDone, MarkDoneThrows, MarkFailed, WorkerDies, LeaseLapses
<1>3. ASSUME NEW w \in Workers, Process(w) PROVE UNCHANGED endpointVars
  BY <1>3 DEF Process, Work
<1> QED
  BY <1>1, <1>2, <1>3 DEF Next, vars, AskProvider, SettlePoll, PollDies

\* An answer to a poller is given by the provider or read from the inbox.
LEMMA PollStep ==
  ASSUME TopupInv, [Next]_vars, NEW p \in Pollers, poll'[p] # NoPoll
  PROVE  \/ poll'[p] = poll[p]
         \/ /\ poll'[p].intent \in Intents
            /\ poll'[p].says = "paid" => payment[poll'[p].intent] = "paid"
<1>0. poll \in [Pollers -> [intent : Intents \cup {NoIntent}, says : Says]]
  BY DEF TopupInv, TopupTypeOK, Says
<1>1. ASSUME NEW q \in Pollers, NEW i \in Intents, NEW says \in Says,
             AskProvider(q, i, says)
      PROVE  \/ poll'[p] = poll[p]
             \/ /\ poll'[p].intent \in Intents
                /\ poll'[p].says = "paid" => payment[poll'[p].intent] = "paid"
  <2>1. says = "paid" => payment[i] = "paid"
    <3> SUFFICES ASSUME says = "paid" PROVE payment[i] = "paid"
      OBVIOUS
    <3>1. CASE i \in NeedsTx
      BY <1>1, <3>1 DEF AskProvider, Answers
    <3>2. CASE i \notin NeedsTx
      <4>1. PICK e \in Events : /\ inbox[e] # NoReport
                               /\ IntentOf[inbox[e]] = i
                               /\ SaysOf[inbox[e]] = "paid"
        BY <1>1, <3>2 DEF AskProvider, Answers
      <4> QED
        BY <4>1 DEF TopupInv, TruthInv, Reached
    <3> QED
      BY <3>1, <3>2
  <2>2. poll' = [poll EXCEPT ![q] = [intent |-> i, says |-> says]]
    BY <1>1 DEF AskProvider
  <2> QED
    BY <1>0, <2>1, <2>2
<1>2. ASSUME NEW q \in Pollers, SettlePoll(q) \/ PollDies(q)
      PROVE  poll'[p] = poll[p]
  BY <1>0, <1>2 DEF SettlePoll, PollDies
<1>3. ASSUME NEW i \in Intents, IntentStep(i) PROVE poll' = poll
  BY <1>3 DEF IntentStep, CreateTopup, ReplayTopup, InitPayment, RecordInit,
              CreateDies, PayerPays, PaymentRefused
<1> QED
  BY <1>1, <1>2, <1>3
     DEF Next, vars, topupVars, ReportArrives, Process, Says

LEMMA ReachedKept ==
  ASSUME TopupTypeOK, PaymentKept, NEW m \in Reports, Reached(m)
  PROVE  Reached(m)'
<1>1. IntentOf[m] \in Intents /\ SaysOf[m] \in Says
  BY TopupAssumption DEF Says
<1> QED
  BY <1>1 DEF PaymentKept, Reached, Says

LEMMA TruthStep == TopupInv /\ [Next]_vars => TruthInv'
<1> SUFFICES ASSUME TopupInv, [Next]_vars PROVE TruthInv'
  OBVIOUS
<1>1. /\ TopupTypeOK /\ PaymentKept
      /\ \A j \in Intents :
           /\ credited'[j] >= credited[j]
           /\ credited'[j] # credited[j] => payment[j] = "paid"
  BY CreditStep DEF TopupInv
<1>2. \A m \in Reports : Reached(m) => Reached(m)'
  BY <1>1, ReachedKept
<1>3. /\ inbox \in [Events -> Reports \cup {NoReport}]
      /\ handling \subseteq Reports
  BY DEF TopupInv, QueueInv, QueueTypeOK
<1>4. (/\ \A m \in handling : Reached(m)
       /\ \A e \in Events : inbox[e] # NoReport => Reached(inbox[e]))'
  <2>1. ASSUME NEW m \in Reports, ReportArrives(m)
        PROVE  /\ handling' \subseteq handling \cup {m} /\ Reached(m)
               /\ \A e \in Events : inbox'[e] # inbox[e] => inbox'[e] = m
    BY <1>3, <2>1 DEF ReportArrives, Receive, Ignore
  <2> QED
    BY <1>2, <1>3, <2>1, InboxStep DEF TopupInv, TruthInv, Reached
<1>5. \A p \in Pollers :
        poll'[p] # NoPoll =>
          /\ poll'[p].intent \in Intents
          /\ poll'[p].says = "paid" => payment'[poll'[p].intent] = "paid"
  BY <1>1, PollStep DEF TopupInv, TruthInv, PaymentKept
<1>6. CreditOnlyIfPaid'
  BY <1>1 DEF TopupInv, TruthInv, CreditOnlyIfPaid, PaymentKept
<1> QED
  BY <1>4, <1>5, <1>6 DEF TruthInv, NoPoll
-----------------------------------------------------------------------------
(* No job succeeds without its effect.                                      *)

LEMMA DoneStep ==
  ASSUME TopupInv, [Next]_vars, NEW w \in Workers, claim'[w].phase = "done"
  PROVE  /\ claim'[w].event = claim[w].event
         /\ claim[w].phase # "idle"
         /\ claim[w].phase = "done" \/ Process(w)
<1>0. claim \in [Workers -> [event : Events \cup {NoEvent},
                            seen  : 0..MaxAttempts,
                            phase : {"idle", "work", "done", "failing"},
                            token : BOOLEAN]]
  BY DEF TopupInv, QueueInv, QueueTypeOK
<1>1. CASE claim' = claim
  BY <1>1
<1>2. ASSUME NEW v \in Workers, Process(v)
      PROVE  /\ claim'[w].event = claim[w].event
             /\ claim[w].phase # "idle"
             /\ claim[w].phase = "done" \/ Process(w)
  <2>1. claim[v].phase = "work" /\
        \E phase \in {"done", "failing"} :
          claim' = [claim EXCEPT ![v].phase = phase]
    BY <1>2 DEF Process, Work
  <2> QED
    BY <1>0, <1>2, <2>1
<1>3. ASSUME NEW v \in Workers, WorkerStep(v)
      PROVE  claim'[w].event = claim[w].event /\ claim[w].phase = "done"
  <2>1. ASSUME NEW e \in Events, Claim(v, e)
        PROVE  claim'[w].event = claim[w].event /\ claim[w].phase = "done"
    BY <1>0, <2>1 DEF Claim, Claimed
  <2>2. CASE MarkDoneThrows(v)
    BY <1>0, <2>2 DEF MarkDoneThrows
  <2>3. CASE MarkDone(v) \/ MarkFailed(v) \/ WorkerDies(v)
    BY <1>0, <2>3, IdleType DEF MarkDone, MarkFailed, WorkerDies
  <2> QED
    BY <1>3, <2>1, <2>2, <2>3 DEF WorkerStep
<1>4. ASSUME NEW i \in Intents, IntentStep(i) PROVE claim' = claim
  BY <1>4 DEF IntentStep, CreateTopup, ReplayTopup, InitPayment, RecordInit,
              CreateDies, PayerPays, PaymentRefused, queueVars
<1> QED
  BY <1>1, <1>2, <1>3, <1>4
     DEF Next, vars, queueVars, ReportArrives, Receive, Ignore, QueueStep,
         EndpointStep, Enqueue, AnswerNameless, HandlerDies, LeaseLapses,
         AskProvider, SettlePoll, PollDies

LEMMA SucceededStep ==
  ASSUME QueueInv, [QueueNext]_queueVars, NEW e \in Events,
         job'[e].status = "succeeded"
  PROVE  \/ job[e].status = "succeeded"
         \/ \E w \in Workers : claim[w].phase = "done" /\ claim[w].event = e
<1>1. job \in [Events -> [status : JobStatus, attempts : 0..MaxAttempts,
                         lease : {"free", "held", "lapsed"}]]
  BY DEF QueueInv, QueueTypeOK
<1>2. ASSUME NEW m \in Reports, Enqueue(m)
      PROVE  job[e].status = "succeeded"
  BY <1>1, <1>2 DEF Enqueue
<1>3. ASSUME NEW w \in Workers, WorkerStep(w)
      PROVE  \/ job[e].status = "succeeded"
             \/ claim[w].phase = "done" /\ claim[w].event = e
  <2>1. ASSUME NEW f \in Events, Claim(w, f)
        PROVE  job[e].status = "succeeded"
    BY <1>1, <2>1 DEF Claim
  <2>2. CASE MarkDone(w)
    BY <1>1, <2>2 DEF MarkDone
  <2>3. CASE MarkFailed(w)
    BY <1>1, <2>3 DEF MarkFailed, FailedRow
  <2> QED
    BY <1>3, <2>1, <2>2, <2>3 DEF WorkerStep, MarkDoneThrows, WorkerDies
<1>4. ASSUME NEW f \in Events, LeaseLapses(f)
      PROVE  job[e].status = "succeeded"
  BY <1>1, <1>4 DEF LeaseLapses
<1> QED
  BY <1>2, <1>3, <1>4
     DEF QueueNext, queueVars, Receive, Ignore, EndpointStep, AnswerNameless,
         HandlerDies, Work

LEMMA EffectStep == TopupInv /\ [Next]_vars => EffectInv'
<1> SUFFICES ASSUME TopupInv, [Next]_vars PROVE EffectInv'
  OBVIOUS
<1>1. /\ \A j \in Intents : credited[j] \in Nat /\ credited'[j] \in Nat
      /\ \A j \in Intents :
           /\ credited'[j] >= credited[j]
           /\ intent'[j].status = "succeeded" => credited'[j] > 0
  BY CreditStep, TopupAssumption DEF TopupInv, TopupTypeOK
<1>2. \A e \in Events :
        inbox[e] # NoReport =>
          /\ inbox[e] \in Reports /\ IntentOf[inbox[e]] \in Intents
          /\ inbox'[e] = inbox[e]
  <2>1. inbox \in [Events -> Reports \cup {NoReport}]
    BY DEF TopupInv, QueueInv, QueueTypeOK
  <2>2. ASSUME NEW m \in Reports, ReportArrives(m), NEW e \in Events,
               inbox[e] # NoReport
        PROVE  inbox'[e] = inbox[e]
    BY <2>1, <2>2 DEF ReportArrives, Receive, Ignore
  <2> QED
    BY <2>1, <2>2, InboxStep, TopupAssumption
<1>3. ASSUME NEW w \in Workers, claim'[w].phase = "done",
             SaysOf[inbox'[claim'[w].event]] = "paid"
      PROVE  credited'[IntentOf[inbox'[claim'[w].event]]] > 0
  <2> DEFINE m == inbox[claim[w].event]
  <2>1. /\ claim'[w].event = claim[w].event
        /\ claim[w].phase = "done" \/ Process(w)
        /\ inbox[claim[w].event] # NoReport /\ claim[w].event \in Events
    BY <1>3, DoneStep DEF TopupInv, QueueInv, BusyInv
  <2>2. inbox'[claim'[w].event] = m /\ IntentOf[m] \in Intents /\ SaysOf[m] = "paid"
    BY <1>2, <1>3, <2>1
  <2>3. CASE claim[w].phase = "done"
    BY <1>1, <2>2, <2>3 DEF TopupInv, EffectInv
  <2>4. CASE Process(w)
    <3>1. Apply(IntentOf[m], "paid")
      <4>1. ~Work(w, FALSE)
        BY <1>3 DEF Work, TopupInv, QueueInv, QueueTypeOK
      <4> QED
        BY <2>2, <2>4, <4>1 DEF Process
    <3> HIDE DEF m
    <3> QED
      BY <2>2, <3>1, ApplyEffect DEF TopupInv, EffectInv, Says
  <2> QED
    BY <2>1, <2>3, <2>4
<1>4. ASSUME NEW e \in Events, job'[e].status = "succeeded",
             SaysOf[inbox'[e]] = "paid"
      PROVE  credited'[IntentOf[inbox'[e]]] > 0
  <2>1. \/ job[e].status = "succeeded"
        \/ \E w \in Workers : claim[w].phase = "done" /\ claim[w].event = e
    BY <1>4, QueueInside, SucceededStep DEF TopupInv
  <2>2. inbox[e] # NoReport
    BY <2>1 DEF TopupInv, QueueInv, StoredInv, BusyInv
  <2>3. inbox'[e] = inbox[e] /\ IntentOf[inbox[e]] \in Intents
    BY <1>2, <2>2
  <2>4. credited[IntentOf[inbox[e]]] > 0
    BY <1>4, <2>1, <2>2, <2>3 DEF TopupInv, EffectInv, SucceededJobCredited
  <2> QED
    BY <1>1, <2>3, <2>4
<1> QED
  BY <1>1, <1>3, <1>4 DEF EffectInv, SucceededJobCredited

LEMMA TopupInitInv == Init => TopupInv
<1> SUFFICES ASSUME Init PROVE TopupInv
  OBVIOUS
<1>1. QueueInv
  BY QueueInitInv DEF Init
<1>2. TopupTypeOK
  BY TopupAssumption DEF Init, TopupTypeOK, NoIntentRow, NoPoll, IntentStatus
<1>3. TruthInv
  BY DEF Init, QueueInit, TruthInv, CreditOnlyIfPaid
<1>4. EffectInv
  BY IdleType
     DEF Init, QueueInit, EffectInv, SucceededJobCredited, NoIntentRow, NoJob
<1> QED
  BY <1>1, <1>2, <1>3, <1>4 DEF TopupInv

LEMMA TopupInvHolds == Spec => []TopupInv
<1>1. TopupInv /\ [Next]_vars => TopupInv'
  BY QueueInside, QueueStepInv, CreditStep, TruthStep, EffectStep DEF TopupInv
<1> QED
  BY <1>1, TopupInitInv, PTL DEF Spec

\* Every variable has its type (topup_intents, topup_status).
THEOREM TopupTypeOKHolds == Spec => []TopupTypeOK
<1>1. TopupInv => TopupTypeOK
  BY DEF TopupInv
<1> QED
  BY <1>1, TopupInvHolds, PTL

\* Only payments that were made are credited (processTopupWebhook,
\* topup-check, topup-reconcile, zaincash-return), however late and often
\* reports and answers are acted upon.
THEOREM CreditOnlyIfPaidHolds == Spec => []CreditOnlyIfPaid
<1>1. TopupInv => CreditOnlyIfPaid
  BY DEF TopupInv, TruthInv
<1> QED
  BY <1>1, TopupInvHolds, PTL

\* A job whose report says "paid" succeeds only after the credit
\* (processWebhookJob: markJobDone after the processor).
THEOREM SucceededJobCreditedHolds == Spec => []SucceededJobCredited
<1>1. TopupInv => SucceededJobCredited
  BY DEF TopupInv, EffectInv
<1> QED
  BY <1>1, TopupInvHolds, PTL

-----------------------------------------------------------------------------
(* One credit.                                                              *)

\* The intents whose creation is not replayed and of which no report says
\* "pending".
FinalIntents ==
  {i \in Intents \ Replays :
     \A m \in Reports : IntentOf[m] = i => SaysOf[m] # "open"}

\* Without pollers such an intent, once it succeeded, stays succeeded,
\* because its creation is over.
CreditedAtMostOnce(i) ==
  /\ credited[i] <= 1
  /\ credited[i] > 0 => intent[i].status = "succeeded"
  /\ creating[i] # "idle" => /\ payment[i] \notin {"offered", "paid"}
                            /\ intent[i].status # "none"
  /\ intent[i].status = "none" => payment[i] = "none"

OnceInv == \A i \in FinalIntents : CreditedAtMostOnce(i)

\* A step that leaves the row, the creation, the payment and the credits of
\* an intent alone.
LEMMA OnceUntouched ==
  ASSUME NEW i \in Intents, CreditedAtMostOnce(i),
         intent'[i] = intent[i], creating'[i] = creating[i],
         payment'[i] = payment[i], credited'[i] = credited[i]
  PROVE  CreditedAtMostOnce(i)'
BY DEF CreditedAtMostOnce

\* A step of the creation or of the payment of an intent touches no other.
LEMMA IntentStepElsewhere ==
  ASSUME NEW i \in Intents, NEW j \in Intents \ {i},
         TopupTypeOK, IntentStep(i)
  PROVE  /\ intent'[j] = intent[j] /\ creating'[j] = creating[j]
         /\ payment'[j] = payment[j] /\ credited'[j] = credited[j]
<1> USE DEF TopupTypeOK
<1>1. CASE CreateTopup(i)
  BY <1>1 DEF CreateTopup
<1>2. CASE ReplayTopup(i)
  BY <1>2 DEF ReplayTopup
<1>3. CASE InitPayment(i)
  BY <1>3 DEF InitPayment
<1>4. CASE RecordInit(i)
  BY <1>4 DEF RecordInit
<1>5. CASE CreateDies(i)
  BY <1>5 DEF CreateDies
<1>6. CASE PayerPays(i)
  BY <1>6 DEF PayerPays
<1>7. CASE PaymentRefused(i)
  BY <1>7 DEF PaymentRefused
<1> QED
  BY <1>1, <1>2, <1>3, <1>4, <1>5, <1>6, <1>7 DEF IntentStep

LEMMA OnceIntentStep ==
  ASSUME NEW i \in FinalIntents, CreditedAtMostOnce(i),
         TopupTypeOK, credited[i] \in Nat, credited[i] > 0 => payment[i] = "paid",
         IntentStep(i)
  PROVE  CreditedAtMostOnce(i)'
<1> USE DEF CreditedAtMostOnce, TopupTypeOK
<1>0. i \in Intents /\ i \notin Replays
  BY DEF FinalIntents
<1> USE <1>0
<1>1. CASE CreateTopup(i)
  BY <1>1 DEF CreateTopup
<1>2. CASE InitPayment(i)
  <2>1. /\ creating[i] = "init" /\ payment'[i] \in {payment[i], "opened"}
        /\ payment[i] # "none" => payment'[i] = payment[i]
        /\ UNCHANGED <<intent, credited>>
    BY <1>2 DEF InitPayment
  <2> QED
    BY <2>1
<1>3. CASE RecordInit(i)
  <2>1. /\ creating[i] # "idle" /\ creating'[i] = "idle"
        /\ UNCHANGED credited
        /\ intent'[i].status \in {intent[i].status, "pending", "failed"}
    BY <1>3 DEF RecordInit
  <2>2. credited[i] = 0 /\ intent'[i].status # "none"
    BY <2>1
  <2> QED
    BY <2>1, <2>2
<1>4. CASE CreateDies(i)
  BY <1>4 DEF CreateDies
<1>5. CASE PayerPays(i)
  BY <1>5 DEF PayerPays
<1>6. CASE PaymentRefused(i)
  BY <1>6 DEF PaymentRefused
<1> QED
  BY <1>1, <1>2, <1>3, <1>4, <1>5, <1>6 DEF IntentStep, ReplayTopup

\* What an answer says of one intent touches no other.
LEMMA ApplyElsewhere ==
  ASSUME NEW k \in Intents, NEW j \in Intents \ {k}, NEW says,
         TopupTypeOK, credited \in [Intents -> Nat], Apply(k, says)
  PROVE  intent'[j] = intent[j] /\ credited'[j] = credited[j]
<1>1. CASE Finalize(k)
  BY <1>1 DEF Finalize, TopupTypeOK
<1>2. CASE FailTopup(k)
  BY <1>2 DEF FailTopup, TopupTypeOK
<1>3. CASE intent' \in {intent, [intent EXCEPT ![k].status = "pending"]}
           /\ UNCHANGED credited
  BY <1>3 DEF TopupTypeOK
<1> QED
  BY <1>1, <1>2, <1>3 DEF Apply

LEMMA OnceApply ==
  ASSUME NEW i \in FinalIntents, CreditedAtMostOnce(i),
         NEW says \in {"paid", "refused"},
         TopupTypeOK, credited \in [Intents -> Nat], Apply(i, says),
         UNCHANGED <<creating, payment>>
  PROVE  CreditedAtMostOnce(i)'
<1> USE DEF CreditedAtMostOnce
<1>0. i \in Intents
  BY DEF FinalIntents
<1>1. CASE Finalize(i) /\ intent[i].status = "succeeded"
  BY <1>1 DEF Finalize
<1>2. CASE Finalize(i) /\ intent[i].status # "succeeded"
  <2>1. credited[i] = 0
    BY <1>0, <1>2
  <2>2. credited'[i] = 1 /\ intent'[i].status = "succeeded"
    BY <1>0, <1>2, <2>1 DEF Finalize, TopupTypeOK
  <2> QED
    BY <2>2
<1>3. CASE FailTopup(i)
  BY <1>0, <1>3 DEF FailTopup, TopupTypeOK
<1> QED
  BY <1>1, <1>2, <1>3 DEF Apply

LEMMA OnceStep ==
  ASSUME Pollers = {}, TopupInv, OnceInv, [Next]_vars
  PROVE  OnceInv'
<1> SUFFICES ASSUME NEW i \in FinalIntents
             PROVE  CreditedAtMostOnce(i)'
  BY DEF OnceInv, FinalIntents
<1>0. /\ TopupTypeOK /\ credited \in [Intents -> Nat]
      /\ \A j \in Intents : credited[j] > 0 => payment[j] = "paid"
  BY TopupAssumption DEF TopupInv, TopupTypeOK, TruthInv, CreditOnlyIfPaid
<1>1. i \in Intents /\ CreditedAtMostOnce(i)
  BY DEF OnceInv, FinalIntents
<1>2. CASE UNCHANGED topupVars
  BY <1>1, <1>2, OnceUntouched DEF topupVars
<1>3. ASSUME NEW j \in Intents, IntentStep(j) PROVE CreditedAtMostOnce(i)'
  <2>1. CASE j = i
    BY <1>0, <1>1, <1>3, <2>1, OnceIntentStep
  <2>2. CASE j # i
    BY <1>0, <1>1, <1>3, <2>2, IntentStepElsewhere, OnceUntouched
  <2> QED
    BY <2>1, <2>2
<1>4. ASSUME NEW w \in Workers, Process(w) PROVE CreditedAtMostOnce(i)'
  <2> DEFINE m == inbox[claim[w].event]
  <2>1. UNCHANGED <<creating, payment>>
    BY <1>4 DEF Process
  <2>2. CASE UNCHANGED <<intent, credited>>
    BY <1>1, <2>1, <2>2, OnceUntouched
  <2>3. CASE Work(w, TRUE) /\ Apply(IntentOf[m], SaysOf[m])
    <3>1. m \in Reports
      BY <2>3 DEF Work, TopupInv, QueueInv, BusyInv, QueueTypeOK
    <3> HIDE DEF m
    <3>2. IntentOf[m] \in Intents /\ SaysOf[m] \in {"open", "paid", "refused"}
      BY <3>1, TopupAssumption
    <3>3. CASE IntentOf[m] = i
      <4>1. SaysOf[m] \in {"paid", "refused"}
        BY <3>1, <3>2, <3>3 DEF FinalIntents
      <4> QED
        BY <1>0, <1>1, <2>1, <2>3, <3>3, <4>1, OnceApply
    <3>4. CASE IntentOf[m] # i
      <4>1. intent'[i] = intent[i] /\ credited'[i] = credited[i]
        BY <1>0, <1>1, <2>3, <3>2, <3>4, ApplyElsewhere
      <4> QED
        BY <1>1, <2>1, <4>1, OnceUntouched
    <3> QED
      BY <3>3, <3>4
  <2> QED
    BY <1>4, <2>2, <2>3 DEF Process
<1> QED
  BY <1>2, <1>3, <1>4 DEF Next, vars, ReportArrives

\* Webhooks alone credit an intent at most once when its creation is not
\* sent again and no report of it says "pending" (wallet_finalize_topup under
\* retried and duplicated jobs), whatever is reported of the other intents,
\* for any number of deliveries, workers and lapsed leases.
THEOREM FinalIntentsCreditedOnce ==
  ASSUME Pollers = {}
  PROVE  Spec => [](\A i \in FinalIntents : credited[i] <= 1)
<1>1. Init => OnceInv
  BY DEF Init, OnceInv, CreditedAtMostOnce, FinalIntents, NoIntentRow
<1>2. TopupInv /\ OnceInv /\ [Next]_vars => OnceInv'
  BY OnceStep
<1>3. OnceInv => \A i \in FinalIntents : credited[i] <= 1
  BY DEF OnceInv, CreditedAtMostOnce
<1> QED
  BY <1>1, <1>2, <1>3, TopupInvHolds, PTL DEF Spec

\* So a provider that reports only results credits every intent at most
\* once, replays and polls apart.
THEOREM CreditedOnceHolds ==
  ASSUME Replays = {}, Pollers = {}, \A m \in Reports : SaysOf[m] # "open"
  PROVE  Spec => []CreditedOnce
<1>1. (\A i \in FinalIntents : credited[i] <= 1) => CreditedOnce
  BY DEF FinalIntents, CreditedOnce
<1> QED
  BY <1>1, FinalIntentsCreditedOnce, PTL
=============================================================================

---------------------------- MODULE ChannelQueue ----------------------------
(***************************************************************************)
(* The leased queue of channel jobs: the table public.channel_jobs, the    *)
(* helpers of server/services/channels/jobs.ts that update it, and the     *)
(* loop of worker/channels/index.ts that drains it (processBatch).         *)
(*                                                                         *)
(* A claim takes a batch of jobs at once under one fresh token and works   *)
(* through it one job at a time, so the lease of a later job can run out   *)
(* while an earlier one is being handled.  Every later UPDATE is fenced by *)
(* `claim_token = <the token of the claim>'.  What a job does when it is   *)
(* handled is not said here: MailboxSend and ChatDelivery extend this      *)
(* module with a handler each, which takes a job with Take, and ends in    *)
(* "complete", "release", "fail" or "failForGood".                         *)
(*                                                                         *)
(* Time is two bits of a row: `leased' (claim_expires_at is in the future) *)
(* and `due' (available_at is in the past).  Token 0 is SQL's NULL.        *)
(***************************************************************************)
EXTENDS Integers, FiniteSets

CONSTANTS
  Jobs,         \* the ids channel_jobs rows can have
  Workers,      \* channels worker processes
  BatchSize,    \* BATCH_SIZE: jobs taken by one claim
  MaxAttempts,  \* channel_jobs.max_attempts
  MaxClaims,    \* bound: claims in a behaviour
  MaxFaults,    \* bound: crashes, lost answers, slow runs, broken deployments
  MaxRetries,   \* bound: failed jobs an administrator puts back
  NoJob         \* the current job of a worker that handles none

ASSUME QueueAssumption ==
  /\ BatchSize \in Nat \ {0}
  /\ MaxAttempts \in Nat \ {0}
  /\ MaxClaims \in Nat
  /\ MaxFaults \in Nat
  /\ MaxRetries \in Nat

VARIABLES
  row,          \* row[j]: the channel_jobs row of j
  lastToken,    \* the newest claim token (gen_random_uuid: never repeated)
  batch,        \* batch[w]: claimed jobs w has not come to yet, as claimed
  cur,          \* cur[w]: the job w handles, as w believes it to be
  pc,           \* pc[w]: where in processBatch and the handler w is
  faults,       \* faults so far, at most MaxFaults
  retries       \* administrator's retries so far, at most MaxRetries

queueVars == <<row, lastToken, batch, cur, pc, faults, retries>>

Status == {"absent", "pending", "running", "succeeded", "failed", "cancelled"}

Row == [status: Status, attempt: Nat, token: Nat, leased: BOOLEAN,
        due: BOOLEAN, started: BOOLEAN, accepted: BOOLEAN]

\* What claimChannelJobs returns of a job; started and accepted are the marks
\* in its payload (mail_send_started_at, mail_send_accepted_at).
Claimed == [job: Jobs, token: Nat, attempt: Nat, started: BOOLEAN, accepted: BOOLEAN]

QueuePC == {"idle", "batch", "complete", "release", "fail", "failForGood", "reportFailed"}

NewRow == [status |-> "absent", attempt |-> 0, token |-> 0, leased |-> FALSE,
           due |-> TRUE, started |-> FALSE, accepted |-> FALSE]

QueueInit ==
  /\ row = [j \in Jobs |-> NewRow]
  /\ lastToken = 0
  /\ batch = [w \in Workers |-> {}]
  /\ cur = [w \in Workers |-> NoJob]
  /\ pc = [w \in Workers |-> "idle"]
  /\ faults = 0
  /\ retries = 0

-----------------------------------------------------------------------------
(* Who holds what *)

Handling(w) == pc[w] \notin {"idle", "batch"}

\* Everything w was given by its last claim and has not settled.
Mine(w) == batch[w] \cup (IF Handling(w) THEN {cur[w]} ELSE {})

\* The claim that s came with is still the one on the row.
Holds(s) == row[s.job].token = s.token

\* Some worker still works on j, or will, under a claim that is good.
Held(j) == \E w \in Workers : \E s \in Mine(w) : s.job = j /\ Holds(s)

Fault == faults < MaxFaults /\ faults' = faults + 1
NoFault == UNCHANGED faults

-----------------------------------------------------------------------------
(* The updates of jobs.ts.  Each is one UPDATE, fenced by the claim token;  *)
(* it touches no row once the claim is gone, and that is not an error.      *)

\* Mutant: the fence forgotten.
UnfencedUpdate(s, r) == row' = [row EXCEPT ![s.job] = r]

FencedUpdate(s, r) == row' = IF Holds(s) THEN [row EXCEPT ![s.job] = r] ELSE row

\* The call answers with an error: the UPDATE may have been applied or not.
UpdateFails(s, r) == Fault /\ (FencedUpdate(s, r) \/ UNCHANGED row)

\* Mutant: the claim token is not cleared.
FreedKeepingToken(r, st) == [r EXCEPT !.status = st, !.leased = FALSE]

Freed(r, st) == [r EXCEPT !.status = st, !.token = 0, !.leased = FALSE]

CompletedRow(s) == Freed(row[s.job], "succeeded")

ReleasedRow(s) ==
  [Freed(row[s.job], "pending") EXCEPT !.due = FALSE,
     !.attempt = IF s.attempt > 0 THEN s.attempt - 1 ELSE 0]

FailedRow(s, exhausted) ==
  [Freed(row[s.job], IF exhausted THEN "failed" ELSE "pending") EXCEPT !.due = FALSE]

\* markChannelJob: the payload the worker knows with its patch, and a new lease.
\* Mutant: fenced by the status alone.
MarkableByStatus(s) == row[s.job].status = "running"

Markable(s) == Holds(s) /\ row[s.job].status = "running"
MarkedRow(s) ==
  [row[s.job] EXCEPT !.started = s.started, !.accepted = s.accepted, !.leased = TRUE]

-----------------------------------------------------------------------------
(* The worker's loop *)

\* The job is settled as far as w goes: on to the next of the batch, if any.
NextJob(w) ==
  /\ pc' = [pc EXCEPT ![w] = IF batch[w] = {} THEN "idle" ELSE "batch"]
  /\ cur' = [cur EXCEPT ![w] = NoJob]
  /\ UNCHANGED batch

\* The loop of processBatch is left: the rest of the batch keeps its leases.
LeaveBatch(w) ==
  /\ pc' = [pc EXCEPT ![w] = "idle"]
  /\ cur' = [cur EXCEPT ![w] = NoJob]
  /\ batch' = [batch EXCEPT ![w] = {}]

Goto(w, step) == pc' = [pc EXCEPT ![w] = step] /\ UNCHANGED <<batch, cur>>

\* enqueueChannelJob; `due' says whether its available_at has come already.
Enqueue(j, due) ==
  /\ row[j].status = "absent"
  /\ row' = [row EXCEPT ![j].status = "pending", ![j].due = due]
  /\ UNCHANGED <<lastToken, batch, cur, pc, faults, retries>>

\* POST /channels/jobs/retry: an administrator requeues a dead job, marks and
\* all.
AdminRetry(j) ==
  /\ row[j].status = "failed"
  /\ retries < MaxRetries
  /\ retries' = retries + 1
  /\ row' = [row EXCEPT ![j] = [Freed(@, "pending") EXCEPT !.attempt = 0, !.due = TRUE]]
  /\ UNCHANGED <<lastToken, batch, cur, pc, faults>>

\* Mutants: running jobs are never picked up again; leases are not looked at.
ClaimableWhenPending(j) == row[j].status = "pending" /\ row[j].due
ClaimableWhenLeased(j) == row[j].status \in {"pending", "running"} /\ row[j].due

Claimable(j) ==
  /\ row[j].status \in {"pending", "running"}
  /\ row[j].due
  /\ ~row[j].leased

AsClaimed(j) == [job |-> j, token |-> lastToken + 1, attempt |-> row[j].attempt + 1,
                 started |-> row[j].started, accepted |-> row[j].accepted]

\* FOR UPDATE SKIP LOCKED: any claimable rows, at most BatchSize of them.
Claim(w, S) ==
  /\ pc[w] = "idle"
  /\ lastToken < MaxClaims
  /\ S # {}
  /\ Cardinality(S) <= BatchSize
  /\ \A j \in S : Claimable(j)
  /\ row' = [j \in Jobs |->
       IF j \in S THEN [row[j] EXCEPT !.status = "running", !.attempt = @ + 1,
                                      !.token = lastToken + 1, !.leased = TRUE]
       ELSE row[j]]
  /\ lastToken' = lastToken + 1
  /\ batch' = [batch EXCEPT ![w] = {AsClaimed(j) : j \in S}]
  /\ pc' = [pc EXCEPT ![w] = "batch"]
  /\ UNCHANGED <<cur, faults, retries>>

\* The loop comes to s and its handler starts at `step'.
Take(w, s, step) ==
  /\ pc[w] = "batch"
  /\ s \in batch[w]
  /\ cur' = [cur EXCEPT ![w] = s]
  /\ batch' = [batch EXCEPT ![w] = @ \ {s}]
  /\ pc' = [pc EXCEPT ![w] = step]
  /\ UNCHANGED <<row, lastToken, faults, retries>>

\* completeChannelJob; when it throws, the loop's catch treats the job as failed.
Complete(w) ==
  /\ pc[w] = "complete"
  /\ \/ FencedUpdate(cur[w], CompletedRow(cur[w])) /\ NoFault /\ NextJob(w)
     \/ UpdateFails(cur[w], CompletedRow(cur[w])) /\ Goto(w, "fail")
  /\ UNCHANGED <<lastToken, retries>>

\* releaseChannelJob, then `break'; when it throws, processBatch throws.
Release(w) ==
  /\ pc[w] = "release"
  /\ \/ FencedUpdate(cur[w], ReleasedRow(cur[w])) /\ NoFault
     \/ UpdateFails(cur[w], ReleasedRow(cur[w]))
  /\ LeaveBatch(w)
  /\ UNCHANGED <<lastToken, retries>>

\* Mutant: one run too many.
ExhaustedLate(w) == pc[w] = "failForGood" \/ cur[w].attempt > MaxAttempts

Exhausted(w) == pc[w] = "failForGood" \/ cur[w].attempt >= MaxAttempts

\* Mutant: the failure of a job that will not run again is not reported.
FailSilently(w) ==
  /\ pc[w] \in {"fail", "failForGood"}
  /\ \/ FencedUpdate(cur[w], FailedRow(cur[w], Exhausted(w))) /\ NoFault /\ NextJob(w)
     \/ UpdateFails(cur[w], FailedRow(cur[w], Exhausted(w))) /\ LeaveBatch(w)
  /\ UNCHANGED <<lastToken, retries>>

\* failChannelJob: its verdict comes from the claimed copy alone, so the
\* failure is reported even where the update found the claim gone.
Fail(w) ==
  /\ pc[w] \in {"fail", "failForGood"}
  /\ \/ /\ FencedUpdate(cur[w], FailedRow(cur[w], Exhausted(w)))
        /\ NoFault
        /\ IF Exhausted(w) THEN Goto(w, "reportFailed") ELSE NextJob(w)
     \/ UpdateFails(cur[w], FailedRow(cur[w], Exhausted(w))) /\ LeaveBatch(w)
  /\ UNCHANGED <<lastToken, retries>>

\* The process dies (or is stopped): its claims stay until their leases end.
Crash(w) ==
  /\ pc[w] # "idle"
  /\ Fault
  /\ LeaveBatch(w)
  /\ UNCHANGED <<row, lastToken, retries>>

\* Time reaches claim_expires_at.  While some worker still works under the
\* claim that is a run slower than its lease, and counts as a fault.
LeaseExpires(j) ==
  /\ row[j].leased
  /\ row' = [row EXCEPT ![j].leased = FALSE]
  /\ IF Held(j) THEN Fault ELSE NoFault
  /\ UNCHANGED <<lastToken, batch, cur, pc, retries>>

\* Time reaches available_at.
BackoffElapses(j) ==
  /\ ~row[j].due
  /\ row' = [row EXCEPT ![j].due = TRUE]
  /\ UNCHANGED <<lastToken, batch, cur, pc, faults, retries>>

-----------------------------------------------------------------------------
(* What holds whatever the jobs do: the part of an invariant that is the     *)
(* queue's.  PC is where the workers of the module at hand can be.           *)

QueueTypeOK(PC) ==
  /\ row \in [Jobs -> Row]
  /\ lastToken \in Nat
  /\ batch \in [Workers -> SUBSET Claimed]
  /\ cur \in [Workers -> Claimed \cup {NoJob}]
  /\ pc \in [Workers -> PC]
  /\ \A w \in Workers : Handling(w) => cur[w] \in Claimed
  /\ faults \in 0..MaxFaults
  /\ retries \in 0..MaxRetries

\* A row carries a token exactly while it runs.
RowsAreClaimed ==
  \A j \in Jobs : /\ row[j].token \in 0..lastToken
                  /\ row[j].token > 0 <=> row[j].status = "running"

\* No two workers work under one token, and no worker has a job twice.
ClaimsAreDistinct ==
  /\ \A w \in Workers : \A s \in Mine(w) : s.token \in 1..lastToken
  /\ \A w, v \in Workers : \A s \in Mine(w), t \in Mine(v) : s.token = t.token => w = v
  /\ \A w \in Workers : \A s, t \in batch[w] : s.job = t.job => s = t
  /\ \A w \in Workers : Handling(w) => \A s \in batch[w] : s.job # cur[w].job

QueueInv == RowsAreClaimed /\ ClaimsAreDistinct

\* A claim of j can come, or be made to come by no more than time.
Reclaimable(j) ==
  \/ row[j].status \in {"absent", "pending"}
  \/ row[j].status = "running" /\ ~(row[j].leased /\ Held(j))

\* The first n runs of a job are free, every other one is bought by a fault: by
\* the time a worker is at one of `places', its last claim has been paid for.
\* It knows the number of its run as long as its claim is good, and is idle only
\* when it has come to every job of its batch.
RunsArePaid(n, places) ==
  /\ \A w \in Workers : pc[w] = "idle" => batch[w] = {}
  /\ \A w \in Workers : \A s \in Mine(w) :
       Holds(s) => s.attempt = row[s.job].attempt /\ s.attempt > 0
  /\ \A w \in Workers : pc[w] = "reportFailed" => ~Holds(cur[w])
  /\ \A j \in Jobs : /\ row[j].attempt <= n + faults
                     /\ Reclaimable(j) => row[j].attempt < n + faults
  /\ \A w \in Workers : pc[w] \in places =>
       \A s \in Mine(w) : Holds(s) => row[s.job].attempt < n + faults

=============================================================================

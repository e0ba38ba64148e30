------------------------- MODULE ChannelQueueProofs -------------------------
(***************************************************************************)
(* Lemmas about the operators of ChannelQueue: each of them keeps the      *)
(* queue's state well typed, its claims distinct and its runs paid for,    *)
(* whatever the handler of the module that uses it does.  PC is the set of *)
(* places a worker of that module can be.                                  *)
(***************************************************************************)
EXTENDS ChannelQueue, TLAPS

-----------------------------------------------------------------------------
(* The updates of one row are rows *)

\* Giving up a claim leaves a well-formed row.
LEMMA FreedIsRow ==
  ASSUME NEW r \in Row, NEW st \in Status
  PROVE  Freed(r, st) \in Row
  BY DEF Row, Freed

\* So do all the updates jobs.ts makes.
LEMMA UpdatesAreRows ==
  ASSUME NEW PC, QueueTypeOK(PC), NEW s \in Claimed, NEW e \in BOOLEAN
  PROVE  /\ CompletedRow(s) \in Row
         /\ ReleasedRow(s) \in Row
         /\ FailedRow(s, e) \in Row
         /\ MarkedRow(s) \in Row
<1> DEFINE r == row[s.job]
<1>1. /\ r \in Row
      /\ s \in [job: Jobs, token: Nat, attempt: Nat, started: BOOLEAN, accepted: BOOLEAN]
  BY DEF QueueTypeOK, Claimed
<1>2. CompletedRow(s) \in Row
  BY <1>1, FreedIsRow DEF CompletedRow, Status
<1>3. ReleasedRow(s) \in Row
  <2> DEFINE f == Freed(r, "pending")
             n == IF s.attempt > 0 THEN s.attempt - 1 ELSE 0
  <2>1. f \in Row
    BY <1>1, FreedIsRow DEF Status
  <2>2. n \in Nat
    BY <1>1
  <2>3. [f EXCEPT !.due = FALSE, !.attempt = n] \in Row
    <3> HIDE DEF f, n
    <3> QED BY <2>1, <2>2 DEF Row
  <2> QED BY <2>3 DEF ReleasedRow
<1>4. FailedRow(s, e) \in Row
  <2> DEFINE f == Freed(r, IF e THEN "failed" ELSE "pending")
  <2>1. f \in Row
    BY <1>1, FreedIsRow DEF Status
  <2>2. [f EXCEPT !.due = FALSE] \in Row
    <3> HIDE DEF f
    <3> QED BY <2>1 DEF Row
  <2> QED BY <2>2 DEF FailedRow
<1>5. MarkedRow(s) \in Row
  <2> HIDE DEF r
  <2>1. [r EXCEPT !.started = s.started, !.accepted = s.accepted, !.leased = TRUE] \in Row
    BY <1>1 DEF Row
  <2> QED BY <2>1 DEF MarkedRow, r
<1> QED BY <1>2, <1>3, <1>4, <1>5

-----------------------------------------------------------------------------
(* Types, by the three parts of the state a step changes *)

\* The fault counter stays within its bound.
LEMMA FaultIsBounded ==
  ASSUME NEW PC, QueueTypeOK(PC), Fault \/ NoFault
  PROVE  faults' \in 0..MaxFaults
  BY QueueAssumption DEF QueueTypeOK, Fault, NoFault

\* A fenced update, whether it is applied, finds its claim gone, or fails.
LEMMA FencedUpdateType ==
  ASSUME NEW PC, QueueTypeOK(PC), NEW s \in Claimed, NEW r \in Row,
         FencedUpdate(s, r) \/ UpdateFails(s, r) \/ UNCHANGED row
  PROVE  row' \in [Jobs -> Row]
<1>1. row' = row \/ row' = [row EXCEPT ![s.job] = r]
  BY DEF FencedUpdate, UpdateFails
<1> QED BY <1>1 DEF QueueTypeOK

WorkersTypeOK(PC) ==
  /\ batch \in [Workers -> SUBSET Claimed]
  /\ cur \in [Workers -> Claimed \cup {NoJob}]
  /\ pc \in [Workers -> PC]
  /\ \A w \in Workers : Handling(w) => cur[w] \in Claimed

\* A worker that handles a job goes on with it, or is done with it.
WorkerGoesOn(w, PC) ==
  (\E step \in PC : Goto(w, step)) \/ NextJob(w) \/ LeaveBatch(w)

\* The workers' part stays well typed as one of them goes on.
LEMMA GoesOnType ==
  ASSUME NEW PC, QueuePC \subseteq PC, WorkersTypeOK(PC),
         NEW w \in Workers, Handling(w) \/ LeaveBatch(w), WorkerGoesOn(w, PC)
  PROVE  WorkersTypeOK(PC)'
<1>1. CASE \E step \in PC : Goto(w, step)
  <2>0. CASE LeaveBatch(w)
    BY <1>1, <2>0 DEF WorkersTypeOK, Goto, LeaveBatch, Handling, QueuePC
  <2>1. CASE Handling(w)
    BY <1>1, <2>1 DEF WorkersTypeOK, Goto, Handling
  <2> QED BY <2>0, <2>1
<1>2. CASE NextJob(w)
  BY <1>2 DEF WorkersTypeOK, NextJob, Handling, QueuePC
<1>3. CASE LeaveBatch(w)
  BY <1>3 DEF WorkersTypeOK, LeaveBatch, Handling, QueuePC
<1> QED BY <1>1, <1>2, <1>3 DEF WorkerGoesOn

-----------------------------------------------------------------------------
(* The invariant of the queue *)

\* No claim is made, none changes hands.
ClaimsShrink ==
  /\ UNCHANGED lastToken
  /\ \A w \in Workers :
       /\ batch'[w] \subseteq batch[w]
       /\ Handling(w)' => /\ Handling(w)
                          /\ cur'[w].job = cur[w].job
                          /\ cur'[w].token = cur[w].token

\* Claims that only shrink stay distinct.
LEMMA ShrinkKeepsDistinct ==
  ASSUME NEW PC, QueueTypeOK(PC), ClaimsAreDistinct, ClaimsShrink
  PROVE  ClaimsAreDistinct'
  BY DEF ClaimsAreDistinct, ClaimsShrink, Mine, QueueTypeOK

\* A worker that goes on takes no claim.
LEMMA GoesOnShrinks ==
  ASSUME NEW PC, QueueTypeOK(PC), NEW w \in Workers, Handling(w) \/ LeaveBatch(w),
         WorkerGoesOn(w, PC), UNCHANGED lastToken
  PROVE  ClaimsShrink
  BY DEF ClaimsShrink, WorkerGoesOn, Goto, NextJob, LeaveBatch, Handling, QueueTypeOK

\* The fields of a row that is given up.
LEMMA FreedFields ==
  ASSUME NEW r \in Row, NEW st \in Status
  PROVE  /\ Freed(r, st).status = st /\ Freed(r, st).token = 0
         /\ Freed(r, st).started = r.started /\ Freed(r, st).accepted = r.accepted
  BY DEF Row, Freed

\* Settling a row gives up its token and keeps its marks.
Settled(r, q) ==
  /\ q \in Row
  /\ q.token = 0 /\ q.status \in {"succeeded", "pending", "failed"}
  /\ q.started = r.started /\ q.accepted = r.accepted

\* completeChannelJob, releaseChannelJob and failChannelJob settle a row.
LEMMA UpdatesSettle ==
  ASSUME NEW PC, QueueTypeOK(PC), NEW s \in Claimed, NEW e \in BOOLEAN
  PROVE  /\ Settled(row[s.job], CompletedRow(s))
         /\ Settled(row[s.job], ReleasedRow(s))
         /\ ReleasedRow(s).status = "pending"
         /\ Settled(row[s.job], FailedRow(s, e))
         /\ FailedRow(s, e).status \in {"pending", "failed"}
<1> DEFINE r == row[s.job]
<1>1. r \in Row
  BY DEF QueueTypeOK, Claimed
<1>2. Settled(r, CompletedRow(s))
  BY <1>1, UpdatesAreRows, FreedFields DEF CompletedRow, Settled, Status
<1>3. Settled(r, ReleasedRow(s)) /\ ReleasedRow(s).status = "pending"
  <2> DEFINE f == Freed(r, "pending")
             n == IF s.attempt > 0 THEN s.attempt - 1 ELSE 0
  <2>1. f \in Row /\ f.status = "pending" /\ f.token = 0
        /\ f.started = r.started /\ f.accepted = r.accepted
    BY <1>1, FreedIsRow, FreedFields DEF Status
  <2>2. ReleasedRow(s) = [f EXCEPT !.due = FALSE, !.attempt = n]
    BY DEF ReleasedRow
  <2>3. ReleasedRow(s) \in Row
    BY UpdatesAreRows
  <2> HIDE DEF f, n
  <2> QED BY <2>1, <2>2, <2>3 DEF Settled, Row
<1>4. Settled(r, FailedRow(s, e)) /\ FailedRow(s, e).status \in {"pending", "failed"}
  <2> DEFINE st == IF e THEN "failed" ELSE "pending"
             f == Freed(r, st)
  <2>0. st \in {"pending", "failed"} /\ st \in Status
    BY DEF Status
  <2> HIDE DEF st
  <2>1. f \in Row /\ f.status = st /\ f.token = 0
        /\ f.started = r.started /\ f.accepted = r.accepted
    BY <1>1, <2>0, FreedIsRow, FreedFields
  <2>2. FailedRow(s, e) = [f EXCEPT !.due = FALSE]
    BY DEF FailedRow, st
  <2>3. FailedRow(s, e) \in Row
    BY UpdatesAreRows
  <2> HIDE DEF f
  <2> QED BY <2>0, <2>1, <2>2, <2>3 DEF Settled, Row
<1> QED BY <1>2, <1>3, <1>4

\* The fields of a row that is marked (markChannelJob).
LEMMA MarkedFields ==
  ASSUME NEW PC, QueueTypeOK(PC), NEW s \in Claimed
  PROVE  /\ MarkedRow(s) \in Row
         /\ MarkedRow(s).token = row[s.job].token
         /\ MarkedRow(s).status = row[s.job].status
         /\ MarkedRow(s).started = s.started
         /\ MarkedRow(s).accepted = s.accepted
<1>1. row[s.job] \in Row
  BY DEF QueueTypeOK, Claimed
<1> QED BY <1>1, UpdatesAreRows DEF MarkedRow, Row

-----------------------------------------------------------------------------
(* Each operator's effect, in the form the invariants need it *)

\* The job w handles is settled, or left as it is when the claim is gone.
SettlesOwnJob(w) ==
  \/ UNCHANGED row
  \/ /\ Holds(cur[w])
     /\ \E q \in Row : /\ Settled(row[cur[w].job], q)
                      /\ row' = [row EXCEPT ![cur[w].job] = q]

\* What completing, releasing and failing have in common.
LEMMA QueueStepEffect ==
  ASSUME NEW PC, QueueTypeOK(PC), NEW w \in Workers,
         Complete(w) \/ Release(w) \/ Fail(w)
  PROVE  /\ Handling(w)
         /\ SettlesOwnJob(w)
         /\ WorkerGoesOn(w, QueuePC)
         /\ Fault \/ NoFault
         /\ UNCHANGED <<lastToken, retries>>
<1> DEFINE s == cur[w]
<1>0. Handling(w) /\ s \in Claimed /\ Exhausted(w) \in BOOLEAN
  BY DEF QueueTypeOK, Handling, Complete, Release, Fail, Exhausted
<1>1. ASSUME NEW q, Settled(row[s.job], q), FencedUpdate(s, q) \/ UpdateFails(s, q)
      PROVE  SettlesOwnJob(w)
  BY <1>1 DEF FencedUpdate, UpdateFails, SettlesOwnJob, Settled
<1>2. CASE Complete(w)
  <2>1. SettlesOwnJob(w)
    BY <1>0, <1>1, <1>2, UpdatesSettle DEF Complete
  <2>2. (Goto(w, "fail") \/ NextJob(w)) /\ (Fault \/ NoFault) /\ UNCHANGED <<lastToken, retries>>
    BY <1>2 DEF Complete, UpdateFails
  <2> QED BY <1>0, <2>1, <2>2 DEF WorkerGoesOn, QueuePC
<1>3. CASE Release(w)
  <2>1. SettlesOwnJob(w)
    BY <1>0, <1>1, <1>3, UpdatesSettle DEF Release
  <2>2. LeaveBatch(w) /\ (Fault \/ NoFault) /\ UNCHANGED <<lastToken, retries>>
    BY <1>3 DEF Release, UpdateFails
  <2> QED BY <1>0, <2>1, <2>2 DEF WorkerGoesOn
<1>4. CASE Fail(w)
  <2>1. SettlesOwnJob(w)
    BY <1>0, <1>1, <1>4, UpdatesSettle DEF Fail
  <2>2. /\ Goto(w, "reportFailed") \/ NextJob(w) \/ LeaveBatch(w)
        /\ Fault \/ NoFault
        /\ UNCHANGED <<lastToken, retries>>
    BY <1>4 DEF Fail, UpdateFails
  <2> QED BY <1>0, <2>1, <2>2 DEF WorkerGoesOn, QueuePC
<1> QED BY <1>2, <1>3, <1>4

-----------------------------------------------------------------------------
(* Types and the queue's invariant are kept by each operator *)

\* A worker that goes on, and settles its own job at most, keeps the queue.
LEMMA GoesOnKeepsQueue ==
  ASSUME NEW PC, QueuePC \subseteq PC, QueueTypeOK(PC), QueueInv,
         NEW w \in Workers, Handling(w) \/ LeaveBatch(w), WorkerGoesOn(w, PC),
         SettlesOwnJob(w), Fault \/ NoFault, UNCHANGED <<lastToken, retries>>
  PROVE  QueueTypeOK(PC)' /\ QueueInv'
<1>1. WorkersTypeOK(PC)
  BY DEF QueueTypeOK, WorkersTypeOK
<1>2. WorkersTypeOK(PC)'
  BY <1>1, GoesOnType
<1>3. row' \in [Jobs -> Row]
  BY DEF SettlesOwnJob, QueueTypeOK
<1>4. QueueTypeOK(PC)'
  BY <1>2, <1>3, FaultIsBounded DEF WorkersTypeOK, QueueTypeOK
<1>5. ClaimsAreDistinct'
  BY GoesOnShrinks, ShrinkKeepsDistinct DEF QueueInv
<1>6. RowsAreClaimed'
  BY DEF QueueInv, RowsAreClaimed, SettlesOwnJob, Settled, QueueTypeOK, Row
<1> QED BY <1>4, <1>5, <1>6 DEF QueueInv

\* Completing, releasing and failing keep the queue.
LEMMA QueueStepKeepsQueue ==
  ASSUME NEW PC, QueuePC \subseteq PC, QueueTypeOK(PC), QueueInv,
         NEW w \in Workers, Complete(w) \/ Release(w) \/ Fail(w)
  PROVE  QueueTypeOK(PC)' /\ QueueInv'
<1>1. WorkerGoesOn(w, PC)
  BY QueueStepEffect DEF WorkerGoesOn
<1> QED BY <1>1, QueueStepEffect, GoesOnKeepsQueue

\* A crash leaves the rows and drops the claims.
LEMMA CrashKeepsQueue ==
  ASSUME NEW PC, QueuePC \subseteq PC, QueueTypeOK(PC), QueueInv,
         NEW w \in Workers, Crash(w)
  PROVE  QueueTypeOK(PC)' /\ QueueInv'
<1>1. LeaveBatch(w) /\ Fault /\ UNCHANGED row /\ UNCHANGED <<lastToken, retries>>
  BY DEF Crash
<1>2. WorkerGoesOn(w, PC) /\ SettlesOwnJob(w)
  BY <1>1 DEF WorkerGoesOn, SettlesOwnJob
<1> QED BY <1>1, <1>2, GoesOnKeepsQueue

\* Enqueue, AdminRetry and the passing of time touch rows that no claim holds,
\* or leave the claim on them.
LEMMA RowOnlyKeepsQueue ==
  ASSUME NEW PC, QueueTypeOK(PC), QueueInv, NEW j \in Jobs,
         \/ \E due \in BOOLEAN : Enqueue(j, due)
         \/ AdminRetry(j) \/ LeaseExpires(j) \/ BackoffElapses(j)
  PROVE  QueueTypeOK(PC)' /\ QueueInv'
<1>1. row[j] \in Row /\ row \in [Jobs -> Row]
  BY DEF QueueTypeOK
<1>2. \E q \in Row : /\ row' = [row EXCEPT ![j] = q]
                     /\ \/ q.token = row[j].token /\ q.status = row[j].status
                        \/ q.token = 0 /\ q.status = "pending"
                        \/ q.token = row[j].token /\ q.status = "pending" /\ row[j].status = "absent"
  <2>1. ASSUME NEW due \in BOOLEAN, Enqueue(j, due) PROVE <1>2
    <3> DEFINE q == [row[j] EXCEPT !.status = "pending", !.due = due]
    <3>1. q \in Row /\ q.token = row[j].token /\ q.status = "pending"
      BY <1>1 DEF Row, Status
    <3>2. row' = [row EXCEPT ![j] = q] /\ row[j].status = "absent"
      BY <1>1, <2>1 DEF Enqueue
    <3> QED BY <3>1, <3>2
  <2>2. CASE AdminRetry(j)
    <3> DEFINE f == Freed(row[j], "pending")
               q == [f EXCEPT !.attempt = 0, !.due = TRUE]
    <3>1. f \in Row /\ f.token = 0 /\ f.status = "pending"
      BY <1>1, FreedIsRow, FreedFields DEF Status
    <3>2. row' = [row EXCEPT ![j] = q]
      BY <1>1, <2>2 DEF AdminRetry
    <3> HIDE DEF f
    <3>3. q \in Row /\ q.token = 0 /\ q.status = "pending"
      BY <3>1 DEF Row
    <3> QED BY <3>2, <3>3
  <2>3. CASE LeaseExpires(j)
    <3> DEFINE q == [row[j] EXCEPT !.leased = FALSE]
    <3>1. q \in Row /\ q.token = row[j].token /\ q.status = row[j].status
      BY <1>1 DEF Row
    <3>2. row' = [row EXCEPT ![j] = q]
      BY <1>1, <2>3 DEF LeaseExpires
    <3> QED BY <3>1, <3>2
  <2>4. CASE BackoffElapses(j)
    <3> DEFINE q == [row[j] EXCEPT !.due = TRUE]
    <3>1. q \in Row /\ q.token = row[j].token /\ q.status = row[j].status
      BY <1>1 DEF Row
    <3>2. row' = [row EXCEPT ![j] = q]
      BY <1>1, <2>4 DEF BackoffElapses
    <3> QED BY <3>1, <3>2
  <2> QED BY <2>1, <2>2, <2>3, <2>4
<1>3. UNCHANGED <<lastToken, batch, cur, pc>> /\ (Fault \/ NoFault)
  BY DEF Enqueue, AdminRetry, LeaseExpires, BackoffElapses, NoFault
<1>4. retries' \in 0..MaxRetries
  BY QueueAssumption DEF QueueTypeOK, Enqueue, AdminRetry, LeaseExpires, BackoffElapses
<1>5. QueueTypeOK(PC)'
  BY <1>1, <1>2, <1>3, <1>4, FaultIsBounded DEF QueueTypeOK, Handling
<1>6. ClaimsShrink
  BY <1>3 DEF ClaimsShrink, Handling
<1>7. RowsAreClaimed'
  <2>1. PICK q \in Row : <1>2!(q)
    BY <1>2
  <2>2. lastToken' = lastToken /\ lastToken \in Nat
    BY <1>3 DEF QueueTypeOK
  <2> SUFFICES ASSUME NEW i \in Jobs
               PROVE  row'[i].token \in 0..lastToken /\ (row'[i].token > 0 <=> row'[i].status = "running")
    BY <2>2 DEF RowsAreClaimed
  <2>3. row[i].token \in 0..lastToken /\ (row[i].token > 0 <=> row[i].status = "running")
    BY DEF QueueInv, RowsAreClaimed
  <2>4. row'[i] = IF i = j THEN q ELSE row[i]
    BY <1>1, <2>1
  <2> QED BY <2>1, <2>2, <2>3, <2>4
<1> QED BY <1>5, <1>6, <1>7, ShrinkKeepsDistinct DEF QueueInv

\* The loop comes to a job of its batch.
LEMMA TakeKeepsQueue ==
  ASSUME NEW PC, QueueTypeOK(PC), QueueInv, NEW w \in Workers,
         NEW step \in PC, step \notin {"idle", "batch"},
         NEW s \in batch[w], Take(w, s, step)
  PROVE  QueueTypeOK(PC)' /\ QueueInv'
<1>1. s \in Claimed
  BY DEF QueueTypeOK
<1>2. QueueTypeOK(PC)'
  BY <1>1 DEF QueueTypeOK, Take, Handling
<1>3. ~Handling(w) /\ Handling(w)' /\ cur'[w] = s /\ batch'[w] = batch[w] \ {s}
  BY DEF QueueTypeOK, Take, Handling
<1>4. \A v \in Workers \ {w} :
        /\ Handling(v)' = Handling(v) /\ cur'[v] = cur[v] /\ batch'[v] = batch[v]
  BY DEF QueueTypeOK, Take, Handling
<1>5. \A v \in Workers : Mine(v)' = Mine(v)
  BY <1>3, <1>4 DEF Mine
<1>6. ClaimsAreDistinct'
  BY <1>3, <1>4, <1>5 DEF ClaimsAreDistinct, QueueInv, Take
<1>7. RowsAreClaimed'
  BY DEF RowsAreClaimed, QueueInv, Take
<1> QED BY <1>2, <1>6, <1>7 DEF QueueInv

\* A claim: fresh for the worker that makes it, and taken from whoever had it.
LEMMA ClaimKeepsQueue ==
  ASSUME NEW PC, QueuePC \subseteq PC, QueueTypeOK(PC), QueueInv,
         NEW w \in Workers, NEW S \in SUBSET Jobs, Claim(w, S)
  PROVE  QueueTypeOK(PC)' /\ QueueInv'
<1> DEFINE t == lastToken + 1
           B == {AsClaimed(j) : j \in S}
           taken(j) == [row[j] EXCEPT !.status = "running", !.attempt = @ + 1,
                                      !.token = t, !.leased = TRUE]
<1>0. row \in [Jobs -> Row] /\ lastToken \in Nat /\ t \in Nat /\ lastToken' = t
  <2>1. row \in [Jobs -> Row] /\ lastToken \in Nat
    BY DEF QueueTypeOK
  <2>2. lastToken' = t
    BY DEF Claim
  <2> QED BY <2>1, <2>2
<1>1. \A j \in Jobs : /\ taken(j) \in Row
                      /\ taken(j).token = t /\ taken(j).status = "running"
  <2> TAKE j \in Jobs
  <2> DEFINE r == row[j]
             n == r.attempt + 1
  <2>1. r \in Row /\ n \in Nat
    BY <1>0 DEF Row
  <2>2. taken(j) = [r EXCEPT !.status = "running", !.attempt = n, !.token = t, !.leased = TRUE]
    OBVIOUS
  <2> HIDE DEF r, n, t, taken
  <2> QED BY <1>0, <2>1, <2>2 DEF Row, Status
<1>2. row' = [j \in Jobs |-> IF j \in S THEN taken(j) ELSE row[j]]
  BY DEF Claim
<1>3. row' \in [Jobs -> Row]
  <2> HIDE DEF taken
  <2> QED BY <1>0, <1>1, <1>2
<1>4. \A s \in B : s \in Claimed /\ s.token = t
  BY <1>0 DEF AsClaimed, Claimed, Row
<1>5. \A s, r \in B : s.job = r.job => s = r
  BY DEF AsClaimed
<1>6. /\ pc[w] = "idle"
      /\ batch' = [batch EXCEPT ![w] = B]
      /\ pc' = [pc EXCEPT ![w] = "batch"]
      /\ UNCHANGED <<cur, faults, retries>>
  BY DEF Claim
<1> HIDE DEF B, taken, t
<1>7. QueueTypeOK(PC)'
  BY <1>0, <1>3, <1>4, <1>6 DEF QueueTypeOK, Handling, QueuePC
<1>8. /\ ~Handling(w)' /\ batch'[w] = B
      /\ \A v \in Workers \ {w} : batch'[v] = batch[v]
      /\ \A v \in Workers : Handling(v)' => v # w /\ Handling(v) /\ cur'[v] = cur[v]
  BY <1>6 DEF QueueTypeOK, Handling
<1>9. /\ Mine(w)' = B
      /\ \A v \in Workers \ {w} : Mine(v)' = Mine(v)
  <2>1. Mine(w)' = B
    BY <1>8 DEF Mine
  <2>2. \A v \in Workers \ {w} : Handling(v)' = Handling(v) /\ cur'[v] = cur[v] /\ batch'[v] = batch[v]
    BY <1>6 DEF QueueTypeOK, Handling
  <2> QED BY <2>1, <2>2 DEF Mine
<1>10. \A v \in Workers : \A s \in Mine(v) : s.token \in 1..lastToken
  BY DEF QueueInv, ClaimsAreDistinct
<1>11. ClaimsAreDistinct'
  <2>1. \A v \in Workers : \A s \in Mine(v)' : s.token \in 1..t /\ (s.token = t <=> v = w)
    BY <1>0, <1>4, <1>9, <1>10 DEF t
  <2>2. \A v, u \in Workers : \A s \in Mine(v)', r \in Mine(u)' : s.token = r.token => v = u
    BY <1>9, <2>1 DEF QueueInv, ClaimsAreDistinct
  <2>3. \A v \in Workers : \A s, r \in batch'[v] : s.job = r.job => s = r
    BY <1>5, <1>8 DEF QueueInv, ClaimsAreDistinct
  <2>4. \A v \in Workers : Handling(v)' => \A s \in batch'[v] : s.job # cur'[v].job
    BY <1>8 DEF QueueInv, ClaimsAreDistinct
  <2> QED BY <1>0, <2>1, <2>2, <2>3, <2>4 DEF ClaimsAreDistinct
<1>12. RowsAreClaimed'
  <2> SUFFICES ASSUME NEW j \in Jobs
               PROVE  row'[j].token \in 0..t /\ (row'[j].token > 0 <=> row'[j].status = "running")
    BY <1>0 DEF RowsAreClaimed
  <2>1. row[j].token \in 0..lastToken /\ (row[j].token > 0 <=> row[j].status = "running")
    BY DEF QueueInv, RowsAreClaimed
  <2>2. row'[j] = IF j \in S THEN taken(j) ELSE row[j]
    BY <1>2
  <2> QED BY <1>0, <1>1, <2>1, <2>2 DEF t
<1> QED BY <1>7, <1>11, <1>12 DEF QueueInv

\* Marking the job in hand writes its row, never its claim.
LEMMA MarkKeepsQueue ==
  ASSUME NEW PC, QueueTypeOK(PC), QueueInv, NEW w \in Workers, Handling(w),
         NEW s \in Claimed, s.job = cur[w].job, s.token = cur[w].token,
         NEW step \in PC, step \notin {"idle", "batch"},
         UNCHANGED row \/ row' = [row EXCEPT ![s.job] = MarkedRow(s)],
         cur' = cur \/ cur' = [cur EXCEPT ![w] = s],
         pc' = [pc EXCEPT ![w] = step], UNCHANGED <<batch, lastToken, retries>>,
         Fault \/ NoFault
  PROVE  QueueTypeOK(PC)' /\ QueueInv'
<1>1. row' \in [Jobs -> Row]
  BY MarkedFields DEF QueueTypeOK, Claimed
<1>2. QueueTypeOK(PC)'
  BY <1>1, FaultIsBounded DEF QueueTypeOK, Handling
<1>3. ClaimsShrink
  BY DEF ClaimsShrink, QueueTypeOK, Handling
<1>4. RowsAreClaimed'
  <2> SUFFICES ASSUME NEW j \in Jobs
               PROVE  row'[j].token \in 0..lastToken /\ (row'[j].token > 0 <=> row'[j].status = "running")
    BY DEF RowsAreClaimed
  <2>1. row[j].token \in 0..lastToken /\ (row[j].token > 0 <=> row[j].status = "running")
    BY DEF QueueInv, RowsAreClaimed
  <2>2. row'[j] = row[j] \/ (j = s.job /\ row'[j] = MarkedRow(s))
    BY DEF QueueTypeOK
  <2> QED BY <2>1, <2>2, MarkedFields
<1> QED BY <1>2, <1>3, <1>4, ShrinkKeepsDistinct DEF QueueInv

\* The empty queue.
LEMMA QueueStarts ==
  ASSUME NEW PC, QueuePC \subseteq PC, QueueInit
  PROVE  QueueTypeOK(PC) /\ QueueInv
<1>1. NewRow \in Row /\ NewRow.token = 0 /\ NewRow.status = "absent"
  BY DEF NewRow, Row, Status
<1>2. QueueTypeOK(PC)
  BY <1>1, QueueAssumption DEF QueueInit, QueueTypeOK, Handling, QueuePC
<1>3. QueueInv
  BY <1>1 DEF QueueInit, QueueInv, RowsAreClaimed, ClaimsAreDistinct, Mine, Handling
<1> QED BY <1>2, <1>3

-----------------------------------------------------------------------------
(* Runs are paid for: RunsArePaid(n, places) is kept by each operator *)

\* After the step, the claim w handles its job under is not on the row.
ClaimGone(w) == row'[cur[w].job].token # cur[w].token

SameClaim(s, t) == s.job = t.job /\ s.token = t.token /\ s.attempt = t.attempt

\* w goes on.  Where that lets go of a good claim, a fault pays for the next one
\* or has done so before.
PaidMove(w, places) ==
  \/ Handling(w) /\ NextJob(w) /\ (ClaimGone(w) \/ Fault)
  \/ LeaveBatch(w) /\ (pc[w] \in places \/ Fault)
  \/ /\ Handling(w) /\ UNCHANGED batch
     /\ \E s : cur' = [cur EXCEPT ![w] = s] /\ SameClaim(s, cur[w])
     /\ \E step : /\ pc' = [pc EXCEPT ![w] = step]
                  /\ step \notin {"idle", "batch"}
                  /\ step = "reportFailed" => ClaimGone(w)
                  /\ step \in places => pc[w] \in places \/ Fault

\* What w may make of the row it has a good claim on: a settled row, a row that
\* may be claimed once more, or the row under the claim it has.
PaidUpdate(r, q, n) ==
  /\ q.attempt <= r.attempt
  /\ \/ q.token = 0 /\ q.status \in {"succeeded", "failed"}
     \/ q.token = 0 /\ q.status = "pending" /\ q.attempt < n + faults'
     \/ q.token = r.token /\ q.status = r.status /\ q.leased /\ q.attempt = r.attempt
PaidRow(w, n) ==
  \/ UNCHANGED row
  \/ /\ Handling(w) /\ Holds(cur[w])
     /\ \E q \in Row : /\ PaidUpdate(row[cur[w].job], q, n)
                       /\ row' = [row EXCEPT ![cur[w].job] = q]

\* What the numbers and the claims of a step are.
LEMMA PaidTypes ==
  ASSUME NEW PC, QueueTypeOK(PC), QueueInv, Fault \/ NoFault
  PROVE  /\ row \in [Jobs -> Row] /\ lastToken \in Nat /\ faults \in Nat /\ faults' \in Nat
         /\ faults <= faults' /\ (Fault => faults' = faults + 1)
         /\ \A j \in Jobs : row[j] \in Row /\ row[j].attempt \in Nat /\ row[j].token \in Nat
         /\ \A v \in Workers : \A s \in Mine(v) :
              s \in Claimed /\ s.job \in Jobs /\ s.token \in Nat /\ s.token > 0
<1>1. /\ row \in [Jobs -> Row] /\ lastToken \in Nat /\ faults \in Nat
      /\ \A v \in Workers : \A s \in Mine(v) : s \in Claimed
  BY QueueAssumption DEF QueueTypeOK, Mine
<1>2. \A v \in Workers : \A s \in Mine(v) : s.token \in 1..lastToken
  BY DEF QueueInv, ClaimsAreDistinct
<1>3. faults' \in Nat /\ faults <= faults' /\ (Fault => faults' = faults + 1)
  BY <1>1 DEF Fault, NoFault
<1> QED BY <1>1, <1>2, <1>3 DEF Row, Claimed

\* A worker that goes on, and makes of its own row what it may.
LEMMA WorkerKeepsPaid ==
  ASSUME NEW PC, QueueTypeOK(PC), QueueTypeOK(PC)', QueueInv,
         NEW n \in Nat, NEW places, "idle" \notin places, "batch" \notin places,
         RunsArePaid(n, places), NEW w \in Workers,
         PaidMove(w, places), PaidRow(w, n), Fault \/ NoFault
  PROVE  RunsArePaid(n, places)'
<1>1. /\ row \in [Jobs -> Row] /\ faults \in Nat /\ faults' \in Nat
      /\ faults <= faults' /\ (Fault => faults' = faults + 1)
      /\ \A j \in Jobs : row[j] \in Row /\ row[j].attempt \in Nat
      /\ \A v \in Workers : \A s \in Mine(v) :
           s \in Claimed /\ s.job \in Jobs /\ s.token \in Nat /\ s.token > 0
  BY PaidTypes
<1>2. \A j \in Jobs :
        \/ row'[j] = row[j]
        \/ /\ Handling(w) /\ Holds(cur[w]) /\ j = cur[w].job
           /\ PaidUpdate(row[j], row'[j], n)
  BY <1>1 DEF PaidRow
<1>3. \A v \in Workers \ {w} : /\ Mine(v)' = Mine(v) /\ pc'[v] = pc[v]
                              /\ batch'[v] = batch[v] /\ cur'[v] = cur[v]
  <2>1. \A v \in Workers \ {w} : pc'[v] = pc[v] /\ batch'[v] = batch[v] /\ cur'[v] = cur[v]
    BY DEF PaidMove, NextJob, LeaveBatch, QueueTypeOK
  <2> QED BY <2>1 DEF Mine, Handling
\* Where w goes.
<1>4. \/ /\ Handling(w) /\ pc'[w] = (IF batch[w] = {} THEN "idle" ELSE "batch")
         /\ batch'[w] = batch[w] /\ ~Handling(w)' /\ (ClaimGone(w) \/ Fault)
      \/ /\ pc'[w] = "idle" /\ batch'[w] = {} /\ ~Handling(w)'
         /\ pc[w] \in places \/ Fault
      \/ /\ Handling(w) /\ Handling(w)' /\ batch'[w] = batch[w] /\ SameClaim(cur'[w], cur[w])
         /\ pc'[w] = "reportFailed" => ClaimGone(w)
         /\ pc'[w] \in places => pc[w] \in places \/ Fault
  BY DEF PaidMove, NextJob, LeaveBatch, QueueTypeOK, Handling
<1>5. \A v \in Workers : \A s \in Mine(v)' : \E t \in Mine(v) : SameClaim(s, t)
  <2>1. \A v \in Workers \ {w} : \A s \in Mine(v)' : \E t \in Mine(v) : SameClaim(s, t)
    BY <1>3 DEF SameClaim
  <2>2. \A s \in Mine(w)' : \E t \in Mine(w) : SameClaim(s, t)
    BY <1>4 DEF SameClaim, Mine
  <2> QED BY <2>1, <2>2
\* No claim that is gone comes back, and the number of a run stands.
<1>6. \A v \in Workers : \A t \in Mine(v) :
        row'[t.job].token = t.token => Holds(t) /\ row'[t.job].attempt = row[t.job].attempt
  <2> SUFFICES ASSUME NEW v \in Workers, NEW t \in Mine(v), row'[t.job].token = t.token
               PROVE  Holds(t) /\ row'[t.job].attempt = row[t.job].attempt
    OBVIOUS
  <2>1. t.job \in Jobs /\ t.token # 0
    BY <1>1
  <2>2. CASE row'[t.job] = row[t.job]
    BY <2>2 DEF Holds
  <2>3. CASE PaidUpdate(row[t.job], row'[t.job], n)
    BY <2>1, <2>3 DEF PaidUpdate, Holds
  <2> QED BY <1>2, <2>1, <2>2, <2>3
<1>7. \A v \in Workers : pc'[v] = "idle" => batch'[v] = {}
  <2>1. \A v \in Workers : pc[v] = "idle" => batch[v] = {}
    BY DEF RunsArePaid
  <2> QED BY <1>3, <1>4, <2>1 DEF Handling
<1>8. \A v \in Workers : \A s \in Mine(v)' :
        Holds(s)' => s.attempt = row'[s.job].attempt /\ s.attempt > 0
  <2> SUFFICES ASSUME NEW v \in Workers, NEW s \in Mine(v)', Holds(s)'
               PROVE  s.attempt = row'[s.job].attempt /\ s.attempt > 0
    OBVIOUS
  <2>1. PICK t \in Mine(v) : SameClaim(s, t)
    BY <1>5
  <2>2. Holds(t) /\ row'[t.job].attempt = row[t.job].attempt
    BY <1>6, <2>1 DEF Holds, SameClaim
  <2>3. t.attempt = row[t.job].attempt /\ t.attempt > 0
    BY <2>2 DEF RunsArePaid
  <2> QED BY <2>1, <2>2, <2>3 DEF SameClaim
<1>9. \A v \in Workers : pc'[v] = "reportFailed" => ~Holds(cur[v])'
  <2>1. ASSUME NEW v \in Workers \ {w}, pc'[v] = "reportFailed", Holds(cur[v])' PROVE FALSE
    <3>1. pc[v] = "reportFailed" /\ cur'[v] = cur[v]
      BY <1>3, <2>1
    <3>2. cur[v] \in Mine(v) /\ ~Holds(cur[v])
      BY <3>1 DEF RunsArePaid, Mine, Handling
    <3> QED BY <1>6, <2>1, <3>1, <3>2 DEF Holds
  <2>2. ASSUME pc'[w] = "reportFailed", Holds(cur[w])' PROVE FALSE
    BY <1>4, <2>2 DEF Holds, Handling, ClaimGone, SameClaim
  <2> QED BY <2>1, <2>2
<1>10. \A j \in Jobs : /\ row'[j].attempt \in Nat /\ row'[j].attempt <= row[j].attempt
                       /\ row'[j].attempt <= n + faults'
  <2> TAKE j \in Jobs
  <2>1. row'[j].attempt \in Nat
    BY DEF QueueTypeOK, Row
  <2>2. row'[j].attempt <= row[j].attempt
    BY <1>1, <1>2 DEF PaidUpdate
  <2>3. row[j].attempt <= n + faults
    BY DEF RunsArePaid
  <2> QED BY <1>1, <2>1, <2>2, <2>3
\* A row that is left alone can be claimed again only if w lets go of it.
<1>11. \A j \in Jobs : Reclaimable(j)' => row'[j].attempt < n + faults'
  <2> SUFFICES ASSUME NEW j \in Jobs, Reclaimable(j)'
               PROVE  row'[j].attempt < n + faults'
    OBVIOUS
  <2>0. row'[j].attempt \in Nat /\ row[j].attempt \in Nat /\ row[j].attempt <= n + faults
    BY <1>1, <1>10 DEF RunsArePaid
  <2>1. CASE Fault
    BY <1>1, <1>10, <2>0, <2>1
  <2>2. CASE Reclaimable(j)
    <3>1. row[j].attempt < n + faults
      BY <2>2 DEF RunsArePaid
    <3> QED BY <1>1, <1>10, <2>0, <3>1
  <2>3. CASE pc[w] \in places /\ \E s \in Mine(w) : s.job = j /\ Holds(s)
    <3>1. row[j].attempt < n + faults
      BY <2>3 DEF RunsArePaid
    <3> QED BY <1>1, <1>10, <2>0, <3>1
  <2>4. CASE row'[j] # row[j]
    <3>1. Handling(w) /\ Holds(cur[w]) /\ j = cur[w].job /\ PaidUpdate(row[j], row'[j], n)
      BY <1>2, <2>4
    <3>2. CASE row'[j].token = 0
      BY <3>1, <3>2, <1>1 DEF PaidUpdate, Reclaimable, Holds, Mine
    <3>3. CASE row'[j].token # 0
      <4>1. /\ row'[j].token = row[j].token /\ row'[j].status = row[j].status /\ row'[j].leased
            /\ row'[j].attempt = row[j].attempt
        BY <3>1, <3>3 DEF PaidUpdate
      <4>2. row[j].status = "running"
        BY <1>1, <3>1, <3>3, <4>1, PaidTypes DEF QueueInv, RowsAreClaimed
      <4>3. ~Held(j)'
        BY <4>1, <4>2 DEF Reclaimable
      <4>4. ~ClaimGone(w)
        BY <3>1, <4>1 DEF ClaimGone, Holds
      <4>5. CASE Handling(w)' /\ SameClaim(cur'[w], cur[w])
        <5>1. cur'[w] \in Mine(w)' /\ cur'[w].job = j /\ Holds(cur[w])'
          BY <3>1, <4>1, <4>5 DEF SameClaim, Mine, Holds
        <5> QED BY <4>3, <5>1 DEF Held
      <4>6. cur[w] \in Mine(w)
        BY <3>1 DEF Mine
      <4> QED BY <1>4, <2>1, <2>3, <3>1, <4>4, <4>5, <4>6
    <3> QED BY <3>2, <3>3
  <2>5. CASE row'[j] = row[j] /\ ~Reclaimable(j) /\ ~Fault
    <3>1. Held(j) /\ ~Held(j)'
      BY <2>5 DEF Reclaimable
    <3>2. PICK v \in Workers : \E s \in Mine(v) : s.job = j /\ Holds(s)
      BY <3>1 DEF Held
    <3>3. PICK s \in Mine(v) : s.job = j /\ Holds(s)
      BY <3>2
    <3>4. ~\E t \in Mine(v)' : SameClaim(t, s)
      BY <2>5, <3>1, <3>3 DEF Held, Holds, SameClaim
    <3>5. v = w
      BY <1>3, <3>3, <3>4 DEF SameClaim
    <3>6. row'[s.job].token = s.token
      BY <2>5, <3>3 DEF Holds
    <3>7. pc[w] \in places
      BY <1>4, <2>5, <3>3, <3>4, <3>5, <3>6 DEF Mine, SameClaim, ClaimGone
    <3> QED BY <2>3, <3>3, <3>5, <3>7
  <2> QED BY <2>1, <2>2, <2>4, <2>5
<1>12. \A v \in Workers : pc'[v] \in places =>
         \A s \in Mine(v)' : Holds(s)' => row'[s.job].attempt < n + faults'
  <2> SUFFICES ASSUME NEW v \in Workers, pc'[v] \in places, NEW s \in Mine(v)', Holds(s)'
               PROVE  row'[s.job].attempt < n + faults'
    OBVIOUS
  <2>1. PICK t \in Mine(v) : SameClaim(s, t)
    BY <1>5
  <2>2. Holds(t) /\ t.job \in Jobs /\ s.job = t.job
    BY <1>1, <1>6, <2>1 DEF Holds, SameClaim
  <2>3. pc[v] \in places \/ Fault
    BY <1>3, <1>4
  <2>4. /\ row'[s.job].attempt \in Nat /\ row[s.job].attempt \in Nat
        /\ row'[s.job].attempt <= row[s.job].attempt /\ row[s.job].attempt <= n + faults
    BY <1>1, <1>10, <2>2 DEF RunsArePaid
  <2>5. pc[v] \in places => row[s.job].attempt < n + faults
    BY <2>2 DEF RunsArePaid
  <2> QED BY <1>1, <2>3, <2>4, <2>5
<1> QED BY <1>7, <1>8, <1>9, <1>10, <1>11, <1>12 DEF RunsArePaid

\* A step forth with the job in hand, whatever else its copy now says.
LEMMA ForthIsPaid ==
  ASSUME NEW w \in Workers, Handling(w), NEW places, NEW step, NEW s,
         cur' = [cur EXCEPT ![w] = s], SameClaim(s, cur[w]),
         pc' = [pc EXCEPT ![w] = step], UNCHANGED batch,
         step \notin {"idle", "batch"}, step = "reportFailed" => ClaimGone(w),
         step \in places => pc[w] \in places \/ Fault
  PROVE  PaidMove(w, places)
<1>1. \E x : cur' = [cur EXCEPT ![w] = x] /\ SameClaim(x, cur[w])
  OBVIOUS
<1> QED BY <1>1 DEF PaidMove

\* The same with the copy it had.
LEMMA GotoIsPaid ==
  ASSUME NEW PC, QueueTypeOK(PC), NEW w \in Workers, Handling(w), NEW places, NEW step,
         Goto(w, step), step \notin {"idle", "batch"}, step = "reportFailed" => ClaimGone(w),
         step \in places => pc[w] \in places \/ Fault
  PROVE  PaidMove(w, places)
<1>1. cur' = [cur EXCEPT ![w] = cur[w]] /\ UNCHANGED batch /\ pc' = [pc EXCEPT ![w] = step]
  BY DEF Goto, QueueTypeOK
<1>2. SameClaim(cur[w], cur[w])
  BY DEF SameClaim
<1> QED BY <1>1, <1>2, ForthIsPaid

\* A mark leaves the run its number, its claim and a new lease.
LEMMA MarkIsPaid ==
  ASSUME NEW PC, QueueTypeOK(PC), NEW n, NEW w \in Workers, Handling(w), NEW s \in Claimed,
         SameClaim(s, cur[w]), Holds(s), row' = [row EXCEPT ![s.job] = MarkedRow(s)]
  PROVE  PaidRow(w, n)
<1>1. /\ row[s.job] \in Row /\ s.job = cur[w].job /\ Holds(cur[w])
      /\ row[s.job].attempt \in Nat
  BY DEF QueueTypeOK, Claimed, SameClaim, Holds, Row
<1>2. /\ MarkedRow(s) \in Row /\ MarkedRow(s).leased
      /\ MarkedRow(s).token = row[s.job].token /\ MarkedRow(s).status = row[s.job].status
      /\ MarkedRow(s).attempt = row[s.job].attempt
  BY <1>1, UpdatesAreRows DEF MarkedRow, Row
<1>3. PaidUpdate(row[s.job], MarkedRow(s), n)
  BY <1>1, <1>2 DEF PaidUpdate
<1> QED BY <1>1, <1>2, <1>3 DEF PaidRow

\* What the updates of jobs.ts make of status and attempt.
LEMMA UpdatesCost ==
  ASSUME NEW PC, QueueTypeOK(PC), NEW s \in Claimed, NEW e \in BOOLEAN
  PROVE  /\ CompletedRow(s).attempt = row[s.job].attempt /\ CompletedRow(s).status = "succeeded"
         /\ FailedRow(s, e).attempt = row[s.job].attempt
         /\ FailedRow(s, e).status = (IF e THEN "failed" ELSE "pending")
         /\ ReleasedRow(s).attempt = (IF s.attempt > 0 THEN s.attempt - 1 ELSE 0)
<1> DEFINE r == row[s.job]
<1>1. r \in Row
  BY DEF QueueTypeOK, Claimed
<1>2. \A st \in Status : /\ Freed(r, st) \in Row /\ Freed(r, st).status = st
                         /\ Freed(r, st).attempt = r.attempt
  BY <1>1, FreedIsRow DEF Freed, Row
<1>3. CompletedRow(s).attempt = r.attempt /\ CompletedRow(s).status = "succeeded"
  BY <1>2 DEF CompletedRow, Status
<1>4. FailedRow(s, e).attempt = r.attempt /\ FailedRow(s, e).status = (IF e THEN "failed" ELSE "pending")
  <2> DEFINE f == Freed(r, IF e THEN "failed" ELSE "pending")
  <2>1. f \in Row /\ f.attempt = r.attempt /\ f.status = (IF e THEN "failed" ELSE "pending")
    BY <1>2 DEF Status
  <2>2. FailedRow(s, e) = [f EXCEPT !.due = FALSE]
    BY DEF FailedRow
  <2> HIDE DEF f
  <2> QED BY <2>1, <2>2 DEF Row
<1>5. ReleasedRow(s).attempt = (IF s.attempt > 0 THEN s.attempt - 1 ELSE 0)
  <2> DEFINE f == Freed(r, "pending")
             n == IF s.attempt > 0 THEN s.attempt - 1 ELSE 0
  <2>1. f \in Row
    BY <1>2 DEF Status
  <2>2. ReleasedRow(s) = [f EXCEPT !.due = FALSE, !.attempt = n]
    BY DEF ReleasedRow
  <2> HIDE DEF f, n
  <2>3. ReleasedRow(s).attempt = n
    BY <2>1, <2>2 DEF Row
  <2> QED BY <2>3 DEF n
<1> QED BY <1>3, <1>4, <1>5

\* The places whose last claim is paid for, in a module whose handlers end in
\* "release" or "fail" by a fault.  A run that fails with no fault is one of the
\* free ones: then all max_attempts are.
PaidPlaces(n, places) ==
  /\ n \in Nat
  /\ "release" \in places
  /\ places \cap {"idle", "batch", "reportFailed"} = {}
  /\ "fail" \in places \/ n = MaxAttempts

\* Completing, releasing and failing keep the runs paid.
LEMMA QueueStepKeepsPaid ==
  ASSUME NEW PC, QueuePC \subseteq PC, QueueTypeOK(PC), QueueInv,
         NEW n, NEW places, PaidPlaces(n, places), RunsArePaid(n, places),
         NEW w \in Workers, Complete(w) \/ Release(w) \/ Fail(w)
  PROVE  RunsArePaid(n, places)'
<1> DEFINE s == cur[w]
           r == row[s.job]
<1>0. Handling(w) /\ s \in Claimed /\ Exhausted(w) \in BOOLEAN /\ s \in Mine(w)
  BY DEF QueueTypeOK, Handling, Complete, Release, Fail, Exhausted, Mine
<1>1. /\ faults \in Nat /\ faults' \in Nat /\ faults <= faults' /\ r.attempt \in Nat
      /\ s.attempt \in Nat /\ (Fault \/ NoFault)
  BY <1>0, PaidTypes, QueueStepEffect DEF Claimed
<1>10. s.token # 0
  <2>1. s.token \in Nat /\ s.token > 0
    BY <1>0, QueueStepEffect, PaidTypes
  <2> QED BY <2>1
<1>2. Holds(s) => s.attempt = r.attempt /\ s.attempt > 0 /\ r.attempt <= n + faults
  BY <1>0 DEF RunsArePaid, Claimed
<1>3. QueueTypeOK(PC)'
  BY QueueStepKeepsQueue
<1>4. ASSUME NEW q \in Row, q.token = 0, FencedUpdate(s, q)
      PROVE  ClaimGone(w)
  <2>1. s.job \in Jobs /\ row \in [Jobs -> Row]
    BY <1>0 DEF QueueTypeOK, Claimed
  <2>2. CASE Holds(s)
    <3>1. row'[s.job] = q
      BY <1>4, <2>1, <2>2 DEF FencedUpdate
    <3> QED BY <1>10, <1>4, <3>1 DEF ClaimGone
  <2>3. CASE ~Holds(s)
    BY <1>4, <2>3 DEF FencedUpdate, ClaimGone, Holds
  <2> QED BY <2>2, <2>3
<1>5. ASSUME NEW q \in Row, FencedUpdate(s, q) \/ UpdateFails(s, q),
             Holds(s) => PaidUpdate(r, q, n)
      PROVE  PaidRow(w, n)
  BY <1>0, <1>5 DEF FencedUpdate, UpdateFails, PaidRow
<1>6. /\ CompletedRow(s) \in Row /\ CompletedRow(s).token = 0
      /\ ReleasedRow(s) \in Row /\ ReleasedRow(s).token = 0
      /\ FailedRow(s, Exhausted(w)) \in Row /\ FailedRow(s, Exhausted(w)).token = 0
      /\ ReleasedRow(s).status = "pending"
  BY <1>0, UpdatesSettle DEF Settled
<1>7. CASE Complete(w)
  <2>1. PaidRow(w, n)
    <3>1. PaidUpdate(r, CompletedRow(s), n)
      BY <1>0, <1>1, <1>6, UpdatesCost DEF PaidUpdate
    <3> QED BY <1>5, <1>6, <1>7, <3>1 DEF Complete
  <2>2. PaidMove(w, places)
    <3>1. CASE FencedUpdate(s, CompletedRow(s)) /\ NextJob(w)
      BY <1>0, <1>4, <1>6, <3>1 DEF PaidMove
    <3>2. CASE Fault /\ Goto(w, "fail")
      BY <1>0, <3>2, GotoIsPaid
    <3> QED BY <1>7, <3>1, <3>2 DEF Complete, UpdateFails
  <2> QED BY <1>1, <1>3, <2>1, <2>2, WorkerKeepsPaid DEF PaidPlaces
<1>8. CASE Release(w)
  <2>1. PaidRow(w, n)
    <3>1. ASSUME Holds(s) PROVE PaidUpdate(r, ReleasedRow(s), n)
      <4>1. ReleasedRow(s).attempt = r.attempt - 1 /\ r.attempt <= n + faults
        BY <1>0, <1>2, <3>1, UpdatesCost
      <4>2. ReleasedRow(s).attempt < n + faults' /\ ReleasedRow(s).attempt <= r.attempt
        BY <1>1, <4>1 DEF PaidPlaces
      <4> QED BY <1>6, <4>2 DEF PaidUpdate
    <3> QED BY <1>5, <1>6, <1>8, <3>1 DEF Release
  <2>2. PaidMove(w, places)
    BY <1>8 DEF PaidMove, Release, PaidPlaces
  <2> QED BY <1>1, <1>3, <2>1, <2>2, WorkerKeepsPaid DEF PaidPlaces
<1>9. CASE Fail(w)
  <2> DEFINE q == FailedRow(s, Exhausted(w))
  <2>1. PaidRow(w, n)
    <3>1. ASSUME Holds(s) PROVE PaidUpdate(r, q, n)
      <4>1. q.attempt = r.attempt /\ q.status = (IF Exhausted(w) THEN "failed" ELSE "pending")
        BY <1>0, UpdatesCost
      <4>2. ASSUME ~Exhausted(w) PROVE r.attempt < n + faults'
        <5>1. pc[w] = "fail" /\ r.attempt < MaxAttempts
          BY <1>1, <1>2, <1>9, <3>1, <4>2, QueueAssumption DEF Fail, Exhausted
        <5>2. "fail" \in places => r.attempt < n + faults
          BY <1>0, <3>1, <5>1 DEF RunsArePaid
        <5> QED BY <1>1, <5>1, <5>2, QueueAssumption DEF PaidPlaces
      <4> QED BY <1>1, <1>6, <4>1, <4>2 DEF PaidUpdate
    <3> QED BY <1>5, <1>6, <1>9, <3>1 DEF Fail
  <2>2. PaidMove(w, places)
    <3>1. CASE FencedUpdate(s, q) /\ (Goto(w, "reportFailed") \/ NextJob(w))
      <4>1. ClaimGone(w)
        BY <1>4, <1>6, <3>1
      <4>2. CASE NextJob(w)
        BY <1>0, <4>1, <4>2 DEF PaidMove
      <4>3. CASE Goto(w, "reportFailed")
        BY <1>0, <4>1, <4>3, GotoIsPaid DEF PaidPlaces
      <4> QED BY <3>1, <4>2, <4>3
    <3>2. CASE Fault /\ LeaveBatch(w)
      BY <3>2 DEF PaidMove
    <3> QED BY <1>9, <3>1, <3>2 DEF Fail, UpdateFails
  <2> QED BY <1>1, <1>3, <2>1, <2>2, WorkerKeepsPaid DEF PaidPlaces
<1> QED BY <1>7, <1>8, <1>9

\* A crash is a fault.
LEMMA CrashKeepsPaid ==
  ASSUME NEW PC, QueuePC \subseteq PC, QueueTypeOK(PC), QueueInv,
         NEW n, NEW places, PaidPlaces(n, places), RunsArePaid(n, places),
         NEW w \in Workers, Crash(w)
  PROVE  RunsArePaid(n, places)'
<1>1. PaidMove(w, places) /\ PaidRow(w, n) /\ Fault
  BY DEF Crash, PaidMove, PaidRow
<1> QED BY <1>1, CrashKeepsQueue, WorkerKeepsPaid DEF PaidPlaces

\* Steps that leave the workers where they are: no row gets a claim or an attempt,
\* and a row that can be claimed again could before, starts afresh, or is paid for.
LEMMA RowsKeepPaid ==
  ASSUME NEW PC, QueueTypeOK(PC), QueueTypeOK(PC)', QueueInv,
         NEW n \in Nat \ {0}, NEW places, RunsArePaid(n, places), Fault \/ NoFault,
         UNCHANGED <<batch, cur, pc>>,
         \A j \in Jobs :
           /\ row'[j].token \in {0, row[j].token}
           /\ row'[j].attempt = row[j].attempt \/ (row'[j].attempt = 0 /\ row'[j].token = 0)
           /\ Reclaimable(j)' => Reclaimable(j) \/ Fault \/ row'[j].attempt = 0
  PROVE  RunsArePaid(n, places)'
<1>1. /\ row \in [Jobs -> Row] /\ faults \in Nat /\ faults' \in Nat
      /\ faults <= faults' /\ (Fault => faults' = faults + 1)
      /\ \A j \in Jobs : row[j] \in Row /\ row[j].attempt \in Nat
      /\ \A v \in Workers : \A s \in Mine(v) :
           s \in Claimed /\ s.job \in Jobs /\ s.token \in Nat /\ s.token > 0
  BY PaidTypes
<1>2. \A v \in Workers : Mine(v)' = Mine(v) /\ pc'[v] = pc[v] /\ cur'[v] = cur[v] /\ batch'[v] = batch[v]
  BY DEF Mine, Handling
<1>3. \A v \in Workers : \A s \in Mine(v) :
        Holds(s)' => Holds(s) /\ row'[s.job].attempt = row[s.job].attempt
  BY <1>1 DEF Holds
<1>4. \A j \in Jobs : row'[j].attempt \in Nat /\ row'[j].attempt <= n + faults'
  <2> TAKE j \in Jobs
  <2>1. row[j].attempt <= n + faults /\ row[j].attempt \in Nat
    BY <1>1 DEF RunsArePaid
  <2>2. row'[j].attempt \in Nat
    BY DEF QueueTypeOK, Row
  <2> QED BY <1>1, <2>1, <2>2
<1>5. \A j \in Jobs : Reclaimable(j)' => row'[j].attempt < n + faults'
  <2> SUFFICES ASSUME NEW j \in Jobs, Reclaimable(j)'
               PROVE  row'[j].attempt < n + faults'
    OBVIOUS
  <2>1. row[j].attempt <= n + faults /\ (Reclaimable(j) => row[j].attempt < n + faults)
    BY DEF RunsArePaid
  <2> QED BY <1>1, <1>4, <2>1
<1>6. \A v \in Workers : pc'[v] \in places =>
         \A s \in Mine(v)' : Holds(s)' => row'[s.job].attempt < n + faults'
  <2> SUFFICES ASSUME NEW v \in Workers, pc'[v] \in places, NEW s \in Mine(v)', Holds(s)'
               PROVE  row'[s.job].attempt < n + faults'
    OBVIOUS
  <2>1. pc[v] \in places /\ s \in Mine(v) /\ Holds(s) /\ row'[s.job].attempt = row[s.job].attempt
    BY <1>2, <1>3
  <2>2. row[s.job].attempt < n + faults /\ row[s.job].attempt \in Nat
    BY <1>1, <2>1 DEF RunsArePaid
  <2> QED BY <1>1, <2>1, <2>2
<1>7. \A v \in Workers : pc'[v] = "reportFailed" => ~Holds(cur[v])'
  <2> SUFFICES ASSUME NEW v \in Workers, pc'[v] = "reportFailed", Holds(cur[v])'
               PROVE  FALSE
    OBVIOUS
  <2>1. pc[v] = "reportFailed" /\ cur'[v] = cur[v] /\ cur[v] \in Mine(v)
    BY <1>2 DEF Mine, Handling
  <2> QED BY <1>3, <2>1 DEF RunsArePaid, Holds
<1>8. \A v \in Workers : \A s \in Mine(v)' :
        Holds(s)' => s.attempt = row'[s.job].attempt /\ s.attempt > 0
  BY <1>2, <1>3 DEF RunsArePaid
<1>9. \A v \in Workers : pc'[v] = "idle" => batch'[v] = {}
  BY <1>2 DEF RunsArePaid
<1> QED BY <1>4, <1>5, <1>6, <1>7, <1>8, <1>9 DEF RunsArePaid

\* Enqueueing, an administrator's retry and time keep the runs paid.
LEMMA RowOnlyKeepsPaid ==
  ASSUME NEW PC, QueueTypeOK(PC), QueueInv,
         NEW n \in Nat \ {0}, NEW places, RunsArePaid(n, places), NEW j \in Jobs,
         \/ \E due \in BOOLEAN : Enqueue(j, due)
         \/ AdminRetry(j) \/ LeaseExpires(j) \/ BackoffElapses(j)
  PROVE  RunsArePaid(n, places)'
<1>1. QueueTypeOK(PC)'
  BY RowOnlyKeepsQueue
<1>2. UNCHANGED <<batch, cur, pc>> /\ (Fault \/ NoFault)
  BY DEF Enqueue, AdminRetry, LeaseExpires, BackoffElapses, NoFault
<1>3. row \in [Jobs -> Row] /\ row[j] \in Row
  BY DEF QueueTypeOK
<1>4. \A v \in Workers : Mine(v)' = Mine(v)
  BY <1>2 DEF Mine, Handling
\* What the step makes of the row of j.
<1>5. \E q \in Row :
        /\ row' = [row EXCEPT ![j] = q]
        /\ q.token \in {0, row[j].token}
        /\ q.attempt = row[j].attempt \/ (q.attempt = 0 /\ q.token = 0)
        /\ \/ row[j].status = "absent" \/ q.attempt = 0
           \/ q.status = row[j].status /\ q.leased = row[j].leased /\ q.token = row[j].token
           \/ q.status = row[j].status /\ (Held(j) => Fault)
  <2>1. ASSUME NEW due \in BOOLEAN, Enqueue(j, due) PROVE <1>5
    <3> DEFINE q == [row[j] EXCEPT !.status = "pending", !.due = due]
    <3>1. /\ q \in Row /\ q.token = row[j].token /\ q.attempt = row[j].attempt
      BY <1>3 DEF Row, Status
    <3>2. row' = [row EXCEPT ![j] = q] /\ row[j].status = "absent"
      BY <1>3, <2>1 DEF Enqueue
    <3> HIDE DEF q
    <3> QED BY <3>1, <3>2
  <2>2. CASE AdminRetry(j)
    <3> DEFINE f == Freed(row[j], "pending")
               q == [f EXCEPT !.attempt = 0, !.due = TRUE]
    <3>1. f \in Row /\ f.token = 0
      BY <1>3, FreedIsRow, FreedFields DEF Status
    <3>2. row' = [row EXCEPT ![j] = q]
      BY <1>3, <2>2 DEF AdminRetry
    <3> HIDE DEF f
    <3>3. q \in Row /\ q.token = 0 /\ q.attempt = 0
      BY <3>1 DEF Row
    <3> HIDE DEF q
    <3> QED BY <3>2, <3>3
  <2>3. CASE LeaseExpires(j)
    <3> DEFINE q == [row[j] EXCEPT !.leased = FALSE]
    <3>1. /\ q \in Row /\ q.token = row[j].token /\ q.status = row[j].status
          /\ q.attempt = row[j].attempt
      BY <1>3 DEF Row
    <3>2. row' = [row EXCEPT ![j] = q] /\ (Held(j) => Fault)
      BY <1>3, <2>3 DEF LeaseExpires
    <3> HIDE DEF q
    <3> QED BY <3>1, <3>2
  <2>4. CASE BackoffElapses(j)
    <3> DEFINE q == [row[j] EXCEPT !.due = TRUE]
    <3>1. /\ q \in Row /\ q.token = row[j].token /\ q.status = row[j].status
          /\ q.attempt = row[j].attempt /\ q.leased = row[j].leased
      BY <1>3 DEF Row
    <3>2. row' = [row EXCEPT ![j] = q]
      BY <1>3, <2>4 DEF BackoffElapses
    <3> HIDE DEF q
    <3> QED BY <3>1, <3>2
  <2> QED BY <2>1, <2>2, <2>3, <2>4
<1>6. PICK q \in Row : <1>5!(q)
  BY <1>5
<1>7. \A i \in Jobs : row'[i] = IF i = j THEN q ELSE row[i]
  BY <1>3, <1>6
<1>8. ASSUME NEW i \in Jobs, Reclaimable(i)', ~Reclaimable(i), ~Fault
      PROVE  row'[i].attempt = 0
  <2>1. row'[i].token = row[i].token => (Held(i)' <=> Held(i))
    BY <1>4 DEF Held, Holds
  <2>2. i = j
    BY <1>7, <1>8, <2>1 DEF Reclaimable
  <2>3. row[j].status # "absent" /\ (row[j].status = "running" => row[j].leased /\ Held(j))
    BY <1>8, <2>2 DEF Reclaimable
  <2>4. CASE q.status = row[j].status /\ q.leased = row[j].leased /\ q.token = row[j].token
    BY <1>7, <1>8, <2>1, <2>2, <2>4 DEF Reclaimable
  <2>5. CASE q.status = row[j].status /\ ~Held(j)
    BY <1>7, <1>8, <2>2, <2>3, <2>5 DEF Reclaimable
  <2> QED BY <1>6, <1>7, <1>8, <2>2, <2>3, <2>4, <2>5
<1>9. \A i \in Jobs :
        /\ row'[i].token \in {0, row[i].token}
        /\ row'[i].attempt = row[i].attempt \/ (row'[i].attempt = 0 /\ row'[i].token = 0)
  BY <1>6, <1>7
<1> QED BY <1>1, <1>2, <1>8, <1>9, RowsKeepPaid

\* The loop comes to a job of its batch.
LEMMA TakeKeepsPaid ==
  ASSUME NEW PC, QueueTypeOK(PC), NEW n, NEW places, RunsArePaid(n, places),
         NEW w \in Workers, NEW step, step \notin places \cup {"idle", "batch", "reportFailed"},
         NEW s \in batch[w], Take(w, s, step)
  PROVE  RunsArePaid(n, places)'
<1>1. /\ ~Handling(w) /\ Handling(w)' /\ cur'[w] = s /\ batch'[w] = batch[w] \ {s}
      /\ pc'[w] = step
  BY DEF QueueTypeOK, Take, Handling
<1>2. \A v \in Workers \ {w} :
        /\ Handling(v)' = Handling(v) /\ cur'[v] = cur[v] /\ batch'[v] = batch[v]
        /\ pc'[v] = pc[v]
  BY DEF QueueTypeOK, Take, Handling
<1>3. \A v \in Workers : Mine(v)' = Mine(v)
  BY <1>1, <1>2 DEF Mine
<1>4. row' = row /\ faults' = faults
  BY DEF Take
<1>5. \A j \in Jobs : Reclaimable(j)' <=> Reclaimable(j)
  BY <1>3, <1>4 DEF Reclaimable, Held, Holds
<1>6. \A v \in Workers : pc'[v] = "reportFailed" => ~Holds(cur[v])'
  BY <1>1, <1>2, <1>4 DEF RunsArePaid, Holds
<1>7. /\ \A v \in Workers : pc'[v] = "idle" => batch'[v] = {}
      /\ \A v \in Workers : pc'[v] \in places => pc[v] \in places
  BY <1>1, <1>2 DEF RunsArePaid
<1> QED BY <1>3, <1>4, <1>5, <1>6, <1>7 DEF RunsArePaid, Holds

\* A claim takes what had been paid for.
LEMMA ClaimKeepsPaid ==
  ASSUME NEW PC, QueuePC \subseteq PC, QueueTypeOK(PC), QueueInv,
         NEW n \in Nat, NEW places, "batch" \notin places, RunsArePaid(n, places),
         NEW w \in Workers, NEW S \in SUBSET Jobs, Claim(w, S)
  PROVE  RunsArePaid(n, places)'
<1> DEFINE t == lastToken + 1
           taken(j) == [row[j] EXCEPT !.status = "running", !.attempt = @ + 1,
                                      !.token = t, !.leased = TRUE]
<1>0. /\ row \in [Jobs -> Row] /\ lastToken \in Nat /\ faults \in Nat /\ faults' = faults
      /\ \A j \in Jobs : row[j] \in Row /\ row[j].attempt \in Nat
      /\ \A v \in Workers : \A s \in Mine(v) : s \in Claimed /\ s.job \in Jobs
  <2>1. NoFault
    BY DEF Claim, NoFault
  <2> QED BY <2>1, PaidTypes DEF NoFault
<1>1. \A j \in Jobs : /\ taken(j).token = t /\ taken(j).status = "running" /\ taken(j).leased
                      /\ taken(j).attempt = row[j].attempt + 1
  <2> TAKE j \in Jobs
  <2> DEFINE r == row[j]
             m == r.attempt + 1
  <2>1. r \in Row
    BY <1>0
  <2>2. taken(j) = [r EXCEPT !.status = "running", !.attempt = m, !.token = t, !.leased = TRUE]
    OBVIOUS
  <2> HIDE DEF r, m, t, taken
  <2>3. taken(j).token = t /\ taken(j).status = "running" /\ taken(j).leased /\ taken(j).attempt = m
    BY <2>1, <2>2 DEF Row
  <2> QED BY <2>3 DEF r, m
<1>2. row' = [j \in Jobs |-> IF j \in S THEN taken(j) ELSE row[j]]
  BY DEF Claim
<1>3. /\ pc[w] = "idle" /\ batch' = [batch EXCEPT ![w] = {AsClaimed(j) : j \in S}]
      /\ pc' = [pc EXCEPT ![w] = "batch"] /\ UNCHANGED cur
  BY DEF Claim
<1>4. /\ \A j \in S : AsClaimed(j).job = j /\ AsClaimed(j).token = t
                      /\ AsClaimed(j).attempt = row[j].attempt + 1
  BY DEF AsClaimed
<1>5. Mine(w) = {}
  BY <1>3 DEF RunsArePaid, Mine, Handling
<1>6. /\ Mine(w)' = {AsClaimed(j) : j \in S} /\ pc'[w] = "batch"
      /\ \A v \in Workers \ {w} : Mine(v)' = Mine(v) /\ pc'[v] = pc[v] /\ batch'[v] = batch[v]
  <2>1. ~Handling(w)' /\ batch'[w] = {AsClaimed(j) : j \in S} /\ pc'[w] = "batch"
    BY <1>3 DEF QueueTypeOK, Handling
  <2>2. \A v \in Workers \ {w} : batch'[v] = batch[v] /\ pc'[v] = pc[v] /\ cur'[v] = cur[v]
    BY <1>3 DEF QueueTypeOK
  <2> QED BY <2>1, <2>2 DEF Mine, Handling
<1>7. \A v \in Workers : \A s \in Mine(v) : s.token # t
  <2>1. \A v \in Workers : \A s \in Mine(v) : s.token \in 1..lastToken
    BY DEF QueueInv, ClaimsAreDistinct
  <2> QED BY <1>0, <2>1
<1>8. \A j \in S : row[j].attempt < n + faults
  <2>1. \A j \in S : Reclaimable(j)
    BY DEF Claim, Claimable, Reclaimable
  <2> QED BY <2>1 DEF RunsArePaid
<1> HIDE DEF t, taken
<1>9. \A v \in Workers \ {w} : \A s \in Mine(v) : Holds(s)' => Holds(s) /\ s.job \notin S
  BY <1>0, <1>1, <1>2, <1>7 DEF Holds
<1>10. \A v \in Workers : \A s \in Mine(v)' :
         Holds(s)' => s.attempt = row'[s.job].attempt /\ s.attempt > 0
  <2>1. \A s \in Mine(w)' : s.attempt = row'[s.job].attempt /\ s.attempt > 0
    BY <1>0, <1>1, <1>2, <1>4, <1>6
  <2>2. \A v \in Workers \ {w} : \A s \in Mine(v)' :
          Holds(s)' => s.attempt = row'[s.job].attempt /\ s.attempt > 0
    BY <1>0, <1>2, <1>6, <1>9 DEF RunsArePaid
  <2> QED BY <2>1, <2>2
<1>11. \A v \in Workers : pc'[v] = "reportFailed" => ~Holds(cur[v])'
  <2> SUFFICES ASSUME NEW v \in Workers, pc'[v] = "reportFailed", Holds(cur[v])'
               PROVE  FALSE
    OBVIOUS
  <2>1. v # w /\ pc[v] = "reportFailed" /\ cur'[v] = cur[v]
    BY <1>3, <1>6
  <2>2. cur[v] \in Mine(v) /\ ~Holds(cur[v])
    BY <2>1 DEF RunsArePaid, Mine, Handling
  <2> QED BY <1>9, <2>1, <2>2 DEF Holds
<1>12. \A j \in Jobs : row'[j].attempt <= n + faults'
  BY <1>0, <1>1, <1>2, <1>8 DEF RunsArePaid
<1>13. \A j \in Jobs : Reclaimable(j)' => row'[j].attempt < n + faults'
  <2> SUFFICES ASSUME NEW j \in Jobs, Reclaimable(j)' PROVE row'[j].attempt < n + faults'
    OBVIOUS
  <2>1. CASE j \in S
    <3>1. row'[j] = taken(j)
      BY <1>2, <2>1
    <3>2. AsClaimed(j) \in Mine(w)' /\ AsClaimed(j).job = j /\ row'[j].token = AsClaimed(j).token
      BY <1>1, <1>4, <1>6, <2>1, <3>1
    <3>3. Held(j)'
      BY <3>2 DEF Held, Holds
    <3> QED BY <1>1, <3>1, <3>3 DEF Reclaimable
  <2>2. CASE j \notin S
    <3>1. row'[j] = row[j]
      BY <1>2, <2>2
    <3>2. Held(j) => Held(j)'
      BY <1>5, <1>6, <3>1 DEF Held, Holds
    <3>3. Reclaimable(j)
      BY <3>1, <3>2 DEF Reclaimable
    <3> QED BY <1>0, <3>1, <3>3 DEF RunsArePaid
  <2> QED BY <2>1, <2>2
<1>14. \A v \in Workers : pc'[v] \in places =>
         \A s \in Mine(v)' : Holds(s)' => row'[s.job].attempt < n + faults'
  <2> SUFFICES ASSUME NEW v \in Workers, pc'[v] \in places, NEW s \in Mine(v)', Holds(s)'
               PROVE  row'[s.job].attempt < n + faults'
    OBVIOUS
  <2>1. v # w /\ pc[v] \in places /\ s \in Mine(v)
    BY <1>6
  <2>2. Holds(s) /\ row'[s.job] = row[s.job]
    BY <1>0, <1>2, <1>9, <2>1
  <2> QED BY <1>0, <2>1, <2>2 DEF RunsArePaid
<1>15. \A v \in Workers : pc'[v] = "idle" => batch'[v] = {}
  BY <1>3, <1>6 DEF RunsArePaid
<1> QED BY <1>10, <1>11, <1>12, <1>13, <1>14, <1>15 DEF RunsArePaid

\* No run has been made in the empty queue.
LEMMA PaidStarts ==
  ASSUME QueueInit, NEW n \in Nat \ {0}, NEW places, "idle" \notin places
  PROVE  RunsArePaid(n, places)
<1>1. /\ \A j \in Jobs : row[j].attempt = 0
      /\ faults = 0
      /\ \A w \in Workers : pc[w] = "idle" /\ batch[w] = {}
  BY DEF QueueInit, NewRow
<1>2. \A w \in Workers : Mine(w) = {}
  BY <1>1 DEF Mine, Handling
<1> QED BY <1>1, <1>2 DEF RunsArePaid
=============================================================================

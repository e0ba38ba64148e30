-------------------------- MODULE MailboxSendProofs --------------------------
(***************************************************************************)
(* Proofs about the way of a mailbox reply.                                *)
(*                                                                         *)
(* MailboxSend, for any number of jobs, workers, claims, faults and        *)
(* retries: Inv is inductive, and from it a reply is delivered at most     *)
(* once, is shown as sent before its job is completed, stays settled, and  *)
(* the whole implements MailDelivery.                                      *)
(*                                                                         *)
(* MailCompose, for any number of replies, requests and faults: ComposeInv *)
(* is inductive, and from it requests leave nothing half written but by    *)
(* faults, and who is told that a reply is queued is told the truth unless *)
(* a request for it fails.  The two share no name, so that one module can  *)
(* hold the proofs about both.                                             *)
(***************************************************************************)
EXTENDS MailboxSend, MailCompose, ChannelQueueProofs, FiniteSetTheorems

\* The queue's places are places of a mail worker.
LEMMA PlacesOfQueue == QueuePC \subseteq MailPC
  BY DEF MailPC

-----------------------------------------------------------------------------
(* The queue's part of the invariant *)

\* The four outcomes of a hand-over: taken, no answer, refused, taken and denied.
LEMMA OutcomesOfSend ==
  ASSUME NEW w \in Workers, Send(w)
  PROVE  /\ pc[w] = "send" /\ UNCHANGED <<row, lastToken, retries, mail, late>>
         /\ Fault \/ NoFault
         /\ \/ /\ DeliverMail(cur[w].job) /\ UNCHANGED denied
               /\ Goto(w, "markAccepted") \/ Goto(w, "failForGood")
            \/ /\ UNCHANGED <<delivered, denied>>
               /\ Goto(w, "failForGood") \/ Goto(w, "clearStart")
            \/ UNCHANGED delivered /\ Deny(w) /\ Goto(w, "clearStart")
  BY DEF Send, Deny

\* Every step keeps the queue's types and its invariant.
LEMMA StepKeepsQueue ==
  ASSUME TypeOK, QueueInv, [Next]_vars
  PROVE  QueueTypeOK(MailPC)' /\ QueueInv'
<1> USE PlacesOfQueue
<1>0. QueueTypeOK(MailPC)
  BY DEF TypeOK
<1>1. \A w \in Workers : Handling(w) => cur[w] \in Claimed
  BY <1>0 DEF QueueTypeOK
\* A step that leaves the rows alone and moves a worker on.
<1>2. ASSUME NEW w \in Workers, Handling(w), \E step \in MailPC : Goto(w, step),
             UNCHANGED row, Fault \/ NoFault, UNCHANGED <<lastToken, retries>>
      PROVE  QueueTypeOK(MailPC)' /\ QueueInv'
  <2>1. WorkerGoesOn(w, MailPC) /\ SettlesOwnJob(w)
    BY <1>2 DEF WorkerGoesOn, SettlesOwnJob
  <2> QED BY <1>0, <1>2, <2>1, GoesOnKeepsQueue
<1>3. ASSUME NEW w \in Workers, Handling(w), NextJob(w),
             UNCHANGED row, Fault \/ NoFault, UNCHANGED <<lastToken, retries>>
      PROVE  QueueTypeOK(MailPC)' /\ QueueInv'
  <2>1. WorkerGoesOn(w, MailPC) /\ SettlesOwnJob(w)
    BY <1>3 DEF WorkerGoesOn, SettlesOwnJob
  <2> QED BY <1>0, <1>3, <2>1, GoesOnKeepsQueue
<1>4. ASSUME NEW w \in Workers, ClaimJobs(w)
      PROVE  QueueTypeOK(MailPC)' /\ QueueInv'
  BY <1>0, <1>4, ClaimKeepsQueue DEF ClaimJobs
<1>5. ASSUME NEW w \in Workers, Begin(w)
      PROVE  QueueTypeOK(MailPC)' /\ QueueInv'
  <2>1. PICK s \in batch[w] : \E step \in {"reportSent", "failForGood", "prepare"} : Take(w, s, step)
    BY <1>5 DEF Begin
  <2>2. {"reportSent", "failForGood", "prepare"} \subseteq MailPC \ {"idle", "batch"}
    BY DEF MailPC, QueuePC
  <2> QED BY <1>0, <2>1, <2>2, TakeKeepsQueue
<1>6. ASSUME NEW w \in Workers, Prepare(w)
      PROVE  QueueTypeOK(MailPC)' /\ QueueInv'
  BY <1>2, <1>6 DEF Prepare, Handling, MailPC, QueuePC
<1>7. ASSUME NEW w \in Workers, Send(w)
      PROVE  QueueTypeOK(MailPC)' /\ QueueInv'
  <2>1. Handling(w) /\ (\E step \in MailPC : Goto(w, step)) /\ UNCHANGED <<row, lastToken, retries>>
    BY <1>7, OutcomesOfSend DEF Handling, MailPC, QueuePC
  <2> QED BY <1>2, <1>7, <2>1, OutcomesOfSend
<1>8. ASSUME NEW w \in Workers, ReportSent(w)
      PROVE  QueueTypeOK(MailPC)' /\ QueueInv'
  BY <1>2, <1>8 DEF ReportSent, Handling, MailPC, QueuePC, ReportLost
<1>9. ASSUME NEW w \in Workers, ReportFailed(w)
      PROVE  QueueTypeOK(MailPC)' /\ QueueInv'
  BY <1>3, <1>9 DEF ReportFailed, Handling, ReportLost
<1>10. ASSUME NEW w \in Workers, QueueStep(w)
      PROVE  QueueTypeOK(MailPC)' /\ QueueInv'
  BY <1>0, <1>10, QueueStepKeepsQueue DEF QueueStep
<1>11. ASSUME NEW w \in Workers, CrashMail(w)
      PROVE  QueueTypeOK(MailPC)' /\ QueueInv'
  BY <1>0, <1>11, CrashKeepsQueue DEF CrashMail
<1>12. ASSUME NEW j \in Jobs, EnqueueReply(j) \/ RetryReply(j) \/ TimePasses(j)
      PROVE  QueueTypeOK(MailPC)' /\ QueueInv'
  BY <1>0, <1>12, RowOnlyKeepsQueue DEF EnqueueReply, RetryReply, TimePasses
<1>13. ASSUME UNCHANGED queueVars
       PROVE  QueueTypeOK(MailPC)' /\ QueueInv'
  BY <1>0, <1>13 DEF queueVars, QueueTypeOK, Handling, QueueInv, RowsAreClaimed, ClaimsAreDistinct, Mine
\* Marks: the worker may keep the mark in its copy, and goes on in any case.
<1>14. ASSUME NEW w \in Workers, MarkStart(w)
       PROVE  QueueTypeOK(MailPC)' /\ QueueInv'
  <2> DEFINE s == [cur[w] EXCEPT !.started = TRUE]
  <2>0. Handling(w) /\ cur[w] \in Claimed
    BY <1>1, <1>14 DEF MarkStart, Handling
  <2>1. s \in Claimed /\ s.job = cur[w].job /\ s.token = cur[w].token
    BY <2>0 DEF Claimed
  <2>2. {"send", "fail"} \subseteq MailPC
    BY DEF MailPC, QueuePC
  <2>3. CASE /\ row' = [row EXCEPT ![s.job] = MarkedRow(s)]
             /\ cur' = [cur EXCEPT ![w] = s]
             /\ pc' = [pc EXCEPT ![w] = "send"]
             /\ NoFault /\ UNCHANGED <<batch, lastToken, retries>>
    <3> HIDE DEF s
    <3> QED BY <1>0, <2>0, <2>1, <2>2, <2>3, MarkKeepsQueue
  <2>4. CASE NextJob(w) /\ NoFault /\ UNCHANGED <<row, lastToken, retries>>
    BY <1>3, <2>0, <2>4
  <2>5. CASE /\ Fault /\ Goto(w, "fail") /\ UNCHANGED <<lastToken, retries>>
             /\ UNCHANGED row \/ row' = [row EXCEPT ![s.job] = MarkedRow(s)]
    <3> HIDE DEF s
    <3> QED BY <1>0, <2>0, <2>1, <2>2, <2>5, MarkKeepsQueue DEF Goto
  <2> QED BY <1>14, <2>3, <2>4, <2>5 DEF MarkStart
<1>15. ASSUME NEW w \in Workers, ClearStart(w)
       PROVE  QueueTypeOK(MailPC)' /\ QueueInv'
  <2> DEFINE s == [cur[w] EXCEPT !.started = FALSE]
  <2>0. Handling(w) /\ cur[w] \in Claimed
    BY <1>1, <1>15 DEF ClearStart, Handling
  <2>1. s \in Claimed /\ s.job = cur[w].job /\ s.token = cur[w].token
    BY <2>0 DEF Claimed
  <2>2. "fail" \in MailPC
    BY DEF MailPC, QueuePC
  <2>3. /\ UNCHANGED row \/ row' = [row EXCEPT ![s.job] = MarkedRow(s)]
        /\ Fault \/ NoFault
        /\ Goto(w, "fail") /\ UNCHANGED <<lastToken, retries>>
    BY <1>15 DEF ClearStart
  <2> HIDE DEF s
  <2> QED BY <1>0, <2>0, <2>1, <2>2, <2>3, MarkKeepsQueue DEF Goto
<1>16. ASSUME NEW w \in Workers, MarkAccepted(w)
       PROVE  QueueTypeOK(MailPC)' /\ QueueInv'
  <2> DEFINE s == [cur[w] EXCEPT !.accepted = TRUE]
  <2>0. Handling(w) /\ cur[w] \in Claimed
    BY <1>1, <1>16 DEF MarkAccepted, Handling
  <2>1. s \in Claimed /\ s.job = cur[w].job /\ s.token = cur[w].token
    BY <2>0 DEF Claimed
  <2>2. "reportSent" \in MailPC
    BY DEF MailPC
  <2>3. /\ UNCHANGED row \/ row' = [row EXCEPT ![s.job] = MarkedRow(s)]
        /\ Fault \/ NoFault
        /\ Goto(w, "reportSent") /\ UNCHANGED <<lastToken, retries>>
    BY <1>16 DEF MarkAccepted
  <2> HIDE DEF s
  <2> QED BY <1>0, <2>0, <2>1, <2>2, <2>3, MarkKeepsQueue DEF Goto
<1>17. ASSUME NEW r \in late, LateReport(r)
       PROVE  QueueTypeOK(MailPC)' /\ QueueInv'
  BY <1>13, <1>17 DEF LateReport
<1>18. UNCHANGED vars => UNCHANGED queueVars
  BY DEF vars, queueVars
<1> QED
  BY <1>4, <1>5, <1>6, <1>7, <1>8, <1>9, <1>10, <1>11, <1>12, <1>13, <1>14, <1>15, <1>16,
     <1>17, <1>18 DEF Next, SendStep

-----------------------------------------------------------------------------
(* Types *)

\* Core's row holds a delivery status after a report.
LEMMA RecordedType ==
  ASSUME TypeOK, NEW r \in Report
  PROVE  Recorded(r) \in [Jobs -> {"queued", "sent", "failed"}]
  BY DEF TypeOK, Recorded, Report

\* Every step keeps TypeOK.
LEMMA StepKeepsTypes ==
  ASSUME TypeOK, QueueInv, [Next]_vars
  PROVE  TypeOK'
<1>1. QueueTypeOK(MailPC)'
  BY StepKeepsQueue
<1>2. delivered' \in [Jobs -> Nat] /\ denied' \in [Jobs -> Nat]
  <2>1. ASSUME NEW w \in Workers, Send(w) PROVE <1>2
    <3>1. delivered' \in [Jobs -> Nat]
      BY <2>1, OutcomesOfSend DEF DeliverMail, TypeOK
    <3>2. denied' \in [Jobs -> Nat]
      BY <2>1, OutcomesOfSend DEF Deny, TypeOK
    <3> QED BY <3>1, <3>2
  <2>2. UNCHANGED <<delivered, denied>> \/ \E w \in Workers : Send(w)
    BY DEF Next, vars, mailVars, ClaimJobs, SendStep, QueueStep, CrashMail, EnqueueReply,
           RetryReply, TimePasses, LateReport, Begin, Prepare, MarkStart, ClearStart,
           MarkAccepted, ReportSent, ReportFailed
  <2> QED BY <2>1, <2>2 DEF TypeOK
<1>3. mail' \in [Jobs -> {"queued", "sent", "failed"}] /\ late' \subseteq Report
  <2>1. ASSUME NEW w \in Workers, Handling(w)
        PROVE  \A o \in {"sent", "failed"} : MyReport(w, o) \in Report
    BY <2>1 DEF MyReport, Report, TypeOK, QueueTypeOK, Claimed
  <2>2. ASSUME NEW r \in Report, Reported(r) \/ ReportLost(r)
        PROVE  <1>3
    BY <2>2, RecordedType DEF Reported, ReportLost, TypeOK
  <2>3. ASSUME NEW w \in Workers, ReportSent(w) PROVE <1>3
    <3>1. Handling(w)
      BY <2>3 DEF ReportSent, Handling
    <3>2. CASE Reported(MyReport(w, "sent")) \/ ReportLost(MyReport(w, "sent"))
      BY <2>1, <2>2, <3>1, <3>2
    <3>3. CASE UNCHANGED <<mail, late>>
      BY <3>3 DEF TypeOK
    <3> QED BY <2>3, <3>2, <3>3 DEF ReportSent
  <2>4. ASSUME NEW w \in Workers, ReportFailed(w) PROVE <1>3
    <3>1. Handling(w)
      BY <2>4 DEF ReportFailed, Handling
    <3> QED BY <2>1, <2>2, <2>4, <3>1 DEF ReportFailed
  <2>5. ASSUME NEW w \in Workers, CrashMail(w) PROVE <1>3
    <3>1. pc[w] \in {"reportSent", "reportFailed"} => Handling(w)
      BY DEF Handling
    <3>2. /\ UNCHANGED mail
          /\ \/ UNCHANGED late
             \/ \E o \in {"sent", "failed"} : Handling(w) /\ late' = late \cup {MyReport(w, o)}
      BY <2>5, <3>1 DEF CrashMail
    <3>3. late' \subseteq Report
      BY <2>1, <3>2 DEF TypeOK
    <3>4. UNCHANGED mail
      BY <2>5 DEF CrashMail
    <3> QED BY <3>3, <3>4 DEF TypeOK
  <2>6. ASSUME NEW r \in late, LateReport(r) PROVE <1>3
    <3>1. r \in Report
      BY DEF TypeOK
    <3>2. mail' = Recorded(r) /\ late' = late \ {r}
      BY <2>6 DEF LateReport
    <3>3. late' \subseteq Report
      BY <3>2 DEF TypeOK
    <3> QED BY <3>1, <3>2, <3>3, RecordedType
  <2>7. \/ UNCHANGED <<mail, late>>
        \/ \E w \in Workers : ReportSent(w) \/ ReportFailed(w) \/ CrashMail(w)
        \/ \E r \in late : LateReport(r)
    BY DEF Next, vars, mailVars, ClaimJobs, SendStep, QueueStep, EnqueueReply, RetryReply,
           TimePasses, Begin, Prepare, MarkStart, Send, ClearStart, MarkAccepted
  <2> QED BY <2>3, <2>4, <2>5, <2>6, <2>7 DEF TypeOK
<1> QED BY <1>1, <1>2, <1>3 DEF TypeOK

-----------------------------------------------------------------------------
(* Quiet steps.  All but four of the actions deliver nothing and write no  *)
(* mark: what they do to rows, batches and workers is said here once.      *)

\* Rows keep their marks, and no claim that is gone comes back.
RowsQuiet ==
  /\ \A j \in Jobs : /\ row'[j].started = row[j].started
                    /\ row'[j].accepted = row[j].accepted
  /\ \A w \in Workers : \A s \in Mine(w) :
       row'[s.job].token = s.token => row[s.job].token = s.token

\* A new job of a batch has its marks from its row.
BatchesQuiet ==
  \A w \in Workers : \A s \in batch'[w] :
    \/ s \in batch[w]
    \/ s.started = row[s.job].started /\ s.accepted = row[s.job].accepted

\* A worker goes on with its job, short of the send, or comes to the next one.
WorkersQuiet ==
  \A w \in Workers : Handling(w)' =>
    \/ /\ Handling(w) /\ cur'[w] = cur[w]
       /\ \/ pc'[w] = pc[w]
          \/ pc'[w] \in QueuePC
          \/ pc[w] = "prepare" /\ pc'[w] = "markStart"
          \/ pc[w] = "markAccepted" /\ pc'[w] = "reportSent"
    \/ /\ ~Handling(w) /\ cur'[w] \in batch[w]
       /\ \/ pc'[w] = "reportSent" /\ cur'[w].accepted
          \/ pc'[w] = "failForGood"
          \/ pc'[w] = "prepare" /\ ~cur'[w].started

Quiet == UNCHANGED delivered /\ RowsQuiet /\ BatchesQuiet /\ WorkersQuiet

\* A job that is settled keeps its marks and loses its claim.
LEMMA SettlingIsQuiet ==
  ASSUME TypeOK, QueueInv, NEW w \in Workers, Handling(w), SettlesOwnJob(w)
  PROVE  RowsQuiet
<1>1. \A v \in Workers : \A s \in Mine(v) : s.token > 0 /\ s.job \in Jobs /\ s.token \in Nat
  <2>1. \A v \in Workers : \A s \in Mine(v) : s \in Claimed /\ s.token \in 1..lastToken
    BY DEF TypeOK, QueueTypeOK, QueueInv, ClaimsAreDistinct, Mine
  <2> QED BY <2>1 DEF Claimed, TypeOK, QueueTypeOK
<1>2. \A j \in Jobs : \/ row'[j] = row[j]
                     \/ /\ row'[j].token = 0
                        /\ row'[j].started = row[j].started /\ row'[j].accepted = row[j].accepted
  <2>1. row \in [Jobs -> Row]
    BY DEF TypeOK, QueueTypeOK
  <2> QED BY <2>1 DEF SettlesOwnJob, Settled
<1> QED BY <1>1, <1>2 DEF RowsQuiet

\* A worker that goes on along the queue's own paths.
LEMMA GoingOnIsQuiet ==
  ASSUME TypeOK, NEW w \in Workers, Handling(w) \/ LeaveBatch(w), WorkerGoesOn(w, QueuePC)
  PROVE  BatchesQuiet /\ WorkersQuiet
<1>1. CASE \E step \in QueuePC : Goto(w, step)
  <2>1. ~LeaveBatch(w) => Handling(w)
    OBVIOUS
  <2>2. CASE LeaveBatch(w)
    BY <2>2 DEF LeaveBatch, BatchesQuiet, WorkersQuiet, Handling, TypeOK, QueueTypeOK
  <2> QED BY <1>1, <2>1, <2>2 DEF Goto, BatchesQuiet, WorkersQuiet, Handling, TypeOK, QueueTypeOK
<1>2. CASE NextJob(w)
  BY <1>2 DEF NextJob, BatchesQuiet, WorkersQuiet, Handling, TypeOK, QueueTypeOK
<1>3. CASE LeaveBatch(w)
  BY <1>3 DEF LeaveBatch, BatchesQuiet, WorkersQuiet, Handling, TypeOK, QueueTypeOK
<1> QED BY <1>1, <1>2, <1>3 DEF WorkerGoesOn

\* Steps outside the queue and the workers.
LEMMA StillIsQuiet ==
  ASSUME UNCHANGED <<row, batch, cur, pc>>
  PROVE  RowsQuiet /\ BatchesQuiet /\ WorkersQuiet
  BY DEF RowsQuiet, BatchesQuiet, WorkersQuiet, Handling

\* Enqueueing, an administrator's retry and time keep the marks.
LEMMA RowOnlyIsQuiet ==
  ASSUME TypeOK, QueueInv, NEW j \in Jobs,
         EnqueueReply(j) \/ RetryReply(j) \/ TimePasses(j)
  PROVE  RowsQuiet /\ BatchesQuiet /\ WorkersQuiet
<1>0. row \in [Jobs -> Row] /\ row[j] \in Row
  BY DEF TypeOK, QueueTypeOK
<1>1. UNCHANGED <<batch, cur, pc>>
  BY DEF EnqueueReply, RetryReply, TimePasses, Enqueue, AdminRetry, LeaseExpires, BackoffElapses
<1>2. \A v \in Workers : \A s \in Mine(v) : s.token # 0
  <2>1. \A v \in Workers : \A s \in Mine(v) : s.token \in 1..lastToken
    BY DEF QueueInv, ClaimsAreDistinct
  <2> QED BY <2>1 DEF TypeOK, QueueTypeOK
<1>3. \E q \in Row :
            /\ row' = [row EXCEPT ![j] = q]
            /\ q.started = row[j].started /\ q.accepted = row[j].accepted
            /\ q.token \in {0, row[j].token}
  <2>1. CASE EnqueueReply(j)
    <3> DEFINE q == [row[j] EXCEPT !.status = "pending", !.due = TRUE]
    <3>1. row' = [row EXCEPT ![j] = q]
      BY <1>0, <2>1 DEF EnqueueReply, Enqueue
    <3>2. /\ q \in Row /\ q.token \in {0, row[j].token}
          /\ q.started = row[j].started /\ q.accepted = row[j].accepted
      BY <1>0 DEF Row, Status
    <3> HIDE DEF q
    <3> QED BY <3>1, <3>2
  <2>2. CASE RetryReply(j)
    <3> DEFINE f == Freed(row[j], "pending")
               q == [f EXCEPT !.attempt = 0, !.due = TRUE]
    <3>1. /\ f \in Row /\ f.token = 0
          /\ f.started = row[j].started /\ f.accepted = row[j].accepted
      BY <1>0, FreedIsRow, FreedFields DEF Status
    <3>2. row' = [row EXCEPT ![j] = q]
      BY <1>0, <2>2 DEF RetryReply, AdminRetry
    <3> HIDE DEF f
    <3>3. /\ q \in Row /\ q.token \in {0, row[j].token}
          /\ q.started = row[j].started /\ q.accepted = row[j].accepted
      BY <3>1 DEF Row
    <3> HIDE DEF q
    <3> QED BY <3>2, <3>3
  <2>3. CASE LeaseExpires(j)
    <3> DEFINE q == [row[j] EXCEPT !.leased = FALSE]
    <3>1. row' = [row EXCEPT ![j] = q]
      BY <1>0, <2>3 DEF LeaseExpires
    <3>2. /\ q \in Row /\ q.token \in {0, row[j].token}
          /\ q.started = row[j].started /\ q.accepted = row[j].accepted
      BY <1>0 DEF Row, Status
    <3> HIDE DEF q
    <3> QED BY <3>1, <3>2
  <2>4. CASE BackoffElapses(j)
    <3> DEFINE q == [row[j] EXCEPT !.due = TRUE]
    <3>1. row' = [row EXCEPT ![j] = q]
      BY <1>0, <2>4 DEF BackoffElapses
    <3>2. /\ q \in Row /\ q.token \in {0, row[j].token}
          /\ q.started = row[j].started /\ q.accepted = row[j].accepted
      BY <1>0 DEF Row, Status
    <3> HIDE DEF q
    <3> QED BY <3>1, <3>2
  <2> QED BY <2>1, <2>2, <2>3, <2>4 DEF TimePasses
<1>4. RowsQuiet
  BY <1>0, <1>2, <1>3 DEF RowsQuiet
<1>5. BatchesQuiet /\ WorkersQuiet
  BY <1>1 DEF BatchesQuiet, WorkersQuiet, Handling
<1> QED BY <1>4, <1>5

\* A claim copies the marks of its rows.
LEMMA ClaimIsQuiet ==
  ASSUME TypeOK, QueueInv, NEW w \in Workers, NEW S \in SUBSET Jobs, Claim(w, S)
  PROVE  RowsQuiet /\ BatchesQuiet /\ WorkersQuiet
<1> DEFINE t == lastToken + 1
           taken(j) == [row[j] EXCEPT !.status = "running", !.attempt = @ + 1,
                                      !.token = t, !.leased = TRUE]
<1>0. row \in [Jobs -> Row] /\ lastToken \in Nat
  BY DEF TypeOK, QueueTypeOK
<1>1. /\ row' = [j \in Jobs |-> IF j \in S THEN taken(j) ELSE row[j]]
      /\ batch' = [batch EXCEPT ![w] = {AsClaimed(j) : j \in S}]
      /\ pc' = [pc EXCEPT ![w] = "batch"]
      /\ cur' = cur /\ pc[w] = "idle"
  BY DEF Claim
<1>2. \A j \in Jobs : /\ taken(j).token = t
                      /\ taken(j).started = row[j].started
                      /\ taken(j).accepted = row[j].accepted
  <2> TAKE j \in Jobs
  <2> DEFINE r == row[j]
             n == r.attempt + 1
  <2>1. r \in Row
    BY <1>0
  <2>2. taken(j) = [r EXCEPT !.status = "running", !.attempt = n, !.token = t, !.leased = TRUE]
    OBVIOUS
  <2> HIDE DEF r, n, t, taken
  <2>3. taken(j).token = t /\ taken(j).started = r.started /\ taken(j).accepted = r.accepted
    BY <2>1, <2>2 DEF Row
  <2> QED BY <2>3 DEF r
<1>3. RowsQuiet
  <2>1. \A v \in Workers : \A s \in Mine(v) : s.token # t /\ s.job \in Jobs
    <3>1. \A v \in Workers : \A s \in Mine(v) : s \in Claimed /\ s.token \in 1..lastToken
      BY DEF TypeOK, QueueTypeOK, QueueInv, ClaimsAreDistinct, Mine
    <3> QED BY <1>0, <3>1 DEF Claimed
  <2> HIDE DEF taken, t
  <2> QED BY <1>1, <1>2, <2>1 DEF RowsQuiet
<1>4. BatchesQuiet
  <2> SUFFICES ASSUME NEW v \in Workers, NEW s \in batch'[v], s \notin batch[v]
               PROVE  s.started = row[s.job].started /\ s.accepted = row[s.job].accepted
    BY DEF BatchesQuiet
  <2>1. s \in {AsClaimed(j) : j \in S}
    BY <1>1 DEF TypeOK, QueueTypeOK
  <2> QED BY <2>1 DEF AsClaimed
<1>5. WorkersQuiet
  BY <1>1 DEF WorkersQuiet, Handling, TypeOK, QueueTypeOK
<1> QED BY <1>3, <1>4, <1>5

\* A run starts where the marks of its copy say.
LEMMA BeginIsQuiet ==
  ASSUME TypeOK, NEW w \in Workers, Begin(w)
  PROVE  RowsQuiet /\ BatchesQuiet /\ WorkersQuiet
<1>1. PICK s \in batch[w] :
        Take(w, s, IF s.accepted THEN "reportSent"
                   ELSE IF s.started THEN "failForGood" ELSE "prepare")
  BY DEF Begin
<1>2. /\ pc[w] = "batch" /\ UNCHANGED row
      /\ cur' = [cur EXCEPT ![w] = s] /\ batch' = [batch EXCEPT ![w] = @ \ {s}]
      /\ pc' = [pc EXCEPT ![w] = IF s.accepted THEN "reportSent"
                                 ELSE IF s.started THEN "failForGood" ELSE "prepare"]
  BY <1>1 DEF Take
<1>3. RowsQuiet
  BY <1>2 DEF RowsQuiet
<1>4. BatchesQuiet
  BY <1>2 DEF BatchesQuiet, TypeOK, QueueTypeOK
<1>5. WorkersQuiet
  BY <1>2 DEF WorkersQuiet, Handling, TypeOK, QueueTypeOK
<1> QED BY <1>3, <1>4, <1>5

\* Preparing a send marks nothing.
LEMMA PrepareIsQuiet ==
  ASSUME TypeOK, NEW w \in Workers, Prepare(w)
  PROVE  RowsQuiet /\ BatchesQuiet /\ WorkersQuiet
<1>1. /\ pc[w] = "prepare" /\ UNCHANGED <<row, batch, cur>>
      /\ \E step \in {"markStart", "fail", "failForGood", "release"} :
           pc' = [pc EXCEPT ![w] = step]
  BY DEF Prepare, Goto
<1> QED
  BY <1>1 DEF RowsQuiet, BatchesQuiet, WorkersQuiet, Handling, QueuePC, TypeOK, QueueTypeOK

MarkingOrSending(w) == MarkStart(w) \/ Send(w) \/ ClearStart(w) \/ MarkAccepted(w)

\* Every step is quiet, or one of the four that mark or send.
LEMMA StepIsQuiet ==
  ASSUME TypeOK, QueueInv, [Next]_vars
  PROVE  Quiet \/ \E w \in Workers : MarkingOrSending(w)
<1>1. ASSUME NEW w \in Workers, Handling(w) \/ LeaveBatch(w), UNCHANGED row,
             (\E step \in QueuePC : Goto(w, step)) \/ NextJob(w) \/ LeaveBatch(w)
      PROVE  RowsQuiet /\ BatchesQuiet /\ WorkersQuiet
  <2>1. WorkerGoesOn(w, QueuePC)
    BY <1>1 DEF WorkerGoesOn
  <2>2. RowsQuiet
    BY <1>1 DEF RowsQuiet
  <2> QED BY <1>1, <2>1, <2>2, GoingOnIsQuiet
<1>2. ASSUME NEW w \in Workers, ClaimJobs(w) PROVE Quiet
  BY <1>2, ClaimIsQuiet DEF ClaimJobs, mailVars, Quiet
<1>3. ASSUME NEW w \in Workers, Begin(w) \/ Prepare(w) PROVE Quiet
  <2>1. UNCHANGED delivered
    BY <1>3 DEF Begin, Prepare, mailVars
  <2> QED BY <1>3, <2>1, BeginIsQuiet, PrepareIsQuiet DEF Quiet
<1>4. ASSUME NEW w \in Workers, ReportSent(w) \/ ReportFailed(w) PROVE Quiet
  <2>1. Handling(w) /\ UNCHANGED row /\ UNCHANGED delivered
    BY <1>4 DEF ReportSent, ReportFailed, Handling
  <2>2. (\E step \in QueuePC : Goto(w, step)) \/ NextJob(w)
    BY <1>4 DEF ReportSent, ReportFailed, QueuePC
  <2> QED BY <1>1, <2>1, <2>2 DEF Quiet
<1>5. ASSUME NEW w \in Workers, QueueStep(w) PROVE Quiet
  <2>1. Complete(w) \/ Release(w) \/ Fail(w)
    BY <1>5 DEF QueueStep
  <2>2. QueueTypeOK(MailPC)
    BY DEF TypeOK
  <2>3. Handling(w) /\ SettlesOwnJob(w) /\ WorkerGoesOn(w, QueuePC)
    BY <2>1, <2>2, QueueStepEffect
  <2> QED BY <1>5, <2>3, SettlingIsQuiet, GoingOnIsQuiet DEF Quiet, QueueStep, mailVars
<1>6. ASSUME NEW w \in Workers, CrashMail(w) PROVE Quiet
  BY <1>1, <1>6 DEF CrashMail, Crash, Quiet
<1>7. ASSUME NEW j \in Jobs, EnqueueReply(j) \/ RetryReply(j) \/ TimePasses(j) PROVE Quiet
  <2>1. UNCHANGED delivered
    BY <1>7 DEF EnqueueReply, RetryReply, TimePasses, mailVars
  <2> QED BY <1>7, <2>1, RowOnlyIsQuiet DEF Quiet
<1>8. ASSUME UNCHANGED vars \/ \E r \in late : LateReport(r) PROVE Quiet
  BY <1>8, StillIsQuiet DEF vars, LateReport, queueVars, Quiet
<1> QED
  BY <1>2, <1>3, <1>4, <1>5, <1>6, <1>7, <1>8 DEF Next, SendStep, MarkingOrSending

-----------------------------------------------------------------------------
(* The mark is written before the mail is sent *)

\* What a worker holds are claims of jobs.
LEMMA ClaimsHaveJobs ==
  ASSUME TypeOK
  PROVE  /\ \A w \in Workers : \A s \in Mine(w) : s \in Claimed /\ s.job \in Jobs
         /\ \A w \in Workers : Handling(w) => cur[w] \in Mine(w)
         /\ \A w \in Workers : batch[w] \subseteq Mine(w)
<1>1. \A w \in Workers : \A s \in Mine(w) : s \in Claimed
  BY DEF TypeOK, QueueTypeOK, Mine
<1> QED BY <1>1 DEF Mine, Claimed

\* Quiet steps keep the first half of the argument.
LEMMA QuietKeepsMarks ==
  ASSUME TypeOK, TypeOK', QueueInv', MarkedBeforeSent, Quiet
  PROVE  MarkedBeforeSent'
<1>1. \A j \in Jobs : /\ row'[j].started = row[j].started
                     /\ row'[j].accepted = row[j].accepted
                     /\ delivered'[j] = delivered[j]
  BY DEF Quiet, RowsQuiet
<1>2. \A w \in Workers : Handling(w)' => cur'[w].job \in Jobs
  BY DEF TypeOK, QueueTypeOK, Claimed
<1>3. \A w \in Workers : Sending(w)' => Sending(w) /\ cur'[w] = cur[w] /\ cur[w].job \in Jobs
  BY <1>2 DEF Quiet, WorkersQuiet, Sending, Handling, QueuePC
<1>4. \A w \in Workers : pc'[w] = "markAccepted" => pc[w] = "markAccepted" /\ cur'[w] = cur[w]
  BY DEF Quiet, WorkersQuiet, Handling, QueuePC
<1>5. \A w \in Workers : pc'[w] \in {"prepare", "markStart"} /\ Holds(cur[w])'
        => ~row'[cur'[w].job].started
  <2> SUFFICES ASSUME NEW w \in Workers, pc'[w] \in {"prepare", "markStart"}, Holds(cur[w])'
               PROVE  ~row'[cur'[w].job].started
    OBVIOUS
  <2>1. Handling(w)' /\ pc'[w] \notin QueuePC
    BY DEF Handling, QueuePC
  <2>2. CASE pc[w] \in {"prepare", "markStart"} /\ cur'[w] = cur[w]
    <3>1. cur[w] \in Mine(w) /\ cur[w].job \in Jobs
      BY <2>2, ClaimsHaveJobs DEF Handling
    <3>2. Holds(cur[w])
      BY <2>2, <3>1 DEF Quiet, RowsQuiet, Holds
    <3> QED BY <1>1, <2>2, <3>1, <3>2 DEF MarkedBeforeSent
  <2>3. CASE cur'[w] \in batch[w] /\ ~cur'[w].started
    <3>1. cur'[w] \in Mine(w) /\ cur'[w].job \in Jobs
      BY <2>3, ClaimsHaveJobs
    <3>2. Holds(cur'[w])
      BY <3>1 DEF Quiet, RowsQuiet, Holds
    <3> QED BY <1>1, <2>3, <3>1, <3>2 DEF MarkedBeforeSent
  <2> QED BY <2>1, <2>2, <2>3 DEF Quiet, WorkersQuiet
<1>6. \A w \in Workers : \A s \in batch'[w] : row'[s.job].token = s.token => s.started = row'[s.job].started
  <2> TAKE w \in Workers
  <2> TAKE s \in batch'[w]
  <2>1. s.job \in Jobs
    BY DEF TypeOK, QueueTypeOK, Claimed
  <2>2. CASE s \in batch[w]
    <3>1. s \in Mine(w)
      BY <2>2, ClaimsHaveJobs
    <3> QED BY <1>1, <2>1, <2>2, <3>1 DEF Quiet, RowsQuiet, MarkedBeforeSent, Holds
  <2>3. CASE s.started = row[s.job].started
    BY <1>1, <2>1, <2>3
  <2> QED BY <2>2, <2>3 DEF Quiet, BatchesQuiet
<1>7. \A j \in Jobs : delivered'[j] <= 1 /\ (delivered'[j] > 0 => row'[j].started)
  BY <1>1 DEF MarkedBeforeSent
<1>8. \A w \in Workers : Sending(w)' => row'[cur'[w].job].started /\ delivered'[cur'[w].job] = 0
  BY <1>1, <1>3 DEF MarkedBeforeSent
<1>9. \A w \in Workers : Sending(w)' \/ pc'[w] = "markAccepted" => cur'[w].started
  BY <1>3, <1>4 DEF MarkedBeforeSent
<1>10. \A w, v \in Workers : Sending(w)' /\ Sending(v)' /\ cur'[w].job = cur'[v].job => w = v
  BY <1>3 DEF MarkedBeforeSent
<1> QED
  BY <1>5, <1>6, <1>7, <1>8, <1>9, <1>10 DEF MarkedBeforeSent, Holds

\* A mark lands on the marker's own row, which nobody else has a good claim to.
Marks(w, s) ==
  /\ Markable(s)
  /\ row' = [row EXCEPT ![s.job] = MarkedRow(s)]

\* The fence: what a marker writes, and whom it cannot concern.
LEMMA MarkIsOwn ==
  ASSUME TypeOK, QueueInv, NEW w \in Workers, Handling(w), NEW s \in Claimed,
         s.job = cur[w].job, s.token = cur[w].token, Marks(w, s)
  PROVE  /\ s.job \in Jobs /\ row[s.job].token = s.token
         /\ \A j \in Jobs : row'[j].token = row[j].token
         /\ \A j \in Jobs \ {s.job} : row'[j] = row[j]
         /\ row'[s.job].started = s.started /\ row'[s.job].accepted = s.accepted
         /\ \A v \in Workers \ {w} : \A t \in Mine(v) : row[t.job].token = t.token => t.job # s.job
         /\ \A t \in batch[w] : t.job # s.job
<1>1. s.job \in Jobs /\ row \in [Jobs -> Row] /\ QueueTypeOK(MailPC)
  BY DEF Claimed, TypeOK, QueueTypeOK
<1>2. row[s.job].token = s.token /\ row' = [row EXCEPT ![s.job] = MarkedRow(s)]
  BY DEF Marks, Markable, Holds
<1>3. cur[w] \in Mine(w)
  BY DEF Mine
<1>4. \A v \in Workers \ {w} : \A t \in Mine(v) : row[t.job].token = t.token => t.job # s.job
  BY <1>2, <1>3 DEF QueueInv, ClaimsAreDistinct
<1>5. \A t \in batch[w] : t.job # s.job
  BY DEF QueueInv, ClaimsAreDistinct
<1> QED BY <1>1, <1>2, <1>4, <1>5, MarkedFields

\* What a mark does to the invariant, for the three that write one: nobody else
\* is past the mark, and a run that goes on to send has set it.
LEMMA MarkKeepsMarks ==
  ASSUME TypeOK, TypeOK', QueueInv, MarkedBeforeSent,
         NEW w \in Workers, Handling(w), NEW s \in Claimed,
         s.job = cur[w].job, s.token = cur[w].token, Marks(w, s),
         UNCHANGED <<batch, delivered>>,
         \A v \in Workers \ {w} : pc'[v] = pc[v] /\ cur'[v] = cur[v],
         s.started \/ delivered[s.job] = 0,
         \A v \in Workers \ {w} : Sending(v) => cur[v].job # s.job,
         \/ pc'[w] \in {"fail", "reportSent"}
         \/ pc'[w] = "send" /\ cur'[w] = s /\ s.started /\ delivered[s.job] = 0
  PROVE  MarkedBeforeSent'
<1>1. /\ s.job \in Jobs /\ row[s.job].token = s.token
      /\ \A j \in Jobs : row'[j].token = row[j].token
      /\ \A j \in Jobs \ {s.job} : row'[j] = row[j]
      /\ row'[s.job].started = s.started
      /\ \A v \in Workers \ {w} : \A t \in Mine(v) : row[t.job].token = t.token => t.job # s.job
      /\ \A t \in batch[w] : t.job # s.job
  BY MarkIsOwn
<1>2. \A v \in Workers \ {w} : Sending(v)' = Sending(v)
  BY DEF Sending
<1>3. \A v \in Workers \ {w} : Sending(v) => cur[v].job \in Jobs
  BY DEF Sending, Handling, TypeOK, QueueTypeOK, Claimed
<1>4. Sending(w)' => cur'[w] = s /\ s.started /\ delivered[s.job] = 0
  BY DEF Sending
<1>5. \A j \in Jobs : delivered'[j] <= 1 /\ (delivered'[j] > 0 => row'[j].started)
  BY <1>1 DEF MarkedBeforeSent
<1>6. \A v \in Workers : Sending(v)' => row'[cur'[v].job].started /\ delivered'[cur'[v].job] = 0
  BY <1>1, <1>2, <1>3, <1>4 DEF MarkedBeforeSent
<1>7. \A v \in Workers : Sending(v)' \/ pc'[v] = "markAccepted" => cur'[v].started
  BY <1>2, <1>4 DEF MarkedBeforeSent
<1>8. \A v, u \in Workers : Sending(v)' /\ Sending(u)' /\ cur'[v].job = cur'[u].job => v = u
  BY <1>2, <1>4 DEF MarkedBeforeSent
<1>9. \A v \in Workers : pc'[v] \in {"prepare", "markStart"} /\ row'[cur'[v].job].token = cur'[v].token
        => ~row'[cur'[v].job].started
  <2> SUFFICES ASSUME NEW v \in Workers, pc'[v] \in {"prepare", "markStart"},
                      row'[cur'[v].job].token = cur'[v].token
               PROVE  ~row'[cur'[v].job].started
    OBVIOUS
  <2>1. v # w /\ pc'[v] = pc[v] /\ cur'[v] = cur[v]
    OBVIOUS
  <2>2. cur[v] \in Mine(v) /\ cur[v].job \in Jobs
    BY <2>1, ClaimsHaveJobs DEF Handling
  <2> QED BY <1>1, <2>1, <2>2 DEF MarkedBeforeSent, Holds
<1>10. \A v \in Workers : \A t \in batch'[v] : row'[t.job].token = t.token => t.started = row'[t.job].started
  <2> SUFFICES ASSUME NEW v \in Workers, NEW t \in batch[v], row'[t.job].token = t.token
               PROVE  t.started = row'[t.job].started
    OBVIOUS
  <2>1. t \in Mine(v) /\ t.job \in Jobs
    BY ClaimsHaveJobs
  <2> QED BY <1>1, <2>1 DEF MarkedBeforeSent, Holds
<1> QED BY <1>5, <1>6, <1>7, <1>8, <1>9, <1>10 DEF MarkedBeforeSent, Holds

\* A step that marks nothing and takes the worker down the queue's own path, or
\* from the acceptance to the report, is quiet.
LEMMA UnmarkedIsQuiet ==
  ASSUME TypeOK, NEW w \in Workers, Handling(w), UNCHANGED <<row, delivered>>,
         \/ NextJob(w) \/ Goto(w, "fail")
         \/ pc[w] = "markAccepted" /\ Goto(w, "reportSent")
  PROVE  Quiet
<1>1. RowsQuiet
  BY DEF RowsQuiet
<1>2. CASE NextJob(w) \/ Goto(w, "fail")
  <2>1. WorkerGoesOn(w, QueuePC)
    BY <1>2 DEF WorkerGoesOn, QueuePC
  <2> QED BY <1>1, <2>1, GoingOnIsQuiet DEF Quiet
<1>3. CASE pc[w] = "markAccepted" /\ Goto(w, "reportSent")
  BY <1>1, <1>3 DEF Goto, Quiet, BatchesQuiet, WorkersQuiet, Handling, TypeOK, QueueTypeOK
<1> QED BY <1>2, <1>3

\* The mark before the send.
LEMMA MarkStartKeepsMarks ==
  ASSUME TypeOK, TypeOK', QueueInv, MarkedBeforeSent, NEW w \in Workers, MarkStart(w)
  PROVE  MarkedBeforeSent' \/ Quiet
<1> DEFINE s == [cur[w] EXCEPT !.started = TRUE]
<1>0. Handling(w) /\ cur[w] \in Claimed /\ pc[w] = "markStart" /\ UNCHANGED delivered
  BY DEF TypeOK, QueueTypeOK, MarkStart, Handling, mailVars
<1>1. s \in Claimed /\ s.job = cur[w].job /\ s.token = cur[w].token /\ s.started
  BY <1>0 DEF Claimed
<1>2. CASE (NextJob(w) \/ Goto(w, "fail")) /\ UNCHANGED row
  BY <1>0, <1>2, UnmarkedIsQuiet
<1>3. CASE /\ Marks(w, s) /\ UNCHANGED batch
           /\ \/ /\ pc' = [pc EXCEPT ![w] = "send"]
                 /\ cur' = [cur EXCEPT ![w] = s]
              \/ pc' = [pc EXCEPT ![w] = "fail"] /\ UNCHANGED cur
  <2> HIDE DEF s
  <2>1. s.job \in Jobs /\ row[s.job].token = s.token
    BY <1>0, <1>1, <1>3, MarkIsOwn
  <2>2. ~row[s.job].started
    BY <1>0, <1>1, <2>1 DEF MarkedBeforeSent, Holds
  <2>3. delivered[s.job] = 0
    BY <2>1, <2>2 DEF MarkedBeforeSent, TypeOK
  <2>4. \A v \in Workers : Sending(v) => cur[v].job # s.job
    BY <2>2 DEF MarkedBeforeSent
  <2>5. /\ \A v \in Workers \ {w} : pc'[v] = pc[v] /\ cur'[v] = cur[v]
        /\ pc'[w] = "fail" \/ (pc'[w] = "send" /\ cur'[w] = s)
    BY <1>3 DEF TypeOK, QueueTypeOK
  <2> QED BY <1>0, <1>1, <1>3, <2>3, <2>4, <2>5, MarkKeepsMarks
<1>4. Marks(w, s) <=> Markable(s) /\ row' = [row EXCEPT ![s.job] = MarkedRow(s)]
  BY DEF Marks
<1> QED BY <1>2, <1>3, <1>4 DEF MarkStart, Goto

\* The mark taken off after a refusal.
LEMMA ClearStartKeepsMarks ==
  ASSUME TypeOK, TypeOK', QueueInv, MarkedBeforeSent, NEW w \in Workers, ClearStart(w)
  PROVE  MarkedBeforeSent' \/ Quiet
<1> DEFINE s == [cur[w] EXCEPT !.started = FALSE]
<1>0. /\ Handling(w) /\ cur[w] \in Claimed /\ Sending(w)
      /\ Goto(w, "fail") /\ UNCHANGED delivered
  BY DEF TypeOK, QueueTypeOK, ClearStart, Handling, Sending, mailVars
<1>1. s \in Claimed /\ s.job = cur[w].job /\ s.token = cur[w].token
  BY <1>0 DEF Claimed
<1>2. CASE UNCHANGED row
  BY <1>0, <1>2, UnmarkedIsQuiet
<1>3. CASE Marks(w, s)
  <2> HIDE DEF s
  <2>1. delivered[s.job] = 0 /\ \A v \in Workers \ {w} : Sending(v) => cur[v].job # s.job
    BY <1>0, <1>1 DEF MarkedBeforeSent
  <2>2. /\ \A v \in Workers \ {w} : pc'[v] = pc[v] /\ cur'[v] = cur[v]
        /\ pc'[w] = "fail" /\ UNCHANGED batch
    BY <1>0 DEF Goto, TypeOK, QueueTypeOK
  <2> QED BY <1>0, <1>1, <1>3, <2>1, <2>2, MarkKeepsMarks
<1> QED BY <1>2, <1>3 DEF ClearStart, Marks

\* The mark after the send.
LEMMA MarkAcceptedKeepsMarks ==
  ASSUME TypeOK, TypeOK', QueueInv, MarkedBeforeSent, AcceptedWasDelivered,
         NEW w \in Workers, MarkAccepted(w)
  PROVE  MarkedBeforeSent' \/ Quiet
<1> DEFINE s == [cur[w] EXCEPT !.accepted = TRUE]
<1>0. /\ Handling(w) /\ cur[w] \in Claimed /\ pc[w] = "markAccepted"
      /\ Goto(w, "reportSent") /\ UNCHANGED delivered
  BY DEF TypeOK, QueueTypeOK, MarkAccepted, Handling, mailVars
<1>1. s \in Claimed /\ s.job = cur[w].job /\ s.token = cur[w].token /\ s.started = cur[w].started
  BY <1>0 DEF Claimed
<1>2. CASE UNCHANGED row
  BY <1>0, <1>2, UnmarkedIsQuiet
<1>3. CASE Marks(w, s)
  <2> HIDE DEF s
  <2>1. s.started /\ delivered[s.job] > 0
    BY <1>0, <1>1 DEF MarkedBeforeSent, AcceptedWasDelivered
  <2>2. \A v \in Workers : Sending(v) => cur[v].job # s.job
    BY <2>1 DEF MarkedBeforeSent
  <2>3. /\ \A v \in Workers \ {w} : pc'[v] = pc[v] /\ cur'[v] = cur[v]
        /\ pc'[w] = "reportSent" /\ UNCHANGED batch
    BY <1>0 DEF Goto, TypeOK, QueueTypeOK
  <2> QED BY <1>0, <1>1, <1>3, <2>1, <2>2, <2>3, MarkKeepsMarks
<1> QED BY <1>2, <1>3 DEF MarkAccepted, Marks

\* A send delivers a mail nobody has delivered, once.
LEMMA SendDelivers ==
  ASSUME TypeOK, MarkedBeforeSent, NEW w \in Workers, Send(w)
  PROVE  /\ cur[w].job \in Jobs /\ Sending(w)
         /\ UNCHANGED <<row, batch, cur>>
         /\ \A v \in Workers \ {w} : pc'[v] = pc[v]
         /\ \/ /\ delivered[cur[w].job] = 0
               /\ delivered' = [delivered EXCEPT ![cur[w].job] = 1]
               /\ pc'[w] \in {"markAccepted", "failForGood"}
            \/ delivered' = delivered /\ pc'[w] \in {"clearStart", "failForGood"}
<1>1. Sending(w) /\ Handling(w) /\ cur[w].job \in Jobs
  BY DEF Send, Sending, Handling, TypeOK, QueueTypeOK, Claimed
<1>2. delivered[cur[w].job] = 0
  BY <1>1 DEF MarkedBeforeSent
<1>3. DeliverMail(cur[w].job) => delivered' = [delivered EXCEPT ![cur[w].job] = 1]
  BY <1>1, <1>2 DEF DeliverMail, TypeOK
<1>4. /\ UNCHANGED <<row, batch, cur>>
      /\ \E step \in {"markAccepted", "failForGood", "clearStart"} :
           /\ pc' = [pc EXCEPT ![w] = step]
           /\ \/ DeliverMail(cur[w].job) /\ step # "clearStart"
              \/ UNCHANGED delivered /\ step # "markAccepted"
  BY OutcomesOfSend DEF Goto
<1> QED BY <1>1, <1>2, <1>3, <1>4 DEF TypeOK, QueueTypeOK

\* The send itself.
LEMMA SendKeepsMarks ==
  ASSUME TypeOK, TypeOK', QueueInv, MarkedBeforeSent, NEW w \in Workers, Send(w)
  PROVE  MarkedBeforeSent'
<1> DEFINE j == cur[w].job
<1>1. /\ j \in Jobs /\ Sending(w)
      /\ UNCHANGED <<row, batch, cur>>
      /\ \A v \in Workers \ {w} : pc'[v] = pc[v]
      /\ \/ /\ delivered' = [delivered EXCEPT ![j] = 1]
            /\ pc'[w] \in {"markAccepted", "failForGood"}
         \/ delivered' = delivered /\ pc'[w] \in {"clearStart", "failForGood"}
  BY SendDelivers
<1>2. row[j].started /\ cur[w].started /\ delivered[j] = 0
      /\ \A v \in Workers \ {w} : Sending(v) => cur[v].job # j
  BY <1>1 DEF MarkedBeforeSent
<1>3. \A v \in Workers \ {w} : Sending(v)' = Sending(v)
  BY <1>1 DEF Sending
<1>4. Sending(w)' => delivered' = delivered
  BY <1>1 DEF Sending
<1>5. \A v \in Workers : Sending(v) => cur[v].job \in Jobs
  BY DEF Sending, Handling, TypeOK, QueueTypeOK, Claimed
<1>6. \A i \in Jobs : delivered'[i] <= 1 /\ (delivered'[i] > 0 => row'[i].started)
  BY <1>1, <1>2 DEF MarkedBeforeSent, TypeOK
<1>7. \A v \in Workers : Sending(v)' => row'[cur'[v].job].started /\ delivered'[cur'[v].job] = 0
  BY <1>1, <1>2, <1>3, <1>4, <1>5 DEF MarkedBeforeSent, TypeOK
<1>8. \A v \in Workers : Sending(v)' \/ pc'[v] = "markAccepted" => cur'[v].started
  BY <1>1, <1>2, <1>3 DEF MarkedBeforeSent
<1>9. \A v, u \in Workers : Sending(v)' /\ Sending(u)' /\ cur'[v].job = cur'[u].job => v = u
  BY <1>1, <1>2, <1>3 DEF MarkedBeforeSent
<1>10. /\ \A v \in Workers : pc'[v] \in {"prepare", "markStart"} /\ Holds(cur[v])'
            => ~row'[cur'[v].job].started
       /\ \A v \in Workers : \A s \in batch'[v] : row'[s.job].token = s.token => s.started = row'[s.job].started
  BY <1>1 DEF MarkedBeforeSent, Holds
<1> QED BY <1>6, <1>7, <1>8, <1>9, <1>10 DEF MarkedBeforeSent, Holds

\* Every step keeps MarkedBeforeSent.
LEMMA StepKeepsMarks ==
  ASSUME TypeOK, QueueInv, MarkedBeforeSent, AcceptedWasDelivered, [Next]_vars
  PROVE  MarkedBeforeSent'
<1>1. TypeOK' /\ QueueInv'
  BY StepKeepsTypes, StepKeepsQueue
<1>2. CASE Quiet
  BY <1>1, <1>2, QuietKeepsMarks
<1>3. ASSUME NEW w \in Workers, MarkingOrSending(w)
      PROVE  MarkedBeforeSent'
  BY <1>1, <1>2, <1>3, MarkStartKeepsMarks, SendKeepsMarks, ClearStartKeepsMarks,
     MarkAcceptedKeepsMarks DEF MarkingOrSending
<1> QED BY <1>2, <1>3, StepIsQuiet

-----------------------------------------------------------------------------
(* Who says `sent' says it of a delivered mail *)

\* Core's row changes by a report only, and a worker's or a late report of a
\* sent mail is one of a delivered mail.
MailQuiet ==
  /\ \/ UNCHANGED mail
     \/ \E r \in Report : /\ mail' = Recorded(r)
                          /\ r.outcome = "sent" => delivered[r.job] > 0
  /\ \A r \in late' : r \in late \/ (r \in Report /\ (r.outcome = "sent" => delivered[r.job] > 0))

\* Every step changes Core's row as MailQuiet says.
LEMMA StepIsMailQuiet ==
  ASSUME TypeOK, AcceptedWasDelivered, [Next]_vars
  PROVE  MailQuiet
<1>1. ASSUME NEW w \in Workers, NEW o \in {"sent", "failed"}, Handling(w),
             o = "sent" => pc[w] = "reportSent",
             \/ Reported(MyReport(w, o)) \/ ReportLost(MyReport(w, o))
             \/ UNCHANGED mail /\ late' = late \cup {MyReport(w, o)}
      PROVE  MailQuiet
  <2> DEFINE r == MyReport(w, o)
  <2>1. r \in Report /\ (r.outcome = "sent" => delivered[r.job] > 0)
    BY <1>1 DEF MyReport, Report, TypeOK, QueueTypeOK, Claimed, AcceptedWasDelivered
  <2> HIDE DEF r
  <2>2. /\ UNCHANGED mail \/ mail' = Recorded(r)
        /\ late' \subseteq late \cup {r}
    BY <1>1 DEF Reported, ReportLost, r
  <2> QED BY <2>1, <2>2 DEF MailQuiet
<1>2. ASSUME UNCHANGED <<mail, late>> PROVE MailQuiet
  BY <1>2 DEF MailQuiet
<1>3. ASSUME NEW w \in Workers, ReportSent(w) PROVE MailQuiet
  <2>1. Handling(w) /\ pc[w] = "reportSent"
    BY <1>3 DEF ReportSent, Handling
  <2>2. \/ Reported(MyReport(w, "sent")) \/ ReportLost(MyReport(w, "sent"))
        \/ UNCHANGED <<mail, late>>
    BY <1>3 DEF ReportSent
  <2> QED BY <1>1, <1>2, <2>1, <2>2
<1>4. ASSUME NEW w \in Workers, ReportFailed(w) PROVE MailQuiet
  <2>1. Handling(w)
    BY <1>4 DEF ReportFailed, Handling
  <2>2. Reported(MyReport(w, "failed")) \/ ReportLost(MyReport(w, "failed"))
    BY <1>4 DEF ReportFailed
  <2> QED BY <1>1, <2>1, <2>2
<1>5. ASSUME NEW w \in Workers, CrashMail(w) PROVE MailQuiet
  <2>1. pc[w] \in {"reportSent", "reportFailed"} => Handling(w)
    BY DEF Handling
  <2>2. UNCHANGED mail
    BY <1>5 DEF CrashMail
  <2>3. CASE UNCHANGED late
    BY <1>2, <2>2, <2>3
  <2>4. CASE pc[w] = "reportSent" /\ late' = late \cup {MyReport(w, "sent")}
    BY <1>1, <2>1, <2>2, <2>4
  <2>5. CASE pc[w] = "reportFailed" /\ late' = late \cup {MyReport(w, "failed")}
    BY <1>1, <2>1, <2>2, <2>5
  <2> QED BY <1>5, <2>3, <2>4, <2>5 DEF CrashMail
<1>6. ASSUME NEW r \in late, LateReport(r) PROVE MailQuiet
  <2>1. /\ r \in Report /\ (r.outcome = "sent" => delivered[r.job] > 0)
        /\ mail' = Recorded(r) /\ late' = late \ {r}
    BY <1>6 DEF TypeOK, AcceptedWasDelivered, LateReport
  <2> QED BY <2>1 DEF MailQuiet
<1>7. \/ UNCHANGED <<mail, late>>
      \/ \E w \in Workers : ReportSent(w) \/ ReportFailed(w) \/ CrashMail(w)
      \/ \E r \in late : LateReport(r)
  BY DEF Next, vars, mailVars, ClaimJobs, SendStep, QueueStep, EnqueueReply, RetryReply,
         TimePasses, Begin, Prepare, MarkStart, Send, ClearStart, MarkAccepted
<1> QED BY <1>2, <1>3, <1>4, <1>5, <1>6, <1>7

\* Deliveries are never undone.
LEMMA DeliveredGrows ==
  ASSUME TypeOK, QueueInv, MarkedBeforeSent, [Next]_vars
  PROVE  \A j \in Jobs : delivered[j] > 0 => delivered'[j] > 0
<1>1. ASSUME NEW w \in Workers, Send(w)
      PROVE  \A j \in Jobs : delivered[j] > 0 => delivered'[j] > 0
  BY <1>1, SendDelivers DEF TypeOK
<1>2. Quiet \/ \E w \in Workers : MarkingOrSending(w)
  BY StepIsQuiet
<1> QED BY <1>1, <1>2 DEF MarkingOrSending, Quiet, MarkStart, ClearStart, MarkAccepted, mailVars

\* Quiet steps keep what is known of acceptances.
LEMMA QuietKeepsAccepted ==
  ASSUME TypeOK, TypeOK', AcceptedWasDelivered, Quiet
  PROVE  /\ \A j \in Jobs : row'[j].accepted => delivered'[j] > 0
         /\ \A w \in Workers : \A s \in Mine(w)' : s.accepted => delivered'[s.job] > 0
         /\ \A w \in Workers : pc'[w] \in {"markAccepted", "reportSent"} => delivered'[cur'[w].job] > 0
<1>0. delivered' = delivered
  BY DEF Quiet
<1>1. \A j \in Jobs : row'[j].accepted => delivered'[j] > 0
  BY DEF Quiet, RowsQuiet, AcceptedWasDelivered
<1>2. ASSUME NEW w \in Workers, NEW s \in batch'[w], s.accepted
      PROVE  delivered'[s.job] > 0
  <2>1. s.job \in Jobs
    BY DEF TypeOK, QueueTypeOK, Claimed
  <2>2. s \in batch[w] => s \in Mine(w)
    BY ClaimsHaveJobs
  <2> QED BY <1>0, <1>2, <2>1, <2>2 DEF Quiet, BatchesQuiet, AcceptedWasDelivered
<1>3. ASSUME NEW w \in Workers, Handling(w)', cur'[w].accepted
      PROVE  delivered'[cur'[w].job] > 0
  <2>1. cur'[w] \in Mine(w)
    BY <1>3, ClaimsHaveJobs DEF Quiet, WorkersQuiet
  <2> QED BY <1>0, <1>3, <2>1 DEF AcceptedWasDelivered
<1>4. \A w \in Workers : \A s \in Mine(w)' : s.accepted => delivered'[s.job] > 0
  BY <1>2, <1>3 DEF Mine
<1>5. ASSUME NEW w \in Workers, pc'[w] \in {"markAccepted", "reportSent"}
      PROVE  delivered'[cur'[w].job] > 0
  <2>1. Handling(w)' /\ pc'[w] \notin QueuePC
    BY <1>5 DEF Handling, QueuePC
  <2>2. CASE cur'[w] = cur[w] /\ pc[w] \in {"markAccepted", "reportSent"}
    BY <1>0, <2>2 DEF AcceptedWasDelivered
  <2>3. CASE cur'[w].accepted
    BY <1>3, <2>1, <2>3
  <2> QED BY <1>5, <2>1, <2>2, <2>3 DEF Quiet, WorkersQuiet
<1> QED BY <1>1, <1>4, <1>5

\* The same for a step that marks its row, with an acceptance it knows of.
LEMMA MarkKeepsAccepted ==
  ASSUME TypeOK, TypeOK', QueueInv, AcceptedWasDelivered,
         NEW w \in Workers, Handling(w), NEW s \in Claimed,
         s.job = cur[w].job, s.token = cur[w].token, Marks(w, s),
         UNCHANGED <<batch, delivered>>,
         \A v \in Workers \ {w} : pc'[v] = pc[v] /\ cur'[v] = cur[v],
         cur'[w] \in {s, cur[w]},
         s.accepted => delivered[s.job] > 0,
         pc'[w] \in {"markAccepted", "reportSent"} => delivered[cur'[w].job] > 0
  PROVE  /\ \A j \in Jobs : row'[j].accepted => delivered'[j] > 0
         /\ \A v \in Workers : \A t \in Mine(v)' : t.accepted => delivered'[t.job] > 0
         /\ \A v \in Workers : pc'[v] \in {"markAccepted", "reportSent"} => delivered'[cur'[v].job] > 0
<1>1. /\ s.job \in Jobs /\ row'[s.job].accepted = s.accepted
      /\ \A j \in Jobs \ {s.job} : row'[j] = row[j]
  BY MarkIsOwn
<1>2. \A j \in Jobs : row'[j].accepted => delivered'[j] > 0
  BY <1>1 DEF AcceptedWasDelivered
<1>3. \A v \in Workers : Handling(v)' => v = w \/ Handling(v)
  BY DEF Handling
<1>4. \A v \in Workers : \A t \in Mine(v)' : t \in Mine(v) \/ t = s
  BY <1>3 DEF Mine
<1>5. \A v \in Workers : \A t \in Mine(v)' : t.accepted => delivered'[t.job] > 0
  BY <1>4 DEF AcceptedWasDelivered
<1>6. \A v \in Workers : pc'[v] \in {"markAccepted", "reportSent"} => delivered'[cur'[v].job] > 0
  BY DEF AcceptedWasDelivered
<1> QED BY <1>2, <1>5, <1>6

\* So do the three steps that mark.
LEMMA MarkingKeepsAccepted ==
  ASSUME TypeOK, TypeOK', QueueInv, AcceptedWasDelivered, NEW w \in Workers,
         MarkStart(w) \/ ClearStart(w) \/ MarkAccepted(w)
  PROVE  /\ \A j \in Jobs : row'[j].accepted => delivered'[j] > 0
         /\ \A v \in Workers : \A t \in Mine(v)' : t.accepted => delivered'[t.job] > 0
         /\ \A v \in Workers : pc'[v] \in {"markAccepted", "reportSent"} => delivered'[cur'[v].job] > 0
<1> DEFINE Goal == /\ \A j \in Jobs : row'[j].accepted => delivered'[j] > 0
                   /\ \A v \in Workers : \A t \in Mine(v)' : t.accepted => delivered'[t.job] > 0
                   /\ \A v \in Workers : pc'[v] \in {"markAccepted", "reportSent"}
                        => delivered'[cur'[v].job] > 0
<1>0. /\ Handling(w) /\ cur[w] \in Claimed /\ UNCHANGED delivered
      /\ cur[w].accepted => delivered[cur[w].job] > 0
  <2>1. Handling(w) /\ UNCHANGED delivered
    BY DEF MarkStart, ClearStart, MarkAccepted, mailVars, Handling
  <2> QED BY <2>1, ClaimsHaveJobs DEF AcceptedWasDelivered
<1>1. ASSUME Quiet PROVE Goal
  BY <1>1, QuietKeepsAccepted
<1>2. CASE MarkStart(w)
  <2> DEFINE s == [cur[w] EXCEPT !.started = TRUE]
  <2>1. /\ s \in Claimed /\ s.job = cur[w].job /\ s.token = cur[w].token
        /\ s.accepted = cur[w].accepted
    BY <1>0 DEF Claimed
  <2>2. \/ UNCHANGED row /\ (NextJob(w) \/ Goto(w, "fail"))
        \/ /\ Marks(w, s) /\ UNCHANGED batch
           /\ \/ cur' = [cur EXCEPT ![w] = s] /\ pc' = [pc EXCEPT ![w] = "send"]
              \/ cur' = cur /\ pc' = [pc EXCEPT ![w] = "fail"]
    BY <1>2 DEF MarkStart, Marks, Goto
  <2> HIDE DEF s
  <2>3. CASE UNCHANGED row /\ (NextJob(w) \/ Goto(w, "fail"))
    BY <1>0, <1>1, <2>3, UnmarkedIsQuiet
  <2>4. CASE /\ Marks(w, s) /\ UNCHANGED batch
             /\ \/ cur' = [cur EXCEPT ![w] = s] /\ pc' = [pc EXCEPT ![w] = "send"]
                \/ cur' = cur /\ pc' = [pc EXCEPT ![w] = "fail"]
    <3>1. /\ \A v \in Workers \ {w} : pc'[v] = pc[v] /\ cur'[v] = cur[v]
          /\ cur'[w] \in {s, cur[w]} /\ pc'[w] \notin {"markAccepted", "reportSent"}
      BY <2>4 DEF TypeOK, QueueTypeOK
    <3> QED BY <1>0, <2>1, <2>4, <3>1, MarkKeepsAccepted
  <2> QED BY <2>2, <2>3, <2>4
<1>3. CASE ClearStart(w)
  <2> DEFINE s == [cur[w] EXCEPT !.started = FALSE]
  <2>1. /\ s \in Claimed /\ s.job = cur[w].job /\ s.token = cur[w].token
        /\ s.accepted = cur[w].accepted
    BY <1>0 DEF Claimed
  <2>2. Goto(w, "fail") /\ (UNCHANGED row \/ Marks(w, s))
    BY <1>3 DEF ClearStart, Marks
  <2> HIDE DEF s
  <2>3. CASE UNCHANGED row
    BY <1>0, <1>1, <2>2, <2>3, UnmarkedIsQuiet
  <2>4. CASE Marks(w, s)
    <3>1. /\ \A v \in Workers \ {w} : pc'[v] = pc[v] /\ cur'[v] = cur[v]
          /\ cur'[w] = cur[w] /\ UNCHANGED batch
          /\ pc'[w] \notin {"markAccepted", "reportSent"}
      BY <2>2 DEF Goto, TypeOK, QueueTypeOK
    <3> QED BY <1>0, <2>1, <2>4, <3>1, MarkKeepsAccepted
  <2> QED BY <2>2, <2>3, <2>4
<1>4. CASE MarkAccepted(w)
  <2> DEFINE s == [cur[w] EXCEPT !.accepted = TRUE]
  <2>1. s \in Claimed /\ s.job = cur[w].job /\ s.token = cur[w].token
    BY <1>0 DEF Claimed
  <2>2. pc[w] = "markAccepted" /\ Goto(w, "reportSent") /\ (UNCHANGED row \/ Marks(w, s))
    BY <1>4 DEF MarkAccepted, Marks
  <2>3. delivered[cur[w].job] > 0
    BY <2>2 DEF AcceptedWasDelivered
  <2> HIDE DEF s
  <2>4. CASE UNCHANGED row
    BY <1>0, <1>1, <2>2, <2>4, UnmarkedIsQuiet
  <2>5. CASE Marks(w, s)
    <3>1. /\ \A v \in Workers \ {w} : pc'[v] = pc[v] /\ cur'[v] = cur[v]
          /\ cur'[w] = cur[w] /\ UNCHANGED batch
      BY <2>2 DEF Goto, TypeOK, QueueTypeOK
    <3> QED BY <1>0, <2>1, <2>3, <2>5, <3>1, MarkKeepsAccepted
  <2> QED BY <2>2, <2>4, <2>5
<1> QED BY <1>2, <1>3, <1>4

\* A fault is never taken back.
LEMMA FaultsGrow ==
  ASSUME TypeOK, [Next]_vars
  PROVE  faults' \in Nat /\ faults' >= faults
<1>1. faults \in Nat /\ (Fault => faults' = faults + 1) /\ (NoFault => faults' = faults)
  BY DEF TypeOK, QueueTypeOK, Fault, NoFault
<1>2. ASSUME NEW w \in Workers, SendStep(w) PROVE Fault \/ NoFault
  <2>1. ASSUME MarkStart(w) \/ ClearStart(w) \/ MarkAccepted(w) PROVE Fault \/ NoFault
    BY <2>1, Zenon DEF MarkStart, ClearStart, MarkAccepted
  <2>2. ASSUME ReportSent(w) \/ ReportFailed(w) PROVE Fault \/ NoFault
    BY <2>2 DEF ReportSent, ReportFailed, ReportLost
  <2>3. ASSUME Begin(w) \/ Prepare(w) PROVE Fault \/ NoFault
    BY <2>3 DEF Begin, Take, Prepare, NoFault
  <2> QED BY <1>2, <2>1, <2>2, <2>3, OutcomesOfSend DEF SendStep
<1>3. ASSUME NEW w \in Workers, QueueStep(w) \/ CrashMail(w) \/ ClaimJobs(w) PROVE Fault \/ NoFault
  BY <1>3 DEF QueueStep, Complete, Release, Fail, UpdateFails, CrashMail, Crash, ClaimJobs, Claim,
     NoFault
<1>4. ASSUME NEW j \in Jobs, EnqueueReply(j) \/ RetryReply(j) \/ TimePasses(j) PROVE Fault \/ NoFault
  BY <1>4 DEF EnqueueReply, Enqueue, RetryReply, AdminRetry, TimePasses, LeaseExpires, BackoffElapses,
     NoFault
<1>5. ASSUME UNCHANGED vars \/ \E r \in late : LateReport(r) PROVE NoFault
  BY <1>5 DEF vars, LateReport, queueVars, NoFault
<1> QED BY <1>1, <1>2, <1>3, <1>4, <1>5 DEF Next

\* Every step keeps DenialsArePaid.
LEMMA StepKeepsDenials ==
  ASSUME TypeOK, DenialsArePaid, [Next]_vars
  PROVE  DenialsArePaid'
<1>1. faults \in Nat /\ faults' \in Nat /\ faults' >= faults
  BY FaultsGrow DEF TypeOK, QueueTypeOK
<1>2. ASSUME NEW w \in Workers, Deny(w) PROVE DenialsArePaid'
  <2>1. faults' = faults + 1 /\ cur[w].job \in Gmail
        /\ denied' = [denied EXCEPT ![cur[w].job] = @ + 1]
    BY <1>2 DEF Deny, Fault
  <2> QED BY <1>1, <2>1 DEF DenialsArePaid, TypeOK
<1>3. CASE UNCHANGED denied
  BY <1>1, <1>3 DEF DenialsArePaid, TypeOK
<1>4. UNCHANGED denied \/ \E w \in Workers : Deny(w)
  BY DEF Next, vars, mailVars, ClaimJobs, SendStep, QueueStep, CrashMail, EnqueueReply,
         RetryReply, TimePasses, LateReport, Begin, Prepare, MarkStart, Send, ClearStart,
         MarkAccepted, ReportSent, ReportFailed
<1> QED BY <1>2, <1>3, <1>4

\* Every step keeps AcceptedWasDelivered.
LEMMA StepKeepsAccepted ==
  ASSUME TypeOK, QueueInv, MarkedBeforeSent, AcceptedWasDelivered, [Next]_vars
  PROVE  AcceptedWasDelivered'
<1> DEFINE Accepted ==
      /\ \A j \in Jobs : row'[j].accepted => delivered'[j] > 0
      /\ \A w \in Workers : \A s \in Mine(w)' : s.accepted => delivered'[s.job] > 0
      /\ \A w \in Workers : pc'[w] \in {"markAccepted", "reportSent"} => delivered'[cur'[w].job] > 0
<1>0. TypeOK' /\ \A j \in Jobs : delivered[j] > 0 => delivered'[j] > 0
  BY StepKeepsTypes, DeliveredGrows
<1>1. ASSUME NEW w \in Workers, Send(w) PROVE Accepted
  <2>1. /\ cur[w].job \in Jobs /\ Sending(w)
        /\ UNCHANGED <<row, batch, cur>>
        /\ \A v \in Workers \ {w} : pc'[v] = pc[v]
        /\ \/ delivered' = [delivered EXCEPT ![cur[w].job] = 1]
           \/ delivered' = delivered /\ pc'[w] \in {"clearStart", "failForGood"}
    BY <1>1, SendDelivers
  <2>2. \A v \in Workers : \A s \in Mine(v)' : s \in Mine(v) /\ s.job \in Jobs
    <3>1. \A v \in Workers : Handling(v)' => Handling(v)
      BY <2>1 DEF Handling, Sending
    <3>2. \A v \in Workers : Mine(v)' \subseteq Mine(v)
      BY <2>1, <3>1 DEF Mine
    <3> QED BY <3>2, ClaimsHaveJobs
  <2>3. \A v \in Workers : pc'[v] \in {"markAccepted", "reportSent"} =>
          cur[v].job \in Jobs /\ (v = w \/ pc[v] \in {"markAccepted", "reportSent"})
    BY <1>0, <2>1 DEF TypeOK, QueueTypeOK, Handling, Claimed
  <2>4. \A v \in Workers : pc'[v] \in {"markAccepted", "reportSent"} => delivered'[cur'[v].job] > 0
    <3> SUFFICES ASSUME NEW v \in Workers, pc'[v] \in {"markAccepted", "reportSent"}
                 PROVE  delivered'[cur'[v].job] > 0
      OBVIOUS
    <3>1. CASE v = w
      BY <2>1, <3>1 DEF TypeOK
    <3>2. CASE v # w
      BY <1>0, <2>1, <2>3, <3>2 DEF AcceptedWasDelivered
    <3> QED BY <3>1, <3>2
  <2> QED BY <1>0, <2>1, <2>2, <2>4 DEF AcceptedWasDelivered
<1>2. Accepted
  BY <1>0, <1>1, StepIsQuiet, QuietKeepsAccepted, MarkingKeepsAccepted DEF MarkingOrSending
<1>3. MailQuiet
  BY StepIsMailQuiet
<1>4. \A j \in Jobs : mail'[j] = "sent" => delivered'[j] > 0
  BY <1>0, <1>3 DEF MailQuiet, Recorded, AcceptedWasDelivered, TypeOK
<1>5. \A r \in late' : r.outcome = "sent" => delivered'[r.job] > 0
  BY <1>0, <1>3 DEF MailQuiet, AcceptedWasDelivered, TypeOK, Report
<1> QED BY <1>2, <1>4, <1>5 DEF AcceptedWasDelivered

-----------------------------------------------------------------------------
(* What a step does to the status of a row *)

\* A row runs, is settled by a run that holds it, or is revived by hand.
StatusMoves(j) ==
  \/ row'[j].status = row[j].status
  \/ /\ row[j].status \in {"absent", "pending", "running"}
     /\ row'[j].status \in {"pending", "running", "failed"}
  \/ /\ row[j].status = "running" /\ row'[j].status = "succeeded"
     /\ \E w \in Workers : pc[w] = "complete" /\ cur[w].job = j
  \/ row[j].status = "failed" /\ row'[j].status = "pending" /\ row'[j].attempt = 0

\* A fenced update moves the status of a row that runs.
LEMMA SettledByHolder ==
  ASSUME TypeOK, QueueInv, NEW w \in Workers, Handling(w), NEW q,
         FencedUpdate(cur[w], q) \/ UpdateFails(cur[w], q),
         \/ q.status \in {"pending", "failed"}
         \/ q.status = "succeeded" /\ pc[w] = "complete"
  PROVE  \A j \in Jobs : StatusMoves(j)
<1>1. cur[w] \in Mine(w) /\ cur[w].job \in Jobs /\ row \in [Jobs -> Row]
  BY ClaimsHaveJobs DEF TypeOK, QueueTypeOK
<1>2. Holds(cur[w]) => row[cur[w].job].status = "running"
  <2>1. cur[w].token \in 1..lastToken /\ lastToken \in Nat
    BY <1>1 DEF QueueInv, ClaimsAreDistinct, TypeOK, QueueTypeOK
  <2> QED BY <1>1, <2>1 DEF Holds, QueueInv, RowsAreClaimed
<1>3. row' = row \/ (Holds(cur[w]) /\ row' = [row EXCEPT ![cur[w].job] = q])
  BY DEF FencedUpdate, UpdateFails
<1> QED BY <1>1, <1>2, <1>3 DEF StatusMoves

\* Every step moves every status as StatusMoves says.
LEMMA StepMovesStatus ==
  ASSUME TypeOK, QueueInv, [Next]_vars
  PROVE  \A j \in Jobs : StatusMoves(j)
<1> USE DEF StatusMoves
<1>0. row \in [Jobs -> Row] /\ QueueTypeOK(MailPC)
  BY DEF TypeOK, QueueTypeOK
<1>1. ASSUME UNCHANGED row PROVE \A j \in Jobs : StatusMoves(j)
  BY <1>1
<1>2. ASSUME NEW w \in Workers, ClaimJobs(w) PROVE \A j \in Jobs : StatusMoves(j)
  <2>1. PICK S \in SUBSET Jobs : Claim(w, S)
    BY <1>2 DEF ClaimJobs
  <2>2. \A j \in S : row[j].status \in {"pending", "running"}
    BY <2>1 DEF Claim, Claimable
  <2>3. /\ \A j \in S : row'[j] = [row[j] EXCEPT !.status = "running", !.attempt = @ + 1,
                                       !.token = lastToken + 1, !.leased = TRUE]
        /\ \A j \in Jobs \ S : row'[j] = row[j]
    BY <2>1 DEF Claim
  <2>4. \A j \in S : row'[j].status = "running"
    <3> TAKE j \in S
    <3> DEFINE r == row[j]
               n == r.attempt + 1
               t == lastToken + 1
    <3>1. r \in Row /\ row'[j] = [r EXCEPT !.status = "running", !.attempt = n,
                                          !.token = t, !.leased = TRUE]
      BY <1>0, <2>3
    <3> HIDE DEF r, n, t
    <3> QED BY <3>1 DEF Row
  <2> QED BY <2>2, <2>3, <2>4
<1>3. ASSUME NEW w \in Workers, QueueStep(w) PROVE \A j \in Jobs : StatusMoves(j)
  <2>1. Handling(w) /\ cur[w] \in Claimed /\ Exhausted(w) \in BOOLEAN
    BY <1>0, <1>3 DEF QueueStep, Complete, Release, Fail, Handling, QueueTypeOK, Exhausted
  <2>2. /\ CompletedRow(cur[w]).status = "succeeded"
        /\ ReleasedRow(cur[w]).status = "pending"
        /\ FailedRow(cur[w], Exhausted(w)).status \in {"pending", "failed"}
    <3>1. row[cur[w].job] \in Row
      BY <1>0, <2>1 DEF Claimed
    <3>2. CompletedRow(cur[w]).status = "succeeded"
      BY <3>1, FreedFields DEF CompletedRow, Status
    <3> QED BY <1>0, <2>1, <3>2, UpdatesSettle
  <2>3. CASE Complete(w)
    <3>1. pc[w] = "complete" /\ (FencedUpdate(cur[w], CompletedRow(cur[w]))
                                 \/ UpdateFails(cur[w], CompletedRow(cur[w])))
      BY <2>3 DEF Complete
    <3> QED BY <2>1, <2>2, <3>1, SettledByHolder
  <2>4. CASE Release(w)
    <3>1. FencedUpdate(cur[w], ReleasedRow(cur[w])) \/ UpdateFails(cur[w], ReleasedRow(cur[w]))
      BY <2>4 DEF Release
    <3> QED BY <2>1, <2>2, <3>1, SettledByHolder
  <2>5. CASE Fail(w)
    <3>1. \/ FencedUpdate(cur[w], FailedRow(cur[w], Exhausted(w)))
          \/ UpdateFails(cur[w], FailedRow(cur[w], Exhausted(w)))
      BY <2>5 DEF Fail
    <3> QED BY <2>1, <2>2, <3>1, SettledByHolder
  <2> QED BY <1>3, <2>3, <2>4, <2>5 DEF QueueStep
<1>4. ASSUME NEW w \in Workers, NEW s \in Claimed, s.job \in Jobs, Marks(w, s)
      PROVE  \A j \in Jobs : StatusMoves(j)
  BY <1>0, <1>4, MarkedFields DEF Marks
<1>5. ASSUME NEW w \in Workers, MarkStart(w) \/ ClearStart(w) \/ MarkAccepted(w)
      PROVE  \A j \in Jobs : StatusMoves(j)
  <2>1. cur[w] \in Claimed
    BY <1>0, <1>5 DEF MarkStart, ClearStart, MarkAccepted, QueueTypeOK, Handling
  <2>2. /\ [cur[w] EXCEPT !.started = TRUE] \in Claimed
        /\ [cur[w] EXCEPT !.started = FALSE] \in Claimed
        /\ [cur[w] EXCEPT !.accepted = TRUE] \in Claimed
    BY <2>1 DEF Claimed
  <2>3. \A s \in Claimed : s.job \in Jobs
    BY DEF Claimed
  <2>4. \/ UNCHANGED row
        \/ Marks(w, [cur[w] EXCEPT !.started = TRUE])
        \/ Marks(w, [cur[w] EXCEPT !.started = FALSE])
        \/ Marks(w, [cur[w] EXCEPT !.accepted = TRUE])
    BY <1>5 DEF MarkStart, ClearStart, MarkAccepted, Marks
  <2> QED BY <1>1, <1>4, <2>2, <2>3, <2>4
<1>6. ASSUME NEW j \in Jobs, EnqueueReply(j) \/ RetryReply(j) \/ TimePasses(j)
      PROVE  \A i \in Jobs : StatusMoves(i)
  <2>1. /\ \A i \in Jobs \ {j} : row'[i] = row[i]
        /\ \/ row[j].status = "absent" /\ row'[j].status = "pending"
           \/ row[j].status = "failed" /\ row'[j].status = "pending" /\ row'[j].attempt = 0
           \/ row'[j].status = row[j].status
    <3>1. CASE EnqueueReply(j)
      BY <1>0, <3>1 DEF EnqueueReply, Enqueue, Row
    <3>2. CASE RetryReply(j)
      <4> DEFINE f == Freed(row[j], "pending")
      <4>1. f \in Row /\ f.status = "pending"
        BY <1>0, FreedIsRow, FreedFields DEF Status
      <4>2. row' = [row EXCEPT ![j] = [f EXCEPT !.attempt = 0, !.due = TRUE]] /\ row[j].status = "failed"
        BY <1>0, <3>2 DEF RetryReply, AdminRetry
      <4> HIDE DEF f
      <4> QED BY <1>0, <4>1, <4>2 DEF Row
    <3>3. CASE TimePasses(j)
      BY <1>0, <3>3 DEF TimePasses, LeaseExpires, BackoffElapses, Row
    <3> QED BY <1>6, <3>1, <3>2, <3>3
  <2> QED BY <2>1
<1>7. ASSUME NEW w \in Workers,
             Begin(w) \/ Prepare(w) \/ Send(w) \/ ReportSent(w) \/ ReportFailed(w) \/ CrashMail(w)
      PROVE  UNCHANGED row
  BY <1>7 DEF Begin, Take, Prepare, Send, ReportSent, ReportFailed, CrashMail, Crash
<1>8. ASSUME UNCHANGED vars \/ \E r \in late : LateReport(r) PROVE UNCHANGED row
  BY <1>8 DEF vars, LateReport, queueVars
<1> QED
  BY <1>1, <1>2, <1>3, <1>5, <1>6, <1>7, <1>8 DEF Next, SendStep

-----------------------------------------------------------------------------
(* A job is completed after Core's answer *)

\* `sent' is final on Core's side.
LEMMA SentStays ==
  ASSUME TypeOK, AcceptedWasDelivered, [Next]_vars
  PROVE  \A j \in Jobs : mail[j] = "sent" => mail'[j] = "sent"
<1>1. MailQuiet
  BY StepIsMailQuiet
<1>2. ASSUME NEW r \in Report, mail' = Recorded(r)
      PROVE  \A j \in Jobs : mail[j] = "sent" => mail'[j] = "sent"
  BY <1>2 DEF Recorded, Report, TypeOK
<1> QED BY <1>1, <1>2 DEF MailQuiet

\* Every step keeps CompletedAfterReport.
LEMMA StepKeepsCompleted ==
  ASSUME TypeOK, QueueInv, AcceptedWasDelivered, CompletedAfterReport, [Next]_vars
  PROVE  CompletedAfterReport'
<1>1. /\ TypeOK' /\ \A j \in Jobs : StatusMoves(j)
      /\ \A j \in Jobs : mail[j] = "sent" => mail'[j] = "sent"
  BY StepKeepsTypes, StepMovesStatus, SentStays
<1>2. ASSUME NEW j \in Jobs, row'[j].status = "succeeded" PROVE mail'[j] = "sent"
  BY <1>1, <1>2 DEF StatusMoves, CompletedAfterReport, SucceededIsShownSent
<1>3. ASSUME NEW w \in Workers, pc'[w] = "complete" PROVE mail'[cur'[w].job] = "sent"
  <2>1. cur'[w].job \in Jobs
    BY <1>1, <1>3 DEF TypeOK, QueueTypeOK, Handling, Claimed
  <2>2. CASE pc[w] = "complete" /\ cur'[w] = cur[w]
    BY <1>1, <2>1, <2>2 DEF CompletedAfterReport
  <2>3. CASE ReportSent(w)
    <3>1. Reported(MyReport(w, "sent")) /\ cur'[w] = cur[w]
      BY <1>3, <2>3 DEF ReportSent, Goto, TypeOK, QueueTypeOK
    <3> QED BY <2>1, <3>1 DEF Reported, Recorded, MyReport, TypeOK
  <2>4. (pc[w] = "complete" /\ cur'[w] = cur[w]) \/ ReportSent(w)
    <3>1. ASSUME NEW v \in Workers, SendStep(v) \/ QueueStep(v) \/ CrashMail(v) \/ ClaimJobs(v)
          PROVE  v = w => ReportSent(w)
      <4>1. ASSUME v = w, Complete(w) \/ Release(w) \/ Fail(w) PROVE FALSE
        BY <1>3, <4>1 DEF Complete, Release, Fail, Goto, NextJob, LeaveBatch, TypeOK, QueueTypeOK
      <4>2. ASSUME v = w, MarkStart(w) \/ ClearStart(w) \/ MarkAccepted(w) \/ Send(w) PROVE FALSE
        BY <1>3, <4>2, OutcomesOfSend
           DEF MarkStart, ClearStart, MarkAccepted, Goto, NextJob, TypeOK, QueueTypeOK
      <4>3. ASSUME v = w, Begin(w) \/ Prepare(w) \/ ReportFailed(w) PROVE FALSE
        BY <1>3, <4>3 DEF Begin, Take, Prepare, ReportFailed, Goto, NextJob, TypeOK, QueueTypeOK
      <4>4. ASSUME v = w, CrashMail(w) \/ ClaimJobs(w) PROVE FALSE
        BY <1>3, <4>4 DEF CrashMail, Crash, LeaveBatch, ClaimJobs, Claim, TypeOK, QueueTypeOK
      <4> QED BY <3>1, <4>1, <4>2, <4>3, <4>4 DEF SendStep, QueueStep
    <3>2. ASSUME NEW v \in Workers, SendStep(v) \/ QueueStep(v) \/ CrashMail(v) \/ ClaimJobs(v)
          PROVE  v # w => pc'[w] = pc[w] /\ cur'[w] = cur[w]
      <4>1. ASSUME v # w, Complete(v) \/ Release(v) \/ Fail(v) PROVE pc'[w] = pc[w] /\ cur'[w] = cur[w]
        BY <4>1 DEF Complete, Release, Fail, Goto, NextJob, LeaveBatch, TypeOK, QueueTypeOK
      <4>2. ASSUME v # w, MarkStart(v) \/ ClearStart(v) \/ MarkAccepted(v) \/ Send(v)
            PROVE  pc'[w] = pc[w] /\ cur'[w] = cur[w]
        BY <4>2, OutcomesOfSend
           DEF MarkStart, ClearStart, MarkAccepted, Goto, NextJob, TypeOK, QueueTypeOK
      <4>3. ASSUME v # w, Begin(v) \/ Prepare(v) \/ ReportSent(v) \/ ReportFailed(v)
            PROVE  pc'[w] = pc[w] /\ cur'[w] = cur[w]
        BY <4>3 DEF Begin, Take, Prepare, ReportSent, ReportFailed, Goto, NextJob, TypeOK, QueueTypeOK
      <4>4. ASSUME v # w, CrashMail(v) \/ ClaimJobs(v) PROVE pc'[w] = pc[w] /\ cur'[w] = cur[w]
        BY <4>4 DEF CrashMail, Crash, LeaveBatch, ClaimJobs, Claim, TypeOK, QueueTypeOK
      <4> QED BY <3>2, <4>1, <4>2, <4>3, <4>4 DEF SendStep, QueueStep
    <3>3. ASSUME \/ UNCHANGED vars
                 \/ \E j \in Jobs : EnqueueReply(j) \/ RetryReply(j) \/ TimePasses(j)
                 \/ \E r \in late : LateReport(r)
          PROVE  pc'[w] = pc[w] /\ cur'[w] = cur[w]
      BY <3>3 DEF vars, EnqueueReply, Enqueue, RetryReply, AdminRetry, TimePasses, LeaseExpires,
                  BackoffElapses, LateReport, queueVars
    <3> QED BY <1>3, <3>1, <3>2, <3>3 DEF Next
  <2> QED BY <2>2, <2>3, <2>4
<1> QED BY <1>2, <1>3 DEF CompletedAfterReport, SucceededIsShownSent

-----------------------------------------------------------------------------
(* Runs beyond max_attempts are paid for by faults *)

\* Every step keeps ReplyRunsArePaid.
LEMMA StepKeepsRunsPaid ==
  ASSUME TypeOK, QueueInv, ReplyRunsArePaid, [Next]_vars
  PROVE  ReplyRunsArePaid'
<1> DEFINE P == {"release"}
<1> USE PlacesOfQueue DEF ReplyRunsArePaid
<1>0. /\ QueueTypeOK(MailPC) /\ QueueTypeOK(MailPC)'
      /\ MaxAttempts \in Nat \ {0} /\ PaidPlaces(MaxAttempts, P)
      /\ "idle" \notin P /\ "batch" \notin P
  BY StepKeepsQueue, QueueAssumption DEF TypeOK, PaidPlaces
<1>1. \A w \in Workers : Handling(w) => cur[w] \in Claimed
  BY <1>0 DEF QueueTypeOK
<1>2. ASSUME NEW w \in Workers, PaidMove(w, P), PaidRow(w, MaxAttempts), Fault \/ NoFault
      PROVE  ReplyRunsArePaid'
  BY <1>0, <1>2, WorkerKeepsPaid
<1>3. ASSUME NEW w \in Workers, Handling(w), NEW step, Goto(w, step), step = "release" => Fault,
             step \notin {"idle", "batch", "reportFailed"}, Fault \/ NoFault,
             UNCHANGED row
      PROVE  ReplyRunsArePaid'
  <2>1. PaidMove(w, P)
    BY <1>0, <1>3, GotoIsPaid
  <2> QED BY <1>2, <1>3, <2>1 DEF PaidRow
\* A run that goes on to the next job has lost its claim.
<1>4. ASSUME NEW w \in Workers, Handling(w), NextJob(w), ~Holds(cur[w]), UNCHANGED row,
             Fault \/ NoFault
      PROVE  ReplyRunsArePaid'
  BY <1>2, <1>4 DEF PaidMove, PaidRow, ClaimGone, Holds
<1>5. ASSUME NEW w \in Workers, Handling(w), NEW s \in Claimed, SameClaim(s, cur[w]), Markable(s),
             row' = [row EXCEPT ![s.job] = MarkedRow(s)]
      PROVE  PaidRow(w, MaxAttempts)
  BY <1>0, <1>5, MarkIsPaid DEF Markable
<1>6. ASSUME NEW w \in Workers, ClaimJobs(w)
      PROVE  ReplyRunsArePaid'
  BY <1>0, <1>6, ClaimKeepsPaid DEF ClaimJobs
<1>7. ASSUME NEW w \in Workers, Begin(w)
      PROVE  ReplyRunsArePaid'
  <2>1. PICK s \in batch[w] : \E step \in {"reportSent", "failForGood", "prepare"} : Take(w, s, step)
    BY <1>7 DEF Begin
  <2> QED BY <1>0, <2>1, TakeKeepsPaid
<1>8. ASSUME NEW w \in Workers, Prepare(w) \/ Send(w) \/ ReportSent(w)
      PROVE  ReplyRunsArePaid'
  <2>1. Handling(w) /\ UNCHANGED row
    BY <1>8, OutcomesOfSend DEF Prepare, ReportSent, Handling
  <2>2. \E step \in {"markStart", "fail", "failForGood", "release", "markAccepted", "clearStart", "complete"} :
          Goto(w, step) /\ (step = "release" => Fault) /\ (Fault \/ NoFault)
    BY <1>8, OutcomesOfSend DEF Prepare, ReportSent, ReportLost
  <2> QED BY <1>3, <2>1, <2>2
<1>9. ASSUME NEW w \in Workers, ReportFailed(w)
      PROVE  ReplyRunsArePaid'
  <2>1. Handling(w) /\ UNCHANGED row /\ NextJob(w) /\ (Fault \/ NoFault)
    BY <1>9 DEF ReportFailed, Handling, ReportLost
  <2>2. ~Holds(cur[w])
    BY <1>9 DEF ReportFailed, RunsArePaid
  <2> QED BY <1>4, <2>1, <2>2
<1>10. ASSUME NEW w \in Workers, MarkStart(w)
       PROVE  ReplyRunsArePaid'
  <2> DEFINE s == [cur[w] EXCEPT !.started = TRUE]
  <2>0. Handling(w) /\ cur[w] \in Claimed /\ pc[w] = "markStart"
    BY <1>1, <1>10 DEF MarkStart, Handling
  <2>1. s \in Claimed /\ SameClaim(s, cur[w])
    BY <2>0 DEF Claimed, SameClaim
  <2>2. CASE /\ Markable(s) /\ row' = [row EXCEPT ![s.job] = MarkedRow(s)]
             /\ cur' = [cur EXCEPT ![w] = s] /\ pc' = [pc EXCEPT ![w] = "send"]
             /\ NoFault /\ UNCHANGED batch
    <3> HIDE DEF s
    <3>1. PaidMove(w, P)
      <4>1. "send" \notin {"idle", "batch", "reportFailed"} \cup P
        OBVIOUS
      <4> QED BY <1>0, <2>0, <2>1, <2>2, <4>1, ForthIsPaid
    <3>2. PaidRow(w, MaxAttempts)
      BY <1>5, <2>0, <2>1, <2>2
    <3> QED BY <1>2, <2>2, <3>1, <3>2
  <2>3. CASE ~Markable(s) /\ NextJob(w) /\ NoFault /\ UNCHANGED row
    <3>1. ~Holds(s)
      <4>1. s.job \in Jobs /\ s.token > 0
        <5>1. cur[w] \in Mine(w) /\ cur[w].token \in 1..lastToken
          BY <2>0 DEF Mine, QueueInv, ClaimsAreDistinct
        <5>2. lastToken \in Nat
          BY <1>0 DEF QueueTypeOK
        <5> HIDE DEF s
        <5> QED BY <2>1, <5>1, <5>2 DEF Claimed, SameClaim
      <4> HIDE DEF s
      <4>2. row[s.job].token > 0 => row[s.job].status = "running"
        BY <4>1 DEF QueueInv, RowsAreClaimed
      <4> QED BY <2>3, <4>1, <4>2 DEF Markable, Holds
    <3>2. ~Holds(cur[w])
      BY <2>1, <3>1 DEF Holds, SameClaim
    <3> QED BY <1>4, <2>0, <2>3, <3>2
  <2>4. CASE /\ Fault /\ Goto(w, "fail")
             /\ UNCHANGED row \/ (Markable(s) /\ row' = [row EXCEPT ![s.job] = MarkedRow(s)])
    <3> HIDE DEF s
    <3>1. PaidMove(w, P)
      BY <1>0, <2>0, <2>4, GotoIsPaid
    <3>2. PaidRow(w, MaxAttempts)
      BY <1>5, <2>0, <2>1, <2>4 DEF PaidRow
    <3> QED BY <1>2, <2>4, <3>1, <3>2
  <2> QED BY <1>10, <2>2, <2>3, <2>4 DEF MarkStart
<1>11. ASSUME NEW w \in Workers, NEW s \in Claimed, NEW step \in {"fail", "reportSent"},
              Handling(w), SameClaim(s, cur[w]), Goto(w, step), Fault \/ NoFault,
              UNCHANGED row \/ (Markable(s) /\ row' = [row EXCEPT ![s.job] = MarkedRow(s)])
       PROVE  ReplyRunsArePaid'
  <2>1. PaidMove(w, P)
    BY <1>0, <1>11, GotoIsPaid
  <2>2. PaidRow(w, MaxAttempts)
    BY <1>5, <1>11 DEF PaidRow
  <2> QED BY <1>2, <1>11, <2>1, <2>2
<1>12. ASSUME NEW w \in Workers, ClearStart(w)
       PROVE  ReplyRunsArePaid'
  <2> DEFINE s == [cur[w] EXCEPT !.started = FALSE]
  <2>0. Handling(w) /\ cur[w] \in Claimed
    BY <1>1, <1>12 DEF ClearStart, Handling
  <2>1. s \in Claimed /\ SameClaim(s, cur[w])
    BY <2>0 DEF Claimed, SameClaim
  <2>2. /\ Goto(w, "fail") /\ (Fault \/ NoFault)
        /\ UNCHANGED row \/ (Markable(s) /\ row' = [row EXCEPT ![s.job] = MarkedRow(s)])
    BY <1>12 DEF ClearStart
  <2> HIDE DEF s
  <2> QED BY <1>11, <2>0, <2>1, <2>2
<1>13. ASSUME NEW w \in Workers, MarkAccepted(w)
       PROVE  ReplyRunsArePaid'
  <2> DEFINE s == [cur[w] EXCEPT !.accepted = TRUE]
  <2>0. Handling(w) /\ cur[w] \in Claimed
    BY <1>1, <1>13 DEF MarkAccepted, Handling
  <2>1. s \in Claimed /\ SameClaim(s, cur[w])
    BY <2>0 DEF Claimed, SameClaim
  <2>2. /\ Goto(w, "reportSent") /\ (Fault \/ NoFault)
        /\ UNCHANGED row \/ (Markable(s) /\ row' = [row EXCEPT ![s.job] = MarkedRow(s)])
    BY <1>13 DEF MarkAccepted
  <2> HIDE DEF s
  <2> QED BY <1>11, <2>0, <2>1, <2>2
<1>14. ASSUME NEW w \in Workers, QueueStep(w)
       PROVE  ReplyRunsArePaid'
  BY <1>0, <1>14, QueueStepKeepsPaid DEF QueueStep
<1>15. ASSUME NEW w \in Workers, CrashMail(w)
       PROVE  ReplyRunsArePaid'
  BY <1>0, <1>15, CrashKeepsPaid DEF CrashMail
<1>16. ASSUME NEW j \in Jobs, EnqueueReply(j) \/ RetryReply(j) \/ TimePasses(j)
       PROVE  ReplyRunsArePaid'
  BY <1>0, <1>16, RowOnlyKeepsPaid DEF EnqueueReply, RetryReply, TimePasses
<1>17. ASSUME UNCHANGED queueVars
       PROVE  ReplyRunsArePaid'
  BY <1>17 DEF queueVars, RunsArePaid, Reclaimable, Held, Holds, Mine, Handling
<1>18. UNCHANGED vars \/ (\E r \in late : LateReport(r)) => UNCHANGED queueVars
  BY DEF vars, queueVars, LateReport
<1> QED
  BY <1>6, <1>7, <1>8, <1>9, <1>10, <1>12, <1>13, <1>14, <1>15, <1>16, <1>17, <1>18
  DEF Next, SendStep

-----------------------------------------------------------------------------
(* The theorems *)

\* Inv is an invariant: of claims, of the two marks in a job's payload and of
\* what Core has recorded, whatever runs overlap, crash or repeat.
THEOREM InvHolds == Spec => []Inv
<1>1. Init => Inv
  <2> SUFFICES ASSUME Init PROVE Inv
    OBVIOUS
  <2>1. QueueTypeOK(MailPC) /\ QueueInv
    BY PlacesOfQueue, QueueStarts DEF Init
  <2>2. /\ \A j \in Jobs : ~row[j].started /\ ~row[j].accepted /\ row[j].status = "absent"
        /\ \A w \in Workers : pc[w] = "idle" /\ batch[w] = {} /\ ~Handling(w)
        /\ delivered = [j \in Jobs |-> 0] /\ denied = [j \in Jobs |-> 0]
        /\ mail = [j \in Jobs |-> "queued"] /\ late = {}
    BY DEF Init, QueueInit, NewRow, Handling
  <2>3. TypeOK
    BY <2>1, <2>2 DEF TypeOK
  <2>4. MarkedBeforeSent /\ DenialsArePaid
    BY <2>2 DEF MarkedBeforeSent, Sending, DenialsArePaid, Init, QueueInit
  <2>5. AcceptedWasDelivered /\ CompletedAfterReport
    BY <2>2 DEF AcceptedWasDelivered, CompletedAfterReport, SucceededIsShownSent, Mine
  <2>6. ReplyRunsArePaid
    BY QueueAssumption, PaidStarts DEF Init, ReplyRunsArePaid
  <2> QED BY <2>1, <2>3, <2>4, <2>5, <2>6 DEF Inv
<1>2. Inv /\ [Next]_vars => Inv'
  BY StepKeepsTypes, StepKeepsQueue, StepKeepsMarks, StepKeepsDenials, StepKeepsAccepted,
     StepKeepsCompleted, StepKeepsRunsPaid DEF Inv
<1> QED BY <1>1, <1>2, PTL DEF Spec

\* sendMailAtMostOnce keeps its name: no reply reaches the provider twice, but for
\* the copies Gmail takes and seems to refuse, each at the price of a fault.
THEOREM MailAtMostOnce == Spec => []AtMostOnce
<1>1. Inv => AtMostOnce
  BY DEF Inv, MarkedBeforeSent, DenialsArePaid, AtMostOnce
<1> QED BY <1>1, InvHolds, PTL

\* completeChannelJob is reached only over Core's answer to the report: a job
\* that succeeded is a reply Core shows as sent.
THEOREM SucceededShownSent == Spec => []SucceededIsShownSent
<1>1. Inv => SucceededIsShownSent
  BY DEF Inv, CompletedAfterReport
<1> QED BY <1>1, InvHolds, PTL

\* The claim fence of jobs.ts: a run without its claim unsettles nothing.
THEOREM SettledStay == Spec => SettledRowsStay
<1>1. Inv /\ [Next]_vars =>
        [\A j \in Jobs :
           /\ row[j].status = "succeeded" => row'[j].status = "succeeded"
           /\ row[j].status = "failed" =>
                \/ row'[j].status = "failed"
                \/ row'[j].status = "pending" /\ row'[j].attempt = 0]_vars
  BY StepMovesStatus DEF Inv, StatusMoves
<1> QED BY <1>1, InvHolds, PTL DEF Spec, SettledRowsStay

\* claim_channel_jobs does not look at max_attempts; yet every run of a reply
\* beyond them has been bought by a fault of its own.
THEOREM RunsBounded == Spec => []RunsAreBounded
<1>1. Inv => RunsAreBounded
  BY DEF Inv, ReplyRunsArePaid, RunsArePaid, RunsAreBounded
<1> QED BY <1>1, InvHolds, PTL

\* Queue, leases, workers, crashes and late answers together implement
\* MailDelivery: no delivery after one that is known or in doubt, and `sent' only
\* for a mail that was delivered and known to be.
THEOREM MailboxSendImplements == Spec => ImplementsMailDelivery
<1>1. Init => MD!Init
  BY DEF Init, MD!Init
<1>2. Inv /\ [Next]_vars => [MD!Next]_MD!vars
  <2> SUFFICES ASSUME Inv, [Next]_vars PROVE MD!Next \/ UNCHANGED MD!vars
    OBVIOUS
  <2>0. TypeOK /\ QueueInv /\ MarkedBeforeSent /\ AcceptedWasDelivered
    BY DEF Inv
  <2>1. ASSUME NEW w \in Workers, Send(w) PROVE MD!Next \/ UNCHANGED MD!vars
    <3>1. UNCHANGED mail /\ cur[w].job \in Jobs /\ delivered[cur[w].job] = 0
      BY <2>0, <2>1, OutcomesOfSend, SendDelivers DEF MarkedBeforeSent
    <3>2. CASE DeliverMail(cur[w].job) /\ UNCHANGED denied
      <4>1. delivered' = [delivered EXCEPT ![cur[w].job] = 1]
        BY <2>0, <3>1, <3>2 DEF DeliverMail, TypeOK
      <4> QED BY <3>1, <3>2, <4>1 DEF MD!Next, MD!Deliver
    <3>3. CASE UNCHANGED <<delivered, denied>>
      BY <3>1, <3>3 DEF MD!vars
    <3>4. CASE UNCHANGED delivered /\ Deny(w)
      BY <3>1, <3>4 DEF Deny, MD!Next, MD!DeliverDenied
    <3> QED BY <2>1, <3>2, <3>3, <3>4, OutcomesOfSend
  <2>2. ASSUME UNCHANGED <<delivered, denied>> PROVE MD!Next \/ UNCHANGED MD!vars
    <3>1. MailQuiet
      BY <2>0, StepIsMailQuiet
    <3>2. ASSUME NEW r \in Report, mail' = Recorded(r), r.outcome = "sent" => delivered[r.job] > 0
          PROVE  MD!Next \/ UNCHANGED MD!vars
      <4>1. r.job \in Jobs /\ r.outcome \in {"sent", "failed"}
        BY DEF Report
      <4>2. delivered[r.job] > 0 => delivered[r.job] = 1
        BY <2>0, <4>1 DEF MarkedBeforeSent, TypeOK
      <4>3. CASE r.outcome = "sent"
        BY <2>2, <3>2, <4>1, <4>2, <4>3 DEF Recorded, MD!Next, MD!ShowSent
      <4>4. CASE r.outcome = "failed"
        BY <2>2, <3>2, <4>1, <4>4 DEF Recorded, MD!Next, MD!ShowFailed, MD!vars
      <4> QED BY <4>1, <4>3, <4>4
    <3> QED BY <2>2, <3>1, <3>2 DEF MailQuiet, MD!vars
  <2>3. UNCHANGED <<delivered, denied>> \/ \E w \in Workers : Send(w)
    BY DEF Next, vars, mailVars, ClaimJobs, SendStep, QueueStep, CrashMail, EnqueueReply,
           RetryReply, TimePasses, LateReport, Begin, Prepare, MarkStart, ClearStart,
           MarkAccepted, ReportSent, ReportFailed
  <2> QED BY <2>1, <2>2, <2>3
<1> QED BY <1>1, <1>2, InvHolds, PTL DEF Spec, ImplementsMailDelivery, MD!Spec

-----------------------------------------------------------------------------
(* MailCompose: how a reply gets its job *)

RequestStep(q) ==
  \/ Ask(q) \/ Find(q) \/ OpenThread(q) \/ Insert(q) \/ Reread(q)
  \/ AddFiles(q) \/ EnqueueJob(q) \/ Undo(q) \/ RequestDies(q)

\* What a request has written and where it is stays as it was.
LeftAlone(r) ==
  /\ at'[r] = at[r]
  /\ r \in rows' <=> r \in rows
  /\ r \in threads' <=> r \in threads
  /\ r \in jobs' <=> r \in jobs
  /\ \A kind \in {"row", "thread"} : <<r, kind>> \in known' <=> <<r, kind>> \in known

\* A request takes back its own writes only, and without a fault all it knows of.
LEMMA UndoTakesBack ==
  ASSUME ComposeTypeOK, NEW q \in Requests, UndoWrites(q)
  PROVE  /\ rows' \in {rows, rows \ {q}} /\ threads' \in {threads, threads \ {q}}
         /\ NoComposeFault \/ ComposeFault
         /\ NoComposeFault =>
              /\ <<q, "row">> \in known \/ <<q, "thread">> \in known => q \notin rows'
              /\ <<q, "thread">> \in known => q \notin threads'
<1>1. ASSUME NEW kinds \in SUBSET Undoable(q), Delete(q, kinds)
      PROVE  rows' \in {rows, rows \ {q}} /\ threads' \in {threads, threads \ {q}}
  BY <1>1 DEF Delete
<1>2. CASE Delete(q, Undoable(q)) /\ NoComposeFault
  BY <1>1, <1>2 DEF Delete, Undoable
<1>3. CASE (\E kinds \in SUBSET Undoable(q) : Delete(q, kinds)) /\ ComposeFault
  BY <1>1, <1>3 DEF ComposeFault, NoComposeFault, ComposeTypeOK
<1> QED BY <1>2, <1>3 DEF UndoWrites

\* A step of a request leaves the others alone.
LEMMA OthersLeftAlone ==
  ASSUME ComposeTypeOK, NEW q \in Requests, RequestStep(q), NEW r \in Requests \ {q}
  PROVE  LeftAlone(r)
<1> USE DEF ComposeTypeOK, LeftAlone, MoveOn
<1>1. CASE Ask(q)
  BY <1>1 DEF Ask
<1>2. CASE Find(q)
  BY <1>2 DEF Find, AnswerQueued
<1>3. CASE OpenThread(q)
  BY <1>3 DEF OpenThread
<1>4. CASE Insert(q)
  BY <1>4 DEF Insert
<1>5. CASE Reread(q)
  <2>1. CASE AnswerQueued(q) /\ UndoWrites(q)
    BY <1>5, <2>1, UndoTakesBack DEF Reread, AnswerQueued
  <2>2. CASE UNCHANGED <<rows, threads>>
    BY <1>5, <2>2 DEF Reread, AnswerQueued
  <2> QED BY <1>5, <2>1, <2>2 DEF Reread
<1>6. CASE AddFiles(q)
  BY <1>6 DEF AddFiles
<1>7. CASE EnqueueJob(q)
  BY <1>7 DEF EnqueueJob, AnswerQueued
<1>8. CASE Undo(q)
  BY <1>8, UndoTakesBack DEF Undo
<1>9. CASE RequestDies(q)
  BY <1>9 DEF RequestDies
<1> QED BY <1>1, <1>2, <1>3, <1>4, <1>5, <1>6, <1>7, <1>8, <1>9 DEF RequestStep

LEMMA StepKeepsComposeTypeOK ==
  ASSUME ComposeTypeOK, NEW q \in Requests, RequestStep(q)
  PROVE  ComposeTypeOK'
<1> USE DEF ComposeTypeOK, MoveOn, Steps
<1>0. q.reply \in Replies
  BY DEF Requests
<1>f. ComposeFault \/ NoComposeFault => (composeFaults \in 0..MaxComposeFaults)'
  BY ComposeAssumption DEF ComposeFault, NoComposeFault
<1>1. CASE Ask(q)
  BY <1>1 DEF Ask
<1>2. CASE Find(q)
  BY <1>0, <1>2 DEF Find, AnswerQueued
<1>3. CASE OpenThread(q)
  BY <1>f, <1>3 DEF OpenThread
<1>4. CASE Insert(q)
  BY <1>f, <1>4 DEF Insert
<1>5. CASE Reread(q)
  <2>1. CASE AnswerQueued(q) /\ UndoWrites(q)
    BY <1>0, <1>f, <1>5, <2>1, UndoTakesBack DEF Reread, AnswerQueued
  <2>2. CASE MoveOn(q, "undo") /\ NoComposeFault /\ UNCHANGED <<rows, threads, told>>
    BY <1>f, <1>5, <2>2 DEF Reread
  <2> QED BY <1>5, <2>1, <2>2 DEF Reread
<1>6. CASE AddFiles(q)
  BY <1>6 DEF AddFiles
<1>7. CASE EnqueueJob(q)
  BY <1>0, <1>f, <1>7 DEF EnqueueJob, AnswerQueued
<1>8. CASE Undo(q)
  BY <1>f, <1>8, UndoTakesBack DEF Undo
<1>9. CASE RequestDies(q)
  BY <1>f, <1>9 DEF RequestDies
<1> QED BY <1>1, <1>2, <1>3, <1>4, <1>5, <1>6, <1>7, <1>8, <1>9 DEF RequestStep

\* The index lets one row of a reply in.
LEMMA StepKeepsOneRowEach ==
  ASSUME ComposeTypeOK, OneRowEach, NEW q \in Requests, RequestStep(q)
  PROVE  OneRowEach'
<1>1. rows' \subseteq rows \/ (rows' = rows \cup {q} /\ SameReply(q) = {})
  <2>1. CASE Insert(q)
    BY <2>1 DEF Insert
  <2>2. CASE Reread(q) \/ Undo(q)
    BY <2>2, UndoTakesBack DEF Reread, Undo
  <2> QED BY <2>1, <2>2 DEF RequestStep, Ask, Find, OpenThread, AddFiles, EnqueueJob, RequestDies
<1> QED BY <1>1 DEF OneRowEach, SameReply

\* What the request that takes a step has written fits where it then is.
LEMMA ActorKeepsWritesFit ==
  ASSUME ComposeTypeOK, NEW q \in Requests, RequestStep(q), WritesFit(q)
  PROVE  WritesFit(q)'
<1> USE DEF WritesFit, MoveOn
<1>0. at \in [Requests -> Steps]
  BY DEF ComposeTypeOK
<1>1. CASE Ask(q)
  BY <1>0, <1>1 DEF Ask
<1>2. CASE Find(q)
  BY <1>0, <1>2 DEF Find, AnswerQueued
<1>3. CASE OpenThread(q)
  BY <1>0, <1>3 DEF OpenThread
<1>4. CASE Insert(q)
  BY <1>0, <1>4 DEF Insert
<1>5. CASE Reread(q)
  <2>1. CASE AnswerQueued(q) /\ UndoWrites(q)
    BY <1>0, <1>5, <2>1, UndoTakesBack DEF Reread, AnswerQueued
  <2>2. CASE MoveOn(q, "undo") /\ UNCHANGED <<rows, threads>>
    BY <1>0, <1>5, <2>2 DEF Reread
  <2> QED BY <1>5, <2>1, <2>2 DEF Reread
<1>6. CASE AddFiles(q)
  BY <1>0, <1>6 DEF AddFiles
<1>7. CASE EnqueueJob(q)
  BY <1>0, <1>7 DEF EnqueueJob, AnswerQueued
<1>8. CASE Undo(q)
  BY <1>0, <1>8, UndoTakesBack DEF Undo
<1>9. CASE RequestDies(q)
  BY <1>0, <1>9 DEF RequestDies
<1> QED BY <1>1, <1>2, <1>3, <1>4, <1>5, <1>6, <1>7, <1>8, <1>9 DEF RequestStep

\* One element more.
LEMMA OneMore ==
  ASSUME NEW S, IsFiniteSet(S), NEW x
  PROVE  /\ IsFiniteSet(S \cup {x})
         /\ Cardinality(S) \in Nat /\ Cardinality(S \cup {x}) \in Nat
         /\ Cardinality(S \cup {x}) <= Cardinality(S) + 1
<1>1. Cardinality(S) \in Nat
  BY FS_CardinalityType
<1> QED BY <1>1, FS_AddElement

\* A request is spoilt by a fault of its own only.
LEMMA SpoiltOnlyByFault ==
  ASSUME ComposeTypeOK, NEW q \in Requests, RequestStep(q), WritesFit(q), q \in Spoilt'
  PROVE  q \in Spoilt \/ ComposeFault
<1> USE DEF WritesFit, MoveOn, Spoilt, Whole
<1>0. at \in [Requests -> Steps]
  BY DEF ComposeTypeOK
<1>1. CASE Ask(q)
  BY <1>0, <1>1 DEF Ask
<1>2. CASE Find(q)
  BY <1>0, <1>2 DEF Find, AnswerQueued
<1>3. CASE OpenThread(q)
  BY <1>0, <1>3 DEF OpenThread
<1>4. CASE Insert(q)
  BY <1>0, <1>4 DEF Insert
<1>5. CASE Reread(q)
  <2>1. CASE AnswerQueued(q) /\ UndoWrites(q)
    BY <1>0, <1>5, <2>1, UndoTakesBack DEF Reread, AnswerQueued
  <2>2. CASE MoveOn(q, "undo") /\ UNCHANGED <<rows, threads>>
    BY <1>0, <1>5, <2>2 DEF Reread
  <2> QED BY <1>5, <2>1, <2>2 DEF Reread
<1>6. CASE AddFiles(q)
  BY <1>0, <1>6 DEF AddFiles
<1>7. CASE EnqueueJob(q)
  BY <1>0, <1>7 DEF EnqueueJob, AnswerQueued
<1>8. CASE Undo(q)
  BY <1>0, <1>8, UndoTakesBack DEF Undo
<1>9. CASE RequestDies(q)
  BY <1>0, <1>9 DEF RequestDies
<1> QED BY <1>1, <1>2, <1>3, <1>4, <1>5, <1>6, <1>7, <1>8, <1>9 DEF RequestStep

\* A step counts at most one fault.
LEMMA FaultsCount ==
  ASSUME ComposeTypeOK, NEW q \in Requests, RequestStep(q)
  PROVE  NoComposeFault \/ ComposeFault
<1>1. CASE Reread(q) \/ Undo(q)
  BY <1>1, UndoTakesBack DEF Reread, Undo
<1> QED BY <1>1 DEF RequestStep, Ask, Find, OpenThread, Insert, AddFiles, EnqueueJob, RequestDies, NoComposeFault

LEMMA StepKeepsSpoiltByFaults ==
  ASSUME ComposeTypeOK, SpoiltByFaults, NEW q \in Requests, RequestStep(q), WritesFit(q)
  PROVE  SpoiltByFaults'
<1> USE DEF SpoiltByFaults
<1>1. Spoilt' \subseteq Spoilt \cup {q}
  <2>1. \A r \in Requests \ {q} : LeftAlone(r)
    BY OthersLeftAlone
  <2> QED BY <2>1 DEF Spoilt, LeftAlone, Whole
<1>2. /\ IsFiniteSet(Spoilt \cup {q})
      /\ Cardinality(Spoilt) \in Nat /\ Cardinality(Spoilt \cup {q}) \in Nat
      /\ Cardinality(Spoilt \cup {q}) <= Cardinality(Spoilt) + 1
  BY OneMore
<1>3. composeFaults \in Nat
  BY ComposeAssumption DEF ComposeTypeOK
<1>4. CASE ComposeFault
  <2>1. /\ IsFiniteSet(Spoilt') /\ Cardinality(Spoilt') <= Cardinality(Spoilt \cup {q})
    BY <1>1, <1>2, FS_Subset
  <2>2. Cardinality(Spoilt') \in Nat
    BY <2>1, FS_CardinalityType
  <2> QED BY <1>2, <1>3, <1>4, <2>1, <2>2 DEF ComposeFault
<1>5. CASE NoComposeFault
  <2>1. Spoilt' \subseteq Spoilt
    <3>1. ~ComposeFault
      BY <1>3, <1>5 DEF ComposeFault, NoComposeFault
    <3> QED BY <1>1, <3>1, SpoiltOnlyByFault
  <2>2. IsFiniteSet(Spoilt') /\ Cardinality(Spoilt') <= Cardinality(Spoilt)
    BY <2>1, FS_Subset
  <2>3. Cardinality(Spoilt') \in Nat
    BY <2>2, FS_CardinalityType
  <2> QED BY <1>2, <1>3, <1>5, <2>2, <2>3 DEF NoComposeFault
<1> QED BY <1>4, <1>5, FaultsCount

\* The invariant but for what follows from the rest of it.
ComposeCore ==
  ComposeTypeOK /\ OneRowEach /\ (\A q \in Requests : WritesFit(q)) /\ SpoiltByFaults

\* Of the jobs of a reply one has the reply's row; the others are spoilt.
LEMMA ExtraJobsAreSpoilt == ComposeCore => ExtraJobsNeedFaults
<1> SUFFICES ASSUME ComposeCore, NEW p \in Replies
             PROVE  Cardinality({q \in jobs : q.reply = p}) <= 1 + composeFaults
  BY DEF ExtraJobsNeedFaults
<1> USE DEF ComposeCore
<1> DEFINE JobsOf == {q \in jobs : q.reply = p}
<1>1. \A q \in JobsOf : q \in Spoilt \/ q \in rows
  BY DEF WritesFit, Spoilt, Whole, ComposeTypeOK
<1>2. PICK r : JobsOf \subseteq Spoilt \cup {r}
  <2>1. CASE \E r \in JobsOf : r \in rows
    BY <1>1, <2>1 DEF OneRowEach
  <2>2. CASE \A r \in JobsOf : r \notin rows
    BY <1>1, <2>2
  <2> QED BY <2>1, <2>2
<1>3. /\ IsFiniteSet(Spoilt \cup {r})
      /\ Cardinality(Spoilt) \in Nat /\ Cardinality(Spoilt \cup {r}) \in Nat
      /\ Cardinality(Spoilt \cup {r}) <= Cardinality(Spoilt) + 1
  BY OneMore DEF SpoiltByFaults
<1>4. IsFiniteSet(JobsOf) /\ Cardinality(JobsOf) <= Cardinality(Spoilt \cup {r})
  BY <1>2, <1>3, FS_Subset
<1>5. Cardinality(JobsOf) \in Nat
  BY <1>4, FS_CardinalityType
<1>6. composeFaults \in Nat
  BY ComposeAssumption DEF ComposeTypeOK
<1> QED BY <1>3, <1>4, <1>5, <1>6 DEF SpoiltByFaults

LEMMA StepKeepsComposeCore ==
  ASSUME ComposeCore, [ComposeNext]_composeVars
  PROVE  ComposeCore'
<1>1. CASE UNCHANGED composeVars
  BY <1>1 DEF composeVars, ComposeCore, ComposeTypeOK, OneRowEach, WritesFit, SpoiltByFaults, Spoilt, Whole
<1>2. ASSUME NEW q \in Requests, RequestStep(q)
      PROVE  ComposeCore'
  <2>1. ComposeTypeOK' /\ OneRowEach' /\ SpoiltByFaults'
    BY <1>2, StepKeepsComposeTypeOK, StepKeepsOneRowEach, StepKeepsSpoiltByFaults DEF ComposeCore
  <2>2. \A r \in Requests \ {q} : LeftAlone(r)
    BY <1>2, OthersLeftAlone DEF ComposeCore
  <2>3. \A r \in Requests \ {q} : WritesFit(r)'
    BY <2>2 DEF ComposeCore, WritesFit, LeftAlone
  <2>4. \A r \in Requests : WritesFit(r)'
    BY <1>2, <2>3, ActorKeepsWritesFit DEF ComposeCore
  <2> QED BY <2>1, <2>4 DEF ComposeCore
<1> QED BY <1>1, <1>2 DEF ComposeNext, RequestStep

\* The inductive invariant: whatever the number of replies, tries and faults, no
\* reply is queued twice without a fault, and each fault costs one extra job at most.
THEOREM ComposeInvHolds == ComposeSpec => []ComposeInv
<1>1. ComposeInit => ComposeCore
  <2> SUFFICES ASSUME ComposeInit PROVE ComposeCore
    OBVIOUS
  <2>1. ComposeTypeOK /\ OneRowEach /\ \A q \in Requests : WritesFit(q)
    BY ComposeAssumption DEF ComposeInit, ComposeTypeOK, OneRowEach, WritesFit, Steps
  <2>2. Spoilt = {}
    BY DEF ComposeInit, Spoilt
  <2> QED BY <2>1, <2>2, FS_EmptySet DEF ComposeCore, SpoiltByFaults, ComposeInit
<1>2. ComposeCore /\ [ComposeNext]_composeVars => ComposeCore'
  BY StepKeepsComposeCore
<1>3. ComposeCore => ComposeInv
  BY ExtraJobsAreSpoilt DEF ComposeCore, ComposeInv
<1> QED BY <1>1, <1>2, <1>3, PTL DEF ComposeSpec

\* What finished requests leave half written was left by faults, one request a fault.
THEOREM LeftoversAreSpoilt == ComposeSpec => []LeftoversNeedFaults
<1>1. ComposeInv => LeftoversNeedFaults
  <2> SUFFICES ASSUME ComposeInv PROVE LeftoversNeedFaults
    OBVIOUS
  <2> DEFINE Left == {q \in Requests : at[q] \in Done /\ ~Whole(q)}
  <2>1. Left \subseteq Spoilt
    BY DEF Done, Spoilt
  <2>2. IsFiniteSet(Spoilt) /\ Cardinality(Spoilt) <= composeFaults /\ composeFaults \in Nat
    BY ComposeAssumption DEF ComposeInv, SpoiltByFaults, ComposeTypeOK
  <2>3. IsFiniteSet(Left) /\ Cardinality(Left) <= Cardinality(Spoilt)
    BY <2>1, <2>2, FS_Subset
  <2>4. Cardinality(Left) \in Nat /\ Cardinality(Spoilt) \in Nat
    BY <2>2, <2>3, FS_CardinalityType
  <2> QED BY <2>2, <2>3, <2>4 DEF LeftoversNeedFaults
<1> QED BY <1>1, ComposeInvHolds, PTL

\* Who finds a row of the reply answers for it: the request that wrote the row has
\* its job, or is still at work or has failed.
LEMMA RowVouches ==
  ASSUME ComposeInv, NEW q \in Requests, NEW r \in SameReply(q)
  PROVE  /\ r \in Requests /\ r.reply = q.reply
         /\ r \in jobs \/ at[r] \notin {"unsent", "queued"}
  BY DEF ComposeInv, ComposeTypeOK, SameReply, WritesFit

\* A reply the app was told is queued is: its job is there, or a request for it is
\* still at work, or has failed.
THEOREM ToldIsBacked == ComposeSpec => []ToldIsQueuedUnlessOneFails
<1> DEFINE Backed(p) == \/ \E q \in jobs : q.reply = p
                        \/ \E q \in Requests : q.reply = p /\ at[q] \notin {"unsent", "queued"}
<1>1. ComposeInit => ToldIsQueuedUnlessOneFails
  BY DEF ComposeInit, ToldIsQueuedUnlessOneFails
<1>2. ComposeInv /\ ToldIsQueuedUnlessOneFails /\ [ComposeNext]_composeVars => ToldIsQueuedUnlessOneFails'
  <2> SUFFICES ASSUME ComposeInv, ToldIsQueuedUnlessOneFails, [ComposeNext]_composeVars
               PROVE  ToldIsQueuedUnlessOneFails'
    OBVIOUS
  <2>1. CASE UNCHANGED composeVars
    BY <2>1 DEF composeVars, ToldIsQueuedUnlessOneFails
  <2>2. ASSUME NEW q \in Requests, RequestStep(q)
        PROVE  ToldIsQueuedUnlessOneFails'
    <3>0. ComposeTypeOK /\ WritesFit(q)
      BY DEF ComposeInv
    <3>1. \A r \in Requests \ {q} : LeftAlone(r)
      BY <2>2, <3>0, OthersLeftAlone
    <3>2. jobs \subseteq jobs' /\ jobs' \subseteq Requests
      <4>1. ComposeTypeOK'
        BY <2>2, <3>0, StepKeepsComposeTypeOK
      <4> QED BY <2>2, <4>1 DEF ComposeTypeOK, RequestStep, Ask, Find, OpenThread, Insert, Reread,
                               AddFiles, EnqueueJob, Undo, RequestDies
    \* The request that answers has its job, or found the row of another.
    <3>3. ASSUME at'[q] = "queued"
          PROVE  Backed(q.reply)'
      <4>1. CASE EnqueueJob(q)
        <5>1. q \in jobs'
          BY <3>0, <3>3, <4>1 DEF EnqueueJob, MoveOn, ComposeTypeOK
        <5> QED BY <5>1
      <4>2. CASE ~EnqueueJob(q)
        <5>1. q \notin rows /\ SameReply(q) # {}
          BY <2>2, <3>0, <3>3, <4>2 DEF RequestStep, Ask, Find, OpenThread, Insert, Reread, AddFiles,
             Undo, RequestDies, MoveOn, WritesFit, ComposeTypeOK
        <5>2. PICK r \in SameReply(q) : TRUE
          BY <5>1
        <5>3. r \in Requests \ {q} /\ r.reply = q.reply /\ (r \in jobs \/ at[r] \notin {"unsent", "queued"})
          BY <5>1, RowVouches DEF SameReply
        <5> QED BY <3>1, <3>2, <5>3 DEF LeftAlone
      <4> QED BY <4>1, <4>2
    <3>4. told' \subseteq told \cup {q.reply} /\ (q.reply \in told' \ told => at'[q] = "queued")
      BY <2>2, <3>0 DEF RequestStep, Ask, Find, OpenThread, Insert, Reread, AddFiles, EnqueueJob, Undo,
         RequestDies, AnswerQueued, MoveOn, ComposeTypeOK
    <3>5. at[q] \notin {"unsent", "queued"} => at'[q] # "unsent"
      BY <2>2, <3>0 DEF RequestStep, Ask, Find, OpenThread, Insert, Reread, AddFiles, EnqueueJob, Undo,
         RequestDies, AnswerQueued, MoveOn, ComposeTypeOK
    <3> SUFFICES ASSUME NEW p \in told' PROVE Backed(p)'
      BY DEF ToldIsQueuedUnlessOneFails
    <3>6. CASE p = q.reply /\ at'[q] = "queued"
      BY <3>3, <3>6
    <3>7. CASE ~(p = q.reply /\ at'[q] = "queued")
      <4>1. p \in told
        BY <3>4, <3>7
      <4>2. CASE \E r \in jobs : r.reply = p
        BY <3>2, <4>2
      <4>3. CASE \E r \in Requests : r.reply = p /\ at[r] \notin {"unsent", "queued"}
        <5>1. PICK r \in Requests : r.reply = p /\ at[r] \notin {"unsent", "queued"}
          BY <4>3
        <5>2. at'[r] \notin {"unsent", "queued"}
          BY <3>1, <3>5, <3>7, <5>1 DEF LeftAlone
        <5> QED BY <5>1, <5>2
      <4> QED BY <4>1, <4>2, <4>3 DEF ToldIsQueuedUnlessOneFails
    <3> QED BY <3>6, <3>7
  <2> QED BY <2>1, <2>2 DEF ComposeNext, RequestStep
<1> QED BY <1>1, <1>2, ComposeInvHolds, PTL DEF ComposeSpec
=============================================================================

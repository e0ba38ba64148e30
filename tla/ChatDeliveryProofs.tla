------------------------- MODULE ChatDeliveryProofs -------------------------
(***************************************************************************)
(* Proofs about ChatDelivery for any number of messages, workers, claims,  *)
(* faults, retries and statuses: Inv is inductive, and from it a message   *)
(* is shown as sent only if it was, a job succeeds only once its outcome   *)
(* is known, every repetition was paid for by a fault, and settled rows    *)
(* stay settled.                                                           *)
(***************************************************************************)
EXTENDS ChatDelivery, ChannelQueueProofs, FiniteSetTheorems

\* The queue's places are places of a chat worker.
LEMMA PlacesOfQueue == QueuePC \subseteq ChatPC
  BY DEF ChatPC

\* After a report a worker waits in a place of its own.
LEMMA PlacesOfReports ==
  /\ AwaitOf["reportSent"] = "awaitSent"
  /\ AwaitOf["reportRefused"] = "awaitRefused"
  /\ AwaitOf["reportFailed"] = "awaitFailed"
  /\ ChatPC = {"idle", "batch", "complete", "release", "fail", "failForGood", "reportFailed",
               "reportSent", "reportRefused", "awaitSent", "awaitRefused", "awaitFailed",
               "resolve", "send"}
<1>1. AwaitOf["reportSent"] = "awaitSent"
  BY DEF AwaitOf, ReportSteps
<1>2. AwaitOf["reportRefused"] = "awaitRefused"
  BY DEF AwaitOf, ReportSteps
<1>3. AwaitOf["reportFailed"] = "awaitFailed"
  BY DEF AwaitOf, ReportSteps
<1>4. {AwaitOf[s] : s \in ReportSteps} = {"awaitSent", "awaitRefused", "awaitFailed"}
  BY <1>1, <1>2, <1>3 DEF ReportSteps
<1> QED BY <1>1, <1>2, <1>3, <1>4 DEF ChatPC, QueuePC, ReportPC, ReportSteps

-----------------------------------------------------------------------------
(* The steps of a worker between its claim and its verdict *)

\* A worker that is handling a job goes on with it, or is done with it; the rows,
\* the claims and the administrator are not concerned.
Proceeds(w) ==
  /\ Handling(w)
  /\ (\E step \in ChatPC \ {"idle", "batch"} : Goto(w, step)) \/ NextJob(w)
  /\ Fault \/ NoFault
  /\ UNCHANGED <<row, lastToken, retries>>

\* Where a report leads, in one formula for its three kinds.
LEMMA ReportsLead ==
  ASSUME NEW w, NEW step \in ReportSteps
  PROVE  /\ Answered(w, step) <=>
              \/ step = "reportSent" /\ Goto(w, "complete")
              \/ step = "reportRefused" /\ Goto(w, "failForGood")
              \/ step = "reportFailed" /\ NextJob(w)
         /\ Unanswered(w, step) <=>
              IF step = "reportFailed" THEN NextJob(w) ELSE Goto(w, "fail")
         /\ Unavailable(w, step) <=>
              IF step = "reportFailed" THEN NextJob(w) ELSE Goto(w, "release")
  BY DEF Answered, Unanswered, Unavailable, ReportSteps

\* Resolving, sending and reporting are steps of that kind.
LEMMA HandlerProceeds ==
  ASSUME NEW w \in Workers, Resolve(w) \/ Send(w) \/ ReportRead(w) \/ ReportAnswered(w)
  PROVE  Proceeds(w)
<1>1. CASE Resolve(w)
  BY <1>1, PlacesOfReports DEF Resolve, Proceeds, Handling, NoFault
<1>2. CASE Send(w)
  <2>1. UNCHANGED <<row, lastToken, retries>> /\ (Fault \/ NoFault) /\ pc[w] = "send"
        /\ \E step \in {"reportSent", "reportRefused", "fail"} : Goto(w, step)
    BY <1>2 DEF Send, SendContent
  <2> QED BY <2>1, PlacesOfReports DEF Proceeds, Handling
<1>3. CASE ReportRead(w)
  <2>1. PICK step \in ReportSteps : ReportRead(w)!(step)
    BY <1>3 DEF ReportRead
  <2>2. step \in {"reportSent", "reportRefused", "reportFailed"} /\ pc[w] = step
    BY <2>1 DEF ReportSteps
  <2>3. /\ Fault \/ NoFault
        /\ \/ Answered(w, step) \/ Unanswered(w, step) \/ Unavailable(w, step)
           \/ Goto(w, AwaitOf[step])
        /\ UNCHANGED <<row, lastToken, retries>>
    BY <2>1
  <2> QED BY <2>2, <2>3, ReportsLead, PlacesOfReports DEF Proceeds, Handling
<1>4. CASE ReportAnswered(w)
  <2>1. PICK step \in ReportSteps :
           /\ pc[w] = AwaitOf[step]
           /\ \/ ~Waiting(w, step) /\ Answered(w, step) /\ NoFault
              \/ Unanswered(w, step) /\ Fault
           /\ UNCHANGED <<row, lastToken, retries, chatVars>>
    BY <1>4 DEF ReportAnswered
  <2>2. Handling(w)
    BY <2>1, PlacesOfReports DEF ReportSteps, Handling
  <2>3. /\ Fault \/ NoFault
        /\ Answered(w, step) \/ Unanswered(w, step)
        /\ UNCHANGED <<row, lastToken, retries>>
    BY <2>1
  <2> QED BY <2>2, <2>3, ReportsLead, PlacesOfReports DEF Proceeds
<1> QED BY <1>1, <1>2, <1>3, <1>4

-----------------------------------------------------------------------------
(* The queue's part of the invariant *)

\* A plan that stops a channel takes a waiting job, which no claim is on.
LEMMA CancelKeepsQueue ==
  ASSUME NEW PC, QueueTypeOK(PC), QueueInv, NEW j \in Jobs, CancelIntent(j)
  PROVE  QueueTypeOK(PC)' /\ QueueInv'
<1> DEFINE q == [row[j] EXCEPT !.status = "cancelled"]
<1>1. row \in [Jobs -> Row] /\ row[j] \in Row
  BY DEF QueueTypeOK
<1>2. q \in Row /\ q.token = row[j].token /\ q.status = "cancelled"
  BY <1>1 DEF Row, Status
<1>3. row' = [row EXCEPT ![j] = q] /\ UNCHANGED <<lastToken, batch, cur, pc, faults, retries>>
  BY <1>1 DEF CancelIntent
<1>4. row[j].status = "pending"
  BY DEF CancelIntent
<1> HIDE DEF q
<1>5. QueueTypeOK(PC)'
  BY <1>1, <1>2, <1>3 DEF QueueTypeOK, Handling
<1>6. ClaimsShrink
  BY <1>3 DEF ClaimsShrink, Handling
<1>7. RowsAreClaimed'
  <2> SUFFICES ASSUME NEW i \in Jobs
               PROVE  row'[i].token \in 0..lastToken /\ (row'[i].token > 0 <=> row'[i].status = "running")
    BY <1>3 DEF RowsAreClaimed
  <2>1. /\ row[i].token \in 0..lastToken /\ (row[i].token > 0 <=> row[i].status = "running")
        /\ row[j].token > 0 <=> row[j].status = "running"
    BY DEF QueueInv, RowsAreClaimed
  <2>2. row'[i] = IF i = j THEN q ELSE row[i]
    BY <1>1, <1>3
  <2> QED BY <1>2, <1>4, <2>1, <2>2
<1> QED BY <1>5, <1>6, <1>7, ShrinkKeepsDistinct DEF QueueInv

\* Every step keeps the queue's types and its invariant.
LEMMA StepKeepsQueue ==
  ASSUME QueueTypeOK(ChatPC), QueueInv, [Next]_vars
  PROVE  QueueTypeOK(ChatPC)' /\ QueueInv'
<1> USE PlacesOfQueue
<1>1. ASSUME NEW w \in Workers, Proceeds(w)
      PROVE  QueueTypeOK(ChatPC)' /\ QueueInv'
  <2>1. /\ Handling(w) /\ (Fault \/ NoFault) /\ UNCHANGED <<lastToken, retries>>
        /\ WorkerGoesOn(w, ChatPC) /\ SettlesOwnJob(w)
    BY <1>1 DEF Proceeds, WorkerGoesOn, SettlesOwnJob
  <2> QED BY <2>1, GoesOnKeepsQueue
<1>2. ASSUME NEW w \in Workers, ClaimJobs(w)
      PROVE  QueueTypeOK(ChatPC)' /\ QueueInv'
  BY <1>2, ClaimKeepsQueue DEF ClaimJobs
<1>3. ASSUME NEW w \in Workers, Begin(w)
      PROVE  QueueTypeOK(ChatPC)' /\ QueueInv'
  <2>1. PICK s \in batch[w] : \E step \in {"resolve", "complete"} : Take(w, s, step)
    BY <1>3 DEF Begin
  <2>2. {"resolve", "complete"} \subseteq ChatPC \ {"idle", "batch"}
    BY DEF ChatPC, QueuePC
  <2> QED BY <2>1, <2>2, TakeKeepsQueue
<1>4. ASSUME NEW w \in Workers, QueueStep(w)
      PROVE  QueueTypeOK(ChatPC)' /\ QueueInv'
  BY <1>4, QueueStepKeepsQueue DEF QueueStep
<1>5. ASSUME NEW w \in Workers, CrashChat(w)
      PROVE  QueueTypeOK(ChatPC)' /\ QueueInv'
  BY <1>5, CrashKeepsQueue DEF CrashChat
<1>6. ASSUME NEW j \in Jobs, Commit(j) \/ RetryMessage(j) \/ TimePasses(j)
      PROVE  QueueTypeOK(ChatPC)' /\ QueueInv'
  BY <1>6, RowOnlyKeepsQueue DEF Commit, RetryMessage, TimePasses
<1>7. ASSUME NEW j \in Jobs, CancelIntent(j)
      PROVE  QueueTypeOK(ChatPC)' /\ QueueInv'
  BY <1>7, CancelKeepsQueue
<1>8. ASSUME UNCHANGED queueVars
      PROVE  QueueTypeOK(ChatPC)' /\ QueueInv'
  BY <1>8 DEF queueVars, QueueTypeOK, Handling, QueueInv, RowsAreClaimed, ClaimsAreDistinct, Mine
<1>9. ASSUME NEW j \in Jobs, DeleteMessage(j) \/ Provider(j)
      PROVE  UNCHANGED queueVars
  BY <1>9 DEF DeleteMessage, Provider, StatusArrives
<1>10. ASSUME NEW x \in writes, CoreWrites(x)
       PROVE  UNCHANGED queueVars
  BY <1>10 DEF CoreWrites
<1>11. UNCHANGED vars => UNCHANGED queueVars
  BY DEF vars
<1> QED
  BY <1>1, <1>2, <1>3, <1>4, <1>5, <1>6, <1>7, <1>8, <1>9, <1>10, <1>11, HandlerProceeds
  DEF Next, ChatStep

-----------------------------------------------------------------------------
(* Which step changes what of Core and the provider *)

\* Only Send sends, and only the handlers' UPDATEs, the commit and a deletion
\* write the message.
LEMMA WhoChanges ==
  ASSUME [Next]_vars
  PROVE  /\ UNCHANGED <<sends, extId>> \/ \E w \in Workers : Send(w)
         /\ \/ UNCHANGED message
            \/ \E x \in writes : CoreWrites(x)
            \/ \E j \in Jobs : Commit(j) \/ DeleteMessage(j)
         /\ \/ UNCHANGED writes
            \/ \E w \in Workers : ReportRead(w)
            \/ \E x \in writes : CoreWrites(x)
            \/ \E j \in Jobs : Provider(j)
         /\ UNCHANGED statuses \/ \E j \in Jobs : Provider(j)
<1>1. ASSUME NEW w \in Workers, ClaimJobs(w) \/ QueueStep(w) \/ CrashChat(w) PROVE UNCHANGED chatVars
  BY <1>1 DEF ClaimJobs, QueueStep, CrashChat
<1>2. ASSUME NEW w \in Workers, ChatStep(w)
      PROVE  /\ UNCHANGED <<message, statuses>>
             /\ Send(w) \/ UNCHANGED <<sends, extId>>
             /\ ReportRead(w) \/ UNCHANGED writes
  BY <1>2 DEF ChatStep, Begin, Resolve, Send, ReportRead, ReportAnswered, chatVars
<1>3. ASSUME NEW j \in Jobs, CancelIntent(j) \/ RetryMessage(j) \/ TimePasses(j)
      PROVE  UNCHANGED chatVars
  BY <1>3 DEF CancelIntent, RetryMessage, TimePasses, chatVars
<1>4. ASSUME NEW j \in Jobs, Commit(j) \/ DeleteMessage(j)
      PROVE  UNCHANGED <<sends, extId, writes, statuses>>
  BY <1>4 DEF Commit, DeleteMessage
<1>5. ASSUME NEW j \in Jobs, Provider(j) PROVE UNCHANGED <<message, sends, extId>>
  BY <1>5 DEF Provider, StatusArrives
<1>6. ASSUME NEW x \in writes, CoreWrites(x) PROVE UNCHANGED <<sends, extId, statuses>>
  BY <1>6 DEF CoreWrites
<1>7. CASE UNCHANGED vars
  BY <1>7 DEF vars, chatVars
<1> QED BY <1>1, <1>2, <1>3, <1>4, <1>5, <1>6, <1>7 DEF Next, chatVars

\* A clean acceptance, one that was not answered, none, or nothing to send.
LEMMA SendEffect ==
  ASSUME TypeOK, NEW w \in Workers, Send(w)
  PROVE  /\ pc[w] = "send" /\ Handling(w) /\ cur[w] \in Claimed /\ cur[w].job \in Jobs
         /\ UNCHANGED <<message, writes, statuses, row, lastToken, batch, cur, retries>>
         /\ \/ /\ sends' = [sends EXCEPT ![cur[w].job] = sends[cur[w].job] + 1]
               /\ \E id \in {sends[cur[w].job] + 1, 0} : extId' = [extId EXCEPT ![w] = id]
               /\ Goto(w, "reportSent") /\ NoFault
            \/ /\ Content(cur[w].job) = "skipped"
               /\ UNCHANGED sends /\ extId' = [extId EXCEPT ![w] = 0]
               /\ Goto(w, "reportSent") /\ NoFault
            \/ /\ sends' = [sends EXCEPT ![cur[w].job] = sends[cur[w].job] + 1]
               /\ UNCHANGED extId /\ Goto(w, "fail") /\ Fault
            \/ /\ UNCHANGED <<sends, extId>> /\ NoFault
               /\ Goto(w, "fail") \/ Goto(w, "reportRefused")
<1>1. /\ pc[w] = "send" /\ Handling(w) /\ cur[w] \in Claimed /\ cur[w].job \in Jobs
      /\ UNCHANGED <<message, writes, statuses, row, lastToken, retries>>
  BY DEF TypeOK, QueueTypeOK, Send, Handling, Claimed
<1>2. CASE Content(cur[w].job) # "skipped"
  BY <1>1, <1>2 DEF Send, SendContent, Accept, Goto
<1>3. CASE Content(cur[w].job) = "skipped"
  BY <1>1, <1>3 DEF Send, Goto
<1> QED BY <1>2, <1>3

\* A report is answered at once, left behind as a write, or meets a fault.
LEMMA ReportEffect ==
  ASSUME TypeOK, NEW w \in Workers, ReportRead(w)
  PROVE  \E step \in ReportSteps :
           LET j == cur[w].job IN
           /\ pc[w] = step /\ Handling(w) /\ cur[w] \in Claimed /\ j \in Jobs
           /\ UNCHANGED <<row, lastToken, retries, message, sends, extId, statuses>>
           /\ \/ ~message[j].exists /\ Unavailable(w, step) /\ NoFault /\ UNCHANGED writes
              \/ /\ message[j].exists /\ Ignored(message[j].delivery, OutcomeOf(step))
                 /\ Answered(w, step) /\ NoFault /\ UNCHANGED writes
              \/ /\ message[j].exists /\ ~Ignored(message[j].delivery, OutcomeOf(step))
                 /\ Goto(w, AwaitOf[step]) /\ NoFault
                 /\ writes' = writes \cup {MyWrite(w, step)}
              \/ (Unanswered(w, step) \/ Unavailable(w, step)) /\ Fault /\ UNCHANGED writes
<1>1. PICK step \in ReportSteps : ReportRead(w)!(step)
  BY DEF ReportRead
<1>2. Handling(w) /\ cur[w] \in Claimed /\ cur[w].job \in Jobs
  BY <1>1 DEF ReportSteps, Handling, TypeOK, QueueTypeOK, Claimed
<1> QED BY <1>1, <1>2

\* What a worker's report has Core write.
LEMMA MyWriteType ==
  ASSUME TypeOK, NEW w \in Workers, NEW step \in ReportSteps, cur[w] \in Claimed
  PROVE  /\ MyWrite(w, step) \in Write
         /\ MyWrite(w, step).job = cur[w].job /\ MyWrite(w, step).by = cur[w].token
         /\ MyWrite(w, step).step = step
         /\ MyWrite(w, step).delivery = OutcomeOf(step)
         /\ MyWrite(w, step).ext = IF step = "reportSent" /\ Content(cur[w].job) # "skipped"
                                    THEN extId[w] ELSE message[cur[w].job].ext
<1>1. cur[w].job \in Jobs /\ cur[w].token \in Nat
  BY DEF Claimed
<1>2. OutcomeOf(step) \in Outcomes
  BY DEF OutcomeOf, Outcomes
<1>3. extId[w] \in Nat /\ message[cur[w].job].ext \in Nat
  BY <1>1 DEF TypeOK, Message
<1> QED BY <1>1, <1>2, <1>3 DEF MyWrite, Write

\* A provider status leaves at most one write, of an acceptance.
LEMMA StatusEffect ==
  ASSUME TypeOK, NEW j \in Jobs, Provider(j)
  PROVE  /\ UNCHANGED <<queueVars, message, sends, extId>>
         /\ statuses' \in 0..MaxStatuses
         /\ \/ UNCHANGED writes
            \/ \E x \in Write :
                 /\ writes' = writes \cup {x}
                 /\ x.job = j /\ x.delivery # "none" /\ x.ext \in 1..sends[j]
<1>1. PICK k \in 1..sends[j], status \in Outcomes \ {"none"} : StatusArrives(j, k, status)
  BY DEF Provider
<1> DEFINE x == [job |-> j, delivery |-> status, ext |-> k, by |-> 0, step |-> "status"]
<1>2. x \in Write /\ x.job = j /\ x.delivery # "none" /\ x.ext \in 1..sends[j]
  BY DEF Write, TypeOK
<1>3. UNCHANGED writes \/ writes' = writes \cup {x}
  BY <1>1 DEF StatusArrives
<1>4. UNCHANGED <<queueVars, message, sends, extId>>
  BY <1>1 DEF StatusArrives
<1>5. statuses' \in 0..MaxStatuses
  BY <1>1, ChatAssumption DEF StatusArrives, TypeOK
<1> HIDE DEF x
<1> QED BY <1>2, <1>3, <1>4, <1>5

\* What the three steps that write the message make of it.
LEMMA MessageEffect ==
  ASSUME TypeOK, [Next]_vars, NEW j \in Jobs
  PROVE  \/ message'[j] = message[j]
         \/ /\ Commit(j) /\ message'[j].exists
            /\ message'[j].delivery = message[j].delivery /\ message'[j].ext = message[j].ext
         \/ /\ ~message'[j].exists /\ message'[j].content = message[j].content
            /\ message'[j].delivery = message[j].delivery /\ message'[j].ext = message[j].ext
         \/ \E x \in writes : /\ x.job = j /\ CoreWrites(x)
                             /\ message'[j].exists /\ message[j].exists
                             /\ message'[j].content = message[j].content
                             /\ message'[j].delivery = x.delivery /\ message'[j].ext = x.ext
<1>0. message \in [Jobs -> Message] /\ writes \subseteq Write
  BY DEF TypeOK
<1>1. ASSUME NEW i \in Jobs, Commit(i)
      PROVE  \/ message'[j] = message[j]
             \/ /\ Commit(j) /\ message'[j].exists
                /\ message'[j].delivery = message[j].delivery /\ message'[j].ext = message[j].ext
  <2>1. PICK content \in Contents :
           message' = [message EXCEPT ![i].exists = TRUE, ![i].content = content]
    BY <1>1 DEF Commit
  <2>2. CASE i = j
    BY <1>0, <1>1, <2>1, <2>2 DEF Message
  <2>3. CASE i # j
    BY <1>0, <2>1, <2>3
  <2> QED BY <2>2, <2>3
<1>2. ASSUME NEW i \in Jobs, DeleteMessage(i)
      PROVE  \/ message'[j] = message[j]
             \/ /\ ~message'[j].exists /\ message'[j].content = message[j].content
                /\ message'[j].delivery = message[j].delivery /\ message'[j].ext = message[j].ext
  <2>1. message' = [message EXCEPT ![i].exists = FALSE]
    BY <1>2 DEF DeleteMessage
  <2>2. CASE i = j
    BY <1>0, <2>1, <2>2 DEF Message
  <2>3. CASE i # j
    BY <1>0, <2>1, <2>3
  <2> QED BY <2>2, <2>3
<1>3. ASSUME NEW x \in writes, CoreWrites(x)
      PROVE  \/ message'[j] = message[j]
             \/ /\ x.job = j /\ message'[j].exists /\ message[j].exists
                /\ message'[j].content = message[j].content
                /\ message'[j].delivery = x.delivery /\ message'[j].ext = x.ext
  <2>1. \/ message' = message
        \/ /\ message[x.job].exists
           /\ message' = [message EXCEPT ![x.job].delivery = x.delivery, ![x.job].ext = x.ext]
    BY <1>3 DEF CoreWrites
  <2>2. CASE x.job = j
    BY <1>0, <2>1, <2>2 DEF Message
  <2>3. CASE x.job # j
    BY <1>0, <2>1, <2>3
  <2> QED BY <2>2, <2>3
<1>4. UNCHANGED message => message'[j] = message[j]
  OBVIOUS
<1> QED BY <1>1, <1>2, <1>3, <1>4, WhoChanges

\* Every step keeps TypeOK.
LEMMA StepKeepsTypes ==
  ASSUME TypeOK, QueueInv, [Next]_vars
  PROVE  TypeOK'
<1>1. QueueTypeOK(ChatPC)'
  BY StepKeepsQueue DEF TypeOK
<1>2. sends' \in [Jobs -> Nat] /\ extId' \in [Workers -> Nat]
  <2>1. ASSUME NEW w \in Workers, Send(w) PROVE <1>2
    <3>1. sends[cur[w].job] + 1 \in Nat /\ 0 \in Nat
      BY <2>1, SendEffect DEF TypeOK
    <3> QED BY <2>1, <3>1, SendEffect DEF TypeOK
  <2> QED BY <2>1, WhoChanges DEF TypeOK
<1>3. message' \in [Jobs -> Message]
  <2>1. ASSUME NEW j \in Jobs, DeleteMessage(j) PROVE <1>3
    BY <2>1 DEF DeleteMessage, TypeOK, Message
  <2>3. ASSUME NEW j \in Jobs, Commit(j) PROVE <1>3
    BY <2>3 DEF Commit, TypeOK, Message
  <2>2. ASSUME NEW x \in writes, CoreWrites(x) PROVE <1>3
    BY <2>2 DEF CoreWrites, TypeOK, Message, Write
  <2> QED BY <2>1, <2>2, <2>3, WhoChanges DEF TypeOK
<1>4. writes' \subseteq Write
  <2>1. ASSUME NEW w \in Workers, ReportRead(w) PROVE writes' \subseteq Write
    BY <2>1, ReportEffect, MyWriteType DEF TypeOK
  <2>2. ASSUME NEW x \in writes, CoreWrites(x) PROVE writes' \subseteq Write
    BY <2>2 DEF CoreWrites, TypeOK
  <2> QED BY <2>1, <2>2, WhoChanges, StatusEffect DEF TypeOK
<1>5. statuses' \in 0..MaxStatuses
  BY WhoChanges, StatusEffect DEF TypeOK
<1> QED BY <1>1, <1>2, <1>3, <1>4, <1>5 DEF TypeOK

-----------------------------------------------------------------------------
(* Who moves *)

\* Worker v is left where it is.
Standing(v) == pc'[v] = pc[v] /\ cur'[v] = cur[v] /\ batch'[v] = batch[v]

WorkerStep(v) == ClaimJobs(v) \/ ChatStep(v) \/ QueueStep(v) \/ CrashChat(v)

\* A step of one worker leaves the others where they are.
LEMMA OthersStand ==
  ASSUME QueueTypeOK(ChatPC), NEW w \in Workers, WorkerStep(w), NEW v \in Workers, v # w
  PROVE  Standing(v)
<1>0. /\ pc \in [Workers -> ChatPC] /\ cur \in [Workers -> Claimed \cup {NoJob}]
      /\ batch \in [Workers -> SUBSET Claimed]
  BY DEF QueueTypeOK
<1>1. ASSUME \/ \E step \in ChatPC : Goto(w, step)
             \/ NextJob(w) \/ LeaveBatch(w)
      PROVE  Standing(v)
  BY <1>0, <1>1 DEF Goto, NextJob, LeaveBatch, Standing
<1>2. CASE ClaimJobs(w)
  BY <1>0, <1>2 DEF ClaimJobs, Claim, Standing
<1>3. CASE Begin(w)
  BY <1>0, <1>3 DEF Begin, Take, Standing
<1>4. CASE Resolve(w) \/ Send(w) \/ ReportRead(w) \/ ReportAnswered(w)
  BY <1>1, <1>4, HandlerProceeds DEF Proceeds
<1>5. CASE QueueStep(w)
  BY <1>1, <1>5, QueueStepEffect, PlacesOfQueue DEF QueueStep, WorkerGoesOn
<1>6. CASE CrashChat(w)
  BY <1>1, <1>6 DEF CrashChat, Crash
<1> QED BY <1>2, <1>3, <1>4, <1>5, <1>6 DEF WorkerStep, ChatStep

\* The steps of Core, of the provider, of the administrator and of time.
OutsideStep ==
  \/ \E j \in Jobs : Commit(j) \/ CancelIntent(j) \/ DeleteMessage(j) \/ RetryMessage(j)
                      \/ TimePasses(j) \/ Provider(j)
  \/ \E x \in writes : CoreWrites(x)
  \/ UNCHANGED vars

\* They leave every worker where it is.
LEMMA OutsideLeavesWorkers ==
  ASSUME OutsideStep
  PROVE  UNCHANGED <<batch, cur, pc, lastToken>>
<1>1. ASSUME NEW j \in Jobs, Commit(j) \/ CancelIntent(j) \/ RetryMessage(j) \/ TimePasses(j)
      PROVE  UNCHANGED <<batch, cur, pc, lastToken>>
  BY <1>1 DEF Commit, Enqueue, CancelIntent, RetryMessage, AdminRetry, TimePasses,
              LeaseExpires, BackoffElapses
<1>2. ASSUME NEW j \in Jobs, DeleteMessage(j) \/ Provider(j)
      PROVE  UNCHANGED <<batch, cur, pc, lastToken>>
  BY <1>2 DEF DeleteMessage, Provider, StatusArrives, queueVars
<1>3. ASSUME NEW x \in writes, CoreWrites(x) PROVE UNCHANGED <<batch, cur, pc, lastToken>>
  BY <1>3 DEF CoreWrites, queueVars
<1>4. CASE UNCHANGED vars
  BY <1>4 DEF vars, queueVars
<1> QED BY <1>1, <1>2, <1>3, <1>4 DEF OutsideStep

\* Every step is one worker's or nobody's.
LEMMA StepIsOneWorkers ==
  ASSUME [Next]_vars
  PROVE  OutsideStep \/ \E w \in Workers : WorkerStep(w)
  BY DEF Next, OutsideStep, WorkerStep

\* How a worker comes to a report, to waiting for its answer, and to completing:
\* by the step before it, or by having been there.
LEMMA HowWorkersArrive ==
  ASSUME TypeOK, [Next]_vars, NEW v \in Workers
  PROVE  /\ pc'[v] \in {"reportSent", "awaitSent", "complete"} =>
              \/ Standing(v)
              \/ Begin(v) /\ pc'[v] = "complete" /\ Content(cur'[v].job) = "blank"
              \/ Send(v) /\ pc'[v] = "reportSent" /\ cur'[v] = cur[v]
              \/ ReportRead(v) /\ pc'[v] \in {"awaitSent", "complete"} /\ cur'[v] = cur[v]
              \/ ReportAnswered(v) /\ pc'[v] = "complete" /\ cur'[v] = cur[v]
<1>0. QueueTypeOK(ChatPC) /\ pc \in [Workers -> ChatPC]
  BY DEF TypeOK, QueueTypeOK
<1>1. CASE OutsideStep
  BY <1>1, OutsideLeavesWorkers DEF Standing
<1>2. ASSUME NEW w \in Workers, WorkerStep(w), w # v PROVE Standing(v)
  BY <1>0, <1>2, OthersStand
<1>3. CASE ClaimJobs(v)
  BY <1>0, <1>3 DEF ClaimJobs, Claim
<1>4. CASE Begin(v)
  BY <1>0, <1>4 DEF Begin, Take, TypeOK, QueueTypeOK
<1>5. CASE Resolve(v)
  BY <1>0, <1>5 DEF Resolve, Goto
<1>6. CASE Send(v)
  BY <1>0, <1>6, SendEffect DEF Goto
<1>7. CASE ReportRead(v)
  <2>1. Proceeds(v)
    BY <1>7, HandlerProceeds
  <2>2. PICK step \in ReportSteps : ReportRead(v)!(step)
    BY <1>7 DEF ReportRead
  <2>3. \/ NextJob(v)
        \/ \E p \in {"complete", "failForGood", "fail", "release", "awaitSent",
                    "awaitRefused", "awaitFailed"} : Goto(v, p)
    BY <2>2, ReportsLead, PlacesOfReports DEF ReportSteps
  <2> QED BY <1>0, <1>7, <2>3 DEF NextJob, Goto
<1>8. CASE ReportAnswered(v)
  <2>1. PICK step \in ReportSteps : Answered(v, step) \/ Unanswered(v, step)
    BY <1>8 DEF ReportAnswered
  <2>2. NextJob(v) \/ \E p \in {"complete", "failForGood", "fail"} : Goto(v, p)
    BY <2>1, ReportsLead
  <2> QED BY <1>0, <1>8, <2>2 DEF NextJob, Goto
<1>9. CASE QueueStep(v)
  BY <1>0, <1>9 DEF QueueStep, Complete, Release, Fail, Goto, NextJob, LeaveBatch
<1>10. CASE CrashChat(v)
  BY <1>0, <1>10 DEF CrashChat, Crash, LeaveBatch
<1> QED
  BY <1>1, <1>2, <1>3, <1>4, <1>5, <1>6, <1>7, <1>8, <1>9, <1>10, StepIsOneWorkers
  DEF WorkerStep, ChatStep

-----------------------------------------------------------------------------
(* What is reported, written and shown is true *)

\* Acceptances are never taken back.
LEMMA SendsGrow ==
  ASSUME TypeOK, [Next]_vars, NEW j \in Jobs
  PROVE  sends[j] \in Nat /\ sends'[j] \in Nat /\ sends[j] <= sends'[j]
<1>1. sends \in [Jobs -> Nat]
  BY DEF TypeOK
<1>2. ASSUME NEW w \in Workers, Send(w) PROVE sends'[j] \in Nat /\ sends[j] <= sends'[j]
  <2>1. UNCHANGED sends \/ sends' = [sends EXCEPT ![cur[w].job] = sends[cur[w].job] + 1]
    BY <1>2, SendEffect
  <2> QED BY <1>1, <2>1
<1> QED BY <1>1, <1>2, WhoChanges

\* What there was to show for `sent' stays: the content is that of the commit.
LEMMA TakenStays ==
  ASSUME TypeOK, ReportsAreKnown, [Next]_vars, NEW j \in Jobs, Taken(j)
  PROVE  sends'[j] > 0 \/ message'[j].content = "skipped"
<1>1. ~Commit(j)
  BY DEF Commit, Enqueue, ReportsAreKnown, Taken
<1>2. message'[j].content = message[j].content
  BY <1>1, MessageEffect
<1> QED BY <1>2, SendsGrow DEF Taken, Content

\* Every step keeps what is on its way true.
LEMMA StepKeepsTruth ==
  ASSUME TypeOK, ReportsAreKnown, ReportsAreTrue, ShownWasSent, [Next]_vars
  PROVE  ReportsAreTrue' /\ ShownWasSent'
<1> DEFINE WillBeTaken(j) == sends'[j] > 0 \/ message'[j].content = "skipped"
<1>1. ASSUME NEW w \in Workers, pc'[w] = "reportSent"
      PROVE  extId'[w] <= sends'[cur'[w].job] /\ WillBeTaken(cur'[w].job)
  <2>1. CASE Send(w)
    <3>1. /\ cur[w].job \in Jobs /\ cur' = cur /\ UNCHANGED message
          /\ \/ /\ sends' = [sends EXCEPT ![cur[w].job] = sends[cur[w].job] + 1]
                /\ \E id \in {sends[cur[w].job] + 1, 0} : extId' = [extId EXCEPT ![w] = id]
             \/ /\ UNCHANGED sends /\ extId' = [extId EXCEPT ![w] = 0]
                /\ Content(cur[w].job) = "skipped"
      BY <1>1, <2>1, SendEffect DEF Goto, TypeOK, QueueTypeOK
    <3>2. sends[cur[w].job] \in Nat
      BY <3>1 DEF TypeOK
    <3>3. CASE sends' = [sends EXCEPT ![cur[w].job] = sends[cur[w].job] + 1]
      <4>1. sends'[cur[w].job] = sends[cur[w].job] + 1
        BY <3>1, <3>3 DEF TypeOK
      <4>2. extId'[w] \in {sends[cur[w].job] + 1, 0}
        BY <3>1, <3>3 DEF TypeOK
      <4> QED BY <3>1, <3>2, <4>1, <4>2
    <3>4. CASE UNCHANGED sends /\ extId' = [extId EXCEPT ![w] = 0] /\ Content(cur[w].job) = "skipped"
      <4>1. extId'[w] = 0
        BY <3>4 DEF TypeOK
      <4> QED BY <3>1, <3>2, <3>4, <4>1 DEF Content
    <3> QED BY <3>1, <3>3, <3>4
  <2>2. CASE ~Send(w)
    <3>1. pc[w] = "reportSent" /\ cur'[w] = cur[w]
      BY <1>1, <2>2, HowWorkersArrive DEF Standing
    <3>2. cur[w].job \in Jobs
      BY <3>1 DEF TypeOK, QueueTypeOK, Handling, Claimed
    <3>3. extId'[w] = extId[w]
      <4>1. ASSUME NEW v \in Workers, Send(v) PROVE extId'[w] = extId[w]
        <5>1. v # w /\ (UNCHANGED extId \/ \E id \in Nat : extId' = [extId EXCEPT ![v] = id])
          BY <2>2, <4>1, SendEffect DEF TypeOK
        <5> QED BY <5>1 DEF TypeOK
      <4> QED BY <4>1, WhoChanges
    <3>4. extId[w] <= sends[cur[w].job] /\ Taken(cur[w].job)
      BY <3>1 DEF ReportsAreTrue
    <3>5. extId[w] \in Nat
      BY DEF TypeOK
    <3> QED BY <3>1, <3>2, <3>3, <3>4, <3>5, SendsGrow, TakenStays
  <2> QED BY <2>1, <2>2
<1>2. ASSUME NEW x \in writes'
      PROVE  /\ x.delivery # "none" /\ x.ext <= sends'[x.job]
             /\ x.delivery = "sent" => WillBeTaken(x.job)
             /\ x.delivery \in {"delivered", "read"} => x.ext > 0
  <2>1. CASE x \in writes
    <3>1. x.job \in Jobs /\ x.ext \in Nat
      BY <2>1 DEF TypeOK, Write
    <3>2. /\ x.delivery # "none" /\ x.ext <= sends[x.job]
          /\ x.delivery = "sent" => Taken(x.job)
          /\ x.delivery \in {"delivered", "read"} => x.ext > 0
      BY <2>1 DEF ReportsAreTrue
    <3> QED BY <3>1, <3>2, SendsGrow, TakenStays
  <2>2. ASSUME NEW w \in Workers, ReportRead(w), x \notin writes PROVE <1>2!2
    <3>1. PICK step \in ReportSteps :
             /\ pc[w] = step /\ cur[w] \in Claimed /\ cur[w].job \in Jobs
             /\ UNCHANGED <<sends, message>>
             /\ UNCHANGED writes \/ writes' = writes \cup {MyWrite(w, step)}
      BY <2>2, ReportEffect
    <3>2. x = MyWrite(w, step)
      BY <2>2, <3>1
    <3>3. /\ x.job = cur[w].job /\ x.delivery = OutcomeOf(step)
          /\ x.ext \in {extId[w], message[cur[w].job].ext}
          /\ x.ext = IF step = "reportSent" /\ Content(cur[w].job) # "skipped"
                      THEN extId[w] ELSE message[cur[w].job].ext
      BY <3>1, <3>2, MyWriteType
    <3>6. message[cur[w].job].ext <= sends[cur[w].job]
      BY <3>1 DEF ShownWasSent
    <3>4. CASE step = "reportSent"
      <4>1. extId[w] <= sends[cur[w].job] /\ Taken(cur[w].job)
        BY <3>1, <3>4 DEF ReportsAreTrue
      <4> QED BY <3>1, <3>3, <3>4, <3>6, <4>1 DEF OutcomeOf, Taken, Content
    <3>5. CASE step # "reportSent"
      BY <3>1, <3>3, <3>5, <3>6 DEF OutcomeOf
    <3> QED BY <3>4, <3>5
  <2>3. ASSUME NEW j \in Jobs, Provider(j), x \notin writes PROVE <1>2!2
    <3>1. x.job = j /\ x.delivery # "none" /\ x.ext \in 1..sends[j] /\ UNCHANGED <<sends, message>>
      BY <2>3, StatusEffect
    <3>2. sends[j] \in Nat
      BY DEF TypeOK
    <3> QED BY <3>1, <3>2
  <2>4. ASSUME NEW y \in writes, CoreWrites(y) PROVE x \in writes
    BY <2>4 DEF CoreWrites
  <2> QED BY <2>1, <2>2, <2>3, <2>4, WhoChanges
<1>3. ASSUME NEW j \in Jobs
      PROVE  /\ message'[j].ext <= sends'[j]
             /\ message'[j].delivery = "sent" => WillBeTaken(j)
             /\ message'[j].delivery \in {"delivered", "read"} => message'[j].ext > 0
  <2>0. message[j].ext \in Nat
    BY DEF TypeOK, Message
  <2>1. CASE message'[j].delivery = message[j].delivery /\ message'[j].ext = message[j].ext
    BY <2>0, <2>1, SendsGrow, TakenStays DEF ShownWasSent
  <2>2. ASSUME NEW x \in writes, x.job = j, message'[j].delivery = x.delivery, message'[j].ext = x.ext
        PROVE  <1>3!2
    <3>1. x.ext \in Nat
      BY DEF TypeOK, Write
    <3> QED BY <2>2, <3>1, SendsGrow, TakenStays DEF ReportsAreTrue
  <2> QED BY <2>1, <2>2, MessageEffect
<1> QED BY <1>1, <1>2, <1>3 DEF ReportsAreTrue, ShownWasSent, Taken, Content

-----------------------------------------------------------------------------
(* How a row moves, and who has a claim on it *)

\* The life of a row: committed, claimed or cancelled, given up, revived.
Moves(j) ==
  \/ row'[j].status = row[j].status
  \/ row[j].status = "absent" /\ row'[j].status = "pending"
  \/ row[j].status = "pending" /\ row'[j].status \in {"running", "cancelled"}
  \/ row[j].status = "running" /\ row'[j].status \in {"pending", "failed"}
  \/ /\ row[j].status = "running" /\ row'[j].status = "succeeded"
     /\ \E w \in Workers : Complete(w) /\ cur[w].job = j
  \/ row[j].status = "failed" /\ row'[j].status = "pending" /\ row'[j].attempt = 0

\* A worker settles no row but its own, and that one only under its claim.
LEMMA QueueStepMoves ==
  ASSUME TypeOK, QueueInv, NEW w \in Workers, Complete(w) \/ Release(w) \/ Fail(w), NEW j \in Jobs
  PROVE  /\ row'[j] = row[j] \/ (j = cur[w].job /\ Holds(cur[w]) /\ row'[j].token = 0)
         /\ Moves(j)
<1>0. /\ Handling(w) /\ SettlesOwnJob(w) /\ cur[w] \in Claimed
      /\ Exhausted(w) \in BOOLEAN /\ QueueTypeOK(ChatPC)
  BY QueueStepEffect DEF TypeOK, QueueTypeOK, Exhausted
<1>1. row'[j] = row[j] \/ (j = cur[w].job /\ Holds(cur[w]) /\ row'[j].token = 0)
  BY <1>0 DEF SettlesOwnJob, Settled, QueueTypeOK
<1>4. row \in [Jobs -> Row]
  BY <1>0 DEF QueueTypeOK
<1>2. CASE row'[j] = row[j]
  BY <1>1, <1>2 DEF Moves
<1>3. CASE row'[j] # row[j]
  <2>1. row[j].status = "running" /\ j = cur[w].job /\ cur[w].job \in Jobs
    <3>1. cur[w].token \in 1..lastToken /\ lastToken \in Nat
      BY <1>0 DEF QueueInv, ClaimsAreDistinct, Mine, QueueTypeOK
    <3>2. row[j].token = cur[w].token /\ j = cur[w].job
      BY <1>1, <1>3 DEF Holds
    <3> QED BY <3>1, <3>2 DEF QueueInv, RowsAreClaimed
  <2>2. CASE Complete(w)
    <3>0. row' = row \/ row' = [row EXCEPT ![cur[w].job] = CompletedRow(cur[w])]
      BY <2>2 DEF Complete, FencedUpdate, UpdateFails
    <3>1. row'[j] = CompletedRow(cur[w])
      BY <1>3, <1>4, <2>1, <3>0
    <3>2. CompletedRow(cur[w]).status \in {"succeeded", "pending", "failed"}
      BY <1>0, UpdatesSettle DEF Settled
    <3> QED BY <1>1, <2>1, <2>2, <3>1, <3>2 DEF Moves
  <2>3. CASE Release(w)
    <3>0. row' = row \/ row' = [row EXCEPT ![cur[w].job] = ReleasedRow(cur[w])]
      BY <2>3 DEF Release, FencedUpdate, UpdateFails
    <3>1. row'[j] = ReleasedRow(cur[w])
      BY <1>3, <1>4, <2>1, <3>0
    <3> QED BY <1>0, <1>1, <2>1, <3>1, UpdatesSettle DEF Moves
  <2>4. CASE Fail(w)
    <3>0. row' = row \/ row' = [row EXCEPT ![cur[w].job] = FailedRow(cur[w], Exhausted(w))]
      BY <2>4 DEF Fail, FencedUpdate, UpdateFails
    <3>1. row'[j] = FailedRow(cur[w], Exhausted(w))
      BY <1>3, <1>4, <2>1, <3>0
    <3> QED BY <1>0, <1>1, <2>1, <3>1, UpdatesSettle DEF Moves
  <2> QED BY <2>2, <2>3, <2>4
<1> QED BY <1>1, <1>2, <1>3

\* Every row moves that way, and no claim that is gone comes back.
LEMMA RowsMove ==
  ASSUME TypeOK, QueueInv, [Next]_vars, NEW j \in Jobs
  PROVE  /\ Moves(j)
         /\ \A v \in Workers : \A s \in Mine(v) :
              s.job = j /\ row'[j].token = s.token => row[j].token = s.token
<1>0. row \in [Jobs -> Row] /\ row[j] \in Row /\ lastToken \in Nat
  BY DEF TypeOK, QueueTypeOK
<1>a. \A v \in Workers : \A s \in Mine(v) : s.token \in 1..lastToken
  BY DEF QueueInv, ClaimsAreDistinct
<1>b. ASSUME Moves(j), row'[j].token \in {row[j].token, 0, lastToken + 1}
      PROVE  /\ Moves(j)
             /\ \A v \in Workers : \A s \in Mine(v) :
                  s.job = j /\ row'[j].token = s.token => row[j].token = s.token
  BY <1>0, <1>a, <1>b
<1>1. ASSUME NEW w \in Workers, ClaimJobs(w)
      PROVE  Moves(j) /\ row'[j].token \in {row[j].token, 0, lastToken + 1}
  <2>1. PICK S \in SUBSET Jobs : Claim(w, S)
    BY <1>1 DEF ClaimJobs
  <2>2. CASE j \notin S
    BY <1>0, <2>1, <2>2 DEF Claim, Moves
  <2>3. CASE j \in S
    <3>1. /\ row[j].status \in {"pending", "running"}
          /\ row'[j] = [row[j] EXCEPT !.status = "running", !.attempt = @ + 1,
                                      !.token = lastToken + 1, !.leased = TRUE]
      BY <2>1, <2>3 DEF Claim, Claimable
    <3>2. row'[j].status = "running" /\ row'[j].token = lastToken + 1
      BY <1>0, <3>1 DEF Row
    <3> QED BY <3>1, <3>2 DEF Moves
  <2> QED BY <2>2, <2>3
<1>2. ASSUME NEW w \in Workers, ChatStep(w) \/ CrashChat(w) PROVE UNCHANGED row
  BY <1>2, HandlerProceeds DEF ChatStep, Begin, Take, Proceeds, CrashChat, Crash
<1>3. ASSUME NEW w \in Workers, QueueStep(w)
      PROVE  Moves(j) /\ row'[j].token \in {row[j].token, 0, lastToken + 1}
  BY <1>3, QueueStepMoves DEF QueueStep
<1>4. ASSUME NEW i \in Jobs, Commit(i)
      PROVE  Moves(j) /\ row'[j].token \in {row[j].token, 0, lastToken + 1}
  <2>1. row[i].status = "absent" /\ row' = [row EXCEPT ![i].status = "pending", ![i].due = TRUE]
    BY <1>4 DEF Commit, Enqueue
  <2>2. CASE i = j
    BY <1>0, <2>1, <2>2 DEF Row, Moves
  <2>3. CASE i # j
    BY <1>0, <2>1, <2>3 DEF Moves
  <2> QED BY <2>2, <2>3
<1>5. ASSUME NEW i \in Jobs, CancelIntent(i)
      PROVE  Moves(j) /\ row'[j].token \in {row[j].token, 0, lastToken + 1}
  <2>1. row[i].status = "pending" /\ row' = [row EXCEPT ![i].status = "cancelled"]
    BY <1>5 DEF CancelIntent
  <2>2. CASE i = j
    BY <1>0, <2>1, <2>2 DEF Row, Moves
  <2>3. CASE i # j
    BY <1>0, <2>1, <2>3 DEF Moves
  <2> QED BY <2>2, <2>3
<1>6. ASSUME NEW i \in Jobs, RetryMessage(i)
      PROVE  Moves(j) /\ row'[j].token \in {row[j].token, 0, lastToken + 1}
  <2> DEFINE f == Freed(row[i], "pending")
             q == [f EXCEPT !.attempt = 0, !.due = TRUE]
  <2>1. row[i] \in Row /\ row[i].status = "failed"
    BY <1>0, <1>6 DEF RetryMessage, AdminRetry
  <2>2. f \in Row /\ f.token = 0 /\ f.status = "pending"
    BY <2>1, FreedIsRow, FreedFields DEF Status
  <2>3. row' = [row EXCEPT ![i] = q]
    BY <2>1, <1>6 DEF RetryMessage, AdminRetry
  <2> HIDE DEF f
  <2>4. q.token = 0 /\ q.status = "pending" /\ q.attempt = 0
    BY <2>2 DEF Row
  <2> HIDE DEF q
  <2>5. row'[j] = IF i = j THEN q ELSE row[j]
    BY <1>0, <2>3
  <2> QED BY <2>1, <2>4, <2>5 DEF Moves
<1>7. ASSUME NEW i \in Jobs, TimePasses(i)
      PROVE  Moves(j) /\ row'[j].token \in {row[j].token, 0, lastToken + 1}
  <2>1. row' = [row EXCEPT ![i].leased = FALSE] \/ row' = [row EXCEPT ![i].due = TRUE]
    BY <1>7 DEF TimePasses, LeaseExpires, BackoffElapses
  <2>2. CASE i = j
    BY <1>0, <2>1, <2>2 DEF Row, Moves
  <2>3. CASE i # j
    BY <1>0, <2>1, <2>3 DEF Moves
  <2> QED BY <2>2, <2>3
<1>8. ASSUME NEW i \in Jobs, DeleteMessage(i) \/ Provider(i) PROVE UNCHANGED row
  BY <1>8 DEF DeleteMessage, Provider, StatusArrives, queueVars
<1>9. ASSUME NEW x \in writes, CoreWrites(x) PROVE UNCHANGED row
  BY <1>9 DEF CoreWrites, queueVars
<1>10. UNCHANGED vars => UNCHANGED row
  BY DEF vars, queueVars
<1>11. UNCHANGED row => Moves(j) /\ row'[j].token \in {row[j].token, 0, lastToken + 1}
  BY DEF Moves
<1> QED
  BY <1>b, <1>1, <1>2, <1>3, <1>4, <1>5, <1>6, <1>7, <1>8, <1>9, <1>10, <1>11 DEF Next

\* Claims are only made by claiming.
LEMMA ClaimsAreMade ==
  ASSUME TypeOK, QueueInv, [Next]_vars, NEW v \in Workers, NEW s \in Mine(v)'
  PROVE  /\ s.job \in Jobs
         /\ s \in Mine(v) \/ row'[s.job].status = "running"
<1>0. /\ QueueTypeOK(ChatPC) /\ pc \in [Workers -> ChatPC]
      /\ cur \in [Workers -> Claimed \cup {NoJob}] /\ batch \in [Workers -> SUBSET Claimed]
  BY DEF TypeOK, QueueTypeOK
<1>1. s.job \in Jobs
  <2>1. QueueTypeOK(ChatPC)'
    BY StepKeepsQueue DEF TypeOK
  <2> QED BY <2>1 DEF Mine, QueueTypeOK, Claimed
<1>2. ASSUME OutsideStep PROVE s \in Mine(v)
  BY <1>2, OutsideLeavesWorkers DEF Mine, Handling
<1>3. ASSUME NEW w \in Workers, WorkerStep(w), w # v PROVE s \in Mine(v)
  BY <1>0, <1>3, OthersStand DEF Standing, Mine, Handling
<1>4. CASE ClaimJobs(v)
  <2>1. PICK S \in SUBSET Jobs : Claim(v, S)
    BY <1>4 DEF ClaimJobs
  <2>2. /\ pc'[v] = "batch" /\ batch'[v] = {AsClaimed(j) : j \in S}
        /\ row' = [j \in Jobs |-> IF j \in S THEN [row[j] EXCEPT !.status = "running", !.attempt = @ + 1,
                                      !.token = lastToken + 1, !.leased = TRUE] ELSE row[j]]
    BY <1>0, <2>1 DEF Claim
  <2>3. PICK j \in S : s = AsClaimed(j)
    BY <2>2 DEF Mine, Handling
  <2>4. s.job = j /\ row[j] \in Row
    BY <2>3 DEF AsClaimed, TypeOK, QueueTypeOK
  <2>5. row'[j] = [row[j] EXCEPT !.status = "running", !.attempt = @ + 1,
                                 !.token = lastToken + 1, !.leased = TRUE]
    BY <2>2
  <2> QED BY <1>1, <2>4, <2>5 DEF Row
<1>5. ASSUME Begin(v) PROVE s \in Mine(v)
  BY <1>0, <1>5 DEF Begin, Take, Mine, Handling
<1>6. ASSUME Handling(v) \/ LeaveBatch(v), (\E step \in ChatPC : Goto(v, step)) \/ NextJob(v) \/ LeaveBatch(v)
      PROVE  s \in Mine(v)
  BY <1>0, <1>6 DEF Goto, NextJob, LeaveBatch, Mine, Handling
<1>7. ASSUME Resolve(v) \/ Send(v) \/ ReportRead(v) \/ ReportAnswered(v) PROVE s \in Mine(v)
  BY <1>6, <1>7, HandlerProceeds DEF Proceeds
<1>8. ASSUME QueueStep(v) PROVE s \in Mine(v)
  BY <1>0, <1>6, <1>8, QueueStepEffect, PlacesOfQueue DEF QueueStep, WorkerGoesOn
<1>9. ASSUME CrashChat(v) PROVE s \in Mine(v)
  BY <1>6, <1>9 DEF CrashChat, Crash
<1> QED
  BY <1>1, <1>2, <1>3, <1>4, <1>5, <1>7, <1>8, <1>9, StepIsOneWorkers DEF WorkerStep, ChatStep

-----------------------------------------------------------------------------
(* A job succeeds only once its outcome is known *)

\* The outcome of j is known after the step.
WillBeKnown(j) ==
  message'[j].exists => message'[j].delivery # "none" \/ message'[j].content = "blank"

\* A known outcome is not forgotten: no handler writes `none', and the message of
\* a job that is there is not committed again.
LEMMA KnownStays ==
  ASSUME TypeOK, ReportsAreTrue, [Next]_vars, NEW j \in Jobs,
         row[j].status # "absent", Known(j)
  PROVE  WillBeKnown(j)
<1>1. ~Commit(j)
  BY DEF Commit, Enqueue
<1>2. ASSUME NEW x \in writes PROVE x.delivery # "none"
  BY DEF ReportsAreTrue
<1> QED BY <1>1, <1>2, MessageEffect DEF Known, WillBeKnown, Content

\* The handler's UPDATE makes the outcome known.
LEMMA WriteMakesKnown ==
  ASSUME TypeOK, ReportsAreTrue, NEW x \in writes, CoreWrites(x)
  PROVE  WillBeKnown(x.job)
<1>1. x.job \in Jobs /\ x.delivery # "none" /\ message \in [Jobs -> Message]
  BY DEF TypeOK, Write, ReportsAreTrue
<1>2. CASE message[x.job].exists
  <2>1. message' = [message EXCEPT ![x.job].delivery = x.delivery, ![x.job].ext = x.ext]
    BY <1>2 DEF CoreWrites
  <2>2. message'[x.job].delivery = x.delivery
    BY <1>1, <2>1 DEF Message
  <2> QED BY <1>1, <2>2 DEF WillBeKnown
<1>3. CASE ~message[x.job].exists
  BY <1>3 DEF CoreWrites, WillBeKnown
<1> QED BY <1>2, <1>3

\* A worker's current job is among those it has claimed.
LEMMA CurIsMine ==
  ASSUME TypeOK, NEW w \in Workers, Handling(w)
  PROVE  cur[w] \in Mine(w) /\ cur[w] \in Claimed /\ cur[w].job \in Jobs
  BY DEF TypeOK, QueueTypeOK, Mine, Claimed

\* Every step keeps the outcomes of completed jobs known.
LEMMA StepKeepsKnown ==
  ASSUME TypeOK, QueueInv, ReportsAreTrue, ReportsAreKnown, SucceededIsKnown, [Next]_vars
  PROVE  ReportsAreKnown' /\ SucceededIsKnown'
<1>1. ASSUME NEW j \in Jobs, row'[j].status = "absent"
      PROVE  ~message'[j].exists /\ sends'[j] = 0 /\ message'[j].content = "sendable"
  <2>1. row[j].status = "absent"
    BY <1>1, RowsMove DEF Moves
  <2>2. ~message[j].exists /\ sends[j] = 0 /\ message[j].content = "sendable"
    BY <2>1 DEF ReportsAreKnown, Content
  <2>3. ~Commit(j)
    <3>1. row[j] \in Row /\ row \in [Jobs -> Row]
      BY DEF TypeOK, QueueTypeOK
    <3>2. Commit(j) => row'[j].status = "pending"
      BY <3>1 DEF Commit, Enqueue, Row
    <3> QED BY <1>1, <3>2
  <2>4. ~message'[j].exists /\ message'[j].content = "sendable"
    BY <2>2, <2>3, MessageEffect
  <2>5. ASSUME NEW w \in Workers, Send(w) PROVE sends'[j] = sends[j]
    <3>1. cur[w].job # j
      BY <2>1, <2>5, SendEffect, CurIsMine DEF ReportsAreKnown
    <3>2. UNCHANGED sends \/ sends' = [sends EXCEPT ![cur[w].job] = sends[cur[w].job] + 1]
      BY <2>5, SendEffect
    <3> QED BY <3>1, <3>2 DEF TypeOK
  <2> QED BY <2>2, <2>4, <2>5, WhoChanges
<1>2. ASSUME NEW w \in Workers, NEW s \in Mine(w)' PROVE row'[s.job].status # "absent"
  <2>1. s.job \in Jobs /\ (s \in Mine(w) \/ row'[s.job].status = "running")
    BY ClaimsAreMade
  <2>2. CASE s \in Mine(w)
    <3>1. row[s.job].status # "absent"
      BY <2>2 DEF ReportsAreKnown
    <3> QED BY <2>1, <3>1, RowsMove DEF Moves
  <2> QED BY <2>1, <2>2
<1>3. ASSUME NEW w \in Workers, pc'[w] = "complete" PROVE WillBeKnown(cur'[w].job)
  <2>1. CASE Standing(w)
    <3>1. pc[w] = "complete" /\ cur'[w] = cur[w] /\ Known(cur[w].job)
      BY <1>3, <2>1 DEF Standing, ReportsAreKnown
    <3>2. cur[w].job \in Jobs /\ row[cur[w].job].status # "absent"
      BY <3>1, CurIsMine DEF Handling, ReportsAreKnown
    <3>3. WillBeKnown(cur[w].job)
      BY <3>1, <3>2, KnownStays
    <3> QED BY <3>1, <3>3
  <2>2. CASE ReportRead(w) /\ cur'[w] = cur[w]
    <3>1. PICK step \in ReportSteps :
             /\ UNCHANGED message /\ pc[w] = step
             /\ \/ Unavailable(w, step) \/ Unanswered(w, step)
                \/ Ignored(message[cur[w].job].delivery, OutcomeOf(step)) /\ Answered(w, step)
                \/ Goto(w, AwaitOf[step])
      BY <2>2, ReportEffect
    <3>2. pc \in [Workers -> ChatPC]
      BY DEF TypeOK, QueueTypeOK
    <3>3. /\ step = "reportSent"
          /\ Ignored(message[cur[w].job].delivery, OutcomeOf(step))
      <4>1. Answered(w, step) => step = "reportSent"
        BY <1>3, <3>2, ReportsLead DEF Goto, NextJob
      <4>2. ~Unavailable(w, step) /\ ~Unanswered(w, step)
        BY <1>3, <3>2, ReportsLead DEF Goto, NextJob
      <4>3. ~Goto(w, AwaitOf[step])
        BY <1>3, <3>2, PlacesOfReports DEF Goto, ReportSteps
      <4> QED BY <3>1, <4>1, <4>2, <4>3
    <3>4. message[cur[w].job].delivery # "none"
      BY <3>3 DEF Ignored, OutcomeOf
    <3> QED BY <2>2, <3>1, <3>4 DEF WillBeKnown
  <2>3. CASE ReportAnswered(w) /\ cur'[w] = cur[w]
    <3>1. PICK step \in ReportSteps :
             /\ UNCHANGED message /\ pc[w] = AwaitOf[step]
             /\ (~Waiting(w, step) /\ Answered(w, step)) \/ Unanswered(w, step)
      BY <2>3 DEF ReportAnswered, chatVars
    <3>2. pc \in [Workers -> ChatPC]
      BY DEF TypeOK, QueueTypeOK
    <3>3. step = "reportSent" /\ ~Waiting(w, step)
      BY <1>3, <3>1, <3>2, ReportsLead DEF Goto, NextJob
    <3>4. Known(cur[w].job)
      BY <3>1, <3>3, PlacesOfReports DEF ReportsAreKnown
    <3> QED BY <2>3, <3>1, <3>4 DEF Known, WillBeKnown, Content
  <2>4. CASE Begin(w) /\ Content(cur'[w].job) = "blank"
    <3>1. UNCHANGED message
      BY <2>4 DEF Begin, chatVars
    <3> QED BY <2>4, <3>1 DEF WillBeKnown, Content
  <2> QED BY <1>3, <2>1, <2>2, <2>3, <2>4, HowWorkersArrive
<1>4. ASSUME NEW w \in Workers, pc'[w] = "awaitSent"
      PROVE  WillBeKnown(cur'[w].job) \/ Waiting(w, "reportSent")'
  <2>1. CASE Standing(w) /\ Known(cur[w].job)
    <3>1. pc[w] = "awaitSent" /\ cur'[w] = cur[w]
      BY <1>4, <2>1 DEF Standing
    <3>2. cur[w].job \in Jobs /\ row[cur[w].job].status # "absent"
      BY <3>1, CurIsMine DEF Handling, ReportsAreKnown
    <3>3. WillBeKnown(cur[w].job)
      BY <2>1, <3>2, KnownStays
    <3> QED BY <3>1, <3>3
  <2>2. CASE Standing(w) /\ Waiting(w, "reportSent")
    <3>1. PICK x \in writes : x.by = cur[w].token /\ x.job = cur[w].job /\ x.step = "reportSent"
      BY <2>2 DEF Waiting
    <3>2. CASE x \in writes'
      BY <2>2, <3>1, <3>2 DEF Waiting, Standing
    <3>3. CASE x \notin writes'
      <4>1. ASSUME NEW v \in Workers, ReportRead(v) PROVE writes \subseteq writes'
        BY <4>1, ReportEffect
      <4>2. ASSUME NEW j \in Jobs, Provider(j) PROVE writes \subseteq writes'
        BY <4>2, StatusEffect
      <4>3. ASSUME NEW y \in writes, CoreWrites(y) PROVE y = x /\ WillBeKnown(y.job)
        BY <3>3, <4>3, WriteMakesKnown DEF CoreWrites
      <4>4. WillBeKnown(x.job)
        BY <3>3, <4>1, <4>2, <4>3, WhoChanges
      <4> QED BY <2>2, <3>1, <4>4 DEF Standing
    <3> QED BY <3>2, <3>3
  <2>3. CASE ReportRead(w) /\ cur'[w] = cur[w]
    <3>1. PICK step \in ReportSteps :
             /\ pc[w] = step /\ cur[w] \in Claimed
             /\ \/ Unavailable(w, step) \/ Unanswered(w, step) \/ Answered(w, step)
                \/ Goto(w, AwaitOf[step]) /\ writes' = writes \cup {MyWrite(w, step)}
      BY <2>3, ReportEffect
    <3>2. pc \in [Workers -> ChatPC]
      BY DEF TypeOK, QueueTypeOK
    <3>3. step = "reportSent" /\ writes' = writes \cup {MyWrite(w, step)}
      <4>1. ~Unavailable(w, step) /\ ~Unanswered(w, step) /\ ~Answered(w, step)
        BY <1>4, <3>2, ReportsLead DEF Goto, NextJob
      <4>2. Goto(w, AwaitOf[step]) => step = "reportSent"
        BY <1>4, <3>2, PlacesOfReports DEF Goto, ReportSteps
      <4> QED BY <3>1, <4>1, <4>2
    <3>4. LET x == MyWrite(w, step) IN
          x \in writes' /\ x.by = cur[w].token /\ x.job = cur[w].job /\ x.step = "reportSent"
      BY <3>1, <3>3, MyWriteType
    <3> QED BY <2>3, <3>4 DEF Waiting
  <2>4. Standing(w) => Known(cur[w].job) \/ Waiting(w, "reportSent")
    BY <1>4 DEF Standing, ReportsAreKnown
  <2> QED BY <1>4, <2>1, <2>2, <2>3, <2>4, HowWorkersArrive
<1>5. ASSUME NEW j \in Jobs, row'[j].status = "succeeded" PROVE WillBeKnown(j)
  <2>1. CASE row[j].status = "succeeded"
    BY <2>1, KnownStays DEF SucceededIsKnown
  <2>2. CASE row[j].status # "succeeded"
    <3>1. row[j].status = "running" /\ \E w \in Workers : pc[w] = "complete" /\ cur[w].job = j
      BY <1>5, <2>2, RowsMove DEF Moves, Complete
    <3>2. Known(j)
      BY <3>1 DEF ReportsAreKnown
    <3> QED BY <3>1, <3>2, KnownStays
  <2> QED BY <2>1, <2>2
<1>6. ReportsAreKnown'
  BY <1>1, <1>2, <1>3, <1>4 DEF ReportsAreKnown, Known, WillBeKnown, Content
<1>7. SucceededIsKnown'
  BY <1>5 DEF SucceededIsKnown, Known, WillBeKnown, Content
<1> QED BY <1>6, <1>7

-----------------------------------------------------------------------------
(* Every repetition is paid for.  An acceptance, a worker that may still     *)
(* send and a job that may be claimed again cost one each: the bill of a     *)
(* message grows only by a fault.                                            *)

Share(w, j) == IF MaySend(w, j) THEN 1 ELSE 0
OpenShare(j) == IF Open(j) THEN 1 ELSE 0

\* How sets of workers that differ in one worker at most compare.
LEMMA Counting ==
  ASSUME NEW A \in SUBSET Workers, NEW B \in SUBSET Workers, NEW w \in Workers,
         \A v \in Workers \ {w} : v \in B => v \in A
  PROVE  /\ Cardinality(A) \in Nat /\ Cardinality(B) \in Nat
         /\ Cardinality(B) + (IF w \in A THEN 1 ELSE 0) <= Cardinality(A) + (IF w \in B THEN 1 ELSE 0)
<1>1. IsFiniteSet(A) /\ IsFiniteSet(B) /\ Cardinality(A) \in Nat /\ Cardinality(B) \in Nat
  BY ChatAssumption, FS_Subset, FS_CardinalityType
<1>2. /\ IsFiniteSet(A \ {w})
      /\ Cardinality(A \ {w}) = IF w \in A THEN Cardinality(A) - 1 ELSE Cardinality(A)
  BY <1>1, FS_RemoveElement
<1>3. Cardinality(B \ {w}) = IF w \in B THEN Cardinality(B) - 1 ELSE Cardinality(B)
  BY <1>1, FS_RemoveElement
<1>4. B \ {w} \subseteq A \ {w}
  OBVIOUS
<1>5. Cardinality(B \ {w}) <= Cardinality(A \ {w})
  BY <1>2, <1>4, FS_Subset
<1> QED BY <1>1, <1>2, <1>3, <1>5

\* If one worker's share and the rest of the bill are balanced, the bill is.
LEMMA Exchange ==
  ASSUME TypeOK, TypeOK', FaultsPay, NEW w \in Workers, NEW j \in Jobs, message[j].exists,
         \A v \in Workers \ {w} : MaySend(v, j)' => MaySend(v, j),
         sends'[j] + Share(w, j)' + OpenShare(j)' + faults
           <= sends[j] + Share(w, j) + OpenShare(j) + faults'
  PROVE  sends'[j] + Cardinality(Senders(j)') + OpenShare(j)' <= 1 + faults'
<1> DEFINE A == Senders(j)
           B == Senders(j)'
<1>1. A \in SUBSET Workers /\ B \in SUBSET Workers
  BY DEF Senders
<1>2. \A v \in Workers : (v \in A <=> MaySend(v, j)) /\ (v \in B <=> MaySend(v, j)')
  BY DEF Senders
<1>3. /\ Share(w, j) = (IF w \in A THEN 1 ELSE 0) /\ Share(w, j)' = (IF w \in B THEN 1 ELSE 0)
      /\ OpenShare(j) \in {0, 1} /\ OpenShare(j)' \in {0, 1}
  BY <1>2 DEF Share, OpenShare
<1>4. sends[j] + Cardinality(A) + OpenShare(j) <= 1 + faults
  BY DEF FaultsPay, OpenShare
<1>5. sends[j] \in Nat /\ sends'[j] \in Nat /\ faults \in Nat /\ faults' \in Nat
  BY QueueAssumption DEF TypeOK, QueueTypeOK
<1> HIDE DEF A, B
<1>6. /\ Cardinality(A) \in Nat /\ Cardinality(B) \in Nat
      /\ Cardinality(B) + (IF w \in A THEN 1 ELSE 0) <= Cardinality(A) + (IF w \in B THEN 1 ELSE 0)
  BY <1>1, <1>2, Counting
<1>7. sends'[j] + Cardinality(B) + OpenShare(j)' <= 1 + faults'
  BY <1>3, <1>4, <1>5, <1>6
<1> QED BY <1>7 DEF B

\* The same for a step that leaves every worker where it is.
LEMMA StandingExchange ==
  ASSUME TypeOK, TypeOK', FaultsPay, NEW j \in Jobs, message[j].exists,
         UNCHANGED <<batch, cur, pc, sends>>, OpenShare(j)' + faults <= OpenShare(j) + faults'
  PROVE  sends'[j] + Cardinality(Senders(j)') + OpenShare(j)' <= 1 + faults'
<1>1. Senders(j)' = Senders(j)
  BY DEF Senders, MaySend
<1>2. Senders(j) \in SUBSET Workers
  BY DEF Senders
<1>3. Cardinality(Senders(j)) \in Nat
  BY <1>2, ChatAssumption, FS_Subset, FS_CardinalityType
<1>4. sends[j] + Cardinality(Senders(j)) + OpenShare(j) <= 1 + faults
  BY DEF FaultsPay, OpenShare
<1>5. /\ OpenShare(j) \in {0, 1} /\ OpenShare(j)' \in {0, 1}
      /\ sends[j] \in Nat /\ sends'[j] = sends[j] /\ faults \in Nat /\ faults' \in Nat
  BY QueueAssumption DEF TypeOK, QueueTypeOK, OpenShare
<1> QED BY <1>1, <1>3, <1>4, <1>5

\* A worker that may send j has a claim on it in hand.
LEMMA SendersHaveIt ==
  ASSUME NEW w, NEW j, MaySend(w, j)
  PROVE  \E s \in Mine(w) : s.job = j
  BY DEF MaySend, Mine, Unspent, Handling

\* Who has a claim on j and may not send it has spent it: it is what the worker
\* is handling, past its acceptance or its failure.
LEMMA MineMaySend ==
  ASSUME TypeOK, NEW w \in Workers, NEW j, NEW s \in Mine(w), s.job = j, ~MaySend(w, j)
  PROVE  Handling(w) /\ s = cur[w] /\ pc[w] \notin Unspent
  BY DEF MaySend, Mine

\* A job whose row is left alone opens only if its claim is dropped.
LEMMA OpensByDropping ==
  ASSUME NEW w \in Workers, NEW j \in Jobs, row'[j] = row[j],
         \A v \in Workers \ {w} : Mine(v)' = Mine(v), Open(j)', ~Open(j)
  PROVE  \E s \in Mine(w) : s.job = j /\ Holds(s) /\ s \notin Mine(w)'
<1>1. PICK v \in Workers : \E s \in Mine(v) : s.job = j /\ Holds(s)
  BY DEF Open, Reclaimable, Held
<1>2. PICK s \in Mine(v) : s.job = j /\ Holds(s)
  BY <1>1
<1>3. s \notin Mine(v)'
  BY <1>2 DEF Open, Reclaimable, Held, Holds
<1>4. v = w
  BY <1>2, <1>3
<1> QED BY <1>2, <1>3, <1>4

\* No row opens while the claims stay and the row keeps what matters of it.
LEMMA OpenStays ==
  ASSUME NEW j \in Jobs, \A v \in Workers : Mine(v)' = Mine(v),
         row'[j].status = row[j].status, row'[j].leased = row[j].leased,
         row'[j].token = row[j].token
  PROVE  Open(j)' = Open(j)
<1>1. Held(j)' <=> Held(j)
  BY DEF Held, Holds
<1> QED BY <1>1 DEF Open, Reclaimable

\* The shares of a step are balanced.
Balanced(w, j) ==
  sends'[j] + Share(w, j)' + OpenShare(j)' + faults
    <= sends[j] + Share(w, j) + OpenShare(j) + faults'

\* What the numbers of a bill are.
LEMMA BillType ==
  ASSUME TypeOK, TypeOK', NEW w \in Workers, NEW j \in Jobs
  PROVE  /\ sends[j] \in Nat /\ sends'[j] \in Nat /\ faults \in Nat /\ faults' \in Nat
         /\ Share(w, j) \in {0, 1} /\ Share(w, j)' \in {0, 1}
         /\ OpenShare(j) \in {0, 1} /\ OpenShare(j)' \in {0, 1}
         /\ MaySend(w, j) <=> Share(w, j) = 1
         /\ MaySend(w, j)' <=> Share(w, j)' = 1
         /\ Open(j) <=> OpenShare(j) = 1
         /\ Open(j)' <=> OpenShare(j)' = 1
         /\ Fault => faults' = faults + 1
         /\ NoFault => faults' = faults
  BY QueueAssumption DEF TypeOK, QueueTypeOK, Share, OpenShare, Fault, NoFault

\* Claiming a job turns the chance of a claim into the claim.
LEMMA ClaimIsBalanced ==
  ASSUME TypeOK, TypeOK', NEW w \in Workers, ClaimJobs(w), NEW j \in Jobs
  PROVE  Balanced(w, j)
<1>0. /\ row \in [Jobs -> Row] /\ pc \in [Workers -> ChatPC]
      /\ batch \in [Workers -> SUBSET Claimed]
  BY DEF TypeOK, QueueTypeOK
<1>1. PICK S \in SUBSET Jobs : Claim(w, S)
  BY DEF ClaimJobs
<1>2. /\ pc[w] = "idle" /\ pc'[w] = "batch" /\ batch'[w] = {AsClaimed(i) : i \in S}
      /\ sends'[j] = sends[j] /\ NoFault
  BY <1>0, <1>1 DEF Claim, ClaimJobs, chatVars, NoFault
<1>3. CASE j \in S
  <2>1. Open(j)
    BY <1>1, <1>3 DEF Claim, Claimable, Open, Reclaimable
  <2>2. ~Open(j)'
    <3>1. row'[j] = [row[j] EXCEPT !.status = "running", !.attempt = @ + 1,
                                   !.token = lastToken + 1, !.leased = TRUE]
      BY <1>1, <1>3 DEF Claim
    <3>2. row'[j].status = "running" /\ row'[j].token = lastToken + 1 /\ row'[j].leased
      BY <1>0, <3>1 DEF Row
    <3>3. AsClaimed(j) \in Mine(w)' /\ AsClaimed(j).job = j /\ AsClaimed(j).token = lastToken + 1
      BY <1>2, <1>3 DEF Mine, AsClaimed
    <3>4. Held(j)'
      BY <3>2, <3>3 DEF Held, Holds
    <3> QED BY <3>2, <3>4 DEF Open, Reclaimable
  <2> QED BY <1>2, <2>1, <2>2, BillType DEF Balanced
<1>4. CASE j \notin S
  <2>1. ~MaySend(w, j)'
    BY <1>2, <1>4 DEF MaySend, Unspent, AsClaimed
  <2>2. row'[j] = row[j]
    BY <1>1, <1>4 DEF Claim
  <2>3. Open(j)' => Open(j) \/ MaySend(w, j)
    <3>1. \A v \in Workers \ {w} : Mine(v)' = Mine(v)
      <4>1. WorkerStep(w) /\ QueueTypeOK(ChatPC)
        BY DEF WorkerStep, TypeOK
      <4> QED BY <4>1, OthersStand DEF Standing, Mine, Handling
    <3>2. \A s \in Mine(w) : s.job = j => MaySend(w, j)
      BY <1>2, MineMaySend DEF Handling
    <3> QED BY <2>2, <3>1, <3>2, OpensByDropping
  <2> QED BY <1>2, <2>1, <2>3, BillType DEF Balanced
<1> QED BY <1>3, <1>4

\* A worker that goes from one place to another, or on from a job whose failure
\* it has reported, opens nothing.
LEMMA GoingOnOpensNothing ==
  ASSUME TypeOK, QueueInv, FaultsPay, NEW w \in Workers, Proceeds(w), NEW j \in Jobs,
         NextJob(w) => pc[w] \in {"reportFailed", "awaitFailed"},
         \A v \in Workers \ {w} : Mine(v)' = Mine(v)
  PROVE  Open(j)' => Open(j)
<1>0. row' = row /\ pc \in [Workers -> ChatPC] /\ cur \in [Workers -> Claimed \cup {NoJob}]
  BY DEF Proceeds, TypeOK, QueueTypeOK
<1> SUFFICES ASSUME Open(j)', ~Open(j) PROVE FALSE
  OBVIOUS
<1>1. PICK s \in Mine(w) : s.job = j /\ Holds(s) /\ s \notin Mine(w)'
  BY <1>0, OpensByDropping
<1>2. ASSUME NEW step \in ChatPC \ {"idle", "batch"}, Goto(w, step) PROVE FALSE
  <2>1. pc'[w] = step /\ cur' = cur /\ batch' = batch
    BY <1>0, <1>2 DEF Goto
  <2>2. Handling(w)' /\ Handling(w)
    BY <2>1 DEF Handling, Proceeds
  <2> QED BY <1>1, <2>1, <2>2 DEF Mine
<1>3. CASE NextJob(w)
  <2>1. batch' = batch /\ pc[w] \in {"reportFailed", "awaitFailed"}
    BY <1>3 DEF NextJob
  <2>2. s = cur[w]
    BY <1>1, <2>1 DEF Mine
  <2> QED BY <1>1, <2>1, <2>2 DEF FaultsPay
<1> QED BY <1>2, <1>3 DEF Proceeds

\* A worker that goes on gets a chance to send only where it had spent it.
LEMMA GoingOnShares ==
  ASSUME TypeOK, NEW w \in Workers, Proceeds(w), NEW j, MaySend(w, j)', ~MaySend(w, j)
  PROVE  cur[w].job = j /\ pc[w] \notin Unspent /\ pc'[w] \in Unspent
<1>0. pc \in [Workers -> ChatPC] /\ cur \in [Workers -> Claimed \cup {NoJob}]
  BY DEF TypeOK, QueueTypeOK
<1>1. CASE \E step \in ChatPC \ {"idle", "batch"} : Goto(w, step)
  BY <1>0, <1>1 DEF Goto, MaySend
<1>2. CASE NextJob(w)
  BY <1>0, <1>2 DEF NextJob, MaySend, Unspent
<1> QED BY <1>1, <1>2 DEF Proceeds

\* Sending: an acceptance takes the place of the worker's chance of one, or
\* comes with a fault.
LEMMA SendIsBalanced ==
  ASSUME TypeOK, TypeOK', QueueInv, FaultsPay, NEW w \in Workers, Send(w), NEW j \in Jobs,
         \A v \in Workers \ {w} : Mine(v)' = Mine(v)
  PROVE  Balanced(w, j)
<1>0. /\ sends \in [Jobs -> Nat] /\ pc \in [Workers -> ChatPC] /\ pc[w] = "send" /\ Handling(w)
      /\ Proceeds(w)
  BY HandlerProceeds DEF TypeOK, QueueTypeOK, Send, Handling
<1>1. ~NextJob(w)
  BY <1>0, SendEffect DEF NextJob, Goto
<1>2. Open(j)' => Open(j)
  BY <1>0, <1>1, GoingOnOpensNothing
<1>3. MaySend(w, j)' => MaySend(w, j)
  BY <1>0, GoingOnShares DEF Unspent
<1>4. CASE cur[w].job # j \/ UNCHANGED sends
  <2>1. sends'[j] = sends[j]
    BY <1>0, <1>4, SendEffect
  <2>2. Fault \/ NoFault
    BY <1>0 DEF Proceeds
  <2> QED BY <1>2, <1>3, <2>1, <2>2, BillType DEF Balanced
<1>5. CASE cur[w].job = j /\ ~UNCHANGED sends
  <2>1. sends'[j] = sends[j] + 1
    BY <1>0, <1>5, SendEffect
  <2>2. MaySend(w, j)
    BY <1>0, <1>5 DEF MaySend, Unspent
  <2>3. CASE Fault
    BY <1>2, <2>1, <2>2, <2>3, BillType DEF Balanced
  <2>4. CASE ~Fault
    <3>1. Goto(w, "reportSent") /\ NoFault
      BY <1>5, <2>4, SendEffect
    <3>2. ~MaySend(w, j)'
      <4>1. pc'[w] = "reportSent" /\ batch' = batch
        BY <1>0, <3>1 DEF Goto
      <4>2. \A s \in batch[w] : s.job # j
        BY <1>0, <1>5 DEF QueueInv, ClaimsAreDistinct
      <4> QED BY <4>1, <4>2 DEF MaySend, Unspent
    <3> QED BY <1>2, <2>1, <2>2, <3>1, <3>2, BillType DEF Balanced
  <2> QED BY <2>3, <2>4
<1> QED BY <1>4, <1>5

\* Reporting: only a fault sends a worker whose mail was taken back to the queue.
LEMMA ReportIsBalanced ==
  ASSUME TypeOK, TypeOK', QueueInv, FaultsPay, NEW w \in Workers, ReportRead(w) \/ ReportAnswered(w),
         NEW j \in Jobs, message[j].exists, \A v \in Workers \ {w} : Mine(v)' = Mine(v)
  PROVE  Balanced(w, j)
<1>0. pc \in [Workers -> ChatPC] /\ Proceeds(w)
  BY HandlerProceeds DEF TypeOK, QueueTypeOK
<1>1. sends'[j] = sends[j] /\ (Fault \/ NoFault)
  BY <1>0 DEF Proceeds, ReportRead, ReportAnswered, chatVars
<1>2. PICK step \in ReportSteps :
         /\ pc[w] \in {step, AwaitOf[step]}
         /\ \/ ~message[cur[w].job].exists
            \/ Goto(w, AwaitOf[step])
            \/ Answered(w, step)
            \/ (Unanswered(w, step) \/ Unavailable(w, step)) /\ Fault
         /\ \/ Goto(w, AwaitOf[step]) \/ Answered(w, step)
            \/ Unanswered(w, step) \/ Unavailable(w, step)
  <2>1. CASE ReportRead(w)
    BY <2>1, ReportEffect
  <2>2. CASE ReportAnswered(w)
    BY <2>2 DEF ReportAnswered
  <2> QED BY <2>1, <2>2
<1>3. NextJob(w) => pc[w] \in {"reportFailed", "awaitFailed"}
  <2>1. ASSUME NextJob(w), NEW p \in {"complete", "failForGood", "fail", "release", "awaitSent",
                                     "awaitRefused", "awaitFailed"}, Goto(w, p)
        PROVE  FALSE
    BY <1>0, <2>1 DEF NextJob, Goto
  <2>2. step # "reportFailed" => ~NextJob(w)
    BY <1>2, <2>1, ReportsLead, PlacesOfReports DEF ReportSteps
  <2> QED BY <1>2, <2>2, PlacesOfReports
<1>4. Open(j)' => Open(j)
  BY <1>0, <1>3, GoingOnOpensNothing
<1>5. MaySend(w, j)' => MaySend(w, j) \/ Fault
  <2> SUFFICES ASSUME MaySend(w, j)', ~MaySend(w, j) PROVE Fault
    OBVIOUS
  <2>1. cur[w].job = j /\ pc[w] \notin Unspent /\ pc'[w] \in Unspent
    BY <1>0, GoingOnShares
  <2>2. ~Goto(w, AwaitOf[step])
    <3>1. step # "reportRefused"
      BY <1>2, <2>1, PlacesOfReports DEF Unspent
    <3> QED BY <1>0, <2>1, <3>1, PlacesOfReports DEF Goto, Unspent, ReportSteps
  <2>3. ~Answered(w, step)
    <3>1. step # "reportRefused"
      BY <1>2, <2>1, PlacesOfReports DEF Unspent
    <3> QED BY <1>0, <2>1, <3>1, ReportsLead DEF Goto, NextJob, Unspent
  <2> QED BY <1>2, <2>1, <2>2, <2>3
<1> QED BY <1>1, <1>4, <1>5, BillType DEF Balanced

\* Beginning and resolving keep the chance of sending, and open nothing.
LEMMA BeginIsBalanced ==
  ASSUME TypeOK, TypeOK', QueueInv, FaultsPay, NEW w \in Workers, Begin(w) \/ Resolve(w),
         NEW j \in Jobs, \A v \in Workers \ {w} : Mine(v)' = Mine(v)
  PROVE  Balanced(w, j)
<1>0. pc \in [Workers -> ChatPC] /\ cur \in [Workers -> Claimed \cup {NoJob}]
      /\ batch \in [Workers -> SUBSET Claimed]
  BY DEF TypeOK, QueueTypeOK
<1>1. CASE Begin(w)
  <2>1. PICK s \in batch[w] : \E step \in {"resolve", "complete"} : Take(w, s, step)
    BY <1>1 DEF Begin
  <2>2. /\ pc[w] = "batch" /\ pc'[w] \in {"resolve", "complete"} /\ cur'[w] = s /\ batch'[w] = batch[w] \ {s}
        /\ row' = row /\ NoFault
    BY <1>0, <2>1 DEF Take, NoFault
  <2>3. sends'[j] = sends[j]
    BY <1>1 DEF Begin, chatVars
  <2>4. Mine(w)' = Mine(w)
    BY <2>2 DEF Mine, Handling
  <2>5. Open(j)' = Open(j)
    BY <2>2, <2>4, OpenStays
  <2>6. MaySend(w, j)' => MaySend(w, j)
    BY <2>2 DEF MaySend
  <2> QED BY <2>2, <2>3, <2>5, <2>6, BillType DEF Balanced
<1>2. CASE Resolve(w)
  <2>1. Proceeds(w) /\ ~NextJob(w) /\ pc[w] = "resolve" /\ NoFault /\ sends'[j] = sends[j]
    BY <1>0, <1>2, HandlerProceeds DEF Resolve, NextJob, Goto, NoFault, chatVars
  <2>2. Open(j)' => Open(j)
    BY <2>1, GoingOnOpensNothing
  <2>3. MaySend(w, j)' => MaySend(w, j)
    BY <2>1, GoingOnShares DEF Unspent
  <2> QED BY <2>1, <2>2, <2>3, BillType DEF Balanced
<1> QED BY <1>1, <1>2

\* Leaving a batch gives up every chance of sending; what it opens was in hand.
LEMMA LeavingShares ==
  ASSUME TypeOK, NEW w \in Workers, LeaveBatch(w), NEW j
  PROVE  ~MaySend(w, j)'
  BY DEF LeaveBatch, MaySend, Unspent, TypeOK, QueueTypeOK

\* A crash may open what had been sent; it is a fault.
LEMMA CrashIsBalanced ==
  ASSUME TypeOK, TypeOK', NEW w \in Workers, CrashChat(w), NEW j \in Jobs
  PROVE  Balanced(w, j)
<1>1. LeaveBatch(w) /\ Fault /\ sends'[j] = sends[j]
  BY DEF CrashChat, Crash, chatVars
<1> QED BY <1>1, LeavingShares, BillType DEF Balanced

\* The queue's own steps: what is given up was in hand, what is completed is
\* closed, and an update that fails is a fault.
LEMMA QueueStepIsBalanced ==
  ASSUME TypeOK, TypeOK', QueueInv, FaultsPay, NEW w \in Workers, QueueStep(w), NEW j \in Jobs,
         \A v \in Workers \ {w} : Mine(v)' = Mine(v)
  PROVE  Balanced(w, j)
<1>0. /\ Complete(w) \/ Release(w) \/ Fail(w)
      /\ pc \in [Workers -> ChatPC] /\ cur \in [Workers -> Claimed \cup {NoJob}]
      /\ row \in [Jobs -> Row]
      /\ QueueTypeOK(ChatPC) /\ Handling(w) /\ cur[w] \in Claimed /\ cur[w] \in Mine(w)
  <2>1. QueueTypeOK(ChatPC) /\ (Complete(w) \/ Release(w) \/ Fail(w))
    BY DEF TypeOK, QueueStep
  <2>2. Handling(w)
    BY <2>1, QueueStepEffect
  <2> QED BY <2>1, <2>2, CurIsMine DEF QueueTypeOK
<1>1. sends'[j] = sends[j]
  BY DEF QueueStep, chatVars
<1>2. row'[j] = row[j] \/ (j = cur[w].job /\ Holds(cur[w]) /\ row'[j].token = 0)
  BY <1>0, QueueStepMoves
<1>3. row'[j] # row[j] => j = cur[w].job
  BY <1>2
\* What a worker short of the send leaves behind it had a claim on.
<1>4. ASSUME pc[w] \in Unspent PROVE Open(j)' => Open(j) \/ MaySend(w, j)
  <2>1. CASE row'[j] # row[j]
    BY <1>3, <1>4, <2>1 DEF MaySend
  <2>2. CASE row'[j] = row[j]
    BY <1>4, <2>2, OpensByDropping, MineMaySend
  <2> QED BY <2>1, <2>2
<1>5. CASE Release(w)
  <2>1. LeaveBatch(w) /\ (Fault \/ NoFault) /\ pc[w] \in Unspent
    BY <1>5 DEF Release, UpdateFails, Unspent
  <2> QED BY <1>1, <1>4, <2>1, LeavingShares, BillType DEF Balanced
<1>6. CASE Fail(w)
  <2>1. pc[w] \in Unspent /\ (Fault \/ NoFault)
    BY <1>6 DEF Fail, UpdateFails, Unspent
  <2>2. CASE LeaveBatch(w)
    BY <1>1, <1>4, <2>1, <2>2, LeavingShares, BillType DEF Balanced
  <2>3. CASE Goto(w, "reportFailed") \/ NextJob(w)
    <3>1. batch' = batch /\ pc'[w] \notin Unspent
      BY <1>0, <2>3 DEF Goto, NextJob, Unspent
    <3>2. MaySend(w, j)' => MaySend(w, j) /\ j # cur[w].job
      BY <1>0, <3>1 DEF MaySend, QueueInv, ClaimsAreDistinct
    <3>3. CASE j = cur[w].job
      BY <1>1, <1>4, <2>1, <3>2, <3>3, BillType DEF Balanced
    <3>4. CASE j # cur[w].job
      <4>1. row'[j] = row[j]
        BY <1>3, <3>4
      <4>2. \A s \in Mine(w) : s.job = j => s \in Mine(w)'
        BY <3>1, <3>4 DEF Mine
      <4>3. Open(j)' => Open(j)
        BY <4>1, <4>2, OpensByDropping
      <4> QED BY <1>1, <2>1, <3>2, <4>3, BillType DEF Balanced
    <3> QED BY <3>3, <3>4
  <2> QED BY <1>6, <2>2, <2>3 DEF Fail
<1>7. CASE Complete(w)
  <2>1. pc[w] \notin Unspent
    BY <1>7 DEF Complete, Unspent
  <2>2. CASE FencedUpdate(cur[w], CompletedRow(cur[w])) /\ NoFault /\ NextJob(w)
    <3>1. batch' = batch /\ pc'[w] \notin Unspent
      BY <1>0, <2>2 DEF NextJob, Unspent
    <3>2. MaySend(w, j)' => MaySend(w, j)
      BY <3>1 DEF MaySend
    <3>3. Open(j)' => Open(j)
      <4>1. CASE row'[j] # row[j]
        <5>1. row'[j] = CompletedRow(cur[w])
          BY <1>0, <1>3, <2>2, <4>1 DEF FencedUpdate
        <5>2. CompletedRow(cur[w]).status = "succeeded"
          <6>1. row[cur[w].job] \in Row
            BY <1>0 DEF Claimed
          <6> QED BY <6>1, FreedFields DEF CompletedRow, Status
        <5> QED BY <5>1, <5>2 DEF Open, Reclaimable
      <4>2. CASE row'[j] = row[j]
        <5> SUFFICES ASSUME Open(j)', ~Open(j) PROVE FALSE
          OBVIOUS
        <5>1. PICK s \in Mine(w) : s.job = j /\ Holds(s) /\ s \notin Mine(w)'
          BY <4>2, OpensByDropping
        <5>2. s = cur[w]
          BY <3>1, <5>1 DEF Mine
        <5>3. row'[j] = CompletedRow(cur[w])
          BY <1>0, <2>2, <5>1, <5>2 DEF FencedUpdate
        <5>4. CompletedRow(cur[w]).token = 0
          <6>1. row[cur[w].job] \in Row
            BY <1>0 DEF Claimed
          <6> QED BY <6>1, FreedFields DEF CompletedRow, Status
        <5>5. row[j].token = s.token /\ s.token \in 1..lastToken /\ lastToken \in Nat
          BY <1>0, <5>1 DEF Holds, QueueInv, ClaimsAreDistinct, QueueTypeOK
        <5> QED BY <4>2, <5>3, <5>4, <5>5
      <4> QED BY <4>1, <4>2
    <3> QED BY <1>1, <2>2, <3>2, <3>3, BillType DEF Balanced
  <2>3. CASE UpdateFails(cur[w], CompletedRow(cur[w])) /\ Goto(w, "fail")
    <3>1. Fault /\ batch' = batch /\ cur' = cur
      BY <2>3 DEF UpdateFails, Goto
    <3>3. Mine(w)' = Mine(w)
      BY <1>0, <2>3 DEF Goto, Mine, Handling
    <3>4. Open(j)' => Open(j)
      <4>1. CASE row'[j] = row[j]
        BY <3>3, <4>1, OpensByDropping
      <4>2. CASE row'[j] # row[j]
        <5>1. row'[j] = CompletedRow(cur[w])
          BY <1>0, <1>3, <2>3, <4>2 DEF FencedUpdate, UpdateFails
        <5>2. CompletedRow(cur[w]).status = "succeeded"
          <6>1. row[cur[w].job] \in Row
            BY <1>0 DEF Claimed
          <6> QED BY <6>1, FreedFields DEF CompletedRow, Status
        <5> QED BY <5>1, <5>2 DEF Open, Reclaimable
      <4> QED BY <4>1, <4>2
    <3> QED BY <1>1, <3>1, <3>4, BillType DEF Balanced
  <2> QED BY <1>7, <2>2, <2>3 DEF Complete
<1> QED BY <1>0, <1>5, <1>6, <1>7

\* Nobody works on a message before its commit.
LEMMA CommitStartsTheBill ==
  ASSUME TypeOK, TypeOK', ReportsAreKnown, NEW j \in Jobs, Commit(j)
  PROVE  sends'[j] + Cardinality(Senders(j)') + OpenShare(j)' <= 1 + faults'
<1>1. row[j].status = "absent" /\ UNCHANGED <<batch, cur, pc, sends>>
  BY DEF Commit, Enqueue
<1>2. sends'[j] = 0
  BY <1>1 DEF ReportsAreKnown
<1>3. Senders(j)' = {}
  <2>1. ASSUME NEW w \in Workers, MaySend(w, j) PROVE FALSE
    BY <1>1, <2>1, SendersHaveIt DEF ReportsAreKnown
  <2>2. Senders(j) = {}
    BY <2>1 DEF Senders
  <2> QED BY <1>1, <2>2 DEF Senders, MaySend
<1>4. OpenShare(j)' \in {0, 1} /\ faults' \in Nat
  BY QueueAssumption DEF OpenShare, TypeOK, QueueTypeOK
<1> QED BY <1>2, <1>3, <1>4, FS_EmptySet

\* The steps outside the workers open nothing without a fault.
LEMMA OutsideOpensNothing ==
  ASSUME TypeOK, TypeOK', OutsideStep, NEW j \in Jobs, ~Commit(j)
  PROVE  OpenShare(j)' + faults <= OpenShare(j) + faults'
<1>0. row \in [Jobs -> Row] /\ row[j] \in Row
  BY DEF TypeOK, QueueTypeOK
<1>1. \A v \in Workers : Mine(v)' = Mine(v)
  BY OutsideLeavesWorkers DEF Mine, Handling
<1>2. /\ OpenShare(j) \in {0, 1} /\ OpenShare(j)' \in {0, 1} /\ faults \in Nat /\ faults' \in Nat
      /\ Open(j) <=> OpenShare(j) = 1
      /\ Open(j)' <=> OpenShare(j)' = 1
  BY QueueAssumption DEF OpenShare, TypeOK, QueueTypeOK
<1>3. ASSUME row'[j].status = row[j].status, row'[j].leased = row[j].leased,
             row'[j].token = row[j].token, faults' = faults
      PROVE  OpenShare(j)' + faults <= OpenShare(j) + faults'
  BY <1>1, <1>2, <1>3, OpenStays
<1>4. ASSUME NEW i \in Jobs, Commit(i) PROVE OpenShare(j)' + faults <= OpenShare(j) + faults'
  BY <1>0, <1>3, <1>4 DEF Commit, Enqueue
<1>5. ASSUME NEW i \in Jobs, CancelIntent(i) PROVE OpenShare(j)' + faults <= OpenShare(j) + faults'
  <2>1. row' = [row EXCEPT ![i].status = "cancelled"] /\ faults' = faults
    BY <1>5 DEF CancelIntent
  <2>2. CASE i # j
    BY <1>0, <1>3, <2>1, <2>2
  <2>3. CASE i = j
    <3>1. row'[j].status = "cancelled"
      BY <1>0, <2>1, <2>3 DEF Row
    <3>2. ~Open(j)'
      BY <3>1 DEF Open, Reclaimable
    <3> QED BY <1>2, <2>1, <3>2
  <2> QED BY <2>2, <2>3
<1>6. ASSUME NEW i \in Jobs, RetryMessage(i) PROVE OpenShare(j)' + faults <= OpenShare(j) + faults'
  <2>1. /\ row[i].status = "failed" /\ faults' = faults
        /\ row' = [row EXCEPT ![i] = [Freed(@, "pending") EXCEPT !.attempt = 0, !.due = TRUE]]
    BY <1>6 DEF RetryMessage, AdminRetry
  <2>2. CASE i # j
    BY <1>0, <1>3, <2>1, <2>2
  <2>3. CASE i = j
    <3>1. Open(j)
      BY <2>1, <2>3 DEF Open, Reclaimable
    <3> QED BY <1>2, <2>1, <3>1
  <2> QED BY <2>2, <2>3
<1>7. ASSUME NEW i \in Jobs, TimePasses(i) PROVE OpenShare(j)' + faults <= OpenShare(j) + faults'
  <2>1. CASE BackoffElapses(i)
    <3>1. row' = [row EXCEPT ![i].due = TRUE] /\ faults' = faults
      BY <2>1 DEF BackoffElapses
    <3>2. CASE i # j
      BY <1>0, <1>3, <3>1, <3>2
    <3>3. CASE i = j
      <4>1. row'[j].status = row[j].status /\ row'[j].leased = row[j].leased
            /\ row'[j].token = row[j].token
        BY <1>0, <3>1, <3>3 DEF Row
      <4> QED BY <1>3, <3>1, <4>1
    <3> QED BY <3>2, <3>3
  <2>2. CASE LeaseExpires(i)
    <3>1. /\ row' = [row EXCEPT ![i].leased = FALSE]
          /\ IF Held(i) THEN faults' = faults + 1 ELSE faults' = faults
      BY <2>2 DEF LeaseExpires, Fault, NoFault
    <3>2. CASE i # j
      <4>1. CASE faults' = faults
        BY <1>0, <1>3, <3>1, <3>2, <4>1
      <4>2. CASE faults' = faults + 1
        BY <1>2, <4>2
      <4> QED BY <3>1, <4>1, <4>2
    <3>3. CASE i = j
      <4>1. row'[j].status = row[j].status
        BY <1>0, <3>1, <3>3 DEF Row
      <4>2. Open(j)' => Open(j) \/ Held(j)
        BY <4>1 DEF Open, Reclaimable
      <4> QED BY <1>2, <3>1, <3>3, <4>2
    <3> QED BY <3>2, <3>3
  <2> QED BY <1>7, <2>1, <2>2 DEF TimePasses
<1>8. ASSUME UNCHANGED queueVars PROVE OpenShare(j)' + faults <= OpenShare(j) + faults'
  BY <1>3, <1>8 DEF queueVars
<1>9. ASSUME NEW i \in Jobs, DeleteMessage(i) \/ Provider(i) PROVE UNCHANGED queueVars
  BY <1>9 DEF DeleteMessage, Provider, StatusArrives
<1>10. ASSUME NEW x \in writes, CoreWrites(x) PROVE UNCHANGED queueVars
  BY <1>10 DEF CoreWrites
<1>11. UNCHANGED vars => UNCHANGED queueVars
  BY DEF vars
<1> QED BY <1>4, <1>5, <1>6, <1>7, <1>8, <1>9, <1>10, <1>11 DEF OutsideStep

\* A worker comes to report a failure by giving its claim up.
LEMMA FailureGivesUp ==
  ASSUME TypeOK, QueueInv, FaultsPay, [Next]_vars, NEW w \in Workers,
         pc'[w] \in {"reportFailed", "awaitFailed"}
  PROVE  ~Holds(cur[w])'
<1>0. /\ QueueTypeOK(ChatPC) /\ pc \in [Workers -> ChatPC] /\ row \in [Jobs -> Row]
      /\ cur \in [Workers -> Claimed \cup {NoJob}] /\ lastToken \in Nat
  BY DEF TypeOK, QueueTypeOK
<1>1. ASSUME cur'[w] = cur[w], pc[w] \in {"reportFailed", "awaitFailed"} PROVE ~Holds(cur[w])'
  <2>1. Handling(w) /\ ~Holds(cur[w])
    BY <1>1 DEF Handling, FaultsPay
  <2>2. cur[w] \in Mine(w) /\ cur[w].job \in Jobs
    BY <2>1, CurIsMine
  <2> QED BY <1>1, <2>1, <2>2, RowsMove DEF Holds
<1>2. ASSUME Fail(w) PROVE ~Holds(cur[w])'
  <2>1. Handling(w) /\ cur[w].job \in Jobs /\ cur[w] \in Mine(w) /\ Exhausted(w) \in BOOLEAN
        /\ cur[w] \in Claimed
    <3>1. Handling(w) /\ Exhausted(w) \in BOOLEAN
      BY <1>2 DEF Fail, Handling, Exhausted
    <3> QED BY <3>1, CurIsMine
  <2>2. FencedUpdate(cur[w], FailedRow(cur[w], Exhausted(w))) /\ Goto(w, "reportFailed")
    BY <1>0, <1>2 DEF Fail, NextJob, LeaveBatch, Goto
  <2>3. CASE Holds(cur[w])
    <3>1. row'[cur[w].job] = FailedRow(cur[w], Exhausted(w))
      BY <1>0, <2>1, <2>2, <2>3 DEF FencedUpdate
    <3>2. row'[cur[w].job].token = 0
      BY <1>0, <2>1, <3>1, UpdatesSettle DEF Settled
    <3>3. cur[w].token \in 1..lastToken
      BY <2>1 DEF QueueInv, ClaimsAreDistinct
    <3> QED BY <1>0, <2>2, <3>2, <3>3 DEF Holds, Goto
  <2>4. CASE ~Holds(cur[w])
    BY <2>2, <2>4 DEF FencedUpdate, Goto, Holds
  <2> QED BY <2>3, <2>4
<1>3. CASE OutsideStep
  <2>1. UNCHANGED <<cur, pc>>
    BY <1>3, OutsideLeavesWorkers
  <2> QED BY <1>1, <2>1
<1>4. ASSUME NEW v \in Workers, WorkerStep(v), v # w PROVE ~Holds(cur[w])'
  BY <1>0, <1>1, <1>4, OthersStand DEF Standing
<1>5. CASE ClaimJobs(w) \/ Begin(w) \/ CrashChat(w)
  BY <1>0, <1>5 DEF ClaimJobs, Claim, Begin, Take, CrashChat, Crash, LeaveBatch
<1>6. CASE Resolve(w) \/ Send(w)
  BY <1>0, <1>6, SendEffect DEF Resolve, Goto
<1>7. CASE ReportRead(w)
  <2>1. PICK step \in ReportSteps :
          /\ pc[w] = step
          /\ \/ Goto(w, AwaitOf[step]) \/ Answered(w, step)
             \/ Unanswered(w, step) \/ Unavailable(w, step)
    BY <1>7, ReportEffect
  <2>2. step = "reportFailed" /\ Goto(w, AwaitOf[step])
    BY <1>0, <2>1, ReportsLead, PlacesOfReports DEF Goto, NextJob, ReportSteps
  <2> QED BY <1>1, <2>1, <2>2 DEF Goto
<1>8. CASE ReportAnswered(w)
  <2>1. PICK step \in ReportSteps : Answered(w, step) \/ Unanswered(w, step)
    BY <1>8 DEF ReportAnswered
  <2> QED BY <1>0, <2>1, ReportsLead DEF Goto, NextJob
<1>9. CASE QueueStep(w)
  <2>1. ~Complete(w) /\ ~Release(w)
    BY <1>0 DEF Complete, Release, Goto, NextJob, LeaveBatch
  <2> QED BY <1>2, <1>9, <2>1 DEF QueueStep
<1> QED
  BY <1>3, <1>4, <1>5, <1>6, <1>7, <1>8, <1>9, StepIsOneWorkers DEF WorkerStep, ChatStep

\* Every step keeps the bills paid.
LEMMA StepKeepsPaying ==
  ASSUME TypeOK, QueueInv, ReportsAreKnown, FaultsPay, [Next]_vars
  PROVE  FaultsPay'
<1>0. TypeOK'
  BY StepKeepsTypes
<1>1. ASSUME NEW w \in Workers, pc'[w] \in {"reportFailed", "awaitFailed"} PROVE ~Holds(cur[w])'
  BY <1>1, FailureGivesUp
<1>2. ASSUME NEW j \in Jobs, message'[j].exists
      PROVE  sends'[j] + Cardinality(Senders(j)') + OpenShare(j)' <= 1 + faults'
  <2>1. CASE Commit(j)
    BY <1>0, <2>1, CommitStartsTheBill
  <2>2. CASE ~Commit(j)
    <3>1. message[j].exists
      BY <1>2, <2>2, MessageEffect
    <3>2. CASE OutsideStep
      <4>1. UNCHANGED <<batch, cur, pc>>
        BY <3>2, OutsideLeavesWorkers
      <4>2. UNCHANGED sends
        BY <3>2 DEF OutsideStep, Commit, CancelIntent, DeleteMessage, RetryMessage, TimePasses,
                    Provider, StatusArrives, CoreWrites, chatVars, vars
      <4> QED BY <1>0, <2>2, <3>1, <3>2, <4>1, <4>2, OutsideOpensNothing, StandingExchange
    <3>3. ASSUME NEW w \in Workers, WorkerStep(w)
          PROVE  sends'[j] + Cardinality(Senders(j)') + OpenShare(j)' <= 1 + faults'
      <4>1. \A v \in Workers \ {w} : Standing(v)
        BY <3>3, OthersStand DEF TypeOK
      <4>2. \A v \in Workers \ {w} : Mine(v)' = Mine(v) /\ (MaySend(v, j)' => MaySend(v, j))
        BY <4>1 DEF Standing, Mine, Handling, MaySend
      <4>3. Balanced(w, j)
        BY <1>0, <3>1, <3>3, <4>2, ClaimIsBalanced, BeginIsBalanced, SendIsBalanced,
           ReportIsBalanced, QueueStepIsBalanced, CrashIsBalanced DEF WorkerStep, ChatStep
      <4> QED BY <1>0, <3>1, <4>2, <4>3, Exchange DEF Balanced
    <3> QED BY <3>2, <3>3, StepIsOneWorkers
  <2> QED BY <2>1, <2>2
<1> QED BY <1>1, <1>2 DEF FaultsPay, OpenShare

-----------------------------------------------------------------------------
(* The theorems *)

\* The whole invariant, with what is shown of messages and jobs.
IInv == Inv /\ ShownWasSent /\ SucceededIsKnown

\* The initial states satisfy it, and every step keeps it.
LEMMA InvIsInductive ==
  /\ Init => IInv
  /\ IInv /\ [Next]_vars => IInv'
<1>1. Init => IInv
  <2> SUFFICES ASSUME Init PROVE IInv
    OBVIOUS
  <2>1. QueueTypeOK(ChatPC) /\ QueueInv
    BY QueueStarts, PlacesOfQueue DEF Init
  <2>2. /\ \A j \in Jobs : /\ row[j].status = "absent" /\ ~message[j].exists /\ sends[j] = 0
                           /\ message[j].delivery = "none" /\ message[j].ext = 0
                           /\ message[j].content = "sendable"
        /\ \A w \in Workers : pc[w] = "idle" /\ batch[w] = {}
        /\ writes = {}
    BY DEF Init, QueueInit, NewRow
  <2>3. TypeOK
    BY <2>1, ChatAssumption DEF Init, TypeOK, Message, Outcomes, Contents
  <2>4. ReportsAreTrue /\ ReportsAreKnown /\ FaultsPay
    BY <2>2 DEF ReportsAreTrue, ReportsAreKnown, FaultsPay, Mine, Handling, Content
  <2>5. ShownWasSent /\ SucceededIsKnown
    BY <2>2 DEF ShownWasSent, SucceededIsKnown
  <2> QED BY <2>1, <2>3, <2>4, <2>5 DEF IInv, Inv
<1>2. ASSUME IInv, [Next]_vars PROVE IInv'
  <2>0. /\ TypeOK /\ QueueInv /\ ReportsAreTrue /\ ReportsAreKnown /\ FaultsPay
        /\ ShownWasSent /\ SucceededIsKnown
    BY <1>2 DEF IInv, Inv
  <2>1. TypeOK'
    BY <1>2, <2>0, StepKeepsTypes
  <2>2. QueueInv'
    BY <1>2, <2>0, StepKeepsQueue DEF TypeOK
  <2>3. ReportsAreTrue' /\ ShownWasSent'
    BY <1>2, <2>0, StepKeepsTruth
  <2>4. ReportsAreKnown' /\ SucceededIsKnown'
    BY <1>2, <2>0, StepKeepsKnown
  <2>5. FaultsPay'
    BY <1>2, <2>0, StepKeepsPaying
  <2> QED BY <2>1, <2>2, <2>3, <2>4, <2>5 DEF IInv, Inv
<1> QED BY <1>1, <1>2

\* It holds in every reachable state.
LEMMA AlwaysIInv == Spec => []IInv
  BY InvIsInductive, PTL DEF Spec

\* Types, distinct claims, and what is on its way to a message, of every
\* behaviour of the worker's handler and of Core's (the inductive invariant).
THEOREM InvHolds == Spec => []Inv
<1>1. IInv => Inv
  BY DEF IInv
<1> QED BY <1>1, AlwaysIInv, PTL

\* outbound-result and applyProviderDeliveryStatuses: what is shown as sent,
\* delivered or read was taken by the provider, under the id that is shown, but
\* for messages of nothing but attachments that are passed over.
THEOREM ShownHolds == Spec => []ShownWasSent
<1>1. IInv => ShownWasSent
  BY DEF IInv
<1> QED BY <1>1, AlwaysIInv, PTL

\* completeChannelJob comes after Core's answer: a job that succeeded is a
\* message whose outcome Core knows, or a blank one.
THEOREM SucceededHolds == Spec => []SucceededIsKnown
<1>1. IInv => SucceededIsKnown
  BY DEF IInv
<1> QED BY <1>1, AlwaysIInv, PTL

\* At least once, and each repetition is paid for by a crash, a lost answer, a
\* slow run or a broken deployment, whatever retries and releases do.
THEOREM RepeatsHold == Spec => []RepeatsNeedFaults
<1>1. IInv => RepeatsNeedFaults
  <2> SUFFICES ASSUME IInv, NEW j \in Jobs, message[j].exists PROVE sends[j] <= 1 + faults
    BY DEF RepeatsNeedFaults
  <2>1. sends[j] \in Nat /\ faults \in Nat
    BY QueueAssumption DEF IInv, Inv, TypeOK, QueueTypeOK
  <2>2. Senders(j) \in SUBSET Workers
    BY DEF Senders
  <2>3. Cardinality(Senders(j)) \in Nat
    BY <2>2, ChatAssumption, FS_Subset, FS_CardinalityType
  <2>4. sends[j] + Cardinality(Senders(j)) + OpenShare(j) <= 1 + faults /\ OpenShare(j) \in {0, 1}
    BY DEF IInv, Inv, FaultsPay, OpenShare
  <2> QED BY <2>1, <2>3, <2>4
<1> QED BY <1>1, AlwaysIInv, PTL

\* The claim fence of jobs.ts: neither a stale run nor an administrator revives
\* a job that has succeeded or that the plan has cancelled, and only the
\* administrator one that has failed.
THEOREM SettledStay == Spec => SettledRowsStay
<1>1. IInv /\ [Next]_vars =>
        [\A j \in Jobs :
           /\ row[j].status \in {"succeeded", "cancelled"} => row'[j].status = row[j].status
           /\ row[j].status = "failed" =>
                \/ row'[j].status = "failed"
                \/ row'[j].status = "pending" /\ row'[j].attempt = 0]_vars
  BY RowsMove DEF IInv, Inv, Moves
<1> QED BY <1>1, AlwaysIInv, PTL DEF Spec, SettledRowsStay
=============================================================================

--------------------------- MODULE CrawlJobProofs ----------------------------
(***************************************************************************)
(* For any number of crawls, workers and overlapping polls: an attempt of  *)
(* a job belongs to one run; a finished job stays finished, and its crawl  *)
(* says the same, until something fails.                                   *)
(*                                                                         *)
(* The invariant in its order: claims are distinct, because only Poll and  *)
(* Claim touch what a tick believes of a job's attempts and a claim takes  *)
(* the next number (MoveKeeps, UpdateKeeps, ClaimKeeps); a row is there    *)
(* when a tick acts on it (TickFollows); and without faults the run with   *)
(* the row's own attempt is alone with it, so that it may do what it wants *)
(* (HolderIsAlone, HolderMoves), until its lock ends with no run left      *)
(* under it (PollHolds, ClaimHolds).                                       *)
(***************************************************************************)
EXTENDS CrawlJob, TLAPS

-----------------------------------------------------------------------------
(* Statements *)

\* Failing a statement keeps the count of faults in its bound.
LEMMA FaultCounts ==
  ASSUME TypeOK, Fault \/ NoFault
  PROVE  faults' \in 0..MaxFaults
  BY CrawlAssumption DEF TypeOK, Fault, NoFault

\* No update of queue.ts but the claim changes attempts.
LEMMA UpdateKeeps ==
  ASSUME TypeOK, NEW c \in Crawls, NEW filter, NEW new \in Job,
         new.attempts = job[c].attempts, JobUpdate(c, filter, new)
  PROVE  /\ job' \in [Crawls -> Job]
         /\ faults' \in 0..MaxFaults
         /\ \A d \in Crawls : job'[d].attempts = job[d].attempts
<1>1. job \in [Crawls -> Job]
  BY DEF TypeOK
<1>2. faults' \in 0..MaxFaults
  BY FaultCounts DEF JobUpdate
<1>3. job' = job \/ job' = [job EXCEPT ![c] = new]
  BY DEF JobUpdate
<1> QED BY <1>1, <1>2, <1>3

\* An update of a crawl's row leaves it a status.
LEMMA CrawlKeeps ==
  ASSUME TypeOK, NEW c \in Crawls, NEW from, NEW status \in Status, CrawlUpdate(c, from, status)
  PROVE  crawl' \in [Crawls -> Status] /\ faults' \in 0..MaxFaults
<1>1. faults' \in 0..MaxFaults
  BY FaultCounts DEF CrawlUpdate
<1>2. crawl' = crawl \/ crawl' = [crawl EXCEPT ![c] = status]
  BY DEF CrawlUpdate
<1> QED BY <1>1, <1>2 DEF TypeOK

-----------------------------------------------------------------------------
(* Moves *)

\* What a tick at work may become: done, or further on with the same claim.
Goes(s, n) ==
  /\ n \in Tick
  /\ \/ n.pc = "idle"
     \/ /\ s.pc \notin {"idle", "claim"}
        /\ n.crawl = s.crawl /\ n.home = s.home /\ n.attempts = s.attempts

\* A move, and updates that keep the attempts, keep what ticks know and the
\* claims distinct.
LEMMA MoveKeeps ==
  ASSUME ClaimInv, job' \in [Crawls -> Job],
         \A d \in Crawls : job'[d].attempts = job[d].attempts,
         tick' \in [Ticks -> Tick],
         \A t \in Ticks : tick'[t] = tick[t] \/ Goes(tick[t], tick'[t])
  PROVE  TicksNameTheirJob' /\ AttemptsAreClaimedOnce'
<1>1. TicksNameTheirJob'
  BY DEF ClaimInv, TypeOK, TicksNameTheirJob, Goes
<1>2. \A c \in Crawls, t \in Ticks : AtWork(t, c)' =>
        AtWork(t, c) /\ tick'[t].attempts = tick[t].attempts
  BY DEF AtWork, Goes
<1>3. AttemptsAreClaimedOnce'
  BY <1>2 DEF ClaimInv, AttemptsAreClaimedOnce
<1> QED BY <1>1, <1>3

\* The common case of it: one tick moves.
LEMMA OneMove ==
  ASSUME ClaimInv, NEW t \in Ticks, NEW n, Goes(tick[t], n), tick' = [tick EXCEPT ![t] = n],
         job' \in [Crawls -> Job],
         \A d \in Crawls : job'[d].attempts = job[d].attempts
  PROVE  tick' \in [Ticks -> Tick] /\ TicksNameTheirJob' /\ AttemptsAreClaimedOnce'
<1>1. tick' \in [Ticks -> Tick]
  BY DEF ClaimInv, TypeOK, Goes
<1>2. \A u \in Ticks : tick'[u] = tick[u] \/ Goes(tick[u], tick'[u])
  BY DEF ClaimInv, TypeOK
<1> QED BY <1>1, <1>2, MoveKeeps

\* An idle tick is well typed.
LEMMA IdleIsTick == IdleTick \in Tick
  BY CrawlAssumption DEF IdleTick, Tick, Steps, Status, Active, Final

\* A tick may always let go.
LEMMA RestMoves ==
  ASSUME ClaimInv, NEW t \in Ticks, Rest(t),
         job' \in [Crawls -> Job],
         \A d \in Crawls : job'[d].attempts = job[d].attempts
  PROVE  tick' \in [Ticks -> Tick] /\ TicksNameTheirJob' /\ AttemptsAreClaimedOnce'
<1>1. Goes(tick[t], IdleTick)
  BY IdleIsTick DEF Goes, IdleTick
<1> QED BY <1>1, OneMove DEF Rest

\* A tick at work may go to any step but the claim.
LEMMA ToMoves ==
  ASSUME ClaimInv, NEW t \in Ticks, NEW step \in Steps, To(t, step),
         tick[t].pc \notin {"idle", "claim"},
         job' \in [Crawls -> Job],
         \A d \in Crawls : job'[d].attempts = job[d].attempts
  PROVE  tick' \in [Ticks -> Tick] /\ TicksNameTheirJob' /\ AttemptsAreClaimedOnce'
<1>1. tick[t] \in Tick
  BY DEF ClaimInv, TypeOK
<1>2. Goes(tick[t], [tick[t] EXCEPT !.pc = step])
  BY <1>1 DEF Goes, Tick
<1> QED BY <1>2, OneMove DEF To

\* A tick that is not idle has a job to itself, whose row and copy are well typed.
LEMMA TickHasJob ==
  ASSUME ClaimInv, NEW t \in Ticks, tick[t].pc # "idle"
  PROVE  tick[t] \in Tick /\ tick[t].crawl \in Crawls /\ job[tick[t].crawl] \in Job
  BY DEF ClaimInv, TypeOK, TicksNameTheirJob

\* The rows the updates write, the claim's apart.
LEMMA UpdatesAreJobs ==
  ASSUME NEW j \in Job, NEW st \in Status
  PROVE  /\ [j EXCEPT !.status = st] \in Job
         /\ [j EXCEPT !.cancel = TRUE] \in Job
         /\ [j EXCEPT !.expired = TRUE] \in Job
         /\ [j EXCEPT !.status = st, !.expired = FALSE] \in Job
         /\ [j EXCEPT !.status = st, !.lockedBy = None, !.expired = FALSE] \in Job
         /\ [j EXCEPT !.status = st].attempts = j.attempts
         /\ [j EXCEPT !.cancel = TRUE].attempts = j.attempts
         /\ [j EXCEPT !.expired = TRUE].attempts = j.attempts
         /\ [j EXCEPT !.status = st, !.expired = FALSE].attempts = j.attempts
         /\ [j EXCEPT !.status = st, !.lockedBy = None, !.expired = FALSE].attempts = j.attempts
  BY DEF Job

-----------------------------------------------------------------------------
(* The claim *)

\* Poll copies the row's own attempts, and is not yet at work.
LEMMA PollKeeps ==
  ASSUME ClaimInv, NEW t \in Ticks, Poll(t)
  PROVE  ClaimInv'
<1>1. PICK w \in Workers, c \in Crawls :
        tick' = [tick EXCEPT ![t] = [IdleTick EXCEPT !.pc = "claim", !.home = w, !.crawl = c,
                                       !.status = job[c].status, !.attempts = job[c].attempts]]
  BY DEF Poll
<1> DEFINE n == [IdleTick EXCEPT !.pc = "claim", !.home = w, !.crawl = c,
                                 !.status = job[c].status, !.attempts = job[c].attempts]
<1>2. job[c] \in Job
  BY DEF ClaimInv, TypeOK
<1>3. job[c].attempts \in Nat /\ job[c].status \in Status
  BY <1>2, CrawlAssumption DEF Job
<1>4. n \in Tick /\ n.pc = "claim" /\ n.home = w /\ n.crawl = c /\ n.attempts = job[c].attempts
  BY <1>3, CrawlAssumption, IdleIsTick DEF Tick, Steps
<1> HIDE DEF n
<1>5. /\ tick' \in [Ticks -> Tick] /\ tick'[t] = n
      /\ \A u \in Ticks : u # t => tick'[u] = tick[u]
  BY <1>1, <1>4 DEF n, ClaimInv, TypeOK
<1>6. TypeOK'
  BY <1>5 DEF Poll, ClaimInv, TypeOK
<1>7. TicksNameTheirJob'
  <2>1. job' = job
    BY DEF Poll
  <2> QED BY <1>3, <1>4, <1>5, <2>1 DEF ClaimInv, TicksNameTheirJob
<1>8. AttemptsAreClaimedOnce'
  BY <1>4, <1>5 DEF ClaimInv, AttemptsAreClaimedOnce, AtWork
<1> QED BY <1>6, <1>7, <1>8 DEF ClaimInv

\* A claim that is answered takes the next number, one that no tick has yet.  A
\* claim that is not answered leaves the number to nobody.
LEMMA ClaimKeeps ==
  ASSUME ClaimInv, NEW t \in Ticks, Claim(t)
  PROVE  ClaimInv'
<1> DEFINE s == tick[t]
           c == s.crawl
           k == s.attempts + 1
           claimed == [job EXCEPT ![c] = ClaimedRow(s)]
<1>1. /\ s \in Tick /\ c \in Crawls /\ job[c] \in Job /\ s.home \in Workers
      /\ s.pc = "claim" /\ s.attempts < MaxAttempts
  BY TickHasJob, CrawlAssumption DEF Claim, Exhausted, ClaimInv, TicksNameTheirJob, Tick
<1>2. faults' \in 0..MaxFaults
  BY FaultCounts DEF Claim, ClaimInv
<1>3. /\ claimed \in [Crawls -> Job]
      /\ claimed[c].attempts = k
      /\ \A d \in Crawls : d # c => claimed[d] = job[d]
  <2>1. k \in 0..MaxAttempts
    BY <1>1, CrawlAssumption DEF Tick
  <2>2. ClaimedRow(s) \in Job /\ ClaimedRow(s).attempts = k
    <3> HIDE DEF s
    <3> QED BY <1>1, <2>1 DEF ClaimedRow, Job, Status, Active
  <2> QED BY <1>1, <2>2 DEF ClaimInv, TypeOK
<1>4. UNCHANGED <<crawl, creating, cancelling>>
  BY DEF Claim
<1>5. CASE Still(s) /\ job' = claimed /\ tick' = [tick EXCEPT ![t].pc = "load", ![t].attempts = k]
  <2> DEFINE n == [s EXCEPT !.pc = "load", !.attempts = k]
  <2>1. /\ n \in Tick /\ n.pc = "load" /\ n.attempts = k
        /\ n.crawl = c /\ n.home = s.home
    <3>1. k \in Nat
      BY <1>1 DEF Tick
    <3> HIDE DEF s, k
    <3> QED BY <1>1, <3>1 DEF n, Tick, Steps
  <2>2. tick' = [tick EXCEPT ![t] = n]
    BY <1>5
  <2>3. job[c].attempts = s.attempts /\ s.attempts \in Nat
    BY <1>1, <1>5 DEF Still, Tick
  <2> HIDE DEF n, claimed
  <2>4. tick' \in [Ticks -> Tick] /\ tick'[t] = n
        /\ \A u \in Ticks : u # t => tick'[u] = tick[u]
    BY <2>1, <2>2 DEF ClaimInv, TypeOK
  <2>5. TypeOK'
    BY <1>2, <1>3, <1>4, <1>5, <2>4 DEF ClaimInv, TypeOK
  <2>6. \A u \in Ticks : u # t /\ tick[u].pc # "idle" /\ tick[u].crawl = c =>
          tick[u].attempts \in Nat /\ tick[u].attempts < k
    BY <2>3 DEF ClaimInv, TypeOK, TicksNameTheirJob, Tick
  <2>7. TicksNameTheirJob'
    <3> SUFFICES ASSUME NEW u \in Ticks, tick'[u].pc # "idle"
                 PROVE  /\ tick'[u].crawl \in Crawls
                        /\ tick'[u].home \in Workers
                        /\ tick'[u].attempts <= job'[tick'[u].crawl].attempts
      BY DEF TicksNameTheirJob
    <3>1. CASE u = t
      BY <1>1, <1>3, <1>5, <2>1, <2>3, <2>4, <3>1
    <3>2. CASE u # t /\ tick[u].crawl = c
      BY <1>1, <1>3, <1>5, <2>3, <2>4, <2>6, <3>2 DEF ClaimInv, TicksNameTheirJob
    <3>3. CASE u # t /\ tick[u].crawl # c
      BY <1>3, <1>5, <2>4, <3>3 DEF ClaimInv, TicksNameTheirJob
    <3> QED BY <3>1, <3>2, <3>3
  <2>8. AttemptsAreClaimedOnce'
    <3> SUFFICES ASSUME NEW d \in Crawls, NEW u \in Ticks, NEW v \in Ticks,
                        AtWork(u, d)', AtWork(v, d)', tick'[u].attempts = tick'[v].attempts
                 PROVE  u = v
      BY DEF AttemptsAreClaimedOnce
    <3>1. CASE u # t /\ v # t
      BY <2>4, <3>1 DEF ClaimInv, AttemptsAreClaimedOnce, AtWork
    <3>2. CASE u = t /\ v # t
      BY <2>1, <2>3, <2>4, <2>6, <3>2 DEF AtWork
    <3>3. CASE u # t /\ v = t
      BY <2>1, <2>3, <2>4, <2>6, <3>3 DEF AtWork
    <3> QED BY <3>1, <3>2, <3>3
  <2> QED BY <2>5, <2>7, <2>8 DEF ClaimInv
<1>6. CASE (job' = job \/ (Still(s) /\ job' = claimed)) /\ Rest(t)
  <2> HIDE DEF claimed
  <2>1. job' \in [Crawls -> Job]
    BY <1>3, <1>6 DEF ClaimInv, TypeOK
  <2>2. /\ tick' \in [Ticks -> Tick]
        /\ \A u \in Ticks : tick'[u] = tick[u] \/ tick'[u].pc = "idle"
    BY <1>6, IdleIsTick DEF Rest, IdleTick, ClaimInv, TypeOK
  <2>3. \A d \in Crawls : job[d].attempts \in Nat /\ job[d].attempts <= job'[d].attempts
    <3>1. \A d \in Crawls : job[d].attempts \in Nat
      BY CrawlAssumption DEF ClaimInv, TypeOK, Job
    <3>2. CASE job' = job
      BY <3>1, <3>2
    <3>3. CASE Still(s) /\ job' = claimed
      BY <1>1, <1>3, <3>1, <3>3 DEF Still
    <3> QED BY <1>6, <3>2, <3>3
  <2>4. TypeOK'
    BY <1>2, <1>4, <2>1, <2>2 DEF ClaimInv, TypeOK
  <2>5. TicksNameTheirJob'
    <3>1. \A d \in Crawls : job'[d].attempts \in Nat
      BY <2>1, CrawlAssumption DEF Job
    <3> QED BY <2>2, <2>3, <3>1 DEF ClaimInv, TypeOK, TicksNameTheirJob, Tick
  <2>6. AttemptsAreClaimedOnce'
    BY <2>2 DEF ClaimInv, AttemptsAreClaimedOnce, AtWork
  <2> QED BY <2>4, <2>5, <2>6 DEF ClaimInv
<1>7. \/ Still(s) /\ job' = claimed /\ tick' = [tick EXCEPT ![t].pc = "load", ![t].attempts = k]
      \/ (job' = job \/ (Still(s) /\ job' = claimed)) /\ Rest(t)
  BY Zenon DEF Claim
<1> QED BY <1>5, <1>6, <1>7, Zenon

-----------------------------------------------------------------------------
(* The other steps of a tick *)

\* The invariant from its parts, for steps of a tick: these leave createCrawl and
\* requestCrawlCancel where they are.
LEMMA KeptByParts ==
  ASSUME ClaimInv, job' \in [Crawls -> Job], crawl' \in [Crawls -> Status],
         tick' \in [Ticks -> Tick], faults' \in 0..MaxFaults,
         UNCHANGED <<creating, cancelling>>,
         TicksNameTheirJob', AttemptsAreClaimedOnce'
  PROVE  ClaimInv'
  BY DEF ClaimInv, TypeOK

\* A candidate without attempts is failed: no claim is made.
LEMMA BurnKeeps ==
  ASSUME ClaimInv, NEW t \in Ticks, Burn(t)
  PROVE  ClaimInv'
<1> DEFINE c == tick[t].crawl
           new == [job[c] EXCEPT !.status = "failed"]
<1>1. c \in Crawls /\ job[c] \in Job
  BY TickHasJob DEF Burn
<1>2. new \in Job /\ new.attempts = job[c].attempts
  BY <1>1, UpdatesAreJobs DEF Status, Final
<1>3. JobUpdate(c, job[c].status \in Active, new) /\ Rest(t) /\ UNCHANGED <<crawl, creating, cancelling>>
  BY DEF Burn
<1> HIDE DEF new
<1>4. job' \in [Crawls -> Job] /\ faults' \in 0..MaxFaults
      /\ \A d \in Crawls : job'[d].attempts = job[d].attempts
  BY <1>1, <1>2, <1>3, UpdateKeeps DEF ClaimInv
<1> QED BY <1>3, <1>4, RestMoves, KeptByParts DEF ClaimInv, TypeOK

\* Steps of a tick at work that leave both rows alone.
LEMMA QuietKeeps ==
  ASSUME ClaimInv, NEW t \in Ticks, Load(t) \/ Work(t) \/ FailRead(t)
  PROVE  ClaimInv'
<1>1. /\ job' = job /\ UNCHANGED <<crawl, creating, cancelling>>
      /\ tick[t].pc \notin {"idle", "claim"}
  BY DEF Load, Work, FailRead
<1>2. faults' \in 0..MaxFaults
  BY FaultCounts DEF Load, Work, FailRead, ClaimInv, TypeOK
<1>3. tick[t] \in Tick
  BY DEF ClaimInv, TypeOK
<1>4. PICK n \in Tick : Goes(tick[t], n) /\ tick' = [tick EXCEPT ![t] = n]
  <2>1. \A step \in Steps : To(t, step) =>
          Goes(tick[t], [tick[t] EXCEPT !.pc = step])
    BY <1>1, <1>3 DEF Goes, Tick
  <2>2. Rest(t) => Goes(tick[t], IdleTick) /\ IdleTick \in Tick
    BY IdleIsTick DEF Goes, IdleTick
  <2>3. CASE \E step \in Steps : To(t, step)
    BY <2>1, <2>3 DEF To, Goes
  <2>4. CASE Rest(t)
    BY <2>2, <2>4 DEF Rest
  <2>5. CASE tick[t].pages < MaxPages
             /\ tick' = [tick EXCEPT ![t].pc = "beat", ![t].pages = @ + 1]
    <3> DEFINE n == [tick[t] EXCEPT !.pc = "beat", !.pages = @ + 1]
    <3>1. tick[t].pages + 1 \in 0..MaxPages
      BY <1>3, <2>5, CrawlAssumption DEF Tick
    <3>2. Goes(tick[t], n)
      BY <1>1, <1>3, <3>1 DEF Goes, Tick, Steps
    <3>3. tick' = [tick EXCEPT ![t] = n]
      BY <2>5
    <3> HIDE DEF n
    <3> QED BY <3>2, <3>3 DEF Goes
  <2>6. CASE \E verdict \in {"queued", "failed"} :
               tick' = [tick EXCEPT ![t].status = verdict,
                          ![t].pc = IF @ = "fail" THEN "failWrite" ELSE "missingWrite"]
    <3>1. PICK verdict \in {"queued", "failed"} :
               tick' = [tick EXCEPT ![t].status = verdict,
                          ![t].pc = IF @ = "fail" THEN "failWrite" ELSE "missingWrite"]
      BY <2>6
    <3> DEFINE n == [tick[t] EXCEPT !.status = verdict,
                          !.pc = IF @ = "fail" THEN "failWrite" ELSE "missingWrite"]
    <3>2. Goes(tick[t], n)
      BY <1>1, <1>3 DEF Goes, Tick, Steps, Status, Active, Final
    <3>3. tick' = [tick EXCEPT ![t] = n]
      BY <3>1
    <3> HIDE DEF n
    <3> QED BY <3>2, <3>3 DEF Goes
  <2>7. CASE Load(t)
    BY <2>3, <2>7 DEF Load, Steps
  <2>8. CASE Work(t)
    BY <2>3, <2>5, <2>8 DEF Work, Steps
  <2>9. CASE FailRead(t)
    <3>1. AfterFail(t) => Rest(t) \/ \E step \in Steps : To(t, step)
      BY DEF AfterFail, Steps
    <3>2. AfterFail(t) \/ \E verdict \in {"queued", "failed"} :
               tick' = [tick EXCEPT ![t].status = verdict,
                          ![t].pc = IF @ = "fail" THEN "failWrite" ELSE "missingWrite"]
      BY <2>9, Zenon DEF FailRead
    <3> QED BY <2>3, <2>4, <2>6, <3>1, <3>2
  <2> QED BY <2>7, <2>8, <2>9
<1>5. /\ tick' \in [Ticks -> Tick] /\ TicksNameTheirJob' /\ AttemptsAreClaimedOnce'
      /\ job' \in [Crawls -> Job]
  BY <1>1, <1>4, OneMove DEF ClaimInv, TypeOK
<1> QED BY <1>1, <1>2, <1>5, KeptByParts DEF ClaimInv, TypeOK

\* Steps of a tick at work that update the crawl's row.
LEMMA CrawlStepKeeps ==
  ASSUME ClaimInv, NEW t \in Ticks, Start(t) \/ Save(t) \/ CancelCrawl(t) \/ FailCrawl(t)
  PROVE  ClaimInv'
<1>1. /\ job' = job /\ UNCHANGED <<creating, cancelling>>
      /\ tick[t].pc \notin {"idle", "claim"}
      /\ Rest(t) \/ \E step \in Steps : To(t, step)
      /\ \E from \in {Status, Active}, status \in Status : CrawlUpdate(tick[t].crawl, from, status)
  <2>1. "running" \in Status /\ "completed" \in Status /\ "cancelled" \in Status /\ "failed" \in Status
    BY DEF Status, Active, Final
  <2> QED BY <2>1 DEF Start, Save, CancelCrawl, FailCrawl, Steps
<1>2. tick[t].crawl \in Crawls
  BY <1>1, TickHasJob
<1>3. crawl' \in [Crawls -> Status] /\ faults' \in 0..MaxFaults
  BY <1>1, <1>2, CrawlKeeps DEF ClaimInv
<1>4. /\ tick' \in [Ticks -> Tick] /\ TicksNameTheirJob' /\ AttemptsAreClaimedOnce'
      /\ job' \in [Crawls -> Job]
  BY <1>1, RestMoves, ToMoves DEF ClaimInv, TypeOK
<1> QED BY <1>1, <1>3, <1>4, KeptByParts

\* Steps of a tick at work that update the job's row.
LEMMA JobStepKeeps ==
  ASSUME ClaimInv, NEW t \in Ticks,
         Beat(t) \/ Analyze(t) \/ Complete(t) \/ AcknowledgeCancel(t) \/ FailWrite(t)
  PROVE  ClaimInv'
<1> DEFINE c == tick[t].crawl
<1>1. /\ UNCHANGED <<crawl, creating, cancelling>>
      /\ tick[t].pc \notin {"idle", "claim"}
      /\ Rest(t) \/ \E step \in Steps : To(t, step)
  BY DEF Beat, Analyze, Complete, AcknowledgeCancel, FailWrite, AfterFail, Steps
<1>2. tick[t] \in Tick /\ c \in Crawls /\ job[c] \in Job
  BY <1>1, TickHasJob
<1>3. PICK filter, new : /\ JobUpdate(c, filter, new)
                         /\ new \in Job /\ new.attempts = job[c].attempts
  <2> DEFINE Upd(new) == \E filter : JobUpdate(c, filter, new)
             beaten == [job[c] EXCEPT !.status = "processing", !.expired = FALSE]
             ended(st) == [job[c] EXCEPT !.status = st]
             failed == [job[c] EXCEPT !.status = tick[t].status, !.lockedBy = None, !.expired = FALSE]
  <2>1. \/ Upd(beaten) \/ Upd(ended("completed")) \/ Upd(ended("cancelled")) \/ Upd(failed)
    BY Zenon DEF Beat, Analyze, Beaten, Complete, AcknowledgeCancel, FailWrite
  <2>2. /\ "processing" \in Status /\ "completed" \in Status /\ "cancelled" \in Status
        /\ tick[t].status \in Status
    BY <1>2 DEF Status, Active, Final, Tick
  <2>3. /\ beaten \in Job /\ beaten.attempts = job[c].attempts
        /\ ended("completed") \in Job /\ ended("completed").attempts = job[c].attempts
        /\ ended("cancelled") \in Job /\ ended("cancelled").attempts = job[c].attempts
        /\ failed \in Job /\ failed.attempts = job[c].attempts
    BY <1>2, <2>2, UpdatesAreJobs, Zenon
  <2> HIDE DEF beaten, ended, failed
  <2> QED BY <2>1, <2>3
<1>4. job' \in [Crawls -> Job] /\ faults' \in 0..MaxFaults
      /\ \A d \in Crawls : job'[d].attempts = job[d].attempts
  BY <1>2, <1>3, UpdateKeeps DEF ClaimInv
<1>5. tick' \in [Ticks -> Tick] /\ TicksNameTheirJob' /\ AttemptsAreClaimedOnce'
  BY <1>1, <1>4, RestMoves, ToMoves
<1> QED BY <1>1, <1>4, <1>5, KeptByParts DEF ClaimInv, TypeOK

-----------------------------------------------------------------------------
(* Core, time and crashes *)

\* createCrawl, requestCrawlCancel and the end of a lock leave the ticks and the
\* attempts alone.
LEMMA CoreKeeps ==
  ASSUME ClaimInv, NEW c \in Crawls,
         Check(c) \/ EnqueueJob(c) \/ InsertCrawl(c) \/ AskCancel(c) \/ CancelStep(c) \/ LockExpires(c)
  PROVE  ClaimInv'
<1>1. job[c] \in Job /\ "queued" \in Status /\ "cancelled" \in Status
  BY DEF ClaimInv, TypeOK, Status, Active, Final
<1>2. tick' = tick
  BY DEF Check, EnqueueJob, InsertCrawl, AskCancel, CancelStep, LockExpires
<1>3. /\ job' \in [Crawls -> Job] /\ faults' \in 0..MaxFaults
      /\ \A d \in Crawls : job'[d].attempts = job[d].attempts
  <2> DEFINE Upd(new) == \E filter : JobUpdate(c, filter, new)
             queued == [job[c] EXCEPT !.status = "queued"]
             cancelled == [job[c] EXCEPT !.status = "cancelled"]
             flagged == [job[c] EXCEPT !.cancel = TRUE]
             over == [job[c] EXCEPT !.expired = TRUE]
  <2>1. /\ queued \in Job /\ queued.attempts = job[c].attempts
        /\ cancelled \in Job /\ cancelled.attempts = job[c].attempts
        /\ flagged \in Job /\ flagged.attempts = job[c].attempts
        /\ over \in Job /\ over.attempts = job[c].attempts
    BY <1>1, UpdatesAreJobs, Zenon
  <2>2. \/ /\ \/ job' = job
              \/ job' = [job EXCEPT ![c] = queued]
              \/ job' = [job EXCEPT ![c] = over]
           /\ Fault \/ NoFault
        \/ Upd(flagged) \/ Upd(cancelled)
    <3>1. CASE Check(c) \/ InsertCrawl(c) \/ AskCancel(c)
      BY <3>1 DEF Check, InsertCrawl, AskCancel, NoFault
    <3>2. CASE EnqueueJob(c)
      BY <3>2 DEF EnqueueJob, NoFault
    <3>3. CASE LockExpires(c)
      BY <3>3 DEF LockExpires
    <3>4. CASE CancelStep(c)
      BY <3>4, Zenon DEF CancelStep, CrawlUpdate
    <3> QED BY <3>1, <3>2, <3>3, <3>4
  <2> HIDE DEF queued, cancelled, flagged, over
  <2>3. CASE Upd(flagged) \/ Upd(cancelled)
    BY <2>1, <2>3, UpdateKeeps DEF ClaimInv
  <2>4. CASE /\ \/ job' = job
                \/ job' = [job EXCEPT ![c] = queued]
                \/ job' = [job EXCEPT ![c] = over]
             /\ Fault \/ NoFault
    BY <2>1, <2>4, FaultCounts DEF ClaimInv, TypeOK
  <2> QED BY <2>2, <2>3, <2>4
<1>4. crawl' \in [Crawls -> Status]
  <2>1. CASE crawl' = crawl \/ crawl' = [crawl EXCEPT ![c] = "queued"]
    BY <1>1, <2>1 DEF ClaimInv, TypeOK
  <2>2. CASE CrawlUpdate(c, Active, "cancelled")
    BY <1>1, <2>2, CrawlKeeps DEF ClaimInv
  <2> QED BY <2>1, <2>2 DEF Check, EnqueueJob, InsertCrawl, AskCancel, CancelStep, LockExpires
<1>5. /\ creating' \in [Crawls -> {"no", "enqueue", "insert", "done"}]
      /\ cancelling' \in [Crawls -> {"no", "flag", "dequeue", "look", "close"}]
  BY DEF ClaimInv, TypeOK, Check, EnqueueJob, InsertCrawl, AskCancel, CancelStep, LockExpires
<1>6. TicksNameTheirJob' /\ AttemptsAreClaimedOnce'
  BY <1>2, <1>3, MoveKeeps DEF ClaimInv, TypeOK
<1> QED BY <1>2, <1>3, <1>4, <1>5, <1>6 DEF ClaimInv, TypeOK

\* A process that dies lets go of everything it was at.
LEMMA CrashKeeps ==
  ASSUME ClaimInv, NEW w \in Workers, Crash(w)
  PROVE  ClaimInv'
<1>1. /\ job' = job /\ UNCHANGED <<crawl, creating, cancelling>> /\ Fault
      /\ tick' = [t \in Ticks |-> IF tick[t].home = w THEN IdleTick ELSE tick[t]]
  BY DEF Crash
<1>2. /\ tick' \in [Ticks -> Tick]
      /\ \A t \in Ticks : tick'[t] = tick[t] \/ Goes(tick[t], tick'[t])
  <2>1. \A t \in Ticks : Goes(tick[t], IdleTick)
    BY IdleIsTick DEF Goes, IdleTick
  <2> QED BY <1>1, <2>1, IdleIsTick DEF ClaimInv, TypeOK
<1>3. TicksNameTheirJob' /\ AttemptsAreClaimedOnce'
  BY <1>1, <1>2, MoveKeeps DEF ClaimInv, TypeOK
<1>4. faults' \in 0..MaxFaults
  BY <1>1, FaultCounts DEF ClaimInv
<1> QED BY <1>1, <1>2, <1>3, <1>4, KeptByParts DEF ClaimInv, TypeOK

-----------------------------------------------------------------------------
(* Claims, put together *)

\* The tables start empty.
LEMMA InitClaims == Init => ClaimInv
<1> SUFFICES ASSUME Init PROVE ClaimInv
  OBVIOUS
<1>1. NewJob \in Job
  BY CrawlAssumption DEF NewJob, Job, Status
<1>2. TypeOK
  BY <1>1, IdleIsTick, CrawlAssumption DEF Init, TypeOK, Status
<1>3. TicksNameTheirJob /\ AttemptsAreClaimedOnce
  BY DEF Init, TicksNameTheirJob, AttemptsAreClaimedOnce, AtWork, IdleTick
<1> QED BY <1>2, <1>3 DEF ClaimInv

\* Every step keeps claims distinct.
LEMMA NextClaims == ClaimInv /\ [Next]_vars => ClaimInv'
<1> SUFFICES ASSUME ClaimInv, [Next]_vars PROVE ClaimInv'
  OBVIOUS
<1>1. ASSUME NEW c \in Crawls,
             Check(c) \/ EnqueueJob(c) \/ InsertCrawl(c) \/ AskCancel(c) \/ CancelStep(c) \/ LockExpires(c)
      PROVE  ClaimInv'
  BY <1>1, CoreKeeps
<1>2. ASSUME NEW t \in Ticks, Poll(t)
      PROVE  ClaimInv'
  BY <1>2, PollKeeps
<1>3. ASSUME NEW t \in Ticks, TickStep(t)
      PROVE  ClaimInv'
  BY <1>3, BurnKeeps, ClaimKeeps, QuietKeeps, CrawlStepKeeps, JobStepKeeps DEF TickStep
<1>4. ASSUME NEW w \in Workers, Crash(w)
      PROVE  ClaimInv'
  BY <1>4, CrashKeeps
<1>5. CASE UNCHANGED vars
  BY <1>5 DEF vars, ClaimInv, TypeOK, TicksNameTheirJob, AttemptsAreClaimedOnce, AtWork
<1> QED BY <1>1, <1>2, <1>3, <1>4, <1>5 DEF Next

-----------------------------------------------------------------------------
(* What a step does, row by row *)

\* A step of tick t at crawl c leaves everything else alone.
Others(t, c) ==
  /\ \A u \in Ticks : u # t => tick'[u] = tick[u]
  /\ \A d \in Crawls : d # c => job'[d] = job[d] /\ crawl'[d] = crawl[d]
  /\ UNCHANGED <<creating, cancelling>>

\* The same claim, further on.
Same(s, n) == n.crawl = s.crawl /\ n.home = s.home /\ n.attempts = s.attempts

\* Only the step changes, or nothing is left of the tick.
LEMMA TickGoes ==
  ASSUME TypeOK, NEW t \in Ticks
  PROVE  /\ \A step : To(t, step) =>
              /\ tick'[t].pc = step /\ Same(tick[t], tick'[t]) /\ tick'[t].status = tick[t].status
              /\ \A u \in Ticks : u # t => tick'[u] = tick[u]
         /\ Rest(t) => tick'[t].pc = "idle" /\ \A u \in Ticks : u # t => tick'[u] = tick[u]
<1>1. tick[t] \in Tick /\ tick \in [Ticks -> Tick]
  BY DEF TypeOK
<1>2. ASSUME NEW step, To(t, step)
      PROVE  /\ tick'[t].pc = step /\ Same(tick[t], tick'[t]) /\ tick'[t].status = tick[t].status
             /\ \A u \in Ticks : u # t => tick'[u] = tick[u]
  BY <1>1, <1>2 DEF To, Same, Tick
<1>3. ASSUME Rest(t)
      PROVE  tick'[t].pc = "idle" /\ \A u \in Ticks : u # t => tick'[u] = tick[u]
  BY <1>1, <1>3 DEF Rest, IdleTick
<1> QED BY <1>2, <1>3

\* An update of a job's row; without faults it is what its filter says.
LEMMA JobChanges ==
  ASSUME TypeOK, NEW c \in Crawls, NEW filter, NEW new, JobUpdate(c, filter, new)
  PROVE  /\ \A d \in Crawls : d # c => job'[d] = job[d]
         /\ job'[c] = job[c] \/ (filter /\ job'[c] = new)
         /\ faults' = 0 => job'[c] = IF filter THEN new ELSE job[c]
<1>1. faults \in Nat /\ job \in [Crawls -> Job]
  BY CrawlAssumption DEF TypeOK
<1>2. Fault => faults' # 0
  BY <1>1 DEF Fault
<1> QED BY <1>1, <1>2 DEF JobUpdate

\* Likewise of a crawl's row.
LEMMA CrawlChanges ==
  ASSUME TypeOK, NEW c \in Crawls, NEW from, NEW status, CrawlUpdate(c, from, status)
  PROVE  /\ \A d \in Crawls : d # c => crawl'[d] = crawl[d]
         /\ crawl'[c] = crawl[c] \/ (crawl[c] \in from /\ crawl'[c] = status)
         /\ faults' = 0 => crawl'[c] = IF crawl[c] \in from THEN status ELSE crawl[c]
<1>1. faults \in Nat /\ crawl \in [Crawls -> Status]
  BY CrawlAssumption DEF TypeOK
<1>2. Fault => faults' # 0
  BY <1>1 DEF Fault
<1> QED BY <1>1, <1>2 DEF CrawlUpdate

\* Faults are counted, and a step after which there are none is no fault.
LEMMA NoFaultsYet ==
  ASSUME TypeOK, [Next]_vars, faults' = 0
  PROVE  faults = 0 /\ ~Fault
<1>1. faults \in Nat
  BY CrawlAssumption DEF TypeOK
<1>2. Fault => faults' = faults + 1
  BY DEF Fault
<1>3. Fault \/ UNCHANGED faults
  <2>1. CASE \E c \in Crawls : Check(c) \/ EnqueueJob(c) \/ InsertCrawl(c)
                               \/ AskCancel(c) \/ CancelStep(c) \/ LockExpires(c)
    BY <2>1, Zenon DEF Check, EnqueueJob, InsertCrawl, AskCancel, CancelStep, LockExpires, JobUpdate, CrawlUpdate,
         NoFault
  <2>2. CASE \E t \in Ticks : Poll(t) \/ TickStep(t)
    BY <2>2, Zenon DEF Poll, TickStep, Burn, Claim, Load, Start, Work, Beat, Beaten, Analyze, Save, Complete, CancelCrawl,
         AcknowledgeCancel, FailRead, FailWrite, FailCrawl, JobUpdate, CrawlUpdate, NoFault
  <2>3. CASE (\E w \in Workers : Crash(w)) \/ UNCHANGED vars
    BY <2>3 DEF Crash, vars
  <2> QED BY <2>1, <2>2, <2>3 DEF Next
<1> QED BY <1>1, <1>2, <1>3

-----------------------------------------------------------------------------
(* Rows are there when they are acted on *)

\* What is said of a tick whose crawl's row says x.
Fits(n, x) ==
  /\ n.pc \in Loaded => x # "absent"
  /\ n.pc = "claim" => n.status \in Active
  /\ n.pc = "failWrite" => n.status \in {"queued", "failed"}
  /\ n.pc = "missingWrite" => n.status = "failed"

\* A tick whose rows are there leaves them there.
LEMMA TickFollows ==
  ASSUME ClaimInv, RowsFollow, NEW t \in Ticks, NEW c \in Crawls, Others(t, c),
         job[c].status # "absent", job'[c].status # "absent",
         crawl'[c] = crawl[c] \/ (crawl[c] # "absent" /\ crawl'[c] # "absent"),
         tick'[t].pc = "idle" \/ (tick'[t].crawl = c /\ Fits(tick'[t], crawl'[c]))
  PROVE  RowsFollow'
<1>1. \A d \in Crawls :
        /\ creating'[d] \in {"no", "enqueue"} => job'[d] = NewJob
        /\ creating'[d] # "done" => crawl'[d] = "absent"
        /\ cancelling'[d] # "no" => crawl'[d] # "absent"
  <2> SUFFICES ASSUME NEW d \in Crawls
               PROVE  /\ creating'[d] \in {"no", "enqueue"} => job'[d] = NewJob
                      /\ creating'[d] # "done" => crawl'[d] = "absent"
                      /\ cancelling'[d] # "no" => crawl'[d] # "absent"
    OBVIOUS
  <2>1. /\ creating[d] \in {"no", "enqueue"} => job[d] = NewJob
        /\ creating[d] # "done" => crawl[d] = "absent"
        /\ cancelling[d] # "no" => crawl[d] # "absent"
    BY DEF RowsFollow
  <2>2. creating' = creating /\ cancelling' = cancelling
    BY DEF Others
  <2>3. CASE d # c
    BY <2>1, <2>2, <2>3 DEF Others
  <2>4. CASE d = c
    <3>1. NewJob.status = "absent"
      BY DEF NewJob
    <3> QED BY <2>1, <2>2, <2>4, <3>1
  <2> QED BY <2>3, <2>4
<1>2. \A u \in Ticks : tick'[u].pc # "idle" =>
        job'[tick'[u].crawl].status # "absent" /\ Fits(tick'[u], crawl'[tick'[u].crawl])
  <2> SUFFICES ASSUME NEW u \in Ticks, tick'[u].pc # "idle"
               PROVE  job'[tick'[u].crawl].status # "absent" /\ Fits(tick'[u], crawl'[tick'[u].crawl])
    OBVIOUS
  <2>1. CASE u = t
    BY <2>1
  <2>2. CASE u # t
    <3>1. tick'[u] = tick[u] /\ tick[u].crawl \in Crawls
      BY <2>2 DEF Others, ClaimInv, TicksNameTheirJob
    <3>2. job[tick[u].crawl].status # "absent" /\ Fits(tick[u], crawl[tick[u].crawl])
      BY <3>1 DEF RowsFollow, Fits
    <3>3. CASE tick[u].crawl = c
      BY <3>1, <3>2, <3>3 DEF Fits
    <3>4. CASE tick[u].crawl # c
      BY <3>1, <3>2, <3>4 DEF Others
    <3> QED BY <3>3, <3>4
  <2> QED BY <2>1, <2>2
<1> QED BY <1>1, <1>2, Zenon DEF RowsFollow, Fits, Loaded

\* What a tick at work has: a job and, if it has loaded it, a crawl.
LEMMA TickFits ==
  ASSUME ClaimInv, RowsFollow, NEW t \in Ticks, tick[t].pc # "idle"
  PROVE  /\ TypeOK /\ tick[t] \in Tick /\ tick[t].crawl \in Crawls /\ job[tick[t].crawl] \in Job
         /\ job[tick[t].crawl].status # "absent" /\ Fits(tick[t], crawl[tick[t].crawl])
<1>1. TypeOK /\ tick[t] \in Tick /\ tick[t].crawl \in Crawls /\ job[tick[t].crawl] \in Job
  BY TickHasJob DEF ClaimInv
<1>2. job[tick[t].crawl].status # "absent" /\ Fits(tick[t], crawl[tick[t].crawl])
  BY DEF RowsFollow, Fits
<1> QED BY <1>1, <1>2

LEMMA PollFollows ==
  ASSUME ClaimInv, RowsFollow, NEW t \in Ticks, Poll(t)
  PROVE  RowsFollow'
<1>1. TypeOK /\ tick \in [Ticks -> Tick]
  BY DEF ClaimInv, TypeOK
<1>2. PICK w \in Workers, c \in Crawls :
        /\ Candidate(c)
        /\ tick' = [tick EXCEPT ![t] = [IdleTick EXCEPT !.pc = "claim", !.home = w, !.crawl = c,
                                          !.status = job[c].status, !.attempts = job[c].attempts]]
  BY DEF Poll
<1> DEFINE n == [IdleTick EXCEPT !.pc = "claim", !.home = w, !.crawl = c,
                                 !.status = job[c].status, !.attempts = job[c].attempts]
<1>3. n.pc = "claim" /\ n.crawl = c /\ n.status = job[c].status
  BY DEF IdleTick
<1> HIDE DEF n
<1>4. tick'[t] = n /\ \A u \in Ticks : u # t => tick'[u] = tick[u]
  BY <1>1, <1>2 DEF n
<1>5. job[c].status \in Active /\ job[c].status # "absent"
  BY <1>2 DEF Candidate, Locked, Active
<1>6. Others(t, c) /\ job' = job /\ crawl' = crawl
  BY <1>4 DEF Poll, Others
<1>7. Fits(n, crawl[c])
  BY <1>3, <1>5 DEF Fits, Loaded
<1> QED BY <1>3, <1>4, <1>5, <1>6, <1>7, TickFollows

LEMMA BurnFollows ==
  ASSUME ClaimInv, RowsFollow, NEW t \in Ticks, Burn(t)
  PROVE  RowsFollow'
<1> DEFINE c == tick[t].crawl
<1>1. TypeOK /\ c \in Crawls /\ job[c] \in Job /\ job[c].status # "absent"
  BY TickFits DEF Burn
<1>2. JobUpdate(c, job[c].status \in Active, [job[c] EXCEPT !.status = "failed"]) /\ Rest(t)
      /\ UNCHANGED <<crawl, creating, cancelling>>
  BY DEF Burn
<1>3. job'[c] = job[c] \/ job'[c] = [job[c] EXCEPT !.status = "failed"]
  BY <1>1, <1>2, JobChanges
<1>4. job'[c].status # "absent"
  BY <1>1, <1>3 DEF Job
<1>5. Others(t, c) /\ tick'[t].pc = "idle"
  BY <1>1, <1>2, JobChanges, TickGoes DEF Others
<1> QED BY <1>1, <1>2, <1>4, <1>5, TickFollows

\* What a claim does, answered or not.
LEMMA ClaimTakes ==
  ASSUME ClaimInv, RowsFollow, NEW t \in Ticks, Claim(t)
  PROVE  LET s == tick[t]
             c == s.crawl
             n == tick'[t]
         IN
         /\ c \in Crawls /\ Others(t, c) /\ crawl' = crawl /\ s.pc = "claim"
         /\ s.status \in Active /\ job[c] \in Job /\ s.attempts \in Nat /\ s.attempts < MaxAttempts
         /\ \/ /\ Still(s) /\ job'[c].status = "running" /\ ~job'[c].expired
               /\ job'[c].attempts = s.attempts + 1
               /\ \/ n.pc = "load" /\ n.crawl = c /\ n.attempts = s.attempts + 1
                  \/ n.pc = "idle" /\ Fault
            \/ job'[c] = job[c] /\ n.pc = "idle"
<1> DEFINE s == tick[t]
           c == s.crawl
           k == s.attempts + 1
           claimed == [job EXCEPT ![c] = ClaimedRow(s)]
           n == [s EXCEPT !.pc = "load", !.attempts = k]
<1>1. /\ TypeOK /\ s \in Tick /\ c \in Crawls /\ job[c] \in Job /\ s.pc = "claim"
      /\ s.status \in Active /\ s.attempts \in Nat /\ s.attempts < MaxAttempts
  <2>1. /\ TypeOK /\ s \in Tick /\ c \in Crawls /\ job[c] \in Job /\ s.pc = "claim" /\ ~Exhausted(s)
        /\ Fits(s, crawl[c])
    BY TickFits DEF Claim
  <2> QED BY <2>1, CrawlAssumption DEF Fits, Tick, Exhausted
<1>2. /\ ClaimedRow(s).status = "running" /\ ~ClaimedRow(s).expired /\ ClaimedRow(s).attempts = k
  <2> HIDE DEF s
  <2> QED BY <1>1 DEF ClaimedRow, Job
<1>3. claimed[c] = ClaimedRow(s) /\ \A d \in Crawls : d # c => claimed[d] = job[d]
  BY <1>1 DEF TypeOK
<1>4. n.pc = "load" /\ n.crawl = c /\ n.attempts = k
  BY <1>1 DEF Tick
<1>5. UNCHANGED <<crawl, creating, cancelling>>
  BY DEF Claim
<1> HIDE DEF claimed, n
<1>6. CASE Still(s) /\ job' = claimed /\ tick' = [tick EXCEPT ![t].pc = "load", ![t].attempts = k]
  <2>1. tick' = [tick EXCEPT ![t] = n]
    BY <1>6 DEF n
  <2>2. tick'[t] = n /\ \A u \in Ticks : u # t => tick'[u] = tick[u]
    BY <1>1, <2>1 DEF TypeOK
  <2>3. Others(t, c)
    BY <1>3, <1>5, <1>6, <2>2 DEF Others
  <2> QED BY <1>1, <1>2, <1>3, <1>4, <1>5, <1>6, <2>2, <2>3
<1>7. CASE Rest(t) /\ (job' = job \/ (Still(s) /\ job' = claimed /\ Fault))
  <2>1. tick'[t].pc = "idle" /\ \A u \in Ticks : u # t => tick'[u] = tick[u]
    BY <1>1, <1>7, TickGoes
  <2>2. Others(t, c)
    BY <1>3, <1>5, <1>7, <2>1 DEF Others
  <2>3. \/ job'[c] = job[c]
        \/ /\ Still(s) /\ job'[c].status = "running" /\ ~job'[c].expired
           /\ job'[c].attempts = k /\ Fault
    BY <1>2, <1>3, <1>7
  <2> QED BY <1>1, <1>5, <2>1, <2>2, <2>3
<1>8. \/ Still(s) /\ job' = claimed /\ tick' = [tick EXCEPT ![t].pc = "load", ![t].attempts = k]
      \/ Rest(t) /\ (job' = job \/ (Still(s) /\ job' = claimed /\ Fault))
  BY Zenon DEF Claim, claimed
<1> QED BY <1>6, <1>7, <1>8

LEMMA ClaimFollows ==
  ASSUME ClaimInv, RowsFollow, NEW t \in Ticks, Claim(t)
  PROVE  RowsFollow'
<1>1. tick[t].pc = "claim"
  BY DEF Claim
<1>2. job[tick[t].crawl].status # "absent"
  BY <1>1, TickFits
<1>3. Fits(tick'[t], crawl'[tick[t].crawl]) \/ tick'[t].pc # "load"
  BY DEF Fits, Loaded
<1>4. job'[tick[t].crawl].status # "absent"
  BY <1>2, ClaimTakes
<1> QED BY <1>2, <1>3, <1>4, ClaimTakes, TickFollows

\* A failure read or written leaves the tick at the crawl's row, or done.
LEMMA AfterFailGoes ==
  ASSUME TypeOK, NEW t \in Ticks, AfterFail(t)
  PROVE  /\ \A u \in Ticks : u # t => tick'[u] = tick[u]
         /\ \/ tick'[t].pc = "idle"
            \/ /\ tick[t].pc \notin {"missing", "missingWrite"} /\ tick'[t].pc = "failCrawl"
               /\ Same(tick[t], tick'[t])
BY TickGoes DEF AfterFail

\* The verdict is read with the row it is about.
LEMMA FailReads ==
  ASSUME TypeOK, NEW t \in Ticks, tick[t].pc # "idle", FailRead(t)
  PROVE  LET j == job[tick[t].crawl]
             n == tick'[t]
         IN
         /\ job' = job /\ UNCHANGED <<crawl, creating, cancelling>> /\ tick[t].pc \in {"fail", "missing"}
         /\ \A u \in Ticks : u # t => tick'[u] = tick[u]
         /\ \/ AfterFail(t) /\ (j.status \in Final \/ Fault)
            \/ /\ Same(tick[t], n)
               /\ n.pc = IF tick[t].pc = "fail" THEN "failWrite" ELSE "missingWrite"
               /\ \/ n.status = "failed"
                  \/ n.status = "queued" /\ n.pc = "failWrite" /\ j.attempts < MaxAttempts
<1> DEFINE j == job[tick[t].crawl]
<1>1. tick[t] \in Tick /\ tick \in [Ticks -> Tick]
  BY DEF TypeOK
<1>2. job' = job /\ UNCHANGED <<crawl, creating, cancelling>> /\ tick[t].pc \in {"fail", "missing"}
  BY DEF FailRead
<1>3. CASE AfterFail(t) /\ (j.status \in Final \/ Fault)
  BY <1>2, <1>3, AfterFailGoes
<1>4. ASSUME NEW verdict \in {"queued", "failed"},
             verdict = "queued" => tick[t].pc = "fail" /\ j.attempts < MaxAttempts,
             tick' = [tick EXCEPT ![t].status = verdict,
                        ![t].pc = IF @ = "fail" THEN "failWrite" ELSE "missingWrite"]
      PROVE  /\ \A u \in Ticks : u # t => tick'[u] = tick[u]
             /\ Same(tick[t], tick'[t])
             /\ tick'[t].pc = IF tick[t].pc = "fail" THEN "failWrite" ELSE "missingWrite"
             /\ \/ tick'[t].status = "failed"
                \/ tick'[t].status = "queued" /\ tick'[t].pc = "failWrite" /\ j.attempts < MaxAttempts
  <2> DEFINE n == [tick[t] EXCEPT !.status = verdict,
                     !.pc = IF @ = "fail" THEN "failWrite" ELSE "missingWrite"]
  <2>1. /\ n.status = verdict /\ Same(tick[t], n)
        /\ n.pc = IF tick[t].pc = "fail" THEN "failWrite" ELSE "missingWrite"
    BY <1>1 DEF Same, Tick
  <2>2. tick' = [tick EXCEPT ![t] = n]
    BY <1>4
  <2> HIDE DEF n
  <2>3. tick'[t] = n /\ \A u \in Ticks : u # t => tick'[u] = tick[u]
    BY <1>1, <2>2
  <2> QED BY <1>4, <2>1, <2>3
<1>5. \/ AfterFail(t) /\ (j.status \in Final \/ Fault)
      \/ \E verdict \in {"queued", "failed"} :
           /\ verdict = "queued" => tick[t].pc = "fail" /\ j.attempts < MaxAttempts
           /\ tick' = [tick EXCEPT ![t].status = verdict,
                         ![t].pc = IF @ = "fail" THEN "failWrite" ELSE "missingWrite"]
  BY Zenon DEF FailRead
<1> QED BY <1>2, <1>3, <1>4, <1>5

LEMMA QuietFollows ==
  ASSUME ClaimInv, RowsFollow, NEW t \in Ticks, Load(t) \/ Work(t) \/ FailRead(t)
  PROVE  RowsFollow'
<1> DEFINE c == tick[t].crawl
<1>1. tick[t].pc # "idle" /\ job' = job /\ UNCHANGED <<crawl, creating, cancelling>>
  BY DEF Load, Work, FailRead
<1>2. /\ TypeOK /\ tick[t] \in Tick /\ c \in Crawls /\ job[c].status # "absent"
      /\ Fits(tick[t], crawl[c])
  BY <1>1, TickFits
<1> DEFINE Goes2 == /\ \A u \in Ticks : u # t => tick'[u] = tick[u]
                    /\ tick'[t].pc = "idle" \/ (tick'[t].crawl = c /\ Fits(tick'[t], crawl[c]))
<1>3. CASE Load(t)
  <2>1. (To(t, "start") /\ crawl[c] # "absent") \/ To(t, "missing")
    BY <1>3 DEF Load
  <2>2. Goes2
    BY <1>2, <2>1, TickGoes DEF Same, Fits, Loaded
  <2> QED BY <1>1, <1>2, <2>2, TickFollows DEF Others
<1>4. CASE Work(t)
  <2>1. crawl[c] # "absent" /\ tick[t].pc = "work"
    BY <1>2, <1>4 DEF Fits, Loaded, Work
  <2>2. CASE To(t, "analyze") \/ To(t, "fail")
    <3>1. Goes2
      BY <1>2, <2>1, <2>2, TickGoes DEF Same, Fits, Loaded
    <3> QED BY <1>1, <1>2, <3>1, TickFollows DEF Others
  <2>3. CASE tick' = [tick EXCEPT ![t].pc = "beat", ![t].pages = @ + 1]
    <3>1. tick'[t].pc = "beat" /\ tick'[t].crawl = c /\ \A u \in Ticks : u # t => tick'[u] = tick[u]
      BY <1>2, <2>3 DEF TypeOK, Tick
    <3>2. Goes2
      BY <2>1, <3>1 DEF Fits, Loaded
    <3> QED BY <1>1, <1>2, <3>2, TickFollows DEF Others
  <2> QED BY <1>4, <2>2, <2>3 DEF Work
<1>5. CASE FailRead(t)
  <2>1. Goes2
    BY <1>1, <1>2, <1>5, FailReads, AfterFailGoes DEF Same, Fits, Loaded
  <2> QED BY <1>1, <1>2, <2>1, TickFollows DEF Others
<1> QED BY <1>3, <1>4, <1>5

LEMMA CrawlStepFollows ==
  ASSUME ClaimInv, RowsFollow, NEW t \in Ticks, Start(t) \/ Save(t) \/ CancelCrawl(t) \/ FailCrawl(t)
  PROVE  RowsFollow'
<1> DEFINE c == tick[t].crawl
<1>1. /\ tick[t].pc \in Loaded /\ tick[t].pc # "idle" /\ job' = job /\ UNCHANGED <<creating, cancelling>>
      /\ Rest(t) \/ \E step \in {"work", "complete", "ack"} : To(t, step)
      /\ \E from, status : CrawlUpdate(c, from, status) /\ status # "absent"
  BY DEF Start, Save, CancelCrawl, FailCrawl, Loaded
<1>2. TypeOK /\ c \in Crawls /\ job[c].status # "absent" /\ crawl[c] # "absent"
  BY <1>1, TickFits DEF Fits
<1>3. crawl'[c] # "absent" /\ \A d \in Crawls : d # c => crawl'[d] = crawl[d]
  BY <1>1, <1>2, CrawlChanges
<1>4. /\ \A u \in Ticks : u # t => tick'[u] = tick[u]
      /\ tick'[t].pc = "idle" \/ (tick'[t].crawl = c /\ Fits(tick'[t], crawl'[c]))
  BY <1>1, <1>2, <1>3, TickGoes DEF Same, Fits
<1> QED BY <1>1, <1>2, <1>3, <1>4, TickFollows DEF Others

LEMMA JobStepFollows ==
  ASSUME ClaimInv, RowsFollow, NEW t \in Ticks,
         Beat(t) \/ Analyze(t) \/ Complete(t) \/ AcknowledgeCancel(t) \/ FailWrite(t)
  PROVE  RowsFollow'
<1> DEFINE c == tick[t].crawl
<1>1. tick[t].pc # "idle" /\ UNCHANGED <<crawl, creating, cancelling>>
  BY DEF Beat, Analyze, Complete, AcknowledgeCancel, FailWrite
<1>2. /\ TypeOK /\ tick[t] \in Tick /\ c \in Crawls /\ job[c] \in Job /\ job[c].status # "absent"
      /\ Fits(tick[t], crawl[c])
  BY <1>1, TickFits
<1>3. \/ Rest(t) \/ \E step \in {"cancel", "work", "save", "fail"} : To(t, step) /\ tick[t].pc \in {"beat", "analyze"}
      \/ AfterFail(t) /\ tick[t].pc \in {"failWrite", "missingWrite"}
  BY DEF Beat, Analyze, Complete, AcknowledgeCancel, FailWrite
<1>4. /\ \A u \in Ticks : u # t => tick'[u] = tick[u]
      /\ tick'[t].pc = "idle" \/ (tick'[t].crawl = c /\ Fits(tick'[t], crawl'[c]))
  <2>1. tick[t].pc \in {"beat", "analyze", "failWrite"} => crawl[c] # "absent"
    BY <1>2 DEF Fits, Loaded
  <2> QED BY <1>1, <1>2, <1>3, <2>1, TickGoes, AfterFailGoes DEF Same, Fits
<1>5. \E filter, new : JobUpdate(c, filter, new) /\ new.status # "absent"
  <2> DEFINE Upd(new) == \E filter : JobUpdate(c, filter, new)
             beaten == [job[c] EXCEPT !.status = "processing", !.expired = FALSE]
             ended(st) == [job[c] EXCEPT !.status = st]
             failed == [job[c] EXCEPT !.status = tick[t].status, !.lockedBy = None, !.expired = FALSE]
  <2>1. \/ Upd(beaten) \/ Upd(ended("completed")) \/ Upd(ended("cancelled"))
        \/ Upd(failed) /\ tick[t].pc \in {"failWrite", "missingWrite"}
    BY Zenon DEF Beat, Analyze, Beaten, Complete, AcknowledgeCancel, FailWrite
  <2>2. /\ beaten.status = "processing" /\ ended("completed").status = "completed"
        /\ ended("cancelled").status = "cancelled" /\ failed.status = tick[t].status
    BY <1>2 DEF Job
  <2>3. tick[t].pc \in {"failWrite", "missingWrite"} => tick[t].status # "absent"
    BY <1>2 DEF Fits
  <2> HIDE DEF beaten, ended, failed
  <2> QED BY <2>1, <2>2, <2>3
<1>6. job'[c].status # "absent" /\ \A d \in Crawls : d # c => job'[d] = job[d]
  BY <1>2, <1>5, JobChanges
<1> QED BY <1>1, <1>2, <1>4, <1>6, TickFollows DEF Others

\* createCrawl, requestCrawlCancel and the clock act on one crawl, and on no tick.
LEMMA RowFollows ==
  ASSUME RowsFollow, ClaimInv, NEW c \in Crawls, tick' = tick,
         \A d \in Crawls : d # c => /\ job'[d] = job[d] /\ crawl'[d] = crawl[d]
                                    /\ creating'[d] = creating[d] /\ cancelling'[d] = cancelling[d],
         creating'[c] \in {"no", "enqueue"} => job'[c] = NewJob,
         creating'[c] # "done" => crawl'[c] = "absent",
         cancelling'[c] # "no" => crawl'[c] # "absent",
         job[c].status # "absent" => job'[c].status # "absent",
         crawl[c] # "absent" => crawl'[c] # "absent"
  PROVE  RowsFollow'
<1>1. \A d \in Crawls :
        /\ creating'[d] \in {"no", "enqueue"} => job'[d] = NewJob
        /\ creating'[d] # "done" => crawl'[d] = "absent"
        /\ cancelling'[d] # "no" => crawl'[d] # "absent"
  BY DEF RowsFollow
<1>2. \A u \in Ticks : tick[u].pc # "idle" =>
        job'[tick[u].crawl].status # "absent" /\ Fits(tick[u], crawl'[tick[u].crawl])
  <2> SUFFICES ASSUME NEW u \in Ticks, tick[u].pc # "idle"
               PROVE  job'[tick[u].crawl].status # "absent" /\ Fits(tick[u], crawl'[tick[u].crawl])
    OBVIOUS
  <2>1. tick[u].crawl \in Crawls /\ job[tick[u].crawl].status # "absent" /\ Fits(tick[u], crawl[tick[u].crawl])
    BY TickFits
  <2>2. CASE tick[u].crawl = c
    BY <2>1, <2>2 DEF Fits
  <2>3. CASE tick[u].crawl # c
    BY <2>1, <2>3
  <2> QED BY <2>2, <2>3
<1> QED BY <1>1, <1>2, Zenon DEF RowsFollow, Fits, Loaded

LEMMA CoreFollows ==
  ASSUME ClaimInv, RowsFollow, NEW c \in Crawls,
         Check(c) \/ EnqueueJob(c) \/ InsertCrawl(c) \/ AskCancel(c) \/ CancelStep(c) \/ LockExpires(c)
  PROVE  RowsFollow'
<1>1. /\ TypeOK /\ job \in [Crawls -> Job] /\ job[c] \in Job
      /\ creating \in [Crawls -> {"no", "enqueue", "insert", "done"}]
      /\ cancelling \in [Crawls -> {"no", "flag", "dequeue", "look", "close"}]
      /\ crawl \in [Crawls -> Status]
  BY DEF ClaimInv, TypeOK
<1>2. /\ creating[c] \in {"no", "enqueue"} => job[c] = NewJob
      /\ creating[c] # "done" => crawl[c] = "absent"
      /\ cancelling[c] # "no" => crawl[c] # "absent"
  BY DEF RowsFollow
<1>3. CASE Check(c)
  <2>1. creating' = [creating EXCEPT ![c] = "enqueue"] /\ creating[c] = "no"
        /\ UNCHANGED <<job, crawl, tick, cancelling>>
    BY <1>3 DEF Check
  <2>2. creating'[c] = "enqueue" /\ \A d \in Crawls : d # c => creating'[d] = creating[d]
    BY <1>1, <2>1
  <2> QED BY <1>2, <2>1, <2>2, RowFollows
<1>4. CASE EnqueueJob(c)
  <2>1. /\ creating[c] = "enqueue" /\ creating' = [creating EXCEPT ![c] = "insert"]
        /\ job' = [job EXCEPT ![c].status = "queued"] /\ UNCHANGED <<crawl, tick, cancelling>>
    BY <1>4 DEF EnqueueJob
  <2>2. /\ creating'[c] = "insert" /\ job'[c].status = "queued"
        /\ \A d \in Crawls : d # c => creating'[d] = creating[d] /\ job'[d] = job[d]
    BY <1>1, <2>1 DEF Job
  <2> QED BY <1>2, <2>1, <2>2, RowFollows
<1>5. CASE InsertCrawl(c)
  <2>1. /\ creating[c] = "insert" /\ creating' = [creating EXCEPT ![c] = "done"]
        /\ crawl' = [crawl EXCEPT ![c] = "queued"] \/ UNCHANGED crawl
        /\ UNCHANGED <<job, tick, cancelling>>
    BY <1>5 DEF InsertCrawl
  <2>2. /\ creating'[c] = "done" /\ crawl'[c] \in {"queued", "absent"} /\ cancelling[c] = "no"
        /\ \A d \in Crawls : d # c => creating'[d] = creating[d] /\ crawl'[d] = crawl[d]
    BY <1>1, <1>2, <2>1
  <2> QED BY <1>2, <2>1, <2>2, RowFollows
<1>6. CASE AskCancel(c)
  <2>1. /\ crawl[c] # "absent" /\ cancelling' = [cancelling EXCEPT ![c] = "flag"]
        /\ UNCHANGED <<job, crawl, tick, creating>>
    BY <1>6 DEF AskCancel
  <2>2. \A d \in Crawls : d # c => cancelling'[d] = cancelling[d]
    BY <1>1, <2>1
  <2> QED BY <1>2, <2>1, <2>2, RowFollows
<1>7. CASE CancelStep(c)
  <2>1. /\ cancelling[c] # "no" /\ UNCHANGED <<tick, creating>>
        /\ \E step : cancelling' = [cancelling EXCEPT ![c] = step]
        /\ \/ job' = job
           \/ \E filter, new : JobUpdate(c, filter, new)
                 /\ new \in {[job[c] EXCEPT !.cancel = TRUE], [job[c] EXCEPT !.status = "cancelled"]}
        /\ crawl' = crawl \/ CrawlUpdate(c, Active, "cancelled")
    BY <1>7, Zenon DEF CancelStep
  <2>2. \A d \in Crawls : d # c => cancelling'[d] = cancelling[d]
    BY <1>1, <2>1
  <2>3. /\ \A d \in Crawls : d # c => crawl'[d] = crawl[d]
        /\ crawl[c] # "absent" /\ crawl'[c] # "absent"
    BY <1>1, <1>2, <2>1, CrawlChanges
  <2>4. /\ \A d \in Crawls : d # c => job'[d] = job[d]
        /\ job'[c] \in {job[c], [job[c] EXCEPT !.cancel = TRUE], [job[c] EXCEPT !.status = "cancelled"]}
    BY <1>1, <2>1, JobChanges
  <2>5. job[c].status # "absent" => job'[c].status # "absent"
    BY <1>1, <2>4 DEF Job
  <2>6. creating[c] = "done"
    BY <1>1, <1>2, <2>3
  <2> QED BY <1>2, <2>1, <2>2, <2>3, <2>4, <2>5, <2>6, RowFollows
<1>8. CASE LockExpires(c)
  <2>1. /\ job[c].status \in Locked /\ job' = [job EXCEPT ![c].expired = TRUE]
        /\ UNCHANGED <<crawl, tick, creating, cancelling>>
    BY <1>8 DEF LockExpires
  <2>2. /\ job'[c].status = job[c].status
        /\ \A d \in Crawls : d # c => job'[d] = job[d]
    BY <1>1, <2>1 DEF Job
  <2>3. creating[c] \notin {"no", "enqueue"}
    BY <1>2, <2>1 DEF NewJob, Locked
  <2> QED BY <1>2, <2>1, <2>2, <2>3, RowFollows
<1> QED BY <1>3, <1>4, <1>5, <1>6, <1>7, <1>8

\* A row once made stays, whoever dies.
LEMMA NextFollows ==
  ASSUME ClaimInv, RowsFollow, [Next]_vars
  PROVE  RowsFollow'
<1>1. ASSUME NEW c \in Crawls,
             Check(c) \/ EnqueueJob(c) \/ InsertCrawl(c) \/ AskCancel(c) \/ CancelStep(c) \/ LockExpires(c)
      PROVE  RowsFollow'
  BY <1>1, CoreFollows
<1>2. ASSUME NEW t \in Ticks, Poll(t) \/ TickStep(t)
      PROVE  RowsFollow'
  BY <1>2, PollFollows, BurnFollows, ClaimFollows, QuietFollows, CrawlStepFollows, JobStepFollows DEF TickStep
<1>3. ASSUME NEW w \in Workers, Crash(w)
      PROVE  RowsFollow'
  <2>1. /\ \A t \in Ticks : tick'[t].pc = "idle" \/ tick'[t] = tick[t]
        /\ UNCHANGED <<job, crawl, creating, cancelling>>
    BY <1>3 DEF Crash, IdleTick
  <2> QED BY <2>1 DEF RowsFollow, Loaded
<1>4. CASE UNCHANGED vars
  BY <1>4 DEF vars, RowsFollow
<1> QED BY <1>1, <1>2, <1>3, <1>4 DEF Next

LEMMA InitFollows == Init => RowsFollow
  BY DEF Init, RowsFollow, Loaded, IdleTick

-----------------------------------------------------------------------------
(* Runs hold their jobs *)

\* RunsHold and EndsMatch, tick by tick and crawl by crawl: what a tick whose job
\* is j and whose crawl's row says x has of them,
Fine(s, j, x) ==
  /\ s.pc \in Holding => j.status \in Locked /\ ~j.expired /\ j.attempts = s.attempts
  /\ s.pc = "failCrawl" => j.status \notin Locked \/ s.attempts < j.attempts
  /\ s.pc \in {"claim", "failWrite"} /\ s.status = "queued" => s.attempts < MaxAttempts
  /\ s.pc = "complete" => x = "completed"
  /\ s.pc = "ack" => x = "cancelled"

AllFine == \A t \in Ticks : tick[t].pc # "idle" => Fine(tick[t], job[tick[t].crawl], crawl[tick[t].crawl])

\* what two ticks do, one of them about to take over from the other,
AllFree ==
  \A t \in Ticks : tick[t].pc = "claim" /\ tick[t].status \in Locked =>
    \A u \in Ticks : AtWork(u, tick[t].crawl) => tick[u].attempts # tick[t].attempts

\* and what the two rows do.
Completing(c) == \E t \in Ticks : tick[t].pc = "complete" /\ tick[t].crawl = c
Match(c) ==
  /\ job[c].status = "queued" => job[c].attempts < MaxAttempts
  /\ job[c].status = "completed" => crawl[c] = "completed"
  /\ crawl[c] = "completed" => job[c].status = "completed" \/ Completing(c)
  /\ job[c].status = "cancelled" =>
       \/ crawl[c] \in {"cancelled", "failed"}
       \/ crawl[c] \in Active /\ cancelling[c] \in {"look", "close"}
AllMatch == \A c \in Crawls : Match(c)

\* The two parts of the invariant, rearranged.
LEMMA HeldParts ==
  TicksNameTheirJob /\ faults = 0 =>
    ((RunsHold /\ EndsMatch) <=> (AllFine /\ AllFree /\ AllMatch))
<1> SUFFICES ASSUME TicksNameTheirJob, faults = 0
             PROVE  (RunsHold /\ EndsMatch) <=> (AllFine /\ AllFree /\ AllMatch)
  OBVIOUS
<1>1. ASSUME RunsHold, EndsMatch PROVE AllFine /\ AllFree /\ AllMatch
  <2>1. AllFine
    BY <1>1 DEF RunsHold, EndsMatch, AllFine, Fine
  <2>2. AllFree
    BY <1>1 DEF RunsHold, AllFree
  <2>3. AllMatch
    BY <1>1, Zenon DEF RunsHold, EndsMatch, AllMatch, Match, Completing
  <2> QED BY <2>1, <2>2, <2>3
<1>2. ASSUME AllFine, AllFree, AllMatch PROVE RunsHold /\ EndsMatch
  <2>1. RunsHold
    BY <1>2 DEF RunsHold, AllFine, Fine, AllFree, AllMatch, Match, Holding
  <2>2. EndsMatch
    <3>1. \A t \in Ticks :
            /\ tick[t].pc = "complete" => crawl[tick[t].crawl] = "completed"
            /\ tick[t].pc = "ack" => crawl[tick[t].crawl] = "cancelled"
      BY <1>2 DEF AllFine, Fine
    <3> QED BY <1>2, <3>1, Zenon DEF EndsMatch, AllMatch, Match, Completing
  <2> QED BY <2>1, <2>2
<1> QED BY <1>1, <1>2

LEMMA HeldPartsNext ==
  (TicksNameTheirJob /\ faults = 0)' =>
    ((RunsHold /\ EndsMatch)' <=> (AllFine /\ AllFree /\ AllMatch)')
BY HeldParts, PTL

\* A tick that works with the attempt the row is at, and all is in order.
LEMMA HolderIsAlone ==
  ASSUME ClaimInv, AllFine, AllMatch, NEW t \in Ticks, tick[t].pc \in Holding
  PROVE  LET c == tick[t].crawl IN
         /\ c \in Crawls /\ job[c] \in Job /\ job[c].status \in Locked /\ ~job[c].expired
         /\ job[c].attempts = tick[t].attempts
         /\ \A u \in Ticks : AtWork(u, c) /\ u # t =>
              tick[u].pc = "failCrawl" /\ tick[u].attempts < job[c].attempts
         /\ crawl[c] = "completed" => tick[t].pc = "complete"
<1> DEFINE c == tick[t].crawl
<1>1. /\ c \in Crawls /\ job[c] \in Job /\ job[c].status \in Locked /\ ~job[c].expired
      /\ job[c].attempts = tick[t].attempts
  BY TickHasJob DEF AllFine, Fine, Holding
<1>2. ASSUME NEW u \in Ticks, AtWork(u, c), u # t
      PROVE  tick[u].pc = "failCrawl" /\ tick[u].attempts < job[c].attempts
  <2>1. AtWork(t, c)
    BY DEF AtWork, Holding
  <2>2. tick[u].attempts # job[c].attempts
    BY <1>1, <1>2, <2>1 DEF ClaimInv, AttemptsAreClaimedOnce
  <2>3. tick[u].pc \notin Holding
    BY <1>2, <2>2 DEF AllFine, Fine, AtWork
  <2>4. tick[u].pc = "failCrawl"
    BY <1>2, <2>3 DEF AtWork, Holding, ClaimInv, TypeOK, Tick
  <2>5. tick[u].crawl = c
    BY <1>2 DEF AtWork
  <2>6. job[c].status \notin Locked \/ tick[u].attempts < job[c].attempts
    BY <2>4, <2>5 DEF AllFine, Fine
  <2> QED BY <1>1, <2>4, <2>6
<1>3. ASSUME crawl[c] = "completed" PROVE tick[t].pc = "complete"
  <2>1. Completing(c)
    BY <1>1, <1>3 DEF AllMatch, Match, Locked
  <2>2. PICK u \in Ticks : tick[u].pc = "complete" /\ tick[u].crawl = c
    BY <2>1 DEF Completing
  <2> QED BY <1>2, <2>2 DEF AtWork
<1> QED BY <1>1, <1>2, <1>3

\* Claims not yet made stay free to make, or hopeless, while nobody polls or claims.
LEMMA StaysFree ==
  ASSUME AllFree,
         \A u \in Ticks : \/ tick'[u] = tick[u] \/ tick'[u].pc = "idle"
                          \/ /\ tick[u].pc \notin {"idle", "claim"} /\ Same(tick[u], tick'[u])
                             /\ tick'[u].pc # "claim"
  PROVE  AllFree'
  BY DEF AllFree, AtWork, Same

\* The run that holds a job may do with it what its claim is for.
LEMMA HolderMoves ==
  ASSUME ClaimInv, AllFine, AllFree, AllMatch, NEW t \in Ticks, tick[t].pc \in Holding,
         NEW c, c = tick[t].crawl, Others(t, c),
         job'[c].attempts = job[c].attempts,
         \/ tick'[t].pc = "idle"
         \/ Same(tick[t], tick'[t]) /\ tick'[t].pc # "claim" /\ Fine(tick'[t], job'[c], crawl'[c]),
         job'[c].status = "queued" => job[c].attempts < MaxAttempts,
         job'[c].status = "completed" => crawl'[c] = "completed",
         crawl'[c] = "completed" => job'[c].status = "completed" \/ tick'[t].pc = "complete",
         job'[c].status = "cancelled" => crawl'[c] = "cancelled"
  PROVE  AllFine' /\ AllFree' /\ AllMatch'
<1>1. /\ c \in Crawls /\ job[c].attempts = tick[t].attempts
      /\ \A u \in Ticks : AtWork(u, c) /\ u # t =>
           tick[u].pc = "failCrawl" /\ tick[u].attempts < job[c].attempts
  BY HolderIsAlone
<1>2. AllFine'
  <2> SUFFICES ASSUME NEW u \in Ticks, tick'[u].pc # "idle"
               PROVE  Fine(tick'[u], job'[tick'[u].crawl], crawl'[tick'[u].crawl])
    BY DEF AllFine, Fine
  <2>1. CASE u = t
    BY <2>1 DEF Same
  <2>2. CASE u # t
    <3>1. tick'[u] = tick[u] /\ tick[u].crawl \in Crawls
      BY <2>2, TickHasJob DEF Others
    <3>2. Fine(tick[u], job[tick[u].crawl], crawl[tick[u].crawl])
      BY <3>1 DEF AllFine
    <3>3. CASE tick[u].crawl # c
      BY <3>1, <3>2, <3>3 DEF Others
    <3>4. CASE tick[u].crawl = c
      <4>1. tick[u].pc = "claim" \/ (tick[u].pc = "failCrawl" /\ tick[u].attempts < job'[c].attempts)
        BY <1>1, <2>2, <3>1, <3>4 DEF AtWork
      <4> QED BY <3>1, <3>2, <3>4, <4>1 DEF Fine, Holding
    <3> QED BY <3>3, <3>4
  <2> QED BY <2>1, <2>2
<1>3. AllFree'
  BY StaysFree DEF Others, Holding
<1>4. AllMatch'
  <2> SUFFICES ASSUME NEW d \in Crawls PROVE Match(d)'
    BY DEF AllMatch
  <2>1. CASE d = c
    <3>1. tick'[t].pc = "complete" => Completing(c)'
      BY DEF Completing, Same
    <3> QED BY <2>1, <3>1 DEF Match
  <2>2. CASE d # c
    <3>1. Completing(d) => Completing(d)'
      BY <2>2 DEF Completing, Others
    <3>2. Match(d) /\ job'[d] = job[d] /\ crawl'[d] = crawl[d] /\ cancelling' = cancelling
      BY <2>2 DEF AllMatch, Others
    <3> QED BY <3>1, <3>2 DEF Match
  <2> QED BY <2>1, <2>2
<1> QED BY <1>2, <1>3, <1>4

\* Nobody can be disturbed by a step that leaves every tick what it needs; a tick
\* may give up, if it has not the crawl's last word to pass on.
LEMMA RowsMove ==
  ASSUME ClaimInv, AllFine, AllFree, AllMatch, NEW c \in Crawls,
         \A d \in Crawls : d # c => job'[d] = job[d] /\ crawl'[d] = crawl[d] /\ cancelling'[d] = cancelling[d],
         \A u \in Ticks : tick'[u] = tick[u] \/ (tick[u].pc \in {"claim", "failCrawl"} /\ tick'[u].pc = "idle"),
         \A u \in Ticks : tick[u].pc # "idle" /\ tick[u].crawl = c =>
           tick'[u].pc = "idle" \/ Fine(tick[u], job'[c], crawl'[c]),
         job'[c].status = "queued" => job'[c].attempts < MaxAttempts,
         job'[c].status = "completed" => crawl'[c] = "completed",
         crawl'[c] = "completed" => job'[c].status = "completed" \/ Completing(c),
         job'[c].status = "cancelled" =>
           \/ crawl'[c] \in {"cancelled", "failed"}
           \/ crawl'[c] \in Active /\ cancelling'[c] \in {"look", "close"}
  PROVE  AllFine' /\ AllFree' /\ AllMatch'
<1>1. AllFine'
  <2> SUFFICES ASSUME NEW u \in Ticks, tick'[u].pc # "idle"
               PROVE  Fine(tick'[u], job'[tick'[u].crawl], crawl'[tick'[u].crawl])
    BY DEF AllFine, Fine
  <2>1. tick'[u] = tick[u] /\ tick[u].crawl \in Crawls
    BY TickHasJob
  <2>2. Fine(tick[u], job[tick[u].crawl], crawl[tick[u].crawl])
    BY <2>1 DEF AllFine
  <2> QED BY <2>1, <2>2
<1>2. AllFree'
  BY StaysFree
<1>3. AllMatch'
  <2> SUFFICES ASSUME NEW d \in Crawls PROVE Match(d)'
    BY DEF AllMatch
  <2>1. Completing(d) => Completing(d)'
    BY DEF Completing
  <2>2. CASE d = c
    BY <2>1, <2>2 DEF Match
  <2>3. CASE d # c
    <3>1. Match(d) /\ job'[d] = job[d] /\ crawl'[d] = crawl[d] /\ cancelling'[d] = cancelling[d]
      BY <2>3 DEF AllMatch
    <3> QED BY <2>1, <3>1 DEF Match
  <2> QED BY <2>2, <2>3
<1> QED BY <1>1, <1>2, <1>3

\* A candidate whose lock is over has no run left: nothing has failed, so none of
\* them outlived it.
LEMMA PollHolds ==
  ASSUME ClaimInv, RowsFollow, AllFine, AllFree, AllMatch, ~Fault, faults' = 0, NEW t \in Ticks, Poll(t)
  PROVE  AllFine' /\ AllFree' /\ AllMatch'
<1>1. TypeOK /\ tick \in [Ticks -> Tick]
  BY DEF ClaimInv, TypeOK
<1>2. PICK w \in Workers, c \in Crawls :
        /\ Candidate(c)
        /\ tick' = [tick EXCEPT ![t] = [IdleTick EXCEPT !.pc = "claim", !.home = w, !.crawl = c,
                                          !.status = job[c].status, !.attempts = job[c].attempts]]
  BY DEF Poll
<1> DEFINE n == [IdleTick EXCEPT !.pc = "claim", !.home = w, !.crawl = c,
                                 !.status = job[c].status, !.attempts = job[c].attempts]
<1>3. n.pc = "claim" /\ n.crawl = c /\ n.status = job[c].status /\ n.attempts = job[c].attempts
  BY DEF IdleTick
<1> HIDE DEF n
<1>4. /\ tick'[t] = n /\ tick[t].pc = "idle" /\ job' = job /\ crawl' = crawl /\ cancelling' = cancelling
      /\ \A u \in Ticks : u # t => tick'[u] = tick[u]
  BY <1>1, <1>2 DEF n, Poll
<1>5. AllFine'
  <2>1. Match(c)
    BY DEF AllMatch
  <2>2. Fine(n, job[c], crawl[c])
    BY <1>3, <2>1 DEF Fine, Match, Holding
  <2> QED BY <1>3, <1>4, <2>2 DEF AllFine
<1>6. AllFree'
  <2>1. ASSUME job[c].status \in Locked, NEW u \in Ticks, AtWork(u, c)
        PROVE  tick[u].attempts # job[c].attempts
    <3>1. job[c].expired
      BY <1>2, <2>1 DEF Candidate, Locked
    <3>2. CASE tick[u].pc \in Holding
      BY <2>1, <3>1, <3>2, HolderIsAlone DEF AtWork
    <3>3. CASE tick[u].pc = "failCrawl"
      <4>1. tick[u].crawl = c /\ tick[u].attempts < job[c].attempts
        BY <2>1, <3>3 DEF AtWork, AllFine, Fine
      <4>2. tick[u].attempts \in Nat
        BY <1>1 DEF Tick
      <4>3. job[c].attempts \in Nat
        BY <1>1, CrawlAssumption DEF TypeOK, Job
      <4> QED BY <4>1, <4>2, <4>3
    <3>4. tick[u].pc \in Holding \cup {"failCrawl"}
      BY <1>1, <2>1 DEF AtWork, Tick, Holding
    <3> QED BY <3>2, <3>3, <3>4
  <2> QED BY <1>3, <1>4, <2>1 DEF AllFree, AtWork
<1>7. AllMatch'
  <2>1. \A d \in Crawls : Completing(d) => Completing(d)'
    BY <1>4 DEF Completing
  <2> QED BY <1>4, <2>1 DEF AllMatch, Match
<1> QED BY <1>5, <1>6, <1>7

\* Whoever read a row that is still as it was finds no run at it.
LEMMA StillIsFree ==
  ASSUME ClaimInv, RowsFollow, AllFine, AllFree, AllMatch, NEW t \in Ticks, tick[t].pc = "claim",
         job[tick[t].crawl].attempts = tick[t].attempts,
         job[tick[t].crawl].status = tick[t].status \/ tick[t].status \in Locked
  PROVE  /\ \A u \in Ticks : tick[u].crawl = tick[t].crawl => tick[u].pc \notin Holding
         /\ crawl[tick[t].crawl] = "completed" => job[tick[t].crawl].status = "completed"
<1> DEFINE c == tick[t].crawl
<1>1. ASSUME NEW u \in Ticks, tick[u].crawl = c, tick[u].pc \in Holding
      PROVE  FALSE
  <2>1. AtWork(u, c) /\ tick[u].attempts = tick[t].attempts /\ job[c].status \in Locked
    BY <1>1, HolderIsAlone DEF AtWork, Holding
  <2>2. tick[t].status \in Locked
    BY <2>1
  <2> QED BY <2>1, <2>2 DEF AllFree
<1>2. Match(c)
  BY TickFits DEF AllMatch
<1>3. ~Completing(c)
  BY <1>1 DEF Completing, Holding, Steps
<1> QED BY <1>1, <1>2, <1>3 DEF Match

LEMMA BurnHolds ==
  ASSUME ClaimInv, RowsFollow, AllFine, AllFree, AllMatch, ~Fault, faults' = 0, NEW t \in Ticks, Burn(t)
  PROVE  AllFine' /\ AllFree' /\ AllMatch'
<1> DEFINE c == tick[t].crawl
           failed == [job[c] EXCEPT !.status = "failed"]
<1>1. /\ TypeOK /\ tick[t] \in Tick /\ c \in Crawls /\ job[c] \in Job /\ tick[t].pc = "claim"
      /\ tick[t].status \in Active
  BY TickFits DEF Burn, Fits
<1>2. JobUpdate(c, job[c].status \in Active, failed) /\ Rest(t)
      /\ UNCHANGED <<crawl, creating, cancelling>>
  BY DEF Burn
<1>3. failed.status = "failed"
  BY <1>1 DEF Job
<1> HIDE DEF failed
<1>4. job'[c] = IF job[c].status \in Active THEN failed ELSE job[c]
  BY <1>1, <1>2 DEF JobUpdate, TypeOK
<1>5. job[c].attempts = tick[t].attempts /\ tick[t].status \in Locked
  <2>1. tick[t].attempts \in Nat /\ job[c].attempts \in 0..MaxAttempts
    BY <1>1 DEF Tick, Job
  <2>2. tick[t].attempts >= MaxAttempts /\ tick[t].attempts <= job[c].attempts
    BY <1>1 DEF Burn, Exhausted, ClaimInv, TicksNameTheirJob
  <2>3. tick[t].status # "queued"
    BY <1>1, <2>1, <2>2, CrawlAssumption DEF AllFine, Fine
  <2> QED BY <1>1, <2>1, <2>2, <2>3, CrawlAssumption DEF Active, Locked
<1>6. /\ \A u \in Ticks : tick[u].crawl = c => tick[u].pc \notin Holding
      /\ crawl[c] = "completed" => job[c].status = "completed"
  BY <1>1, <1>5, StillIsFree
<1>7. /\ tick'[t].pc = "idle" /\ \A u \in Ticks : u # t => tick'[u] = tick[u]
      /\ \A d \in Crawls : d # c => job'[d] = job[d]
  BY <1>1, <1>2, JobChanges, TickGoes
<1>8. \A u \in Ticks : tick[u].pc # "idle" /\ tick[u].crawl = c => Fine(tick[u], job'[c], crawl'[c])
  <2> SUFFICES ASSUME NEW u \in Ticks, tick[u].pc # "idle", tick[u].crawl = c
               PROVE  Fine(tick[u], job'[c], crawl'[c])
    OBVIOUS
  <2>1. Fine(tick[u], job[c], crawl[c]) /\ tick[u].pc \notin Holding
    BY <1>6 DEF AllFine
  <2> QED BY <1>2, <1>3, <1>4, <2>1 DEF Fine, Holding, Locked
<1>9. Match(c)
  BY <1>1 DEF AllMatch
<1>10. /\ job'[c].status = "queued" => job'[c].attempts < MaxAttempts
       /\ job'[c].status = "completed" => crawl'[c] = "completed"
       /\ crawl'[c] = "completed" => job'[c].status = "completed"
       /\ job'[c].status = "cancelled" =>
            \/ crawl'[c] \in {"cancelled", "failed"}
            \/ crawl'[c] \in Active /\ cancelling'[c] \in {"look", "close"}
  BY <1>2, <1>3, <1>4, <1>6, <1>9 DEF Match, Active
<1> QED BY <1>1, <1>2, <1>7, <1>8, <1>10, RowsMove

\* The new run is the only one that can hold the job: the last one is over.
LEMMA ClaimHolds ==
  ASSUME ClaimInv, RowsFollow, AllFine, AllFree, AllMatch, ~Fault, faults' = 0, NEW t \in Ticks, Claim(t)
  PROVE  AllFine' /\ AllFree' /\ AllMatch'
<1> DEFINE s == tick[t]
           c == s.crawl
           n == tick'[t]
<1>1. /\ c \in Crawls /\ Others(t, c) /\ crawl' = crawl /\ s.pc = "claim"
      /\ s.status \in Active /\ job[c] \in Job /\ s.attempts \in Nat /\ s.attempts < MaxAttempts
      /\ \/ /\ Still(s) /\ job'[c].status = "running" /\ ~job'[c].expired
            /\ job'[c].attempts = s.attempts + 1
            /\ n.pc = "load" /\ n.crawl = c /\ n.attempts = s.attempts + 1
         \/ job'[c] = job[c] /\ n.pc = "idle"
  BY ClaimTakes
<1>2. UNCHANGED cancelling /\ \A u \in Ticks : u # t => tick'[u] = tick[u]
  BY <1>1 DEF Others
<1>3. Match(c)
  BY <1>1 DEF AllMatch
<1>4. CASE job'[c] = job[c] /\ n.pc = "idle"
  <2>1. \A u \in Ticks : tick[u].pc # "idle" /\ tick[u].crawl = c => Fine(tick[u], job'[c], crawl'[c])
    BY <1>1, <1>4 DEF AllFine
  <2> QED BY <1>1, <1>2, <1>3, <1>4, <2>1, RowsMove DEF Others, Match
<1>5. CASE /\ Still(s) /\ job'[c].status = "running" /\ ~job'[c].expired
           /\ job'[c].attempts = s.attempts + 1
           /\ n.pc = "load" /\ n.crawl = c /\ n.attempts = s.attempts + 1
  <2>1. /\ job[c].attempts = s.attempts /\ job[c].status = s.status
        /\ \A u \in Ticks : tick[u].crawl = c => tick[u].pc \notin Holding
        /\ crawl[c] = "completed" => job[c].status = "completed"
    BY <1>1, <1>5, StillIsFree DEF Still
  <2>2. crawl[c] # "completed" /\ ~Completing(c)
    BY <1>1, <2>1 DEF Active, Completing, Holding, Steps
  <2>3. \A u \in Ticks : tick[u].pc # "idle" /\ tick[u].crawl = c =>
          tick[u].attempts \in Nat /\ tick[u].attempts <= s.attempts
    BY <2>1 DEF ClaimInv, TypeOK, Tick, TicksNameTheirJob
  <2>4. AllFine'
    <3> SUFFICES ASSUME NEW u \in Ticks, tick'[u].pc # "idle"
                 PROVE  Fine(tick'[u], job'[tick'[u].crawl], crawl'[tick'[u].crawl])
      BY DEF AllFine, Fine
    <3>1. CASE u = t
      <4>1. n.pc = "load" /\ n.crawl = c /\ job'[c].status \in Locked /\ ~job'[c].expired /\ job'[c].attempts = n.attempts
        BY <1>5 DEF Locked
      <4> QED BY <3>1, <4>1 DEF Fine
    <3>2. CASE u # t
      <4>1. tick'[u] = tick[u] /\ tick[u].crawl \in Crawls
        BY <1>2, <3>2, TickHasJob
      <4>2. Fine(tick[u], job[tick[u].crawl], crawl[tick[u].crawl])
        BY <4>1 DEF AllFine
      <4>3. CASE tick[u].crawl # c
        BY <1>1, <4>1, <4>2, <4>3 DEF Others
      <4>4. CASE tick[u].crawl = c
        <5>1. tick[u].pc \notin Holding /\ tick[u].attempts < job'[c].attempts
          BY <1>1, <1>5, <2>1, <2>3, <4>1, <4>4
        <5> QED BY <1>1, <4>1, <4>2, <4>4, <5>1 DEF Fine, Holding
      <4> QED BY <4>3, <4>4
    <3> QED BY <3>1, <3>2
  <2>5. AllFree'
    <3> SUFFICES ASSUME NEW u \in Ticks, tick'[u].pc = "claim", tick'[u].status \in Locked,
                        NEW v \in Ticks, tick'[v].crawl = tick'[u].crawl, tick'[v].pc \notin {"idle", "claim"}
                 PROVE  tick'[v].attempts # tick'[u].attempts
      BY DEF AllFree, AtWork
    <3>1. tick'[u] = tick[u]
      BY <1>2, <1>5
    <3>2. CASE v = t
      <4>1. tick[u].crawl = c /\ n.attempts = s.attempts + 1
        BY <1>5, <3>1, <3>2
      <4>2. tick[u].attempts \in Nat /\ tick[u].attempts <= s.attempts
        BY <2>3, <3>1, <4>1
      <4> QED BY <1>1, <3>1, <3>2, <4>1, <4>2
    <3>3. CASE v # t
      BY <1>2, <3>1, <3>3 DEF AllFree, AtWork
    <3> QED BY <3>2, <3>3
  <2>6. AllMatch'
    <3> SUFFICES ASSUME NEW d \in Crawls PROVE Match(d)'
      BY DEF AllMatch
    <3>1. CASE d = c
      BY <1>1, <1>5, <2>2, <3>1 DEF Match
    <3>2. CASE d # c
      <4>1. Completing(d) => Completing(d)'
        BY <1>1, <1>2 DEF Completing
      <4>2. Match(d) /\ job'[d] = job[d] /\ crawl'[d] = crawl[d] /\ cancelling' = cancelling
        BY <1>1, <3>2 DEF AllMatch, Others
      <4> QED BY <4>1, <4>2 DEF Match
    <3> QED BY <3>1, <3>2
  <2> QED BY <2>4, <2>5, <2>6
<1> QED BY <1>1, <1>4, <1>5

\* The steps of a run that write nothing, or to the crawl's row only.
LEMMA HeldCrawlSteps ==
  ASSUME ClaimInv, RowsFollow, AllFine, AllFree, AllMatch, ~Fault, faults' = 0, NEW t \in Ticks,
         Load(t) \/ Work(t) \/ FailRead(t) \/ Start(t) \/ Save(t) \/ CancelCrawl(t)
  PROVE  AllFine' /\ AllFree' /\ AllMatch'
<1> DEFINE c == tick[t].crawl
<1>1. tick[t].pc \in Holding /\ tick[t].pc # "idle" /\ job' = job /\ UNCHANGED <<creating, cancelling>>
  BY DEF Load, Work, FailRead, Start, Save, CancelCrawl, Holding, Steps
<1>2. /\ TypeOK /\ tick[t] \in Tick /\ tick \in [Ticks -> Tick] /\ crawl \in [Crawls -> Status]
      /\ c \in Crawls /\ job[c] \in Job
  BY <1>1, TickFits DEF TypeOK
<1>3. /\ job[c].status \in Locked /\ ~job[c].expired /\ job[c].attempts = tick[t].attempts
      /\ crawl[c] = "completed" => tick[t].pc = "complete"
  BY <1>1, HolderIsAlone
\* It is enough that the crawl is completed only for a run that goes on to complete the job.
<1>4. ASSUME \A u \in Ticks : u # t => tick'[u] = tick[u],
             \A d \in Crawls : d # c => crawl'[d] = crawl[d],
             Same(tick[t], tick'[t]), tick'[t].pc \notin {"claim", "failCrawl"},
             tick'[t].pc = "failWrite" /\ tick'[t].status = "queued" => job[c].attempts < MaxAttempts,
             crawl'[c] = "completed" <=> tick'[t].pc = "complete",
             tick'[t].pc = "ack" => crawl'[c] = "cancelled"
      PROVE  AllFine' /\ AllFree' /\ AllMatch'
  <2>1. Others(t, c)
    BY <1>1, <1>4 DEF Others
  <2>2. Fine(tick'[t], job'[c], crawl'[c])
    BY <1>1, <1>3, <1>4 DEF Fine, Same
  <2>3. job'[c] = job[c] /\ job'[c].status \notin {"queued", "completed", "cancelled"}
    BY <1>1, <1>3 DEF Locked
  <2> QED BY <1>1, <1>4, <2>1, <2>2, <2>3, HolderMoves
<1>5. CASE Load(t)
  <2>1. (To(t, "start") \/ To(t, "missing")) /\ crawl' = crawl /\ tick[t].pc = "load"
    BY <1>5 DEF Load
  <2> QED BY <1>2, <1>3, <1>4, <2>1, TickGoes
<1>6. CASE Work(t)
  <2>1. /\ crawl' = crawl /\ tick[t].pc = "work"
        /\ \/ To(t, "analyze") \/ To(t, "fail")
           \/ tick' = [tick EXCEPT ![t].pc = "beat", ![t].pages = @ + 1]
    BY <1>6 DEF Work
  <2>2. CASE tick' = [tick EXCEPT ![t].pc = "beat", ![t].pages = @ + 1]
    <3>1. tick'[t].pc = "beat" /\ Same(tick[t], tick'[t]) /\ \A u \in Ticks : u # t => tick'[u] = tick[u]
      BY <1>2, <2>2 DEF Tick, Same
    <3> QED BY <1>3, <1>4, <2>1, <3>1
  <2> QED BY <1>2, <1>3, <1>4, <2>1, <2>2, TickGoes
<1>7. CASE FailRead(t)
  <2>1. /\ crawl' = crawl /\ tick[t].pc \in {"fail", "missing"}
        /\ \A u \in Ticks : u # t => tick'[u] = tick[u]
        /\ Same(tick[t], tick'[t])
        /\ tick'[t].pc \in {"failWrite", "missingWrite"}
        /\ tick'[t].pc = "failWrite" => tick'[t].status = "failed" \/ job[c].attempts < MaxAttempts
    BY <1>1, <1>2, <1>3, <1>7, FailReads DEF Locked, Final
  <2> QED BY <1>3, <1>4, <2>1
<1>8. CASE Start(t)
  <2>1. To(t, "work") /\ CrawlUpdate(c, Status, "running")
    BY <1>8 DEF Start
  <2>2. crawl'[c] = "running" /\ \A d \in Crawls : d # c => crawl'[d] = crawl[d]
    BY <1>2, <2>1 DEF CrawlUpdate
  <2> QED BY <1>2, <1>4, <2>1, <2>2, TickGoes
<1>9. CASE Save(t)
  <2>1. To(t, "complete") /\ CrawlUpdate(c, Status, "completed")
    BY <1>9 DEF Save
  <2>2. crawl'[c] = "completed" /\ \A d \in Crawls : d # c => crawl'[d] = crawl[d]
    BY <1>2, <2>1 DEF CrawlUpdate
  <2> QED BY <1>2, <1>4, <2>1, <2>2, TickGoes
<1>10. CASE CancelCrawl(t)
  <2>1. To(t, "ack") /\ CrawlUpdate(c, Status, "cancelled")
    BY <1>10 DEF CancelCrawl
  <2>2. crawl'[c] = "cancelled" /\ \A d \in Crawls : d # c => crawl'[d] = crawl[d]
    BY <1>2, <2>1 DEF CrawlUpdate
  <2> QED BY <1>2, <1>4, <2>1, <2>2, TickGoes
<1> QED BY <1>5, <1>6, <1>7, <1>8, <1>9, <1>10

\* The steps of a run that write to its job's row: heartbeats, and its three ends.
LEMMA HeldJobSteps ==
  ASSUME ClaimInv, RowsFollow, AllFine, AllFree, AllMatch, ~Fault, faults' = 0, NEW t \in Ticks,
         Beat(t) \/ Analyze(t) \/ Complete(t) \/ AcknowledgeCancel(t) \/ FailWrite(t)
  PROVE  AllFine' /\ AllFree' /\ AllMatch'
<1> DEFINE c == tick[t].crawl
<1>1. tick[t].pc \in Holding /\ tick[t].pc # "idle" /\ UNCHANGED <<crawl, creating, cancelling>>
  BY DEF Beat, Analyze, Complete, AcknowledgeCancel, FailWrite, Holding, Steps
<1>2. /\ TypeOK /\ tick[t] \in Tick /\ tick \in [Ticks -> Tick] /\ job \in [Crawls -> Job]
      /\ c \in Crawls /\ job[c] \in Job /\ Fits(tick[t], crawl[c])
  BY <1>1, TickFits DEF TypeOK
<1>3. /\ job[c].status \in Locked /\ ~job[c].expired /\ job[c].attempts = tick[t].attempts
      /\ crawl[c] = "completed" => tick[t].pc = "complete"
  BY <1>1, HolderIsAlone
<1>4. Fine(tick[t], job[c], crawl[c])
  BY <1>1 DEF AllFine
<1>5. CASE Beat(t) \/ Analyze(t)
  <2> DEFINE beaten == [job[c] EXCEPT !.status = "processing", !.expired = FALSE]
  <2>1. /\ JobUpdate(c, job[c].lockedBy = tick[t].home, beaten) /\ tick[t].pc \in {"beat", "analyze"}
        /\ \E step \in {"cancel", "work", "save", "fail"} : To(t, step)
    BY <1>5 DEF Beat, Analyze, Beaten
  <2>2. beaten.status = "processing" /\ ~beaten.expired /\ beaten.attempts = job[c].attempts
    BY <1>2 DEF Job
  <2> HIDE DEF beaten
  <2>3. job'[c] \in {job[c], beaten} /\ \A d \in Crawls : d # c => job'[d] = job[d]
    BY <1>2, <2>1, JobChanges
  <2>4. /\ job'[c].status \in Locked /\ ~job'[c].expired /\ job'[c].attempts = job[c].attempts
    BY <1>3, <2>2, <2>3 DEF Locked
  <2>5. /\ \A u \in Ticks : u # t => tick'[u] = tick[u]
        /\ Same(tick[t], tick'[t]) /\ tick'[t].pc \in {"cancel", "work", "save", "fail"}
    BY <1>2, <2>1, TickGoes
  <2>6. Others(t, c) /\ Fine(tick'[t], job'[c], crawl'[c])
    BY <1>1, <1>3, <2>3, <2>4, <2>5 DEF Others, Fine, Same
  <2>7. crawl'[c] # "completed" /\ job'[c].status \notin {"queued", "completed", "cancelled"}
    BY <1>1, <1>3, <2>1, <2>4 DEF Locked
  <2> QED BY <1>1, <2>4, <2>5, <2>6, <2>7, HolderMoves
<1>6. CASE Complete(t) \/ AcknowledgeCancel(t)
  <2> DEFINE ended(st) == [job[c] EXCEPT !.status = st]
  <2>1. PICK st \in {"completed", "cancelled"} :
          /\ JobUpdate(c, job[c].status \in Locked, ended(st)) /\ Rest(t)
          /\ tick[t].pc = IF st = "completed" THEN "complete" ELSE "ack"
    BY <1>6 DEF Complete, AcknowledgeCancel
  <2> DEFINE new == ended(st)
  <2>2. new.status = st /\ new.attempts = job[c].attempts
    BY <1>2 DEF Job
  <2>3. JobUpdate(c, job[c].status \in Locked, new)
    BY <2>1
  <2> HIDE DEF new
  <2>4. job'[c] = new /\ \A d \in Crawls : d # c => job'[d] = job[d]
    BY <1>2, <1>3, <2>3 DEF JobUpdate
  <2>5. tick'[t].pc = "idle" /\ \A u \in Ticks : u # t => tick'[u] = tick[u]
    BY <1>2, <2>1, TickGoes
  <2>6. Others(t, c)
    BY <1>1, <2>4, <2>5 DEF Others
  <2>7. crawl'[c] = st
    BY <1>1, <1>4, <2>1 DEF Fine
  <2> QED BY <1>1, <2>2, <2>4, <2>5, <2>6, <2>7, HolderMoves
<1>7. CASE FailWrite(t)
  <2> DEFINE new == [job[c] EXCEPT !.status = tick[t].status, !.lockedBy = None, !.expired = FALSE]
  <2>1. /\ JobUpdate(c, job[c].status \in Active, new) /\ AfterFail(t)
        /\ tick[t].pc \in {"failWrite", "missingWrite"}
    BY <1>7 DEF FailWrite
  <2>2. new.status = tick[t].status /\ new.attempts = job[c].attempts
    BY <1>2 DEF Job
  <2>3. tick[t].status \in {"queued", "failed"} /\ (tick[t].pc = "missingWrite" => tick[t].status = "failed")
    BY <1>2, <2>1 DEF Fits
  <2> HIDE DEF new
  <2>4. job'[c] = new /\ \A d \in Crawls : d # c => job'[d] = job[d]
    BY <1>2, <1>3, <2>1 DEF JobUpdate, Locked, Active
  <2>5. /\ \A u \in Ticks : u # t => tick'[u] = tick[u]
        /\ tick'[t].pc = "idle" \/ (tick'[t].pc = "failCrawl" /\ Same(tick[t], tick'[t]))
    BY <1>2, <2>1, AfterFailGoes
  <2>6. Others(t, c)
    BY <1>1, <2>4, <2>5 DEF Others
  <2>7. job'[c].status = "queued" => job[c].attempts < MaxAttempts
    BY <1>3, <1>4, <2>1, <2>2, <2>3, <2>4 DEF Fine
  <2>8. tick'[t].pc = "failCrawl" => Fine(tick'[t], job'[c], crawl'[c])
    BY <2>2, <2>3, <2>4 DEF Fine, Holding, Locked
  <2>9. crawl'[c] # "completed"
    BY <1>1, <1>3, <2>1
  <2> QED BY <1>1, <2>2, <2>3, <2>4, <2>5, <2>6, <2>7, <2>8, <2>9, HolderMoves
<1> QED BY <1>5, <1>6, <1>7

\* The crawl's row is marked when the run is no longer the job's.
LEMMA FailCrawlHolds ==
  ASSUME ClaimInv, RowsFollow, AllFine, AllFree, AllMatch, ~Fault, faults' = 0, NEW t \in Ticks, FailCrawl(t)
  PROVE  AllFine' /\ AllFree' /\ AllMatch'
<1> DEFINE c == tick[t].crawl
<1>1. /\ tick[t].pc = "failCrawl" /\ job' = job /\ UNCHANGED <<creating, cancelling>>
      /\ CrawlUpdate(c, Active, "failed") /\ Rest(t)
  BY DEF FailCrawl
<1>2. TypeOK /\ c \in Crawls /\ crawl \in [Crawls -> Status]
  BY <1>1, TickFits DEF TypeOK
<1>3. /\ crawl'[c] = crawl[c] \/ (crawl[c] \in Active /\ crawl'[c] = "failed")
      /\ \A d \in Crawls : d # c => crawl'[d] = crawl[d]
  BY <1>1, <1>2, CrawlChanges
<1>4. tick'[t].pc = "idle" /\ \A u \in Ticks : u # t => tick'[u] = tick[u]
  BY <1>1, <1>2, TickGoes
<1>5. ASSUME NEW u \in Ticks, tick[u].pc # "idle", tick[u].crawl = c
      PROVE  Fine(tick[u], job'[c], crawl'[c])
  <2>1. Fine(tick[u], job[c], crawl[c])
    BY <1>5 DEF AllFine
  <2> QED BY <1>1, <1>3, <2>1 DEF Fine, Active
<1>6. Match(c)
  BY <1>2 DEF AllMatch
<1> QED BY <1>1, <1>2, <1>3, <1>4, <1>5, <1>6, RowsMove DEF Match, Active

\* createCrawl, requestCrawlCancel and the end of a lock nobody works under.
LEMMA CoreHolds ==
  ASSUME ClaimInv, RowsFollow, AllFine, AllFree, AllMatch, ~Fault, faults' = 0, NEW c \in Crawls,
         Check(c) \/ EnqueueJob(c) \/ InsertCrawl(c) \/ AskCancel(c) \/ CancelStep(c) \/ LockExpires(c)
  PROVE  AllFine' /\ AllFree' /\ AllMatch'
<1>1. /\ TypeOK /\ job \in [Crawls -> Job] /\ job[c] \in Job
      /\ crawl \in [Crawls -> Status]
      /\ cancelling \in [Crawls -> {"no", "flag", "dequeue", "look", "close"}]
  BY DEF ClaimInv, TypeOK
<1>2. /\ creating[c] \in {"no", "enqueue"} => job[c] = NewJob
      /\ creating[c] # "done" => crawl[c] = "absent"
      /\ cancelling[c] # "no" => crawl[c] # "absent"
  BY DEF RowsFollow
<1>3. Match(c)
  BY DEF AllMatch
<1>4. \A u \in Ticks : tick[u].pc # "idle" /\ tick[u].crawl = c =>
        /\ job[c].status # "absent" /\ Fine(tick[u], job[c], crawl[c])
        /\ tick[u].pc \in {"complete", "ack"} => crawl[c] \notin Active \cup {"absent"}
  BY TickFits DEF AllFine, Fine, Active
<1>5. CASE Check(c) \/ AskCancel(c)
  <2>1. /\ UNCHANGED <<job, crawl, tick>>
        /\ cancelling' = cancelling \/ (cancelling[c] = "no" /\ \E st : cancelling' = [cancelling EXCEPT ![c] = st])
    BY <1>5 DEF Check, AskCancel
  <2>2. \A d \in Crawls : d # c => cancelling'[d] = cancelling[d]
    BY <1>1, <2>1
  <2>3. cancelling' = cancelling \/ cancelling[c] = "no"
    BY <2>1
  <2> QED BY <1>3, <1>4, <2>1, <2>2, <2>3, RowsMove DEF Match
<1>6. CASE EnqueueJob(c)
  <2>1. creating[c] = "enqueue" /\ job' = [job EXCEPT ![c].status = "queued"] /\ UNCHANGED <<crawl, tick, cancelling>>
    BY <1>6 DEF EnqueueJob
  <2>2. job[c] = NewJob /\ job[c].status = "absent" /\ job[c].attempts = 0
    BY <1>2, <2>1 DEF NewJob
  <2>3. /\ job'[c].status = "queued" /\ job'[c].attempts = 0
        /\ \A d \in Crawls : d # c => job'[d] = job[d]
    BY <1>1, <2>1, <2>2 DEF Job
  <2>4. crawl[c] # "completed" /\ 0 < MaxAttempts
    BY <1>3, <1>4, <2>2, CrawlAssumption DEF Match, Completing
  <2> QED BY <1>4, <2>1, <2>2, <2>3, <2>4, RowsMove
<1>7. CASE InsertCrawl(c)
  <2>1. /\ creating[c] = "insert"
        /\ crawl' = [crawl EXCEPT ![c] = "queued"] \/ UNCHANGED crawl
        /\ UNCHANGED <<job, tick, cancelling>>
    BY <1>7 DEF InsertCrawl
  <2>2. crawl[c] = "absent" /\ crawl'[c] \in {"queued", "absent"} /\ \A d \in Crawls : d # c => crawl'[d] = crawl[d]
    BY <1>1, <1>2, <2>1
  <2>3. job[c].status \notin {"completed", "cancelled"}
    BY <1>3, <2>2 DEF Match, Active
  <2>4. \A u \in Ticks : tick[u].pc # "idle" /\ tick[u].crawl = c => Fine(tick[u], job'[c], crawl'[c])
    BY <1>4, <2>1, <2>2 DEF Fine
  <2> QED BY <1>3, <2>1, <2>2, <2>3, <2>4, RowsMove DEF Match
<1>8. CASE LockExpires(c)
  <2>1. /\ job[c].status \in Locked /\ job' = [job EXCEPT ![c].expired = TRUE]
        /\ UNCHANGED <<crawl, tick, cancelling>>
        /\ \A u \in Ticks : AtWork(u, c) => tick[u].attempts # job[c].attempts
    BY <1>8 DEF LockExpires
  <2>2. /\ job'[c].status = job[c].status /\ job'[c].attempts = job[c].attempts
        /\ \A d \in Crawls : d # c => job'[d] = job[d]
    BY <1>1, <2>1 DEF Job
  <2>3. ASSUME NEW u \in Ticks, tick[u].pc # "idle", tick[u].crawl = c
        PROVE  Fine(tick[u], job'[c], crawl'[c])
    <3>1. tick[u].pc \notin Holding
      BY <1>4, <2>1, <2>3 DEF AtWork, Fine, Holding
    <3> QED BY <1>4, <2>1, <2>2, <2>3, <3>1 DEF Fine, Holding
  <2> QED BY <1>3, <2>1, <2>2, <2>3, RowsMove DEF Match
<1>9. CASE CancelStep(c)
  <2>1. tick' = tick /\ crawl[c] # "absent" /\ cancelling[c] # "no"
    BY <1>2, <1>9 DEF CancelStep
  <2>2. CASE cancelling[c] = "flag"
    <3> DEFINE new == [job[c] EXCEPT !.cancel = TRUE]
    <3>1. /\ JobUpdate(c, job[c].status \in Active, new)
          /\ cancelling' = [cancelling EXCEPT ![c] = "dequeue"] /\ crawl' = crawl
      BY <1>9, <2>2 DEF CancelStep
    <3>2. /\ new.status = job[c].status /\ new.attempts = job[c].attempts /\ new.expired = job[c].expired
      BY <1>1 DEF Job
    <3> HIDE DEF new
    <3>3. /\ job'[c] \in {job[c], new} /\ \A d \in Crawls : d # c => job'[d] = job[d] /\ cancelling'[d] = cancelling[d]
      BY <1>1, <3>1, JobChanges
    <3>4. /\ job'[c].status = job[c].status /\ job'[c].attempts = job[c].attempts /\ job'[c].expired = job[c].expired
      BY <3>2, <3>3
    <3>5. \A u \in Ticks : tick[u].pc # "idle" /\ tick[u].crawl = c => Fine(tick[u], job'[c], crawl'[c])
      BY <1>4, <3>1, <3>4 DEF Fine
    <3> QED BY <1>3, <2>1, <2>2, <3>1, <3>3, <3>4, <3>5, RowsMove DEF Match
  <2>3. CASE cancelling[c] = "dequeue"
    <3> DEFINE new == [job[c] EXCEPT !.status = "cancelled"]
    <3>1. /\ JobUpdate(c, job[c].status = "queued", new)
          /\ cancelling' = [cancelling EXCEPT ![c] = "look"] /\ crawl' = crawl
      BY <1>9, <2>3 DEF CancelStep
    <3>2. new.status = "cancelled"
      BY <1>1 DEF Job
    <3> HIDE DEF new
    <3>3. /\ job'[c] = job[c] \/ (job[c].status = "queued" /\ job'[c] = new)
          /\ \A d \in Crawls : d # c => job'[d] = job[d] /\ cancelling'[d] = cancelling[d]
      BY <1>1, <3>1, JobChanges
    <3>4. cancelling'[c] = "look"
      BY <1>1, <3>1
    <3>5. ASSUME job[c].status = "queued", job'[c] = new
          PROVE  /\ \A u \in Ticks : tick[u].pc # "idle" /\ tick[u].crawl = c =>
                      tick[u].pc \notin Holding /\ Fine(tick[u], job'[c], crawl'[c])
                 /\ crawl[c] \in Active \cup {"cancelled", "failed"}
      <4>1. ASSUME NEW u \in Ticks, tick[u].pc # "idle", tick[u].crawl = c
            PROVE  tick[u].pc \notin Holding /\ Fine(tick[u], job'[c], crawl'[c])
        <5>1. tick[u].pc \notin Holding
          BY <1>4, <3>5, <4>1 DEF Fine, Locked
        <5> QED BY <1>4, <3>1, <3>2, <3>5, <4>1, <5>1 DEF Fine, Holding, Locked
      <4>2. ~Completing(c)
        BY <4>1 DEF Completing, Holding, Steps
      <4>3. crawl[c] # "completed"
        BY <1>3, <3>5, <4>2 DEF Match
      <4> QED BY <1>1, <2>1, <4>1, <4>3 DEF Status, Final
    <3>6. CASE job'[c] = job[c]
      <4>1. \A u \in Ticks : tick[u].pc # "idle" /\ tick[u].crawl = c => Fine(tick[u], job'[c], crawl'[c])
        BY <1>4, <3>1, <3>6
      <4> QED BY <1>3, <2>1, <2>3, <3>1, <3>3, <3>4, <3>6, <4>1, RowsMove DEF Match
    <3>7. CASE job[c].status = "queued" /\ job'[c] = new
      BY <2>1, <3>1, <3>2, <3>3, <3>4, <3>5, <3>7, RowsMove DEF Active
    <3> QED BY <3>3, <3>6, <3>7
  <2>4. CASE cancelling[c] = "look"
    <3>1. /\ UNCHANGED <<job, crawl>>
          /\ \/ cancelling' = [cancelling EXCEPT ![c] = "close"]
             \/ job[c].status # "cancelled" /\ cancelling' = [cancelling EXCEPT ![c] = "no"]
      BY <1>9, <2>4 DEF CancelStep
    <3>2. /\ \A d \in Crawls : d # c => cancelling'[d] = cancelling[d]
          /\ cancelling'[c] = "close" \/ job[c].status # "cancelled"
      BY <1>1, <3>1
    <3> QED BY <1>3, <1>4, <2>1, <2>4, <3>1, <3>2, RowsMove DEF Match
  <2>5. CASE cancelling[c] = "close"
    <3>1. /\ job' = job /\ CrawlUpdate(c, Active, "cancelled")
          /\ cancelling' = [cancelling EXCEPT ![c] = "no"]
      BY <1>9, <2>5 DEF CancelStep
    <3>2. crawl'[c] = IF crawl[c] \in Active THEN "cancelled" ELSE crawl[c]
      BY <1>1, <3>1, CrawlChanges
    <3>3. \A d \in Crawls : d # c => crawl'[d] = crawl[d] /\ cancelling'[d] = cancelling[d]
      BY <1>1, <3>1, CrawlChanges
    <3>4. \A u \in Ticks : tick[u].pc # "idle" /\ tick[u].crawl = c => Fine(tick[u], job'[c], crawl'[c])
      BY <1>4, <3>1, <3>2 DEF Fine
    <3> QED BY <1>3, <2>1, <3>1, <3>2, <3>3, <3>4, RowsMove DEF Match, Active
  <2> QED BY <1>1, <2>1, <2>2, <2>3, <2>4, <2>5
<1> QED BY <1>5, <1>6, <1>7, <1>8, <1>9

\* While nothing has failed, every step leaves runs their jobs.
LEMMA NextHolds ==
  ASSUME Inv, [Next]_vars
  PROVE  RunsHold' /\ EndsMatch'
<1> SUFFICES ASSUME faults' = 0 PROVE RunsHold' /\ EndsMatch'
  BY DEF RunsHold, EndsMatch
<1>1. ClaimInv /\ RowsFollow /\ TypeOK /\ ClaimInv' /\ faults = 0 /\ ~Fault
  BY NextClaims, NoFaultsYet DEF Inv, ClaimInv
<1>2. AllFine /\ AllFree /\ AllMatch
  BY <1>1, HeldParts DEF Inv, ClaimInv
<1>3. ASSUME NEW c \in Crawls,
             Check(c) \/ EnqueueJob(c) \/ InsertCrawl(c) \/ AskCancel(c) \/ CancelStep(c) \/ LockExpires(c)
      PROVE  AllFine' /\ AllFree' /\ AllMatch'
  BY <1>1, <1>2, <1>3, CoreHolds
<1>4. ASSUME NEW t \in Ticks, Poll(t) \/ TickStep(t)
      PROVE  AllFine' /\ AllFree' /\ AllMatch'
  BY <1>1, <1>2, <1>4, PollHolds, BurnHolds, ClaimHolds, HeldCrawlSteps, HeldJobSteps, FailCrawlHolds DEF TickStep
<1>5. ASSUME UNCHANGED vars PROVE AllFine' /\ AllFree' /\ AllMatch'
  <2>1. UNCHANGED <<job, crawl, tick, cancelling>>
    BY <1>5 DEF vars
  <2>2. AllFine'
    BY <1>2, <2>1 DEF AllFine, Fine
  <2>3. AllFree'
    BY <1>2, <2>1 DEF AllFree, AtWork
  <2>4. AllMatch'
    BY <1>2, <2>1 DEF AllMatch, Match, Completing
  <2> QED BY <2>2, <2>3, <2>4
<1>6. ~(\E w \in Workers : Crash(w))
  BY <1>1 DEF Crash
<1>7. AllFine' /\ AllFree' /\ AllMatch'
  <2>1. CASE UNCHANGED vars
    BY <1>5, <2>1
  <2>2. CASE \E c \in Crawls : Check(c) \/ EnqueueJob(c) \/ InsertCrawl(c)
                               \/ AskCancel(c) \/ CancelStep(c) \/ LockExpires(c)
    <3>1. PICK c \in Crawls : Check(c) \/ EnqueueJob(c) \/ InsertCrawl(c)
                              \/ AskCancel(c) \/ CancelStep(c) \/ LockExpires(c)
      BY <2>2
    <3> QED BY <1>3, <3>1
  <2>3. CASE \E t \in Ticks : Poll(t) \/ TickStep(t)
    BY <1>4, <2>3
  <2> QED BY <1>6, <2>1, <2>2, <2>3 DEF Next
<1>8. (RunsHold /\ EndsMatch)' <=> (AllFine /\ AllFree /\ AllMatch)'
  <2>1. TicksNameTheirJob'
    BY <1>1 DEF ClaimInv
  <2> QED BY <2>1, HeldPartsNext
<1> QED BY <1>7, <1>8

-----------------------------------------------------------------------------
(* The theorems *)

LEMMA InitHolds == Init => Inv
<1> SUFFICES ASSUME Init PROVE Inv
  OBVIOUS
<1>1. ClaimInv /\ RowsFollow
  BY InitClaims, InitFollows
<1>2. \A t \in Ticks : tick[t].pc = "idle"
  BY DEF Init, IdleTick
<1>3. \A c \in Crawls : job[c].status = "absent" /\ crawl[c] = "absent"
  BY DEF Init, NewJob
<1>4. RunsHold
  BY <1>2, <1>3 DEF RunsHold, Holding
<1>5. EndsMatch
  BY <1>2, <1>3 DEF EndsMatch
<1> QED BY <1>1, <1>4, <1>5 DEF Inv

LEMMA NextKeeps == Inv /\ [Next]_vars => Inv'
  BY NextClaims, NextFollows, NextHolds DEF Inv

\* Claims are distinct, rows are there when they are acted on, and until something
\* fails runs hold their jobs and the two rows end alike.
THEOREM InvHolds == Spec => []Inv
<1> QED BY InitHolds, NextKeeps, PTL DEF Spec

\* "Every claim bumps `attempts', so it doubles as the row's version": no two
\* runs of a job have the same attempt, whatever crashes, expires or overlaps.
THEOREM ClaimedOnce == Spec => []AttemptsAreClaimedOnce
<1>1. Inv => AttemptsAreClaimedOnce
  BY DEF Inv, ClaimInv
<1> QED BY <1>1, InvHolds, PTL

\* The status a job ends with may be changed only by a heartbeat that comes after
\* a fault: every other update names the statuses it may leave.
LEMMA FinalStays ==
  ASSUME TypeOK, NEW c \in Crawls, NEW filter, NEW new, JobUpdate(c, filter, new),
         filter => job[c].status \notin Final
  PROVE  \A d \in Crawls : job[d].status \in Final => job'[d].status = job[d].status
BY JobChanges

LEMMA NextFinishes ==
  ASSUME Inv, [Next]_vars, NEW c \in Crawls, job[c].status \in Final, job'[c].status # job[c].status
  PROVE  faults > 0 /\ job'[c].status = "processing"
<1>1. ClaimInv /\ RowsFollow /\ TypeOK /\ job \in [Crawls -> Job]
  BY DEF Inv, ClaimInv, TypeOK
<1>2. job' # job
  OBVIOUS
<1>3. ASSUME NEW d \in Crawls,
             Check(d) \/ EnqueueJob(d) \/ InsertCrawl(d) \/ AskCancel(d) \/ CancelStep(d) \/ LockExpires(d)
      PROVE  FALSE
  <2>1. CASE EnqueueJob(d)
    <3>1. job[d] = NewJob /\ job' = [job EXCEPT ![d].status = "queued"]
      BY <1>1, <2>1 DEF EnqueueJob, RowsFollow
    <3>2. job[d].status \notin Final
      BY <3>1 DEF NewJob, Final
    <3> QED BY <1>1, <3>1, <3>2
  <2>2. CASE LockExpires(d)
    <3>1. job' = [job EXCEPT ![d].expired = TRUE]
      BY <2>2 DEF LockExpires
    <3>2. job'[c].status = job[c].status
      BY <1>1, <3>1 DEF Job
    <3> QED BY <3>2
  <2>3. CASE CancelStep(d)
    <3> DEFINE flagged == [job[d] EXCEPT !.cancel = TRUE]
               ended == [job[d] EXCEPT !.status = "cancelled"]
    <3>1. \/ job' = job \/ JobUpdate(d, job[d].status \in Active, flagged)
          \/ JobUpdate(d, job[d].status = "queued", ended)
      BY <2>3, Zenon DEF CancelStep
    <3>2. /\ job[d].status \in Active => job[d].status \notin Final
          /\ job[d].status = "queued" => job[d].status \notin Final
      BY DEF Active, Final
    <3> HIDE DEF flagged, ended
    <3> QED BY <1>1, <3>1, <3>2, FinalStays
  <2>4. CASE Check(d) \/ InsertCrawl(d) \/ AskCancel(d)
    BY <1>2, <2>4 DEF Check, InsertCrawl, AskCancel
  <2> QED BY <1>3, <2>1, <2>2, <2>3, <2>4
<1>4. ASSUME NEW t \in Ticks, TickStep(t)
      PROVE  faults > 0 /\ job'[c].status = "processing"
  <2> DEFINE d == tick[t].crawl
             ended(st) == [job[d] EXCEPT !.status = st]
             failed == [job[d] EXCEPT !.status = tick[t].status, !.lockedBy = None, !.expired = FALSE]
             beaten == [job[d] EXCEPT !.status = "processing", !.expired = FALSE]
  <2>1. /\ job[d].status \in Active => job[d].status \notin Final
        /\ job[d].status \in Locked => job[d].status \notin Final
    BY DEF Active, Locked, Final
  <2>2. tick[t].pc # "idle" /\ d \in Crawls /\ job[d] \in Job
    <3>1. tick[t].pc # "idle"
      BY <1>4 DEF TickStep, Burn, Claim, Load, Start, Work, Beat, Analyze, Save, Complete, CancelCrawl,
                  AcknowledgeCancel, FailRead, FailWrite, FailCrawl
    <3> QED BY <1>1, <3>1, TickFits
  <2>3. CASE Burn(t)
    <3>1. JobUpdate(d, job[d].status \in Active, ended("failed"))
      BY <2>3 DEF Burn
    <3> HIDE DEF ended
    <3> QED BY <1>1, <2>1, <2>2, <3>1, FinalStays
  <2>4. CASE Claim(t)
    <3>1. \/ job'[d] = job[d]
          \/ job[d].status = tick[t].status /\ tick[t].status \in Active
      BY <1>1, <2>4, ClaimTakes DEF Still
    <3>2. Others(t, d)
      BY <1>1, <2>4, ClaimTakes
    <3> QED BY <2>1, <3>1, <3>2 DEF Others
  <2>5. CASE Complete(t) \/ AcknowledgeCancel(t)
    <3>1. \E st : JobUpdate(d, job[d].status \in Locked, ended(st))
      BY <2>5, Zenon DEF Complete, AcknowledgeCancel
    <3> HIDE DEF ended
    <3> QED BY <1>1, <2>1, <2>2, <3>1, FinalStays
  <2>6. CASE FailWrite(t)
    <3>1. JobUpdate(d, job[d].status \in Active, failed)
      BY <2>6 DEF FailWrite
    <3> HIDE DEF failed
    <3> QED BY <1>1, <2>1, <2>2, <3>1, FinalStays
  <2>7. CASE Beat(t) \/ Analyze(t)
    <3>1. JobUpdate(d, job[d].lockedBy = tick[t].home, beaten) /\ tick[t].pc \in {"beat", "analyze"}
      BY <2>7 DEF Beat, Analyze, Beaten
    <3>2. beaten.status = "processing"
      BY <2>2 DEF Job
    <3> HIDE DEF beaten
    <3>3. c = d /\ job'[c].status = "processing"
      BY <1>1, <2>2, <3>1, <3>2, JobChanges
    <3>4. faults # 0
      BY <3>1, <3>3 DEF Inv, RunsHold, Holding, Steps, Locked, Final
    <3> QED BY <1>1, <3>3, <3>4, CrawlAssumption DEF TypeOK
  <2>8. CASE Load(t) \/ Start(t) \/ Work(t) \/ Save(t) \/ CancelCrawl(t) \/ FailRead(t) \/ FailCrawl(t)
    BY <1>2, <2>8 DEF Load, Start, Work, Save, CancelCrawl, FailRead, FailCrawl
  <2> QED BY <1>4, <2>3, <2>4, <2>5, <2>6, <2>7, <2>8 DEF TickStep
<1>5. ASSUME (\E t \in Ticks : Poll(t)) \/ (\E w \in Workers : Crash(w)) \/ UNCHANGED vars
      PROVE  FALSE
  BY <1>2, <1>5 DEF Poll, Crash, vars
<1> QED BY <1>3, <1>4, <1>5 DEF Next

\* A finished job stays finished: only a heartbeat can bring it back, of a run that
\* has outlived its lock or was cut off from the database.
THEOREM FinishedStays == Spec => FinishedNeedsFault
<1>1. Inv /\ [Next]_vars =>
        [\A c \in Crawls : job[c].status \in Final =>
           \/ job'[c].status = job[c].status
           \/ faults > 0 /\ job'[c].status = "processing"]_vars
  BY NextFinishes
<1> QED BY <1>1, InvHolds, PTL DEF Spec, FinishedNeedsFault

\* What the user is shown and what the queue did come to the same end, unless a
\* statement failed, a process died or a run was slower than its lock.
THEOREM OutcomesMatch == Spec => []OutcomesAgree
<1>1. Inv => OutcomesAgree
  <2> SUFFICES ASSUME Inv, NEW c \in Crawls,
                      faults = 0, cancelling[c] = "no", \A t \in Ticks : ~AtWork(t, c)
               PROVE  /\ job[c].status = "completed" <=> crawl[c] = "completed"
                      /\ job[c].status = "cancelled" => crawl[c] \in {"cancelled", "failed"}
    BY DEF OutcomesAgree
  <2>1. ~(\E t \in Ticks : tick[t].pc = "complete" /\ tick[t].crawl = c)
    BY DEF AtWork
  <2> QED BY <2>1 DEF Inv, EndsMatch
<1> QED BY <1>1, InvHolds, PTL
==============================================================================

--------------------------- MODULE PollLoopProofs ---------------------------
(***************************************************************************)
(* Proofs about PollLoop for any number of runs, workers, claims, faults,  *)
(* retries and connections: Inv is inductive, and from it the loop of a    *)
(* connected integration that has its credential lives until one run has   *)
(* failed as often as it may or has met a worker with no OAuth client.     *)
(***************************************************************************)
EXTENDS PollLoop, ChannelQueueProofs, FiniteSetTheorems

\* The queue's places are places of a poll worker.
LEMMA PlacesOfQueue == QueuePC \subseteq PollPC
  BY DEF PollPC

-----------------------------------------------------------------------------
(* The queue's part of the invariant *)

\* Cancelling the waiting runs touches no claim: a waiting run has none.
LEMMA CancelKeepsQueue ==
  ASSUME QueueTypeOK(PollPC), QueueInv, SeedCancel
  PROVE  /\ QueueTypeOK(PollPC)' /\ QueueInv'
         /\ \A j \in Jobs : /\ row'[j].token = row[j].token /\ row'[j].attempt = row[j].attempt
                            /\ row'[j].leased = row[j].leased
                            /\ row'[j].status \in {row[j].status, "cancelled"}
<1>1. row \in [Jobs -> Row] /\ UNCHANGED <<lastToken, batch, cur, pc, retries>> /\ (Fault \/ NoFault)
  BY DEF QueueTypeOK, SeedCancel
<1>2. \A j \in Jobs :
        /\ [row[j] EXCEPT !.status = "cancelled"] \in Row
        /\ [row[j] EXCEPT !.status = "cancelled"].token = row[j].token
        /\ [row[j] EXCEPT !.status = "cancelled"].attempt = row[j].attempt
        /\ [row[j] EXCEPT !.status = "cancelled"].leased = row[j].leased
        /\ [row[j] EXCEPT !.status = "cancelled"].status = "cancelled"
  BY <1>1 DEF Row, Status
<1>3. row' \in [Jobs -> Row]
  BY <1>1, <1>2 DEF SeedCancel
<1>4. \A j \in Jobs :
        /\ row'[j].token = row[j].token /\ row'[j].attempt = row[j].attempt
        /\ row'[j].leased = row[j].leased
        /\ \/ row'[j].status = row[j].status
           \/ row[j].status = "pending" /\ row'[j].status = "cancelled"
  BY <1>1, <1>2 DEF SeedCancel, WaitingRuns
<1>5. QueueTypeOK(PollPC)'
  BY <1>1, <1>3, FaultIsBounded DEF QueueTypeOK, Handling
<1>6. ClaimsShrink
  BY <1>1 DEF ClaimsShrink, Handling
<1>7. RowsAreClaimed'
  BY <1>1, <1>4 DEF QueueInv, RowsAreClaimed
<1> QED BY <1>4, <1>5, <1>6, <1>7, ShrinkKeepsDistinct DEF QueueInv

\* Connects and disconnects touch no row and no worker.
LeavesQueue == Connect \/ ConnectStatus \/ SeedLost \/ Disconnect \/ DisconnectRest

LEMMA LeavesQueueAlone == LeavesQueue => UNCHANGED queueVars
  BY DEF LeavesQueue, Connect, ConnectStatus, SeedLost, Disconnect, DisconnectRest

\* Every other step is one of the queue's, or moves a worker that handles a run.
MovesOn(w) ==
  /\ Handling(w) /\ UNCHANGED <<row, lastToken, retries>> /\ (Fault \/ NoFault)
  /\ (\E step \in PollPC \ {"idle", "batch", "reportFailed"} : Goto(w, step)) \/ NextJob(w)

\* The steps of a run, but for its first, move the worker that handles it.
LEMMA RunMovesOn ==
  ASSUME NEW w \in Workers,
         Resolve(w) \/ ReadCredential(w) \/ AskNext(w) \/ NextAnswered(w) \/ Unreported(w)
  PROVE  MovesOn(w)
<1>1. Handling(w) /\ UNCHANGED <<row, lastToken, retries>> /\ (Fault \/ NoFault)
  BY DEF Resolve, ReadCredential, AskNext, NextAnswered, Unreported, Handling, NoFault
<1>2. {"complete", "release", "fail", "failForGood", "resolve", "credential", "askNext", "awaitNext"}
        \subseteq PollPC \ {"idle", "batch", "reportFailed"}
  BY DEF PollPC, QueuePC
<1>3. \/ \E step \in {"complete", "release", "fail", "failForGood", "credential", "askNext",
                     "awaitNext"} :
           Goto(w, step)
      \/ NextJob(w)
  BY DEF Resolve, ReadCredential, AskNext, NextAnswered, Unreported
<1> QED BY <1>1, <1>2, <1>3 DEF MovesOn

\* Every step keeps the queue's types and its invariant.
LEMMA StepKeepsQueue ==
  ASSUME TypeOK, QueueInv, [Next]_vars
  PROVE  QueueTypeOK(PollPC)' /\ QueueInv'
<1> USE PlacesOfQueue
<1>0. QueueTypeOK(PollPC)
  BY DEF TypeOK
<1>1. ASSUME UNCHANGED queueVars PROVE QueueTypeOK(PollPC)' /\ QueueInv'
  BY <1>0, <1>1 DEF queueVars, QueueTypeOK, Handling, QueueInv, RowsAreClaimed, ClaimsAreDistinct, Mine
<1>2. ASSUME NEW w \in Workers, MovesOn(w) PROVE QueueTypeOK(PollPC)' /\ QueueInv'
  <2>1. WorkerGoesOn(w, PollPC) /\ SettlesOwnJob(w)
    BY <1>2 DEF MovesOn, WorkerGoesOn, SettlesOwnJob
  <2> QED BY <1>0, <1>2, <2>1, GoesOnKeepsQueue DEF MovesOn
<1>3. ASSUME NEW w \in Workers, Begin(w) PROVE QueueTypeOK(PollPC)' /\ QueueInv'
  <2>1. "resolve" \in PollPC /\ "resolve" \notin {"idle", "batch"}
    BY DEF PollPC
  <2> QED BY <1>0, <1>3, <2>1, TakeKeepsQueue DEF Begin
<1>4. ASSUME NEW w \in Workers, QueueStep(w) PROVE QueueTypeOK(PollPC)' /\ QueueInv'
  BY <1>0, <1>4, QueueStepKeepsQueue DEF QueueStep
<1>5. ASSUME NEW w \in Workers, ClaimJobs(w) PROVE QueueTypeOK(PollPC)' /\ QueueInv'
  BY <1>0, <1>5, ClaimKeepsQueue DEF ClaimJobs
<1>6. ASSUME NEW w \in Workers, CrashPoll(w) PROVE QueueTypeOK(PollPC)' /\ QueueInv'
  BY <1>0, <1>6, CrashKeepsQueue DEF CrashPoll
<1>7. ASSUME NEW j \in Jobs, RetryRun(j) \/ TimePasses(j)
      PROVE  QueueTypeOK(PollPC)' /\ QueueInv'
  BY <1>0, <1>7, RowOnlyKeepsQueue DEF RetryRun, TimePasses
<1>8. ASSUME SeedInsert \/ \E x \in asks : NextInserted(x)
      PROVE  QueueTypeOK(PollPC)' /\ QueueInv'
  <2>1. \E j \in Jobs : \E due \in BOOLEAN : Enqueue(j, due)
    BY <1>8 DEF SeedInsert, NextInserted, EnqueueRun
  <2> QED BY <1>0, <2>1, RowOnlyKeepsQueue
<1>9. ASSUME SeedCancel PROVE QueueTypeOK(PollPC)' /\ QueueInv'
  BY <1>0, <1>9, CancelKeepsQueue
<1>10. UNCHANGED vars \/ LeavesQueue => UNCHANGED queueVars
  BY LeavesQueueAlone DEF vars
<1> QED
  BY <1>1, <1>2, <1>3, <1>4, <1>5, <1>6, <1>7, <1>8, <1>9, <1>10, RunMovesOn
  DEF Next, PollStep, LeavesQueue

-----------------------------------------------------------------------------
(* Types *)

\* Every step keeps TypeOK.
LEMMA StepKeepsTypes ==
  ASSUME TypeOK, QueueInv, [Next]_vars
  PROVE  TypeOK'
<1> DEFINE Counted == /\ gen \in [Jobs -> 0..MaxConnects]
                      /\ connection \in 0..MaxConnects
                      /\ seeding \in {"no", "status", "cancel", "insert", "lost"}
                      /\ leaving \in {"no", "status", "credential"}
                      /\ asks \subseteq Ask
<1>1. QueueTypeOK(PollPC)'
  BY StepKeepsQueue
<1>2. Counted /\ QueueTypeOK(PollPC)
  BY DEF TypeOK
<1>3. UNCHANGED pollVars => Counted'
  BY <1>2 DEF pollVars, account
<1>4. LeavesQueue \/ SeedCancel => Counted'
  <2>1. ASSUME Connect PROVE connection' \in 0..MaxConnects
    BY <1>2, <2>1, PollAssumption DEF Connect
  <2> QED BY <1>2, <2>1
      DEF LeavesQueue, Connect, ConnectStatus, SeedCancel, SeedLost, Disconnect, DisconnectRest, account
<1>5. ASSUME NEW g \in 0..MaxConnects, NEW due, EnqueueRun(g, due)
      PROVE  gen' \in [Jobs -> 0..MaxConnects]
  BY <1>2, <1>5 DEF EnqueueRun
<1>6. ASSUME SeedInsert PROVE Counted'
  <2>1. gen' \in [Jobs -> 0..MaxConnects]
    BY <1>2, <1>5, <1>6 DEF SeedInsert
  <2> QED BY <1>2, <1>6, <2>1 DEF SeedInsert, account
<1>7. ASSUME NEW x \in asks, NextInserted(x) PROVE Counted'
  <2>1. x.gen \in 0..MaxConnects
    BY <1>2 DEF Ask
  <2>2. gen' \in [Jobs -> 0..MaxConnects]
    BY <1>5, <1>7, <2>1 DEF NextInserted
  <2> QED BY <1>2, <1>7, <2>2 DEF NextInserted, account
<1>8. ASSUME NEW w \in Workers, AskNext(w) PROVE Counted'
  <2>1. cur[w] \in Claimed
    BY <1>2, <1>8 DEF AskNext, QueueTypeOK, Handling
  <2>2. MyAsk(w) \in Ask
    <3>1. cur[w].job \in Jobs /\ cur[w].token \in Nat /\ gen[cur[w].job] \in 0..MaxConnects
      BY <1>2, <2>1 DEF Claimed
    <3> QED BY <3>1 DEF MyAsk, Ask
  <2>3. asks' \subseteq asks \cup {MyAsk(w)} /\ UNCHANGED <<gen, connection, seeding>>
    BY <1>8 DEF AskNext
  <2>4. UNCHANGED leaving
    BY <1>8 DEF AskNext, account
  <2> QED BY <1>2, <2>2, <2>3, <2>4
<1>9. \/ UNCHANGED pollVars
      \/ LeavesQueue \/ SeedCancel \/ SeedInsert
      \/ \E x \in asks : NextInserted(x)
      \/ \E w \in Workers : Resolve(w) \/ AskNext(w)
  BY DEF Next, LeavesQueue, vars, PollStep, Begin, ReadCredential, NextAnswered, QueueStep, Unreported,
         ClaimJobs, CrashPoll, RetryRun, TimePasses, pollVars
<1>10. credential' \in BOOLEAN /\ connected' \in BOOLEAN /\ unset' \in BOOLEAN
  <2>1. /\ credential' = credential \/ credential' = TRUE \/ credential' = FALSE
        /\ connected' = connected \/ connected' = TRUE \/ connected' = FALSE
        /\ unset' = unset \/ unset' = TRUE \/ unset' = FALSE
    <3>1. CASE LeavesQueue \/ SeedCancel
      BY <3>1, Zenon DEF account, LeavesQueue, Connect, ConnectStatus, SeedCancel, SeedLost,
         Disconnect, DisconnectRest
    <3>2. CASE ~(LeavesQueue \/ SeedCancel)
      BY <1>9, <3>2, Zenon DEF pollVars, account, SeedInsert, NextInserted, Resolve, AskNext
    <3> QED BY <3>1, <3>2
  <2> QED BY <2>1 DEF TypeOK
<1>11. ASSUME NEW w \in Workers, Resolve(w) PROVE Counted'
  BY <1>2, <1>11 DEF Resolve, account
<1>12. Counted'
  BY <1>3, <1>4, <1>6, <1>7, <1>8, <1>9, <1>11
<1> QED BY <1>1, <1>10, <1>12 DEF TypeOK

-----------------------------------------------------------------------------
(* Runs beyond the first are paid for by faults *)

\* Every step keeps PollRunsArePaid.
LEMMA StepKeepsRunsPaid ==
  ASSUME TypeOK, QueueInv, PollRunsArePaid, [Next]_vars
  PROVE  PollRunsArePaid'
<1> DEFINE P == {"fail", "release"}
<1> USE PlacesOfQueue DEF PollRunsArePaid
<1>0. /\ QueueTypeOK(PollPC) /\ QueueTypeOK(PollPC)' /\ PaidPlaces(1, P)
      /\ "idle" \notin P /\ "batch" \notin P
  BY StepKeepsQueue DEF TypeOK, PaidPlaces
<1>1. ASSUME NEW w \in Workers, Handling(w), NEW step, Goto(w, step), step \in P => Fault,
             step \notin {"idle", "batch", "reportFailed"}, Fault \/ NoFault, UNCHANGED row
      PROVE  PollRunsArePaid'
  <2>1. PaidMove(w, P) /\ PaidRow(w, 1)
    BY <1>0, <1>1, GotoIsPaid DEF PaidRow
  <2> QED BY <1>0, <1>1, <2>1, WorkerKeepsPaid
<1>2. ASSUME NEW w \in Workers, Resolve(w) \/ ReadCredential(w) \/ AskNext(w) \/ NextAnswered(w)
      PROVE  PollRunsArePaid'
  <2>1. Handling(w) /\ UNCHANGED row
    BY <1>2 DEF Resolve, ReadCredential, AskNext, NextAnswered, Handling
  <2>2. \E step \in {"complete", "release", "fail", "failForGood", "credential", "askNext",
                     "awaitNext"} :
          Goto(w, step) /\ (step \in P => Fault) /\ (Fault \/ NoFault)
    BY <1>2 DEF Resolve, ReadCredential, AskNext, NextAnswered
  <2> QED BY <1>1, <2>1, <2>2
<1>3. ASSUME NEW w \in Workers, Unreported(w) PROVE PollRunsArePaid'
  <2>1. Handling(w) /\ NextJob(w) /\ UNCHANGED row /\ NoFault
    BY <1>3 DEF Unreported, Handling, NoFault
  <2>2. ClaimGone(w)
    BY <1>3, <2>1 DEF Unreported, RunsArePaid, ClaimGone, Holds
  <2>3. PaidMove(w, P) /\ PaidRow(w, 1)
    BY <2>1, <2>2 DEF PaidMove, PaidRow
  <2> QED BY <1>0, <2>1, <2>3, WorkerKeepsPaid
<1>4. ASSUME NEW w \in Workers, Begin(w) PROVE PollRunsArePaid'
  <2>1. "resolve" \notin P \cup {"idle", "batch", "reportFailed"}
    OBVIOUS
  <2> QED BY <1>0, <1>4, <2>1, TakeKeepsPaid DEF Begin
<1>5. ASSUME NEW w \in Workers, QueueStep(w) PROVE PollRunsArePaid'
  BY <1>0, <1>5, QueueStepKeepsPaid DEF QueueStep
<1>6. ASSUME NEW w \in Workers, ClaimJobs(w) PROVE PollRunsArePaid'
  BY <1>0, <1>6, ClaimKeepsPaid DEF ClaimJobs
<1>7. ASSUME NEW w \in Workers, CrashPoll(w) PROVE PollRunsArePaid'
  BY <1>0, <1>7, CrashKeepsPaid DEF CrashPoll
<1>8. ASSUME NEW j \in Jobs, RetryRun(j) \/ TimePasses(j) PROVE PollRunsArePaid'
  BY <1>0, <1>8, RowOnlyKeepsPaid DEF RetryRun, TimePasses
<1>9. ASSUME SeedInsert \/ \E x \in asks : NextInserted(x) PROVE PollRunsArePaid'
  <2>1. \E j \in Jobs : \E due \in BOOLEAN : Enqueue(j, due)
    BY <1>9 DEF SeedInsert, NextInserted, EnqueueRun
  <2> QED BY <1>0, <2>1, RowOnlyKeepsPaid
<1>10. ASSUME SeedCancel PROVE PollRunsArePaid'
  <2>1. /\ UNCHANGED <<batch, cur, pc>> /\ (Fault \/ NoFault)
        /\ \A j \in Jobs : /\ row'[j].token = row[j].token /\ row'[j].attempt = row[j].attempt
                           /\ row'[j].leased = row[j].leased
                           /\ row'[j].status \in {row[j].status, "cancelled"}
    BY <1>0, <1>10, CancelKeepsQueue DEF SeedCancel
  <2>2. \A j \in Jobs : Reclaimable(j)' => Reclaimable(j)
    BY <2>1 DEF Reclaimable, Held, Holds, Mine, Handling, QueueTypeOK
  <2> QED BY <1>0, <2>1, <2>2, RowsKeepPaid
<1>11. ASSUME UNCHANGED queueVars PROVE PollRunsArePaid'
  BY <1>11 DEF queueVars, RunsArePaid, Reclaimable, Held, Holds, Mine, Handling
<1>12. UNCHANGED vars \/ LeavesQueue => UNCHANGED queueVars
  BY LeavesQueueAlone DEF vars
<1> QED
  BY <1>2, <1>3, <1>4, <1>5, <1>6, <1>7, <1>8, <1>9, <1>10, <1>11, <1>12
  DEF Next, PollStep, LeavesQueue

-----------------------------------------------------------------------------
(* Some run lives *)

\* A run that waits after the step, or keeps its claim, lives on if nobody new is
\* about to end it.
LEMMA LifeStays ==
  ASSUME NEW j \in Jobs, Lives(j),
         \/ row'[j].status = "pending"
         \/ row'[j].status = row[j].status /\ row'[j].token = row[j].token,
         \A w \in Workers : Ends(w)' /\ cur'[w].job = j => Ends(w) /\ cur'[w] = cur[w]
  PROVE  Lives(j)'
<1>1. CASE row'[j].status = "pending"
  BY <1>1 DEF Lives
<1>2. CASE row'[j].status = "running" /\ row'[j].status = row[j].status /\ row'[j].token = row[j].token
  BY <1>2 DEF Lives, Holds
<1> QED BY <1>1, <1>2 DEF Lives

\* Who stays where it is ends what it was about to end.
LEMMA OthersEnd ==
  ASSUME UNCHANGED <<asks, gen>>, NEW w, pc'[w] = pc[w], cur'[w] = cur[w]
  PROVE  Ends(w)' = Ends(w) /\ cur'[w] = cur[w]
  BY DEF Ends, MyAsk

\* One worker goes on, and no row is touched.
LEMMA MoveKeepsLife ==
  ASSUME QueueTypeOK(PollPC), NEW v \in Workers, UNCHANGED <<row, asks, gen>>,
         (\E step : Goto(v, step)) \/ NextJob(v) \/ LeaveBatch(v),
         Ends(v)' => Ends(v) /\ cur'[v] = cur[v],
         NEW j \in Jobs, Lives(j)
  PROVE  Lives(j)'
<1>1. \A w \in Workers \ {v} : pc'[w] = pc[w] /\ cur'[w] = cur[w]
  BY DEF Goto, NextJob, LeaveBatch, QueueTypeOK
<1>2. \A w \in Workers : Ends(w)' => Ends(w) /\ cur'[w] = cur[w]
  BY <1>1, OthersEnd
<1> QED BY <1>2, LifeStays

\* The steps of a run: it does not go on to its end before another lives.
LEMMA RunKeepsLife ==
  ASSUME TypeOK, LoopMayRun, ~unset', NEW j \in Jobs, Lives(j), NEW w \in Workers,
         Resolve(w) \/ ReadCredential(w) \/ AskNext(w) \/ NextAnswered(w) \/ Unreported(w)
  PROVE  asks' # {} \/ \E i \in Jobs : Lives(i)'
<1>0. QueueTypeOK(PollPC) /\ UNCHANGED row /\ pc \in [Workers -> PollPC]
  BY DEF TypeOK, QueueTypeOK, Resolve, ReadCredential, AskNext, NextAnswered, Unreported
<1>1. ASSUME NEW step \in {"credential", "askNext", "fail", "release", "idle", "batch"},
             Goto(w, step), UNCHANGED <<asks, gen>>
      PROVE  Lives(j)'
  <2>1. pc'[w] = step
    BY <1>0, <1>1 DEF Goto
  <2>2. ~Ends(w)'
    BY <2>1 DEF Ends
  <2> QED BY <1>0, <1>1, <2>2, MoveKeepsLife
<1>2. CASE Resolve(w) \/ ReadCredential(w)
  <2>1. \E step \in {"credential", "askNext", "fail"} : Goto(w, step)
    BY <1>2, Zenon DEF Resolve, ReadCredential, LoopMayRun
  <2> QED BY <1>1, <1>2, <2>1 DEF Resolve, ReadCredential, pollVars
<1>3. CASE AskNext(w)
  <2>1. CASE WaitingRuns # {} /\ UNCHANGED asks
    <3>1. PICK i \in Jobs : row[i].status = "pending"
      BY <2>1 DEF WaitingRuns
    <3>2. Lives(i)'
      BY <1>0, <3>1 DEF Lives
    <3> QED BY <3>2
  <2>2. CASE asks' = asks \cup {MyAsk(w)}
    BY <2>2
  <2>3. CASE (Goto(w, "fail") \/ Goto(w, "release")) /\ UNCHANGED asks
    BY <1>1, <1>3, <2>3 DEF AskNext
  <2> QED BY <1>3, <2>1, <2>2, <2>3 DEF AskNext
<1>4. CASE NextAnswered(w)
  <2>1. CASE MyAsk(w) \notin asks /\ Goto(w, "complete")
    <3>1. Ends(w) /\ cur'[w] = cur[w]
      BY <1>4, <2>1 DEF NextAnswered, Ends, Goto
    <3> QED BY <1>0, <1>4, <2>1, <3>1, MoveKeepsLife DEF NextAnswered, pollVars
  <2>2. CASE Goto(w, "fail")
    BY <1>1, <1>4, <2>2 DEF NextAnswered, pollVars
  <2> QED BY <1>4, <2>1, <2>2 DEF NextAnswered
<1>5. CASE Unreported(w)
  <2>1. NextJob(w) /\ UNCHANGED <<asks, gen>>
    BY <1>5 DEF Unreported, pollVars
  <2>2. pc'[w] \in {"idle", "batch"}
    BY <1>0, <2>1 DEF NextJob
  <2>3. ~Ends(w)'
    BY <2>2 DEF Ends
  <2> QED BY <1>0, <2>1, <2>3, MoveKeepsLife
<1> QED BY <1>2, <1>3, <1>4, <1>5

\* Who ends a run for good held no life; who gives it up leaves it waiting.
LEMMA QueueStepKeepsLife ==
  ASSUME TypeOK, QueueInv, PollRunsArePaid, faults < MaxAttempts, NEW j \in Jobs, Lives(j),
         NEW w \in Workers, QueueStep(w)
  PROVE  Lives(j)'
<1> DEFINE s == cur[w]
<1>0. /\ QueueTypeOK(PollPC) /\ UNCHANGED <<asks, gen>> /\ faults \in Nat
      /\ Complete(w) \/ Release(w) \/ Fail(w)
  BY QueueAssumption DEF TypeOK, QueueTypeOK, QueueStep, pollVars
<1>1. /\ Handling(w) /\ SettlesOwnJob(w) /\ WorkerGoesOn(w, QueuePC)
      /\ s \in Claimed /\ s \in Mine(w) /\ s.job \in Jobs
  <2>1. Handling(w) /\ SettlesOwnJob(w) /\ WorkerGoesOn(w, QueuePC)
    BY <1>0, QueueStepEffect
  <2>2. s \in Claimed
    BY <1>0, <2>1 DEF QueueTypeOK
  <2> QED BY <2>1, <2>2 DEF Mine, Claimed
<1>2. /\ \A v \in Workers \ {w} : pc'[v] = pc[v] /\ cur'[v] = cur[v]
      /\ ~Ends(w)'
  <2>1. \A v \in Workers \ {w} : pc'[v] = pc[v] /\ cur'[v] = cur[v]
    BY <1>0, <1>1 DEF WorkerGoesOn, Goto, NextJob, LeaveBatch, QueueTypeOK
  <2>2. pc'[w] \in {"idle", "batch", "fail", "reportFailed"}
    BY <1>0 DEF Complete, Release, Fail, Goto, NextJob, LeaveBatch, QueueTypeOK
  <2>3. ~Ends(w)'
    BY <2>2 DEF Ends
  <2> QED BY <2>1, <2>3
<1>3. \A v \in Workers : Ends(v)' => Ends(v) /\ cur'[v] = cur[v]
  BY <1>0, <1>2, OthersEnd
<1>4. ASSUME row'[j] # row[j] PROVE row'[j].status = "pending"
  <2>1. Holds(s) /\ s.job = j
    BY <1>0, <1>1, <1>4 DEF SettlesOwnJob, QueueTypeOK
  <2>2. row[j].status = "running"
    <3>1. s.token \in 1..lastToken /\ lastToken \in Nat
      BY <1>0, <1>1 DEF QueueInv, ClaimsAreDistinct, QueueTypeOK
    <3>2. row[j].token > 0
      BY <2>1, <3>1 DEF Holds
    <3> QED BY <3>2 DEF QueueInv, RowsAreClaimed
  <2>3. ~Ends(w)
    BY <2>1, <2>2 DEF Lives
  <2>4. pc[w] \in {"release", "fail"}
    BY <1>0, <2>3 DEF Complete, Release, Fail, Ends
  <2>5. row \in [Jobs -> Row]
    BY <1>0 DEF QueueTypeOK
  <2>6. CASE pc[w] = "release"
    <3>1. FencedUpdate(s, ReleasedRow(s)) \/ UpdateFails(s, ReleasedRow(s))
      BY <1>0, <2>6 DEF Complete, Release, Fail
    <3>2. row'[j] = ReleasedRow(s)
      BY <1>4, <2>1, <2>5, <3>1 DEF FencedUpdate, UpdateFails
    <3> QED BY <1>0, <1>1, <3>2, UpdatesSettle
  <2>7. CASE pc[w] = "fail"
    <3>1. FencedUpdate(s, FailedRow(s, Exhausted(w))) \/ UpdateFails(s, FailedRow(s, Exhausted(w)))
      BY <1>0, <2>7 DEF Complete, Release, Fail
    <3>2. row'[j] = FailedRow(s, Exhausted(w))
      BY <1>4, <2>1, <2>5, <3>1 DEF FencedUpdate, UpdateFails
    <3>3. s.attempt = row[j].attempt /\ row[j].attempt < 1 + faults
      BY <1>1, <2>1, <2>7 DEF PollRunsArePaid, RunsArePaid
    <3>4. s.attempt \in Nat
      BY <1>1 DEF Claimed
    <3>5. ~Exhausted(w)
      BY <1>0, <2>7, <3>3, <3>4, QueueAssumption DEF Exhausted
    <3>6. FailedRow(s, FALSE).status = "pending"
      BY <1>0, <1>1, UpdatesCost
    <3>7. Exhausted(w) = FALSE
      BY <3>5 DEF Exhausted
    <3> QED BY <3>2, <3>6, <3>7
  <2> QED BY <2>4, <2>6, <2>7
<1> QED BY <1>3, <1>4, LifeStays

\* A claim takes a run over: whoever was about to end it has lost it.
LEMMA ClaimKeepsLife ==
  ASSUME TypeOK, QueueInv, NEW j \in Jobs, Lives(j), NEW w \in Workers, ClaimJobs(w)
  PROVE  Lives(j)'
<1>0. QueueTypeOK(PollPC) /\ UNCHANGED <<asks, gen>> /\ row \in [Jobs -> Row] /\ lastToken \in Nat
  BY DEF TypeOK, QueueTypeOK, ClaimJobs, pollVars
<1>1. PICK S \in SUBSET Jobs : Claim(w, S)
  BY DEF ClaimJobs
<1>2. /\ UNCHANGED cur
      /\ \A v \in Workers \ {w} : pc'[v] = pc[v]
      /\ ~Ends(w)'
  <2>1. UNCHANGED cur /\ pc' = [pc EXCEPT ![w] = "batch"]
    BY <1>1 DEF Claim
  <2>2. pc'[w] = "batch" /\ \A v \in Workers \ {w} : pc'[v] = pc[v]
    BY <1>0, <2>1 DEF QueueTypeOK
  <2> QED BY <2>1, <2>2 DEF Ends
<1>3. \A v \in Workers : Ends(v)' => v # w /\ Ends(v) /\ cur'[v] = cur[v]
  BY <1>0, <1>2, OthersEnd
<1>4. CASE j \notin S
  <2>1. row'[j] = row[j]
    BY <1>1, <1>4 DEF Claim
  <2> QED BY <1>3, <2>1, LifeStays
<1>5. CASE j \in S
  <2> DEFINE r == row[j]
             n == r.attempt + 1
             t == lastToken + 1
  <2>1. row'[j] = [r EXCEPT !.status = "running", !.attempt = n, !.token = t, !.leased = TRUE]
    BY <1>1, <1>5 DEF Claim
  <2>2. r \in Row
    BY <1>0
  <2> HIDE DEF r, n
  <2>3. row'[j].status = "running" /\ row'[j].token = t
    BY <2>1, <2>2 DEF Row
  <2>4. ASSUME NEW v \in Workers, Ends(v)', cur'[v].job = j, Holds(cur[v])' PROVE FALSE
    <3>1. Ends(v) /\ cur'[v] = cur[v]
      BY <1>3, <2>4
    <3>2. cur[v] \in Mine(v)
      BY <3>1 DEF Ends, Mine, Handling
    <3>3. cur[v].token \in 1..lastToken
      BY <3>2 DEF QueueInv, ClaimsAreDistinct
    <3>4. cur[v].token = t
      BY <2>3, <2>4, <3>1 DEF Holds
    <3> QED BY <1>0, <3>3, <3>4
  <2> QED BY <2>3, <2>4 DEF Lives
<1> QED BY <1>4, <1>5

\* A new row waits.
LEMMA NewRunLives ==
  ASSUME TypeOK, NEW j \in Jobs, NEW due, Enqueue(j, due)
  PROVE  Lives(j)'
<1>1. row[j] \in Row /\ row' = [row EXCEPT ![j].status = "pending", ![j].due = due]
      /\ row \in [Jobs -> Row]
  BY DEF TypeOK, QueueTypeOK, Enqueue
<1>2. row'[j].status = "pending"
  BY <1>1 DEF Row
<1> QED BY <1>2 DEF Lives

\* Time and an administrator's retry end no run.
LEMMA RowOnlyKeepsLife ==
  ASSUME TypeOK, NEW j \in Jobs, Lives(j), NEW i \in Jobs, RetryRun(i) \/ TimePasses(i)
  PROVE  Lives(j)'
<1>0. row \in [Jobs -> Row] /\ row[i] \in Row /\ UNCHANGED <<asks, gen, pc, cur>>
  BY DEF TypeOK, QueueTypeOK, RetryRun, TimePasses, AdminRetry, LeaseExpires, BackoffElapses, pollVars
<1>1. \A v \in Workers : Ends(v)' => Ends(v) /\ cur'[v] = cur[v]
  BY <1>0, OthersEnd
<1>2. \/ i = j /\ row[j].status = "failed"
      \/ row'[j].status = row[j].status /\ row'[j].token = row[j].token
  BY <1>0 DEF RetryRun, TimePasses, AdminRetry, LeaseExpires, BackoffElapses, Row
<1>3. row[j].status \in {"pending", "running"}
  BY DEF Lives
<1> QED BY <1>1, <1>2, <1>3, LifeStays

\* Every step keeps SomeRunLives.
LEMMA StepKeepsSomeRunLiving ==
  ASSUME TypeOK, TypeOK', QueueInv, PollRunsArePaid, SomeRunLives, [Next]_vars
  PROVE  SomeRunLives'
<1> SUFFICES ASSUME LoopMayRun'
             PROVE  asks' # {} \/ \E j \in Jobs : Lives(j)'
  BY DEF SomeRunLives
<1>0. QueueTypeOK(PollPC)
  BY DEF TypeOK
<1>1. ASSUME NEW j \in Jobs, NEW due, Enqueue(j, due) PROVE \E i \in Jobs : Lives(i)'
  BY <1>1, NewRunLives
<1>2. CASE SeedInsert \/ \E x \in asks : NextInserted(x)
  <2>1. \E j \in Jobs : \E due \in BOOLEAN : Enqueue(j, due)
    BY <1>2 DEF SeedInsert, NextInserted, EnqueueRun
  <2> QED BY <1>1, <2>1
\* After a connect's or a disconnect's write the loop need not run, unless what
\* should have made a disconnect's second write died first.
<1>3. LeavesQueue \/ SeedCancel =>
        UNCHANGED <<row, pc, cur, asks, gen, credential, connected, seeding, unset, faults>>
  <2>1. ASSUME Connect \/ ConnectStatus \/ SeedLost \/ Disconnect \/ SeedCancel PROVE FALSE
    <3>1. seeding' = "no" /\ credential' /\ connected'
      BY Zenon DEF LoopMayRun
    <3>2. CASE Disconnect
      BY <3>1, <3>2, Zenon DEF Disconnect
    <3>3. CASE Connect \/ ConnectStatus \/ SeedLost \/ SeedCancel
      BY <3>1, <3>3 DEF Connect, ConnectStatus, SeedLost, SeedCancel
    <3> QED BY <2>1, <3>2, <3>3
  <2>2. ASSUME DisconnectRest PROVE UNCHANGED <<credential, connected>>
    <3>1. credential' /\ connected'
      BY Zenon DEF LoopMayRun
    <3> QED BY <2>2, <3>1, Zenon DEF DisconnectRest
  <2> QED BY <2>1, <2>2 DEF LeavesQueue, DisconnectRest, queueVars
\* Any other step leaves the integration as it is and takes no request away.
<1>4. ASSUME UNCHANGED <<credential, connected, seeding>>, unset => unset',
             asks \subseteq asks', faults <= faults',
             \A j \in Jobs : Lives(j) /\ LoopMayRun /\ ~unset'
               => asks' # {} \/ \E i \in Jobs : Lives(i)'
      PROVE  asks' # {} \/ \E j \in Jobs : Lives(j)'
  <2>1. faults \in Nat /\ faults' \in Nat
    BY QueueAssumption DEF TypeOK, QueueTypeOK
  <2>2. faults < MaxAttempts
    <3>1. faults' < MaxAttempts
      BY DEF LoopMayRun
    <3> QED BY <1>4, <2>1, <3>1, QueueAssumption
  <2>3. LoopMayRun /\ ~unset'
    BY <1>4, <2>2, Zenon DEF LoopMayRun
  <2> QED BY <1>4, <2>3 DEF SomeRunLives
<1>5. ASSUME Fault \/ NoFault PROVE faults <= faults'
  BY <1>0, <1>5, QueueAssumption DEF Fault, NoFault, QueueTypeOK
<1>6. ASSUME NEW w \in Workers,
             Resolve(w) \/ ReadCredential(w) \/ AskNext(w) \/ NextAnswered(w) \/ Unreported(w)
      PROVE  asks' # {} \/ \E j \in Jobs : Lives(j)'
  <2>1. UNCHANGED <<credential, connected, seeding>> /\ (unset => unset') /\ asks \subseteq asks'
    BY <1>6 DEF Resolve, ReadCredential, AskNext, NextAnswered, Unreported, pollVars, account
  <2>2. faults <= faults'
    BY <1>5, <1>6, RunMovesOn DEF MovesOn
  <2> QED BY <1>4, <1>6, <2>1, <2>2, RunKeepsLife
<1>7. ASSUME NEW w \in Workers, Begin(w)
      PROVE  asks' # {} \/ \E j \in Jobs : Lives(j)'
  <2>1. PICK s \in batch[w] : Take(w, s, "resolve")
    BY <1>7 DEF Begin
  <2>2. /\ UNCHANGED <<row, gen, asks, credential, connected, seeding, unset, faults>>
        /\ \A v \in Workers \ {w} : pc'[v] = pc[v] /\ cur'[v] = cur[v]
        /\ pc'[w] = "resolve"
    BY <1>0, <1>7, <2>1 DEF Take, Begin, pollVars, account, QueueTypeOK
  <2>3. ~Ends(w)'
    BY <2>2 DEF Ends
  <2>4. \A v \in Workers : Ends(v)' => Ends(v) /\ cur'[v] = cur[v]
    BY <2>2, <2>3, OthersEnd
  <2>5. ASSUME NEW j \in Jobs, Lives(j) PROVE Lives(j)'
    BY <2>2, <2>4, <2>5, LifeStays
  <2>6. faults <= faults'
    BY <1>5, <2>2 DEF NoFault
  <2> QED BY <1>4, <2>2, <2>5, <2>6
<1>8. ASSUME NEW w \in Workers, QueueStep(w)
      PROVE  asks' # {} \/ \E j \in Jobs : Lives(j)'
  <2>1. UNCHANGED <<credential, connected, seeding, unset, asks>> /\ (Fault \/ NoFault)
    BY <1>0, <1>8, QueueStepEffect DEF QueueStep, pollVars, account
  <2>2. faults <= faults'
    BY <1>5, <2>1
  <2>3. ASSUME NEW j \in Jobs, Lives(j), LoopMayRun PROVE Lives(j)'
    BY <1>8, <2>3, QueueStepKeepsLife DEF LoopMayRun
  <2> QED BY <1>4, <2>1, <2>2, <2>3
<1>9. ASSUME NEW w \in Workers, ClaimJobs(w)
      PROVE  asks' # {} \/ \E j \in Jobs : Lives(j)'
  <2>1. UNCHANGED <<credential, connected, seeding, unset, asks>> /\ NoFault
    BY <1>9 DEF ClaimJobs, Claim, pollVars, account, NoFault
  <2> QED BY <1>4, <1>5, <1>9, <2>1, ClaimKeepsLife
<1>10. ASSUME NEW w \in Workers, CrashPoll(w)
       PROVE  asks' # {} \/ \E j \in Jobs : Lives(j)'
  <2>1. UNCHANGED <<credential, connected, seeding, unset, asks, gen, row>> /\ Fault /\ LeaveBatch(w)
    BY <1>10 DEF CrashPoll, Crash, pollVars, account
  <2>2. pc'[w] = "idle"
    BY <1>0, <2>1 DEF LeaveBatch, QueueTypeOK
  <2>3. ~Ends(w)'
    BY <2>2 DEF Ends
  <2>4. ASSUME NEW j \in Jobs, Lives(j) PROVE Lives(j)'
    BY <1>0, <2>1, <2>3, <2>4, MoveKeepsLife
  <2> QED BY <1>4, <1>5, <2>1, <2>4
<1>11. ASSUME NEW i \in Jobs, RetryRun(i) \/ TimePasses(i)
       PROVE  asks' # {} \/ \E j \in Jobs : Lives(j)'
  <2>1. UNCHANGED <<credential, connected, seeding, unset, asks>> /\ (Fault \/ NoFault)
    BY <1>11 DEF RetryRun, TimePasses, AdminRetry, LeaseExpires, BackoffElapses, pollVars, account, NoFault
  <2> QED BY <1>4, <1>5, <1>11, <2>1, RowOnlyKeepsLife
<1>12. CASE UNCHANGED vars \/ LeavesQueue \/ SeedCancel
  <2>1. UNCHANGED <<row, pc, cur, asks, gen, credential, connected, seeding, unset, faults>>
    BY <1>3, <1>12 DEF vars, queueVars, pollVars, account
  <2>2. \A v \in Workers : Ends(v)' => Ends(v) /\ cur'[v] = cur[v]
    BY <2>1, OthersEnd
  <2>3. ASSUME NEW j \in Jobs, Lives(j) PROVE Lives(j)'
    BY <2>1, <2>2, <2>3, LifeStays
  <2>4. faults <= faults'
    BY <1>5, <2>1 DEF NoFault
  <2> QED BY <1>4, <2>1, <2>3, <2>4
<1> QED
  BY <1>2, <1>6, <1>7, <1>8, <1>9, <1>10, <1>11, <1>12 DEF Next, PollStep, LeavesQueue

-----------------------------------------------------------------------------
(* Runs do not breed.  A step moves the chances of one worker at most, so     *)
(* what it changes is counted job by job: the chance of that worker on j, and *)
(* whether j is open.                                                         *)

Share(w, j) == IF <<w, j>> \in Chances THEN 1 ELSE 0
OpenShare(j) == IF j \in OpenRuns THEN 1 ELSE 0

\* How two pairs of finite sets compare, if no element but k is more often in the
\* second pair than in the first.
LEMMA Counting ==
  ASSUME NEW A, NEW D, NEW B, NEW E, NEW k,
         IsFiniteSet(A), IsFiniteSet(D), IsFiniteSet(B), IsFiniteSet(E),
         \A j : j # k /\ (j \in B \/ j \in E) => j \in A \/ j \in D,
         \A j : j # k /\ j \in B /\ j \in E => j \in A /\ j \in D
  PROVE  Cardinality(B) + Cardinality(E)
           + (IF k \in A THEN 1 ELSE 0) + (IF k \in D THEN 1 ELSE 0)
         <= Cardinality(A) + Cardinality(D)
           + (IF k \in B THEN 1 ELSE 0) + (IF k \in E THEN 1 ELSE 0)
<1> DEFINE Less(X) == X \ {k}
           In(X) == IF k \in X THEN 1 ELSE 0
<1>1. ASSUME NEW X, IsFiniteSet(X)
      PROVE  /\ IsFiniteSet(Less(X)) /\ Cardinality(X) \in Nat /\ Cardinality(Less(X)) \in Nat
             /\ Cardinality(Less(X)) = Cardinality(X) - In(X)
  BY <1>1, FS_RemoveElement, FS_CardinalityType
<1>2. ASSUME NEW X, NEW Y, IsFiniteSet(X), IsFiniteSet(Y)
      PROVE  /\ IsFiniteSet(X \cup Y) /\ IsFiniteSet(X \cap Y)
             /\ Cardinality(X) \in Nat /\ Cardinality(Y) \in Nat
             /\ Cardinality(X \cup Y) \in Nat /\ Cardinality(X \cap Y) \in Nat
             /\ Cardinality(X) + Cardinality(Y) = Cardinality(X \cup Y) + Cardinality(X \cap Y)
  <2>1. /\ IsFiniteSet(X \cup Y) /\ IsFiniteSet(X \cap Y)
        /\ Cardinality(X) \in Nat /\ Cardinality(Y) \in Nat
        /\ Cardinality(X \cup Y) \in Nat /\ Cardinality(X \cap Y) \in Nat
    BY <1>2, FS_Union, FS_Intersection, FS_CardinalityType
  <2>2. Cardinality(X \cup Y) = Cardinality(X) + Cardinality(Y) - Cardinality(X \cap Y)
    BY <1>2, FS_Union
  <2> QED BY <2>1, <2>2
<1>3. /\ Less(B) \cup Less(E) \subseteq Less(A) \cup Less(D)
      /\ Less(B) \cap Less(E) \subseteq Less(A) \cap Less(D)
  OBVIOUS
<1>4. /\ Cardinality(Less(B) \cup Less(E)) <= Cardinality(Less(A) \cup Less(D))
      /\ Cardinality(Less(B) \cap Less(E)) <= Cardinality(Less(A) \cap Less(D))
  <2>1. IsFiniteSet(Less(A)) /\ IsFiniteSet(Less(D))
    BY <1>1
  <2>2. IsFiniteSet(Less(A) \cup Less(D)) /\ IsFiniteSet(Less(A) \cap Less(D))
    BY <1>2, <2>1
  <2> QED BY <1>3, <2>2, FS_Subset
<1>5. /\ Cardinality(A) \in Nat /\ Cardinality(D) \in Nat
      /\ Cardinality(B) \in Nat /\ Cardinality(E) \in Nat
  BY <1>1
<1>6. Cardinality(Less(B)) + Cardinality(Less(E)) <= Cardinality(Less(A)) + Cardinality(Less(D))
  <2>1. IsFiniteSet(Less(A)) /\ IsFiniteSet(Less(D)) /\ IsFiniteSet(Less(B)) /\ IsFiniteSet(Less(E))
    BY <1>1
  <2>2. /\ Cardinality(Less(A)) + Cardinality(Less(D))
             = Cardinality(Less(A) \cup Less(D)) + Cardinality(Less(A) \cap Less(D))
        /\ Cardinality(Less(A) \cup Less(D)) \in Nat /\ Cardinality(Less(A) \cap Less(D)) \in Nat
    BY <1>2, <2>1
  <2>3. /\ Cardinality(Less(B)) + Cardinality(Less(E))
             = Cardinality(Less(B) \cup Less(E)) + Cardinality(Less(B) \cap Less(E))
        /\ Cardinality(Less(B) \cup Less(E)) \in Nat /\ Cardinality(Less(B) \cap Less(E)) \in Nat
    BY <1>2, <2>1
  <2> HIDE DEF Less
  <2> QED BY <1>4, <2>2, <2>3
<1>7. /\ Cardinality(Less(A)) = Cardinality(A) - In(A) /\ Cardinality(Less(D)) = Cardinality(D) - In(D)
      /\ Cardinality(Less(B)) = Cardinality(B) - In(B) /\ Cardinality(Less(E)) = Cardinality(E) - In(E)
  BY <1>1
<1>8. Cardinality(B) + Cardinality(E) + In(A) + In(D) <= Cardinality(A) + Cardinality(D) + In(B) + In(E)
  <2>1. In(A) \in {0, 1} /\ In(D) \in {0, 1} /\ In(B) \in {0, 1} /\ In(E) \in {0, 1}
    OBVIOUS
  <2> HIDE DEF Less, In
  <2> QED BY <1>5, <1>6, <1>7, <2>1
<1> QED BY <1>8

\* What the bill counts is finite, before a step and after it.
LEMMA BillType ==
  ASSUME TypeOK, TypeOK'
  PROVE  /\ IsFiniteSet(OpenRuns) /\ IsFiniteSet(OpenRuns')
         /\ IsFiniteSet(Chances) /\ IsFiniteSet(Chances')
         /\ Cardinality(OpenRuns) \in Nat /\ Cardinality(OpenRuns') \in Nat
         /\ Cardinality(Chances) \in Nat /\ Cardinality(Chances') \in Nat
         /\ connection \in Nat /\ faults \in Nat /\ retries \in Nat
         /\ connection' \in Nat /\ faults' \in Nat /\ retries' \in Nat
         /\ Seeds \in {0, 1} /\ Seeds' \in {0, 1}
<1>1. IsFiniteSet(Jobs) /\ IsFiniteSet(Workers) /\ MaxConnects \in Nat
  BY PollAssumption
<1>2. IsFiniteSet(Workers \X Jobs)
  BY <1>1, FS_Product
<1>3. /\ OpenRuns \in SUBSET Jobs /\ OpenRuns' \in SUBSET Jobs
      /\ Chances \in SUBSET (Workers \X Jobs) /\ Chances' \in SUBSET (Workers \X Jobs)
  BY DEF OpenRuns, Chances
<1>4. /\ IsFiniteSet(OpenRuns) /\ IsFiniteSet(OpenRuns')
      /\ IsFiniteSet(Chances) /\ IsFiniteSet(Chances')
  BY <1>1, <1>2, <1>3, FS_Subset
<1>5. /\ Cardinality(OpenRuns) \in Nat /\ Cardinality(OpenRuns') \in Nat
      /\ Cardinality(Chances) \in Nat /\ Cardinality(Chances') \in Nat
  BY <1>4, FS_CardinalityType
<1>6. /\ connection \in Nat /\ faults \in Nat /\ retries \in Nat
      /\ connection' \in Nat /\ faults' \in Nat /\ retries' \in Nat
  BY <1>1, QueueAssumption DEF TypeOK, QueueTypeOK
<1> QED BY <1>4, <1>5, <1>6 DEF Seeds

\* The chances of one worker, and those of the others.
Column(C, w) == {j \in Jobs : <<w, j>> \in C}
OfOthers(C, w) == {c \in C : c[1] # w}

\* They make up all chances.
LEMMA ByColumn ==
  ASSUME NEW w \in Workers, NEW C \in SUBSET (Workers \X Jobs), IsFiniteSet(C)
  PROVE  /\ IsFiniteSet(Column(C, w)) /\ IsFiniteSet(OfOthers(C, w))
         /\ Cardinality(Column(C, w)) \in Nat /\ Cardinality(OfOthers(C, w)) \in Nat
         /\ Cardinality(C) = Cardinality(OfOthers(C, w)) + Cardinality(Column(C, w))
<1> DEFINE D == Column(C, w)
           O == OfOthers(C, w)
           Own == {w} \X D
<1>1. /\ D \in SUBSET Jobs /\ O \in SUBSET C
      /\ C = O \cup Own /\ O \cap Own = {}
  BY DEF Column, OfOthers
<1> HIDE DEF D, O
<1>2. /\ IsFiniteSet(D) /\ IsFiniteSet(O) /\ Cardinality(D) \in Nat /\ Cardinality(O) \in Nat
  BY <1>1, PollAssumption, FS_Subset, FS_CardinalityType
<1>3. IsFiniteSet(Own) /\ Cardinality(Own) = Cardinality(D)
  <2>1. IsFiniteSet({w}) /\ Cardinality({w}) = 1
    BY FS_Singleton
  <2>2. IsFiniteSet(Own) /\ Cardinality(Own) = 1 * Cardinality(D)
    BY <1>2, <2>1, FS_Product
  <2> QED BY <1>2, <2>2
<1> HIDE DEF Own
<1>4. Cardinality(O \cup Own) = Cardinality(O) + Cardinality(Own) - Cardinality(O \cap Own)
  BY <1>2, <1>3, FS_Union
<1>5. Cardinality(O \cap Own) = 0
  BY <1>1, FS_EmptySet
<1>6. Cardinality(C) = Cardinality(O) + Cardinality(D)
  BY <1>1, <1>2, <1>3, <1>4, <1>5
<1> QED BY <1>2, <1>6 DEF D, O

\* If no other worker gains a chance, and no job but k gains a share, what the
\* step adds is what k gains.
LEMMA Exchange ==
  ASSUME TypeOK, TypeOK', NEW w \in Workers, NEW k,
         \A v \in Workers \ {w} : \A j \in Jobs : HasChance(v, j)' => HasChance(v, j),
         \A j \in Jobs \ {k} : Share(w, j)' + OpenShare(j)' <= Share(w, j) + OpenShare(j)
  PROVE  Cardinality(OpenRuns') + Cardinality(Chances') + Share(w, k) + OpenShare(k)
           <= Cardinality(OpenRuns) + Cardinality(Chances) + Share(w, k)' + OpenShare(k)'
<1> DEFINE C == Chances
           E == Chances'
           A == OpenRuns
           B == OpenRuns'
<1>1. /\ C \in SUBSET (Workers \X Jobs) /\ E \in SUBSET (Workers \X Jobs)
      /\ A \in SUBSET Jobs /\ B \in SUBSET Jobs
  BY DEF Chances, OpenRuns
<1>2. /\ IsFiniteSet(C) /\ IsFiniteSet(E) /\ IsFiniteSet(A) /\ IsFiniteSet(B)
      /\ Cardinality(A) \in Nat /\ Cardinality(B) \in Nat
  BY BillType
<1>3. OfOthers(E, w) \in SUBSET OfOthers(C, w)
  BY DEF OfOthers, Chances
<1>4. \A j : (j \in A => j \in Jobs) /\ (j \in B => j \in Jobs)
  BY <1>1
<1>5. /\ \A j : Share(w, j) = IF <<w, j>> \in C THEN 1 ELSE 0
      /\ \A j : Share(w, j)' = IF <<w, j>> \in E THEN 1 ELSE 0
      /\ \A j : OpenShare(j) = IF j \in A THEN 1 ELSE 0
      /\ \A j : OpenShare(j)' = IF j \in B THEN 1 ELSE 0
  BY DEF Share, OpenShare
<1> HIDE DEF C, E, A, B
<1>6. /\ IsFiniteSet(Column(C, w)) /\ IsFiniteSet(OfOthers(C, w))
      /\ Cardinality(Column(C, w)) \in Nat /\ Cardinality(OfOthers(C, w)) \in Nat
      /\ Cardinality(C) = Cardinality(OfOthers(C, w)) + Cardinality(Column(C, w))
  BY <1>1, <1>2, ByColumn
<1>7. /\ IsFiniteSet(Column(E, w)) /\ IsFiniteSet(OfOthers(E, w))
      /\ Cardinality(Column(E, w)) \in Nat /\ Cardinality(OfOthers(E, w)) \in Nat
      /\ Cardinality(E) = Cardinality(OfOthers(E, w)) + Cardinality(Column(E, w))
  BY <1>1, <1>2, ByColumn
<1>8. Cardinality(OfOthers(E, w)) <= Cardinality(OfOthers(C, w))
  BY <1>3, <1>6, FS_Subset
<1>9. \A j : /\ j \in Column(C, w) <=> j \in Jobs /\ <<w, j>> \in C
             /\ j \in Column(E, w) <=> j \in Jobs /\ <<w, j>> \in E
             /\ <<w, j>> \in C => j \in Jobs
             /\ <<w, j>> \in E => j \in Jobs
  BY <1>1 DEF Column
<1>10. \A j \in Jobs \ {k} :
         /\ j \in B \/ <<w, j>> \in E => j \in A \/ <<w, j>> \in C
         /\ j \in B /\ <<w, j>> \in E => j \in A /\ <<w, j>> \in C
  BY <1>5
<1> DEFINE In(X) == IF k \in X THEN 1 ELSE 0
<1>11. Cardinality(B) + Cardinality(Column(E, w)) + In(A) + In(Column(C, w))
         <= Cardinality(A) + Cardinality(Column(C, w)) + In(B) + In(Column(E, w))
  <2>1. \A j : j # k /\ (j \in B \/ j \in Column(E, w)) => j \in A \/ j \in Column(C, w)
    BY <1>4, <1>9, <1>10
  <2>2. \A j : j # k /\ j \in B /\ j \in Column(E, w) => j \in A /\ j \in Column(C, w)
    BY <1>4, <1>9, <1>10
  <2> QED BY <1>2, <1>6, <1>7, <2>1, <2>2, Counting
<1>12. /\ In(A) = OpenShare(k) /\ In(B) = OpenShare(k)'
       /\ In(Column(C, w)) = Share(w, k) /\ In(Column(E, w)) = Share(w, k)'
  BY <1>5, <1>9
<1>13. In(A) \in Nat /\ In(B) \in Nat /\ In(Column(C, w)) \in Nat /\ In(Column(E, w)) \in Nat
  OBVIOUS
<1> HIDE DEF In
<1>14. Cardinality(B) + Cardinality(E) + In(Column(C, w)) + In(A)
         <= Cardinality(A) + Cardinality(C) + In(Column(E, w)) + In(B)
  BY <1>2, <1>6, <1>7, <1>8, <1>11, <1>13
<1>15. Cardinality(B) + Cardinality(E) + Share(w, k) + OpenShare(k)
         <= Cardinality(A) + Cardinality(C) + Share(w, k)' + OpenShare(k)'
  BY <1>12, <1>14
<1> QED BY <1>15 DEF A, B, C, E

\* What a worker's step adds on k, and what it asks for, is paid for.
LEMMA WorkerPays ==
  ASSUME TypeOK, TypeOK', RunsDoNotBreed, NEW w \in Workers, NEW k,
         \A v \in Workers \ {w} : \A j \in Jobs : HasChance(v, j)' => HasChance(v, j),
         \A j \in Jobs \ {k} : Share(w, j)' + OpenShare(j)' <= Share(w, j) + OpenShare(j),
         UNCHANGED <<seeding, connection, retries>>, IsFiniteSet(asks'),
         Share(w, k)' + OpenShare(k)' + Cardinality(asks') + faults
           <= Share(w, k) + OpenShare(k) + Cardinality(asks) + faults'
  PROVE  RunsDoNotBreed'
<1>1. /\ Cardinality(OpenRuns) \in Nat /\ Cardinality(OpenRuns') \in Nat
      /\ Cardinality(Chances) \in Nat /\ Cardinality(Chances') \in Nat
      /\ connection \in Nat /\ faults \in Nat /\ retries \in Nat /\ faults' \in Nat
      /\ Seeds \in Nat /\ Seeds' = Seeds /\ connection' = connection /\ retries' = retries
  BY BillType DEF Seeds
<1>2. Cardinality(asks) \in Nat /\ Cardinality(asks') \in Nat
  BY FS_CardinalityType DEF RunsDoNotBreed
<1>3. Cardinality(OpenRuns) + Cardinality(Chances) + Cardinality(asks) + Seeds
        <= connection + faults + retries
  BY DEF RunsDoNotBreed
<1>4. /\ Share(w, k) \in {0, 1} /\ Share(w, k)' \in {0, 1}
      /\ OpenShare(k) \in {0, 1} /\ OpenShare(k)' \in {0, 1}
  BY DEF Share, OpenShare
<1>5. Cardinality(OpenRuns') + Cardinality(Chances') + Share(w, k) + OpenShare(k)
        <= Cardinality(OpenRuns) + Cardinality(Chances) + Share(w, k)' + OpenShare(k)'
  BY Exchange
<1>6. Cardinality(OpenRuns') + Cardinality(Chances') + Cardinality(asks') + Seeds'
        <= connection' + faults' + retries'
  BY <1>1, <1>2, <1>3, <1>4, <1>5
<1> QED BY <1>6 DEF RunsDoNotBreed

\* The same for a step that leaves every worker where it is, and opens k at most.
LEMMA StandingPays ==
  ASSUME TypeOK, TypeOK', RunsDoNotBreed, UNCHANGED <<batch, cur, pc>>, IsFiniteSet(asks'),
         NEW k, \A j \in Jobs \ {k} : Open(j)' => Open(j),
         OpenShare(k)' + Cardinality(asks') + Seeds' + connection + faults + retries
           <= OpenShare(k) + Cardinality(asks) + Seeds + connection' + faults' + retries'
  PROVE  RunsDoNotBreed'
<1>1. /\ IsFiniteSet(OpenRuns) /\ IsFiniteSet(OpenRuns')
      /\ Cardinality(OpenRuns) \in Nat /\ Cardinality(OpenRuns') \in Nat
      /\ Cardinality(Chances) \in Nat /\ Seeds \in Nat /\ Seeds' \in Nat
      /\ connection \in Nat /\ faults \in Nat /\ retries \in Nat
      /\ connection' \in Nat /\ faults' \in Nat /\ retries' \in Nat
  BY BillType
<1>2. Cardinality(asks) \in Nat /\ Cardinality(asks') \in Nat
  BY FS_CardinalityType DEF RunsDoNotBreed
<1>3. Cardinality(OpenRuns) + Cardinality(Chances) + Cardinality(asks) + Seeds
        <= connection + faults + retries
  BY DEF RunsDoNotBreed
<1>4. Chances' = Chances
  BY DEF Chances, HasChance
<1>5. Cardinality(OpenRuns') + OpenShare(k) <= Cardinality(OpenRuns) + OpenShare(k)'
  <2> DEFINE A == OpenRuns
             B == OpenRuns'
  <2>1. \A j : j # k /\ j \in B => j \in A
    BY DEF OpenRuns
  <2>2. OpenShare(k) = (IF k \in A THEN 1 ELSE 0) /\ OpenShare(k)' = (IF k \in B THEN 1 ELSE 0)
    BY DEF OpenShare
  <2>3. IsFiniteSet({}) /\ Cardinality({}) = 0
    BY FS_EmptySet
  <2>4. /\ IsFiniteSet(A) /\ IsFiniteSet(B)
        /\ Cardinality(A) \in Nat /\ Cardinality(B) \in Nat
    BY <1>1
  <2> HIDE DEF A, B
  <2>5. Cardinality(B) + Cardinality({})
          + (IF k \in A THEN 1 ELSE 0) + (IF k \in {} THEN 1 ELSE 0)
        <= Cardinality(A) + Cardinality({})
          + (IF k \in B THEN 1 ELSE 0) + (IF k \in {} THEN 1 ELSE 0)
    <3> \A j : j \notin {}
      OBVIOUS
    <3> QED BY <2>1, <2>3, <2>4, Counting
  <2>6. Cardinality(B) + OpenShare(k) <= Cardinality(A) + OpenShare(k)'
    BY <2>2, <2>3, <2>4, <2>5
  <2> QED BY <2>6 DEF A, B
<1>6. /\ OpenShare(k) \in Nat /\ OpenShare(k)' \in Nat
  BY DEF OpenShare
<1>7. Cardinality(OpenRuns') + Cardinality(Chances') + Cardinality(asks') + Seeds'
        <= connection' + faults' + retries'
  BY <1>1, <1>2, <1>3, <1>4, <1>5, <1>6
<1> QED BY <1>7 DEF RunsDoNotBreed

\* A share is there or not.
LEMMA Shares ==
  ASSUME NEW w \in Workers, NEW j \in Jobs
  PROVE  /\ Share(w, j) = (IF HasChance(w, j) THEN 1 ELSE 0)
         /\ Share(w, j)' = (IF HasChance(w, j)' THEN 1 ELSE 0)
         /\ OpenShare(j) = (IF Open(j) THEN 1 ELSE 0)
         /\ OpenShare(j)' = (IF Open(j)' THEN 1 ELSE 0)
<1>1. /\ <<w, j>> \in Chances <=> HasChance(w, j)
      /\ (<<w, j>> \in Chances)' <=> HasChance(w, j)'
      /\ j \in OpenRuns <=> Open(j)
      /\ (j \in OpenRuns)' <=> Open(j)'
  BY DEF Chances, OpenRuns
<1> QED BY <1>1 DEF Share, OpenShare

\* A worker that moves leaves the others what they have.
LEMMA OthersStand ==
  ASSUME NEW w, NEW v, batch'[v] = batch[v], cur'[v] = cur[v], pc'[v] = pc[v]
  PROVE  /\ Mine(v)' = Mine(v)
         /\ \A j : HasChance(v, j)' <=> HasChance(v, j)
  BY DEF Mine, Handling, HasChance

\* A run whose row is left alone opens only if its claim is dropped.
LEMMA OpensByDropping ==
  ASSUME NEW w \in Workers, NEW j \in Jobs, row'[j] = row[j],
         \A v \in Workers \ {w} : Mine(v)' = Mine(v), Open(j)', ~Open(j)
  PROVE  \E s \in Mine(w) : s.job = j /\ Holds(s) /\ s \notin Mine(w)'
<1>1. PICK v \in Workers : \E s \in Mine(v) : s.job = j /\ Holds(s)
  BY DEF Open, Reclaimable, Held
<1>2. PICK s \in Mine(v) : s.job = j /\ Holds(s)
  BY <1>1
<1>3. s \notin Mine(v)'
  BY <1>2 DEF Open, Reclaimable, Held, Holds
<1>4. v = w
  BY <1>2, <1>3
<1> QED BY <1>2, <1>3, <1>4

\* No run opens while the claims stay and its row keeps what matters of it.
LEMMA OpenStays ==
  ASSUME NEW j \in Jobs, \A v \in Workers : Mine(v)' = Mine(v),
         row'[j].status = row[j].status, row'[j].leased = row[j].leased,
         row'[j].token = row[j].token
  PROVE  Open(j)' = Open(j)
<1>1. Held(j)' <=> Held(j)
  BY DEF Held, Holds
<1> QED BY <1>1 DEF Open, Reclaimable

\* w goes on from a run, or leaves its batch.
Leaves(w) ==
  \/ Handling(w) /\ \E step \in PollPC \ {"idle", "batch"} : Goto(w, step)
  \/ Handling(w) /\ NextJob(w)
  \/ LeaveBatch(w)

\* Beyond the run it handles, w turns chances into open runs at most.
LEMMA RestIsBalanced ==
  ASSUME TypeOK, NEW w \in Workers, Leaves(w), SettlesOwnJob(w)
  PROVE  /\ \A v \in Workers \ {w} : /\ Mine(v)' = Mine(v)
                                     /\ \A j \in Jobs : HasChance(v, j)' => HasChance(v, j)
         /\ \A j \in Jobs \ {cur[w].job} :
              Share(w, j)' + OpenShare(j)' <= Share(w, j) + OpenShare(j)
<1>0. /\ row \in [Jobs -> Row] /\ pc \in [Workers -> PollPC]
      /\ batch \in [Workers -> SUBSET Claimed] /\ cur \in [Workers -> Claimed \cup {NoJob}]
  BY DEF TypeOK, QueueTypeOK
<1>1. \A v \in Workers \ {w} : batch'[v] = batch[v] /\ cur'[v] = cur[v] /\ pc'[v] = pc[v]
  BY <1>0 DEF Leaves, Goto, NextJob, LeaveBatch
<1>2. \A v \in Workers \ {w} : /\ Mine(v)' = Mine(v)
                               /\ \A j \in Jobs : HasChance(v, j)' => HasChance(v, j)
  BY <1>1, OthersStand
<1>3. ASSUME NEW j \in Jobs \ {cur[w].job}
      PROVE  /\ HasChance(w, j)' => HasChance(w, j)
             /\ Open(j)' => Open(j) \/ HasChance(w, j)
             /\ Open(j)' /\ HasChance(w, j)' => Open(j)
  <2>1. row'[j] = row[j]
    BY <1>0 DEF SettlesOwnJob
  <2>2. CASE \E step \in PollPC \ {"idle", "batch"} : Handling(w) /\ Goto(w, step)
    <3>1. batch'[w] = batch[w] /\ cur'[w] = cur[w] /\ Handling(w) /\ Handling(w)'
      BY <1>0, <2>2 DEF Goto, Handling
    <3>2. Mine(w)' = Mine(w)
      BY <3>1 DEF Mine
    <3>3. Open(j)' = Open(j)
      BY <1>2, <2>1, <3>2, OpenStays
    <3>4. HasChance(w, j)' => HasChance(w, j)
      BY <3>1 DEF HasChance
    <3> QED BY <3>3, <3>4
  <2>3. CASE Handling(w) /\ NextJob(w)
    <3>1. batch'[w] = batch[w] /\ pc'[w] \in {"idle", "batch"}
      BY <1>0, <2>3 DEF NextJob
    <3>2. HasChance(w, j)' => HasChance(w, j)
      BY <3>1 DEF HasChance, Unspent
    <3>3. \A s \in Mine(w) : s.job = j => s \in Mine(w)'
      BY <3>1 DEF Mine
    <3>4. Open(j)' => Open(j)
      BY <1>2, <2>1, <3>3, OpensByDropping
    <3> QED BY <3>2, <3>4
  <2>4. CASE LeaveBatch(w)
    <3>1. batch'[w] = {} /\ pc'[w] = "idle"
      BY <1>0, <2>4 DEF LeaveBatch
    <3>2. ~HasChance(w, j)'
      BY <3>1 DEF HasChance, Unspent
    <3>3. \A s \in Mine(w) : s.job = j => HasChance(w, j)
      BY DEF Mine, HasChance
    <3>4. Open(j)' => Open(j) \/ HasChance(w, j)
      BY <1>2, <2>1, <3>3, OpensByDropping
    <3> QED BY <3>2, <3>4
  <2> QED BY <2>2, <2>3, <2>4 DEF Leaves
<1>4. ASSUME NEW j \in Jobs \ {cur[w].job}
      PROVE  Share(w, j)' + OpenShare(j)' <= Share(w, j) + OpenShare(j)
  BY <1>3, Shares
<1> QED BY <1>2, <1>4

\* What w has of the run it handles: the only claim of its own, and a chance
\* while it is short of asking.
LEMMA OwnShare ==
  ASSUME TypeOK, QueueInv, NEW w \in Workers, Handling(w), NEW k, k = cur[w].job
  PROVE  /\ cur[w] \in Claimed /\ cur[w] \in Mine(w) /\ k \in Jobs
         /\ Share(w, k) = IF pc[w] \in Unspent THEN 1 ELSE 0
         /\ NextJob(w) \/ LeaveBatch(w) => Share(w, k)' = 0
         /\ \A step : Goto(w, step) => Share(w, k)' = IF step \in Unspent THEN 1 ELSE 0
<1>0. /\ pc \in [Workers -> PollPC] /\ batch \in [Workers -> SUBSET Claimed]
      /\ cur[w] \in Claimed
  BY DEF TypeOK, QueueTypeOK
<1>1. cur[w] \in Mine(w) /\ k \in Jobs
  BY <1>0 DEF Mine, Claimed
<1>2. \A s \in batch[w] : s.job # k
  BY DEF QueueInv, ClaimsAreDistinct
<1>3. Share(w, k) = IF pc[w] \in Unspent THEN 1 ELSE 0
  BY <1>1, <1>2, Shares DEF HasChance
<1>4. Share(w, k)' = (IF HasChance(w, k)' THEN 1 ELSE 0)
  BY <1>1, Shares
<1>5. ASSUME NextJob(w) \/ LeaveBatch(w) PROVE Share(w, k)' = 0
  <2>1. batch'[w] \subseteq batch[w] /\ pc'[w] \in {"idle", "batch"}
    BY <1>0, <1>5 DEF NextJob, LeaveBatch
  <2>2. ~HasChance(w, k)'
    BY <1>2, <2>1 DEF HasChance, Unspent
  <2> QED BY <1>4, <2>2
<1>6. ASSUME NEW step, Goto(w, step) PROVE Share(w, k)' = IF step \in Unspent THEN 1 ELSE 0
  <2>1. batch'[w] = batch[w] /\ cur'[w] = cur[w] /\ pc'[w] = step
    BY <1>0, <1>6 DEF Goto
  <2>2. HasChance(w, k)' <=> step \in Unspent
    BY <1>2, <2>1 DEF HasChance
  <2> QED BY <1>4, <2>2
<1> QED BY <1>0, <1>1, <1>3, <1>5, <1>6

\* The run w handles does not open while w keeps its claim, or once that is gone,
\* or when the run is over.
LEMMA OwnStaysClosed ==
  ASSUME TypeOK, NEW w \in Workers, Handling(w), NEW k \in Jobs, k = cur[w].job,
         \A v \in Workers \ {w} : Mine(v)' = Mine(v),
         \/ /\ row'[k] = row[k]
            /\ \/ \E step \in PollPC \ {"idle", "batch"} : Goto(w, step)
               \/ NextJob(w) /\ ~Holds(cur[w])
         \/ row'[k].status \in {"succeeded", "failed"}
  PROVE  OpenShare(k)' <= OpenShare(k)
<1>0. pc \in [Workers -> PollPC]
  BY DEF TypeOK, QueueTypeOK
<1>1. CASE row'[k].status \in {"succeeded", "failed"}
  BY <1>1, Shares DEF Open, Reclaimable
<1>2. CASE row'[k] = row[k] /\ \E step \in PollPC \ {"idle", "batch"} : Goto(w, step)
  <2>1. Mine(w)' = Mine(w)
    BY <1>0, <1>2 DEF Goto, Mine, Handling
  <2> QED BY <1>2, <2>1, OpenStays, Shares
<1>3. CASE row'[k] = row[k] /\ NextJob(w) /\ ~Holds(cur[w])
  <2>1. \A s \in Mine(w) : s \in Mine(w)' \/ s = cur[w]
    BY <1>3 DEF NextJob, Mine
  <2>2. Open(k)' => Open(k)
    BY <1>3, <2>1, OpensByDropping
  <2> QED BY <2>2, Shares
<1> QED BY <1>1, <1>2, <1>3

\* The steps of a run after its first: asking spends the chance to ask, and
\* whatever goes wrong is a fault.
LEMMA RunPays ==
  ASSUME TypeOK, TypeOK', QueueInv, PollRunsArePaid, RunsDoNotBreed, NEW w \in Workers,
         Resolve(w) \/ ReadCredential(w) \/ AskNext(w) \/ NextAnswered(w) \/ Unreported(w)
  PROVE  RunsDoNotBreed'
<1>0. /\ Handling(w) /\ Leaves(w) /\ SettlesOwnJob(w) /\ UNCHANGED row
      /\ UNCHANGED <<seeding, connection, retries>>
  <2>1. MovesOn(w)
    BY RunMovesOn
  <2>2. UNCHANGED <<seeding, connection>>
    BY DEF Resolve, ReadCredential, AskNext, NextAnswered, Unreported, pollVars
  <2> QED BY <2>1, <2>2 DEF MovesOn, Leaves, SettlesOwnJob
<1> DEFINE j == cur[w].job
<1>1. PICK k : k = j
  OBVIOUS
<1>2. /\ cur[w] \in Mine(w) /\ k \in Jobs
      /\ Share(w, k) = IF pc[w] \in Unspent THEN 1 ELSE 0
      /\ NextJob(w) \/ LeaveBatch(w) => Share(w, k)' = 0
      /\ \A step : Goto(w, step) => Share(w, k)' = IF step \in Unspent THEN 1 ELSE 0
  BY <1>0, <1>1, OwnShare
<1>3. /\ \A v \in Workers \ {w} : /\ Mine(v)' = Mine(v)
                                  /\ \A i \in Jobs : HasChance(v, i)' => HasChance(v, i)
      /\ \A i \in Jobs \ {k} : Share(w, i)' + OpenShare(i)' <= Share(w, i) + OpenShare(i)
  BY <1>0, <1>1, RestIsBalanced
<1>4. OpenShare(k)' <= OpenShare(k)
  <2>1. \/ \E step \in PollPC \ {"idle", "batch"} : Goto(w, step)
        \/ NextJob(w) /\ ~Holds(cur[w])
    <3>1. MovesOn(w)
      BY RunMovesOn
    <3>2. ASSUME NextJob(w) PROVE ~Holds(cur[w])
      <4>1. pc \in [Workers -> PollPC]
        BY DEF TypeOK, QueueTypeOK
      <4>2. pc'[w] \in {"idle", "batch"}
        BY <3>2, <4>1 DEF NextJob
      <4>3. Unreported(w)
        BY <4>1, <4>2 DEF Resolve, ReadCredential, AskNext, NextAnswered, Goto
      <4> QED BY <4>3 DEF Unreported, PollRunsArePaid, RunsArePaid
    <3> QED BY <3>1, <3>2 DEF MovesOn
  <2> QED BY <1>0, <1>1, <1>2, <1>3, <2>1, OwnStaysClosed
<1>5. /\ Cardinality(asks) \in Nat /\ faults \in Nat /\ faults' \in Nat
      /\ (NoFault => faults' = faults) /\ (Fault => faults' = faults + 1)
      /\ Share(w, k) \in {0, 1} /\ Share(w, k)' \in {0, 1}
      /\ OpenShare(k) \in {0, 1} /\ OpenShare(k)' \in {0, 1}
      /\ IsFiniteSet(asks)
  BY BillType, FS_CardinalityType DEF RunsDoNotBreed, Share, OpenShare, Fault, NoFault
<1>6. /\ IsFiniteSet(asks')
      /\ Share(w, k)' + Cardinality(asks') + faults <= Share(w, k) + Cardinality(asks) + faults'
  <2>1. CASE Resolve(w) \/ ReadCredential(w)
    <3>1. asks' = asks /\ Share(w, k) = 1
      BY <1>2, <2>1 DEF Resolve, ReadCredential, pollVars, Unspent
    <3>2. Fault \/ NoFault
      BY <2>1 DEF Resolve, ReadCredential
    <3> QED BY <1>5, <3>1, <3>2
  <2>2. CASE AskNext(w)
    <3>1. Share(w, k) = 1
      BY <1>2, <2>2 DEF AskNext, Unspent
    <3>2. CASE UNCHANGED asks
      <4>1. Fault \/ NoFault
        BY <2>2 DEF AskNext
      <4> QED BY <1>5, <3>1, <3>2, <4>1
    <3>3. CASE Goto(w, "awaitNext") /\ asks' = asks \cup {MyAsk(w)}
      <4>1. Share(w, k)' = 0
        BY <1>2, <3>3 DEF Unspent
      <4>2. /\ IsFiniteSet(asks') /\ Cardinality(asks') \in Nat
            /\ Cardinality(asks') <= Cardinality(asks) + 1
        <5>1. /\ IsFiniteSet(asks \cup {MyAsk(w)})
              /\ Cardinality(asks \cup {MyAsk(w)})
                   = IF MyAsk(w) \in asks THEN Cardinality(asks) ELSE Cardinality(asks) + 1
          BY <1>5, FS_AddElement
        <5>2. asks' = asks \cup {MyAsk(w)}
          BY <3>3
        <5> QED BY <1>5, <5>1, <5>2
      <4>3. Fault \/ NoFault
        BY <2>2 DEF AskNext
      <4> QED BY <1>5, <3>1, <4>1, <4>2, <4>3
    <3> QED BY <2>2, <3>2, <3>3 DEF AskNext
  <2>3. CASE NextAnswered(w)
    <3>1. asks' = asks
      BY <2>3 DEF NextAnswered, pollVars
    <3>2. CASE Goto(w, "complete") /\ NoFault
      <4>1. Share(w, k)' = 0
        BY <1>2, <3>2 DEF Unspent
      <4> QED BY <1>5, <3>1, <3>2, <4>1
    <3>3. CASE Fault
      BY <1>5, <3>1, <3>3
    <3> QED BY <2>3, <3>2, <3>3 DEF NextAnswered
  <2>4. CASE Unreported(w)
    <3>1. asks' = asks /\ NextJob(w) /\ NoFault
      BY <2>4 DEF Unreported, pollVars, NoFault
    <3>2. Share(w, k)' = 0
      BY <1>2, <3>1
    <3> QED BY <1>5, <3>1, <3>2
  <2> QED BY <2>1, <2>2, <2>3, <2>4
<1>7. Cardinality(asks') \in Nat
  BY <1>6, FS_CardinalityType
<1>8. Share(w, k)' + OpenShare(k)' + Cardinality(asks') + faults
        <= Share(w, k) + OpenShare(k) + Cardinality(asks) + faults'
  BY <1>4, <1>5, <1>6, <1>7
<1> QED BY <1>0, <1>3, <1>6, <1>8, WorkerPays

\* A step of w that asks for nothing is paid for if its own run's is.
LEMMA QuietPays ==
  ASSUME TypeOK, TypeOK', RunsDoNotBreed, NEW w \in Workers, NEW k, UNCHANGED pollVars,
         UNCHANGED retries,
         \A v \in Workers \ {w} : \A j \in Jobs : HasChance(v, j)' => HasChance(v, j),
         \A j \in Jobs \ {k} : Share(w, j)' + OpenShare(j)' <= Share(w, j) + OpenShare(j),
         \/ NoFault /\ Share(w, k)' + OpenShare(k)' <= Share(w, k) + OpenShare(k)
         \/ Fault /\ Share(w, k)' + OpenShare(k)' <= Share(w, k) + OpenShare(k) + 1
  PROVE  RunsDoNotBreed'
<1>1. /\ Cardinality(asks) \in Nat /\ faults \in Nat
      /\ (NoFault => faults' = faults) /\ (Fault => faults' = faults + 1)
      /\ Share(w, k) \in {0, 1} /\ Share(w, k)' \in {0, 1}
      /\ OpenShare(k) \in {0, 1} /\ OpenShare(k)' \in {0, 1}
      /\ IsFiniteSet(asks)
  BY BillType, FS_CardinalityType DEF RunsDoNotBreed, Share, OpenShare, Fault, NoFault
<1>2. asks' = asks /\ UNCHANGED <<seeding, connection, retries>> /\ IsFiniteSet(asks')
  BY <1>1 DEF pollVars
<1>3. Share(w, k)' + OpenShare(k)' + Cardinality(asks') + faults
        <= Share(w, k) + OpenShare(k) + Cardinality(asks) + faults'
  BY <1>1, <1>2
<1> QED BY <1>2, <1>3, WorkerPays

\* A run that is given up turns the chance into an open run; one that is over
\* opens none; an update that fails is a fault.
LEMMA QueueStepPays ==
  ASSUME TypeOK, TypeOK', QueueInv, RunsDoNotBreed, NEW w \in Workers, QueueStep(w)
  PROVE  RunsDoNotBreed'
<1>0. /\ QueueTypeOK(PollPC) /\ UNCHANGED pollVars
      /\ Complete(w) \/ Release(w) \/ Fail(w)
      /\ pc \in [Workers -> PollPC] /\ row \in [Jobs -> Row]
  BY DEF TypeOK, QueueTypeOK, QueueStep
<1>1. Handling(w) /\ SettlesOwnJob(w) /\ UNCHANGED retries
  BY <1>0, QueueStepEffect
<1>2. {"fail", "reportFailed"} \subseteq PollPC \ {"idle", "batch"}
  BY DEF PollPC, QueuePC
<1>3. Leaves(w)
  <2>1. Goto(w, "fail") \/ Goto(w, "reportFailed") \/ NextJob(w) \/ LeaveBatch(w)
    BY <1>0 DEF Complete, Release, Fail
  <2> QED BY <1>1, <1>2, <2>1 DEF Leaves
<1>4. PICK k : k = cur[w].job
  OBVIOUS
<1>5. /\ cur[w] \in Claimed /\ k \in Jobs
      /\ Share(w, k) = IF pc[w] \in Unspent THEN 1 ELSE 0
      /\ NextJob(w) \/ LeaveBatch(w) => Share(w, k)' = 0
      /\ \A step : Goto(w, step) => Share(w, k)' = IF step \in Unspent THEN 1 ELSE 0
  BY <1>1, <1>4, OwnShare
<1>6. /\ \A v \in Workers \ {w} : /\ Mine(v)' = Mine(v)
                                  /\ \A i \in Jobs : HasChance(v, i)' => HasChance(v, i)
      /\ \A i \in Jobs \ {k} : Share(w, i)' + OpenShare(i)' <= Share(w, i) + OpenShare(i)
  BY <1>1, <1>3, <1>4, RestIsBalanced
<1>7. /\ Share(w, k) \in {0, 1} /\ Share(w, k)' \in {0, 1}
      /\ OpenShare(k) \in {0, 1} /\ OpenShare(k)' \in {0, 1}
  BY DEF Share, OpenShare
\* The update leaves the row, or the run is over.
<1>8. ASSUME NEW q, q.status \in {"succeeded", "failed"},
             FencedUpdate(cur[w], q) \/ UpdateFails(cur[w], q),
             \/ \E step \in PollPC \ {"idle", "batch"} : Goto(w, step)
             \/ FencedUpdate(cur[w], q) /\ NextJob(w)
      PROVE  OpenShare(k)' <= OpenShare(k)
  <2>1. row'[k] = row[k] \/ row'[k] = q
    BY <1>0, <1>4, <1>5, <1>8 DEF FencedUpdate, UpdateFails
  <2>2. FencedUpdate(cur[w], q) /\ Holds(cur[w]) => row'[k] = q
    BY <1>0, <1>4, <1>5 DEF FencedUpdate
  <2> QED BY <1>1, <1>4, <1>5, <1>6, <1>8, <2>1, <2>2, OwnStaysClosed
<1> DEFINE Paid == \/ NoFault /\ Share(w, k)' + OpenShare(k)' <= Share(w, k) + OpenShare(k)
                   \/ Fault /\ Share(w, k)' + OpenShare(k)' <= Share(w, k) + OpenShare(k) + 1
<1>9. ASSUME Release(w) PROVE Paid
  <2>1. LeaveBatch(w) /\ (NoFault \/ Fault) /\ pc[w] = "release"
    BY <1>9 DEF Release, UpdateFails
  <2>2. Share(w, k)' = 0 /\ Share(w, k) = 1
    BY <1>5, <2>1 DEF Unspent
  <2> QED BY <1>7, <2>1, <2>2
<1>10. ASSUME Complete(w) PROVE Paid
  <2>1. CompletedRow(cur[w]).status = "succeeded"
    BY <1>0, <1>5, UpdatesCost
  <2>2. CASE FencedUpdate(cur[w], CompletedRow(cur[w])) /\ NoFault /\ NextJob(w)
    <3>1. Share(w, k)' = 0 /\ OpenShare(k)' <= OpenShare(k)
      BY <1>5, <1>8, <2>1, <2>2
    <3> QED BY <1>7, <2>2, <3>1
  <2>3. CASE UpdateFails(cur[w], CompletedRow(cur[w])) /\ Goto(w, "fail")
    <3>1. OpenShare(k)' <= OpenShare(k) /\ Fault
      BY <1>2, <1>8, <2>1, <2>3 DEF UpdateFails
    <3> QED BY <1>7, <3>1
  <2> QED BY <1>10, <2>2, <2>3 DEF Complete
<1>11. ASSUME Fail(w) PROVE Paid
  <2>1. CASE UpdateFails(cur[w], FailedRow(cur[w], Exhausted(w))) /\ LeaveBatch(w)
    <3>1. Fault /\ Share(w, k)' = 0
      BY <1>5, <2>1 DEF UpdateFails
    <3> QED BY <1>7, <3>1
  <2>2. CASE /\ FencedUpdate(cur[w], FailedRow(cur[w], Exhausted(w))) /\ NoFault
             /\ Exhausted(w) /\ Goto(w, "reportFailed")
    <3>1. FailedRow(cur[w], TRUE).status = "failed"
      BY <1>0, <1>5, UpdatesCost
    <3>2. Exhausted(w) = TRUE
      BY <2>2 DEF Exhausted
    <3>3. FencedUpdate(cur[w], FailedRow(cur[w], TRUE))
      BY <2>2, <3>2
    <3> DEFINE q == FailedRow(cur[w], TRUE)
    <3> HIDE DEF q
    <3>4. OpenShare(k)' <= OpenShare(k)
      <4>1. q.status \in {"succeeded", "failed"} /\ FencedUpdate(cur[w], q)
        BY <3>1, <3>3 DEF q
      <4>2. \E step \in PollPC \ {"idle", "batch"} : Goto(w, step)
        BY <1>2, <2>2
      <4> QED BY <1>8, <4>1, <4>2
    <3>5. Share(w, k)' = 0
      BY <1>5, <2>2 DEF Unspent
    <3> QED BY <1>7, <2>2, <3>4, <3>5
  <2>3. CASE NoFault /\ ~Exhausted(w) /\ NextJob(w)
    <3>1. pc[w] = "fail"
      BY <1>11, <2>3 DEF Fail, Exhausted
    <3>2. Share(w, k) = 1 /\ Share(w, k)' = 0
      BY <1>5, <2>3, <3>1 DEF Unspent
    <3> QED BY <1>7, <2>3, <3>2
  <2> QED BY <1>11, <2>1, <2>2, <2>3 DEF Fail
<1>12. Paid
  BY <1>0, <1>9, <1>10, <1>11
<1> QED BY <1>0, <1>1, <1>6, <1>12, QuietPays

\* A crash drops every chance of the worker; the run it handled may open, and
\* the crash pays for that.
LEMMA CrashPays ==
  ASSUME TypeOK, TypeOK', QueueInv, RunsDoNotBreed, NEW w \in Workers, CrashPoll(w)
  PROVE  RunsDoNotBreed'
<1>1. /\ LeaveBatch(w) /\ Fault /\ UNCHANGED <<row, retries>> /\ UNCHANGED pollVars
      /\ pc \in [Workers -> PollPC]
  BY DEF CrashPoll, Crash, TypeOK, QueueTypeOK
<1>2. Leaves(w) /\ SettlesOwnJob(w)
  BY <1>1 DEF Leaves, SettlesOwnJob
<1>3. PICK k : k = cur[w].job
  OBVIOUS
<1>4. /\ \A v \in Workers \ {w} : \A i \in Jobs : HasChance(v, i)' => HasChance(v, i)
      /\ \A i \in Jobs \ {k} : Share(w, i)' + OpenShare(i)' <= Share(w, i) + OpenShare(i)
  BY <1>2, <1>3, RestIsBalanced
<1>5. Share(w, k)' = 0
  <2>1. batch'[w] = {} /\ pc'[w] = "idle"
    BY <1>1 DEF LeaveBatch, TypeOK, QueueTypeOK
  <2>2. ~HasChance(w, k)'
    BY <2>1 DEF HasChance, Unspent
  <2>3. (<<w, k>> \notin Chances)'
    BY <2>2 DEF Chances
  <2> QED BY <2>3 DEF Share
<1>6. OpenShare(k)' \in {0, 1} /\ OpenShare(k) \in {0, 1} /\ Share(w, k) \in {0, 1}
  BY DEF Share, OpenShare
<1>7. Share(w, k)' + OpenShare(k)' <= Share(w, k) + OpenShare(k) + 1
  BY <1>5, <1>6
<1> QED BY <1>1, <1>4, <1>7, QuietPays

\* Taking a job of the batch spends nothing.
LEMMA BeginPays ==
  ASSUME TypeOK, TypeOK', RunsDoNotBreed, NEW w \in Workers, Begin(w)
  PROVE  RunsDoNotBreed'
<1>0. /\ pc \in [Workers -> PollPC] /\ batch \in [Workers -> SUBSET Claimed]
      /\ cur \in [Workers -> Claimed \cup {NoJob}]
  BY DEF TypeOK, QueueTypeOK
<1>1. PICK s \in batch[w] : Take(w, s, "resolve")
  BY DEF Begin
<1>2. /\ pc[w] = "batch" /\ pc'[w] = "resolve" /\ cur'[w] = s /\ batch'[w] = batch[w] \ {s}
      /\ UNCHANGED row /\ UNCHANGED pollVars /\ UNCHANGED retries /\ NoFault
      /\ \A v \in Workers \ {w} : batch'[v] = batch[v] /\ cur'[v] = cur[v] /\ pc'[v] = pc[v]
  BY <1>0, <1>1 DEF Take, Begin, NoFault
<1>3. \A v \in Workers \ {w} : /\ Mine(v)' = Mine(v)
                               /\ \A j \in Jobs : HasChance(v, j)' => HasChance(v, j)
  BY <1>2, OthersStand
<1>4. Mine(w)' = Mine(w)
  BY <1>2 DEF Mine, Handling
<1>5. ASSUME NEW j \in Jobs
      PROVE  Share(w, j)' + OpenShare(j)' <= Share(w, j) + OpenShare(j)
  <2>1. Open(j)' = Open(j)
    BY <1>2, <1>3, <1>4, OpenStays
  <2>2. HasChance(w, j)' => HasChance(w, j)
    BY <1>2 DEF HasChance
  <2> QED BY <2>1, <2>2, Shares
<1>6. PICK k \in Jobs : k = s.job
  BY <1>0 DEF Claimed
<1> QED BY <1>2, <1>3, <1>5, <1>6, QuietPays

\* A claim turns open runs into chances.
LEMMA ClaimPays ==
  ASSUME TypeOK, TypeOK', PollRunsArePaid, RunsDoNotBreed, NEW w \in Workers, ClaimJobs(w)
  PROVE  RunsDoNotBreed'
<1>0. /\ pc \in [Workers -> PollPC] /\ batch \in [Workers -> SUBSET Claimed]
      /\ row \in [Jobs -> Row] /\ lastToken \in Nat
  BY DEF TypeOK, QueueTypeOK
<1>1. PICK S \in SUBSET Jobs : Claim(w, S)
  BY DEF ClaimJobs
<1>2. /\ pc[w] = "idle" /\ batch[w] = {} /\ pc'[w] = "batch"
      /\ batch'[w] = {AsClaimed(j) : j \in S}
      /\ UNCHANGED pollVars /\ UNCHANGED retries /\ NoFault
      /\ \A v \in Workers \ {w} : batch'[v] = batch[v] /\ cur'[v] = cur[v] /\ pc'[v] = pc[v]
  <2>1. pc[w] = "idle"
    BY <1>1 DEF Claim
  <2>2. batch[w] = {}
    BY <2>1 DEF PollRunsArePaid, RunsArePaid
  <2> QED BY <1>0, <1>1, <2>1, <2>2 DEF Claim, ClaimJobs, NoFault
<1>3. \A v \in Workers \ {w} : /\ Mine(v)' = Mine(v)
                               /\ \A j \in Jobs : HasChance(v, j)' => HasChance(v, j)
  BY <1>2, OthersStand
<1>4. ASSUME NEW j \in Jobs
      PROVE  Share(w, j)' + OpenShare(j)' <= Share(w, j) + OpenShare(j)
  <2>1. CASE j \in S
    <3>1. Open(j)
      BY <1>1, <2>1 DEF Claim, Claimable, Open, Reclaimable
    <3>2. ~Open(j)'
      <4>1. row'[j] = [row[j] EXCEPT !.status = "running", !.attempt = @ + 1,
                                     !.token = lastToken + 1, !.leased = TRUE]
        BY <1>1, <2>1 DEF Claim
      <4>2. row'[j].status = "running" /\ row'[j].token = lastToken + 1 /\ row'[j].leased
        BY <1>0, <4>1 DEF Row
      <4>3. AsClaimed(j) \in Mine(w)' /\ AsClaimed(j).job = j /\ AsClaimed(j).token = lastToken + 1
        BY <1>2, <2>1 DEF Mine, AsClaimed
      <4>4. Held(j)'
        BY <4>2, <4>3 DEF Held, Holds
      <4> QED BY <4>2, <4>4 DEF Open, Reclaimable
    <3> QED BY <3>1, <3>2, Shares
  <2>2. CASE j \notin S
    <3>1. row'[j] = row[j]
      BY <1>1, <2>2 DEF Claim
    <3>2. Mine(w) = {}
      BY <1>2 DEF Mine, Handling
    <3>3. Open(j)' => Open(j)
      BY <1>3, <3>1, <3>2, OpensByDropping
    <3>4. ~HasChance(w, j)'
      <4>1. \A s \in batch'[w] : s.job # j
        BY <1>2, <2>2 DEF AsClaimed
      <4> QED BY <1>2, <4>1 DEF HasChance, Unspent
    <3> QED BY <3>3, <3>4, Shares
  <2> QED BY <2>1, <2>2
<1>5. PICK k \in Jobs : TRUE
  BY <1>1 DEF Claim
<1> QED BY <1>2, <1>3, <1>4, <1>5, QuietPays

\* A new row is one more open run: its seed or its request is gone.
LEMMA EnqueuePays ==
  ASSUME TypeOK, TypeOK', RunsDoNotBreed, SeedInsert \/ \E x \in asks : NextInserted(x)
  PROVE  RunsDoNotBreed'
<1>0. /\ row \in [Jobs -> Row] /\ UNCHANGED <<connection, faults, retries, batch, cur, pc>>
      /\ IsFiniteSet(asks) /\ Cardinality(asks) \in Nat
      /\ connection \in Nat /\ faults \in Nat /\ retries \in Nat
  BY BillType, FS_CardinalityType
  DEF TypeOK, QueueTypeOK, RunsDoNotBreed, SeedInsert, NextInserted, EnqueueRun, Enqueue
<1>1. PICK k \in Jobs : \E due \in BOOLEAN : Enqueue(k, due)
  BY DEF SeedInsert, NextInserted, EnqueueRun
<1>2. \A j \in Jobs \ {k} : row'[j] = row[j]
  BY <1>0, <1>1 DEF Enqueue
<1>3. \A v \in Workers : Mine(v)' = Mine(v)
  BY <1>0 DEF Mine, Handling
<1>4. \A j \in Jobs \ {k} : Open(j)' => Open(j)
  BY <1>2, <1>3, OpenStays
<1>5. OpenShare(k) = 0 /\ OpenShare(k)' \in {0, 1}
  BY <1>1 DEF OpenShare, OpenRuns, Open, Enqueue
<1>6. IsFiniteSet(asks') /\ Cardinality(asks') + Seeds' + 1 <= Cardinality(asks) + Seeds
  <2>1. CASE SeedInsert
    BY <1>0, <2>1 DEF SeedInsert, Seeds
  <2>2. ASSUME NEW x \in asks, NextInserted(x)
        PROVE  IsFiniteSet(asks') /\ Cardinality(asks') + Seeds' + 1 <= Cardinality(asks) + Seeds
    <3>1. IsFiniteSet(asks \ {x}) /\ Cardinality(asks \ {x}) = Cardinality(asks) - 1
      BY <1>0, FS_RemoveElement
    <3>2. asks' = asks \ {x} /\ Seeds' = Seeds /\ Seeds \in Nat
      BY <2>2 DEF NextInserted, Seeds
    <3> QED BY <1>0, <3>1, <3>2
  <2> QED BY <2>1, <2>2
<1>7. Cardinality(asks') \in Nat /\ Seeds \in Nat /\ Seeds' \in Nat
  BY <1>6, FS_CardinalityType DEF Seeds
<1>8. OpenShare(k)' + Cardinality(asks') + Seeds' + connection + faults + retries
        <= OpenShare(k) + Cardinality(asks) + Seeds + connection' + faults' + retries'
  BY <1>0, <1>5, <1>6, <1>7
<1> QED BY <1>0, <1>4, <1>6, <1>8, StandingPays

\* Time opens the run of a worker slower than its lease, and that is a fault; an
\* administrator's retry opens one as well.
LEMMA RowOnlyPays ==
  ASSUME TypeOK, TypeOK', RunsDoNotBreed, NEW k \in Jobs, RetryRun(k) \/ TimePasses(k)
  PROVE  RunsDoNotBreed'
<1>0. /\ row \in [Jobs -> Row] /\ row[k] \in Row /\ UNCHANGED <<batch, cur, pc>>
      /\ UNCHANGED pollVars
      /\ IsFiniteSet(asks) /\ Cardinality(asks) \in Nat
      /\ connection \in Nat /\ faults \in Nat /\ retries \in Nat
  BY BillType, FS_CardinalityType
  DEF TypeOK, QueueTypeOK, RunsDoNotBreed, RetryRun, TimePasses, AdminRetry, LeaseExpires,
      BackoffElapses
<1>1. \A j \in Jobs \ {k} : row'[j] = row[j]
  BY <1>0 DEF RetryRun, TimePasses, AdminRetry, LeaseExpires, BackoffElapses
<1>2. \A v \in Workers : Mine(v)' = Mine(v)
  BY <1>0 DEF Mine, Handling
<1>3. \A j \in Jobs \ {k} : Open(j)' => Open(j)
  BY <1>1, <1>2, OpenStays
<1>4. OpenShare(k) \in {0, 1} /\ OpenShare(k)' \in {0, 1}
  BY DEF OpenShare
<1>5. OpenShare(k)' + faults + retries <= OpenShare(k) + faults' + retries'
  <2>1. CASE RetryRun(k)
    <3>1. retries' = retries + 1 /\ faults' = faults
      BY <2>1 DEF RetryRun, AdminRetry
    <3> QED BY <1>0, <1>4, <3>1
  <2>2. CASE LeaseExpires(k) /\ Held(k)
    <3>1. retries' = retries /\ faults' = faults + 1
      BY <2>2 DEF LeaseExpires, Fault
    <3> QED BY <1>0, <1>4, <3>1
  <2>3. CASE LeaseExpires(k) /\ ~Held(k)
    <3>1. retries' = retries /\ faults' = faults
      BY <2>3 DEF LeaseExpires, NoFault
    <3>2. row'[k].status = row[k].status
      BY <1>0, <2>3 DEF LeaseExpires, Row
    <3>3. Open(k)' => Open(k)
      BY <2>3, <3>2 DEF Open, Reclaimable
    <3>4. OpenShare(k)' <= OpenShare(k)
      BY <3>3 DEF OpenShare, OpenRuns
    <3> QED BY <1>0, <1>4, <3>1, <3>4
  <2>4. CASE BackoffElapses(k)
    <3>1. retries' = retries /\ faults' = faults
      BY <2>4 DEF BackoffElapses
    <3>2. /\ row'[k].status = row[k].status /\ row'[k].leased = row[k].leased
          /\ row'[k].token = row[k].token
      BY <1>0, <2>4 DEF BackoffElapses, Row
    <3>3. Open(k)' = Open(k)
      BY <1>2, <3>2, OpenStays
    <3>4. OpenShare(k)' <= OpenShare(k)
      BY <3>3 DEF OpenShare, OpenRuns
    <3> QED BY <1>0, <1>4, <3>1, <3>4
  <2> QED BY <2>1, <2>2, <2>3, <2>4 DEF TimePasses
<1>6. asks' = asks /\ Seeds' = Seeds /\ connection' = connection /\ Seeds \in Nat
  BY <1>0 DEF pollVars, Seeds
<1>7. faults' \in Nat /\ retries' \in Nat
  BY BillType
<1>8. OpenShare(k)' + Cardinality(asks') + Seeds' + connection + faults + retries
        <= OpenShare(k) + Cardinality(asks) + Seeds + connection' + faults' + retries'
  BY <1>0, <1>4, <1>5, <1>6, <1>7
<1> QED BY <1>0, <1>3, <1>6, <1>8, StandingPays

\* A connect pays for its seed; cancelling opens nothing; nothing else here
\* touches what the bill counts.
LEMMA IntegrationPays ==
  ASSUME TypeOK, TypeOK', QueueInv, RunsDoNotBreed,
         LeavesQueue \/ SeedCancel
  PROVE  RunsDoNotBreed'
<1>0. /\ UNCHANGED <<batch, cur, pc, asks, retries>>
      /\ IsFiniteSet(asks) /\ IsFiniteSet(asks') /\ Cardinality(asks) \in Nat
      /\ connection \in Nat /\ faults \in Nat /\ retries \in Nat
  BY BillType, FS_CardinalityType
  DEF RunsDoNotBreed, LeavesQueue, Connect, ConnectStatus, SeedCancel, SeedLost, Disconnect,
      DisconnectRest, queueVars
<1>1. \A v \in Workers : Mine(v)' = Mine(v)
  BY <1>0 DEF Mine, Handling
<1>2. \A j \in Jobs : Open(j)' => Open(j)
  <2>1. CASE SeedCancel
    <3>1. \A j \in Jobs : /\ row'[j].token = row[j].token /\ row'[j].leased = row[j].leased
                          /\ row'[j].status \in {row[j].status, "cancelled"}
      BY <2>1, CancelKeepsQueue DEF TypeOK
    <3>2. \A j \in Jobs : row'[j].status = "cancelled" => ~Open(j)'
      BY DEF Open, Reclaimable
    <3>3. \A j \in Jobs : row'[j].status = row[j].status => Open(j)' = Open(j)
      BY <1>1, <3>1, OpenStays
    <3> QED BY <3>1, <3>2, <3>3
  <2>2. CASE UNCHANGED row
    BY <1>1, <2>2, OpenStays
  <2> QED BY <2>1, <2>2 DEF LeavesQueue, Connect, ConnectStatus, SeedLost, Disconnect,
       DisconnectRest, queueVars
<1>3. PICK k : k \notin Jobs
  BY NoSetContainsEverything
<1>4. OpenShare(k) = 0 /\ OpenShare(k)' = 0
  BY <1>3 DEF OpenShare, OpenRuns
<1>5. /\ connection \in Nat /\ faults \in Nat /\ connection' \in Nat /\ faults' \in Nat
      /\ Seeds \in Nat /\ Seeds' \in Nat /\ Seeds' <= 1
  BY BillType DEF Seeds
<1>6. \/ connection' = connection + 1 /\ faults' = faults
      \/ /\ connection' = connection /\ (faults' = faults \/ faults' = faults + 1)
         /\ Seeds' = Seeds \/ Seeds' = 0
  <2>1. CASE Connect
    BY <2>1 DEF Connect, queueVars
  <2>2. CASE SeedCancel
    <3>1. connection' = connection /\ (faults' = faults \/ faults' = faults + 1)
      BY <2>2 DEF SeedCancel, Fault, NoFault
    <3>2. Seeds' = Seeds
      BY <2>2 DEF SeedCancel, Seeds
    <3> QED BY <3>1, <3>2, Zenon
  <2>3. CASE ConnectStatus \/ SeedLost \/ Disconnect \/ DisconnectRest
    <3>1. connection' = connection /\ faults' = faults
      BY <2>3 DEF ConnectStatus, SeedLost, Disconnect, DisconnectRest, queueVars
    <3>2. Seeds' = Seeds \/ Seeds' = 0
      BY <2>3 DEF ConnectStatus, SeedLost, Disconnect, DisconnectRest, Seeds
    <3> QED BY <3>1, <3>2, Zenon
  <2> QED BY <2>1, <2>2, <2>3 DEF LeavesQueue
<1>7. OpenShare(k)' + Cardinality(asks') + Seeds' + connection + faults + retries
        <= OpenShare(k) + Cardinality(asks) + Seeds + connection' + faults' + retries'
  <2> DEFINE a == Cardinality(asks)
             s == Seeds
             t == Seeds'
             c == connection
             d == connection'
             f == faults
             g == faults'
             r == retries
  <2>1. retries' = r /\ Cardinality(asks') = a /\ a \in Nat /\ r \in Nat
    BY <1>0
  <2>2. /\ s \in Nat /\ t \in Nat /\ c \in Nat /\ d \in Nat /\ f \in Nat /\ g \in Nat
        /\ t <= 1
    BY <1>5
  <2>3. \/ d = c + 1 /\ g = f
        \/ d = c /\ (g = f \/ g = f + 1) /\ (t = s \/ t = 0)
    BY <1>6
  <2> HIDE DEF a, s, t, c, d, f, g, r
  <2>4. 0 + a + t + c + f + r <= 0 + a + s + d + g + r
    BY <2>1, <2>2, <2>3
  <2>5. OpenShare(k)' + Cardinality(asks') + t + c + f + r
          <= OpenShare(k) + Cardinality(asks) + s + d + g + retries'
    BY <1>4, <2>1, <2>4 DEF a
  <2> QED BY <2>5 DEF t, c, f, r, s, d, g
<1> QED BY <1>0, <1>2, <1>7, StandingPays

\* Every step keeps RunsDoNotBreed.
LEMMA StepKeepsRunsFromBreeding ==
  ASSUME TypeOK, TypeOK', QueueInv, PollRunsArePaid, RunsDoNotBreed, [Next]_vars
  PROVE  RunsDoNotBreed'
<1>1. CASE UNCHANGED vars
  <2>1. UNCHANGED <<row, batch, cur, pc, faults, retries, connection, seeding, asks>>
    BY <1>1 DEF vars, queueVars, pollVars
  <2>2. OpenRuns' = OpenRuns /\ Chances' = Chances /\ Seeds' = Seeds
    BY <2>1 DEF OpenRuns, Open, Reclaimable, Held, Holds, Mine, Handling, Chances, HasChance, Seeds
  <2> QED BY <2>1, <2>2 DEF RunsDoNotBreed
<1>2. CASE Next
  BY <1>2, RunPays, QueueStepPays, CrashPays, BeginPays, ClaimPays, EnqueuePays, RowOnlyPays,
     IntegrationPays DEF Next, PollStep, LeavesQueue
<1> QED BY <1>1, <1>2

-----------------------------------------------------------------------------
(* The theorems *)

\* Inv is an invariant: of the queue, of how runs are paid for, and of a run that
\* lives while any run is about to end.
THEOREM InvHolds == Spec => []Inv
<1>1. Init => Inv
  <2> SUFFICES ASSUME Init PROVE Inv
    OBVIOUS
  <2>1. QueueTypeOK(PollPC) /\ QueueInv
    BY PlacesOfQueue, QueueStarts DEF Init
  <2>2. /\ gen = [j \in Jobs |-> 0] /\ connection = 0 /\ asks = {}
        /\ seeding = "no" /\ leaving = "no"
        /\ credential = FALSE /\ connected = FALSE /\ unset = FALSE
    BY DEF Init
  <2>3. TypeOK
    <3>1. gen \in [Jobs -> 0..MaxConnects] /\ connection \in 0..MaxConnects /\ asks \subseteq Ask
      BY <2>2, PollAssumption
    <3>2. credential \in BOOLEAN /\ connected \in BOOLEAN /\ unset \in BOOLEAN
      BY <2>2
    <3> QED BY <2>1, <2>2, <3>1, <3>2 DEF TypeOK
  <2>4. PollRunsArePaid
    BY PaidStarts DEF Init, PollRunsArePaid
  <2>5. SomeRunLives
    BY <2>2 DEF SomeRunLives, LoopMayRun
  <2>6. RunsDoNotBreed
    <3>1. OpenRuns = {} /\ Chances = {}
      BY DEF Init, QueueInit, OpenRuns, Open, NewRow, Chances, HasChance, Unspent
    <3>2. IsFiniteSet({}) /\ Cardinality({}) = 0
      BY FS_EmptySet
    <3>3. faults = 0 /\ retries = 0 /\ Seeds = 0
      BY <2>2 DEF Init, QueueInit, Seeds
    <3> QED BY <2>2, <3>1, <3>2, <3>3 DEF RunsDoNotBreed
  <2> QED BY <2>1, <2>3, <2>4, <2>5, <2>6 DEF Inv
<1>2. Inv /\ [Next]_vars => Inv'
  <2> SUFFICES ASSUME Inv, [Next]_vars PROVE Inv'
    OBVIOUS
  <2>1. TypeOK /\ QueueInv /\ PollRunsArePaid /\ SomeRunLives /\ RunsDoNotBreed
    BY DEF Inv
  <2>2. TypeOK'
    BY <2>1, StepKeepsTypes
  <2>3. QueueInv' /\ PollRunsArePaid' /\ SomeRunLives'
    BY <2>1, <2>2, StepKeepsQueue, StepKeepsRunsPaid, StepKeepsSomeRunLiving
  <2>4. RunsDoNotBreed'
    BY <2>1, <2>2, StepKeepsRunsFromBreeding
  <2> QED BY <2>2, <2>3, <2>4 DEF Inv
<1> QED BY <1>1, <1>2, PTL DEF Spec

\* enqueueNextPoll before completeChannelJob: however runs fail, are released or
\* are overtaken, and whatever writes of connects and disconnects are lost, the
\* loop goes on until one run has failed as often as it may, its credential is
\* gone, or a run has met a worker with no OAuth client.
THEOREM LoopAliveHolds == Spec => []LoopAlive
<1>1. Inv => LoopAlive
  BY DEF Inv, SomeRunLives, Lives, LoopAlive
<1> QED BY <1>1, InvHolds, PTL

\* Runs do not breed: the waiting runs and the requests for more are no more than
\* the connects, the faults and an administrator's retries have paid for.
THEOREM WaitingBounded == Spec => []WaitingIsBounded
<1>1. Inv => WaitingIsBounded
  <2> SUFFICES ASSUME TypeOK, RunsDoNotBreed PROVE WaitingIsBounded
    BY DEF Inv
  <2>1. IsFiniteSet(Jobs) /\ IsFiniteSet(Workers) /\ IsFiniteSet(asks)
    BY PollAssumption DEF RunsDoNotBreed
  <2>2. /\ WaitingRuns \in SUBSET OpenRuns /\ OpenRuns \in SUBSET Jobs
        /\ Chances \in SUBSET (Workers \X Jobs)
    BY DEF WaitingRuns, OpenRuns, Open, Reclaimable, Chances
  <2>3. IsFiniteSet(OpenRuns) /\ IsFiniteSet(Chances) /\ IsFiniteSet(WaitingRuns)
    <3>1. IsFiniteSet(Workers \X Jobs) /\ IsFiniteSet(OpenRuns)
      BY <2>1, <2>2, FS_Product, FS_Subset
    <3> QED BY <2>2, <3>1, FS_Subset
  <2>4. /\ Cardinality(WaitingRuns) <= Cardinality(OpenRuns)
        /\ Cardinality(WaitingRuns) \in Nat /\ Cardinality(OpenRuns) \in Nat
        /\ Cardinality(Chances) \in Nat /\ Cardinality(asks) \in Nat /\ Seeds \in Nat
    BY <2>1, <2>2, <2>3, FS_Subset, FS_CardinalityType DEF Seeds
  <2>5. connection \in Nat /\ faults \in Nat /\ retries \in Nat
    BY PollAssumption, QueueAssumption DEF TypeOK, QueueTypeOK
  <2> QED BY <2>4, <2>5 DEF RunsDoNotBreed, WaitingIsBounded
<1> QED BY <1>1, InvHolds, PTL
=============================================================================

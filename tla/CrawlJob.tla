------------------------------ MODULE CrawlJob -------------------------------
(***************************************************************************)
(* Website audits: the generic queue of background jobs                    *)
(* (server/services/jobs/queue.ts), the crawl that a job stands for        *)
(* (server/services/seo/crawlService.ts) and the worker that runs it       *)
(* (worker/seo-crawler/index.ts).  The user sees the seo_crawls row; the   *)
(* worker claims the background_jobs row; they are written separately.     *)
(*                                                                         *)
(* A job is claimed by a conditional update: `attempts', which every claim *)
(* increments, is the row's version.  A worker process polls while earlier *)
(* runs of its own are still at work, so one process can have several      *)
(* ticks under way; heartbeats are fenced by the process, not by the run.  *)
(*                                                                         *)
(* supabase-js returns errors and most calls here do not look at them: a   *)
(* statement that fails is one that silently did nothing (a Fault).        *)
(***************************************************************************)
EXTENDS Integers, FiniteSets

CONSTANTS
  Crawls,       \* audits of one site, each with its job
  Workers,      \* worker processes (WORKER_ID)
  Ticks,        \* bound: ticks under way at once, over all processes
  MaxAttempts,  \* background_jobs.max_attempts
  MaxPages,     \* seo_max_pages_per_crawl
  SiteLimit,    \* seo_site_concurrent_jobs
  MaxFaults,    \* bound: failed statements, crashes, runs slower than their lock
  None          \* no worker, no crawl

ASSUME CrawlAssumption ==
  /\ MaxAttempts \in Nat \ {0}
  /\ MaxPages \in Nat
  /\ SiteLimit \in Nat \ {0}
  /\ MaxFaults \in Nat

VARIABLES
  job,         \* job[c]: the background_jobs row
  crawl,       \* crawl[c]: seo_crawls.status, "absent" before its insert
  tick,        \* tick[t]: one call of tick() in some worker process
  creating,    \* how far createCrawl of c is
  cancelling,  \* how far requestCrawlCancel of c is
  faults

vars == <<job, crawl, tick, creating, cancelling, faults>>

Active == {"queued", "running", "processing"}
Locked == {"running", "processing"}
Final == {"completed", "failed", "cancelled"}
Status == Active \cup Final \cup {"absent"}

\* expired: lock_expires_at is set and over.
Job == [status: Status, attempts: 0..MaxAttempts, lockedBy: Workers \cup {None},
        expired: BOOLEAN, cancel: BOOLEAN]
NewJob == [status |-> "absent", attempts |-> 0, lockedBy |-> None,
           expired |-> FALSE, cancel |-> FALSE]

\* status and attempts are what the tick read of the job at its last look.
Steps == {"idle", "claim", "load", "start", "work", "beat", "analyze", "save", "complete",
          "cancel", "ack", "fail", "failWrite", "failCrawl", "missing", "missingWrite"}
Tick == [pc: Steps, home: Workers \cup {None}, crawl: Crawls \cup {None},
         status: Status, attempts: Nat, pages: 0..MaxPages]
IdleTick == [pc |-> "idle", home |-> None, crawl |-> None, status |-> "absent",
             attempts |-> 0, pages |-> 0]

Init ==
  /\ job = [c \in Crawls |-> NewJob]
  /\ crawl = [c \in Crawls |-> "absent"]
  /\ tick = [t \in Ticks |-> IdleTick]
  /\ creating = [c \in Crawls |-> "no"]
  /\ cancelling = [c \in Crawls |-> "no"]
  /\ faults = 0

Fault == faults < MaxFaults /\ faults' = faults + 1
NoFault == UNCHANGED faults

\* One UPDATE with its filter; or it fails, and nobody notices.
JobUpdate(c, filter, new) ==
  \/ job' = (IF filter THEN [job EXCEPT ![c] = new] ELSE job) /\ NoFault
  \/ UNCHANGED job /\ Fault
CrawlUpdate(c, from, status) ==
  \/ crawl' = (IF crawl[c] \in from THEN [crawl EXCEPT ![c] = status] ELSE crawl) /\ NoFault
  \/ UNCHANGED crawl /\ Fault

-----------------------------------------------------------------------------
(* createCrawl and requestCrawlCancel *)

ActiveCrawls == {c \in Crawls : crawl[c] \in Active}

\* A count that fails is taken for zero.
Check(c) ==
  /\ creating[c] = "no"
  /\ (Cardinality(ActiveCrawls) < SiteLimit /\ NoFault) \/ Fault
  /\ creating' = [creating EXCEPT ![c] = "enqueue"]
  /\ UNCHANGED <<job, crawl, tick, cancelling>>

EnqueueJob(c) ==
  /\ creating[c] = "enqueue"
  /\ creating' = [creating EXCEPT ![c] = "insert"]
  /\ job' = [job EXCEPT ![c].status = "queued"]
  /\ UNCHANGED <<crawl, tick, cancelling, faults>>

\* An insert that fails leaves the job without a row.
InsertCrawl(c) ==
  /\ creating[c] = "insert"
  /\ creating' = [creating EXCEPT ![c] = "done"]
  /\ crawl' = [crawl EXCEPT ![c] = "queued"] \/ UNCHANGED crawl
  /\ UNCHANGED <<job, tick, cancelling, faults>>

AskCancel(c) ==
  /\ cancelling[c] = "no"
  /\ crawl[c] # "absent"
  /\ cancelling' = [cancelling EXCEPT ![c] = "flag"]
  /\ UNCHANGED <<job, crawl, tick, creating, faults>>

\* requestJobCancel, cancelQueuedJob, getJob, and the crawl's own row.
CancelStep(c) ==
  /\ \/ /\ cancelling[c] = "flag"
        /\ JobUpdate(c, job[c].status \in Active, [job[c] EXCEPT !.cancel = TRUE])
        /\ cancelling' = [cancelling EXCEPT ![c] = "dequeue"]
        /\ UNCHANGED crawl
     \/ /\ cancelling[c] = "dequeue"
        /\ JobUpdate(c, job[c].status = "queued", [job[c] EXCEPT !.status = "cancelled"])
        /\ cancelling' = [cancelling EXCEPT ![c] = "look"]
        /\ UNCHANGED crawl
     \/ /\ cancelling[c] = "look"
        /\ \/ job[c].status = "cancelled" /\ NoFault
              /\ cancelling' = [cancelling EXCEPT ![c] = "close"]
           \/ /\ (job[c].status # "cancelled" /\ NoFault) \/ Fault
              /\ cancelling' = [cancelling EXCEPT ![c] = "no"]
        /\ UNCHANGED <<job, crawl>>
     \/ /\ cancelling[c] = "close"
        /\ CrawlUpdate(c, Active, "cancelled")
        /\ cancelling' = [cancelling EXCEPT ![c] = "no"]
        /\ UNCHANGED job
  /\ UNCHANGED <<tick, creating>>

-----------------------------------------------------------------------------
(* claimNextJob *)

To(t, step) == tick' = [tick EXCEPT ![t].pc = step]
Rest(t) == tick' = [tick EXCEPT ![t] = IdleTick]

Candidate(c) == job[c].status = "queued" \/ (job[c].status \in Locked /\ job[c].expired)

Poll(t) ==
  /\ tick[t].pc = "idle"
  /\ \E w \in Workers, c \in Crawls :
       /\ Candidate(c)
       /\ tick' = [tick EXCEPT ![t] = [IdleTick EXCEPT !.pc = "claim", !.home = w, !.crawl = c,
                     !.status = job[c].status, !.attempts = job[c].attempts]]
  /\ UNCHANGED <<job, crawl, creating, cancelling, faults>>

\* Mutant: one run too many.
ExhaustedLate(s) == s.attempts > MaxAttempts

Exhausted(s) == s.attempts >= MaxAttempts

\* Mutant: the candidate is skipped and left where it is.
BurnNothing(t) ==
  /\ tick[t].pc = "claim"
  /\ Exhausted(tick[t])
  /\ Rest(t)
  /\ UNCHANGED <<job, crawl, creating, cancelling, faults>>

\* A candidate with no attempts left is failed; its crawl is not looked at.
Burn(t) ==
  LET c == tick[t].crawl IN
  /\ tick[t].pc = "claim"
  /\ Exhausted(tick[t])
  /\ JobUpdate(c, job[c].status \in Active, [job[c] EXCEPT !.status = "failed"])
  /\ Rest(t)
  /\ UNCHANGED <<crawl, creating, cancelling>>

\* Mutants: the version of the row is its status; or its attempts.
StillByStatus(s) == job[s.crawl].status = s.status
StillByAttempts(s) == job[s.crawl].attempts = s.attempts

\* The row is as it was read.
Still(s) == job[s.crawl].status = s.status /\ job[s.crawl].attempts = s.attempts

ClaimedRow(s) == [job[s.crawl] EXCEPT !.status = "running", !.attempts = s.attempts + 1,
                                     !.lockedBy = s.home, !.expired = FALSE]

Claim(t) ==
  LET s == tick[t]
      claimed == [job EXCEPT ![s.crawl] = ClaimedRow(s)] IN
  /\ s.pc = "claim"
  /\ ~Exhausted(s)
  /\ \/ Still(s) /\ job' = claimed /\ NoFault
        /\ tick' = [tick EXCEPT ![t].pc = "load", ![t].attempts = s.attempts + 1]
     \/ ~Still(s) /\ UNCHANGED job /\ Rest(t) /\ NoFault
     \/ (UNCHANGED job \/ (Still(s) /\ job' = claimed)) /\ Rest(t) /\ Fault   \* no answer
  /\ UNCHANGED <<crawl, creating, cancelling>>

-----------------------------------------------------------------------------
(* tickCrawl and processCrawl *)

\* A crawl row that cannot be read counts as missing.
Load(t) ==
  /\ tick[t].pc = "load"
  /\ \/ crawl[tick[t].crawl] # "absent" /\ To(t, "start") /\ NoFault
     \/ crawl[tick[t].crawl] = "absent" /\ To(t, "missing") /\ NoFault
     \/ To(t, "missing") /\ Fault
  /\ UNCHANGED <<job, crawl, creating, cancelling>>

Start(t) ==
  /\ tick[t].pc = "start"
  /\ CrawlUpdate(tick[t].crawl, Status, "running")
  /\ To(t, "work")
  /\ UNCHANGED <<job, creating, cancelling>>

\* Pages, until there are no more of them, or time is up, or it throws.
Work(t) ==
  /\ tick[t].pc = "work"
  /\ \/ /\ tick[t].pages < MaxPages
        /\ tick' = [tick EXCEPT ![t].pc = "beat", ![t].pages = @ + 1]
     \/ To(t, "analyze")
     \/ To(t, "fail")
  /\ UNCHANGED <<job, crawl, creating, cancelling, faults>>

\* heartbeatJob: whoever holds the lock, the row is `processing' again, whatever
\* it was.
Beaten(t) ==
  LET c == tick[t].crawl IN
  JobUpdate(c, job[c].lockedBy = tick[t].home,
            [job[c] EXCEPT !.status = "processing", !.expired = FALSE])

\* Before each batch of pages; only here the cancellation is looked at.
Beat(t) ==
  LET c == tick[t].crawl IN
  /\ tick[t].pc = "beat"
  /\ Beaten(t)
  /\ To(t, IF job[c].lockedBy = tick[t].home /\ job[c].cancel /\ faults' = faults
           THEN "cancel" ELSE "work")
  /\ UNCHANGED <<crawl, creating, cancelling>>

\* The heartbeats of the three last stages, as one.
Analyze(t) ==
  /\ tick[t].pc = "analyze"
  /\ Beaten(t)
  /\ To(t, "save") \/ To(t, "fail")
  /\ UNCHANGED <<crawl, creating, cancelling>>

\* The score; then completeJob, which names neither the lock nor the attempt.
Save(t) ==
  /\ tick[t].pc = "save"
  /\ CrawlUpdate(tick[t].crawl, Status, "completed")
  /\ To(t, "complete")
  /\ UNCHANGED <<job, creating, cancelling>>

Complete(t) ==
  LET c == tick[t].crawl IN
  /\ tick[t].pc = "complete"
  /\ JobUpdate(c, job[c].status \in Locked, [job[c] EXCEPT !.status = "completed"])
  /\ Rest(t)
  /\ UNCHANGED <<crawl, creating, cancelling>>

CancelCrawl(t) ==
  /\ tick[t].pc = "cancel"
  /\ CrawlUpdate(tick[t].crawl, Status, "cancelled")
  /\ To(t, "ack")
  /\ UNCHANGED <<job, creating, cancelling>>

AcknowledgeCancel(t) ==
  LET c == tick[t].crawl IN
  /\ tick[t].pc = "ack"
  /\ JobUpdate(c, job[c].status \in Locked, [job[c] EXCEPT !.status = "cancelled"])
  /\ Rest(t)
  /\ UNCHANGED <<crawl, creating, cancelling>>

-----------------------------------------------------------------------------
(* failJob reads the row, then updates it; after that the crawl is marked.   *)
(* A job whose crawl is missing is failed for good and marks nothing.        *)

AfterFail(t) ==
  IF tick[t].pc \in {"missing", "missingWrite"} THEN Rest(t) ELSE To(t, "failCrawl")

FailRead(t) ==
  LET j == job[tick[t].crawl] IN
  /\ tick[t].pc \in {"fail", "missing"}
  /\ \/ j.status \in Final /\ AfterFail(t) /\ NoFault
     \/ /\ j.status \notin Final /\ NoFault
        /\ \E verdict \in {"queued", "failed"} :
             /\ verdict = "queued" => tick[t].pc = "fail" /\ j.attempts < MaxAttempts
             /\ tick' = [tick EXCEPT ![t].status = verdict,
                           ![t].pc = IF @ = "fail" THEN "failWrite" ELSE "missingWrite"]
     \/ AfterFail(t) /\ Fault
  /\ UNCHANGED <<job, crawl, creating, cancelling>>

FailWrite(t) ==
  LET c == tick[t].crawl IN
  /\ tick[t].pc \in {"failWrite", "missingWrite"}
  /\ JobUpdate(c, job[c].status \in Active,
       [job[c] EXCEPT !.status = tick[t].status, !.lockedBy = None, !.expired = FALSE])
  /\ AfterFail(t)
  /\ UNCHANGED <<crawl, creating, cancelling>>

\* Mutant: whatever the crawl has become.
FailCrawlAnyway(t) ==
  /\ tick[t].pc = "failCrawl"
  /\ CrawlUpdate(tick[t].crawl, Status, "failed")
  /\ Rest(t)
  /\ UNCHANGED <<job, creating, cancelling>>

\* Also when the job is to be tried again.
FailCrawl(t) ==
  /\ tick[t].pc = "failCrawl"
  /\ CrawlUpdate(tick[t].crawl, Active, "failed")
  /\ Rest(t)
  /\ UNCHANGED <<job, creating, cancelling>>

-----------------------------------------------------------------------------
\* A worker process dies with all its ticks.
Crash(w) ==
  /\ \E t \in Ticks : tick[t].home = w
  /\ Fault
  /\ tick' = [t \in Ticks |-> IF tick[t].home = w THEN IdleTick ELSE tick[t]]
  /\ UNCHANGED <<job, crawl, creating, cancelling>>

AtWork(t, c) == tick[t].crawl = c /\ tick[t].pc \notin {"idle", "claim"}

\* lock_expires_at passes.  While the run of that lock is at work it is a run
\* slower than its lock, and counts as a fault.
LockExpires(c) ==
  /\ job[c].status \in Locked
  /\ ~job[c].expired
  /\ job' = [job EXCEPT ![c].expired = TRUE]
  /\ IF \E t \in Ticks : AtWork(t, c) /\ tick[t].attempts = job[c].attempts
     THEN Fault ELSE NoFault
  /\ UNCHANGED <<crawl, tick, creating, cancelling>>

TickStep(t) ==
  \/ Burn(t) \/ Claim(t) \/ Load(t) \/ Start(t) \/ Work(t) \/ Beat(t) \/ Analyze(t)
  \/ Save(t) \/ Complete(t) \/ CancelCrawl(t) \/ AcknowledgeCancel(t)
  \/ FailRead(t) \/ FailWrite(t) \/ FailCrawl(t)

Next ==
  \/ \E c \in Crawls : Check(c) \/ EnqueueJob(c) \/ InsertCrawl(c)
                       \/ AskCancel(c) \/ CancelStep(c) \/ LockExpires(c)
  \/ \E t \in Ticks : Poll(t) \/ TickStep(t)
  \/ \E w \in Workers : Crash(w)

Spec == Init /\ [][Next]_vars

\* Every process polls on a timer, a run goes on as long as its process lives,
\* and time passes.
Fairness ==
  /\ \A t \in Ticks : WF_vars(TickStep(t)) /\ WF_vars(Poll(t))
  /\ \A c \in Crawls : WF_vars(LockExpires(c))

FairSpec == Spec /\ Fairness
-----------------------------------------------------------------------------
\* attempts within max_attempts included: claimNextJob's own promise.
TypeOK ==
  /\ job \in [Crawls -> Job]
  /\ crawl \in [Crawls -> Status]
  /\ tick \in [Ticks -> Tick]
  /\ creating \in [Crawls -> {"no", "enqueue", "insert", "done"}]
  /\ cancelling \in [Crawls -> {"no", "flag", "dequeue", "look", "close"}]
  /\ faults \in 0..MaxFaults

\* "Two workers polling concurrently can never claim the same row": an attempt
\* belongs to one run, however many processes read the same candidate.
AttemptsAreClaimedOnce ==
  \A c \in Crawls : \A t, u \in Ticks :
    AtWork(t, c) /\ AtWork(u, c) /\ tick[t].attempts = tick[u].attempts => t = u

\* A tick at a job never knows of more attempts than the row does: attempts only
\* grow.
TicksNameTheirJob ==
  \A t \in Ticks : LET s == tick[t] IN
    s.pc # "idle" => /\ s.crawl \in Crawls
                     /\ s.home \in Workers
                     /\ s.attempts <= job[s.crawl].attempts

\* Inductive: a claim takes a number no tick can have yet.
ClaimInv == TypeOK /\ TicksNameTheirJob /\ AttemptsAreClaimedOnce

\* A tick that has found its crawl's row, and one that works on its claim.
Loaded == {"start", "work", "beat", "analyze", "save", "complete",
           "cancel", "ack", "fail", "failWrite", "failCrawl"}
Holding == Steps \ {"idle", "claim", "failCrawl"}

\* The rows are made in order, and by the time a tick acts on one it is there.
RowsFollow ==
  /\ \A c \in Crawls :
       /\ creating[c] \in {"no", "enqueue"} => job[c] = NewJob
       /\ creating[c] # "done" => crawl[c] = "absent"
       /\ cancelling[c] # "no" => crawl[c] # "absent"
  /\ \A t \in Ticks : LET s == tick[t] IN
       /\ s.pc # "idle" => job[s.crawl].status # "absent"
       /\ s.pc \in Loaded => crawl[s.crawl] # "absent"
       /\ s.pc = "claim" => s.status \in Active
       /\ s.pc = "failWrite" => s.status \in {"queued", "failed"}
       /\ s.pc = "missingWrite" => s.status = "failed"

\* Until something fails a run at work holds its job: the row is locked, under
\* its attempt, and nobody who read the row before can claim or burn it.
RunsHold ==
  faults = 0 =>
    /\ \A t \in Ticks : LET s == tick[t]  j == job[tick[t].crawl] IN
         /\ s.pc \in Holding => j.status \in Locked /\ ~j.expired /\ j.attempts = s.attempts
         /\ s.pc = "failCrawl" => j.status \notin Locked \/ s.attempts < j.attempts
         /\ s.pc = "claim" /\ s.status \in Locked =>
              \A u \in Ticks : AtWork(u, s.crawl) => tick[u].attempts # s.attempts
         /\ s.pc \in {"claim", "failWrite"} /\ s.status = "queued" => s.attempts < MaxAttempts
    /\ \A c \in Crawls : job[c].status = "queued" => job[c].attempts < MaxAttempts

\* What the crawl's row says while a job ends, step by step.
EndsMatch ==
  faults = 0 =>
    /\ \A t \in Ticks :
         /\ tick[t].pc = "complete" => crawl[tick[t].crawl] = "completed"
         /\ tick[t].pc = "ack" => crawl[tick[t].crawl] = "cancelled"
    /\ \A c \in Crawls :
         /\ job[c].status = "completed" => crawl[c] = "completed"
         /\ crawl[c] = "completed" =>
              job[c].status = "completed" \/ \E t \in Ticks : tick[t].pc = "complete" /\ tick[t].crawl = c
         /\ job[c].status = "cancelled" =>
              \/ crawl[c] \in {"cancelled", "failed"}
              \/ crawl[c] \in Active /\ cancelling[c] \in {"look", "close"}

\* Inductive.
Inv == ClaimInv /\ RowsFollow /\ RunsHold /\ EndsMatch

\* A finished job stays finished.  Only a run that has outlived its lock, or
\* was cut off from the database, can bring it back, by its next heartbeat.
FinishedNeedsFault ==
  [][\A c \in Crawls : job[c].status \in Final =>
       \/ job'[c].status = job[c].status
       \/ faults > 0 /\ job'[c].status = "processing"]_vars

\* What the user is shown and what the queue did come to the same end, retries
\* and cancellations that race the run included, unless a statement failed.
OutcomesAgree ==
  \A c \in Crawls :
    faults = 0 /\ cancelling[c] = "no" /\ (\A t \in Ticks : ~AtWork(t, c)) =>
      /\ job[c].status = "completed" <=> crawl[c] = "completed"
      /\ job[c].status = "cancelled" => crawl[c] \in {"cancelled", "failed"}

\* Every job ends, whatever crashes: the lock of a dead run expires, and a job
\* that has no attempts left is failed by whoever finds it.
Settles == \A c \in Crawls : (job[c].status = "queued") ~> (job[c].status \in Final)
=============================================================================

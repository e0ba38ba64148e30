------------------------- MODULE WorkspaceDeletion --------------------------
(***************************************************************************)
(* The deletion of a workspace (server/services/workspaceDeletion/         *)
(* worker.ts, storage/scopeCleanupEngine.ts, migrations 181 and 185): its  *)
(* objects first, in every storage, then its rows.  Uploads that are under *)
(* way when it is asked for are module OwnerLease.  An administrator's     *)
(* sync of a replica (syncStorageReplica) writes objects under no lease    *)
(* and is left out.                                                        *)
(*                                                                         *)
(* Any number of workers poll.  Each statement and each call of a storage  *)
(* is a step.  Every storage is configured, and its own place; recordings  *)
(* are at rest.                                                            *)
(***************************************************************************)
EXTENDS OwnerLease, FiniteSets

CONSTANTS
  Workers,
  Order,           \* Order[i]: the i-th storage that is walked
  MaxJobAttempts,  \* MAX_JOB_ATTEMPTS
  MaxScopeFailures,\* MAX_SCOPE_FAILURES
  None

ASSUME DeletionAssumption ==
  /\ Order \in [1..Cardinality(Scopes) -> Scopes]
  /\ \A s \in Scopes : \E i \in 1..Cardinality(Scopes) : Order[i] = s
  /\ MaxJobAttempts \in Nat \ {0} /\ MaxScopeFailures \in Nat \ {0}
  /\ None \notin Workers

VARIABLES
  job,    \* the row of workspace_deletion_jobs
  worker  \* worker[k]: a tick

vars == <<leaseVars, job, worker>>

\* cursor: the listing is not exhausted.  "misread" is the code's `verified', of a
\* listing that did not show what the storage holds.
Progress == [status: {"untouched", "in_progress", "done", "verified", "misread", "unreachable"},
             cursor: BOOLEAN, failures: 0..MaxScopeFailures]
Untouched == [status |-> "untouched", cursor |-> FALSE, failures |-> 0]

\* token: whose claim minted lease_token; a tick holds that of its own claim.
\* leased: lease_expires_at lies ahead.
Job == [status: {"none", "pending", "storage_cleanup", "db_cleanup", "completed", "failed"},
        attempts: 0..MaxJobAttempts, token: Workers \cup {None}, leased: BOOLEAN,
        scopes: [Scopes -> Progress]]

\* scopes, attempts: the job as it was claimed, and what the tick made of it.
\* keys, more: what was listed.  patch: the next write of the job.
Patches == {"keep", "note", "progress", "yield", "advance", "retry", "revert", "complete"}
Worker == [pc: {"idle", "gate", "walk", "delete", "recheck", "purge", "exists", "persist"},
           scopes: [Scopes -> Progress], attempts: 0..MaxJobAttempts,
           keys: SUBSET Writers, more: BOOLEAN, patch: Patches]

NoWork == [s \in Scopes |-> Untouched]
IdleWorker == [pc |-> "idle", scopes |-> NoWork, attempts |-> 0,
               keys |-> {}, more |-> FALSE, patch |-> "keep"]

Init ==
  /\ LeaseInit
  /\ job = [status |-> "none", attempts |-> 0, token |-> None, leased |-> FALSE,
            scopes |-> NoWork]
  /\ worker = [k \in Workers |-> IdleWorker]

-----------------------------------------------------------------------------
(* Requests.                                                                 *)

\* The workspace's row is locked: between an upload's check and its lease this
\* does not come.
Enqueue ==
  /\ ws = "active"
  /\ ws' = "deleting"
  /\ job' = [job EXCEPT !.status = "pending"]
  /\ UNCHANGED <<writer, objects, faults, worker>>

\* An administrator's retry; attempt_count stays.
RetryJob ==
  /\ job.status = "failed"
  /\ job' = [job EXCEPT !.status = "storage_cleanup", !.leased = FALSE]
  /\ UNCHANGED <<leaseVars, worker>>

-----------------------------------------------------------------------------
(* A tick.                                                                   *)

To(k, pc) == worker' = [worker EXCEPT ![k].pc = pc]
Write(k, patch) == worker' = [worker EXCEPT ![k].pc = "persist", ![k].patch = patch]
Drop(k) == worker' = [worker EXCEPT ![k] = IdleWorker]

\* Should the answer be lost, the job is leased to nobody.
Claim(k) ==
  /\ worker[k].pc = "idle"
  /\ job.status \in {"pending", "storage_cleanup", "db_cleanup"}
  /\ ~job.leased
  /\ job' = [job EXCEPT !.token = k, !.leased = TRUE,
               !.status = IF @ = "pending" THEN "storage_cleanup" ELSE @]
  /\ \/ /\ worker' = [worker EXCEPT ![k].pc = IF job.status = "db_cleanup" THEN "recheck" ELSE "gate",
                        ![k].scopes = job.scopes, ![k].attempts = job.attempts]
        /\ NoFault
     \/ UNCHANGED worker /\ Fault
  /\ UNCHANGED <<ws, writer, objects>>

\* While uploads hold leases nothing is listed; a failed question is a yes.
Gate(k) ==
  /\ worker[k].pc = "gate"
  /\ \/ HasActiveLeases /\ Write(k, "yield") /\ NoFault
     \/ ~HasActiveLeases /\ To(k, "walk") /\ NoFault
     \/ Write(k, "yield") /\ Fault
  /\ UNCHANGED <<ws, writer, objects, job>>

Settled(p) == p.status \in {"verified", "misread", "unreachable"}

\* The storage a walk is at: the first that is not settled.
At(k, s) ==
  \E i \in 1..Cardinality(Scopes) :
    /\ Order[i] = s
    /\ ~Settled(worker[k].scopes[s])
    /\ \A j \in 1..(i - 1) : Settled(worker[k].scopes[Order[j]])

\* Every storage is settled.
WalkEnds(k) ==
  /\ worker[k].pc = "walk"
  /\ \A s \in Scopes : Settled(worker[k].scopes[s])
  /\ Write(k, "advance")
  /\ UNCHANGED <<leaseVars, job>>

Scoped(k, s, p, pc, patch) ==
  worker' = [worker EXCEPT ![k].pc = pc, ![k].patch = patch, ![k].scopes[s] = p,
               ![k].keys = {}, ![k].more = FALSE]

\* A page.  From the start to the end of a listing it shows all there is, unless
\* the body of an answer could not be read, which is taken for an empty folder;
\* one that resumes misses what was written before its cursor.  An empty listing
\* from the start of a storage that was done verifies it.
List(k) ==
  /\ worker[k].pc = "walk"
  /\ \E s \in Scopes :
       LET p == worker[k].scopes[s] IN
       /\ At(k, s)
       /\ \E keys \in SUBSET objects[s], more \in BOOLEAN :
            /\ IF ~p.cursor /\ ~more /\ keys # objects[s] THEN Fault ELSE NoFault
            /\ more => keys # {}
            /\ IF p.status = "done" /\ keys = {} /\ ~more
                 THEN Scoped(k, s, [p EXCEPT !.status = IF objects[s] = {} THEN "verified" ELSE "misread",
                                             !.failures = 0],
                             "persist", "keep")
                 ELSE worker' = [worker EXCEPT ![k].pc = "delete", ![k].keys = keys, ![k].more = more,
                                   ![k].scopes[s].failures = 0]
  /\ UNCHANGED <<ws, writer, objects, job>>

\* A listing or a delete failed: recordScopeFailure.  Access refused, or too
\* often: the storage is given up, and the walk goes on; else the job retries.
ScopeFails(k, s) ==
  LET p == worker[k].scopes[s]
      GiveUp(failures) ==
        Scoped(k, s, [p EXCEPT !.status = "unreachable", !.cursor = FALSE, !.failures = failures],
               "persist", "keep")
  IN
  IF p.failures + 1 >= MaxScopeFailures
    THEN GiveUp(MaxScopeFailures)
    ELSE \/ GiveUp(p.failures + 1)
         \/ Scoped(k, s, [p EXCEPT !.status = IF @ = "untouched" THEN "in_progress" ELSE @,
                                   !.failures = @ + 1],
                   "persist", "note")

\* Or the storages could not be looked up.
ListFails(k) ==
  /\ worker[k].pc = "walk"
  /\ \/ \E s \in Scopes : At(k, s) /\ ScopeFails(k, s)
     \/ Write(k, "retry")
  /\ Fault
  /\ UNCHANGED <<ws, writer, objects, job>>

\* The page is deleted, key by key.  A verification that found something starts
\* the storage again.
DeleteKeys(k) ==
  /\ worker[k].pc = "delete"
  /\ \E s \in Scopes :
       LET p == worker[k].scopes[s]
           more == worker[k].more
           next == IF p.status = "done" \/ more THEN "in_progress" ELSE "done"
       IN
       /\ At(k, s)
       /\ objects' = [objects EXCEPT ![s] = @ \ worker[k].keys]
       /\ Scoped(k, s, [p EXCEPT !.status = next, !.cursor = more], "persist", "progress")
  /\ NoFault
  /\ UNCHANGED <<ws, writer, job>>

\* Some of the page is, then a key fails, or the heartbeat finds the lease gone
\* or fails itself (an error that is not the storage's).
DeleteFails(k) ==
  /\ worker[k].pc = "delete"
  /\ \E s \in Scopes, gone \in SUBSET worker[k].keys :
       /\ At(k, s)
       /\ objects' = [objects EXCEPT ![s] = @ \ gone]
       /\ \/ ScopeFails(k, s) /\ Fault
          \/ Write(k, "retry") /\ Fault
          \/ job.token # k /\ Write(k, "retry") /\ NoFault
  /\ UNCHANGED <<ws, writer, job>>

\* The heartbeat of the delete loop revives the lease while nobody took it.
RenewJob(k) ==
  /\ worker[k].pc = "delete"
  /\ job.token = k
  /\ job' = [job EXCEPT !.leased = TRUE]
  /\ UNCHANGED <<leaseVars, worker>>

\* reassertSafeToPurge.
Recheck(k) ==
  /\ worker[k].pc = "recheck"
  /\ \/ HasActiveLeases /\ Write(k, "revert") /\ NoFault
     \/ ~HasActiveLeases /\ To(k, "purge") /\ NoFault
     \/ Write(k, "revert") /\ Fault
  /\ UNCHANGED <<ws, writer, objects, job>>

\* Mutant: what a failed purge has left is not asked.
PurgeTrusted(k) ==
  /\ worker[k].pc = "purge"
  /\ \/ ws # "gone" /\ ws' = "gone" /\ Write(k, "complete") /\ NoFault
     \/ ws = "gone" /\ UNCHANGED ws /\ Write(k, "complete") /\ NoFault
     \/ ws' = "gone" /\ Write(k, "complete") /\ Fault
     \/ UNCHANGED ws /\ Write(k, "complete") /\ Fault
  /\ UNCHANGED <<writer, objects, job>>

\* admin_delete_workspace raises when there is no workspace.
Purge(k) ==
  /\ worker[k].pc = "purge"
  /\ \/ ws # "gone" /\ ws' = "gone" /\ Write(k, "complete") /\ NoFault
     \/ ws = "gone" /\ UNCHANGED ws /\ To(k, "exists") /\ NoFault
     \/ ws' = "gone" /\ To(k, "exists") /\ Fault
     \/ UNCHANGED ws /\ To(k, "exists") /\ Fault
  /\ UNCHANGED <<writer, objects, job>>

\* workspaceStillExists does not look at the error: a failed read finds nothing.
Exists(k) ==
  /\ worker[k].pc = "exists"
  /\ \/ ws # "gone" /\ Write(k, "retry") /\ NoFault
     \/ ws = "gone" /\ Write(k, "complete") /\ NoFault
     \/ Write(k, "complete") /\ Fault
  /\ UNCHANGED <<ws, writer, objects, job>>

\* The job as the patch makes it; all but `keep'
\* and `note' give the lease back.
Patched(k) ==
  LET mine == worker[k]
      free == [job EXCEPT !.leased = FALSE]
  IN
  CASE mine.patch \in {"keep", "note"} -> [job EXCEPT !.scopes = mine.scopes]
    [] mine.patch = "yield"    -> free
    [] mine.patch = "progress" -> [free EXCEPT !.scopes = mine.scopes]
    [] mine.patch = "advance"  -> [free EXCEPT !.scopes = mine.scopes, !.status = "db_cleanup"]
    [] mine.patch = "revert"   -> [free EXCEPT !.status = "storage_cleanup"]
    [] mine.patch = "complete" -> [free EXCEPT !.status = "completed"]
    [] mine.patch = "retry"    ->
         [free EXCEPT !.scopes = mine.scopes,
            !.attempts = IF mine.attempts < MaxJobAttempts THEN mine.attempts + 1 ELSE @,
            !.status = IF mine.attempts + 1 >= MaxJobAttempts THEN "failed" ELSE @]

\* Mutant: the write does not name the token.
Unfenced(k) == TRUE

Fenced(k) == job.token = k

\* persistFenced: a worker that lost the job writes nothing and stops.
Persist(k) ==
  /\ worker[k].pc = "persist"
  /\ \/ /\ Fenced(k) /\ NoFault
        /\ job' = Patched(k)
        /\ CASE worker[k].patch = "keep" -> To(k, "walk")
             [] worker[k].patch = "note" -> Write(k, "retry")
             [] OTHER -> Drop(k)
     \/ ~Fenced(k) /\ UNCHANGED job /\ Drop(k) /\ NoFault
     \/ Fenced(k) /\ job' = Patched(k) /\ Drop(k) /\ Fault
     \/ UNCHANGED job /\ Drop(k) /\ Fault
  /\ UNCHANGED <<ws, writer, objects>>

CrashWorker(k) ==
  /\ worker[k].pc # "idle"
  /\ Drop(k)
  /\ Fault
  /\ UNCHANGED <<ws, writer, objects, job>>

\* Of a worker that is still at it, this is a fault.
JobLeaseExpires ==
  /\ job.leased
  /\ job' = [job EXCEPT !.leased = FALSE]
  /\ IF job.token # None /\ worker[job.token].pc # "idle" THEN Fault ELSE NoFault
  /\ UNCHANGED <<ws, writer, objects, worker>>

TickStep(k) ==
  \/ Claim(k) \/ Gate(k) \/ WalkEnds(k) \/ List(k) \/ ListFails(k)
  \/ DeleteKeys(k) \/ DeleteFails(k) \/ Recheck(k) \/ Purge(k) \/ Exists(k) \/ Persist(k)

DeletionNext ==
  \/ Enqueue \/ RetryJob \/ JobLeaseExpires
  \/ \E k \in Workers : TickStep(k) \/ RenewJob(k) \/ CrashWorker(k)

Next ==
  \/ LeaseNext /\ UNCHANGED <<job, worker>>
  \/ DeletionNext

Spec == Init /\ [][Next]_vars

\* Workers poll, a lease runs out; uploads go on, providers settle their
\* requests, time passes.
Fairness ==
  /\ \A w \in Writers : WF_leaseVars(WriterStep(w)) /\ WF_leaseVars(Provider(w))
  /\ WF_leaseVars(Tick)
  /\ \A k \in Workers : WF_vars(TickStep(k))
  /\ WF_vars(JobLeaseExpires)

FairSpec == Spec /\ Fairness
-----------------------------------------------------------------------------
TypeOK ==
  /\ LeaseTypeOK
  /\ job \in Job
  /\ worker \in [Workers -> Worker]

\* No upload holds a lease that counts, and none will.
Over == ws # "active" /\ ~HasActiveLeases

\* Nothing but what was swallowed is, or can come to be, in storage s.
Clean(s) == Over /\ \A w \in objects[s] : writer[w].swallowed

Patching(k, patches) == worker[k].pc = "persist" /\ worker[k].patch \in patches

\* Nothing is at work before it is asked for, and a tick that looks at storage is
\* past the gate.
TicksAreGated ==
  /\ ws = "active" => job.status = "none" /\ \A k \in Workers : worker[k].pc = "idle"
  /\ \A k \in Workers :
       worker[k].pc \in {"walk", "delete", "purge", "exists"} \/ Patching(k, {"keep"}) => Over

\* What a job and its ticks note of a storage is true.
NotedIsTrue(p, s) ==
  /\ p.status # "untouched" => Over
  /\ p.status = "done" => ~p.cursor
  /\ p.status = "verified" => Clean(s)
NotesAreTrue ==
  \A s \in Scopes :
    NotedIsTrue(job.scopes[s], s) /\ \A k \in Workers : NotedIsTrue(worker[k].scopes[s], s)

\* Who holds the job knows what it has settled.
HolderKnows ==
  \A k \in Workers : job.token = k /\ worker[k].pc # "idle" =>
    \A s \in Scopes : Settled(job.scopes[s]) => worker[k].scopes[s].status = job.scopes[s].status

AllSettled(scopes) == \A s \in Scopes : Settled(scopes[s])

\* Rows go last.
RowsGoLast ==
  /\ \/ ws = "gone"
     \/ job.status = "db_cleanup"
     \/ \E k \in Workers : worker[k].pc \in {"recheck", "purge", "exists"}
     => AllSettled(job.scopes)
  /\ \A k \in Workers : Patching(k, {"advance"}) => AllSettled(worker[k].scopes)
  /\ \A k \in Workers : Patching(k, {"revert"}) => faults > 0

\* A job at its end is nobody's.
EndedIsDropped ==
  job.status = "completed" => \A k \in Workers : job.token = k => worker[k].pc = "idle"

\* Inductive: storage is swept for good, and rows go last.
SweepInv ==
  /\ TypeOK /\ LeaseCovers /\ NothingPending /\ TicksAreGated /\ NotesAreTrue
  /\ HolderKnows /\ RowsGoLast /\ EndedIsDropped

\* Of a workspace that is still there: who asks whether it is has seen a fault,
\* and who has taken it for gone a second one.
CompletionIsPaid ==
  ws # "gone" =>
    /\ \A k \in Workers : worker[k].pc = "exists" => faults > 0
    /\ \A k \in Workers : Patching(k, {"complete"}) => faults > 1
    /\ job.status = "completed" => faults > 1

NoneGiven(scopes) == \A s \in Scopes : scopes[s].status \notin {"misread", "unreachable"}

\* A storage is given up, or passes for empty wrongly, only when something failed.
GivenUpIsPaid ==
  faults = 0 => NoneGiven(job.scopes) /\ \A k \in Workers : NoneGiven(worker[k].scopes)

\* Inductive.
Inv == SweepInv /\ CompletionIsPaid /\ GivenUpIsPaid

\* When the workspace is gone no storage holds an object that a lease covered, and
\* none will: but for storages that were given up, or whose last listing had lost
\* a body (bunnyList), and uploads that were answered a plain failure while their
\* request went on.
NothingLeftBehind ==
  ws = "gone" =>
    \A w \in Writers, s \in Scopes :
      \/ job.scopes[s].status \in {"misread", "unreachable"} /\ faults > 0
      \/ writer[w].swallowed
      \/ w \notin objects[s] /\ writer[w].req[s] # "sent"

\* An upload's trailing renewal (withOwnerWriteLease) holds before deletion looks
\* at any storage, never after: who is told `stored' wrote what deletion saw.
ConfirmedBeforeSwept ==
  [][\A w \in Writers :
       writer[w].pc = "confirm" /\ writer'[w].pc = "release" =>
         \A s \in Scopes : job.scopes[s].status = "untouched"]_vars

\* A worker that lost the job (persistFenced) undoes nothing: a storage that is
\* settled stays so, a completed job too, and storage is not walked again once
\* it was clean, unless a statement failed (reassertSafeToPurge).
GoesForward ==
  [][/\ \A s \in Scopes : Settled(job.scopes[s]) => job'.scopes[s].status = job.scopes[s].status
     /\ job.status = "completed" => job'.status = "completed"
     /\ job.status = "db_cleanup" => job'.status # "storage_cleanup" \/ faults' > 0]_vars

\* A job is completed only when the workspace is gone, unless its purge failed
\* and then the question whether it is still there (runDbCleanup).
CompletedMeansGone ==
  job.status = "completed" /\ faults < 2 => ws = "gone"

\* A deletion ends, whatever uploads, crashed workers and lost leases it meets on
\* the way; it fails only after MAX_JOB_ATTEMPTS faults.
EveryDeletionEnds ==
  (ws = "deleting") ~>
    (job.status = "completed" \/ (job.status = "failed" /\ faults >= MaxJobAttempts))

\* The comment of withOwnerWriteLease: an upload that timed out is treated like
\* a lost lease, so nothing of it lands when the workspace is gone.
NothingLands == ws = "gone" => \A w \in Writers : ~Sent(w)
=============================================================================

------------------------------ MODULE PollLoop ------------------------------
(***************************************************************************)
(* The poll loop of an integration with no push (X direct messages, Yahoo  *)
(* mail): each run of the loop is a channel job that asks Core to enqueue  *)
(* the next one (enqueueNextPoll), and a (re)connect starts the loop       *)
(* afresh (seedPollLoop).  Jobs here are the runs of one integration's     *)
(* loop; gen[j] is the connection whose account is in the payload of j.    *)
(*                                                                         *)
(* enqueueNextPoll looks for a waiting run and then inserts one, in two    *)
(* statements: `asks' holds the requests that are between the two.         *)
(***************************************************************************)
EXTENDS ChannelQueue

CONSTANT MaxConnects  \* bound: times the integration is (re)connected

ASSUME PollAssumption == MaxConnects \in Nat /\ IsFiniteSet(Jobs) /\ IsFiniteSet(Workers)

VARIABLES
  gen,        \* gen[j]: the connection run j was enqueued for
  connection, \* the latest connection, 0 before the first
  credential, \* plugin_secrets holds the account's token
  connected,  \* the integration's status is not 'disconnected'
  seeding,    \* what the latest connect has yet to write
  leaving,    \* what a disconnect has yet to write
  unset,      \* history: since the last seed a run has met a worker with no OAuth client
  asks        \* enqueueNextPoll calls that found no waiting run

account == <<credential, connected, leaving>>
pollVars == <<gen, connection, account, seeding, unset, asks>>
vars == <<queueVars, pollVars>>

PollPC == QueuePC \cup {"resolve", "credential", "askNext", "awaitNext"}
Ask == [job: Jobs, by: Nat, gen: 0..MaxConnects]

Init ==
  /\ QueueInit
  /\ gen = [j \in Jobs |-> 0]
  /\ connection = 0 /\ credential = FALSE /\ connected = FALSE
  /\ seeding = "no" /\ leaving = "no" /\ unset = FALSE /\ asks = {}

WaitingRuns == {j \in Jobs : row[j].status = "pending"}

\* A new row for the loop, carrying the account of connection g.
EnqueueRun(g, due) ==
  \E j \in Jobs : Enqueue(j, due) /\ gen' = [gen EXCEPT ![j] = g]

-----------------------------------------------------------------------------
(* The integration *)

\* The consent flow stores the credential, then the account, and then calls
\* seedPollLoop.
Connect ==
  /\ connection < MaxConnects
  /\ seeding \in {"no", "lost"}
  /\ connection' = connection + 1
  /\ credential' = TRUE
  /\ seeding' = "status"
  /\ UNCHANGED <<queueVars, gen, connected, leaving, unset, asks>>

ConnectStatus ==
  /\ seeding = "status"
  /\ connected' = TRUE
  /\ seeding' = "cancel"
  /\ UNCHANGED <<queueVars, gen, connection, credential, leaving, unset, asks>>

\* Mutant: the runs under way are cancelled with the waiting ones.
SeedCancelAll ==
  /\ seeding = "cancel"
  /\ seeding' = "insert"
  /\ row' = [j \in Jobs |-> IF row[j].status \in {"pending", "running"}
               THEN [row[j] EXCEPT !.status = "cancelled"] ELSE row[j]]
  /\ UNCHANGED <<lastToken, batch, cur, pc, faults, retries, gen, connection, account, unset, asks>>

\* The error of this statement, if any, is not looked at.
SeedCancel ==
  /\ seeding = "cancel"
  /\ seeding' = "insert"
  /\ \/ /\ row' = [j \in Jobs |-> IF j \in WaitingRuns
                     THEN [row[j] EXCEPT !.status = "cancelled"] ELSE row[j]]
        /\ NoFault
     \/ UNCHANGED row /\ Fault
  /\ UNCHANGED <<lastToken, batch, cur, pc, retries, gen, connection, account, unset, asks>>

SeedInsert ==
  /\ seeding = "insert"
  /\ seeding' = "no"
  /\ EnqueueRun(connection, TRUE)
  /\ unset' = FALSE
  /\ UNCHANGED <<connection, account, asks>>

\* The connect request dies, or one of its writes fails, before there is a run.
SeedLost ==
  /\ seeding \in {"status", "cancel", "insert"}
  /\ seeding' = "lost"
  /\ UNCHANGED <<queueVars, gen, connection, account, unset, asks>>

\* Yahoo deletes the credential and then writes the status; X writes the status,
\* and the credential is deleted when the operation it queues reports back.
Disconnect ==
  /\ connected /\ leaving = "no"
  /\ \/ credential' = FALSE /\ leaving' = "status" /\ UNCHANGED connected
     \/ connected' = FALSE /\ leaving' = "credential" /\ UNCHANGED credential
  /\ UNCHANGED <<queueVars, gen, connection, seeding, unset, asks>>

\* The second write, unless what should make it dies first.
DisconnectRest ==
  /\ leaving # "no"
  /\ leaving' = "no"
  /\ \/ leaving = "status" /\ connected' = FALSE /\ UNCHANGED credential
     \/ leaving = "credential" /\ credential' = FALSE /\ UNCHANGED connected
     \/ UNCHANGED <<credential, connected>>
  /\ UNCHANGED <<queueVars, gen, connection, seeding, unset, asks>>

-----------------------------------------------------------------------------
(* A run of the loop *)

Begin(w) ==
  /\ \E s \in batch[w] : Take(w, s, "resolve")
  /\ UNCHANGED pollVars

\* Mutant: a poll that went wrong ends the run without asking for the next.
ReadOrGiveUp(w) ==
  /\ pc[w] = "credential"
  /\ \/ Goto(w, IF credential THEN "askNext" ELSE "failForGood")
     \/ credential /\ Goto(w, "complete")
  /\ UNCHANGED <<row, lastToken, faults, retries, pollVars>>

\* A worker with no OAuth client, and a disconnected integration, end the loop.
Resolve(w) ==
  /\ pc[w] = "resolve"
  /\ \/ Goto(w, IF connected THEN "credential" ELSE "failForGood") /\ NoFault /\ UNCHANGED unset
     \/ Goto(w, "failForGood") /\ NoFault /\ unset' = TRUE
     \/ Goto(w, "fail") /\ Fault /\ UNCHANGED unset
  /\ UNCHANGED <<row, lastToken, retries, gen, connection, account, seeding, asks>>

\* So does a credential that is gone.  What goes wrong with the poll itself is
\* logged, and the next run is asked for all the same.
ReadCredential(w) ==
  /\ pc[w] = "credential"
  /\ \/ Goto(w, IF credential THEN "askNext" ELSE "failForGood") /\ NoFault
     \/ Goto(w, "fail") /\ Fault
  /\ UNCHANGED <<row, lastToken, retries, pollVars>>

MyAsk(w) == [job |-> cur[w].job, by |-> cur[w].token, gen |-> gen[cur[w].job]]

\* Core looks for a waiting run; if it cannot look it enqueues one (fails open).
AskNext(w) ==
  /\ pc[w] = "askNext"
  /\ \/ WaitingRuns # {} /\ Goto(w, "complete") /\ NoFault /\ UNCHANGED asks
     \/ /\ WaitingRuns = {} /\ NoFault
        /\ Goto(w, "awaitNext") /\ asks' = asks \cup {MyAsk(w)}
     \/ /\ WaitingRuns # {} /\ Fault
        /\ Goto(w, "awaitNext") /\ asks' = asks \cup {MyAsk(w)}
     \/ (Goto(w, "fail") \/ Goto(w, "release")) /\ Fault /\ UNCHANGED asks
  /\ UNCHANGED <<row, lastToken, retries, gen, connection, account, seeding, unset>>

NextInserted(x) ==
  /\ x \in asks
  /\ asks' = asks \ {x}
  /\ EnqueueRun(x.gen, FALSE)
  /\ UNCHANGED <<connection, account, seeding, unset>>

NextAnswered(w) ==
  /\ pc[w] = "awaitNext"
  /\ \/ MyAsk(w) \notin asks /\ Goto(w, "complete") /\ NoFault
     \/ Goto(w, "fail") /\ Fault
  /\ UNCHANGED <<row, lastToken, retries, pollVars>>

-----------------------------------------------------------------------------
PollStep(w) == Begin(w) \/ Resolve(w) \/ ReadCredential(w) \/ AskNext(w) \/ NextAnswered(w)
QueueStep(w) == (Complete(w) \/ Release(w) \/ Fail(w)) /\ UNCHANGED pollVars
\* A poll run reports nothing when it fails for good.
Unreported(w) ==
  /\ pc[w] = "reportFailed" /\ NextJob(w)
  /\ UNCHANGED <<row, lastToken, faults, retries, pollVars>>
ClaimJobs(w) == (\E S \in SUBSET Jobs : Claim(w, S)) /\ UNCHANGED pollVars
CrashPoll(w) == Crash(w) /\ UNCHANGED pollVars
RetryRun(j) == AdminRetry(j) /\ UNCHANGED pollVars
TimePasses(j) == (LeaseExpires(j) \/ BackoffElapses(j)) /\ UNCHANGED pollVars

Next ==
  \/ Connect \/ ConnectStatus \/ SeedCancel \/ SeedInsert \/ SeedLost
  \/ Disconnect \/ DisconnectRest
  \/ \E w \in Workers : PollStep(w) \/ QueueStep(w) \/ Unreported(w) \/ ClaimJobs(w) \/ CrashPoll(w)
  \/ \E j \in Jobs : RetryRun(j) \/ TimePasses(j)
  \/ \E x \in asks : NextInserted(x)

Spec == Init /\ [][Next]_vars
-----------------------------------------------------------------------------
TypeOK ==
  /\ QueueTypeOK(PollPC)
  /\ gen \in [Jobs -> 0..MaxConnects]
  /\ connection \in 0..MaxConnects
  /\ credential \in BOOLEAN /\ connected \in BOOLEAN /\ unset \in BOOLEAN
  /\ seeding \in {"no", "status", "cancel", "insert", "lost"}
  /\ leaving \in {"no", "status", "credential"}
  /\ asks \subseteq Ask

\* Nothing but a fault makes a run fail, or be released: one run is free.
PollRunsArePaid == RunsArePaid(1, {"fail", "release"})

\* A run about to end for good, and a run that will not end without another one:
\* it waits, or who works on it under a good claim is not about to end it.
Ends(w) ==
  \/ pc[w] \in {"complete", "failForGood"}
  \/ pc[w] = "awaitNext" /\ MyAsk(w) \notin asks
Lives(j) ==
  \/ row[j].status = "pending"
  \/ /\ row[j].status = "running"
     /\ \A w \in Workers : Ends(w) /\ cur[w].job = j => ~Holds(cur[w])

\* The integration has its account and its credential, the latest connect has
\* seeded the loop, no worker since was without an OAuth client, and no run can
\* have failed as often as it may.
LoopMayRun ==
  connected /\ credential /\ seeding = "no" /\ ~unset /\ faults < MaxAttempts

\* Whoever is about to end a run has seen to another that is not about to end.
SomeRunLives ==
  LoopMayRun =>
    asks # {} \/ \E j \in Jobs : Lives(j)

\* Where a run may come from without another fault, retry or connect: a run that
\* can be claimed, a worker's chance to ask for the next one or to give its run
\* back, a request under way, a seed.
Unspent == {"resolve", "credential", "askNext", "fail", "release"}
Open(j) == row[j].status # "absent" /\ Reclaimable(j)
HasChance(w, j) ==
  \/ \E s \in batch[w] : s.job = j
  \/ pc[w] \in Unspent /\ cur[w].job = j
OpenRuns == {j \in Jobs : Open(j)}
Chances == {c \in Workers \X Jobs : HasChance(c[1], c[2])}
Seeds == IF seeding \in {"status", "cancel", "insert"} THEN 1 ELSE 0

\* Each of them has been paid for by one of those.
RunsDoNotBreed ==
  /\ IsFiniteSet(asks)
  /\ Cardinality(OpenRuns) + Cardinality(Chances) + Cardinality(asks) + Seeds
       <= connection + faults + retries

\* The inductive invariant of PollLoopProofs: types, the queue's own invariant (a
\* cancelled run has no claim on it, though seedPollLoop cancels without looking
\* at claims), and the three above.
Inv == TypeOK /\ QueueInv /\ PollRunsArePaid /\ SomeRunLives /\ RunsDoNotBreed

\* A flaky connection or a momentary outage must never end the loop: while the
\* integration is connected, has its credential and is seeded, some run waits,
\* runs or is being enqueued, until one run has failed as often as it may or has
\* met a worker with no OAuth client.
LoopAlive ==
  LoopMayRun =>
    asks # {} \/ \E j \in Jobs : row[j].status \in {"pending", "running"}

\* A fork needs a fault, an administrator's retry or a reconnect, and each adds
\* one loop at most: runs do not breed.
WaitingIsBounded ==
  Cardinality(WaitingRuns) + Cardinality(asks) <= connection + faults + retries
=============================================================================

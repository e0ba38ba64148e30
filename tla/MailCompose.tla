---------------------------- MODULE MailCompose -----------------------------
(***************************************************************************)
(* composeReply (server/services/email/inbox.ts): how a reply written in   *)
(* the Email Inbox gets its row in email_messages and its job in           *)
(* channel_jobs, when the app asks more than once for the same reply.  The *)
(* app keeps one client_request_id per reply; a retry is a request of its  *)
(* own and may overlap the request it repeats.  A row, a thread and a job  *)
(* are named by the request that wrote them.                               *)
(*                                                                         *)
(* A step can fail cleanly (it is refused and leaves nothing behind); a    *)
(* Fault is a failure the server cannot see through: a statement whose     *)
(* answer is lost, a clean-up that fails, the process dying.               *)
(***************************************************************************)
EXTENDS Integers, FiniteSets

CONSTANTS
  Replies,            \* replies the operator writes, each with one client_request_id
  MaxTries,           \* bound: requests the app makes for one reply
  MaxComposeFaults    \* bound: faults in a behaviour

ASSUME ComposeAssumption == MaxTries \in Nat \ {0} /\ MaxComposeFaults \in Nat

Requests == [reply: Replies, try: 1..MaxTries]

VARIABLES
  at,       \* at[q]: where in composeReply request q is
  rows,     \* email_messages rows ('queued', with their client_request_id)
  threads,  \* email_threads rows made for a reply that starts a thread
  jobs,     \* requests whose row got a channel job
  known,    \* the writes whose id the request that made them was told
            \* (messageRowId, createdThreadId)
  told,     \* replies the app was told are queued
  composeFaults

composeVars == <<at, rows, threads, jobs, known, told, composeFaults>>

Steps == {"unsent", "find", "thread", "insert", "reread", "files", "enqueue",
          "undo", "queued", "error", "dead"}
Done == {"queued", "error", "dead"}

ComposeInit ==
  /\ at = [q \in Requests |-> "unsent"]
  /\ rows = {} /\ threads = {} /\ jobs = {} /\ known = {} /\ told = {}
  /\ composeFaults = 0

ComposeFault == composeFaults < MaxComposeFaults /\ composeFaults' = composeFaults + 1
NoComposeFault == UNCHANGED composeFaults
MoveOn(q, step) == at' = [at EXCEPT ![q] = step]

\* Rows the unique index on (workspace_id, client_request_id) finds for q.
SameReply(q) == {r \in rows : r.reply = q.reply}

\* The request answers with a message id; the app may have given up by then.
AnswerQueued(q) ==
  /\ MoveOn(q, "queued")
  /\ told' = told \/ told' = told \cup {q.reply}

-----------------------------------------------------------------------------
\* The app asks, and asks again while it has not been told.
Ask(q) ==
  /\ at[q] = "unsent"
  /\ q.reply \notin told
  /\ q.try > 1 => at[[q EXCEPT !.try = @ - 1]] # "unsent"
  /\ MoveOn(q, "find")
  /\ UNCHANGED <<rows, threads, jobs, known, told, composeFaults>>

\* messageForRequest, the thread's headers and assertComposeAttachments.
Find(q) ==
  /\ at[q] = "find"
  /\ \/ SameReply(q) # {} /\ AnswerQueued(q)
     \/ SameReply(q) = {} /\ MoveOn(q, "thread") /\ UNCHANGED told
     \/ MoveOn(q, "error") /\ UNCHANGED told
  /\ UNCHANGED <<rows, threads, jobs, known, composeFaults>>

\* A reply in a thread only touches it; the first mail of one inserts it.
OpenThread(q) ==
  /\ at[q] = "thread"
  /\ \/ MoveOn(q, "insert") /\ NoComposeFault /\ UNCHANGED <<threads, known>>
     \/ MoveOn(q, "insert") /\ NoComposeFault
        /\ threads' = threads \cup {q} /\ known' = known \cup {<<q, "thread">>}
     \/ MoveOn(q, "undo") /\ NoComposeFault /\ UNCHANGED <<threads, known>>
     \/ MoveOn(q, "undo") /\ ComposeFault /\ threads' = threads \cup {q} /\ UNCHANGED known
  /\ UNCHANGED <<rows, jobs, told>>

\* Mutant: no unique index on client_request_id.
InsertAlways(q) ==
  /\ at[q] = "insert"
  /\ \/ /\ rows' = rows \cup {q} /\ known' = known \cup {<<q, "row">>}
        /\ MoveOn(q, "files") /\ NoComposeFault
     \/ MoveOn(q, "undo") /\ NoComposeFault /\ UNCHANGED <<rows, known>>
  /\ UNCHANGED <<threads, jobs, told>>

Insert(q) ==
  /\ at[q] = "insert"
  /\ \/ /\ SameReply(q) = {}
        /\ rows' = rows \cup {q} /\ known' = known \cup {<<q, "row">>}
        /\ MoveOn(q, "files") /\ NoComposeFault
     \/ SameReply(q) # {} /\ MoveOn(q, "reread") /\ NoComposeFault /\ UNCHANGED <<rows, known>>
     \/ MoveOn(q, "undo") /\ NoComposeFault /\ UNCHANGED <<rows, known>>
     \/ /\ SameReply(q) = {}                              \* inserted, not answered
        /\ rows' = rows \cup {q} /\ UNCHANGED known
        /\ MoveOn(q, "undo") /\ ComposeFault
  /\ UNCHANGED <<threads, jobs, told>>

\* The deletes of undo: a deleted thread takes its messages with it (ON DELETE
\* CASCADE).
Delete(q, kinds) ==
  /\ rows' = IF kinds = {} THEN rows ELSE rows \ {q}
  /\ threads' = IF "thread" \in kinds THEN threads \ {q} ELSE threads

\* Mutant: the thread the request made is left behind.
UndoableRow(q) == {kind \in {"row"} : <<q, kind>> \in known}

Undoable(q) == {kind \in {"row", "thread"} : <<q, kind>> \in known}

\* What undo takes back: the writes whose ids the request knows.  When a delete
\* fails, supabase-js returns the error and nothing reads it.
UndoWrites(q) ==
  \/ Delete(q, Undoable(q)) /\ NoComposeFault
  \/ (\E kinds \in SUBSET Undoable(q) : Delete(q, kinds)) /\ ComposeFault

\* 23505: the other request's row is the reply, if it is still there.
Reread(q) ==
  /\ at[q] = "reread"
  /\ \/ SameReply(q) # {} /\ AnswerQueued(q) /\ UndoWrites(q)
     \/ SameReply(q) = {} /\ MoveOn(q, "undo") /\ NoComposeFault /\ UNCHANGED <<rows, threads, told>>
     \/ MoveOn(q, "undo") /\ NoComposeFault /\ UNCHANGED <<rows, threads, told>>
  /\ UNCHANGED <<jobs, known>>

AddFiles(q) ==
  /\ at[q] = "files"
  /\ MoveOn(q, "enqueue") \/ MoveOn(q, "undo")
  /\ UNCHANGED <<rows, threads, jobs, known, told, composeFaults>>

\* Mutant: the enqueue is not looked at.
EnqueueUnchecked(q) ==
  /\ at[q] = "enqueue"
  /\ jobs' \in {jobs, jobs \cup {q}} /\ AnswerQueued(q) /\ NoComposeFault
  /\ UNCHANGED <<rows, threads, known>>

EnqueueJob(q) ==
  /\ at[q] = "enqueue"
  /\ \/ jobs' = jobs \cup {q} /\ AnswerQueued(q) /\ NoComposeFault
     \/ UNCHANGED <<jobs, told>> /\ MoveOn(q, "undo") /\ NoComposeFault
     \/ jobs' = jobs \cup {q} /\ MoveOn(q, "undo") /\ ComposeFault /\ UNCHANGED told
  /\ UNCHANGED <<rows, threads, known>>

Undo(q) ==
  /\ at[q] = "undo"
  /\ UndoWrites(q)
  /\ MoveOn(q, "error")
  /\ UNCHANGED <<jobs, known, told>>

RequestDies(q) ==
  /\ at[q] \notin Done \cup {"unsent"}
  /\ ComposeFault
  /\ MoveOn(q, "dead")
  /\ UNCHANGED <<rows, threads, jobs, known, told>>

ComposeNext == \E q \in Requests :
  \/ Ask(q) \/ Find(q) \/ OpenThread(q) \/ Insert(q) \/ Reread(q)
  \/ AddFiles(q) \/ EnqueueJob(q) \/ Undo(q) \/ RequestDies(q)

ComposeSpec == ComposeInit /\ [][ComposeNext]_composeVars
-----------------------------------------------------------------------------
ComposeTypeOK ==
  /\ at \in [Requests -> Steps]
  /\ rows \subseteq Requests /\ threads \subseteq Requests
  /\ jobs \subseteq Requests /\ known \subseteq Requests \X {"row", "thread"}
  /\ told \subseteq Replies
  /\ composeFaults \in 0..MaxComposeFaults

\* A reply queued for a mailbox is queued once, whatever the number of times
\* the app asks (migration 289f), until a failure the server cannot see
\* through: each such failure adds one job at most.
ExtraJobsNeedFaults ==
  \A p \in Replies : Cardinality({q \in jobs : q.reply = p}) <= 1 + composeFaults

Whole(q) == (q \in rows <=> q \in jobs) /\ (q \in threads => q \in rows)

\* The unique index on (workspace_id, client_request_id).
OneRowEach == \A q, r \in rows : q.reply = r.reply => q = r

\* What a request has written, where it is: it knows of its writes until it gives
\* up or dies, and has a job only once it has answered or failed.
WritesFit(q) ==
  /\ at[q] \in {"unsent", "find", "thread"} => q \notin threads
  /\ at[q] \in {"unsent", "find", "thread", "insert", "reread"} => q \notin rows
  /\ at[q] \in {"insert", "reread", "files", "enqueue"} /\ q \in threads => <<q, "thread">> \in known
  /\ at[q] \in {"files", "enqueue"} => q \in rows /\ <<q, "row">> \in known
  /\ q \in jobs => at[q] \in {"queued", "undo", "error", "dead"}
  /\ at[q] = "queued" => (q \in rows <=> q \in jobs)

\* Requests a fault of their own kept from finishing or from undoing.
Spoilt ==
  {q \in Requests :
     \/ at[q] = "dead"
     \/ at[q] \in {"queued", "error"} /\ ~Whole(q)
     \/ at[q] = "undo" /\ \/ q \in jobs
                          \/ q \in rows /\ <<q, "row">> \notin known
                          \/ q \in threads /\ <<q, "thread">> \notin known}

SpoiltByFaults == IsFiniteSet(Spoilt) /\ Cardinality(Spoilt) <= composeFaults

\* No reply is queued twice without a fault, as the index and what each request
\* has written, knows of and was kept from undoing make sure.
ComposeInv ==
  /\ ComposeTypeOK
  /\ ExtraJobsNeedFaults
  /\ OneRowEach
  /\ \A q \in Requests : WritesFit(q)
  /\ SpoiltByFaults

\* A finished request leaves no 'queued' row nothing will ever send, no job
\* without its row and no empty thread (the comment above undo), unless a
\* fault of its own kept it from finishing or from taking its writes back.
LeftoversNeedFaults ==
  Cardinality({q \in Requests : at[q] \in Done /\ ~Whole(q)}) <= composeFaults

\* A reply the app was told is queued has a job, or a request still at work on
\* one, unless a request for it has failed: an answer may come from the row of a
\* request that then takes it back.
ToldIsQueuedUnlessOneFails ==
  \A p \in told :
    \/ \E q \in jobs : q.reply = p
    \/ \E q \in Requests : q.reply = p /\ at[q] \notin {"unsent", "queued"}
=============================================================================

---------------------------- MODULE ChatDelivery ----------------------------
(***************************************************************************)
(* An answer to a customer on a bot channel (Telegram, Bale, WhatsApp,     *)
(* Instagram, X): committed with its job by the outbox trigger, sent by    *)
(* the channels worker as often as it takes, and reported to Core, which   *)
(* keeps what is known of it in conversation_messages.metadata.  WhatsApp  *)
(* reports on its own too, through the statuses of its webhook.            *)
(*                                                                         *)
(* Core reads the metadata, decides, and writes the whole object back: the *)
(* handlers of two requests interleave between the read and the write, and *)
(* `writes' holds what the handlers in between are about to write.         *)
(*                                                                         *)
(* A job and its message have one name (the unique index on message_id).   *)
(* The k-th acceptance by the provider gives the provider message id k; 0  *)
(* is no id at all, the one reported when its answer cannot be read.       *)
(***************************************************************************)
EXTENDS ChannelQueue

CONSTANT MaxStatuses  \* bound: delivery statuses the provider posts

ASSUME ChatAssumption == MaxStatuses \in Nat /\ IsFiniteSet(Workers)

VARIABLES
  message,   \* message[j]: the conversation_messages row, as far as delivery goes
  sends,     \* sends[j]: how often the provider took the message
  extId,     \* extId[w]: the provider message id w got for its current job
  writes,    \* writes of Core's handlers that have read and decided
  statuses   \* delivery statuses posted so far

chatVars == <<message, sends, extId, writes, statuses>>
vars == <<queueVars, chatVars>>

Outcomes == {"none", "sent", "delivered", "read", "failed"}

\* What there is to send: something; white space that btrim keeps, with which the
\* handler is done at once; or attachments none of which has an http(s) URL.
Contents == {"sendable", "blank", "skipped"}

Message == [exists: BOOLEAN, content: Contents, delivery: Outcomes, ext: Nat]

\* Where a worker reports from, and the report it makes there.
ReportSteps == {"reportSent", "reportRefused", "reportFailed"}
AwaitOf == [s \in ReportSteps |->
  CASE s = "reportSent" -> "awaitSent" [] s = "reportRefused" -> "awaitRefused"
    [] s = "reportFailed" -> "awaitFailed"]
ReportPC == ReportSteps \cup {AwaitOf[s] : s \in ReportSteps}
ChatPC == QueuePC \cup ReportPC \cup {"resolve", "send"}

\* `by' tells one pending write from another: the claim it reports for (0 for
\* a delivery status) and the step that made the report.
Write == [job: Jobs, delivery: Outcomes, ext: Nat, by: Nat, step: ReportSteps \cup {"status"}]

Init ==
  /\ QueueInit
  /\ message = [j \in Jobs |->
       [exists |-> FALSE, content |-> "sendable", delivery |-> "none", ext |-> 0]]
  /\ sends = [j \in Jobs |-> 0]
  /\ extId = [w \in Workers |-> 0]
  /\ writes = {} /\ statuses = 0

-----------------------------------------------------------------------------
(* The message row: its commit, the plan that stops its channel, deletion *)

\* trg_channel_enqueue_outbound: the job is part of the message's transaction,
\* and has its content.
Commit(j) ==
  /\ Enqueue(j, TRUE)
  /\ \E content \in Contents :
       message' = [message EXCEPT ![j].exists = TRUE, ![j].content = content]
  /\ UNCHANGED <<sends, extId, writes, statuses>>

\* ensureOutboundIntent for a channel the plan has stopped.
CancelIntent(j) ==
  /\ row[j].status = "pending"
  /\ row' = [row EXCEPT ![j].status = "cancelled"]
  /\ UNCHANGED <<lastToken, batch, cur, pc, faults, retries, chatVars>>

\* DELETE /conversations: the messages of the workspace go, their jobs stay.
DeleteMessage(j) ==
  /\ message[j].exists
  /\ message' = [message EXCEPT ![j].exists = FALSE]
  /\ UNCHANGED <<queueVars, sends, extId, writes, statuses>>

-----------------------------------------------------------------------------
(* Core's handlers *)

SuccessRank == [d \in Outcomes |->
  CASE d = "sent" -> 1 [] d = "delivered" -> 2 [] d = "read" -> 3 [] OTHER -> 0]

\* resolveDeliveryTransition: may a provider status overwrite what Core holds?
Applies(prev, next) ==
  /\ prev # "failed"
  /\ IF next = "failed" THEN SuccessRank[prev] < SuccessRank["delivered"]
     ELSE SuccessRank[next] > SuccessRank[prev]

\* outbound-result: is the worker's report a repeat, or behind what is known?
Ignored(prev, outcome) ==
  \/ prev = "failed" /\ outcome = "failed"
  \/ prev = "sent" /\ outcome = "failed"
  \/ prev \in {"delivered", "read", "failed"} /\ outcome = "sent"

\* A handler's UPDATE: the metadata object as a whole, if the row is there.
CoreWrites(x) ==
  /\ x \in writes
  /\ writes' = writes \ {x}
  /\ message' = IF message[x.job].exists
       THEN [message EXCEPT ![x.job].delivery = x.delivery, ![x.job].ext = x.ext]
       ELSE message
  /\ UNCHANGED <<queueVars, sends, extId, statuses>>

\* applyProviderDeliveryStatuses for one status of the k-th acceptance, found
\* by its provider message id; a status that finds no message is dropped.
StatusArrives(j, k, status) ==
  /\ statuses < MaxStatuses
  /\ statuses' = statuses + 1
  /\ writes' =
       IF message[j].exists /\ message[j].ext = k /\ Applies(message[j].delivery, status)
       THEN writes \cup {[job |-> j, delivery |-> status, ext |-> k, by |-> 0, step |-> "status"]}
       ELSE writes
  /\ UNCHANGED <<queueVars, message, sends, extId>>

-----------------------------------------------------------------------------
(* The handler of an outbound message in the worker *)

Content(j) == message[j].content

\* Nothing deliverable: the job is done, and nobody is told.
Begin(w) ==
  /\ \E s \in batch[w] : Take(w, s, IF Content(s.job) = "blank" THEN "complete" ELSE "resolve")
  /\ UNCHANGED chatVars

\* The credential; an integration that is gone is final.
Resolve(w) ==
  /\ pc[w] = "resolve"
  /\ \E step \in {"send", "fail", "failForGood"} : Goto(w, step)
  /\ UNCHANGED <<row, lastToken, faults, retries, chatVars>>

Accept(j) == sends' = [sends EXCEPT ![j] = @ + 1]

\* Mutant: a retryable error is taken for an acceptance.
SendHoping(w) ==
  /\ pc[w] = "send"
  /\ \/ /\ Accept(cur[w].job) /\ extId' = [extId EXCEPT ![w] = sends[cur[w].job] + 1]
        /\ Goto(w, "reportSent")
     \/ UNCHANGED sends /\ extId' = [extId EXCEPT ![w] = 0] /\ Goto(w, "reportSent")
     \/ UNCHANGED <<sends, extId>> /\ Goto(w, "reportRefused")
  /\ UNCHANGED <<row, lastToken, faults, retries, message, writes, statuses>>

\* api.sendMessage, api.sendMedia: accepted, with an id or without; a retryable
\* error, behind which the message may have been accepted; or refused for good.
SendContent(w) ==
  LET j == cur[w].job IN
  \/ /\ Accept(j) /\ Goto(w, "reportSent") /\ NoFault
     /\ \E id \in {sends[j] + 1, 0} : extId' = [extId EXCEPT ![w] = id]
  \/ UNCHANGED <<sends, extId>> /\ Goto(w, "fail") /\ NoFault
  \/ Accept(j) /\ UNCHANGED extId /\ Goto(w, "fail") /\ Fault
  \/ UNCHANGED <<sends, extId>> /\ Goto(w, "reportRefused") /\ NoFault

\* Attachments without an http(s) URL are passed over; with none left the report
\* is `sent' all the same.
Send(w) ==
  /\ pc[w] = "send"
  /\ \/ Content(cur[w].job) # "skipped" /\ SendContent(w)
     \/ /\ Content(cur[w].job) = "skipped"
        /\ UNCHANGED sends /\ extId' = [extId EXCEPT ![w] = 0]
        /\ Goto(w, "reportSent") /\ NoFault
  /\ UNCHANGED <<row, lastToken, retries, message, writes, statuses>>

OutcomeOf(step) == IF step = "reportSent" THEN "sent" ELSE "failed"

\* Where the worker goes once Core has answered a report, when the answer is
\* lost, and when Core's answer is taken for a broken deployment.
Answered(w, step) ==
  CASE step = "reportSent" -> Goto(w, "complete")
    [] step = "reportRefused" -> Goto(w, "failForGood")
    [] step = "reportFailed" -> NextJob(w)
\* Mutant: a report nobody answered counts as made.
UnansweredIsFine(w, step) ==
  IF step = "reportFailed" THEN NextJob(w) ELSE Goto(w, "complete")
Unanswered(w, step) ==
  IF step = "reportFailed" THEN NextJob(w) ELSE Goto(w, "fail")
Unavailable(w, step) ==
  IF step = "reportFailed" THEN NextJob(w) ELSE Goto(w, "release")

MyWrite(w, step) ==
  LET j == cur[w].job IN
  [job |-> j, delivery |-> OutcomeOf(step), by |-> cur[w].token, step |-> step,
   ext |-> IF step = "reportSent" /\ Content(j) # "skipped" THEN extId[w] ELSE message[j].ext]

\* Core's handler reads the row and decides; 404 unknown_message when it is gone.
ReportRead(w) ==
  \E step \in ReportSteps :
    LET m == message[cur[w].job] IN
    /\ pc[w] = step
    /\ \/ ~m.exists /\ Unavailable(w, step) /\ NoFault /\ UNCHANGED writes
       \/ /\ m.exists /\ Ignored(m.delivery, OutcomeOf(step))
          /\ Answered(w, step) /\ NoFault /\ UNCHANGED writes
       \/ /\ m.exists /\ ~Ignored(m.delivery, OutcomeOf(step))
          /\ Goto(w, AwaitOf[step]) /\ NoFault
          /\ writes' = writes \cup {MyWrite(w, step)}
       \/ (Unanswered(w, step) \/ Unavailable(w, step)) /\ Fault /\ UNCHANGED writes
    /\ UNCHANGED <<row, lastToken, retries, message, sends, extId, statuses>>

Waiting(w, step) == \E x \in writes : x.by = cur[w].token /\ x.job = cur[w].job /\ x.step = step

\* The answer comes after the write; without it the write may still happen.
ReportAnswered(w) ==
  \E step \in ReportSteps :
    /\ pc[w] = AwaitOf[step]
    /\ \/ ~Waiting(w, step) /\ Answered(w, step) /\ NoFault
       \/ Unanswered(w, step) /\ Fault
    /\ UNCHANGED <<row, lastToken, retries, chatVars>>

-----------------------------------------------------------------------------
ChatStep(w) == Begin(w) \/ Resolve(w) \/ Send(w) \/ ReportRead(w) \/ ReportAnswered(w)
QueueStep(w) == (Complete(w) \/ Release(w) \/ Fail(w)) /\ UNCHANGED chatVars
ClaimJobs(w) == (\E S \in SUBSET Jobs : Claim(w, S)) /\ UNCHANGED chatVars
RetryMessage(j) == AdminRetry(j) /\ UNCHANGED chatVars
CrashChat(w) == Crash(w) /\ UNCHANGED chatVars
TimePasses(j) == (LeaseExpires(j) \/ BackoffElapses(j)) /\ UNCHANGED chatVars

Provider(j) == \E k \in 1..sends[j] : \E status \in Outcomes \ {"none"} : StatusArrives(j, k, status)

Next ==
  \/ \E w \in Workers : ClaimJobs(w) \/ ChatStep(w) \/ QueueStep(w) \/ CrashChat(w)
  \/ \E j \in Jobs : Commit(j) \/ CancelIntent(j) \/ DeleteMessage(j) \/ RetryMessage(j)
                      \/ TimePasses(j) \/ Provider(j)
  \/ \E x \in writes : CoreWrites(x)

Spec == Init /\ [][Next]_vars
-----------------------------------------------------------------------------
TypeOK ==
  /\ QueueTypeOK(ChatPC)
  /\ message \in [Jobs -> Message]
  /\ sends \in [Jobs -> Nat]
  /\ extId \in [Workers -> Nat]
  /\ writes \subseteq Write
  /\ statuses \in 0..MaxStatuses

\* There is something to show for `sent': an acceptance, but for skipped content.
Taken(j) == sends[j] > 0 \/ Content(j) = "skipped"

\* What is on its way to a message speaks of an acceptance of that message: the
\* id a worker is about to report, and whatever a handler has decided to write.
ReportsAreTrue ==
  /\ \A w \in Workers : pc[w] = "reportSent" =>
       extId[w] <= sends[cur[w].job] /\ Taken(cur[w].job)
  /\ \A x \in writes :
       /\ x.delivery # "none" /\ x.ext <= sends[x.job]
       /\ x.delivery = "sent" => Taken(x.job)
       /\ x.delivery \in {"delivered", "read"} => x.ext > 0

Known(j) == message[j].exists => message[j].delivery # "none" \/ Content(j) = "blank"

\* A worker at "complete" has Core's answer, and one that waits for it finds the
\* outcome written or still to be written.  What it works on was committed.
ReportsAreKnown ==
  /\ \A j \in Jobs : row[j].status = "absent" =>
       ~message[j].exists /\ sends[j] = 0 /\ Content(j) = "sendable"
  /\ \A w \in Workers : \A s \in Mine(w) : row[s.job].status # "absent"
  /\ \A w \in Workers : pc[w] = "complete" => Known(cur[w].job)
  /\ \A w \in Workers : pc[w] = "awaitSent" => Known(cur[w].job) \/ Waiting(w, "reportSent")

\* Who may still send the message of j, at once or by giving its job back; and
\* whether a further claim can come without a further fault.
Unspent == {"resolve", "send", "reportRefused", "awaitRefused", "release", "fail", "failForGood"}
MaySend(w, j) ==
  \/ \E s \in batch[w] : s.job = j
  \/ pc[w] \in Unspent /\ cur[w].job = j
Senders(j) == {w \in Workers : MaySend(w, j)}
Open(j) == Reclaimable(j) \/ row[j].status = "failed"

\* Every acceptance but the first, and every chance of one, is paid for by a
\* fault of its own; a worker that reports a failure has given its claim up.
FaultsPay ==
  /\ \A w \in Workers : pc[w] \in {"reportFailed", "awaitFailed"} => ~Holds(cur[w])
  /\ \A j \in Jobs : message[j].exists =>
       sends[j] + Cardinality(Senders(j)) + (IF Open(j) THEN 1 ELSE 0) <= 1 + faults

\* The inductive invariant of ChatDeliveryProofs: types, the queue's own
\* invariant, and the three above.
Inv == TypeOK /\ QueueInv /\ ReportsAreTrue /\ ReportsAreKnown /\ FaultsPay

\* A message shown as sent was taken by the provider, unless all it has are
\* attachments the worker passes over; the provider id on it is one the provider
\* gave for this very message, and one shown as delivered or read has such an id.
ShownWasSent ==
  \A j \in Jobs :
    /\ message[j].ext <= sends[j]
    /\ message[j].delivery = "sent" => Taken(j)
    /\ message[j].delivery \in {"delivered", "read"} => message[j].ext > 0

\* A job is completed only once Core knows the outcome of its message, unless
\* there was nothing in it to send: of a blank message Core is never told.
SucceededIsKnown ==
  \A j \in Jobs : row[j].status = "succeeded" => Known(j)

\* At least once, but no more often than failures explain: as long as there is
\* a message to report on, every acceptance beyond the first was bought by a
\* fault of its own; neither max_attempts, nor an administrator's retry, nor a
\* release without penalty repeats a message the provider has taken.
RepeatsNeedFaults == \A j \in Jobs : message[j].exists => sends[j] <= 1 + faults

\* A sent or cancelled intent stays so, whatever stale runs do: a reply of a
\* channel the plan has stopped is not brought back to the queue.  A failed one
\* is revived by an administrator's retry only, which starts the attempts afresh.
SettledRowsStay ==
  [][\A j \in Jobs :
       /\ row[j].status \in {"succeeded", "cancelled"} => row'[j].status = row[j].status
       /\ row[j].status = "failed" =>
            \/ row'[j].status = "failed"
            \/ row'[j].status = "pending" /\ row'[j].attempt = 0]_vars

\* A run is released without a penalty only for failures that are provably not
\* the job's fault (releaseChannelJob), so that no message is sent for ever.
RepeatsAreBoundedAlways ==
  \A j \in Jobs : sends[j] <= MaxAttempts * (1 + retries) + faults
=============================================================================

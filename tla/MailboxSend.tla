---------------------------- MODULE MailboxSend -----------------------------
(***************************************************************************)
(* A reply written in the Email Inbox, from its row in channel_jobs to the *)
(* provider and back to email_messages.delivery_status: sendMailAtMostOnce *)
(* and the mail cases of worker/channels/index.ts, on the queue of         *)
(* ChannelQueue, with the outbound-result routes of Core.                  *)
(*                                                                         *)
(* The provider is external: a send is accepted, definitely refused (not   *)
(* delivered), or unanswered (delivered or not).  Gmail may also take a    *)
(* mail and be taken to have refused it: when it answers with an error     *)
(* after all, or the body of its answer cannot be read.  A report to Core  *)
(* whose answer the worker missed may still be handled later, or never.    *)
(***************************************************************************)
EXTENDS ChannelQueue

CONSTANT Gmail   \* the replies of Gmail mailboxes; the others go to Yahoo

ASSUME MailAssumption == Gmail \subseteq Jobs

VARIABLES
  delivered,  \* delivered[j]: how often the provider took the mail of j, but for
  denied,     \* denied[j]: how often it took it and was thought to have refused it
  mail,       \* mail[j]: email_messages.delivery_status
  late        \* reports on their way to Core that nobody waits for any more

mailVars == <<delivered, denied, mail, late>>
vars == <<row, lastToken, batch, cur, pc, faults, retries, delivered, denied, mail, late>>

MailPC == QueuePC \cup {"prepare", "markStart", "send", "clearStart", "markAccepted", "reportSent"}

Report == [job: Jobs, outcome: {"sent", "failed"}]

\* The e-mail row is inserted as 'queued' before its job (composeReply).
Init ==
  /\ QueueInit
  /\ delivered = [j \in Jobs |-> 0]
  /\ denied = [j \in Jobs |-> 0]
  /\ mail = [j \in Jobs |-> "queued"]
  /\ late = {}

-----------------------------------------------------------------------------
(* Core's side of the report: one UPDATE, where a failure skips a sent row. *)

\* Mutant: the newest report wins.
RecordedAlways(r) == [mail EXCEPT ![r.job] = r.outcome]

Recorded(r) ==
  IF r.outcome = "failed" /\ mail[r.job] = "sent" THEN mail
  ELSE [mail EXCEPT ![r.job] = r.outcome]

\* reportMailOutbound gets its answer.
Reported(r) == mail' = Recorded(r) /\ UNCHANGED late

\* It does not: Core failed, before or after its UPDATE, or the answer was lost.
ReportLost(r) ==
  /\ Fault
  /\ late' = late \/ late' = late \cup {r}
  /\ UNCHANGED mail

MyReport(w, outcome) == [job |-> cur[w].job, outcome |-> outcome]

\* Core gets to a report after its sender has stopped waiting for it.
LateReport(r) ==
  /\ r \in late
  /\ late' = late \ {r}
  /\ mail' = Recorded(r)
  /\ UNCHANGED <<delivered, denied, queueVars>>

-----------------------------------------------------------------------------
(* sendMailAtMostOnce *)

\* How far an earlier run got, by the payload this run was given at its claim.
Begin(w) ==
  /\ \E s \in batch[w] :
       Take(w, s, IF s.accepted THEN "reportSent"
                  ELSE IF s.started THEN "failForGood"   \* send_outcome_unknown
                  ELSE "prepare")
  /\ UNCHANGED mailVars

\* Credential, access token, attachments: everything that can fail before the
\* send.  Core may turn out to be a stale or misconfigured deployment.
Prepare(w) ==
  /\ pc[w] = "prepare"
  /\ \/ \E step \in {"markStart", "fail", "failForGood"} : Goto(w, step) /\ NoFault
     \/ Goto(w, "release") /\ Fault
  /\ UNCHANGED <<row, lastToken, retries, mailVars>>

MarkStart(w) ==
  LET s == [cur[w] EXCEPT !.started = TRUE] IN
  /\ pc[w] = "markStart"
  /\ \/ /\ Markable(s)
        /\ row' = [row EXCEPT ![s.job] = MarkedRow(s)]
        /\ cur' = [cur EXCEPT ![w] = s]
        /\ pc' = [pc EXCEPT ![w] = "send"]
        /\ NoFault /\ UNCHANGED batch
     \/ ~Markable(s) /\ NextJob(w) /\ NoFault /\ UNCHANGED row      \* lease lost
     \/ /\ Fault /\ Goto(w, "fail")
        /\ UNCHANGED row \/ (Markable(s) /\ row' = [row EXCEPT ![s.job] = MarkedRow(s)])
  /\ UNCHANGED <<lastToken, retries, mailVars>>

DeliverMail(j) == delivered' = [delivered EXCEPT ![j] = @ + 1]

\* Mutant: no answer is taken for a refusal.
SendRetryingUnanswered(w) ==
  /\ pc[w] = "send"
  /\ \/ DeliverMail(cur[w].job) /\ Goto(w, "markAccepted") /\ NoFault
     \/ (DeliverMail(cur[w].job) \/ UNCHANGED delivered) /\ Goto(w, "clearStart") /\ Fault
     \/ UNCHANGED delivered /\ Goto(w, "clearStart") /\ NoFault
  /\ UNCHANGED <<row, lastToken, retries, denied, mail, late>>

\* Gmail's client makes one error of what is no answer of Gmail's, a 5xx on the
\* way back or a 2xx whose body breaks off, and of a refusal.
Deny(w) ==
  /\ cur[w].job \in Gmail
  /\ denied' = [denied EXCEPT ![cur[w].job] = @ + 1]
  /\ Goto(w, "clearStart") /\ Fault /\ UNCHANGED delivered

\* The hand-over to Gmail or Yahoo.
Send(w) ==
  /\ pc[w] = "send"
  /\ \/ /\ \/ DeliverMail(cur[w].job) /\ Goto(w, "markAccepted") /\ NoFault
           \/ /\ DeliverMail(cur[w].job) \/ UNCHANGED delivered           \* no answer
              /\ Goto(w, "failForGood") /\ Fault
           \/ UNCHANGED delivered /\ Goto(w, "clearStart") /\ NoFault     \* refused
        /\ UNCHANGED denied
     \/ Deny(w)
  /\ UNCHANGED <<row, lastToken, retries, mail, late>>

\* A refused send may be tried again; if the mark cannot be cleared it stays.
ClearStart(w) ==
  LET s == [cur[w] EXCEPT !.started = FALSE] IN
  /\ pc[w] = "clearStart"
  /\ \/ Markable(s) /\ row' = [row EXCEPT ![s.job] = MarkedRow(s)] /\ NoFault
     \/ ~Markable(s) /\ UNCHANGED row /\ NoFault
     \/ UNCHANGED row /\ Fault
  /\ Goto(w, "fail")
  /\ UNCHANGED <<lastToken, retries, mailVars>>

\* Best effort, twice; then the report is made whatever became of the mark.
MarkAccepted(w) ==
  LET s == [cur[w] EXCEPT !.accepted = TRUE] IN
  /\ pc[w] = "markAccepted"
  /\ \/ Markable(s) /\ row' = [row EXCEPT ![s.job] = MarkedRow(s)] /\ NoFault
     \/ ~Markable(s) /\ UNCHANGED row /\ NoFault
     \/ UNCHANGED row /\ Fault
  /\ Goto(w, "reportSent")
  /\ UNCHANGED <<lastToken, retries, mailVars>>

\* Mutant: the report is best effort too.
ReportSentOnce(w) ==
  /\ pc[w] = "reportSent"
  /\ \/ Reported(MyReport(w, "sent")) /\ NoFault
     \/ ReportLost(MyReport(w, "sent"))
  /\ Goto(w, "complete")
  /\ UNCHANGED <<row, lastToken, retries, delivered, denied>>

ReportSent(w) ==
  /\ pc[w] = "reportSent"
  /\ \/ Reported(MyReport(w, "sent")) /\ Goto(w, "complete") /\ NoFault
     \/ ReportLost(MyReport(w, "sent")) /\ Goto(w, "fail")
     \/ Fault /\ Goto(w, "release") /\ UNCHANGED <<mail, late>>     \* 401, 404, 503
  /\ UNCHANGED <<row, lastToken, retries, delivered, denied>>

\* The failure of a job that will not run again; an error here is only logged.
ReportFailed(w) ==
  /\ pc[w] = "reportFailed"
  /\ \/ Reported(MyReport(w, "failed")) /\ NoFault
     \/ ReportLost(MyReport(w, "failed"))
  /\ NextJob(w)
  /\ UNCHANGED <<row, lastToken, retries, delivered, denied>>

\* The process dies; a report it was making may still reach Core.
CrashMail(w) ==
  /\ Crash(w)
  /\ \/ UNCHANGED late
     \/ pc[w] = "reportSent" /\ late' = late \cup {MyReport(w, "sent")}
     \/ pc[w] = "reportFailed" /\ late' = late \cup {MyReport(w, "failed")}
  /\ UNCHANGED <<delivered, denied, mail>>

-----------------------------------------------------------------------------
SendStep(w) ==
  \/ Begin(w) \/ Prepare(w) \/ MarkStart(w) \/ Send(w) \/ ClearStart(w)
  \/ MarkAccepted(w) \/ ReportSent(w) \/ ReportFailed(w)

QueueStep(w) == (Complete(w) \/ Release(w) \/ Fail(w)) /\ UNCHANGED mailVars

ClaimJobs(w) == (\E S \in SUBSET Jobs : Claim(w, S)) /\ UNCHANGED mailVars

EnqueueReply(j) == Enqueue(j, TRUE) /\ UNCHANGED mailVars

RetryReply(j) == AdminRetry(j) /\ UNCHANGED mailVars

TimePasses(j) == (LeaseExpires(j) \/ BackoffElapses(j)) /\ UNCHANGED mailVars

Next ==
  \/ \E w \in Workers : ClaimJobs(w) \/ SendStep(w) \/ QueueStep(w) \/ CrashMail(w)
  \/ \E j \in Jobs : EnqueueReply(j) \/ RetryReply(j) \/ TimePasses(j)
  \/ \E r \in late : LateReport(r)

\* A live worker takes its next step; it asks for work again after every batch
\* (startChannelsWorker's loop); time passes.
Fairness ==
  /\ \A w \in Workers : /\ WF_vars(SendStep(w))
                        /\ WF_vars(QueueStep(w))
                        /\ WF_vars(ClaimJobs(w))
  /\ \A j \in Jobs : WF_vars(TimePasses(j))

Spec == Init /\ [][Next]_vars
FairSpec == Spec /\ Fairness
-----------------------------------------------------------------------------
TypeOK ==
  /\ QueueTypeOK(MailPC)
  /\ delivered \in [Jobs -> Nat] /\ denied \in [Jobs -> Nat]
  /\ mail \in [Jobs -> {"queued", "sent", "failed"}]
  /\ late \subseteq Report

\* sendMailAtMostOnce's own claim: however runs of one job overlap, crash or
\* repeat, its mail reaches the provider at most once.  It does not hold of Gmail
\* for the acceptances that look like refusals, which the next run repeats: each
\* further copy there is one such answer.
AtMostOnce ==
  \A j \in Jobs : delivered[j] <= 1 /\ denied[j] <= IF j \in Gmail THEN faults ELSE 0

\* A job is completed only after Core has recorded that its mail was sent: no
\* run, whatever it believes of its claim, settles a reply Core still shows as
\* queued or failed.
SucceededIsShownSent ==
  \A j \in Jobs : row[j].status = "succeeded" => mail[j] = "sent"

\* Only a fault (a crash, a lost answer, an expired lease) ever buys a run
\* beyond max_attempts, one run each: claim_channel_jobs does not look at
\* max_attempts, so the bound rests on failChannelJob.  A run that is released
\* gives its attempt back and is not counted.
RunsAreBounded ==
  \A j \in Jobs : row[j].attempt <= MaxAttempts + faults

\* A settled job stays settled: a run whose claim is gone cannot bring it back
\* to the queue, nor turn one outcome into the other.  Only an administrator's
\* retry revives a failed job, and it starts the attempts afresh.
SettledRowsStay ==
  [][\A j \in Jobs :
       /\ row[j].status = "succeeded" => row'[j].status = "succeeded"
       /\ row[j].status = "failed" =>
            \/ row'[j].status = "failed"
            \/ row'[j].status = "pending" /\ row'[j].attempt = 0]_vars

-----------------------------------------------------------------------------
(* Why this holds: the inductive invariant of MailboxSendProofs *)

Sending(w) == pc[w] \in {"send", "clearStart"}

\* The mark is on the row before the mail can be with the provider, no two runs
\* are past it at once, and a run that has it still to write, or comes to its
\* job later, knows the mark its row has for as long as its claim is good.
MarkedBeforeSent ==
  /\ \A j \in Jobs : delivered[j] <= 1 /\ (delivered[j] > 0 => row[j].started)
  /\ \A w \in Workers : Sending(w) => row[cur[w].job].started /\ delivered[cur[w].job] = 0
  /\ \A w \in Workers : Sending(w) \/ pc[w] = "markAccepted" => cur[w].started
  /\ \A w, v \in Workers : Sending(w) /\ Sending(v) /\ cur[w].job = cur[v].job => w = v
  /\ \A w \in Workers : pc[w] \in {"prepare", "markStart"} /\ Holds(cur[w])
                          => ~row[cur[w].job].started
  /\ \A w \in Workers : \A s \in batch[w] : Holds(s) => s.started = row[s.job].started

\* Every copy that Gmail took and seemed to refuse has cost a fault.
DenialsArePaid == \A j \in Jobs : denied[j] <= IF j \in Gmail THEN faults ELSE 0

\* Whoever says the mail was sent says it of a delivered mail.
AcceptedWasDelivered ==
  /\ \A j \in Jobs : row[j].accepted \/ mail[j] = "sent" => delivered[j] > 0
  /\ \A w \in Workers : \A s \in Mine(w) : s.accepted => delivered[s.job] > 0
  /\ \A w \in Workers : pc[w] \in {"markAccepted", "reportSent"} => delivered[cur[w].job] > 0
  /\ \A r \in late : r.outcome = "sent" => delivered[r.job] > 0

\* A run completes its job after Core's answer, never on its own word.
CompletedAfterReport ==
  /\ \A w \in Workers : pc[w] = "complete" => mail[cur[w].job] = "sent"
  /\ SucceededIsShownSent

\* max_attempts runs are free; a release comes of a fault.
ReplyRunsArePaid == RunsArePaid(MaxAttempts, {"release"})

\* The inductive invariant: types, distinct claims, and the five above.
Inv ==
  /\ TypeOK /\ QueueInv
  /\ MarkedBeforeSent /\ DenialsArePaid /\ AcceptedWasDelivered /\ CompletedAfterReport
  /\ ReplyRunsArePaid

-----------------------------------------------------------------------------
\* The whole promise of MailDelivery: nothing is sent again once the provider has
\* taken it, but for what Gmail denied before; `sent' is shown only for a
\* delivered mail, and never taken back by a late failure report.
MD == INSTANCE MailDelivery WITH Mails <- Jobs
ImplementsMailDelivery == MD!Spec

\* Every queued job settles: crashed, slow, released and refused runs are all
\* followed by another claim or by the verdict.
Settles ==
  \A j \in Jobs :
    (row[j].status = "pending") ~> (row[j].status \in {"succeeded", "failed"})

\* A reply that will not be sent: its row says so (the failure report of
\* processBatch), and nobody looks at `queued' for ever.  Only a fault between
\* failChannelJob and the report takes the report away: nothing repeats it.
FailureIsShownUnlessFaults ==
  \A j \in Jobs :
    (row[j].status = "failed" /\ faults = 0) ~> (mail[j] # "queued" \/ faults > 0)
=============================================================================

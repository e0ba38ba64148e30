# Kindred Core in TLA+

A model of the parts of Kindred Core that have to be right when processes die,
answers are lost and several workers race: the delivery of messages over the
channels (mail and chat), with the job queue under it; website audits on the
second, generic job queue; the queue of calls waiting for an operator; uploads
against the deletion of their workspace; and realtime failover.

Paths below are relative to `src/`, the root of the repository.

## 1. The system

Kindred Core is a customer engagement platform: an Express backend ("Core"), a
PostgreSQL database reached through supabase-js (one statement per call, so a
handler is **not** a transaction), worker processes, a web application, a
visitor widget and native clients. The server keeps no state in memory that
matters across requests: what two processes share, they share through rows.

| Component | State | Operations | Hard behaviour |
| --- | --- | --- | --- |
| **Channel job queue** `server/services/channels/jobs.ts`, `database/migrations/048_*.sql` | `channel_jobs` rows: status, attempt count, claim token, lease, availability, payload | enqueue, claim a batch, mark, complete, release, fail, administrator's retry | leases that end during work, stale runs, crashes, attempts that must end |
| **Channels worker** `worker/channels/index.ts` | the batch in hand | the poll/claim loop, a handler per job type, reports to Core | order of side effects; lost answers; broken deployments |
| **Mailbox reply sending** `sendMailAtMostOnce`, `routes/internalChannels.ts` | two marks in the payload, `email_messages.delivery_status` | mark, send, mark, report, complete | at-most-once over an at-least-once queue |
| **Composing a mailbox reply** `services/email/inbox.ts` | `email_messages`, `email_threads`, the job | `composeReply` and its `undo` | overlapping retries, half-written replies |
| **Chat channel delivery** the bot handlers, `channels/outbound.ts`, `channels/deliveryStatus.ts`, `whatsapp/deliveryStatus.ts`, outbox trigger of `150_x_channel.sql` | `conversation_messages.metadata` | commit with its job, send, report, provider status, plan stop, deletion | read-decide-write of one JSON object by several handlers |
| **Poll loops** `enqueueNextPoll`, `seedPollLoop`, `yahoo/oauth.ts` | pending jobs that are the loop | connect, disconnect, run, ask for the next run | a loop that dies, or forks |
| **Website audits** `services/jobs/queue.ts`, `services/seo/crawlService.ts`, `worker/seo-crawler/index.ts` | `background_jobs`, `seo_crawls` | create, claim, heartbeat, complete, fail, cancel | unfenced completion, two rows for one audit, cancellation against retry |
| Inbound messages `channels/inboundProcessing.ts` | provider events, conversations | webhook to message | redelivery, order |
| **Call queue** `server/services/calls/queue.ts`, `queueTicker.ts`, `routes/callQueue.ts` | `call_queue_entries`; a running flag per process | enqueue, offer, accept, cancel, callback; expire, reap, assign | an accept against a reap, passes of several Cores, lost answers |
| **Uploads under a lease** `server/services/storage/writerLease.ts`, `storage/index.ts`, migrations 187, 188 | `owner_write_leases`, requests at storages | acquire, put, mirror, renew, release | a request that outlives its lease, its caller or its process |
| **Deletion of a workspace** `server/services/workspaceDeletion/worker.ts`, `storage/scopeCleanupEngine.ts`, migrations 181, 185 | `workspace_deletion_jobs` with a progress per storage, the workspace row | enqueue, claim, list, delete, verify, purge, retry | stale workers, a purge that was not recorded, late objects |
| **Realtime failover** `server/services/realtime/failover*.ts`, `controlPlane.ts`, `observability/tickerLease.ts` | one row: provider, cooldown, candidate; the ticker lease; settings and their caches | evaluate, lease, decide, save | flapping, replicas that disagree, a row that could not be read |
| AI billing `services/ai-billing/*` | ledger, reservations | reserve, settle, refund, recover | crash between the two |
| Conversation lifecycle `services/idleCloseRace.ts` and tickers | conversation status | close, reopen | a message against a close |
| Everything else | | | request/response over single rows, user interface, configuration |

How the modelled ones interact: composing a reply (Core) inserts the mail row
and its job; committing a chat answer inserts its job in the same transaction
(a trigger). A channels worker claims jobs by an SQL function, calls the
provider, calls Core's `/internal/channels` routes to record the outcome, and
updates the job itself. Providers call Core back through webhooks. Poll jobs
enqueue their own successors through Core. The audit worker is a separate
process on a table of its own: Core inserts a job and a crawl, the worker claims
the job and writes both. Every Core runs the call queue's ticker, a deletion
worker and the failover ticker; they meet only in the database, where an upload
and the deletion of its workspace meet in a lease row, and two failover passes in
the ticker lease.

What makes each of them correct:

* queue: a settled job stays settled whatever stale runs do; a failing job
  ends after `max_attempts` runs; a dead worker's job is run again;
* mailbox reply: sent at most once; shown as sent only if it was, and then for
  good; a reply that will not be sent says so;
* composing: one job for one reply however often the app asks; nothing
  half-written is left; the app is told "queued" only of a queued reply;
* chat delivery: shown as sent only if it was; repeats only where an answer
  was lost; what is known never goes backwards;
* poll loop: alive as long as its integration is connected; one, not many; of
  the newest connection;
* website audit: an attempt is run once; a job ends; what the user sees of the
  crawl is what became of its job;
* call queue: who is told that he accepted or cancelled did; an operator is rung
  for one call, for the time of his offer, oldest call first; no call rings for ever;
* deletion: a workspace that is gone left no object behind and none can come
  back; who was told "stored" was over before deletion looked; it ends;
* failover: no flapping; back only after an undisturbed window; on the best
  usable provider (or the locked one) in the end.

## 2. Modules

    ChannelQueue          the queue and the worker's batch loop (a library of actions)
      MailboxSend         + the mail handler and Core's mail report  -- refines MailDelivery
      ChatDelivery        + the chat handler, Core's message row, provider statuses
      PollLoop            + the poll handler, seeding, connections
    MailCompose           composeReply under overlapping requests
    MailDelivery          what a mailbox reply is promised, no queue in sight
    CrawlJob              the generic job queue with the audit that a job stands for
    CallQueue             calls waiting for an operator, and the tickers that ring
    OwnerLease            uploads of a workspace under write leases
      WorkspaceDeletion   + the deletion job, its workers and their walk of the storages
    Failover              the decision, the ticker's passes, the lease, the settings
    ChannelQueueProofs    lemmas on every queue action
    MailboxSendProofs     the theorems on mail (MailboxSend and MailCompose)
    CrawlJobProofs        the theorems on audits
    CallQueueProofs       the theorems on calls
    WorkspaceDeletionProofs  the theorems on uploads and deletion
    FailoverProofs        the theorems on failover
    ChatDeliveryProofs    the theorems on chat delivery
    PollLoopProofs        the theorems on poll loops
    MC*                   symmetry sets and tables for TLC

`MailboxSend`, `ChatDelivery` and `PollLoop` each EXTEND `ChannelQueue` with a
handler: the composition of the queue, its workers, and one kind of job. In the
same way `WorkspaceDeletion` composes uploads with the deletion that meets them.

### ChannelQueue

| TLA+ | Code |
| --- | --- |
| `row[j]` | the `channel_jobs` row; `token` is `claim_token` (0 = NULL), `leased`: `claim_expires_at` is in the future, `due`: `available_at` has come, `started`/`accepted`: the marks in `payload` |
| `Claim(w, S)` | `claim_channel_jobs`: any claimable rows, at most `BatchSize`, one new token for all, attempt + 1, statuses `pending` *and* `running` |
| `batch[w]`, `cur[w]` | the copies the claim returned: a run decides on these, never on the row |
| `Take`, `Complete`, `Release`, `Fail`, `NextJob`, `LeaveBatch` | the body of `processBatch`, with what happens when the queue's own update throws: a failed `completeChannelJob` goes to the `catch`, a failed release or fail leaves `processBatch` with the rest of the batch still leased |
| `FencedUpdate`, `UpdateFails` | `.eq('claim_token', ...)`: no row matched is not an error; an error may hide an applied update |
| `MarkedRow`, `Markable` | `markChannelJob` (also fenced by `status = 'running'`, and renews the lease) |
| `LeaseExpires`, `BackoffElapses` | time |
| `AdminRetry` | `POST /channels/jobs/retry` |

Time is two bits per row: only "is the lease over" and "is it due" are ever
asked. A token is a counter since `gen_random_uuid` never repeats. The model
takes rows to be claimed in any order (the SQL orders by priority and age under
`SKIP LOCKED`, which concurrent claims make no promise of).

A **fault** is what the code can neither prevent nor see through: a crash, a lost
answer, a provider that does not answer, a lease that ends while its run is
still at work, a broken deployment. Refusals are not faults: they are answers
and are unbounded. `MaxFaults`, `MaxClaims`, `MaxRetries` bound a behaviour
for TLC and nothing else.

Not in the model: `recordAttempt` and the heartbeat write rows that no decision
reads; their own errors are caught, so they do not change the loop.

### MailboxSend and MailDelivery

`Begin` (what an earlier run left in the payload), `Prepare`, `MarkStart`,
`Send`, `ClearStart`, `MarkAccepted`, `ReportSent` are the awaits of
`sendMailAtMostOnce` in order, one action between two awaits, each with its
failure exits; `ReportFailed` is the report at the end of `processBatch`.
`mail[j]` is `email_messages.delivery_status`; `late` holds reports whose
sender no longer waits: Core may handle them at any later time. `delivered[j]`
counts what the (external) provider took, except what `Deny` counts in
`denied[j]`. Gmail's client makes one error, `gmail_provider_error`, of a refusal, of a
5xx that came after acceptance and of a 2xx whose body could not be read
(`channels/mail/gmail/client.ts:106-118`), and the worker takes any error but
`gmail_timeout` and `gmail_network_error` for a refusal: it clears the mark and the
job is retried (`worker/channels/index.ts:549-558`). The constant `Gmail` is the set of
replies that go to Gmail; SMTP has one reply line and no such case.

`MailDelivery` is the promise: deliver at most once, `sent` only after a delivery
and for good, `failed` may still become `sent`; before the delivery Gmail may have
denied others (`DeliverDenied`), after it nothing is sent. `ImplementsMailDelivery` is the
refinement (the mapping is the identity on `delivered`, `denied` and `mail`).

### MailCompose

A request is a reply and the number of the try; `at[q]` walks through
`composeReply`. `rows`, `threads` and `jobs` are what is in the database, named
by the request that wrote them; `known` is what the request knows it wrote
(`messageRowId`, `createdThreadId`), hence what `undo` can take back. Whether a
reply starts a thread is a choice in `OpenThread`. Every step can fail cleanly;
faults are lost answers of an insert, deletes that fail unseen (supabase-js
returns errors) and crashes, counted in `composeFaults`. Modelled with migration
289f applied. The module shares no name with `MailboxSend`, so that
`MailboxSendProofs` can extend both.

### ChatDelivery

`message[j]` is what matters of the message row: it exists, its
`channel_delivery`, its `channel_message_id`. Core's handlers (the worker's
report, a provider status) read and decide in one action and write in another,
through `writes`. `sends[j]` numbers acceptances, and the k-th acceptance's
provider id is k; 0 is the id reported when a 2xx could not be parsed (WhatsApp,
Instagram, X). `CancelIntent` is the plan stop, `DeleteMessage` the deletion of
a workspace's conversations (the jobs stay). `content` is what the trigger put into the
job: something to send; white space that SQL's `btrim` keeps and JavaScript's `trim`
does not, at which the handler returns and the job is complete; or attachments none of
which has an http(s) URL, which the media handler passes over and reports as sent.

### PollLoop

The jobs are runs of one integration's loop. `gen[j]` is the connection whose
account run j carries in its payload. `Connect`, `ConnectStatus` and
`SeedCancel`/`SeedInsert` are the writes of the consent flow: the credential, the
integration's status, the two statements of `seedPollLoop`. A disconnect makes two
writes, in either order (`Disconnect`, `DisconnectRest`): Yahoo deletes the credential
first, X writes the status first and deletes the credential when the provider operation
it queued reports back, which may be after a reconnect. A run reads the two one after the other (`Resolve`,
`ReadCredential`) and ends for good if either is gone, or if the worker was started
without its OAuth client (`unset` is history, for `LoopMayRun`). `AskNext`/`NextInserted` are the statements of
`enqueueNextPoll`; `asks` are the calls in between. What a poll does with the
mail it finds is left out: an error there is logged and the next run is asked for.

### CrawlJob

| TLA+ | Code |
| --- | --- |
| `job[c]`, `crawl[c]` | the `background_jobs` row and the `status` of the `seo_crawls` row of one audit |
| `tick[t]` | one call of `tick()`: `setInterval` polls while earlier calls still run, so a process (`home`) may have several |
| `Check`, `EnqueueJob`, `InsertCrawl` | `createCrawl`: count, insert the job, insert the crawl |
| `AskCancel`, `CancelStep` | `requestCrawlCancel`: flag, cancel if queued, look, close the crawl |
| `Poll`, `Burn`, `Claim` | `claimNextJob`: select, then fail an exhausted candidate or update on (id, status, attempts) |
| `Load`, `FailRead`, `FailWrite`, `FailCrawl` | `tickCrawl` and `failJob` |
| `Start`, `Work`, `Beat`, `Analyze`, `Save`, `Complete`, `CancelCrawl`, `AcknowledgeCancel` | `processCrawl`, the loop of `crawlSite` and the queue functions they call |

The statements of this queue mostly ignore the error supabase-js returns, so a
failed statement is one that did nothing and that nobody noticed (`Fault`, as are
crashes and runs slower than their lock). Of a crawl's pages only their number
is kept (`MaxPages`); any batch may be the last one, or throw, retryably or not.
The candidate is any claimable job where the code takes the first by priority
and age. All audits are of one site; the workspace-wide limit is left out.

### CallQueue

| TLA+ | Code |
| --- | --- |
| `entry[e]` | the `call_queue_entries` row; `lapsed`, `over`: `last_offer_expires_at`, `expires_at` have passed; `misses` is `metadata.missed_offer_count` |
| `EnqueueCall`, `OfferSelf`, `End` | the requests: `enqueueCall` with the unique index on active entries, `offerEntry` from the list, `acceptEntry`/`cancelEntry`/`markEntryAsCallback` |
| `pass[p]`, `passRunning[c]` | one pass of the ticker with what it has read so far, and the guard against a second one in the process |
| `ExpireStaleEntries`, `ReadStale`, `ReapOffer` | `expireStaleEntries`, and the two halves of `reapStaleOffers`: read, then update by id alone |
| `ReadQueue`, `ReadOffers`, `AutoAssign`, `FinishPass` | `autoAssignWorkspace` |

`overtaken` (history) notes the entries that a reap moved from a state it had not
read, `told` what callers were answered, `ringer` who made an offer. Routing is
any operator: availability is another table, cached. Entries of the call centre
share the table but not the handlers and are left out.

### OwnerLease and WorkspaceDeletion

| TLA+ | Code |
| --- | --- |
| `writer[w]` | one upload: its place in `withOwnerWriteLease` (`pc`), its requests, its lease row (`row`, `leaseAge`), `leaseLost` |
| `Acquire`, `Heartbeat`, `Confirm`, `Release` | `acquire_owner_write_lease` (under the workspace's row lock), the renewals, the trailing one, the release |
| `PutPrimary`, `PrimaryAnswers`, `MirrorsAnswer`, `PutThrows` | the upload to the storage and its mirrors; `catches` tells `uploadForOwner`, which answers a thrown request as a failure, from `uploadWithConfigForOwner` |
| `Land`, `Refuse` | the provider: a request lands or not, up to `Late` ticks after its timeout, whatever became of its caller |
| `Gate`, `List`, `DeleteKeys`, `ScopeFails`, `Recheck`, `Purge`, `Exists`, `Persist` | the worker's tick: the lease question, `runScopeCleanupTick` per storage, `reassertSafeToPurge`, `runDbCleanup`, `persistFenced` |

Time is in ticks here, since lease, grace and timeout are compared with each
other. `worker[k]` holds the job as it was claimed; only `Persist` writes it back,
fenced by the token. A listing may lose the body of an answer, which `bunnyList` takes for
an empty folder (`storage/index.ts:396`; a fault): what is `verified` in the code is then
"misread" here, so that properties can tell the two.

### Failover

| TLA+ | Code |
| --- | --- |
| `row` | `realtime_failover_state`; every stamp is kept as its age (`moved`, `since`) or the time left (`cooldown`) |
| `DecideFailover` | `decideFailover`, one operator per branch: `Locked`, `Realigned`, `FailedOver`, `FailedBack` |
| `Evaluate`, `Acquire`/`Skip`, `Decide`, `Save`, `Release` | `runFailoverTickOnce` and `commitUnderLease`, a step per statement |
| `lease` | the ticker lease with the cycle gate of migration 192 |
| `policy`, `seen[r]`, `Refresh`, `Edit` | the settings and each replica's cache of them |
| `Snapshots` | what `evaluateProviderHealth` may find; each replica finds its own |

A decision that changes nothing may be written as well (a status changed, or the
heartbeat is due). A failed read of the row yields the fallback row, one of the
settings their defaults, as in the code; both are faults. `doubted` (history) holds the
providers found unusable since the window was begun, by a decision made under the
lease: the evaluation before it is dropped when the lease is denied. The settings
that change are lock, automation and failback; order, cooldown and window, which the same
save can change, are constants.

## 3. Runs

| Run | Question | Bounds |
| --- | --- | --- |
| `MailboxSend_safety` | At most once, honest status, fencing, bounded runs, refinement | 2 replies (one of Gmail), 2 workers, batch 2, 2 attempts, 1 fault, 1 retry, 12 claims |
| `MailboxSend_live` | Does every reply settle, and does its failure show? | 1 reply (Gmail), 2 workers, 2 faults, 1 retry, 12 claims, fair |
| `MailCompose_faults` | One job per reply, nothing half-written, up to faults | 2 replies, 2 tries each, 2 faults |
| `ChatDelivery_safety` | Honest status, completion, repeats bought by faults | 1 message, 2 workers, 2 attempts, 2 faults, 1 retry, 1 status, 4 claims |
| `PollLoop_safety` | The loop neither dies nor breeds | 3 runs, 2 connections, 2 workers, 1 fault, 1 retry, 5 claims |
| `CrawlJob_runs` | One run per attempt, an end for every job, agreement of job and crawl | 1 audit, 2 processes, 2 ticks, 2 attempts, 1 page, 2 faults, fair |
| `CallQueue_onecore` | True answers, one ring at a time, order, an end for every call | 2 calls, 2 visitors, 1 operator, 1 Core, 2 overlapping passes, 2 misses, 1 fault, fair |
| `WorkspaceDeletion_faults` | Nothing left behind, nothing confirmed late, forward only, an end | 1 upload, 2 storages, 2 workers, 2 attempts, 2 faults, fair |
| `Failover_moves` | No flapping, windows, convergence, locks | 2 replicas, 3 providers, cooldown 2, window 2, 1 edit, 1 fault, fair |
| `ChatDelivery_deleted` | Releases are for deployments only (violated) | 1 message, 1 worker |
| `CallQueue_accepted` | No way leads out of accepted (violated) | 1 call, 1 Core, no faults |
| `WorkspaceDeletion_orphan` | A timeout is treated like a lost lease (violated) | 1 upload |

Why these bounds are enough to be interesting. Two workers with batches of two
make the stale-batch case: a worker that holds a claim it has lost on a job it
has not come to. One fault puts a crash or a lost answer at *every* step; a
lease that ends during work is a fault as well, so that one fault gives two runs
of one job at once, and two give a fault inside the second run. The retry
revives a job with its marks. Without faults a job is claimed `MaxAttempts`
times and as often again after a retry, so 12 claims never cut a behaviour of
`MailboxSend` short (with two jobs it is 2 x (2 + 2 + 1) claims at most plus the
releases that faults pay for); in the `ChatDelivery` and `PollLoop` runs the
claims do cut, at 4 and 5, after enough for two overlapping runs and a
successor. In `ChatDelivery` the unavailable answer to a deleted message
releases without a fault, so its claims have no end of their own. Nothing cuts
`CrawlJob`: `max_attempts` (2 is the default of the code) ends a job, and two
ticks are two runs of one process or of two, or a run and the poll that burns
its job.

In `CallQueue_onecore` two calls and one operator are what it takes to ring him
twice or out of order, and two passes of one Core what it takes to overlap if the
guard fails; nothing is cut but the number of calls. In
`WorkspaceDeletion_faults` the times are the smallest that keep the order of the
real ones (lease 1, grace 3, timeout 1, late 1, where twice the timeout and the
lateness stay under lease and grace); two storages make a primary and a mirror,
and a storage settled while another is not; two faults are enough to fail a
job (`MaxJobAttempts` is 2), to lose a purge and its confirmation, and to have a
worker and an upload die in one deletion. In `Failover_moves` cooldown and window
are longer than the lease and its gate, so that several passes fall into each,
by either replica; three snapshots make the first provider go down, come back,
or be unconfirmed with the second down as well; the one edit sets or lifts a
lock or turns failback on or off.

Symmetry: jobs, workers, crawls and replies are interchangeable, since no definition orders
or names them, and the liveness run uses none; in `MailboxSend_safety` `Gmail` names a reply,
so only the workers are. Tokens and provider ids are
numbers and not part of the symmetry. `CrawlJob_runs`, `CallQueue_onecore`,
`WorkspaceDeletion_faults` and `Failover_moves` check liveness as well and use
none either.

Deadlock checking is off everywhere: when all jobs are settled (or the requests
answered) nothing is left to do, and the bounds stop behaviours too.

**Properties.** `AtMostOnce`: no overlap, crash or repeat delivers a mail twice; what
Gmail takes and seems to refuse is sent again, and each such copy is paid by a fault of its own.
`SucceededIsShownSent` / `SucceededIsKnown`: a job is done only after Core has
the outcome (of a blank chat message Core is never told). `SettledRowsStay`: no stale run
moves a settled row, failed ones included.
`RunsAreBounded`: each run beyond `max_attempts` was bought by a fault, though
the claim does not look at `max_attempts` (released runs give their attempt back and
are not counted; that they end is `Settles`). `Settles`: every pending job gets a
verdict. `FailureIsShownUnlessFaults`: the verdict "failed" reaches the mail's
row (only a fault between the update and the single report takes it away).
`ExtraJobsNeedFaults` (in `ComposeInv` of `MailCompose`), `LeftoversNeedFaults`, `RepeatsNeedFaults`,
`WaitingIsBounded` count: what goes wrong is at most what faults pay for, one
each, so a single fault never causes two repeats, leftovers or forks. `LoopAlive`:
some run waits, runs, or is being enqueued, as long as status and credential are both
there and no run has met a worker without its OAuth client. `ShownWasSent`: a shown success, and
the provider id on it, come from a real acceptance of this message, unless all there
was to send was passed over.
`AttemptsAreClaimedOnce`: the claim is an optimistic update on `attempts`, and
no two runs get one attempt. `FinishedNeedsFault`: a finished job changes only
by the heartbeat of a run that has lost its lock or its database.
`OutcomesAgree`: retries and cancellations that race a run leave the job and the
crawl in matching ends. `Settles` of `CrawlJob`: every queued job ends, whatever
dies on the way.

`ToldIsQueuedUnlessOneFails`: who is told that a reply is queued is told the
truth, unless another request for the same reply fails (its `undo` takes the row
both rely on). `ToldIsTrue`: an accept, a cancellation or a callback that was
confirmed stands, unless a reap overtook it. `RingsOneCallUnlessFaults`,
`OffersLast`, `FirstComeFirstServed`: what operators and visitors expect of the
ticker, with requests falling between any two of its statements.
`EveryCallRests`: each call ends and stays ended, though a reap may bring an
ended call back. `NothingLeftBehind`: the point of leases and grace, an
object or a request that could still make one, against the rows that are gone. It
excepts storages given up or misread (only after a fault, which is part of the
property) and uploads that were answered a failure while their request went on.
`ConfirmedBeforeSwept` orders two clocks: the upload's last renewal and the
deletion's first listing. `CompletedMeansGone` and `GoesForward` are about stale and
crashed workers. `MovesRest` relates each of the engine's moves to the one before
it, across replicas and edits of lock, automation and failback; `FailbackWaits` a
move back to every decision under the lease since the window was begun; `Converges` is what all the holding back must not prevent.

**Fairness** (`FairSpec`, used by the runs called fair above). Channels: a worker that can take
its next step does (`handleJob` is a chain of awaits, each of which answers or
throws), claims again after each batch (`startChannelsWorker`'s loop, which
survives errors; a crashed worker is restarted by its supervisor; Core in the
end accepts the worker's credential, which `ensureCoreAuthReady` waits for), and
time passes. Nothing is assumed of faults, of the operator, or of late reports. Weak
fairness is enough since a claimable row stays claimable until claimed. In
`CrawlJob` likewise: a tick under way goes on, the interval polls again, time
passes; nothing is assumed of Core, the operator, crashes or failed statements.
In `CallQueue` a Core's timer starts passes and their statements answer or fail,
and an entry's time runs out; nothing is assumed of visitors, operators or of
offers that lapse. In `WorkspaceDeletion` workers poll and go on, an upload
under way goes on (its calls answer, or are aborted by their timeout), a provider stores
or refuses what it was sent, job leases run out and time passes; nothing is assumed of
administrators. In `Failover` the 30-second timer fires
(`startFailoverTicker`) and a pass under way goes on, caches of the settings run out,
time passes; nothing is assumed of what passes find. That an evaluation sooner or
later goes on to a commit is the 15-minute heartbeat of the stored row
(`needsFailoverPersist`).

## 4. What the violated properties show

1. `RepeatsAreBoundedAlways` (`ChatDelivery_deleted`). Core answers a report on a
   deleted message with 404; the worker reads any 404 as a stale deployment and
   releases the job without a penalty, after the provider accepted the message.
   The next claim sends it again, for as long as the job lives.
2. `AcceptedStays` (`CallQueue_accepted`). `reapStaleOffers` reads the lapsed offers and
   then updates each by id alone. A call that an operator accepts in between is
   put back into the queue and rung for somebody else, or called missed. It takes
   one Core and no fault.
3. `NothingLands` (`WorkspaceDeletion_orphan`). A request that times out throws inside the
   lease, where `uploadForOwner` (and a mirror) catches it and returns a failure.
   `withOwnerWriteLease` sees its function resolve and releases the lease, while the
   provider may still store the object: deletion finds no lease and purges, and
   the object lands in the storage of a workspace that is gone.
   `NothingLeftBehind` shows that, of what is uploaded under a lease, only these objects
   and those in storages given up or misread can be left.

Further observations on the code, each a behaviour of the models.

*Mail.* Two requests for one reply overlap: the second finds the first's row and
answers its id; the first then fails cleanly and `undo` deletes the row, and the
app believes in a reply that is gone (`inbox.ts:776-777`, `886-890`; hence the
condition of `ToldIsQueuedUnlessOneFails`). A mail whose acceptance could not be
marked, or whose worker died before the mark, is shown as failed with
`send_outcome_unknown`, though it went out. A failure report lost to a crash is
not repeated. A mail that Gmail accepted with an answer that could not be read, or with
a 5xx after acceptance, is sent again (`Deny`), once for each such answer until the
attempts end, where the comment at `worker/channels/index.ts:508` says that a reply is
handed to its provider at most once.

*Chat.* A status `delivered` and a status `read` (or `failed`) whose handlers both
read before either wrote: the second write is decided on an old state and
overwrites the first (`deliveryStatus.ts:111`). A WhatsApp status that arrives
before the worker's report has stored the provider id is dropped for good.
`failed` may replace `delivered` when it is a worker's own report. A media message
whose attachments have no http(s) URL is shown as sent (`worker/channels/index.ts:1021`,
`1088`). A message of white space that `btrim` keeps (a newline, say) completes its job
with no report, and its row never says what became of it (`index.ts:981`). A 2xx that cannot be
parsed is reported with id 0, and no later status of the provider finds its message.

*Poll loops.* An old run that looked for a waiting run before the insert of a
reconnect's seed enqueues its successor after it, for the old account
(`jobs.ts:156`). Merging of forked loops lowers their number but is not what
bounds it. A run that meets a worker without its OAuth client ends the loop of an integration
that stays `connected` (`worker/channels/index.ts:154-165`, `838`), and so does a missing
credential (`435`): a disconnect that dies between its two writes leaves one, and so does
one of X whose result arrives after a reconnect and deletes the new credential
(`telegram/setup.ts:508-511`). Only another connect starts it again.

*Audits.* `createCrawl` enqueues the job before it inserts the crawl
(`crawlService.ts:88`): a worker that claims it in between finds no crawl and fails the job for
good; the crawl is inserted as `queued`, nothing will ever move it, and each later
audit of the site is refused as already in progress. A job burned for its attempts
leaves its crawl `running`, which blocks the site in the same way. A crawl is shown
as failed while its job waits for the next attempt. Two audits asked for at once
may both pass the check. A heartbeat brings a finished job back.

*Calls.* Two Cores tick on their own, so one operator may be rung for two calls,
and his offer reaped on what another pass read: `RingsOneCallUnlessFaults` and
`OffersLast` hold of one Core, which is what `queueTicker.ts:9` speaks of.

*Deletion.* `workspaceStillExists` ignores a failed read: a purge that fails and a
question that fails mark a job completed whose workspace is still `deleting`
(`worker.ts:396-400`; two faults, hence the condition of `CompletedMeansGone`).
`attempt_count` never goes down, so several unreachable storages with three
failures each can fail the job before they are given up, where
`scopeCleanupEngine.ts` says that unreachable storage never blocks a deletion for
ever; an administrator's retry goes on from there. A lost lease does not stop
the upload under way, only its answer. A listing whose body is lost is an empty one
(`storage/index.ts:396`; a 404 likewise at `393`, a failed `readdir` in `localList`, `664-668`): two in a
row verify a storage that is not empty, and its objects stay behind.

*Failover.* A failed read of the row yields the fallback row, which is decided on and
written: traffic returns to the default provider with no window, and a cooldown
is forgotten (`failoverState.ts:102-113`). A failed read of the settings drops a lock
until the cache runs out (`controlPlane.ts:176-180`). Switching failback (or
automation) off leaves the candidate and its stamp, so that switching it on again
may move traffic at once, after an outage in between: hence `edits = 0` in
`FailbackWaits`. Failback waits for its window but not for the cooldown. The
transition `last_resort` is never taken, since polling is always healthy and
always in the order. A replica whose evaluation finds a candidate unusable but is
denied the lease drops what it found (`failoverTicker.ts:60`, `90`).

## 5. Proofs

`MailboxSendProofs` proves, for every set of jobs and workers and every value
of the bounds (`QueueAssumption`: batch size and attempts at least 1, bounds
natural numbers):

* `InvHolds`: `Spec => []Inv`
* `MailAtMostOnce`: `Spec => []AtMostOnce`
* `SucceededShownSent`: `Spec => []SucceededIsShownSent`
* `RunsBounded`: `Spec => []RunsAreBounded`
* `SettledStay`: `Spec => SettledRowsStay`
* `MailboxSendImplements`: `Spec => ImplementsMailDelivery`

What Gmail takes and denies is counted on its own (`DenialsArePaid`, inductive as it
stands). That `delivered` is at most one is not inductive. The argument needs to know why a worker at
`send` may send, and that is spread over three places; `Inv` collects it:

* `RowsAreClaimed`, `ClaimsAreDistinct` (the queue): a row carries a token exactly
  while it runs, tokens are given once, and two workers never share one. Hence
  at most one worker holds a row at a time, however many believe they do.
* `MarkedBeforeSent`: whoever is at `send` has its mark on the row and nothing is
  delivered (that the code knows of); nobody else is there; whoever has still to write the mark, under a
  claim that is good, finds none on the row; and a claimed copy agrees with its
  row for as long as its claim is good. So a second run is either stopped by the
  mark in its copy (`Begin`) or by the fence (`MarkStart`).
* `AcceptedWasDelivered`: whatever says "sent" - a mark, a report on its way, a
  worker about to report - says it of a delivered mail.
* `CompletedAfterReport`: a worker at `complete` has Core's answer.
* `ReplyRunsArePaid` (`RunsArePaid` of the queue): the first `max_attempts` runs are
  free, a fault buys each other one. Whenever a row can be claimed, or a worker with
  a good claim is about to give it back, one more run than it has had is paid for.
  So no claim, which itself checks nothing, goes beyond what is paid.

`ChannelQueueProofs` proves once, for each queue action, what it keeps of the
queue's own invariant and what it does to the rows, for any set `PC` of program
points; the proofs on mail, chat and poll loops cite these lemmas. `SettledRowsStay` follows from the fence and `RowsAreClaimed`: a
settled row has no token, every claim's token is positive. The refinement follows
from `Inv` and one case per action: `Send` is `Deliver` or `DeliverDenied`, a report is `ShowSent` or
`ShowFailed`, or stutters; everything else stutters.

The same module proves of `MailCompose`, for every set of replies, any number of
tries and of faults (`ComposeAssumption`: at least one try):

* `ComposeInvHolds`: `ComposeSpec => []ComposeInv`
* `LeftoversAreSpoilt`: `ComposeSpec => []LeftoversNeedFaults`
* `ToldIsBacked`: `ComposeSpec => []ToldIsQueuedUnlessOneFails`

Neither count is inductive: a job whose request is still at `undo` is not yet a
leftover, and a row nobody knows of is not yet a second job. `Spoilt` is the set of
requests that a fault of their own kept from finishing or from undoing, seen from
the moment of the fault; `SpoiltByFaults` says that it is no larger than the number of
faults, since a step spoils at most the request that takes it, and only by a fault
(`SpoiltOnlyByFault`). That needs `WritesFit`: at each point of `composeReply` a
request knows of all it has written. Jobs of a reply are then spoilt, or have a row,
and of rows the index admits one (`OneRowEach`): hence at most one job more than faults.
The sets are finite because they grow by one from the empty set, not because
replies are. `ToldIsQueuedUnlessOneFails` is inductive with this: whoever answers from a
row answers for a request that has its job, is at work, or has failed (`RowVouches`).

`ChatDeliveryProofs` proves, for every set of messages and any finite set of workers
(`ChatAssumption`, with `QueueAssumption`):

* `InvHolds`: `Spec => []Inv`
* `ShownHolds`: `Spec => []ShownWasSent`
* `SucceededHolds`: `Spec => []SucceededIsKnown`
* `RepeatsHold`: `Spec => []RepeatsNeedFaults`
* `SettledStay`: `Spec => SettledRowsStay`

`ReportsAreTrue` and `ReportsAreKnown` follow what was accepted from the provider, or
passed over (`Taken`), through the worker, the reports under way and Core's two halves of a
handler to the row.
`RepeatsNeedFaults` is not inductive: it does not see who is about to send. `FaultsPay`
keeps a bill for each message that exists: every acceptance, every worker
that may still send (`Senders`) and a job that can be claimed or retried (`Open`) counts one,
and the sum is at most one more than the faults. A step without a fault moves an item
of the bill - a claim makes the open job a sender, a send makes the sender an
acceptance, a failure opens the job again - and adds none. Workers are finite
so that senders can be counted.

`PollLoopProofs` proves, for finite sets of runs and workers (`PollAssumption`, with
`QueueAssumption`):

* `InvHolds`: `Spec => []Inv`
* `LoopAliveHolds`: `Spec => []LoopAlive`
* `WaitingBounded`: `Spec => []WaitingIsBounded`

`LoopAlive` needs `SomeRunLives`: a run that is on its way to its end under a good claim
does not keep the loop alive by itself, another run or a request for one has to. It is stated
under `LoopMayRun`, which every step that lets a run end for good makes false. That a run
does not end by failing otherwise needs `PollRunsArePaid` (nothing but faults makes a
poll fail). `WaitingIsBounded` needs `RunsDoNotBreed`, again a bill: runs that can be
claimed, chances of workers to ask for a successor or to give a run back,
requests under way and a seed count one each, and each was paid for by a connect, a
fault or a retry. The sets are over (worker, run), and the proof counts run by
run, where a step moves the chance of one worker at most.

`CrawlJobProofs` proves, for any number of crawls, processes, overlapping polls
and pages (`CrawlAssumption`: attempts and the site limit at least 1):

* `InvHolds`: `Spec => []Inv`
* `ClaimedOnce`: `Spec => []AttemptsAreClaimedOnce`
* `FinishedStays`: `Spec => FinishedNeedsFault`
* `OutcomesMatch`: `Spec => []OutcomesAgree`

Distinct claims alone are not inductive: a claim must take a number no tick can
have yet. `TicksNameTheirJob` says so: no tick knows of more attempts than the
row, and a claim that finds the row as it was read sets it to one more. Nothing
else touches `attempts` (`UpdateKeeps`), so all other steps are moves of one tick
(`MoveKeeps`) and need no argument of their own.

`FinishedNeedsFault` and `OutcomesAgree` need to know why a run whose writes are guarded by
the job's id alone writes to a job that is still its own. `RunsHold` says it: until
something fails, a run at work has the row locked under its attempt, and a tick that
read the row before cannot claim or burn it. The row's attempt has one run
(`AttemptsAreClaimedOnce`), so a run at work is alone with its job
(`HolderIsAlone`), and what it does to the row disturbs nobody (`HolderMoves`). `RowsFollow`
gives the order of the rows (no tick acts on a crawl that is not inserted, except to fail
it for that), and `EndsMatch` what the crawl says at each step of a job's end, with a
cancellation half done. Both are stated under `faults = 0`: after the first
fault neither need hold.

`CallQueueProofs` proves, for any number of entries, operators, Cores and overlapping
passes (`CallAssumption`):

* `InvHolds`: `Spec => []Inv`
* `AnswersAreTrue`: `Spec => []ToldIsTrue`

and with one Core (`SoleTicker`, the hypothesis of these three; passes may still be
started on top of each other, faults and requests fall anywhere):

* `OneCallAtATime`: `Spec => []RingsOneCallUnlessFaults`
* `OffersStay`: `Spec => OffersLast`
* `OldestFirst`: `Spec => FirstComeFirstServed`

The bound on rings needs `ReadsAreBounded`: a reap writes the count it has read
plus one, so what was read must be below the bound as well, however old it is.
`ToldIsTrue` needs that every step leaves an entry as it was, active with nobody
told of an end, or ended as its callers were told (`Sound`).

With one Core the argument is about stale reads. A pass reads lapsed offers, busy
operators and the queue, and uses each several statements later. `OnePassPerCore`
(`passRunning` is a lock) leaves requests, time and crashes as the only steps between
a read and its use, and `ReadsHold` says what survives them: a lapsed offer stays
lapsed or its call ends; an operator not known as busy is not rung by the ticker; a call
that the pass did not read came later (`MadeInOrder`). Each of the three
properties is one of these at the statement that uses it. With two Cores
`ReadsHold` can be false, and the properties with it.

`WorkspaceDeletionProofs` proves, for any number of uploads, storages, workers and
faults (`LeaseAssumption`, `GraceSuffices`, `DeletionAssumption`):

* `InvHolds`: `Spec => []Inv`
* `NothingIsLeftBehind`: `Spec => []NothingLeftBehind`
* `ConfirmedThenSwept`: `Spec => ConfirmedBeforeSwept`
* `ForwardOnly`: `Spec => GoesForward`
* `CompletedIsGone`: `Spec => []CompletedMeansGone`

The argument: a request under way is covered by a lease that still counts
(`LeaseCovers`: `leaseAge` stays behind the age of the requests; the object and then
its mirrors need two timeouts and the lateness, less than lease and grace, which
is `GraceSuffices`, the inequality the code's comment on `PROVIDER_UPLOAD_TIMEOUT_MS`
argues for). No lease is made after the workspace is `deleting`, so once a tick
has found none (`TicksAreGated`) there is no request and none will be
(`NothingPending`), and a listing taken then, if no body of it was lost, is true for good: notes made of it
are (`NotesAreTrue`), a storage is verified only if clean or misread, and rows go last
(`RowsGoLast`). What a stale worker writes is fenced, and who holds the job knows what it
has settled (`HolderKnows`), so nothing is reopened. `Inv` is this (`SweepInv`),
`GivenUpIsPaid` (while nothing has failed, no storage is given up or misread, in the job or
in a worker's copy of it) and `CompletionIsPaid`: while the workspace is there, a worker asks whether it is only
after a fault, and takes it for gone only after a second, so a completed job that is
not true has cost two.

`FailoverProofs` proves, for any number of replicas, any order of providers and any
times (`OrderAssumption`, `TimesAssumption`, `PoliciesAssumption`, `SnapshotsAssumption`):

* `InvHolds`: `Spec => []Inv`
* `MovesRestHolds`: `Spec => MovesRest`
* `FailbackWaitsHolds`: `Spec => FailbackWaits`

`Choices` says what the decision can be: it keeps the row but for the candidate,
or it moves, and then the cooldown is over or the candidate has waited. The
inductive invariant adds to `Inv` two facts for runs without faults: `Rest` (after
a move of the engine, cooldown left and age together make up the cooldown, and
the candidate is younger than the move; a move still to be written was decided
under the lease that now runs) and `Undoubted` (a tracked candidate is doubted by
no decision). Both rest on `OneCommits`: while nothing fails the lease covers a commit, so one
pass at a time lies between its read and its write, and its row is not stale.

Every invariant and action property of a passing run is a theorem. Only
model-checked: the properties under fairness (`Settles` twice,
`FailureIsShownUnlessFaults`, `EveryCallRests`, `EveryDeletionEnds`, `Converges`), which
are out of the prover's reach. No recursion is needed anywhere.

## 6. Not modelled, and why

Listed with reasons in `PROJECT.json`. In the modelled components: job types
that only read or configure (profile photos, webhook repair, typing), message
media with several attachments, message edits and deletions at the provider,
live Gmail (no queue: one call), the deletion of an integration's row, the other six job types of the audit worker, `composeReply` on a database without migration
289f, realtime events after a write, wording and logging; of calls the call
centre's entries, the second media type (the ticker offers audio before video, each in
the order of its own calls) and priority, which the ticker orders by first and which is 0 for
every call of the chat widget (`queue.ts:150`); of deletion `syncStorageReplica`
(`storage/index.ts:1911-1996`), which copies objects to a replica under no lease and so may
bring back what a deletion swept, LiveKit Egress, storages that share a
place or are not configured, the CDN purge, and users' deletion (the same steps
again); of failover the scoring of a provider's health (an idle Centrifugo is `unknown` in the code, which
is a snapshot here), the resolver's caches of the row, audit rows, and edits of provider order,
cooldown and window while it runs.

The greater part of the repository by size is a web application, a widget,
translations and generated types: user interface over single requests, with no
protocol to state. Of the server, AI billing, conversation lifecycle and inbound
messages have behaviour worth a model and have none yet.

## 7. Plan

Done: the channel queue, mail (sending, composing), chat, poll loops, website
audits, calls, uploads and deletion, failover; a theorem for each safety property
of theirs.

Next, in this order:

1. AI billing: reserve, settle, refund, recover, with a crash between any two.
   Property: a reservation is settled or refunded once.
2. Conversation lifecycle: the idle close against a message that arrives.
3. Inbound channel messages: a redelivered or reordered provider event.
4. The attachment loop of chat media as a refinement of `ChatDelivery!Send`.

Theorems: abstract specifications that `CrawlJob` (a job is run, attempt by attempt, and
ends once unless a fault revives it), `CallQueue` (what a visitor sees of his call) and
`WorkspaceDeletion` (a workspace, its objects, gone together) implement, as
`MailboxSend` does `MailDelivery`.

# automatebro in TLA+

automatebro answers Instagram comments, direct messages and story replies, and
WhatsApp messages, on behalf of small businesses.  A webhook stores each event and
queues it; a BullMQ worker matches it against the tenant's automations, captures
contact details, asks an AI for a reply where the automation says so, and sends.
What makes it hard is not any single handler but that every handler is a sequence
of separate database writes, queue additions and HTTP calls, any of which may be
the last one before a crash, a rejected promise or a redelivery.

This directory holds a model of that program in TLA+, the TLC configurations that
check it and the theorems that TLAPS proves about it.  Paths below are relative to
`src/`; `handlers/` stands for `packages/shared/src/handlers/`, `shared/` for
`packages/shared/src/`, `jobs/` for `apps/worker/src/jobs/`.

## 1. The system: an inventory

| Component | State | Operations | Talks to |
|---|---|---|---|
| Webhook ingest, Instagram (`handlers/webhooks/ingestMetaWebhook.ts`) | `events` rows (unique `metaEventId`) | resolve tenant, insert, `queue.add` | queue |
| Webhook ingest, WhatsApp (`handlers/webhooks/ingestWhatsappWebhook.ts`) | `events` rows | the same, plus template status events | queue, templates |
| Queue and worker (`shared/queue`, `apps/worker/src/index.ts`) | BullMQ jobs in Redis | add, take, parse and dispatch, settle, stalled check, shutdown | every handler |
| Event processing, Instagram (`jobs/processEvent.ts`, `handlers/process{Comment,Dm,StoryReply}Event.ts`) | `events.processedAt`, `sends` | dedupe, match, insert a send, queue it | automations, intents, leads, queue |
| Lead capture (`handlers/captureLead.ts`) | `leads` | upsert by sender | run beside matching in `Promise.all` |
| Intents (`handlers/classifyIntent.ts`) | `events.intent`, `aiUsage` | label once, gate | OpenAI |
| AI replies (`handlers/generateAiReply.ts`) | `sends.content`, `aiUsage` | budget, prompt, moderate, store, queue | OpenAI, queue |
| Sending, Instagram (`handlers/sendDM.ts`, `jobs/sendCommentReply.ts`) | `sends.status` | gates, POST, record | Meta, rate limiter |
| Rate limiters (`shared/meta/rateLimit.ts`, `shared/whatsapp/rateLimit.ts`) | Redis sorted sets | pipelined window update, rollback | both senders |
| WhatsApp inbound (`handlers/processWhatsappMessageEvent.ts`) | `leads` opt-in and opt-out, `optInLog`, `sends` | upsert lead, STOP, match | queue |
| WhatsApp sending (`handlers/sendWhatsapp.ts`, `shared/whatsapp/{serviceWindow,rates}.ts`) | `sends`, `whatsappCosts`, `leads` | six gates, call, cost | Meta |
| WhatsApp templates (`handlers/whatsappTemplates/*.ts`) | `whatsappTemplates.status` | create and submit, delete, status webhook | Meta |
| Accounts (`handlers/igAccounts`, `handlers/whatsappAccounts`) | `igAccounts`, `whatsappAccounts` | connect, disconnect (hard / soft) | cascades on automations, sends, leads |
| Automations (`handlers/automations`) | `automations`, `triggers`, `responses` | create, update, duplicate, delete, preview | the worker reads them |
| AI usage (`aiUsage`, inside two handlers and a report) | monthly counters per tenant | load or create, check the cap, increment | AI handlers |
| Tenants and privacy (`handlers/tenants`, `handlers/privacy`) | `tenants` | create once per user, request deletion, export | accounts |
| Leads and lists (`handlers/leads`, `handlers/sends`) | `leads.tags` | edit tags; lists and counts only read | dashboard |
| Sessions and pages (`middleware.ts`, `app/(app)`, `auth/`) | Supabase session, the page a tab shows | sign up, verify, sign in and out, redirects | tenants |
| Automation form, post picker, preview modal (`components/automations`) | fields and pending fetches in the browser | pick, submit, try | automations, media |
| WhatsApp forms (`components/whatsapp`) | fields in the browser | connect a number, create a template | accounts, templates |
| Parsing, signatures, adapters, token encryption | none of their own | | |

Which behaviours are hard, by component, and what is correct there:

* **Queue.** `eventsQueue.add(name, data)` passes no options, so BullMQ makes one
  attempt; a handler that throws leaves its job in `failed` for good.  The only second
  attempt comes from the stalled-job check, after the worker died.  Correct: every job
  ends; nobody relies on a retry that never comes.
* **Ingest.** The row is committed before `queue.add`; the failure of the latter is
  logged only, and Meta's redelivery hits the unique key.  Correct: an event that is
  not processed can at least be told from one that is.
* **Matching.** A loop of insert, add, insert, add over automations, re-run from its
  start after a crash.  Correct: one answer per event and automation.
* **`Promise.all` of lead capture and matching.** One branch rejects, the other keeps
  running with nobody waiting.  Correct: `processedAt` only when both succeeded.
* **Sending.** Status read, gates, POST, status write, with a crash or a lost answer
  between any two.  Correct: `sent` implies delivered; a final status stays;
  duplicates only after a crash.
* **AI reply.** The customer's text is parked in `sends.content` until the reply
  replaces it; a wide `catch`.  Correct: the customer is never sent their own words
  nor flagged output.
* **Owner.** Pause, delete and disconnect under a running handler; foreign keys and
  cascades.  Correct: handlers fail cleanly and the accounting of rows survives.
* **Rate limit.** A non-transactional pipeline plus rollback.  Correct: never more
  than the cap within the window.
* **WhatsApp sending.** Gates read before decryption and the call, used after.
  Correct: an opted-out lead gets nothing that was not already on its way.
* **Templates.** Webhooks in any order, also before the submission is recorded and
  after the tenant disabled the template.
* **Counters and tags.** Read-modify-write without a transaction. Correct: what is lost
  or overrun is bounded, and has a cause that can be named.
* **Workspaces.** A check and an insert, a check and a deletion, an authorisation that
  takes minutes: steps of several requests of one person. Correct: one workspace each,
  a deletion that holds and cannot be postponed, redirects that come to rest.
* **Browser forms.** Fetches that overlap, answers that come late or never, choices that
  belong together and change apart. Correct: one submit makes one automation (number,
  template), and what was chosen belongs to the account it is chosen for.

Every hazard is listed with its line and the properties that cover it in
`PROJECT.json`.

## 2. Modules

| Module | Models | Used by |
|---|---|---|
| `WorkerQueue` | the BullMQ queue and the worker processes | extended by `IgPipeline` and `WhatsappPath` |
| `IgPipeline` | the whole Instagram path: ingest, matching, lead capture, intents, AI replies, sending, and the owner's interference | |
| `WhatsappTemplates` | the table of message templates under creation, submission, deletion and Meta's decisions | extended by `WhatsappPath` |
| `WhatsappPath` | the whole WhatsApp path: ingest, leads and opt-out, matching, AI replies as far as they matter, the gates, the call and the cost of `sendWhatsapp`, template webhooks, the owner, time | |
| `SendLifecycle` | abstract: what the `sends` table promises of a DM or a WhatsApp message | refined by `IgPipeline` and `WhatsappPath` |
| `Workspace` | people, sessions, pages, workspaces, their deletion, and the connection of Instagram accounts, request by request | |
| `AiBudget` | the monthly budget of model calls and the card that shows it | composed in `MCDashboard` |
| `SlidingWindow` | the two rate limiters, Redis command by command | composed in `MCDashboard` |
| `LeadPages` | the paged lists of leads and sends | composed in `MCDashboard` |
| `LeadTags` | the tags of a lead, the editors and `PATCH /leads/[id]/tags` | composed in `MCDashboard` |
| `AutomationForm` | the form of an automation, its post picker, `POST /automations` | composed in `MCDashboard` |
| `AutomationRows` | the three rows of an automation under PATCH, duplication and deletion | composed in `MCDashboard` |
| `TestFire` | the modal that tries an automation out | composed in `MCDashboard` |
| `WhatsappSetup` | the forms and requests that connect a number and make a template, across workspaces | composed in `MCDashboard` |
| `MCDashboard`, `MCWorkspace` | constants for TLC; `MCDashboard` also puts its parts in one specification | the `dashboard` and `workspace` runs |
| `MCIgPipeline`, `MCWhatsapp` | messages and automations for TLC | the `ig_*` and `wa_*` runs |
| `IgClaims`, `WaClaims`, `WorkspaceClaims` | sentences of the repository that the program does not keep | the runs with `claim` in their name |
| `IgPipelineProofs` | the types of the Instagram path; answers, captures and intents | TLAPS |
| `IgPipelineSends` | what it says of its sends: echoes, forgotten rows, deliveries; the refinement of `SendLifecycle` with one worker | TLAPS |
| `WorkspaceProofs` | the types and the four invariants of `Workspace`, for every value of the constants | TLAPS |
| `WhatsappProofs` | types of the WhatsApp path, and what a job knows of its row | TLAPS |
| `WhatsappSafety` | one answer per automation, approved templates, STOP | TLAPS |
| `WhatsappSends` | duplicates, the refinement of `SendLifecycle`, forgotten rows, costs; the cap and the opt-out with one worker | TLAPS |
| `LimitProofs` | the two limits: the sliding window and the budget for model calls | TLAPS |
| `DashboardProofs` | the properties of `TestFire`, `AutomationForm`, `AutomationRows`, `WhatsappSetup`, `LeadTags` and `LeadPages`, and the types of `MCDashboard` | TLAPS |

## 3. How the Instagram model corresponds to the code

**One action per write, addition or call.**  A handler is a sequential program that
the event loop suspends at every `await`.  `act[j]` is the local state of the handler
of job `j`: `pc` names the next step, the other fields are the local variables later
steps use (`account`, `intent`, the automations still `todo`, the `send` being
worked on, ...).  Reads that no other actor can disturb in between share one step
with the read they follow; every write is a step of its own, so a crash, another
worker, the webhook route and the owner can get in between any two.

| State | In the program |
|---|---|
| `jobs` | the BullMQ queue `events`: state, payload, the worker that holds it, how often it stalled |
| `events`, `sends`, `accounts`, `automations`, `captured` | the tables of that name (`captured`: events whose contact details reached `leads`) |
| `act` | local variables of the running handlers |
| `delivered` | what Meta has accepted: the outside world, not a table |
| `sends[s].by`, `.run`, `events[m].stage` | history: which attempt inserted the row; how far the ingest loop is |

Actions follow the code in order: `InsertEvent`, `EnqueueEvent` (ingest); `Start`,
`Refuse`, `Return`, `Throw`, `Stalled`, `Crash` (worker); `Load` to `MarkProcessed`
(`processEvent` and the three matching handlers, with `CaptureLead` as the other
branch of `Promise.all`); `GenLoad` to `GenAdd` (`generateAiReply`); `DmLoad` to
`WriteSentFails` (`sendDM` and `sendCommentReply`); `SetStatus`, `DeleteAutomation`,
`Disconnect` (the dashboard).

**What is abstracted.**  Payloads, keyword lists and prompts are constants: `Message`
says what kind of event it is and what it contains, `Hits` which automations its text
and post match, `Config` an automation with trigger and response.  A text is one of
seven kinds (`Texts`); the properties need no more to tell the customer's words from
a template, an AI answer, a flagged one and an empty one.  Whether the 24-hour window
and the hourly allowance are open is a free choice at the gate.  The order in which
waiting jobs are taken is left open (BullMQ is FIFO but puts stalled jobs at the other
end); the 1000-an-hour limiter of the queue only delays.

**Crashes and retries.**  `Crash(w)` ends a worker process at any point; its job
stays `active` with nobody running it, until `Stalled` hands it out again, at most
`MaxStalledCount` times.  A live worker that loses its lock (event loop blocked for
more than the lock duration) is not modelled.  `Throw` is a database or Redis call
that rejects at any step at which the code does not catch it.

**Detached branches.**  When one branch of `Promise.all` rejects, the job fails at
once but the other branch runs on: `Reject` leaves a handler at `stopped` while
`captureLead` is under way, `CaptureLeadFails` settles the job while matching goes on
until `DetachedEnd`.

### The WhatsApp path

`WhatsappPath` is built in the same way on the same queue, and composes with
`WhatsappTemplates`, whose rows it reads and whose webhooks it applies.

| State | In the program |
|---|---|
| `transit` | webhooks Meta is delivering; the dashboard and Meta put template verdicts there |
| `leads` | by phone number: exists, opted out, wrote within 24 hours (`open`), had a template conversation opened within 24 hours (`charged`) |
| `log` | `whatsappOptInLog`: which event led to which record; and the warning with which `upsertLeadOnInbound` gives a customer up |
| `connected` | accounts whose `disconnectedAt` is null (a soft delete, unlike Instagram's) |
| `costs` | `conversationCount` of the month's `whatsappCosts` row, 0 for none |
| `templates`, `create`, `remove` | rows of `whatsappTemplates` and the two requests under way on each |
| `verdict` | what Meta has decided, whether the program knows or not |

Actions in the code's order: `InsertEvent` to `EnqueueEventFails` (ingest); `LeadLoad`
to `LeadReread` (`upsertLeadOnInbound`), `OptOut`, `LogOptOut` (`recordOptOut`),
`Dedupe` to `AddSend` (matching); `TemplateLoad`, `TemplateApply` (status webhook);
`GenLoad` to `GenAdd`; `WsLoad`, `WsLead`, `WsCap`, `WsMode`, `WsRate`, `Post...`,
`CostLead` to `CostFails`, `Write` (`sendWhatsapp`: one action per gate, since the
dashboard, Meta and the clock move between any two).

Much of this code reads with `.catch(() => null)`, so that a failed read and an absent
row look the same. The disturbance `swallowed` stands for it, at each of these reads
separately. The clock is two free steps: `WindowCloses` (24 hours after the customer's
last message) and `ConversationEnds` (24 hours after the template was charged).

### Workspaces

`Workspace` has a slot of `requests` for each handler in progress: `pc` names its next
statement, the other fields are the locals it still uses (the workspace `buildCtx` found,
the time `requestTenantDeletion` took, the accounts a callback has still to write, the rows
a request has read and updates by their ids).

| State | In the program |
|---|---|
| `auth` | what Supabase knows of a person: not registered, unverified, signed out, signed in |
| `users`, `tenants`, `members`, `accounts` | the tables `users`, `tenants`, `tenantUsers`, `igAccounts` |
| `tabs` | the page a browser shows or loads, and the `next` parameter of the sign-in form |
| `clock` | `new Date()` as far as deletions are stamped with it |
| `lateLinks`, `gone`, `seesDeleted` | history: accounts written after a deletion had looked for the connected ones, when a workspace was first deleted, what was deleted when a request was sent |

`SignUp` to `SignOut` are the session routes; `Open` and `Hop` a page load and one
redirect of middleware, layout or page; `Submit` a request, `Authenticate` and `ReadCtx` the
guard in front of every handler; `HasExistingTenant`, `CreateTenant` the creation;
`LoadTenant`, `StampTenant`, `SelectAccounts`, `CutAccount`, `CommitDeletion`,
`DeletionFails`, `EndSession` the deletion; `Consent`, `Exchange`,
`NextPage`, `UpdateAccount`, `InsertAccount`, `Subscribe` the way from `/auth/meta/start`
through the callback, account by account; `Disconnect` a disconnection; `Abandon` a handler
that fails or whose server dies between two statements.

The deletion is a transaction of several statements at READ COMMITTED, and each is an action
of its own. Nobody sees what it writes before `CommitDeletion`: the stamp of the workspace and
the accounts in `cut` reach the tables there, all at once, or never (`DeletionFails`,
`Abandon`). From their updates on, the row of the workspace and those of the accounts are
locked (`TenantLocked`, `AccountLocked`): a second deletion and a callback's or a
disconnection's write to the same row wait. `SelectAccounts` finds the accounts that are
committed by then, and a callback may insert or reconnect another one before the COMMIT:
the insert refers to the workspace by a foreign key, whose lock an update of other columns
does not exclude. An update by id of a row that a disconnection has deleted since changes
nothing (`Forget`). The `limit: 1000` of the SELECT is not modelled; only a workspace with
more than a thousand connected accounts meets it.

### The dashboard

Eight parts of the dashboard and the worker share no row with one another.

* `AiBudget`. `usage` is the `costInr` column by month, `calls` the locals of
  `generateAiReply` and `classifyEventIntent` (`Begin`, `CreateRow`, `RereadRow` are
  `loadOrCreateAiUsage`; `Gate` the cap; `Chat`, `Moderate` the two calls to OpenAI;
  `Record` is `incrementAiUsage`). `paid` is what OpenAI charged, `gaps` the ways a
  charge may fail to reach the row. `PctOf` and `CardSaysOver` are what the card makes of it.
* `SlidingWindow`. `zset` is the sorted set, a member its caller and its time; `Trim`,
  `Add`, `Card`, `Expire` are the pipelined commands, `Rollback` the separate one,
  `KeyExpires` is Redis's, and `trimmed` history: the latest time anyone trimmed for.
* `LeadPages`. `stamps` is the column that is sorted by (`lastSeenAt` or `queuedAt`), `Place`
  a row's place among those the filter takes, `walk` a reader with the pager; the
  count and the items of a page are read in either order, with captures, settlements and
  other changes between.
* `LeadTags`. `stored` is the column, `editors` the browsers, `edits` the requests;
  `ideal` is history, the tags had each edit been one step. A text is a word and
  how it meets the limits (plain, cut after a blank, too long, blank).
* `AutomationForm`. `form` and `picker` are the React state, `post` the request,
  `made` the automations inserted; `mishaps` is history. A change of the account, a fetch of
  posts, a click and a submit are actions of their own.
* `AutomationRows`. The content of the rows of `automations`, `triggers` and
  `responses` is the number of the PATCH it comes from, which is enough to tell whether
  they belong together; `clients` are the requests, one statement at a time.
* `TestFire`. The modal's open flag, the try it waits for and the result it shows.
* `WhatsappSetup`. `numbers` and `tplRows` are `whatsappAccounts` and
  `whatsappTemplates` by their unique keys, `tabs` the forms, `reqs` the requests with the
  awaits of `connectWhatsapp`, `disconnectWhatsapp`, `createWhatsappTemplate` and
  `deleteWhatsappTemplate`; `submitted` counts what Meta took.

## 4. Runs

`Env` lists the disturbances a run includes; none is ever forced to happen.  The
deadlock check is off because the program is idle when all messages are dealt with.

| Run | Instance | Shows |
|---|---|---|
| `ig_dm_faults` | one DM with contact details, one AI automation gated on an intent, two intents; crash, throw, lost answer, 5xx, flagged and empty output, failing `queue.add` | rows and jobs of a DM add up, and refinement of `SendLifecycle` |
| `ig_comment` | one comment answered by a DM and a public reply; every failure of a call, crash, pause, delete, disconnect | rows, jobs and deliveries add up where there is no dedupe and no status check |
| `ig_live` | two workers, a DM with two automations, fair schedule; crash, throw, 5xx, disconnect | every job ends, an event is processed and a send resolved unless a job failed; the retry dedupe holds across processes |
| `wa_faults` | one message, or a receipt, or a picture and a STOP; a template, a freeform and an AI automation; crash, throw, swallowed reads, failing `queue.add`, lost answers, refusals, 5xx, closed gates, both clocks | rows, jobs, deliveries and costs add up, no STOP is lost unnoticed, and refinement of `SendLifecycle` |
| `wa_owner` | a message and a STOP in any order, a template that is created, submitted, approved and deleted, two automations with it that are created, paused and deleted, disconnect and reconnect | what the gates promise holds at the moment of the call |
| `workspace` | two people, two workspaces, one Instagram account, two requests at once, two instants | one workspace each, deletions that hold, redirects that come to rest |
| `dashboard` | the eight parts above, each with two or three actors | what is counted, shown, stored and made is right, or wrong only for a cause that is named |
| `ig_claim_retry` | one story reply, closed gates and 5xx | *violated*: a "retryable" error is never retried |
| `ig_claim_flagged` | one DM, flagged output, a failing call | *violated*: flagged output is queued |
| `wa_claim_optin` | a STOP and a message | *violated*: the customer who writes again stays opted out |
| `wa_claim_ai` | a message for an AI automation | *violated*: the reply is queued as an Instagram DM, which the dispatcher refuses |
| `ws_claim_stamp` | as `workspace` | *violated*: of two deletion requests in flight the second overwrites the time of the first |

The runs with `claim` in their name state a sentence of the repository's own documents and
comments (quoted in `IgClaims`, `WaClaims` and `WorkspaceClaims`), and their counterexamples are
the findings in `PROJECT.json`.

**Bounds.**  `MaxSends` and `MaxJobs` bound the rows and jobs ever made; a handler
that would exceed them waits, so a run explores every behaviour up to that many.
A DM with one AI automation needs one row and three jobs, and a fourth for the
second `send-dm` a redelivered AI job queues.  `ig_comment` has room for the first
attempt's two rows and two of their jobs; a second attempt then shares them.
`MaxStalledCount = 1` is BullMQ's default.  One message is enough for the properties
of one event's handling, since handlers of different events share only the
automations and accounts the owner disturbs anyway; two automations are the least
that makes "crash between two automations" happen.

The `wa_*` runs have one account, phone number and template; `wa_faults` and `wa_owner` have
one worker, two rows, five jobs and a cap of one conversation. Two rows and one customer are the least with which
the cap is met by the second, an opted-out customer has an answer still queued, and the
template is deleted between two sends. `Setups` says how a run begins: `wa_faults` tries
four combinations of message and automations, each by itself, and `wa_owner` starts
with nothing but an account. `StopIsHonoured` is checked where attempts break off: in
`wa_faults`, with a picture of the same customer that may make the lead first, between the
attempts, or not at all. `swallowed` is left out of `wa_owner` because with it
`NoPostAfterOptOut` is false: a lead that cannot be read has not opted out
(`sendWhatsapp.ts:246`; listed as a hazard).

`workspace` explores three families of behaviours (`MCScenarios`), because all faults with
two people and both kinds of requests at once are too many: one person with two requests at
a time and every fault; one with one request at a time who also browses; two people who
create at once. Two requests of one person are the least that race, a second person is
needed only for the rows both insert, and two instants are the least at which a stamp
can move. There is one Instagram account: the callback and the deletion treat each row by
itself, and what they do to one does not depend on another but for a deletion's COMMIT, which
waits for all; the theorems cover any number.

In `dashboard` a behaviour picks one part and moves that part alone. The parts share no
state, so their state spaces add up and do not multiply, and a property of one part says
the same as in a run of its own. Bounds: two model calls, three begun, one turn of the
month, answers of 201 and 202 paise and a cap of 202, which the dearer just reaches
and the cheaper misses by less than the card's rounding; two callers, a cap of one and
a window of two within four instants; four rows, pages of two, three changes; two editors,
two tags at most, two edits; two accounts, posts and templates, two loads of the form; two
automations, clients and PATCHes; two tries; two workspaces, one number, one template,
two tabs, three requests.

**Fairness** (`FairSpec`).  Weak fairness of the ingest loop's next step, of each
running handler's next step, of an idle worker taking a given waiting job, and of the
stalled check.  The event loop and BullMQ's polling justify the first three for as
long as a process lives, the `stalledInterval` timer the last; after a crash the
platform restarts the worker.  Weak fairness of *taking a job* is enough because a
worker takes one job at a time and every job ends.  No fairness forces an event to
arrive, a call to fail, a process to die, or the owner to act.
`WsSpec` has weak fairness of `Hop` only: a browser follows a redirect it was
sent. Requests may be abandoned at any step and nobody has to act.

## 5. Properties

Instagram, safety: `DmEventAnsweredOnce` (all rows of a DM or story reply come from one
attempt, at most one per automation, whatever is redelivered), `ProcessedIsCaptured`
(`processedAt` implies that the contact details are stored), `NothingIsForgotten`
(`EventAccountedFor` and `QueuedSendAccountedFor`: an event or a row that is not dealt with
has a live job, or a job or attempt that can be named as broken), `DeliveriesAddUp`
(`SentWasDelivered`, and `DuplicatesNeedCrashes`: a message goes out twice only as often
as its jobs stalled; the comment handler does answer twice after a crash, and this is its
bound), `NeverEchoesInbound`. Action property: `IntentIsStable`.

Refinement: `DmsFollowLifecycle`.  The rows of DMs, as `SendLifecycle` sees them:
inserted as queued, posted only while queued (or after the row disappeared with its
account), resolved once and for good, `sent` only after a post.  It holds with one worker
(`WORKER_CONCURRENCY` is 1); with two, a redelivered AI job puts two `send-dm` jobs
on the queue, which only a single worker serialises.

Liveness: `JobsSettle`, `EventsGetProcessed`, `SendsGetResolved`.

WhatsApp: `AnsweredOnce`; `StopIsHonoured` (a processed STOP is in force and on
record, through crashes, failed calls and second attempts at every step and another message
handled beside it; or the customer was given up, with a warning, after a read, an insert and
a second read that each failed and were caught); `NoPostAfterOptOut` (an action property: Meta is never called for a customer who
has opted out, though the gate is several steps before the call); `CapHolds` (the
account is not charged beyond its cap, though the cap is read long before the count is
written back); `CostsAreBacked` (nothing is charged that was not delivered);
`TemplateWasApproved` (a template that goes out was approved by Meta some time, through
every interleaving of submission, verdict, webhook and deletion);
`QueuedSendAccountedFor` and `DuplicatesNeedCrashes` as for Instagram; and
`SendsFollowLifecycle`, the refinement of `SendLifecycle`. `NoPostAfterOptOut` and
`CapHolds` hold because one worker process takes one job at a time; with two they do not.
The refinement needs no such thing: a row has a single job that sends it.

Workspaces: `OneWorkspaceEach` (one workspace per person and one owner per workspace, though
the check and the insert are two steps and the form sends again); `DeletionNotPostponed`
(requests that overlap overwrite the stamp, against the code's own comment, see
`ws_claim_stamp`, but never move it past the instant the workspace disappeared, so that the
erasure is not put off);
`DeletionCutsAccounts` (a deleted workspace has a connected account only if a callback that
had passed its checks wrote it after the deletion's SELECT; and no account is found disconnected by a deletion that was rolled back); `DeletedIsInvisible` (no request sent after a
deletion works on the workspace, the end of an earlier authorisation included); and
`PagesSettle`, a liveness property: no circle of redirects.

Dashboard:

* `CardIsTrue`: the rows and the calls in progress never hold a paisa that OpenAI did not
  charge, and hold every one until one of six things happens (`ChargesAreRecorded`): the
  adapter discards a charged answer (empty, not JSON, an error or a timeout after which
  OpenAI charges all the same), an answer names no token counts, a reply is flagged, the month
  turns during a call, a worker dies or the database fails, or the month's row was never
  stored. A race of two calls for the row is none of them. And the card calls a month used up exactly when the gate does, but for half a percent
  (`CardMatchesGate`). `OvershootIsBounded`: the cap is passed by less than what the calls in
  progress can cost.
* `WindowHolds`: no more sends than the cap within a window of the latest trim, with
  stale clocks, failed rollbacks and interleaved pipelines (`CapWithinWindow`), because no
  allowed send leaves the set early (`AllowedStillCounts`).
* `MissedOnlyIfMoved`: what a walk over the pages misses is bounded by what left the list
  or came between the two reads of a page.
* `EditsAreTrue`: tags are lost only to overlapping edits (`LostOnlyByOverlap`), an idle
  editor shows the row it last heard of (`ShownIsStored`), a removed tag is gone unless it
  was cut after a blank (`RemovedIsGone`).
* `ChoicesBelong`: posts and template belong to the chosen account (`PostsBelong`,
  `PickerShowsAccount`, `TemplateFits`); their exceptions are races of the picker that the
  definitions name. `OneSubmitOneAutomation`: exceptions are a gateway timeout and a
  broken connection.
* `RowsBelongTogether`: the three rows of an automation come and go together
  (`RowsComplete`) and come from one PATCH unless statements of two requests interleave
  (`RowsAgree`).
* `ResultIsOfThisOpening`: a modal shows the answer to a try of this opening, unless it was
  closed while one was under way.
* `NumberKeepsItsWorkspace` (an action property: a connected number never changes hands,
  though the lookup covers the own workspace only); `SubmissionsAreTrue`: Meta gets one
  submission per row (`OneSubmissionPerRow`), and an answer says what is stored unless
  another request wrote since (`AnswersAreTrue`).

Where a property has exceptions, each is a race or a failure of the code that the model
contains; it is named by a history variable (`gaps`, `mixed`, `mishaps`, `overlapped`,
`lateLinks`, `mark`), so that everything outside it is still claimed.

Every property has a mutant, a plausible bug of the code under which TLC finds it
violated; the mutated operators stand before the definitions they change (in `IgPipeline` in
a section of their own) and are not part of the specification.

## 6. What is proved

TLAPS checks these for every value of the constants: every number of messages,
automations, accounts, customers, templates, workers, jobs and sends, every
`MaxStalledCount` and every set `Env` of disturbances; every number of people, workspaces,
numbers, tabs and requests; every cap, window and number of callers; every number of
editors, tags and texts, and lists and pages of every length.

| Theorem | Module | States |
|---|---|---|
| `TypeCorrect` | `IgPipelineProofs` | `Spec => []TypeOK` |
| `DmAnsweredOnce` | `IgPipelineProofs` | `Spec => []DmEventAnsweredOnce` |
| `ProcessedCaptured` | `IgPipelineProofs` | `Spec => []ProcessedIsCaptured` |
| `IntentStable` | `IgPipelineProofs` | `Spec => IntentIsStable` |
| `InboundNeverEchoed` | `IgPipelineSends` | `Spec => []NeverEchoesInbound` |
| `NothingForgotten` | `IgPipelineSends` | `Spec => []NothingIsForgotten` |
| `DeliveriesBacked` | `IgPipelineSends` | `Spec => []DeliveriesAddUp` |
| `DmsKeepTheLifecycle` | `IgPipelineSends` | `Spec => DmsFollowLifecycle`, if `OneWorker` |
| `WhatsappTypes`, `HandlersFitTheirJobs` | `WhatsappProofs` | `Spec => []TypeOK`, and `[]TypeInv` |
| `EachAutomationAnswersOnce` | `WhatsappSafety` | `Spec => []AnsweredOnce` |
| `OnlyApprovedTemplatesGoOut` | `WhatsappSafety` | `Spec => []TemplateWasApproved` |
| `StopsStayHonoured` | `WhatsappSafety` | `Spec => []StopIsHonoured` |
| `NoStopIsGivenUp` | `WhatsappSafety` | `Spec =>` nobody is ever given up, if `~Swallowed` |
| `OnlyCrashesDuplicate` | `WhatsappSends` | `Spec => []DuplicatesNeedCrashes` |
| `SendsKeepTheLifecycle` | `WhatsappSends` | `Spec => SendsFollowLifecycle` |
| `NoQueuedRowIsForgotten` | `WhatsappSends` | `Spec => []QueuedSendAccountedFor` |
| `BilledMeansDelivered` | `WhatsappSends` | `Spec => []CostsAreBacked` |
| `OneWorkerKeepsTheCap` | `WhatsappSends` | `Spec => []CapHolds`, if `OneWorker` and `~Swallowed` |
| `OneWorkerRespectsStop` | `WhatsappSends` | `Spec => NoPostAfterOptOut`, if `OneWorker` and `~Swallowed` |
| `WorkspaceTypes` | `WorkspaceProofs` | `WsSpec => []WsTypeOK` |
| `OneWorkspaceEachAlways` | `WorkspaceProofs` | `WsSpec => []OneWorkspaceEach` |
| `DeletionNotPostponedAlways` | `WorkspaceProofs` | `WsSpec => []DeletionNotPostponed` |
| `DeletionCutsAccountsAlways` | `WorkspaceProofs` | `WsSpec => []DeletionCutsAccounts` |
| `DeletedIsInvisibleAlways` | `WorkspaceProofs` | `WsSpec => []DeletedIsInvisible` |
| `WindowTypes`, `TheCapHoldsInEveryWindow` | `LimitProofs` | `WindowSpec => []WindowTypeOK`, `[]WindowHolds` |
| `TheCapIsPassedByACallEach` | `LimitProofs` | `BudgetSpec => []OvershootIsBounded` |
| `TheCardFollowsTheGate` | `LimitProofs` | `BudgetSpec => []CardMatchesGate`, a part of `CardIsTrue` |
| `TheCardIsTrue` | `LimitProofs` | `BudgetSpec => []CardIsTrue` |
| `ResultsBelongToTheirOpening` | `DashboardProofs` | `ModalSpec => []ResultIsOfThisOpening` |
| `ChoicesStayWithTheirAccount` | `DashboardProofs` | `FormSpec => []ChoicesBelong` |
| `OneOpeningMakesOneAutomation` | `DashboardProofs` | `FormSpec => []OneSubmitOneAutomation` |
| `ThreeRowsBelongTogether` | `DashboardProofs` | `RowsSpec => []RowsBelongTogether` |
| `SubmissionsMatchTheRows` | `DashboardProofs` | `SetupSpec => []SubmissionsAreTrue` |
| `NumbersStay` | `DashboardProofs` | `SetupSpec => NumberKeepsItsWorkspace` |
| `EditsStayTrue` | `DashboardProofs` | `TagsSpec => []EditsAreTrue` |
| `TagsStayClean` | `DashboardProofs` | `TagsSpec => [](TagsTypeOK /\ TagsAreClean)` |
| `WalksMissOnlyWhatMoves` | `DashboardProofs` | `PagesSpec => []MissedOnlyIfMoved` |
| `PartsKeepTheirSpecs` | `DashboardProofs` | `MCSpec =>` the specification of each of the eight parts |
| `DashboardTypes` | `DashboardProofs` | `MCSpec => []DashboardTypeOK` |

**Assumptions.** Those on the constants stand in the modules that declare them, and TLC
evaluates them on every run:

* `QueueAssumption` (`WorkerQueue`): the bounds are naturals, `None` is no worker, message
  or account. `PipelineAssumption` (`IgPipeline`), `WhatsappAssumption` and
  `TemplatesAssumption`: the shapes of the constants that stand for payloads, automations
  and templates; a status webhook names its template and has no text; a run begins with
  approved templates only.
* `WorkspaceAssumption`, `SetupAssumption`, `FormAssumption`, `RowsAssumption`: there is
  somebody and something to act on, and the values for "none" are none of the others
  (`NoAutoIsNoRow` and `NoRowIsATemplate` say the latter of rows).
* `WindowAssumption`: cap, window and clock are naturals. `BudgetAssumption`: OpenAI has
  finitely many prices and there are finitely many calls at a time, without which a month's
  overshoot has no bound.
* `TagsAssumption` and `ApiAssumption`: long words are words, and an API client sends lists of
  texts. `PagesAssumption`: a page has at least one row (`normalisePagination` sees to it).

Two hypotheses stand in the theorems that need them. `OneWorker` is the deployment:
`WORKER_CONCURRENCY` is 1 and one process runs; the refinement of the Instagram path needs it
too, and the runs that check it have one worker. `~Swallowed` says that no `.catch(() => null)`
takes a failed read for an absent row; without it they are false, and the hazards say where. The `wa_owner` run, which checks
`CapHolds` and `NoPostAfterOptOut`, has both.

### The inductive invariants

None of them is inductive as it stands. For `IgPipeline`:

* **`TypeInv`** adds to `TypeOK` what the code gets from its control flow: a handler
  at a matching step runs a `process-event` job, whose `event` is a message
  (`HandlerInv`, `JobInv`); one at a sending step has a row. Without it `EventOf(j)`
  may be `None` in the middle of matching and nothing follows about the tables.
* **`OneJobInv`**: a `process-event` job exists only for an event whose ingest came to
  `queued`, and no event has two. It is what makes handlers of one event exclusive
  (`SameEvent`), and rests on the unique `metaEventId` and on `queue.add` being called
  once per inserted row.
* **`IntentInv`**: a handler before its classification knows the label the table has.
  Only the handler of the event writes it, so `ClassifyIntent` never replaces one.
* **`CaptureInv`**: from `Load` on, a handler of a message with contact details has
  a lead branch, and when that is `done` the details are in the table. The account may
  disappear (cascade), which excuses both sides at once.
* **`WorkerInv`**: a handler whose job is active belongs to the worker that holds the
  job, so a job does not stall while its handler goes on (`SameAttempt`): between
  `Dedupe` and the last insert the attempt number is the same.
* **`RowInv`**: a row was inserted by the one job of its event.
* **`AnswerInv`**: after `Dedupe` the event has no rows; during the loop the rows it
  has are of this attempt and of automations no longer in `todo`. This is where
  `DmEventAnsweredOnce` comes from: a second attempt stops at `Dedupe` if the first
  left a row, and within an attempt the loop visits an automation once.

For the sends of `IgPipeline`, in `IgPipelineSends`:

* **`TextInv`** for `NeverEchoesInbound`: the text a handler is about to queue is the
  customer's own only for an automation with AI, whose job asks the model first; and what
  `generateAiReply` hands on is the model's answer or the fallback.
* **`FitsInv`**: a handler at a step of sending has a job of the kind that has this step,
  works on the row the job names, and its job is active or has failed under it.
* **`QueuedInv`** for the first half of `NothingIsForgotten`: an event whose ingest came to
  `queued` has its job, and a job that is done, or about to be, has processed its event.
* **`SightInv`** for the second half: what a handler leaves when it returns (`Dealt`) - a
  row that is settled or gone, a `send-dm` job that carries it on, or a retry. A row
  inserted by an attempt that broke off in between is excused by a stall of the job that
  inserted it, because the attempt it notes (`run`) is at most that job's stalls.
* **`SentInv`**: a handler about to write `sent` has a delivery. With **`PostedInv`** it is
  `DeliveriesAddUp`: what was delivered and the jobs that may still deliver (`Chances`: one
  that waits, one whose handler may still call, a handler about to queue one) are at
  most one and the stalls on record. Taking a chance turns it into a delivery; only a stall
  gives a job its chance again, and the stall is on record by then (`StallsOf`).
* **`AloneInv`**: a worker holds one job, and whoever is at a step of sending has an active
  one; with one worker nobody else is at such a step. **`KindInv`**: DM jobs carry rows of
  DMs, comment jobs rows of comments. **`OpenInv`**: past its read a handler finds its row
  `queued`, or `deleted` with the account. From these each step is `Insert` (`InsertSend`),
  `Post` (`PostAccepted` or `PostAnswerLost`), `Resolve` (`WriteOutcome`) or `Remove`
  (`Disconnect`, whose deletion cascades) of `SendLifecycle`, or leaves the status and the
  deliveries of every DM alone.

For `WhatsappPath`:

* **`TypeInv`** is as above: a handler at a step has a job of the kind that has this step,
  held by a worker, and its row; here rows are never taken away.
* **`AnswersInv`** for `AnsweredOnce`: the one job of an event (`EventJobs`), and what it has
  yet to answer has no row (`Unanswered`). The property does
  not speak of attempts, so the invariant need not either: `Dedupe` lets nobody past who
  finds a row.
* **`ApprovalsInv`** for `TemplateWasApproved`: whoever is past the reading of the template
  (`wsRate`, `wsPost`) read a status `approved`, which only a webhook of Meta's can have
  written; that it was taken back since does not matter.
* **`StopInv`** for `StopIsHonoured`: the steps of a STOP one by one (`Stopping`), and an
  opted-out lead exists. The number of workers, crashes and second attempts do not matter.
  A failed read may only lead to `leadReread` and from there to the warning; **`FoundInv`**
  adds that without a failed read the lead is found there, so that nobody is given up.
* **`CarriersInv`**: a row has one job that carries it (`Sender`). **`AttemptsInv`**: it has
  been delivered at most as often as this job stalled, and once more when the job is past
  its call. Together they are `DuplicatesNeedCrashes`.
* **`StatusInv`** for the refinement: whoever works on a row has read `queued` and nobody
  else writes it; a handler that counts costs or writes `sent` has a delivery. Each action is then
  `Insert`, `Post` or `Resolve` of `SendLifecycle`, or leaves status and deliveries alone.
* **`SightInv`** for `QueuedSendAccountedFor`: a handler that is done has resolved its row,
  unless the row went to a `send-dm` job, which the dispatcher refuses and fails.
* **`CostInv`** for `CostsAreBacked`: the counted conversations of an account and those
  about to be counted are at most its rows with a delivery, and so are a count that a
  handler has read and everything still to be added. It survives the lost updates of several workers.
* **`OneEachInv`** (a worker holds one job), from which `Alone` follows with one worker;
  then **`CapInv`**: from the gate to the write there is room for one more; and
  **`ConsentInv`**: past the gate the customer has not opted out, because the one worker is
  busy with this send and cannot process a STOP.

For `Workspace` one inductive invariant, `WsInv`, carries all five:

* **`ReqsInv`** is what a request in progress knows. The time it took is not ahead of the
  clock. What it saw deleted when it was sent is deleted still (nothing undoes a
  deletion), so the workspace `buildCtx` gave it is none of those; that is
  `DeletedIsInvisible`. A deletion that found no earlier one stands before the first
  deletion or took its time before it, so that its stamp cannot lie after it; that is
  what `DeletionNotPostponed` needs of two requests that overlap. Once it has selected,
  every connected account of its workspace is still in its `rows`, is `cut`, or was written
  since and is in `lateLinks` (`Found`); this survives whatever the callbacks and the other
  deletions do, and with no `rows` left it is `DeletionCutsAccounts` at the COMMIT.
* **`DataInv`** holds of the rows: `OneWorkspaceEach`, the stamps, and
  `DeletionCutsAccounts`, which the COMMIT establishes and a late callback may only break
  by putting the account into `lateLinks`.
* **`PeopleInv`** is the type of sessions and tabs.

`Onwards` says what every step does to the facts a request rests on (the clock advances,
deletions stay, `gone` is set once), and the frame lemmas use it to carry the requests that
do not move (`OthersStayOK`, `RestStaysOK`, `OneRequestMoves`).

For the limits:

* **`WindowInv`**: no trim is ahead of the clock (`ClockInv`); a caller gets no member twice
  (`MembersInv`); what a caller is about to count is in the set, or has aged out
  (`CountedInv`); and while the key expires, it does so after the window of every send that was let
  through or is about to be (`ExpiryInv`). The last carries `AllowedStillCounts`;
  `CapWithinWindow` follows by counting the members at the moment of `Card`.
* **`BudgetInv`**: what is spent this month, and the dearest answer for each call that may
  still add to it, stays below the cap and one dearest answer for each place of the worker
  (`RoomInv`). A call pays its share from the gate on, and one that began last month has its
  share from the turn of the month. `MaxIs` gives the dearest answer.
* **`ChargesInv`** for `ChargesAreRecorded`: a call owes nothing until the model has
  answered; the sum of the rows and the sum of what the calls in progress still have to add
  is at most what was charged, and equal to it unless something named went wrong. A step of a call moves one term of
  each sum (`SumOfChange`), and the two moves cancel (`Ledger`).

The laws of sums are proved here: a sum over a finite set is taken from one function on all
its subsets (`TotalsExist`), and what holds of it is shown by `Induction`, which speaks of
sets of naturals and not of operators and follows from the well-foundedness of `<`.

For the parts of the dashboard the invariants say what every place between two statements
has done and has yet to do:

* **`FormInv`**: what the picker is loading belongs to the account it loads from
  (`MoreInv`), the server has compared template and account before it inserts (`CheckedInv`),
  and a page that waits, or whose automation is made, keeps its button shut (`OnceInv`).
* **`RowsInv`**: an automation nobody interfered with is patched by one request, and the
  rows before this request's place are its own (`PatchInv`); what an undisturbed clone
  has read is what the rows still say (`CloneInv`).
* **`SetupInv`**: a request updates a number only if its workspace has it (`OwnNumberInv`).
  Rows of a template are numbered, no two requests made the same (`SerialsInv`); until
  Meta's answer is recorded a row is a draft or gone (`DraftInv`), a row is disabled only
  when nobody submits it (`DeleteInv`); and the submissions made, with those still to be
  made, are at most the rows ever inserted (`PendingInv`), which is `OneSubmissionPerRow`.
* **`ModalInv`**: the answer that is awaited belongs to this opening, or is known to be late.
* **`TagsInv`**: an edit in between changed the row that is still there, or fewer edits were
  written when it read than are now (`ReadsInv`); the row is what the last writer wrote
  (`LastInv`); and an editor that has heard of the last write shows the row, or keeps it to
  show again while it waits (`ViewInv`). What is written is clean by the laws of `Dedupe` and
  of the filter (`DedupeIs`, `WithoutIs`): each is a fold, hence a walk over the list
  (`DedupeWalk`, `WithoutWalk`), and induction over the walk gives what it returns for lists
  of every length.
* **`PagesInv`**: of the rows there at the beginning that did not move, those that the reader
  is past without having seen them (`Passed`) are no more than the sends that left the
  list: leaving moves each row behind it forward by one place, and places are distinct
  (`PlaceIs`), so one row slips past. On the last page no more rows lie beyond it
  than came between its count and its items (`BeyondIs`).

The proofs go step by step over the actions. What an action does to the handlers, jobs
and rows it is *not* about is stated once, in the frame lemmas (`HandlerFrame`,
`JobFrame`, `EventFrame`, `SendFrame`, ...), and each invariant then treats only the
few actions that can disturb it.

## 7. What is only model-checked

* Liveness (`JobsSettle`, `EventsGetProcessed`, `SendsGetResolved`, `PagesSettle`): it
  needs fairness and `ENABLED`, which the provers do not handle. The liveness of the
  WhatsApp path is not checked: its jobs settle for the same reasons as those of `ig_live`.
* The counterexamples of the runs with `claim` in their name are single behaviours and need
  no proof.

`DmsFollowLifecycle` is checked with one worker. With two workers and an AI job it does not
hold: a redelivered `generate-ai-reply` job adds a second `send-dm` job for the row, and two
processes may both read `queued`.

## 8. What is not modelled

* Signature checks, token encryption, the HTTP of the adapters and the parsing of
  payloads: cryptography, I/O and pure conversions. What may come of them is in the actions
  that use them. Exports, counts and the rendering of pages read and keep no state.
* A live worker that loses its job lock while it goes on (a blocked event loop), and
  the durability of Redis: the queue never loses a job it has accepted.
* The queue's global limiter and the worker's poll and heartbeat timers: they delay
  jobs, and no property depends on how long anything takes.
* More than one tenant in the two worker modules. `db/repo.ts` scopes every query by
  `tenantId`; the exception is the ingest, which looks an Instagram account up by its id
  alone (`ingestMetaWebhook.ts:41`), so that with two workspaces that connected the same
  account the event goes to either of them.
* The composition of the deletion of a workspace with the worker: neither `sendDM` nor
  `sendCommentReply` reads `deletedAt` or `disconnectedAt`, so a job that is queued by then
  still sends, though the page after the deletion says otherwise.
* On the WhatsApp path: the price tables and the Indian-rupee amounts (the count is
  modelled), the sharing of one account by several customers, the rollover of the month
  (the count only grows), which words mean STOP, the token exchange of connecting.
  A template's earlier verdicts may be overtaken by later ones; no property says which
  should win, because the code takes them in the order of the queue and no document
  speaks of it. The same verdict given a second time counts as a duplicate webhook.
* The prompt of a second attempt of an AI job is the first attempt's stored answer
  (`GenLoad` takes the text of the row, as the code does). The model shows it, but no
  property speaks of it because no document says what the prompt should be. Nor of the gap
  in the record of opt-ins after a crash between the insert of a lead and the record.
* Rate limiter: a single command that fails inside a pipeline (a failed `ZCARD` counts as
  0), and the expiry of the key between two commands of one pipeline.
* Lists: ties of `lastSeenAt`, which may let rows change places between two pages, and the
  CSV's cut at 5000 rows.
* Sentences of the repository that the models contradict and no run states, because one
  look at the action shows it. `requestTenantDeletion.ts:4-5` and
  `docs/specs/013-privacy-and-dpdp.md:110` have every connected account disconnected, and an
  account that a callback writes between the SELECT and the COMMIT stays connected (`Link`,
  `lateLinks`). `docs/specs/026-whatsapp-foundation.md:524` has a STOP recorded, and a customer
  who is given up is not opted out although the event counts as processed (`LeadReread`).
  `duplicateAutomation.ts:4-6` clones an automation, and the clone of a WhatsApp automation names
  no account, which `automations_account_xor` of migration 016 always refuses (`InsertClone`).
* Automations: a clone for another account than the source's, and the status
  switch's race between two tabs (`ToggleStatus` writes either status). The form's box for
  any message, which empties a list that the schema wants filled, is in `InsertRows`; a
  text of blanks is not told from a text.
* WhatsApp templates: `createWhatsappTemplate.ts:9` says that a draft whose submission
  failed can be fixed and submitted again. `InsertTplDraft` shows that no request submits
  a row that is there; no run states that sentence.
* The wording of the usage card (it promises fallback templates at the cap, where
  `generateAiReply` marks the send failed; `Gate` has the latter).

## 9. Plan

Every safety property and every action property that a run checks is proved. What is left
to prove, if the code comes to be mended: the properties of the `claim` runs, each of which is
then a theorem to try.

What is left to model: the worker with two workspaces, composed with their deletion; and
pure functions over bounded inputs (keyword matching, STOP words, template rendering).

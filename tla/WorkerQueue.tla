------------------------------ MODULE WorkerQueue ------------------------------
(***************************************************************************)
(* The single BullMQ queue `events' and the worker processes that consume  *)
(* it (packages/shared/src/queue, apps/worker/src/index.ts).               *)
(*                                                                         *)
(* A job is added without options, so BullMQ gives it one attempt: a       *)
(* handler that throws leaves it in `failed' for good.  The only way a job *)
(* is handed out a second time is BullMQ's stalled-job check, after the    *)
(* process that ran it has died.  BullMQ itself is a library: its part is  *)
(* modelled from the way the repository configures it.                     *)
(*                                                                         *)
(* The order in which waiting jobs are taken is left open: BullMQ is FIFO  *)
(* but a stalled job re-enters at the other end, and no property below     *)
(* depends on the order.  The global limiter (1000 jobs an hour) only      *)
(* delays jobs and is left out, as are the heartbeat and the poll timers.  *)
(***************************************************************************)
EXTENDS Naturals

CONSTANTS Workers,          \* worker processes; each has WORKER_CONCURRENCY = 1
          Messages,         \* Meta events, by metaEventId
          Accounts,         \* igAccounts or whatsappAccounts row ids
          MaxJobs,          \* bound: jobs ever added
          MaxSends,         \* bound: sends rows ever inserted
          MaxStalledCount,  \* BullMQ's maxStalledCount (its default is 1)
          None              \* SQL NULL, "no worker", "not there"

ASSUME QueueAssumption ==
  /\ MaxJobs \in Nat /\ MaxSends \in Nat /\ MaxStalledCount \in Nat
  /\ None \notin Workers \cup Messages \cup Accounts

VARIABLE jobs               \* JobIds -> Job, the contents of the Redis queue

JobIds  == 1 .. MaxJobs
SendIds == 1 .. MaxSends

\* What a text is, as far as the properties tell texts apart: the customer's own
\* words, a rendered template, an AI reply, one that moderation has flagged, the
\* AI fallback, or nothing at all.
Texts == {"empty", "inbound", "template", "reply", "ai", "flagged", "fallback"}

JobType == {"process-event", "generate-ai-reply", "send-dm", "send-comment-reply",
            "send-whatsapp"}

\* The discriminated union JobData; `send' is 0 in the variant that has none.
JobData == [type : JobType, event : Messages \cup {None}, send : 0 .. MaxSends,
            account : Accounts \cup {None}, text : Texts]

ProcessEventJob(m) ==
  [type |-> "process-event", event |-> m, send |-> 0, account |-> None, text |-> "empty"]
GenerateAiReplyJob(m, s) ==
  [type |-> "generate-ai-reply", event |-> m, send |-> s, account |-> None, text |-> "empty"]
SendDMJob(s, acc, t) ==
  [type |-> "send-dm", event |-> None, send |-> s, account |-> acc, text |-> t]
SendCommentReplyJob(s, acc, t) ==
  [type |-> "send-comment-reply", event |-> None, send |-> s, account |-> acc, text |-> t]
SendWhatsappJob(s, acc, t) ==
  [type |-> "send-whatsapp", event |-> None, send |-> s, account |-> acc, text |-> t]

\* JobData.parse: the sending variants need an account uuid; those for Instagram a
\* text that is not empty as well.
Parses(d) ==
  /\ d.type \in {"send-dm", "send-comment-reply", "send-whatsapp"} => d.account # None
  /\ d.type \in {"send-dm", "send-comment-reply"} => d.text # "empty"

Job == [state  : {"none", "waiting", "active", "completed", "failed"},
        data   : JobData,
        worker : Workers \cup {None},
        stalls : 0 .. MaxStalledCount]

NoData == ProcessEventJob(None)
NoJob  == [state |-> "none", data |-> NoData, worker |-> None, stalls |-> 0]

QueueInit == jobs = [j \in JobIds |-> NoJob]

\* Job ids are handed out in order.
IsNextJob(j) ==
  /\ jobs[j].state = "none"
  /\ \A i \in JobIds : i < j => jobs[i].state # "none"

\* eventsQueue.add(name, d): no options, hence no retries, no delay, no jobId.
Add(j, d) ==
  /\ IsNextJob(j)
  /\ jobs' = [jobs EXCEPT ![j] = [state |-> "waiting", data |-> d,
                                  worker |-> None, stalls |-> 0]]

\* An idle process takes a waiting job.  Two attempts never overlap in a process.
Take(w, j) ==
  /\ jobs[j].state = "waiting"
  /\ \A i \in JobIds : jobs[i].state = "active" => jobs[i].worker # w
  /\ jobs' = [jobs EXCEPT ![j].state = "active", ![j].worker = w]

\* The processor's promise settles: "completed" if it resolved, "failed" if it
\* rejected.  attempts = 1, so a failed job is never moved back to waiting.
Settle(j, outcome) ==
  /\ jobs[j].state = "active"
  /\ jobs' = [jobs EXCEPT ![j].state = outcome, ![j].worker = None]

\* The process dies: its job stays in the active list with no one running it.
Lose(w) ==
  jobs' = [j \in JobIds |->
             IF jobs[j].state = "active" /\ jobs[j].worker = w
               THEN [jobs[j] EXCEPT !.worker = None] ELSE jobs[j]]

\* A mutant of CheckStalled: stalls are not counted, so a job may come back for ever.
CheckStalledForEver(j) ==
  /\ jobs[j].state = "active" /\ jobs[j].worker = None
  /\ jobs' = [jobs EXCEPT ![j].state = "waiting"]

\* The stalled check (every stalledInterval): such a job is handed out again, at
\* most maxStalledCount times; then it is failed.
CheckStalled(j) ==
  /\ jobs[j].state = "active" /\ jobs[j].worker = None
  /\ jobs' = IF jobs[j].stalls < MaxStalledCount
               THEN [jobs EXCEPT ![j].state = "waiting", ![j].stalls = @ + 1]
               ELSE [jobs EXCEPT ![j].state = "failed"]

Live(j) == jobs[j].state \in {"waiting", "active"}
================================================================================

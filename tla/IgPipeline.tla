------------------------------- MODULE IgPipeline -------------------------------
(***************************************************************************)
(* The Instagram path of the product: a webhook event is stored and queued *)
(* (ingestMetaWebhook), a worker matches it against the tenant's           *)
(* automations (processEvent, processCommentEvent, processDmEvent,         *)
(* processStoryReplyEvent, captureLead), and further jobs generate an AI   *)
(* reply (generateAiReply), send the DM (sendDM) or answer the comment     *)
(* (sendCommentReply).                                                     *)
(*                                                                         *)
(* There is one action per database write, queue.add or Meta call: between *)
(* any two of them another worker, the webhook route, the owner or a crash *)
(* may step in.  Reads with no write in between that other actors disturb  *)
(* only together (an automation with its trigger and response) share the   *)
(* step of the first one.                                                  *)
(***************************************************************************)
EXTENDS WorkerQueue, FiniteSets

CONSTANTS Automations,  \* automations row ids
          Intents,      \* labels of the intent classifier
          Message,      \* Message[m]: what the handlers read from the payload
          Config,       \* Config[a]: an automation with its trigger and response
          Hits,         \* Hits[m]: automations whose keywords and postIds match m
          Env           \* which disturbances of the environment a run includes

Kinds     == {"comment", "message", "storyReply", "other"}
Triggers  == {"comment", "dm", "storyReply"}
Templates == {"none", "fixed", "name"}   \* absent; literal; only placeholders
Outcomes  == {"sent", "failed", "outsideWindow", "rateLimited"}

ASSUME PipelineAssumption ==
  /\ None \notin Automations \cup Intents
  /\ Message \in [Messages -> [kind : Kinds, text : BOOLEAN, contact : BOOLEAN,
                               username : BOOLEAN, to : SUBSET Accounts]]
  /\ Config \in [Automations -> [trigger : Triggers, account : Accounts,
                                 ai : BOOLEAN, template : Templates,
                                 commentReply : Templates, fallback : BOOLEAN,
                                 intents : SUBSET Intents]]
  /\ Hits \in [Messages -> SUBSET Automations]
  /\ Env \subseteq {"crash", "throw", "addFails", "timeout", "reject", "server",
                    "blank", "flagged", "gates", "status", "delete", "disconnect"}

VARIABLES events,       \* Messages -> Event, the events table and its ingest
          sends,        \* SendIds -> Send, the sends table
          accounts,     \* the igAccounts rows that exist
          automations,  \* Automations -> "active" | "paused" | "deleted"
          captured,     \* messages whose contact details are in the leads table
          act,          \* JobIds -> Act, the local state of the handler of a job
          delivered     \* SendIds -> how often Meta accepted the send

vars == <<jobs, events, sends, accounts, automations, captured, act, delivered>>
tables == <<events, sends, accounts, automations, captured, delivered>>

\* `stage' is the ingest loop's place for this event: not inserted, between the
\* insert and queue.add, added, or queue.add failed (logged, never tried again).
Event == [stage : {"absent", "inserted", "queued", "unqueued"},
          account : Accounts \cup {None}, intent : Intents \cup {None},
          processed : BOOLEAN]

\* "none": no such row yet; "deleted": the row went with its account.
\* `by' and `run' (the job that inserted it, and which attempt) are history.
Send == [status : {"none", "queued", "deleted"} \cup Outcomes,
         kind : {"dm", "commentReply"}, event : Messages \cup {None},
         account : Accounts \cup {None}, automation : Automations \cup {None},
         text : Texts, by : 0 .. MaxJobs, run : 0 .. MaxStalledCount]

NoSend == [status |-> "none", kind |-> "dm", event |-> None, account |-> None,
           automation |-> None, text |-> "empty", by |-> 0, run |-> 0]

\* Where a handler is: the step it takes next.
PC == {"idle", "load", "dedupe", "classify", "query", "next", "insertDm", "addDm",
       "insertReply", "addReply", "mark", "stopped", "return",
       "dmLoad", "dmGate", "dmPost", "crLoad", "crPost", "write",
       "genLoad", "genAsk", "genContent", "genAdd"}

Act == [pc : PC, worker : Workers \cup {None}, account : Accounts \cup {None},
        intent : Intents \cup {None}, todo : SUBSET Automations,
        automation : Automations \cup {None}, send : 0 .. MaxSends, text : Texts,
        lead : {"none", "running", "done", "failed"}, flagged : BOOLEAN,
        out : {"none", "retry"} \cup Outcomes]

Idle == [pc |-> "idle", worker |-> None, account |-> None, intent |-> None,
         todo |-> {}, automation |-> None, send |-> 0, text |-> "empty",
         lead |-> "none", flagged |-> FALSE, out |-> "none"]

Init ==
  /\ QueueInit
  /\ events = [m \in Messages |-> [stage |-> "absent", account |-> None,
                                   intent |-> None, processed |-> FALSE]]
  /\ sends = [s \in SendIds |-> NoSend]
  /\ accounts = Accounts
  /\ automations \in [Automations -> {"active", "paused"}]
  /\ captured = {}
  /\ act = [j \in JobIds |-> Idle]
  /\ delivered = [s \in SendIds |-> 0]

--------------------------------------------------------------------------------
(* Helpers.                                                                *)

EventOf(j)  == jobs[j].data.event
Running(j)  == jobs[j].state = "active"      \* the attempt still counts
Rows(m)     == {s \in SendIds : sends[s].event = m
                                /\ sends[s].status \notin {"none", "deleted"}}

\* A placeholder-only template renders to '' when the sender has no username.
Renders(template, m) == template = "fixed" \/ (template = "name" /\ Message[m].username)

TriggerOf(kind) == CASE kind = "comment"    -> "comment"
                     [] kind = "message"    -> "dm"
                     [] kind = "storyReply" -> "storyReply"
                     [] OTHER               -> "none"

intentGateAllows(intents, intent) ==
  intents = {} \/ intent = None \/ intent \in intents

\* The handler of job j goes on in state h; at step p.
Becomes(j, h) == act' = [act EXCEPT ![j] = h]
Goto(j, p)    == Becomes(j, [act[j] EXCEPT !.pc = p])

\* The attempt is over: the promise of the processor settles.
End(j, outcome) ==
  /\ Settle(j, outcome)
  /\ Becomes(j, Idle)

\* An await rejects.  The job fails; in a `message' event the other branch of
\* Promise.all, captureLead, keeps running without anyone waiting for it.
Reject(j) ==
  /\ IF Running(j) THEN Settle(j, "failed") ELSE UNCHANGED jobs
  /\ Becomes(j, IF act[j].lead = "running"
                  THEN [Idle EXCEPT !.pc = "stopped", !.worker = act[j].worker,
                                    !.account = act[j].account, !.lead = "running"]
                  ELSE Idle)

IsNextSend(s) ==
  /\ sends[s].status = "none"
  /\ \A i \in SendIds : i < s => sends[i].status # "none"

\* db.insertOne('sends', ...): foreign keys on the account and the automation.
ForeignKeysHold(j) ==
  act[j].account \in accounts /\ automations[act[j].automation] # "deleted"

InsertSend(j, s, kind, text) ==
  /\ IsNextSend(s)
  /\ ForeignKeysHold(j)
  /\ sends' = [sends EXCEPT ![s] =
        [status |-> "queued", kind |-> kind, event |-> EventOf(j),
         account |-> act[j].account, automation |-> act[j].automation,
         text |-> text, by |-> j, run |-> jobs[j].stalls]]

\* The step after the DM of automation a has been dealt with.
AfterDm(m, a) ==
  IF Message[m].kind = "comment" /\ Config[a].commentReply # "none"
    THEN "insertReply" ELSE "next"

\* An update by id touches nothing when the row went with its account.
OnRow(s, row) ==
  IF sends[s].status \in {"none", "deleted"} THEN sends
  ELSE [sends EXCEPT ![s] = row]

AtMeta(j) == act[j].pc \in {"dmPost", "crPost"}

--------------------------------------------------------------------------------
(* Mutants: bugs that the handlers could have and do not.  None is part of *)
(* the specification; each property is checked to fail when one of them    *)
(* takes the place of the action it is named after.                        *)

\* The retry dedupe is missing.
DedupeForgotten(j) ==
  /\ act[j].pc = "dedupe"
  /\ Goto(j, "classify")
  /\ UNCHANGED <<jobs, tables>>

\* The classifier is asked on every attempt.
ClassifyIntentAgain(j) ==
  /\ act[j].pc = "classify"
  /\ \E i \in Intents : /\ Becomes(j, [act[j] EXCEPT !.pc = "query", !.intent = i])
                        /\ events' = [events EXCEPT ![EventOf(j)].intent = i]
  /\ UNCHANGED <<jobs, sends, accounts, automations, captured, delivered>>

\* The row is inserted and the job never added.
AddDmForgotten(j) ==
  /\ act[j].pc = "addDm"
  /\ Goto(j, AfterDm(EventOf(j), act[j].automation))
  /\ UNCHANGED <<jobs, tables>>

\* The AI branch is not taken: the placeholder content goes out as the DM.
AddDmIgnoresAi(j) ==
  /\ act[j].pc = "addDm"
  /\ \E k \in JobIds : Add(k, SendDMJob(act[j].send, act[j].account, act[j].text))
  /\ Goto(j, AfterDm(EventOf(j), act[j].automation))
  /\ UNCHANGED tables

\* processedAt is set without waiting for captureLead; or it is not set.
MarkProcessedEarly(j) ==
  /\ act[j].pc = "mark"
  /\ events' = [events EXCEPT ![EventOf(j)].processed = TRUE]
  /\ Goto(j, "return")
  /\ UNCHANGED <<jobs, sends, accounts, automations, captured, delivered>>

MarkProcessedForgotten(j) ==
  /\ act[j].pc = "mark" /\ act[j].lead \in {"none", "done"}
  /\ Goto(j, "return")
  /\ UNCHANGED <<jobs, tables>>

\* The reply is stored and not queued.
GenAddForgotten(j) ==
  /\ act[j].pc = "genAdd" /\ Goto(j, "return")
  /\ UNCHANGED <<jobs, tables>>

\* sendDM does not look at the status of the row.
DmLoadUnchecked(j) ==
  /\ act[j].pc = "dmLoad" /\ Goto(j, "dmGate")
  /\ UNCHANGED <<jobs, tables>>

\* A lost answer is answered by posting once more.
PostAnswerLostRetries(j) ==
  /\ AtMeta(j) /\ "timeout" \in Env
  /\ delivered' = [delivered EXCEPT ![act[j].send] = @ + 1]
  /\ UNCHANGED <<jobs, events, sends, accounts, automations, captured, act>>

\* The outcome is upserted; or written even when it is "try again".
WriteOutcomeUpserts(j) ==
  /\ act[j].pc = "write"
  /\ sends' = IF act[j].out = "retry" THEN sends
              ELSE [sends EXCEPT ![act[j].send].status = act[j].out]
  /\ Goto(j, "return")
  /\ UNCHANGED <<jobs, events, accounts, automations, captured, delivered>>

WriteOutcomeAlways(j) ==
  /\ act[j].pc = "write"
  /\ sends' = OnRow(act[j].send, [sends[act[j].send] EXCEPT !.status = act[j].out])
  /\ Goto(j, "return")
  /\ UNCHANGED <<jobs, events, accounts, automations, captured, delivered>>

--------------------------------------------------------------------------------
(* Ingest and queue.                                                       *)

\* resolveTenant and insertOne('events').  The unique metaEventId admits one row
\* per event: a redelivery finds stage # "absent" and only counts a duplicate.
\* An insert that fails for another reason is counted, answered with 200 and
\* never seen again, as if Meta had not sent the event.
InsertEvent(m) ==
  /\ events[m].stage = "absent"
  /\ LET rows == accounts \cap Message[m].to IN
     \E acc \in IF rows = {} THEN {None} ELSE rows :
       events' = [events EXCEPT ![m].stage = "inserted", ![m].account = acc]
  /\ UNCHANGED <<jobs, sends, accounts, automations, captured, act, delivered>>

EnqueueEvent(m) ==
  /\ events[m].stage = "inserted"
  /\ \E j \in JobIds : Add(j, ProcessEventJob(m))
  /\ events' = [events EXCEPT ![m].stage = "queued"]
  /\ UNCHANGED <<sends, accounts, automations, captured, act, delivered>>

\* queue.add throws, or the route's process is gone: the row stays, the job never
\* comes, and a redelivery by Meta is a duplicate.
EnqueueEventFails(m) ==
  /\ "addFails" \in Env
  /\ events[m].stage = "inserted"
  /\ events' = [events EXCEPT ![m].stage = "unqueued"]
  /\ UNCHANGED <<jobs, sends, accounts, automations, captured, act, delivered>>

FirstStep(type) == CASE type = "process-event"      -> "load"
                     [] type = "generate-ai-reply"  -> "genLoad"
                     [] type = "send-dm"            -> "dmLoad"
                     [] type = "send-comment-reply" -> "crLoad"

\* dispatchJob: parse, then hand over to the handler of the job's type.
Start(w, j) ==
  /\ Take(w, j)
  /\ Parses(jobs[j].data)
  /\ Becomes(j, [Idle EXCEPT !.pc = FirstStep(jobs[j].data.type), !.worker = w,
                             !.send = jobs[j].data.send])
  /\ UNCHANGED tables

\* The parse throws before any await: taking the job and failing it is one step.
Refuse(w, j) ==
  /\ jobs[j].state = "waiting"
  /\ \A i \in JobIds : jobs[i].state = "active" => jobs[i].worker # w
  /\ ~Parses(jobs[j].data)
  /\ jobs' = [jobs EXCEPT ![j].state = "failed"]
  /\ UNCHANGED <<act, tables>>

Stalled(j) == CheckStalled(j) /\ UNCHANGED <<act, tables>>

\* Kill, out-of-memory, redeploy that outlives the grace period: everything the
\* process was doing is gone, detached branches included.
Crash(w) ==
  /\ "crash" \in Env
  /\ \E j \in JobIds : act[j].worker = w
  /\ Lose(w)
  /\ act' = [j \in JobIds |-> IF act[j].worker = w THEN Idle ELSE act[j]]
  /\ UNCHANGED tables

\* A database or Redis call rejects.  Failures of the Meta and OpenAI calls are
\* caught by the handlers and have actions of their own, and so have the write of
\* "sent", which shares the try block of the Meta call, and what generateAiReply
\* does about flagged output, which shares that of the moderation call.
Throw(j) ==
  /\ "throw" \in Env
  /\ act[j].pc \notin {"idle", "stopped", "return", "dmPost", "crPost"}
  /\ ~(act[j].pc = "write" /\ act[j].out = "sent")
  /\ ~act[j].flagged
  /\ act[j].pc = "mark" => act[j].lead \in {"none", "done"}
  /\ Reject(j)
  /\ UNCHANGED tables

\* The handler has returned, or has thrown after recording its outcome.
Return(j) ==
  /\ act[j].pc = "return"
  /\ End(j, IF act[j].out \in {"rateLimited", "retry"} THEN "failed" ELSE "completed")
  /\ UNCHANGED tables

--------------------------------------------------------------------------------
(* process-event: processEvent and the matching handlers.                  *)

\* Load the event; skip it if processed; else branch on its kind.  Orphans, other
\* kinds and payloads without text go straight to the processedAt update.
Load(j) ==
  LET m == EventOf(j)
      e == events[m]
      matches == e.account # None /\ Message[m].text /\ Message[m].kind # "other"
      lead    == matches /\ Message[m].kind = "message" /\ Message[m].contact
      first   == IF ~matches THEN "mark"
                 ELSE IF Message[m].kind = "comment" THEN "classify" ELSE "dedupe"
  IN /\ act[j].pc = "load"
     /\ \/ e.processed /\ End(j, "completed")
        \/ /\ ~e.processed
           /\ Becomes(j, [act[j] EXCEPT !.account = e.account, !.intent = e.intent,
                                        !.pc = first,
                                        !.lead = IF lead THEN "running" ELSE "none"])
           /\ UNCHANGED jobs
     /\ UNCHANGED tables

\* processDmEvent and processStoryReplyEvent stop when the event has sends rows.
\* processCommentEvent has no such check.
Dedupe(j) ==
  /\ act[j].pc = "dedupe"
  /\ Goto(j, IF Rows(EventOf(j)) # {} THEN "mark" ELSE "classify")
  /\ UNCHANGED <<jobs, tables>>

\* classifyEventIntent: keep the label of an earlier attempt; a story reply has no
\* text for it; else the classifier answers or, for want of key, budget or
\* success, does not.
ClassifyIntent(j) ==
  LET m == EventOf(j) IN
  /\ act[j].pc = "classify"
  /\ IF act[j].intent # None \/ Message[m].kind = "storyReply"
       THEN Goto(j, "query") /\ UNCHANGED events
       ELSE \E i \in Intents \cup {None} :
              /\ Becomes(j, [act[j] EXCEPT !.pc = "query", !.intent = i])
              /\ events' = IF i = None THEN events
                           ELSE [events EXCEPT ![m].intent = i]
  /\ UNCHANGED <<jobs, sends, accounts, automations, captured, delivered>>

QueryAutomations(j) ==
  LET found == {a \in Automations :
                  /\ automations[a] = "active"
                  /\ Config[a].account = act[j].account
                  /\ Config[a].trigger = TriggerOf(Message[EventOf(j)].kind)}
  IN /\ act[j].pc = "query"
     /\ Becomes(j, [act[j] EXCEPT !.pc = "next", !.todo = found])
     /\ UNCHANGED <<jobs, tables>>

\* One iteration of the loop: an automation deleted since the query is skipped
\* (no trigger row), and so is one that keywords, posts or intents rule out.
Match(j, a) ==
  LET m == EventOf(j)
      fires == automations[a] # "deleted" /\ a \in Hits[m]
               /\ intentGateAllows(Config[a].intents, act[j].intent)
      text  == IF Config[a].ai THEN "inbound" ELSE "template"
      step  == IF Config[a].ai \/ Renders(Config[a].template, m)
                 THEN "insertDm" ELSE AfterDm(m, a)
  IN /\ act[j].pc = "next" /\ a \in act[j].todo
     /\ \/ /\ fires
           /\ Becomes(j, [act[j] EXCEPT !.todo = @ \ {a}, !.automation = a,
                                        !.text = text, !.pc = step])
        \/ /\ ~fires
           /\ Becomes(j, [act[j] EXCEPT !.todo = @ \ {a}])
     /\ UNCHANGED <<jobs, tables>>

MatchingDone(j) ==
  /\ act[j].pc = "next" /\ act[j].todo = {}
  /\ Becomes(j, [act[j] EXCEPT !.pc = "mark", !.automation = None,
                               !.text = "empty", !.send = 0])
  /\ UNCHANGED <<jobs, tables>>

InsertDm(j) ==
  /\ act[j].pc = "insertDm"
  /\ \E s \in SendIds :
       /\ InsertSend(j, s, "dm", act[j].text)
       /\ Becomes(j, [act[j] EXCEPT !.pc = "addDm", !.send = s])
  /\ UNCHANGED <<jobs, events, accounts, automations, captured, delivered>>

\* commentReply is tested before it is rendered: a reply made of placeholders only
\* may come out empty.
InsertReply(j) ==
  LET text == IF Renders(Config[act[j].automation].commentReply, EventOf(j))
                THEN "reply" ELSE "empty"
  IN /\ act[j].pc = "insertReply"
     /\ \E s \in SendIds :
          /\ InsertSend(j, s, "commentReply", text)
          /\ Becomes(j, [act[j] EXCEPT !.pc = "addReply", !.send = s, !.text = text])
     /\ UNCHANGED <<jobs, events, accounts, automations, captured, delivered>>

\* The account or the automation was deleted under the handler: insertOne rejects.
InsertFails(j) ==
  /\ act[j].pc \in {"insertDm", "insertReply"}
  /\ ~ForeignKeysHold(j)
  /\ Reject(j)
  /\ UNCHANGED tables

AddDm(j) ==
  LET a == act[j].automation IN
  /\ act[j].pc = "addDm"
  /\ \E k \in JobIds :
       Add(k, IF Config[a].ai
                THEN GenerateAiReplyJob(EventOf(j), act[j].send)
                ELSE SendDMJob(act[j].send, act[j].account, act[j].text))
  /\ Goto(j, AfterDm(EventOf(j), a))
  /\ UNCHANGED tables

AddReply(j) ==
  /\ act[j].pc = "addReply"
  /\ \E k \in JobIds :
       Add(k, SendCommentReplyJob(act[j].send, act[j].account, act[j].text))
  /\ Goto(j, "next")
  /\ UNCHANGED tables

\* captureLead, the other branch of Promise.all: an upsert on the sender's key.
CaptureLead(j) ==
  /\ act[j].lead = "running"
  /\ act[j].account \in accounts
  /\ captured' = captured \cup {EventOf(j)}
  /\ Becomes(j, IF act[j].pc = "stopped" THEN Idle ELSE [act[j] EXCEPT !.lead = "done"])
  /\ UNCHANGED <<jobs, events, sends, accounts, automations, delivered>>

\* Its upsert rejects: Promise.all rejects at once and the job fails, while the
\* matching branch runs on, detached.
CaptureLeadFails(j) ==
  /\ act[j].lead = "running"
  /\ act[j].account \notin accounts \/ "throw" \in Env
  /\ IF act[j].pc = "stopped"
       THEN Becomes(j, Idle) /\ UNCHANGED jobs
       ELSE Becomes(j, [act[j] EXCEPT !.lead = "failed"]) /\ Settle(j, "failed")
  /\ UNCHANGED tables

\* UPDATE events SET processedAt WHERE processedAt IS NULL, once both branches of
\* the event have resolved.
MarkProcessed(j) ==
  /\ act[j].pc = "mark" /\ act[j].lead \in {"none", "done"}
  /\ events' = [events EXCEPT ![EventOf(j)].processed = TRUE]
  /\ Goto(j, "return")
  /\ UNCHANGED <<jobs, sends, accounts, automations, captured, delivered>>

\* A detached matching branch ends; nobody awaits it.
DetachedEnd(j) ==
  /\ act[j].pc = "mark" /\ act[j].lead = "failed"
  /\ Becomes(j, Idle)
  /\ UNCHANGED <<jobs, tables>>

--------------------------------------------------------------------------------
(* generate-ai-reply: generateAiReply.  What the reply costs is not here.  *)

GenLoad(j) ==
  LET row == sends[act[j].send]
      h   == [act[j] EXCEPT !.account = row.account, !.automation = row.automation,
                            !.text = row.text]
  IN /\ act[j].pc = "genLoad"
     /\ \/ row.status # "queued" /\ End(j, "completed")
        \/ /\ row.status = "queued" /\ row.automation = None
           /\ Becomes(j, [h EXCEPT !.pc = "write", !.out = "failed"])
           /\ UNCHANGED jobs
        \/ /\ row.status = "queued" /\ row.automation # None
           /\ Becomes(j, [h EXCEPT !.pc = "genAsk"])
           /\ UNCHANGED jobs
     /\ UNCHANGED tables

\* The model answers the text found in the row (which may be blank once trimmed);
\* or there is no key, the call fails or its output is flagged, and the fallback
\* takes over; or there is no fallback, or the month's budget is spent.  Flagged
\* output is dealt with inside the try block of the moderation call.
GenAnswered(j) ==
  /\ act[j].pc = "genAsk"
  /\ \E t \in {"ai"} \cup (IF "blank" \in Env THEN {"empty"} ELSE {}) :
       Becomes(j, [act[j] EXCEPT !.pc = "genContent", !.text = t])
  /\ UNCHANGED <<jobs, tables>>

GenFallback(j) ==
  /\ act[j].pc = "genAsk"
  /\ Config[act[j].automation].fallback
  /\ Becomes(j, [act[j] EXCEPT !.pc = "genContent", !.text = "fallback"])
  /\ UNCHANGED <<jobs, tables>>

GenFails(j) ==
  /\ act[j].pc = "genAsk"
  /\ Becomes(j, [act[j] EXCEPT !.pc = "write", !.out = "failed"])
  /\ UNCHANGED <<jobs, tables>>

GenFlagged(j) ==
  /\ "flagged" \in Env
  /\ act[j].pc = "genAsk"
  /\ \/ /\ Config[act[j].automation].fallback
        /\ Becomes(j, [act[j] EXCEPT !.pc = "genContent", !.text = "fallback",
                                     !.flagged = TRUE])
     \/ /\ ~Config[act[j].automation].fallback
        /\ Becomes(j, [act[j] EXCEPT !.pc = "write", !.out = "failed", !.flagged = TRUE])
  /\ UNCHANGED <<jobs, tables>>

\* Storing the fallback, queueing it or marking the send failed rejects: the catch
\* clause takes that for a failure of the moderation call and lets the output pass.
ModerationCaught(j) ==
  /\ "throw" \in Env
  /\ act[j].flagged /\ act[j].pc \in {"genContent", "genAdd", "write"}
  /\ Becomes(j, [act[j] EXCEPT !.pc = "genContent", !.text = "flagged",
                               !.out = "none", !.flagged = FALSE])
  /\ UNCHANGED <<jobs, tables>>

GenContent(j) ==
  LET s == act[j].send IN
  /\ act[j].pc = "genContent"
  /\ sends' = OnRow(s, [sends[s] EXCEPT !.text = act[j].text])
  /\ Goto(j, "genAdd")
  /\ UNCHANGED <<jobs, events, accounts, automations, captured, delivered>>

GenAdd(j) ==
  /\ act[j].pc = "genAdd"
  /\ \E k \in JobIds : Add(k, SendDMJob(act[j].send, act[j].account, act[j].text))
  /\ Goto(j, "return")
  /\ UNCHANGED tables

--------------------------------------------------------------------------------
(* send-dm and send-comment-reply: sendDM, sendCommentReply.               *)

DmLoad(j) ==
  /\ act[j].pc = "dmLoad"
  /\ IF sends[act[j].send].status # "queued"
       THEN End(j, "completed")
       ELSE Goto(j, "dmGate") /\ UNCHANGED jobs
  /\ UNCHANGED tables

\* The gates before the call.  How much of the day and of the hourly allowance is
\* left is not part of this module: either gate may be closed.
DmGate(j) ==
  LET connected == jobs[j].data.account \in accounts
      closed    == IF ~connected THEN {"failed"}
                   ELSE (IF "gates" \in Env THEN {"outsideWindow", "rateLimited"} ELSE {})
                        \cup (IF "reject" \in Env THEN {"failed"} ELSE {})
  IN /\ act[j].pc = "dmGate"
     /\ \/ connected /\ Goto(j, "dmPost")
        \/ \E o \in closed : Becomes(j, [act[j] EXCEPT !.pc = "write", !.out = o])
     /\ UNCHANGED <<jobs, tables>>

\* sendCommentReply looks at the account, never at the status of its row.
CrLoad(j) ==
  /\ act[j].pc = "crLoad"
  /\ \/ /\ jobs[j].data.account \in accounts
        /\ Goto(j, "crPost")
     \/ /\ jobs[j].data.account \notin accounts \/ "reject" \in Env
        /\ Becomes(j, [act[j] EXCEPT !.pc = "write", !.out = "failed"])
  /\ UNCHANGED <<jobs, tables>>

\* The POST to Meta, by what comes of it: accepted; accepted but the answer lost
\* (abort after 15 s, connection reset); refused; a 5xx or 429.
PostAccepted(j) ==
  /\ AtMeta(j)
  /\ delivered' = [delivered EXCEPT ![act[j].send] = @ + 1]
  /\ Becomes(j, [act[j] EXCEPT !.pc = "write", !.out = "sent"])
  /\ UNCHANGED <<jobs, events, sends, accounts, automations, captured>>

PostAnswerLost(j) ==
  /\ AtMeta(j) /\ "timeout" \in Env
  /\ delivered' = [delivered EXCEPT ![act[j].send] = @ + 1]
  /\ Becomes(j, [act[j] EXCEPT !.pc = "write", !.out = "failed"])
  /\ UNCHANGED <<jobs, events, sends, accounts, automations, captured>>

PostRefused(j) ==
  /\ AtMeta(j) /\ "reject" \in Env
  /\ Becomes(j, [act[j] EXCEPT !.pc = "write", !.out = "failed"])
  /\ UNCHANGED <<jobs, tables>>

\* sendDM marks the error retryable; sendCommentReply treats it as any other.
PostServerError(j) ==
  /\ AtMeta(j) /\ "server" \in Env
  /\ Becomes(j, [act[j] EXCEPT !.pc = "write",
                               !.out = IF act[j].pc = "dmPost" THEN "retry" ELSE "failed"])
  /\ UNCHANGED <<jobs, tables>>

\* Record the outcome, whatever the row says by now.  A retryable error leaves the
\* status alone (it only counts the attempt) and is thrown again.
WriteOutcome(j) ==
  LET s == act[j].send IN
  /\ act[j].pc = "write"
  /\ sends' = IF act[j].out = "retry" THEN sends
              ELSE OnRow(s, [sends[s] EXCEPT !.status = act[j].out])
  /\ Goto(j, "return")
  /\ UNCHANGED <<jobs, events, accounts, automations, captured, delivered>>

\* The write of "sent" rejects inside the try block of the call: the catch clause
\* marks the send failed although Meta has it.
WriteSentFails(j) ==
  /\ "throw" \in Env
  /\ act[j].pc = "write" /\ act[j].out = "sent"
  /\ Becomes(j, [act[j] EXCEPT !.out = "failed"])
  /\ UNCHANGED <<jobs, tables>>

--------------------------------------------------------------------------------
(* What the owner does meanwhile.                                          *)

\* updateAutomation with a status (paused stands for archived as well).
SetStatus(a) ==
  /\ "status" \in Env /\ automations[a] # "deleted"
  /\ automations' = [automations EXCEPT
                       ![a] = IF @ = "active" THEN "paused" ELSE "active"]
  /\ UNCHANGED <<jobs, events, sends, accounts, captured, act, delivered>>

\* deleteAutomation: trigger and response go along, sends keep a NULL.
DeleteAutomation(a) ==
  /\ "delete" \in Env /\ automations[a] # "deleted"
  /\ automations' = [automations EXCEPT ![a] = "deleted"]
  /\ sends' = [s \in SendIds |-> IF sends[s].automation = a
                                   THEN [sends[s] EXCEPT !.automation = None]
                                   ELSE sends[s]]
  /\ UNCHANGED <<jobs, events, accounts, captured, act, delivered>>

\* disconnectIgAccount: a hard delete.  Automations, sends and leads cascade, the
\* events keep a NULL.
Disconnect(acc) ==
  /\ "disconnect" \in Env /\ acc \in accounts
  /\ accounts' = accounts \ {acc}
  /\ automations' = [a \in Automations |-> IF Config[a].account = acc
                                             THEN "deleted" ELSE automations[a]]
  /\ sends' = [s \in SendIds |-> IF sends[s].account = acc
                                   THEN [sends[s] EXCEPT !.status = "deleted",
                                                         !.automation = None]
                                   ELSE sends[s]]
  /\ captured' = {m \in captured : events[m].account # acc}
  /\ events' = [m \in Messages |-> IF events[m].account = acc
                                     THEN [events[m] EXCEPT !.account = None]
                                     ELSE events[m]]
  /\ UNCHANGED <<jobs, act, delivered>>

--------------------------------------------------------------------------------
(* The specification.                                                      *)

processEvent(j) ==
  \/ Load(j) \/ Dedupe(j) \/ ClassifyIntent(j) \/ QueryAutomations(j)
  \/ \E a \in Automations : Match(j, a)
  \/ MatchingDone(j) \/ InsertDm(j) \/ InsertReply(j) \/ InsertFails(j)
  \/ AddDm(j) \/ AddReply(j) \/ CaptureLead(j) \/ CaptureLeadFails(j)
  \/ MarkProcessed(j) \/ DetachedEnd(j)

generateAiReply(j) ==
  \/ GenLoad(j) \/ GenAnswered(j) \/ GenFallback(j) \/ GenFails(j)
  \/ GenFlagged(j) \/ ModerationCaught(j) \/ GenContent(j) \/ GenAdd(j)

sendDM(j) ==
  \/ DmLoad(j) \/ DmGate(j) \/ CrLoad(j)
  \/ PostAccepted(j) \/ PostAnswerLost(j) \/ PostRefused(j) \/ PostServerError(j)
  \/ WriteOutcome(j) \/ WriteSentFails(j)

Handle(j) == processEvent(j) \/ generateAiReply(j) \/ sendDM(j) \/ Return(j)

Owner ==
  \/ \E a \in Automations : SetStatus(a) \/ DeleteAutomation(a)
  \/ \E acc \in Accounts : Disconnect(acc)

Next ==
  \/ \E m \in Messages : InsertEvent(m) \/ EnqueueEvent(m) \/ EnqueueEventFails(m)
  \/ \E w \in Workers, j \in JobIds : Start(w, j) \/ Refuse(w, j)
  \/ \E j \in JobIds : Handle(j) \/ Throw(j) \/ Stalled(j)
  \/ \E w \in Workers : Crash(w)
  \/ Owner

Spec == Init /\ [][Next]_vars

\* The route finishes its loop, a running process keeps going, an idle one takes
\* jobs, and the stalled check runs for ever.  Nothing forces an event to arrive,
\* a call to fail, a process to die or the owner to act.
FairSpec ==
  /\ Spec
  /\ \A m \in Messages : WF_vars(EnqueueEvent(m))
  /\ \A j \in JobIds : /\ WF_vars(Handle(j))
                       /\ WF_vars(\E w \in Workers : Start(w, j) \/ Refuse(w, j))
                       /\ WF_vars(Stalled(j))

--------------------------------------------------------------------------------
(* Properties.                                                             *)

\* Every variable has the shape the tables and the queue give it.
TablesOK ==
  /\ events \in [Messages -> Event]
  /\ sends \in [SendIds -> Send]
  /\ accounts \subseteq Accounts
  /\ automations \in [Automations -> {"active", "paused", "deleted"}]
  /\ captured \subseteq Messages
  /\ delivered \in [SendIds -> Nat]

TypeOK ==
  /\ jobs \in [JobIds -> Job]
  /\ act \in [JobIds -> Act]
  /\ TablesOK

InFlight(s) == sends[s].status \notin {"none", "deleted"}

\* A DM or a story reply is answered by one attempt only: whatever crashes and
\* redeliveries happen, all sends rows of such an event were inserted by the same
\* attempt, and at most one per automation (processDmEvent's retry dedupe).
DmEventAnsweredOnce ==
  \A s, t \in SendIds :
    /\ InFlight(s) /\ InFlight(t)
    /\ sends[s].event = sends[t].event
    /\ Message[sends[s].event].kind \in {"message", "storyReply"}
    => /\ sends[s].by = sends[t].by /\ sends[s].run = sends[t].run
       /\ s # t /\ sends[s].automation # None
            => sends[s].automation # sends[t].automation

\* processEvent sets processedAt only after both branches of a `message' event
\* resolved: no processed message has lost the contact details it carries.
ProcessedIsCaptured ==
  \A m \in Messages :
    /\ events[m].processed /\ events[m].account # None
    /\ Message[m].kind = "message" /\ Message[m].text /\ Message[m].contact
    => m \in captured

\* Nobody forgets an event silently: an unprocessed one is still in the ingest
\* loop, has a live job, or can be named as lost (its queue.add or its job failed).
EventAccountedFor ==
  \A m \in Messages :
    events[m].stage # "absent" /\ ~events[m].processed =>
      \/ events[m].stage \in {"inserted", "unqueued"}
      \/ \E j \in JobIds : /\ jobs[j].data.event = m
                           /\ jobs[j].data.type = "process-event"
                           /\ Live(j) \/ jobs[j].state = "failed"

Carries(j, s) == jobs[j].state # "none" /\ jobs[j].data.send = s

\* The attempt that inserted row s did not get to its end.
BrokeOff(s) ==
  \E j \in JobIds :
    /\ j = sends[s].by
    /\ \/ jobs[j].stalls > sends[s].run \/ jobs[j].state = "failed"
       \/ jobs[j].state = "active" /\ jobs[j].worker = None

\* Nobody forgets a send silently: a row that still says "queued" has a job that
\* is live or failed, or is about to get one, or the attempt that inserted it
\* broke off (its job stalled or failed).
QueuedSendAccountedFor ==
  \A s \in SendIds :
    sends[s].status = "queued" =>
      \/ \E j \in JobIds : Carries(j, s) /\ (Live(j) \/ jobs[j].state = "failed")
      \/ \E j \in JobIds : act[j].send = s /\ act[j].pc \in {"addDm", "addReply"}
      \/ BrokeOff(s)

\* A row says "sent" only when Meta has accepted the message.
SentWasDelivered ==
  \A s \in SendIds : sends[s].status = "sent" => delivered[s] > 0

\* Nothing is forgotten silently, neither an event nor a send: one that is not
\* dealt with can be told from one that is, and has a job that will deal with it
\* or one that failed (the ingest loop, the matching loop and generateAiReply
\* each write a row and queue its job in two steps).
NothingIsForgotten == EventAccountedFor /\ QueuedSendAccountedFor

\* Every time a job that carries row s was found stalled.
StallsOf(s) ==
  {x \in JobIds \X (1 .. MaxStalledCount) : Carries(x[1], s) /\ x[2] <= jobs[x[1]].stalls}

\* The customer gets a message twice only when a worker died: the number of
\* deliveries of a send exceeds one by no more than the stalls of its jobs.
DuplicatesNeedCrashes ==
  \A s \in SendIds : delivered[s] <= 1 + Cardinality(StallsOf(s))

\* What the rows say and what the customer got add up, in sendDM and in
\* sendCommentReply: nothing is called sent that Meta did not take, and nothing is
\* delivered again but by the job of a worker that died.
DeliveriesAddUp == SentWasDelivered /\ DuplicatesNeedCrashes

\* The customer's own words are never sent back: no send-dm job carries them.
NeverEchoesInbound ==
  \A j \in JobIds : jobs[j].data.type = "send-dm" => jobs[j].data.text # "inbound"

\* An event keeps its intent label: a redelivered job never asks again for one, so
\* all attempts gate on the same label (classifyEventIntent's fast path).
IntentIsStable ==
  [][\A m \in Messages :
       events[m].intent # None => events'[m].intent = events[m].intent]_vars

\* Every job comes to an end, whatever fails on the way.
JobsSettle ==
  \A j \in JobIds : jobs[j].state = "waiting" ~> jobs[j].state \in {"completed", "failed"}

\* Every stored event is processed, unless its queue.add or its job fails.
EventsGetProcessed ==
  \A m \in Messages :
    events[m].stage = "inserted" ~>
      \/ events[m].processed \/ events[m].stage = "unqueued"
      \/ \E j \in JobIds : jobs[j].data.event = m /\ jobs[j].state = "failed"

\* Every queued send is resolved, unless a job that carries it fails, or the attempt
\* that inserted it broke off: a worker that dies once does not lose a DM.
SendsGetResolved ==
  \A s \in SendIds :
    sends[s].status = "queued" ~>
      \/ sends[s].status \in Outcomes \cup {"deleted"}
      \/ \E j \in JobIds : Carries(j, s) /\ jobs[j].state = "failed"
      \/ BrokeOff(s)

\* The DMs of the pipeline, seen as rows of SendLifecycle; comment replies, whose
\* handler does not look at the row, are left out of the picture.
IsDm(s) == sends[s].kind = "dm"
Lifecycle == INSTANCE SendLifecycle WITH
  status <- [s \in SendIds |-> IF IsDm(s) THEN sends[s].status ELSE "none"],
  posted <- [s \in SendIds |-> IF IsDm(s) THEN delivered[s] ELSE 0]

\* With one worker process (WORKER_CONCURRENCY is 1) the pipeline keeps the promise
\* of SendLifecycle for every DM, whatever crashes, throws or is answered late.
DmsFollowLifecycle == Lifecycle!Spec

================================================================================

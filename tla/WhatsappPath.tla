------------------------------ MODULE WhatsappPath ------------------------------
(***************************************************************************)
(* The WhatsApp path: a webhook event is stored and queued                 *)
(* (ingestWhatsappWebhook); a worker turns a customer's message into a     *)
(* lead, an opt-out or answers (processWhatsappMessageEvent), applies a    *)
(* template's status (handleWhatsappTemplateStatusEvent), asks the AI      *)
(* (generateAiReply) and sends (sendWhatsapp).  It shares the queue and    *)
(* the worker processes with the Instagram path.                           *)
(*                                                                         *)
(* One action per database write, queue.add or call of Meta, and one per   *)
(* gate of sendWhatsapp, because time, Meta and the dashboard change under *)
(* it what the gates have read.                                            *)
(***************************************************************************)
EXTENDS WorkerQueue, WhatsappTemplates, FiniteSets

CONSTANTS Automations,  \* automations row ids, all with trigger 'whatsappMessage'
          Phones,       \* customers' phone numbers
          Message,      \* Message[m]: what the handlers read from the payload
          Config,       \* Config[a]: an automation with its response
          Hits,         \* Hits[m]: automations whose keywords match m
          Cap,          \* dailyConversationCap of every account
          Setups,       \* how a run may begin: messages on their way, active automations
          Env           \* which disturbances of the environment a run includes

Kinds == {"message", "status", "templateStatus"}

ASSUME WhatsappAssumption ==
  /\ None \notin Automations \cup Phones \cup Templates
  /\ Message \in [Messages -> [kind : Kinds, account : Accounts, phone : Phones,
                               text : {"none", "stop", "text"},
                               template : Templates \cup {None}, event : STRING]]
  /\ Config \in [Automations -> [account : Accounts, ai : BOOLEAN, body : BOOLEAN,
                                 template : Templates \cup {None}]]
  /\ \A m \in Messages : Message[m].kind = "templateStatus" => Message[m].template # None
  /\ \A m \in Messages : Message[m].kind # "message" => Message[m].text = "none"
  /\ Hits \in [Messages -> SUBSET Automations]
  /\ Setups \subseteq [transit : SUBSET Messages, active : SUBSET Automations]
  /\ \A setup \in Setups :
       /\ \A m \in setup.transit : Message[m].kind # "templateStatus"
       /\ \A a \in setup.active : Config[a].template \in Approved \cup {None}
  /\ Cap \in Nat
  /\ Env \subseteq {"crash", "throw", "swallowed", "addFails", "timeout", "reject",
                    "server", "gates", "owner", "templates", "time", "billing"}

VARIABLES transit,      \* webhooks that Meta is delivering
          events,       \* Messages -> Event, the events table and its ingest
          leads,        \* Phones -> Lead, the leads table
          log,          \* whatsappOptInLog: who did what, on the evidence of which event;
                        \* and events whose customer was given up (upsertLeadOnInbound)
          automations,  \* Automations -> "none" | "active" | "paused" | "deleted"
          connected,    \* accounts whose disconnectedAt is NULL
          sends,        \* SendIds -> Send, the sends table
          costs,        \* Accounts -> conversations of the month, 0: no row yet
          delivered,    \* SendIds -> how often Meta accepted the send
          act           \* JobIds -> Act, the local state of the handler of a job

vars == <<jobs, templateVars, transit, events, leads, log, automations, connected,
          sends, costs, delivered, act>>

\* Everything but the queue and the handlers; and parts of it.
dashboard == <<templateVars, automations, connected>>
tables    == <<dashboard, transit, events, leads, log, sends, costs, delivered>>

Event == [stage : {"absent", "inserted", "queued", "unqueued"}, processed : BOOLEAN]

\* `open': the customer wrote within 24 hours (lastWhatsappInboundAt); `charged': a
\* template conversation was opened within 24 hours (lastTemplateConversationAt).
Lead   == [exists : BOOLEAN, optedOut : BOOLEAN, open : BOOLEAN, charged : BOOLEAN]
NoLead == [exists |-> FALSE, optedOut |-> FALSE, open |-> FALSE, charged |-> FALSE]
NewLead == [NoLead EXCEPT !.exists = TRUE, !.open = TRUE]

Outcomes == {"sent", "failed", "outsideWindow", "optedOut", "dailyCapExceeded",
             "rateLimited"}

\* `template' is the row the send refers to, None for a freeform message.
Send == [status : {"none", "queued"} \cup Outcomes, event : Messages \cup {None},
         automation : Automations \cup {None}, template : Templates \cup {None},
         text : Texts]
NoSend == [status |-> "none", event |-> None, automation |-> None, template |-> None,
           text |-> "empty"]

PC == {"idle", "load", "leadLoad", "leadRefresh", "leadInsert", "logOptIn", "leadReread",
       "optOut", "logOptOut", "dedupe", "query", "next", "insert", "add",
       "tplLoad", "tplApply", "mark", "return", "genLoad", "genAsk", "genContent", "genAdd",
       "wsLoad", "wsLead", "wsCap", "wsMode", "wsRate", "wsPost",
       "costLead", "costCharge", "costLoad", "costInsert", "costReread", "costUpdate", "write"}

\* `open' and `count' are what a send-whatsapp handler read of lead and cost row.
Act == [pc : PC, todo : SUBSET Automations, automation : Automations \cup {None},
        template : Templates \cup {None}, send : 0 .. MaxSends, text : Texts,
        open : BOOLEAN, count : Nat, out : {"none"} \cup Outcomes]

Idle == [pc |-> "idle", todo |-> {}, automation |-> None, template |-> None, send |-> 0,
         text |-> "empty", open |-> FALSE, count |-> 0, out |-> "none"]

Init ==
  /\ QueueInit
  /\ TemplatesInit
  /\ events = [m \in Messages |-> [stage |-> "absent", processed |-> FALSE]]
  /\ leads = [p \in Phones |-> NoLead]
  /\ log = {}
  /\ \E setup \in Setups :
       /\ transit = setup.transit
       /\ automations = [a \in Automations |->
                            IF a \in setup.active THEN "active" ELSE "none"]
  /\ connected = Accounts
  /\ sends = [s \in SendIds |-> NoSend]
  /\ costs = [acc \in Accounts |-> 0]
  /\ delivered = [s \in SendIds |-> 0]
  /\ act = [j \in JobIds |-> Idle]

--------------------------------------------------------------------------------
(* Helpers.                                                                *)

EventOf(j) == jobs[j].data.event
PhoneOf(j) == Message[EventOf(j)].phone         \* of a process-event job
SendOf(j)  == sends[act[j].send]                \* of a job about a row
Recipient(s) == Message[sends[s].event].phone   \* recipientPhone
AccountOf(s) == Message[sends[s].event].account
Rows(m)    == {s \in SendIds : sends[s].event = m}

Becomes(j, h) == act' = [act EXCEPT ![j] = h]
Goto(j, p)    == Becomes(j, [act[j] EXCEPT !.pc = p])

\* The handler of a send goes on to record an outcome.
Ends(j, outcome) == Becomes(j, [act[j] EXCEPT !.pc = "write", !.out = outcome])

\* The promise of the processor settles.
Settled(j, outcome) == Settle(j, outcome) /\ Becomes(j, Idle)

\* A rejection that the handler takes for an empty result.
Swallowed == "swallowed" \in Env

\* The step after the lead is known: STOP, nothing to answer, or matching.
AfterLead(j) ==
  CASE Message[EventOf(j)].text = "stop" -> "optOut"
    [] Message[EventOf(j)].text = "none" -> "mark"
    [] OTHER                             -> "dedupe"

\* The template of a response, until it is hard-deleted (ON DELETE SET NULL).
TemplateOf(a) ==
  IF Config[a].template # None /\ Exists(Config[a].template) THEN Config[a].template
                                                            ELSE None

IsNextSend(s) ==
  /\ sends[s].status = "none"
  /\ \A i \in SendIds : i < s => sends[i].status # "none"

OnLead(p, lead) == leads' = [leads EXCEPT ![p] = lead]

--------------------------------------------------------------------------------
(* Ingest and queue.                                                       *)

\* One webhook arrives.  The key of a template's status is made of template and event
\* only: the same verdict given a second time counts as a duplicate.
InsertEvent(m) ==
  /\ m \in transit
  /\ transit' = transit \ {m}
  /\ events' = IF events[m].stage = "absent" THEN [events EXCEPT ![m].stage = "inserted"]
                                             ELSE events
  /\ UNCHANGED <<jobs, dashboard, leads, log, sends, costs, delivered, act>>

\* The account cannot be resolved, or the insert fails for another reason: the event
\* is logged, answered with 200 and never seen again.
DropEvent(m) ==
  /\ Swallowed /\ m \in transit
  /\ transit' = transit \ {m}
  /\ UNCHANGED <<jobs, dashboard, events, leads, log, sends, costs, delivered, act>>

EnqueueEvent(m) ==
  /\ events[m].stage = "inserted"
  /\ \E j \in JobIds : Add(j, ProcessEventJob(m))
  /\ events' = [events EXCEPT ![m].stage = "queued"]
  /\ UNCHANGED <<dashboard, transit, leads, log, sends, costs, delivered, act>>

EnqueueEventFails(m) ==
  /\ "addFails" \in Env
  /\ events[m].stage = "inserted"
  /\ events' = [events EXCEPT ![m].stage = "unqueued"]
  /\ UNCHANGED <<jobs, dashboard, transit, leads, log, sends, costs, delivered, act>>

FirstStep(type) == CASE type = "process-event"     -> "load"
                     [] type = "generate-ai-reply" -> "genLoad"
                     [] type = "send-whatsapp"     -> "wsLoad"

Start(w, j) ==
  /\ Take(w, j)
  /\ Parses(jobs[j].data)
  /\ Becomes(j, [Idle EXCEPT !.pc = FirstStep(jobs[j].data.type), !.send = jobs[j].data.send])
  /\ UNCHANGED tables

\* The parse throws.  That is what becomes of every AI reply on this path: it is
\* queued as a send-dm job, which needs an igAccountId, and the row has none.
Refuse(w, j) ==
  /\ jobs[j].state = "waiting"
  /\ \A i \in JobIds : jobs[i].state = "active" => jobs[i].worker # w
  /\ ~Parses(jobs[j].data)
  /\ jobs' = [jobs EXCEPT ![j].state = "failed"]
  /\ UNCHANGED <<act, tables>>

Stalled(j) == CheckStalled(j) /\ UNCHANGED <<act, tables>>

Crash(w) ==
  /\ "crash" \in Env
  /\ \E j \in JobIds : jobs[j].state = "active" /\ jobs[j].worker = w
  /\ Lose(w)
  /\ act' = [j \in JobIds |-> IF jobs[j].worker = w THEN Idle ELSE act[j]]
  /\ UNCHANGED tables

\* Steps whose rejection reaches the queue.  The others are caught by the handlers.
Uncaught == {"load", "leadRefresh", "optOut", "logOptOut", "dedupe", "query", "next",
             "insert", "add", "tplApply", "mark", "genLoad", "genAsk", "genContent",
             "genAdd", "wsLoad", "wsRate", "write"}

Throw(j) ==
  /\ "throw" \in Env /\ act[j].pc \in Uncaught
  /\ Settled(j, "failed")
  /\ UNCHANGED tables

\* A rate limited send is thrown again after it was recorded.
Return(j) ==
  /\ act[j].pc = "return"
  /\ Settled(j, IF act[j].out = "rateLimited" THEN "failed" ELSE "completed")
  /\ UNCHANGED tables

--------------------------------------------------------------------------------
(* process-event: processWhatsappMessageEvent.                             *)

Load(j) ==
  LET m == EventOf(j) IN
  /\ act[j].pc = "load"
  /\ IF events[m].processed
       THEN Settled(j, "completed")
       ELSE /\ Goto(j, CASE Message[m].kind = "message"        -> "leadLoad"
                         [] Message[m].kind = "templateStatus" -> "tplLoad"
                         [] Message[m].kind = "status"         -> "mark")
            /\ UNCHANGED jobs
  /\ UNCHANGED tables

\* upsertLeadOnInbound.  A read that fails looks like a new customer.
LeadLoad(j) ==
  /\ act[j].pc = "leadLoad"
  /\ \/ leads[PhoneOf(j)].exists /\ Goto(j, "leadRefresh")
     \/ (~leads[PhoneOf(j)].exists \/ Swallowed) /\ Goto(j, "leadInsert")
  /\ UNCHANGED <<jobs, tables>>

LeadRefresh(j) ==
  /\ act[j].pc = "leadRefresh"
  /\ OnLead(PhoneOf(j), [leads[PhoneOf(j)] EXCEPT !.open = TRUE])
  /\ Goto(j, AfterLead(j))
  /\ UNCHANGED <<jobs, dashboard, transit, events, log, sends, costs, delivered>>

\* The number is unique: the insert of a lead that exists after all rejects.
LeadInsert(j) ==
  /\ act[j].pc = "leadInsert" /\ ~leads[PhoneOf(j)].exists
  /\ OnLead(PhoneOf(j), NewLead)
  /\ Goto(j, "logOptIn")
  /\ UNCHANGED <<jobs, dashboard, transit, events, log, sends, costs, delivered>>

LogOptIn(j) ==
  /\ act[j].pc = "logOptIn"
  /\ log' = log \cup {[event |-> EventOf(j), action |-> "optIn"]}
  /\ Goto(j, AfterLead(j))
  /\ UNCHANGED <<jobs, dashboard, transit, events, leads, sends, costs, delivered>>

LeadInsertCaught(j) ==
  /\ \/ act[j].pc = "leadInsert" /\ (leads[PhoneOf(j)].exists \/ Swallowed)
     \/ act[j].pc = "logOptIn" /\ Swallowed
  /\ Goto(j, "leadReread")
  /\ UNCHANGED <<jobs, tables>>

\* Whoever is still not found is given up with a warning: the event counts as processed.
LeadReread(j) ==
  /\ act[j].pc = "leadReread"
  /\ \/ leads[PhoneOf(j)].exists /\ Goto(j, AfterLead(j)) /\ log' = log
     \/ /\ ~leads[PhoneOf(j)].exists \/ Swallowed
        /\ Goto(j, "mark")
        /\ log' = log \cup {[event |-> EventOf(j), action |-> "givenUp"]}
  /\ UNCHANGED <<jobs, dashboard, transit, events, leads, sends, costs, delivered>>

\* A mutant of OptOut: a lead that has opted out before is taken to be on record.
OptOutOnce(j) ==
  /\ act[j].pc = "optOut"
  /\ OnLead(PhoneOf(j), [leads[PhoneOf(j)] EXCEPT !.optedOut = TRUE])
  /\ Goto(j, IF leads[PhoneOf(j)].optedOut THEN "mark" ELSE "logOptOut")
  /\ UNCHANGED <<jobs, dashboard, transit, events, log, sends, costs, delivered>>

\* recordOptOut.
OptOut(j) ==
  /\ act[j].pc = "optOut"
  /\ OnLead(PhoneOf(j), [leads[PhoneOf(j)] EXCEPT !.optedOut = TRUE])
  /\ Goto(j, "logOptOut")
  /\ UNCHANGED <<jobs, dashboard, transit, events, log, sends, costs, delivered>>

LogOptOut(j) ==
  /\ act[j].pc = "logOptOut"
  /\ log' = log \cup {[event |-> EventOf(j), action |-> "optOut"]}
  /\ Goto(j, "mark")
  /\ UNCHANGED <<jobs, dashboard, transit, events, leads, sends, costs, delivered>>

\* A mutant of Dedupe: the rows of an earlier attempt are not looked for.
DedupeForgotten(j) ==
  /\ act[j].pc = "dedupe" /\ Goto(j, "query")
  /\ UNCHANGED <<jobs, tables>>

\* An event that has sends rows is a retry.
Dedupe(j) ==
  /\ act[j].pc = "dedupe"
  /\ Goto(j, IF Rows(EventOf(j)) # {} THEN "mark" ELSE "query")
  /\ UNCHANGED <<jobs, tables>>

QueryAutomations(j) ==
  LET found == {a \in Automations : /\ automations[a] = "active"
                                    /\ Config[a].account = Message[EventOf(j)].account}
  IN /\ act[j].pc = "query"
     /\ Becomes(j, [act[j] EXCEPT !.pc = "next", !.todo = found])
     /\ UNCHANGED <<jobs, tables>>

\* One iteration: trigger and response are gone with a deleted automation; without a
\* body, the AI or a template there is nothing to send.
Match(j, a) ==
  LET fires == /\ automations[a] # "deleted" /\ a \in Hits[EventOf(j)]
               /\ Config[a].body \/ Config[a].ai \/ TemplateOf(a) # None
      text  == IF Config[a].ai THEN "inbound" ELSE IF Config[a].body THEN "template" ELSE "empty"
      rest  == act[j].todo \ {a}
  IN /\ act[j].pc = "next" /\ a \in act[j].todo
     /\ Becomes(j, IF fires
                     THEN [act[j] EXCEPT !.todo = rest, !.automation = a, !.text = text,
                                         !.template = TemplateOf(a), !.pc = "insert"]
                     ELSE [act[j] EXCEPT !.todo = rest])
     /\ UNCHANGED <<jobs, tables>>

MatchingDone(j) ==
  /\ act[j].pc = "next" /\ act[j].todo = {}
  /\ Becomes(j, [Idle EXCEPT !.pc = "mark"])
  /\ UNCHANGED <<jobs, tables>>

\* What a new row refers to is still there.
Insertable(j) ==
  /\ automations[act[j].automation] # "deleted"
  /\ act[j].template # None => Exists(act[j].template)

\* insertOne('sends').  `automation' stays the one that was matched: nobody reads that
\* a deletion sets it to NULL.
InsertSend(j) ==
  /\ act[j].pc = "insert" /\ Insertable(j)
  /\ \E s \in SendIds :
       /\ IsNextSend(s)
       /\ sends' = [sends EXCEPT ![s] =
             [status |-> "queued", event |-> EventOf(j), automation |-> act[j].automation,
              template |-> act[j].template, text |-> act[j].text]]
       /\ Becomes(j, [act[j] EXCEPT !.pc = "add", !.send = s])
  /\ UNCHANGED <<jobs, dashboard, transit, events, leads, log, costs, delivered>>

InsertFails(j) ==
  /\ act[j].pc = "insert" /\ ~Insertable(j)
  /\ Settled(j, "failed")
  /\ UNCHANGED tables

AddSend(j) ==
  LET s == act[j].send IN
  /\ act[j].pc = "add"
  /\ \E k \in JobIds :
       Add(k, IF Config[act[j].automation].ai
                THEN GenerateAiReplyJob(EventOf(j), s)
                ELSE SendWhatsappJob(s, AccountOf(s), act[j].text))
  /\ Becomes(j, [act[j] EXCEPT !.pc = "next", !.automation = None,
                               !.template = None, !.send = 0, !.text = "empty"])
  /\ UNCHANGED tables

\* handleWhatsappTemplateStatusEvent: find the row by Meta's id, then update it by its
\* own, whatever has become of it meanwhile.
TemplateLoad(j) ==
  LET row == templates[Message[EventOf(j)].template]
      found == row.known /\ Message[EventOf(j)].event \in DOMAIN mapStatus
  IN /\ act[j].pc = "tplLoad"
     /\ \/ found /\ Goto(j, "tplApply")
        \/ (~found \/ Swallowed) /\ Goto(j, "mark")
     /\ UNCHANGED <<jobs, tables>>

TemplateApply(j) ==
  LET t == Message[EventOf(j)].template IN
  /\ act[j].pc = "tplApply"
  /\ UpdateTemplate(t, [templates[t] EXCEPT !.status = mapStatus[Message[EventOf(j)].event]])
  /\ Goto(j, "mark")
  /\ UNCHANGED <<jobs, create, remove, verdict, automations, connected, transit, events,
                 leads, log, sends, costs, delivered>>

MarkProcessed(j) ==
  /\ act[j].pc = "mark"
  /\ events' = [events EXCEPT ![EventOf(j)].processed = TRUE]
  /\ Goto(j, "return")
  /\ UNCHANGED <<jobs, dashboard, transit, leads, log, sends, costs, delivered>>

--------------------------------------------------------------------------------
(* generate-ai-reply, as far as it matters to a row of this path: what is  *)
(* in the reply, and why, is the subject of IgPipeline.                    *)

GenLoad(j) ==
  /\ act[j].pc = "genLoad"
  /\ \/ SendOf(j).status # "queued" /\ Settled(j, "completed")
     \/ SendOf(j).status = "queued" /\ Goto(j, "genAsk") /\ UNCHANGED jobs
  /\ UNCHANGED tables

\* A reply, the model's or the fallback; or nothing to reply with.
GenAsk(j) ==
  /\ act[j].pc = "genAsk"
  /\ \/ /\ automations[SendOf(j).automation] # "deleted"
        /\ Becomes(j, [act[j] EXCEPT !.pc = "genContent", !.text = "ai"])
     \/ Ends(j, "failed")
  /\ UNCHANGED <<jobs, tables>>

GenContent(j) ==
  /\ act[j].pc = "genContent"
  /\ sends' = [sends EXCEPT ![act[j].send].text = act[j].text]
  /\ Goto(j, "genAdd")
  /\ UNCHANGED <<jobs, dashboard, transit, events, leads, log, costs, delivered>>

\* Handling flagged output rejects inside the try block of the moderation call.
GenCaught(j) ==
  /\ "throw" \in Env /\ act[j].pc = "genAdd"
  /\ Goto(j, "genContent")
  /\ UNCHANGED <<jobs, tables>>

\* enqueueSendDm: the row's igAccountId is NULL.
GenAdd(j) ==
  /\ act[j].pc = "genAdd"
  /\ \E k \in JobIds : Add(k, SendDMJob(act[j].send, None, act[j].text))
  /\ Goto(j, "return")
  /\ UNCHANGED tables

--------------------------------------------------------------------------------
(* send-whatsapp: the gates of sendWhatsapp, in the order of the code.     *)

\* A mutant of WsLoad: a row that is no longer queued is sent all the same.
WsLoadAnyStatus(j) ==
  /\ act[j].pc = "wsLoad"
  /\ IF jobs[j].data.account \in connected THEN Goto(j, "wsLead") ELSE Ends(j, "failed")
  /\ UNCHANGED <<jobs, tables>>

\* The row, then the account.
WsLoad(j) ==
  /\ act[j].pc = "wsLoad"
  /\ \/ SendOf(j).status # "queued" /\ Settled(j, "completed")
     \/ /\ SendOf(j).status = "queued"
        /\ IF jobs[j].data.account \in connected THEN Goto(j, "wsLead") ELSE Ends(j, "failed")
        /\ UNCHANGED jobs
  /\ UNCHANGED tables

\* A mutant of WsLead: only the window is looked at.
WsLeadUnchecked(j) ==
  /\ act[j].pc = "wsLead"
  /\ Becomes(j, [act[j] EXCEPT !.pc = "wsCap",
                               !.open = leads[Recipient(act[j].send)].open])
  /\ UNCHANGED <<jobs, tables>>

\* Opt-out, and what is known of the service window.  A read that fails looks like a
\* recipient nobody has heard of, who has not opted out either.
WsLead(j) ==
  LET lead == leads[Recipient(act[j].send)] IN
  /\ act[j].pc = "wsLead"
  /\ \/ lead.optedOut /\ Ends(j, "optedOut")
     \/ ~lead.optedOut /\ Becomes(j, [act[j] EXCEPT !.pc = "wsCap", !.open = lead.open])
     \/ Swallowed /\ Goto(j, "wsCap")
  /\ UNCHANGED <<jobs, tables>>

\* What a read of the conversations of the month may find; a failed one finds none.
CountRead(account) == {costs[account]} \cup (IF Swallowed THEN {0} ELSE {})

\* A mutant of WsCap: one conversation too many.
WsCapOffByOne(j) ==
  /\ act[j].pc = "wsCap"
  /\ IF costs[jobs[j].data.account] > Cap THEN Ends(j, "dailyCapExceeded")
                                          ELSE Goto(j, "wsMode")
  /\ UNCHANGED <<jobs, tables>>

\* The cap on conversations.
WsCap(j) ==
  /\ act[j].pc = "wsCap"
  /\ \E n \in CountRead(jobs[j].data.account) :
       IF n >= Cap THEN Ends(j, "dailyCapExceeded") ELSE Goto(j, "wsMode")
  /\ UNCHANGED <<jobs, tables>>

\* The service window of a freeform message, the approval of a template.
WsMode(j) ==
  LET t == SendOf(j).template IN
  /\ act[j].pc = "wsMode"
  /\ \/ t # None /\ templates[t].status = "approved" /\ Goto(j, "wsRate")
     \/ t # None /\ (templates[t].status # "approved" \/ Swallowed) /\ Ends(j, "failed")
     \/ t = None /\ ~act[j].open /\ Ends(j, "outsideWindow")
     \/ t = None /\ act[j].open /\ jobs[j].data.text = "empty" /\ Ends(j, "failed")
     \/ t = None /\ act[j].open /\ jobs[j].data.text # "empty" /\ Goto(j, "wsRate")
  /\ UNCHANGED <<jobs, tables>>

\* The rate limit, then the token.
WsRate(j) ==
  /\ act[j].pc = "wsRate"
  /\ \/ Goto(j, "wsPost")
     \/ "gates" \in Env /\ Ends(j, "rateLimited")
     \/ "reject" \in Env /\ Ends(j, "failed")
  /\ UNCHANGED <<jobs, tables>>

Delivered(s) == delivered' = [delivered EXCEPT ![s] = @ + 1]

PostAccepted(j) ==
  /\ act[j].pc = "wsPost"
  /\ Delivered(act[j].send)
  /\ IF SendOf(j).template # None THEN Goto(j, "costLead") ELSE Ends(j, "sent")
  /\ UNCHANGED <<jobs, dashboard, transit, events, leads, log, sends, costs>>

\* Meta has it but we do not know: a timeout or a broken connection is thrown and
\* the row stays queued, a 200 that makes no sense marks it failed.
PostAnswerLost(j) ==
  /\ act[j].pc = "wsPost" /\ "timeout" \in Env
  /\ Delivered(act[j].send)
  /\ \/ Settled(j, "failed")
     \/ Ends(j, "failed") /\ UNCHANGED jobs
  /\ UNCHANGED <<dashboard, transit, events, leads, log, sends, costs>>

\* A mutant of PostRefused: the conversation is counted before the answer is known.
PostRefusedCharged(j) ==
  /\ act[j].pc = "wsPost" /\ "reject" \in Env
  /\ IF SendOf(j).template # None THEN Goto(j, "costLead") ELSE Ends(j, "failed")
  /\ UNCHANGED <<jobs, tables>>

PostRefused(j) ==
  /\ act[j].pc = "wsPost" /\ "reject" \in Env
  /\ Ends(j, "failed")
  /\ UNCHANGED <<jobs, tables>>

\* Mutants of PostServerError: the outcome `queued' is written to the row; the error
\* is not thrown.
PostServerErrorWritten(j) ==
  /\ act[j].pc = "wsPost" /\ "server" \in Env
  /\ Ends(j, "queued")
  /\ UNCHANGED <<jobs, tables>>

PostServerErrorSwallowed(j) ==
  /\ act[j].pc = "wsPost" /\ "server" \in Env
  /\ Settled(j, "completed")
  /\ UNCHANGED tables

\* 5xx, 429 and the pair or spam limits: thrown, the row stays queued.
PostServerError(j) ==
  /\ act[j].pc = "wsPost" /\ "server" \in Env
  /\ Settled(j, "failed")
  /\ UNCHANGED tables

--------------------------------------------------------------------------------
(* incrementConversationCost: the lead's conversation, then the month's    *)
(* row, which is read, changed and written back.                           *)

CostLead(j) ==
  LET lead == leads[Recipient(act[j].send)] IN
  /\ act[j].pc = "costLead"
  /\ \/ lead.exists /\ lead.charged /\ Ends(j, "sent")
     \/ lead.exists /\ ~lead.charged /\ Goto(j, "costCharge")
     \/ (~lead.exists \/ Swallowed) /\ Goto(j, "costLoad")
  /\ UNCHANGED <<jobs, tables>>

CostCharge(j) ==
  LET p == Recipient(act[j].send) IN
  /\ act[j].pc = "costCharge"
  /\ OnLead(p, [leads[p] EXCEPT !.charged = TRUE])
  /\ Goto(j, "costLoad")
  /\ UNCHANGED <<jobs, dashboard, transit, events, log, sends, costs, delivered>>

CostLoad(j) ==
  /\ act[j].pc = "costLoad"
  /\ \E n \in CountRead(jobs[j].data.account) :
       Becomes(j, [act[j] EXCEPT !.pc = IF n = 0 THEN "costInsert" ELSE "costUpdate",
                                 !.count = n])
  /\ UNCHANGED <<jobs, tables>>

\* One row per account and month: the insert rejects when there is one.
CostInsert(j) ==
  LET acc == jobs[j].data.account IN
  /\ act[j].pc = "costInsert"
  /\ \/ costs[acc] = 0 /\ costs' = [costs EXCEPT ![acc] = 1] /\ Ends(j, "sent")
     \/ (costs[acc] # 0 \/ Swallowed) /\ Goto(j, "costReread") /\ UNCHANGED costs
  /\ UNCHANGED <<jobs, dashboard, transit, events, leads, log, sends, delivered>>

CostReread(j) ==
  LET n == costs[jobs[j].data.account] IN
  /\ act[j].pc = "costReread"
  /\ \/ n # 0 /\ Becomes(j, [act[j] EXCEPT !.pc = "costUpdate", !.count = n])
     \/ (n = 0 \/ Swallowed) /\ Ends(j, "sent")
  /\ UNCHANGED <<jobs, tables>>

CostUpdate(j) ==
  /\ act[j].pc = "costUpdate"
  /\ costs' = [costs EXCEPT ![jobs[j].data.account] = act[j].count + 1]
  /\ Ends(j, "sent")
  /\ UNCHANGED <<jobs, dashboard, transit, events, leads, log, sends, delivered>>

\* Whatever rejects in the accounting is only logged: the message is out.
CostFails(j) ==
  /\ "throw" \in Env /\ act[j].pc \in {"costCharge", "costUpdate"}
  /\ Ends(j, "sent")
  /\ UNCHANGED <<jobs, tables>>

\* persistTerminal: the outcome, whatever the row says by now.
Write(j) ==
  /\ act[j].pc = "write"
  /\ sends' = [sends EXCEPT ![act[j].send].status = act[j].out]
  /\ Goto(j, "return")
  /\ UNCHANGED <<jobs, dashboard, transit, events, leads, log, costs, delivered>>

--------------------------------------------------------------------------------
(* The owner, Meta and time.                                               *)

\* createAutomation: the account must be connected, the template approved.
CreateAutomation(a) ==
  /\ "owner" \in Env /\ automations[a] = "none"
  /\ Config[a].account \in connected
  /\ Config[a].template # None => templates[Config[a].template].status = "approved"
  /\ automations' = [automations EXCEPT ![a] = "active"]
  /\ UNCHANGED <<jobs, templateVars, connected, transit, events, leads, log, sends, costs,
                 delivered, act>>

SetStatus(a) ==
  /\ "owner" \in Env /\ automations[a] \in {"active", "paused"}
  /\ automations' = [automations EXCEPT ![a] = IF @ = "active" THEN "paused" ELSE "active"]
  /\ UNCHANGED <<jobs, templateVars, connected, transit, events, leads, log, sends, costs,
                 delivered, act>>

DeleteAutomation(a) ==
  /\ "owner" \in Env /\ automations[a] \in {"active", "paused"}
  /\ automations' = [automations EXCEPT ![a] = "deleted"]
  /\ UNCHANGED <<jobs, templateVars, connected, transit, events, leads, log, sends, costs,
                 delivered, act>>

\* disconnectWhatsapp is soft, connectWhatsapp takes the row up again.
Disconnect(acc) ==
  /\ "owner" \in Env /\ acc \in connected
  /\ connected' = connected \ {acc}
  /\ UNCHANGED <<jobs, templateVars, automations, transit, events, leads, log, sends, costs,
                 delivered, act>>

Connect(acc) ==
  /\ "owner" \in Env /\ acc \notin connected
  /\ connected' = connected \cup {acc}
  /\ UNCHANGED <<jobs, templateVars, automations, transit, events, leads, log, sends, costs,
                 delivered, act>>

\* The requests of the dashboard on a template; a new one needs a connected account.
TemplateRequest(t) ==
  /\ "templates" \in Env
  /\ \/ connected # {} /\ InsertDraft(t)
     \/ SubmitAccepted(t)
     \/ SubmitFails(t)
     \/ RecordSubmission(t)
     \/ RecordFails(t)
     \/ DeleteLoad(t)
     \/ DeleteWrite(t)
  /\ UNCHANGED <<jobs, automations, connected, transit, events, leads, log, sends, costs,
                 delivered, act>>

\* Meta decides about a template and sends the webhook m about it.
TemplateVerdict(m) ==
  /\ "templates" \in Env
  /\ Message[m].kind = "templateStatus" /\ Message[m].event \in DOMAIN mapStatus
  /\ MetaDecides(Message[m].template, mapStatus[Message[m].event])
  /\ transit' = transit \cup {m}
  /\ UNCHANGED <<jobs, automations, connected, events, leads, log, sends, costs, delivered,
                 act>>

\* 24 hours after the last message of the customer; after the first template.
WindowCloses(p) ==
  /\ "time" \in Env /\ leads[p].open
  /\ OnLead(p, [leads[p] EXCEPT !.open = FALSE])
  /\ UNCHANGED <<jobs, dashboard, transit, events, log, sends, costs, delivered, act>>

ConversationEnds(p) ==
  /\ "billing" \in Env /\ leads[p].charged
  /\ OnLead(p, [leads[p] EXCEPT !.charged = FALSE])
  /\ UNCHANGED <<jobs, dashboard, transit, events, log, sends, costs, delivered, act>>

--------------------------------------------------------------------------------
(* The specification.                                                      *)

processEvent(j) ==
  \/ Load(j) \/ LeadLoad(j) \/ LeadRefresh(j) \/ LeadInsert(j) \/ LogOptIn(j)
  \/ LeadInsertCaught(j) \/ LeadReread(j) \/ OptOut(j) \/ LogOptOut(j) \/ Dedupe(j)
  \/ QueryAutomations(j) \/ \E a \in Automations : Match(j, a)
  \/ MatchingDone(j) \/ InsertSend(j) \/ InsertFails(j) \/ AddSend(j)
  \/ TemplateLoad(j) \/ TemplateApply(j) \/ MarkProcessed(j)

generateAiReply(j) == GenLoad(j) \/ GenAsk(j) \/ GenContent(j) \/ GenCaught(j) \/ GenAdd(j)

sendWhatsapp(j) ==
  \/ WsLoad(j) \/ WsLead(j) \/ WsCap(j) \/ WsMode(j) \/ WsRate(j)
  \/ PostAccepted(j) \/ PostAnswerLost(j) \/ PostRefused(j) \/ PostServerError(j)
  \/ CostLead(j) \/ CostCharge(j) \/ CostLoad(j) \/ CostInsert(j) \/ CostReread(j)
  \/ CostUpdate(j) \/ CostFails(j) \/ Write(j)

Handle(j) == processEvent(j) \/ generateAiReply(j) \/ sendWhatsapp(j) \/ Return(j)

Owner ==
  \/ \E a \in Automations : CreateAutomation(a) \/ SetStatus(a) \/ DeleteAutomation(a)
  \/ \E acc \in Accounts : Disconnect(acc) \/ Connect(acc)
  \/ \E t \in Templates : TemplateRequest(t)

Next ==
  \/ \E m \in Messages : \/ InsertEvent(m) \/ DropEvent(m) \/ EnqueueEvent(m)
                         \/ EnqueueEventFails(m) \/ TemplateVerdict(m)
  \/ \E w \in Workers, j \in JobIds : Start(w, j) \/ Refuse(w, j)
  \/ \E j \in JobIds : Handle(j) \/ Throw(j) \/ Stalled(j)
  \/ \E w \in Workers : Crash(w)
  \/ Owner
  \/ \E p \in Phones : WindowCloses(p) \/ ConversationEnds(p)

Spec == Init /\ [][Next]_vars

--------------------------------------------------------------------------------
(* Properties.                                                             *)

\* Every variable has the shape the tables and the queue give it.
TypeOK ==
  /\ jobs \in [JobIds -> Job]
  /\ TemplatesOK
  /\ transit \subseteq Messages
  /\ events \in [Messages -> Event]
  /\ leads \in [Phones -> Lead]
  /\ log \subseteq [event : Messages, action : {"optIn", "optOut", "givenUp"}]
  /\ automations \in [Automations -> {"none", "active", "paused", "deleted"}]
  /\ connected \subseteq Accounts
  /\ sends \in [SendIds -> Send]
  /\ costs \in [Accounts -> Nat]
  /\ delivered \in [SendIds -> Nat]
  /\ act \in [JobIds -> Act]

\* However often its process-event job is handed out, an event is answered by at most
\* one row per automation (processWhatsappMessageEvent's retry dedupe).
AnsweredOnce ==
  \A s, t \in SendIds :
    s # t /\ sends[s].event = sends[t].event /\ sends[s].event # None
      => sends[s].automation # sends[t].automation

\* A STOP that was processed is in force and on record, whichever step of recordOptOut
\* an attempt broke off at, and whoever else made or changed the customer's lead
\* meanwhile; or the customer was given up, when the database failed three calls in a
\* row and each failure was caught.  No STOP is lost without that warning.
StopIsHonoured ==
  \A m \in Messages :
    Message[m].text = "stop" /\ events[m].processed
      => \/ /\ leads[Message[m].phone].optedOut
            /\ [event |-> m, action |-> "optOut"] \in log
         \/ [event |-> m, action |-> "givenUp"] \in log

\* Meta never accepts a message to a customer who has opted out: with one worker no
\* STOP is handled between the gate of sendWhatsapp and its call.
NoPostAfterOptOut ==
  [][\A s \in SendIds :
       delivered'[s] # delivered[s] => ~leads[Recipient(s)].optedOut]_vars

\* The account is never billed beyond its cap, though the count is read long before
\* it is written back (gate 3 against gate 5).
CapHolds == \A acc \in Accounts : costs[acc] <= Cap

\* The messages with a template that Meta has accepted from an account.
Deliveries(acc) ==
  UNION {{s} \X (1 .. delivered[s]) :
           s \in {r \in SendIds : /\ sends[r].status # "none"
                                  /\ sends[r].template # None
                                  /\ AccountOf(r) = acc}}

\* Nothing is counted that was not delivered: the conversations of an account are at
\* most the templates Meta accepted from it.
CostsAreBacked == \A acc \in Accounts : costs[acc] <= Cardinality(Deliveries(acc))

\* A template is sent only if Meta approved it some time and told us.
TemplateWasApproved ==
  \A s \in SendIds :
    delivered[s] > 0 /\ sends[s].template # None =>
      \/ sends[s].template \in Approved
      \/ \E m \in Messages : /\ events[m].stage # "absent"
                             /\ Message[m].kind = "templateStatus"
                             /\ Message[m].template = sends[s].template
                             /\ mapStatus[Message[m].event] = "approved"

Carries(j, s) == jobs[j].state # "none" /\ jobs[j].data.send = s

\* Nobody forgets a row silently: one that still says "queued" has a job that is live
\* or failed, or is about to get one, or the job of its event broke off.
QueuedSendAccountedFor ==
  \A s \in SendIds :
    sends[s].status = "queued" =>
      \/ \E j \in JobIds : Carries(j, s) /\ (Live(j) \/ jobs[j].state = "failed")
      \/ \E j \in JobIds : act[j].pc = "add" /\ act[j].send = s
      \/ \E j \in JobIds : /\ jobs[j].data = ProcessEventJob(sends[s].event)
                           /\ \/ jobs[j].stalls > 0 \/ jobs[j].state = "failed"
                              \/ jobs[j].state = "active" /\ jobs[j].worker = None

\* A customer gets a message twice only when a worker died in between: each time
\* but the first is owed to a stall of the one job that sends it.
DuplicatesNeedCrashes ==
  \A s \in SendIds :
    delivered[s] <= 1
      \/ \E j \in JobIds : /\ Carries(j, s) /\ jobs[j].data.type = "send-whatsapp"
                            /\ delivered[s] <= 1 + jobs[j].stalls

\* The rows keep the promise of SendLifecycle: posted only while queued, resolved
\* once, "sent" only after Meta has taken the message.
Lifecycle == INSTANCE SendLifecycle WITH
  status <- [s \in SendIds |-> sends[s].status], posted <- delivered

SendsFollowLifecycle == Lifecycle!Spec
================================================================================

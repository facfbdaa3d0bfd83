----------------------------- MODULE WhatsappProofs -----------------------------
(***************************************************************************)
(* Theorems about the WhatsApp path, for every number of messages,         *)
(* customers, accounts, automations, templates, workers, jobs and sends:   *)
(* its types, and what a job knows of the row it is about.                 *)
(***************************************************************************)
EXTENDS WhatsappPath, TLAPS

--------------------------------------------------------------------------------
(* The inductive invariant behind TypeOK: a handler that is at a step runs *)
(* in a worker, is at a step of its own kind of job, and has the row it    *)
(* works on; rows are never taken away.                                    *)

EventSteps == {"load", "leadLoad", "leadRefresh", "leadInsert", "logOptIn", "leadReread",
               "optOut", "logOptOut", "dedupe", "query", "next", "insert", "add",
               "tplLoad", "tplApply", "mark"}
GenSteps   == {"genLoad", "genAsk", "genContent", "genAdd"}
WsSteps    == {"wsLoad", "wsLead", "wsCap", "wsMode", "wsRate", "wsPost", "costLead",
               "costCharge", "costLoad", "costInsert", "costReread", "costUpdate"}
RowSteps   == GenSteps \cup WsSteps \cup {"write"}

RowOK(row) == IF row.status = "none" THEN row = NoSend ELSE row.event \in Messages

\* What is in the queue: a job about an event, or about a row that is there.  A reply
\* of the AI is queued for Instagram, without an account.
JobOK(job, rows) ==
  job.state # "none" =>
    \/ job.data.type = "process-event" /\ job.data.event \in Messages
    \/ /\ job.data.type \in {"generate-ai-reply", "send-dm", "send-whatsapp"}
       /\ job.data.send \in SendIds /\ rows[job.data.send].status # "none"
       /\ job.data.type = "send-whatsapp" => job.data.account \in Accounts
       /\ job.data.type = "send-dm" => job.data.account = None

\* What handler h of a job knows.
Fits(h, job, rows) ==
  /\ h.pc # "idle" => job.state = "active" /\ job.worker # None
  /\ h.pc \in EventSteps => job.data.type = "process-event"
  /\ h.pc \in GenSteps => job.data.type = "generate-ai-reply"
  /\ h.pc \in WsSteps => job.data.type = "send-whatsapp"
  /\ h.pc \in RowSteps => job.data.type # "process-event" /\ h.send = job.data.send
  /\ h.pc = "write" => h.out \in Outcomes
  /\ h.pc \in {"insert", "add"} => h.automation \in Automations
  /\ h.pc = "add" => /\ h.send \in SendIds /\ rows[h.send].status # "none"
                     /\ rows[h.send].event = job.data.event
  /\ h.pc \in {"tplLoad", "tplApply"} => Message[job.data.event].kind = "templateStatus"
  /\ h.pc = "tplApply" => Message[job.data.event].event \in DOMAIN mapStatus

TypeInv ==
  /\ TypeOK
  /\ \A s \in SendIds : RowOK(sends[s])
  /\ \A j \in JobIds : JobOK(jobs[j], sends) /\ Fits(act[j], jobs[j], sends)

\* The tables that are not rows of sends.
TablesOK ==
  /\ TemplatesOK
  /\ transit \subseteq Messages
  /\ events \in [Messages -> Event]
  /\ leads \in [Phones -> Lead]
  /\ log \subseteq [event : Messages, action : {"optIn", "optOut", "givenUp"}]
  /\ automations \in [Automations -> {"none", "active", "paused", "deleted"}]
  /\ connected \subseteq Accounts
  /\ costs \in [Accounts -> Nat]
  /\ delivered \in [SendIds -> Nat]

LEMMA StepNames ==
  /\ EventSteps \cup RowSteps \cup {"return", "idle"} \subseteq PC
  /\ EventSteps \cap RowSteps = {} /\ GenSteps \cap (WsSteps \cup {"write"}) = {}
  /\ {"return", "idle"} \cap (EventSteps \cup RowSteps) = {} /\ "write" \notin WsSteps
  /\ {"insert", "add", "tplLoad", "tplApply"} \subseteq EventSteps
  BY DEF PC, EventSteps, RowSteps, GenSteps, WsSteps

LEMMA ValueNames ==
  /\ Texts = {"empty", "inbound", "template", "reply", "ai", "flagged", "fallback"}
  /\ Outcomes = {"sent", "failed", "outsideWindow", "optedOut", "dailyCapExceeded",
                 "rateLimited"}
  /\ 0 \in 0 .. MaxSends /\ SendIds \subseteq 0 .. MaxSends
  /\ None \notin Messages /\ None \notin Accounts /\ None \notin Workers
  /\ None \notin Automations
  BY QueueAssumption, WhatsappAssumption DEF Texts, Outcomes, SendIds

LEMMA IdleFacts ==
  /\ Idle \in Act /\ Idle.pc = "idle" /\ Idle.send = 0
  /\ \A job, rows : Fits(Idle, job, rows)
  <1>1. Idle \in Act
    BY QueueAssumption DEF Idle, Act, PC, Texts
  <1>2. Idle.pc = "idle" /\ Idle.send = 0
    BY DEF Idle
  <1> QED
    BY <1>1, <1>2, StepNames DEF Fits, EventSteps, GenSteps, WsSteps, RowSteps

LEMMA InitTypeInv == Init => TypeInv
  <1> SUFFICES ASSUME Init PROVE TypeInv
    OBVIOUS
  <1> USE QueueAssumption, WhatsappAssumption, TemplatesAssumption
  <1>1. jobs \in [JobIds -> Job]
    BY DEF Init, QueueInit, NoJob, NoData, ProcessEventJob, Job, JobData, JobType, Texts,
           JobIds
  <1>2. sends \in [SendIds -> Send]
    BY ValueNames DEF Init, NoSend, Send
  <1>3. act \in [JobIds -> Act]
    BY IdleFacts DEF Init
  <1>4. TemplatesOK
    BY DEF Init, TemplatesInit, TemplatesOK, Template, Verdicts, NoTemplate,
           ApprovedTemplate
  <1>5. events \in [Messages -> Event] /\ leads \in [Phones -> Lead]
    BY DEF Init, Event, Lead, NoLead
  <1>6. /\ transit \subseteq Messages /\ log = {} /\ connected \subseteq Accounts
        /\ automations \in [Automations -> {"none", "active", "paused", "deleted"}]
        /\ costs \in [Accounts -> Nat] /\ delivered \in [SendIds -> Nat]
    BY DEF Init
  <1>7. TypeOK
    BY <1>1, <1>2, <1>3, <1>4, <1>5, <1>6 DEF TypeOK
  <1>8. \A s \in SendIds : RowOK(sends[s])
    BY DEF Init, RowOK, NoSend
  <1>9. \A j \in JobIds : JobOK(jobs[j], sends) /\ Fits(act[j], jobs[j], sends)
    BY IdleFacts DEF Init, QueueInit, NoJob, JobOK
  <1> QED
    BY <1>7, <1>8, <1>9 DEF TypeInv

LEMMA HandlerType ==
  ASSUME TypeInv, NEW j \in JobIds
  PROVE  /\ act[j] \in Act /\ jobs[j] \in Job
         /\ Fits(act[j], jobs[j], sends) /\ JobOK(jobs[j], sends)
  BY DEF TypeInv, TypeOK

LEMMA SameTables == ASSUME TypeInv, UNCHANGED tables PROVE TablesOK' /\ sends' = sends
  BY DEF TypeInv, TypeOK, TablesOK, tables, dashboard, templateVars, TemplatesOK

--------------------------------------------------------------------------------
(* How the queue and the rows change, and what that means to the others.   *)

\* Rows stay rows, about the same event.
RowsStay ==
  \A s \in SendIds : sends[s].status # "none" => /\ sends'[s].status # "none"
                                                 /\ sends'[s].event = sends[s].event

RowsFit == /\ sends' \in [SendIds -> Send]
           /\ \A s \in SendIds : RowOK(sends'[s])
           /\ RowsStay

\* The queue is in order, and the job of a handler at a step is left alone, that of
\* handler j apart.
JobsFit(j) ==
  /\ jobs' \in [JobIds -> Job]
  /\ \A k \in JobIds : JobOK(jobs'[k], sends')
  /\ \A k \in JobIds : act[k].pc # "idle" /\ k # j => jobs'[k] = jobs[k]

LEMMA SameRows == ASSUME TypeInv, sends' = sends PROVE RowsFit
  BY DEF TypeInv, TypeOK, RowsFit, RowsStay

LEMMA KeptJobs ==
  ASSUME TypeInv, RowsFit, NEW job, JobOK(job, sends) PROVE JobOK(job, sends')
  BY DEF RowsFit, RowsStay, JobOK

LEMMA SameJobs == ASSUME TypeInv, RowsFit, jobs' = jobs, NEW j PROVE JobsFit(j)
  BY KeptJobs, HandlerType DEF TypeInv, TypeOK, JobsFit

LEMMA StillFits ==
  ASSUME TypeInv, RowsFit, NEW j, JobsFit(j), NEW k \in JobIds, k # j
  PROVE  Fits(act[k], jobs'[k], sends')
  <1>1. CASE act[k].pc = "idle"
    BY <1>1, StepNames DEF Fits, EventSteps, GenSteps, WsSteps, RowSteps
  <1>2. CASE act[k].pc # "idle"
    BY <1>2, HandlerType DEF JobsFit, RowsFit, RowsStay, Fits
  <1> QED
    BY <1>1, <1>2

LEMMA SettleFits ==
  ASSUME TypeInv, NEW j \in JobIds, NEW o \in {"completed", "failed"}, Settle(j, o),
         sends' = sends
  PROVE  /\ JobsFit(j)
         /\ jobs'[j].state = o /\ jobs'[j].data = jobs[j].data
         /\ jobs'[j].stalls = jobs[j].stalls
  <1>1. /\ jobs' \in [JobIds -> Job]
        /\ jobs'[j].state = o /\ jobs'[j].data = jobs[j].data
        /\ jobs'[j].stalls = jobs[j].stalls
    BY ZenonT(60) DEF Settle, TypeInv, TypeOK, Job
  <1>2. /\ jobs[j].state = "active"
        /\ \A k \in JobIds : k # j => jobs'[k] = jobs[k]
    BY DEF Settle, TypeInv, TypeOK
  <1>3. \A k \in JobIds : JobOK(jobs'[k], sends')
    BY <1>1, <1>2, HandlerType DEF JobOK
  <1> QED
    BY <1>1, <1>2, <1>3 DEF JobsFit

LEMMA AddFits ==
  ASSUME TypeInv, RowsFit, NEW k \in JobIds, NEW d \in JobData, Add(k, d), NEW j,
         JobOK([state |-> "waiting", data |-> d, worker |-> None, stalls |-> 0], sends')
  PROVE  /\ JobsFit(j)
         /\ jobs[k].state = "none"
         /\ jobs'[k] = [state |-> "waiting", data |-> d, worker |-> None, stalls |-> 0]
         /\ \A i \in JobIds : i # k => jobs'[i] = jobs[i]
  <1> DEFINE new == [state |-> "waiting", data |-> d, worker |-> None, stalls |-> 0]
  <1>1. new \in Job
    BY QueueAssumption DEF Job
  <1>2. jobs' = [jobs EXCEPT ![k] = new] /\ jobs[k].state = "none"
    BY DEF Add, IsNextJob
  <1> HIDE DEF new
  <1>3. /\ jobs' \in [JobIds -> Job] /\ jobs'[k] = new
        /\ \A i \in JobIds : i # k => jobs'[i] = jobs[i]
    BY <1>1, <1>2 DEF TypeInv, TypeOK
  <1>4. \A i \in JobIds : JobOK(jobs'[i], sends')
    BY <1>3, KeptJobs, HandlerType DEF new
  <1>5. \A i \in JobIds : act[i].pc # "idle" => i # k
    BY <1>2, HandlerType DEF Fits
  <1> QED
    BY <1>2, <1>3, <1>4, <1>5 DEF JobsFit, new

--------------------------------------------------------------------------------
(* Steps that several actions take.                                        *)

\* A table changes, the queue and the handlers do not.
LEMMA TableStep ==
  ASSUME TypeInv, UNCHANGED <<jobs, act, sends>>, TablesOK'
  PROVE  TypeInv'
  BY DEF TypeInv, TypeOK, TablesOK

\* The queue changes, no handler moves.
LEMMA QueueStep ==
  ASSUME TypeInv, JobsFit(0), UNCHANGED <<act, sends>>, TablesOK'
  PROVE  TypeInv'
  <1>1. \A k \in JobIds : Fits(act[k], jobs'[k], sends)
    <2> SUFFICES ASSUME NEW k \in JobIds PROVE Fits(act[k], jobs'[k], sends)
      OBVIOUS
    <2>1. CASE act[k].pc = "idle"
      BY <2>1, StepNames DEF Fits, EventSteps, GenSteps, WsSteps, RowSteps
    <2>2. CASE act[k].pc # "idle"
      BY <2>2, HandlerType, QueueAssumption DEF JobsFit, JobIds
    <2> QED BY <2>1, <2>2
  <1> QED
    BY <1>1 DEF TypeInv, TypeOK, TablesOK, JobsFit

\* Handler j goes on in state h.
LEMMA HandlerStep ==
  ASSUME TypeInv, RowsFit, NEW j \in JobIds, JobsFit(j), NEW h \in Act, Becomes(j, h),
         Fits(h, jobs'[j], sends'), TablesOK'
  PROVE  TypeInv'
  <1>1. act' \in [JobIds -> Act] /\ act'[j] = h
    BY DEF TypeInv, TypeOK, Becomes
  <1>2. ASSUME NEW k \in JobIds, k # j PROVE act'[k] = act[k]
    BY <1>2 DEF Becomes, TypeInv, TypeOK
  <1>3. \A k \in JobIds : Fits(act'[k], jobs'[k], sends')
    BY <1>1, <1>2, StillFits
  <1> QED
    BY <1>1, <1>3 DEF TypeInv, TypeOK, TablesOK, JobsFit, RowsFit

\* The attempt ends with its job settled.
LEMMA SettledStep ==
  ASSUME TypeInv, NEW j \in JobIds, NEW o \in {"completed", "failed"}, Settled(j, o),
         TablesOK', sends' = sends
  PROVE  TypeInv'
  BY SameRows, SettleFits, IdleFacts, HandlerStep DEF Settled

\* A handler's fields but for the place.
LEMMA GotoFields ==
  ASSUME NEW h \in Act, NEW p \in PC
  PROVE  LET g == [h EXCEPT !.pc = p]
         IN  /\ g \in Act /\ g.pc = p
             /\ g.todo = h.todo /\ g.automation = h.automation /\ g.template = h.template
             /\ g.send = h.send /\ g.text = h.text /\ g.open = h.open
             /\ g.count = h.count /\ g.out = h.out
  BY DEF Act

LEMMA EndsFields ==
  ASSUME NEW h \in Act, NEW o \in Outcomes
  PROVE  LET g == [h EXCEPT !.pc = "write", !.out = o]
         IN  /\ g \in Act /\ g.pc = "write" /\ g.out = o /\ g.send = h.send
             /\ g.automation = h.automation /\ g.todo = h.todo
  <1> DEFINE g == [h EXCEPT !.pc = "write", !.out = o]
  <1>1. "write" \in PC
    BY DEF PC
  <1>2. g \in Act
    BY ZenonT(60), <1>1 DEF Act
  <1>3. g.pc = "write" /\ g.out = o /\ g.send = h.send
        /\ g.automation = h.automation /\ g.todo = h.todo
    BY DEF Act
  <1> QED
    BY <1>2, <1>3

\* Handler j goes on to step p of its job, and the queue and the rows stay.
LEMMA GotoStep ==
  ASSUME TypeInv, NEW j \in JobIds, NEW p, Goto(j, p), UNCHANGED <<jobs, sends>>,
         TablesOK', act[j].pc # "idle", p \notin {"insert", "add", "tplLoad", "tplApply"},
         \/ act[j].pc \in EventSteps /\ p \in EventSteps
         \/ act[j].pc \in GenSteps /\ p \in GenSteps
         \/ act[j].pc \in WsSteps /\ p \in WsSteps
         \/ p = "return"
  PROVE  TypeInv'
  <1> DEFINE h == [act[j] EXCEPT !.pc = p]
  <1>1. p \in PC
    BY StepNames DEF RowSteps
  <1>2. h \in Act /\ h.pc = p /\ h.send = act[j].send
    BY <1>1, HandlerType, GotoFields
  <1>3. Fits(act[j], jobs[j], sends)
    BY HandlerType
  <1> HIDE DEF h
  <1>4. Fits(h, jobs[j], sends)
    BY <1>2, <1>3, StepNames DEF Fits, RowSteps
  <1> QED
    BY <1>2, <1>4, SameRows, SameJobs, HandlerStep DEF Goto, h

\* Handler j goes on to record an outcome.
LEMMA EndsStep ==
  ASSUME TypeInv, NEW j \in JobIds, NEW o \in Outcomes, Ends(j, o),
         UNCHANGED <<jobs, sends>>, TablesOK', act[j].pc \in RowSteps
  PROVE  TypeInv'
  <1> DEFINE h == [act[j] EXCEPT !.pc = "write", !.out = o]
  <1>1. h \in Act /\ h.pc = "write" /\ h.out = o /\ h.send = act[j].send
    BY HandlerType, EndsFields
  <1>2. Fits(act[j], jobs[j], sends)
    BY HandlerType
  <1> HIDE DEF h
  <1>3. Fits(h, jobs[j], sends)
    BY <1>1, <1>2, StepNames DEF Fits, EventSteps, GenSteps, WsSteps, RowSteps
  <1> QED
    BY <1>1, <1>3, SameRows, SameJobs, HandlerStep DEF Ends, h

\* A handler of an event's job that goes on in state h.
LEMMA EventStep ==
  ASSUME TypeInv, NEW j \in JobIds, NEW h \in Act, Becomes(j, h),
         UNCHANGED <<jobs, sends>>, TablesOK', act[j].pc \in EventSteps,
         h.pc \in EventSteps \ {"add", "tplLoad", "tplApply"},
         h.pc = "insert" => h.automation \in Automations
  PROVE  TypeInv'
  <1>1. Fits(act[j], jobs[j], sends)
    BY HandlerType
  <1>2. Fits(h, jobs[j], sends)
    BY <1>1, StepNames DEF Fits, RowSteps
  <1> QED
    BY <1>2, SameRows, SameJobs, HandlerStep

\* A handler of a row's job that goes on in state h.
LEMMA RowStep ==
  ASSUME TypeInv, NEW j \in JobIds, NEW h \in Act, Becomes(j, h),
         UNCHANGED <<jobs, sends>>, TablesOK', h.send = act[j].send,
         \/ act[j].pc \in GenSteps /\ h.pc \in GenSteps
         \/ act[j].pc \in WsSteps /\ h.pc \in WsSteps
  PROVE  TypeInv'
  <1>1. Fits(act[j], jobs[j], sends)
    BY HandlerType
  <1>2. Fits(h, jobs[j], sends)
    BY <1>1, StepNames DEF Fits, RowSteps
  <1> QED
    BY <1>2, SameRows, SameJobs, HandlerStep

--------------------------------------------------------------------------------
(* Ingest, the queue and the worker processes.                             *)

LEMMA IngestType ==
  ASSUME TypeInv, NEW m \in Messages,
         InsertEvent(m) \/ DropEvent(m) \/ EnqueueEventFails(m) \/ TemplateVerdict(m)
  PROVE  TypeInv'
  <1>1. CASE InsertEvent(m)
    <2>1. TablesOK'
      BY <1>1 DEF InsertEvent, dashboard, templateVars, TypeInv, TypeOK, TablesOK,
                  TemplatesOK, Event
    <2> QED
      BY <1>1, <2>1, TableStep DEF InsertEvent
  <1>2. CASE DropEvent(m)
    <2>1. TablesOK'
      BY <1>2 DEF DropEvent, dashboard, templateVars, TypeInv, TypeOK, TablesOK,
                  TemplatesOK
    <2> QED
      BY <1>2, <2>1, TableStep DEF DropEvent
  <1>3. CASE EnqueueEventFails(m)
    <2>1. TablesOK'
      BY <1>3 DEF EnqueueEventFails, dashboard, templateVars, TypeInv, TypeOK, TablesOK,
                  TemplatesOK, Event
    <2> QED
      BY <1>3, <2>1, TableStep DEF EnqueueEventFails
  <1>4. CASE TemplateVerdict(m)
    <2>1. mapStatus[Message[m].event] \in Verdicts
      BY <1>4 DEF TemplateVerdict, mapStatus, Verdicts
    <2>2. verdict' \in [Templates -> Verdicts \cup {"none", "pending"}]
      BY <1>4, <2>1 DEF TemplateVerdict, MetaDecides, TypeInv, TypeOK, TemplatesOK
    <2>3. TablesOK'
      BY <1>4, <2>2 DEF TemplateVerdict, MetaDecides, TypeInv, TypeOK, TablesOK, TemplatesOK
    <2> QED
      BY <1>4, <2>3, TableStep DEF TemplateVerdict
  <1> QED
    BY <1>1, <1>2, <1>3, <1>4

LEMMA EnqueueEventType ==
  ASSUME TypeInv, NEW m \in Messages, EnqueueEvent(m) PROVE TypeInv'
  <1> DEFINE d == ProcessEventJob(m)
  <1>1. PICK k \in JobIds : Add(k, d)
    BY DEF EnqueueEvent
  <1>2. d \in JobData /\ d.type = "process-event" /\ d.event = m
    BY QueueAssumption DEF ProcessEventJob, JobData, JobType, Texts
  <1>3. RowsFit
    BY SameRows DEF EnqueueEvent
  <1> HIDE DEF d
  <1>4. JobsFit(0)
    BY <1>1, <1>2, <1>3, AddFits DEF JobOK
  <1>5. TablesOK'
    BY DEF EnqueueEvent, dashboard, templateVars, TypeInv, TypeOK, TablesOK, TemplatesOK,
           Event
  <1> QED
    BY <1>4, <1>5, QueueStep DEF EnqueueEvent

LEMMA StartType ==
  ASSUME TypeInv, NEW w \in Workers, NEW j \in JobIds, Start(w, j) PROVE TypeInv'
  <1> DEFINE p == FirstStep(jobs[j].data.type)
             h == [Idle EXCEPT !.pc = p, !.send = jobs[j].data.send]
  <1>1. /\ jobs' \in [JobIds -> Job]
        /\ jobs'[j].state = "active" /\ jobs'[j].worker = w
        /\ jobs'[j].data = jobs[j].data
    BY ZenonT(60) DEF Start, Take, TypeInv, TypeOK, Job
  <1>2. /\ \A k \in JobIds : k # j => jobs'[k] = jobs[k]
        /\ jobs[j].state = "waiting" /\ Parses(jobs[j].data)
        /\ sends' = sends /\ TablesOK' /\ Becomes(j, h)
    BY SameTables DEF Start, Take, TypeInv, TypeOK
  <1>3. \/ jobs[j].data.type = "process-event" /\ p = "load"
        \/ jobs[j].data.type = "generate-ai-reply" /\ p = "genLoad"
        \/ jobs[j].data.type = "send-whatsapp" /\ p = "wsLoad"
    <2>1. jobs[j].data.type \in {"process-event", "generate-ai-reply", "send-whatsapp"}
      BY <1>2, HandlerType DEF JobOK, Parses
    <2> QED
      BY <2>1 DEF FirstStep
  <1>4. p \in PC
    BY <1>3, StepNames DEF PC
  <1>5. h \in Act /\ h.pc = p /\ h.send = jobs[j].data.send
    BY ZenonT(60), <1>4, IdleFacts, HandlerType DEF Act, Job, JobData
  <1>6. \A k \in JobIds : JobOK(jobs'[k], sends')
    BY <1>1, <1>2, HandlerType DEF JobOK
  <1>7. JobsFit(j) /\ RowsFit
    BY <1>1, <1>2, <1>6, SameRows DEF JobsFit
  <1> HIDE DEF p, h
  <1>8. w # None
    BY ValueNames
  <1>9. Fits(h, jobs'[j], sends')
    BY <1>1, <1>3, <1>5, <1>8 DEF Fits, EventSteps, GenSteps, WsSteps, RowSteps
  <1> QED
    BY <1>2, <1>5, <1>7, <1>9, HandlerStep

\* The worker and the queue fail a job, or give it up.
LEMMA QueueType ==
  ASSUME TypeInv, NEW j \in JobIds, Stalled(j) \/ \E w \in Workers : Refuse(w, j)
  PROVE  TypeInv'
  <1>1. /\ jobs' \in [JobIds -> Job]
        /\ \A k \in JobIds : jobs'[k].data = jobs[k].data
        /\ \A k \in JobIds : k # j => jobs'[k] = jobs[k]
        /\ jobs[j].state # "none" /\ act[j].pc = "idle"
        /\ UNCHANGED <<act, tables>>
    <2>1. CASE Stalled(j)
      <3>1. jobs' \in [JobIds -> Job]
        BY <2>1, QueueAssumption DEF Stalled, CheckStalled, TypeInv, TypeOK, Job
      <3>2. \A k \in JobIds : jobs'[k].data = jobs[k].data
        BY <2>1 DEF Stalled, CheckStalled, TypeInv, TypeOK, Job
      <3>3. \A k \in JobIds : k # j => jobs'[k] = jobs[k]
        BY <2>1 DEF Stalled, CheckStalled, TypeInv, TypeOK
      <3> QED
        BY <2>1, <3>1, <3>2, <3>3, HandlerType DEF Stalled, CheckStalled, Fits
    <2>2. ASSUME NEW w \in Workers, Refuse(w, j)
          PROVE  /\ jobs' \in [JobIds -> Job]
                 /\ \A k \in JobIds : jobs'[k].data = jobs[k].data
                 /\ \A k \in JobIds : k # j => jobs'[k] = jobs[k]
                 /\ jobs[j].state # "none" /\ act[j].pc = "idle"
                 /\ UNCHANGED <<act, tables>>
      BY <2>2, HandlerType DEF Refuse, TypeInv, TypeOK, Job, Fits
    <2> QED
      BY <2>1, <2>2
  <1>2. TablesOK' /\ UNCHANGED <<act, sends>>
    BY <1>1, SameTables
  <1>3. \A k \in JobIds : JobOK(jobs'[k], sends')
    BY <1>1, <1>2, HandlerType DEF JobOK
  <1>4. JobsFit(0)
    BY <1>1, <1>3 DEF JobsFit
  <1> QED
    BY <1>2, <1>4, QueueStep

LEMMA CrashType == ASSUME TypeInv, NEW w \in Workers, Crash(w) PROVE TypeInv'
  <1>1. /\ jobs' \in [JobIds -> Job]
        /\ \A k \in JobIds : /\ jobs'[k].data = jobs[k].data
                             /\ jobs'[k].state = jobs[k].state
                             /\ jobs[k].worker # w => jobs'[k] = jobs[k]
    BY DEF Crash, Lose, TypeInv, TypeOK, Job
  <1>2. TablesOK' /\ sends' = sends
    BY SameTables DEF Crash
  <1>3. act' \in [JobIds -> Act]
    BY IdleFacts DEF Crash, TypeInv, TypeOK
  <1>4. ASSUME NEW k \in JobIds
        PROVE  JobOK(jobs'[k], sends') /\ Fits(act'[k], jobs'[k], sends')
    <2>1. CASE jobs[k].worker = w
      BY <1>1, <1>2, <2>1, IdleFacts, HandlerType DEF Crash, JobOK
    <2>2. CASE jobs[k].worker # w
      BY <1>1, <1>2, <2>2, HandlerType DEF Crash
    <2> QED BY <2>1, <2>2
  <1> QED
    BY <1>1, <1>2, <1>3, <1>4 DEF TypeInv, TypeOK, TablesOK

LEMMA EndType ==
  ASSUME TypeInv, NEW j \in JobIds, Throw(j) \/ Return(j) \/ InsertFails(j)
  PROVE  TypeInv'
  BY SameTables, SettledStep DEF Throw, Return, InsertFails

--------------------------------------------------------------------------------
(* The owner and time.                                                     *)

LEMMA TemplateRequestType ==
  ASSUME TypeInv, NEW t \in Templates, TemplateRequest(t) PROVE TypeInv'
  <1> USE DEF TypeInv, TypeOK, TablesOK, TemplatesOK
  <1>1. UNCHANGED <<jobs, automations, connected, transit, events, leads, log, sends, costs,
                    delivered, act>>
    BY DEF TemplateRequest
  <1>2. ASSUME NEW row \in Template, UpdateTemplate(t, row)
        PROVE  templates' \in [Templates -> Template]
    BY <1>2 DEF UpdateTemplate
  <1>3. templates[t] \in Template
    OBVIOUS
  <1>4. CASE InsertDraft(t)
    BY <1>1, <1>4, TableStep DEF InsertDraft, Template
  <1>5. CASE SubmitAccepted(t)
    BY <1>1, <1>5, TableStep DEF SubmitAccepted
  <1>6. CASE SubmitFails(t)
    BY <1>1, <1>6, TableStep DEF SubmitFails
  <1>7. CASE RecordSubmission(t)
    <2>1. [status |-> "pending", known |-> TRUE] \in Template
      BY DEF Template
    <2> QED
      BY <1>1, <1>2, <1>7, <2>1, TableStep DEF RecordSubmission
  <1>8. CASE RecordFails(t)
    BY <1>1, <1>8, TableStep DEF RecordFails
  <1>9. CASE DeleteLoad(t)
    BY <1>1, <1>9, TableStep DEF DeleteLoad
  <1>10. CASE DeleteWrite(t)
    <2>1. [status |-> "deleted", known |-> FALSE] \in Template
      BY DEF Template
    <2>2. [templates[t] EXCEPT !.status = "disabled"] \in Template
      BY <1>3 DEF Template
    <2> QED
      BY <1>1, <1>2, <1>10, <2>1, <2>2, TableStep DEF DeleteWrite
  <1> QED
    BY <1>4, <1>5, <1>6, <1>7, <1>8, <1>9, <1>10 DEF TemplateRequest

LEMMA OwnerType == ASSUME TypeInv, Owner PROVE TypeInv'
  <1>1. ASSUME NEW a \in Automations,
               CreateAutomation(a) \/ SetStatus(a) \/ DeleteAutomation(a)
        PROVE  TypeInv'
    <2>1. /\ TablesOK' /\ UNCHANGED <<jobs, act, sends>>
      BY <1>1 DEF CreateAutomation, SetStatus, DeleteAutomation, templateVars, TypeInv,
                  TypeOK, TablesOK, TemplatesOK
    <2> QED
      BY <2>1, TableStep
  <1>2. ASSUME NEW acc \in Accounts, Disconnect(acc) \/ Connect(acc)
        PROVE  TypeInv'
    <2>1. /\ TablesOK' /\ UNCHANGED <<jobs, act, sends>>
      BY <1>2 DEF Disconnect, Connect, templateVars, TypeInv, TypeOK, TablesOK,
                  TemplatesOK
    <2> QED
      BY <2>1, TableStep
  <1> QED
    BY <1>1, <1>2, TemplateRequestType DEF Owner

LEMMA LeadTyped ==
  ASSUME TypeInv, NEW p \in Phones, NEW lead \in Lead, OnLead(p, lead)
  PROVE  leads' \in [Phones -> Lead]
  BY DEF TypeInv, TypeOK, OnLead

LEMMA LeadFlags ==
  ASSUME TypeInv, NEW p \in Phones
  PROVE  /\ leads[p] \in Lead
         /\ [leads[p] EXCEPT !.optedOut = TRUE] \in Lead
         /\ [leads[p] EXCEPT !.open = TRUE] \in Lead
         /\ [leads[p] EXCEPT !.charged = TRUE] \in Lead
         /\ [leads[p] EXCEPT !.open = FALSE] \in Lead
         /\ [leads[p] EXCEPT !.charged = FALSE] \in Lead
  <1>1. leads[p] \in Lead
    BY DEF TypeInv, TypeOK
  <1>2. [leads[p] EXCEPT !.optedOut = TRUE] \in Lead
    BY <1>1 DEF Lead
  <1>3. [leads[p] EXCEPT !.open = TRUE] \in Lead
    BY <1>1 DEF Lead
  <1>4. [leads[p] EXCEPT !.charged = TRUE] \in Lead
    BY <1>1 DEF Lead
  <1>5. [leads[p] EXCEPT !.open = FALSE] \in Lead
    BY <1>1 DEF Lead
  <1>6. [leads[p] EXCEPT !.charged = FALSE] \in Lead
    BY <1>1 DEF Lead
  <1> QED
    BY <1>1, <1>2, <1>3, <1>4, <1>5, <1>6

LEMMA TimeType ==
  ASSUME TypeInv, NEW p \in Phones, WindowCloses(p) \/ ConversationEnds(p)
  PROVE  TypeInv'
  <1>1. leads' \in [Phones -> Lead]
    BY LeadTyped, LeadFlags DEF WindowCloses, ConversationEnds
  <1>2. TablesOK' /\ UNCHANGED <<jobs, act, sends>>
    BY <1>1 DEF WindowCloses, ConversationEnds, dashboard, templateVars, TypeInv, TypeOK,
                TablesOK, TemplatesOK
  <1> QED
    BY <1>2, TableStep

--------------------------------------------------------------------------------
(* process-event.                                                          *)

\* The event of a handler, and the row of one.
LEMMA Subject ==
  ASSUME TypeInv, NEW j \in JobIds
  PROVE  /\ act[j].pc \in EventSteps =>
              /\ jobs[j].data.type = "process-event"
              /\ EventOf(j) \in Messages /\ PhoneOf(j) \in Phones
         /\ act[j].pc \in RowSteps =>
              /\ act[j].send = jobs[j].data.send /\ act[j].send \in SendIds
              /\ SendOf(j).status # "none" /\ SendOf(j).event \in Messages
              /\ Recipient(act[j].send) \in Phones
         /\ act[j].pc \in WsSteps => jobs[j].data.account \in Accounts
  <1>1. /\ Fits(act[j], jobs[j], sends) /\ JobOK(jobs[j], sends)
        /\ act[j].pc # "idle" => jobs[j].state # "none"
    BY HandlerType DEF Fits
  <1>2. act[j].pc \in EventSteps =>
          /\ jobs[j].data.type = "process-event" /\ EventOf(j) \in Messages
    BY <1>1, StepNames DEF Fits, JobOK, EventOf
  <1>3. act[j].pc \in RowSteps =>
          /\ act[j].send = jobs[j].data.send /\ act[j].send \in SendIds
          /\ SendOf(j).status # "none"
    BY <1>1, StepNames DEF Fits, JobOK, SendOf
  <1>4. act[j].pc \in RowSteps => SendOf(j).event \in Messages
    BY <1>3 DEF TypeInv, RowOK, SendOf
  <1>5. \A m \in Messages : Message[m].phone \in Phones
    BY WhatsappAssumption
  <1>6. act[j].pc \in WsSteps => jobs[j].data.account \in Accounts
    BY <1>1, StepNames DEF Fits, JobOK, RowSteps
  <1> QED
    BY <1>2, <1>3, <1>4, <1>5, <1>6 DEF PhoneOf, Recipient, SendOf

LEMMA NotIdle ==
  ASSUME NEW j, act[j].pc \in EventSteps \cup RowSteps PROVE act[j].pc # "idle"
  BY StepNames

LEMMA AfterLeadIs ==
  \A j : AfterLead(j) \in {"optOut", "mark", "dedupe"}
  BY DEF AfterLead

\* The steps of an event's handler that only move it on.
LEMMA ReadsType ==
  ASSUME TypeInv, NEW j \in JobIds,
         LeadLoad(j) \/ LeadInsertCaught(j) \/ Dedupe(j)
  PROVE  TypeInv'
  <1>1. /\ UNCHANGED <<jobs, tables>> /\ act[j].pc \in EventSteps
        /\ \E p \in {"leadRefresh", "leadInsert", "leadReread", "mark", "query"} : Goto(j, p)
    BY DEF LeadLoad, LeadInsertCaught, Dedupe, EventSteps
  <1>2. {"leadRefresh", "leadInsert", "leadReread", "mark", "query"}
          \subseteq EventSteps \ {"insert", "add", "tplLoad", "tplApply"}
    BY DEF EventSteps
  <1> QED
    BY <1>1, <1>2, NotIdle, SameTables, GotoStep

LEMMA LoadType == ASSUME TypeInv, NEW j \in JobIds, Load(j) PROVE TypeInv'
  <1> DEFINE m == EventOf(j)
  <1>1. act[j].pc = "load" /\ act[j].pc \in EventSteps
    BY DEF Load, EventSteps
  <1>2. m \in Messages /\ Message[m].kind \in Kinds
    BY <1>1, Subject, WhatsappAssumption
  <1>3. CASE Settled(j, "completed")
    BY <1>3, SettledStep, SameTables DEF Load
  <1>4. ASSUME NEW p \in {"leadLoad", "mark"}, Goto(j, p), UNCHANGED jobs
        PROVE  TypeInv'
    <2>1. p \in EventSteps \ {"insert", "add", "tplLoad", "tplApply"}
      BY DEF EventSteps
    <2> QED
      BY <1>1, <1>4, <2>1, NotIdle, SameTables, GotoStep DEF Load
  <1>5. ASSUME Message[m].kind = "templateStatus", Goto(j, "tplLoad"), UNCHANGED jobs
        PROVE  TypeInv'
    <2> DEFINE h == [act[j] EXCEPT !.pc = "tplLoad"]
    <2>0. "tplLoad" \in PC
      BY DEF PC
    <2>1. h \in Act /\ h.pc = "tplLoad"
      BY <2>0, HandlerType, GotoFields
    <2>2. Fits(act[j], jobs[j], sends)
      BY HandlerType
    <2> HIDE DEF h
    <2>3. Fits(h, jobs[j], sends)
      BY <1>1, <1>5, <2>1, <2>2
      DEF Fits, EventSteps, GenSteps, WsSteps, RowSteps, EventOf
    <2> QED
      BY <1>5, <2>1, <2>3, SameTables, SameRows, SameJobs, HandlerStep DEF Goto, h, Load
  <1> QED
    BY <1>2, <1>3, <1>4, <1>5 DEF Load, Kinds

\* A step that writes the lead or the log.
LEMMA LeadWritesType ==
  ASSUME TypeInv, NEW j \in JobIds,
         \/ LeadRefresh(j) \/ LeadInsert(j) \/ LogOptIn(j) \/ LeadReread(j)
         \/ OptOut(j) \/ LogOptOut(j)
  PROVE  TypeInv'
  <1>1. /\ UNCHANGED <<jobs, sends>> /\ act[j].pc \in EventSteps
        /\ \E p \in {"logOptIn", "logOptOut", "optOut", "mark", "dedupe"} : Goto(j, p)
    BY AfterLeadIs
    DEF LeadRefresh, LeadInsert, LogOptIn, LeadReread, OptOut, LogOptOut, EventSteps
  <1>2. {"logOptIn", "logOptOut", "optOut", "mark", "dedupe"}
          \subseteq EventSteps \ {"insert", "add", "tplLoad", "tplApply"}
    BY DEF EventSteps
  <1>3. PhoneOf(j) \in Phones /\ EventOf(j) \in Messages
    BY <1>1, Subject
  <1>4. NewLead \in Lead
    BY DEF NewLead, NoLead, Lead
  <1>5. leads' \in [Phones -> Lead]
    <2>1. CASE leads' = leads
      BY <2>1 DEF TypeInv, TypeOK
    <2>2. ASSUME NEW lead \in Lead, OnLead(PhoneOf(j), lead) PROVE leads' \in [Phones -> Lead]
      BY <1>3, <2>2, LeadTyped
    <2> QED
      BY <1>3, <1>4, <2>1, <2>2, LeadFlags
      DEF LeadRefresh, LeadInsert, LogOptIn, LeadReread, OptOut, LogOptOut
  <1>6. log' \subseteq [event : Messages, action : {"optIn", "optOut", "givenUp"}]
    <2>1. CASE log' = log
      BY <2>1 DEF TypeInv, TypeOK
    <2>2. ASSUME NEW a \in {"optIn", "optOut", "givenUp"},
                 log' = log \cup {[event |-> EventOf(j), action |-> a]}
          PROVE  log' \subseteq [event : Messages, action : {"optIn", "optOut", "givenUp"}]
      BY <1>3, <2>2 DEF TypeInv, TypeOK
    <2> QED
      BY <2>1, <2>2 DEF LeadRefresh, LeadInsert, LogOptIn, LeadReread, OptOut, LogOptOut
  <1>7. UNCHANGED <<dashboard, transit, events, costs, delivered>>
    BY DEF LeadRefresh, LeadInsert, LogOptIn, LeadReread, OptOut, LogOptOut
  <1>8. TablesOK'
    BY <1>5, <1>6, <1>7
    DEF dashboard, templateVars, TypeInv, TypeOK, TablesOK, TemplatesOK
  <1> QED
    BY <1>1, <1>2, <1>8, NotIdle, GotoStep

LEMMA MatchingType ==
  ASSUME TypeInv, NEW j \in JobIds,
         \/ QueryAutomations(j) \/ MatchingDone(j)
         \/ \E a \in Automations : Match(j, a)
  PROVE  TypeInv'
  <1>1. UNCHANGED <<jobs, tables>> /\ act[j].pc \in EventSteps
    BY DEF QueryAutomations, MatchingDone, Match, EventSteps
  <1>7. {"next", "mark"} \subseteq PC
    BY DEF PC
  <1>2. {"next", "insert", "mark"} \subseteq EventSteps \ {"add", "tplLoad", "tplApply"}
    BY DEF EventSteps
  <1>3. ASSUME NEW h \in Act, Becomes(j, h), h.pc \in {"next", "insert", "mark"},
               h.pc = "insert" => h.automation \in Automations
        PROVE  TypeInv'
    BY <1>1, <1>2, <1>3, SameTables, EventStep
  <1>4. CASE QueryAutomations(j)
    <2>1. PICK found \in SUBSET Automations :
            Becomes(j, [act[j] EXCEPT !.pc = "next", !.todo = found])
      BY <1>4 DEF QueryAutomations
    <2> DEFINE h == [act[j] EXCEPT !.pc = "next", !.todo = found]
    <2>2. h \in Act /\ h.pc = "next"
      BY ZenonT(60), HandlerType, <1>7 DEF Act
    <2> QED
      BY <1>3, <2>1, <2>2
  <1>5. CASE MatchingDone(j)
    <2> DEFINE h == [Idle EXCEPT !.pc = "mark"]
    <2>1. h \in Act /\ h.pc = "mark"
      BY <1>7, IdleFacts, GotoFields
    <2> QED
      BY <1>3, <1>5, <2>1 DEF MatchingDone
  <1>6. ASSUME NEW a \in Automations, Match(j, a) PROVE TypeInv'
    <2>1. CASE Becomes(j, [act[j] EXCEPT !.todo = act[j].todo \ {a}])
      <3> DEFINE h == [act[j] EXCEPT !.todo = act[j].todo \ {a}]
      <3>1. h \in Act /\ h.pc = "next"
        BY <1>6, HandlerType DEF Act, Match
      <3> QED
        BY <1>3, <2>1, <3>1
    <2>2. ASSUME NEW t \in Texts,
                 Becomes(j, [act[j] EXCEPT !.todo = act[j].todo \ {a}, !.automation = a,
                                           !.text = t, !.template = TemplateOf(a),
                                           !.pc = "insert"])
          PROVE  TypeInv'
      <3> DEFINE h == [act[j] EXCEPT !.todo = act[j].todo \ {a}, !.automation = a,
                                     !.text = t, !.template = TemplateOf(a),
                                     !.pc = "insert"]
      <3>1. Config[a].template \in Templates \cup {None}
        BY WhatsappAssumption
      <3>2. TemplateOf(a) \in Templates \cup {None} /\ "insert" \in PC
        BY <3>1 DEF TemplateOf, PC
      <3>3. h \in Act /\ h.pc = "insert" /\ h.automation = a
        BY ZenonT(60), <3>2, HandlerType DEF Act
      <3> QED
        BY <1>3, <2>2, <3>3
    <2> QED
      BY <1>6, <2>1, <2>2, ValueNames DEF Match
  <1> QED
    BY <1>4, <1>5, <1>6

\* What the tables have to do with a step that leaves all but the rows alone.
LEMMA OtherTables ==
  ASSUME TypeInv, UNCHANGED <<dashboard, transit, events, leads, log, costs, delivered>>
  PROVE  TablesOK'
  BY DEF dashboard, templateVars, TypeInv, TypeOK, TablesOK, TemplatesOK

LEMMA InsertSendType ==
  ASSUME TypeInv, NEW j \in JobIds, InsertSend(j) PROVE TypeInv'
  <1>1. PICK s \in SendIds :
          /\ IsNextSend(s)
          /\ sends' = [sends EXCEPT ![s] =
                [status |-> "queued", event |-> EventOf(j), automation |-> act[j].automation,
                 template |-> act[j].template, text |-> act[j].text]]
          /\ Becomes(j, [act[j] EXCEPT !.pc = "add", !.send = s])
    BY DEF InsertSend
  <1> DEFINE row == [status |-> "queued", event |-> EventOf(j),
                     automation |-> act[j].automation, template |-> act[j].template,
                     text |-> act[j].text]
             h == [act[j] EXCEPT !.pc = "add", !.send = s]
  <1>2. /\ act[j].pc = "insert" /\ jobs' = jobs /\ act[j].pc \in EventSteps
        /\ EventOf(j) \in Messages
    BY Subject DEF InsertSend, EventSteps
  <1>3. row \in Send /\ row.status = "queued" /\ row.event = EventOf(j)
    BY <1>2, HandlerType DEF Act, Send
  <1>4. h \in Act /\ h.pc = "add" /\ h.send = s /\ h.automation = act[j].automation
    <2>1. "add" \in PC /\ s \in 0 .. MaxSends
      BY ValueNames DEF PC
    <2> QED
      BY ZenonT(60), <2>1, HandlerType DEF Act
  <1> HIDE DEF row, h
  <1>5. /\ sends' \in [SendIds -> Send] /\ sends'[s] = row
        /\ \A r \in SendIds : r # s => sends'[r] = sends[r]
    BY <1>1, <1>3 DEF row, TypeInv, TypeOK
  <1>6. RowsFit
    BY <1>1, <1>2, <1>3, <1>5 DEF RowsFit, RowsStay, RowOK, TypeInv, IsNextSend
  <1>7. Fits(act[j], jobs[j], sends)
    BY HandlerType
  <1>8. Fits(h, jobs[j], sends')
    BY <1>2, <1>3, <1>4, <1>5, <1>7
    DEF Fits, EventSteps, GenSteps, WsSteps, RowSteps, EventOf
  <1>9. TablesOK'
    BY OtherTables DEF InsertSend
  <1> QED
    BY <1>1, <1>2, <1>4, <1>6, <1>8, <1>9, SameJobs, HandlerStep DEF h

\* The jobs the handlers add.
LEMMA AddedJobs ==
  ASSUME TypeInv, NEW s \in SendIds, sends[s].status # "none", sends' = sends,
         NEW m \in Messages, NEW acc \in Accounts, NEW t \in Texts,
         NEW d \in {GenerateAiReplyJob(m, s), SendWhatsappJob(s, acc, t),
                    SendDMJob(s, None, t)}
  PROVE  /\ d \in JobData
         /\ JobOK([state |-> "waiting", data |-> d, worker |-> None, stalls |-> 0], sends')
  <1>1. CASE d = GenerateAiReplyJob(m, s)
    BY <1>1, ValueNames DEF GenerateAiReplyJob, JobData, JobType, JobOK
  <1>2. CASE d = SendWhatsappJob(s, acc, t)
    BY <1>2, ValueNames DEF SendWhatsappJob, JobData, JobType, JobOK
  <1>3. CASE d = SendDMJob(s, None, t)
    BY <1>3, ValueNames DEF SendDMJob, JobData, JobType, JobOK
  <1> QED
    BY <1>1, <1>2, <1>3

\* A handler that adds a job keeps its own.
LEMMA AddStep ==
  ASSUME TypeInv, NEW j \in JobIds, NEW k \in JobIds, NEW d \in JobData, Add(k, d),
         JobOK([state |-> "waiting", data |-> d, worker |-> None, stalls |-> 0], sends'),
         UNCHANGED tables, act[j].pc # "idle", NEW h \in Act, Becomes(j, h),
         Fits(h, jobs[j], sends)
  PROVE  TypeInv'
  <1>1. RowsFit /\ sends' = sends /\ TablesOK'
    BY SameRows, SameTables
  <1>2. JobsFit(j) /\ jobs[k].state = "none" /\ \A i \in JobIds : i # k => jobs'[i] = jobs[i]
    BY <1>1, AddFits
  <1>3. jobs'[j] = jobs[j]
    BY <1>2, HandlerType DEF Fits
  <1> QED
    BY <1>1, <1>2, <1>3, HandlerStep

LEMMA AddSendType == ASSUME TypeInv, NEW j \in JobIds, AddSend(j) PROVE TypeInv'
  <1> DEFINE s == act[j].send
             h == [act[j] EXCEPT !.pc = "next", !.automation = None, !.template = None,
                                 !.send = 0, !.text = "empty"]
  <1>1. PICK k \in JobIds : Add(k, IF Config[act[j].automation].ai
                                     THEN GenerateAiReplyJob(EventOf(j), s)
                                     ELSE SendWhatsappJob(s, AccountOf(s), act[j].text))
    BY DEF AddSend
  <1>2. /\ act[j].pc = "add" /\ Becomes(j, h) /\ UNCHANGED tables
        /\ act[j].pc \in EventSteps /\ act[j].pc # "idle"
    BY DEF AddSend, EventSteps
  <1>3. Fits(act[j], jobs[j], sends) /\ act[j] \in Act
    BY HandlerType
  <1>4. s \in SendIds /\ sends[s].status # "none" /\ EventOf(j) \in Messages
    BY <1>2, <1>3, Subject DEF Fits
  <1>5. sends[s].event \in Messages
    BY <1>4 DEF TypeInv, RowOK
  <1>6. AccountOf(s) \in Accounts /\ act[j].text \in Texts
    BY <1>3, <1>5, WhatsappAssumption DEF AccountOf, Act
  <1>7. h \in Act /\ h.pc = "next"
    <2>1. "next" \in PC /\ 0 \in 0 .. MaxSends /\ "empty" \in Texts
      BY ValueNames DEF PC
    <2> QED
      BY ZenonT(60), <1>3, <2>1 DEF Act
  <1> HIDE DEF h, s
  <1>8. Fits(h, jobs[j], sends)
    BY <1>2, <1>3, <1>7 DEF Fits, EventSteps, GenSteps, WsSteps, RowSteps
  <1>9. sends' = sends
    BY <1>2, SameTables
  <1> QED
    BY <1>1, <1>2, <1>4, <1>6, <1>7, <1>8, <1>9, AddedJobs, AddStep

--------------------------------------------------------------------------------
(* A template's status.                                                    *)

LEMMA TemplateLoadType ==
  ASSUME TypeInv, NEW j \in JobIds, TemplateLoad(j) PROVE TypeInv'
  <1>1. act[j].pc = "tplLoad" /\ UNCHANGED <<jobs, tables>> /\ act[j].pc \in EventSteps
    BY DEF TemplateLoad, EventSteps
  <1>2. CASE Goto(j, "mark")
    <2>1. "mark" \in EventSteps
      BY DEF EventSteps
    <2> QED
      BY <1>1, <1>2, <2>1, NotIdle, SameTables, GotoStep
  <1>3. CASE Goto(j, "tplApply") /\ Message[EventOf(j)].event \in DOMAIN mapStatus
    <2> DEFINE h == [act[j] EXCEPT !.pc = "tplApply"]
    <2>1. "tplApply" \in PC
      BY DEF PC
    <2>2. h \in Act /\ h.pc = "tplApply"
      BY <2>1, HandlerType, GotoFields
    <2>3. Fits(act[j], jobs[j], sends)
      BY HandlerType
    <2> HIDE DEF h
    <2>4. Fits(h, jobs[j], sends)
      BY <1>1, <1>3, <2>2, <2>3
      DEF Fits, EventSteps, GenSteps, WsSteps, RowSteps, EventOf
    <2> QED
      BY <1>1, <1>3, <2>2, <2>4, SameTables, SameRows, SameJobs, HandlerStep DEF Goto, h
  <1> QED
    BY <1>2, <1>3 DEF TemplateLoad

\* The template a status is about.
LEMMA StatusSubject ==
  ASSUME TypeInv, NEW j \in JobIds, act[j].pc = "tplApply"
  PROVE  /\ EventOf(j) \in Messages /\ Message[EventOf(j)].kind = "templateStatus"
         /\ Message[EventOf(j)].template \in Templates
         /\ mapStatus[Message[EventOf(j)].event] \in Verdicts
  <1>1. act[j].pc \in EventSteps
    BY DEF EventSteps
  <1>2. /\ EventOf(j) \in Messages /\ Message[EventOf(j)].kind = "templateStatus"
        /\ Message[EventOf(j)].event \in DOMAIN mapStatus
    BY <1>1, Subject, HandlerType DEF Fits, EventOf
  <1>3. Message[EventOf(j)].template \in Templates
    BY <1>2, WhatsappAssumption
  <1>4. mapStatus[Message[EventOf(j)].event] \in Verdicts
    BY <1>2 DEF mapStatus, Verdicts
  <1> QED
    BY <1>2, <1>3, <1>4

LEMMA TemplateApplyType ==
  ASSUME TypeInv, NEW j \in JobIds, TemplateApply(j) PROVE TypeInv'
  <1> DEFINE t == Message[EventOf(j)].template
             v == mapStatus[Message[EventOf(j)].event]
  <1>1. /\ act[j].pc = "tplApply" /\ Goto(j, "mark")
        /\ UpdateTemplate(t, [templates[t] EXCEPT !.status = v])
        /\ UNCHANGED <<jobs, create, remove, verdict, automations, connected, transit, events,
                       leads, log, sends, costs, delivered>>
    BY DEF TemplateApply
  <1>2. t \in Templates /\ v \in Verdicts
    BY <1>1, StatusSubject
  <1> HIDE DEF t, v
  <1>3. templates \in [Templates -> Template]
    BY DEF TypeInv, TypeOK, TemplatesOK
  <1>4. [templates[t] EXCEPT !.status = v] \in Template
    BY <1>2, <1>3 DEF Template, Verdicts
  <1>5. templates' \in [Templates -> Template]
    BY <1>1, <1>3, <1>4 DEF UpdateTemplate
  <1>6. TablesOK'
    BY <1>1, <1>5 DEF TypeInv, TypeOK, TablesOK, TemplatesOK
  <1>7. act[j].pc \in EventSteps /\ "mark" \in EventSteps
    BY <1>1 DEF EventSteps
  <1> QED
    BY <1>1, <1>6, <1>7, NotIdle, GotoStep

LEMMA MarkType == ASSUME TypeInv, NEW j \in JobIds, MarkProcessed(j) PROVE TypeInv'
  <1>1. act[j].pc \in EventSteps /\ UNCHANGED <<jobs, sends>> /\ Goto(j, "return")
    BY DEF MarkProcessed, EventSteps
  <1>2. TablesOK'
    BY DEF MarkProcessed, dashboard, templateVars, TypeInv, TypeOK, TablesOK, TemplatesOK,
           Event
  <1> QED
    BY <1>1, <1>2, NotIdle, GotoStep

--------------------------------------------------------------------------------
(* generate-ai-reply and send-whatsapp.                                    *)

\* A handler that writes to its row goes on to step p.
LEMMA RowWriteStep ==
  ASSUME TypeInv, NEW j \in JobIds, act[j].pc \in RowSteps, jobs' = jobs, TablesOK',
         NEW row \in Send, row.status # "none", row.event = SendOf(j).event,
         sends' = [sends EXCEPT ![act[j].send] = row],
         NEW p \in {"return", "genAdd"}, Goto(j, p),
         p = "genAdd" => act[j].pc \in GenSteps
  PROVE  TypeInv'
  <1> DEFINE s == act[j].send
             h == [act[j] EXCEPT !.pc = p]
  <1>1. s \in SendIds /\ sends[s].status # "none" /\ sends[s].event \in Messages
    BY Subject DEF SendOf
  <1>2. p \in PC
    BY DEF PC
  <1>3. h \in Act /\ h.pc = p /\ h.send = s
    BY <1>2, HandlerType, GotoFields
  <1>4. /\ sends' \in [SendIds -> Send] /\ sends'[s] = row
        /\ \A r \in SendIds : r # s => sends'[r] = sends[r]
    BY <1>1 DEF TypeInv, TypeOK
  <1>5. row.event = sends[s].event
    BY DEF SendOf
  <1> HIDE DEF s, h
  <1>6. RowsFit
    BY <1>1, <1>4, <1>5 DEF RowsFit, RowsStay, RowOK, TypeInv
  <1>7. Fits(act[j], jobs[j], sends)
    BY HandlerType
  <1>8. Fits(h, jobs[j], sends')
    BY <1>3, <1>7 DEF Fits, EventSteps, GenSteps, WsSteps, RowSteps, s
  <1> QED
    BY <1>3, <1>6, <1>8, SameJobs, HandlerStep DEF Goto, h

LEMMA GenLoadType == ASSUME TypeInv, NEW j \in JobIds, GenLoad(j) PROVE TypeInv'
  <1>1. act[j].pc \in GenSteps /\ "genAsk" \in GenSteps
    BY DEF GenLoad, GenSteps
  <1>2. act[j].pc # "idle"
    BY <1>1, NotIdle DEF RowSteps
  <1>3. "genAsk" \notin {"insert", "add", "tplLoad", "tplApply"}
    OBVIOUS
  <1> QED
    BY <1>1, <1>2, <1>3, SameTables, SettledStep, GotoStep DEF GenLoad

LEMMA GenAskType == ASSUME TypeInv, NEW j \in JobIds, GenAsk(j) PROVE TypeInv'
  <1>1. act[j].pc \in GenSteps /\ UNCHANGED <<jobs, tables>>
    BY DEF GenAsk, GenSteps
  <1>2. CASE Becomes(j, [act[j] EXCEPT !.pc = "genContent", !.text = "ai"])
    <2> DEFINE h == [act[j] EXCEPT !.pc = "genContent", !.text = "ai"]
    <2>1. "genContent" \in PC /\ "ai" \in Texts
      BY ValueNames DEF PC
    <2>2. h \in Act /\ h.pc = "genContent" /\ h.send = act[j].send
      BY ZenonT(60), <2>1, HandlerType DEF Act
    <2> HIDE DEF h
    <2>3. h.pc \in GenSteps
      BY <2>2 DEF GenSteps
    <2> QED
      BY <1>1, <1>2, <2>2, <2>3, SameTables, RowStep DEF h
  <1>3. CASE Ends(j, "failed")
    BY <1>1, <1>3, ValueNames, SameTables, EndsStep DEF RowSteps
  <1> QED
    BY <1>2, <1>3 DEF GenAsk

LEMMA GenContentType == ASSUME TypeInv, NEW j \in JobIds, GenContent(j) PROVE TypeInv'
  <1> DEFINE row == [sends[act[j].send] EXCEPT !.text = act[j].text]
  <1>1. /\ act[j].pc \in GenSteps /\ act[j].pc \in RowSteps
        /\ jobs' = jobs /\ Goto(j, "genAdd")
    BY DEF GenContent, GenSteps, RowSteps
  <1>2. act[j].send \in SendIds /\ act[j].text \in Texts
    BY <1>1, Subject, HandlerType DEF Act
  <1>3. sends[act[j].send] \in Send /\ sends[act[j].send].status # "none"
    BY <1>1, <1>2, Subject DEF TypeInv, TypeOK, SendOf
  <1>4. row \in Send /\ row.status # "none" /\ row.event = SendOf(j).event
    BY <1>2, <1>3 DEF Send, SendOf
  <1>5. sends' = [sends EXCEPT ![act[j].send] = row]
    BY <1>2 DEF GenContent, TypeInv, TypeOK
  <1>6. TablesOK'
    BY OtherTables DEF GenContent
  <1> HIDE DEF row
  <1> QED
    BY <1>1, <1>4, <1>5, <1>6, RowWriteStep

LEMMA GenCaughtType == ASSUME TypeInv, NEW j \in JobIds, GenCaught(j) PROVE TypeInv'
  <1>1. /\ act[j].pc \in GenSteps /\ "genContent" \in GenSteps
        /\ UNCHANGED <<jobs, tables>> /\ Goto(j, "genContent") /\ act[j].pc # "idle"
    BY DEF GenCaught, GenSteps
  <1> QED
    BY <1>1, SameTables, GotoStep

LEMMA GenAddType == ASSUME TypeInv, NEW j \in JobIds, GenAdd(j) PROVE TypeInv'
  <1> DEFINE s == act[j].send
             h == [act[j] EXCEPT !.pc = "return"]
  <1>1. PICK k \in JobIds : Add(k, SendDMJob(s, None, act[j].text))
    BY DEF GenAdd
  <1>2. /\ Goto(j, "return") /\ UNCHANGED tables /\ act[j].pc \in RowSteps
        /\ act[j].pc # "idle"
    BY DEF GenAdd, GenSteps, RowSteps
  <1>3. s \in SendIds /\ sends[s].status # "none" /\ sends[s].event \in Messages
    BY <1>2, Subject DEF SendOf
  <1>4. act[j].text \in Texts /\ Message[sends[s].event].account \in Accounts
    BY <1>3, HandlerType, WhatsappAssumption DEF Act
  <1>5. "return" \in PC
    BY DEF PC
  <1>6. h \in Act /\ h.pc = "return"
    BY <1>5, HandlerType, GotoFields
  <1>7. Becomes(j, h)
    BY <1>2 DEF Goto
  <1> HIDE DEF h, s
  <1>8. Fits(act[j], jobs[j], sends)
    BY HandlerType
  <1>9. Fits(h, jobs[j], sends)
    BY <1>2, <1>6, <1>8 DEF Fits, EventSteps, GenSteps, WsSteps, RowSteps
  <1>10. sends' = sends
    BY <1>2, SameTables
  <1> QED
    BY <1>1, <1>2, <1>3, <1>4, <1>6, <1>7, <1>9, <1>10, AddedJobs, AddStep

\* What the gates read is kept in the handler: h goes on to p, and knows b and n.
LEMMA OpenField ==
  ASSUME NEW h \in Act, NEW b \in BOOLEAN
  PROVE  LET g == [h EXCEPT !.open = b]
         IN  g \in Act /\ g.pc = h.pc /\ g.send = h.send /\ g.open = b
  BY DEF Act

LEMMA CountField ==
  ASSUME NEW h \in Act, NEW n \in Nat
  PROVE  LET g == [h EXCEPT !.count = n]
         IN  g \in Act /\ g.pc = h.pc /\ g.send = h.send /\ g.count = n
  BY DEF Act

LEMMA GatesRead ==
  ASSUME TypeInv, NEW j \in JobIds, NEW p \in WsSteps, NEW b \in BOOLEAN, NEW n \in Nat,
         act[j].pc \in WsSteps, UNCHANGED <<jobs, tables>>,
         \/ Becomes(j, [act[j] EXCEPT !.pc = p, !.open = b])
         \/ Becomes(j, [act[j] EXCEPT !.pc = p, !.count = n])
  PROVE  TypeInv'
  <1> DEFINE h == [act[j] EXCEPT !.pc = p]
             f == [h EXCEPT !.open = b]
             g == [h EXCEPT !.count = n]
  <1>1. p \in PC
    BY StepNames DEF RowSteps
  <1>2. h \in Act /\ h.pc = p /\ h.send = act[j].send
    BY <1>1, HandlerType, GotoFields
  <1>3. /\ [act[j] EXCEPT !.pc = p, !.open = b] = f
        /\ [act[j] EXCEPT !.pc = p, !.count = n] = g
    OBVIOUS
  <1> HIDE DEF h
  <1>4. /\ f \in Act /\ f.pc = p /\ f.send = act[j].send
        /\ g \in Act /\ g.pc = p /\ g.send = act[j].send
    BY <1>2, OpenField, CountField
  <1> HIDE DEF f, g
  <1> QED
    BY <1>3, <1>4, SameTables, RowStep

LEMMA WsLoadType == ASSUME TypeInv, NEW j \in JobIds, WsLoad(j) PROVE TypeInv'
  <1>1. /\ act[j].pc \in WsSteps /\ "wsLead" \in WsSteps /\ act[j].pc # "idle"
        /\ act[j].pc \in RowSteps /\ "failed" \in Outcomes
    BY DEF WsLoad, WsSteps, RowSteps, Outcomes
  <1>2. "wsLead" \notin {"insert", "add", "tplLoad", "tplApply"}
    OBVIOUS
  <1> QED
    BY <1>1, <1>2, SameTables, SettledStep, EndsStep, GotoStep DEF WsLoad

LEMMA WsLeadType == ASSUME TypeInv, NEW j \in JobIds, WsLead(j) PROVE TypeInv'
  <1>1. /\ act[j].pc \in WsSteps /\ "wsCap" \in WsSteps /\ act[j].pc # "idle"
        /\ act[j].pc \in RowSteps /\ UNCHANGED <<jobs, tables>> /\ "optedOut" \in Outcomes
    BY DEF WsLead, WsSteps, RowSteps, Outcomes
  <1>2. leads[Recipient(act[j].send)].open \in BOOLEAN
    BY <1>1, Subject DEF TypeInv, TypeOK, Lead
  <1>3. CASE Ends(j, "optedOut")
    BY <1>1, <1>3, SameTables, EndsStep
  <1>4. CASE Goto(j, "wsCap")
    BY <1>1, <1>4, SameTables, GotoStep
  <1>5. CASE Becomes(j, [act[j] EXCEPT !.pc = "wsCap",
                                       !.open = leads[Recipient(act[j].send)].open])
    BY <1>1, <1>2, <1>5, GatesRead
  <1> QED
    BY <1>3, <1>4, <1>5 DEF WsLead

\* The gates that only let pass or end the send, and the lead's conversation.
LEMMA GatesType ==
  ASSUME TypeInv, NEW j \in JobIds,
         WsCap(j) \/ WsMode(j) \/ WsRate(j) \/ PostRefused(j) \/ CostLead(j) \/ CostFails(j)
  PROVE  TypeInv'
  <1>1. /\ act[j].pc \in WsSteps /\ act[j].pc # "idle" /\ act[j].pc \in RowSteps
        /\ UNCHANGED <<jobs, tables>>
    BY DEF WsCap, WsMode, WsRate, PostRefused, CostLead, CostFails, WsSteps, RowSteps
  <1>2. \/ \E o \in {"failed", "rateLimited", "dailyCapExceeded", "outsideWindow", "sent"} :
             Ends(j, o)
        \/ \E p \in {"wsMode", "wsRate", "wsPost", "costCharge", "costLoad"} : Goto(j, p)
    BY DEF WsCap, WsMode, WsRate, PostRefused, CostLead, CostFails
  <1>3. /\ {"failed", "rateLimited", "dailyCapExceeded", "outsideWindow", "sent"}
             \subseteq Outcomes
        /\ {"wsMode", "wsRate", "wsPost", "costCharge", "costLoad"}
             \subseteq WsSteps \ {"insert", "add", "tplLoad", "tplApply"}
    BY DEF Outcomes, WsSteps
  <1> QED
    BY <1>1, <1>2, <1>3, SameTables, EndsStep, GotoStep

\* The call of Meta: what it accepted is counted.
LEMMA PostType ==
  ASSUME TypeInv, NEW j \in JobIds,
         PostAccepted(j) \/ PostAnswerLost(j) \/ PostServerError(j)
  PROVE  TypeInv'
  <1>1. /\ act[j].pc \in WsSteps /\ act[j].pc # "idle" /\ act[j].pc \in RowSteps
        /\ sends' = sends
    BY DEF PostAccepted, PostAnswerLost, PostServerError, tables, WsSteps, RowSteps
  <1>2. act[j].send \in SendIds
    BY <1>1, Subject
  <1>3. ASSUME Delivered(act[j].send),
               UNCHANGED <<dashboard, transit, events, leads, log, sends, costs>>
        PROVE  TablesOK'
    BY <1>2, <1>3 DEF Delivered, dashboard, templateVars, TypeInv, TypeOK, TablesOK,
                      TemplatesOK
  <1>4. TablesOK'
    BY <1>3, SameTables DEF PostAccepted, PostAnswerLost, PostServerError
  <1>5. CASE Settled(j, "failed")
    BY <1>1, <1>4, <1>5, SettledStep
  <1>6. CASE jobs' = jobs /\ (Ends(j, "failed") \/ Ends(j, "sent"))
    <2>1. "failed" \in Outcomes /\ "sent" \in Outcomes
      BY DEF Outcomes
    <2> QED
      BY <1>1, <1>4, <1>6, <2>1, EndsStep
  <1>7. CASE jobs' = jobs /\ Goto(j, "costLead")
    <2>1. "costLead" \in WsSteps
      BY DEF WsSteps
    <2> QED
      BY <1>1, <1>4, <1>7, <2>1, GotoStep
  <1> QED
    BY <1>5, <1>6, <1>7 DEF PostAccepted, PostAnswerLost, PostServerError

LEMMA CostLoadType ==
  ASSUME TypeInv, NEW j \in JobIds, CostLoad(j) PROVE TypeInv'
  <1>1. act[j].pc \in WsSteps /\ UNCHANGED <<jobs, tables>>
    BY DEF CostLoad, WsSteps
  <1>2. costs[jobs[j].data.account] \in Nat
    BY <1>1, Subject DEF TypeInv, TypeOK
  <1>3. PICK n \in CountRead(jobs[j].data.account) :
          Becomes(j, [act[j] EXCEPT !.pc = IF n = 0 THEN "costInsert" ELSE "costUpdate",
                                    !.count = n])
    BY DEF CostLoad
  <1>4. n \in Nat
    BY <1>2 DEF CountRead
  <1>5. (IF n = 0 THEN "costInsert" ELSE "costUpdate") \in WsSteps
    BY DEF WsSteps
  <1> QED
    BY <1>1, <1>3, <1>4, <1>5, GatesRead

LEMMA CostRereadType == ASSUME TypeInv, NEW j \in JobIds, CostReread(j) PROVE TypeInv'
  <1> DEFINE n == costs[jobs[j].data.account]
  <1>1. /\ act[j].pc \in WsSteps /\ act[j].pc \in RowSteps /\ UNCHANGED <<jobs, tables>>
        /\ "costUpdate" \in WsSteps /\ "sent" \in Outcomes
    BY DEF CostReread, WsSteps, RowSteps, Outcomes
  <1>2. n \in Nat
    BY <1>1, Subject DEF TypeInv, TypeOK
  <1>3. CASE Becomes(j, [act[j] EXCEPT !.pc = "costUpdate", !.count = n])
    BY <1>1, <1>2, <1>3, GatesRead
  <1>4. CASE Ends(j, "sent")
    BY <1>1, <1>4, SameTables, EndsStep
  <1> QED
    BY <1>3, <1>4 DEF CostReread

\* The writes of the accounting.
LEMMA CostWritesType ==
  ASSUME TypeInv, NEW j \in JobIds, CostCharge(j) \/ CostInsert(j) \/ CostUpdate(j)
  PROVE  TypeInv'
  <1>1. /\ act[j].pc \in WsSteps /\ act[j].pc \in RowSteps /\ act[j].pc # "idle"
        /\ UNCHANGED <<jobs, dashboard, transit, events, log, sends, delivered>>
        /\ {"costLoad", "costReread"} \subseteq WsSteps /\ "sent" \in Outcomes
        /\ {"costLoad", "costReread"} \cap {"insert", "add", "tplLoad", "tplApply"} = {}
    BY DEF CostCharge, CostInsert, CostUpdate, WsSteps, RowSteps, Outcomes
  <1>2. /\ jobs[j].data.account \in Accounts /\ Recipient(act[j].send) \in Phones
        /\ act[j].count + 1 \in Nat
    BY <1>1, Subject, HandlerType DEF Act
  <1>3. leads' \in [Phones -> Lead]
    <2>1. CASE leads' = leads
      BY <2>1 DEF TypeInv, TypeOK
    <2> QED
      BY <1>2, <2>1, LeadTyped, LeadFlags DEF CostCharge, CostInsert, CostUpdate
  <1>4. costs' \in [Accounts -> Nat]
    BY <1>2 DEF CostCharge, CostInsert, CostUpdate, TypeInv, TypeOK
  <1>5. TablesOK'
    BY <1>1, <1>3, <1>4 DEF dashboard, templateVars, TypeInv, TypeOK, TablesOK, TemplatesOK
  <1>6. \/ Ends(j, "sent")
        \/ \E p \in {"costLoad", "costReread"} : Goto(j, p)
    BY DEF CostCharge, CostInsert, CostUpdate
  <1> QED
    BY <1>1, <1>5, <1>6, EndsStep, GotoStep

LEMMA WriteType == ASSUME TypeInv, NEW j \in JobIds, Write(j) PROVE TypeInv'
  <1> DEFINE row == [sends[act[j].send] EXCEPT !.status = act[j].out]
  <1>1. /\ act[j].pc = "write" /\ act[j].pc \in RowSteps /\ jobs' = jobs
        /\ Goto(j, "return")
    BY DEF Write, RowSteps
  <1>2. act[j].send \in SendIds /\ act[j].out \in Outcomes
    BY <1>1, Subject, HandlerType DEF Fits
  <1>3. sends[act[j].send] \in Send
    BY <1>2 DEF TypeInv, TypeOK
  <1>4. row \in Send /\ row.status # "none" /\ row.event = SendOf(j).event
    BY <1>2, <1>3 DEF Send, SendOf, Outcomes
  <1>5. sends' = [sends EXCEPT ![act[j].send] = row]
    BY <1>2 DEF Write, TypeInv, TypeOK
  <1>6. TablesOK'
    BY OtherTables DEF Write
  <1> HIDE DEF row
  <1> QED
    BY <1>1, <1>4, <1>5, <1>6, RowWriteStep

--------------------------------------------------------------------------------
(* The theorem.                                                            *)

LEMMA HandleType == ASSUME TypeInv, NEW j \in JobIds, Handle(j) PROVE TypeInv'
  <1>1. CASE processEvent(j)
    BY <1>1, LoadType, ReadsType, LeadWritesType, MatchingType, InsertSendType, EndType,
       AddSendType, TemplateLoadType, TemplateApplyType, MarkType
    DEF processEvent
  <1>2. CASE generateAiReply(j)
    BY <1>2, GenLoadType, GenAskType, GenContentType, GenCaughtType, GenAddType
    DEF generateAiReply
  <1>3. CASE sendWhatsapp(j)
    BY <1>3, WsLoadType, WsLeadType, GatesType, PostType, CostLoadType, CostRereadType,
       CostWritesType, WriteType
    DEF sendWhatsapp
  <1> QED
    BY <1>1, <1>2, <1>3, EndType DEF Handle

LEMMA NextTypeInv == TypeInv /\ [Next]_vars => TypeInv'
  <1>1. ASSUME TypeInv, Next PROVE TypeInv'
    BY <1>1, IngestType, EnqueueEventType, StartType, QueueType, CrashType, EndType,
       HandleType, OwnerType, TimeType
    DEF Next
  <1>2. ASSUME TypeInv, UNCHANGED vars PROVE TypeInv'
    BY <1>2 DEF vars, templateVars, TypeInv, TypeOK, TemplatesOK
  <1> QED
    BY <1>1, <1>2

\* A job about a row has the row it works on, a handler at a step runs in a worker
\* and is at a step of its own kind of job: generate-ai-reply and send-whatsapp
\* never work on a row that is not there, whatever was lost or handed out again.
THEOREM HandlersFitTheirJobs == Spec => []TypeInv
  BY InitTypeInv, NextTypeInv, PTL DEF Spec

\* Every variable of the WhatsApp path has the shape that the tables and the queue
\* give it, in every state, for any number of workers, messages and jobs.
THEOREM WhatsappTypes == Spec => []TypeOK
  <1>1. TypeInv => TypeOK
    BY DEF TypeInv
  <1> QED
    BY <1>1, HandlersFitTheirJobs, PTL

================================================================================

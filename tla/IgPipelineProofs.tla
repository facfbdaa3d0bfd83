---------------------------- MODULE IgPipelineProofs ----------------------------
(***************************************************************************)
(* Theorems about the Instagram path, for every number of messages,        *)
(* automations, accounts, workers, jobs and sends: its types, and on top   *)
(* of them who answers a message, that what is processed was captured, and *)
(* that an intent is kept.                                                 *)
(***************************************************************************)
EXTENDS IgPipeline, TLAPS

--------------------------------------------------------------------------------
(* The inductive invariant behind TypeOK: a job knows its subject, and a   *)
(* handler is at a step of its own kind of job, with the row it works on.  *)

MatchSteps == {"load", "dedupe", "classify", "query", "next", "insertDm", "addDm",
               "insertReply", "addReply", "mark", "stopped"}
RowSteps   == {"genLoad", "genAsk", "genContent", "genAdd", "dmLoad", "dmGate", "dmPost",
               "crLoad", "crPost", "write", "addDm", "addReply"}

JobInv(job) ==
  job.state # "none" =>
    IF job.data.type = "process-event"
      THEN job.data.event \in Messages
      ELSE job.data.send \in SendIds /\ job.data.type # "send-whatsapp"

HandlerInv(h, job) ==
  /\ h.pc # "idle" => job.state # "none"
  /\ h.pc \in MatchSteps => job.data.type = "process-event"
  /\ h.pc \in RowSteps => h.send \in SendIds
  /\ h.pc = "write" => h.out \in Outcomes \cup {"retry"}
  /\ h.lead # "none" => h.pc # "idle" /\ job.data.type = "process-event"

TypeInv ==
  /\ TypeOK
  /\ \A j \in JobIds : JobInv(jobs[j]) /\ HandlerInv(act[j], jobs[j])

LEMMA InitTypeInv == Init => TypeInv
  <1> SUFFICES ASSUME Init PROVE TypeInv
    OBVIOUS
  <1> USE QueueAssumption, PipelineAssumption
  <1>1. jobs \in [JobIds -> Job]
    BY DEF Init, QueueInit, NoJob, NoData, ProcessEventJob, Job, JobData, JobType, Texts, JobIds
  <1>2. events \in [Messages -> Event]
    BY DEF Init, Event
  <1>3. sends \in [SendIds -> Send]
    BY DEF Init, NoSend, Send, Texts
  <1>4. act \in [JobIds -> Act]
    BY DEF Init, Act, Idle, PC, Texts
  <1>5. /\ accounts \subseteq Accounts
        /\ automations \in [Automations -> {"active", "paused", "deleted"}]
        /\ captured \subseteq Messages
        /\ delivered \in [SendIds -> Nat]
    BY DEF Init
  <1>6. \A j \in JobIds : JobInv(jobs[j]) /\ HandlerInv(act[j], jobs[j])
    BY DEF Init, QueueInit, NoJob, Idle, JobInv, HandlerInv, MatchSteps, RowSteps
  <1> QED
    BY <1>1, <1>2, <1>3, <1>4, <1>5, <1>6 DEF TypeOK, TablesOK, TypeInv

LEMMA IdleFacts ==
  /\ Idle \in Act /\ Idle.pc = "idle" /\ Idle.lead = "none" /\ Idle.send = 0
  /\ \A job : HandlerInv(Idle, job)
  BY QueueAssumption, PipelineAssumption
  DEF Idle, Act, PC, Texts, Outcomes, HandlerInv, MatchSteps, RowSteps

LEMMA HandlerType ==
  ASSUME TypeInv, NEW j \in JobIds
  PROVE  /\ act[j] \in Act /\ jobs[j] \in Job
         /\ HandlerInv(act[j], jobs[j]) /\ JobInv(jobs[j])
  BY DEF TypeInv, TypeOK

LEMMA SameTables == ASSUME TypeInv, UNCHANGED tables PROVE TablesOK'
  BY DEF TypeInv, TypeOK, TablesOK, tables

--------------------------------------------------------------------------------
(* How the queue changes, and what that means to the handlers.             *)

JobsFit == /\ jobs' \in [JobIds -> Job]
           /\ \A k \in JobIds : JobInv(jobs'[k]) /\ HandlerInv(act[k], jobs'[k])

LEMMA SameJobs == ASSUME TypeInv, UNCHANGED jobs PROVE JobsFit
  BY DEF TypeInv, TypeOK, JobsFit

LEMMA SameData ==
  ASSUME TypeInv, jobs' \in [JobIds -> Job],
         \A k \in JobIds : /\ jobs'[k].data = jobs[k].data
                           /\ jobs'[k].state = "none" <=> jobs[k].state = "none"
  PROVE  JobsFit
  BY HandlerType DEF JobsFit, JobInv, HandlerInv

LEMMA SettleFits ==
  ASSUME TypeInv, NEW j \in JobIds, NEW o \in {"completed", "failed"}, Settle(j, o)
  PROVE  JobsFit /\ jobs'[j].state # "none" /\ jobs'[j].data = jobs[j].data
  <1>1. /\ jobs' \in [JobIds -> Job]
        /\ \A k \in JobIds : /\ jobs'[k].data = jobs[k].data
                             /\ jobs'[k].state = "none" <=> jobs[k].state = "none"
        /\ jobs'[j].state # "none"
    BY ZenonT(60), QueueAssumption DEF Settle, TypeInv, TypeOK, Job
  <1> QED
    BY <1>1, SameData

LEMMA AddFits ==
  ASSUME TypeInv, NEW k \in JobIds, NEW d \in JobData, Add(k, d),
         IF d.type = "process-event"
           THEN d.event \in Messages
           ELSE d.send \in SendIds /\ d.type # "send-whatsapp"
  PROVE  JobsFit /\ \A i \in JobIds : act[i].pc # "idle" => jobs'[i] = jobs[i]
  <1>1. /\ jobs' \in [JobIds -> Job]
        /\ \A i \in JobIds : /\ JobInv(jobs'[i])
                             /\ jobs[i].state # "none" => jobs'[i] = jobs[i]
                             /\ jobs[i].state = "none" => act[i].pc = "idle"
    BY QueueAssumption DEF Add, IsNextJob, TypeInv, TypeOK, JobInv, HandlerInv, Job
  <1>2. \A i \in JobIds : act[i].pc = "idle" => HandlerInv(act[i], jobs'[i])
    BY HandlerType DEF HandlerInv, MatchSteps, RowSteps
  <1> QED
    BY <1>1, <1>2, HandlerType DEF JobsFit

--------------------------------------------------------------------------------
(* Steps that several actions take.                                        *)

\* The queue or the tables change, no handler moves.
LEMMA OutsideStep == ASSUME TypeInv, JobsFit, UNCHANGED act, TablesOK' PROVE TypeInv'
  BY DEF TypeInv, TypeOK, JobsFit

\* Handler j goes on in state h.
LEMMA HandlerStep ==
  ASSUME TypeInv, JobsFit, NEW j \in JobIds, NEW h \in Act, Becomes(j, h),
         HandlerInv(h, jobs'[j]), TablesOK'
  PROVE  TypeInv'
  <1>1. act' \in [JobIds -> Act] /\ act'[j] = h
    BY DEF TypeInv, TypeOK, Becomes
  <1>2. ASSUME NEW k \in JobIds, k # j PROVE act'[k] = act[k]
    BY <1>2 DEF Becomes, TypeInv, TypeOK
  <1>3. \A k \in JobIds : HandlerInv(act'[k], jobs'[k])
    BY <1>1, <1>2 DEF JobsFit
  <1> QED
    BY <1>1, <1>3 DEF TypeInv, TypeOK, JobsFit

\* Handler j goes on to step p, and adds a job or not.
LEMMA GotoStep ==
  ASSUME TypeInv, JobsFit, NEW j \in JobIds, NEW p \in PC \ {"idle", "write"}, Goto(j, p),
         TablesOK', jobs'[j] = jobs[j], act[j].pc # "idle",
         p \in MatchSteps => act[j].pc \in MatchSteps,
         p \in RowSteps => act[j].pc \in RowSteps
  PROVE  TypeInv'
  <1> DEFINE h == [act[j] EXCEPT !.pc = p]
  <1>1. h \in Act
    BY HandlerType DEF Act
  <1>2. HandlerInv(h, jobs[j])
    BY HandlerType DEF HandlerInv, Act
  <1> QED
    BY <1>1, <1>2, HandlerStep DEF Goto

\* Handler j goes on to write outcome o.
LEMMA WriteStep ==
  ASSUME TypeInv, NEW j \in JobIds, NEW o \in Outcomes \cup {"retry"},
         Becomes(j, [act[j] EXCEPT !.pc = "write", !.out = o]),
         UNCHANGED jobs, TablesOK', act[j].pc \in RowSteps
  PROVE  TypeInv'
  <1> DEFINE h == [act[j] EXCEPT !.pc = "write", !.out = o]
  <1>1. "write" \in PC /\ "write" \notin MatchSteps /\ "idle" \notin RowSteps
    BY DEF PC, MatchSteps, RowSteps
  <1>2. h \in Act
    BY ZenonT(60), <1>1, HandlerType DEF Act
  <1>3. HandlerInv(h, jobs[j])
    BY <1>1, HandlerType DEF HandlerInv, Act
  <1> QED
    BY <1>2, <1>3, SameJobs, HandlerStep

\* The attempt ends, with the job settled or, for a branch nobody awaits, without.
LEMMA EndStep ==
  ASSUME TypeInv, NEW j \in JobIds, NEW o \in {"completed", "failed"}, End(j, o),
         UNCHANGED tables
  PROVE  TypeInv'
  BY IdleFacts, SameTables, SettleFits, HandlerStep DEF End

LEMMA DetachedStep ==
  ASSUME TypeInv, NEW j \in JobIds, Becomes(j, Idle), UNCHANGED <<jobs, tables>>
  PROVE  TypeInv'
  BY IdleFacts, SameTables, SameJobs, HandlerStep

LEMMA RejectStep ==
  ASSUME TypeInv, NEW j \in JobIds, Reject(j), UNCHANGED tables
  PROVE  TypeInv'
  <1> DEFINE stopped == [Idle EXCEPT !.pc = "stopped", !.worker = act[j].worker,
                                     !.account = act[j].account, !.lead = "running"]
             h == IF act[j].lead = "running" THEN stopped ELSE Idle
  <1>1. "stopped" \in PC /\ "stopped" \in MatchSteps /\ "stopped" \notin RowSteps
    BY DEF PC, MatchSteps, RowSteps
  <1>2. stopped \in Act /\ stopped.pc = "stopped" /\ stopped.lead = "running"
    BY ZenonT(60), <1>1, IdleFacts, HandlerType DEF Act
  <1>3. h \in Act /\ Becomes(j, h)
    BY <1>2, IdleFacts DEF Reject
  <1>4. act[j].lead = "running" => /\ jobs[j].data.type = "process-event"
                                   /\ jobs[j].state # "none"
    BY HandlerType DEF HandlerInv
  <1>5. /\ JobsFit /\ jobs'[j].data = jobs[j].data
        /\ jobs[j].state # "none" => jobs'[j].state # "none"
    BY SameJobs, SettleFits DEF Reject
  <1> HIDE DEF stopped
  <1>6. HandlerInv(h, jobs'[j])
    BY <1>1, <1>2, <1>4, <1>5, IdleFacts DEF HandlerInv
  <1> QED
    BY <1>3, <1>5, <1>6, SameTables, HandlerStep

--------------------------------------------------------------------------------
(* Every action preserves the invariant.                                   *)

LEMMA InsertEventType ==
  ASSUME TypeInv, NEW m \in Messages, InsertEvent(m) PROVE TypeInv'
  <1>1. PICK acc \in Accounts \cup {None} :
          events' = [events EXCEPT ![m].stage = "inserted", ![m].account = acc]
    BY DEF InsertEvent, TypeInv, TypeOK, TablesOK
  <1>2. events[m] \in Event /\ events \in [Messages -> Event]
    BY DEF TypeInv, TypeOK, TablesOK
  <1>3. [events[m] EXCEPT !.stage = "inserted", !.account = acc] \in Event
    BY <1>2 DEF Event
  <1>4. events' = [events EXCEPT ![m] = [events[m] EXCEPT !.stage = "inserted",
                                                          !.account = acc]]
    BY <1>1, <1>2 DEF Event
  <1>5. events' \in [Messages -> Event]
    BY <1>2, <1>3, <1>4
  <1>6. TablesOK'
    BY <1>5 DEF InsertEvent, TypeInv, TypeOK, TablesOK
  <1> QED
    BY <1>6, SameJobs, OutsideStep DEF InsertEvent

LEMMA EnqueueEventType ==
  ASSUME TypeInv, NEW m \in Messages, EnqueueEvent(m) PROVE TypeInv'
  <1>1. PICK k \in JobIds : Add(k, ProcessEventJob(m))
    BY DEF EnqueueEvent
  <1>2. ProcessEventJob(m) \in JobData
    BY QueueAssumption DEF ProcessEventJob, JobData, JobType, Texts
  <1>3. JobsFit
    BY <1>1, <1>2, AddFits DEF ProcessEventJob
  <1>4. TablesOK'
    BY DEF EnqueueEvent, TypeInv, TypeOK, TablesOK, Event
  <1> QED
    BY <1>3, <1>4, OutsideStep DEF EnqueueEvent

LEMMA EnqueueEventFailsType ==
  ASSUME TypeInv, NEW m \in Messages, EnqueueEventFails(m) PROVE TypeInv'
  <1>1. TablesOK'
    BY DEF EnqueueEventFails, TypeInv, TypeOK, TablesOK, Event
  <1> QED
    BY <1>1, SameJobs, OutsideStep DEF EnqueueEventFails

LEMMA StartType ==
  ASSUME TypeInv, NEW w \in Workers, NEW j \in JobIds, Start(w, j) PROVE TypeInv'
  <1> DEFINE p == FirstStep(jobs[j].data.type)
             h == [Idle EXCEPT !.pc = p, !.worker = w, !.send = jobs[j].data.send]
  <1>1. /\ jobs' \in [JobIds -> Job]
        /\ \A k \in JobIds : /\ jobs'[k].data = jobs[k].data
                             /\ jobs'[k].state = "none" <=> jobs[k].state = "none"
        /\ jobs[j].state # "none"
    BY ZenonT(60) DEF Start, Take, TypeInv, TypeOK, Job
  <1>2. /\ jobs[j].data.type = "process-event" => p = "load"
        /\ jobs[j].data.type # "process-event" =>
             p \in {"genLoad", "dmLoad", "crLoad"} /\ jobs[j].data.send \in SendIds
    BY <1>1, HandlerType DEF FirstStep, JobInv, Job, JobData, JobType
  <1>3. /\ p \in PC /\ p \notin {"idle", "write"}
        /\ p \in RowSteps <=> p # "load"
        /\ p \in MatchSteps <=> p = "load"
    BY <1>2 DEF PC, MatchSteps, RowSteps
  <1>4. h \in Act
    BY ZenonT(60), <1>3, IdleFacts, HandlerType DEF Act, Job, JobData
  <1> HIDE DEF p
  <1>5. HandlerInv(h, jobs'[j])
    BY <1>1, <1>2, <1>3, IdleFacts DEF HandlerInv, Act
  <1> QED
    BY <1>1, <1>4, <1>5, SameData, SameTables, HandlerStep DEF Start, p

LEMMA RefuseType ==
  ASSUME TypeInv, NEW w \in Workers, NEW j \in JobIds, Refuse(w, j) PROVE TypeInv'
  <1>1. /\ jobs' \in [JobIds -> Job]
        /\ \A k \in JobIds : /\ jobs'[k].data = jobs[k].data
                             /\ jobs'[k].state = "none" <=> jobs[k].state = "none"
    BY DEF Refuse, TypeInv, TypeOK, Job
  <1> QED
    BY <1>1, SameData, SameTables, OutsideStep DEF Refuse

LEMMA StalledType == ASSUME TypeInv, NEW j \in JobIds, Stalled(j) PROVE TypeInv'
  <1>1. /\ jobs' \in [JobIds -> Job]
        /\ \A k \in JobIds : /\ jobs'[k].data = jobs[k].data
                             /\ jobs'[k].state = "none" <=> jobs[k].state = "none"
    BY QueueAssumption DEF Stalled, CheckStalled, TypeInv, TypeOK, Job
  <1> QED
    BY <1>1, SameData, SameTables, OutsideStep DEF Stalled

LEMMA CrashType == ASSUME TypeInv, NEW w \in Workers, Crash(w) PROVE TypeInv'
  <1>1. /\ jobs' \in [JobIds -> Job]
        /\ \A k \in JobIds : /\ jobs'[k].data = jobs[k].data
                             /\ jobs'[k].state = "none" <=> jobs[k].state = "none"
    BY DEF Crash, Lose, TypeInv, TypeOK, Job
  <1>2. JobsFit /\ TablesOK'
    BY <1>1, SameData, SameTables DEF Crash
  <1>3. act' \in [JobIds -> Act]
    BY IdleFacts DEF Crash, TypeInv, TypeOK
  <1>4. \A k \in JobIds : HandlerInv(act'[k], jobs'[k])
    BY <1>2, IdleFacts DEF Crash, JobsFit
  <1> QED
    BY <1>2, <1>3, <1>4 DEF TypeInv, TypeOK, JobsFit

LEMMA ThrowType == ASSUME TypeInv, NEW j \in JobIds, Throw(j) PROVE TypeInv'
  BY RejectStep DEF Throw

LEMMA ReturnType == ASSUME TypeInv, NEW j \in JobIds, Return(j) PROVE TypeInv'
  BY EndStep DEF Return

LEMMA OwnerType == ASSUME TypeInv, Owner PROVE TypeInv'
  <1>1. ASSUME NEW a \in Automations, SetStatus(a) PROVE TypeInv'
    <2>1. TablesOK'
      BY <1>1 DEF SetStatus, TypeInv, TypeOK, TablesOK
    <2> QED
      BY <1>1, <2>1, SameJobs, OutsideStep DEF SetStatus
  <1>2. ASSUME NEW a \in Automations, DeleteAutomation(a) PROVE TypeInv'
    <2>1. TablesOK'
      BY ZenonT(60), <1>2 DEF DeleteAutomation, TypeInv, TypeOK, TablesOK, Send
    <2> QED
      BY <1>2, <2>1, SameJobs, OutsideStep DEF DeleteAutomation
  <1>3. ASSUME NEW acc \in Accounts, Disconnect(acc) PROVE TypeInv'
    <2> USE <1>3 DEF Disconnect, TypeInv, TypeOK, TablesOK
    <2>1. sends' \in [SendIds -> Send]
      <3>1. ASSUME NEW s \in SendIds
            PROVE  [sends[s] EXCEPT !.status = "deleted", !.automation = None] \in Send
        BY ZenonT(60) DEF Send
      <3> QED
        BY <3>1
    <2>2. events' \in [Messages -> Event]
      BY ZenonT(60) DEF Event
    <2>3. /\ accounts' \subseteq Accounts /\ captured' \subseteq Messages
          /\ automations' \in [Automations -> {"active", "paused", "deleted"}]
          /\ delivered' \in [SendIds -> Nat]
      OBVIOUS
    <2> QED
      BY <2>1, <2>2, <2>3, SameJobs, OutsideStep
  <1> QED
    BY <1>1, <1>2, <1>3 DEF Owner

--------------------------------------------------------------------------------
(* process-event.                                                          *)

LEMMA StepNames ==
  /\ MatchSteps \cup RowSteps \cup {"return"} \subseteq PC
  /\ "idle" \notin MatchSteps \cup RowSteps /\ "return" \notin MatchSteps \cup RowSteps
  /\ MatchSteps \cap RowSteps = {"addDm", "addReply"}
  /\ {"load", "dedupe", "classify", "query", "next", "insertDm", "insertReply", "mark"}
       \subseteq MatchSteps
  /\ {"genLoad", "genAsk", "genContent", "genAdd", "dmLoad", "dmGate", "dmPost",
      "crLoad", "crPost", "write", "addDm", "addReply"} \subseteq RowSteps
  BY DEF PC, MatchSteps, RowSteps

\* A matching handler works on a message, a sending one on a row.
LEMMA Subject ==
  ASSUME TypeInv, NEW j \in JobIds
  PROVE  /\ act[j].pc \in MatchSteps \/ act[j].lead # "none"
              => jobs[j].data.type = "process-event" /\ EventOf(j) \in Messages
         /\ act[j].pc \in RowSteps => act[j].send \in SendIds
  BY HandlerType, StepNames DEF HandlerInv, JobInv, EventOf

LEMMA LoadType == ASSUME TypeInv, NEW j \in JobIds, Load(j) PROVE TypeInv'
  <1> DEFINE m == EventOf(j)
             e == events[m]
             matches == e.account # None /\ Message[m].text /\ Message[m].kind # "other"
             lead    == matches /\ Message[m].kind = "message" /\ Message[m].contact
             first   == IF ~matches THEN "mark"
                        ELSE IF Message[m].kind = "comment" THEN "classify" ELSE "dedupe"
             l == IF lead THEN "running" ELSE "none"
             h == [act[j] EXCEPT !.account = e.account, !.intent = e.intent,
                                 !.pc = first, !.lead = l]
  <1>1. act[j].pc = "load"
    BY DEF Load
  <1>2. /\ jobs[j].data.type = "process-event" /\ m \in Messages
        /\ jobs[j].state # "none"
    BY <1>1, StepNames, Subject, HandlerType DEF HandlerInv
  <1>3. e.account \in Accounts \cup {None} /\ e.intent \in Intents \cup {None}
    BY <1>2 DEF TypeInv, TypeOK, TablesOK, Event
  <1>4. /\ first \in PC /\ first \in MatchSteps /\ first \notin RowSteps
        /\ first # "write" /\ l \in {"running", "none"}
    BY StepNames
  <1>5. CASE e.processed /\ End(j, "completed")
    BY <1>5, EndStep DEF Load
  <1>6. CASE Becomes(j, h) /\ UNCHANGED jobs
    <2> HIDE DEF first, l, e
    <2>1. h \in Act
      BY ZenonT(60), <1>3, <1>4, HandlerType DEF Act
    <2>2. h.pc = first
      BY HandlerType DEF Act
    <2>3. HandlerInv(h, jobs[j])
      BY <1>2, <1>4, <2>2, StepNames DEF HandlerInv
    <2> QED
      BY <1>6, <2>1, <2>3, SameTables, SameJobs, HandlerStep DEF Load
  <1> QED
    BY <1>5, <1>6 DEF Load

LEMMA DedupeType == ASSUME TypeInv, NEW j \in JobIds, Dedupe(j) PROVE TypeInv'
  <1>1. /\ act[j].pc \in MatchSteps /\ act[j].pc # "idle" /\ UNCHANGED jobs
        /\ Goto(j, "mark") \/ Goto(j, "classify")
    BY StepNames DEF Dedupe
  <1>2. JobsFit /\ TablesOK'
    BY SameJobs, SameTables DEF Dedupe
  <1> QED
    BY <1>1, <1>2, StepNames, GotoStep

LEMMA ClassifyIntentType ==
  ASSUME TypeInv, NEW j \in JobIds, ClassifyIntent(j) PROVE TypeInv'
  <1>1. act[j].pc = "classify" /\ UNCHANGED jobs
    BY DEF ClassifyIntent
  <1>2. /\ EventOf(j) \in Messages /\ jobs[j].state # "none"
        /\ jobs[j].data.type = "process-event"
    BY <1>1, StepNames, Subject, HandlerType DEF HandlerInv
  <1>3. CASE Goto(j, "query") /\ UNCHANGED events
    <2>1. TablesOK'
      BY <1>3, SameTables DEF ClassifyIntent, tables
    <2> QED
      BY <1>1, <1>3, <2>1, StepNames, SameJobs, GotoStep
  <1>4. ASSUME NEW i \in Intents \cup {None},
               Becomes(j, [act[j] EXCEPT !.pc = "query", !.intent = i]),
               events' = IF i = None THEN events
                         ELSE [events EXCEPT ![EventOf(j)].intent = i]
        PROVE  TypeInv'
    <2> DEFINE h == [act[j] EXCEPT !.pc = "query", !.intent = i]
    <2>1. h \in Act
      BY ZenonT(60), StepNames, HandlerType DEF Act
    <2>2. HandlerInv(h, jobs[j])
      BY <1>2, StepNames, HandlerType DEF HandlerInv, Act
    <2>3. events' \in [Messages -> Event]
      BY <1>2, <1>4 DEF TypeInv, TypeOK, TablesOK, Event
    <2>4. TablesOK'
      BY <2>3 DEF ClassifyIntent, TypeInv, TypeOK, TablesOK
    <2> QED
      BY <1>1, <1>4, <2>1, <2>2, <2>4, SameJobs, HandlerStep
  <1> QED
    BY <1>3, <1>4 DEF ClassifyIntent

\* A matching handler that goes on in state h and writes nothing.
LEMMA MatchingStep ==
  ASSUME TypeInv, NEW j \in JobIds, act[j].pc \in MatchSteps, NEW h \in Act,
         Becomes(j, h), UNCHANGED jobs, TablesOK', h.pc \in MatchSteps,
         h.pc \in RowSteps => h.send \in SendIds
  PROVE  TypeInv'
  <1>1. jobs[j].data.type = "process-event" /\ jobs[j].state # "none"
    BY StepNames, HandlerType DEF HandlerInv
  <1>2. HandlerInv(h, jobs[j])
    BY <1>1, StepNames DEF HandlerInv
  <1> QED
    BY <1>2, SameJobs, HandlerStep

LEMMA QueryAutomationsType ==
  ASSUME TypeInv, NEW j \in JobIds, QueryAutomations(j) PROVE TypeInv'
  <1>1. PICK found \in SUBSET Automations :
          Becomes(j, [act[j] EXCEPT !.pc = "next", !.todo = found])
    BY DEF QueryAutomations
  <1> DEFINE h == [act[j] EXCEPT !.pc = "next", !.todo = found]
  <1>2. h \in Act /\ h.pc = "next"
    BY ZenonT(60), StepNames, HandlerType DEF Act
  <1> QED
    BY <1>1, <1>2, StepNames, SameTables, MatchingStep DEF QueryAutomations

LEMMA MatchType ==
  ASSUME TypeInv, NEW j \in JobIds, NEW a \in Automations, Match(j, a) PROVE TypeInv'
  <1>1. act[j].pc = "next" /\ UNCHANGED jobs /\ TablesOK'
    BY SameTables DEF Match
  <1>2. CASE Becomes(j, [act[j] EXCEPT !.todo = @ \ {a}])
    <2> DEFINE h == [act[j] EXCEPT !.todo = @ \ {a}]
    <2>1. h \in Act /\ h.pc = "next"
      BY <1>1, HandlerType DEF Act
    <2> QED
      BY <1>1, <1>2, <2>1, StepNames, MatchingStep
  <1>3. ASSUME NEW t \in {"inbound", "template"},
               NEW p \in {"insertDm", "insertReply", "next"},
               Becomes(j, [act[j] EXCEPT !.todo = @ \ {a}, !.automation = a,
                                         !.text = t, !.pc = p])
        PROVE  TypeInv'
    <2> DEFINE h == [act[j] EXCEPT !.todo = @ \ {a}, !.automation = a,
                                   !.text = t, !.pc = p]
    <2>1. t \in Texts
      BY DEF Texts
    <2>2. p \in PC /\ p \in MatchSteps /\ p \notin RowSteps
      BY StepNames
    <2>3. h \in Act /\ h.pc = p
      BY ZenonT(60), <2>1, <2>2, HandlerType DEF Act
    <2> QED
      BY <1>1, <1>3, <2>2, <2>3, StepNames, MatchingStep
  <1> QED
    BY <1>2, <1>3 DEF Match, AfterDm

LEMMA MatchingDoneType ==
  ASSUME TypeInv, NEW j \in JobIds, MatchingDone(j) PROVE TypeInv'
  <1> DEFINE h == [act[j] EXCEPT !.pc = "mark", !.automation = None,
                                 !.text = "empty", !.send = 0]
  <1>1. "empty" \in Texts /\ 0 \in 0 .. MaxSends
    BY QueueAssumption DEF Texts
  <1>2. h \in Act /\ h.pc = "mark"
    BY ZenonT(60), <1>1, StepNames, HandlerType DEF Act
  <1> QED
    BY <1>2, StepNames, SameTables, MatchingStep DEF MatchingDone

\* The row that a matching handler inserts is a row.
LEMMA InsertSendType ==
  ASSUME TypeInv, NEW j \in JobIds, act[j].pc \in MatchSteps, NEW s \in SendIds,
         NEW kind \in {"dm", "commentReply"}, NEW t \in Texts, InsertSend(j, s, kind, t)
  PROVE  sends' \in [SendIds -> Send]
  <1>1. EventOf(j) \in Messages
    BY Subject
  <1>2. /\ act[j].account \in Accounts \cup {None}
        /\ act[j].automation \in Automations \cup {None}
        /\ j \in 0 .. MaxJobs /\ jobs[j].stalls \in 0 .. MaxStalledCount
    BY HandlerType, QueueAssumption DEF Act, Job, JobIds
  <1>3. [status |-> "queued", kind |-> kind, event |-> EventOf(j),
         account |-> act[j].account, automation |-> act[j].automation,
         text |-> t, by |-> j, run |-> jobs[j].stalls] \in Send
    BY <1>1, <1>2 DEF Send
  <1> QED
    BY <1>3 DEF InsertSend, TypeInv, TypeOK, TablesOK

LEMMA InsertDmType == ASSUME TypeInv, NEW j \in JobIds, InsertDm(j) PROVE TypeInv'
  <1>1. PICK s \in SendIds : /\ InsertSend(j, s, "dm", act[j].text)
                             /\ Becomes(j, [act[j] EXCEPT !.pc = "addDm", !.send = s])
    BY DEF InsertDm
  <1> DEFINE h == [act[j] EXCEPT !.pc = "addDm", !.send = s]
  <1>2. act[j].pc \in MatchSteps /\ act[j].text \in Texts /\ s \in 0 .. MaxSends
    BY StepNames, HandlerType, QueueAssumption DEF InsertDm, Act, SendIds
  <1>3. h \in Act /\ h.pc = "addDm" /\ h.send = s
    BY ZenonT(60), <1>2, StepNames, HandlerType DEF Act
  <1>4. sends' \in [SendIds -> Send]
    BY <1>1, <1>2, InsertSendType
  <1>5. TablesOK'
    BY <1>4 DEF InsertDm, TypeInv, TypeOK, TablesOK
  <1> QED
    BY <1>1, <1>2, <1>3, <1>5, StepNames, MatchingStep DEF InsertDm

LEMMA InsertReplyType == ASSUME TypeInv, NEW j \in JobIds, InsertReply(j) PROVE TypeInv'
  <1>1. PICK s \in SendIds, t \in Texts :
          /\ InsertSend(j, s, "commentReply", t)
          /\ Becomes(j, [act[j] EXCEPT !.pc = "addReply", !.send = s, !.text = t])
    BY DEF InsertReply, Texts
  <1> DEFINE h == [act[j] EXCEPT !.pc = "addReply", !.send = s, !.text = t]
  <1>2. act[j].pc \in MatchSteps /\ s \in 0 .. MaxSends
    BY StepNames, QueueAssumption DEF InsertReply, SendIds
  <1>3. h \in Act /\ h.pc = "addReply" /\ h.send = s
    BY ZenonT(60), <1>2, StepNames, HandlerType DEF Act
  <1>4. sends' \in [SendIds -> Send]
    BY <1>1, <1>2, InsertSendType
  <1>5. TablesOK'
    BY <1>4 DEF InsertReply, TypeInv, TypeOK, TablesOK
  <1> QED
    BY <1>1, <1>2, <1>3, <1>5, StepNames, MatchingStep DEF InsertReply

LEMMA AddDmType == ASSUME TypeInv, NEW j \in JobIds, AddDm(j) PROVE TypeInv'
  <1> DEFINE p == AfterDm(EventOf(j), act[j].automation)
             d == IF Config[act[j].automation].ai
                    THEN GenerateAiReplyJob(EventOf(j), act[j].send)
                    ELSE SendDMJob(act[j].send, act[j].account, act[j].text)
  <1>1. PICK k \in JobIds : Add(k, d)
    BY DEF AddDm
  <1>2. act[j].pc = "addDm"
    BY DEF AddDm
  <1>3. EventOf(j) \in Messages /\ act[j].send \in SendIds /\ act[j].send \in 0 .. MaxSends
    BY <1>2, Subject, HandlerType, StepNames DEF Act
  <1>4. /\ "empty" \in Texts
        /\ {"send-dm", "generate-ai-reply"} \subseteq JobType \ {"process-event", "send-whatsapp"}
    BY DEF Texts, JobType
  <1>5. d \in JobData /\ d.type \notin {"process-event", "send-whatsapp"} /\ d.send \in SendIds
    BY <1>3, <1>4, HandlerType DEF JobData, Act, GenerateAiReplyJob, SendDMJob
  <1>6. JobsFit /\ jobs'[j] = jobs[j]
    BY <1>1, <1>2, <1>5, AddFits
  <1>7. p \in PC \ {"idle", "write"} /\ p \in MatchSteps /\ p \notin RowSteps
    BY StepNames DEF AfterDm
  <1>8. Goto(j, p) /\ TablesOK'
    BY SameTables DEF AddDm
  <1> QED
    BY <1>2, <1>6, <1>7, <1>8, StepNames, GotoStep

LEMMA AddReplyType == ASSUME TypeInv, NEW j \in JobIds, AddReply(j) PROVE TypeInv'
  <1> DEFINE d == SendCommentReplyJob(act[j].send, act[j].account, act[j].text)
  <1>1. PICK k \in JobIds : Add(k, d)
    BY DEF AddReply
  <1>2. act[j].pc = "addReply" /\ Goto(j, "next") /\ TablesOK'
    BY SameTables DEF AddReply
  <1>3. act[j].send \in SendIds /\ "send-comment-reply" \in JobType
    BY <1>2, Subject, StepNames DEF JobType
  <1>4. d \in JobData /\ d.type \notin {"process-event", "send-whatsapp"} /\ d.send \in SendIds
    BY <1>3, HandlerType DEF JobData, Act, SendCommentReplyJob
  <1>5. JobsFit /\ jobs'[j] = jobs[j]
    BY <1>1, <1>2, <1>4, AddFits
  <1> QED
    BY <1>2, <1>5, StepNames, GotoStep

LEMMA CaptureLeadType == ASSUME TypeInv, NEW j \in JobIds, CaptureLead(j) PROVE TypeInv'
  <1> DEFINE h == IF act[j].pc = "stopped" THEN Idle ELSE [act[j] EXCEPT !.lead = "done"]
  <1>1. EventOf(j) \in Messages
    BY Subject DEF CaptureLead
  <1>2. TablesOK'
    BY <1>1 DEF CaptureLead, TypeInv, TypeOK, TablesOK
  <1>3. h \in Act
    BY HandlerType, IdleFacts DEF Act
  <1>4. HandlerInv(h, jobs[j])
    BY HandlerType, IdleFacts DEF HandlerInv, Act, CaptureLead
  <1> QED
    BY <1>2, <1>3, <1>4, SameJobs, HandlerStep DEF CaptureLead

LEMMA CaptureLeadFailsType ==
  ASSUME TypeInv, NEW j \in JobIds, CaptureLeadFails(j) PROVE TypeInv'
  <1>1. CASE act[j].pc = "stopped"
    BY <1>1, DetachedStep DEF CaptureLeadFails
  <1>2. CASE act[j].pc # "stopped"
    <2> DEFINE h == [act[j] EXCEPT !.lead = "failed"]
    <2>1. Becomes(j, h) /\ Settle(j, "failed") /\ act[j].lead = "running" /\ TablesOK'
      BY <1>2, SameTables DEF CaptureLeadFails
    <2>2. h \in Act
      BY HandlerType DEF Act
    <2>3. JobsFit /\ HandlerInv(act[j], jobs'[j])
      BY <2>1, SettleFits DEF JobsFit
    <2>4. HandlerInv(h, jobs'[j])
      BY <2>1, <2>3, HandlerType DEF HandlerInv, Act
    <2> QED
      BY <2>1, <2>2, <2>3, <2>4, HandlerStep
  <1> QED
    BY <1>1, <1>2

LEMMA MarkProcessedType ==
  ASSUME TypeInv, NEW j \in JobIds, MarkProcessed(j) PROVE TypeInv'
  <1>1. act[j].pc = "mark" /\ Goto(j, "return") /\ UNCHANGED jobs
    BY DEF MarkProcessed
  <1>2. EventOf(j) \in Messages
    BY <1>1, Subject, StepNames
  <1>3. TablesOK'
    BY ZenonT(60), <1>2 DEF MarkProcessed, TypeInv, TypeOK, TablesOK, Event
  <1> QED
    BY <1>1, <1>3, StepNames, SameJobs, GotoStep

LEMMA processEventType ==
  ASSUME TypeInv, NEW j \in JobIds, processEvent(j) PROVE TypeInv'
  <1>1. ASSUME InsertFails(j) PROVE TypeInv'
    BY <1>1, RejectStep DEF InsertFails
  <1>2. ASSUME DetachedEnd(j) PROVE TypeInv'
    BY <1>2, DetachedStep DEF DetachedEnd
  <1> QED
    BY <1>1, <1>2, LoadType, DedupeType, ClassifyIntentType, QueryAutomationsType,
       MatchType, MatchingDoneType, InsertDmType, InsertReplyType, AddDmType,
       AddReplyType, CaptureLeadType, CaptureLeadFailsType, MarkProcessedType
    DEF processEvent

--------------------------------------------------------------------------------
(* generate-ai-reply, send-dm and send-comment-reply.                      *)

\* A handler of a row that goes on in state h and writes nothing to the queue.
LEMMA RowStep ==
  ASSUME TypeInv, NEW j \in JobIds, act[j].pc \in RowSteps \ MatchSteps, NEW h \in Act,
         Becomes(j, h), UNCHANGED jobs, TablesOK', h.pc \in RowSteps \ MatchSteps,
         h.send = act[j].send, h.lead = act[j].lead,
         h.pc = "write" => h.out \in Outcomes \cup {"retry"}
  PROVE  TypeInv'
  <1>1. HandlerInv(h, jobs[j])
    BY HandlerType, StepNames DEF HandlerInv
  <1> QED
    BY <1>1, SameJobs, HandlerStep

LEMMA OutcomeNames ==
  /\ {"sent", "failed", "outsideWindow", "rateLimited"} \subseteq Outcomes
  /\ {"ai", "empty", "fallback", "flagged"} \subseteq Texts
  BY DEF Outcomes, Texts

LEMMA GenLoadType == ASSUME TypeInv, NEW j \in JobIds, GenLoad(j) PROVE TypeInv'
  <1> DEFINE row == sends[act[j].send]
             g == [act[j] EXCEPT !.account = row.account, !.automation = row.automation,
                                 !.text = row.text]
  <1>1. act[j].pc = "genLoad" /\ TablesOK'
    BY SameTables DEF GenLoad
  <1>2. row \in Send
    BY <1>1, StepNames, Subject DEF TypeInv, TypeOK, TablesOK
  <1>3. g \in Act /\ g.send = act[j].send /\ g.lead = act[j].lead
    BY ZenonT(60), <1>2, HandlerType DEF Act, Send
  <1> HIDE DEF row, g
  <1>4. CASE End(j, "completed")
    BY <1>4, EndStep DEF GenLoad
  <1>5. CASE Becomes(j, [g EXCEPT !.pc = "write", !.out = "failed"]) /\ UNCHANGED jobs
    <2> DEFINE h == [g EXCEPT !.pc = "write", !.out = "failed"]
    <2>1. h \in Act /\ h.pc = "write" /\ h.out = "failed"
          /\ h.send = g.send /\ h.lead = g.lead
      BY <1>3, StepNames, OutcomeNames DEF Act
    <2> QED
      BY <1>1, <1>3, <1>5, <2>1, StepNames, OutcomeNames, RowStep
  <1>6. CASE Becomes(j, [g EXCEPT !.pc = "genAsk"]) /\ UNCHANGED jobs
    <2> DEFINE h == [g EXCEPT !.pc = "genAsk"]
    <2>1. h \in Act /\ h.pc = "genAsk" /\ h.send = g.send /\ h.lead = g.lead
      BY <1>3, StepNames DEF Act
    <2> QED
      BY <1>1, <1>3, <1>6, <2>1, StepNames, RowStep
  <1> QED
    BY <1>4, <1>5, <1>6 DEF GenLoad, row, g

LEMMA GenAskType ==
  ASSUME TypeInv, NEW j \in JobIds,
         GenAnswered(j) \/ GenFallback(j) \/ GenFails(j) \/ GenFlagged(j)
  PROVE  TypeInv'
  <1>1. act[j].pc = "genAsk" /\ UNCHANGED <<jobs, tables>> /\ TablesOK'
    BY SameTables DEF GenAnswered, GenFallback, GenFails, GenFlagged
  <1>2. ASSUME NEW t \in {"ai", "empty", "fallback"},
               Becomes(j, [act[j] EXCEPT !.pc = "genContent", !.text = t])
        PROVE  TypeInv'
    <2> DEFINE h == [act[j] EXCEPT !.pc = "genContent", !.text = t]
    <2>1. t \in Texts
      BY OutcomeNames
    <2>2. h \in Act /\ h.pc = "genContent" /\ h.send = act[j].send /\ h.lead = act[j].lead
      BY ZenonT(60), <2>1, HandlerType, StepNames DEF Act
    <2> QED
      BY <1>1, <1>2, <2>2, StepNames, RowStep
  <1>3. CASE Becomes(j, [act[j] EXCEPT !.pc = "write", !.out = "failed"])
    BY <1>1, <1>3, StepNames, OutcomeNames, WriteStep
  <1>4. CASE Becomes(j, [act[j] EXCEPT !.pc = "genContent", !.text = "fallback",
                                       !.flagged = TRUE])
    <2> DEFINE h == [act[j] EXCEPT !.pc = "genContent", !.text = "fallback",
                                   !.flagged = TRUE]
    <2>1. h \in Act /\ h.pc = "genContent" /\ h.send = act[j].send /\ h.lead = act[j].lead
      BY ZenonT(60), HandlerType, StepNames, OutcomeNames DEF Act
    <2> QED
      BY <1>1, <1>4, <2>1, StepNames, RowStep
  <1>5. CASE Becomes(j, [act[j] EXCEPT !.pc = "write", !.out = "failed",
                                       !.flagged = TRUE])
    <2> DEFINE h == [act[j] EXCEPT !.pc = "write", !.out = "failed", !.flagged = TRUE]
    <2>1. h \in Act /\ h.pc = "write" /\ h.out = "failed"
          /\ h.send = act[j].send /\ h.lead = act[j].lead
      BY ZenonT(60), HandlerType, StepNames, OutcomeNames DEF Act
    <2> QED
      BY <1>1, <1>5, <2>1, StepNames, OutcomeNames, RowStep
  <1> QED
    BY ZenonT(60), <1>2, <1>3, <1>4, <1>5 DEF GenAnswered, GenFallback, GenFails, GenFlagged

LEMMA ModerationCaughtType ==
  ASSUME TypeInv, NEW j \in JobIds, ModerationCaught(j) PROVE TypeInv'
  <1> DEFINE h == [act[j] EXCEPT !.pc = "genContent", !.text = "flagged",
                                 !.out = "none", !.flagged = FALSE]
  <1>1. act[j].pc \in RowSteps \ MatchSteps
    BY StepNames DEF ModerationCaught
  <1>2. h \in Act /\ h.pc = "genContent" /\ h.send = act[j].send /\ h.lead = act[j].lead
    BY ZenonT(60), HandlerType, StepNames, OutcomeNames DEF Act
  <1> QED
    BY <1>1, <1>2, StepNames, SameTables, RowStep DEF ModerationCaught

LEMMA OnRowType ==
  ASSUME TypeInv, NEW s \in SendIds, NEW row \in Send
  PROVE  OnRow(s, row) \in [SendIds -> Send]
  BY DEF OnRow, TypeInv, TypeOK, TablesOK

LEMMA GenContentType == ASSUME TypeInv, NEW j \in JobIds, GenContent(j) PROVE TypeInv'
  <1>1. act[j].pc = "genContent" /\ Goto(j, "genAdd") /\ UNCHANGED jobs
    BY DEF GenContent
  <1>2. act[j].text \in Texts /\ act[j].send \in SendIds
    BY <1>1, Subject, StepNames, HandlerType DEF Act
  <1>3. [sends[act[j].send] EXCEPT !.text = act[j].text] \in Send
    BY <1>2 DEF TypeInv, TypeOK, TablesOK, Send
  <1>4. sends' \in [SendIds -> Send]
    BY <1>2, <1>3, OnRowType DEF GenContent
  <1>5. TablesOK'
    BY <1>4 DEF GenContent, TypeInv, TypeOK, TablesOK
  <1> QED
    BY <1>1, <1>5, StepNames, SameJobs, GotoStep

LEMMA GenAddType == ASSUME TypeInv, NEW j \in JobIds, GenAdd(j) PROVE TypeInv'
  <1> DEFINE d == SendDMJob(act[j].send, act[j].account, act[j].text)
  <1>1. PICK k \in JobIds : Add(k, d)
    BY DEF GenAdd
  <1>2. act[j].pc = "genAdd" /\ Goto(j, "return") /\ TablesOK'
    BY SameTables DEF GenAdd
  <1>3. act[j].send \in SendIds /\ "send-dm" \in JobType
    BY <1>2, Subject, StepNames DEF JobType
  <1>4. d \in JobData /\ d.type \notin {"process-event", "send-whatsapp"} /\ d.send \in SendIds
    BY <1>3, HandlerType DEF JobData, Act, SendDMJob
  <1>5. JobsFit /\ jobs'[j] = jobs[j]
    BY <1>1, <1>2, <1>4, AddFits
  <1> QED
    BY <1>2, <1>5, StepNames, GotoStep

LEMMA generateAiReplyType ==
  ASSUME TypeInv, NEW j \in JobIds, generateAiReply(j) PROVE TypeInv'
  BY GenLoadType, GenAskType, ModerationCaughtType, GenContentType, GenAddType
  DEF generateAiReply

LEMMA GateType ==
  ASSUME TypeInv, NEW j \in JobIds, DmLoad(j) \/ DmGate(j) \/ CrLoad(j) PROVE TypeInv'
  <1>1. act[j].pc \in {"dmLoad", "dmGate", "crLoad"} /\ UNCHANGED tables /\ TablesOK'
    BY SameTables DEF DmLoad, DmGate, CrLoad
  <1>2. CASE End(j, "completed")
    BY <1>1, <1>2, EndStep
  <1>3. ASSUME NEW p \in {"dmGate", "dmPost", "crPost"}, Goto(j, p), UNCHANGED jobs
        PROVE  TypeInv'
    BY <1>1, <1>3, StepNames, SameJobs, GotoStep
  <1>4. ASSUME NEW o \in Outcomes, UNCHANGED jobs,
               Becomes(j, [act[j] EXCEPT !.pc = "write", !.out = o])
        PROVE  TypeInv'
    BY <1>1, <1>4, StepNames, WriteStep
  <1> QED
    BY <1>2, <1>3, <1>4, OutcomeNames DEF DmLoad, DmGate, CrLoad

LEMMA PostType ==
  ASSUME TypeInv, NEW j \in JobIds,
         PostAccepted(j) \/ PostAnswerLost(j) \/ PostRefused(j) \/ PostServerError(j)
  PROVE  TypeInv'
  <1>1. AtMeta(j) /\ UNCHANGED jobs
    BY DEF PostAccepted, PostAnswerLost, PostRefused, PostServerError
  <1>2. act[j].pc \in RowSteps /\ act[j].send \in SendIds
    BY <1>1, StepNames, Subject DEF AtMeta
  <1>3. TablesOK'
    <2>1. delivered' \in [SendIds -> Nat]
      BY <1>2 DEF PostAccepted, PostAnswerLost, PostRefused, PostServerError, tables,
                  TypeInv, TypeOK, TablesOK
    <2> QED
      BY <2>1 DEF PostAccepted, PostAnswerLost, PostRefused, PostServerError, tables,
                  TypeInv, TypeOK, TablesOK
  <1>4. \E o \in Outcomes \cup {"retry"} :
          Becomes(j, [act[j] EXCEPT !.pc = "write", !.out = o])
    BY OutcomeNames DEF PostAccepted, PostAnswerLost, PostRefused, PostServerError
  <1> QED
    BY <1>1, <1>2, <1>3, <1>4, WriteStep

LEMMA WriteOutcomeType == ASSUME TypeInv, NEW j \in JobIds, WriteOutcome(j) PROVE TypeInv'
  <1>1. act[j].pc = "write" /\ Goto(j, "return") /\ UNCHANGED jobs
    BY DEF WriteOutcome
  <1>2. act[j].out \in Outcomes \cup {"retry"} /\ act[j].send \in SendIds
    BY <1>1, Subject, StepNames, HandlerType DEF HandlerInv
  <1>3. act[j].out # "retry" =>
          [sends[act[j].send] EXCEPT !.status = act[j].out] \in Send
    BY <1>2 DEF TypeInv, TypeOK, TablesOK, Send
  <1>4. sends' \in [SendIds -> Send]
    BY <1>2, <1>3, OnRowType DEF WriteOutcome, TypeInv, TypeOK, TablesOK
  <1>5. TablesOK'
    BY <1>4 DEF WriteOutcome, TypeInv, TypeOK, TablesOK
  <1> QED
    BY <1>1, <1>5, StepNames, SameJobs, GotoStep

LEMMA WriteSentFailsType ==
  ASSUME TypeInv, NEW j \in JobIds, WriteSentFails(j) PROVE TypeInv'
  <1> DEFINE h == [act[j] EXCEPT !.out = "failed"]
  <1>1. act[j].pc = "write" /\ Becomes(j, h) /\ UNCHANGED <<jobs, tables>>
    BY DEF WriteSentFails
  <1>2. h \in Act /\ h.pc = "write" /\ h.send = act[j].send /\ h.lead = act[j].lead
        /\ h.out = "failed"
    BY <1>1, HandlerType, OutcomeNames DEF Act
  <1> QED
    BY <1>1, <1>2, StepNames, OutcomeNames, SameTables, RowStep

LEMMA sendDMType == ASSUME TypeInv, NEW j \in JobIds, sendDM(j) PROVE TypeInv'
  BY GateType, PostType, WriteOutcomeType, WriteSentFailsType DEF sendDM

LEMMA NextTypeInv == TypeInv /\ [Next]_vars => TypeInv'
  <1> SUFFICES ASSUME TypeInv, [Next]_vars PROVE TypeInv'
    OBVIOUS
  <1>1. CASE UNCHANGED vars
    BY <1>1 DEF vars, TypeInv, TypeOK, TablesOK
  <1>2. ASSUME NEW j \in JobIds, Handle(j) PROVE TypeInv'
    BY <1>2, processEventType, generateAiReplyType, sendDMType, ReturnType DEF Handle
  <1> QED
    BY <1>1, <1>2, InsertEventType, EnqueueEventType, EnqueueEventFailsType, StartType,
       RefuseType, ThrowType, StalledType, CrashType, OwnerType DEF Next

LEMMA InvariantTypeInv == Spec => []TypeInv
  BY InitTypeInv, NextTypeInv, PTL DEF Spec

\* Every variable keeps its shape, for every number of messages, automations,
\* accounts, workers, jobs and sends: no handler reaches a step of another job's
\* kind, or one that works on a row it does not have.
THEOREM TypeCorrect == Spec => []TypeOK
  <1>1. TypeInv => TypeOK
    BY DEF TypeInv
  <1> QED
    BY <1>1, InvariantTypeInv, PTL

--------------------------------------------------------------------------------
(* What every step does to the queue.                                      *)

IsEventJob(j) == jobs[j].state # "none" /\ jobs[j].data.type = "process-event"

KeepsJobs == \A k \in JobIds : /\ jobs'[k].data = jobs[k].data
                               /\ jobs'[k].state = "none" <=> jobs[k].state = "none"
AddsOther == \E k \in JobIds, d \in JobData : Add(k, d) /\ d.type # "process-event"

LEMMA SettleKeepsJobs ==
  ASSUME TypeInv, NEW j \in JobIds, NEW o \in {"completed", "failed"}, Settle(j, o)
  PROVE  KeepsJobs
  BY DEF Settle, KeepsJobs, TypeInv, TypeOK, Job

LEMMA RejectKeepsJobs ==
  ASSUME TypeInv, NEW j \in JobIds, Reject(j) PROVE KeepsJobs
  BY SMTT(60), SettleKeepsJobs DEF Reject, KeepsJobs

LEMMA ProcessEventQueue ==
  ASSUME TypeInv, NEW j \in JobIds, processEvent(j) PROVE KeepsJobs \/ AddsOther
  <1>1. ASSUME UNCHANGED jobs PROVE KeepsJobs
    BY <1>1 DEF KeepsJobs
  <1>2. ASSUME AddDm(j) PROVE AddsOther
    <2> DEFINE d == IF Config[act[j].automation].ai
                      THEN GenerateAiReplyJob(EventOf(j), act[j].send)
                      ELSE SendDMJob(act[j].send, act[j].account, act[j].text)
    <2>1. PICK k \in JobIds : Add(k, d)
      BY <1>2 DEF AddDm
    <2>2. EventOf(j) \in Messages /\ act[j].send \in 0 .. MaxSends
      BY <1>2, Subject, HandlerType, StepNames DEF Act, AddDm
    <2>3. "empty" \in Texts /\ {"send-dm", "generate-ai-reply"} \subseteq JobType
      BY DEF Texts, JobType
    <2>4. d \in JobData /\ d.type # "process-event"
      BY <2>2, <2>3, HandlerType DEF JobData, Act, GenerateAiReplyJob, SendDMJob
    <2> QED
      BY <2>1, <2>4 DEF AddsOther
  <1>3. ASSUME AddReply(j) PROVE AddsOther
    <2> DEFINE d == SendCommentReplyJob(act[j].send, act[j].account, act[j].text)
    <2>1. PICK k \in JobIds : Add(k, d)
      BY <1>3 DEF AddReply
    <2>2. d \in JobData /\ d.type # "process-event"
      BY HandlerType DEF JobData, JobType, Act, SendCommentReplyJob
    <2> QED
      BY <2>1, <2>2 DEF AddsOther
  <1>4. ASSUME InsertFails(j) PROVE KeepsJobs
    BY <1>4, RejectKeepsJobs DEF InsertFails
  <1>5. ASSUME Load(j) \/ CaptureLeadFails(j) PROVE KeepsJobs
    BY SMTT(60), <1>1, <1>5, SettleKeepsJobs DEF Load, End, CaptureLeadFails
  <1> QED
    BY <1>1, <1>2, <1>3, <1>4, <1>5
    DEF processEvent, Dedupe, ClassifyIntent, QueryAutomations, Match, MatchingDone,
        InsertDm, InsertReply, CaptureLead, MarkProcessed, DetachedEnd

LEMMA RowHandlerQueue ==
  ASSUME TypeInv, NEW j \in JobIds, generateAiReply(j) \/ sendDM(j)
  PROVE  KeepsJobs \/ AddsOther
  <1>1. ASSUME UNCHANGED jobs PROVE KeepsJobs
    BY <1>1 DEF KeepsJobs
  <1>2. ASSUME GenAdd(j) PROVE AddsOther
    <2> DEFINE d == SendDMJob(act[j].send, act[j].account, act[j].text)
    <2>1. PICK k \in JobIds : Add(k, d)
      BY <1>2 DEF GenAdd
    <2>2. d \in JobData /\ d.type # "process-event"
      BY HandlerType DEF JobData, JobType, Act, SendDMJob
    <2> QED
      BY <2>1, <2>2 DEF AddsOther
  <1>3. ASSUME GenLoad(j) \/ DmLoad(j) PROVE KeepsJobs
    BY <1>1, <1>3, SettleKeepsJobs DEF GenLoad, DmLoad, End
  <1> QED
    BY <1>1, <1>2, <1>3
    DEF generateAiReply, sendDM, GenAnswered, GenFallback, GenFails, GenFlagged,
        ModerationCaught, GenContent, DmGate, CrLoad, PostAccepted, PostAnswerLost,
        PostRefused, PostServerError, WriteOutcome, WriteSentFails

LEMMA QueueFrame ==
  ASSUME TypeInv, Next
  PROVE  KeepsJobs \/ AddsOther \/ \E m \in Messages : EnqueueEvent(m)
  <1>1. ASSUME UNCHANGED jobs PROVE KeepsJobs
    BY <1>1 DEF KeepsJobs
  <1>2. ASSUME NEW j \in JobIds, Throw(j) \/ Return(j) \/ Stalled(j) PROVE KeepsJobs
    <2>1. CASE Stalled(j)
      BY <2>1 DEF Stalled, CheckStalled, KeepsJobs, TypeInv, TypeOK, Job
    <2> QED
      BY <1>2, <2>1, RejectKeepsJobs, SettleKeepsJobs DEF Throw, Return, End
  <1>3. ASSUME NEW w \in Workers, Crash(w) PROVE KeepsJobs
    BY <1>3 DEF Crash, Lose, KeepsJobs, TypeInv, TypeOK, Job
  <1>4. ASSUME NEW w \in Workers, NEW j \in JobIds, Start(w, j) \/ Refuse(w, j)
        PROVE  KeepsJobs
    BY <1>4 DEF Start, Refuse, Take, KeepsJobs, TypeInv, TypeOK, Job
  <1>5. ASSUME Owner PROVE KeepsJobs
    BY <1>1, <1>5 DEF Owner, SetStatus, DeleteAutomation, Disconnect
  <1>6. ASSUME NEW m \in Messages, InsertEvent(m) \/ EnqueueEventFails(m) PROVE KeepsJobs
    BY <1>1, <1>6 DEF InsertEvent, EnqueueEventFails
  <1> QED
    BY <1>2, <1>3, <1>4, <1>5, <1>6, ProcessEventQueue, RowHandlerQueue DEF Next, Handle

--------------------------------------------------------------------------------
(* One job per event, and what an attempt knows of the intent stays true.  *)

OneJobInv ==
  /\ \A j \in JobIds : IsEventJob(j) => events[EventOf(j)].stage = "queued"
  /\ \A i, j \in JobIds :
       IsEventJob(i) /\ IsEventJob(j) /\ EventOf(i) = EventOf(j) => i = j

KeepsQueued ==
  \A m \in Messages : events[m].stage = "queued" => events'[m].stage = "queued"

\* What a step may do to a stored event, other than insert or enqueue it.
EventStep(m) ==
  /\ events'[m].stage = events[m].stage
  /\ events'[m].account \in {events[m].account, None}
  /\ events'[m].intent # events[m].intent =>
       \E j \in JobIds : ClassifyIntent(j) /\ EventOf(j) = m
  /\ events'[m].processed # events[m].processed =>
       \E j \in JobIds : MarkProcessed(j) /\ EventOf(j) = m

LEMMA EventFrame ==
  ASSUME TypeInv, [Next]_vars, NEW m \in Messages
  PROVE  EventStep(m) \/ InsertEvent(m) \/ EnqueueEvent(m) \/ EnqueueEventFails(m)
  <1>1. ASSUME events' = events PROVE EventStep(m)
    BY <1>1 DEF EventStep
  <1>2. ASSUME NEW n \in Messages, n # m,
               InsertEvent(n) \/ EnqueueEvent(n) \/ EnqueueEventFails(n)
        PROVE  EventStep(m)
    BY SMTT(60), <1>2 DEF EventStep, InsertEvent, EnqueueEvent, EnqueueEventFails,
                TypeInv, TypeOK, TablesOK
  <1>3. ASSUME NEW j \in JobIds, processEvent(j) PROVE EventStep(m)
    <2>1. CASE ClassifyIntent(j)
      <3>1. ASSUME NEW i, events' = [events EXCEPT ![EventOf(j)].intent = i]
            PROVE  EventStep(m)
        BY <2>1, <3>1 DEF EventStep, TypeInv, TypeOK, TablesOK, Event
      <3> QED
        BY <1>1, <2>1, <3>1 DEF ClassifyIntent
    <2>2. CASE MarkProcessed(j)
      BY <2>2 DEF MarkProcessed, EventStep, TypeInv, TypeOK, TablesOK, Event
    <2> QED
      BY <1>1, <1>3, <2>1, <2>2
      DEF processEvent, tables, Load, Dedupe, QueryAutomations, Match, MatchingDone,
          InsertDm, InsertReply, InsertFails, AddDm, AddReply, CaptureLead,
          CaptureLeadFails, DetachedEnd
  <1>4. ASSUME NEW j \in JobIds, generateAiReply(j) \/ sendDM(j) PROVE EventStep(m)
    BY <1>1, <1>4
    DEF generateAiReply, sendDM, tables, GenLoad, GenAnswered, GenFallback, GenFails,
        GenFlagged, ModerationCaught, GenContent, GenAdd, DmLoad, DmGate, CrLoad,
        PostAccepted, PostAnswerLost, PostRefused, PostServerError, WriteOutcome,
        WriteSentFails
  <1>5. ASSUME Owner PROVE EventStep(m)
    <2>1. ASSUME NEW acc \in Accounts, Disconnect(acc) PROVE EventStep(m)
      BY ZenonT(60), <2>1 DEF Disconnect, EventStep, TypeInv, TypeOK, TablesOK, Event
    <2> QED
      BY <1>1, <1>5, <2>1 DEF Owner, SetStatus, DeleteAutomation
  <1>6. ASSUME NEW w \in Workers, NEW j \in JobIds, Start(w, j) \/ Refuse(w, j)
        PROVE  EventStep(m)
    BY <1>1, <1>6 DEF tables, Start, Refuse
  <1>7. ASSUME NEW j \in JobIds, Throw(j) \/ Stalled(j) \/ Return(j) PROVE EventStep(m)
    BY <1>1, <1>7 DEF tables, Throw, Stalled, Return
  <1>8. ASSUME NEW w \in Workers, Crash(w) PROVE EventStep(m)
    BY <1>1, <1>8 DEF tables, Crash
  <1> QED
    BY <1>1, <1>2, <1>3, <1>4, <1>5, <1>6, <1>7, <1>8 DEF Next, Handle, vars

\* Ingest leaves the label and the mark of an event alone.
LEMMA IngestFrame ==
  ASSUME TypeInv, NEW m \in Messages,
         InsertEvent(m) \/ EnqueueEvent(m) \/ EnqueueEventFails(m)
  PROVE  /\ events[m].stage \in {"absent", "inserted"}
         /\ events[m].stage = "absent" \/ events'[m].account = events[m].account
         /\ events'[m].intent = events[m].intent
         /\ events'[m].processed = events[m].processed
  <1>1. events \in [Messages -> Event] /\ events[m] \in Event
    BY DEF TypeInv, TypeOK, TablesOK
  <1>2. CASE InsertEvent(m)
    <2>1. PICK acc : events' = [events EXCEPT ![m].stage = "inserted", ![m].account = acc]
      BY <1>2 DEF InsertEvent
    <2>2. events'[m] = [events[m] EXCEPT !.stage = "inserted", !.account = acc]
      BY <1>1, <2>1 DEF Event
    <2> QED
      BY <1>1, <1>2, <2>2 DEF Event, InsertEvent
  <1>3. CASE EnqueueEvent(m) \/ EnqueueEventFails(m)
    <2>1. PICK st : events' = [events EXCEPT ![m].stage = st]
      BY <1>3 DEF EnqueueEvent, EnqueueEventFails
    <2>2. events'[m] = [events[m] EXCEPT !.stage = st]
      BY <1>1, <2>1 DEF Event
    <2> QED
      BY <1>1, <1>3, <2>2 DEF Event, EnqueueEvent, EnqueueEventFails
  <1> QED
    BY <1>2, <1>3

LEMMA InitOneJob == Init => OneJobInv
  BY DEF Init, QueueInit, NoJob, OneJobInv, IsEventJob

LEMMA NextOneJob == TypeInv /\ OneJobInv /\ [Next]_vars => OneJobInv'
  <1> SUFFICES ASSUME TypeInv, OneJobInv, [Next]_vars PROVE OneJobInv'
    OBVIOUS
  <1>1. \A k \in JobIds : IsEventJob(k) => EventOf(k) \in Messages
    BY HandlerType DEF IsEventJob, JobInv, EventOf
  <1>2. KeepsQueued
    BY EventFrame DEF EventStep, InsertEvent, EnqueueEvent, EnqueueEventFails, KeepsQueued
  <1>3. CASE KeepsJobs
    BY <1>1, <1>2, <1>3 DEF KeepsJobs, KeepsQueued, OneJobInv, IsEventJob, EventOf
  <1>4. CASE AddsOther
    <2>1. PICK k \in JobIds, d \in JobData : Add(k, d) /\ d.type # "process-event"
      BY <1>4 DEF AddsOther
    <2>2. \A i \in JobIds : IsEventJob(i)' => IsEventJob(i) /\ EventOf(i)' = EventOf(i)
      BY <2>1 DEF Add, IsEventJob, EventOf, TypeInv, TypeOK, Job
    <2> QED
      BY <1>1, <1>2, <2>2 DEF KeepsQueued, OneJobInv
  <1>5. ASSUME NEW m \in Messages, EnqueueEvent(m) PROVE OneJobInv'
    <2>1. PICK k \in JobIds : Add(k, ProcessEventJob(m))
      BY <1>5 DEF EnqueueEvent
    <2>2. \A i \in JobIds : i # k /\ IsEventJob(i)' => IsEventJob(i) /\ EventOf(i)' = EventOf(i)
      BY <2>1 DEF Add, IsEventJob, EventOf, TypeInv, TypeOK, Job
    <2>3. EventOf(k)' = m
      BY <2>1 DEF Add, ProcessEventJob, EventOf, TypeInv, TypeOK
    <2>4. \A i \in JobIds : IsEventJob(i) => EventOf(i) # m
      BY <1>5 DEF EnqueueEvent, OneJobInv
    <2>5. events'[m].stage = "queued"
      BY <1>5 DEF EnqueueEvent, TypeInv, TypeOK, TablesOK, Event
    <2> QED
      BY <1>1, <1>2, <2>2, <2>3, <2>4, <2>5 DEF KeepsQueued, OneJobInv
  <1>6. CASE UNCHANGED vars
    BY <1>3, <1>6 DEF vars, KeepsJobs
  <1> QED
    BY <1>3, <1>4, <1>5, <1>6, QueueFrame

--------------------------------------------------------------------------------
(* What every step does to handler j.                                      *)

Stops(j) == /\ act[j].lead = "running" /\ UNCHANGED <<events, accounts, captured, sends>>
            /\ act'[j].pc = "stopped" /\ act'[j].lead = "running"
            /\ act'[j].worker = act[j].worker /\ act[j].pc # "idle"

LEMMA DataFrame ==
  ASSUME TypeInv, [Next]_vars, NEW j \in JobIds, jobs[j].state # "none"
  PROVE  jobs'[j].data = jobs[j].data /\ jobs'[j].state # "none"
  <1>1. ASSUME NEW k \in JobIds, NEW d, Add(k, d) PROVE jobs'[j] = jobs[j]
    BY <1>1 DEF Add, IsNextJob, TypeInv, TypeOK
  <1> QED
    BY <1>1, QueueFrame DEF KeepsJobs, AddsOther, EnqueueEvent, vars

LEMMA BecomesFrame ==
  ASSUME TypeInv, NEW j \in JobIds, NEW k \in JobIds, NEW h, Becomes(k, h)
  PROVE  act'[j] = IF j = k THEN h ELSE act[j]
  BY DEF Becomes, TypeInv, TypeOK

LEMMA Moved == ASSUME TypeInv, NEW j \in JobIds, NEW h, Becomes(j, h) PROVE act'[j] = h
  BY BecomesFrame

LEMMA RejectMoves ==
  ASSUME TypeInv, NEW j \in JobIds, Reject(j), UNCHANGED tables
  PROVE  act'[j] = Idle \/ Stops(j)
  <1> DEFINE stopped == [Idle EXCEPT !.pc = "stopped", !.worker = act[j].worker,
                                     !.account = act[j].account, !.lead = "running"]
  <1>1. /\ stopped.pc = "stopped" /\ stopped.lead = "running"
        /\ stopped.worker = act[j].worker
    BY DEF Idle
  <1> HIDE DEF stopped
  <1>2. act'[j] = IF act[j].lead = "running" THEN stopped ELSE Idle
    BY Moved DEF Reject, stopped
  <1>3. act[j].lead = "running" => act[j].pc # "idle"
    BY HandlerType DEF HandlerInv
  <1> QED
    BY <1>1, <1>2, <1>3 DEF Stops, tables

LEMMA RejectFrame ==
  ASSUME TypeInv, NEW j \in JobIds, NEW k \in JobIds, Reject(k), UNCHANGED tables
  PROVE  act'[j] = act[j] \/ act'[j] = Idle \/ Stops(j)
  <1>1. CASE j = k
    BY <1>1, RejectMoves
  <1>2. CASE j # k
    BY <1>2, BecomesFrame DEF Reject
  <1> QED
    BY <1>1, <1>2

LEMMA OtherHandlers ==
  ASSUME TypeInv, NEW j \in JobIds, NEW k \in JobIds, j # k,
         processEvent(k) \/ generateAiReply(k) \/ sendDM(k)
  PROVE  act'[j] = act[j]
  <1>1. ASSUME NEW h, Becomes(k, h) PROVE act'[j] = act[j]
    BY SMTT(60), <1>1, BecomesFrame
  <1>2. CASE processEvent(k)
    BY ZenonT(60), <1>1, <1>2
    DEF processEvent, Load, Dedupe, ClassifyIntent, QueryAutomations, Match, MatchingDone,
        InsertDm, InsertReply, InsertFails, AddDm, AddReply, CaptureLead,
        CaptureLeadFails, MarkProcessed, DetachedEnd, Goto, End, Reject
  <1>3. CASE generateAiReply(k)
    BY ZenonT(60), <1>1, <1>3
    DEF generateAiReply, GenLoad, GenAnswered, GenFallback, GenFails, GenFlagged,
        ModerationCaught, GenContent, GenAdd, Goto, End
  <1>4. CASE sendDM(k)
    BY <1>1, <1>4
    DEF sendDM, DmLoad, DmGate, CrLoad, PostAccepted, PostAnswerLost, PostRefused,
        PostServerError, WriteOutcome, WriteSentFails, Goto, End
  <1> QED
    BY <1>2, <1>3, <1>4

LEMMA HandlerFrame ==
  ASSUME TypeInv, [Next]_vars, NEW j \in JobIds
  PROVE  \/ act'[j] = act[j] \/ act'[j] = Idle \/ Stops(j)
         \/ \E w \in Workers : Start(w, j)
         \/ processEvent(j) \/ generateAiReply(j) \/ sendDM(j)
  <1>1. ASSUME NEW k \in JobIds, Handle(k) \/ Throw(k) \/ Stalled(k)
        PROVE  \/ act'[j] = act[j] \/ act'[j] = Idle \/ Stops(j)
               \/ processEvent(j) \/ generateAiReply(j) \/ sendDM(j)
    BY <1>1, OtherHandlers, RejectFrame, BecomesFrame
    DEF Handle, Throw, Stalled, Return, End
  <1>2. ASSUME NEW w \in Workers, Crash(w) PROVE act'[j] = act[j] \/ act'[j] = Idle
    BY <1>2 DEF Crash
  <1>3. ASSUME NEW w \in Workers, NEW k \in JobIds, Start(w, k) \/ Refuse(w, k)
        PROVE  act'[j] = act[j] \/ Start(w, j)
    BY ZenonT(60), <1>3, BecomesFrame DEF Start, Refuse
  <1>4. ASSUME NEW m \in Messages,
               InsertEvent(m) \/ EnqueueEvent(m) \/ EnqueueEventFails(m)
        PROVE  act'[j] = act[j]
    BY <1>4 DEF InsertEvent, EnqueueEvent, EnqueueEventFails
  <1>5. ASSUME Owner PROVE act'[j] = act[j]
    BY <1>5 DEF Owner, SetStatus, DeleteAutomation, Disconnect
  <1> QED
    BY <1>1, <1>2, <1>3, <1>4, <1>5 DEF Next, vars

\* A handler starts at the first step of its job's type.
LEMMA StartFrame ==
  ASSUME TypeInv, NEW w \in Workers, NEW j \in JobIds, Start(w, j)
  PROVE  /\ act'[j].pc \in {"load", "genLoad", "dmLoad", "crLoad"}
         /\ act'[j].lead = "none" /\ act'[j].worker = w
         /\ jobs'[j].state = "active" /\ jobs'[j].worker = w
  <1>1. FirstStep(jobs[j].data.type) \in {"load", "genLoad", "dmLoad", "crLoad"}
    BY HandlerType DEF Start, Take, FirstStep, JobInv, Job, JobData, JobType
  <1>2. act'[j] = [Idle EXCEPT !.pc = FirstStep(jobs[j].data.type), !.worker = w,
                               !.send = jobs[j].data.send]
    BY BecomesFrame DEF Start
  <1>3. jobs'[j].state = "active" /\ jobs'[j].worker = w
    BY DEF Start, Take, TypeInv, TypeOK, Job
  <1> QED
    BY <1>1, <1>2, <1>3 DEF Idle

\* Enough of the type of a handler to compute its EXCEPTs.
Fields == {"pc", "worker", "account", "intent", "todo", "automation", "send", "text",
           "lead", "flagged", "out"}

LEMMA HandlerFields ==
  ASSUME TypeInv, NEW j \in JobIds PROVE DOMAIN act[j] = Fields
  BY HandlerType DEF Act, Fields

\* The loop over the automations.
LEMMA MatchFrame ==
  ASSUME TypeInv, NEW j \in JobIds, AddDm(j) \/ \E a \in Automations : Match(j, a)
  PROVE  /\ act[j].pc \in {"next", "addDm"}
         /\ act'[j].pc \in {"next", "insertDm", "insertReply"}
         /\ act'[j].lead = act[j].lead
  <1>1. CASE AddDm(j)
    <2>1. ASSUME NEW p \in {"next", "insertReply"}, Goto(j, p)
          PROVE  act'[j].pc = p /\ act'[j].lead = act[j].lead
      BY SMTT(60), <2>1, Moved, HandlerFields DEF Goto, Fields
    <2> QED
      BY <1>1, <2>1 DEF AddDm, AfterDm
  <1>2. ASSUME NEW a \in Automations, Match(j, a)
        PROVE  /\ act[j].pc = "next" /\ act'[j].pc \in {"next", "insertDm", "insertReply"}
               /\ act'[j].lead = act[j].lead
    <2>1. CASE Becomes(j, [act[j] EXCEPT !.todo = @ \ {a}])
      BY ZenonT(60), <1>2, <2>1, Moved, HandlerFields DEF Match, Fields
    <2>2. ASSUME NEW t, NEW p \in {"insertDm", "insertReply", "next"},
                 Becomes(j, [act[j] EXCEPT !.todo = @ \ {a}, !.automation = a,
                                           !.text = t, !.pc = p])
          PROVE  act'[j].pc = p /\ act'[j].lead = act[j].lead
      BY ZenonT(60), <2>2, Moved, HandlerFields DEF Fields
    <2> QED
      BY ZenonT(60), <1>2, <2>1, <2>2 DEF Match, AfterDm
  <1> QED
    BY <1>1, <1>2

\* A handler of a row stays one until it returns.
LEMMA RowFrame ==
  ASSUME TypeInv, NEW j \in JobIds, generateAiReply(j) \/ sendDM(j)
  PROVE  /\ act[j].pc \in RowSteps \ MatchSteps
         /\ act'[j].pc \in (RowSteps \ MatchSteps) \cup {"return", "idle"}
         /\ act'[j].lead \in {act[j].lead, "none"}
  <1> DEFINE Later == {"genAsk", "genContent", "genAdd", "dmGate", "dmPost", "crPost",
                       "write", "return", "idle"}
             Moves == act'[j].pc \in Later /\ act'[j].lead \in {act[j].lead, "none"}
  <1>1. act[j].pc \in RowSteps \ MatchSteps
    BY StepNames
    DEF generateAiReply, sendDM, GenLoad, GenAnswered, GenFallback, GenFails, GenFlagged,
        ModerationCaught, GenContent, GenAdd, DmLoad, DmGate, CrLoad, PostAccepted,
        PostAnswerLost, PostRefused, PostServerError, WriteOutcome, WriteSentFails, AtMeta
  <1>2. ASSUME NEW o, End(j, o) PROVE Moves
    BY <1>2, Moved, IdleFacts DEF End
  <1>3. ASSUME NEW p \in Later, Goto(j, p) PROVE Moves
    BY <1>3, Moved, HandlerFields DEF Goto, Fields
  <1>4. ASSUME NEW o, NEW f, Becomes(j, [act[j] EXCEPT !.pc = "write", !.out = o])
                             \/ Becomes(j, [act[j] EXCEPT !.pc = "write", !.out = o,
                                                          !.flagged = f])
        PROVE  Moves
    BY ZenonT(60), <1>4, Moved, HandlerFields DEF Fields
  <1>5. ASSUME NEW t, Becomes(j, [act[j] EXCEPT !.pc = "genContent", !.text = t])
                      \/ Becomes(j, [act[j] EXCEPT !.pc = "genContent", !.text = t,
                                                   !.flagged = TRUE])
        PROVE  Moves
    BY ZenonT(60), <1>5, Moved, HandlerFields DEF Fields
  <1>6. ASSUME GenLoad(j) PROVE Moves
    <2> DEFINE row == sends[act[j].send]
               h == [act[j] EXCEPT !.account = row.account, !.automation = row.automation,
                                   !.text = row.text]
    <2>1. DOMAIN h = Fields /\ h.lead = act[j].lead
      BY HandlerFields DEF Fields
    <2> HIDE DEF h
    <2>2. ASSUME Becomes(j, [h EXCEPT !.pc = "write", !.out = "failed"])
                 \/ Becomes(j, [h EXCEPT !.pc = "genAsk"])
          PROVE  Moves
      BY ZenonT(60), <2>1, <2>2, Moved DEF Fields
    <2> QED
      BY <1>2, <1>6, <2>2 DEF GenLoad, h
  <1>7. ASSUME ModerationCaught(j) PROVE Moves
    BY ZenonT(60), <1>7, Moved, HandlerFields DEF ModerationCaught, Fields
  <1>8. ASSUME WriteSentFails(j) PROVE Moves
    BY <1>8, Moved, HandlerFields DEF WriteSentFails, Fields
  <1>9. Moves
    <2>1. CASE generateAiReply(j)
      BY ZenonT(60), <1>3, <1>4, <1>5, <1>6, <1>7, <2>1
      DEF generateAiReply, GenAnswered, GenFallback, GenFails, GenFlagged, GenContent, GenAdd
    <2>2. CASE sendDM(j)
      BY <1>2, <1>3, <1>4, <1>8, <2>2
      DEF sendDM, DmLoad, DmGate, CrLoad, PostAccepted, PostAnswerLost, PostRefused,
          PostServerError, WriteOutcome
    <2> QED
      BY <2>1, <2>2
  <1> QED
    BY <1>1, <1>9, StepNames

--------------------------------------------------------------------------------
(* The intent label.                                                       *)

IntentInv ==
  \A j \in JobIds :
    act[j].pc \in {"dedupe", "classify"} => act[j].intent = events[EventOf(j)].intent

LEMMA InitIntent == Init => IntentInv
  BY DEF Init, IntentInv, Idle

\* Another handler of the same event does not exist.
LEMMA SameEvent ==
  ASSUME TypeInv, OneJobInv, NEW j \in JobIds, NEW k \in JobIds,
         act[j].pc \in MatchSteps \/ act[j].lead # "none",
         act[k].pc \in MatchSteps \/ act[k].lead # "none", EventOf(j) = EventOf(k)
  PROVE  j = k
  <1>1. IsEventJob(j) /\ IsEventJob(k)
    BY HandlerType, StepNames DEF HandlerInv, IsEventJob
  <1> QED
    BY <1>1 DEF OneJobInv

LEMMA NextIntent == TypeInv /\ OneJobInv /\ IntentInv /\ [Next]_vars => IntentInv'
  <1> SUFFICES ASSUME TypeInv, OneJobInv, IntentInv, [Next]_vars, NEW j \in JobIds,
                      act'[j].pc \in {"dedupe", "classify"}
               PROVE  act'[j].intent = events'[EventOf(j)'].intent
    BY DEF IntentInv
  <1> DEFINE m == EventOf(j)
  <1>1. CASE act'[j] = act[j]
    <2>1. act[j].pc \in MatchSteps /\ m \in Messages /\ jobs[j].state # "none"
      BY <1>1, StepNames, Subject, HandlerType DEF HandlerInv
    <2>2. EventOf(j)' = m
      BY <2>1, DataFrame DEF EventOf
    <2>3. ASSUME NEW k \in JobIds, ClassifyIntent(k), EventOf(k) = m PROVE FALSE
      <3>1. act[k].pc = "classify" /\ act'[k].pc = "query"
        BY ZenonT(60), <2>3, Moved, HandlerFields DEF ClassifyIntent, Goto, Fields
      <3> QED
        BY <1>1, <2>1, <2>3, <3>1, SameEvent, StepNames
    <2>4. events'[m].intent = events[m].intent
      BY <2>1, <2>3, EventFrame, IngestFrame DEF EventStep
    <2> QED
      BY <1>1, <2>2, <2>4 DEF IntentInv
  <1>2. CASE act'[j] = Idle \/ Stops(j)
    BY <1>2, IdleFacts DEF Stops
  <1>3. ASSUME NEW w \in Workers, Start(w, j) PROVE FALSE
    BY <1>3, StartFrame
  <1>4. CASE processEvent(j)
    <2>1. jobs[j].state # "none"
      BY <1>4, HandlerType
      DEF processEvent, Load, Dedupe, ClassifyIntent, QueryAutomations, Match,
          MatchingDone, InsertDm, InsertReply, InsertFails, AddDm, AddReply,
          CaptureLead, CaptureLeadFails, MarkProcessed, DetachedEnd, HandlerInv
    <2>2. EventOf(j)' = m
      BY <2>1, DataFrame DEF EventOf
    <2>3. CASE Load(j)
      <3>1. ASSUME NEW p, NEW l,
                   Becomes(j, [act[j] EXCEPT !.account = events[m].account,
                                             !.intent = events[m].intent,
                                             !.pc = p, !.lead = l])
            PROVE  act'[j].intent = events[m].intent
        BY ZenonT(60), <3>1, Moved, HandlerFields DEF Fields
      <3>2. ASSUME End(j, "completed") PROVE FALSE
        BY <3>2, Moved, IdleFacts DEF End
      <3>3. UNCHANGED events
        BY <2>3 DEF Load, tables
      <3> QED
        BY <2>2, <2>3, <3>1, <3>2, <3>3 DEF Load
    <2>4. CASE Dedupe(j)
      BY <2>2, <2>4, Moved, HandlerFields DEF Dedupe, Goto, Fields, tables, IntentInv
    <2>5. CASE CaptureLead(j)
      BY <2>2, <2>5, Moved, HandlerFields, IdleFacts
      DEF CaptureLead, Fields, IntentInv
    <2>6. CASE CaptureLeadFails(j)
      BY <2>2, <2>6, Moved, HandlerFields, IdleFacts
      DEF CaptureLeadFails, Fields, tables, IntentInv
    <2>7. CASE ClassifyIntent(j) \/ QueryAutomations(j) \/ MatchingDone(j) \/ AddReply(j)
               \/ MarkProcessed(j) \/ InsertDm(j) \/ InsertReply(j)
      BY ZenonT(60), <2>7, Moved, HandlerFields
      DEF ClassifyIntent, QueryAutomations, MatchingDone, AddReply, MarkProcessed,
          InsertDm, InsertReply, Goto, Fields
    <2>8. CASE AddDm(j) \/ \E a \in Automations : Match(j, a)
      BY <2>8, MatchFrame
    <2>9. CASE InsertFails(j) \/ DetachedEnd(j)
      BY <2>9, Moved, RejectFrame, IdleFacts, HandlerType
      DEF InsertFails, DetachedEnd, Stops
    <2> QED
      BY <1>4, <2>3, <2>4, <2>5, <2>6, <2>7, <2>8, <2>9 DEF processEvent
  <1>5. CASE generateAiReply(j) \/ sendDM(j)
    BY <1>5, RowFrame, StepNames
  <1> QED
    BY <1>1, <1>2, <1>3, <1>4, <1>5, HandlerFrame

LEMMA ClassifiedOnce ==
  ASSUME TypeInv, OneJobInv, IntentInv, [Next]_vars, NEW m \in Messages,
         events[m].intent # None
  PROVE  events'[m].intent = events[m].intent
  <1>1. ASSUME NEW j \in JobIds, ClassifyIntent(j), EventOf(j) = m
        PROVE  events' = events
    BY <1>1 DEF ClassifyIntent, IntentInv
  <1> QED
    BY <1>1, EventFrame, IngestFrame DEF EventStep

--------------------------------------------------------------------------------
(* A processed message has lost no contact details.                        *)

Wants(m) == Message[m].kind = "message" /\ Message[m].text /\ Message[m].contact
Loaded   == MatchSteps \ {"load"}

CaptureInv ==
  /\ ProcessedIsCaptured
  /\ \A m \in Messages : events[m].processed => events[m].stage # "absent"
  /\ \A j \in JobIds :
       /\ act[j].pc \in Loaded
       /\ Wants(EventOf(j)) /\ events[EventOf(j)].account # None
       => /\ act[j].lead # "none"
          /\ act[j].lead = "done" => EventOf(j) \in captured

LEMMA InitCapture == Init => CaptureInv
  BY DEF Init, CaptureInv, ProcessedIsCaptured, Idle, Loaded, MatchSteps

\* Details are only lost together with the account.
LEMMA CapturedFrame ==
  ASSUME TypeInv, [Next]_vars, NEW m \in captured
  PROVE  m \in captured' \/ events'[m].account = None
  <1>1. ASSUME NEW acc \in Accounts, Disconnect(acc)
        PROVE  m \in captured' \/ events'[m].account = None
    BY <1>1 DEF Disconnect, TypeInv, TypeOK, TablesOK, Event
  <1>2. ASSUME NEW j \in JobIds, processEvent(j) PROVE m \in captured'
    BY ZenonT(60), <1>2
    DEF processEvent, tables, Load, Dedupe, ClassifyIntent, QueryAutomations, Match,
        MatchingDone, InsertDm, InsertReply, InsertFails, AddDm, AddReply, CaptureLead,
        CaptureLeadFails, MarkProcessed, DetachedEnd
  <1>3. ASSUME NEW j \in JobIds, generateAiReply(j) \/ sendDM(j) PROVE m \in captured'
    BY <1>3
    DEF generateAiReply, sendDM, tables, GenLoad, GenAnswered, GenFallback, GenFails,
        GenFlagged, ModerationCaught, GenContent, GenAdd, DmLoad, DmGate, CrLoad,
        PostAccepted, PostAnswerLost, PostRefused, PostServerError, WriteOutcome,
        WriteSentFails
  <1> QED
    BY <1>1, <1>2, <1>3
    DEF Next, vars, tables, Handle, Owner, InsertEvent, EnqueueEvent, EnqueueEventFails,
        Start, Refuse, Throw, Stalled, Return, Crash, SetStatus, DeleteAutomation

\* What a matching handler does to its lead branch.
LEMMA MatchingFrame ==
  ASSUME TypeInv, NEW j \in JobIds, processEvent(j)
  PROVE  \/ Load(j) \/ CaptureLead(j) \/ CaptureLeadFails(j)
         \/ act'[j] = Idle \/ Stops(j)
         \/ /\ act[j].pc \in Loaded /\ act'[j].lead = act[j].lead /\ UNCHANGED captured
  <1>1. CASE AddDm(j) \/ \E a \in Automations : Match(j, a)
    BY <1>1, MatchFrame, StepNames DEF AddDm, Match, tables, Loaded
  <1>2. CASE InsertFails(j) \/ DetachedEnd(j)
    <2>1. CASE InsertFails(j)
      BY <2>1, RejectMoves DEF InsertFails
    <2>2. CASE DetachedEnd(j)
      BY <2>2, Moved DEF DetachedEnd
    <2> QED
      BY <1>2, <2>1, <2>2
  <1>3. ASSUME NEW p, Goto(j, p) PROVE act'[j].lead = act[j].lead
    BY <1>3, Moved, HandlerFields DEF Goto, Fields
  <1>4. ASSUME Dedupe(j) \/ AddReply(j) \/ MarkProcessed(j)
        PROVE  /\ act[j].pc \in {"dedupe", "addReply", "mark"}
               /\ act'[j].lead = act[j].lead /\ UNCHANGED captured
    BY <1>3, <1>4 DEF Dedupe, AddReply, MarkProcessed, tables
  <1>5. ASSUME QueryAutomations(j) \/ MatchingDone(j)
        PROVE  /\ act[j].pc \in {"query", "next"}
               /\ act'[j].lead = act[j].lead /\ UNCHANGED captured
    BY ZenonT(60), <1>5, Moved, HandlerFields DEF QueryAutomations, MatchingDone, Fields, tables
  <1>6. ASSUME ClassifyIntent(j)
        PROVE  act[j].pc = "classify" /\ act'[j].lead = act[j].lead /\ UNCHANGED captured
    BY ZenonT(60), <1>3, <1>6, Moved, HandlerFields DEF ClassifyIntent, Fields
  <1>7. ASSUME InsertDm(j) \/ InsertReply(j)
        PROVE  /\ act[j].pc \in {"insertDm", "insertReply"}
               /\ act'[j].lead = act[j].lead /\ UNCHANGED captured
    <2>1. CASE InsertDm(j)
      BY <2>1, Moved, HandlerFields DEF InsertDm, Fields
    <2>2. CASE InsertReply(j)
      BY ZenonT(60), <2>2, Moved, HandlerFields DEF InsertReply, Fields
    <2> QED
      BY <1>7, <2>1, <2>2
  <1> QED
    BY SMTT(60), <1>1, <1>2, <1>4, <1>5, <1>6, <1>7, StepNames DEF processEvent, Loaded

LEMMA EventJob ==
  ASSUME TypeInv, OneJobInv, NEW j \in JobIds,
         act[j].pc \in MatchSteps \/ act[j].lead # "none"
  PROVE  /\ EventOf(j) \in Messages /\ events[EventOf(j)].stage = "queued"
         /\ jobs[j].state # "none"
  BY HandlerType, Subject, StepNames DEF HandlerInv, IsEventJob, OneJobInv

LEMMA NextCapture == TypeInv /\ OneJobInv /\ CaptureInv /\ [Next]_vars => CaptureInv'
  <1> SUFFICES ASSUME TypeInv, OneJobInv, CaptureInv, [Next]_vars PROVE CaptureInv'
    OBVIOUS
  \* A queued event keeps its account or loses it.
  <1>1. \A m \in Messages : events[m].stage = "queued" =>
          events'[m].account \in {events[m].account, None}
    BY EventFrame, IngestFrame DEF EventStep
  <1>2. ASSUME NEW m \in Messages, events'[m].processed
        PROVE  /\ events'[m].stage # "absent"
               /\ events'[m].account # None /\ Wants(m) => m \in captured'
    <2>1. CASE events[m].processed
      <3>1. events[m].stage # "absent"
        BY <2>1 DEF CaptureInv
      <3>2. events'[m].stage # "absent" /\ events'[m].account \in {events[m].account, None}
        <4>1. CASE EventStep(m)
          BY <3>1, <4>1 DEF EventStep
        <4>2. CASE InsertEvent(m)
          BY <3>1, <4>2 DEF InsertEvent
        <4>3. CASE EnqueueEvent(m) \/ EnqueueEventFails(m)
          <5>1. events \in [Messages -> Event] /\ events[m] \in Event
            BY DEF TypeInv, TypeOK, TablesOK
          <5>2. events'[m].stage \in {"queued", "unqueued"}
            BY <4>3, <5>1 DEF EnqueueEvent, EnqueueEventFails, Event
          <5>3. events'[m].account = events[m].account
            BY <3>1, <4>3, IngestFrame
          <5> QED
            BY <5>2, <5>3
        <4> QED
          BY <4>1, <4>2, <4>3, EventFrame
      <3> QED
        BY <2>1, <3>2, CapturedFrame DEF CaptureInv, ProcessedIsCaptured, Wants
    <2>2. CASE ~events[m].processed
      <3>1. EventStep(m)
        BY <1>2, <2>2, EventFrame, IngestFrame
      <3>2. PICK j \in JobIds : MarkProcessed(j) /\ EventOf(j) = m
        BY <1>2, <2>2, <3>1 DEF EventStep
      <3>3. act[j].pc = "mark" /\ act[j].lead \in {"none", "done"}
        BY <3>2 DEF MarkProcessed
      <3>4. act[j].pc \in Loaded /\ events[m].stage = "queued"
        BY <3>2, <3>3, EventJob, StepNames DEF Loaded
      <3>5. events'[m].account # None /\ Wants(m) => m \in captured
        BY <3>1, <3>2, <3>3, <3>4 DEF CaptureInv, EventStep
      <3>6. captured' = captured
        BY <3>2 DEF MarkProcessed
      <3> QED
        BY <3>1, <3>4, <3>5, <3>6 DEF EventStep
    <2> QED
      BY <2>1, <2>2
  <1>3. ASSUME NEW j \in JobIds, act'[j].pc \in Loaded, Wants(EventOf(j)'),
               events'[EventOf(j)'].account # None
        PROVE  /\ act'[j].lead # "none"
               /\ act'[j].lead = "done" => EventOf(j)' \in captured'
    <2> DEFINE m == EventOf(j)
    \* The handler was at a loaded step before, with the same or a better lead.
    <2>1. ASSUME act[j].pc \in Loaded, act'[j].lead = act[j].lead
          PROVE  /\ act'[j].lead # "none"
                 /\ act'[j].lead = "done" => EventOf(j)' \in captured'
      <3>1. m \in Messages /\ events[m].stage = "queued" /\ EventOf(j)' = m
        BY <2>1, EventJob, DataFrame DEF Loaded, EventOf
      <3>2. events[m].account # None
        BY <1>1, <1>3, <3>1
      <3> QED
        BY <1>3, <2>1, <3>1, <3>2, CapturedFrame DEF CaptureInv
    <2>2. CASE act'[j] = act[j]
      BY <1>3, <2>1, <2>2
    <2>3. CASE act'[j] = Idle
      BY <1>3, <2>3, IdleFacts, StepNames DEF Loaded
    <2>4. CASE Stops(j)
      BY <2>4 DEF Stops
    <2>5. ASSUME NEW w \in Workers, Start(w, j) PROVE FALSE
      BY <1>3, <2>5, StartFrame, StepNames DEF Loaded
    <2>6. CASE generateAiReply(j) \/ sendDM(j)
      BY <1>3, <2>6, RowFrame, StepNames DEF Loaded
    <2>7. CASE Load(j)
      <3>1. act[j].pc = "load" /\ UNCHANGED events
        BY <2>7 DEF Load, tables
      <3>2. EventOf(j)' = m
        BY <3>1, EventJob, DataFrame, StepNames DEF EventOf
      <3>3. events[m].account # None /\ Wants(m)
        BY <1>3, <3>1, <3>2
      <3>4. ASSUME NEW i, NEW p, Becomes(j, [act[j] EXCEPT !.account = events[m].account,
                                !.intent = i, !.pc = p, !.lead = "running"])
            PROVE  act'[j].lead = "running"
        BY <3>4, Moved, HandlerFields DEF Fields
      <3>5. ASSUME End(j, "completed") PROVE FALSE
        BY <1>3, <3>5, Moved, IdleFacts, StepNames DEF End, Loaded
      <3> QED
        BY <2>7, <3>3, <3>4, <3>5 DEF Load, Wants
    <2>8. CASE CaptureLead(j)
      <3>1. act[j].pc # "stopped" /\ act'[j].lead = "done"
        BY <1>3, <2>8, Moved, IdleFacts, HandlerFields, StepNames
        DEF CaptureLead, Fields, Loaded
      <3>2. EventOf(j)' = m
        BY <2>8, EventJob, DataFrame DEF CaptureLead, EventOf
      <3> QED
        BY <2>8, <3>1, <3>2 DEF CaptureLead
    <2>9. CASE CaptureLeadFails(j)
      BY <1>3, <2>9, Moved, IdleFacts, HandlerFields, StepNames
      DEF CaptureLeadFails, Fields, Loaded
    <2> QED
      BY <2>1, <2>2, <2>3, <2>4, <2>5, <2>6, <2>7, <2>8, <2>9, HandlerFrame, MatchingFrame
  <1> QED
    BY <1>2, <1>3 DEF CaptureInv, ProcessedIsCaptured, Wants

--------------------------------------------------------------------------------
(* A DM is answered by one attempt.                                        *)

\* A running attempt belongs to the worker that holds its job.
WorkerInv ==
  \A j \in JobIds :
    act[j].pc # "idle" /\ jobs[j].state = "active" =>
      jobs[j].worker = act[j].worker /\ act[j].worker # None

\* What a step does to a job that is in the queue.
JobStep(j) ==
  \/ jobs'[j] = jobs[j]
  \/ jobs'[j].state # "active" /\ jobs'[j].stalls = jobs[j].stalls
  \/ jobs'[j].state # "active" /\ jobs[j].state = "active" /\ jobs[j].worker = None
  \/ \E w \in Workers : Start(w, j)
  \/ \E w \in Workers : Crash(w) /\ jobs[j].worker = w /\ jobs'[j].stalls = jobs[j].stalls

LEMMA SettleStep ==
  ASSUME TypeInv, NEW j \in JobIds, NEW k \in JobIds, NEW o \in {"completed", "failed"},
         Settle(k, o)
  PROVE  JobStep(j)
  BY DEF Settle, JobStep, TypeInv, TypeOK, Job

LEMMA JobFrame ==
  ASSUME TypeInv, [Next]_vars, NEW j \in JobIds, jobs[j].state # "none"
  PROVE  JobStep(j)
  <1>1. ASSUME jobs' = jobs PROVE JobStep(j)
    BY <1>1 DEF JobStep
  <1>2. ASSUME NEW k \in JobIds, NEW d, Add(k, d) PROVE JobStep(j)
    BY SMTT(60), <1>2 DEF Add, IsNextJob, JobStep, TypeInv, TypeOK
  <1>3. ASSUME NEW k \in JobIds, processEvent(k) PROVE JobStep(j)
    BY ZenonT(60), <1>1, <1>2, <1>3, SettleStep
    DEF processEvent, Load, Dedupe, ClassifyIntent, QueryAutomations, Match,
        MatchingDone, InsertDm, InsertReply, InsertFails, AddDm, AddReply, CaptureLead,
        CaptureLeadFails, MarkProcessed, DetachedEnd, End, Reject
  <1>4. ASSUME NEW k \in JobIds, generateAiReply(k) \/ sendDM(k) PROVE JobStep(j)
    BY <1>1, <1>2, <1>4, SettleStep
    DEF generateAiReply, sendDM, GenLoad, GenAnswered, GenFallback, GenFails, GenFlagged,
        ModerationCaught, GenContent, GenAdd, DmLoad, DmGate, CrLoad, PostAccepted,
        PostAnswerLost, PostRefused, PostServerError, WriteOutcome, WriteSentFails, End
  <1>5. ASSUME NEW k \in JobIds, Throw(k) \/ Return(k) PROVE JobStep(j)
    BY <1>1, <1>5, SettleStep DEF Throw, Return, End, Reject
  <1>6. ASSUME NEW k \in JobIds, Stalled(k) PROVE JobStep(j)
    BY <1>6 DEF Stalled, CheckStalled, JobStep, TypeInv, TypeOK, Job
  <1>7. ASSUME NEW w \in Workers, NEW k \in JobIds, Start(w, k) \/ Refuse(w, k)
        PROVE  JobStep(j)
    <2>1. CASE Start(w, j)
      BY <2>1 DEF JobStep
    <2>2. CASE Start(w, k) /\ k # j
      BY <2>2 DEF Start, Take, JobStep, TypeInv, TypeOK
    <2>3. CASE Refuse(w, k)
      BY <2>3 DEF Refuse, JobStep, TypeInv, TypeOK, Job
    <2> QED
      BY <1>7, <2>1, <2>2, <2>3
  <1>8. ASSUME NEW w \in Workers, Crash(w) PROVE JobStep(j)
    <2>1. jobs'[j] = IF jobs[j].state = "active" /\ jobs[j].worker = w
                       THEN [jobs[j] EXCEPT !.worker = None] ELSE jobs[j]
      BY <1>8 DEF Crash, Lose
    <2>2. CASE jobs'[j] = jobs[j]
      BY <2>2 DEF JobStep
    <2>3. CASE jobs[j].worker = w /\ jobs'[j] = [jobs[j] EXCEPT !.worker = None]
      BY <1>8, <2>3, HandlerType DEF JobStep, Job
    <2> QED
      BY <2>1, <2>2, <2>3
  <1>9. ASSUME NEW m \in Messages,
               InsertEvent(m) \/ EnqueueEvent(m) \/ EnqueueEventFails(m)
        PROVE  JobStep(j)
    BY <1>1, <1>2, <1>9 DEF InsertEvent, EnqueueEvent, EnqueueEventFails
  <1>10. ASSUME Owner PROVE JobStep(j)
    BY <1>1, <1>10 DEF Owner, SetStatus, DeleteAutomation, Disconnect
  <1> QED
    BY <1>1, <1>3, <1>4, <1>5, <1>6, <1>7, <1>8, <1>9, <1>10 DEF Next, Handle, vars

\* No handler changes hands.
LEMMA WorkerFrame ==
  ASSUME TypeInv, [Next]_vars, NEW j \in JobIds, act'[j].pc # "idle"
  PROVE  \/ \E w \in Workers : Start(w, j)
         \/ act[j].pc # "idle" /\ act'[j].worker = act[j].worker
  <1>1. ASSUME NEW p, Goto(j, p) PROVE act'[j].worker = act[j].worker
    BY <1>1, Moved, HandlerFields DEF Goto, Fields
  <1>2. ASSUME NEW o, End(j, o) PROVE FALSE
    BY <1>2, Moved, IdleFacts DEF End
  <1>3. CASE processEvent(j)
    <2>1. act[j].pc # "idle"
      BY <1>3, HandlerType, StepNames
      DEF processEvent, Load, Dedupe, ClassifyIntent, QueryAutomations, Match,
          MatchingDone, InsertDm, InsertReply, InsertFails, AddDm, AddReply,
          CaptureLead, CaptureLeadFails, MarkProcessed, DetachedEnd, HandlerInv
    <2>2. CASE Load(j)
      <3>1. ASSUME NEW a, NEW i, NEW p, NEW l,
                   Becomes(j, [act[j] EXCEPT !.account = a, !.intent = i, !.pc = p, !.lead = l])
            PROVE  act'[j].worker = act[j].worker
        BY <3>1, Moved, HandlerFields DEF Fields
      <3> QED
        BY <1>2, <2>1, <2>2, <3>1 DEF Load
    <2>3. CASE \E a \in Automations : Match(j, a)
      <3>1. ASSUME NEW d, NEW a, NEW t, NEW p,
                   \/ Becomes(j, [act[j] EXCEPT !.todo = @ \ {a}])
                   \/ Becomes(j, [act[j] EXCEPT !.todo = @ \ {a}, !.automation = a,
                                                !.text = t, !.pc = p])
            PROVE  act'[j].worker = act[j].worker
        BY <3>1, Moved, HandlerFields DEF Fields
      <3> QED
        BY <2>1, <2>3, <3>1 DEF Match
    <2>4. CASE CaptureLead(j) \/ CaptureLeadFails(j) \/ DetachedEnd(j)
      BY <2>1, <2>4, Moved, IdleFacts, HandlerFields
      DEF CaptureLead, CaptureLeadFails, DetachedEnd, Fields
    <2>5. CASE InsertFails(j)
      BY <2>1, <2>5, RejectMoves, IdleFacts DEF InsertFails, Stops
    <2>6. CASE ClassifyIntent(j) \/ QueryAutomations(j) \/ MatchingDone(j) \/ InsertDm(j)
               \/ InsertReply(j)
      <3>1. CASE ClassifyIntent(j)
        BY ZenonT(60), <1>1, <2>1, <3>1, Moved, HandlerFields DEF ClassifyIntent, Fields
      <3>2. CASE QueryAutomations(j) \/ MatchingDone(j)
        BY ZenonT(60), <2>1, <3>2, Moved, HandlerFields DEF QueryAutomations, MatchingDone, Fields
      <3>3. CASE InsertDm(j)
        BY ZenonT(60), <2>1, <3>3, Moved, HandlerFields DEF InsertDm, Fields
      <3>4. CASE InsertReply(j)
        BY ZenonT(60), <2>1, <3>4, Moved, HandlerFields DEF InsertReply, Fields
      <3> QED
        BY <2>6, <3>1, <3>2, <3>3, <3>4
    <2>7. CASE Dedupe(j) \/ AddDm(j) \/ AddReply(j) \/ MarkProcessed(j)
      BY <1>1, <2>1, <2>7 DEF Dedupe, AddDm, AddReply, MarkProcessed
    <2> QED
      BY SMTT(60), <1>3, <2>2, <2>3, <2>4, <2>5, <2>6, <2>7 DEF processEvent
  <1>4. CASE generateAiReply(j) \/ sendDM(j)
    <2>1. act[j].pc # "idle"
      BY <1>4, RowFrame, StepNames
    <2>2. CASE GenLoad(j)
      <3> DEFINE row == sends[act[j].send]
                 g == [act[j] EXCEPT !.account = row.account,
                                     !.automation = row.automation, !.text = row.text]
      <3>1. DOMAIN g = Fields /\ g.worker = act[j].worker
        BY HandlerFields DEF Fields
      <3> HIDE DEF g
      <3>2. ASSUME \/ Becomes(j, [g EXCEPT !.pc = "write", !.out = "failed"])
                   \/ Becomes(j, [g EXCEPT !.pc = "genAsk"])
            PROVE  act'[j].worker = act[j].worker
        BY ZenonT(60), <3>1, <3>2, Moved DEF Fields
      <3> QED
        BY <1>2, <2>1, <2>2, <3>2 DEF GenLoad, g
    <2>3. ASSUME NEW t, NEW f, NEW o, NEW p,
                 \/ Becomes(j, [act[j] EXCEPT !.pc = p, !.text = t])
                 \/ Becomes(j, [act[j] EXCEPT !.pc = p, !.text = t, !.flagged = f])
                 \/ Becomes(j, [act[j] EXCEPT !.pc = p, !.text = t, !.out = o, !.flagged = f])
                 \/ Becomes(j, [act[j] EXCEPT !.pc = p, !.out = o])
                 \/ Becomes(j, [act[j] EXCEPT !.pc = p, !.out = o, !.flagged = f])
                 \/ Becomes(j, [act[j] EXCEPT !.out = o])
          PROVE  act'[j].worker = act[j].worker
      BY ZenonT(60), <2>3, Moved, HandlerFields DEF Fields
    <2>4. CASE generateAiReply(j) /\ ~GenLoad(j)
      BY ZenonT(60), <1>1, <2>1, <2>3, <2>4
      DEF generateAiReply, GenAnswered, GenFallback, GenFails, GenFlagged,
          ModerationCaught, GenContent, GenAdd
    <2>5. CASE sendDM(j)
      BY <1>1, <1>2, <2>1, <2>3, <2>5
      DEF sendDM, DmLoad, DmGate, CrLoad, PostAccepted, PostAnswerLost, PostRefused,
          PostServerError, WriteOutcome, WriteSentFails
    <2> QED
      BY <1>4, <2>2, <2>4, <2>5
  <1> QED
    BY <1>3, <1>4, HandlerFrame, IdleFacts DEF Stops

LEMMA InitWorker == Init => WorkerInv
  BY DEF Init, WorkerInv, Idle

LEMMA NextWorker == TypeInv /\ WorkerInv /\ [Next]_vars => WorkerInv'
  <1> SUFFICES ASSUME TypeInv, WorkerInv, [Next]_vars, NEW j \in JobIds,
                      act'[j].pc # "idle", jobs'[j].state = "active"
               PROVE  jobs'[j].worker = act'[j].worker /\ act'[j].worker # None
    BY DEF WorkerInv
  <1>1. ASSUME NEW w \in Workers, Start(w, j)
        PROVE  jobs'[j].worker = act'[j].worker /\ act'[j].worker # None
    BY <1>1, StartFrame, QueueAssumption
  <1>2. CASE act[j].pc # "idle" /\ act'[j].worker = act[j].worker
    <2>1. JobStep(j)
      BY <1>2, HandlerType, JobFrame DEF HandlerInv
    <2>2. CASE jobs'[j] = jobs[j]
      BY <1>2, <2>2 DEF WorkerInv
    <2>3. ASSUME NEW w \in Workers, Crash(w), jobs[j].worker = w,
                 jobs'[j].stalls = jobs[j].stalls
          PROVE  jobs'[j] = jobs[j]
      <3>1. jobs[j].state = "active"
        BY <2>3 DEF Crash, Lose, TypeInv, TypeOK, Job
      <3>2. act[j].worker = w
        BY <1>2, <2>3, <3>1 DEF WorkerInv
      <3> QED
        BY <2>3, <3>2, IdleFacts DEF Crash
    <2> QED
      BY <1>1, <2>1, <2>2, <2>3 DEF JobStep
  <1> QED
    BY <1>1, <1>2, WorkerFrame

\* While an attempt runs its job does not stall.
LEMMA SameAttempt ==
  ASSUME TypeInv, WorkerInv, [Next]_vars, NEW j \in JobIds, act[j].pc # "idle",
         act'[j].pc # "idle"
  PROVE  jobs'[j].stalls = jobs[j].stalls \/ \E w \in Workers : Start(w, j)
  <1>1. JobStep(j)
    BY HandlerType, JobFrame DEF HandlerInv
  <1>2. ~(jobs[j].state = "active" /\ jobs[j].worker = None)
    BY DEF WorkerInv
  <1> QED
    BY <1>1, <1>2 DEF JobStep

\* A row that was inserted belongs to the job of its event; one that was not, to
\* no account.
RowInv ==
  \A s \in SendIds :
    IF sends[s].status = "none" THEN sends[s].account = None
    ELSE /\ sends[s].by \in JobIds /\ IsEventJob(sends[s].by)
         /\ EventOf(sends[s].by) = sends[s].event

\* What a step does to a row, other than insert it.
SendStep(s) ==
  /\ sends'[s].status = "none" <=> sends[s].status = "none"
  /\ sends'[s].event = sends[s].event
  /\ sends'[s].by = sends[s].by /\ sends'[s].run = sends[s].run
  /\ sends'[s].kind = sends[s].kind
  /\ sends'[s].automation \in {sends[s].automation, None}
  /\ sends[s].status = "none" => sends'[s].account = sends[s].account
  /\ sends[s].status = "deleted" => sends'[s].status = "deleted"

\* Handler j inserts row s.
Inserts(j, s) ==
  \/ InsertDm(j) /\ InsertSend(j, s, "dm", act[j].text)
  \/ InsertReply(j) /\ \E t \in Texts : InsertSend(j, s, "commentReply", t)

LEMMA OnRowFrame ==
  ASSUME TypeInv, NEW s \in SendIds, NEW r \in SendIds, NEW row,
         sends' = OnRow(r, row),
         /\ row.status \notin {"none", "deleted"} /\ row.event = sends[r].event
         /\ row.by = sends[r].by /\ row.run = sends[r].run /\ row.kind = sends[r].kind
         /\ row.automation = sends[r].automation
  PROVE  SendStep(s)
  <1>1. sends' = sends \/ (sends[r].status \notin {"none", "deleted"}
                           /\ sends' = [sends EXCEPT ![r] = row])
    BY SMTT(60) DEF OnRow
  <1> QED
    BY <1>1 DEF SendStep, TypeInv, TypeOK, TablesOK

LEMMA SendFrame ==
  ASSUME TypeInv, RowInv, [Next]_vars, NEW s \in SendIds
  PROVE  SendStep(s) \/ \E j \in JobIds : Inserts(j, s)
  <1>11. sends \in [SendIds -> Send]
    BY DEF TypeInv, TypeOK, TablesOK
  <1>1. ASSUME sends' = sends PROVE SendStep(s)
    BY <1>1 DEF SendStep
  <1>2. ASSUME NEW j \in JobIds, NEW r \in SendIds, NEW kind, NEW t,
               InsertSend(j, r, kind, t), r # s
        PROVE  SendStep(s)
    BY <1>11, <1>2 DEF InsertSend, SendStep
  <1>3. ASSUME NEW j \in JobIds, InsertDm(j)
        PROVE  SendStep(s) \/ Inserts(j, s)
    BY <1>2, <1>3 DEF InsertDm, Inserts
  <1>4. ASSUME NEW j \in JobIds, InsertReply(j)
        PROVE  SendStep(s) \/ Inserts(j, s)
    <2>1. PICK r \in SendIds, t \in Texts : InsertSend(j, r, "commentReply", t)
      BY SMTT(60), <1>4 DEF InsertReply, Texts
    <2> QED
      BY <1>2, <1>4, <2>1 DEF Inserts
  <1>5. ASSUME NEW j \in JobIds, processEvent(j), ~InsertDm(j), ~InsertReply(j)
        PROVE  SendStep(s)
    BY <1>1, <1>5
    DEF processEvent, tables, Load, Dedupe, ClassifyIntent, QueryAutomations, Match,
        MatchingDone, InsertFails, AddDm, AddReply, CaptureLead, CaptureLeadFails,
        MarkProcessed, DetachedEnd
  <1>6. ASSUME NEW j \in JobIds, GenContent(j) PROVE SendStep(s)
    <2> DEFINE r == act[j].send
               row == [sends[r] EXCEPT !.text = act[j].text]
    <2>1. r \in SendIds
      BY <1>6, Subject, StepNames DEF GenContent
    <2>2. CASE sends[r].status \in {"none", "deleted"}
      BY <1>1, <1>6, <2>2 DEF GenContent, OnRow
    <2>3. CASE sends[r].status \notin {"none", "deleted"}
      <3>1. /\ row.status = sends[r].status /\ row.event = sends[r].event
            /\ row.by = sends[r].by /\ row.run = sends[r].run /\ row.kind = sends[r].kind
            /\ row.automation = sends[r].automation
        BY <1>11, <2>1 DEF Send
      <3>2. sends' = OnRow(r, row)
        BY <1>6 DEF GenContent
      <3> HIDE DEF row, r
      <3> QED
        BY <2>1, <2>3, <3>1, <3>2, OnRowFrame
    <2> QED
      BY <2>2, <2>3
  <1>7. ASSUME NEW j \in JobIds, WriteOutcome(j) PROVE SendStep(s)
    <2> DEFINE r == act[j].send
               row == [sends[r] EXCEPT !.status = act[j].out]
    <2>1. r \in SendIds /\ act[j].out \in Outcomes \cup {"retry"}
      BY <1>7, Subject, StepNames, HandlerType DEF WriteOutcome, HandlerInv
    <2>2. CASE act[j].out = "retry"
      BY <1>1, <1>7, <2>2 DEF WriteOutcome
    <2>3. CASE act[j].out # "retry"
      <3>1. /\ row.status = act[j].out /\ row.event = sends[r].event
            /\ row.by = sends[r].by /\ row.run = sends[r].run /\ row.kind = sends[r].kind
            /\ row.automation = sends[r].automation
        BY <1>11, <2>1 DEF Send
      <3>2. sends' = OnRow(r, row)
        BY <1>7, <2>3 DEF WriteOutcome
      <3>3. act[j].out \notin {"none", "deleted"}
        BY SMTT(60), <2>1 DEF Outcomes
      <3> HIDE DEF row, r
      <3> QED
        BY <2>1, <3>1, <3>2, <3>3, OnRowFrame
    <2> QED
      BY <2>2, <2>3
  <1>8. ASSUME NEW j \in JobIds, generateAiReply(j) \/ sendDM(j),
               ~GenContent(j), ~WriteOutcome(j)
        PROVE  SendStep(s)
    BY <1>1, <1>8
    DEF generateAiReply, sendDM, tables, GenLoad, GenAnswered, GenFallback, GenFails,
        GenFlagged, ModerationCaught, GenAdd, DmLoad, DmGate, CrLoad, PostAccepted,
        PostAnswerLost, PostRefused, PostServerError, WriteSentFails
  <1>9. ASSUME NEW a \in Automations, DeleteAutomation(a) PROVE SendStep(s)
    <2>1. sends'[s] = IF sends[s].automation = a
                        THEN [sends[s] EXCEPT !.automation = None] ELSE sends[s]
      BY <1>9 DEF DeleteAutomation
    <2> QED
      BY <1>11, <2>1 DEF SendStep, Send
  <1>10. ASSUME NEW acc \in Accounts, Disconnect(acc) PROVE SendStep(s)
    <2>1. sends'[s] = IF sends[s].account = acc
                        THEN [sends[s] EXCEPT !.status = "deleted", !.automation = None]
                        ELSE sends[s]
      BY <1>10 DEF Disconnect
    <2> QED
      BY <1>11, <2>1, QueueAssumption DEF SendStep, Send, RowInv
  <1> QED
    BY <1>1, <1>3, <1>4, <1>5, <1>6, <1>7, <1>8, <1>9, <1>10
    DEF Next, vars, tables, Handle, Owner, InsertEvent, EnqueueEvent, EnqueueEventFails,
        Start, Refuse, Throw, Stalled, Return, Crash, SetStatus

\* What inserting a row does.
LEMMA InsertFrame ==
  ASSUME TypeInv, NEW j \in JobIds, NEW s \in SendIds, Inserts(j, s)
  PROVE  /\ act[j].pc \in {"insertDm", "insertReply"}
         /\ act[j].pc = "insertDm" => InsertDm(j)
         /\ act[j].pc = "insertReply" => InsertReply(j)
         /\ sends[s].status = "none" /\ sends'[s].status = "queued"
         /\ sends'[s].event = EventOf(j) /\ sends'[s].automation = act[j].automation
         /\ sends'[s].by = j /\ sends'[s].run = jobs[j].stalls
         /\ sends'[s].kind = IF act[j].pc = "insertDm" THEN "dm" ELSE "commentReply"
         /\ \A r \in SendIds : r # s => sends'[r] = sends[r]
  <1>1. ASSUME NEW kind, NEW t, InsertSend(j, s, kind, t)
        PROVE  /\ sends[s].status = "none" /\ sends'[s].status = "queued"
               /\ sends'[s].event = EventOf(j) /\ sends'[s].automation = act[j].automation
               /\ sends'[s].by = j /\ sends'[s].run = jobs[j].stalls
               /\ sends'[s].kind = kind
               /\ \A r \in SendIds : r # s => sends'[r] = sends[r]
    BY SMTT(60), <1>1 DEF InsertSend, IsNextSend, TypeInv, TypeOK, TablesOK
  <1>2. /\ act[j].pc \in {"insertDm", "insertReply"}
        /\ act[j].pc = "insertDm" => InsertDm(j)
        /\ act[j].pc = "insertReply" => InsertReply(j)
    BY DEF Inserts, InsertDm, InsertReply
  <1>3. CASE InsertDm(j) /\ InsertSend(j, s, "dm", act[j].text)
    BY <1>1, <1>2, <1>3 DEF InsertDm
  <1>4. CASE InsertReply(j) /\ \E t \in Texts : InsertSend(j, s, "commentReply", t)
    BY <1>1, <1>2, <1>4 DEF InsertReply
  <1> QED
    BY <1>3, <1>4 DEF Inserts

LEMMA InitRow == Init => RowInv
  BY DEF Init, RowInv, NoSend

LEMMA NextRow == TypeInv /\ OneJobInv /\ RowInv /\ [Next]_vars => RowInv'
  <1> SUFFICES ASSUME TypeInv, OneJobInv, RowInv, [Next]_vars PROVE RowInv'
    OBVIOUS
  <1> DEFINE Owned(s) == /\ sends'[s].status # "none"
                         /\ \E j \in JobIds : /\ sends'[s].by = j /\ IsEventJob(j)'
                                             /\ EventOf(j)' = sends'[s].event
  <1>1. ASSUME NEW j \in JobIds, IsEventJob(j)
        PROVE  IsEventJob(j)' /\ EventOf(j)' = EventOf(j)
    BY <1>1, DataFrame DEF IsEventJob, EventOf
  <1>2. ASSUME NEW s \in SendIds, SendStep(s)
        PROVE  Owned(s) \/ (sends'[s].status = "none" /\ sends'[s].account = None)
    <2>1. CASE sends[s].status = "none"
      BY <1>2, <2>1 DEF SendStep, RowInv
    <2>2. CASE sends[s].status # "none"
      <3>1. PICK j \in JobIds : sends[s].by = j /\ IsEventJob(j) /\ EventOf(j) = sends[s].event
        BY <2>2 DEF RowInv
      <3> QED
        BY <1>1, <1>2, <2>2, <3>1 DEF SendStep, IsEventJob, EventOf
    <2> QED
      BY <2>1, <2>2
  <1>3. ASSUME NEW s \in SendIds, NEW j \in JobIds, Inserts(j, s)
        PROVE  Owned(s)
    <2>1. IsEventJob(j)
      BY <1>3, InsertFrame, EventJob, StepNames, HandlerType DEF HandlerInv, IsEventJob
    <2> QED
      BY <1>1, <1>3, <2>1, InsertFrame
  <1>4. ASSUME NEW s \in SendIds
        PROVE  Owned(s) \/ (sends'[s].status = "none" /\ sends'[s].account = None)
    <2> HIDE DEF Owned
    <2> QED
      BY <1>2, <1>3, SendFrame
  <1>5. ASSUME NEW s \in SendIds, NEW j \in JobIds, sends'[s].by = j, IsEventJob(j)',
               EventOf(j)' = sends'[s].event, sends'[s].status # "none"
        PROVE  (IF sends[s].status = "none" THEN sends[s].account = None
                ELSE /\ sends[s].by \in JobIds /\ IsEventJob(sends[s].by)
                     /\ EventOf(sends[s].by) = sends[s].event)'
    BY <1>5 DEF IsEventJob, EventOf
  <1> QED
    BY <1>4, <1>5 DEF RowInv

\* What the attempt that answers a DM knows of the rows of its event.
Dm(m) == Message[m].kind \in {"message", "storyReply"}

Answers(j) ==
  /\ act[j].pc \in {"classify", "query"} => Rows(EventOf(j)) = {}
  /\ act[j].pc \in {"next", "insertDm", "addDm"} =>
       \A s \in Rows(EventOf(j)) : /\ sends[s].run = jobs[j].stalls
                                   /\ sends[s].automation \notin act[j].todo
  /\ act[j].pc = "insertDm" =>
       /\ act[j].automation \in Automations \ act[j].todo
       /\ \A s \in Rows(EventOf(j)) : sends[s].automation # act[j].automation
  /\ act[j].pc \notin {"insertReply", "addReply"}

AnswerInv ==
  /\ DmEventAnsweredOnce
  /\ \A j \in JobIds : act[j].pc \in MatchSteps /\ Dm(EventOf(j)) => Answers(j)

LEMMA InitAnswer == Init => AnswerInv
  BY StepNames DEF Init, AnswerInv, DmEventAnsweredOnce, InFlight, NoSend, Idle

\* Rows of a handler's event come from that handler.
LEMMA RowsFrame ==
  ASSUME TypeInv, OneJobInv, RowInv, [Next]_vars, NEW j \in JobIds,
         act[j].pc \in MatchSteps, ~InsertDm(j), ~InsertReply(j)
  PROVE  \A s \in SendIds :
           sends'[s].event = EventOf(j) /\ sends'[s].status \notin {"none", "deleted"} =>
             /\ s \in Rows(EventOf(j)) /\ sends'[s].run = sends[s].run
             /\ sends'[s].automation \in {sends[s].automation, None}
  <1> SUFFICES ASSUME NEW s \in SendIds, sends'[s].event = EventOf(j),
                      sends'[s].status \notin {"none", "deleted"}
               PROVE  /\ s \in Rows(EventOf(j)) /\ sends'[s].run = sends[s].run
                      /\ sends'[s].automation \in {sends[s].automation, None}
    OBVIOUS
  <1>1. ASSUME NEW k \in JobIds, Inserts(k, s) PROVE FALSE
    <2>1. EventOf(k) = EventOf(j) /\ act[k].pc \in MatchSteps
      BY <1>1, InsertFrame, StepNames
    <2>2. k = j
      BY <2>1, SameEvent
    <2> QED
      BY <1>1, <2>2, InsertFrame
  <1> QED
    BY <1>1, SendFrame DEF SendStep, Rows

\* The facts a handler keeps as long as it does not insert: it may narrow `todo'.
Keeps(j) ==
  /\ act[j].pc \in {"next", "insertDm", "addDm"}
  /\ act'[j].pc \in MatchSteps \ {"classify", "query", "insertReply", "addReply"}
  /\ act'[j].todo \subseteq act[j].todo
  /\ act'[j].pc = "insertDm" =>
       /\ act'[j].automation \in Automations \ act'[j].todo
       /\ \/ act'[j].automation \in act[j].todo
          \/ act[j].pc = "insertDm" /\ act'[j].automation = act[j].automation

LEMMA NextKeeps ==
  ASSUME TypeInv, OneJobInv, RowInv, WorkerInv, [Next]_vars, NEW j \in JobIds, Answers(j),
         act[j].pc \in MatchSteps, ~InsertDm(j), ~InsertReply(j), Keeps(j)
  PROVE  Answers(j)'
  <1> DEFINE m == EventOf(j)
  <1>1. EventOf(j)' = m
    BY EventJob, DataFrame DEF EventOf
  <1>2. jobs'[j].stalls = jobs[j].stalls \/ act'[j].pc = "load"
    <2>1. ASSUME NEW w \in Workers, Start(w, j) PROVE act'[j].pc = "load"
      BY <2>1, StartFrame, StepNames DEF Keeps
    <2> QED
      BY <2>1, SameAttempt, StepNames DEF Keeps
  <1>3. act[j].todo \subseteq Automations /\ None \notin Automations
    BY HandlerType, PipelineAssumption DEF Act
  <1>4. ASSUME NEW s \in Rows(m)'
        PROVE  /\ s \in Rows(m) /\ sends'[s].run = sends[s].run
               /\ sends'[s].automation \in {sends[s].automation, None}
    BY <1>1, <1>4, RowsFrame DEF Rows
  <1> QED
    BY <1>1, <1>2, <1>3, <1>4 DEF Answers, Keeps

\* A handler that stands still keeps its facts, whatever the others do.
LEMMA StandsStill ==
  ASSUME TypeInv, OneJobInv, RowInv, WorkerInv, [Next]_vars, NEW j \in JobIds, Answers(j),
         act[j].pc \in MatchSteps, act'[j].pc = act[j].pc, act'[j].todo = act[j].todo,
         act'[j].automation = act[j].automation
  PROVE  Answers(j)'
  <1>1. ~InsertDm(j) /\ ~InsertReply(j)
    BY ZenonT(60), Moved, HandlerFields DEF InsertDm, InsertReply, Fields
  <1>2. CASE act[j].pc \in {"next", "insertDm", "addDm"}
    BY <1>1, <1>2, NextKeeps, StepNames DEF Keeps, Answers
  <1>3. CASE act[j].pc \in {"classify", "query"}
    <2>1. EventOf(j)' = EventOf(j)
      BY EventJob, DataFrame DEF EventOf
    <2>2. Rows(EventOf(j)) = {}
      BY <1>3 DEF Answers
    <2>3. Rows(EventOf(j))' = {}
      BY <1>1, <2>1, <2>2, RowsFrame DEF Rows
    <2> QED
      BY <1>3, <2>3 DEF Answers
  <1>4. CASE act[j].pc \notin {"next", "insertDm", "addDm", "classify", "query"}
    BY <1>4 DEF Answers
  <1> QED
    BY SMTT(60), <1>2, <1>3, <1>4

LEMMA MatchKeeps ==
  ASSUME TypeInv, NEW j \in JobIds, EventOf(j) \in Messages, Dm(EventOf(j)),
         AddDm(j) \/ \E a \in Automations : Match(j, a)
  PROVE  Keeps(j)
  <1>1. ASSUME AddDm(j) PROVE Keeps(j)
    <2>1. Goto(j, "next")
      BY <1>1 DEF AddDm, AfterDm, Dm
    <2> QED
      BY <1>1, <2>1, Moved, HandlerFields, StepNames DEF AddDm, Goto, Fields, Keeps
  <1>2. ASSUME NEW a \in Automations, Match(j, a) PROVE Keeps(j)
    <2>1. act[j].pc = "next" /\ a \in act[j].todo
      BY <1>2 DEF Match
    <2>2. ASSUME Becomes(j, [act[j] EXCEPT !.todo = @ \ {a}]) PROVE Keeps(j)
      <3>1. act'[j].pc = "next" /\ act'[j].todo = act[j].todo \ {a}
        BY <2>1, <2>2, Moved, HandlerFields DEF Fields
      <3> QED
        BY <2>1, <3>1, StepNames DEF Keeps
    <2>3. ASSUME NEW t, NEW p \in {"insertDm", "next"},
                 Becomes(j, [act[j] EXCEPT !.todo = @ \ {a}, !.automation = a,
                                           !.text = t, !.pc = p])
          PROVE  Keeps(j)
      <3>1. act'[j].pc = p /\ act'[j].todo = act[j].todo \ {a} /\ act'[j].automation = a
        BY ZenonT(60), <2>3, Moved, HandlerFields DEF Fields
      <3> QED
        BY <2>1, <3>1, StepNames DEF Keeps
    <2>4. AfterDm(EventOf(j), a) = "next"
      BY DEF AfterDm, Dm
    <2> QED
      BY ZenonT(60), <1>2, <2>2, <2>3, <2>4 DEF Match
  <1> QED
    BY <1>1, <1>2

\* The handler inserts the row of the automation it has just matched.
LEMMA InsertDmAnswers ==
  ASSUME TypeInv, OneJobInv, RowInv, WorkerInv, [Next]_vars, NEW j \in JobIds, Answers(j),
         InsertDm(j)
  PROVE  Answers(j)'
  <1> DEFINE m == EventOf(j)
  <1>1. PICK s \in SendIds : /\ InsertSend(j, s, "dm", act[j].text)
                             /\ Becomes(j, [act[j] EXCEPT !.pc = "addDm", !.send = s])
    BY DEF InsertDm
  <1>2. act[j].pc = "insertDm"
    BY DEF InsertDm
  <1>3. act'[j].pc = "addDm" /\ act'[j].todo = act[j].todo
    BY ZenonT(60), <1>1, Moved, HandlerFields DEF Fields
  <1>4. m \in Messages /\ EventOf(j)' = m
    BY <1>2, EventJob, DataFrame, StepNames DEF EventOf
  <1>5. UNCHANGED jobs
    BY DEF InsertDm
  <1>6. /\ sends'[s].run = jobs[j].stalls /\ sends'[s].automation = act[j].automation
        /\ \A r \in SendIds : r # s => sends'[r] = sends[r]
    BY <1>1, InsertFrame DEF Inserts
  <1> QED
    BY <1>2, <1>3, <1>4, <1>5, <1>6 DEF Answers, Rows

LEMMA NextAnswers ==
  ASSUME TypeInv, OneJobInv, RowInv, WorkerInv, AnswerInv, [Next]_vars, NEW j \in JobIds,
         act'[j].pc \in MatchSteps, Dm(EventOf(j)')
  PROVE  Answers(j)'
  <1> DEFINE m == EventOf(j)
             Busy == {"classify", "query", "next", "insertDm", "addDm", "insertReply",
                      "addReply"}
  <1>1. ASSUME act'[j].pc \notin Busy PROVE Answers(j)'
    BY <1>1 DEF Answers
  <1>2. ASSUME act[j].pc \in MatchSteps
        PROVE  Answers(j) /\ EventOf(j)' = m /\ m \in Messages /\ Dm(m)
    BY <1>2, EventJob, DataFrame DEF AnswerInv, EventOf
  <1>3. CASE act'[j] = act[j]
    BY <1>2, <1>3, StandsStill
  <1>4. CASE act'[j] = Idle \/ Stops(j)
    BY <1>1, <1>4, IdleFacts DEF Stops
  <1>5. CASE \E w \in Workers : Start(w, j)
    BY <1>1, <1>5, StartFrame
  <1>6. CASE generateAiReply(j) \/ sendDM(j)
    BY <1>6, RowFrame, StepNames
  <1>7. CASE processEvent(j)
    <2>1. CASE Load(j)
      <3>1. act[j].pc = "load"
        BY <2>1 DEF Load
      <3>2. Dm(m) /\ m \in Messages
        BY <1>2, <3>1, StepNames
      <3>3. ASSUME NEW p \in {"mark", "dedupe"}, NEW a, NEW i, NEW l,
                   Becomes(j, [act[j] EXCEPT !.account = a, !.intent = i, !.pc = p, !.lead = l])
            PROVE  act'[j].pc = p
        BY <3>3, Moved, HandlerFields DEF Fields
      <3>4. ASSUME End(j, "completed") PROVE act'[j] = Idle
        BY <3>4, Moved DEF End
      <3> QED
        BY ZenonT(60), <1>1, <1>4, <2>1, <3>2, <3>3, <3>4 DEF Load, Dm
    <2>2. CASE Dedupe(j)
      <3>1. act[j].pc = "dedupe" /\ UNCHANGED sends
        BY <2>2 DEF Dedupe, tables
      <3>2. act'[j].pc = IF Rows(m) # {} THEN "mark" ELSE "classify"
        BY <2>2, Moved, HandlerFields DEF Dedupe, Goto, Fields
      <3>3. EventOf(j)' = m
        BY <1>2, <3>1, StepNames
      <3> QED
        BY <1>1, <3>1, <3>2, <3>3 DEF Answers, Rows
    <2>3. CASE ClassifyIntent(j)
      <3>1. act[j].pc = "classify" /\ UNCHANGED sends /\ act'[j].pc = "query"
        BY <2>3, Moved, HandlerFields DEF ClassifyIntent, Goto, Fields
      <3>2. EventOf(j)' = m /\ Answers(j)
        BY <1>2, <3>1, StepNames
      <3> QED
        BY <3>1, <3>2 DEF Answers, Rows
    <2>4. CASE QueryAutomations(j)
      <3>1. act[j].pc = "query" /\ UNCHANGED sends /\ act'[j].pc = "next"
        BY <2>4, Moved, HandlerFields DEF QueryAutomations, Fields, tables
      <3>2. EventOf(j)' = m /\ Answers(j)
        BY <1>2, <3>1, StepNames
      <3> QED
        BY <3>1, <3>2 DEF Answers, Rows
    <2>5. CASE AddDm(j) \/ \E a \in Automations : Match(j, a)
      <3>1. act[j].pc \in {"next", "addDm"}
        BY <2>5, MatchFrame
      <3>2. act[j].pc \in MatchSteps
        BY <3>1, StepNames DEF MatchSteps
      <3>3. ~InsertDm(j) /\ ~InsertReply(j)
        BY <3>1 DEF InsertDm, InsertReply
      <3> QED
        BY <1>2, <2>5, <3>2, <3>3, MatchKeeps, NextKeeps
    <2>6. CASE MatchingDone(j) \/ MarkProcessed(j)
      BY ZenonT(60), <1>1, <2>6, Moved, HandlerFields DEF MatchingDone, MarkProcessed, Goto, Fields
    <2>7. CASE InsertDm(j)
      BY <1>2, <2>7, InsertDmAnswers, StepNames DEF InsertDm
    <2>8. CASE InsertReply(j) \/ AddReply(j)
      BY <1>2, <2>8, StepNames DEF InsertReply, AddReply, Answers, MatchSteps
    <2>9. CASE InsertFails(j) \/ DetachedEnd(j)
      BY <1>4, <2>9, Moved, RejectMoves DEF InsertFails, DetachedEnd
    <2>10. CASE CaptureLead(j) \/ CaptureLeadFails(j)
      <3>1. \/ act'[j] = Idle
            \/ /\ act'[j].pc = act[j].pc /\ act'[j].todo = act[j].todo
               /\ act'[j].automation = act[j].automation
        BY <2>10, Moved, HandlerFields DEF CaptureLead, CaptureLeadFails, Fields
      <3> QED
        BY <1>2, <1>4, <3>1, StandsStill
    <2> QED
      BY <1>7, <2>1, <2>2, <2>3, <2>4, <2>5, <2>6, <2>7, <2>8, <2>9, <2>10 DEF processEvent
  <1> QED
    BY <1>3, <1>4, <1>5, <1>6, <1>7, HandlerFrame

LEMMA NextOnce ==
  ASSUME TypeInv, OneJobInv, RowInv, AnswerInv, [Next]_vars PROVE DmEventAnsweredOnce'
  <1> DEFINE Agree(a, b) ==
               /\ a.by = b.by /\ a.run = b.run
               /\ a.automation # None => a.automation # b.automation
             Flying(r) == r.status \notin {"none", "deleted"}
  <1> SUFFICES ASSUME NEW s \in SendIds, NEW t \in SendIds, s # t,
                      Flying(sends'[s]), Flying(sends'[t]),
                      sends'[s].event = sends'[t].event, Dm(sends'[s].event)
               PROVE  Agree(sends'[s], sends'[t])
    BY DEF DmEventAnsweredOnce, InFlight, Dm
  \* Neither row is new.
  <1>1. ASSUME SendStep(s), SendStep(t) PROVE Agree(sends'[s], sends'[t])
    <2>1. Flying(sends[s]) /\ Flying(sends[t]) /\ sends[s].event = sends[t].event
      BY <1>1 DEF SendStep
    <2>2. Agree(sends[s], sends[t])
      BY <1>1, <2>1 DEF SendStep, AnswerInv, DmEventAnsweredOnce, InFlight, Dm
    <2> QED
      BY <1>1, <2>2 DEF SendStep
  \* One is: it comes from the attempt that inserted the other.
  <1>2. ASSUME NEW j \in JobIds, NEW r \in SendIds, NEW q \in SendIds, r # q, Inserts(j, r),
               Flying(sends'[q]), sends'[r].event = sends'[q].event, Dm(sends'[r].event)
        PROVE  Agree(sends'[r], sends'[q]) /\ Agree(sends'[q], sends'[r])
    <2> DEFINE m == EventOf(j)
    <2>1. /\ sends'[r].event = m /\ sends'[r].by = j /\ sends'[r].run = jobs[j].stalls
          /\ sends'[r].automation = act[j].automation /\ sends'[q] = sends[q]
          /\ act[j].pc \in {"insertDm", "insertReply"}
      BY <1>2, InsertFrame
    <2>2. act[j].pc \in MatchSteps
      BY <2>1, StepNames
    <2>3. Answers(j)
      BY <1>2, <2>1, <2>2 DEF AnswerInv
    <2>4. act[j].pc = "insertDm" /\ q \in Rows(m)
      BY <1>2, <2>1, <2>3 DEF Answers, Rows
    <2>5. sends[q].run = jobs[j].stalls /\ sends[q].automation # act[j].automation
      BY <2>3, <2>4 DEF Answers
    <2>6. sends[q].by = j
      <3>1. IsEventJob(j)
        BY <2>2, HandlerType, StepNames DEF HandlerInv, IsEventJob
      <3>2. /\ sends[q].by \in JobIds /\ IsEventJob(sends[q].by)
            /\ EventOf(sends[q].by) = m
        BY <2>4 DEF RowInv, Rows
      <3> QED
        BY <3>1, <3>2 DEF OneJobInv
    <2> QED
      BY <2>1, <2>5, <2>6
  <1> QED
    BY <1>1, <1>2, SendFrame

LEMMA NextAnswer ==
  TypeInv /\ OneJobInv /\ RowInv /\ WorkerInv /\ AnswerInv /\ [Next]_vars => AnswerInv'
  BY NextOnce, NextAnswers DEF AnswerInv

--------------------------------------------------------------------------------
(* The theorems.                                                           *)

LEMMA InvariantOneJob == Spec => []OneJobInv
  BY InvariantTypeInv, InitOneJob, NextOneJob, PTL DEF Spec

LEMMA InvariantIntent == Spec => []IntentInv
  BY InvariantTypeInv, InvariantOneJob, InitIntent, NextIntent, PTL DEF Spec

\* An event keeps its intent label, however often its job is handed out again:
\* classifyEventIntent's fast path is enough because no other job has the event.
THEOREM IntentStable == Spec => IntentIsStable
  <1>1. ASSUME TypeInv, OneJobInv, IntentInv, [Next]_vars
        PROVE  [\A m \in Messages : events[m].intent # None
                  => events'[m].intent = events[m].intent]_vars
    BY <1>1, ClassifiedOnce
  <1> QED
    BY <1>1, InvariantTypeInv, InvariantOneJob, InvariantIntent, PTL DEF Spec, IntentIsStable

\* processedAt is only set once captureLead has stored the contact details the
\* message carries, in whatever order the two branches of processEvent run and
\* whichever attempt sets it.
THEOREM ProcessedCaptured == Spec => []ProcessedIsCaptured
  <1>1. CaptureInv => ProcessedIsCaptured
    BY DEF CaptureInv
  <1> QED
    BY <1>1, InvariantTypeInv, InvariantOneJob, InitCapture, NextCapture, PTL DEF Spec

\* All answers to a DM or a story reply come from one attempt of its job, one per
\* automation at most, however many workers there are and however they crash.
THEOREM DmAnsweredOnce == Spec => []DmEventAnsweredOnce
  <1>1. AnswerInv => DmEventAnsweredOnce
    BY DEF AnswerInv
  <1>2. Spec => []RowInv
    BY InvariantTypeInv, InvariantOneJob, InitRow, NextRow, PTL DEF Spec
  <1>3. Spec => []WorkerInv
    BY InvariantTypeInv, InitWorker, NextWorker, PTL DEF Spec
  <1> QED
    BY <1>1, <1>2, <1>3, InvariantTypeInv, InvariantOneJob, InitAnswer, NextAnswer, PTL
    DEF Spec
================================================================================

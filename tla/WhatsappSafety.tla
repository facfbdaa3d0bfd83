----------------------------- MODULE WhatsappSafety -----------------------------
(***************************************************************************)
(* What the WhatsApp path keeps safe, for every number of messages,        *)
(* customers, accounts, automations, templates, workers, jobs and sends:   *)
(* who answers, what is sent, how often, and what is billed.               *)
(***************************************************************************)
EXTENDS WhatsappProofs

--------------------------------------------------------------------------------
(* Who writes what, and where a handler comes from.                        *)

\* The steps that may complete a job.
Finishes(j) == Load(j) \/ GenLoad(j) \/ WsLoad(j) \/ Return(j)

\* What handler j changes in a step of its own.
ByHandler(j) ==
  /\ sends' = sends \/ InsertSend(j) \/ GenContent(j) \/ Write(j)
  /\ delivered' = delivered \/ PostAccepted(j) \/ PostAnswerLost(j)
  /\ costs' = costs \/ CostInsert(j) \/ CostUpdate(j)
  /\ leads' = leads \/ LeadRefresh(j) \/ LeadInsert(j) \/ OptOut(j) \/ CostCharge(j)
  /\ log' = log \/ LogOptIn(j) \/ LogOptOut(j) \/ LeadReread(j)
  /\ events' = events \/ MarkProcessed(j)
  /\ templates' = templates \/ TemplateApply(j)
  /\ \/ jobs' = jobs \/ AddSend(j) \/ GenAdd(j)
     \/ Settled(j, "failed") /\ act[j].pc # "idle"
     \/ Settled(j, "completed") /\ Finishes(j)
  /\ \A k \in JobIds : k # j => act'[k] = act[k]

\* A step of the queue, which leaves the tables alone.
ByQueue ==
  /\ UNCHANGED tables
  /\ \/ \E w \in Workers, j \in JobIds : Start(w, j) \/ Refuse(w, j)
     \/ \E j \in JobIds : Stalled(j)
     \/ \E w \in Workers : Crash(w)

\* A step of somebody else: Meta, the web server, the owner, or time.
ByOthers ==
  /\ UNCHANGED <<act, sends, delivered, costs, log>>
  /\ jobs' = jobs \/ \E m \in Messages : EnqueueEvent(m)
  /\ events' = events \/ \E m \in Messages : InsertEvent(m) \/ EnqueueEvent(m)
                                             \/ EnqueueEventFails(m)
  /\ templates' = templates \/ \E t \in Templates : TemplateRequest(t)
  /\ leads' = leads \/ \E p \in Phones : WindowCloses(p) \/ ConversationEnds(p)

LEMMA BecomesIs ==
  ASSUME TypeInv, NEW j \in JobIds, NEW h, Becomes(j, h)
  PROVE  act'[j] = h /\ \A k \in JobIds : k # j => act'[k] = act[k]
  BY DEF Becomes, TypeInv, TypeOK

LEMMA GotoIs ==
  ASSUME TypeInv, NEW j \in JobIds, NEW p, Goto(j, p)
  PROVE  /\ act'[j].pc = p /\ act'[j].send = act[j].send /\ act'[j].todo = act[j].todo
         /\ act'[j].automation = act[j].automation /\ act'[j].count = act[j].count
         /\ act'[j].open = act[j].open /\ act'[j].out = act[j].out
         /\ \A k \in JobIds : k # j => act'[k] = act[k]
  <1>1. act[j] \in Act
    BY HandlerType
  <1>2. act'[j] = [act[j] EXCEPT !.pc = p] /\ \A k \in JobIds : k # j => act'[k] = act[k]
    BY BecomesIs DEF Goto
  <1> QED
    BY <1>1, <1>2 DEF Act

LEMMA EndsIs ==
  ASSUME TypeInv, NEW j \in JobIds, NEW o \in Outcomes, Ends(j, o)
  PROVE  /\ act'[j].pc = "write" /\ act'[j].out = o /\ act'[j].send = act[j].send
         /\ \A k \in JobIds : k # j => act'[k] = act[k]
  <1>1. act[j] \in Act
    BY HandlerType
  <1> DEFINE h == [act[j] EXCEPT !.pc = "write", !.out = o]
  <1>2. h.pc = "write" /\ h.out = o /\ h.send = act[j].send
    BY <1>1, EndsFields
  <1>3. Becomes(j, h)
    BY DEF Ends
  <1> HIDE DEF h
  <1>4. act'[j] = h /\ \A k \in JobIds : k # j => act'[k] = act[k]
    BY <1>3, BecomesIs
  <1> QED
    BY <1>2, <1>4

LEMMA SettledIs ==
  ASSUME TypeInv, NEW j \in JobIds, NEW o \in {"completed", "failed"}, Settled(j, o),
         sends' = sends
  PROVE  /\ act'[j] = Idle /\ act'[j].pc = "idle"
         /\ jobs'[j].state = o /\ jobs'[j].data = jobs[j].data
         /\ jobs'[j].stalls = jobs[j].stalls
         /\ \A k \in JobIds : k # j => act'[k] = act[k] /\ jobs'[k] = jobs[k]
  <1>1. Settle(j, o) /\ Becomes(j, Idle)
    BY DEF Settled
  <1>2. /\ jobs'[j].state = o /\ jobs'[j].data = jobs[j].data
        /\ jobs'[j].stalls = jobs[j].stalls
    BY <1>1, SettleFits
  <1>3. \A k \in JobIds : k # j => jobs'[k] = jobs[k]
    BY <1>1 DEF Settle, TypeInv, TypeOK
  <1>4. act'[j] = Idle /\ \A k \in JobIds : k # j => act'[k] = act[k]
    BY <1>1, BecomesIs
  <1> QED
    BY <1>2, <1>3, <1>4, IdleFacts

LEMMA SettledAlone ==
  ASSUME TypeInv, NEW j \in JobIds, NEW o, Settled(j, o)
  PROVE  \A k \in JobIds : k # j => act'[k] = act[k]
  <1>1. Becomes(j, Idle)
    BY DEF Settled
  <1> QED
    BY <1>1, BecomesIs

LEMMA EventHandlerWrites ==
  ASSUME TypeInv, NEW j \in JobIds, processEvent(j) PROVE ByHandler(j)
  <1> USE DEF ByHandler, Finishes, tables, dashboard, templateVars
  <1>1. CASE Load(j) \/ LeadLoad(j) \/ LeadRefresh(j) \/ LeadInsert(j) \/ LogOptIn(j)
    BY <1>1, BecomesIs
    DEF Load, LeadLoad, LeadRefresh, LeadInsert, LogOptIn, Goto, Settled
  <1>2. CASE LeadInsertCaught(j) \/ LeadReread(j) \/ OptOut(j) \/ LogOptOut(j) \/ Dedupe(j)
    BY <1>2, BecomesIs
    DEF LeadInsertCaught, LeadReread, OptOut, LogOptOut, Dedupe, Goto
  <1>3. CASE QueryAutomations(j) \/ \E a \in Automations : Match(j, a)
    BY <1>3, BecomesIs DEF QueryAutomations, Match
  <1>4. CASE MatchingDone(j) \/ InsertSend(j) \/ InsertFails(j) \/ AddSend(j)
    BY <1>4, BecomesIs DEF MatchingDone, InsertSend, InsertFails, AddSend, Settled
  <1>5. CASE TemplateLoad(j) \/ TemplateApply(j) \/ MarkProcessed(j)
    BY <1>5, BecomesIs DEF TemplateLoad, TemplateApply, MarkProcessed, Goto
  <1> QED
    BY <1>1, <1>2, <1>3, <1>4, <1>5 DEF processEvent

LEMMA RowHandlerWrites ==
  ASSUME TypeInv, NEW j \in JobIds,
         generateAiReply(j) \/ sendWhatsapp(j) \/ Return(j) \/ Throw(j)
  PROVE  ByHandler(j)
  <1>0. PostServerError(j) \/ Return(j) \/ Throw(j) => UNCHANGED tables
    BY DEF PostServerError, Return, Throw
  <1> USE DEF ByHandler, Finishes, tables, dashboard, templateVars
  <1>1. CASE generateAiReply(j)
    BY <1>1, BecomesIs
    DEF generateAiReply, GenLoad, GenAsk, GenContent, GenCaught, GenAdd, Goto, Ends, Settled
  <1>2. CASE WsLoad(j) \/ WsLead(j) \/ WsCap(j) \/ WsMode(j) \/ WsRate(j)
    BY <1>2, BecomesIs DEF WsLoad, WsLead, WsCap, WsMode, WsRate, Goto, Ends, Settled
  <1>3. CASE PostAccepted(j) \/ PostRefused(j)
    BY <1>3, BecomesIs DEF PostAccepted, PostRefused, Goto, Ends
  <1>4. CASE PostAnswerLost(j)
    <2>1. UNCHANGED <<templates, events, leads, log, sends, costs>>
      BY <1>4 DEF PostAnswerLost
    <2>2. jobs' = jobs \/ (Settled(j, "failed") /\ act[j].pc # "idle")
      BY <1>4 DEF PostAnswerLost
    <2>3. \A k \in JobIds : k # j => act'[k] = act[k]
      <3>1. PICK h : Becomes(j, h)
        BY <1>4 DEF PostAnswerLost, Ends, Settled
      <3> QED
        BY <3>1, BecomesIs
    <2> QED
      BY <1>4, <2>1, <2>2, <2>3
  <1>5. CASE PostServerError(j)
    <2>1. Settled(j, "failed") /\ act[j].pc # "idle"
      BY <1>5 DEF PostServerError
    <2>2. \A k \in JobIds : k # j => act'[k] = act[k]
      BY <2>1, SettledAlone, ZenonT(60)
    <2> QED
      BY <1>5, <1>0, <2>1, <2>2
  <1>6. CASE CostLead(j) \/ CostCharge(j) \/ CostLoad(j) \/ CostInsert(j)
    BY <1>6, BecomesIs, ZenonT(60) DEF CostLead, CostCharge, CostLoad, CostInsert, Goto, Ends
  <1>7. CASE CostReread(j) \/ CostUpdate(j) \/ CostFails(j) \/ Write(j)
    BY <1>7, BecomesIs DEF CostReread, CostUpdate, CostFails, Write, Goto, Ends
  <1>8. CASE Return(j) \/ Throw(j)
    <2>1. /\ Settled(j, "failed") \/ (Settled(j, "completed") /\ Return(j))
          /\ act[j].pc # "idle"
      BY <1>8 DEF Return, Throw, Uncaught
    <2>2. \A k \in JobIds : k # j => act'[k] = act[k]
      BY <2>1, SettledAlone
    <2> QED
      BY <1>8, <1>0, <2>1, <2>2
  <1> QED
    BY <1>1, <1>2, <1>3, <1>4, <1>5, <1>6, <1>7, <1>8 DEF sendWhatsapp

LEMMA OwnerWrites == ASSUME TypeInv, Owner PROVE ByOthers
  <1> USE DEF ByOthers, dashboard, templateVars
  <1>1. ASSUME NEW a \in Automations,
               CreateAutomation(a) \/ SetStatus(a) \/ DeleteAutomation(a)
        PROVE  ByOthers
    BY <1>1 DEF CreateAutomation, SetStatus, DeleteAutomation
  <1>2. ASSUME NEW acc \in Accounts, Disconnect(acc) \/ Connect(acc) PROVE ByOthers
    BY <1>2 DEF Disconnect, Connect
  <1>3. ASSUME NEW t \in Templates, TemplateRequest(t) PROVE ByOthers
    <2>1. UNCHANGED <<jobs, automations, connected, transit, events, leads, log, sends, costs,
                      delivered, act>>
      BY <1>3 DEF TemplateRequest
    <2> QED
      BY <1>3, <2>1
  <1> QED
    BY <1>1, <1>2, <1>3 DEF Owner

LEMMA OtherWrites ==
  ASSUME TypeInv,
         \/ \E m \in Messages : \/ InsertEvent(m) \/ DropEvent(m) \/ EnqueueEvent(m)
                                \/ EnqueueEventFails(m) \/ TemplateVerdict(m)
         \/ \E p \in Phones : WindowCloses(p) \/ ConversationEnds(p)
         \/ UNCHANGED vars
  PROVE  ByOthers
  <1> USE DEF ByOthers, dashboard, templateVars
  <1>1. ASSUME NEW m \in Messages,
               \/ InsertEvent(m) \/ DropEvent(m) \/ EnqueueEvent(m)
               \/ EnqueueEventFails(m) \/ TemplateVerdict(m)
        PROVE  ByOthers
    BY <1>1 DEF InsertEvent, DropEvent, EnqueueEvent, EnqueueEventFails, TemplateVerdict,
                MetaDecides
  <1>2. ASSUME NEW p \in Phones, WindowCloses(p) \/ ConversationEnds(p) PROVE ByOthers
    BY <1>2 DEF WindowCloses, ConversationEnds
  <1>3. CASE UNCHANGED vars
    BY <1>3 DEF vars
  <1> QED
    BY <1>1, <1>2, <1>3

\* Every step is one of the three kinds.
LEMMA StepKinds ==
  ASSUME TypeInv, [Next]_vars
  PROVE  \/ ByQueue
         \/ ByOthers
         \/ \E j \in JobIds : ByHandler(j) /\ (Handle(j) \/ Throw(j))
  <1>1. CASE \E w \in Workers, j \in JobIds : Start(w, j) \/ Refuse(w, j)
    BY <1>1 DEF ByQueue, Start, Refuse
  <1>2. CASE \E w \in Workers : Crash(w)
    BY <1>2 DEF ByQueue, Crash
  <1>3. ASSUME NEW j \in JobIds, Stalled(j) PROVE ByQueue
    BY <1>3 DEF ByQueue, Stalled
  <1>4. ASSUME NEW j \in JobIds, Handle(j) \/ Throw(j) PROVE ByHandler(j)
    BY <1>4, EventHandlerWrites, RowHandlerWrites DEF Handle
  <1> QED
    BY <1>1, <1>2, <1>3, <1>4, OtherWrites, OwnerWrites DEF Next

\* Where the steps of an event's handler lead.
LEMMA EventPlaces ==
  ASSUME TypeInv, NEW j \in JobIds
  PROVE  /\ Load(j) => act'[j].pc \in {"idle", "leadLoad", "tplLoad", "mark"}
         /\ LeadLoad(j) => act'[j].pc \in {"leadRefresh", "leadInsert"}
         /\ LeadRefresh(j) => act'[j].pc \in {"optOut", "mark", "dedupe"}
         /\ LeadInsert(j) => act'[j].pc = "logOptIn"
         /\ LogOptIn(j) => act'[j].pc \in {"optOut", "mark", "dedupe"}
         /\ LeadInsertCaught(j) => act'[j].pc = "leadReread"
         /\ LeadReread(j) => act'[j].pc \in {"optOut", "mark", "dedupe"}
         /\ OptOut(j) => act'[j].pc = "logOptOut"
         /\ LogOptOut(j) => act'[j].pc = "mark"
         /\ Dedupe(j) => act'[j].pc \in {"mark", "query"}
         /\ QueryAutomations(j) => act'[j].pc = "next"
         /\ \A a \in Automations : Match(j, a) => act'[j].pc \in {"next", "insert"}
         /\ MatchingDone(j) => act'[j].pc = "mark"
         /\ InsertSend(j) => act'[j].pc = "add"
         /\ InsertFails(j) => act'[j].pc = "idle"
         /\ AddSend(j) => act'[j].pc = "next"
         /\ TemplateLoad(j) => act'[j].pc \in {"tplApply", "mark"}
         /\ TemplateApply(j) => act'[j].pc = "mark"
         /\ MarkProcessed(j) => act'[j].pc = "return"
  <1>1. act[j] \in Act /\ AfterLead(j) \in {"optOut", "mark", "dedupe"}
    BY HandlerType, AfterLeadIs
  <1>12. act \in [JobIds -> Act]
    BY DEF TypeInv, TypeOK
  <1>2. Load(j) => act'[j].pc \in {"idle", "leadLoad", "tplLoad", "mark"}
    <2>1. CASE Load(j) /\ Settled(j, "completed")
      BY <2>1, SettledIs DEF Load, tables
    <2>2. CASE Load(j) /\ \E p \in {"leadLoad", "tplLoad", "mark"} : Goto(j, p)
      BY <2>2, GotoIs
    <2>3. CASE Load(j) /\ ~events[EventOf(j)].processed
      <3>1. EventOf(j) \in Messages
        BY <2>3, Subject DEF Load, EventSteps
      <3>2. Message[EventOf(j)].kind \in Kinds
        BY <3>1, WhatsappAssumption
      <3> QED
        BY <2>2, <2>3, <3>2 DEF Load, Kinds
    <2> QED
      BY <2>1, <2>2, <2>3 DEF Load
  <1>3. /\ LeadLoad(j) => act'[j].pc \in {"leadRefresh", "leadInsert"}
        /\ LeadRefresh(j) => act'[j].pc \in {"optOut", "mark", "dedupe"}
        /\ LeadInsert(j) => act'[j].pc = "logOptIn"
        /\ LogOptIn(j) => act'[j].pc \in {"optOut", "mark", "dedupe"}
    BY <1>1, GotoIs DEF LeadLoad, LeadRefresh, LeadInsert, LogOptIn
  <1>4. /\ LeadInsertCaught(j) => act'[j].pc = "leadReread"
        /\ LeadReread(j) => act'[j].pc \in {"optOut", "mark", "dedupe"}
        /\ OptOut(j) => act'[j].pc = "logOptOut"
        /\ LogOptOut(j) => act'[j].pc = "mark"
        /\ Dedupe(j) => act'[j].pc \in {"mark", "query"}
    BY <1>1, GotoIs DEF LeadInsertCaught, LeadReread, OptOut, LogOptOut, Dedupe
  <1>5. QueryAutomations(j) => act'[j].pc = "next"
    BY <1>12 DEF QueryAutomations, Becomes, Act
  <1>6. \A a \in Automations : Match(j, a) => act'[j].pc \in {"next", "insert"}
    BY <1>12 DEF Match, Becomes, Act
  <1>7. MatchingDone(j) => act'[j].pc = "mark"
    BY BecomesIs, IdleFacts DEF MatchingDone, Act
  <1>8. InsertSend(j) => act'[j].pc = "add"
    BY <1>12 DEF InsertSend, Becomes, Act
  <1>9. InsertFails(j) => act'[j].pc = "idle"
    BY SettledIs DEF InsertFails, tables
  <1>10. AddSend(j) => act'[j].pc = "next"
    BY <1>12 DEF AddSend, Becomes, Act
  <1>11. /\ TemplateLoad(j) => act'[j].pc \in {"tplApply", "mark"}
         /\ TemplateApply(j) => act'[j].pc = "mark"
         /\ MarkProcessed(j) => act'[j].pc = "return"
    BY GotoIs DEF TemplateLoad, TemplateApply, MarkProcessed
  <1> QED
    BY <1>2, <1>3, <1>4, <1>5, <1>6, <1>7, <1>8, <1>9, <1>10, <1>11

\* Where the steps of a row's handler lead; all keep the row.
LEMMA RowPlaces ==
  ASSUME TypeInv, NEW j \in JobIds
  PROVE  /\ GenLoad(j) => act'[j].pc \in {"idle", "genAsk"}
         /\ GenAsk(j) => act'[j].pc \in {"genContent", "write"}
         /\ GenContent(j) => act'[j].pc = "genAdd"
         /\ GenCaught(j) => act'[j].pc = "genContent"
         /\ GenAdd(j) => act'[j].pc = "return"
         /\ WsLoad(j) => act'[j].pc \in {"idle", "wsLead", "write"}
         /\ WsLead(j) => act'[j].pc \in {"wsCap", "write"}
         /\ WsCap(j) => act'[j].pc \in {"wsMode", "write"}
         /\ WsMode(j) => act'[j].pc \in {"wsRate", "write"}
         /\ WsRate(j) => act'[j].pc \in {"wsPost", "write"}
         /\ PostAccepted(j) => act'[j].pc \in {"costLead", "write"}
         /\ PostAnswerLost(j) => act'[j].pc \in {"idle", "write"}
         /\ PostRefused(j) => act'[j].pc = "write"
         /\ PostServerError(j) => act'[j].pc = "idle"
         /\ CostLead(j) => act'[j].pc \in {"costCharge", "costLoad", "write"}
         /\ CostCharge(j) => act'[j].pc = "costLoad"
         /\ CostLoad(j) => act'[j].pc \in {"costInsert", "costUpdate"}
         /\ CostInsert(j) => act'[j].pc \in {"costReread", "write"}
         /\ CostReread(j) => act'[j].pc \in {"costUpdate", "write"}
         /\ CostUpdate(j) => act'[j].pc = "write"
         /\ CostFails(j) => act'[j].pc = "write"
         /\ Write(j) => act'[j].pc = "return"
         /\ Return(j) => act'[j].pc = "idle"
  <1>1. act[j] \in Act
    BY HandlerType
  <1>12. act \in [JobIds -> Act]
    BY DEF TypeInv, TypeOK
  <1>2. ASSUME NEW o \in {"completed", "failed"}, Settled(j, o), sends' = sends
        PROVE  act'[j].pc = "idle"
    BY <1>2, SettledIs
  <1>3. ASSUME NEW o \in Outcomes, Ends(j, o) PROVE act'[j].pc = "write"
    BY <1>3, EndsIs
  <1>4. {"failed", "optedOut", "dailyCapExceeded", "outsideWindow", "rateLimited", "sent"}
          = Outcomes
    BY DEF Outcomes
  <1>5. /\ GenLoad(j) => act'[j].pc \in {"idle", "genAsk"}
        /\ GenContent(j) => act'[j].pc = "genAdd"
        /\ GenCaught(j) => act'[j].pc = "genContent"
        /\ GenAdd(j) => act'[j].pc = "return"
    BY <1>2, GotoIs DEF GenLoad, GenContent, GenCaught, GenAdd, tables
  <1>13. GenAsk(j) => act'[j].pc \in {"genContent", "write"}
    <2>1. Becomes(j, [act[j] EXCEPT !.pc = "genContent", !.text = "ai"])
            => act'[j].pc = "genContent"
      BY <1>12 DEF Becomes, Act
    <2> QED
      BY <1>3, <1>4, <2>1 DEF GenAsk
  <1>6. /\ WsLoad(j) => act'[j].pc \in {"idle", "wsLead", "write"}
        /\ WsCap(j) => act'[j].pc \in {"wsMode", "write"}
    BY <1>2, <1>3, <1>4, GotoIs DEF WsLoad, WsCap, tables
  <1>14. WsLead(j) => act'[j].pc \in {"wsCap", "write"}
    <2>1. ASSUME NEW b, Becomes(j, [act[j] EXCEPT !.pc = "wsCap", !.open = b])
          PROVE  act'[j].pc = "wsCap"
      BY <1>12, <2>1 DEF Becomes, Act
    <2> QED
      BY <1>3, <1>4, <2>1, GotoIs DEF WsLead
  <1>7. /\ WsMode(j) => act'[j].pc \in {"wsRate", "write"}
        /\ WsRate(j) => act'[j].pc \in {"wsPost", "write"}
    BY <1>3, <1>4, GotoIs DEF WsMode, WsRate
  <1>8. /\ PostAccepted(j) => act'[j].pc \in {"costLead", "write"}
        /\ PostAnswerLost(j) => act'[j].pc \in {"idle", "write"}
        /\ PostRefused(j) => act'[j].pc = "write"
        /\ PostServerError(j) => act'[j].pc = "idle"
    BY <1>2, <1>3, <1>4, GotoIs
    DEF PostAccepted, PostAnswerLost, PostRefused, PostServerError, tables
  <1>9. /\ CostLead(j) => act'[j].pc \in {"costCharge", "costLoad", "write"}
        /\ CostCharge(j) => act'[j].pc = "costLoad"
    BY <1>3, <1>4, GotoIs DEF CostLead, CostCharge
  <1>15. CostLoad(j) => act'[j].pc \in {"costInsert", "costUpdate"}
    BY <1>12 DEF CostLoad, Becomes, Act
  <1>10. /\ CostInsert(j) => act'[j].pc \in {"costReread", "write"}
         /\ CostUpdate(j) => act'[j].pc = "write"
         /\ CostFails(j) => act'[j].pc = "write"
    BY <1>3, <1>4, GotoIs DEF CostInsert, CostUpdate, CostFails
  <1>16. CostReread(j) => act'[j].pc \in {"costUpdate", "write"}
    <2>1. ASSUME NEW n, Becomes(j, [act[j] EXCEPT !.pc = "costUpdate", !.count = n])
          PROVE  act'[j].pc = "costUpdate"
      BY <1>12, <2>1 DEF Becomes, Act
    <2> QED
      BY <1>3, <1>4, <2>1 DEF CostReread
  <1>11. /\ Write(j) => act'[j].pc = "return"
         /\ Return(j) => act'[j].pc = "idle"
    BY <1>2, GotoIs DEF Write, Return, tables
  <1> QED
    BY <1>5, <1>6, <1>7, <1>8, <1>9, <1>10, <1>11, <1>13, <1>14, <1>15, <1>16

\* What happens to handler k.
LEMMA HandlerCases ==
  ASSUME TypeInv, [Next]_vars, NEW k \in JobIds
  PROVE  \/ act'[k] = act[k]
         \/ act'[k].pc = "idle"
         \/ \E w \in Workers : Start(w, k)
         \/ Handle(k)
  <1>1. CASE ByQueue
    <2>1. ASSUME NEW w \in Workers, NEW j \in JobIds, Start(w, j), j # k
          PROVE  act'[k] = act[k]
      BY <2>1 DEF Start, Becomes, TypeInv, TypeOK
    <2>2. ASSUME NEW w \in Workers, Crash(w)
          PROVE  act'[k] = act[k] \/ act'[k].pc = "idle"
      BY <2>2, IdleFacts DEF Crash
    <2> QED
      BY <1>1, <2>1, <2>2 DEF ByQueue, Refuse, Stalled
  <1>2. CASE ByOthers
    BY <1>2 DEF ByOthers
  <1>3. ASSUME NEW j \in JobIds, ByHandler(j), Handle(j) \/ Throw(j), j # k
        PROVE  act'[k] = act[k]
    BY <1>3 DEF ByHandler
  <1>4. CASE Throw(k)
    <2>1. sends' = sends /\ Settled(k, "failed")
      BY <1>4 DEF Throw, tables
    <2> QED
      BY <2>1, SettledIs
  <1> QED
    BY <1>1, <1>2, <1>3, <1>4, StepKinds

\* A job as it is added.
Added(d) == [state |-> "waiting", data |-> d, worker |-> None, stalls |-> 0]

AnswerJob(j) ==
  IF Config[act[j].automation].ai
    THEN GenerateAiReplyJob(EventOf(j), act[j].send)
    ELSE SendWhatsappJob(act[j].send, AccountOf(act[j].send), act[j].text)

NewJob(k) ==
  /\ jobs[k].state = "none"
  /\ \/ \E m \in Messages : EnqueueEvent(m) /\ jobs'[k] = Added(ProcessEventJob(m))
     \/ \E j \in JobIds : AddSend(j) /\ jobs'[k] = Added(AnswerJob(j))
     \/ \E j \in JobIds : /\ GenAdd(j)
                          /\ jobs'[k] = Added(SendDMJob(act[j].send, None, act[j].text))

\* The ways of a job that is in the queue.
OldJob(k) ==
  /\ jobs[k].state # "none" /\ jobs'[k].data = jobs[k].data
  /\ \/ /\ \E w \in Workers : Start(w, k)
        /\ jobs[k].state = "waiting" /\ jobs'[k].state = "active"
        /\ jobs'[k].stalls = jobs[k].stalls
     \/ /\ jobs[k].state = "waiting" /\ jobs'[k].state = "failed"
        /\ jobs'[k].stalls = jobs[k].stalls
     \/ /\ jobs[k].state = "active" /\ jobs[k].worker = None /\ jobs'[k].state = "waiting"
        /\ jobs'[k].stalls = jobs[k].stalls + 1
     \/ /\ jobs[k].state = "active" /\ jobs[k].worker = None /\ jobs'[k].state = "failed"
        /\ jobs'[k].stalls = jobs[k].stalls
     \/ /\ jobs[k].state = "active" /\ jobs'[k].state = "active" /\ jobs'[k].worker = None
        /\ jobs'[k].stalls = jobs[k].stalls /\ act'[k].pc = "idle"
     \/ /\ act[k].pc # "idle" /\ act'[k].pc = "idle"
        /\ jobs[k].state = "active" /\ jobs'[k].stalls = jobs[k].stalls
        /\ \/ jobs'[k].state = "failed"
           \/ jobs'[k].state = "completed" /\ Finishes(k)

LEMMA StartIs ==
  ASSUME TypeInv, NEW w \in Workers, NEW j \in JobIds, Start(w, j)
  PROVE  /\ jobs[j].state = "waiting" /\ Parses(jobs[j].data)
         /\ jobs'[j].state = "active" /\ jobs'[j].worker = w
         /\ jobs'[j].data = jobs[j].data /\ jobs'[j].stalls = jobs[j].stalls
         /\ act'[j].send = jobs[j].data.send
         /\ \/ jobs[j].data.type = "process-event" /\ act'[j].pc = "load"
            \/ jobs[j].data.type = "generate-ai-reply" /\ act'[j].pc = "genLoad"
            \/ jobs[j].data.type = "send-whatsapp" /\ act'[j].pc = "wsLoad"
         /\ \A k \in JobIds : k # j => act'[k] = act[k] /\ jobs'[k] = jobs[k]
         /\ \A k \in JobIds : jobs[k].state = "active" => jobs[k].worker # w
  <1>1. /\ jobs'[j].state = "active" /\ jobs'[j].worker = w
        /\ jobs'[j].data = jobs[j].data /\ jobs'[j].stalls = jobs[j].stalls
    BY ZenonT(60) DEF Start, Take, TypeInv, TypeOK, Job
  <1>2. /\ jobs[j].state = "waiting" /\ Parses(jobs[j].data)
        /\ \A k \in JobIds : k # j => jobs'[k] = jobs[k]
        /\ \A k \in JobIds : jobs[k].state = "active" => jobs[k].worker # w
    BY DEF Start, Take, TypeInv, TypeOK
  <1> DEFINE p == FirstStep(jobs[j].data.type)
             h == [Idle EXCEPT !.pc = p, !.send = jobs[j].data.send]
  <1>3. h.pc = p /\ h.send = jobs[j].data.send
    BY DEF Idle
  <1>4. Becomes(j, h)
    BY DEF Start
  <1>5. \/ jobs[j].data.type = "process-event" /\ p = "load"
        \/ jobs[j].data.type = "generate-ai-reply" /\ p = "genLoad"
        \/ jobs[j].data.type = "send-whatsapp" /\ p = "wsLoad"
    <2>1. jobs[j].data.type \in {"process-event", "generate-ai-reply", "send-whatsapp"}
      BY <1>2, HandlerType DEF JobOK, Parses
    <2> QED
      BY <2>1 DEF FirstStep
  <1> HIDE DEF p, h
  <1>6. act'[j] = h /\ \A k \in JobIds : k # j => act'[k] = act[k]
    BY <1>4, BecomesIs
  <1> QED
    BY <1>1, <1>2, <1>3, <1>5, <1>6

\* What happens to job k.
LEMMA AddCases ==
  ASSUME TypeInv, NEW k \in JobIds, NEW i \in JobIds, NEW d, Add(i, d)
  PROVE  \/ jobs'[k] = jobs[k]
         \/ jobs[k].state = "none" /\ jobs'[k] = Added(d)
  BY DEF Add, IsNextJob, Added, TypeInv, TypeOK

LEMMA JobCases ==
  ASSUME TypeInv, [Next]_vars, NEW k \in JobIds
  PROVE  jobs'[k] = jobs[k] \/ OldJob(k) \/ NewJob(k)
  <1>1. CASE ByQueue
    <2>1. ASSUME NEW w \in Workers, NEW j \in JobIds, Start(w, j)
          PROVE  jobs'[k] = jobs[k] \/ OldJob(k)
      <3>1. CASE j = k
        BY <2>1, <3>1, StartIs DEF OldJob
      <3>2. CASE j # k
        BY <2>1, <3>2, StartIs
      <3> QED
        BY <3>1, <3>2
    <2>2. ASSUME NEW w \in Workers, NEW j \in JobIds, Refuse(w, j)
          PROVE  jobs'[k] = jobs[k] \/ OldJob(k)
      BY <2>2 DEF Refuse, OldJob, TypeInv, TypeOK, Job
    <2>3. ASSUME NEW j \in JobIds, Stalled(j)
          PROVE  jobs'[k] = jobs[k] \/ OldJob(k)
      <3>1. CASE jobs[j].stalls < MaxStalledCount
        <4>1. jobs' = [jobs EXCEPT ![j].state = "waiting", ![j].stalls = @ + 1]
          BY <2>3, <3>1 DEF Stalled, CheckStalled
        <4>2. /\ jobs'[j].state = "waiting" /\ jobs'[j].stalls = jobs[j].stalls + 1
              /\ jobs'[j].data = jobs[j].data
          BY <4>1, ZenonT(60) DEF TypeInv, TypeOK, Job
        <4>3. j # k => jobs'[k] = jobs[k]
          BY <4>1 DEF TypeInv, TypeOK
        <4> QED
          BY <2>3, <4>2, <4>3 DEF Stalled, CheckStalled, OldJob
      <3>2. CASE ~(jobs[j].stalls < MaxStalledCount)
        BY <2>3, <3>2 DEF Stalled, CheckStalled, OldJob, TypeInv, TypeOK, Job
      <3> QED
        BY <3>1, <3>2
    <2>4. ASSUME NEW w \in Workers, Crash(w)
          PROVE  jobs'[k] = jobs[k] \/ OldJob(k)
      <3>1. CASE jobs[k].state = "active" /\ jobs[k].worker = w
        BY <2>4, <3>1, IdleFacts DEF Crash, Lose, OldJob, TypeInv, TypeOK, Job
      <3>2. CASE ~(jobs[k].state = "active" /\ jobs[k].worker = w)
        BY <2>4, <3>2 DEF Crash, Lose
      <3> QED
        BY <3>1, <3>2
    <2> QED
      BY <1>1, <2>1, <2>2, <2>3, <2>4 DEF ByQueue
  <1>2. CASE ByOthers
    <2>1. ASSUME NEW m \in Messages, EnqueueEvent(m) PROVE jobs'[k] = jobs[k] \/ NewJob(k)
      <3>1. PICK i \in JobIds : Add(i, ProcessEventJob(m))
        BY <2>1 DEF EnqueueEvent
      <3> QED
        BY <2>1, <3>1, AddCases DEF NewJob
    <2> QED
      BY <1>2, <2>1 DEF ByOthers
  <1>3. ASSUME NEW j \in JobIds, ByHandler(j), Handle(j) \/ Throw(j)
        PROVE  jobs'[k] = jobs[k] \/ OldJob(k) \/ NewJob(k)
    <2>1. CASE AddSend(j)
      <3>1. PICK i \in JobIds : Add(i, AnswerJob(j))
        BY <2>1 DEF AddSend, AnswerJob
      <3> QED
        BY <2>1, <3>1, AddCases DEF NewJob
    <2>2. CASE GenAdd(j)
      <3>1. PICK i \in JobIds : Add(i, SendDMJob(act[j].send, None, act[j].text))
        BY <2>2 DEF GenAdd
      <3> QED
        BY <2>2, <3>1, AddCases DEF NewJob
    <2>3. ASSUME NEW o \in {"completed", "failed"}, Settled(j, o), act[j].pc # "idle",
                 o = "completed" => Finishes(j)
          PROVE  jobs'[k] = jobs[k] \/ OldJob(k)
      <3>1. /\ jobs[j].state = "active" /\ jobs'[j].state = o
            /\ jobs'[j].data = jobs[j].data /\ jobs'[j].stalls = jobs[j].stalls
        BY <2>3, ZenonT(60) DEF Settled, Settle, TypeInv, TypeOK, Job
      <3>2. j # k => jobs'[k] = jobs[k]
        BY <2>3 DEF Settled, Settle, TypeInv, TypeOK
      <3>3. act'[j].pc = "idle"
        BY <2>3, BecomesIs, IdleFacts DEF Settled
      <3> QED
        BY <2>3, <3>1, <3>2, <3>3 DEF OldJob
    <2>4. Finishes(j) => act[j].pc # "idle"
      BY DEF Finishes, Load, GenLoad, WsLoad, Return
    <2> QED
      BY <1>3, <2>1, <2>2, <2>3, <2>4 DEF ByHandler
  <1> QED
    BY <1>1, <1>2, <1>3, StepKinds

\* Where a row comes from, and who changes it.
LEMMA InsertIs ==
  ASSUME TypeInv, NEW j \in JobIds, InsertSend(j)
  PROVE  \E s \in SendIds :
           /\ sends[s].status = "none" /\ sends'[s].status = "queued"
           /\ sends'[s].event = EventOf(j) /\ sends'[s].automation = act[j].automation
           /\ sends'[s].template = act[j].template
           /\ \A r \in SendIds : r # s => sends'[r] = sends[r]
           /\ act[j].pc = "insert" /\ act'[j].pc = "add" /\ act'[j].send = s
           /\ act'[j].todo = act[j].todo /\ act'[j].automation = act[j].automation
           /\ \A k \in JobIds : k # j => act'[k] = act[k]
  <1>1. PICK s \in SendIds :
          /\ IsNextSend(s)
          /\ sends' = [sends EXCEPT ![s] =
                [status |-> "queued", event |-> EventOf(j), automation |-> act[j].automation,
                 template |-> act[j].template, text |-> act[j].text]]
          /\ Becomes(j, [act[j] EXCEPT !.pc = "add", !.send = s])
    BY DEF InsertSend
  <1>2. act[j].pc = "insert" /\ act[j] \in Act
    BY HandlerType DEF InsertSend
  <1>3. /\ sends'[s].status = "queued" /\ sends'[s].event = EventOf(j)
        /\ sends'[s].automation = act[j].automation /\ sends'[s].template = act[j].template
        /\ \A r \in SendIds : r # s => sends'[r] = sends[r]
    BY <1>1 DEF TypeInv, TypeOK
  <1> DEFINE h == [act[j] EXCEPT !.pc = "add", !.send = s]
  <1>4. /\ h.pc = "add" /\ h.send = s /\ h.todo = act[j].todo
        /\ h.automation = act[j].automation
    BY <1>2 DEF Act
  <1>5. Becomes(j, h)
    BY <1>1
  <1> HIDE DEF h
  <1>6. act'[j] = h /\ \A k \in JobIds : k # j => act'[k] = act[k]
    BY <1>5, BecomesIs
  <1> QED
    BY <1>1, <1>2, <1>3, <1>4, <1>6 DEF IsNextSend

LEMMA RowWrites ==
  ASSUME TypeInv, NEW j \in JobIds, GenContent(j) \/ Write(j), NEW r \in SendIds
  PROVE  /\ sends'[r].event = sends[r].event
         /\ sends'[r].automation = sends[r].automation
         /\ sends'[r].template = sends[r].template
         /\ sends[r].status # "none" => sends'[r].status # "none"
         /\ r # act[j].send \/ GenContent(j) => sends'[r].status = sends[r].status
         /\ Write(j) /\ r = act[j].send => sends'[r].status = act[j].out
         /\ sends[act[j].send].status # "none" /\ act[j].send \in SendIds
  <1>1. act[j].send \in SendIds /\ sends[act[j].send].status # "none"
    BY Subject DEF GenContent, Write, SendOf, RowSteps, GenSteps
  <1>2. sends[r] \in Send /\ sends[act[j].send] \in Send
    BY <1>1 DEF TypeInv, TypeOK
  <1>3. CASE GenContent(j)
    <2>1. sends' = [sends EXCEPT ![act[j].send].text = act[j].text] /\ ~Write(j)
      BY <1>3 DEF GenContent, Write
    <2> QED
      BY <1>1, <1>2, <2>1 DEF TypeInv, TypeOK, Send
  <1>4. CASE Write(j)
    <2>1. /\ sends' = [sends EXCEPT ![act[j].send].status = act[j].out]
          /\ act[j].out \in Outcomes /\ ~GenContent(j)
      BY <1>4, HandlerType DEF GenContent, Write, Fits
    <2> QED
      BY <1>1, <1>2, <2>1, ValueNames DEF TypeInv, TypeOK, Send
  <1> QED
    BY <1>3, <1>4

\* A row keeps what it is about.
LEMMA RowsKeep ==
  ASSUME TypeInv, [Next]_vars, NEW r \in SendIds
  PROVE  /\ sends[r].status # "none" =>
              /\ sends'[r].event = sends[r].event
              /\ sends'[r].automation = sends[r].automation
              /\ sends'[r].template = sends[r].template
              /\ sends'[r].status # "none"
         /\ \/ sends'[r] = sends[r]
            \/ \E j \in JobIds : InsertSend(j) /\ act'[j].send = r /\ sends[r].status = "none"
            \/ \E j \in JobIds : (GenContent(j) \/ Write(j)) /\ sends[r].status # "none"
  <1>1. CASE sends' = sends
    BY <1>1
  <1>2. ASSUME NEW j \in JobIds, InsertSend(j)
        PROVE  sends'[r] = sends[r] \/ (act'[j].send = r /\ sends[r].status = "none")
    <2>1. PICK s \in SendIds : /\ sends[s].status = "none" /\ act'[j].send = s
                               /\ \A q \in SendIds : q # s => sends'[q] = sends[q]
      BY <1>2, InsertIs
    <2> QED
      BY <2>1
  <1>3. ASSUME NEW j \in JobIds, GenContent(j) \/ Write(j)
        PROVE  /\ sends'[r].event = sends[r].event
               /\ sends'[r].automation = sends[r].automation
               /\ sends'[r].template = sends[r].template
               /\ sends[r].status # "none" => sends'[r].status # "none"
               /\ sends[r].status = "none" => sends'[r] = sends[r]
    <2>1. act[j].send \in SendIds /\ sends[act[j].send].status # "none"
      BY <1>3, RowWrites
    <2>2. r # act[j].send => sends'[r] = sends[r]
      BY <1>3, <2>1 DEF GenContent, Write, TypeInv, TypeOK
    <2> QED
      BY <1>3, <2>1, <2>2, RowWrites
  <1>4. \/ sends' = sends
        \/ \E j \in JobIds : InsertSend(j) \/ GenContent(j) \/ Write(j)
    BY StepKinds DEF ByQueue, ByOthers, ByHandler, tables
  <1> QED
    BY <1>1, <1>2, <1>3, <1>4

\* What is in the events table stays there.
LEMMA StagesGrow ==
  ASSUME TypeInv, [Next]_vars, NEW m \in Messages
  PROVE  /\ events[m].stage # "absent" => events'[m].stage # "absent"
         /\ events[m].stage = "queued" => events'[m].stage = "queued"
  <1>1. CASE events' = events
    BY <1>1
  <1>2. ASSUME NEW n \in Messages,
               InsertEvent(n) \/ EnqueueEvent(n) \/ EnqueueEventFails(n)
        PROVE  /\ events[m].stage # "absent" => events'[m].stage # "absent"
               /\ events[m].stage = "queued" => events'[m].stage = "queued"
    BY <1>2 DEF InsertEvent, EnqueueEvent, EnqueueEventFails, TypeInv, TypeOK, Event
  <1>3. ASSUME NEW j \in JobIds, MarkProcessed(j)
        PROVE  events'[m].stage = events[m].stage
    BY <1>3 DEF MarkProcessed, TypeInv, TypeOK, Event
  <1>4. \/ events' = events
        \/ \E n \in Messages : InsertEvent(n) \/ EnqueueEvent(n) \/ EnqueueEventFails(n)
        \/ \E j \in JobIds : MarkProcessed(j)
    BY StepKinds DEF ByQueue, ByOthers, ByHandler, tables
  <1> QED
    BY <1>1, <1>2, <1>3, <1>4

\* A handler at a step keeps its job.
LEMMA JobKept ==
  ASSUME TypeInv, [Next]_vars, NEW k \in JobIds, jobs[k].state # "none"
  PROVE  /\ jobs'[k].data = jobs[k].data /\ jobs'[k].state # "none"
         /\ jobs'[k].stalls >= jobs[k].stalls
  <1>1. jobs[k].stalls \in Nat
    BY HandlerType DEF Job
  <1> QED
    BY <1>1, JobCases DEF OldJob, NewJob

LEMMA ActiveJob ==
  ASSUME TypeInv, NEW k \in JobIds, act[k].pc # "idle"
  PROVE  jobs[k].state = "active" /\ jobs[k].worker # None
  BY HandlerType DEF Fits

--------------------------------------------------------------------------------
(* One job per event, and one answer per automation: the retry dedupe.     *)

EventJob(j) == jobs[j].state # "none" /\ jobs[j].data.type = "process-event"

EventJobs ==
  /\ \A j \in JobIds : EventJob(j) => /\ jobs[j].data = ProcessEventJob(EventOf(j))
                                      /\ events[EventOf(j)].stage = "queued"
  /\ \A i, j \in JobIds : EventJob(i) /\ EventJob(j) /\ EventOf(i) = EventOf(j) => i = j

\* What a handler has yet to answer has no row.
Unanswered(j) ==
  /\ act[j].pc = "query" => Rows(EventOf(j)) = {}
  /\ act[j].pc \in {"next", "insert", "add"} =>
       \A r \in Rows(EventOf(j)) : sends[r].automation \notin act[j].todo
  /\ act[j].pc = "insert" =>
       /\ act[j].automation \notin act[j].todo
       /\ \A r \in Rows(EventOf(j)) : sends[r].automation # act[j].automation

AnswersInv ==
  /\ EventJobs
  /\ \A j \in JobIds : Unanswered(j)
  /\ AnsweredOnce

LEMMA InitAnswers == Init => AnswersInv
  <1> SUFFICES ASSUME Init PROVE AnswersInv
    OBVIOUS
  <1>1. \A j \in JobIds : jobs[j].state = "none" /\ act[j].pc = "idle"
    BY IdleFacts DEF Init, QueueInit, NoJob
  <1>2. \A s \in SendIds : sends[s].event = None
    BY DEF Init, NoSend
  <1> QED
    BY <1>1, <1>2 DEF AnswersInv, EventJobs, EventJob, Unanswered, AnsweredOnce

LEMMA JobTypes ==
  /\ \A m : /\ ProcessEventJob(m).type = "process-event" /\ ProcessEventJob(m).event = m
            /\ ProcessEventJob(m).send = 0
  /\ \A m, s : /\ GenerateAiReplyJob(m, s).type = "generate-ai-reply"
               /\ GenerateAiReplyJob(m, s).send = s
  /\ \A s, a, t : /\ SendWhatsappJob(s, a, t).type = "send-whatsapp"
                  /\ SendWhatsappJob(s, a, t).send = s
                  /\ SendWhatsappJob(s, a, t).account = a
                  /\ SendDMJob(s, a, t).type = "send-dm" /\ SendDMJob(s, a, t).send = s
  /\ \A d : Added(d).data = d /\ Added(d).state = "waiting" /\ Added(d).stalls = 0
  BY DEF ProcessEventJob, GenerateAiReplyJob, SendWhatsappJob, SendDMJob, Added

LEMMA NewJobIs ==
  ASSUME NEW k \in JobIds, NewJob(k)
  PROVE  /\ jobs[k].state = "none" /\ jobs'[k].state = "waiting" /\ jobs'[k].stalls = 0
         /\ \/ \E m \in Messages : EnqueueEvent(m) /\ jobs'[k].data = ProcessEventJob(m)
            \/ \E j \in JobIds : AddSend(j) /\ jobs'[k].data = AnswerJob(j)
            \/ \E j \in JobIds : /\ GenAdd(j)
                                 /\ jobs'[k].data = SendDMJob(act[j].send, None, act[j].text)
  BY JobTypes DEF NewJob

\* One job is added at a time.
LEMMA OneNewJob ==
  ASSUME TypeInv, NEW k \in JobIds, NEW l \in JobIds, NewJob(k), NewJob(l)
  PROVE  k = l
  <1>1. ASSUME NEW i \in JobIds, NEW d, Add(i, d)
        PROVE  k = l
    <2>1. \A n \in JobIds : n # i => jobs'[n] = jobs[n]
      BY <1>1 DEF Add, TypeInv, TypeOK
    <2> QED
      BY <2>1, NewJobIs
  <1>2. ASSUME NEW m \in Messages, EnqueueEvent(m) PROVE k = l
    BY <1>1, <1>2 DEF EnqueueEvent
  <1>3. ASSUME NEW j \in JobIds, AddSend(j) PROVE k = l
    BY <1>1, <1>3 DEF AddSend
  <1>4. ASSUME NEW j \in JobIds, GenAdd(j) PROVE k = l
    BY <1>1, <1>4 DEF GenAdd
  <1> QED
    BY <1>2, <1>3, <1>4 DEF NewJob

LEMMA AnswerJobIs ==
  ASSUME NEW j
  PROVE  /\ AnswerJob(j).type \in {"generate-ai-reply", "send-whatsapp"}
         /\ AnswerJob(j).send = act[j].send
         /\ AnswerJob(j).type = "send-whatsapp" =>
              AnswerJob(j).account = AccountOf(act[j].send)
  BY JobTypes DEF AnswerJob

LEMMA NextEventJobs ==
  ASSUME TypeInv, EventJobs, [Next]_vars PROVE EventJobs'
  <1>1. ASSUME NEW k \in JobIds, EventJob(k)'
        PROVE  \/ EventJob(k) /\ EventOf(k)' = EventOf(k) /\ jobs'[k].data = jobs[k].data
               \/ \E m \in Messages : /\ NewJob(k) /\ EnqueueEvent(m)
                                      /\ jobs'[k].data = ProcessEventJob(m)
    <2>1. CASE jobs[k].state # "none"
      BY <1>1, <2>1, JobKept DEF EventJob, EventOf
    <2>2. CASE NewJob(k)
      BY <1>1, <2>2, NewJobIs, AnswerJobIs, JobTypes DEF EventJob
    <2> QED
      BY <1>1, <2>1, <2>2, JobCases DEF EventJob, OldJob
  <1>2. ASSUME NEW m \in Messages, EnqueueEvent(m)
        PROVE  events[m].stage = "inserted" /\ events'[m].stage = "queued"
    BY <1>2 DEF EnqueueEvent, TypeInv, TypeOK, Event
  <1>3. ASSUME NEW k \in JobIds, EventJob(k)
        PROVE  EventOf(k) \in Messages
    BY <1>3, HandlerType DEF EventJob, JobOK, EventOf
  <1>4. ASSUME NEW k \in JobIds, EventJob(k)'
        PROVE  /\ jobs'[k].data = ProcessEventJob(EventOf(k)')
               /\ events'[EventOf(k)'].stage = "queued"
    <2>1. CASE EventJob(k) /\ EventOf(k)' = EventOf(k) /\ jobs'[k].data = jobs[k].data
      BY <2>1, <1>3, StagesGrow DEF EventJobs
    <2>2. ASSUME NEW m \in Messages, EnqueueEvent(m), jobs'[k].data = ProcessEventJob(m)
          PROVE  /\ jobs'[k].data = ProcessEventJob(EventOf(k)')
                 /\ events'[EventOf(k)'].stage = "queued"
      BY <2>2, <1>2, JobTypes DEF EventOf
    <2> QED
      BY <1>1, <1>4, <2>1, <2>2
  <1>5. ASSUME NEW k \in JobIds, NEW l \in JobIds, EventJob(k)', EventJob(l)',
               EventOf(k)' = EventOf(l)'
        PROVE  k = l
    <2>1. CASE EventJob(k) /\ EventJob(l) /\ EventOf(k)' = EventOf(k) /\ EventOf(l)' = EventOf(l)
      BY <1>5, <2>1 DEF EventJobs
    <2>2. ASSUME NEW i \in JobIds, EventJob(i), EventOf(i)' = EventOf(i),
                 NEW n \in JobIds, NEW m \in Messages, EnqueueEvent(m),
                 jobs'[n].data = ProcessEventJob(m)
          PROVE  EventOf(n)' # EventOf(i)'
      BY <2>2, <1>2, JobTypes DEF EventJobs, EventOf
    <2> QED
      BY <1>1, <1>5, <2>1, <2>2, OneNewJob
  <1> QED
    BY <1>4, <1>5 DEF EventJobs

\* The rows of a handler's event, when it is not the one that inserts.
LEMMA SameAnswers ==
  ASSUME TypeInv, EventJobs, [Next]_vars, NEW k \in JobIds, act[k].pc \in EventSteps,
         ~InsertSend(k), NEW r \in SendIds, sends'[r].event = EventOf(k)
  PROVE  /\ sends[r].event = EventOf(k)
         /\ sends'[r].automation = sends[r].automation
  <1>1. EventOf(k) \in Messages /\ EventOf(k) # None /\ EventJob(k)
    BY Subject, ValueNames, ActiveJob, NotIdle DEF EventJob
  <1>2. ASSUME sends[r].status = "none", NEW j \in JobIds, InsertSend(j), act'[j].send = r
        PROVE  FALSE
    <2>1. sends'[r].event = EventOf(j) /\ act[j].pc = "insert"
      BY <1>2, InsertIs
    <2>2. EventJob(j)
      BY <2>1, Subject, ActiveJob DEF EventJob, EventSteps
    <2> QED
      BY <1>1, <1>2, <2>1, <2>2 DEF EventJobs
  <1>3. CASE sends[r].status # "none"
    BY <1>3, RowsKeep
  <1> QED
    BY <1>2, <1>3, RowsKeep

\* What the moves of the matching loop do.
LEMMA MatchIs ==
  ASSUME TypeInv, NEW j \in JobIds, NEW a \in Automations, Match(j, a)
  PROVE  /\ act[j].pc = "next" /\ a \in act[j].todo /\ sends' = sends
         /\ act'[j].todo = act[j].todo \ {a}
         /\ act'[j].pc = "insert" => act'[j].automation = a
  <1>1. act \in [JobIds -> Act]
    BY DEF TypeInv, TypeOK
  <1>2. act[j].pc = "next" /\ a \in act[j].todo /\ sends' = sends
    BY DEF Match, tables
  <1>3. CASE act' = [act EXCEPT ![j] = [act[j] EXCEPT !.todo = act[j].todo \ {a}]]
    BY <1>1, <1>2, <1>3 DEF Act
  <1>4. ASSUME NEW t,
               act' = [act EXCEPT ![j] = [act[j] EXCEPT !.todo = act[j].todo \ {a},
                          !.automation = a, !.text = t, !.template = TemplateOf(a),
                          !.pc = "insert"]]
        PROVE  act'[j].todo = act[j].todo \ {a} /\ act'[j].automation = a
    BY <1>1, <1>4 DEF Act
  <1> QED
    BY <1>2, <1>3, <1>4 DEF Match, Becomes

LEMMA QueryIs ==
  ASSUME TypeInv, NEW j \in JobIds, QueryAutomations(j) \/ AddSend(j)
  PROVE  /\ sends' = sends
         /\ QueryAutomations(j) => act[j].pc = "query"
         /\ AddSend(j) => act[j].pc = "add" /\ act'[j].todo = act[j].todo
  <1>1. act \in [JobIds -> Act]
    BY DEF TypeInv, TypeOK
  <1>2. AddSend(j) => act'[j].todo = act[j].todo
    BY <1>1 DEF AddSend, Becomes, Act
  <1> QED
    BY <1>2 DEF QueryAutomations, AddSend, tables

LEMMA NextUnanswered ==
  ASSUME TypeInv, AnswersInv, [Next]_vars, NEW k \in JobIds PROVE Unanswered(k)'
  <1> SUFFICES ASSUME act'[k].pc \in {"query", "next", "insert", "add"}
               PROVE  Unanswered(k)'
    BY DEF Unanswered
  <1>1. Unanswered(k)
    BY DEF AnswersInv
  <1>2. ASSUME act[k].pc \in EventSteps, ~InsertSend(k), NEW r \in SendIds,
               r \in Rows(EventOf(k))'
        PROVE  r \in Rows(EventOf(k)) /\ sends'[r].automation = sends[r].automation
    <2>1. jobs'[k].data = jobs[k].data
      BY <1>2, NotIdle, ActiveJob, JobKept
    <2> QED
      BY <1>2, <2>1, SameAnswers DEF AnswersInv, Rows, EventOf
  <1>3. CASE act'[k] = act[k]
    <2>1. act[k].pc \in EventSteps
      BY <1>3 DEF EventSteps
    <2>2. ~InsertSend(k)
      BY <1>3, EventPlaces DEF InsertSend
    <2> QED
      BY <1>1, <1>2, <1>3, <2>1, <2>2 DEF Unanswered, Rows
  <1>4. CASE Dedupe(k)
    <2>1. act[k].pc \in EventSteps /\ ~InsertSend(k) /\ act'[k].pc = "query"
      BY <1>4, EventPlaces DEF Dedupe, EventSteps, InsertSend
    <2>2. Rows(EventOf(k)) = {}
      BY <1>4, <2>1, GotoIs DEF Dedupe
    <2> QED
      BY <1>2, <2>1, <2>2 DEF Unanswered, Rows
  <1>5. CASE QueryAutomations(k)
    <2>1. act[k].pc = "query" /\ act[k].pc \in EventSteps /\ ~InsertSend(k)
          /\ act'[k].pc = "next"
      BY <1>5, EventPlaces DEF QueryAutomations, EventSteps, InsertSend
    <2> QED
      BY <1>1, <1>2, <2>1 DEF Unanswered, Rows
  <1>6. ASSUME NEW a \in Automations, Match(k, a) PROVE Unanswered(k)'
    <2>1. act[k].pc = "next" /\ act[k].pc \in EventSteps /\ ~InsertSend(k)
      BY <1>6 DEF Match, EventSteps, InsertSend
    <2> QED
      BY <1>1, <1>2, <1>6, <2>1, MatchIs, EventPlaces DEF Unanswered, Rows
  <1>7. CASE AddSend(k)
    <2>1. act[k].pc = "add" /\ act[k].pc \in EventSteps /\ ~InsertSend(k)
          /\ act'[k].pc = "next"
      BY <1>7, EventPlaces DEF AddSend, EventSteps, InsertSend
    <2> QED
      BY <1>1, <1>2, <1>7, <2>1, QueryIs DEF Unanswered, Rows
  <1>8. CASE InsertSend(k)
    <2>1. PICK s \in SendIds :
            /\ sends'[s].automation = act[k].automation
            /\ \A r \in SendIds : r # s => sends'[r] = sends[r]
            /\ act[k].pc = "insert" /\ act'[k].pc = "add"
            /\ act'[k].todo = act[k].todo /\ act'[k].automation = act[k].automation
      BY <1>8, InsertIs
    <2>2. EventOf(k)' = EventOf(k)
      BY <1>8 DEF InsertSend, EventOf
    <2> QED
      BY <1>1, <2>1, <2>2 DEF Unanswered, Rows
  <1>9. ASSUME NEW w \in Workers, Start(w, k) PROVE FALSE
    BY <1>9, StartIs
  <1>10. Handle(k) => \/ Dedupe(k) \/ QueryAutomations(k) \/ AddSend(k) \/ InsertSend(k)
                      \/ \E a \in Automations : Match(k, a)
    BY EventPlaces, RowPlaces DEF Handle, processEvent, generateAiReply, sendWhatsapp
  <1> QED
    BY <1>3, <1>4, <1>5, <1>6, <1>7, <1>8, <1>9, <1>10, HandlerCases

LEMMA NextAnsweredOnce ==
  ASSUME TypeInv, AnswersInv, [Next]_vars PROVE AnsweredOnce'
  <1> SUFFICES ASSUME NEW s \in SendIds, NEW t \in SendIds, s # t,
                      sends'[s].event = sends'[t].event, sends'[s].event # None
               PROVE  sends'[s].automation # sends'[t].automation
    BY DEF AnsweredOnce
  <1>1. ASSUME NEW j \in JobIds, InsertSend(j), NEW p \in SendIds, NEW q \in SendIds,
               p # q, act'[j].send = p, sends'[p].event = sends'[q].event
        PROVE  sends'[p].automation # sends'[q].automation
    <2>1. /\ sends'[p].event = EventOf(j) /\ sends'[p].automation = act[j].automation
          /\ sends'[q] = sends[q] /\ act[j].pc = "insert"
      BY <1>1, InsertIs
    <2> QED
      BY <1>1, <2>1 DEF AnswersInv, Unanswered, Rows
  <1>2. ASSUME NEW r \in SendIds,
               ~\E j \in JobIds : InsertSend(j) /\ act'[j].send = r
        PROVE  sends'[r].event = sends[r].event /\ sends'[r].automation = sends[r].automation
    BY <1>2, RowsKeep
  <1> QED
    BY <1>1, <1>2 DEF AnswersInv, AnsweredOnce

\* Every state satisfies the invariant behind the dedupe.
LEMMA AnswersHold == Spec => []AnswersInv
  <1>1. ASSUME TypeInv, AnswersInv, [Next]_vars PROVE AnswersInv'
    BY <1>1, NextEventJobs, NextUnanswered, NextAnsweredOnce DEF AnswersInv
  <1> QED
    BY <1>1, InitAnswers, HandlersFitTheirJobs, PTL DEF Spec

\* However often the job of a customer's message is handed out, stalls or breaks off,
\* the message is answered by at most one row per automation: the retry dedupe of
\* processWhatsappMessageEvent suffices for every number of workers, because no other
\* job has the event and a handler inserts only what no row of the event is about.
THEOREM EachAutomationAnswersOnce == Spec => []AnsweredOnce
  <1>1. AnswersInv => AnsweredOnce
    BY DEF AnswersInv
  <1> QED
    BY <1>1, AnswersHold, PTL

--------------------------------------------------------------------------------
(* What Meta has taken, and whether it had approved it.                    *)

Posts(j) == PostAccepted(j) \/ PostAnswerLost(j)

LEMMA PostIs ==
  ASSUME TypeInv, NEW j \in JobIds, Posts(j)
  PROVE  /\ act[j].pc = "wsPost" /\ sends' = sends
         /\ act[j].send \in SendIds /\ act[j].send = jobs[j].data.send
         /\ sends[act[j].send].status # "none"
         /\ delivered'[act[j].send] = delivered[act[j].send] + 1
         /\ \A s \in SendIds : s # act[j].send => delivered'[s] = delivered[s]
  <1>1. /\ act[j].pc = "wsPost" /\ sends' = sends
        /\ delivered' = [delivered EXCEPT ![act[j].send] = @ + 1]
    BY DEF Posts, PostAccepted, PostAnswerLost, Delivered
  <1>2. act[j].send \in SendIds /\ act[j].send = jobs[j].data.send /\ SendOf(j).status # "none"
    BY <1>1, Subject DEF WsSteps, RowSteps
  <1> QED
    BY <1>1, <1>2 DEF TypeInv, TypeOK, SendOf

LEMMA DeliveredCases ==
  ASSUME TypeInv, [Next]_vars
  PROVE  delivered' = delivered \/ \E j \in JobIds : Posts(j)
  BY StepKinds DEF ByQueue, ByOthers, ByHandler, tables, Posts

\* Meta approved template t some time, and told us.
WasApproved(t) ==
  \/ t \in Approved
  \/ \E m \in Messages : /\ events[m].stage # "absent"
                         /\ Message[m].kind = "templateStatus"
                         /\ Message[m].template = t
                         /\ mapStatus[Message[m].event] = "approved"

ApprovalsInv ==
  /\ \A t \in Templates : templates[t].status = "approved" => WasApproved(t)
  /\ \A j \in JobIds : act[j].pc \in {"wsRate", "wsPost"} /\ SendOf(j).template # None
                         => WasApproved(SendOf(j).template)
  /\ \A s \in SendIds : sends[s].status = "none" => delivered[s] = 0
  /\ TemplateWasApproved

LEMMA InitApprovals == Init => ApprovalsInv
  <1> SUFFICES ASSUME Init PROVE ApprovalsInv
    OBVIOUS
  <1>1. \A t \in Templates : templates[t].status = "approved" => t \in Approved
    BY DEF Init, TemplatesInit, ApprovedTemplate, NoTemplate
  <1>2. \A j \in JobIds : act[j].pc = "idle"
    BY IdleFacts DEF Init
  <1>3. \A s \in SendIds : delivered[s] = 0
    BY DEF Init
  <1> QED
    BY <1>1, <1>2, <1>3 DEF ApprovalsInv, WasApproved, TemplateWasApproved

LEMMA ApprovedForGood ==
  ASSUME TypeInv, [Next]_vars, NEW t, WasApproved(t) PROVE WasApproved(t)'
  BY StagesGrow DEF WasApproved

\* Nothing but the webhook makes a row approved.
LEMMA OnlyMetaApproves ==
  ASSUME TypeInv, EventJobs, [Next]_vars, NEW t \in Templates,
         templates'[t].status = "approved"
  PROVE  templates[t].status = "approved" \/ WasApproved(t)
  <1>1. templates \in [Templates -> Template]
    BY DEF TypeInv, TypeOK, TemplatesOK
  <1>2. ASSUME NEW r \in Templates, TemplateRequest(r)
        PROVE  templates[t].status = "approved"
    <2>1. CASE InsertDraft(r)
      BY <1>1, <2>1 DEF InsertDraft, Template
    <2>2. CASE RecordSubmission(r)
      BY <1>1, <2>2 DEF RecordSubmission, UpdateTemplate
    <2>3. CASE DeleteWrite(r)
      BY <1>1, <2>3 DEF DeleteWrite, UpdateTemplate, Template
    <2>4. CASE templates' = templates
      BY <2>4
    <2> QED
      BY <1>2, <2>1, <2>2, <2>3, <2>4
      DEF TemplateRequest, SubmitAccepted, SubmitFails, RecordFails, DeleteLoad
  <1>3. ASSUME NEW j \in JobIds, TemplateApply(j)
        PROVE  templates[t].status = "approved" \/ WasApproved(t)
    <2> DEFINE m == EventOf(j)
    <2>1. act[j].pc = "tplApply"
      BY <1>3 DEF TemplateApply
    <2>2. /\ m \in Messages /\ Message[m].kind = "templateStatus"
          /\ Message[m].template \in Templates
      BY <2>1, StatusSubject
    <2>3. EventJob(j)
      BY <2>1, Subject, ActiveJob DEF EventJob, EventSteps
    <2>4. events[m].stage = "queued"
      BY <2>3 DEF EventJobs
    <2>5. UpdateTemplate(Message[m].template,
             [templates[Message[m].template] EXCEPT !.status = mapStatus[Message[m].event]])
      BY <1>3 DEF TemplateApply
    <2> HIDE DEF m
    <2>6. \/ templates'[t] = templates[t]
          \/ t = Message[m].template /\ templates'[t].status = mapStatus[Message[m].event]
      BY <1>1, <2>2, <2>5 DEF UpdateTemplate, Template
    <2> QED
      BY <2>2, <2>4, <2>6 DEF WasApproved
  <1>4. \/ templates' = templates
        \/ \E r \in Templates : TemplateRequest(r)
        \/ \E j \in JobIds : TemplateApply(j)
    BY StepKinds DEF ByQueue, ByOthers, ByHandler, tables, dashboard, templateVars
  <1> QED
    BY <1>2, <1>3, <1>4

LEMMA WsModeIs ==
  ASSUME TypeInv, NEW j \in JobIds, WsMode(j), act'[j].pc = "wsRate"
  PROVE  /\ act'[j].send = act[j].send /\ sends' = sends
         /\ SendOf(j).template # None => templates[SendOf(j).template].status = "approved"
  <1>1. ~Ends(j, "failed") /\ ~Ends(j, "outsideWindow")
    <2>1. "failed" \in Outcomes /\ "outsideWindow" \in Outcomes
      BY DEF Outcomes
    <2> QED
      BY <2>1, EndsIs
  <1>2. Goto(j, "wsRate") /\ sends' = sends
    BY <1>1 DEF WsMode, tables
  <1>3. SendOf(j).template # None => templates[SendOf(j).template].status = "approved"
    BY <1>1 DEF WsMode
  <1> QED
    BY <1>2, <1>3, GotoIs

LEMMA NextApprovals ==
  ASSUME TypeInv, EventJobs, ApprovalsInv, [Next]_vars PROVE ApprovalsInv'
  <1>1. \A t \in Templates : templates'[t].status = "approved" => WasApproved(t)'
    BY OnlyMetaApproves, ApprovedForGood DEF ApprovalsInv
  <1>2. ASSUME NEW k \in JobIds, act'[k].pc \in {"wsRate", "wsPost"},
               NEW t, t # None, sends'[act'[k].send].template = t
        PROVE  WasApproved(t)'
    <2>1. ASSUME act[k].pc \in WsSteps, act'[k].send = act[k].send
          PROVE  SendOf(k).template = t
      BY <1>2, <2>1, Subject, RowsKeep DEF SendOf, RowSteps
    <2>2. CASE act'[k] = act[k]
      <3>1. act[k].pc \in WsSteps
        BY <1>2, <2>2 DEF WsSteps
      <3> QED
        BY <1>2, <2>1, <2>2, <3>1, ApprovedForGood DEF ApprovalsInv
    <2>3. CASE WsMode(k)
      <3>1. act[k].pc = "wsMode" /\ act[k].pc \in WsSteps /\ act[k].pc \in RowSteps
        BY <2>3 DEF WsMode, WsSteps, RowSteps
      <3>2. act'[k].pc = "wsRate"
        BY <1>2, <2>3, RowPlaces
      <3>3. act'[k].send = act[k].send
        BY <2>3, <3>2, WsModeIs
      <3>4. t \in Templates
        <4>1. SendOf(k) \in Send
          BY <3>1, Subject DEF TypeInv, TypeOK, SendOf
        <4> QED
          BY <1>2, <2>1, <3>1, <3>3, <4>1 DEF Send
      <3> QED
        BY <1>2, <2>1, <2>3, <3>1, <3>2, <3>3, <3>4, WsModeIs, ApprovedForGood
        DEF ApprovalsInv
    <2>4. CASE WsRate(k)
      <3>1. /\ act[k].pc = "wsRate" /\ act[k].pc \in WsSteps /\ act'[k].send = act[k].send
        <4>1. ASSUME NEW o \in {"failed", "rateLimited"} PROVE ~Ends(k, o)
          BY <1>2, <4>1, EndsIs, ValueNames
        <4> QED
          BY <2>4, <4>1, GotoIs DEF WsRate, WsSteps
      <3> QED
        BY <1>2, <2>1, <3>1, ApprovedForGood DEF ApprovalsInv
    <2>5. ASSUME NEW w \in Workers, Start(w, k) PROVE FALSE
      BY <1>2, <2>5, StartIs
    <2>6. Handle(k) => WsMode(k) \/ WsRate(k)
      BY <1>2, EventPlaces, RowPlaces DEF Handle, processEvent, generateAiReply, sendWhatsapp
    <2> QED
      BY <1>2, <2>2, <2>3, <2>4, <2>5, <2>6, HandlerCases
  <1>3. ASSUME NEW s \in SendIds, sends'[s].status = "none" PROVE delivered'[s] = 0
    BY <1>3, RowsKeep, PostIs, DeliveredCases DEF ApprovalsInv
  <1>4. ASSUME NEW s \in SendIds, delivered'[s] > 0,
               NEW t, t # None, sends'[s].template = t
        PROVE  WasApproved(t)'
    <2>1. CASE delivered[s] > 0
      <3>1. sends[s].status # "none"
        BY <2>1 DEF ApprovalsInv
      <3>2. sends[s].template = t
        BY <1>4, <3>1, RowsKeep
      <3>3. WasApproved(t)
        BY <1>4, <2>1, <3>2 DEF ApprovalsInv, TemplateWasApproved, WasApproved
      <3> QED
        BY <3>3, ApprovedForGood
    <2>2. CASE ~(delivered[s] > 0)
      <3>1. PICK j \in JobIds : Posts(j)
        BY <1>4, <2>2, DeliveredCases
      <3>2. s = act[j].send /\ act[j].pc = "wsPost" /\ sends' = sends
        BY <1>4, <2>2, <3>1, PostIs
      <3> QED
        BY <1>4, <3>2, ApprovedForGood DEF ApprovalsInv, SendOf
    <2> QED
      BY <2>1, <2>2
  <1>5. (\A j \in JobIds : act[j].pc \in {"wsRate", "wsPost"} /\ SendOf(j).template # None
                             => WasApproved(SendOf(j).template))'
    BY <1>2 DEF WasApproved, SendOf
  <1>6. TemplateWasApproved'
    BY <1>4 DEF TemplateWasApproved, WasApproved
  <1> QED
    BY <1>1, <1>3, <1>5, <1>6 DEF ApprovalsInv

LEMMA ApprovalsHold == Spec => []ApprovalsInv
  <1>1. AnswersInv => EventJobs
    BY DEF AnswersInv
  <1> QED
    BY <1>1, InitApprovals, NextApprovals, HandlersFitTheirJobs, AnswersHold, PTL DEF Spec

\* A template reaches a customer only if it was approved at the start or a webhook of
\* Meta's approval is in the events table: no request of the dashboard, however it
\* interleaves with the webhooks, makes a row approved, and the gate of sendWhatsapp
\* holds although the row may change between the gate and the call.
THEOREM OnlyApprovedTemplatesGoOut == Spec => []TemplateWasApproved
  <1>1. ApprovalsInv => TemplateWasApproved
    BY DEF ApprovalsInv
  <1> QED
    BY <1>1, ApprovalsHold, PTL

--------------------------------------------------------------------------------
(* STOP.                                                                   *)

Logged(m) == [event |-> m, action |-> "optOut"] \in log

GivenUp(m) == [event |-> m, action |-> "givenUp"] \in log

\* What the handler of a message has done about the lead.
Stopping(j) ==
  /\ act[j].pc \in {"leadRefresh", "logOptIn", "optOut", "logOptOut"}
       => leads[PhoneOf(j)].exists
  /\ act[j].pc = "logOptOut" => leads[PhoneOf(j)].optedOut
  /\ act[j].pc \in {"dedupe", "query", "next", "insert", "add", "tplLoad", "tplApply"}
       => Message[EventOf(j)].text # "stop"
  /\ act[j].pc = "mark" /\ Message[EventOf(j)].text = "stop"
       => (leads[PhoneOf(j)].optedOut /\ Logged(EventOf(j))) \/ GivenUp(EventOf(j))

StopInv ==
  /\ \A p \in Phones : leads[p].optedOut => leads[p].exists
  /\ \A j \in JobIds : Stopping(j)
  /\ StopIsHonoured

LEMMA InitStops == Init => StopInv
  <1> SUFFICES ASSUME Init PROVE StopInv
    OBVIOUS
  <1>1. \A j \in JobIds : act[j].pc = "idle"
    BY IdleFacts DEF Init
  <1>2. \A p \in Phones : ~leads[p].optedOut
    BY DEF Init, NoLead
  <1>3. \A m \in Messages : ~events[m].processed
    BY DEF Init
  <1> QED
    BY <1>1, <1>2, <1>3 DEF StopInv, Stopping, StopIsHonoured

LEMMA LeadCases ==
  ASSUME TypeInv, [Next]_vars, NEW p \in Phones
  PROVE  \/ leads'[p].exists = leads[p].exists /\ leads'[p].optedOut = leads[p].optedOut
         \/ ~leads[p].exists /\ leads'[p].exists /\ ~leads'[p].optedOut
         \/ \E j \in JobIds : /\ OptOut(j) /\ p = PhoneOf(j) /\ leads'[p].optedOut
                              /\ leads'[p].exists = leads[p].exists
  <1> DEFINE Kept == /\ leads'[p].exists = leads[p].exists
                     /\ leads'[p].optedOut = leads[p].optedOut
  <1>1. /\ leads \in [Phones -> Lead] /\ NewLead.exists /\ ~NewLead.optedOut
        /\ leads[p] \in Lead
    BY DEF TypeInv, TypeOK, NewLead, NoLead
  <1>2. ASSUME NEW j \in JobIds, LeadRefresh(j) PROVE Kept
    BY <1>1, <1>2 DEF LeadRefresh, OnLead, Lead
  <1>3. ASSUME NEW j \in JobIds, LeadInsert(j)
        PROVE  Kept \/ (~leads[p].exists /\ leads'[p].exists /\ ~leads'[p].optedOut)
    BY <1>1, <1>3 DEF LeadInsert, OnLead
  <1>4. ASSUME NEW j \in JobIds, OptOut(j)
        PROVE  \/ Kept
               \/ /\ p = PhoneOf(j) /\ leads'[p].optedOut
                  /\ leads'[p].exists = leads[p].exists
    BY <1>1, <1>4 DEF OptOut, OnLead, Lead
  <1>5. ASSUME NEW j \in JobIds, CostCharge(j) PROVE Kept
    BY <1>1, <1>5 DEF CostCharge, OnLead, Lead
  <1>6. ASSUME NEW q \in Phones, WindowCloses(q) \/ ConversationEnds(q) PROVE Kept
    BY <1>1, <1>6 DEF WindowCloses, ConversationEnds, OnLead, Lead
  <1>7. \/ leads' = leads
        \/ \E j \in JobIds : LeadRefresh(j) \/ LeadInsert(j) \/ OptOut(j) \/ CostCharge(j)
        \/ \E q \in Phones : WindowCloses(q) \/ ConversationEnds(q)
    BY StepKinds DEF ByQueue, ByOthers, ByHandler, tables
  <1> QED
    BY <1>2, <1>3, <1>4, <1>5, <1>6, <1>7

\* A lead stays, and so does its STOP.
LEMMA LeadsGrow ==
  ASSUME TypeInv, StopInv, [Next]_vars, NEW p \in Phones
  PROVE  /\ leads[p].exists => leads'[p].exists
         /\ leads[p].optedOut => leads'[p].optedOut
         /\ leads'[p].optedOut => leads'[p].exists
  <1>1. ASSUME NEW j \in JobIds, OptOut(j) PROVE leads[PhoneOf(j)].exists
    BY <1>1 DEF OptOut, StopInv, Stopping
  <1> QED
    BY <1>1, LeadCases DEF StopInv

LEMMA LogGrows ==
  ASSUME TypeInv, [Next]_vars, NEW m
  PROVE  (Logged(m) => Logged(m)') /\ (GivenUp(m) => GivenUp(m)')
  <1>1. log' = log \/ \E j \in JobIds : LogOptIn(j) \/ LogOptOut(j) \/ LeadReread(j)
    BY StepKinds DEF ByQueue, ByOthers, ByHandler, tables
  <1> QED
    BY <1>1 DEF Logged, GivenUp, LogOptIn, LogOptOut, LeadReread

\* The moves of a handler that decide what becomes of a STOP.
LEMMA LeadKnown ==
  ASSUME TypeInv, StopInv, NEW j \in JobIds
  PROVE  /\ LeadLoad(j) /\ act'[j].pc = "leadRefresh" => leads[PhoneOf(j)].exists
         /\ LeadInsert(j) => leads'[PhoneOf(j)].exists
         /\ LeadReread(j) => \/ leads[PhoneOf(j)].exists /\ Goto(j, AfterLead(j))
                             \/ GivenUp(EventOf(j))' /\ Goto(j, "mark")
         /\ LeadRefresh(j) \/ LogOptIn(j) =>
              /\ leads[PhoneOf(j)].exists
              /\ act'[j].pc = "dedupe" => Message[EventOf(j)].text # "stop"
              /\ act'[j].pc = "mark" => Message[EventOf(j)].text # "stop"
         /\ OptOut(j) => leads[PhoneOf(j)].exists /\ leads'[PhoneOf(j)].optedOut
         /\ LogOptOut(j) => leads[PhoneOf(j)].optedOut /\ Logged(EventOf(j))'
  <1>1. leads \in [Phones -> Lead] /\ NewLead.exists
    BY DEF TypeInv, TypeOK, NewLead, NoLead
  <1>2. LeadLoad(j) /\ act'[j].pc = "leadRefresh" => leads[PhoneOf(j)].exists
    BY GotoIs DEF LeadLoad
  <1>3. LeadInsert(j) => leads'[PhoneOf(j)].exists
    <2> SUFFICES ASSUME LeadInsert(j) PROVE leads'[PhoneOf(j)].exists
      OBVIOUS
    <2>1. PhoneOf(j) \in Phones
      BY Subject DEF LeadInsert, EventSteps
    <2> QED
      BY <1>1, <2>1 DEF LeadInsert, OnLead
  <1>4. LeadReread(j) => \/ leads[PhoneOf(j)].exists /\ Goto(j, AfterLead(j))
                         \/ GivenUp(EventOf(j))' /\ Goto(j, "mark")
    BY DEF LeadReread, GivenUp, EventOf
  <1>5. LeadRefresh(j) \/ LogOptIn(j) => leads[PhoneOf(j)].exists
    BY DEF LeadRefresh, LogOptIn, StopInv, Stopping
  <1>6. LeadRefresh(j) \/ LogOptIn(j) => act'[j].pc = AfterLead(j)
    BY GotoIs DEF LeadRefresh, LogOptIn
  <1>7. AfterLead(j) \in {"dedupe", "mark"} => Message[EventOf(j)].text # "stop"
    BY DEF AfterLead
  <1>8. OptOut(j) => leads[PhoneOf(j)].exists /\ leads'[PhoneOf(j)].optedOut
    <2> SUFFICES ASSUME OptOut(j)
                 PROVE  leads[PhoneOf(j)].exists /\ leads'[PhoneOf(j)].optedOut
      OBVIOUS
    <2>1. PhoneOf(j) \in Phones
      BY Subject DEF OptOut, EventSteps
    <2> QED
      BY <1>1, <2>1 DEF OptOut, OnLead, StopInv, Stopping, Lead
  <1>9. LogOptOut(j) => leads[PhoneOf(j)].optedOut /\ Logged(EventOf(j))'
    BY DEF LogOptOut, StopInv, Stopping, Logged, EventOf
  <1> QED
    BY <1>2, <1>3, <1>4, <1>5, <1>6, <1>7, <1>8, <1>9

LEMMA StatusHasNoText ==
  ASSUME TypeInv, NEW j \in JobIds
  PROVE  /\ act[j].pc \in {"tplLoad", "tplApply"} => Message[EventOf(j)].text = "none"
         /\ Load(j) /\ act'[j].pc = "mark" => Message[EventOf(j)].text = "none"
  <1>1. act[j].pc \in EventSteps =>
          /\ Message[EventOf(j)].kind \in Kinds
          /\ Message[EventOf(j)].kind # "message" => Message[EventOf(j)].text = "none"
    BY Subject, WhatsappAssumption
  <1>2. act[j].pc \in {"tplLoad", "tplApply"} =>
          act[j].pc \in EventSteps /\ Message[EventOf(j)].kind = "templateStatus"
    BY HandlerType DEF Fits, EventOf, EventSteps
  <1>3. ASSUME Load(j), act'[j].pc = "mark" PROVE Message[EventOf(j)].kind # "message"
    <2>1. ~Settled(j, "completed")
      BY <1>3, SettledIs DEF Load, tables
    <2> QED
      BY <1>3, <2>1, GotoIs DEF Load
  <1>4. Load(j) => act[j].pc \in EventSteps
    BY DEF Load, EventSteps
  <1> QED
    BY <1>1, <1>2, <1>3, <1>4

LEMMA EventStays ==
  ASSUME TypeInv, [Next]_vars, NEW j \in JobIds, act[j].pc # "idle"
  PROVE  EventOf(j)' = EventOf(j) /\ PhoneOf(j)' = PhoneOf(j)
  BY ActiveJob, JobKept DEF EventOf, PhoneOf

\* The handler of an event on its way to the lead, to the opt-out, to the answers and
\* to the end.
LEMMA StopGoesOn ==
  ASSUME TypeInv, StopInv, [Next]_vars, NEW j \in JobIds, processEvent(j)
  PROVE  Stopping(j)'
  <1> DEFINE m == EventOf(j)
             p == PhoneOf(j)
  <1>1. act[j].pc \in EventSteps
    BY DEF processEvent, Load, LeadLoad, LeadRefresh, LeadInsert, LogOptIn,
           LeadInsertCaught, LeadReread, OptOut, LogOptOut, Dedupe, QueryAutomations,
           Match, MatchingDone, InsertSend, InsertFails, AddSend, TemplateLoad,
           TemplateApply, MarkProcessed, EventSteps
  <1>2. m \in Messages /\ p \in Phones /\ EventOf(j)' = m /\ PhoneOf(j)' = p
    BY <1>1, Subject, EventStays DEF EventSteps
  <1>3. leads[p].exists => leads'[p].exists
    BY <1>2, LeadsGrow
  <1>4. leads[p].optedOut => leads'[p].optedOut
    BY <1>2, LeadsGrow
  <1> DEFINE Known == act'[j].pc \in {"leadRefresh", "logOptIn", "optOut", "logOptOut"}
                        => leads'[p].exists
             Out   == act'[j].pc = "logOptOut" => leads'[p].optedOut
             Other == act'[j].pc \in {"dedupe", "query", "next", "insert", "add", "tplLoad",
                                      "tplApply"} => Message[m].text # "stop"
             Done  == act'[j].pc = "mark" /\ Message[m].text = "stop"
                        => (leads'[p].optedOut /\ Logged(m)') \/ GivenUp(m)'
  <1>5. CASE Load(j) \/ LeadLoad(j) \/ LeadInsert(j) \/ LeadInsertCaught(j)
    <2>1. act'[j].pc \in {"tplLoad", "tplApply"} => Message[m].text = "none"
      <3>1. (act[j].pc \in {"tplLoad", "tplApply"} => Message[EventOf(j)].text = "none")'
        BY NextTypeInv, StatusHasNoText, PTL
      <3> QED
        BY <1>2, <3>1
    <2>2. Known /\ Out /\ Other /\ Done
      BY <1>3, <1>5, <2>1, EventPlaces, LeadKnown, StatusHasNoText
    <2> QED
      BY <1>2, <2>2 DEF Stopping
  <1>6. CASE LeadRefresh(j) \/ LogOptIn(j)
    <2>1. Known /\ Out /\ Other /\ Done
      BY <1>3, <1>6, EventPlaces, LeadKnown
    <2> QED
      BY <1>2, <2>1 DEF Stopping
  <1>10. CASE LeadReread(j)
    <2>1. CASE leads[p].exists /\ Goto(j, AfterLead(j))
      <3>1. act'[j].pc = AfterLead(j)
        BY <2>1, GotoIs
      <3>2. AfterLead(j) \in {"dedupe", "mark"} => Message[m].text # "stop"
        BY DEF AfterLead
      <3>3. Known /\ Out /\ Other /\ Done
        BY <1>3, <1>10, <2>1, <3>1, <3>2, EventPlaces
      <3> QED
        BY <1>2, <3>3 DEF Stopping
    <2>2. CASE GivenUp(m)' /\ Goto(j, "mark")
      <3>1. act'[j].pc = "mark"
        BY <2>2, GotoIs
      <3> QED
        BY <1>2, <2>2, <3>1 DEF Stopping
    <2> QED
      BY <1>10, <2>1, <2>2, LeadKnown
  <1>7. CASE OptOut(j) \/ LogOptOut(j)
    <2>1. Known /\ Out /\ Other /\ Done
      BY <1>3, <1>4, <1>7, EventPlaces, LeadKnown
    <2> QED
      BY <1>2, <2>1 DEF Stopping
  <1>8. CASE \/ Dedupe(j) \/ QueryAutomations(j) \/ \E a \in Automations : Match(j, a)
             \/ MatchingDone(j) \/ InsertSend(j) \/ AddSend(j) \/ TemplateLoad(j)
             \/ TemplateApply(j)
    <2>1. act[j].pc \in {"dedupe", "query", "next", "insert", "add", "tplLoad", "tplApply"}
      BY <1>8 DEF Dedupe, QueryAutomations, Match, MatchingDone, InsertSend, AddSend,
                  TemplateLoad, TemplateApply
    <2>2. Message[m].text # "stop"
      BY <2>1 DEF StopInv, Stopping
    <2>3. act'[j].pc \in {"mark", "query", "next", "insert", "add", "tplApply"}
      BY <1>8, EventPlaces
    <2> QED
      BY <1>2, <2>2, <2>3 DEF Stopping
  <1>9. CASE InsertFails(j) \/ MarkProcessed(j)
    BY <1>9, EventPlaces DEF Stopping
  <1> QED
    BY <1>5, <1>6, <1>7, <1>8, <1>9, <1>10 DEF processEvent

LEMMA NextStopping ==
  ASSUME TypeInv, StopInv, [Next]_vars, NEW j \in JobIds
  PROVE  Stopping(j)'
  <1>1. CASE act'[j] = act[j]
    <2>1. CASE act[j].pc \in EventSteps
      <3>1. /\ PhoneOf(j) \in Phones /\ EventOf(j)' = EventOf(j)
            /\ PhoneOf(j)' = PhoneOf(j)
        BY <2>1, Subject, EventStays DEF EventSteps
      <3>2. Stopping(j)
        BY DEF StopInv
      <3> QED
        BY <1>1, <3>1, <3>2, LeadsGrow, LogGrows DEF Stopping
    <2>2. CASE act[j].pc \notin EventSteps
      BY <1>1, <2>2 DEF Stopping, EventSteps
    <2> QED
      BY <2>1, <2>2
  <1>2. CASE act'[j].pc = "idle"
    BY <1>2 DEF Stopping
  <1>3. ASSUME NEW w \in Workers, Start(w, j) PROVE Stopping(j)'
    <2>1. act'[j].pc \in {"load", "genLoad", "wsLoad"}
      BY <1>3, StartIs
    <2> QED
      BY <2>1 DEF Stopping
  <1>4. CASE generateAiReply(j) \/ sendWhatsapp(j) \/ Return(j)
    <2>1. act'[j].pc \notin EventSteps
      BY <1>4, RowPlaces DEF generateAiReply, sendWhatsapp, EventSteps
    <2> QED
      BY <2>1 DEF Stopping, EventSteps
  <1> QED
    BY <1>1, <1>2, <1>3, <1>4, HandlerCases, StopGoesOn DEF Handle

LEMMA NextStops ==
  ASSUME TypeInv, StopInv, [Next]_vars PROVE StopInv'
  <1>1. ASSUME NEW m \in Messages, Message[m].text = "stop", events'[m].processed
        PROVE  (leads'[Message[m].phone].optedOut /\ Logged(m)') \/ GivenUp(m)'
    <2>1. Message[m].phone \in Phones
      BY WhatsappAssumption
    <2>2. CASE events[m].processed
      <3>1. (leads[Message[m].phone].optedOut /\ Logged(m)) \/ GivenUp(m)
        BY <1>1, <2>2 DEF StopInv, StopIsHonoured, Logged, GivenUp
      <3> QED
        BY <2>1, <3>1, LeadsGrow, LogGrows
    <2>3. CASE ~events[m].processed
      <3>1. events \in [Messages -> Event]
        BY DEF TypeInv, TypeOK
      <3>2. ASSUME NEW n \in Messages,
                   InsertEvent(n) \/ EnqueueEvent(n) \/ EnqueueEventFails(n)
            PROVE  FALSE
        BY <1>1, <2>3, <3>1, <3>2 DEF InsertEvent, EnqueueEvent, EnqueueEventFails, Event
      <3>3. PICK j \in JobIds : MarkProcessed(j)
        BY <1>1, <2>3, <3>2, StepKinds DEF ByQueue, ByOthers, ByHandler, tables
      <3>4. act[j].pc = "mark" /\ m = EventOf(j)
        BY <1>1, <2>3, <3>1, <3>3 DEF MarkProcessed
      <3>5. (leads[Message[m].phone].optedOut /\ Logged(m)) \/ GivenUp(m)
        BY <1>1, <3>4 DEF StopInv, Stopping, PhoneOf
      <3> QED
        BY <2>1, <3>5, LeadsGrow, LogGrows
    <2> QED
      BY <2>2, <2>3
  <1> QED
    BY <1>1, NextStopping, LeadsGrow DEF StopInv, StopIsHonoured, Logged, GivenUp

\* Once the event of a STOP counts as processed, the customer has opted out for good
\* and the log says on which evidence: recordOptOut stands before processedAt, and no
\* later step of any handler, worker, webhook or owner takes it back.  The exception is
\* a customer whom upsertLeadOnInbound gave up, with a warning.
THEOREM StopsStayHonoured == Spec => []StopIsHonoured
  <1>1. TypeInv /\ StopInv /\ [Next]_vars => StopInv'
    BY NextStops
  <1>2. StopInv => StopIsHonoured
    BY DEF StopInv
  <1> QED
    BY <1>1, <1>2, InitStops, HandlersFitTheirJobs, PTL DEF Spec

\* A lead is read again only when it is there.
FoundInv ==
  /\ \A j \in JobIds : act[j].pc = "leadReread" => leads[PhoneOf(j)].exists
  /\ \A m \in Messages : ~GivenUp(m)

LEMMA NextFound ==
  ASSUME TypeInv, StopInv, FoundInv, ~Swallowed, [Next]_vars PROVE FoundInv'
  <1>1. ASSUME NEW j \in JobIds, act'[j].pc = "leadReread"
        PROVE  (leads[PhoneOf(j)].exists)'
    <2>1. act[j].pc = "leadReread" \/ LeadInsertCaught(j)
      <3>1. CASE act'[j] = act[j]
        BY <1>1, <3>1
      <3>2. CASE act'[j].pc = "idle"
        BY <1>1, <3>2
      <3>3. ASSUME NEW w \in Workers, Start(w, j) PROVE FALSE
        BY <1>1, <3>3, StartIs
      <3>4. CASE generateAiReply(j) \/ sendWhatsapp(j) \/ Return(j)
        <4>1. act'[j].pc \notin EventSteps
          BY <3>4, RowPlaces DEF generateAiReply, sendWhatsapp, EventSteps
        <4> QED
          BY <1>1, <4>1 DEF EventSteps
      <3>5. CASE processEvent(j)
        BY <1>1, <3>5, EventPlaces DEF processEvent
      <3> QED
        BY <3>1, <3>2, <3>3, <3>4, <3>5, HandlerCases DEF Handle
    <2>2. act[j].pc \in EventSteps /\ leads[PhoneOf(j)].exists
      BY <2>1 DEF FoundInv, LeadInsertCaught, EventSteps
    <2>3. PhoneOf(j) \in Phones /\ PhoneOf(j)' = PhoneOf(j)
      BY <2>2, Subject, EventStays DEF EventSteps
    <2> QED
      BY <2>2, <2>3, LeadsGrow
  <1>2. ASSUME NEW m \in Messages PROVE ~GivenUp(m)'
    <2>1. log' = log \/ \E j \in JobIds : LogOptIn(j) \/ LogOptOut(j) \/ LeadReread(j)
      BY StepKinds DEF ByQueue, ByOthers, ByHandler, tables
    <2>2. ASSUME NEW j \in JobIds, LeadReread(j) PROVE log' = log
      BY <2>2 DEF LeadReread, FoundInv
    <2> QED
      BY <2>1, <2>2 DEF FoundInv, GivenUp, LogOptIn, LogOptOut
  <1> QED
    BY <1>1, <1>2 DEF FoundInv

\* No race, crash or second attempt makes a handler give a customer up: it takes a
\* read that rejects and is taken for an empty one.
THEOREM NoStopIsGivenUp ==
  ASSUME ~Swallowed
  PROVE  Spec => [](\A m \in Messages : [event |-> m, action |-> "givenUp"] \notin log)
  <1>1. Init => FoundInv
    BY IdleFacts DEF Init, FoundInv, GivenUp
  <1>2. TypeInv /\ StopInv /\ FoundInv /\ [Next]_vars => FoundInv'
    BY NextFound
  <1>3. TypeInv /\ StopInv /\ [Next]_vars => StopInv'
    BY NextStops
  <1>4. FoundInv => \A m \in Messages : [event |-> m, action |-> "givenUp"] \notin log
    BY DEF FoundInv, GivenUp
  <1> QED
    BY <1>1, <1>2, <1>3, <1>4, InitStops, HandlersFitTheirJobs, PTL DEF Spec

================================================================================

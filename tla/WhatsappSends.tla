------------------------------ MODULE WhatsappSends ------------------------------
(***************************************************************************)
(* What becomes of a row of sends on the WhatsApp path, for every number   *)
(* of messages, customers, accounts, automations, templates, workers, jobs *)
(* and sends: one job carries it, it is posted more than once only after a *)
(* crash, it follows the life cycle of SendLifecycle, nobody forgets it,   *)
(* and what is billed for it was delivered.                                *)
(***************************************************************************)
EXTENDS WhatsappSafety, FiniteSetTheorems

--------------------------------------------------------------------------------
(* One job carries a row.                                                  *)

Sender(j, s) == /\ jobs[j].state # "none" /\ jobs[j].data.send = s
                /\ jobs[j].data.type \in {"generate-ai-reply", "send-whatsapp"}

WsJob(j) == jobs[j].state # "none" /\ jobs[j].data.type = "send-whatsapp"

CarriersInv ==
  /\ \A s \in SendIds : \A i, j \in JobIds : Sender(i, s) /\ Sender(j, s) => i = j
  /\ \A i, j \in JobIds : act[j].pc = "add" => ~Sender(i, act[j].send)
  /\ \A s \in SendIds : delivered[s] > 0 => \E j \in JobIds : Sender(j, s) /\ WsJob(j)
  /\ \A j \in JobIds : WsJob(j) => jobs[j].data.account = AccountOf(jobs[j].data.send)
  /\ \A j \in JobIds : jobs[j].state \in {"active", "completed"}
                         => jobs[j].data.type # "send-dm"

LEMMA InitCarriers == Init => CarriersInv
  <1> SUFFICES ASSUME Init PROVE CarriersInv
    OBVIOUS
  <1>1. \A j \in JobIds : jobs[j].state = "none" /\ act[j].pc = "idle"
    BY IdleFacts DEF Init, QueueInit, NoJob
  <1>2. \A s \in SendIds : delivered[s] = 0
    BY DEF Init
  <1> QED
    BY <1>1, <1>2 DEF CarriersInv, Sender, WsJob

\* The row of a handler, by the kind of step it is at.
LEMMA RowHandler ==
  ASSUME TypeInv, CarriersInv, NEW j \in JobIds, act[j].pc \in RowSteps
  PROVE  /\ act[j].send \in SendIds /\ act[j].send = jobs[j].data.send
         /\ Sender(j, act[j].send) /\ sends[act[j].send].status # "none"
         /\ act[j].pc \in WsSteps => WsJob(j)
  <1>1. /\ act[j].send \in SendIds /\ act[j].send = jobs[j].data.send
        /\ sends[act[j].send].status # "none"
    BY Subject DEF SendOf
  <1>2. jobs[j].state = "active"
    BY NotIdle, ActiveJob
  <1>3. /\ jobs[j].data.type # "process-event"
        /\ act[j].pc \in WsSteps => jobs[j].data.type = "send-whatsapp"
    BY HandlerType DEF Fits
  <1>4. jobs[j].data.type \in {"generate-ai-reply", "send-whatsapp"}
    BY <1>2, <1>3, HandlerType DEF JobOK, CarriersInv
  <1> QED
    BY <1>1, <1>2, <1>3, <1>4 DEF Sender, WsJob

LEMMA SenderStays ==
  ASSUME TypeInv, [Next]_vars, NEW k \in JobIds, NEW s, Sender(k, s)
  PROVE  Sender(k, s)' /\ (WsJob(k) => WsJob(k)')
  BY JobKept DEF Sender, WsJob

\* Where a job of a row comes from.
LEMMA SenderCases ==
  ASSUME TypeInv, [Next]_vars, NEW k \in JobIds, NEW s, Sender(k, s)'
  PROVE  \/ Sender(k, s) /\ jobs'[k].data = jobs[k].data
         \/ \E j \in JobIds : /\ AddSend(j) /\ act[j].pc = "add" /\ act[j].send = s
                              /\ NewJob(k) /\ jobs'[k].data = AnswerJob(j)
  <1>1. CASE jobs[k].state # "none"
    BY <1>1, JobKept DEF Sender
  <1>2. CASE NewJob(k)
    <2>1. ASSUME NEW m \in Messages, jobs'[k].data = ProcessEventJob(m) PROVE FALSE
      BY <2>1, JobTypes DEF Sender
    <2>2. ASSUME NEW j \in JobIds, jobs'[k].data = SendDMJob(act[j].send, None, act[j].text)
          PROVE  FALSE
      BY <2>2, JobTypes DEF Sender
    <2>3. ASSUME NEW j \in JobIds, AddSend(j), jobs'[k].data = AnswerJob(j)
          PROVE  act[j].pc = "add" /\ act[j].send = s
      BY <2>3, AnswerJobIs DEF Sender, AddSend
    <2> QED
      BY <1>2, <2>1, <2>2, <2>3, NewJobIs
  <1> QED
    BY <1>1, <1>2, JobCases DEF Sender, OldJob

\* Only an insert brings a handler to the point where it adds a job.
LEMMA ToAdd ==
  ASSUME TypeInv, [Next]_vars, NEW k \in JobIds, act'[k].pc = "add"
  PROVE  act'[k] = act[k] \/ InsertSend(k)
  <1>1. Handle(k) => InsertSend(k)
    BY EventPlaces, RowPlaces DEF Handle, processEvent, generateAiReply, sendWhatsapp
  <1>2. ASSUME NEW w \in Workers, Start(w, k) PROVE FALSE
    BY <1>2, StartIs
  <1> QED
    BY <1>1, <1>2, HandlerCases

\* Two handlers do not add a job for the same row.
LEMMA OneAdds ==
  ASSUME TypeInv, EventJobs, NEW i \in JobIds, NEW j \in JobIds, act[i].pc = "add",
         act[j].pc = "add", act[i].send = act[j].send
  PROVE  i = j
  <1>1. EventJob(i) /\ EventJob(j)
    BY Subject, ActiveJob DEF EventJob, EventSteps
  <1>2. EventOf(i) = EventOf(j)
    BY HandlerType DEF Fits, EventOf
  <1> QED
    BY <1>1, <1>2 DEF EventJobs

LEMMA NextCarriers ==
  ASSUME TypeInv, EventJobs, CarriersInv, [Next]_vars PROVE CarriersInv'
  <1>1. ASSUME NEW s \in SendIds, NEW i \in JobIds, NEW l \in JobIds,
               Sender(i, s)', Sender(l, s)'
        PROVE  i = l
    BY <1>1, SenderCases, OneNewJob DEF CarriersInv
  <1>2. ASSUME NEW i \in JobIds, NEW k \in JobIds, act'[k].pc = "add",
               NEW s, s = act'[k].send, Sender(i, s)'
        PROVE  FALSE
    <2>1. CASE act'[k] = act[k]
      <3>1. PICK j \in JobIds : AddSend(j) /\ act[j].pc = "add" /\ act[j].send = act[k].send
        BY <1>2, <2>1, SenderCases DEF CarriersInv
      <3>2. j = k
        BY <1>2, <2>1, <3>1, OneAdds
      <3> QED
        BY <1>2, <3>1, <3>2, EventPlaces
    <2>2. CASE InsertSend(k)
      <3>1. s \in SendIds /\ sends[s].status = "none" /\ sends'[s].status = "queued"
        BY <1>2, <2>2, InsertIs
      <3>2. ~Sender(i, s)
        BY <3>1, HandlerType DEF Sender, JobOK
      <3>3. PICK j \in JobIds : AddSend(j)
        BY <1>2, <3>2, SenderCases
      <3> QED
        BY <3>1, <3>3, QueryIs
    <2> QED
      BY <1>2, <2>1, <2>2, ToAdd
  <1>3. ASSUME NEW s \in SendIds, delivered'[s] > 0
        PROVE  \E j \in JobIds : Sender(j, s)' /\ WsJob(j)'
    <2>1. ASSUME NEW j \in JobIds, Posts(j), act[j].send = s
          PROVE  Sender(j, s) /\ WsJob(j)
      BY <2>1, PostIs, RowHandler DEF RowSteps, WsSteps
    <2>2. \E j \in JobIds : Sender(j, s) /\ WsJob(j)
      BY <1>3, <2>1, PostIs, DeliveredCases DEF CarriersInv
    <2> QED
      BY <2>2, SenderStays
  <1>4. ASSUME NEW k \in JobIds, WsJob(k)', NEW s, s = jobs'[k].data.send
        PROVE  jobs'[k].data.account = Message[sends'[s].event].account
    <2>1. Sender(k, s)'
      BY <1>4 DEF Sender, WsJob
    <2>2. CASE Sender(k, s) /\ jobs'[k].data = jobs[k].data
      <3>1. s \in SendIds /\ sends[s].status # "none" /\ WsJob(k)
        BY <1>4, <2>2, HandlerType DEF Sender, WsJob, JobOK
      <3> QED
        BY <1>4, <2>2, <3>1, RowsKeep DEF CarriersInv, AccountOf
    <2>3. ASSUME NEW j \in JobIds, act[j].pc = "add", act[j].send = s,
                 jobs'[k].data = AnswerJob(j)
          PROVE  jobs'[k].data.account = Message[sends'[s].event].account
      <3>1. s \in SendIds /\ sends[s].status # "none"
        BY <2>3, HandlerType DEF Fits
      <3>2. jobs'[k].data.account = AccountOf(s)
        BY <1>4, <2>3, AnswerJobIs DEF WsJob
      <3> QED
        BY <3>1, <3>2, RowsKeep DEF AccountOf
    <2> QED
      BY <1>4, <2>1, <2>2, <2>3, SenderCases
  <1>5. ASSUME NEW k \in JobIds, jobs'[k].state \in {"active", "completed"}
        PROVE  jobs'[k].data.type # "send-dm"
    <2>1. ASSUME NEW w \in Workers, Start(w, k), jobs'[k].data = jobs[k].data
          PROVE  jobs'[k].data.type # "send-dm"
      BY <2>1, StartIs
    <2> QED
      BY <1>5, <2>1, JobCases, NewJobIs DEF OldJob, CarriersInv
  <1>6. (\A i, j \in JobIds : act[j].pc = "add" => ~Sender(i, act[j].send))'
    BY <1>2 DEF Sender
  <1>7. (\A j \in JobIds : WsJob(j) => jobs[j].data.account = AccountOf(jobs[j].data.send))'
    BY <1>4 DEF WsJob, AccountOf
  <1> QED
    BY <1>1, <1>3, <1>5, <1>6, <1>7 DEF CarriersInv

LEMMA CarriersHold == Spec => []CarriersInv
  <1>1. AnswersInv => EventJobs
    BY DEF AnswersInv
  <1> QED
    BY <1>1, InitCarriers, NextCarriers, HandlersFitTheirJobs, AnswersHold, PTL DEF Spec

--------------------------------------------------------------------------------
(* How often a row is posted.                                              *)

Gates == {"wsLoad", "wsLead", "wsCap", "wsMode", "wsRate", "wsPost"}

BeforePost(j) == jobs[j].state = "waiting" \/ act[j].pc \in Gates

AttemptsInv ==
  \A j \in JobIds :
    WsJob(j) => delivered[jobs[j].data.send]
                  <= jobs[j].stalls + (IF BeforePost(j) THEN 0 ELSE 1)

LEMMA InitAttempts == Init => AttemptsInv
  <1> SUFFICES ASSUME Init PROVE AttemptsInv
    OBVIOUS
  <1>1. \A j \in JobIds : jobs[j].state = "none"
    BY DEF Init, QueueInit, NoJob
  <1> QED
    BY <1>1 DEF AttemptsInv, WsJob

\* Who posts a row has the one job that carries it.
LEMMA PostOf ==
  ASSUME TypeInv, CarriersInv, NEW j \in JobIds, Posts(j), NEW k \in JobIds,
         NEW s, Sender(k, s), act[j].send = s
  PROVE  j = k
  <1>1. act[j].pc = "wsPost" /\ s \in SendIds
    BY PostIs
  <1>2. Sender(j, s)
    BY <1>1, RowHandler DEF RowSteps, WsSteps
  <1> QED
    BY <1>1, <1>2 DEF CarriersInv

LEMMA StaysBeforePost ==
  ASSUME TypeInv, [Next]_vars, NEW k \in JobIds, jobs[k].state # "none"
  PROVE  /\ BeforePost(k)' => BeforePost(k) \/ jobs'[k].stalls = jobs[k].stalls + 1
         /\ Posts(k) => BeforePost(k) /\ ~BeforePost(k)'
  <1>1. ASSUME act'[k].pc \in Gates, ~BeforePost(k) PROVE FALSE
    <2>1. ASSUME NEW w \in Workers, Start(w, k) PROVE FALSE
      BY <1>1, <2>1, StartIs DEF BeforePost
    <2>2. Handle(k) => WsLoad(k) \/ WsLead(k) \/ WsCap(k) \/ WsMode(k) \/ WsRate(k)
      BY <1>1, EventPlaces, RowPlaces
      DEF Handle, processEvent, generateAiReply, sendWhatsapp, Gates
    <2>3. ~Handle(k)
      BY <1>1, <2>2 DEF BeforePost, Gates, WsLoad, WsLead, WsCap, WsMode, WsRate
    <2> QED
      BY <1>1, <2>1, <2>3, HandlerCases DEF BeforePost, Gates
  <1>2. ASSUME jobs'[k].state = "waiting", jobs[k].state # "waiting"
        PROVE  jobs'[k].stalls = jobs[k].stalls + 1
    BY <1>2, JobCases DEF OldJob, NewJob
  <1>3. ASSUME Posts(k) PROVE BeforePost(k) /\ ~BeforePost(k)'
    <2>1. act[k].pc = "wsPost" /\ jobs[k].state = "active" /\ jobs[k].worker # None
      BY <1>3, PostIs, ActiveJob
    <2>2. act'[k].pc \in {"costLead", "write", "idle"}
      BY <1>3, RowPlaces DEF Posts
    <2>3. jobs'[k].state # "waiting"
      BY <2>1, JobCases DEF OldJob, NewJob
    <2> QED
      BY <2>1, <2>2, <2>3 DEF BeforePost, Gates
  <1> QED
    BY <1>1, <1>2, <1>3 DEF BeforePost

LEMMA NextAttempts ==
  ASSUME TypeInv, CarriersInv, AttemptsInv, [Next]_vars PROVE AttemptsInv'
  <1> SUFFICES ASSUME NEW k \in JobIds, WsJob(k)', NEW s, s = jobs'[k].data.send
               PROVE  delivered'[s]
                        <= jobs'[k].stalls + (IF BeforePost(k)' THEN 0 ELSE 1)
    BY DEF AttemptsInv, BeforePost, WsJob
  <1>1. Sender(k, s)'
    BY DEF Sender, WsJob
  <1>2. s \in SendIds
    BY <1>1, SenderCases, HandlerType DEF Sender, JobOK, Fits
  <1>3. /\ delivered[s] \in Nat /\ jobs[k].stalls \in Nat
        /\ jobs'[k].stalls >= jobs[k].stalls \/ jobs[k].state = "none"
    BY <1>2, HandlerType, JobKept DEF TypeInv, TypeOK, Job
  <1>4. CASE Sender(k, s)
    <2>1. jobs[k].state # "none" /\ jobs[k].data.send = s /\ WsJob(k)
      BY <1>4, JobKept DEF Sender, WsJob
    <2>2. delivered[s] <= jobs[k].stalls + (IF BeforePost(k) THEN 0 ELSE 1)
      BY <2>1 DEF AttemptsInv
    <2>3. CASE Posts(k)
      <3>1. act[k].send = s
        BY <2>1, <2>3, PostIs
      <3>2. delivered'[s] = delivered[s] + 1 /\ BeforePost(k) /\ ~BeforePost(k)'
        BY <2>1, <2>3, <3>1, PostIs, StaysBeforePost
      <3>3. jobs'[k].stalls \in Nat /\ jobs'[k].stalls >= jobs[k].stalls
        BY <1>3, <2>1, JobCases DEF OldJob, NewJob
      <3> QED
        BY <1>3, <2>2, <3>2, <3>3
    <2>4. CASE ~Posts(k)
      <3>1. delivered'[s] = delivered[s]
        BY <1>2, <1>4, <2>4, DeliveredCases, PostIs, PostOf
      <3>2. jobs'[k].stalls \in Nat /\ jobs'[k].stalls >= jobs[k].stalls
        BY <1>3, <2>1, JobCases DEF OldJob, NewJob
      <3>3. BeforePost(k)' => BeforePost(k) \/ jobs'[k].stalls = jobs[k].stalls + 1
        BY <2>1, StaysBeforePost
      <3> QED
        BY <1>3, <2>2, <3>1, <3>2, <3>3
    <2> QED
      BY <2>3, <2>4
  <1>5. CASE ~Sender(k, s)
    <2>1. PICK j \in JobIds : /\ AddSend(j) /\ act[j].pc = "add" /\ act[j].send = s
                              /\ NewJob(k)
      BY <1>1, <1>5, SenderCases
    <2>2. ~(delivered[s] > 0)
      BY <1>2, <2>1 DEF CarriersInv
    <2>3. delivered' = delivered
      BY <2>1 DEF AddSend, tables
    <2>4. jobs'[k].stalls = 0
      BY <2>1, NewJobIs
    <2> QED
      BY <1>3, <2>2, <2>3, <2>4
  <1> QED
    BY <1>4, <1>5

LEMMA AttemptsHold == Spec => []AttemptsInv
  BY InitAttempts, NextAttempts, HandlersFitTheirJobs, CarriersHold, PTL DEF Spec

\* Meta takes a message more often than once only if the job that carries it was
\* handed out again after its worker had died: one extra message for one stall at
\* most, however the handlers, the stalled check and the crashes interleave.
THEOREM OnlyCrashesDuplicate == Spec => []DuplicatesNeedCrashes
  <1>1. ASSUME TypeInv, CarriersInv, AttemptsInv PROVE DuplicatesNeedCrashes
    <2> SUFFICES ASSUME NEW s \in SendIds, ~(delivered[s] <= 1)
                 PROVE  \E j \in JobIds : /\ Carries(j, s)
                                          /\ jobs[j].data.type = "send-whatsapp"
                                          /\ delivered[s] <= 1 + jobs[j].stalls
      BY DEF DuplicatesNeedCrashes
    <2>1. delivered[s] \in Nat
      BY <1>1 DEF TypeInv, TypeOK
    <2>2. PICK j \in JobIds : Sender(j, s) /\ WsJob(j)
      BY <1>1, <2>1 DEF CarriersInv
    <2>3. jobs[j].stalls \in Nat
      BY <1>1, HandlerType DEF Job
    <2>4. delivered[s] <= 1 + jobs[j].stalls
      BY <1>1, <2>1, <2>2, <2>3 DEF AttemptsInv, Sender
    <2> QED
      BY <2>2, <2>4 DEF Carries, Sender, WsJob
  <1> QED
    BY <1>1, HandlersFitTheirJobs, CarriersHold, AttemptsHold, PTL

--------------------------------------------------------------------------------
(* The life cycle of a row.                                                *)

CostSteps == {"costLead", "costCharge", "costLoad", "costInsert", "costReread", "costUpdate"}

\* Where a handler has read that the row is queued, and has not written yet.
Working == {"genAsk", "genContent", "genAdd", "wsLead", "wsCap", "wsMode", "wsRate",
            "wsPost", "write"} \cup CostSteps

\* Where Meta is known to have the message.
Accepted(j) == \/ act[j].pc \in CostSteps
               \/ act[j].pc = "write" /\ act[j].out = "sent"

StatusInv ==
  \A j \in JobIds : /\ act[j].pc \in Working => SendOf(j).status = "queued"
                    /\ Accepted(j) => delivered[act[j].send] > 0

LEMMA InitStatus == Init => StatusInv
  <1> SUFFICES ASSUME Init PROVE StatusInv
    OBVIOUS
  <1>1. \A j \in JobIds : act[j].pc = "idle"
    BY IdleFacts DEF Init
  <1> QED
    BY <1>1 DEF StatusInv, Working, Accepted, CostSteps

\* The handler of a row goes on working: it read that the row is queued, or knew it.
GoesOn(k) ==
  /\ act'[k].send = act[k].send
  /\ \/ act[k].pc \in Working \ {"write"}
     \/ act[k].pc \in {"genLoad", "wsLoad"} /\ SendOf(k).status = "queued"
  /\ act'[k].pc \in CostSteps \/ (act'[k].pc = "write" /\ act'[k].out = "sent")
       => act[k].pc \in CostSteps \/ PostAccepted(k)

LEMMA GenGoesOn ==
  ASSUME TypeInv, NEW k \in JobIds, generateAiReply(k), act'[k].pc \in Working
  PROVE  GoesOn(k)
  <1> USE DEF Working, CostSteps, GoesOn
  <1>1. act \in [JobIds -> Act]
    BY DEF TypeInv, TypeOK
  <1>2. ASSUME NEW o \in {"completed", "failed"}, Settled(k, o), sends' = sends PROVE FALSE
    BY <1>2, SettledIs
  <1>3. CASE GenLoad(k)
    BY <1>2, <1>3, GotoIs DEF GenLoad, tables
  <1>4. CASE GenAsk(k)
    <2>1. CASE Ends(k, "failed")
      BY <1>4, <2>1, EndsIs, ValueNames DEF GenAsk
    <2>2. CASE Becomes(k, [act[k] EXCEPT !.pc = "genContent", !.text = "ai"])
      BY <1>1, <1>4, <2>2 DEF GenAsk, Becomes, Act
    <2> QED
      BY <1>4, <2>1, <2>2 DEF GenAsk
  <1>5. CASE GenContent(k) \/ GenCaught(k) \/ GenAdd(k)
    BY <1>5, GotoIs DEF GenContent, GenCaught, GenAdd
  <1> QED
    BY <1>3, <1>4, <1>5 DEF generateAiReply

LEMMA WsGoesOn ==
  ASSUME TypeInv, NEW k \in JobIds, sendWhatsapp(k), act'[k].pc \in Working
  PROVE  GoesOn(k)
  <1> USE DEF Working, CostSteps
  <1>1. act \in [JobIds -> Act] /\ ValueNames!1
    BY ValueNames DEF TypeInv, TypeOK
  <1>2. ASSUME NEW o \in {"completed", "failed"}, Settled(k, o), sends' = sends PROVE FALSE
    BY <1>2, SettledIs
  <1>3. ASSUME NEW o \in Outcomes, Ends(k, o), act[k].pc \in Working \ {"write"},
               o = "sent" => act[k].pc \in CostSteps \/ PostAccepted(k)
        PROVE  GoesOn(k)
    BY <1>3, EndsIs DEF GoesOn
  <1>4. ASSUME NEW p, Goto(k, p), act[k].pc \in Working \ {"write"}, p # "write",
               p \in CostSteps => act[k].pc \in CostSteps \/ PostAccepted(k)
        PROVE  GoesOn(k)
    BY <1>4, GotoIs DEF GoesOn
  <1>5. CASE WsLoad(k)
    <2>1. SendOf(k).status = "queued" /\ act[k].pc = "wsLoad"
      BY <1>2, <1>5 DEF WsLoad, tables
    <2>2. Goto(k, "wsLead") \/ Ends(k, "failed")
      BY <1>2, <1>5 DEF WsLoad, tables
    <2> QED
      BY <2>1, <2>2, GotoIs, EndsIs, ValueNames DEF GoesOn
  <1>6. CASE WsLead(k)
    <2>1. ASSUME NEW b, Becomes(k, [act[k] EXCEPT !.pc = "wsCap", !.open = b])
          PROVE  act'[k].send = act[k].send /\ act'[k].pc = "wsCap"
      BY <1>1, <2>1 DEF Becomes, Act
    <2> QED
      BY <1>3, <1>4, <1>6, <2>1, ValueNames DEF WsLead, GoesOn
  <1>7. CASE WsCap(k) \/ WsMode(k) \/ WsRate(k) \/ PostRefused(k)
    BY <1>3, <1>4, <1>7, ValueNames DEF WsCap, WsMode, WsRate, PostRefused
  <1>8. CASE PostAccepted(k)
    BY <1>3, <1>4, <1>8, ValueNames DEF PostAccepted
  <1>9. CASE PostAnswerLost(k) \/ PostServerError(k)
    BY <1>2, <1>3, <1>9, ValueNames DEF PostAnswerLost, PostServerError, tables
  <1>10. CASE CostLead(k) \/ CostCharge(k) \/ CostInsert(k) \/ CostUpdate(k) \/ CostFails(k)
    BY <1>3, <1>4, <1>10, ValueNames
    DEF CostLead, CostCharge, CostInsert, CostUpdate, CostFails
  <1>11. CASE CostLoad(k)
    BY <1>1, <1>11 DEF CostLoad, Becomes, Act, GoesOn
  <1>12. CASE CostReread(k)
    <2>1. ASSUME NEW n, Becomes(k, [act[k] EXCEPT !.pc = "costUpdate", !.count = n])
          PROVE  act'[k].send = act[k].send /\ act'[k].pc = "costUpdate"
      BY <1>1, <2>1 DEF Becomes, Act
    <2> QED
      BY <1>3, <1>12, <2>1, ValueNames DEF CostReread, GoesOn
  <1>13. ~Write(k)
    BY RowPlaces
  <1> QED
    BY <1>5, <1>6, <1>7, <1>8, <1>9, <1>10, <1>11, <1>12, <1>13 DEF sendWhatsapp

\* What happens to a handler that works on a row.
LEMMA WorkingCases ==
  ASSUME TypeInv, [Next]_vars, NEW k \in JobIds, act'[k].pc \in Working
  PROVE  act'[k] = act[k] \/ (Handle(k) /\ GoesOn(k))
  <1>1. ASSUME NEW w \in Workers, Start(w, k) PROVE FALSE
    BY <1>1, StartIs DEF Working, CostSteps
  <1>2. ~processEvent(k) /\ ~Return(k)
    BY EventPlaces, RowPlaces DEF processEvent, Working, CostSteps
  <1>3. act'[k].pc # "idle"
    BY DEF Working, CostSteps
  <1>4. CASE Handle(k)
    <2>1. generateAiReply(k) \/ sendWhatsapp(k)
      BY <1>2, <1>4 DEF Handle
    <2> QED
      BY <1>4, <2>1, GenGoesOn, WsGoesOn
  <1> QED
    BY <1>1, <1>3, <1>4, HandlerCases

LEMMA DeliveredGrows ==
  ASSUME TypeInv, [Next]_vars, NEW s \in SendIds
  PROVE  delivered'[s] >= delivered[s] /\ delivered'[s] \in Nat /\ delivered[s] \in Nat
  <1>1. delivered[s] \in Nat
    BY DEF TypeInv, TypeOK
  <1> QED
    BY <1>1, DeliveredCases, PostIs

\* A row that is queued stays so until its handler writes.
LEMMA QueuedCases ==
  ASSUME TypeInv, [Next]_vars, NEW s \in SendIds, sends[s].status = "queued"
  PROVE  \/ sends'[s].status = "queued"
         \/ \E j \in JobIds : /\ Write(j) /\ act[j].send = s
                              /\ sends'[s].status = act[j].out
  <1>1. ASSUME NEW j \in JobIds, GenContent(j) \/ Write(j)
        PROVE  \/ sends'[s].status = "queued"
               \/ Write(j) /\ act[j].send = s /\ sends'[s].status = act[j].out
    BY <1>1, RowWrites
  <1> QED
    BY <1>1, RowsKeep

LEMMA NextStatus ==
  ASSUME TypeInv, CarriersInv, StatusInv, [Next]_vars PROVE StatusInv'
  <1>1. ASSUME NEW k \in JobIds, act'[k].pc \in Working
        PROVE  /\ act'[k].send \in SendIds
               /\ sends'[act'[k].send].status = "queued"
    <2>1. /\ act'[k].send = act[k].send /\ act[k].pc \in RowSteps
          /\ sends[act[k].send].status = "queued"
      <3>1. Working \subseteq RowSteps /\ {"genLoad", "wsLoad"} \subseteq RowSteps
        BY DEF Working, CostSteps, RowSteps, WsSteps, GenSteps
      <3>2. CASE act'[k] = act[k]
        BY <1>1, <3>1, <3>2 DEF StatusInv, SendOf
      <3>3. CASE GoesOn(k)
        BY <3>1, <3>3 DEF GoesOn, StatusInv, SendOf
      <3> QED
        BY <1>1, <3>2, <3>3, WorkingCases
    <2>2. act[k].send \in SendIds /\ Sender(k, act[k].send)
      BY <2>1, RowHandler
    <2>3. ASSUME NEW j \in JobIds, Write(j), act[j].send = act[k].send PROVE FALSE
      <3>1. act[j].pc \in RowSteps
        BY <2>3 DEF Write, RowSteps
      <3>2. j = k
        BY <2>2, <2>3, <3>1, RowHandler DEF CarriersInv
      <3> QED
        BY <1>1, <2>3, <3>2, RowPlaces DEF Working, CostSteps
    <2> QED
      BY <2>1, <2>2, <2>3, QueuedCases
  <1>2. ASSUME NEW k \in JobIds,
               act'[k].pc \in CostSteps \/ (act'[k].pc = "write" /\ act'[k].out = "sent")
        PROVE  delivered'[act'[k].send] > 0
    <2>1. act'[k].pc \in Working
      BY <1>2 DEF Working
    <2>2. act'[k].send \in SendIds
      BY <1>1, <2>1
    <2>3. CASE act'[k] = act[k]
      BY <1>2, <2>2, <2>3, DeliveredGrows DEF StatusInv, Accepted
    <2>4. CASE GoesOn(k)
      <3>1. act'[k].send = act[k].send /\ (act[k].pc \in CostSteps \/ PostAccepted(k))
        BY <1>2, <2>4 DEF GoesOn
      <3>2. CASE act[k].pc \in CostSteps
        BY <2>2, <3>1, <3>2, DeliveredGrows DEF StatusInv, Accepted
      <3>3. CASE PostAccepted(k)
        BY <2>2, <3>1, <3>3, PostIs, DeliveredGrows DEF Posts
      <3> QED
        BY <3>1, <3>2, <3>3
    <2> QED
      BY <2>1, <2>3, <2>4, WorkingCases
  <1> QED
    BY <1>1, <1>2 DEF StatusInv, SendOf, Accepted

LEMMA StatusHolds == Spec => []StatusInv
  BY InitStatus, NextStatus, HandlersFitTheirJobs, CarriersHold, PTL DEF Spec

\* The initial states and the steps of the life cycle.
LEMMA LifecycleInit == Init => Lifecycle!Init
  BY DEF Init, NoSend, Lifecycle!Init

LEMMA LifecycleStep ==
  ASSUME TypeInv, StatusInv, [Next]_vars
  PROVE  [Lifecycle!Next]_<<[s \in SendIds |-> sends[s].status], delivered>>
  <1> DEFINE status == [s \in SendIds |-> sends[s].status]
  <1> SUFFICES \/ UNCHANGED <<status, delivered>>
               \/ \E s \in SendIds : \/ Lifecycle!Insert(s) \/ Lifecycle!Post(s)
                                     \/ \E o \in Outcomes : Lifecycle!Resolve(s, o)
    BY DEF Lifecycle!Next, Lifecycle!Outcomes, Outcomes
  <1>1. CASE sends' = sends /\ delivered' = delivered
    BY <1>1
  <1>2. ASSUME NEW j \in JobIds, InsertSend(j)
        PROVE  \E s \in SendIds : Lifecycle!Insert(s)
    <2>1. PICK s \in SendIds :
            /\ sends[s].status = "none" /\ sends'[s].status = "queued"
            /\ \A r \in SendIds : r # s => sends'[r] = sends[r]
      BY <1>2, InsertIs
    <2>2. delivered' = delivered
      BY <1>2 DEF InsertSend
    <2>3. status' = [status EXCEPT ![s] = "queued"]
      BY <2>1
    <2>4. Lifecycle!Insert(s)
      BY <2>1, <2>2, <2>3 DEF Lifecycle!Insert
    <2> QED
      BY <2>4
  <1>3. ASSUME NEW j \in JobIds, GenContent(j) PROVE UNCHANGED <<status, delivered>>
    <2>1. \A r \in SendIds : sends'[r].status = sends[r].status
      BY <1>3, RowWrites
    <2> QED
      BY <1>3, <2>1 DEF GenContent
  <1>4. ASSUME NEW j \in JobIds, Posts(j)
        PROVE  Lifecycle!Post(act[j].send) /\ act[j].send \in SendIds
    <2>1. /\ act[j].pc = "wsPost" /\ sends' = sends /\ act[j].send \in SendIds
      BY <1>4, PostIs
    <2>2. sends[act[j].send].status = "queued"
      BY <2>1 DEF StatusInv, Working, SendOf
    <2>3. delivered' = [delivered EXCEPT ![act[j].send] = @ + 1]
      BY <1>4 DEF Posts, PostAccepted, PostAnswerLost, Delivered
    <2> QED
      BY <2>1, <2>2, <2>3 DEF Lifecycle!Post
  <1>5. ASSUME NEW j \in JobIds, Write(j)
        PROVE  \E s \in SendIds : \E o \in Outcomes : Lifecycle!Resolve(s, o)
    <2>1. act[j].pc = "write" /\ delivered' = delivered
      BY <1>5 DEF Write
    <2>2. PICK s \in SendIds, o \in Outcomes : s = act[j].send /\ o = act[j].out
      BY <2>1, Subject, HandlerType DEF RowSteps, Fits
    <2>3. sends[s].status = "queued" /\ (o = "sent" => delivered[s] > 0)
      BY <2>1, <2>2 DEF StatusInv, Working, Accepted, SendOf
    <2>4. status' = [status EXCEPT ![s] = o]
      BY <1>5, <2>2, RowWrites
    <2>5. Lifecycle!Resolve(s, o)
      BY <2>1, <2>3, <2>4 DEF Lifecycle!Resolve
    <2> QED
      BY <2>5
  <1>6. \/ sends' = sends
        \/ \E j \in JobIds : InsertSend(j) \/ GenContent(j) \/ Write(j)
    BY StepKinds DEF ByQueue, ByOthers, ByHandler, tables
  <1>7. CASE \E j \in JobIds : Posts(j)
    BY <1>4, <1>7
  <1>8. CASE sends' = sends /\ ~\E j \in JobIds : Posts(j)
    BY <1>1, <1>8, DeliveredCases
  <1>9. CASE \E j \in JobIds : InsertSend(j)
    BY <1>2, <1>9
  <1>10. CASE \E j \in JobIds : GenContent(j)
    BY <1>3, <1>10
  <1>11. CASE \E j \in JobIds : Write(j)
    BY <1>5, <1>11
  <1> QED
    BY <1>6, <1>7, <1>8, <1>9, <1>10, <1>11

\* The rows of WhatsApp messages implement SendLifecycle: a message is posted only
\* while its row is queued, its outcome is written once, and "sent" only after Meta
\* has taken it, for every number of workers, crashes and second attempts.
THEOREM SendsKeepTheLifecycle == Spec => SendsFollowLifecycle
  <1>1. Spec => [][Lifecycle!Next]_<<[s \in SendIds |-> sends[s].status], delivered>>
    BY LifecycleStep, HandlersFitTheirJobs, StatusHolds, PTL DEF Spec
  <1> QED
    BY <1>1, LifecycleInit, PTL DEF Spec, SendsFollowLifecycle, Lifecycle!Spec

--------------------------------------------------------------------------------
(* Nobody forgets a row.                                                   *)

\* A reply of the AI that was queued for Instagram keeps its row in sight: the worker
\* refuses the job.
DmJob(i, s) == /\ jobs[i].state \in {"waiting", "failed"}
               /\ jobs[i].data.type = "send-dm" /\ jobs[i].data.send = s

\* The row of a handler that is done.
Done(s) == sends[s].status # "queued" \/ \E i \in JobIds : DmJob(i, s)

\* The job of event m broke off, or lost its worker.
BrokeOff(j, m) ==
  /\ EventJob(j) /\ jobs[j].data = ProcessEventJob(m)
  /\ \/ jobs[j].stalls > 0 \/ jobs[j].state = "failed"
     \/ jobs[j].state = "active" /\ jobs[j].worker = None

InSight(s) ==
  \/ \E j \in JobIds : Carries(j, s) /\ (Live(j) \/ jobs[j].state = "failed")
  \/ \E j \in JobIds : act[j].pc = "add" /\ act[j].send = s
  \/ \E j \in JobIds : BrokeOff(j, sends[s].event)

SightInv ==
  /\ \A j \in JobIds : act[j].pc = "return" /\ ~EventJob(j) => Done(jobs[j].data.send)
  /\ \A s \in SendIds : sends[s].status = "queued" => InSight(s)

LEMMA InitSight == Init => SightInv
  <1> SUFFICES ASSUME Init PROVE SightInv
    OBVIOUS
  <1>1. \A j \in JobIds : act[j].pc = "idle"
    BY IdleFacts DEF Init
  <1>2. \A s \in SendIds : sends[s].status = "none"
    BY DEF Init, NoSend
  <1> QED
    BY <1>1, <1>2 DEF SightInv

LEMMA DmJobStays ==
  ASSUME TypeInv, [Next]_vars, NEW i \in JobIds, NEW s, DmJob(i, s)
  PROVE  DmJob(i, s)'
  <1>1. ~\E w \in Workers : Start(w, i)
    BY StartIs DEF DmJob
  <1>2. jobs[i].state # "active"
    BY DEF DmJob
  <1>3. CASE jobs'[i] = jobs[i]
    BY <1>3 DEF DmJob
  <1>4. CASE OldJob(i)
    <2>1. jobs'[i].data = jobs[i].data /\ jobs'[i].state = "failed"
      BY <1>1, <1>2, <1>4 DEF OldJob
    <2> QED
      BY <2>1 DEF DmJob
  <1>5. ~NewJob(i)
    BY DEF NewJob, DmJob
  <1> QED
    BY <1>3, <1>4, <1>5, JobCases

LEMMA BrokeOffStays ==
  ASSUME TypeInv, [Next]_vars, NEW j \in JobIds, NEW m, BrokeOff(j, m)
  PROVE  BrokeOff(j, m)'
  <1>1. EventJob(j)' /\ jobs'[j].data = jobs[j].data
    BY JobKept DEF BrokeOff, EventJob
  <1>2. jobs[j].stalls \in Nat /\ jobs'[j].stalls >= jobs[j].stalls
    BY HandlerType, JobKept DEF BrokeOff, EventJob, Job
  <1>3. jobs'[j].stalls \in Nat
    BY <1>2, JobCases, NewJobIs DEF OldJob
  <1>4. CASE jobs[j].stalls > 0
    BY <1>1, <1>2, <1>3, <1>4 DEF BrokeOff
  <1>5. CASE jobs[j].state = "failed"
    <2>1. jobs'[j] = jobs[j]
      BY <1>5, JobCases DEF OldJob, NewJob
    <2> QED
      BY <1>1, <1>5, <2>1 DEF BrokeOff
  <1>6. CASE jobs[j].state = "active" /\ jobs[j].worker = None
    <2>1. act[j].pc = "idle"
      BY <1>6, ActiveJob
    <2>2. \/ jobs'[j] = jobs[j]
          \/ jobs'[j].stalls = jobs[j].stalls + 1
          \/ jobs'[j].state = "failed"
          \/ jobs'[j].state = "active" /\ jobs'[j].worker = None
      BY <1>6, <2>1, JobCases DEF OldJob, NewJob
    <2> QED
      BY <1>1, <1>2, <1>6, <2>2 DEF BrokeOff
  <1> QED
    BY <1>4, <1>5, <1>6 DEF BrokeOff

LEMMA IdleBySettling ==
  ASSUME TypeInv, NEW k \in JobIds, Handle(k) \/ Throw(k), act'[k].pc = "idle"
  PROVE  Settled(k, "failed") \/ (Settled(k, "completed") /\ Finishes(k))
  <1>1. ASSUME NEW p, Goto(k, p), p # "idle" PROVE FALSE
    BY <1>1, GotoIs
  <1>2. ~Ends(k, "failed")
    BY EndsIs, ValueNames
  <1>3. Handle(k) => \/ Load(k) \/ InsertFails(k) \/ GenLoad(k) \/ WsLoad(k)
                     \/ PostAnswerLost(k) \/ PostServerError(k) \/ Return(k)
    BY EventPlaces, RowPlaces DEF Handle, processEvent, generateAiReply, sendWhatsapp
  <1>4. CASE Load(k)
    <2>1. CASE ~events[EventOf(k)].processed
      <3>1. EventOf(k) \in Messages
        BY <1>4, Subject DEF Load, EventSteps
      <3>2. Message[EventOf(k)].kind \in Kinds
        BY <3>1, WhatsappAssumption
      <3> QED
        BY <1>1, <1>4, <2>1, <3>2 DEF Load, Kinds
    <2> QED
      BY <1>4, <2>1 DEF Load, Finishes
  <1>5. CASE InsertFails(k) \/ PostServerError(k) \/ Throw(k)
    BY <1>5 DEF InsertFails, PostServerError, Throw
  <1>6. CASE GenLoad(k) \/ WsLoad(k)
    BY <1>1, <1>2, <1>6 DEF GenLoad, WsLoad, Finishes
  <1>7. CASE PostAnswerLost(k) \/ Return(k)
    BY <1>2, <1>7 DEF PostAnswerLost, Return, Finishes
  <1> QED
    BY <1>3, <1>4, <1>5, <1>6, <1>7

\* A handler that breaks off, or is lost with its worker.
LEMMA BreaksOff ==
  ASSUME TypeInv, [Next]_vars, NEW k \in JobIds, act[k].pc # "idle", act'[k].pc = "idle"
  PROVE  \/ jobs'[k].state = "failed"
         \/ jobs'[k].state = "active" /\ jobs'[k].worker = None
         \/ jobs'[k].state = "completed" /\ Finishes(k)
  <1>1. CASE ByQueue
    <2>1. ASSUME NEW w \in Workers, NEW j \in JobIds, Start(w, j) PROVE FALSE
      BY <2>1, StartIs, ActiveJob
    <2>2. ASSUME NEW w \in Workers, Crash(w)
          PROVE  jobs'[k].state = "active" /\ jobs'[k].worker = None
      <3>1. jobs[k].state = "active" /\ jobs[k].worker = w
        BY <2>2, ActiveJob DEF Crash
      <3> QED
        BY <2>2, <3>1 DEF Crash, Lose, TypeInv, TypeOK, Job
    <2> QED
      BY <1>1, <2>1, <2>2 DEF ByQueue, Refuse, Stalled
  <1>2. CASE ByOthers
    BY <1>2 DEF ByOthers
  <1>3. ASSUME NEW j \in JobIds, ByHandler(j), Handle(j) \/ Throw(j)
        PROVE  \/ jobs'[k].state = "failed"
               \/ jobs'[k].state = "completed" /\ Finishes(k)
    <2>1. j = k
      BY <1>3 DEF ByHandler
    <2>2. Settled(k, "failed") \/ (Settled(k, "completed") /\ Finishes(k))
      BY <1>3, <2>1, IdleBySettling
    <2> QED
      BY <2>2 DEF Settled, Settle, TypeInv, TypeOK, Job
  <1> QED
    BY <1>1, <1>2, <1>3, StepKinds

LEMMA AtAdd ==
  ASSUME NEW k \in JobIds, Handle(k), act[k].pc = "add"
  PROVE  AddSend(k)
  <1>1. ~generateAiReply(k)
    BY DEF generateAiReply, GenLoad, GenAsk, GenContent, GenCaught, GenAdd
  <1>2. ~sendWhatsapp(k)
    BY DEF sendWhatsapp, WsLoad, WsLead, WsCap, WsMode, WsRate, PostAccepted,
           PostAnswerLost, PostRefused, PostServerError, CostLead, CostCharge, CostLoad,
           CostInsert, CostReread, CostUpdate, CostFails, Write
  <1>3. processEvent(k) => AddSend(k)
    BY DEF processEvent, Load, LeadLoad, LeadRefresh, LeadInsert, LogOptIn,
           LeadInsertCaught, LeadReread, OptOut, LogOptOut, Dedupe, QueryAutomations,
           Match, MatchingDone, InsertSend, InsertFails, TemplateLoad, TemplateApply,
           MarkProcessed
  <1> QED
    BY <1>1, <1>2, <1>3 DEF Handle, Return

\* A handler that is done with a row leaves it resolved, or with an AI reply's job.
LEMMA NextDone ==
  ASSUME TypeInv, CarriersInv, SightInv, [Next]_vars, NEW k \in JobIds,
         act'[k].pc = "return", ~EventJob(k)', NEW s, s = jobs'[k].data.send
  PROVE  Done(s)'
  <1>1. ASSUME NEW r \in SendIds, sends[r].status \notin {"none", "queued"}
        PROVE  sends'[r].status # "queued"
    <2>1. ASSUME NEW j \in JobIds, Write(j) PROVE act[j].out \in Outcomes
      BY <2>1, HandlerType DEF Write, Fits
    <2> QED
      BY <1>1, <2>1, RowsKeep, RowWrites, ValueNames
  <1>2. ASSUME act[k].pc # "idle"
        PROVE  jobs'[k].data = jobs[k].data /\ ~EventJob(k) /\ jobs[k].state # "none"
    BY <1>2, ActiveJob, JobKept DEF EventJob
  <1>3. CASE act'[k] = act[k]
    <2>1. s \in SendIds /\ sends[s].status # "none"
      BY <1>2, <1>3, HandlerType DEF JobOK, EventJob
    <2>2. Done(s)
      BY <1>2, <1>3 DEF SightInv
    <2> QED
      BY <1>1, <2>1, <2>2, DmJobStays DEF Done
  <1>4. CASE Write(k)
    <2>1. /\ act[k].pc = "write" /\ act[k].pc \in RowSteps /\ act[k].out \in Outcomes
      BY <1>4, HandlerType DEF Write, RowSteps, Fits
    <2>2. act[k].send = s /\ s \in SendIds
      BY <1>2, <2>1, RowHandler
    <2>3. sends'[s].status = act[k].out
      BY <1>4, <2>2, RowWrites
    <2> QED
      BY <2>1, <2>3, ValueNames DEF Done
  <1>5. CASE GenAdd(k)
    <2>1. act[k].pc = "genAdd" /\ act[k].pc \in RowSteps
      BY <1>5 DEF GenAdd, RowSteps, GenSteps
    <2>2. act[k].send = s
      BY <1>2, <2>1, RowHandler
    <2>3. PICK i \in JobIds : Add(i, SendDMJob(act[k].send, None, act[k].text))
      BY <1>5 DEF GenAdd
    <2>4. jobs'[i] = Added(SendDMJob(s, None, act[k].text))
      BY <2>2, <2>3 DEF Add, Added, TypeInv, TypeOK
    <2> QED
      BY <2>4, JobTypes DEF Done, DmJob
  <1>6. CASE MarkProcessed(k)
    <2>1. EventJob(k) /\ jobs'[k].data = jobs[k].data
      BY <1>6, Subject, ActiveJob, JobKept DEF MarkProcessed, EventSteps, EventJob
    <2> QED
      BY <1>2, <2>1, <1>6 DEF MarkProcessed
  <1>7. ASSUME NEW w \in Workers, Start(w, k) PROVE FALSE
    BY <1>7, StartIs
  <1>8. Handle(k) => Write(k) \/ GenAdd(k) \/ MarkProcessed(k)
    BY EventPlaces, RowPlaces DEF Handle, processEvent, generateAiReply, sendWhatsapp
  <1> QED
    BY <1>3, <1>4, <1>5, <1>6, <1>7, <1>8, HandlerCases

\* A job that carries a queued row is not completed before the row is.
LEMMA CarrierStays ==
  ASSUME TypeInv, EventJobs, CarriersInv, SightInv, [Next]_vars, NEW s \in SendIds,
         sends[s].status = "queued", sends'[s].status = "queued",
         NEW j \in JobIds, Carries(j, s), Live(j) \/ jobs[j].state = "failed"
  PROVE  \E i \in JobIds : Carries(i, s)' /\ (Live(i)' \/ jobs'[i].state = "failed")
  <1>1. Carries(j, s)'
    BY JobKept DEF Carries
  <1>2. CASE Live(j)' \/ jobs'[j].state = "failed"
    BY <1>1, <1>2
  <1>3. CASE ~(Live(j)' \/ jobs'[j].state = "failed")
    <2>1. /\ jobs'[j].state = "completed" /\ Finishes(j) /\ jobs[j].state = "active"
          /\ act'[j].pc = "idle"
      BY <1>3, JobCases DEF OldJob, NewJob, Live, Carries
    <2>2. ~EventJob(j)
      BY JobTypes DEF EventJobs, Carries, SendIds
    <2>3. ~Load(j)
      BY <2>1, <2>2, Subject DEF Load, EventSteps, EventJob
    <2>4. ASSUME GenLoad(j) \/ WsLoad(j) PROVE FALSE
      <3>1. act[j].pc \in RowSteps
        BY <2>4 DEF GenLoad, WsLoad, RowSteps, GenSteps, WsSteps
      <3>2. act[j].send = s
        BY <3>1, RowHandler DEF Carries
      <3>3. jobs' = jobs
        BY <2>4, <3>2 DEF GenLoad, WsLoad, SendOf
      <3> QED
        BY <2>1, <3>3
    <2>5. Return(j)
      BY <2>1, <2>3, <2>4 DEF Finishes
    <2>6. PICK i \in JobIds : DmJob(i, s)
      BY <2>2, <2>5 DEF Return, SightInv, Done, Carries
    <2>7. DmJob(i, s)'
      BY <2>6, DmJobStays
    <2> QED
      BY <2>7 DEF DmJob, Carries, Live
  <1> QED
    BY <1>2, <1>3

\* A row that waits for its job to be added gets it, unless its event's job breaks off.
LEMMA AdderStays ==
  ASSUME TypeInv, EventJobs, [Next]_vars, NEW s \in SendIds,
         NEW j \in JobIds, act[j].pc = "add", act[j].send = s
  PROVE  \/ \E i \in JobIds : Carries(i, s)' /\ Live(i)'
         \/ act'[j].pc = "add" /\ act'[j].send = s
         \/ BrokeOff(j, sends[s].event)'
  <1>1. EventJob(j) /\ jobs[j].data = ProcessEventJob(EventOf(j))
    BY Subject, ActiveJob DEF EventJobs, EventJob, EventSteps
  <1>2. /\ sends[s].event = EventOf(j) /\ sends[s].status # "none"
        /\ jobs[j].state = "active"
    BY HandlerType DEF Fits, EventOf
  <1>3. CASE act'[j] = act[j]
    BY <1>3
  <1>4. CASE act'[j].pc = "idle"
    <2>1. ~Finishes(j)
      BY DEF Finishes, Load, GenLoad, WsLoad, Return
    <2>2. \/ jobs'[j].state = "failed"
          \/ jobs'[j].state = "active" /\ jobs'[j].worker = None
      BY <1>4, <2>1, BreaksOff
    <2>3. jobs'[j].data = jobs[j].data /\ EventJob(j)' /\ sends'[s].event = sends[s].event
      BY <1>1, <1>2, JobKept, RowsKeep DEF EventJob
    <2> QED
      BY <1>1, <1>2, <2>2, <2>3 DEF BrokeOff
  <1>5. CASE AddSend(j)
    <2>1. PICK i \in JobIds : Add(i, AnswerJob(j))
      BY <1>5 DEF AddSend, AnswerJob
    <2>2. jobs'[i] = Added(AnswerJob(j))
      BY <2>1 DEF Add, Added, TypeInv, TypeOK
    <2> QED
      BY <2>2, JobTypes, AnswerJobIs DEF Carries, Live
  <1>6. ASSUME NEW w \in Workers, Start(w, j) PROVE FALSE
    BY <1>2, <1>6, StartIs
  <1> QED
    BY <1>3, <1>4, <1>5, <1>6, AtAdd, HandlerCases

LEMMA NextSight ==
  ASSUME TypeInv, EventJobs, CarriersInv, SightInv, [Next]_vars PROVE SightInv'
  <1>1. (\A j \in JobIds : act[j].pc = "return" /\ ~EventJob(j) => Done(jobs[j].data.send))'
    BY NextDone DEF Done, DmJob
  <1>2. ASSUME NEW s \in SendIds, sends'[s].status = "queued"
        PROVE  InSight(s)'
    <2>1. ASSUME NEW j \in JobIds, InsertSend(j), act'[j].send = s PROVE InSight(s)'
      BY <2>1, InsertIs DEF InSight
    <2>2. CASE sends[s].status = "queued"
      <3>1. sends'[s].event = sends[s].event
        BY <2>2, RowsKeep
      <3>2. CASE \E j \in JobIds : Carries(j, s) /\ (Live(j) \/ jobs[j].state = "failed")
        BY <1>2, <2>2, <3>2, CarrierStays DEF InSight
      <3>3. CASE \E j \in JobIds : act[j].pc = "add" /\ act[j].send = s
        BY <3>3, AdderStays DEF InSight
      <3>4. CASE \E j \in JobIds : BrokeOff(j, sends[s].event)
        BY <3>1, <3>4, BrokeOffStays DEF InSight, BrokeOff
      <3> QED
        BY <2>2, <3>2, <3>3, <3>4 DEF SightInv, InSight
    <2>3. ASSUME sends[s].status # "queued", NEW j \in JobIds, GenContent(j) \/ Write(j)
          PROVE  FALSE
      <3>1. Write(j) => act[j].out \in Outcomes
        BY HandlerType DEF Write, Fits
      <3> QED
        BY <1>2, <2>3, <3>1, RowWrites, ValueNames
    <2> QED
      BY <1>2, <2>1, <2>2, <2>3, RowsKeep
  <1> QED
    BY <1>1, <1>2 DEF SightInv

LEMMA SightHolds == Spec => []SightInv
  <1>1. AnswersInv => EventJobs
    BY DEF AnswersInv
  <1> QED
    BY <1>1, InitSight, NextSight, HandlersFitTheirJobs, AnswersHold, CarriersHold, PTL
    DEF Spec

\* A row that says "queued" is never out of sight: a live or failed job carries it, or
\* a handler is about to add one, or the job of its event broke off or lost its worker.
THEOREM NoQueuedRowIsForgotten == Spec => []QueuedSendAccountedFor
  <1>1. SightInv => QueuedSendAccountedFor
    BY DEF SightInv, InSight, BrokeOff, EventJob, QueuedSendAccountedFor
  <1> QED
    BY <1>1, SightHolds, PTL

--------------------------------------------------------------------------------
(* What is billed.                                                         *)

Counting(acc) == {j \in JobIds : act[j].pc \in CostSteps /\ jobs[j].data.account = acc}

\* The conversations of an account and those about to be counted, against its
\* deliveries; and the same of a count that a handler has read.
CostInv ==
  \A acc \in Accounts :
    /\ IsFiniteSet(Deliveries(acc))
    /\ costs[acc] + Cardinality(Counting(acc)) <= Cardinality(Deliveries(acc))
    /\ \A j \in Counting(acc) : act[j].pc = "costUpdate" =>
         act[j].count + Cardinality(Counting(acc)) <= Cardinality(Deliveries(acc))

LEMMA FiniteJobs == IsFiniteSet(JobIds) /\ IsFiniteSet(SendIds)
  BY QueueAssumption, FS_Interval DEF JobIds, SendIds

LEMMA FiniteCounting ==
  ASSUME NEW acc
  PROVE  IsFiniteSet(Counting(acc)) /\ Cardinality(Counting(acc)) \in Nat
  <1>1. Counting(acc) \subseteq JobIds
    BY DEF Counting
  <1> QED
    BY <1>1, FiniteJobs, FS_Subset, FS_CardinalityType

LEMMA OneMore ==
  ASSUME NEW S, IsFiniteSet(S), NEW x, NEW T, T = S \cup {x}
  PROVE  /\ IsFiniteSet(T) /\ Cardinality(T) <= Cardinality(S) + 1
         /\ x \notin S => Cardinality(T) = Cardinality(S) + 1
  <1>1. /\ IsFiniteSet(S \cup {x})
        /\ Cardinality(S \cup {x})
             = IF x \in S THEN Cardinality(S) ELSE Cardinality(S) + 1
    BY FS_AddElement
  <1>2. Cardinality(S) \in Nat
    BY FS_CardinalityType
  <1> QED
    BY <1>1, <1>2

LEMMA InDeliveries ==
  ASSUME NEW acc, NEW x
  PROVE  x \in Deliveries(acc) <=>
           \E s \in SendIds : \E n \in 1 .. delivered[s] :
             /\ x = <<s, n>> /\ sends[s].status # "none" /\ sends[s].template # None
             /\ AccountOf(s) = acc
  BY DEF Deliveries

LEMMA InitCosts == Init => CostInv
  <1> SUFFICES ASSUME Init, NEW acc \in Accounts
               PROVE  /\ IsFiniteSet(Deliveries(acc))
                      /\ costs[acc] + Cardinality(Counting(acc))
                           <= Cardinality(Deliveries(acc))
                      /\ Counting(acc) = {}
    BY DEF CostInv
  <1>1. Deliveries(acc) = {}
    BY InDeliveries DEF Init, NoSend
  <1>2. Counting(acc) = {}
    BY IdleFacts DEF Init, Counting, CostSteps
  <1>3. costs[acc] = 0
    BY DEF Init
  <1> QED
    BY <1>1, <1>2, <1>3, FS_EmptySet

\* What an accepted message adds.
LEMMA PostDelivers ==
  ASSUME TypeInv, NEW j \in JobIds, Posts(j), NEW acc \in Accounts
  PROVE  LET s == act[j].send
         IN  IF sends[s].template # None /\ AccountOf(s) = acc
               THEN /\ Deliveries(acc)' = Deliveries(acc) \cup {<<s, delivered[s] + 1>>}
                    /\ <<s, delivered[s] + 1>> \notin Deliveries(acc)
               ELSE Deliveries(acc)' = Deliveries(acc)
  <1> DEFINE s == act[j].send
  <1>1. /\ s \in SendIds /\ sends[s].status # "none" /\ sends' = sends
        /\ delivered'[s] = delivered[s] + 1 /\ delivered[s] \in Nat
        /\ \A r \in SendIds : r # s => delivered'[r] = delivered[r]
    BY PostIs DEF TypeInv, TypeOK
  <1> HIDE DEF s
  <1>2. \A x : x \in Deliveries(acc)' <=>
          \E r \in SendIds : \E n \in 1 .. delivered'[r] :
             /\ x = <<r, n>> /\ sends[r].status # "none" /\ sends[r].template # None
             /\ AccountOf(r) = acc
    BY <1>1 DEF Deliveries, AccountOf
  <1>3. <<s, delivered[s] + 1>> \notin Deliveries(acc)
    BY <1>1, InDeliveries
  <1>4. CASE sends[s].template # None /\ AccountOf(s) = acc
    <2>1. \A x : x \in Deliveries(acc)' <=> x \in Deliveries(acc) \/ x = <<s, delivered[s] + 1>>
      BY <1>1, <1>2, <1>4, InDeliveries
    <2> QED
      BY <1>3, <1>4, <2>1 DEF s
  <1>5. CASE ~(sends[s].template # None /\ AccountOf(s) = acc)
    <2>1. \A x : x \in Deliveries(acc)' <=> x \in Deliveries(acc)
      BY <1>1, <1>2, <1>5, InDeliveries
    <2> QED
      BY <1>5, <2>1 DEF s
  <1> QED
    BY <1>4, <1>5

LEMMA SameDeliveries ==
  ASSUME TypeInv, ApprovalsInv, [Next]_vars, delivered' = delivered, NEW acc \in Accounts
  PROVE  Deliveries(acc)' = Deliveries(acc)
  <1>1. ASSUME NEW r \in SendIds, NEW n \in 1 .. delivered[r] PROVE sends[r].status # "none"
    BY <1>1 DEF ApprovalsInv, TypeInv, TypeOK
  <1>2. \A x : x \in Deliveries(acc)' <=>
          \E r \in SendIds : \E n \in 1 .. delivered[r] :
             /\ x = <<r, n>> /\ sends'[r].status # "none" /\ sends'[r].template # None
             /\ Message[sends'[r].event].account = acc
    BY DEF Deliveries, AccountOf
  <1>3. \A x : x \in Deliveries(acc)' <=> x \in Deliveries(acc)
    BY <1>1, <1>2, InDeliveries, RowsKeep DEF AccountOf
  <1> QED
    BY <1>3

\* Who is about to count.
LEMMA ToCounting ==
  ASSUME TypeInv, [Next]_vars, NEW acc, NEW k \in JobIds, act'[k].pc \in CostSteps,
         jobs'[k].data.account = acc
  PROVE  \/ k \in Counting(acc)
         \/ /\ PostAccepted(k) /\ sends[act[k].send].template # None
            /\ jobs[k].data.account = acc
  <1>1. act'[k].pc \in Working
    BY DEF Working
  <1>2. CASE act'[k] = act[k]
    <2>1. act[k].pc # "idle"
      BY <1>2 DEF CostSteps
    <2>2. jobs'[k].data = jobs[k].data
      BY <2>1, ActiveJob, JobKept
    <2> QED
      BY <1>2, <2>2 DEF Counting
  <1>3. CASE GoesOn(k)
    <2>1. act[k].pc \in CostSteps \/ PostAccepted(k)
      BY <1>3 DEF GoesOn
    <2>2. act[k].pc # "idle"
      BY <2>1 DEF PostAccepted, CostSteps
    <2>3. jobs'[k].data = jobs[k].data
      BY <2>2, ActiveJob, JobKept
    <2>4. ASSUME PostAccepted(k) PROVE sends[act[k].send].template # None
      <3>1. ~Ends(k, "sent")
        BY EndsIs, ValueNames DEF CostSteps
      <3> QED
        BY <2>4, <3>1 DEF PostAccepted, SendOf
    <2> QED
      BY <2>1, <2>3, <2>4 DEF Counting
  <1> QED
    BY <1>1, <1>2, <1>3, WorkingCases

\* A count that a handler is to write was read from the row.
LEMMA ToCostUpdate ==
  ASSUME TypeInv, [Next]_vars, NEW k \in JobIds, act'[k].pc = "costUpdate"
  PROVE  \/ act'[k] = act[k]
         \/ /\ act'[k].count = costs[jobs[k].data.account]
            /\ UNCHANGED <<costs, delivered, jobs>> /\ act[k].pc \in CostSteps
            /\ CostLoad(k) \/ CostReread(k)
  <1>1. act'[k].pc \in Working /\ act \in [JobIds -> Act]
    BY DEF Working, CostSteps, TypeInv, TypeOK
  <1>2. CASE CostLoad(k)
    <2>1. PICK n \in CountRead(jobs[k].data.account) :
            Becomes(k, [act[k] EXCEPT !.pc = IF n = 0 THEN "costInsert" ELSE "costUpdate",
                                      !.count = n])
      BY <1>2 DEF CostLoad
    <2>2. act'[k].count = n /\ n # 0
      BY <1>1, <2>1 DEF Becomes, Act
    <2>3. n = costs[jobs[k].data.account]
      BY <2>2 DEF CountRead
    <2> QED
      BY <1>2, <2>2, <2>3 DEF CostLoad, tables, CostSteps
  <1>3. CASE CostReread(k)
    <2>1. ~Ends(k, "sent")
      BY EndsIs, ValueNames
    <2>2. Becomes(k, [act[k] EXCEPT !.pc = "costUpdate",
                                    !.count = costs[jobs[k].data.account]])
      BY <1>3, <2>1 DEF CostReread
    <2>3. act'[k].count = costs[jobs[k].data.account]
      BY <1>1, <2>2 DEF Becomes, Act
    <2> QED
      BY <1>3, <2>3 DEF CostReread, tables, CostSteps
  <1>4. Handle(k) => CostLoad(k) \/ CostReread(k)
    BY EventPlaces, RowPlaces DEF Handle, processEvent, generateAiReply, sendWhatsapp
  <1> QED
    BY <1>1, <1>2, <1>3, <1>4, WorkingCases

\* The two writes of a month's row.
Counts(j, n) ==
  LET a == jobs[j].data.account
  IN  /\ a \in Accounts /\ n \in Nat /\ act[j].pc \in CostSteps /\ act'[j].pc = "write"
      /\ costs' = [costs EXCEPT ![a] = n + 1]
      /\ \/ act[j].pc = "costInsert" /\ n = 0 /\ costs[a] = 0
         \/ act[j].pc = "costUpdate" /\ n = act[j].count

LEMMA CostCases ==
  ASSUME TypeInv, [Next]_vars
  PROVE  costs' = costs \/ \E j \in JobIds : \E n \in Nat : Counts(j, n)
  <1>1. ASSUME NEW j \in JobIds, CostInsert(j), costs' # costs
        PROVE  Counts(j, 0)
    <2>1. /\ act[j].pc = "costInsert" /\ costs[jobs[j].data.account] = 0
          /\ costs' = [costs EXCEPT ![jobs[j].data.account] = 1] /\ Ends(j, "sent")
      BY <1>1 DEF CostInsert
    <2>2. jobs[j].data.account \in Accounts /\ act'[j].pc = "write"
      BY <2>1, Subject, EndsIs, ValueNames DEF WsSteps
    <2> QED
      BY <2>1, <2>2 DEF Counts, CostSteps
  <1>2. ASSUME NEW j \in JobIds, CostUpdate(j)
        PROVE  \E n \in Nat : Counts(j, n)
    <2>1. /\ act[j].pc = "costUpdate" /\ Ends(j, "sent")
          /\ costs' = [costs EXCEPT ![jobs[j].data.account] = act[j].count + 1]
      BY <1>2 DEF CostUpdate
    <2>2. jobs[j].data.account \in Accounts /\ act'[j].pc = "write"
      BY <2>1, Subject, EndsIs, ValueNames DEF WsSteps
    <2>3. PICK n \in Nat : n = act[j].count
      BY HandlerType DEF Act
    <2>4. Counts(j, n)
      BY <2>1, <2>2, <2>3 DEF Counts, CostSteps
    <2> QED
      BY <2>4
  <1>3. costs' = costs \/ \E j \in JobIds : CostInsert(j) \/ CostUpdate(j)
    BY StepKinds DEF ByQueue, ByOthers, ByHandler, tables
  <1> QED
    BY <1>1, <1>2, <1>3

LEMMA NextCosts ==
  ASSUME TypeInv, ApprovalsInv, CarriersInv, CostInv, [Next]_vars PROVE CostInv'
  <1> SUFFICES ASSUME NEW acc \in Accounts
               PROVE  /\ IsFiniteSet(Deliveries(acc)')
                      /\ costs'[acc] + Cardinality(Counting(acc)')
                           <= Cardinality(Deliveries(acc)')
                      /\ \A k \in Counting(acc)' : act'[k].pc = "costUpdate" =>
                           act'[k].count + Cardinality(Counting(acc)')
                             <= Cardinality(Deliveries(acc)')
    BY DEF CostInv
  <1> DEFINE C == Counting(acc)   D == Deliveries(acc)
             c == Cardinality(C)  d == Cardinality(D)
             c1 == Cardinality(C') d1 == Cardinality(D')
  <1>1. /\ IsFiniteSet(D) /\ d \in Nat /\ costs[acc] + c <= d
        /\ \A k \in C : act[k].pc = "costUpdate" => act[k].count + c <= d
    BY FS_CardinalityType DEF CostInv
  <1>2. /\ IsFiniteSet(C) /\ c \in Nat /\ costs[acc] \in Nat
        /\ \A k \in JobIds : act[k].count \in Nat
    BY FiniteCounting, HandlerType DEF TypeInv, TypeOK, Act
  <1>3. \A k \in C' : k \in JobIds /\ act'[k].pc \in CostSteps /\ jobs'[k].data.account = acc
    BY DEF Counting
  <1>4. CASE ~\E j \in JobIds : Posts(j)
    <2>1. delivered' = delivered /\ D' = D
      BY <1>4, DeliveredCases, SameDeliveries
    <2>2. C' \subseteq C
      BY <1>3, <1>4, ToCounting DEF Posts
    <2>3. c1 \in Nat /\ c1 <= c
      BY <1>2, <2>2, FS_Subset, FS_CardinalityType
    <2>4. ASSUME NEW k \in C', act'[k].pc = "costUpdate", act'[k] # act[k]
          PROVE  act'[k].count = costs[acc] /\ costs' = costs
      BY <1>3, <2>2, <2>4, ToCostUpdate DEF Counting
    <2>5. ASSUME NEW k \in C', act'[k].pc = "costUpdate"
          PROVE  act'[k].count + c1 <= d
      <3>1. CASE act'[k] = act[k]
        BY <1>1, <1>2, <2>2, <2>3, <2>5, <3>1 DEF Counting
      <3>2. CASE act'[k] # act[k]
        BY <1>1, <1>2, <2>3, <2>4, <2>5, <3>2
      <3> QED
        BY <3>1, <3>2
    <2>6. costs'[acc] + c1 <= d
      <3>1. CASE costs' = costs
        BY <1>1, <1>2, <2>3, <3>1
      <3>2. ASSUME NEW j \in JobIds, NEW n \in Nat, Counts(j, n)
            PROVE  costs'[acc] + c1 <= d
        <4>1. CASE jobs[j].data.account # acc
          <5>1. costs'[acc] = costs[acc]
            BY <3>2, <4>1 DEF Counts, TypeInv, TypeOK
          <5> QED
            BY <1>1, <1>2, <2>3, <5>1
        <4>2. CASE jobs[j].data.account = acc
          <5>1. j \in C /\ j \notin C'
            BY <3>2, <4>2 DEF Counts, Counting, CostSteps
          <5>2. C' \subseteq C \ {j}
            BY <2>2, <5>1
          <5>3. IsFiniteSet(C \ {j}) /\ Cardinality(C \ {j}) = c - 1
            BY <1>2, <5>1, FS_RemoveElement
          <5>4. c1 <= c - 1
            BY <5>2, <5>3, FS_Subset
          <5>5. costs'[acc] = n + 1
            BY <3>2, <4>2 DEF Counts, TypeInv, TypeOK
          <5>6. n + c <= d
            BY <1>1, <3>2, <4>2, <5>1 DEF Counts
          <5> HIDE DEF c, d, c1
          <5> QED
            BY <1>1, <1>2, <2>3, <5>4, <5>5, <5>6
        <4> QED
          BY <4>1, <4>2
      <3> QED
        BY <3>1, <3>2, CostCases
    <2> QED
      BY <1>1, <2>1, <2>5, <2>6
  <1>5. ASSUME NEW j \in JobIds, Posts(j)
        PROVE  /\ IsFiniteSet(D') /\ costs'[acc] + c1 <= d1
               /\ \A k \in C' : act'[k].pc = "costUpdate" => act'[k].count + c1 <= d1
    <2> DEFINE s == act[j].send
               x == <<s, delivered[s] + 1>>
    <2>1. /\ costs' = costs /\ delivered' # delivered
          /\ s \in SendIds /\ act[j].pc \in WsSteps /\ act[j].pc \in RowSteps
      <3>1. delivered[s] \in Nat /\ delivered'[s] = delivered[s] + 1 /\ s \in SendIds
        BY <1>5, PostIs DEF TypeInv, TypeOK
      <3>2. costs' = costs
        BY <1>5 DEF Posts, PostAccepted, PostAnswerLost
      <3> QED
        BY <1>5, <3>1, <3>2, PostIs DEF WsSteps, RowSteps
    <2>2. ASSUME NEW k \in C', k \notin C
          PROVE  k = j /\ sends[s].template # None /\ AccountOf(s) = acc
      <3>1. /\ PostAccepted(k) /\ sends[act[k].send].template # None
            /\ jobs[k].data.account = acc /\ k \in JobIds
        BY <1>3, <2>2, ToCounting
      <3>2. act[k].send = s
        BY <1>5, <3>1, PostIs DEF Posts, TypeInv, TypeOK
      <3>3. Sender(j, s) /\ jobs[j].data.send = s /\ WsJob(j)
        BY <2>1, RowHandler
      <3>4. k = j
        BY <3>1, <3>2, <3>3, PostOf DEF Posts
      <3> QED
        BY <3>1, <3>3, <3>4 DEF CarriersInv
    <2>3. ASSUME NEW k \in C', act'[k].pc = "costUpdate"
          PROVE  act'[k] = act[k] /\ k \in C
      <3>1. act'[k] = act[k]
        BY <1>3, <2>1, <2>3, ToCostUpdate
      <3> QED
        BY <1>5, <2>2, <2>3, <3>1, PostIs
    <2>4. CASE sends[s].template # None /\ AccountOf(s) = acc
      <3>1. D' = D \cup {x} /\ x \notin D
        BY <1>5, <2>4, PostDelivers
      <3>2. IsFiniteSet(D') /\ d1 = d + 1
        BY <1>1, <3>1, OneMore
      <3>3. C' \subseteq C \cup {j}
        BY <2>2
      <3>4. IsFiniteSet(C \cup {j}) /\ Cardinality(C \cup {j}) <= c + 1
        BY <1>2, OneMore
      <3>5. c1 \in Nat /\ c1 <= c + 1
        BY <1>2, <3>3, <3>4, FS_Subset, FS_CardinalityType
      <3> HIDE DEF c, d, c1, d1
      <3> QED
        BY <1>1, <1>2, <1>3, <2>1, <2>3, <3>2, <3>5
    <2>5. CASE ~(sends[s].template # None /\ AccountOf(s) = acc)
      <3>1. D' = D
        BY <1>5, <2>5, PostDelivers
      <3>2. C' \subseteq C
        BY <2>2, <2>5
      <3>3. c1 \in Nat /\ c1 <= c
        BY <1>2, <3>2, FS_Subset, FS_CardinalityType
      <3> QED
        BY <1>1, <1>2, <1>3, <2>1, <2>3, <3>1, <3>3
    <2> QED
      BY <2>4, <2>5
  <1> QED
    BY <1>4, <1>5

LEMMA CostsHold == Spec => []CostInv
  BY InitCosts, NextCosts, HandlersFitTheirJobs, ApprovalsHold, CarriersHold, PTL DEF Spec

\* What is billed was delivered: the conversations counted for an account are never
\* more than the messages with a template that Meta has accepted from it, however the
\* reads and writes of the month's row by several handlers interleave, crash or reject.
THEOREM BilledMeansDelivered == Spec => []CostsAreBacked
  <1>1. ASSUME TypeInv, CostInv PROVE CostsAreBacked
    <2> SUFFICES ASSUME NEW acc \in Accounts
                 PROVE  costs[acc] <= Cardinality(Deliveries(acc))
      BY DEF CostsAreBacked
    <2>1. costs[acc] \in Nat
      BY <1>1 DEF TypeInv, TypeOK
    <2>2. Cardinality(Deliveries(acc)) \in Nat
      BY <1>1, FS_CardinalityType DEF CostInv
    <2> QED
      BY <1>1, <2>1, <2>2, FiniteCounting DEF CostInv
  <1> QED
    BY <1>1, HandlersFitTheirJobs, CostsHold, PTL

--------------------------------------------------------------------------------
(* One worker.                                                             *)

\* What the deployment runs: one worker process, which has one job at a time.
OneWorker == \A v, w \in Workers : v = w

OneEachInv ==
  \A i, j \in JobIds :
    (/\ jobs[i].state = "active" /\ jobs[j].state = "active"
     /\ jobs[i].worker = jobs[j].worker /\ jobs[i].worker # None) => i = j

LEMMA InitOneEach == Init => OneEachInv
  BY DEF Init, QueueInit, NoJob, OneEachInv

LEMMA NextOneEach == ASSUME TypeInv, OneEachInv, [Next]_vars PROVE OneEachInv'
  <1>1. ASSUME NEW k \in JobIds, jobs'[k].state = "active", jobs'[k].worker # None
        PROVE  jobs'[k] = jobs[k] \/ \E w \in Workers : Start(w, k)
    <2>1. ASSUME NEW d, jobs'[k] = Added(d) PROVE FALSE
      BY <1>1, <2>1 DEF Added
    <2>2. ~NewJob(k)
      BY <2>1 DEF NewJob
    <2>3. OldJob(k) => \E w \in Workers : Start(w, k)
      BY <1>1 DEF OldJob
    <2> QED
      BY <2>2, <2>3, JobCases
  <1>2. ASSUME NEW w \in Workers, NEW i \in JobIds, NEW j \in JobIds, i # j, Start(w, i),
               jobs'[j].state = "active", jobs'[j].worker = jobs'[i].worker
        PROVE  FALSE
    BY <1>2, StartIs
  <1>3. ASSUME NEW i \in JobIds, NEW j \in JobIds, i # j,
               jobs'[i].state = "active", jobs'[j].state = "active",
               jobs'[i].worker = jobs'[j].worker, jobs'[i].worker # None
        PROVE  FALSE
    <2>1. CASE jobs'[i] = jobs[i] /\ jobs'[j] = jobs[j]
      BY <1>3, <2>1 DEF OneEachInv
    <2> QED
      BY <1>1, <1>2, <1>3, <2>1
  <1> QED
    BY <1>3 DEF OneEachInv

LEMMA OneEachHolds == Spec => []OneEachInv
  BY InitOneEach, NextOneEach, HandlersFitTheirJobs, PTL DEF Spec

\* One handler is at work.
LEMMA Alone ==
  ASSUME TypeInv, OneEachInv, OneWorker, NEW i \in JobIds, NEW j \in JobIds,
         act[i].pc # "idle", act[j].pc # "idle"
  PROVE  i = j
  <1>1. /\ jobs[i].state = "active" /\ jobs[i].worker # None /\ jobs[i] \in Job
        /\ jobs[j].state = "active" /\ jobs[j].worker # None /\ jobs[j] \in Job
    BY ActiveJob, HandlerType
  <1>2. jobs[i].worker \in Workers /\ jobs[j].worker \in Workers
    BY <1>1 DEF Job
  <1> QED
    BY <1>1, <1>2 DEF OneWorker, OneEachInv

--------------------------------------------------------------------------------
(* The cap on conversations.                                               *)

BeforeCount == {"wsMode", "wsRate", "wsPost"} \cup (CostSteps \ {"costUpdate"})

\* From the gate to the write there is room for one more conversation.
CapInv ==
  /\ \A j \in JobIds :
       /\ act[j].pc \in BeforeCount => costs[jobs[j].data.account] < Cap
       /\ act[j].pc = "costUpdate" => act[j].count < Cap
  /\ CapHolds

LEMMA InitCap == Init => CapInv
  <1> SUFFICES ASSUME Init PROVE CapInv
    OBVIOUS
  <1>1. \A j \in JobIds : act[j].pc = "idle"
    BY IdleFacts DEF Init
  <1>2. \A acc \in Accounts : costs[acc] = 0
    BY DEF Init
  <1>3. Cap \in Nat
    BY WhatsappAssumption
  <1> QED
    BY <1>1, <1>2, <1>3 DEF CapInv, CapHolds, BeforeCount, CostSteps

\* Past the gate.
LEMMA ToBeforeCount ==
  ASSUME TypeInv, CapInv, ~Swallowed, [Next]_vars, NEW k \in JobIds,
         act'[k].pc \in BeforeCount, costs' = costs
  PROVE  costs[jobs'[k].data.account] < Cap
  <1>1. act'[k].pc \in Working /\ "dailyCapExceeded" \in Outcomes
    BY DEF BeforeCount, Working, CostSteps, Outcomes
  <1>2. ASSUME act[k].pc \in BeforeCount \cup {"wsCap"}
        PROVE  jobs'[k].data = jobs[k].data
    <2>1. act[k].pc # "idle"
      BY <1>2 DEF BeforeCount, CostSteps
    <2> QED
      BY <2>1, ActiveJob, JobKept
  <1>3. CASE act'[k] = act[k]
    BY <1>2, <1>3 DEF CapInv
  <1>4. CASE Handle(k)
    <2>1. act[k].pc \in BeforeCount \/ WsCap(k)
      <3>1. WsRate(k) \/ WsMode(k) \/ PostAccepted(k) \/ CostLead(k) \/ CostCharge(k)
              \/ CostLoad(k) \/ CostInsert(k) \/ WsCap(k)
        BY <1>4, EventPlaces, RowPlaces
        DEF Handle, processEvent, generateAiReply, sendWhatsapp, BeforeCount, CostSteps
      <3> QED
        BY <3>1 DEF WsRate, WsMode, PostAccepted, CostLead, CostCharge, CostLoad,
                    CostInsert, BeforeCount, CostSteps
    <2>2. ASSUME WsCap(k) PROVE act[k].pc = "wsCap" /\ costs[jobs[k].data.account] < Cap
      <3>1. ~Ends(k, "dailyCapExceeded")
        BY <1>1, EndsIs DEF BeforeCount, CostSteps
      <3>2. act[k].pc = "wsCap" /\ ~(costs[jobs[k].data.account] >= Cap)
        BY <2>2, <3>1 DEF WsCap, CountRead
      <3>3. jobs[k].data.account \in Accounts
        BY <3>2, Subject DEF WsSteps
      <3>4. costs[jobs[k].data.account] \in Nat /\ Cap \in Nat
        BY <3>3, WhatsappAssumption DEF TypeInv, TypeOK
      <3> QED
        BY <3>2, <3>4
    <2> QED
      BY <1>2, <2>1, <2>2 DEF CapInv
  <1> QED
    BY <1>1, <1>3, <1>4, WorkingCases

LEMMA NextCap ==
  ASSUME TypeInv, OneEachInv, CapInv, OneWorker, ~Swallowed, [Next]_vars
  PROVE  CapInv'
  <1>1. CASE costs' = costs
    <2>1. ASSUME NEW k \in JobIds, act'[k].pc = "costUpdate" PROVE act'[k].count < Cap
      <3>1. CASE act'[k] = act[k]
        BY <2>1, <3>1 DEF CapInv
      <3>2. CASE CostLoad(k) \/ CostReread(k)
        <4>1. act[k].pc \in BeforeCount
          BY <3>2 DEF CostLoad, CostReread, BeforeCount, CostSteps
        <4> QED
          BY <2>1, <4>1, ToCostUpdate DEF CapInv
      <3> QED
        BY <2>1, <3>1, <3>2, ToCostUpdate
    <2> QED
      BY <1>1, <2>1, ToBeforeCount DEF CapInv, CapHolds
  <1>2. ASSUME NEW j \in JobIds, NEW n \in Nat, Counts(j, n) PROVE CapInv'
    <2>1. /\ act[j].pc \in CostSteps /\ act'[j].pc = "write" /\ n < Cap
          /\ jobs[j].data.account \in Accounts
          /\ costs' = [costs EXCEPT ![jobs[j].data.account] = n + 1]
      BY <1>2 DEF Counts, CapInv, BeforeCount, CostSteps
    <2>2. costs \in [Accounts -> Nat] /\ Cap \in Nat
      BY WhatsappAssumption DEF TypeInv, TypeOK
    <2>3. \A acc \in Accounts : costs'[acc] <= Cap
      BY <2>1, <2>2 DEF CapInv, CapHolds
    <2>4. ASSUME NEW k \in JobIds, act'[k].pc \in Working PROVE k = j
      <3>1. act[k].pc # "idle"
        BY <2>4, WorkingCases DEF GoesOn, Working, CostSteps
      <3> QED
        BY <2>1, <3>1, Alone DEF CostSteps
    <2>5. BeforeCount \cup {"costUpdate"} \subseteq Working
      BY DEF BeforeCount, Working, CostSteps
    <2> QED
      BY <2>1, <2>3, <2>4, <2>5 DEF CapInv, CapHolds, BeforeCount, CostSteps
  <1> QED
    BY <1>1, <1>2, CostCases

\* The account is never billed beyond its cap: the count is read at the gate, long
\* before it is written back, and with one worker nobody counts in between.  Crashes,
\* retries and Meta's late answers do not change that; a second worker would, and so
\* would a failed read that is taken for an empty month.
THEOREM OneWorkerKeepsTheCap ==
  ASSUME OneWorker, ~Swallowed PROVE Spec => []CapHolds
  <1>1. TypeInv /\ OneEachInv /\ CapInv /\ [Next]_vars => CapInv'
    BY NextCap
  <1>2. CapInv => CapHolds
    BY DEF CapInv
  <1> QED
    BY <1>1, <1>2, InitCap, HandlersFitTheirJobs, OneEachHolds, PTL DEF Spec

--------------------------------------------------------------------------------
(* Opted out means: nothing is sent.                                       *)

PastTheGate == {"wsCap", "wsMode", "wsRate", "wsPost"}

ConsentInv ==
  \A j \in JobIds :
    act[j].pc \in PastTheGate => ~leads[Recipient(act[j].send)].optedOut

LEMMA NextConsent ==
  ASSUME TypeInv, OneEachInv, ConsentInv, OneWorker, ~Swallowed, [Next]_vars
  PROVE  ConsentInv'
  <1> SUFFICES ASSUME NEW k \in JobIds, act'[k].pc \in PastTheGate,
                      NEW s, s = act'[k].send
               PROVE  ~leads'[Recipient(s)'].optedOut
    BY DEF ConsentInv
  <1>1. act'[k].pc \in Working
    BY DEF PastTheGate, Working
  <1>2. ASSUME Handle(k), act[k].pc \notin PastTheGate
        PROVE  WsLead(k) /\ ~leads[Recipient(act[k].send)].optedOut
    <2>1. WsLead(k) \/ WsCap(k) \/ WsMode(k) \/ WsRate(k)
      BY <1>2, EventPlaces, RowPlaces
      DEF Handle, processEvent, generateAiReply, sendWhatsapp, PastTheGate
    <2>2. WsLead(k)
      BY <1>2, <2>1 DEF WsCap, WsMode, WsRate, PastTheGate
    <2>3. ~Ends(k, "optedOut")
      BY EndsIs DEF PastTheGate, Outcomes
    <2> QED
      BY <2>2, <2>3 DEF WsLead
  <1>3. /\ act[k].pc \in WsSteps /\ s = act[k].send
        /\ ~leads[Recipient(s)].optedOut
    <2>1. CASE act'[k] = act[k]
      BY <2>1 DEF PastTheGate, WsSteps, ConsentInv
    <2>2. CASE Handle(k) /\ act'[k].send = act[k].send
      <3>1. CASE act[k].pc \in PastTheGate
        BY <2>2, <3>1 DEF PastTheGate, WsSteps, ConsentInv
      <3>2. CASE act[k].pc \notin PastTheGate
        BY <1>2, <2>2, <3>2 DEF WsLead, WsSteps
      <3> QED
        BY <3>1, <3>2
    <2> QED
      BY <1>1, <2>1, <2>2, WorkingCases DEF GoesOn
  <1>4. /\ s \in SendIds /\ sends[s].status # "none" /\ Recipient(s) \in Phones
    BY <1>3, Subject DEF RowSteps, SendOf
  <1>5. Recipient(s)' = Recipient(s)
    BY <1>4, RowsKeep DEF Recipient
  <1>6. ASSUME NEW j \in JobIds, OptOut(j) PROVE FALSE
    <2>1. act[j].pc = "optOut" /\ act[k].pc # "idle"
      BY <1>3, <1>6 DEF OptOut, WsSteps
    <2>2. j = k
      BY <2>1, Alone
    <2> QED
      BY <1>3, <2>1, <2>2 DEF WsSteps
  <1> QED
    BY <1>3, <1>4, <1>5, <1>6, LeadCases

\* No message reaches a customer who has opted out: with one worker no STOP is handled
\* between the gate of sendWhatsapp and its call of Meta.
THEOREM OneWorkerRespectsStop ==
  ASSUME OneWorker, ~Swallowed PROVE Spec => NoPostAfterOptOut
  <1>1. Init => ConsentInv
    <2> SUFFICES ASSUME Init PROVE ConsentInv
      OBVIOUS
    <2>1. \A j \in JobIds : act[j].pc = "idle"
      BY IdleFacts DEF Init
    <2> QED
      BY <2>1 DEF ConsentInv, PastTheGate
  <1>2. TypeInv /\ OneEachInv /\ ConsentInv /\ [Next]_vars => ConsentInv'
    BY NextConsent
  <1>3. TypeInv /\ ConsentInv /\ [Next]_vars =>
          [\A s \in SendIds :
             delivered'[s] # delivered[s] => ~leads[Recipient(s)].optedOut]_vars
    <2> SUFFICES ASSUME TypeInv, ConsentInv, [Next]_vars, NEW s \in SendIds,
                        delivered'[s] # delivered[s]
                 PROVE  ~leads[Recipient(s)].optedOut
      OBVIOUS
    <2>1. PICK j \in JobIds : Posts(j)
      BY DeliveredCases
    <2>2. s = act[j].send /\ act[j].pc = "wsPost"
      BY <2>1, PostIs
    <2> QED
      BY <2>2 DEF ConsentInv, PastTheGate
  <1> QED
    BY <1>1, <1>2, <1>3, HandlersFitTheirJobs, OneEachHolds, PTL
    DEF Spec, NoPostAfterOptOut

================================================================================

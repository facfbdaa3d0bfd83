---------------------------- MODULE IgPipelineSends ----------------------------
(***************************************************************************)
(* What the Instagram path says about its sends: which jobs carry a row,   *)
(* how often it is delivered, and that none is forgotten, for every number *)
(* of messages, automations, accounts, workers, jobs and sends.            *)
(***************************************************************************)
EXTENDS IgPipelineProofs, FiniteSetTheorems

--------------------------------------------------------------------------------
(* Where a step takes a handler.                                           *)

GenSteps == {"genLoad", "genAsk", "genContent", "genAdd"}
DmSteps  == {"dmLoad", "dmGate", "dmPost"}
CrSteps  == {"crLoad", "crPost"}

\* The steps of a job that is about a row.
OwnSteps == GenSteps \cup DmSteps \cup CrSteps \cup {"write"}

LEMMA OwnNames ==
  /\ OwnSteps = RowSteps \ MatchSteps
  /\ OwnSteps \cap MatchSteps = {} /\ "return" \notin OwnSteps /\ "idle" \notin OwnSteps
  BY DEF OwnSteps, GenSteps, DmSteps, CrSteps, RowSteps, MatchSteps

\* Handler j is at step p, with the row and the text it had.
At(j, p) == /\ act'[j].pc = p /\ act'[j].send = act[j].send
            /\ act'[j].text = act[j].text /\ act'[j].automation = act[j].automation
            /\ act'[j].out = act[j].out

LEMMA GotoIs == ASSUME TypeInv, NEW j \in JobIds, NEW p, Goto(j, p) PROVE At(j, p)
  <1> DEFINE h == [act[j] EXCEPT !.pc = p]
  <1>1. /\ h.pc = p /\ h.send = act[j].send /\ h.text = act[j].text
        /\ h.automation = act[j].automation /\ h.out = act[j].out
    BY HandlerType DEF Act
  <1>2. Becomes(j, h)
    BY DEF Goto
  <1> HIDE DEF h
  <1> QED
    BY <1>1, <1>2, Moved DEF At

LEMMA WriteIs ==
  ASSUME TypeInv, NEW j \in JobIds, NEW o,
         Becomes(j, [act[j] EXCEPT !.pc = "write", !.out = o])
  PROVE  act'[j].pc = "write" /\ act'[j].out = o /\ act'[j].send = act[j].send
  <1> DEFINE h == [act[j] EXCEPT !.pc = "write", !.out = o]
  <1>1. h.pc = "write" /\ h.out = o /\ h.send = act[j].send
    BY HandlerType DEF Act
  <1> HIDE DEF h
  <1> QED
    BY <1>1, Moved DEF h

LEMMA TextIs ==
  ASSUME TypeInv, NEW j \in JobIds, NEW t,
         Becomes(j, [act[j] EXCEPT !.pc = "genContent", !.text = t])
  PROVE  act'[j].pc = "genContent" /\ act'[j].text = t /\ act'[j].send = act[j].send
  <1> DEFINE h == [act[j] EXCEPT !.pc = "genContent", !.text = t]
  <1>1. h.pc = "genContent" /\ h.text = t /\ h.send = act[j].send
    BY HandlerType DEF Act
  <1> HIDE DEF h
  <1> QED
    BY <1>1, Moved DEF h

LEMMA GenLoadIs ==
  ASSUME TypeInv, NEW j \in JobIds, GenLoad(j)
  PROVE  \/ act'[j] = Idle /\ sends[act[j].send].status # "queued"
         \/ /\ act'[j].send = act[j].send /\ sends[act[j].send].status = "queued"
            /\ \/ act'[j].pc = "genAsk"
               \/ act'[j].pc = "write" /\ act'[j].out = "failed"
  <1> DEFINE row == sends[act[j].send]
             h == [act[j] EXCEPT !.account = row.account, !.automation = row.automation,
                                 !.text = row.text]
  <1>1. DOMAIN h = Fields /\ h.send = act[j].send
    BY HandlerFields DEF Fields
  <1> HIDE DEF h
  <1>2. ASSUME Becomes(j, [h EXCEPT !.pc = "write", !.out = "failed"])
        PROVE  act'[j].pc = "write" /\ act'[j].out = "failed" /\ act'[j].send = act[j].send
    BY ZenonT(60), <1>1, <1>2, Moved DEF Fields
  <1>3. ASSUME Becomes(j, [h EXCEPT !.pc = "genAsk"])
        PROVE  act'[j].pc = "genAsk" /\ act'[j].send = act[j].send
    BY ZenonT(60), <1>1, <1>3, Moved DEF Fields
  <1> QED
    BY <1>2, <1>3, Moved DEF GenLoad, End, h

\* The steps of generateAiReply.
LEMMA GenPlaces ==
  ASSUME TypeInv, NEW j \in JobIds
  PROVE  /\ GenAnswered(j) \/ GenFallback(j) =>
              /\ act[j].pc = "genAsk" /\ act'[j].pc = "genContent"
              /\ act'[j].text # "inbound" /\ act'[j].send = act[j].send
         /\ GenFails(j) => /\ act[j].pc = "genAsk" /\ act'[j].pc = "write"
                           /\ act'[j].out = "failed" /\ act'[j].send = act[j].send
         /\ GenFlagged(j) =>
              /\ act[j].pc = "genAsk" /\ act'[j].send = act[j].send
              /\ \/ act'[j].pc = "write" /\ act'[j].out = "failed"
                 \/ act'[j].pc = "genContent" /\ act'[j].text # "inbound"
         /\ ModerationCaught(j) =>
              /\ act[j].pc \in {"genContent", "genAdd", "write"} /\ act[j].flagged
              /\ act'[j].pc = "genContent" /\ act'[j].text # "inbound"
              /\ act'[j].send = act[j].send
         /\ GenContent(j) => act[j].pc = "genContent" /\ At(j, "genAdd")
         /\ GenAdd(j) => act[j].pc = "genAdd" /\ At(j, "return")
  <1>1. ASSUME GenAnswered(j) \/ GenFallback(j)
        PROVE  /\ act[j].pc = "genAsk" /\ act'[j].pc = "genContent"
               /\ act'[j].text # "inbound" /\ act'[j].send = act[j].send
    <2>1. PICK t \in {"ai", "empty", "fallback"} :
            Becomes(j, [act[j] EXCEPT !.pc = "genContent", !.text = t])
      BY <1>1 DEF GenAnswered, GenFallback
    <2> QED
      BY <1>1, <2>1, TextIs DEF GenAnswered, GenFallback
  <1>2. ASSUME GenFails(j)
        PROVE  /\ act[j].pc = "genAsk" /\ act'[j].pc = "write"
               /\ act'[j].out = "failed" /\ act'[j].send = act[j].send
    BY <1>2, WriteIs DEF GenFails
  <1>3. ASSUME GenFlagged(j)
        PROVE  /\ act[j].pc = "genAsk" /\ act'[j].send = act[j].send
               /\ \/ act'[j].pc = "write" /\ act'[j].out = "failed"
                  \/ act'[j].pc = "genContent" /\ act'[j].text # "inbound"
    <2> DEFINE g == [act[j] EXCEPT !.pc = "genContent", !.text = "fallback",
                                   !.flagged = TRUE]
               h == [act[j] EXCEPT !.pc = "write", !.out = "failed", !.flagged = TRUE]
    <2>1. /\ g.pc = "genContent" /\ g.text = "fallback" /\ g.send = act[j].send
          /\ h.pc = "write" /\ h.out = "failed" /\ h.send = act[j].send
      BY HandlerType DEF Act
    <2>2. Becomes(j, g) \/ Becomes(j, h)
      BY <1>3 DEF GenFlagged
    <2> HIDE DEF g, h
    <2>3. act'[j] = g \/ act'[j] = h
      BY <2>2, Moved
    <2> QED
      BY <1>3, <2>1, <2>3 DEF GenFlagged
  <1>4. ASSUME ModerationCaught(j)
        PROVE  /\ act[j].pc \in {"genContent", "genAdd", "write"} /\ act[j].flagged
               /\ act'[j].pc = "genContent" /\ act'[j].text # "inbound"
               /\ act'[j].send = act[j].send
    <2> DEFINE h == [act[j] EXCEPT !.pc = "genContent", !.text = "flagged",
                                   !.out = "none", !.flagged = FALSE]
    <2>1. h.pc = "genContent" /\ h.text = "flagged" /\ h.send = act[j].send
      BY HandlerType DEF Act
    <2>2. Becomes(j, h)
      BY <1>4 DEF ModerationCaught
    <2> HIDE DEF h
    <2>3. act'[j] = h
      BY <2>2, Moved
    <2> QED
      BY <1>4, <2>1, <2>3 DEF ModerationCaught
  <1>5. /\ GenContent(j) => act[j].pc = "genContent" /\ At(j, "genAdd")
        /\ GenAdd(j) => act[j].pc = "genAdd" /\ At(j, "return")
    BY GotoIs DEF GenContent, GenAdd
  <1> QED
    BY <1>1, <1>2, <1>3, <1>4, <1>5

\* The steps of sendDM and sendCommentReply.
LEMMA SendPlaces ==
  ASSUME TypeInv, NEW j \in JobIds
  PROVE  /\ DmLoad(j) => /\ act[j].pc = "dmLoad"
                         /\ \/ /\ act'[j] = Idle
                               /\ sends[act[j].send].status # "queued"
                            \/ At(j, "dmGate") /\ sends[act[j].send].status = "queued"
         /\ DmGate(j) =>
              /\ act[j].pc = "dmGate" /\ act'[j].send = act[j].send
              /\ \/ act'[j].pc = "dmPost"
                 \/ /\ act'[j].pc = "write"
                    /\ act'[j].out \in {"failed", "outsideWindow", "rateLimited"}
         /\ CrLoad(j) =>
              /\ act[j].pc = "crLoad" /\ act'[j].send = act[j].send
              /\ act'[j].pc = "crPost" \/ (act'[j].pc = "write" /\ act'[j].out = "failed")
         /\ PostAccepted(j) => /\ AtMeta(j) /\ act'[j].send = act[j].send
                               /\ act'[j].pc = "write" /\ act'[j].out = "sent"
         /\ PostAnswerLost(j) \/ PostRefused(j) =>
              /\ AtMeta(j) /\ act'[j].send = act[j].send
              /\ act'[j].pc = "write" /\ act'[j].out = "failed"
         /\ PostServerError(j) =>
              /\ AtMeta(j) /\ act'[j].send = act[j].send /\ act'[j].pc = "write"
              /\ \/ act'[j].out = "failed"
                 \/ act[j].pc = "dmPost" /\ act'[j].out = "retry"
         /\ WriteOutcome(j) => act[j].pc = "write" /\ At(j, "return")
         /\ WriteSentFails(j) =>
              /\ act[j].pc = "write" /\ act[j].out = "sent" /\ act'[j].send = act[j].send
              /\ act'[j].pc = "write" /\ act'[j].out = "failed"
  <1>1. DmLoad(j) => /\ act[j].pc = "dmLoad"
                     /\ \/ act'[j] = Idle /\ sends[act[j].send].status # "queued"
                        \/ At(j, "dmGate") /\ sends[act[j].send].status = "queued"
    BY GotoIs, Moved DEF DmLoad, End
  <1>2. DmGate(j) => /\ act[j].pc = "dmGate" /\ act'[j].send = act[j].send
                     /\ \/ act'[j].pc = "dmPost"
                        \/ /\ act'[j].pc = "write"
                           /\ act'[j].out \in {"failed", "outsideWindow", "rateLimited"}
    BY GotoIs, WriteIs DEF DmGate, At
  <1>3. CrLoad(j) =>
          /\ act[j].pc = "crLoad" /\ act'[j].send = act[j].send
          /\ act'[j].pc = "crPost" \/ (act'[j].pc = "write" /\ act'[j].out = "failed")
    BY GotoIs, WriteIs DEF CrLoad, At
  <1>4. PostAccepted(j) => /\ AtMeta(j) /\ act'[j].send = act[j].send
                           /\ act'[j].pc = "write" /\ act'[j].out = "sent"
    BY WriteIs DEF PostAccepted
  <1>5. PostAnswerLost(j) \/ PostRefused(j) =>
          /\ AtMeta(j) /\ act'[j].send = act[j].send
          /\ act'[j].pc = "write" /\ act'[j].out = "failed"
    BY WriteIs DEF PostAnswerLost, PostRefused
  <1>6. PostServerError(j) =>
          /\ AtMeta(j) /\ act'[j].send = act[j].send /\ act'[j].pc = "write"
          /\ \/ act'[j].out = "failed"
             \/ act[j].pc = "dmPost" /\ act'[j].out = "retry"
    BY WriteIs DEF PostServerError
  <1>7. WriteOutcome(j) => act[j].pc = "write" /\ At(j, "return")
    BY GotoIs DEF WriteOutcome
  <1>8. WriteSentFails(j) =>
          /\ act[j].pc = "write" /\ act[j].out = "sent" /\ act'[j].send = act[j].send
          /\ act'[j].pc = "write" /\ act'[j].out = "failed"
    <2> DEFINE h == [act[j] EXCEPT !.out = "failed"]
    <2>1. h.pc = act[j].pc /\ h.out = "failed" /\ h.send = act[j].send
      BY HandlerType DEF Act
    <2> HIDE DEF h
    <2> QED
      BY <2>1, Moved DEF WriteSentFails, h
  <1> QED
    BY <1>1, <1>2, <1>3, <1>4, <1>5, <1>6, <1>7, <1>8

\* Handler j stays where it is.
Stays(j) == At(j, act[j].pc)

\* The steps of processEvent and of the handlers it calls.
LEMMA EventPlaces ==
  ASSUME TypeInv, NEW j \in JobIds
  PROVE  /\ Load(j) => /\ act[j].pc = "load"
                       /\ \/ act'[j] = Idle /\ events[EventOf(j)].processed
                          \/ act'[j].pc \in {"mark", "dedupe", "classify"}
         /\ Dedupe(j) => act[j].pc = "dedupe" /\ act'[j].pc \in {"mark", "classify"}
         /\ ClassifyIntent(j) => act[j].pc = "classify" /\ act'[j].pc = "query"
         /\ QueryAutomations(j) => act[j].pc = "query" /\ act'[j].pc = "next"
         /\ \A a \in Automations :
              Match(j, a) =>
                /\ act[j].pc = "next"
                /\ \/ act'[j].pc \in {"next", "insertReply"}
                   \/ /\ act'[j].pc = "insertDm" /\ act'[j].automation = a
                      /\ ~Config[a].ai => act'[j].text # "inbound"
         /\ MatchingDone(j) => act[j].pc = "next" /\ act'[j].pc = "mark"
         /\ InsertFails(j) => /\ act[j].pc \in {"insertDm", "insertReply"}
                              /\ act'[j] = Idle \/ Stops(j)
         /\ AddDm(j) => act[j].pc = "addDm" /\ act'[j].pc \in {"next", "insertReply"}
         /\ AddReply(j) => act[j].pc = "addReply" /\ act'[j].pc = "next"
         /\ CaptureLead(j) \/ CaptureLeadFails(j) =>
              \/ act[j].pc = "stopped" /\ act'[j] = Idle
              \/ act[j].pc # "stopped" /\ Stays(j)
         /\ MarkProcessed(j) => act[j].pc = "mark" /\ act'[j].pc = "return"
         /\ DetachedEnd(j) => act[j].pc = "mark" /\ act'[j] = Idle
  <1>1. ASSUME Load(j)
        PROVE  \/ act'[j] = Idle /\ events[EventOf(j)].processed
               \/ act'[j].pc \in {"mark", "dedupe", "classify"}
    <2>1. ASSUME NEW p \in {"mark", "dedupe", "classify"}, NEW a, NEW i, NEW l,
                 Becomes(j, [act[j] EXCEPT !.account = a, !.intent = i, !.pc = p, !.lead = l])
          PROVE  act'[j].pc = p
      BY <2>1, Moved, HandlerFields DEF Fields
    <2> QED
      BY ZenonT(60), <1>1, <2>1, Moved DEF Load, End
  <1>2. /\ Dedupe(j) => act[j].pc = "dedupe" /\ act'[j].pc \in {"mark", "classify"}
        /\ AddReply(j) => act[j].pc = "addReply" /\ act'[j].pc = "next"
        /\ MarkProcessed(j) => act[j].pc = "mark" /\ act'[j].pc = "return"
    BY GotoIs DEF Dedupe, AddReply, MarkProcessed, At
  <1>3. ClassifyIntent(j) => act[j].pc = "classify" /\ act'[j].pc = "query"
    BY ZenonT(60), Moved, HandlerFields DEF ClassifyIntent, Goto, Fields
  <1>4. QueryAutomations(j) => act[j].pc = "query" /\ act'[j].pc = "next"
    BY Moved, HandlerFields DEF QueryAutomations, Fields
  <1>5. ASSUME NEW a \in Automations, Match(j, a)
        PROVE  /\ act[j].pc = "next"
               /\ \/ act'[j].pc \in {"next", "insertReply"}
                  \/ /\ act'[j].pc = "insertDm" /\ act'[j].automation = a
                     /\ ~Config[a].ai => act'[j].text # "inbound"
    <2>1. ASSUME Becomes(j, [act[j] EXCEPT !.todo = @ \ {a}]) PROVE act'[j].pc = act[j].pc
      BY <2>1, Moved, HandlerFields DEF Fields
    <2>2. ASSUME NEW t, NEW p,
                 Becomes(j, [act[j] EXCEPT !.todo = @ \ {a}, !.automation = a,
                                           !.text = t, !.pc = p])
          PROVE  act'[j].pc = p /\ act'[j].automation = a /\ act'[j].text = t
      BY ZenonT(60), <2>2, Moved, HandlerFields DEF Fields
    <2>3. act[j].pc = "next"
      BY <1>5 DEF Match
    <2>4. ASSUME NEW t, t = IF Config[a].ai THEN "inbound" ELSE "template"
          PROVE  ~Config[a].ai => t # "inbound"
      BY <2>4
    <2>5. AfterDm(EventOf(j), a) \in {"next", "insertReply"}
      BY DEF AfterDm
    <2> QED
      BY ZenonT(60), <1>5, <2>1, <2>2, <2>3, <2>4, <2>5 DEF Match
  <1>6. MatchingDone(j) => act[j].pc = "next" /\ act'[j].pc = "mark"
    BY ZenonT(60), Moved, HandlerFields DEF MatchingDone, Fields
  <1>7. InsertFails(j) => /\ act[j].pc \in {"insertDm", "insertReply"}
                          /\ act'[j] = Idle \/ Stops(j)
    BY RejectMoves DEF InsertFails
  <1>8. AddDm(j) => act[j].pc = "addDm" /\ act'[j].pc \in {"next", "insertReply"}
    BY GotoIs DEF AddDm, AfterDm, At
  <1>9. ASSUME CaptureLead(j) \/ CaptureLeadFails(j)
        PROVE  \/ act[j].pc = "stopped" /\ act'[j] = Idle
               \/ act[j].pc # "stopped" /\ Stays(j)
    <2>1. ASSUME NEW l, Becomes(j, [act[j] EXCEPT !.lead = l]) PROVE Stays(j)
      <3> DEFINE h == [act[j] EXCEPT !.lead = l]
      <3>1. /\ h.pc = act[j].pc /\ h.send = act[j].send /\ h.text = act[j].text
            /\ h.automation = act[j].automation /\ h.out = act[j].out
        BY HandlerType DEF Act
      <3> HIDE DEF h
      <3> QED
        BY <2>1, <3>1, Moved DEF h, Stays, At
    <2> QED
      BY ZenonT(60), <1>9, <2>1, Moved DEF CaptureLead, CaptureLeadFails
  <1>10. DetachedEnd(j) => act[j].pc = "mark" /\ act'[j] = Idle
    BY Moved DEF DetachedEnd
  <1> QED
    BY <1>1, <1>2, <1>3, <1>4, <1>5, <1>6, <1>7, <1>8, <1>9, <1>10 DEF Load

\* A row is inserted, and its handler goes on to queue its job.
LEMMA InsertPlaces ==
  ASSUME TypeInv, NEW j \in JobIds, InsertDm(j) \/ InsertReply(j)
  PROVE  \E s \in SendIds :
           /\ Inserts(j, s) /\ act'[j].send = s
           /\ act'[j].automation = act[j].automation
           /\ \/ /\ act[j].pc = "insertDm" /\ act'[j].pc = "addDm"
                 /\ act'[j].text = act[j].text
              \/ act[j].pc = "insertReply" /\ act'[j].pc = "addReply"
  <1>1. ASSUME InsertDm(j)
        PROVE  \E s \in SendIds :
                 /\ Inserts(j, s) /\ act'[j].send = s /\ act[j].pc = "insertDm"
                 /\ act'[j].automation = act[j].automation
                 /\ act'[j].pc = "addDm" /\ act'[j].text = act[j].text
    <2>1. PICK s \in SendIds : /\ InsertSend(j, s, "dm", act[j].text)
                               /\ Becomes(j, [act[j] EXCEPT !.pc = "addDm", !.send = s])
      BY <1>1 DEF InsertDm
    <2> DEFINE h == [act[j] EXCEPT !.pc = "addDm", !.send = s]
    <2>2. /\ h.pc = "addDm" /\ h.send = s /\ h.text = act[j].text
          /\ h.automation = act[j].automation
      BY HandlerType DEF Act
    <2>3. Becomes(j, h)
      BY <2>1
    <2> HIDE DEF h
    <2> QED
      BY <1>1, <2>1, <2>2, <2>3, Moved DEF InsertDm, Inserts
  <1>2. ASSUME InsertReply(j)
        PROVE  \E s \in SendIds :
                 /\ Inserts(j, s) /\ act'[j].send = s /\ act[j].pc = "insertReply"
                 /\ act'[j].automation = act[j].automation
                 /\ act'[j].pc = "addReply"
    <2> DEFINE t == IF Renders(Config[act[j].automation].commentReply, EventOf(j))
                      THEN "reply" ELSE "empty"
    <2>1. t \in Texts
      BY DEF Texts
    <2>2. PICK s \in SendIds :
            /\ InsertSend(j, s, "commentReply", t)
            /\ Becomes(j, [act[j] EXCEPT !.pc = "addReply", !.send = s, !.text = t])
      BY ZenonT(60), <1>2 DEF InsertReply
    <2> HIDE DEF t
    <2> DEFINE h == [act[j] EXCEPT !.pc = "addReply", !.send = s, !.text = t]
    <2>3. h.pc = "addReply" /\ h.send = s /\ h.automation = act[j].automation
      BY HandlerType DEF Act
    <2>4. Becomes(j, h)
      BY <2>2
    <2> HIDE DEF h
    <2> QED
      BY <1>2, <2>1, <2>2, <2>3, <2>4, Moved DEF InsertReply, Inserts
  <1> QED
    BY <1>1, <1>2

\* Where a handler starts, by the type of its job.
LEMMA StartIs ==
  ASSUME TypeInv, NEW w \in Workers, NEW j \in JobIds, Start(w, j)
  PROVE  /\ jobs[j].state = "waiting" /\ jobs'[j].state = "active"
         /\ jobs'[j].data = jobs[j].data /\ jobs'[j].stalls = jobs[j].stalls
         /\ act'[j].send = jobs[j].data.send /\ act'[j].lead = "none"
         /\ act'[j].flagged = FALSE
         /\ \/ jobs[j].data.type = "process-event" /\ act'[j].pc = "load"
            \/ jobs[j].data.type = "generate-ai-reply" /\ act'[j].pc = "genLoad"
            \/ jobs[j].data.type = "send-dm" /\ act'[j].pc = "dmLoad"
            \/ jobs[j].data.type = "send-comment-reply" /\ act'[j].pc = "crLoad"
         /\ \A k \in JobIds : k # j => act'[k] = act[k] /\ jobs'[k] = jobs[k]
  <1>1. /\ jobs'[j].state = "active"
        /\ jobs'[j].data = jobs[j].data /\ jobs'[j].stalls = jobs[j].stalls
    BY ZenonT(60) DEF Start, Take, TypeInv, TypeOK, Job
  <1>2. /\ jobs[j].state = "waiting"
        /\ \A k \in JobIds : k # j => jobs'[k] = jobs[k]
    BY DEF Start, Take, TypeInv, TypeOK
  <1> DEFINE p == FirstStep(jobs[j].data.type)
             h == [Idle EXCEPT !.pc = p, !.worker = w, !.send = jobs[j].data.send]
  <1>3. h.pc = p /\ h.send = jobs[j].data.send /\ h.lead = "none" /\ h.flagged = FALSE
    BY DEF Idle
  <1>4. Becomes(j, h)
    BY DEF Start
  <1>5. \/ jobs[j].data.type = "process-event" /\ p = "load"
        \/ jobs[j].data.type = "generate-ai-reply" /\ p = "genLoad"
        \/ jobs[j].data.type = "send-dm" /\ p = "dmLoad"
        \/ jobs[j].data.type = "send-comment-reply" /\ p = "crLoad"
    <2>1. jobs[j].data.type \in {"process-event", "generate-ai-reply", "send-dm",
                                 "send-comment-reply"}
      BY <1>2, HandlerType DEF JobInv, Job, JobData, JobType
    <2> QED
      BY <2>1 DEF FirstStep
  <1> HIDE DEF p, h
  <1>6. act'[j] = h /\ \A k \in JobIds : k # j => act'[k] = act[k]
    BY <1>4, BecomesFrame
  <1> QED
    BY <1>1, <1>2, <1>3, <1>5, <1>6

--------------------------------------------------------------------------------
(* The ways of a job.                                                      *)

\* The steps that may complete a job.
Finishes(j) == Load(j) \/ GenLoad(j) \/ DmLoad(j) \/ Return(j)

\* A job as it is added.
Added(d) == [state |-> "waiting", data |-> d, worker |-> None, stalls |-> 0]

AnswerJob(j) ==
  IF Config[act[j].automation].ai
    THEN GenerateAiReplyJob(EventOf(j), act[j].send)
    ELSE SendDMJob(act[j].send, act[j].account, act[j].text)

NewJob(k) ==
  /\ jobs[k].state = "none"
  /\ \/ \E m \in Messages : EnqueueEvent(m) /\ jobs'[k] = Added(ProcessEventJob(m))
     \/ \E j \in JobIds : AddDm(j) /\ jobs'[k] = Added(AnswerJob(j))
     \/ \E j \in JobIds :
          /\ AddReply(j)
          /\ jobs'[k] = Added(SendCommentReplyJob(act[j].send, act[j].account, act[j].text))
     \/ \E j \in JobIds :
          /\ GenAdd(j)
          /\ jobs'[k] = Added(SendDMJob(act[j].send, act[j].account, act[j].text))

\* The ways of a job that is in the queue: it is started, refused, found stalled
\* (and handed out again or not), loses its worker, fails, or completes.
OldJob(k) ==
  /\ jobs[k].state # "none" /\ jobs'[k].data = jobs[k].data
  /\ \/ /\ \E w \in Workers : Start(w, k)
        /\ jobs[k].state = "waiting" /\ jobs'[k].state = "active"
        /\ jobs'[k].stalls = jobs[k].stalls
     \/ /\ jobs[k].state = "waiting" /\ jobs'[k].state = "failed"
        /\ jobs'[k].stalls = jobs[k].stalls
     \/ /\ Stalled(k)
        /\ jobs[k].state = "active" /\ jobs[k].worker = None /\ jobs'[k].state = "waiting"
        /\ jobs'[k].stalls = jobs[k].stalls + 1
     \/ /\ jobs[k].state = "active" /\ jobs[k].worker = None /\ jobs'[k].state = "failed"
        /\ jobs'[k].stalls = jobs[k].stalls
     \/ /\ jobs[k].state = "active" /\ jobs'[k].state = "active" /\ jobs'[k].worker = None
        /\ jobs'[k].stalls = jobs[k].stalls /\ act'[k] \in {act[k], Idle}
     \/ /\ jobs[k].state = "active" /\ jobs'[k].state = "failed" /\ act[k].pc # "idle"
        /\ jobs'[k].stalls = jobs[k].stalls /\ (act'[k] = Idle \/ act[k].lead = "running")
     \/ /\ jobs[k].state = "active" /\ jobs'[k].state = "completed" /\ act[k].pc # "idle"
        /\ jobs'[k].stalls = jobs[k].stalls /\ act'[k] = Idle /\ Finishes(k)

LEMMA AddCases ==
  ASSUME TypeInv, NEW k \in JobIds, NEW i \in JobIds, NEW d, Add(i, d)
  PROVE  \/ jobs'[k] = jobs[k]
         \/ jobs[k].state = "none" /\ jobs'[k] = Added(d)
  BY SMTT(60) DEF Add, IsNextJob, Added, TypeInv, TypeOK

LEMMA SettleCases ==
  ASSUME TypeInv, NEW k \in JobIds, NEW j \in JobIds, NEW o \in {"completed", "failed"},
         Settle(j, o), act[j].pc # "idle", act'[j] = Idle \/ act[j].lead = "running",
         o = "completed" => Finishes(j) /\ act'[j] = Idle
  PROVE  jobs'[k] = jobs[k] \/ OldJob(k)
  <1>1. /\ jobs[j].state = "active" /\ jobs'[j].state = o
        /\ jobs'[j].data = jobs[j].data /\ jobs'[j].stalls = jobs[j].stalls
    BY ZenonT(60) DEF Settle, TypeInv, TypeOK, Job
  <1>2. j # k => jobs'[k] = jobs[k]
    BY DEF Settle, TypeInv, TypeOK
  <1> QED
    BY <1>1, <1>2 DEF OldJob

\* What the queue itself does to job k.
LEMMA QueueCases ==
  ASSUME TypeInv, NEW k \in JobIds,
         \/ \E w \in Workers, j \in JobIds : Start(w, j) \/ Refuse(w, j)
         \/ \E j \in JobIds : Stalled(j)
         \/ \E w \in Workers : Crash(w)
  PROVE  jobs'[k] = jobs[k] \/ OldJob(k)
  <1>1. ASSUME NEW w \in Workers, NEW j \in JobIds, Start(w, j)
        PROVE  jobs'[k] = jobs[k] \/ OldJob(k)
    <2>1. CASE j = k
      BY <1>1, <2>1, StartIs DEF OldJob
    <2>2. CASE j # k
      BY <1>1, <2>2, StartIs
    <2> QED
      BY <2>1, <2>2
  <1>2. ASSUME NEW w \in Workers, NEW j \in JobIds, Refuse(w, j)
        PROVE  jobs'[k] = jobs[k] \/ OldJob(k)
    BY SMTT(60), <1>2 DEF Refuse, OldJob, TypeInv, TypeOK, Job
  <1>3. ASSUME NEW j \in JobIds, Stalled(j)
        PROVE  jobs'[k] = jobs[k] \/ OldJob(k)
    <2>1. CASE jobs[j].stalls < MaxStalledCount
      <3>1. jobs' = [jobs EXCEPT ![j].state = "waiting", ![j].stalls = @ + 1]
        BY <1>3, <2>1 DEF Stalled, CheckStalled
      <3>2. /\ jobs'[j].state = "waiting" /\ jobs'[j].stalls = jobs[j].stalls + 1
            /\ jobs'[j].data = jobs[j].data
        BY <3>1, ZenonT(60) DEF TypeInv, TypeOK, Job
      <3>3. j # k => jobs'[k] = jobs[k]
        BY <3>1 DEF TypeInv, TypeOK
      <3> QED
        BY <1>3, <3>2, <3>3 DEF Stalled, CheckStalled, OldJob
    <2>2. CASE ~(jobs[j].stalls < MaxStalledCount)
      BY SMTT(60), <1>3, <2>2 DEF Stalled, CheckStalled, OldJob, TypeInv, TypeOK, Job
    <2> QED
      BY <2>1, <2>2
  <1>4. ASSUME NEW w \in Workers, Crash(w)
        PROVE  jobs'[k] = jobs[k] \/ OldJob(k)
    <2>1. CASE jobs[k].state = "active" /\ jobs[k].worker = w
      <3>1. /\ jobs'[k].state = "active" /\ jobs'[k].worker = None
            /\ jobs'[k].data = jobs[k].data /\ jobs'[k].stalls = jobs[k].stalls
        BY ZenonT(60), <1>4, <2>1 DEF Crash, Lose, TypeInv, TypeOK, Job
      <3>2. act'[k] \in {act[k], Idle}
        BY <1>4 DEF Crash
      <3> QED
        BY <2>1, <3>1, <3>2 DEF OldJob
    <2>2. CASE ~(jobs[k].state = "active" /\ jobs[k].worker = w)
      BY <1>4, <2>2 DEF Crash, Lose
    <2> QED
      BY <2>1, <2>2
  <1> QED
    BY <1>1, <1>2, <1>3, <1>4

LEMMA EndCases ==
  ASSUME TypeInv, NEW k \in JobIds, NEW j \in JobIds, NEW o \in {"completed", "failed"},
         End(j, o), act[j].pc # "idle", Finishes(j)
  PROVE  jobs'[k] = jobs[k] \/ OldJob(k)
  BY SettleCases, Moved DEF End

LEMMA RejectCases ==
  ASSUME TypeInv, NEW k \in JobIds, NEW j \in JobIds, Reject(j), act[j].pc # "idle"
  PROVE  jobs'[k] = jobs[k] \/ OldJob(k)
  <1>1. act'[j] = Idle \/ act[j].lead = "running"
    BY Moved DEF Reject
  <1>2. jobs' = jobs \/ Settle(j, "failed")
    BY SMTT(60) DEF Reject
  <1> QED
    BY <1>1, <1>2, SettleCases

\* What the handlers do to job k.
LEMMA HandlerJobCases ==
  ASSUME TypeInv, NEW k \in JobIds, NEW j \in JobIds, Handle(j) \/ Throw(j)
  PROVE  jobs'[k] = jobs[k] \/ OldJob(k) \/ NewJob(k)
  <1>1. ASSUME AddDm(j) PROVE jobs'[k] = jobs[k] \/ NewJob(k)
    <2>1. PICK i \in JobIds : Add(i, AnswerJob(j))
      BY <1>1 DEF AddDm, AnswerJob
    <2> QED
      BY <1>1, <2>1, AddCases DEF NewJob
  <1>2. ASSUME AddReply(j) PROVE jobs'[k] = jobs[k] \/ NewJob(k)
    <2>1. PICK i \in JobIds :
            Add(i, SendCommentReplyJob(act[j].send, act[j].account, act[j].text))
      BY <1>2 DEF AddReply
    <2> QED
      BY <1>2, <2>1, AddCases DEF NewJob
  <1>3. ASSUME GenAdd(j) PROVE jobs'[k] = jobs[k] \/ NewJob(k)
    <2>1. PICK i \in JobIds : Add(i, SendDMJob(act[j].send, act[j].account, act[j].text))
      BY <1>3 DEF GenAdd
    <2> QED
      BY <1>3, <2>1, AddCases DEF NewJob
  <1>4. ASSUME Load(j) \/ GenLoad(j) \/ DmLoad(j) \/ Return(j)
        PROVE  jobs'[k] = jobs[k] \/ OldJob(k)
    <2>1. act[j].pc # "idle" /\ Finishes(j)
      BY <1>4 DEF Load, GenLoad, DmLoad, Return, Finishes
    <2>2. \/ jobs' = jobs \/ End(j, "completed") \/ End(j, "failed")
      BY SMTT(60), <1>4 DEF Load, GenLoad, DmLoad, Return
    <2> QED
      BY <2>1, <2>2, EndCases
  <1>5. ASSUME Throw(j) \/ InsertFails(j) PROVE jobs'[k] = jobs[k] \/ OldJob(k)
    BY <1>5, RejectCases DEF Throw, InsertFails
  <1>6. ASSUME CaptureLeadFails(j) PROVE jobs'[k] = jobs[k] \/ OldJob(k)
    <2>1. act[j].pc # "idle"
      BY <1>6, HandlerType DEF CaptureLeadFails, HandlerInv
    <2>2. jobs' = jobs \/ Settle(j, "failed")
      BY <1>6 DEF CaptureLeadFails
    <2>3. act[j].lead = "running"
      BY <1>6 DEF CaptureLeadFails
    <2> QED
      BY <2>1, <2>2, <2>3, SettleCases
  <1>7. CASE jobs' = jobs
    BY <1>7
  <1>8. ASSUME processEvent(j), jobs' # jobs, ~Load(j), ~InsertFails(j), ~CaptureLeadFails(j),
               ~AddDm(j), ~AddReply(j)
        PROVE  FALSE
    BY ZenonT(60), <1>8
    DEF processEvent, Dedupe, ClassifyIntent, QueryAutomations, Match, MatchingDone,
        InsertDm, InsertReply, CaptureLead, MarkProcessed, DetachedEnd
  <1>9. ASSUME generateAiReply(j) \/ sendDM(j), jobs' # jobs, ~GenLoad(j), ~DmLoad(j),
               ~GenAdd(j)
        PROVE  FALSE
    BY ZenonT(60), <1>9
    DEF generateAiReply, sendDM, GenAnswered, GenFallback, GenFails, GenFlagged,
        ModerationCaught, GenContent, DmGate, CrLoad, PostAccepted, PostAnswerLost,
        PostRefused, PostServerError, WriteOutcome, WriteSentFails
  <1> QED
    BY <1>1, <1>2, <1>3, <1>4, <1>5, <1>6, <1>7, <1>8, <1>9 DEF Handle

\* What happens to job k.
LEMMA JobCases ==
  ASSUME TypeInv, [Next]_vars, NEW k \in JobIds
  PROVE  jobs'[k] = jobs[k] \/ OldJob(k) \/ NewJob(k)
  <1>1. ASSUME NEW m \in Messages, EnqueueEvent(m) PROVE jobs'[k] = jobs[k] \/ NewJob(k)
    <2>1. PICK i \in JobIds : Add(i, ProcessEventJob(m))
      BY <1>1 DEF EnqueueEvent
    <2> QED
      BY <1>1, <2>1, AddCases DEF NewJob
  <1>2. ASSUME NEW m \in Messages, InsertEvent(m) \/ EnqueueEventFails(m) PROVE jobs' = jobs
    BY <1>2 DEF InsertEvent, EnqueueEventFails
  <1>3. ASSUME Owner PROVE jobs' = jobs
    BY <1>3 DEF Owner, SetStatus, DeleteAutomation, Disconnect
  <1> QED
    BY <1>1, <1>2, <1>3, QueueCases, HandlerJobCases DEF Next, vars

\* A job keeps what it is about, and its stalls are counted.
LEMMA JobKept ==
  ASSUME TypeInv, [Next]_vars, NEW k \in JobIds, jobs[k].state # "none"
  PROVE  /\ jobs'[k].data = jobs[k].data /\ jobs'[k].state # "none"
         /\ jobs[k].stalls \in Nat /\ jobs'[k].stalls \in Nat
         /\ jobs'[k].stalls >= jobs[k].stalls
         /\ jobs[k].state = "failed" => jobs'[k].state = "failed"
         /\ jobs[k].state = "completed" => jobs'[k].state = "completed"
  <1>1. jobs[k].stalls \in Nat
    BY HandlerType DEF Job
  <1> QED
    BY <1>1, JobCases DEF OldJob, NewJob

LEMMA JobDataIs ==
  /\ \A m : LET d == ProcessEventJob(m) IN
       d.type = "process-event" /\ d.event = m /\ d.send = 0
  /\ \A m, s : LET d == GenerateAiReplyJob(m, s) IN
       d.type = "generate-ai-reply" /\ d.send = s
  /\ \A s, acc, t : LET d == SendDMJob(s, acc, t) IN
       d.type = "send-dm" /\ d.send = s /\ d.text = t
  /\ \A s, acc, t : LET d == SendCommentReplyJob(s, acc, t) IN
       d.type = "send-comment-reply" /\ d.send = s
  /\ \A d : Added(d).data = d /\ Added(d).state = "waiting" /\ Added(d).stalls = 0
  BY DEF ProcessEventJob, GenerateAiReplyJob, SendDMJob, SendCommentReplyJob, Added

LEMMA NewJobIs ==
  ASSUME TypeInv, [Next]_vars, NEW k \in JobIds, NewJob(k)
  PROVE  jobs[k].state = "none" /\ jobs'[k].state = "waiting" /\ jobs'[k].stalls = 0
  BY JobDataIs DEF NewJob

--------------------------------------------------------------------------------
(* The customer's own words are never sent back.                           *)

\* The text that a handler is about to put into a job.
TextInv ==
  /\ NeverEchoesInbound
  /\ \A j \in JobIds :
       /\ jobs[j].state = "none" => jobs[j].data.type # "send-dm"
       /\ act[j].pc \in {"insertDm", "addDm"} =>
            Config[act[j].automation].ai \/ act[j].text # "inbound"
       /\ act[j].pc \in {"genContent", "genAdd"} => act[j].text # "inbound"

LEMMA InitText == Init => TextInv
  BY DEF Init, QueueInit, NoJob, NoData, ProcessEventJob, Idle, TextInv, NeverEchoesInbound

LEMMA NextText == TypeInv /\ TextInv /\ [Next]_vars => TextInv'
  <1> SUFFICES ASSUME TypeInv, TextInv, [Next]_vars PROVE TextInv'
    OBVIOUS
  <1>1. ASSUME NEW k \in JobIds, jobs'[k].data.type = "send-dm"
        PROVE  jobs'[k].data.text # "inbound"
    <2>1. CASE jobs'[k] = jobs[k] \/ OldJob(k)
      BY <1>1, <2>1 DEF OldJob, TextInv, NeverEchoesInbound
    <2>2. ASSUME NEW j \in JobIds, AddDm(j), jobs'[k] = Added(AnswerJob(j))
          PROVE  jobs'[k].data.text # "inbound"
      <3>1. act[j].pc = "addDm" /\ ~Config[act[j].automation].ai
        BY <1>1, <2>2, JobDataIs DEF AddDm, AnswerJob
      <3> QED
        BY <2>2, <3>1, JobDataIs DEF AnswerJob, TextInv
    <2>3. ASSUME NEW j \in JobIds, GenAdd(j),
                 jobs'[k] = Added(SendDMJob(act[j].send, act[j].account, act[j].text))
          PROVE  jobs'[k].data.text # "inbound"
      BY <2>3, JobDataIs DEF GenAdd, TextInv
    <2>4. ASSUME NEW m, jobs'[k] = Added(ProcessEventJob(m)) PROVE FALSE
      BY <1>1, <2>4, JobDataIs
    <2>5. ASSUME NEW j \in JobIds,
                 jobs'[k] = Added(SendCommentReplyJob(act[j].send, act[j].account, act[j].text))
          PROVE  FALSE
      BY <1>1, <2>5, JobDataIs
    <2> QED
      BY <2>1, <2>2, <2>3, <2>4, <2>5, JobCases DEF NewJob
  <1>2. ASSUME NEW k \in JobIds, jobs'[k].state = "none"
        PROVE  jobs'[k].data.type # "send-dm"
    <2>1. jobs[k].state = "none"
      BY <1>2, JobKept
    <2> QED
      BY <1>2, <2>1, JobCases, NewJobIs DEF OldJob, TextInv
  <1>3. ASSUME NEW j \in JobIds
        PROVE  /\ act'[j].pc \in {"insertDm", "addDm"} =>
                    Config[act'[j].automation].ai \/ act'[j].text # "inbound"
               /\ act'[j].pc \in {"genContent", "genAdd"} => act'[j].text # "inbound"
    <2>1. CASE act'[j] = act[j]
      BY <2>1 DEF TextInv
    <2>2. CASE act'[j] = Idle \/ Stops(j) \/ \E w \in Workers : Start(w, j)
      BY <2>2, IdleFacts, StartFrame DEF Stops
    <2>3. CASE processEvent(j)
      <3>1. CASE InsertDm(j) \/ InsertReply(j)
        BY <3>1, InsertPlaces DEF TextInv
      <3>2. CASE CaptureLead(j) \/ CaptureLeadFails(j)
        BY <2>2, <3>2, EventPlaces DEF Stays, At, TextInv
      <3> QED
        BY <2>2, <2>3, <3>1, <3>2, EventPlaces DEF processEvent
    <2>4. CASE generateAiReply(j)
      BY <2>2, <2>4, GenLoadIs, GenPlaces DEF generateAiReply, At, TextInv
    <2>5. CASE sendDM(j)
      BY <2>2, <2>5, SendPlaces DEF sendDM, At
    <2> QED
      BY <2>1, <2>2, <2>3, <2>4, <2>5, HandlerFrame
  <1> QED
    BY <1>1, <1>2, <1>3 DEF TextInv, NeverEchoesInbound

\* No send-dm job carries the customer's own words, which processEvent stores in the
\* row for the model to answer: not when the AI answers, falls back, is flagged or
\* fails, and not when the handler is run again.
THEOREM InboundNeverEchoed == Spec => []NeverEchoesInbound
  <1>1. TextInv => NeverEchoesInbound
    BY DEF TextInv
  <1> QED
    BY <1>1, InvariantTypeInv, InitText, NextText, PTL DEF Spec

--------------------------------------------------------------------------------
(* What the rows say, and what Meta took.                                  *)

\* Handler j's call goes through.
Posts(j) == PostAccepted(j) \/ PostAnswerLost(j)

LEMMA DeliveredCases ==
  ASSUME TypeInv, [Next]_vars
  PROVE  delivered' = delivered \/ \E j \in JobIds : Posts(j)
  <1>1. ASSUME NEW j \in JobIds, processEvent(j) PROVE delivered' = delivered
    BY ZenonT(60), <1>1
    DEF processEvent, Load, Dedupe, ClassifyIntent, QueryAutomations, Match, MatchingDone,
        InsertDm, InsertReply, InsertFails, AddDm, AddReply, CaptureLead, CaptureLeadFails,
        MarkProcessed, DetachedEnd, tables
  <1>2. ASSUME NEW j \in JobIds, generateAiReply(j) \/ sendDM(j), ~Posts(j)
        PROVE  delivered' = delivered
    BY ZenonT(60), <1>2
    DEF generateAiReply, sendDM, GenLoad, GenAnswered, GenFallback, GenFails, GenFlagged,
        ModerationCaught, GenContent, GenAdd, DmLoad, DmGate, CrLoad, PostRefused,
        PostServerError, WriteOutcome, WriteSentFails, tables, Posts
  <1>3. ASSUME NEW j \in JobIds, Throw(j) \/ Stalled(j) \/ Return(j)
        PROVE  delivered' = delivered
    BY <1>3 DEF Throw, Stalled, Return, tables
  <1>4. ASSUME NEW w \in Workers, NEW j \in JobIds, Start(w, j) \/ Refuse(w, j) \/ Crash(w)
        PROVE  delivered' = delivered
    BY <1>4 DEF Start, Refuse, Crash, tables
  <1>5. ASSUME Owner PROVE delivered' = delivered
    BY <1>5 DEF Owner, SetStatus, DeleteAutomation, Disconnect
  <1>6. ASSUME NEW m \in Messages, InsertEvent(m) \/ EnqueueEvent(m) \/ EnqueueEventFails(m)
        PROVE  delivered' = delivered
    BY <1>6 DEF InsertEvent, EnqueueEvent, EnqueueEventFails
  <1>7. ASSUME NEW w \in Workers, Crash(w) PROVE delivered' = delivered
    BY <1>7 DEF Crash, tables
  <1> QED
    BY <1>1, <1>2, <1>3, <1>4, <1>5, <1>6, <1>7 DEF Next, Handle, vars

\* What a call that goes through does.
LEMMA PostIs ==
  ASSUME TypeInv, NEW j \in JobIds, Posts(j)
  PROVE  /\ act[j].pc \in {"dmPost", "crPost"} /\ act[j].send \in SendIds
         /\ act'[j].send = act[j].send
         /\ act'[j].pc = "write" /\ act'[j].out \in {"sent", "failed"}
         /\ jobs' = jobs /\ sends' = sends
         /\ delivered'[act[j].send] = delivered[act[j].send] + 1
         /\ \A s \in SendIds : s # act[j].send => delivered'[s] = delivered[s]
  <1>1. act[j].pc \in {"dmPost", "crPost"}
    BY DEF Posts, PostAccepted, PostAnswerLost, AtMeta
  <1>2. act[j].send \in SendIds
    BY <1>1, Subject, StepNames
  <1>3. /\ act'[j].send = act[j].send
        /\ act'[j].pc = "write" /\ act'[j].out \in {"sent", "failed"}
    BY SendPlaces DEF Posts
  <1>4. delivered' = [delivered EXCEPT ![act[j].send] = @ + 1]
    BY DEF Posts, PostAccepted, PostAnswerLost
  <1>5. jobs' = jobs /\ sends' = sends
    BY DEF Posts, PostAccepted, PostAnswerLost
  <1> QED
    BY <1>1, <1>2, <1>3, <1>4, <1>5 DEF TypeInv, TypeOK, TablesOK

LEMMA DeliveredGrows ==
  ASSUME TypeInv, [Next]_vars, NEW s \in SendIds
  PROVE  delivered[s] \in Nat /\ delivered'[s] \in Nat /\ delivered'[s] >= delivered[s]
  <1>1. delivered[s] \in Nat
    BY DEF TypeInv, TypeOK, TablesOK
  <1> QED
    BY <1>1, DeliveredCases, PostIs

\* What happens to the status of a row.
LEMMA StatusCases ==
  ASSUME TypeInv, RowInv, [Next]_vars, NEW s \in SendIds
  PROVE  \/ sends'[s].status = sends[s].status
         \/ \E j \in JobIds : Inserts(j, s)
         \/ \E j \in JobIds : /\ WriteOutcome(j) /\ act[j].send = s
                              /\ act[j].out \in Outcomes /\ sends'[s].status = act[j].out
                              /\ sends[s].status \notin {"none", "deleted"}
         \/ /\ sends[s].status # "none" /\ sends'[s].status = "deleted"
            /\ \E acc \in Accounts : Disconnect(acc)
  <1>1. sends \in [SendIds -> Send]
    BY DEF TypeInv, TypeOK, TablesOK
  <1>2. CASE sends' = sends
    BY <1>2
  <1>3. ASSUME NEW j \in JobIds, InsertDm(j) \/ InsertReply(j)
        PROVE  sends'[s].status = sends[s].status \/ Inserts(j, s)
    BY <1>3, InsertPlaces, InsertFrame
  <1>4. ASSUME NEW j \in JobIds, NEW r \in SendIds, NEW row, sends' = OnRow(r, row)
        PROVE  \/ sends'[s] = sends[s]
               \/ r = s /\ sends'[s] = row /\ sends[s].status \notin {"none", "deleted"}
    BY SMTT(60), <1>1, <1>4 DEF OnRow
  <1>5. ASSUME NEW j \in JobIds, GenContent(j)
        PROVE  sends'[s].status = sends[s].status
    <2> DEFINE r == act[j].send
               row == [sends[r] EXCEPT !.text = act[j].text]
    <2>1. r \in SendIds
      BY <1>5, Subject, StepNames DEF GenContent
    <2>2. row.status = sends[r].status
      BY <1>1, <2>1 DEF Send
    <2>3. sends' = OnRow(r, row)
      BY <1>5 DEF GenContent
    <2> HIDE DEF row, r
    <2> QED
      BY <1>4, <2>1, <2>2, <2>3
  <1>6. ASSUME NEW j \in JobIds, WriteOutcome(j)
        PROVE  \/ sends'[s].status = sends[s].status
               \/ /\ act[j].send = s
                  /\ act[j].out \in Outcomes /\ sends'[s].status = act[j].out
                  /\ sends[s].status \notin {"none", "deleted"}
    <2> DEFINE r == act[j].send
               row == [sends[r] EXCEPT !.status = act[j].out]
    <2>1. r \in SendIds /\ act[j].out \in Outcomes \cup {"retry"}
      BY <1>6, Subject, StepNames, HandlerType DEF WriteOutcome, HandlerInv
    <2>2. row.status = act[j].out
      BY <1>1, <2>1 DEF Send
    <2>3. IF act[j].out = "retry" THEN sends' = sends ELSE sends' = OnRow(r, row)
      BY <1>6 DEF WriteOutcome
    <2> HIDE DEF row
    <2> QED
      BY <1>4, <2>1, <2>2, <2>3
  <1>7. ASSUME NEW a \in Automations, DeleteAutomation(a)
        PROVE  sends'[s].status = sends[s].status
    BY <1>1, <1>7 DEF DeleteAutomation, Send
  <1>8. ASSUME NEW acc \in Accounts, Disconnect(acc)
        PROVE  \/ sends'[s].status = sends[s].status
               \/ sends[s].status # "none" /\ sends'[s].status = "deleted"
    <2>1. sends'[s] = IF sends[s].account = acc
                        THEN [sends[s] EXCEPT !.status = "deleted", !.automation = None]
                        ELSE sends[s]
      BY <1>8 DEF Disconnect
    <2> QED
      BY <1>1, <2>1, QueueAssumption DEF Send, RowInv
  <1>9. ASSUME NEW j \in JobIds, processEvent(j), ~InsertDm(j), ~InsertReply(j)
        PROVE  sends' = sends
    BY ZenonT(60), <1>9
    DEF processEvent, tables, Load, Dedupe, ClassifyIntent, QueryAutomations, Match,
        MatchingDone, InsertFails, AddDm, AddReply, CaptureLead, CaptureLeadFails,
        MarkProcessed, DetachedEnd
  <1>10. ASSUME NEW j \in JobIds, generateAiReply(j) \/ sendDM(j),
                ~GenContent(j), ~WriteOutcome(j)
         PROVE  sends' = sends
    BY ZenonT(60), <1>10
    DEF generateAiReply, sendDM, tables, GenLoad, GenAnswered, GenFallback, GenFails,
        GenFlagged, ModerationCaught, GenAdd, DmLoad, DmGate, CrLoad, PostAccepted,
        PostAnswerLost, PostRefused, PostServerError, WriteSentFails
  <1> QED
    BY ZenonT(60), <1>2, <1>3, <1>5, <1>6, <1>7, <1>8, <1>9, <1>10
    DEF Next, vars, tables, Handle, Owner, InsertEvent, EnqueueEvent, EnqueueEventFails,
        Start, Refuse, Throw, Stalled, Return, Crash, SetStatus

LEMMA OutcomeWords ==
  /\ Outcomes \cap {"none", "queued", "deleted", "retry"} = {}
  /\ "sent" \in Outcomes /\ "failed" \in Outcomes
  BY DEF Outcomes

\* A handler that is about to write "sent" has had its message accepted.
SentInv ==
  /\ SentWasDelivered
  /\ \A j \in JobIds :
       act[j].pc = "write" /\ act[j].out = "sent" => delivered[act[j].send] > 0

LEMMA InitSent == Init => SentInv
  BY DEF Init, NoSend, Idle, SentInv, SentWasDelivered

LEMMA NextSent == TypeInv /\ RowInv /\ SentInv /\ [Next]_vars => SentInv'
  <1> SUFFICES ASSUME TypeInv, RowInv, SentInv, [Next]_vars PROVE SentInv'
    OBVIOUS
  <1>1. ASSUME NEW s \in SendIds, sends'[s].status = "sent" PROVE delivered'[s] > 0
    <2>1. CASE sends[s].status = "sent"
      BY <2>1, DeliveredGrows DEF SentInv, SentWasDelivered
    <2>2. ASSUME NEW j \in JobIds, WriteOutcome(j), act[j].send = s, act[j].out = "sent"
          PROVE  delivered'[s] > 0
      BY <2>2, DeliveredGrows DEF SentInv, WriteOutcome
    <2> QED
      BY <1>1, <2>1, <2>2, StatusCases, InsertFrame
  <1>2. ASSUME NEW j \in JobIds, act'[j].pc = "write", act'[j].out = "sent"
        PROVE  delivered'[act'[j].send] > 0
    <2>1. CASE act'[j] = act[j]
      <3>1. act[j].send \in SendIds
        BY <1>2, <2>1, Subject, StepNames
      <3> QED
        BY <1>2, <2>1, <3>1, DeliveredGrows DEF SentInv
    <2>2. CASE act'[j] = Idle \/ Stops(j) \/ \E w \in Workers : Start(w, j)
      BY <1>2, <2>2, IdleFacts, StartFrame DEF Stops
    <2>3. CASE processEvent(j)
      <3>1. CASE Stays(j)
        <4>1. act[j].send \in SendIds
          BY <1>2, <3>1, Subject, StepNames DEF Stays, At
        <4> QED
          BY <1>2, <3>1, <4>1, DeliveredGrows DEF SentInv, Stays, At
      <3>2. ~InsertDm(j) /\ ~InsertReply(j)
        BY <1>2, InsertPlaces
      <3> QED
        BY <1>2, <2>2, <2>3, <3>1, <3>2, EventPlaces DEF processEvent
    <2>4. CASE generateAiReply(j)
      BY <1>2, <2>2, <2>4, GenLoadIs, GenPlaces DEF generateAiReply, At
    <2>5. CASE sendDM(j)
      <3>1. CASE Posts(j)
        BY <3>1, PostIs, DeliveredGrows
      <3> QED
        BY <1>2, <2>2, <2>5, <3>1, SendPlaces DEF sendDM, At, Posts
    <2> QED
      BY <2>1, <2>2, <2>3, <2>4, <2>5, HandlerFrame
  <1> QED
    BY <1>1, <1>2 DEF SentInv, SentWasDelivered

LEMMA InvariantRow == Spec => []RowInv
  BY InvariantTypeInv, InvariantOneJob, InitRow, NextRow, PTL DEF Spec

LEMMA InvariantSent == Spec => []SentInv
  BY InvariantTypeInv, InvariantRow, InitSent, NextSent, PTL DEF Spec

--------------------------------------------------------------------------------
(* A handler fits its job.                                                 *)

\* Why a handler moves.
LEMMA HandlerCauses ==
  ASSUME TypeInv, [Next]_vars, NEW j \in JobIds
  PROVE  \/ act'[j] = act[j]
         \/ \E w \in Workers : Start(w, j)
         \/ \E w \in Workers : Crash(w) /\ act[j].worker = w /\ act'[j] = Idle
         \/ Throw(j) \/ (Return(j) /\ act'[j] = Idle)
         \/ processEvent(j) \/ generateAiReply(j) \/ sendDM(j)
  <1>1. ASSUME NEW k \in JobIds, Handle(k) \/ Throw(k) \/ Stalled(k), j # k
        PROVE  act'[j] = act[j]
    <2>1. ASSUME NEW h, Becomes(k, h) PROVE act'[j] = act[j]
      BY <1>1, <2>1, BecomesFrame
    <2>2. CASE Throw(k) \/ Return(k) \/ Stalled(k)
      BY ZenonT(60), <2>1, <2>2 DEF Throw, Return, Stalled, End, Reject
    <2> QED
      BY <1>1, <2>2, OtherHandlers DEF Handle
  <1>2. Return(j) => act'[j] = Idle
    BY Moved DEF Return, End
  <1>3. Stalled(j) => act'[j] = act[j]
    BY DEF Stalled
  <1>4. ASSUME NEW w \in Workers, Crash(w)
        PROVE  act'[j] = act[j] \/ (act[j].worker = w /\ act'[j] = Idle)
    BY <1>4 DEF Crash
  <1>5. ASSUME NEW w \in Workers, NEW k \in JobIds, Start(w, k) \/ Refuse(w, k)
        PROVE  act'[j] = act[j] \/ Start(w, j)
    BY ZenonT(60), <1>5, BecomesFrame DEF Start, Refuse
  <1>6. ASSUME NEW m \in Messages,
               InsertEvent(m) \/ EnqueueEvent(m) \/ EnqueueEventFails(m)
        PROVE  act'[j] = act[j]
    BY <1>6 DEF InsertEvent, EnqueueEvent, EnqueueEventFails
  <1>7. ASSUME Owner PROVE act'[j] = act[j]
    BY <1>7 DEF Owner, SetStatus, DeleteAutomation, Disconnect
  <1> QED
    BY <1>1, <1>2, <1>3, <1>4, <1>5, <1>6, <1>7 DEF Next, Handle, vars

\* sendDM leaves the mark of flagged output alone.
LEMMA SendKeepsFlag ==
  ASSUME TypeInv, NEW j \in JobIds, sendDM(j), act'[j] # Idle
  PROVE  act'[j].flagged = act[j].flagged
  <1>1. ASSUME NEW o, Becomes(j, [act[j] EXCEPT !.pc = "write", !.out = o])
        PROVE  act'[j].flagged = act[j].flagged
    BY ZenonT(60), <1>1, Moved, HandlerFields DEF Fields
  <1>2. ASSUME NEW p, Goto(j, p) PROVE act'[j].flagged = act[j].flagged
    BY ZenonT(60), <1>2, Moved, HandlerFields DEF Goto, Fields
  <1>3. ASSUME WriteSentFails(j) PROVE act'[j].flagged = act[j].flagged
    BY ZenonT(60), <1>3, Moved, HandlerFields DEF WriteSentFails, Fields
  <1>4. ASSUME DmLoad(j) PROVE act'[j].flagged = act[j].flagged
    BY <1>2, <1>4, Moved DEF DmLoad, End
  <1> QED
    BY ZenonT(60), <1>1, <1>2, <1>3, <1>4
    DEF sendDM, DmGate, CrLoad, PostAccepted, PostAnswerLost, PostRefused,
        PostServerError, WriteOutcome

\* A handler is at a step of its job's type, works on its job's row, and its job is
\* active or has failed under it.
FitsInv ==
  \A j \in JobIds :
    /\ act[j].pc \in GenSteps => jobs[j].data.type = "generate-ai-reply"
    /\ act[j].pc \in DmSteps => jobs[j].data.type = "send-dm"
    /\ act[j].pc \in CrSteps => jobs[j].data.type = "send-comment-reply"
    /\ act[j].pc \in OwnSteps =>
         /\ jobs[j].data.type # "process-event" /\ act[j].send = jobs[j].data.send
         /\ act[j].flagged => jobs[j].data.type = "generate-ai-reply"
    /\ act[j].pc # "idle" => jobs[j].state \in {"active", "failed"}
    /\ jobs[j].data.type = "process-event" => jobs[j].data.send = 0

LEMMA InitFits == Init => FitsInv
  <1> SUFFICES ASSUME Init PROVE FitsInv
    OBVIOUS
  <1>1. ASSUME NEW j \in JobIds
        PROVE  act[j].pc = "idle" /\ jobs[j].data.send = 0
    BY IdleFacts DEF Init, QueueInit, NoJob, NoData, ProcessEventJob
  <1> QED
    BY <1>1 DEF FitsInv, OwnSteps, GenSteps, DmSteps, CrSteps

\* The handler of a row moves on.
LEMMA OwnMoves ==
  ASSUME TypeInv, FitsInv, NEW j \in JobIds, generateAiReply(j) \/ sendDM(j)
  PROVE  /\ act[j].pc \in OwnSteps
         /\ \/ act'[j] = Idle
            \/ /\ act'[j].pc \in OwnSteps \cup {"return"}
               /\ act'[j].send = act[j].send
         /\ act'[j].pc \in GenSteps => jobs[j].data.type = "generate-ai-reply"
         /\ act'[j].pc \in DmSteps => jobs[j].data.type = "send-dm"
         /\ act'[j].pc \in CrSteps => jobs[j].data.type = "send-comment-reply"
         /\ act'[j] # Idle /\ act'[j].flagged
              => act[j].flagged \/ jobs[j].data.type = "generate-ai-reply"
  <1> USE DEF OwnSteps, GenSteps, DmSteps, CrSteps
  <1>1. CASE generateAiReply(j)
    <2>1. jobs[j].data.type = "generate-ai-reply"
      BY <1>1
      DEF generateAiReply, GenLoad, GenAnswered, GenFallback, GenFails, GenFlagged,
          ModerationCaught, GenContent, GenAdd, FitsInv
    <2>2. /\ act[j].pc \in OwnSteps
          /\ \/ act'[j] = Idle
             \/ /\ act'[j].pc \in GenSteps \cup {"write", "return"}
                /\ act'[j].send = act[j].send
      BY <1>1, GenLoadIs, GenPlaces DEF generateAiReply, GenLoad, At
    <2> QED
      BY <2>1, <2>2, IdleFacts
  <1>2. CASE sendDM(j)
    <2>1. act'[j] # Idle => act'[j].flagged = act[j].flagged
      BY <1>2, SendKeepsFlag
    <2>2. \/ /\ act[j].pc \in DmSteps
             /\ \/ act'[j] = Idle
                \/ act'[j].pc \in DmSteps \cup {"write"} /\ act'[j].send = act[j].send
          \/ /\ act[j].pc \in CrSteps /\ act'[j].send = act[j].send
             /\ act'[j].pc \in CrSteps \cup {"write"}
          \/ /\ act[j].pc = "write" /\ act'[j].send = act[j].send
             /\ act'[j].pc \in {"write", "return"}
      BY <1>2, SendPlaces DEF sendDM, At, AtMeta
    <2> QED
      BY <2>1, <2>2, IdleFacts DEF FitsInv
  <1> QED
    BY <1>1, <1>2

\* processEvent does not lead to the steps of a row.
LEMMA EventMoves ==
  ASSUME TypeInv, NEW j \in JobIds, processEvent(j)
  PROVE  /\ act'[j].pc \notin OwnSteps \/ Stays(j)
         /\ act'[j].pc = "return" => MarkProcessed(j) \/ Stays(j)
         /\ act[j].pc # "idle"
  <1>1. act[j].lead = "running" => act[j].pc # "idle"
    BY HandlerType DEF HandlerInv
  <1>2. /\ act'[j].pc \notin OwnSteps \/ Stays(j)
        /\ act'[j].pc = "return" => MarkProcessed(j) \/ Stays(j)
    BY InsertPlaces, EventPlaces, IdleFacts
    DEF processEvent, OwnSteps, GenSteps, DmSteps, CrSteps, Stops
  <1>3. act[j].pc # "idle"
    BY <1>1
    DEF processEvent, Load, Dedupe, ClassifyIntent, QueryAutomations, Match, MatchingDone,
        InsertDm, InsertReply, InsertFails, AddDm, AddReply, CaptureLead, CaptureLeadFails,
        MarkProcessed, DetachedEnd
  <1> QED
    BY <1>2, <1>3

LEMMA NextFits == TypeInv /\ WorkerInv /\ FitsInv /\ [Next]_vars => FitsInv'
  <1> SUFFICES ASSUME TypeInv, WorkerInv, FitsInv, [Next]_vars, NEW j \in JobIds
               PROVE  /\ act'[j].pc \in GenSteps => jobs'[j].data.type = "generate-ai-reply"
                      /\ act'[j].pc \in DmSteps => jobs'[j].data.type = "send-dm"
                      /\ act'[j].pc \in CrSteps => jobs'[j].data.type = "send-comment-reply"
                      /\ act'[j].pc \in OwnSteps =>
                           /\ jobs'[j].data.type # "process-event"
                           /\ act'[j].send = jobs'[j].data.send
                           /\ act'[j].flagged => jobs'[j].data.type = "generate-ai-reply"
                      /\ act'[j].pc # "idle" => jobs'[j].state \in {"active", "failed"}
                      /\ jobs'[j].data.type = "process-event" => jobs'[j].data.send = 0
    BY DEF FitsInv
  <1> DEFINE Shape(h, d) ==
               /\ h.pc \in GenSteps => d.type = "generate-ai-reply"
               /\ h.pc \in DmSteps => d.type = "send-dm"
               /\ h.pc \in CrSteps => d.type = "send-comment-reply"
               /\ h.pc \in OwnSteps =>
                    /\ d.type # "process-event" /\ h.send = d.send
                    /\ h.flagged => d.type = "generate-ai-reply"
  <1>1. Shape(act[j], jobs[j].data)
    BY DEF FitsInv
  <1>2. act[j].pc # "idle" => jobs'[j].data = jobs[j].data
    BY HandlerType, JobKept DEF HandlerInv
  <1>3. Shape(act'[j], jobs'[j].data)
    <2> USE DEF OwnSteps, GenSteps, DmSteps, CrSteps
    <2>1. CASE act'[j] = act[j]
      BY <1>1, <1>2, <2>1
    <2>2. CASE act'[j] = Idle \/ Stops(j)
      BY <2>2, IdleFacts DEF Stops
    <2>3. ASSUME NEW w \in Workers, Start(w, j) PROVE Shape(act'[j], jobs'[j].data)
      BY <2>3, StartIs
    <2>4. CASE processEvent(j)
      <3>1. CASE Stays(j)
        <4>1. act[j].pc \in OwnSteps => ~processEvent(j)
          <5>1. act[j].lead = "running" => jobs[j].data.type = "process-event"
            BY HandlerType DEF HandlerInv
          <5>2. act[j].pc \in OwnSteps => act[j].lead # "running"
            BY <1>1, <5>1
          <5> QED
            BY <5>2
            DEF processEvent, Load, Dedupe, ClassifyIntent, QueryAutomations, Match,
                MatchingDone, InsertDm, InsertReply, InsertFails, AddDm, AddReply,
                CaptureLead, CaptureLeadFails, MarkProcessed, DetachedEnd
        <4> QED
          BY <2>4, <3>1, <4>1 DEF Stays, At
      <3> QED
        BY <2>4, <3>1, EventMoves
    <2>5. CASE generateAiReply(j) \/ sendDM(j)
      BY <1>1, <1>2, <2>2, <2>5, OwnMoves
    <2> HIDE DEF Shape
    <2> QED
      BY <2>1, <2>2, <2>3, <2>4, <2>5, HandlerFrame
  <1>4. act'[j].pc # "idle" => jobs'[j].state \in {"active", "failed"}
    <2>1. ASSUME NEW w \in Workers, Start(w, j) PROVE jobs'[j].state = "active"
      BY <2>1, StartIs
    <2>2. ASSUME act[j].pc # "idle", act'[j].pc # "idle"
          PROVE  jobs'[j].state \in {"active", "failed"}
      BY <2>2, JobCases, IdleFacts DEF OldJob, NewJob, FitsInv, WorkerInv
    <2> QED
      BY <2>1, <2>2, WorkerFrame
  <1>5. jobs'[j].data.type = "process-event" => jobs'[j].data.send = 0
    <2>1. CASE jobs'[j] = jobs[j] \/ OldJob(j)
      BY <2>1 DEF OldJob, FitsInv
    <2>2. CASE NewJob(j)
      <3>1. ASSUME NEW k, jobs'[j] = Added(AnswerJob(k))
            PROVE  jobs'[j].data.type # "process-event"
        BY <3>1, JobDataIs DEF AnswerJob
      <3>2. ASSUME NEW m, jobs'[j] = Added(ProcessEventJob(m))
            PROVE  jobs'[j].data.send = 0
        BY <3>2, JobDataIs
      <3>3. ASSUME NEW s, NEW acc, NEW t,
                   \/ jobs'[j] = Added(SendDMJob(s, acc, t))
                   \/ jobs'[j] = Added(SendCommentReplyJob(s, acc, t))
            PROVE  jobs'[j].data.type # "process-event"
        BY <3>3, JobDataIs
      <3> QED
        BY <2>2, <3>1, <3>2, <3>3 DEF NewJob
    <2> QED
      BY <2>1, <2>2, JobCases
  <1> QED
    BY <1>3, <1>4, <1>5

--------------------------------------------------------------------------------
(* No event is forgotten.                                                  *)

\* An event that was queued has its job, and one whose job is done, or about to be,
\* is processed.
QueuedInv ==
  /\ \A m \in Messages :
       events[m].stage = "queued" => \E j \in JobIds : IsEventJob(j) /\ EventOf(j) = m
  /\ \A j \in JobIds :
       IsEventJob(j) /\ (jobs[j].state = "completed" \/ act[j].pc = "return")
         => events[EventOf(j)].processed

LEMMA InitQueued == Init => QueuedInv
  BY DEF Init, QueueInit, NoJob, QueuedInv, IsEventJob

LEMMA ProcessedStays ==
  ASSUME TypeInv, [Next]_vars, NEW m \in Messages, events[m].processed
  PROVE  events'[m].processed
  <1>1. ASSUME NEW j \in JobIds, MarkProcessed(j), EventOf(j) = m
        PROVE  events'[m].processed
    BY <1>1 DEF MarkProcessed, TypeInv, TypeOK, TablesOK, Event
  <1>2. CASE EventStep(m)
    BY <1>1, <1>2 DEF EventStep
  <1>3. CASE InsertEvent(m) \/ EnqueueEvent(m) \/ EnqueueEventFails(m)
    BY <1>3, IngestFrame
  <1> QED
    BY <1>2, <1>3, EventFrame

\* An event job completes when its event is processed.
LEMMA EventJobEnds ==
  ASSUME TypeInv, FitsInv, QueuedInv, NEW j \in JobIds, IsEventJob(j), Finishes(j),
         act'[j] = Idle
  PROVE  events[EventOf(j)].processed
  <1>1. CASE Load(j)
    BY <1>1, EventPlaces, IdleFacts
  <1>2. CASE Return(j)
    BY <1>2 DEF Return, QueuedInv
  <1>3. ~GenLoad(j) /\ ~DmLoad(j)
    BY DEF GenLoad, DmLoad, FitsInv, GenSteps, DmSteps, IsEventJob
  <1> QED
    BY <1>1, <1>2, <1>3 DEF Finishes

LEMMA NextQueued == TypeInv /\ FitsInv /\ QueuedInv /\ [Next]_vars => QueuedInv'
  <1> SUFFICES ASSUME TypeInv, FitsInv, QueuedInv, [Next]_vars PROVE QueuedInv'
    OBVIOUS
  <1>1. ASSUME NEW j \in JobIds, IsEventJob(j)
        PROVE  /\ IsEventJob(j)' /\ EventOf(j)' = EventOf(j) /\ EventOf(j) \in Messages
               /\ events[EventOf(j)].processed => events'[EventOf(j)].processed
    <2>1. IsEventJob(j)' /\ EventOf(j)' = EventOf(j)
      BY <1>1, DataFrame DEF IsEventJob, EventOf
    <2>2. EventOf(j) \in Messages
      BY <1>1, HandlerType DEF IsEventJob, JobInv, EventOf
    <2> QED
      BY <2>1, <2>2, ProcessedStays
  <1>2. ASSUME NEW m \in Messages, events'[m].stage = "queued"
        PROVE  \E j \in JobIds : IsEventJob(j)' /\ EventOf(j)' = m
    <2>1. CASE events[m].stage = "queued"
      <3>1. PICK j \in JobIds : IsEventJob(j) /\ EventOf(j) = m
        BY <2>1 DEF QueuedInv
      <3> QED
        BY <1>1, <3>1
    <2>2. CASE EnqueueEvent(m)
      <3>1. PICK k \in JobIds : Add(k, ProcessEventJob(m))
        BY <2>2 DEF EnqueueEvent
      <3>2. jobs'[k] = Added(ProcessEventJob(m))
        BY <3>1 DEF Add, Added, TypeInv, TypeOK
      <3> QED
        BY <3>2, JobDataIs DEF IsEventJob, EventOf
    <2>3. ~InsertEvent(m) /\ ~EnqueueEventFails(m)
      BY <1>2 DEF InsertEvent, EnqueueEventFails, TypeInv, TypeOK, TablesOK, Event
    <2> QED
      BY <1>2, <2>1, <2>2, <2>3, EventFrame DEF EventStep
  <1>3. ASSUME NEW j \in JobIds, IsEventJob(j)', jobs'[j].state = "completed"
        PROVE  events'[EventOf(j)'].processed
    <2>1. IsEventJob(j)
      BY <1>3, JobCases, NewJobIs DEF OldJob, IsEventJob
    <2>2. CASE jobs[j].state = "completed"
      BY <1>1, <2>1, <2>2 DEF QueuedInv
    <2>3. CASE jobs[j].state # "completed"
      <3>1. Finishes(j) /\ act'[j] = Idle
        BY <1>3, <2>3, JobCases, NewJobIs DEF OldJob
      <3> QED
        BY <1>1, <2>1, <3>1, EventJobEnds
    <2> QED
      BY <2>2, <2>3
  <1>4. ASSUME NEW j \in JobIds, IsEventJob(j)', act'[j].pc = "return"
        PROVE  events'[EventOf(j)'].processed
    <2>1. ASSUME act[j].pc = "return" PROVE events'[EventOf(j)'].processed
      <3>1. IsEventJob(j)
        BY <1>4, <2>1, HandlerType, DataFrame DEF HandlerInv, IsEventJob
      <3> QED
        BY <1>1, <2>1, <3>1 DEF QueuedInv
    <2>2. ASSUME MarkProcessed(j) PROVE events'[EventOf(j)'].processed
      <3>1. EventOf(j)' = EventOf(j) /\ EventOf(j) \in Messages
        BY <1>1, <2>2, StepNames, HandlerType
        DEF MarkProcessed, HandlerInv, IsEventJob
      <3> QED
        BY <2>2, <3>1 DEF MarkProcessed, TypeInv, TypeOK, TablesOK, Event
    <2>3. ASSUME generateAiReply(j) \/ sendDM(j) PROVE FALSE
      <3>1. jobs[j].state # "none" /\ jobs[j].data.type # "process-event"
        BY <2>3, OwnMoves, OwnNames, HandlerType DEF HandlerInv, FitsInv
      <3> QED
        BY <1>4, <3>1, DataFrame DEF IsEventJob
    <2>4. CASE processEvent(j)
      BY <1>4, <2>1, <2>2, <2>4, EventMoves DEF Stays, At
    <2>5. ~(act'[j] = Idle \/ Stops(j) \/ \E w \in Workers : Start(w, j))
      BY <1>4, IdleFacts, StartFrame DEF Stops
    <2> QED
      BY <1>4, <2>1, <2>3, <2>4, <2>5, HandlerFrame
  <1> QED
    BY <1>2, <1>3, <1>4 DEF QueuedInv, IsEventJob, EventOf

LEMMA QueuedAccounted == TypeInv /\ QueuedInv => EventAccountedFor
  <1> SUFFICES ASSUME TypeInv, QueuedInv, NEW m \in Messages,
                      events[m].stage = "queued", ~events[m].processed
               PROVE  \E j \in JobIds : /\ jobs[j].data.event = m
                                        /\ jobs[j].data.type = "process-event"
                                        /\ Live(j) \/ jobs[j].state = "failed"
    BY DEF EventAccountedFor, TypeInv, TypeOK, TablesOK, Event
  <1>1. PICK j \in JobIds : IsEventJob(j) /\ EventOf(j) = m
    BY DEF QueuedInv
  <1>2. jobs[j].state \in {"waiting", "active", "failed"}
    BY <1>1, HandlerType DEF QueuedInv, IsEventJob, Job
  <1> QED
    BY <1>1, <1>2 DEF IsEventJob, EventOf, Live

--------------------------------------------------------------------------------
(* No send is forgotten.                                                   *)

Pending(j) == Live(j) \/ jobs[j].state = "failed"

\* Job j is a DM that is to be sent for row s, or failed.
DmPending(j, s) == Carries(j, s) /\ jobs[j].data.type = "send-dm" /\ Pending(j)

\* What the handler of job j leaves behind when it returns.
Dealt(j) ==
  \/ act[j].out = "retry"
  \/ sends[jobs[j].data.send].status # "queued"
  \/ /\ jobs[j].data.type = "generate-ai-reply"
     /\ \E i \in JobIds : DmPending(i, jobs[j].data.send)

SightInv ==
  /\ QueuedSendAccountedFor
  /\ \A j \in JobIds :
       act[j].pc \in {"addDm", "addReply"} =>
         sends[act[j].send].status # "none" /\ sends[act[j].send].by = j
  /\ \A j \in JobIds :
       jobs[j].state # "none" /\ jobs[j].data.type # "process-event" =>
         /\ sends[jobs[j].data.send].status # "none"
         /\ act[j].pc = "return" => Dealt(j)
  /\ \A s \in SendIds :
       sends[s].status # "none" => sends[s].run <= jobs[sends[s].by].stalls

LEMMA InitSight == Init => SightInv
  BY DEF Init, QueueInit, NoJob, NoSend, Idle, SightInv, QueuedSendAccountedFor

\* A row that is there is never queued again.
LEMMA NotQueuedAgain ==
  ASSUME TypeInv, RowInv, [Next]_vars, NEW s \in SendIds, sends[s].status # "none"
  PROVE  /\ sends'[s].status # "none"
         /\ sends[s].status # "queued" => sends'[s].status # "queued"
         /\ sends'[s].by = sends[s].by /\ sends'[s].run = sends[s].run
  <1>1. SendStep(s)
    BY SendFrame, InsertFrame
  <1>2. sends[s].status # "queued" => sends'[s].status # "queued"
    BY StatusCases, InsertFrame, OutcomeWords
  <1> QED
    BY <1>1, <1>2 DEF SendStep

\* The row of a job that is there.
LEMMA RowOfJob ==
  ASSUME TypeInv, SightInv, NEW j \in JobIds, jobs[j].state # "none",
         jobs[j].data.type # "process-event"
  PROVE  jobs[j].data.send \in SendIds /\ sends[jobs[j].data.send].status # "none"
  BY HandlerType DEF JobInv, SightInv

\* A job about a row completes when it has dealt with the row.
LEMMA RowJobEnds ==
  ASSUME TypeInv, FitsInv, SightInv, [Next]_vars, NEW j \in JobIds, jobs[j].state # "none",
         jobs[j].data.type # "process-event",
         jobs[j].state # "completed", jobs'[j].state = "completed"
  PROVE  \/ sends[jobs[j].data.send].status # "queued"
         \/ /\ jobs[j].data.type = "generate-ai-reply"
            /\ \E i \in JobIds : DmPending(i, jobs[j].data.send)
  <1>1. Finishes(j) /\ act'[j] = Idle
    BY JobCases, NewJobIs DEF OldJob
  <1>2. ~Load(j)
    BY HandlerType, StepNames DEF Load, HandlerInv
  <1>3. CASE GenLoad(j) \/ DmLoad(j)
    <2>1. act[j].send = jobs[j].data.send
      BY <1>3 DEF GenLoad, DmLoad, FitsInv, OwnSteps, GenSteps, DmSteps
    <2> QED
      BY <1>1, <1>3, <2>1, GenLoadIs, SendPlaces, IdleFacts DEF At
  <1>4. CASE Return(j)
    <2>1. act[j].out # "retry"
      BY <1>4 DEF Return, End, Settle, TypeInv, TypeOK, Job
    <2> QED
      BY <1>4, <2>1 DEF Return, SightInv, Dealt
  <1> QED
    BY <1>1, <1>2, <1>3, <1>4 DEF Finishes

LEMMA PendingStays ==
  ASSUME TypeInv, [Next]_vars, NEW j \in JobIds, jobs[j].state # "none", Pending(j)
  PROVE  Pending(j)' \/ (jobs'[j].state = "completed" /\ jobs[j].state # "completed")
  <1>1. jobs'[j].state \in {"waiting", "active", "failed", "completed"}
    BY JobCases, NewJobIs DEF OldJob, Pending, Live
  <1> QED
    BY <1>1 DEF Pending, Live

\* A DM that is waiting, running or failed stays so until its row is dealt with.
LEMMA DmPendingStays ==
  ASSUME TypeInv, RowInv, FitsInv, SightInv, [Next]_vars,
         NEW i \in JobIds, NEW s \in SendIds, DmPending(i, s)
  PROVE  DmPending(i, s)' \/ sends'[s].status # "queued"
  <1>1. /\ jobs[i].state # "none" /\ jobs[i].data.type = "send-dm" /\ Pending(i)
        /\ jobs[i].data.send = s
    BY DEF DmPending, Carries
  <1>2. CASE Pending(i)'
    BY <1>1, <1>2, DataFrame DEF DmPending, Carries
  <1>3. CASE jobs'[i].state = "completed" /\ jobs[i].state # "completed"
    BY <1>1, <1>3, RowJobEnds, RowOfJob, NotQueuedAgain
  <1> QED
    BY <1>1, <1>2, <1>3, PendingStays

\* A row that has a job keeps one until it is dealt with.
LEMMA CarrierStays ==
  ASSUME TypeInv, RowInv, FitsInv, SightInv, [Next]_vars,
         NEW i \in JobIds, NEW s \in SendIds, Carries(i, s), Pending(i)
  PROVE  \/ sends'[s].status # "queued"
         \/ \E k \in JobIds : Carries(k, s)' /\ Pending(k)'
  <1>1. jobs[i].state # "none" /\ jobs[i].data.send = s /\ s # 0
    BY DEF Carries, SendIds
  <1>2. jobs[i].data.type # "process-event"
    BY <1>1 DEF FitsInv
  <1>3. CASE Pending(i)'
    BY <1>1, <1>3, DataFrame DEF Carries
  <1>4. CASE jobs'[i].state = "completed" /\ jobs[i].state # "completed"
    <2>1. CASE sends[s].status # "queued"
      BY <1>1, <1>2, <2>1, RowOfJob, NotQueuedAgain
    <2>2. ASSUME NEW k \in JobIds, DmPending(k, s)
          PROVE  sends'[s].status # "queued" \/ (Carries(k, s)' /\ Pending(k)')
      BY <2>2, DmPendingStays DEF DmPending
    <2> QED
      BY <1>1, <1>2, <1>4, <2>1, <2>2, RowJobEnds
  <1> QED
    BY <1>1, <1>3, <1>4, PendingStays

\* The attempt that inserted a row has broken off: it stays so.
LEMMA BrokeOffStays ==
  ASSUME TypeInv, RowInv, WorkerInv, SightInv, [Next]_vars, NEW s \in SendIds,
         sends[s].status # "none", BrokeOff(s)
  PROVE  BrokeOff(s)'
  <1> DEFINE j == sends[s].by
  <1>1. /\ j \in JobIds /\ jobs[j].state # "none" /\ sends'[s].by = j
        /\ sends'[s].run = sends[s].run /\ sends[s].run <= jobs[j].stalls
        /\ sends[s].run \in Nat
    <2>1. sends[s].run \in Nat
      BY QueueAssumption DEF TypeInv, TypeOK, TablesOK, Send
    <2> QED
      BY <2>1, NotQueuedAgain DEF RowInv, IsEventJob, SightInv
  <1>2. \/ jobs[j].stalls > sends[s].run \/ jobs[j].state = "failed"
        \/ jobs[j].state = "active" /\ jobs[j].worker = None
    BY DEF BrokeOff
  <1> HIDE DEF j
  <1>3. /\ jobs[j].stalls \in Nat /\ jobs'[j].stalls \in Nat
        /\ jobs'[j].stalls >= jobs[j].stalls
        /\ jobs[j].state = "failed" => jobs'[j].state = "failed"
    BY <1>1, JobKept
  <1>4. CASE jobs[j].state = "active" /\ jobs[j].worker = None
    <2>1. act[j].pc = "idle"
      BY <1>1, <1>4 DEF WorkerInv
    <2>2. \/ jobs'[j] = jobs[j]
          \/ jobs'[j].stalls = jobs[j].stalls + 1
          \/ jobs'[j].state = "failed"
          \/ jobs'[j].state = "active" /\ jobs'[j].worker = None
      BY <1>1, <1>4, <2>1, JobCases DEF OldJob, NewJob
    <2>3. \/ jobs'[j].stalls > sends[s].run \/ jobs'[j].state = "failed"
          \/ jobs'[j].state = "active" /\ jobs'[j].worker = None
      BY <1>1, <1>3, <1>4, <2>2
    <2> QED
      BY <1>1, <2>3 DEF BrokeOff
  <1>5. CASE jobs[j].stalls > sends[s].run \/ jobs[j].state = "failed"
    <2>1. jobs'[j].stalls > sends[s].run \/ jobs'[j].state = "failed"
      BY <1>1, <1>3, <1>5
    <2> QED
      BY <1>1, <2>1 DEF BrokeOff
  <1> QED
    BY <1>2, <1>4, <1>5

\* A handler that is about to queue the job of the row it inserted: it is still
\* about to, has done so, or its attempt breaks off.
LEMMA AddingMoves ==
  ASSUME TypeInv, RowInv, WorkerInv, FitsInv, SightInv, [Next]_vars,
         NEW j \in JobIds, NEW s \in SendIds,
         act[j].pc \in {"addDm", "addReply"}, act[j].send = s
  PROVE  \/ act'[j].pc = act[j].pc /\ act'[j].send = s
         \/ \E k \in JobIds : Carries(k, s)' /\ Pending(k)'
         \/ BrokeOff(s)'
  <1>1. sends[s].status # "none" /\ sends[s].by = j /\ sends'[s].by = j
    BY NotQueuedAgain DEF SightInv
  <1>2. jobs[j].state \in {"active", "failed"} /\ j \in JobIds
    BY DEF FitsInv
  <1>3. ASSUME jobs'[j].state = "failed" PROVE BrokeOff(s)'
    BY <1>1, <1>3 DEF BrokeOff
  <1>4. CASE jobs[j].state = "failed"
    BY <1>3, <1>4, JobKept
  <1>5. ASSUME NEW k \in JobIds, NEW d, Add(k, d), d.send = s
        PROVE  \E i \in JobIds : Carries(i, s)' /\ Pending(i)'
    <2>1. jobs'[k] = Added(d)
      BY <1>5 DEF Add, Added, TypeInv, TypeOK
    <2> QED
      BY <1>5, <2>1, JobDataIs DEF Carries, Pending, Live
  <1>6. ASSUME AddDm(j) PROVE \E k \in JobIds : Carries(k, s)' /\ Pending(k)'
    <2>1. PICK k \in JobIds : Add(k, AnswerJob(j))
      BY <1>6 DEF AddDm, AnswerJob
    <2>2. AnswerJob(j).send = s
      BY JobDataIs DEF AnswerJob
    <2> QED
      BY <1>5, <2>1, <2>2
  <1>7. ASSUME AddReply(j) PROVE \E k \in JobIds : Carries(k, s)' /\ Pending(k)'
    <2>1. PICK k \in JobIds :
            Add(k, SendCommentReplyJob(act[j].send, act[j].account, act[j].text))
      BY <1>7 DEF AddReply
    <2> QED
      BY <1>5, <2>1, JobDataIs
  <1>8. ASSUME NEW w \in Workers, Crash(w), act[j].worker = w, jobs[j].state = "active"
        PROVE  BrokeOff(s)'
    <2>1. jobs[j].worker = w
      BY <1>8 DEF WorkerInv
    <2>2. jobs'[j].state = "active" /\ jobs'[j].worker = None
      BY ZenonT(60), <1>8, <2>1 DEF Crash, Lose, TypeInv, TypeOK, Job
    <2> QED
      BY <1>1, <2>2 DEF BrokeOff
  <1>9. ASSUME Throw(j), jobs[j].state = "active" PROVE jobs'[j].state = "failed"
    BY ZenonT(60), <1>9 DEF Throw, Reject, Running, Settle, TypeInv, TypeOK, Job
  <1>10. ASSUME NEW w \in Workers, Start(w, j) PROVE FALSE
    BY <1>2, <1>10, StartIs
  <1>11. CASE processEvent(j)
    BY <1>6, <1>7, <1>11, EventPlaces, InsertPlaces DEF processEvent, Stays, At
  <1>12. ~generateAiReply(j) /\ ~sendDM(j) /\ ~Return(j)
    BY OwnMoves, OwnNames, StepNames DEF Return, RowSteps, MatchSteps
  <1> QED
    BY <1>2, <1>3, <1>4, <1>8, <1>9, <1>10, <1>11, <1>12, HandlerCauses

\* The outcome is on record, unless the call is to be tried again.
LEMMA WriteDone ==
  ASSUME TypeInv, RowInv, [Next]_vars, NEW j \in JobIds, WriteOutcome(j)
  PROVE  act[j].out = "retry" \/ sends'[act[j].send].status # "queued"
  <1> DEFINE s == act[j].send
             row == [sends[s] EXCEPT !.status = act[j].out]
  <1>1. s \in SendIds /\ act[j].out \in Outcomes \cup {"retry"}
    BY Subject, StepNames, HandlerType DEF WriteOutcome, HandlerInv
  <1>2. row.status = act[j].out
    BY <1>1 DEF TypeInv, TypeOK, TablesOK, Send
  <1>3. act[j].out # "retry" => sends' = OnRow(s, row)
    BY DEF WriteOutcome
  <1>4. sends[s].status \in {"none", "deleted"} => sends[s].status # "queued"
    OBVIOUS
  <1> HIDE DEF row
  <1>5. ASSUME sends' = OnRow(s, row), row.status # "queued"
        PROVE  sends'[s].status # "queued"
    BY <1>1, <1>4, <1>5 DEF OnRow, TypeInv, TypeOK, TablesOK
  <1> QED
    BY <1>1, <1>2, <1>3, <1>5, OutcomeWords

\* A handler that returns has dealt with its row.
LEMMA NextDealt ==
  ASSUME TypeInv, RowInv, WorkerInv, FitsInv, SightInv, [Next]_vars, NEW j \in JobIds,
         jobs[j].state # "none", jobs[j].data.type # "process-event",
         act'[j].pc = "return"
  PROVE  Dealt(j)'
  <1>1. PICK s \in SendIds : jobs[j].data.send = s /\ sends[s].status # "none"
    BY RowOfJob
  <1>2. jobs'[j].data = jobs[j].data /\ jobs'[j].data.send = s
    BY <1>1, DataFrame
  <1>3. sends[s].status # "queued" => sends'[s].status # "queued"
    BY <1>1, NotQueuedAgain
  <1>4. CASE act'[j] = act[j]
    <2>1. Dealt(j)
      BY <1>4 DEF SightInv
    <2>2. ASSUME NEW i \in JobIds, DmPending(i, s)
          PROVE  DmPending(i, s)' \/ sends'[s].status # "queued"
      BY <1>1, <2>2, DmPendingStays
    <2>3. CASE act[j].out = "retry" \/ sends[s].status # "queued"
      BY <1>2, <1>3, <1>4, <2>3 DEF Dealt
    <2>4. ASSUME jobs[j].data.type = "generate-ai-reply", NEW i \in JobIds, DmPending(i, s)
          PROVE  Dealt(j)'
      <3>1. CASE sends'[s].status # "queued"
        BY <1>2, <3>1 DEF Dealt
      <3>2. CASE DmPending(i, s)'
        BY <1>2, <2>4, <3>2 DEF Dealt, DmPending, Carries
      <3> QED
        BY <2>2, <2>4, <3>1, <3>2
    <2> QED
      BY <1>1, <2>1, <2>3, <2>4 DEF Dealt
  <1>5. CASE generateAiReply(j)
    <2>1. GenAdd(j)
      BY <1>5, GenLoadIs, GenPlaces, IdleFacts DEF generateAiReply, At
    <2>2. jobs[j].data.type = "generate-ai-reply" /\ act[j].send = s
      BY <1>1, <2>1 DEF GenAdd, FitsInv, GenSteps, OwnSteps
    <2>3. PICK k \in JobIds : Add(k, SendDMJob(act[j].send, act[j].account, act[j].text))
      BY <2>1 DEF GenAdd
    <2>4. jobs'[k] = Added(SendDMJob(act[j].send, act[j].account, act[j].text))
      BY <2>3 DEF Add, Added, TypeInv, TypeOK
    <2>5. DmPending(k, s)'
      BY <1>2, <2>2, <2>4, JobDataIs DEF DmPending, Carries, Pending, Live
    <2> QED
      BY <1>2, <2>2, <2>5 DEF Dealt, DmPending, Carries
  <1>6. CASE sendDM(j)
    <2>1. WriteOutcome(j)
      BY <1>6, SendPlaces, IdleFacts DEF sendDM, At
    <2>2. act[j].send = s /\ act'[j].out = act[j].out
      BY <1>1, <2>1, SendPlaces DEF WriteOutcome, FitsInv, OwnSteps, At
    <2> QED
      BY <1>2, <2>1, <2>2, WriteDone DEF Dealt
  <1>7. CASE processEvent(j)
    <2>1. MarkProcessed(j) => FALSE
      BY HandlerType, StepNames DEF MarkProcessed, HandlerInv
    <2>2. Stays(j)
      BY <1>7, <2>1, EventMoves
    <2>3. act[j].pc = "return" /\ act'[j].out = act[j].out
      BY <2>2 DEF Stays, At
    <2>4. FALSE
      BY <1>7, <2>3, HandlerType
      DEF processEvent, Load, Dedupe, ClassifyIntent, QueryAutomations, Match,
          MatchingDone, InsertDm, InsertReply, InsertFails, AddDm, AddReply, CaptureLead,
          CaptureLeadFails, MarkProcessed, DetachedEnd, HandlerInv
    <2> QED
      BY <2>4
  <1>8. ~(act'[j] = Idle \/ Stops(j) \/ \E w \in Workers : Start(w, j))
    BY IdleFacts, StartFrame DEF Stops
  <1> QED
    BY <1>4, <1>5, <1>6, <1>7, <1>8, HandlerFrame

LEMMA NextSight ==
  TypeInv /\ RowInv /\ WorkerInv /\ FitsInv /\ SightInv /\ [Next]_vars => SightInv'
  <1> SUFFICES ASSUME TypeInv, RowInv, WorkerInv, FitsInv, SightInv, [Next]_vars
               PROVE  SightInv'
    OBVIOUS
  <1>1. ASSUME NEW s \in SendIds, sends'[s].status = "queued"
        PROVE  \/ \E j \in JobIds : Carries(j, s)' /\ Pending(j)'
               \/ \E j \in JobIds : act'[j].send = s /\ act'[j].pc \in {"addDm", "addReply"}
               \/ BrokeOff(s)'
    <2>1. CASE sends[s].status = "none"
      <3>1. PICK j \in JobIds : Inserts(j, s)
        BY <1>1, <2>1, StatusCases
      <3>2. InsertDm(j) \/ InsertReply(j)
        BY <3>1 DEF Inserts
      <3>3. PICK r \in SendIds : /\ Inserts(j, r) /\ act'[j].send = r
                                 /\ act'[j].pc \in {"addDm", "addReply"}
        BY <3>2, InsertPlaces
      <3>4. r = s
        BY <1>1, <2>1, <3>3, InsertFrame
      <3> QED
        BY <3>3, <3>4
    <2>2. CASE sends[s].status = "queued"
      <3>1. ASSUME NEW j \in JobIds, Carries(j, s), Pending(j)
            PROVE  \E k \in JobIds : Carries(k, s)' /\ Pending(k)'
        BY <1>1, <3>1, CarrierStays
      <3>2. ASSUME NEW j \in JobIds, act[j].send = s, act[j].pc \in {"addDm", "addReply"}
            PROVE  \/ act'[j].pc = act[j].pc /\ act'[j].send = s
                   \/ \E k \in JobIds : Carries(k, s)' /\ Pending(k)'
                   \/ BrokeOff(s)'
        BY <3>2, AddingMoves
      <3>3. BrokeOff(s) => BrokeOff(s)'
        BY <2>2, BrokeOffStays
      <3> QED
        BY <2>2, <3>1, <3>2, <3>3 DEF SightInv, QueuedSendAccountedFor, Pending
    <2>3. sends[s].status \in {"none", "queued"}
      BY <1>1, NotQueuedAgain
    <2> QED
      BY <2>1, <2>2, <2>3
  <1>2. ASSUME NEW j \in JobIds, act'[j].pc \in {"addDm", "addReply"}
        PROVE  sends'[act'[j].send].status # "none" /\ sends'[act'[j].send].by = j
    <2>1. ASSUME act[j].pc \in {"addDm", "addReply"}, act'[j].send = act[j].send
          PROVE  sends'[act'[j].send].status # "none" /\ sends'[act'[j].send].by = j
      <3>1. act[j].send \in SendIds
        BY <2>1, Subject, StepNames
      <3> QED
        BY <2>1, <3>1, NotQueuedAgain DEF SightInv
    <2>2. CASE InsertDm(j) \/ InsertReply(j)
      BY <2>2, InsertPlaces, InsertFrame
    <2>3. CASE processEvent(j) /\ ~InsertDm(j) /\ ~InsertReply(j)
      BY <1>2, <2>1, <2>3, EventPlaces, IdleFacts DEF processEvent, Stops, Stays, At
    <2>4. ~generateAiReply(j) /\ ~sendDM(j)
      BY <1>2, OwnMoves, OwnNames, IdleFacts DEF OwnSteps, GenSteps, DmSteps, CrSteps
    <2>5. ~(act'[j] = Idle \/ Stops(j) \/ \E w \in Workers : Start(w, j))
      BY <1>2, IdleFacts, StartFrame DEF Stops
    <2> QED
      BY <1>2, <2>1, <2>2, <2>3, <2>4, <2>5, HandlerFrame
  <1>3. ASSUME NEW j \in JobIds, jobs'[j].state # "none",
               jobs'[j].data.type # "process-event"
        PROVE  sends'[jobs'[j].data.send].status # "none"
    <2>1. CASE jobs[j].state # "none"
      BY <1>3, <2>1, DataFrame, RowOfJob, NotQueuedAgain
    <2>2. CASE NewJob(j)
      <3>1. ASSUME NEW k \in JobIds, act[k].pc \in {"addDm", "addReply", "genAdd"},
                   jobs'[j].data.send = act[k].send
            PROVE  sends'[jobs'[j].data.send].status # "none"
        <4>1. act[k].send \in SendIds
          BY <3>1, Subject, StepNames
        <4>2. CASE act[k].pc = "genAdd"
          <5>1. /\ jobs[k].state # "none" /\ jobs[k].data.type # "process-event"
                /\ act[k].send = jobs[k].data.send
            BY <4>2, HandlerType DEF HandlerInv, FitsInv, OwnSteps, GenSteps
          <5> QED
            BY <3>1, <4>1, <5>1, RowOfJob, NotQueuedAgain
        <4>3. CASE act[k].pc # "genAdd"
          BY <3>1, <4>1, <4>3, NotQueuedAgain DEF SightInv
        <4> QED
          BY <4>2, <4>3
      <3>2. ASSUME NEW m, jobs'[j] = Added(ProcessEventJob(m)) PROVE FALSE
        BY <1>3, <3>2, JobDataIs
      <3>3. ASSUME NEW k \in JobIds, jobs'[j] = Added(AnswerJob(k))
            PROVE  jobs'[j].data.send = act[k].send
        BY <3>3, JobDataIs DEF AnswerJob
      <3>4. ASSUME NEW k \in JobIds, NEW acc, NEW t,
                   \/ jobs'[j] = Added(SendDMJob(act[k].send, acc, t))
                   \/ jobs'[j] = Added(SendCommentReplyJob(act[k].send, acc, t))
            PROVE  jobs'[j].data.send = act[k].send
        BY <3>4, JobDataIs
      <3> QED
        BY <2>2, <3>1, <3>2, <3>3, <3>4 DEF NewJob, AddDm, AddReply, GenAdd
    <2> QED
      BY <1>3, <2>1, <2>2, JobCases DEF OldJob
  <1>4. ASSUME NEW j \in JobIds, jobs'[j].state # "none",
               jobs'[j].data.type # "process-event", act'[j].pc = "return"
        PROVE  Dealt(j)'
    <2>1. jobs[j].state # "none"
      <3>1. act[j].pc # "idle"
        BY <1>4, WorkerFrame, StartFrame
      <3> QED
        BY <3>1, HandlerType DEF HandlerInv
    <2> QED
      BY <1>4, <2>1, DataFrame, NextDealt
  <1>5. ASSUME NEW s \in SendIds, sends'[s].status # "none"
        PROVE  sends'[s].run <= jobs'[sends'[s].by].stalls
    <2>1. CASE sends[s].status = "none"
      <3>1. PICK j \in JobIds : Inserts(j, s)
        BY <1>5, <2>1, SendFrame DEF SendStep
      <3>2. sends'[s].by = j /\ sends'[s].run = jobs[j].stalls
        BY <3>1, InsertFrame
      <3>3. jobs[j].state # "none"
        BY <3>1, InsertFrame, HandlerType DEF HandlerInv
      <3> QED
        BY <3>2, <3>3, JobKept
    <2>2. CASE sends[s].status # "none"
      <3> DEFINE j == sends[s].by
      <3>1. /\ j \in JobIds /\ jobs[j].state # "none" /\ sends'[s].by = j
            /\ sends'[s].run = sends[s].run /\ sends[s].run <= jobs[j].stalls
            /\ sends[s].run \in Nat
        <4>1. sends[s].run \in Nat
          BY QueueAssumption DEF TypeInv, TypeOK, TablesOK, Send
        <4> QED
          BY <2>2, <4>1, NotQueuedAgain DEF RowInv, IsEventJob, SightInv
      <3> HIDE DEF j
      <3> QED
        BY <3>1, JobKept
    <2> QED
      BY <2>1, <2>2
  <1> QED
    BY <1>1, <1>2, <1>3, <1>4, <1>5 DEF SightInv, QueuedSendAccountedFor, Pending, Live, Carries

LEMMA InvariantWorker == Spec => []WorkerInv
  BY InvariantTypeInv, InitWorker, NextWorker, PTL DEF Spec

LEMMA InvariantFits == Spec => []FitsInv
  BY InvariantTypeInv, InvariantWorker, InitFits, NextFits, PTL DEF Spec

LEMMA InvariantSight == Spec => []SightInv
  BY InvariantTypeInv, InvariantRow, InvariantWorker, InvariantFits, InitSight, NextSight,
     PTL DEF Spec

\* Whatever crashes, throws or is deleted, an event that was stored is processed or
\* can be told from one that is, and a send that still says "queued" has a job that
\* will deal with it, or can be named as lost: nothing disappears without a trace.
THEOREM NothingForgotten == Spec => []NothingIsForgotten
  <1>1. TypeInv /\ QueuedInv /\ SightInv => NothingIsForgotten
    BY QueuedAccounted DEF NothingIsForgotten, SightInv
  <1>2. Spec => []QueuedInv
    BY InvariantTypeInv, InvariantFits, InitQueued, NextQueued, PTL DEF Spec
  <1> QED
    BY <1>1, <1>2, InvariantSight, InvariantTypeInv, PTL

--------------------------------------------------------------------------------
(* A message is delivered twice only when a worker died.                   *)

\* Job j may still lead to a delivery of row s: it is waiting or has not posted yet;
\* or its handler is about to queue the job that does.
MayPost(j, s) ==
  \/ /\ Carries(j, s)
     /\ \/ jobs[j].state = "waiting"
        \/ act[j].pc \in GenSteps \cup DmSteps \cup CrSteps
        \/ act[j].pc = "write" /\ act[j].flagged
  \/ act[j].send = s /\ act[j].pc \in {"addDm", "addReply"}

Chances(s) == {j \in JobIds : MayPost(j, s)}

\* What was delivered and what may still be is paid for by the stalls.
PostedInv ==
  \A s \in SendIds :
    /\ delivered[s] + Cardinality(Chances(s)) <= 1 + Cardinality(StallsOf(s))
    /\ sends[s].status = "none" => delivered[s] = 0

LEMMA FewerElements ==
  ASSUME NEW S, IsFiniteSet(S), NEW T \in SUBSET S
  PROVE  /\ IsFiniteSet(T) /\ Cardinality(T) \in Nat /\ Cardinality(S) \in Nat
         /\ Cardinality(T) <= Cardinality(S)
         /\ \A x \in S : x \notin T => Cardinality(T) + 1 <= Cardinality(S)
         /\ \A y : Cardinality(T \cup {y}) <= Cardinality(T) + 1
  <1>1. IsFiniteSet(T) /\ Cardinality(T) <= Cardinality(S)
    BY FS_Subset
  <1>2. Cardinality(T) \in Nat /\ Cardinality(S) \in Nat
    BY <1>1, FS_CardinalityType
  <1>3. ASSUME NEW x \in S, x \notin T PROVE Cardinality(T) + 1 <= Cardinality(S)
    <2>1. T \cup {x} \in SUBSET S /\ Cardinality(T \cup {x}) = Cardinality(T) + 1
      BY <1>1, <1>3, FS_AddElement
    <2> QED
      BY <2>1, FS_Subset
  <1>4. ASSUME NEW y PROVE Cardinality(T \cup {y}) <= Cardinality(T) + 1
    BY <1>1, <1>2, FS_AddElement
  <1> QED
    BY <1>1, <1>2, <1>3, <1>4

LEMMA ChancesFinite ==
  ASSUME NEW s
  PROVE  /\ IsFiniteSet(JobIds) /\ Chances(s) \in SUBSET JobIds
         /\ Chances(s)' \in SUBSET JobIds
         /\ IsFiniteSet(Chances(s)) /\ IsFiniteSet(Chances(s)')
         /\ IsFiniteSet(StallsOf(s)) /\ IsFiniteSet(StallsOf(s)')
  <1>1. IsFiniteSet(JobIds) /\ IsFiniteSet(1 .. MaxStalledCount)
    BY QueueAssumption, FS_Interval DEF JobIds
  <1>2. IsFiniteSet(JobIds \X (1 .. MaxStalledCount))
    BY <1>1, FS_Product
  <1>3. Chances(s) \in SUBSET JobIds /\ Chances(s)' \in SUBSET JobIds
    BY DEF Chances
  <1>4. /\ StallsOf(s) \in SUBSET (JobIds \X (1 .. MaxStalledCount))
        /\ StallsOf(s)' \in SUBSET (JobIds \X (1 .. MaxStalledCount))
    BY DEF StallsOf
  <1> QED
    BY <1>1, <1>2, <1>3, <1>4, FS_Subset

\* A job that may post could so before, unless it is new, was found stalled, or its
\* handler inserts the row.
LEMMA ChanceKept ==
  ASSUME TypeInv, FitsInv, [Next]_vars, NEW j \in JobIds, NEW s \in SendIds,
         MayPost(j, s)', ~NewJob(j), ~Stalled(j), ~Inserts(j, s)
  PROVE  MayPost(j, s)
  <1>1. CASE act'[j].send = s /\ act'[j].pc \in {"addDm", "addReply"}
    <2>1. CASE act'[j] = act[j]
      BY <1>1, <2>1 DEF MayPost
    <2>2. ~InsertDm(j) /\ ~InsertReply(j)
      BY <1>1, InsertPlaces
    <2>3. CASE processEvent(j)
      BY <1>1, <2>2, <2>3, EventPlaces, IdleFacts DEF processEvent, Stops, Stays, At, MayPost
    <2>4. ~generateAiReply(j) /\ ~sendDM(j)
      BY <1>1, OwnMoves, OwnNames, IdleFacts DEF OwnSteps, GenSteps, DmSteps, CrSteps
    <2>5. ~(act'[j] = Idle \/ Stops(j) \/ \E w \in Workers : Start(w, j))
      BY <1>1, IdleFacts, StartFrame DEF Stops
    <2> QED
      BY <2>1, <2>3, <2>4, <2>5, HandlerFrame
  <1>2. CASE /\ Carries(j, s)'
             /\ \/ jobs'[j].state = "waiting"
                \/ act'[j].pc \in GenSteps \cup DmSteps \cup CrSteps
                \/ act'[j].pc = "write" /\ act'[j].flagged
    <2>1. jobs[j].state # "none"
      BY <1>2, JobCases DEF OldJob, Carries
    <2>2. Carries(j, s) /\ jobs'[j].data = jobs[j].data /\ jobs[j].data.send # 0
      BY <1>2, <2>1, DataFrame DEF Carries, SendIds
    <2>3. CASE jobs'[j].state = "waiting"
      BY <2>2, <2>3, JobCases DEF OldJob, MayPost
    <2> DEFINE Own(h) == \/ h.pc \in GenSteps \cup DmSteps \cup CrSteps
                         \/ h.pc = "write" /\ h.flagged
    <2>4. Own(act[j]) => MayPost(j, s)
      BY <2>2 DEF MayPost
    <2>5. ASSUME Own(act'[j]) PROVE MayPost(j, s)
      <3>1. CASE act'[j] = act[j]
        BY <2>4, <2>5, <3>1
      <3>2. ~(act'[j] = Idle \/ Stops(j))
        BY <2>5, IdleFacts DEF Stops, GenSteps, DmSteps, CrSteps
      <3>3. ASSUME NEW w \in Workers, Start(w, j) PROVE MayPost(j, s)
        BY ZenonT(60), <2>2, <3>3, StartIs DEF MayPost
      <3>4. ~processEvent(j)
        BY ZenonT(60), <2>2, HandlerType, StepNames
        DEF processEvent, Load, Dedupe, ClassifyIntent, QueryAutomations, Match,
            MatchingDone, InsertDm, InsertReply, InsertFails, AddDm, AddReply,
            CaptureLead, CaptureLeadFails, MarkProcessed, DetachedEnd, HandlerInv, FitsInv
      <3>5. CASE generateAiReply(j)
        <4>1. Own(act[j])
          BY <3>5, GenPlaces DEF generateAiReply, GenLoad, GenSteps
        <4> QED
          BY <2>4, <4>1
      <3>6. CASE sendDM(j)
        <4>1. act[j].pc \in DmSteps \cup CrSteps \/ act[j].pc = "write"
          BY <3>6, SendPlaces DEF sendDM, AtMeta, DmSteps, CrSteps
        <4>2. act[j].pc = "write" => act'[j].pc \in {"write", "return"}
          BY <3>6, SendPlaces DEF sendDM, AtMeta, At
        <4>3. act'[j].flagged = act[j].flagged
          BY <3>2, <3>6, SendKeepsFlag
        <4>4. {"write", "return"} \cap (GenSteps \cup DmSteps \cup CrSteps) = {}
          BY DEF GenSteps, DmSteps, CrSteps
        <4> QED
          BY <2>4, <2>5, <4>1, <4>2, <4>3, <4>4
      <3> HIDE DEF Own
      <3> QED
        BY <3>1, <3>2, <3>3, <3>4, <3>5, <3>6, HandlerFrame
    <2> QED
      BY <1>2, <2>3, <2>5
  <1> QED
    BY <1>1, <1>2 DEF MayPost

\* The stalls of a row's jobs stay on record.
LEMMA StallsKept ==
  ASSUME TypeInv, [Next]_vars, NEW s \in SendIds
  PROVE  StallsOf(s) \subseteq StallsOf(s)'
  <1> SUFFICES ASSUME NEW i \in JobIds, NEW n \in 1 .. MaxStalledCount, Carries(i, s),
                      n <= jobs[i].stalls
               PROVE  Carries(i, s)' /\ n <= jobs'[i].stalls
    BY DEF StallsOf
  <1>1. n \in Nat
    BY QueueAssumption
  <1> QED
    BY <1>1, JobKept DEF Carries

\* A handler that posts, or queues another job, has used its chance.
LEMMA ChanceUsed ==
  ASSUME TypeInv, FitsInv, [Next]_vars, NEW j \in JobIds,
         Posts(j) \/ AddDm(j) \/ AddReply(j) \/ GenAdd(j)
  PROVE  /\ act[j].send \in SendIds /\ MayPost(j, act[j].send)
         /\ \A s \in SendIds : ~MayPost(j, s)'
  <1>1. jobs[j].state \in {"active", "failed"} /\ act[j].send \in SendIds
    BY Subject, StepNames DEF Posts, PostAccepted, PostAnswerLost, AtMeta, AddDm, AddReply,
       GenAdd, FitsInv
  <1>2. jobs'[j].state # "waiting" /\ jobs'[j].data = jobs[j].data
    <2>1. jobs'[j] = jobs[j]
      <3>1. ASSUME NEW k \in JobIds, NEW d, Add(k, d) PROVE jobs'[j] = jobs[j]
        BY <1>1, <3>1 DEF Add, IsNextJob, TypeInv, TypeOK
      <3> QED
        BY <3>1, PostIs DEF AddDm, AddReply, GenAdd
    <2> QED
      BY <1>1, <2>1
  <1>3. CASE Posts(j)
    <2>1. act[j].pc \in DmSteps \cup CrSteps /\ jobs[j].data.type # "generate-ai-reply"
      BY <1>3, PostIs DEF FitsInv, DmSteps, CrSteps
    <2>2. Carries(j, act[j].send) /\ ~act[j].flagged
      BY <1>1, <2>1 DEF FitsInv, OwnSteps, Carries
    <2>3. act'[j].pc = "write" /\ ~act'[j].flagged
      <3>1. sendDM(j) /\ act'[j].pc = "write"
        BY <1>3, PostIs DEF Posts, sendDM
      <3> QED
        BY <2>2, <3>1, SendKeepsFlag, IdleFacts
    <2> QED
      BY <1>1, <1>2, <2>1, <2>2, <2>3 DEF MayPost, GenSteps, DmSteps, CrSteps
  <1>4. CASE GenAdd(j)
    <2>1. act[j].pc = "genAdd" /\ Carries(j, act[j].send)
      BY <1>1, <1>4 DEF GenAdd, FitsInv, OwnSteps, GenSteps, Carries
    <2>2. act'[j].pc = "return"
      BY <1>4, GenPlaces DEF At
    <2> QED
      BY <1>1, <1>2, <2>1, <2>2 DEF MayPost, GenSteps, DmSteps, CrSteps
  <1>5. CASE AddDm(j) \/ AddReply(j)
    <2>1. act[j].pc \in {"addDm", "addReply"} /\ act'[j].pc \in {"next", "insertReply"}
      BY <1>5, EventPlaces DEF AddDm, AddReply
    <2> QED
      BY <1>1, <1>2, <2>1 DEF MayPost, GenSteps, DmSteps, CrSteps
  <1> QED
    BY <1>3, <1>4, <1>5

\* A step adds one job at most.
LEMMA OneNewJob ==
  ASSUME TypeInv, [Next]_vars, NEW k \in JobIds, NewJob(k)
  PROVE  /\ delivered' = delivered /\ \A i \in JobIds : i # k => jobs'[i] = jobs[i]
         /\ act[k].pc = "idle"
         /\ \/ jobs'[k].data.send = 0
            \/ \E j \in JobIds : /\ AddDm(j) \/ AddReply(j) \/ GenAdd(j)
                                 /\ jobs'[k].data.send = act[j].send
  <1>1. jobs'[k] # jobs[k] /\ act[k].pc = "idle"
    BY NewJobIs, HandlerType DEF HandlerInv
  <1>2. ASSUME NEW i \in JobIds, NEW d, Add(i, d)
        PROVE  \A n \in JobIds : n # k => jobs'[n] = jobs[n]
    BY <1>1, <1>2 DEF Add, TypeInv, TypeOK
  <1>3. ASSUME NEW j \in JobIds, AddDm(j), jobs'[k] = Added(AnswerJob(j))
        PROVE  jobs'[k].data.send = act[j].send
    BY <1>3, JobDataIs DEF AnswerJob
  <1>4. ASSUME NEW m, jobs'[k] = Added(ProcessEventJob(m)) PROVE jobs'[k].data.send = 0
    BY <1>4, JobDataIs
  <1>5. ASSUME NEW s, NEW acc, NEW t, \/ jobs'[k] = Added(SendDMJob(s, acc, t))
                                      \/ jobs'[k] = Added(SendCommentReplyJob(s, acc, t))
        PROVE  jobs'[k].data.send = s
    BY <1>5, JobDataIs
  <1>6. \/ \E m \in Messages : EnqueueEvent(m)
        \/ \E j \in JobIds : AddDm(j) \/ AddReply(j) \/ GenAdd(j)
    BY DEF NewJob
  <1>7. delivered' = delivered
    BY <1>6 DEF EnqueueEvent, AddDm, AddReply, GenAdd, tables
  <1>8. \A n \in JobIds : n # k => jobs'[n] = jobs[n]
    BY <1>2, <1>6 DEF EnqueueEvent, AddDm, AddReply, GenAdd
  <1>9. \/ jobs'[k].data.send = 0
        \/ \E j \in JobIds : /\ AddDm(j) \/ AddReply(j) \/ GenAdd(j)
                             /\ jobs'[k].data.send = act[j].send
    BY <1>3, <1>4, <1>5 DEF NewJob
  <1> QED
    BY <1>1, <1>7, <1>8, <1>9

\* A job that is found stalled may post again, and the stall is on record.
LEMMA StallPays ==
  ASSUME TypeInv, WorkerInv, [Next]_vars, NEW k \in JobIds, NEW s \in SendIds,
         Stalled(k), MayPost(k, s)'
  PROVE  Cardinality(StallsOf(s)) + 1 <= Cardinality(StallsOf(s)')
  <1>1. act[k].pc = "idle" /\ act'[k] = act[k]
    BY DEF Stalled, CheckStalled, WorkerInv
  <1>2. Carries(k, s)' /\ jobs'[k].state = "waiting"
    BY <1>1 DEF MayPost, GenSteps, DmSteps, CrSteps
  <1>3. jobs[k].stalls \in Nat /\ jobs[k].state = "active"
    BY HandlerType, QueueAssumption DEF Job, Stalled, CheckStalled
  <1>4. jobs[k].stalls < MaxStalledCount /\ jobs'[k].stalls = jobs[k].stalls + 1
    <2>1. jobs[k].stalls < MaxStalledCount
      BY ZenonT(60), <1>2 DEF Stalled, CheckStalled, TypeInv, TypeOK, Job
    <2>2. jobs' = [jobs EXCEPT ![k].state = "waiting", ![k].stalls = @ + 1]
      BY <2>1 DEF Stalled, CheckStalled
    <2> QED
      BY ZenonT(60), <2>1, <2>2 DEF TypeInv, TypeOK, Job
  <1> DEFINE n == jobs[k].stalls + 1
  <1>5. n \in 1 .. MaxStalledCount /\ n <= jobs'[k].stalls /\ ~(n <= jobs[k].stalls)
    BY <1>3, <1>4, QueueAssumption
  <1>6. <<k, n>> \in StallsOf(s)' /\ <<k, n>> \notin StallsOf(s)
    <2> HIDE DEF n
    <2> QED
      BY <1>2, <1>5 DEF StallsOf
  <1> HIDE DEF n
  <1> QED
    BY <1>6, StallsKept, ChancesFinite, FewerElements

LEMMA InitPosted == Init => PostedInv
  <1> SUFFICES ASSUME Init, NEW s \in SendIds
               PROVE  /\ delivered[s] + Cardinality(Chances(s)) <= 1 + Cardinality(StallsOf(s))
                      /\ delivered[s] = 0
    BY DEF PostedInv
  <1>1. delivered[s] = 0
    BY DEF Init
  <1>2. Chances(s) = {}
    BY IdleFacts DEF Init, QueueInit, NoJob, Chances, MayPost, Carries
  <1>3. Cardinality(StallsOf(s)) \in Nat
    BY ChancesFinite, FS_CardinalityType
  <1> QED
    BY <1>1, <1>2, <1>3, FS_EmptySet

LEMMA NextPosted ==
  TypeInv /\ RowInv /\ WorkerInv /\ FitsInv /\ SightInv /\ PostedInv /\ [Next]_vars
    => PostedInv'
  <1> SUFFICES ASSUME TypeInv, RowInv, WorkerInv, FitsInv, SightInv, PostedInv, [Next]_vars,
                      NEW s \in SendIds
               PROVE  /\ delivered'[s] + Cardinality(Chances(s)')
                           <= 1 + Cardinality(StallsOf(s)')
                      /\ sends'[s].status = "none" => delivered'[s] = 0
    BY DEF PostedInv
  <1>1. /\ delivered[s] \in Nat /\ delivered'[s] \in Nat
        /\ Cardinality(Chances(s)) \in Nat /\ Cardinality(Chances(s)') \in Nat
        /\ Cardinality(StallsOf(s)) \in Nat /\ Cardinality(StallsOf(s)') \in Nat
        /\ Cardinality(StallsOf(s)) <= Cardinality(StallsOf(s)')
        /\ delivered[s] + Cardinality(Chances(s)) <= 1 + Cardinality(StallsOf(s))
    BY ChancesFinite, FS_CardinalityType, StallsKept, FewerElements, DeliveredGrows
    DEF PostedInv
  <1>2. ASSUME NEW j \in JobIds, Posts(j), act[j].send = s PROVE sends[s].status # "none"
    <2>1. act[j].pc \in OwnSteps
      BY <1>2, PostIs DEF OwnSteps, DmSteps, CrSteps
    <2> QED
      BY <1>2, <2>1, OwnNames, HandlerType, RowOfJob DEF FitsInv, HandlerInv
  <1>3. \/ delivered'[s] = delivered[s]
        \/ \E j \in JobIds : /\ Posts(j) /\ act[j].send = s
                             /\ delivered'[s] = delivered[s] + 1
    BY DeliveredCases, PostIs
  <1>4. sends'[s].status = "none" => delivered'[s] = 0
    BY <1>2, <1>3, NotQueuedAgain DEF PostedInv
  <1>5. ASSUME NEW j \in JobIds, Inserts(j, s)
        PROVE  delivered'[s] + Cardinality(Chances(s)') <= 1 + Cardinality(StallsOf(s)')
    <2>1. sends[s].status = "none" /\ sends' # sends /\ delivered'[s] = 0 /\ jobs' = jobs
      <3>1. delivered' = delivered /\ jobs' = jobs
        BY <1>5 DEF Inserts, InsertDm, InsertReply
      <3> QED
        BY <1>5, <3>1, InsertFrame DEF PostedInv
    <2>2. ASSUME NEW i \in JobIds PROVE ~MayPost(i, s)
      <3>1. Carries(i, s) => jobs[i].data.type # "process-event"
        BY DEF Carries, FitsInv, SendIds
      <3> QED
        BY <2>1, <3>1 DEF MayPost, SightInv, Carries
    <2>3. ASSUME NEW i \in JobIds, i # j PROVE ~MayPost(i, s)'
      <3>1. ~Inserts(i, s)
        BY <1>5, <2>3, InsertFrame
      <3>2. ~NewJob(i)
        BY <2>1, NewJobIs
      <3>3. ~Stalled(i)
        BY <2>1 DEF Stalled, tables
      <3> QED
        BY <2>2, <3>1, <3>2, <3>3, ChanceKept
    <2>4. Chances(s)' \in SUBSET {j}
      BY <2>3 DEF Chances
    <2>5. IsFiniteSet({j}) /\ Cardinality({j}) = 1
      BY FS_Singleton
    <2>6. Cardinality(Chances(s)') <= 1
      BY <2>4, <2>5, FewerElements
    <2> QED
      BY <1>1, <2>1, <2>6
  <1>6. ASSUME NEW k \in JobIds, Stalled(k)
        PROVE  delivered'[s] + Cardinality(Chances(s)') <= 1 + Cardinality(StallsOf(s)')
    <2>1. delivered' = delivered /\ sends' = sends
      BY <1>6 DEF Stalled, tables
    <2>2. ASSUME NEW i \in JobIds, i # k PROVE MayPost(i, s)' => MayPost(i, s)
      <3>1. jobs'[i] = jobs[i]
        BY <1>6, <2>2 DEF Stalled, CheckStalled, TypeInv, TypeOK
      <3>2. ~NewJob(i) /\ ~Inserts(i, s)
        BY <2>1, <3>1, NewJobIs, InsertFrame
      <3>3. ~Stalled(i)
        <4>1. Stalled(i) => jobs'[i].state \in {"waiting", "failed"} /\ jobs[i].state = "active"
          BY ZenonT(60) DEF Stalled, CheckStalled, TypeInv, TypeOK, Job
        <4> QED
          BY <3>1, <4>1
      <3> QED
        BY <3>2, <3>3, ChanceKept
    <2>3. CASE MayPost(k, s)'
      <3>1. Cardinality(StallsOf(s)) + 1 <= Cardinality(StallsOf(s)')
        BY <1>6, <2>3, StallPays
      <3>2. Chances(s)' \in SUBSET (Chances(s) \cup {k})
        BY <2>2 DEF Chances
      <3>3. Cardinality(Chances(s)') <= Cardinality(Chances(s)) + 1
        <4>1. IsFiniteSet(Chances(s) \cup {k})
          BY ChancesFinite, FS_AddElement
        <4>2. /\ Cardinality(Chances(s)') <= Cardinality(Chances(s) \cup {k})
              /\ Cardinality(Chances(s) \cup {k}) \in Nat
          BY <3>2, <4>1, FewerElements
        <4>3. Cardinality(Chances(s) \cup {k}) <= Cardinality(Chances(s)) + 1
          BY ChancesFinite, FewerElements
        <4> QED
          BY <1>1, <4>2, <4>3
      <3> QED
        BY <1>1, <2>1, <3>1, <3>3
    <2>4. CASE ~MayPost(k, s)'
      <3>1. Chances(s)' \in SUBSET Chances(s)
        BY <2>2, <2>4 DEF Chances
      <3>2. Cardinality(Chances(s)') <= Cardinality(Chances(s))
        BY <3>1, ChancesFinite, FS_Subset
      <3> QED
        BY <1>1, <2>1, <3>2
    <2> QED
      BY <2>3, <2>4
  <1>7. ASSUME NEW k \in JobIds, NewJob(k), \A i \in JobIds : ~Stalled(i) /\ ~Inserts(i, s)
        PROVE  delivered'[s] + Cardinality(Chances(s)') <= 1 + Cardinality(StallsOf(s)')
    <2>1. ASSUME NEW i \in JobIds, i # k PROVE MayPost(i, s)' => MayPost(i, s)
      <3>1. ~NewJob(i)
        BY <1>7, <2>1, OneNewJob, NewJobIs
      <3> QED
        BY <1>7, <3>1, ChanceKept
    <2>2. CASE ~MayPost(k, s)'
      <3>1. Chances(s)' \in SUBSET Chances(s)
        BY <2>1, <2>2 DEF Chances
      <3>2. Cardinality(Chances(s)') <= Cardinality(Chances(s))
        BY <3>1, ChancesFinite, FS_Subset
      <3> QED
        BY <1>1, <1>7, <3>2, OneNewJob
    <2>3. CASE MayPost(k, s)'
      <3>1. jobs'[k].data.send = s
        <4>1. act'[k].pc \notin {"addDm", "addReply"}
          BY <1>7, OneNewJob, WorkerFrame, StartFrame
        <4> QED
          BY <2>3, <4>1 DEF MayPost, Carries
      <3>2. PICK j \in JobIds : /\ AddDm(j) \/ AddReply(j) \/ GenAdd(j)
                                /\ act[j].send = s
        BY <1>7, <3>1, OneNewJob DEF SendIds
      <3>3. j \in Chances(s) /\ j \notin Chances(s)'
        BY <3>2, ChanceUsed DEF Chances
      <3> DEFINE rest == Chances(s) \ {j}
      <3>4. Chances(s)' \in SUBSET (rest \cup {k})
        BY <2>1, <3>3 DEF Chances
      <3>5. /\ IsFiniteSet(rest) /\ Cardinality(rest) = Cardinality(Chances(s)) - 1
            /\ Cardinality(rest) \in Nat
        BY <3>3, ChancesFinite, FS_RemoveElement, FS_CardinalityType
      <3> HIDE DEF rest
      <3>6. /\ IsFiniteSet(rest \cup {k}) /\ Cardinality(rest \cup {k}) \in Nat
            /\ Cardinality(rest \cup {k}) <= Cardinality(rest) + 1
        BY <3>5, FS_AddElement
      <3>7. Cardinality(Chances(s)') <= Cardinality(rest \cup {k})
        BY <3>4, <3>6, FS_Subset
      <3> QED
        BY <1>1, <1>7, <3>5, <3>6, <3>7, OneNewJob
    <2> QED
      BY <2>2, <2>3
  <1>8. ASSUME \A i \in JobIds : ~Stalled(i) /\ ~Inserts(i, s) /\ ~NewJob(i)
        PROVE  delivered'[s] + Cardinality(Chances(s)') <= 1 + Cardinality(StallsOf(s)')
    <2>1. Chances(s)' \in SUBSET Chances(s)
      BY <1>8, ChanceKept DEF Chances
    <2>2. Cardinality(Chances(s)') <= Cardinality(Chances(s))
      BY <2>1, ChancesFinite, FS_Subset
    <2>3. ASSUME NEW j \in JobIds, Posts(j), act[j].send = s
          PROVE  Cardinality(Chances(s)') + 1 <= Cardinality(Chances(s))
      <3>1. j \in Chances(s) /\ j \notin Chances(s)'
        BY <2>3, ChanceUsed DEF Chances
      <3> QED
        BY <2>1, <3>1, ChancesFinite, FewerElements
    <2> QED
      BY <1>1, <1>3, <2>2, <2>3
  <1> QED
    BY <1>4, <1>5, <1>6, <1>7, <1>8

LEMMA InvariantPosted == Spec => []PostedInv
  BY InvariantTypeInv, InvariantRow, InvariantWorker, InvariantFits, InvariantSight,
     InitPosted, NextPosted, PTL DEF Spec

\* A row says "sent" only when Meta took the message, and a customer gets a message
\* twice only when a worker died: each delivery after the first one is paid for by a
\* stall of one of the row's jobs, however many workers race and whatever they race for.
THEOREM DeliveriesBacked == Spec => []DeliveriesAddUp
  <1>1. TypeInv /\ PostedInv => DuplicatesNeedCrashes
    <2> SUFFICES ASSUME TypeInv, PostedInv, NEW s \in SendIds
                 PROVE  delivered[s] <= 1 + Cardinality(StallsOf(s))
      BY DEF DuplicatesNeedCrashes
    <2>1. /\ delivered[s] \in Nat /\ Cardinality(Chances(s)) \in Nat
          /\ Cardinality(StallsOf(s)) \in Nat
      BY ChancesFinite, FS_CardinalityType DEF TypeInv, TypeOK, TablesOK
    <2> QED
      BY <2>1 DEF PostedInv
  <1>2. SentInv /\ DuplicatesNeedCrashes => DeliveriesAddUp
    BY DEF SentInv, DeliveriesAddUp
  <1> QED
    BY <1>1, <1>2, InvariantTypeInv, InvariantSent, InvariantPosted, PTL

--------------------------------------------------------------------------------
(* With one worker process the DMs follow the life cycle of SendLifecycle. *)

\* The worker service is one process that takes one job at a time.
OneWorker == \A v, w \in Workers : v = w

\* A process works on one job, and the handler of a row works while it does.
AloneInv ==
  /\ \A i, j \in JobIds :
       /\ jobs[i].state = "active" /\ jobs[j].state = "active"
       /\ jobs[i].worker = jobs[j].worker /\ jobs[i].worker # None
       => i = j
  /\ \A j \in JobIds : act[j].pc \in OwnSteps => jobs[j].state = "active"

LEMMA InitAlone == Init => AloneInv
  <1> SUFFICES ASSUME Init PROVE AloneInv
    OBVIOUS
  <1>1. \A j \in JobIds : jobs[j].state = "none" /\ act[j].pc = "idle"
    BY IdleFacts DEF Init, QueueInit, NoJob
  <1> QED
    BY <1>1, OwnNames DEF AloneInv

\* Two processes that are at work have different jobs.
LEMMA NextOneEach ==
  ASSUME TypeInv, AloneInv, [Next]_vars, NEW i \in JobIds, NEW j \in JobIds, i # j,
         jobs'[i].state = "active", jobs'[j].state = "active", jobs'[i].worker # None
  PROVE  jobs'[i].worker # jobs'[j].worker
  <1>1. ASSUME NEW k \in JobIds, jobs'[k].state = "active", jobs'[k].worker # None
        PROVE  jobs'[k] = jobs[k] \/ \E w \in Workers : Start(w, k)
    BY <1>1, JobCases, NewJobIs DEF OldJob
  <1>2. ASSUME NEW w \in Workers, NEW k \in JobIds, NEW n \in JobIds, k # n, Start(w, k),
               jobs'[n].state = "active", jobs'[n].worker = jobs'[k].worker
        PROVE  FALSE
    <2>1. jobs'[n] = jobs[n]
      BY <1>2, StartIs
    <2>2. jobs'[k].worker = w
      BY <1>2, StartFrame
    <2> QED
      BY <1>2, <2>1, <2>2 DEF Start, Take
  <1> QED
    BY <1>1, <1>2 DEF AloneInv

LEMMA NextAlone == TypeInv /\ WorkerInv /\ FitsInv /\ AloneInv /\ [Next]_vars => AloneInv'
  <1> SUFFICES ASSUME TypeInv, WorkerInv, FitsInv, AloneInv, [Next]_vars,
                      NEW j \in JobIds, act'[j].pc \in OwnSteps
               PROVE  jobs'[j].state = "active"
    BY NextOneEach DEF AloneInv
  <1>1. CASE \E w \in Workers : Start(w, j)
    BY <1>1, StartIs
  <1>2. CASE act[j].pc \in OwnSteps /\ act'[j] # Idle
    <2>1. jobs[j].state = "active" /\ jobs[j].worker # None /\ act[j].lead # "running"
      BY <1>2, HandlerType, OwnNames DEF AloneInv, WorkerInv, FitsInv, HandlerInv
    <2> QED
      BY <1>2, <2>1, JobCases DEF OldJob, NewJob
  <1>3. act'[j] # Idle
    BY IdleFacts, OwnNames
  <1>4. CASE act'[j] = act[j]
    BY <1>2, <1>3, <1>4
  <1>5. CASE processEvent(j)
    BY <1>2, <1>3, <1>5, EventMoves DEF Stays, At
  <1>6. CASE generateAiReply(j) \/ sendDM(j)
    BY <1>2, <1>3, <1>6, OwnMoves
  <1>7. ~Stops(j)
    BY OwnNames DEF Stops, MatchSteps
  <1> QED
    BY <1>1, <1>3, <1>4, <1>5, <1>6, <1>7, HandlerFrame

\* One handler of a row is at work.
LEMMA Alone ==
  ASSUME TypeInv, WorkerInv, AloneInv, OneWorker, NEW i \in JobIds, NEW j \in JobIds,
         act[i].pc \in OwnSteps, act[j].pc \in OwnSteps
  PROVE  i = j
  <1>1. ASSUME NEW k \in JobIds, act[k].pc \in OwnSteps
        PROVE  jobs[k].state = "active" /\ jobs[k].worker \in Workers /\ jobs[k].worker # None
    BY <1>1, HandlerType, OwnNames DEF AloneInv, WorkerInv, Job
  <1> QED
    BY <1>1 DEF OneWorker, AloneInv

--------------------------------------------------------------------------------
(* A job is about a row of its own kind.                                   *)

KindInv ==
  /\ \A j \in JobIds :
       jobs[j].state # "none" =>
         /\ jobs[j].data.type \in {"send-dm", "generate-ai-reply"} => IsDm(jobs[j].data.send)
         /\ jobs[j].data.type = "send-comment-reply" => ~IsDm(jobs[j].data.send)
  /\ \A j \in JobIds : /\ act[j].pc = "addDm" => IsDm(act[j].send)
                       /\ act[j].pc = "addReply" => ~IsDm(act[j].send)

LEMMA InitKind == Init => KindInv
  <1> SUFFICES ASSUME Init PROVE KindInv
    OBVIOUS
  <1>1. \A j \in JobIds : jobs[j].state = "none" /\ act[j].pc = "idle"
    BY IdleFacts DEF Init, QueueInit, NoJob
  <1> QED
    BY <1>1 DEF KindInv

\* A row that is there keeps its kind.
LEMMA KindKept ==
  ASSUME TypeInv, RowInv, [Next]_vars, NEW s \in SendIds, sends[s].status # "none"
  PROVE  sends'[s].kind = sends[s].kind
  BY SendFrame, InsertFrame DEF SendStep

LEMMA NextKind ==
  TypeInv /\ RowInv /\ FitsInv /\ SightInv /\ KindInv /\ [Next]_vars => KindInv'
  <1> SUFFICES ASSUME TypeInv, RowInv, FitsInv, SightInv, KindInv, [Next]_vars,
                      NEW j \in JobIds
               PROVE  /\ jobs'[j].state # "none" =>
                           /\ jobs'[j].data.type \in {"send-dm", "generate-ai-reply"}
                                => sends'[jobs'[j].data.send].kind = "dm"
                           /\ jobs'[j].data.type = "send-comment-reply"
                                => sends'[jobs'[j].data.send].kind # "dm"
                      /\ act'[j].pc = "addDm" => sends'[act'[j].send].kind = "dm"
                      /\ act'[j].pc = "addReply" => sends'[act'[j].send].kind # "dm"
    BY DEF KindInv, IsDm
  <1>1. ASSUME NEW k \in JobIds, act[k].pc \in {"addDm", "addReply"}
        PROVE  /\ sends'[act[k].send].kind = sends[act[k].send].kind
               /\ act[k].pc = "addDm" => sends[act[k].send].kind = "dm"
               /\ act[k].pc = "addReply" => sends[act[k].send].kind # "dm"
    <2>1. act[k].send \in SendIds /\ sends[act[k].send].status # "none"
      BY <1>1, Subject, StepNames DEF SightInv
    <2> QED
      BY <2>1, KindKept DEF KindInv, IsDm
  <1>2. ASSUME jobs[j].state # "none", jobs[j].data.type # "process-event"
        PROVE  /\ sends'[jobs[j].data.send].kind = sends[jobs[j].data.send].kind
               /\ jobs'[j].data = jobs[j].data
    BY <1>2, RowOfJob, KindKept, JobKept
  <1>3. ASSUME jobs[j].state # "none", jobs[j].data.type = "process-event"
        PROVE  jobs'[j].data.type = "process-event"
    BY <1>3, JobKept
  <1>4. ASSUME NewJob(j)
        PROVE  \/ jobs'[j].data.type = "process-event"
               \/ /\ jobs'[j].data.type \in {"send-dm", "generate-ai-reply"}
                  /\ sends'[jobs'[j].data.send].kind = "dm"
               \/ /\ jobs'[j].data.type = "send-comment-reply"
                  /\ sends'[jobs'[j].data.send].kind # "dm"
    <2>1. ASSUME NEW m \in Messages, jobs'[j] = Added(ProcessEventJob(m))
          PROVE  jobs'[j].data.type = "process-event"
      BY <2>1, JobDataIs
    <2>2. ASSUME NEW k \in JobIds, AddDm(k), jobs'[j] = Added(AnswerJob(k))
          PROVE  /\ jobs'[j].data.type \in {"send-dm", "generate-ai-reply"}
                 /\ sends'[jobs'[j].data.send].kind = "dm"
      <3>1. act[k].pc = "addDm"
        BY <2>2 DEF AddDm
      <3>2. /\ jobs'[j].data.type \in {"send-dm", "generate-ai-reply"}
            /\ jobs'[j].data.send = act[k].send
        BY <2>2, JobDataIs DEF AnswerJob
      <3> QED
        BY <1>1, <3>1, <3>2
    <2>3. ASSUME NEW k \in JobIds, AddReply(k),
                 jobs'[j] = Added(SendCommentReplyJob(act[k].send, act[k].account,
                                                      act[k].text))
          PROVE  /\ jobs'[j].data.type = "send-comment-reply"
                 /\ sends'[jobs'[j].data.send].kind # "dm"
      <3>1. act[k].pc = "addReply"
        BY <2>3 DEF AddReply
      <3>2. /\ jobs'[j].data.type = "send-comment-reply"
            /\ jobs'[j].data.send = act[k].send
        BY <2>3, JobDataIs
      <3> QED
        BY <1>1, <3>1, <3>2
    <2>4. ASSUME NEW k \in JobIds, GenAdd(k),
                 jobs'[j] = Added(SendDMJob(act[k].send, act[k].account, act[k].text))
          PROVE  /\ jobs'[j].data.type = "send-dm"
                 /\ sends'[jobs'[j].data.send].kind = "dm"
      <3>1. /\ jobs[k].state # "none" /\ jobs[k].data.type = "generate-ai-reply"
            /\ act[k].send = jobs[k].data.send
        BY <2>4, HandlerType DEF GenAdd, FitsInv, HandlerInv, OwnSteps, GenSteps
      <3>2. sends'[act[k].send].kind = sends[act[k].send].kind
        BY <3>1, RowOfJob, KindKept
      <3>3. jobs'[j].data.type = "send-dm" /\ jobs'[j].data.send = act[k].send
        BY <2>4, JobDataIs
      <3> QED
        BY <3>1, <3>2, <3>3 DEF KindInv, IsDm
    <2> QED
      BY <1>4, <2>1, <2>2, <2>3, <2>4 DEF NewJob
  <1>5. jobs'[j].state # "none" =>
          /\ jobs'[j].data.type \in {"send-dm", "generate-ai-reply"}
               => sends'[jobs'[j].data.send].kind = "dm"
          /\ jobs'[j].data.type = "send-comment-reply"
               => sends'[jobs'[j].data.send].kind # "dm"
    <2>1. CASE jobs[j].state # "none" /\ jobs[j].data.type # "process-event"
      BY <1>2, <2>1 DEF KindInv, IsDm
    <2>2. CASE jobs[j].state # "none" /\ jobs[j].data.type = "process-event"
      BY <1>3, <2>2
    <2>3. CASE jobs[j].state = "none"
      BY <1>4, <2>3, JobCases DEF OldJob
    <2> QED
      BY <2>1, <2>2, <2>3
  <1>6. ASSUME act'[j].pc \in {"addDm", "addReply"}
        PROVE  /\ act'[j].pc = "addDm" => sends'[act'[j].send].kind = "dm"
               /\ act'[j].pc = "addReply" => sends'[act'[j].send].kind # "dm"
    <2>1. CASE act'[j] = act[j] \/ Stays(j)
      BY <1>1, <1>6, <2>1 DEF Stays, At
    <2>2. CASE InsertDm(j) \/ InsertReply(j)
      <3>1. PICK s \in SendIds :
              /\ Inserts(j, s) /\ act'[j].send = s
              /\ \/ act[j].pc = "insertDm" /\ act'[j].pc = "addDm"
                 \/ act[j].pc = "insertReply" /\ act'[j].pc = "addReply"
        BY <2>2, InsertPlaces
      <3> QED
        BY <3>1, InsertFrame
    <2>3. act'[j] # Idle /\ ~Stops(j) /\ ~\E w \in Workers : Start(w, j)
      BY <1>6, IdleFacts, StartFrame DEF Stops
    <2>4. ~(generateAiReply(j) \/ sendDM(j))
      BY <1>6, OwnMoves, IdleFacts DEF OwnSteps, GenSteps, DmSteps, CrSteps
    <2>5. CASE processEvent(j)
      BY <1>6, <2>1, <2>2, <2>3, <2>5, EventPlaces DEF processEvent
    <2> QED
      BY <2>1, <2>3, <2>4, <2>5, HandlerFrame
  <1> QED
    BY <1>5, <1>6

--------------------------------------------------------------------------------
(* What a handler finds its row to be.                                     *)

\* The steps of a handler that has read its row.
Working == OwnSteps \ {"genLoad", "dmLoad", "crLoad"}

\* Nobody writes an outcome while the handler of a DM is at work: its row is as the
\* handler found it, or gone with its account.
OpenInv ==
  \A j \in JobIds :
    act[j].pc \in Working /\ IsDm(act[j].send) =>
      sends[act[j].send].status \in {"queued", "deleted"}

LEMMA InitOpen == Init => OpenInv
  <1> SUFFICES ASSUME Init PROVE OpenInv
    OBVIOUS
  <1>1. \A j \in JobIds : act[j].pc = "idle"
    BY IdleFacts DEF Init
  <1> QED
    BY <1>1, OwnNames DEF OpenInv, Working

\* The row of a handler.
LEMMA OwnRow ==
  ASSUME TypeInv, FitsInv, SightInv, NEW j \in JobIds, act[j].pc \in OwnSteps
  PROVE  /\ jobs[j].state # "none" /\ jobs[j].data.type # "process-event"
         /\ act[j].send = jobs[j].data.send /\ act[j].send \in SendIds
         /\ sends[act[j].send].status # "none"
  <1>1. /\ jobs[j].state # "none" /\ jobs[j].data.type # "process-event"
        /\ act[j].send = jobs[j].data.send
    BY HandlerType, OwnNames DEF HandlerInv, FitsInv
  <1> QED
    BY <1>1, RowOfJob

\* A handler gets to work on a DM whose row is queued.
LEMMA GetsToWork ==
  ASSUME TypeInv, FitsInv, SightInv, KindInv, [Next]_vars, NEW j \in JobIds,
         act'[j].pc \in Working
  PROVE  /\ act[j].pc \in OwnSteps /\ act'[j].send = act[j].send
         /\ \/ act[j].pc \in Working
            \/ sends[act[j].send].status = "queued"
            \/ ~IsDm(act[j].send)
  <1>1. /\ act'[j].pc \in OwnSteps /\ act'[j] # Idle
        /\ act'[j].pc \notin {"genLoad", "dmLoad", "crLoad", "load"}
    BY IdleFacts, OwnNames DEF Working, MatchSteps
  <1>2. CASE act'[j] = act[j] \/ Stays(j)
    BY <1>1, <1>2 DEF Stays, At
  <1>3. ~Stops(j) /\ ~\E w \in Workers : Start(w, j)
    BY <1>1, StartFrame, OwnNames DEF Stops, MatchSteps
  <1>4. CASE processEvent(j)
    BY <1>1, <1>2, <1>4, EventMoves
  <1>5. CASE generateAiReply(j) \/ sendDM(j)
    <2>1. act[j].pc \in OwnSteps /\ act'[j].send = act[j].send
      BY <1>1, <1>5, OwnMoves
    <2>2. CASE act[j].pc = "genLoad"
      <3>1. GenLoad(j)
        BY <1>5, <2>2, GenPlaces, SendPlaces DEF generateAiReply, sendDM, AtMeta
      <3> QED
        BY <1>1, <2>1, <3>1, GenLoadIs
    <2>3. CASE act[j].pc = "dmLoad"
      <3>1. DmLoad(j)
        BY <1>5, <2>3, GenPlaces, SendPlaces DEF generateAiReply, sendDM, AtMeta, GenLoad
      <3> QED
        BY <1>1, <2>1, <3>1, SendPlaces
    <2>4. CASE act[j].pc = "crLoad"
      BY <2>1, <2>4, OwnRow DEF FitsInv, CrSteps, KindInv
    <2> QED
      BY <2>1, <2>2, <2>3, <2>4 DEF Working
  <1> QED
    BY <1>1, <1>2, <1>3, <1>4, <1>5, HandlerFrame

LEMMA NextOpen ==
  ASSUME TypeInv, RowInv, WorkerInv, FitsInv, SightInv, AloneInv, KindInv, OpenInv,
         OneWorker, [Next]_vars
  PROVE  OpenInv'
  <1> SUFFICES ASSUME NEW k \in JobIds, act'[k].pc \in Working,
                      NEW s, s = act'[k].send, sends'[s].kind = "dm"
               PROVE  sends'[s].status \in {"queued", "deleted"}
    BY DEF OpenInv, IsDm
  <1>1. /\ act[k].pc \in OwnSteps /\ act[k].send = s
        /\ act[k].pc \in Working \/ sends[s].status = "queued" \/ ~IsDm(s)
    BY GetsToWork
  <1>2. s \in SendIds /\ sends[s].status # "none"
    BY <1>1, OwnRow
  <1>3. IsDm(s)
    BY <1>2, KindKept DEF IsDm
  <1>4. sends[s].status \in {"queued", "deleted"}
    BY <1>1, <1>3 DEF OpenInv
  <1>5. ASSUME NEW j \in JobIds, WriteOutcome(j), act[j].send = s PROVE FALSE
    <2>1. act[j].pc \in OwnSteps
      BY <1>5 DEF WriteOutcome, OwnSteps
    <2>2. j = k
      BY <1>1, <2>1, Alone
    <2>3. act'[k].pc = "return"
      BY <1>5, <2>2, SendPlaces DEF At
    <2> QED
      BY <2>3, OwnNames DEF Working
  <1> QED
    BY <1>2, <1>4, <1>5, StatusCases, InsertFrame

--------------------------------------------------------------------------------
(* The steps of the life cycle.                                            *)

DmStatus == [s \in SendIds |-> IF IsDm(s) THEN sends[s].status ELSE "none"]
DmPosted == [s \in SendIds |-> IF IsDm(s) THEN delivered[s] ELSE 0]

LEMMA LifecycleInit == Init => Lifecycle!Init
  BY DEF Init, NoSend, IsDm, Lifecycle!Init

\* A step that leaves a row's kind, its status and its deliveries alone.
LEMMA RowsStutter ==
  ASSUME delivered' = delivered, \A s \in SendIds : /\ sends'[s].kind = sends[s].kind
                                                    /\ sends'[s].status = sends[s].status
  PROVE  UNCHANGED <<DmStatus, DmPosted>>
  BY DEF DmStatus, DmPosted, IsDm

LEMMA LifecycleInsert ==
  ASSUME TypeInv, RowInv, PostedInv, NEW j \in JobIds, InsertDm(j) \/ InsertReply(j)
  PROVE  \/ UNCHANGED <<DmStatus, DmPosted>>
         \/ \E s \in SendIds : Lifecycle!Insert(s)
  <1>1. PICK s \in SendIds : Inserts(j, s)
    BY InsertPlaces
  <1>2. /\ sends[s].status = "none" /\ sends'[s].status = "queued" /\ delivered[s] = 0
        /\ \A r \in SendIds : r # s => sends'[r] = sends[r]
    BY <1>1, InsertFrame DEF PostedInv
  <1>3. delivered' = delivered
    BY DEF InsertDm, InsertReply
  <1>4. DmPosted' = DmPosted
    BY <1>2, <1>3 DEF DmPosted, IsDm
  <1>5. CASE sends'[s].kind = "dm"
    <2>1. DmStatus[s] = "none" /\ DmStatus' = [DmStatus EXCEPT ![s] = "queued"]
      BY <1>2, <1>5 DEF DmStatus, IsDm
    <2>2. Lifecycle!Insert(s)
      BY <1>4, <2>1 DEF Lifecycle!Insert, DmStatus, DmPosted
    <2> QED
      BY <2>2
  <1>6. CASE sends'[s].kind # "dm"
    <2>1. DmStatus' = DmStatus
      BY <1>2, <1>6 DEF DmStatus, IsDm
    <2> QED
      BY <1>4, <2>1
  <1> QED
    BY <1>5, <1>6

LEMMA LifecyclePost ==
  ASSUME TypeInv, FitsInv, OpenInv, NEW j \in JobIds, Posts(j)
  PROVE  \/ UNCHANGED <<DmStatus, DmPosted>>
         \/ \E s \in SendIds : Lifecycle!Post(s)
  <1>1. act[j].send \in SendIds /\ act[j].pc \in {"dmPost", "crPost"} /\ sends' = sends
    BY Zenon, PostIs
  <1>2. PICK s \in SendIds : s = act[j].send
    BY <1>1
  <1>3. delivered' = [delivered EXCEPT ![s] = @ + 1]
    BY Zenon, <1>2 DEF Posts, PostAccepted, PostAnswerLost
  <1>4. DmStatus' = DmStatus
    BY <1>1 DEF DmStatus, IsDm
  <1>5. CASE IsDm(s)
    <2>1. sends[s].status \in {"queued", "deleted"}
      BY <1>1, <1>2, <1>5 DEF OpenInv, Working, OwnSteps, DmSteps, CrSteps
    <2>2. DmPosted' = [DmPosted EXCEPT ![s] = @ + 1]
      BY <1>1, <1>3, <1>5 DEF DmPosted, IsDm, TypeInv, TypeOK, TablesOK
    <2>3. Lifecycle!Post(s)
      BY <1>4, <1>5, <2>1, <2>2 DEF Lifecycle!Post, DmStatus, DmPosted
    <2> QED
      BY <2>3
  <1>6. CASE ~IsDm(s)
    <2>1. DmPosted' = DmPosted
      BY <1>1, <1>3, <1>6 DEF DmPosted, IsDm, TypeInv, TypeOK, TablesOK
    <2> QED
      BY <1>4, <2>1
  <1> QED
    BY <1>5, <1>6

LEMMA LifecycleResolve ==
  ASSUME TypeInv, RowInv, SentInv, OpenInv, [Next]_vars, NEW j \in JobIds, WriteOutcome(j)
  PROVE  \/ UNCHANGED <<DmStatus, DmPosted>>
         \/ \E s \in SendIds, o \in Outcomes : Lifecycle!Resolve(s, o)
  <1>1. act[j].pc = "write" /\ delivered' = delivered
    BY DEF WriteOutcome
  <1>2. PICK s \in SendIds, o \in Outcomes \cup {"retry"} : s = act[j].send /\ o = act[j].out
    BY <1>1, Subject, StepNames, HandlerType DEF HandlerInv
  <1>3. CASE sends' = sends
    BY <1>1, <1>3, RowsStutter
  <1>4. CASE sends' # sends
    <2>1. /\ o \in Outcomes /\ sends[s].status \notin {"none", "deleted"}
          /\ sends' = [sends EXCEPT ![s] = [sends[s] EXCEPT !.status = o]]
      BY SMTT(60), <1>2, <1>4 DEF WriteOutcome, OnRow
    <2>2. /\ sends'[s].status = o /\ sends'[s].kind = sends[s].kind
          /\ \A r \in SendIds : r # s => sends'[r] = sends[r]
      BY <2>1 DEF TypeInv, TypeOK, TablesOK, Send
    <2>3. DmPosted' = DmPosted
      BY <1>1, <2>2 DEF DmPosted, IsDm
    <2>4. CASE IsDm(s)
      <3>1. sends[s].status = "queued"
        BY <1>1, <1>2, <2>1, <2>4 DEF OpenInv, Working, OwnSteps
      <3>2. o = "sent" => delivered[s] > 0
        BY <1>1, <1>2 DEF SentInv
      <3>3. DmStatus' = [DmStatus EXCEPT ![s] = o]
        BY <2>2, <2>4 DEF DmStatus, IsDm
      <3>4. Lifecycle!Resolve(s, o)
        BY <2>3, <2>4, <3>1, <3>2, <3>3 DEF Lifecycle!Resolve, DmStatus, DmPosted
      <3> QED
        BY <2>1, <3>4
    <2>5. CASE ~IsDm(s)
      <3>1. DmStatus' = DmStatus
        BY <2>2, <2>5 DEF DmStatus, IsDm
      <3> QED
        BY <2>3, <3>1
    <2> QED
      BY <2>4, <2>5
  <1> QED
    BY <1>3, <1>4

LEMMA LifecycleRemove ==
  ASSUME TypeInv, RowInv, NEW acc \in Accounts, Disconnect(acc)
  PROVE  \E rows \in SUBSET SendIds : Lifecycle!Remove(rows)
  <1>1. PICK rows \in SUBSET SendIds : rows = {s \in SendIds : IsDm(s) /\ sends[s].account = acc}
    OBVIOUS
  <1>2. \A s \in SendIds :
          sends'[s] = IF sends[s].account = acc
                        THEN [sends[s] EXCEPT !.status = "deleted", !.automation = None]
                        ELSE sends[s]
    BY DEF Disconnect
  <1>3. ASSUME NEW s \in SendIds
        PROVE  /\ sends'[s].kind = sends[s].kind
               /\ sends'[s].status = IF sends[s].account = acc THEN "deleted"
                                     ELSE sends[s].status
    BY <1>2 DEF TypeInv, TypeOK, TablesOK, Send
  <1>4. \A s \in rows : DmStatus[s] # "none"
    BY <1>1, QueueAssumption DEF DmStatus, RowInv
  <1>5. delivered' = delivered
    BY DEF Disconnect
  <1>6. DmPosted' = DmPosted
    BY <1>3, <1>5 DEF DmPosted, IsDm
  <1>7. DmStatus' = [s \in SendIds |-> IF s \in rows THEN "deleted" ELSE DmStatus[s]]
    BY <1>1, <1>3 DEF DmStatus, IsDm
  <1>8. Lifecycle!Remove(rows)
    BY <1>4, <1>6, <1>7 DEF Lifecycle!Remove, DmStatus, DmPosted
  <1> QED
    BY <1>8

LEMMA LifecycleStep ==
  ASSUME TypeInv, RowInv, FitsInv, SentInv, PostedInv, OpenInv, [Next]_vars
  PROVE  [Lifecycle!Next]_<<DmStatus, DmPosted>>
  <1> SUFFICES \/ UNCHANGED <<DmStatus, DmPosted>>
               \/ \E s \in SendIds : \/ Lifecycle!Insert(s) \/ Lifecycle!Post(s)
                                     \/ \E o \in Outcomes : Lifecycle!Resolve(s, o)
               \/ \E rows \in SUBSET SendIds : Lifecycle!Remove(rows)
    BY DEF Lifecycle!Next, Lifecycle!Outcomes, Outcomes
  <1>1. CASE \E j \in JobIds : InsertDm(j) \/ InsertReply(j)
    BY <1>1, LifecycleInsert
  <1>2. CASE \E j \in JobIds : Posts(j)
    BY <1>2, LifecyclePost
  <1>3. CASE \E j \in JobIds : WriteOutcome(j)
    BY <1>3, LifecycleResolve
  <1>4. CASE \E acc \in Accounts : Disconnect(acc)
    BY <1>4, LifecycleRemove
  <1>5. ASSUME ~\E j \in JobIds : InsertDm(j) \/ InsertReply(j) \/ Posts(j) \/ WriteOutcome(j),
               ~\E acc \in Accounts : Disconnect(acc)
        PROVE  UNCHANGED <<DmStatus, DmPosted>>
    <2>1. delivered' = delivered
      BY <1>5, DeliveredCases
    <2>2. ASSUME NEW s \in SendIds
          PROVE  sends'[s].kind = sends[s].kind /\ sends'[s].status = sends[s].status
      <3>1. ~\E j \in JobIds : Inserts(j, s)
        BY <1>5 DEF Inserts
      <3> QED
        BY <1>5, <3>1, SendFrame, StatusCases DEF SendStep
    <2> QED
      BY <2>1, <2>2, RowsStutter
  <1> QED
    BY <1>1, <1>2, <1>3, <1>4, <1>5

\* With one worker process the DMs of the pipeline implement SendLifecycle: a DM is
\* posted only while its row is queued (or gone with its account), its outcome is
\* written once, and "sent" only after Meta took it, whatever crashes, is thrown, is
\* answered late or is disconnected meanwhile.
THEOREM DmsKeepTheLifecycle == ASSUME OneWorker PROVE Spec => DmsFollowLifecycle
  <1>1. Spec => [](AloneInv /\ KindInv)
    BY InvariantTypeInv, InvariantRow, InvariantWorker, InvariantFits, InvariantSight,
       InitAlone, NextAlone, InitKind, NextKind, PTL DEF Spec
  <1>2. TypeInv /\ RowInv /\ WorkerInv /\ FitsInv /\ SightInv /\ AloneInv /\ KindInv
          /\ OpenInv /\ [Next]_vars => OpenInv'
    BY NextOpen
  <1>3. Spec => []OpenInv
    BY <1>1, <1>2, InvariantTypeInv, InvariantRow, InvariantWorker, InvariantFits,
       InvariantSight, InitOpen, PTL DEF Spec
  <1>4. TypeInv /\ RowInv /\ FitsInv /\ SentInv /\ PostedInv /\ OpenInv /\ [Next]_vars
          => [Lifecycle!Next]_<<DmStatus, DmPosted>>
    BY LifecycleStep
  <1>5. Spec => [][Lifecycle!Next]_<<DmStatus, DmPosted>>
    BY <1>3, <1>4, InvariantTypeInv, InvariantRow, InvariantFits, InvariantSent,
       InvariantPosted, PTL DEF Spec
  <1> QED
    BY <1>5, LifecycleInit, PTL DEF Spec, DmsFollowLifecycle, Lifecycle!Spec, DmStatus, DmPosted

================================================================================

--------------------------- MODULE WhatsappSetup ---------------------------
(* The forms that connect a WhatsApp number and create a message template,   *)
(* and the requests behind them: several pages of several workspaces, each   *)
(* request a sequence of awaits, any of which may fail.                      *)
(*                                                                           *)
(* A form waits for one request, and is free again when the connection       *)
(* breaks while the request goes on.  Only the unique keys of the two tables *)
(* stand between the requests then.  What Meta decides about a template      *)
(* later is in WhatsappTemplates.                                            *)
EXTENDS Integers, FiniteSets

CONSTANTS Owners,      \* workspaces
          Phones,      \* phone number ids, which Meta issues
          Names,       \* <<name, language>> of templates
          Pages,       \* browser tabs
          Slots,       \* requests in progress at once
          SetupScenarios, \* what people do, one set per family of behaviours
          MaxSent,     \* bound on the requests
          NoOwner, NoPage, NoSetupRow

ASSUME SetupAssumption ==
  /\ MaxSent \in Nat
  /\ NoOwner \notin Owners /\ NoPage \notin Pages
  /\ Owners # {} /\ Phones # {} /\ Names # {}

VARIABLES
  numbers,    \* rows of whatsappAccounts, by their unique phoneNumberId
  tplRows,    \* rows of whatsappTemplates, by their unique key
  tplMade,    \* rows ever inserted under a key
  submitted,  \* times Meta took a template of a key
  tabs,       \* the form each tab shows
  reqs,       \* requests in progress
  sent,       \* requests sent
  setupEnv    \* what people do in this behaviour

setupVars == <<numbers, tplRows, tplMade, submitted, tabs, reqs, sent, setupEnv>>

Keys == Owners \X Names   \* UNIQUE ("tenantId", "name", "language")

Number == [owner : Owners \cup {NoOwner}, token : Nat, connected : BOOLEAN]

TplRow == [status : {"draft", "pending", "disabled"}, id : Nat]

ASSUME NoRowIsATemplate == NoSetupRow \notin TplRow

Tab == [form : {"none", "connect", "template"}, owner : Owners,
        offered : SUBSET Phones]

Pcs == {"idle", "verify", "lookup", "insert", "update", "read", "cut", "check",
        "draft", "submit", "record", "drop", "disable", "ok", "refused"}

\* `mark': whether the request has written (or found) its row, and whether
\* another has written it since.
Req == [kind : {"connect", "disconnect", "template", "delete"}, pc : Pcs,
        page : Pages \cup {NoPage}, owner : Owners, phone : Phones, name : Names,
        submit : BOOLEAN, serial : Nat,
        mark : {"none", "wrote", "overtaken"}]

SetupTypeOK ==
  /\ numbers \in [Phones -> Number]
  /\ tplRows \in [Keys -> TplRow \cup {NoSetupRow}]
  /\ tplMade \in [Keys -> Nat] /\ submitted \in [Keys -> Nat]
  /\ tabs \in [Pages -> Tab] /\ reqs \in [Slots -> Req]
  /\ sent \in Nat /\ setupEnv \in SetupScenarios

AnOwner == CHOOSE o \in Owners : TRUE

NoReq == [kind |-> "connect", pc |-> "idle", page |-> NoPage, owner |-> AnOwner,
          phone |-> CHOOSE p \in Phones : TRUE, name |-> CHOOSE n \in Names : TRUE,
          submit |-> FALSE, serial |-> 0, mark |-> "none"]

NoForm == [form |-> "none", owner |-> AnOwner, offered |-> {}]

\* Where templates are made, a number is connected before.
SetupInit ==
  /\ setupEnv \in SetupScenarios
  /\ numbers = [p \in Phones |->
       IF "connects" \in setupEnv
       THEN [owner |-> NoOwner, token |-> 0, connected |-> FALSE]
       ELSE [owner |-> AnOwner, token |-> 0, connected |-> TRUE]]
  /\ tplRows = [k \in Keys |-> NoSetupRow]
  /\ tplMade = [k \in Keys |-> 0] /\ submitted = [k \in Keys |-> 0]
  /\ tabs = [t \in Pages |-> NoForm] /\ reqs = [r \in Slots |-> NoReq]
  /\ sent = 0

KeyOf(r) == <<reqs[r].owner, reqs[r].name>>

Templating(r) == reqs[r].kind \in {"template", "delete"}

SameRow(r, s) ==
  IF Templating(r) THEN Templating(s) /\ KeyOf(s) = KeyOf(r)
  ELSE ~Templating(s) /\ reqs[s].phone = reqs[r].phone

\* Request r goes on, and has written its row.
Wrote(r, pc) ==
  reqs' = [s \in Slots |->
    IF s = r THEN [reqs[r] EXCEPT !.pc = pc,
                     !.mark = IF @ = "none" THEN "wrote" ELSE @]
    ELSE IF SameRow(r, s) /\ reqs[s].mark = "wrote"
         THEN [reqs[s] EXCEPT !.mark = "overtaken"] ELSE reqs[s]]

Goes(r, pc) == reqs' = [reqs EXCEPT ![r].pc = pc]

-----------------------------------------------------------------------------
(* The pages.                                                                *)

\* The accounts a template may be made for are those connected by then.
OpenForm(t) ==
  /\ tabs[t].form = "none"
  /\ \E o \in Owners, f \in {"connect", "template"} :
       /\ f = "connect" <=> "connects" \in setupEnv
       /\ tabs' = [tabs EXCEPT ![t] = [form |-> f, owner |-> o,
            offered |-> {p \in Phones : numbers[p].owner = o /\ numbers[p].connected}]]
  /\ UNCHANGED <<numbers, tplRows, tplMade, submitted, reqs, sent, setupEnv>>

\* submittingRef: a form has one request at a time.
Waits(t) == \E r \in Slots : reqs[r].page = t /\ reqs[r].pc # "idle"

Send(r, request) ==
  /\ reqs[r].pc = "idle" /\ sent < MaxSent
  /\ sent' = sent + 1
  /\ reqs' = [reqs EXCEPT ![r] = [request EXCEPT !.serial = sent + 1]]
  /\ UNCHANGED <<numbers, tplRows, tplMade, submitted, tabs, setupEnv>>

\* ConnectForm sends the ids and the token that were pasted.
SubmitConnect(t, r) ==
  /\ tabs[t].form = "connect" /\ ~Waits(t)
  /\ \E p \in Phones :
       Send(r, [NoReq EXCEPT !.pc = "verify", !.page = t, !.owner = tabs[t].owner,
                             !.phone = p])

\* TemplateForm sends nothing unless an account was connected.
SubmitTemplate(t, r) ==
  /\ tabs[t].form = "template" /\ ~Waits(t)
  /\ \E p \in tabs[t].offered, n \in Names, submit \in BOOLEAN :
       Send(r, [NoReq EXCEPT !.kind = "template", !.pc = "check", !.page = t,
                             !.owner = tabs[t].owner, !.phone = p, !.name = n,
                             !.submit = submit])

\* The disconnect button, and a client of the API that deletes a template.
SubmitDisconnect(r) ==
  \E o \in Owners, p \in Phones :
    Send(r, [NoReq EXCEPT !.kind = "disconnect", !.pc = "read", !.owner = o,
                          !.phone = p])

SubmitDelete(r) ==
  /\ "templates" \in setupEnv
  /\ \E o \in Owners, n \in Names :
       Send(r, [NoReq EXCEPT !.kind = "delete", !.pc = "read", !.owner = o,
                             !.name = n])

\* A form that still waits is left on success and free again otherwise.
Answered(r) ==
  /\ reqs[r].pc \in {"ok", "refused"}
  /\ tabs' = IF reqs[r].page # NoPage /\ reqs[r].pc = "ok"
             THEN [tabs EXCEPT ![reqs[r].page] = NoForm] ELSE tabs
  /\ reqs' = [reqs EXCEPT ![r] = NoReq]
  /\ UNCHANGED <<numbers, tplRows, tplMade, submitted, sent, setupEnv>>

\* fetch rejects, `finally' frees the form, and the server goes on or dies.
Breaks(r) ==
  /\ reqs[r].pc # "idle"
  /\ \/ reqs[r].page # NoPage /\ reqs' = [reqs EXCEPT ![r].page = NoPage]
     \/ reqs' = [reqs EXCEPT ![r] = NoReq]
  /\ UNCHANGED <<numbers, tplRows, tplMade, submitted, tabs, sent, setupEnv>>

-----------------------------------------------------------------------------
(* connectWhatsapp and disconnectWhatsapp.                                   *)

rest == <<tplRows, tplMade, submitted, tabs, sent, setupEnv>>

\* Meta must know the number under the token that was pasted.
GetPhoneNumberInfo(r) ==
  /\ reqs[r].pc = "verify"
  /\ \/ Goes(r, "lookup") \/ Goes(r, "refused")
  /\ UNCHANGED <<numbers, rest>>

\* The lookup is scoped to the workspace; one that fails counts as nothing found.
LookupNumber(r) ==
  /\ reqs[r].pc = "lookup"
  /\ \/ /\ numbers[reqs[r].phone].owner = reqs[r].owner
        /\ Goes(r, "update")
     \/ Goes(r, "insert")
  /\ UNCHANGED <<numbers, rest>>

\* Mutant: an upsert on the unique phoneNumberId.
UpsertNumber(r) ==
  /\ reqs[r].pc = "insert"
  /\ numbers' = [numbers EXCEPT ![reqs[r].phone] =
       [owner |-> reqs[r].owner, token |-> reqs[r].serial, connected |-> TRUE]]
  /\ Wrote(r, "ok")
  /\ UNCHANGED rest

\* UNIQUE ("phoneNumberId") refuses a number that any workspace has.
InsertNumber(r) ==
  /\ reqs[r].pc = "insert"
  /\ IF numbers[reqs[r].phone].owner = NoOwner
     THEN /\ numbers' = [numbers EXCEPT ![reqs[r].phone] =
               [owner |-> reqs[r].owner, token |-> reqs[r].serial,
                connected |-> TRUE]]
          /\ Wrote(r, "ok")
     ELSE Goes(r, "refused") /\ numbers' = numbers
  /\ UNCHANGED rest

\* A reconnection: the new token, and disconnectedAt is reset.
UpdateNumber(r) ==
  LET p == reqs[r].phone IN
  /\ reqs[r].pc = "update"
  /\ numbers' = [numbers EXCEPT ![p].token = reqs[r].serial, ![p].connected = TRUE]
  /\ Wrote(r, "ok")
  /\ UNCHANGED rest

DisconnectLoad(r) ==
  LET row == numbers[reqs[r].phone] IN
  /\ reqs[r].kind = "disconnect" /\ reqs[r].pc = "read"
  /\ reqs' = [reqs EXCEPT
       ![r].pc = IF row.owner # reqs[r].owner THEN "refused"
                 ELSE IF row.connected THEN "cut" ELSE "ok",
       ![r].mark = IF row.owner = reqs[r].owner /\ ~row.connected THEN "wrote" ELSE @]
  /\ UNCHANGED <<numbers, rest>>

DisconnectWrite(r) ==
  /\ reqs[r].pc = "cut"
  /\ numbers' = [numbers EXCEPT ![reqs[r].phone].connected = FALSE]
  /\ Wrote(r, "ok")
  /\ UNCHANGED rest

-----------------------------------------------------------------------------
(* createWhatsappTemplate and deleteWhatsappTemplate.                        *)

others == <<numbers, tabs, sent, setupEnv>>

CheckNumber(r) ==
  LET row == numbers[reqs[r].phone] IN
  /\ reqs[r].pc = "check"
  /\ Goes(r, IF row.owner = reqs[r].owner /\ row.connected THEN "draft" ELSE "refused")
  /\ UNCHANGED <<tplRows, tplMade, submitted, others>>

\* Mutant: a row that is there is taken over.
InsertTplDraftOver(r) ==
  LET k == KeyOf(r) IN
  /\ reqs[r].pc = "draft"
  /\ tplMade' = IF tplRows[k] = NoSetupRow THEN [tplMade EXCEPT ![k] = @ + 1] ELSE tplMade
  /\ tplRows' = [tplRows EXCEPT ![k] = [status |-> "draft", id |-> tplMade'[k]]]
  /\ reqs' = [reqs EXCEPT ![r].pc = IF reqs[r].submit THEN "submit" ELSE "ok",
                          ![r].serial = tplMade'[k], ![r].mark = "wrote"]
  /\ UNCHANGED <<submitted, others>>

\* A draft is inserted unless the key is taken, also by the draft that an
\* earlier attempt left: no request submits a row that is there.
InsertTplDraft(r) ==
  LET k == KeyOf(r) IN
  /\ reqs[r].pc = "draft"
  /\ IF tplRows[k] = NoSetupRow
     THEN /\ tplMade' = [tplMade EXCEPT ![k] = @ + 1]
          /\ tplRows' = [tplRows EXCEPT ![k] =
               [status |-> "draft", id |-> tplMade[k] + 1]]
          /\ reqs' = [reqs EXCEPT ![r].pc = IF reqs[r].submit THEN "submit" ELSE "ok",
                                  ![r].serial = tplMade[k] + 1, ![r].mark = "wrote"]
     ELSE Goes(r, "refused") /\ UNCHANGED <<tplMade, tplRows>>
  /\ UNCHANGED <<submitted, others>>

\* Meta takes the template, and the answer may be lost; or it refuses.
SubmitToMeta(r) ==
  LET k == KeyOf(r) IN
  /\ reqs[r].pc = "submit"
  /\ \/ /\ submitted' = [submitted EXCEPT ![k] = @ + 1]
        /\ \/ Goes(r, "record") \/ Goes(r, "refused")
     \/ Goes(r, "refused") /\ submitted' = submitted
  /\ UNCHANGED <<tplRows, tplMade, others>>

\* The row a request read or inserted, by its id.
StillThere(r) ==
  tplRows[KeyOf(r)] # NoSetupRow /\ tplRows[KeyOf(r)].id = reqs[r].serial

\* An update by id: nothing when the row is gone, and the answer says pending.
RecordPending(r) ==
  LET k == KeyOf(r) IN
  /\ reqs[r].pc = "record"
  /\ tplRows' = IF StillThere(r) THEN [tplRows EXCEPT ![k].status = "pending"] ELSE tplRows
  /\ Goes(r, "ok")
  /\ UNCHANGED <<tplMade, submitted, others>>

DeleteTplLoad(r) ==
  LET row == tplRows[KeyOf(r)] IN
  /\ reqs[r].kind = "delete" /\ reqs[r].pc = "read"
  /\ IF row = NoSetupRow THEN Goes(r, "refused")
     ELSE reqs' = [reqs EXCEPT ![r].serial = row.id,
                     ![r].pc = IF row.status = "draft" THEN "drop" ELSE "disable"]
  /\ UNCHANGED <<tplRows, tplMade, submitted, others>>

\* What the row was when it was read decides, whatever it is by now.
DeleteTplWrite(r) ==
  LET k == KeyOf(r) IN
  /\ reqs[r].pc \in {"drop", "disable"}
  /\ tplRows' = IF ~StillThere(r) THEN tplRows
                ELSE IF reqs[r].pc = "drop" THEN [tplRows EXCEPT ![k] = NoSetupRow]
                ELSE [tplRows EXCEPT ![k].status = "disabled"]
  /\ Wrote(r, "ok")
  /\ UNCHANGED <<tplMade, submitted, others>>

\* A statement of the database fails.
Rejects(r) ==
  /\ reqs[r].pc \in {"insert", "update", "read", "cut", "check", "draft", "record",
                     "drop", "disable"}
  /\ Goes(r, "refused")
  /\ UNCHANGED <<numbers, tplRows, tplMade, submitted, tabs, sent, setupEnv>>

SetupNext ==
  \/ \E t \in Pages : OpenForm(t)
  \/ \E t \in Pages, r \in Slots : SubmitConnect(t, r) \/ SubmitTemplate(t, r)
  \/ \E r \in Slots :
       \/ SubmitDisconnect(r) \/ SubmitDelete(r) \/ Answered(r) \/ Breaks(r)
       \/ GetPhoneNumberInfo(r) \/ LookupNumber(r) \/ InsertNumber(r) \/ UpdateNumber(r)
       \/ DisconnectLoad(r) \/ DisconnectWrite(r)
       \/ CheckNumber(r) \/ InsertTplDraft(r) \/ SubmitToMeta(r) \/ RecordPending(r)
       \/ DeleteTplLoad(r) \/ DeleteTplWrite(r) \/ Rejects(r)

SetupSpec == SetupInit /\ [][SetupNext]_setupVars

-----------------------------------------------------------------------------
(* Properties.                                                               *)

\* A phone number that a workspace has connected is never taken by another one,
\* whatever tokens they have, however their requests overlap and whichever
\* lookup fails: connectWhatsapp looks for a row of its own workspace only, so
\* it rests on the insert being refused.
NumberKeepsItsWorkspace ==
  [][\A p \in Phones : numbers[p].owner # NoOwner
       => numbers'[p].owner = numbers[p].owner]_numbers

\* What an answer says is what is stored, unless another request has written
\* the row since: a number that was connected is, with the token pasted last,
\* and a template is pending, a draft or gone as the page is told.
AnswersAreTrue ==
  \A r \in Slots :
    LET q == reqs[r] IN
    q.pc = "ok" /\ q.mark = "wrote" =>
      CASE q.kind = "connect" ->
             numbers[q.phone] = [owner |-> q.owner, token |-> q.serial, connected |-> TRUE]
        [] q.kind = "disconnect" -> ~numbers[q.phone].connected
        [] q.kind = "template" ->
             tplRows[KeyOf(r)] = [status |-> IF q.submit THEN "pending" ELSE "draft",
                                  id |-> q.serial]
        [] q.kind = "delete" ->
             StillThere(r) => tplRows[KeyOf(r)].status = "disabled"

\* Meta is given the template of a row once, however often a form is sent again
\* after a lost answer or a broken connection, and from how many tabs.
OneSubmissionPerRow ==
  \A k \in Keys : submitted[k] <= tplMade[k]

\* What Meta was given and what the page was told fit the rows: one submission
\* for each row, and no answer that the row does not bear out.
SubmissionsAreTrue == OneSubmissionPerRow /\ AnswersAreTrue

=============================================================================

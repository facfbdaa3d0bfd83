--------------------------- MODULE WhatsappTemplates ---------------------------
(***************************************************************************)
(* The table whatsappTemplates and the requests of the dashboard on it:    *)
(* createWhatsappTemplate inserts a draft, submits it to Meta and records  *)
(* the submission; deleteWhatsappTemplate removes or disables a row.  Both *)
(* are sequences of awaits, and nothing holds a lock on the row between    *)
(* them.  Meta's verdicts reach the row through the webhook and the        *)
(* worker: see WhatsappPath, which composes this module with them.         *)
(***************************************************************************)
EXTENDS Naturals

CONSTANTS Templates,    \* whatsappTemplates row ids
          Approved      \* those of them that Meta approved before the model starts

ASSUME TemplatesAssumption == Approved \subseteq Templates

VARIABLES templates,    \* Templates -> Template, the table
          create,       \* Templates -> step of the request that creates the row
          remove,       \* Templates -> step of a request that deletes the row
          verdict       \* Templates -> what Meta last decided about the template

templateVars == <<templates, create, remove, verdict>>

\* `known': metaTemplateId is set, so status webhooks find the row.
\* "none": not yet inserted; "deleted": hard-deleted.
Template == [status : {"none", "draft", "pending", "approved", "rejected", "paused",
                       "disabled", "deleted"},
             known  : BOOLEAN]

Verdicts == {"approved", "rejected", "paused", "disabled"}

\* The status a webhook's event stands for.
mapStatus == [APPROVED |-> "approved", REINSTATED |-> "approved", REJECTED |-> "rejected",
              PAUSED |-> "paused", FLAGGED |-> "paused", DISABLED |-> "disabled"]

NoTemplate       == [status |-> "none", known |-> FALSE]
ApprovedTemplate == [status |-> "approved", known |-> TRUE]

Exists(t) == templates[t].status \notin {"none", "deleted"}

\* An update by id: nothing happens when the row is gone.
UpdateTemplate(t, row) ==
  templates' = IF Exists(t) THEN [templates EXCEPT ![t] = row] ELSE templates

TemplatesInit ==
  /\ templates = [t \in Templates |-> IF t \in Approved THEN ApprovedTemplate
                                                       ELSE NoTemplate]
  /\ create = [t \in Templates |-> "idle"]
  /\ remove = [t \in Templates |-> "idle"]
  /\ verdict = [t \in Templates |-> IF t \in Approved THEN "approved" ELSE "none"]

TemplatesOK ==
  /\ templates \in [Templates -> Template]
  /\ create \in [Templates -> {"idle", "submit", "record"}]
  /\ remove \in [Templates -> {"idle", "drop", "disable"}]
  /\ verdict \in [Templates -> Verdicts \cup {"none", "pending"}]

--------------------------------------------------------------------------------
\* The row is inserted as a draft, which is all if submitToMeta is not set.
InsertDraft(t) ==
  /\ templates[t].status = "none"
  /\ templates' = [templates EXCEPT ![t].status = "draft"]
  /\ \E step \in {"idle", "submit"} : create' = [create EXCEPT ![t] = step]
  /\ UNCHANGED <<remove, verdict>>

\* Meta's POST message_templates: accepted; accepted with the answer lost, or refused
\* (the token cannot be decrypted counts as refused): the row stays a draft.
SubmitAccepted(t) ==
  /\ create[t] = "submit"
  /\ verdict' = [verdict EXCEPT ![t] = "pending"]
  /\ create' = [create EXCEPT ![t] = "record"]
  /\ UNCHANGED <<templates, remove>>

SubmitFails(t) ==
  /\ create[t] = "submit"
  /\ verdict' \in {verdict, [verdict EXCEPT ![t] = "pending"]}
  /\ create' = [create EXCEPT ![t] = "idle"]
  /\ UNCHANGED <<templates, remove>>

\* A mutant of RecordSubmission: what Meta has taken counts as approved.
RecordApproval(t) ==
  /\ create[t] = "record"
  /\ UpdateTemplate(t, [status |-> "approved", known |-> TRUE])
  /\ create' = [create EXCEPT ![t] = "idle"]
  /\ UNCHANGED <<remove, verdict>>

RecordSubmission(t) ==
  /\ create[t] = "record"
  /\ UpdateTemplate(t, [status |-> "pending", known |-> TRUE])
  /\ create' = [create EXCEPT ![t] = "idle"]
  /\ UNCHANGED <<remove, verdict>>

\* The update rejects, or the web process is gone: a draft that Meta has.
RecordFails(t) ==
  /\ create[t] = "record"
  /\ create' = [create EXCEPT ![t] = "idle"]
  /\ UNCHANGED <<templates, remove, verdict>>

\* The status read here decides what the write does, whatever the row is by then.
DeleteLoad(t) ==
  /\ Exists(t) /\ remove[t] = "idle"
  /\ remove' = [remove EXCEPT ![t] = IF templates[t].status = "draft" THEN "drop"
                                                                     ELSE "disable"]
  /\ UNCHANGED <<templates, create, verdict>>

DeleteWrite(t) ==
  /\ remove[t] # "idle"
  /\ UpdateTemplate(t, IF remove[t] = "drop"
                         THEN [status |-> "deleted", known |-> FALSE]
                         ELSE [templates[t] EXCEPT !.status = "disabled"])
  /\ remove' = [remove EXCEPT ![t] = "idle"]
  /\ UNCHANGED <<create, verdict>>

\* Meta, which has the template, decides about it.
MetaDecides(t, v) ==
  /\ verdict[t] # "none"
  /\ verdict' = [verdict EXCEPT ![t] = v]
  /\ UNCHANGED <<templates, create, remove>>
================================================================================

--------------------------- MODULE AutomationRows ---------------------------
(* The automations that exist: each is a row of automations with a row of    *)
(* triggers and a row of responses, which PATCH /automations/[id] updates    *)
(* one after the other, POST .../duplicate reads one after the other, and a  *)
(* deletion takes away together.                                             *)
(*                                                                           *)
(* The contents of the three rows are versions: the PATCH (or creation) they *)
(* come from.                                                                *)
EXTENDS Integers

CONSTANTS AutoIds,      \* ids of automations
          Channels,     \* what is there at first: the channel of each, or "none"
          Clients,      \* requests in progress at once
          MaxVersion,   \* bound on the PATCH requests
          NoAuto        \* no row

ASSUME RowsAssumption ==
  /\ Channels \subseteq [AutoIds -> {"ig", "wa", "none"}] /\ AutoIds # {}
  /\ MaxVersion \in Nat
  /\ NoAuto \notin 0..MaxVersion

VARIABLES
  autos,      \* rows of automations
  triggers,   \* rows of triggers: the version of the keywords
  responses,  \* rows of responses: the version of the texts
  clients,    \* PATCH, DELETE and duplicate requests in progress
  versions,   \* PATCH requests begun
  mixed       \* automations written while another request was between two rows

rowsVars == <<autos, triggers, responses, clients, versions, mixed>>

AutomationRow == [channel : {"ig", "wa"}, status : {"active", "paused"},
         version : 0..MaxVersion]

ASSUME NoAutoIsNoRow == NoAuto \notin AutomationRow

Versions == 0..MaxVersion

Client == [pc : {"idle", "patch", "patchTrigger", "patchResponse", "read",
                 "readTrigger", "readResponse", "insert"},
           id : AutoIds, channel : {"ig", "wa"}, version : Versions,
           trigger : Versions, response : Versions, disturbed : BOOLEAN]

RowsTypeOK ==
  /\ autos \in [AutoIds -> AutomationRow \cup {NoAuto}]
  /\ triggers \in [AutoIds -> Versions \cup {NoAuto}]
  /\ responses \in [AutoIds -> Versions \cup {NoAuto}]
  /\ clients \in [Clients -> Client]
  /\ versions \in Versions
  /\ mixed \subseteq AutoIds

Nobody == [pc |-> "idle", id |-> CHOOSE a \in AutoIds : TRUE, channel |-> "ig",
           version |-> 0, trigger |-> 0, response |-> 0, disturbed |-> FALSE]

RowsInit ==
  /\ \E channels \in Channels :
       LET there(a) == channels[a] # "none" IN
       /\ autos = [a \in AutoIds |-> IF ~there(a) THEN NoAuto
            ELSE [channel |-> channels[a], status |-> "active", version |-> 0]]
       /\ triggers = [a \in AutoIds |-> IF there(a) THEN 0 ELSE NoAuto]
  /\ responses = triggers
  /\ clients = [c \in Clients |-> Nobody]
  /\ versions = 0 /\ mixed = {}

Exists(a) == autos[a] # NoAuto

\* Requests on the same automation that are between two of its rows.
Between(c, a) ==
  {d \in Clients \ {c} : clients[d].id = a /\ clients[d].pc # "idle"
                         /\ clients[d].pc \notin {"patch", "read"}}

\* What a write of c to a makes of the others.
Disturb(c, a, next) ==
  /\ clients' = [d \in Clients |-> IF d = c THEN next
                   ELSE IF d \in Between(c, a)
                        THEN [clients[d] EXCEPT !.disturbed = TRUE]
                        ELSE clients[d]]
  /\ mixed' = IF Between(c, a) = {} THEN mixed ELSE mixed \cup {a}

-----------------------------------------------------------------------------
(* PATCH: three updates, of which the page's switch uses the first alone.    *)

BeginPatch(c) ==
  /\ clients[c].pc = "idle" /\ versions < MaxVersion
  /\ \E a \in AutoIds :
       /\ Exists(a)
       /\ clients' = [clients EXCEPT ![c] =
            [Nobody EXCEPT !.pc = "patch", !.id = a, !.version = versions + 1]]
  /\ versions' = versions + 1
  /\ UNCHANGED <<autos, triggers, responses, mixed>>

\* An update of a row that is gone does nothing and is answered as done.
PatchAutomation(c) ==
  LET a == clients[c].id IN
  /\ clients[c].pc = "patch"
  /\ autos' = IF Exists(a)
              THEN [autos EXCEPT ![a].version = clients[c].version] ELSE autos
  /\ Disturb(c, a, [clients[c] EXCEPT !.pc = "patchTrigger"])
  /\ UNCHANGED <<triggers, responses, versions>>

\* Mutant: the answer comes before the response is written.
PatchTriggerReturns(c) ==
  LET a == clients[c].id IN
  /\ clients[c].pc = "patchTrigger"
  /\ triggers' = IF triggers[a] # NoAuto
                 THEN [triggers EXCEPT ![a] = clients[c].version] ELSE triggers
  /\ Disturb(c, a, Nobody)
  /\ UNCHANGED <<autos, responses, versions>>

PatchTrigger(c) ==
  LET a == clients[c].id IN
  /\ clients[c].pc = "patchTrigger"
  /\ triggers' = IF triggers[a] # NoAuto
                 THEN [triggers EXCEPT ![a] = clients[c].version] ELSE triggers
  /\ Disturb(c, a, [clients[c] EXCEPT !.pc = "patchResponse"])
  /\ UNCHANGED <<autos, responses, versions>>

PatchResponse(c) ==
  LET a == clients[c].id IN
  /\ clients[c].pc = "patchResponse"
  /\ responses' = IF responses[a] # NoAuto
                  THEN [responses EXCEPT ![a] = clients[c].version] ELSE responses
  /\ Disturb(c, a, Nobody)
  /\ UNCHANGED <<autos, triggers, versions>>

\* The switch sends the status opposite to the one the page shows, which may
\* not be the row's any more.
ToggleStatus ==
  /\ \E a \in AutoIds, status \in {"active", "paused"} :
       /\ Exists(a)
       /\ autos' = [autos EXCEPT ![a].status = status]
  /\ UNCHANGED <<triggers, responses, clients, versions, mixed>>

\* The server dies, or the database refuses a statement, between two rows.
Dies(c) ==
  /\ clients[c].pc # "idle"
  /\ clients' = [clients EXCEPT ![c] = Nobody]
  /\ mixed' = IF clients[c].pc \in {"patchTrigger", "patchResponse"}
              THEN mixed \cup {clients[c].id} ELSE mixed
  /\ UNCHANGED <<autos, triggers, responses, versions>>

-----------------------------------------------------------------------------
(* DELETE, and the disconnection of an Instagram account: the foreign keys   *)
(* take the trigger and the response with the automation.                    *)

Delete(a) ==
  /\ Exists(a)
  /\ autos' = [autos EXCEPT ![a] = NoAuto]
  /\ triggers' = [triggers EXCEPT ![a] = NoAuto]
  /\ responses' = [responses EXCEPT ![a] = NoAuto]
  /\ clients' = [d \in Clients |-> IF clients[d].pc # "idle" /\ clients[d].id = a
                   THEN [clients[d] EXCEPT !.disturbed = TRUE] ELSE clients[d]]
  /\ mixed' = mixed \ {a}
  /\ UNCHANGED versions

-----------------------------------------------------------------------------
(* Duplicate.                                                                *)

BeginClone(c) ==
  /\ clients[c].pc = "idle"
  /\ \E a \in AutoIds :
       /\ Exists(a)
       /\ clients' = [clients EXCEPT ![c] = [Nobody EXCEPT !.pc = "read", !.id = a]]
  /\ UNCHANGED <<autos, triggers, responses, versions, mixed>>

\* 404 for a source that is gone.  A source that a PATCH is half way through
\* is read as it is.
ReadAutomation(c) ==
  LET a == clients[c].id IN
  /\ clients[c].pc = "read"
  /\ clients' = [clients EXCEPT ![c] =
       IF ~Exists(a) THEN Nobody
       ELSE [@ EXCEPT !.pc = "readTrigger", !.channel = autos[a].channel,
                      !.version = autos[a].version,
                      !.disturbed = a \in mixed \/ Between(c, a) # {}]]
  /\ UNCHANGED <<autos, triggers, responses, versions, mixed>>

\* Mutant: a missing trigger is not noticed.
ReadTriggerUnchecked(c) ==
  /\ clients[c].pc = "readTrigger"
  /\ clients' = [clients EXCEPT ![c].pc = "readResponse",
                                ![c].trigger = triggers[clients[c].id]]
  /\ UNCHANGED <<autos, triggers, responses, versions, mixed>>

\* A missing trigger or response refuses the clone (after both reads).
ReadTrigger(c) ==
  LET row == triggers[clients[c].id] IN
  /\ clients[c].pc = "readTrigger"
  /\ clients' = [clients EXCEPT ![c] =
       IF row = NoAuto THEN Nobody
       ELSE [@ EXCEPT !.pc = "readResponse", !.trigger = row]]
  /\ UNCHANGED <<autos, triggers, responses, versions, mixed>>

ReadResponse(c) ==
  LET row == responses[clients[c].id] IN
  /\ clients[c].pc = "readResponse"
  /\ clients' = [clients EXCEPT ![c] =
       IF row = NoAuto THEN Nobody ELSE [@ EXCEPT !.pc = "insert", !.response = row]]
  /\ UNCHANGED <<autos, triggers, responses, versions, mixed>>

\* The transaction, for a request that names no account, as the page's button
\* sends it.  The new row has the Instagram account of the source and never a
\* WhatsApp account, so that the clone of a WhatsApp automation names no account
\* at all, which automations_account_xor refuses.
InsertClone(c) ==
  LET from == clients[c] IN
  /\ from.pc = "insert"
  /\ clients' = [clients EXCEPT ![c] = Nobody]
  /\ IF from.channel = "ig"
     THEN \E b \in AutoIds :
            /\ ~Exists(b)
            /\ \A d \in Clients : clients[d].pc # "idle" => clients[d].id # b
            /\ autos' = [autos EXCEPT ![b] = [channel |-> "ig",
                           status |-> "paused", version |-> from.version]]
            /\ triggers' = [triggers EXCEPT ![b] = from.trigger]
            /\ responses' = [responses EXCEPT ![b] = from.response]
            /\ mixed' = IF from.disturbed THEN mixed \cup {b} ELSE mixed
     ELSE UNCHANGED <<autos, triggers, responses, mixed>>
  /\ UNCHANGED versions

RowsNext ==
  \/ \E c \in Clients :
       \/ BeginPatch(c) \/ PatchAutomation(c) \/ PatchTrigger(c) \/ PatchResponse(c)
       \/ BeginClone(c) \/ ReadAutomation(c) \/ ReadTrigger(c) \/ ReadResponse(c)
       \/ InsertClone(c) \/ Dies(c)
  \/ ToggleStatus
  \/ \E a \in AutoIds : Delete(a)

RowsSpec == RowsInit /\ [][RowsNext]_rowsVars

-----------------------------------------------------------------------------
(* Properties.                                                               *)

\* An automation never lacks its trigger or its response, nor do these outlive
\* it, whatever is patched, cloned and deleted at once.
RowsComplete ==
  \A a \in AutoIds :
    /\ Exists(a) <=> triggers[a] # NoAuto
    /\ Exists(a) <=> responses[a] # NoAuto

\* The three rows of an automation come from one PATCH, and those of a clone
\* from one state of its source, unless requests on the automation fell between
\* each other's statements, or one died there.
RowsAgree ==
  \A a \in AutoIds :
    Exists(a) /\ a \notin mixed
    /\ (\A c \in Clients : clients[c].id = a =>
          clients[c].pc \notin {"patchTrigger", "patchResponse"})
      => triggers[a] = autos[a].version /\ responses[a] = autos[a].version

\* The three rows of an automation belong together: they come and go at once,
\* and say the same, but for requests that fell between each other's statements.
RowsBelongTogether == RowsComplete /\ RowsAgree

=============================================================================

----------------------------- MODULE SendLifecycle -----------------------------
(***************************************************************************)
(* What the sends table promises of a DM or a WhatsApp message, whoever    *)
(* works on it: a row is inserted `queued', the message is posted only     *)
(* while it is queued, its outcome is written once, "sent" only after Meta *)
(* has taken the message (sendDM.ts and sendWhatsapp.ts, the idempotency   *)
(* notes of their headers; the status column of Send).                     *)
(*                                                                         *)
(* Rows also disappear, with the account they belong to, and a handler     *)
(* that has read the row before it went posts all the same.                *)
(***************************************************************************)
EXTENDS Naturals

CONSTANT SendIds

VARIABLES status,   \* SendIds -> state of the row
          posted    \* SendIds -> how often Meta accepted the message

Outcomes == {"sent", "failed", "outsideWindow", "rateLimited", "optedOut",
             "dailyCapExceeded"}

Init == /\ status = [s \in SendIds |-> "none"]
        /\ posted = [s \in SendIds |-> 0]

Insert(s) == /\ status[s] = "none"
             /\ status' = [status EXCEPT ![s] = "queued"]
             /\ UNCHANGED posted

Post(s) == /\ status[s] \in {"queued", "deleted"}
           /\ posted' = [posted EXCEPT ![s] = @ + 1]
           /\ UNCHANGED status

Resolve(s, outcome) == /\ status[s] = "queued"
                       /\ outcome = "sent" => posted[s] > 0
                       /\ status' = [status EXCEPT ![s] = outcome]
                       /\ UNCHANGED posted

\* The rows of one account.
Remove(rows) == /\ \A s \in rows : status[s] # "none"
                /\ status' = [s \in SendIds |-> IF s \in rows THEN "deleted" ELSE status[s]]
                /\ UNCHANGED posted

Next == \/ \E s \in SendIds : \/ Insert(s) \/ Post(s)
                              \/ \E outcome \in Outcomes : Resolve(s, outcome)
        \/ \E rows \in SUBSET SendIds : Remove(rows)

Spec == Init /\ [][Next]_<<status, posted>>
================================================================================

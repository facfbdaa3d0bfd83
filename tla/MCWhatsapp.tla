------------------------------ MODULE MCWhatsapp ------------------------------
(***************************************************************************)
(* Small instances of WhatsappPath: what the messages say and what the     *)
(* automations answer.                                                     *)
(***************************************************************************)
EXTENDS WhatsappPath

CONSTANTS shop, phone, hello, stop, photo, receipt, approved,
          tAuto, uAuto, fAuto, aAuto, template

Inbound(text) == [kind |-> "message", account |-> shop, phone |-> phone, text |-> text,
                  template |-> None, event |-> ""]
Verdict(event) == [kind |-> "templateStatus", account |-> shop, phone |-> phone,
                   text |-> "none", template |-> template, event |-> event]

\* A customer's words, STOP and picture; a delivery receipt; a decision of Meta.
MCMessage ==
  [m \in Messages |->
     CASE m = hello    -> Inbound("text")
       [] m = stop     -> Inbound("stop")
       [] m = photo    -> Inbound("none")
       [] m = receipt  -> [Inbound("none") EXCEPT !.kind = "status"]
       [] m = approved -> Verdict("APPROVED")]

\* Two automations that answer with the template, a freeform one, one by the AI.
MCConfig ==
  [a \in Automations |->
     [account |-> shop, ai |-> a = aAuto, body |-> a = fAuto,
      template |-> IF a \in {tAuto, uAuto} THEN template ELSE None]]

MCHits == [m \in Messages |-> Automations]

Setup(messages, autos) == [transit |-> messages, active |-> autos]

\* One message and automations that exist: a template, or freeform and AI answers; or a
\* STOP and a picture of a customer whom nobody knows yet.
FaultSetups == {Setup({hello}, {tAuto}), Setup({hello}, {fAuto, aAuto}),
               Setup({photo, stop}, {fAuto}), Setup({receipt}, {fAuto})}

\* A message and a STOP, automations yet to be created.
OwnerSetups == {Setup({hello, stop}, {})}

\* A STOP and a message; a message for the AI.
ClaimSetups == {Setup({stop, hello}, {fAuto}), Setup({hello}, {aAuto})}
================================================================================

----------------------------- MODULE MCIgPipeline -----------------------------
(***************************************************************************)
(* Small instances of IgPipeline: the messages, accounts and automations   *)
(* the configurations choose from.                                         *)
(***************************************************************************)
EXTENDS IgPipeline

CONSTANTS a1, comment, dm, story, cAuto, nAuto, rAuto, dAuto, sAuto, tAuto, uAuto

Payload(kind, contact) ==
  [kind |-> kind, text |-> TRUE, contact |-> contact, username |-> FALSE, to |-> {a1}]

\* The DM carries an address; the sender has no username.
MCMessage ==
  [m \in Messages |-> IF m = comment THEN Payload("comment", FALSE)
                      ELSE IF m = dm THEN Payload("message", TRUE)
                      ELSE Payload("storyReply", FALSE)]

Automation(trigger, ai, template, commentReply, fallback, intents) ==
  [trigger |-> trigger, account |-> a1, ai |-> ai, template |-> template,
   commentReply |-> commentReply, fallback |-> fallback, intents |-> intents]

\* On comments: a DM and a public reply; a public reply only; texts that are nothing
\* but a placeholder.  On DMs: an AI reply, gated on one intent, and two static ones.
\* On story replies: a static DM.
MCConfig ==
  [a \in Automations |->
     CASE a = cAuto -> Automation("comment", FALSE, "fixed", "fixed", FALSE, {})
       [] a = rAuto -> Automation("comment", FALSE, "none", "fixed", FALSE, {})
       [] a = nAuto -> Automation("comment", FALSE, "name", "name", FALSE, {})
       [] a = dAuto -> Automation("dm", TRUE, "none", "none", TRUE, {"buy"})
       [] a \in {tAuto, uAuto} -> Automation("dm", FALSE, "fixed", "none", FALSE, {})
       [] a = sAuto -> Automation("storyReply", FALSE, "fixed", "none", FALSE, {})]

MCHits == [m \in Messages |-> Automations]
================================================================================

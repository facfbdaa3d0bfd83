-------------------------------- MODULE WaClaims --------------------------------
(***************************************************************************)
(* Statements of the repository's own texts about the WhatsApp path that   *)
(* the code does not bear out.  Each is checked in a run of its own that   *)
(* is expected to find a counterexample.                                   *)
(***************************************************************************)
EXTENDS MCWhatsapp

\* stopKeywords.ts:6 "Re-engagement (a non-stop message later) creates a new opt-in
\* record", docs/specs/026-whatsapp-foundation.md:266 "the customer messaging again
\* with a non-opt-out keyword can clear it": a customer whose message is being matched
\* is not opted out.  upsertLeadOnInbound leaves an existing lead's opt-out alone.
WritingAgainOptsIn ==
  \A j \in JobIds : act[j].pc = "query" => ~leads[PhoneOf(j)].optedOut

\* processWhatsappMessageEvent.ts:319 "Reuse generate-ai-reply job - it produces text
\* content that sendWhatsapp will treat as the freeform body": an AI reply to a
\* WhatsApp message is given to sendWhatsapp.  generateAiReply knows send-dm only.
AiRepliesGoToSendWhatsapp ==
  \A j \in JobIds : jobs[j].data.send # 0 => jobs[j].data.type # "send-dm"

================================================================================

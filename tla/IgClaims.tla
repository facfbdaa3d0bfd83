------------------------------- MODULE IgClaims -------------------------------
(***************************************************************************)
(* Statements of the repository's own texts about the Instagram path that  *)
(* the code does not bear out.  Each is checked in a run of its own that   *)
(* is expected to find a counterexample.                                   *)
(***************************************************************************)
EXTENDS MCIgPipeline

\* sendDM.ts:8 and :169 "Throw a retryable error; BullMQ delays + retries": a send
\* that met the hourly cap, a 5xx or a 429 is tried again.
RetryableErrorsAreRetried ==
  \A j \in JobIds : (act[j].pc = "return" /\ act[j].out \in {"rateLimited", "retry"})
                      ~> jobs[j].state = "waiting"

\* docs/specs/008-ai-replies.md:66 "If flagged === true, we DO NOT send": output that
\* moderation has flagged is never queued for sending.  The catch clause of the
\* moderation call also catches what goes wrong while the fallback is queued.
FlaggedIsNotSent ==
  \A j \in JobIds : jobs[j].data.type = "send-dm" => jobs[j].data.text # "flagged"
================================================================================

------------------------------ MODULE AiBudget ------------------------------
(* The monthly budget for model calls of one workspace: the row of aiUsage   *)
(* that generateAiReply and classifyEventIntent read before a call and add   *)
(* to after it, and the summary the settings page and the dashboard show.    *)
(*                                                                           *)
(* Calls are the places of the worker where a call can be in progress.  The  *)
(* two handlers have the same code for the budget; a reply is also moderated *)
(* and has a text to fall back on.  OpenAI is external.                      *)
EXTENDS Integers, FiniteSets, FiniteSetsExt

CONSTANTS Calls,       \* model calls the worker may have in progress
          Cap,         \* the cap of the plan, in paise
          Usages,      \* <<prompt, completion>> token counts of an answer
          MaxMonth,    \* bound on the months that pass
          MaxBegun,    \* bound on the calls begun
          NoRow        \* the month has no row

ASSUME BudgetAssumption ==
  /\ Cap \in Nat \ {0} /\ MaxMonth \in Nat /\ MaxBegun \in Nat
  /\ NoRow \notin Nat
  /\ Usages \subseteq Nat \X Nat /\ Usages # {}
  /\ IsFiniteSet(Usages) /\ IsFiniteSet(Calls)

VARIABLES
  usage,     \* costInr of the aiUsage row of each month
  month,     \* the current month
  calls,     \* model calls in progress, and how the last of each place ended
  begun,     \* calls begun
  paid,      \* what OpenAI charged, in paise
  gaps       \* the ways in which a charge went unrecorded, of Gaps

budgetVars == <<usage, month, calls, begun, paid, gaps>>

Months == 0..MaxMonth

\* computeCostPaise: the dearer token price is four times the cheaper one,
\* and a fraction of a paisa is charged as one.
CostPaise(u) == (84 * (15 * u[1] + 60 * u[2]) + 999999) \div 1000000

Costs == {CostPaise(u) : u \in Usages}

Outcomes == {"none", "sent", "fallback", "failed", "capped", "classified",
             "unclassified"}

Call == [pc : {"idle", "create", "reread", "chat", "moderate", "record"},
         kind : {"reply", "classify"}, month : Months, cost : Nat,
         fallback : BOOLEAN, outcome : Outcomes]

\* An answer the adapter throws away or takes for free, a flagged reply, a month
\* that turns during a call, a worker that dies in one, a row never stored.
Gaps == {"discarded", "unmetered", "flagged", "rollover", "crash", "noRow"}

BudgetTypeOK ==
  /\ usage \in [Months -> Nat \cup {NoRow}]
  /\ month \in Months
  /\ calls \in [Calls -> Call]
  /\ begun \in 0..MaxBegun
  /\ paid \in Nat
  /\ gaps \subseteq Gaps

BudgetInit ==
  /\ usage = [m \in Months |-> NoRow]
  /\ month = 0
  /\ calls = [c \in Calls |-> [pc |-> "idle", kind |-> "reply", month |-> 0,
                               cost |-> 0, fallback |-> FALSE,
                               outcome |-> "none"]]
  /\ begun = 0 /\ paid = 0 /\ gaps = {}

-----------------------------------------------------------------------------
Ended(call, outcome) == [call EXCEPT !.pc = "idle", !.cost = 0, !.month = 0,
                                     !.outcome = outcome]

Ends(c, outcome) == calls' = [calls EXCEPT ![c] = Ended(@, outcome)]

\* A reply without a fallback text fails; a classification leaves the event
\* without an intent.
FallsBack(c) ==
  Ends(c, IF calls[c].kind = "classify" THEN "unclassified"
          ELSE IF calls[c].fallback THEN "fallback" ELSE "failed")

\* Mutant: a budget that is just used up lets a call pass.
GateLate(call, cost) ==
  IF cost > Cap
  THEN Ended(call, IF call.kind = "reply" THEN "capped" ELSE "unclassified")
  ELSE [call EXCEPT !.pc = "chat"]

\* The gate, on the cost that was read: at the cap a reply's send is marked
\* failed (aiCapExceeded), whatever the response has to fall back on.
Gate(call, cost) ==
  IF cost >= Cap
  THEN Ended(call, IF call.kind = "reply" THEN "capped" ELSE "unclassified")
  ELSE [call EXCEPT !.pc = "chat"]

\* loadOrCreateAiUsage looks for the row of the month it is.
Begin(c) ==
  /\ calls[c].pc = "idle" /\ begun < MaxBegun
  /\ begun' = begun + 1
  /\ \E kind \in {"reply", "classify"}, fallback \in BOOLEAN :
       /\ kind = "classify" => ~fallback
       /\ LET call == [pc |-> "create", kind |-> kind, month |-> month, cost |-> 0,
                       fallback |-> fallback, outcome |-> "none"]
          IN calls' = [calls EXCEPT ![c] =
               IF usage[month] = NoRow THEN call ELSE Gate(call, usage[month])]
  /\ UNCHANGED <<usage, month, paid, gaps>>

\* Mutant: an upsert, which sets a row that is there back to nothing.
CreateRowOver(c) ==
  /\ calls[c].pc = "create"
  /\ usage' = [usage EXCEPT ![calls[c].month] = 0]
  /\ calls' = [calls EXCEPT ![c] = Gate(@, 0)]
  /\ UNCHANGED <<month, begun, paid, gaps>>

\* The insert of a fresh row; UNIQUE (tenantId, month) refuses a second one,
\* and the database may fail.
CreateRow(c) ==
  LET m == calls[c].month IN
  /\ calls[c].pc = "create"
  /\ \/ /\ usage[m] = NoRow
        /\ usage' = [usage EXCEPT ![m] = 0]
        /\ calls' = [calls EXCEPT ![c] = Gate(@, 0)]
     \/ /\ calls' = [calls EXCEPT ![c].pc = "reread"]
        /\ usage' = usage
  /\ UNCHANGED <<month, begun, paid, gaps>>

\* After a refused insert the row is read again; when it is not there either,
\* the call goes on with the row that was never stored.
RereadRow(c) ==
  LET row == usage[calls[c].month] IN
  /\ calls[c].pc = "reread"
  /\ calls' = [calls EXCEPT ![c] = Gate(@, IF row = NoRow THEN 0 ELSE row)]
  /\ UNCHANGED <<usage, month, begun, paid, gaps>>

Lost(cost, gap) == gaps' = IF cost > 0 THEN gaps \cup {gap} ELSE gaps

\* The model answers, and the tokens of an answer that names none count as 0; or
\* the adapter throws: an error or ten seconds of silence, which may be charged
\* all the same, and an empty text or one that is not JSON, which are.
Chat(c) ==
  /\ calls[c].pc = "chat"
  /\ \E charge \in Costs \cup {0} :
       /\ paid' = paid + charge
       /\ \/ \E told \in {charge, 0} :
               /\ calls' = [calls EXCEPT ![c].cost = told,
                    ![c].pc = IF calls[c].kind = "reply" THEN "moderate" ELSE "record"]
               /\ Lost(charge - told, "unmetered")
          \/ FallsBack(c) /\ Lost(charge, "discarded")
  /\ UNCHANGED <<usage, month, begun>>

\* A flagged text is replaced by the fallback and the call is not recorded; a
\* failed moderation lets the text pass.
Moderate(c) ==
  /\ calls[c].pc = "moderate"
  /\ \/ /\ calls' = [calls EXCEPT ![c].pc = "record"]
        /\ gaps' = gaps
     \/ FallsBack(c) /\ Lost(calls[c].cost, "flagged")
  /\ UNCHANGED <<usage, month, begun, paid>>

\* incrementAiUsage adds to the row of the month it is by then, and to
\* nothing when that month has no row yet.
Record(c) ==
  /\ calls[c].pc = "record"
  /\ IF usage[month] # NoRow
     THEN usage' = [usage EXCEPT ![month] = @ + calls[c].cost] /\ gaps' = gaps
     ELSE /\ usage' = usage
          /\ gaps' = gaps \cup {IF month = calls[c].month THEN "noRow"
                                ELSE "rollover"}
  /\ Ends(c, IF calls[c].kind = "reply" THEN "sent" ELSE "classified")
  /\ UNCHANGED <<month, begun, paid>>

\* The worker dies, or the database fails; the job may be begun again, and pay
\* again.  A model that was asked charges for the answer nobody takes.
Die(c) ==
  /\ calls[c].pc # "idle"
  /\ \E charge \in Costs \cup {0} :
       /\ calls[c].pc # "chat" => charge = 0
       /\ paid' = paid + charge
       /\ Lost(calls[c].cost + charge, "crash")
  /\ Ends(c, "none")
  /\ UNCHANGED <<usage, month, begun>>

MonthTurns ==
  /\ month < MaxMonth /\ month' = month + 1
  /\ UNCHANGED <<usage, calls, begun, paid, gaps>>

BudgetNext ==
  \/ \E c \in Calls : \/ Begin(c) \/ CreateRow(c) \/ RereadRow(c) \/ Chat(c)
                      \/ Moderate(c) \/ Record(c) \/ Die(c)
  \/ MonthTurns

BudgetSpec == BudgetInit /\ [][BudgetNext]_budgetVars

-----------------------------------------------------------------------------
(* The summary of getAiUsageSummary: the current month and the months before *)
(* it, with an empty row for a month that has none.                          *)

SpentIn(m) == IF usage[m] = NoRow THEN 0 ELSE usage[m]

\* pctOf: rounded to the nearest, halves up, and at most 999.
PctOf(used, cap) ==
  IF cap = 0 THEN 0 ELSE Min({999, (200 * used + cap) \div (2 * cap)})

\* The red card of the dashboard and the red bar of the settings page.
CardSaysOver(used, cap) == PctOf(used, cap) >= 100

-----------------------------------------------------------------------------
(* Properties.                                                               *)

Recorded == MapThenSumSet(SpentIn, Months)

InFlight(c) == calls[c].cost

\* The rows and the calls in progress never hold a paisa that OpenAI did not
\* charge, however calls race for the first row of a month, fail and are begun
\* again; and they hold every paisa it charged until one of the six things of
\* Gaps happens.
ChargesAreRecorded ==
  LET held == Recorded + MapThenSumSet(InFlight, Calls) IN
  /\ held <= paid
  /\ gaps = {} => held = paid

\* The gate is read before the call and the cost is added after it, so the
\* cap can be passed, but only by what the calls in progress can cost.
OvershootIsBounded ==
  \A m \in Months : SpentIn(m) < Cap + Cardinality(Calls) * Max(Costs)

\* The dashboard never shows a month as open when the gate refuses calls in
\* it, and shows it as used up at most half a percent too early: the card rounds
\* a percentage where the gate compares paise.
CardMatchesGate ==
  \A m \in Months :
    /\ SpentIn(m) >= Cap => CardSaysOver(SpentIn(m), Cap)
    /\ CardSaysOver(SpentIn(m), Cap) => 200 * (Cap - SpentIn(m)) <= Cap

\* What the tenant is shown is what was spent and what the gate goes by: the
\* charges reach the row of aiUsage, and the card reads the row as the gate does.
CardIsTrue == ChargesAreRecorded /\ CardMatchesGate

=============================================================================

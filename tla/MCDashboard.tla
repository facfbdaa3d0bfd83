---------------------------- MODULE MCDashboard ----------------------------
(* The parts of the dashboard and of the worker that share no row with one   *)
(* another, in one run: a behaviour picks a part and moves that part alone,  *)
(* so their state spaces add up and do not multiply.                         *)
EXTENDS AiBudget, SlidingWindow, LeadPages, LeadTags, AutomationForm,
        AutomationRows, TestFire, WhatsappSetup

VARIABLE part   \* the part that moves in this behaviour

Parts == {"budget", "window", "pages", "tags", "form", "rows", "modal", "setup"}

-----------------------------------------------------------------------------
(* The values of the constants.                                              *)

\* Answers that cost 201 paise, which is 99.5 percent of the cap of 202 and which
\* the card rounds up to all of it, and 202.
MCUsages == {<<159000, 0>>, <<160000, 0>>}

\* An API client sends nothing, or a long text, a blank, and another text.
MCApiLists ==
  LET long == [word |-> "b", form |-> "long"] IN
  {<<>>, <<long, Blank, [word |-> "a", form |-> "plain"], long>>}

MCPostOwner == [p \in Posts |-> IF p = "p1" THEN "ig1" ELSE "ig2"]

MCTplOwner == [t \in {"t1", "t2"} |-> IF t = "t1" THEN "wa1" ELSE "wa2"]

\* Someone picks posts; someone submits again and again; an API client submits
\* while accounts and templates come and go.
MCFormScenarios == {{"picks"}, {"submits"}, {"api", "world"}}

\* One automation, of either channel.
MCChannels ==
  {[a \in AutoIds |-> IF a = 1 THEN c ELSE "none"] : c \in {"ig", "wa"}}

\* People connect numbers; someone makes templates for a number.
MCSetupScenarios == {{"connects"}, {"templates"}}

-----------------------------------------------------------------------------
MCInit ==
  /\ part \in Parts
  /\ BudgetInit /\ WindowInit /\ PagesInit /\ TagsInit /\ FormInit /\ RowsInit
  /\ ModalInit /\ SetupInit
  /\ part # "pages" => listing = "leads" /\ Rows = {}
  /\ part # "form" => formEnv = {"picks"}
  /\ part # "rows" => autos[1].channel = "ig"
  /\ part # "setup" => setupEnv = {"connects"}

MCNext ==
  /\ part' = part
  /\ \/ /\ part = "budget" /\ BudgetNext
        /\ UNCHANGED <<windowVars, pagesVars, tagsVars, formVars, rowsVars, modal, setupVars>>
     \/ /\ part = "window" /\ WindowNext
        /\ UNCHANGED <<budgetVars, pagesVars, tagsVars, formVars, rowsVars, modal, setupVars>>
     \/ /\ part = "pages" /\ PagesNext
        /\ UNCHANGED <<budgetVars, windowVars, tagsVars, formVars, rowsVars, modal, setupVars>>
     \/ /\ part = "tags" /\ TagsNext
        /\ UNCHANGED <<budgetVars, windowVars, pagesVars, formVars, rowsVars, modal, setupVars>>
     \/ /\ part = "form" /\ FormNext
        /\ UNCHANGED <<budgetVars, windowVars, pagesVars, tagsVars, rowsVars, modal, setupVars>>
     \/ /\ part = "rows" /\ RowsNext
        /\ UNCHANGED <<budgetVars, windowVars, pagesVars, tagsVars, formVars, modal, setupVars>>
     \/ /\ part = "modal" /\ ModalNext
        /\ UNCHANGED <<budgetVars, windowVars, pagesVars, tagsVars, formVars, rowsVars,
                      setupVars>>
     \/ /\ part = "setup" /\ SetupNext
        /\ UNCHANGED <<budgetVars, windowVars, pagesVars, tagsVars, formVars, rowsVars,
                      modal>>

MCVars == <<part, budgetVars, windowVars, pagesVars, tagsVars, formVars, rowsVars,
            modal, setupVars>>

MCSpec == MCInit /\ [][MCNext]_MCVars

-----------------------------------------------------------------------------
\* Every table, request and page of the dashboard has its type: every row has
\* values of its columns, every request is at a place of its handler, and the
\* tags of a lead are clean.
DashboardTypeOK ==
  /\ part \in Parts
  /\ BudgetTypeOK /\ WindowTypeOK /\ PagesTypeOK /\ TagsTypeOK
  /\ TagsAreClean /\ FormTypeOK /\ RowsTypeOK /\ ModalTypeOK /\ SetupTypeOK

=============================================================================

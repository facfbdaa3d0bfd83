--------------------------- MODULE AutomationForm ---------------------------
(* The form that makes an automation: its fields, the picker of Instagram    *)
(* posts inside it, and POST /automations.                                   *)
(*                                                                           *)
(* The browser fetches pages of posts and submits the form while people go   *)
(* on clicking; the server checks the body against the accounts and message  *)
(* templates of the workspace, one read at a time, and then inserts the      *)
(* automation, its trigger and its response in one transaction.              *)
EXTENDS Integers, FiniteSets, Sequences

CONSTANTS IgIds,        \* Instagram accounts of the workspace
          WaIds,        \* WhatsApp accounts of the workspace
          Posts,        \* posts and reels
          PostOwner,    \* the account of each post
          TplOwner,     \* the WhatsApp account of each message template
          MaxLoads,     \* bound on the times the page is loaded
          MaxMade,      \* bound on the automations made
          FormScenarios,  \* what people do, one set per family of behaviours
          NoAccount, NoTpl, NoLoad

ASSUME FormAssumption ==
  /\ PostOwner \in [Posts -> IgIds]
  /\ \A t \in DOMAIN TplOwner : TplOwner[t] \in WaIds
  /\ NoAccount \notin IgIds \cup WaIds /\ NoTpl \notin DOMAIN TplOwner
  /\ NoLoad \notin IgIds
  /\ IgIds # {} /\ WaIds # {}
  /\ MaxLoads \in Nat \ {0} /\ MaxMade \in Nat

VARIABLES
  form,       \* the fields and the guard of the submit button
  picker,     \* the picker of posts
  post,       \* the POST request in progress
  live,       \* accounts that are connected
  approved,   \* message templates Meta has approved
  made,       \* automations made, in order
  mishaps,    \* what went wrong since the page was loaded
  formEnv     \* what people do in this behaviour

formVars == <<form, picker, post, live, approved, made, mishaps, formEnv>>

Tpls == DOMAIN TplOwner

Triggers == {"comment", "dm", "whatsappMessage"}

Form == [load : 1..MaxLoads, offered : SUBSET Tpls, trigger : Triggers,
         ig : IgIds, wa : WaIds, tpl : Tpls \cup {NoTpl},
         postIds : SUBSET Posts, template : BOOLEAN, commentReply : BOOLEAN,
         keywords : BOOLEAN, submitting : BOOLEAN, left : BOOLEAN]

Picker == [open : BOOLEAN, items : SUBSET Posts,
           loading : IgIds \cup {NoLoad}, replace : BOOLEAN]

Body == [load : 0..MaxLoads, trigger : Triggers,
         account : IgIds \cup WaIds \cup {NoAccount}, tpl : Tpls \cup {NoTpl},
         postIds : SUBSET Posts, keywords : BOOLEAN]

Post == [pc : {"idle", "account", "template", "insert", "created", "refused"},
         body : Body]

FormTypeOK ==
  /\ form \in Form /\ picker \in Picker /\ post \in Post
  /\ live \subseteq IgIds \cup WaIds
  /\ approved \subseteq Tpls
  /\ \A i \in DOMAIN made : made[i] \in Body
  /\ formEnv \in FormScenarios
  /\ mishaps \subseteq {"raced", "loadFailed", "strayPost", "broken", "timeout"}

\* The page is rendered with the accounts and approved templates of the moment.
Fresh(n, offered) ==
  [load |-> n, offered |-> offered, trigger |-> "comment",
   ig |-> CHOOSE a \in IgIds : TRUE, wa |-> CHOOSE a \in WaIds : TRUE,
   tpl |-> NoTpl, postIds |-> {}, template |-> FALSE, commentReply |-> FALSE,
   keywords |-> FALSE, submitting |-> FALSE, left |-> FALSE]

Shut == [open |-> FALSE, items |-> {}, loading |-> NoLoad, replace |-> TRUE]

Quiet == [pc |-> "idle",
          body |-> [load |-> 0, trigger |-> "comment", account |-> NoAccount,
                    tpl |-> NoTpl, postIds |-> {}, keywords |-> FALSE]]

FormInit ==
  /\ form = Fresh(1, Tpls) /\ picker = Shut /\ post = Quiet
  /\ live = IgIds \cup WaIds
  /\ approved = Tpls
  /\ made = <<>> /\ mishaps = {}
  /\ formEnv \in FormScenarios

-----------------------------------------------------------------------------
(* The fields.                                                               *)

\* Somebody is at the form: they pick posts, or fill it in and submit it.
AtTheForm == formEnv \cap {"picks", "submits"} # {}

\* The page is opened again; a request that was sent goes on.
LoadPage ==
  /\ "submits" \in formEnv
  /\ form.load < MaxLoads
  /\ form' = Fresh(form.load + 1, approved)
  /\ picker' = Shut /\ mishaps' = {}
  /\ UNCHANGED <<post, live, approved, made, formEnv>>

\* Another trigger takes the picker away, with what it was loading.
SetTrigger ==
  /\ AtTheForm
  /\ ~picker.open /\ ~form.left
  /\ \E t \in Triggers \ {form.trigger} : form' = [form EXCEPT !.trigger = t]
  /\ picker' = Shut
  /\ UNCHANGED <<post, live, approved, made, mishaps, formEnv>>

\* Mutant: the posts that were picked stay.
SetIgAccountKeeps ==
  /\ AtTheForm
  /\ form.trigger # "whatsappMessage" /\ ~picker.open /\ ~form.left
  /\ \E a \in IgIds \ {form.ig} : form' = [form EXCEPT !.ig = a]
  /\ UNCHANGED <<picker, post, live, approved, made, mishaps, formEnv>>

\* Another Instagram account clears the posts that were picked.
SetIgAccount ==
  /\ AtTheForm
  /\ form.trigger # "whatsappMessage" /\ ~picker.open /\ ~form.left
  /\ \E a \in IgIds \ {form.ig} :
       form' = [form EXCEPT !.ig = a, !.postIds = {}]
  /\ UNCHANGED <<picker, post, live, approved, made, mishaps, formEnv>>

\* Another WhatsApp account clears the message template.
SetWaAccount ==
  /\ AtTheForm
  /\ form.trigger = "whatsappMessage" /\ ~form.left
  /\ \E a \in WaIds \ {form.wa} : form' = [form EXCEPT !.wa = a, !.tpl = NoTpl]
  /\ UNCHANGED <<picker, post, live, approved, made, mishaps, formEnv>>

SetTemplate ==
  /\ AtTheForm
  /\ form.trigger = "whatsappMessage" /\ ~form.left
  /\ \E t \in {u \in form.offered : TplOwner[u] = form.wa} \cup {NoTpl} :
       form' = [form EXCEPT !.tpl = t]
  /\ UNCHANGED <<picker, post, live, approved, made, mishaps, formEnv>>

\* The texts, as blank or not; the box for any message empties the keywords.
Type ==
  /\ "submits" \in formEnv
  /\ ~picker.open /\ ~form.left
  /\ form' \in {[form EXCEPT !.template = ~@], [form EXCEPT !.commentReply = ~@],
                [form EXCEPT !.keywords = ~@]}
  /\ UNCHANGED <<picker, post, live, approved, made, mishaps, formEnv>>

-----------------------------------------------------------------------------
(* The picker.                                                               *)

\* Opening the modal fetches the first page, unless a fetch is in progress.
OpenPicker ==
  /\ "picks" \in formEnv
  /\ form.trigger = "comment" /\ ~picker.open /\ ~form.left
  /\ picker' = IF picker.loading # NoLoad THEN [picker EXCEPT !.open = TRUE]
               ELSE [picker EXCEPT !.open = TRUE, !.loading = form.ig,
                                   !.replace = TRUE]
  /\ UNCHANGED <<form, post, live, approved, made, mishaps, formEnv>>

LoadMore ==
  /\ picker.open /\ picker.loading = NoLoad /\ picker.items # {}
  /\ picker' = [picker EXCEPT !.loading = form.ig, !.replace = FALSE]
  /\ UNCHANGED <<form, post, live, approved, made, mishaps, formEnv>>

ClosePicker ==
  /\ picker.open /\ picker' = [picker EXCEPT !.open = FALSE]
  /\ UNCHANGED <<form, post, live, approved, made, mishaps, formEnv>>

PostsOf(a) == {p \in Posts : PostOwner[p] = a}

\* GET /igAccounts/[id]/media answers with a page of the account's posts.
MediaArrives ==
  /\ picker.loading # NoLoad /\ picker.loading \in live
  /\ \E page \in SUBSET PostsOf(picker.loading) :
       picker' = [picker EXCEPT !.loading = NoLoad,
                    !.items = IF picker.replace THEN page ELSE @ \cup page]
  /\ mishaps' = IF picker.loading # form.ig THEN mishaps \cup {"raced"}
                ELSE IF picker.replace THEN mishaps \ {"raced", "loadFailed"}
                ELSE mishaps
  /\ UNCHANGED <<form, post, live, approved, made, formEnv>>

\* 404, 409, 502 or no answer: the posts shown before stay.
MediaFails ==
  /\ picker.loading # NoLoad
  /\ picker' = [picker EXCEPT !.loading = NoLoad]
  /\ mishaps' = mishaps \cup {"loadFailed"}
  /\ UNCHANGED <<form, post, live, approved, made, formEnv>>

\* A click on a post that is shown, or on "Clear".
Pick ==
  /\ \/ \E p \in picker.items :
          /\ picker.open
          /\ form' = [form EXCEPT !.postIds = IF p \in @ THEN @ \ {p} ELSE @ \cup {p}]
          /\ mishaps' = IF PostOwner[p] # form.ig THEN mishaps \cup {"strayPost"}
                        ELSE mishaps
     \/ /\ form.trigger = "comment" /\ form.postIds # {} /\ ~form.left
        /\ form' = [form EXCEPT !.postIds = {}] /\ mishaps' = mishaps
  /\ UNCHANGED <<picker, post, live, approved, made, formEnv>>

-----------------------------------------------------------------------------
(* Submitting.                                                               *)

\* What the form asks for before it sends anything.
Complete ==
  CASE form.trigger = "comment" -> form.template \/ form.commentReply
    [] form.trigger = "dm" -> TRUE
    [] form.trigger = "whatsappMessage" -> form.template \/ form.tpl # NoTpl

OnSubmit ==
  /\ "submits" \in formEnv
  /\ ~picker.open /\ ~form.submitting /\ Complete /\ post.pc = "idle"
  /\ Len(made) < MaxMade
  /\ form' = [form EXCEPT !.submitting = TRUE]
  /\ post' = [pc |-> "account",
       body |-> [load |-> form.load, trigger |-> form.trigger,
                 account |-> IF form.trigger = "whatsappMessage" THEN form.wa
                             ELSE form.ig,
                 tpl |-> IF form.trigger = "whatsappMessage" THEN form.tpl
                         ELSE NoTpl,
                 postIds |-> IF form.trigger = "comment" THEN form.postIds
                             ELSE {},
                 keywords |-> form.keywords]]
  /\ UNCHANGED <<picker, live, approved, made, mishaps, formEnv>>

\* A client of the API sends a body of its own: any account and template, and
\* an account that does not fit the trigger is refused with 400 at once.
ApiPost ==
  /\ "api" \in formEnv
  /\ post.pc = "idle" /\ Len(made) < MaxMade
  /\ \E t \in {"dm", "whatsappMessage"}, a \in IgIds \cup WaIds,
        tpl \in Tpls \cup {NoTpl} :
       /\ (t = "whatsappMessage") = (a \in WaIds)
       /\ t = "dm" => tpl = NoTpl
       /\ post' = [pc |-> "account",
            body |-> [load |-> 0, trigger |-> t, account |-> a, tpl |-> tpl,
                      postIds |-> {}, keywords |-> TRUE]]
  /\ UNCHANGED <<form, picker, live, approved, made, mishaps, formEnv>>

\* The account is this workspace's, and a WhatsApp account is connected.
CheckAccount ==
  /\ post.pc = "account"
  /\ post' = [post EXCEPT !.pc =
       IF post.body.account \notin live THEN "refused"
       ELSE IF post.body.trigger = "whatsappMessage" /\ post.body.tpl # NoTpl
            THEN "template" ELSE "insert"]
  /\ UNCHANGED <<form, picker, live, approved, made, mishaps, formEnv>>

CheckTemplate ==
  /\ post.pc = "template"
  /\ post' = [post EXCEPT !.pc =
       IF TplOwner[post.body.tpl] = post.body.account /\ post.body.tpl \in approved
       THEN "insert" ELSE "refused"]
  /\ UNCHANGED <<form, picker, live, approved, made, mishaps, formEnv>>

\* The three inserts, or none: the schema refuses an empty list of keywords,
\* and the foreign key an Instagram account whose row is gone.
InsertRows ==
  /\ post.pc = "insert"
  /\ \/ /\ post.body.keywords
        /\ post.body.account \in IgIds => post.body.account \in live
        /\ made' = Append(made, post.body)
        /\ post' = [post EXCEPT !.pc = "created"]
     \/ /\ made' = made /\ post' = [post EXCEPT !.pc = "refused"]
  /\ UNCHANGED <<form, picker, live, approved, mishaps, formEnv>>

Mine == post.body.load = form.load

\* 201 leaves the page; any other answer frees the button again.
PostAnswered ==
  /\ post.pc \in {"created", "refused"} /\ post' = Quiet
  /\ form' = IF ~Mine THEN form
             ELSE IF post.pc = "created" THEN [form EXCEPT !.left = TRUE]
             ELSE [form EXCEPT !.submitting = FALSE]
  /\ UNCHANGED <<picker, live, approved, made, mishaps, formEnv>>

\* The gateway gives up on a request that was served all the same.
TimesOut ==
  /\ post.pc \in {"created", "refused"} /\ Mine /\ post' = Quiet
  /\ form' = [form EXCEPT !.submitting = FALSE]
  /\ mishaps' = mishaps \cup {"timeout"}
  /\ UNCHANGED <<picker, live, approved, made, formEnv>>

\* Mutant: a broken connection frees the button.
PostBreaksFrees ==
  /\ post.pc # "idle" /\ post' = Quiet
  /\ form' = IF Mine THEN [form EXCEPT !.submitting = FALSE] ELSE form
  /\ mishaps' = IF Mine THEN mishaps \cup {"broken"} ELSE mishaps
  /\ UNCHANGED <<picker, live, approved, made, formEnv>>

\* No answer at all: fetch throws, and the button stays as it is.
PostBreaks ==
  /\ post.pc # "idle" /\ post' = Quiet
  /\ form' = form
  /\ mishaps' = IF Mine THEN mishaps \cup {"broken"} ELSE mishaps
  /\ UNCHANGED <<picker, live, approved, made, formEnv>>

-----------------------------------------------------------------------------
\* Elsewhere an account is disconnected, or Meta's verdict on a template changes.
World ==
  /\ "world" \in formEnv
  /\ \/ \E a \in live : live' = live \ {a} /\ approved' = approved
     \/ \E t \in Tpls : /\ live' = live
                        /\ approved' \in {approved \ {t}, approved \cup {t}}
  /\ UNCHANGED <<form, picker, post, made, mishaps, formEnv>>

FormNext ==
  \/ LoadPage \/ SetTrigger \/ SetIgAccount \/ SetWaAccount \/ SetTemplate \/ Type
  \/ OpenPicker \/ LoadMore \/ ClosePicker \/ MediaArrives \/ MediaFails \/ Pick
  \/ OnSubmit \/ ApiPost \/ CheckAccount \/ CheckTemplate \/ InsertRows
  \/ PostAnswered \/ TimesOut \/ PostBreaks \/ World

FormSpec == FormInit /\ [][FormNext]_formVars

-----------------------------------------------------------------------------
(* Properties.                                                               *)

\* The posts an automation is to be restricted to are posts of its account:
\* the server never looks, so it rests on the form, whose account, picker and
\* selection change apart.  The exception is a click on a post of another
\* account that the picker still showed.
PostsBelong ==
  "strayPost" \in mishaps \/ form.postIds \subseteq PostsOf(form.ig)

\* An open picker that is not loading shows posts of the chosen account, unless
\* a fetch failed, or one begun for another account was still in progress when
\* the account was changed and the picker opened again.
PickerShowsAccount ==
  picker.open /\ picker.loading = NoLoad /\ mishaps \cap {"raced", "loadFailed"} = {}
    => picker.items \subseteq PostsOf(form.ig)

\* One opening of the form makes one automation, however often its button is
\* pressed and whatever is refused between, unless a gateway timed out on a
\* request that was served; and only a broken connection leaves a button that
\* does nothing.
OneSubmitOneAutomation ==
  /\ \A i, j \in DOMAIN made :
       made[i].load = made[j].load /\ made[i].load # 0 /\ i # j
         => made[i].load # form.load \/ "timeout" \in mishaps
  /\ form.submitting /\ ~form.left
       => (post.pc # "idle" /\ Mine) \/ "broken" \in mishaps

\* Every message template of an automation is one of its own WhatsApp account,
\* whoever sent the body.
TemplateFits ==
  \A i \in DOMAIN made :
    made[i].trigger = "whatsappMessage" /\ made[i].tpl # NoTpl
      => TplOwner[made[i].tpl] = made[i].account

\* Whatever the form lets people choose belongs to the account it is chosen for:
\* the posts of the picker and of the automation, which only the browser keeps
\* together, and the message template, which createAutomation compares as well.
ChoicesBelong == PickerShowsAccount /\ PostsBelong /\ TemplateFits

=============================================================================

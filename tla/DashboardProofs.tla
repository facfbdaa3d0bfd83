--------------------------- MODULE DashboardProofs ---------------------------
(* What the parts of the dashboard promise, for every number of accounts,    *)
(* posts, automations, requests and tries.                                   *)
(*                                                                           *)
(* Each section has the inductive invariant of one part.  The promises are   *)
(* about the moments when nobody else is in between, so the invariants say   *)
(* what every place in between has done and not yet done.                    *)
EXTENDS MCDashboard, LimitProofs

(***************************************************************************)
(* The modal that tries an automation out.                                 *)
(***************************************************************************)

\* The answer that is awaited belongs to this opening, or is known to be late;
\* and a closed modal keeps no result but a late one.
ModalInv ==
  /\ ModalTypeOK
  /\ modal.asking # 0 => modal.asking = modal.fires
  /\ modal.opened <= modal.fires
  /\ modal.open /\ modal.asking # 0 => modal.asking > modal.opened \/ modal.late
  /\ ~modal.open /\ (modal.asking # 0 \/ modal.result # 0) => modal.late
  /\ ResultIsOfThisOpening

LEMMA ModalStep ==
  ASSUME ModalInv, [ModalNext]_modal
  PROVE  ModalInv'
<1> USE FiresAssumption
<1> USE DEF ModalInv, ModalTypeOK, ResultIsOfThisOpening
<1>0. /\ modal.open \in BOOLEAN /\ modal.late \in BOOLEAN
      /\ modal.fires \in 0..MaxFires /\ modal.asking \in 0..MaxFires
      /\ modal.result \in 0..MaxFires /\ modal.opened \in 0..MaxFires
  BY DEF Modal
<1>1. CASE OpenModal
  <2>1. modal' = [open |-> TRUE, fires |-> modal.fires, asking |-> modal.asking,
                  result |-> modal.result, opened |-> modal.fires, late |-> modal.late]
    BY <1>1 DEF OpenModal, Modal
  <2>2. TRUE \in BOOLEAN /\ modal.fires \in 0..MaxFires /\ modal.asking \in 0..MaxFires
        /\ modal.result \in 0..MaxFires /\ modal.fires \in 0..MaxFires /\ modal.late \in BOOLEAN
    BY <1>0, <1>1 DEF OpenModal
  <2>3. modal' \in Modal
    BY <2>1, <2>2, Zenon DEF Modal
  <2> QED
    BY <1>0, <1>1, <2>1, <2>2, <2>3 DEF OpenModal
<1>2. CASE CloseModal
  <2>1. modal' = [open |-> FALSE, fires |-> modal.fires, asking |-> modal.asking,
                  result |-> 0, opened |-> modal.opened, late |-> (modal.asking # 0)]
    BY <1>2 DEF CloseModal, Modal
  <2>2. FALSE \in BOOLEAN /\ modal.fires \in 0..MaxFires /\ modal.asking \in 0..MaxFires
        /\ 0 \in 0..MaxFires /\ modal.opened \in 0..MaxFires /\ (modal.asking # 0) \in BOOLEAN
    BY <1>0, <1>2 DEF CloseModal
  <2>3. modal' \in Modal
    BY <2>1, <2>2, Zenon DEF Modal
  <2> QED
    BY <1>0, <1>2, <2>1, <2>2, <2>3 DEF CloseModal
<1>3. CASE HandleFire
  <2>1. modal' = [open |-> modal.open, fires |-> modal.fires + 1, asking |-> modal.fires + 1,
                  result |-> 0, opened |-> modal.opened, late |-> FALSE]
    BY <1>3 DEF HandleFire, Modal
  <2>2. modal.open \in BOOLEAN /\ modal.fires + 1 \in 0..MaxFires /\ modal.fires + 1 \in 0..MaxFires
        /\ 0 \in 0..MaxFires /\ modal.opened \in 0..MaxFires /\ FALSE \in BOOLEAN
    BY <1>0, <1>3 DEF HandleFire
  <2>3. modal' \in Modal
    BY <2>1, <2>2, Zenon DEF Modal
  <2> QED
    BY <1>0, <1>3, <2>1, <2>2, <2>3 DEF HandleFire
<1>4. ASSUME FireAnswered, NEW r \in {modal.asking, modal.result},
             modal' = [modal EXCEPT !.asking = 0, !.result = r]
      PROVE  ModalInv'
  <2>1. modal' = [open |-> modal.open, fires |-> modal.fires, asking |-> 0,
                  result |-> r, opened |-> modal.opened, late |-> modal.late]
    BY <1>4 DEF FireAnswered, Modal
  <2>2. modal.open \in BOOLEAN /\ modal.fires \in 0..MaxFires /\ 0 \in 0..MaxFires
        /\ r \in 0..MaxFires /\ modal.opened \in 0..MaxFires /\ modal.late \in BOOLEAN
    BY <1>0, <1>4 DEF FireAnswered
  <2>3. modal' \in Modal
    BY <2>1, <2>2, Zenon DEF Modal
  <2> QED
    BY <1>0, <1>4, <2>1, <2>2, <2>3 DEF FireAnswered
<1>5. CASE FireAnswered
  <2>1. PICK r \in {modal.asking, modal.result} :
          modal' = [modal EXCEPT !.asking = 0, !.result = r]
    BY <1>5 DEF FireAnswered, Modal
  <2> QED
    BY <1>4, <1>5, <2>1
<1>6. CASE UNCHANGED modal
  BY <1>6
<1> QED
  BY <1>1, <1>2, <1>3, <1>5, <1>6 DEF ModalNext

\* The result that the modal shows answers a try made since it was opened,
\* unless it was closed while it waited for the answer (TestFireModal).
THEOREM ResultsBelongToTheirOpening ==
  ModalSpec => []ResultIsOfThisOpening
<1>1. ModalInit => ModalInv
  BY FiresAssumption
     DEF ModalInit, ModalInv, ModalTypeOK, Modal, ResultIsOfThisOpening
<1>2. ModalInv /\ [ModalNext]_modal => ModalInv'
  BY ModalStep
<1>3. ModalInv => ResultIsOfThisOpening
  BY DEF ModalInv
<1> QED
  BY <1>1, <1>2, <1>3, PTL DEF ModalSpec


(***************************************************************************)
(* The form that makes an automation.                                      *)
(***************************************************************************)

FormTypes == FormTypeOK /\ made \in Seq(Body)

NothingWentWrong == mishaps \cap {"raced", "loadFailed"} = {}

\* "Load more" adds to posts of the account it loads from, which need not be
\* the account of the form any more.
MoreInv ==
  picker.loading # NoLoad /\ ~picker.replace /\ NothingWentWrong
    => picker.items \subseteq PostsOf(picker.loading)

PickerInv == PostsBelong /\ PickerShowsAccount /\ MoreInv

\* What the server has checked by the time it inserts the rows.
CheckedInv ==
  post.pc = "insert" /\ post.body.trigger = "whatsappMessage"
    /\ post.body.tpl # NoTpl
  => TplOwner[post.body.tpl] = post.body.account

TemplateInv == CheckedInv /\ TemplateFits

\* No automation, and no request, comes from a page that is not loaded yet.
LoadInv ==
  /\ post.body.load <= form.load
  /\ \A i \in DOMAIN made : made[i].load <= form.load

\* A page that waits keeps its button shut, and so does one whose automation
\* has been made, answered or not, unless a gateway gave up.
OnceInv ==
  /\ post.pc # "idle" /\ Mine => form.submitting
  /\ "timeout" \notin mishaps /\ (\E i \in DOMAIN made : made[i].load = form.load)
       => /\ form.submitting
          /\ post.pc # "idle" /\ Mine => post.pc = "created"

SubmitInv == LoadInv /\ OnceInv /\ OneSubmitOneAutomation

FormInv == FormTypes /\ PickerInv /\ TemplateInv /\ SubmitInv

LEMMA FormStarts == FormInit => FormInv
<1> SUFFICES ASSUME FormInit PROVE FormInv
  OBVIOUS
<1>1. (CHOOSE a \in IgIds : TRUE) \in IgIds /\ (CHOOSE a \in WaIds : TRUE) \in WaIds
  BY FormAssumption
<1>2. FormTypes
  BY <1>1, FormAssumption
     DEF FormInit, FormTypes, FormTypeOK, Fresh, Shut, Quiet, Form, Picker, Post, Body,
         Triggers, Tpls
<1>3. PickerInv
  BY DEF FormInit, PickerInv, PostsBelong, PickerShowsAccount, MoreInv, Fresh, Shut
<1>4. TemplateInv /\ SubmitInv
  BY
     DEF FormInit, TemplateInv, CheckedInv, TemplateFits, SubmitInv, LoadInv,
         OnceInv,
         OneSubmitOneAutomation, Mine, Fresh, Quiet
<1> QED
  BY <1>2, <1>3, <1>4 DEF FormInv

LEMMA FormTypesStep ==
  ASSUME FormTypes, [FormNext]_formVars
  PROVE  FormTypes'
<1> USE FormAssumption
<1> USE DEF FormTypes, FormTypeOK
<1>0. (CHOOSE a \in IgIds : TRUE) \in IgIds /\ (CHOOSE a \in WaIds : TRUE) \in WaIds
  OBVIOUS
<1>1. CASE LoadPage
  BY <1>0, <1>1 DEF LoadPage, Fresh, Shut, Form, Picker, Triggers
<1>2. CASE SetTrigger
  BY <1>2 DEF SetTrigger, Shut, Form, Picker
<1>3. CASE SetIgAccount
  BY <1>3, ZenonT(60) DEF SetIgAccount, Form
<1>4. CASE SetWaAccount
  BY <1>4, ZenonT(60) DEF SetWaAccount, Form
<1>5. CASE SetTemplate
  BY <1>5 DEF SetTemplate, Form
<1>6. CASE Type
  BY <1>6, ZenonT(60) DEF Type, Form
<1>7. CASE OpenPicker
  BY <1>7 DEF OpenPicker, Picker, Form
<1>8. CASE LoadMore
  BY <1>8 DEF LoadMore, Picker, Form
<1>9. CASE ClosePicker
  BY <1>9 DEF ClosePicker, Picker
<1>10. CASE MediaArrives
  <2>1. PICK page \in SUBSET PostsOf(picker.loading) :
          picker' = [picker EXCEPT !.loading = NoLoad,
                       !.items = IF picker.replace THEN page ELSE @ \cup page]
    BY <1>10 DEF MediaArrives
  <2>2. PICK items \in SUBSET Posts :
          picker' = [picker EXCEPT !.loading = NoLoad, !.items = items]
    <3>1. page \subseteq Posts /\ picker.items \subseteq Posts
      BY DEF PostsOf, Picker
    <3>2. CASE picker.replace
      BY <2>1, <3>1, <3>2
    <3>3. CASE ~picker.replace
      BY <2>1, <3>1, <3>3
    <3> QED
      BY <3>2, <3>3
  <2>3. picker' = [open |-> picker.open, items |-> items, loading |-> NoLoad,
                   replace |-> picker.replace]
    BY <2>2 DEF Picker
  <2>4. picker' \in Picker
    <3>1. picker.open \in BOOLEAN /\ picker.replace \in BOOLEAN
      BY DEF Picker
    <3> QED
      BY <2>3, <3>1, Zenon DEF Picker
  <2> QED
    BY <1>10, <2>4 DEF MediaArrives
<1>11. CASE MediaFails
  BY <1>11 DEF MediaFails, Picker
<1>12. CASE Pick
  BY <1>12 DEF Pick, Form, Picker
<1>13. CASE OnSubmit
  <2>1. form' \in Form
    BY <1>13 DEF OnSubmit, Form
  <2>2. post'.body \in Body /\ post' = [pc |-> "account", body |-> post'.body]
    <3>1. form.trigger \in Triggers /\ form.keywords \in BOOLEAN
          /\ form.load \in 0..MaxLoads /\ form.wa \in WaIds /\ form.ig \in IgIds
          /\ form.tpl \in Tpls \cup {NoTpl} /\ form.postIds \subseteq Posts
      BY DEF Form
    <3> QED
      BY <1>13, <3>1 DEF OnSubmit, Body
  <2>3. post' \in Post
    BY <2>2 DEF Post
  <2> QED
    BY <1>13, <2>1, <2>3 DEF OnSubmit
<1>14. CASE ApiPost
  BY <1>14 DEF ApiPost, Post, Body, Triggers
<1>15. CASE CheckAccount
  BY <1>15 DEF CheckAccount, Post
<1>16. CASE CheckTemplate
  BY <1>16 DEF CheckTemplate, Post
<1>17. CASE InsertRows
  <2>1. post' \in Post
    BY <1>17 DEF InsertRows, Post
  <2>2. post.body \in Body
    BY DEF Post
  <2>3. made' \in Seq(Body) /\ \A i \in DOMAIN made' : made'[i] \in Body
    BY <1>17, <2>2, SMTT(60) DEF InsertRows
  <2> QED
    BY <1>17, <2>1, <2>3 DEF InsertRows
<1>18. CASE PostAnswered
  <2>1. post' \in Post
    BY <1>18 DEF PostAnswered, Quiet, Post, Body, Triggers
  <2>2. form' = form \/ form' = [form EXCEPT !.left = TRUE]
        \/ form' = [form EXCEPT !.submitting = FALSE]
    BY <1>18 DEF PostAnswered
  <2>3. form' \in Form
    BY <2>2, ZenonT(60) DEF Form
  <2> QED
    BY <1>18, <2>1, <2>3 DEF PostAnswered
<1>19. CASE TimesOut
  <2>1. post' \in Post
    BY <1>19 DEF TimesOut, Quiet, Post, Body, Triggers
  <2>2. form' \in Form
    BY <1>19 DEF TimesOut, Form
  <2> QED
    BY <1>19, <2>1, <2>2 DEF TimesOut
<1>20. CASE PostBreaks
  BY <1>20 DEF PostBreaks, Quiet, Post, Body, Triggers
<1>21. CASE World
  BY <1>21 DEF World
<1>22. CASE UNCHANGED formVars
  BY <1>22 DEF formVars
<1> QED
  BY <1>1, <1>2, <1>3, <1>4, <1>5, <1>6, <1>7, <1>8, <1>9, <1>10, <1>11, <1>12,
     <1>13,
     <1>14, <1>15, <1>16, <1>17, <1>18, <1>19, <1>20, <1>21, <1>22 DEF FormNext

LEMMA PickerStep ==
  ASSUME FormTypes, PickerInv, [FormNext]_formVars
  PROVE  PickerInv'
<1> USE FormAssumption
<1> USE DEF PickerInv, PostsBelong, PickerShowsAccount, MoreInv, NothingWentWrong
<1>0. form \in Form /\ picker \in Picker
  BY DEF FormTypes, FormTypeOK
<1>1. CASE LoadPage
  BY <1>1 DEF LoadPage, Fresh, Shut
<1>2. CASE SetTrigger
  BY <1>0, <1>2 DEF SetTrigger, Shut, Form, PostsOf
<1>3. CASE SetIgAccount
  BY <1>0, <1>3 DEF SetIgAccount, Form
<1>4. CASE SetWaAccount \/ SetTemplate \/ Type
  <2>1. form'.ig = form.ig /\ form'.postIds = form.postIds
    BY <1>0, <1>4 DEF SetWaAccount, SetTemplate, Type, Form
  <2> QED
    BY <1>4, <2>1 DEF SetWaAccount, SetTemplate, Type, PostsOf
<1>5. CASE OpenPicker
  BY <1>0, <1>5 DEF OpenPicker, Picker, Form, PostsOf
<1>6. CASE LoadMore
  BY <1>0, <1>6 DEF LoadMore, Picker, Form, PostsOf
<1>7. CASE ClosePicker
  BY <1>0, <1>7 DEF ClosePicker, Picker, PostsOf
<1>8. CASE MediaArrives
  <2>1. PICK page \in SUBSET PostsOf(picker.loading) :
          picker' = [picker EXCEPT !.loading = NoLoad,
                       !.items = IF picker.replace THEN page ELSE @ \cup page]
    BY <1>8 DEF MediaArrives
  <2>2. /\ picker'.loading = NoLoad
        /\ picker'.items = IF picker.replace THEN page ELSE picker.items \cup page
    BY <1>0, <2>1 DEF Picker
  <2>3. PostsBelong'
    BY <1>8 DEF MediaArrives, PostsOf
  <2>4. ASSUME mishaps' \cap {"raced", "loadFailed"} = {}
        PROVE  picker'.items \subseteq PostsOf(form.ig)
    BY <1>8, <2>1, <2>2, <2>4 DEF MediaArrives
  <2> QED
    BY <1>8, <2>2, <2>3, <2>4 DEF MediaArrives, PostsOf
<1>9. CASE MediaFails
  BY <1>0, <1>9 DEF MediaFails, Picker, PostsOf
<1>10. CASE Pick
  <2>1. form'.ig = form.ig
    BY <1>0, <1>10 DEF Pick, Form
  <2>2. PostsBelong'
    <3>1. ASSUME NEW p \in picker.items,
                 form' = [form EXCEPT !.postIds = IF p \in @ THEN @ \ {p} ELSE @ \cup {p}],
                 mishaps' = IF PostOwner[p] # form.ig THEN mishaps \cup {"strayPost"}
                            ELSE mishaps
          PROVE  PostsBelong'
      <4>1. p \in Posts /\ form'.postIds \subseteq form.postIds \cup {p}
        BY <1>0, <3>1 DEF Form, Picker
      <4> QED
        BY <2>1, <3>1, <4>1 DEF PostsOf
    <3>2. ASSUME form' = [form EXCEPT !.postIds = {}]
          PROVE  PostsBelong'
      BY <1>0, <3>2 DEF Form
    <3> QED
      BY <1>10, <3>1, <3>2 DEF Pick
  <2>3. NothingWentWrong' = NothingWentWrong
    BY <1>10 DEF Pick
  <2> QED
    BY <1>10, <2>1, <2>2, <2>3 DEF Pick, PostsOf
<1>11. CASE PostAnswered \/ TimesOut \/ OnSubmit
  <2>1. form'.ig = form.ig /\ form'.postIds = form.postIds
    BY <1>0, <1>11 DEF PostAnswered, TimesOut, OnSubmit, Form
  <2>2. picker' = picker /\ mishaps \subseteq mishaps'
        /\ mishaps' \subseteq mishaps \cup {"timeout"}
    BY <1>11 DEF PostAnswered, TimesOut, OnSubmit
  <2> QED
    BY <2>1, <2>2 DEF PostsOf
<1>12. CASE ApiPost \/ CheckAccount \/ CheckTemplate \/ InsertRows \/ World
  BY <1>12 DEF ApiPost, CheckAccount, CheckTemplate, InsertRows, World, PostsOf
<1>13. CASE PostBreaks
  BY <1>13 DEF PostBreaks, PostsOf
<1>14. CASE UNCHANGED formVars
  BY <1>14 DEF formVars, PostsOf
<1> QED
  BY <1>1, <1>2, <1>3, <1>4, <1>5, <1>6, <1>7, <1>8, <1>9, <1>10, <1>11, <1>12,
     <1>13,
     <1>14 DEF FormNext

LEMMA TemplateStep ==
  ASSUME FormTypes, TemplateInv, [FormNext]_formVars
  PROVE  TemplateInv'
<1> USE FormAssumption
<1> USE DEF TemplateInv, CheckedInv, TemplateFits
<1>0. post \in Post /\ made \in Seq(Body)
  BY DEF FormTypes, FormTypeOK
<1>1. CASE OnSubmit \/ ApiPost
  BY <1>1 DEF OnSubmit, ApiPost
<1>2. CASE CheckAccount
  BY <1>0, <1>2 DEF CheckAccount, Post
<1>3. CASE CheckTemplate
  BY <1>0, <1>3 DEF CheckTemplate, Post
<1>4. CASE InsertRows
  <2>1. post'.pc # "insert"
    BY <1>0, <1>4 DEF InsertRows, Post
  <2>2. CASE made' = made
    BY <2>1, <2>2
  <2>3. CASE made' = Append(made, post.body)
    BY <1>0, <1>4, <2>1, <2>3 DEF InsertRows
  <2> QED
    BY <1>4, <2>2, <2>3 DEF InsertRows
<1>5. CASE PostAnswered \/ TimesOut \/ PostBreaks
  BY <1>5 DEF PostAnswered, TimesOut, PostBreaks, Quiet
<1>6. CASE LoadPage \/ SetTrigger \/ SetIgAccount \/ SetWaAccount \/ SetTemplate \/ Type
  BY <1>6 DEF LoadPage, SetTrigger, SetIgAccount, SetWaAccount, SetTemplate, Type
<1>7. CASE OpenPicker \/ LoadMore \/ ClosePicker \/ MediaArrives \/ MediaFails \/ Pick
  BY <1>7 DEF OpenPicker, LoadMore, ClosePicker, MediaArrives, MediaFails, Pick
<1>8. CASE World \/ UNCHANGED formVars
  BY <1>8 DEF World, formVars
<1> QED
  BY <1>1, <1>2, <1>3, <1>4, <1>5, <1>6, <1>7, <1>8 DEF FormNext

\* Steps that neither send a request nor answer one, on the page that is open.
LEMMA SubmitFrame ==
  ASSUME SubmitInv, form'.load = form.load, form'.submitting = form.submitting,
         form'.left = form.left, UNCHANGED <<post, made>>,
         {"timeout", "broken"} \cap mishaps' = {"timeout", "broken"} \cap mishaps
  PROVE  SubmitInv'
BY DEF SubmitInv, LoadInv, OnceInv, OneSubmitOneAutomation, Mine

LEMMA SubmitStep ==
  ASSUME FormTypes, SubmitInv, [FormNext]_formVars
  PROVE  SubmitInv'
<1> USE FormAssumption
<1>0. form \in Form /\ post \in Post /\ made \in Seq(Body)
  BY DEF FormTypes, FormTypeOK
<1>a. form.load \in Nat \ {0} /\ post.body \in Body /\ post.body.load \in Nat
  BY <1>0 DEF Form, Post, Body
<1>b. \A i \in DOMAIN made : made[i] \in Body /\ made[i].load \in Nat
  BY DEF FormTypes, FormTypeOK, Body
<1>1. CASE LoadPage
  <2>1. form'.load = form.load + 1 /\ ~form'.submitting
    BY <1>1 DEF LoadPage, Fresh
  <2>2. post' = post /\ made' = made /\ post.body.load # form'.load
    BY <1>1, <1>a, <2>1 DEF LoadPage, SubmitInv, LoadInv
  <2>3. \A i \in DOMAIN made : made[i].load # form'.load
    BY <1>a, <1>b, <2>1 DEF SubmitInv, LoadInv
  <2>4. LoadInv'
    BY <1>a, <1>b, <2>1, <2>2 DEF SubmitInv, LoadInv
  <2>5. OnceInv' /\ OneSubmitOneAutomation'
    BY <2>1, <2>2, <2>3 DEF OnceInv, OneSubmitOneAutomation, Mine
  <2> QED
    BY <2>4, <2>5 DEF SubmitInv
<1>2. CASE SetTrigger \/ SetIgAccount \/ SetWaAccount \/ SetTemplate \/ Type
  <2>1. form'.load = form.load /\ form'.submitting = form.submitting
        /\ form'.left = form.left
    BY <1>0, <1>2
       DEF SetTrigger, SetIgAccount, SetWaAccount, SetTemplate, Type, Form
  <2> QED
    BY <1>2, <2>1, SubmitFrame
       DEF SetTrigger, SetIgAccount, SetWaAccount, SetTemplate, Type
<1>3. CASE OpenPicker \/ LoadMore \/ ClosePicker \/ MediaArrives \/ MediaFails
  BY <1>3, SubmitFrame
     DEF OpenPicker, LoadMore, ClosePicker, MediaArrives, MediaFails
<1>4. CASE Pick
  <2>1. form'.load = form.load /\ form'.submitting = form.submitting
        /\ form'.left = form.left
    BY <1>0, <1>4 DEF Pick, Form
  <2> QED
    BY <1>4, <2>1, SubmitFrame DEF Pick
<1>5. CASE OnSubmit
  <2>1. /\ form'.load = form.load /\ form'.left = form.left /\ form'.submitting
        /\ post'.pc = "account" /\ post'.body.load = form.load
        /\ UNCHANGED <<made, mishaps>> /\ ~form.submitting
    BY <1>0, <1>5 DEF OnSubmit, Form
  <2>2. \/ "timeout" \in mishaps
        \/ \A i \in DOMAIN made : made[i].load # form.load
    BY <2>1 DEF SubmitInv, OnceInv
  <2> QED
    BY <1>a, <1>b, <2>1, <2>2
       DEF SubmitInv, LoadInv, OnceInv, OneSubmitOneAutomation, Mine
<1>6. CASE ApiPost
  <2>1. /\ post'.pc = "account" /\ post'.body.load = 0
        /\ UNCHANGED <<form, made, mishaps>> /\ post.pc = "idle"
    BY <1>6 DEF ApiPost
  <2> QED
    BY <1>a, <2>1 DEF SubmitInv, LoadInv, OnceInv, OneSubmitOneAutomation, Mine
<1>7. CASE CheckAccount \/ CheckTemplate
  <2>1. /\ post'.pc \notin {"idle", "created"} /\ post'.body = post.body
        /\ UNCHANGED <<form, made, mishaps>> /\ post.pc \notin {"idle", "created"}
    BY <1>0, <1>7 DEF CheckAccount, CheckTemplate, Post
  <2> QED
    BY <2>1 DEF SubmitInv, LoadInv, OnceInv, OneSubmitOneAutomation, Mine
<1>8. CASE InsertRows
  <2>1. /\ post.pc = "insert" /\ post'.pc \in {"created", "refused"}
        /\ post'.body = post.body /\ UNCHANGED <<form, mishaps>>
    BY <1>0, <1>8 DEF InsertRows, Post
  <2>2. CASE made' = made /\ post'.pc = "refused"
    BY <2>1, <2>2 DEF SubmitInv, LoadInv, OnceInv, OneSubmitOneAutomation, Mine
  <2>3. CASE made' = Append(made, post.body) /\ post'.pc = "created"
    <3>1. /\ DOMAIN made' = 1 .. Len(made) + 1 /\ DOMAIN made = 1 .. Len(made)
          /\ Len(made) \in Nat
          /\ \A i \in DOMAIN made : made'[i] = made[i]
          /\ made'[Len(made) + 1] = post.body
      BY <1>0, <1>a, <2>3
    <3>2. LoadInv'
      BY <1>a, <2>1, <3>1 DEF SubmitInv, LoadInv
    <3>3. OnceInv'
      <4>1. CASE Mine
        BY <2>1, <2>3, <4>1 DEF SubmitInv, OnceInv, Mine
      <4>2. CASE ~Mine
        <5>1. (\E i \in DOMAIN made' : made'[i].load = form.load)
                => \E i \in DOMAIN made : made[i].load = form.load
          BY <3>1, <4>2 DEF Mine
        <5> QED
          BY <2>1, <2>3, <4>2, <5>1 DEF SubmitInv, OnceInv, Mine
      <4> QED
        BY <4>1, <4>2
    <3>4. OneSubmitOneAutomation'
      <4>1. form.submitting /\ ~form.left
              => (post'.pc # "idle" /\ post'.body.load = form.load) \/ "broken" \in mishaps
        BY <2>1 DEF SubmitInv, OneSubmitOneAutomation, Mine
      <4>2. SUFFICES ASSUME NEW i \in DOMAIN made', NEW j \in DOMAIN made',
                            made'[i].load = form.load, made'[j].load = form.load,
                            made'[i].load # 0, i # j, "timeout" \notin mishaps
                     PROVE  FALSE
        BY <2>1, <4>1 DEF OneSubmitOneAutomation, Mine
      <4>3. CASE i \in DOMAIN made /\ j \in DOMAIN made
        BY <3>1, <4>2, <4>3 DEF SubmitInv, OneSubmitOneAutomation
      <4>4. CASE ~(i \in DOMAIN made /\ j \in DOMAIN made)
        <5>1. Mine /\ \E k \in DOMAIN made : made[k].load = form.load
          BY <3>1, <4>2, <4>4 DEF Mine
        <5> QED
          BY <2>1, <4>2, <5>1 DEF SubmitInv, OnceInv
      <4> QED
        BY <4>3, <4>4
    <3> QED
      BY <3>2, <3>3, <3>4 DEF SubmitInv
  <2>4. \/ made' = made /\ post'.pc = "refused"
        \/ made' = Append(made, post.body) /\ post'.pc = "created"
    BY <1>0, <1>8 DEF InsertRows, Post
  <2> QED
    BY <2>2, <2>3, <2>4
<1>9. CASE PostAnswered \/ TimesOut \/ PostBreaks
  <2>1. /\ post'.pc = "idle" /\ post'.body.load = 0 /\ post.pc # "idle"
        /\ made' = made /\ form'.load = form.load
    BY <1>0, <1>9 DEF PostAnswered, TimesOut, PostBreaks, Quiet, Form
  <2>2. LoadInv'
    BY <1>a, <2>1 DEF SubmitInv, LoadInv
  <2>3. CASE PostAnswered
    <3>1. /\ ~Mine => form' = form
          /\ Mine /\ post.pc = "created"
               => form'.left /\ form'.submitting = form.submitting
          /\ Mine /\ post.pc # "created" => post.pc = "refused" /\ ~form'.submitting
          /\ mishaps' = mishaps
      BY <1>0, <2>3 DEF PostAnswered, Form
    <3> QED
      BY <2>1, <2>2, <3>1
         DEF SubmitInv, LoadInv, OnceInv, OneSubmitOneAutomation, Mine
  <2>4. CASE TimesOut
    <3>1. ~form'.submitting /\ "timeout" \in mishaps'
      BY <1>0, <2>4 DEF TimesOut, Form
    <3> QED
      BY <2>1, <2>2, <3>1 DEF SubmitInv, OnceInv, OneSubmitOneAutomation
  <2>5. CASE PostBreaks
    <3>1. /\ form' = form
          /\ Mine => "broken" \in mishaps'
          /\ mishaps \subseteq mishaps' /\ mishaps' \subseteq mishaps \cup {"broken"}
      BY <2>5 DEF PostBreaks
    <3> QED
      BY <2>1, <2>2, <3>1 DEF SubmitInv, OnceInv, OneSubmitOneAutomation, Mine
  <2> QED
    BY <1>9, <2>3, <2>4, <2>5
<1>10. CASE World \/ UNCHANGED formVars
  BY <1>10, SubmitFrame DEF World, formVars
<1> QED
  BY <1>1, <1>2, <1>3, <1>4, <1>5, <1>6, <1>7, <1>8, <1>9, <1>10 DEF FormNext

\* Whatever the form lets people choose belongs to the account it is chosen
\* for, however the picker's fetches, the changes of account and the clicks
\* overlap (PostPicker, AutomationForm), and whatever body is sent, a message
\* template belongs to the account of its automation (createAutomation).
THEOREM ChoicesStayWithTheirAccount ==
  FormSpec => []ChoicesBelong
<1>1. FormInv /\ [FormNext]_formVars => FormInv'
  BY FormTypesStep, PickerStep, TemplateStep, SubmitStep DEF FormInv
<1>2. FormInv => ChoicesBelong
  BY DEF FormInv, PickerInv, TemplateInv, ChoicesBelong
<1> QED
  BY <1>1, <1>2, FormStarts, PTL DEF FormSpec

\* However often the button is pressed and whatever is refused, broken off or
\* answered late, one opening of the form makes one automation unless a gateway
\* timed out on a request that was served (onSubmit, createAutomation).
THEOREM OneOpeningMakesOneAutomation ==
  FormSpec => []OneSubmitOneAutomation
<1>1. FormInv /\ [FormNext]_formVars => FormInv'
  BY FormTypesStep, PickerStep, TemplateStep, SubmitStep DEF FormInv
<1>2. FormInv => OneSubmitOneAutomation
  BY DEF FormInv, SubmitInv
<1> QED
  BY <1>1, <1>2, FormStarts, PTL DEF FormSpec

(***************************************************************************)
(* The rows of automations.                                                *)
(***************************************************************************)

\* A PATCH of automation a that has written one of its rows and not the last.
Patching(c, a) ==
  clients[c].id = a /\ clients[c].pc \in {"patchTrigger", "patchResponse"}

Cloning(c) == clients[c].pc \in {"readTrigger", "readResponse", "insert"}

\* An automation nobody has interfered with is patched by one request, and the
\* rows before the request's place are the request's own.
PatchInv ==
  \A c \in Clients : LET a == clients[c].id IN
    Patching(c, a) /\ Exists(a) /\ a \notin mixed =>
      /\ autos[a].version = clients[c].version
      /\ clients[c].pc = "patchResponse" => triggers[a] = clients[c].version
      /\ \A d \in Clients \ {c} : ~Patching(d, a)

\* What an undisturbed clone has read is what the rows still say.
CloneInv ==
  \A c \in Clients : LET a == clients[c].id IN
    Cloning(c) /\ ~clients[c].disturbed =>
      /\ Exists(a) /\ a \notin mixed
      /\ \A d \in Clients : ~Patching(d, a)
      /\ clients[c].version = autos[a].version
      /\ clients[c].pc # "readTrigger" => clients[c].trigger = triggers[a]
      /\ clients[c].pc = "insert" => clients[c].response = responses[a]

RowsInv == RowsTypeOK /\ PatchInv /\ CloneInv /\ RowsBelongTogether

LEMMA NobodyIsTyped == Nobody \in Client
<1>1. (CHOOSE a \in AutoIds : TRUE) \in AutoIds /\ 0 \in Versions
  BY RowsAssumption DEF Versions
<1> QED
  BY <1>1 DEF Nobody, Client

\* Every write flags the others that are between two rows of the automation,
\* and changes nothing else of theirs.
LEMMA DisturbIs ==
  ASSUME RowsTypeOK, NEW c \in Clients, NEW a \in AutoIds, NEW next \in Client,
         Disturb(c, a, next)
  PROVE  /\ clients' \in [Clients -> Client] /\ mixed' \subseteq AutoIds
         /\ clients'[c] = next
         /\ \A d \in Clients \ {c} :
              /\ d \in Between(c, a) => clients'[d].disturbed
              /\ clients'[d].pc = clients[d].pc /\ clients'[d].id = clients[d].id
              /\ clients'[d].version = clients[d].version
              /\ clients'[d].trigger = clients[d].trigger
              /\ clients'[d].response = clients[d].response
              /\ ~clients'[d].disturbed => ~clients[d].disturbed
         /\ mixed \subseteq mixed' /\ mixed' \subseteq mixed \cup {a}
         /\ Between(c, a) # {} => a \in mixed'
         /\ Between(c, a) = {} => mixed' = mixed
<1> USE DEF RowsTypeOK
<1>1. \A d \in Clients : clients[d] \in Client
                         /\ [clients[d] EXCEPT !.disturbed = TRUE] \in Client
  BY DEF Client
<1>2. clients' \in [Clients -> Client]
  BY <1>1 DEF Disturb
<1>3. /\ mixed \subseteq mixed' /\ mixed' \subseteq mixed \cup {a}
      /\ (Between(c, a) # {} => a \in mixed') /\ (Between(c, a) = {} => mixed' = mixed)
  BY DEF Disturb
<1>4. \A d \in Clients \ {c} :
        clients'[d] = IF d \in Between(c, a)
                      THEN [clients[d] EXCEPT !.disturbed = TRUE] ELSE clients[d]
  BY DEF Disturb
<1>5. clients'[c] = next
  BY DEF Disturb
<1>6. ASSUME NEW d \in Clients \ {c}
      PROVE  /\ d \in Between(c, a) => clients'[d].disturbed
             /\ clients'[d].pc = clients[d].pc /\ clients'[d].id = clients[d].id
             /\ clients'[d].version = clients[d].version
             /\ clients'[d].trigger = clients[d].trigger
             /\ clients'[d].response = clients[d].response
             /\ ~clients'[d].disturbed => ~clients[d].disturbed
  BY <1>1, <1>4, <1>6, ZenonT(60) DEF Client
<1> QED
  BY <1>2, <1>3, <1>5, <1>6

LEMMA RowsStart == RowsInit => RowsInv
<1> SUFFICES ASSUME RowsInit PROVE RowsInv
  OBVIOUS
<1> USE RowsAssumption, NoAutoIsNoRow, NobodyIsTyped
<1>1. PICK channels \in Channels :
        /\ autos = [a \in AutoIds |-> IF channels[a] = "none" THEN NoAuto
             ELSE [channel |-> channels[a], status |-> "active", version |-> 0]]
        /\ triggers = [a \in AutoIds |-> IF channels[a] # "none" THEN 0 ELSE NoAuto]
  BY DEF RowsInit
<1>2. \A a \in AutoIds : channels[a] \in {"ig", "wa", "none"}
  OBVIOUS
<1>3. RowsTypeOK
  BY <1>1, <1>2 DEF RowsInit, RowsTypeOK, AutomationRow, Versions
<1>4. PatchInv /\ CloneInv
  BY DEF RowsInit, PatchInv, CloneInv, Patching, Cloning, Nobody
<1>5. RowsBelongTogether
  BY <1>1, <1>2
     DEF RowsInit, RowsBelongTogether, RowsComplete, RowsAgree, Exists,
         AutomationRow
<1> QED
  BY <1>3, <1>4, <1>5 DEF RowsInv

LEMMA RowsTypesStep ==
  ASSUME RowsTypeOK, RowsComplete, [RowsNext]_rowsVars
  PROVE  RowsTypeOK'
<1> USE RowsAssumption, NobodyIsTyped
<1>0. \A c \in Clients : clients[c] \in Client /\ clients[c].id \in AutoIds
        /\ clients[c].version \in Versions
        /\ clients[c].trigger \in Versions /\ clients[c].response \in Versions
  BY DEF RowsTypeOK, Client
<1>1. ASSUME NEW c \in Clients, BeginPatch(c)
      PROVE  RowsTypeOK'
  <2>1. PICK a \in AutoIds : clients' = [clients EXCEPT ![c] =
          [Nobody EXCEPT !.pc = "patch", !.id = a, !.version = versions + 1]]
    BY <1>1 DEF BeginPatch
  <2>2. versions + 1 \in Versions
    BY <1>1 DEF BeginPatch, RowsTypeOK, Versions
  <2>3. [Nobody EXCEPT !.pc = "patch", !.id = a, !.version = versions + 1] \in Client
    BY <2>2 DEF Nobody, Client, Versions
  <2> QED
    BY <1>1, <2>1, <2>2, <2>3 DEF BeginPatch, RowsTypeOK
<1>2. ASSUME NEW c \in Clients, PatchAutomation(c)
      PROVE  RowsTypeOK'
  <2>1. [clients[c] EXCEPT !.pc = "patchTrigger"] \in Client
    BY <1>0 DEF Client
  <2>2. clients' \in [Clients -> Client] /\ mixed' \subseteq AutoIds
    BY <1>0, <1>2, <2>1, DisturbIs DEF PatchAutomation
  <2>3. autos' \in [AutoIds -> AutomationRow \cup {NoAuto}]
    BY <1>0, <1>2 DEF PatchAutomation, RowsTypeOK, AutomationRow, Exists, Versions
  <2> QED
    BY <1>2, <2>2, <2>3 DEF PatchAutomation, RowsTypeOK
<1>3. ASSUME NEW c \in Clients, PatchTrigger(c)
      PROVE  RowsTypeOK'
  <2>1. [clients[c] EXCEPT !.pc = "patchResponse"] \in Client
    BY <1>0 DEF Client
  <2>2. clients' \in [Clients -> Client] /\ mixed' \subseteq AutoIds
    BY <1>0, <1>3, <2>1, DisturbIs DEF PatchTrigger
  <2> QED
    BY <1>0, <1>3, <2>2 DEF PatchTrigger, RowsTypeOK
<1>4. ASSUME NEW c \in Clients, PatchResponse(c)
      PROVE  RowsTypeOK'
  <2>2. clients' \in [Clients -> Client] /\ mixed' \subseteq AutoIds
    BY <1>0, <1>4, DisturbIs DEF PatchResponse
  <2> QED
    BY <1>0, <1>4, <2>2 DEF PatchResponse, RowsTypeOK
<1>5. ASSUME NEW c \in Clients, BeginClone(c)
      PROVE  RowsTypeOK'
  <2>1. PICK a \in AutoIds :
          clients' = [clients EXCEPT ![c] = [Nobody EXCEPT !.pc = "read", !.id = a]]
    BY <1>5 DEF BeginClone
  <2>2. [Nobody EXCEPT !.pc = "read", !.id = a] \in Client
    BY DEF Nobody, Client, Versions
  <2> QED
    BY <1>5, <2>1, <2>2 DEF BeginClone, RowsTypeOK
<1>6. ASSUME NEW c \in Clients, ReadAutomation(c)
      PROVE  RowsTypeOK'
  <2>1. clients'[c] \in Client /\ clients' = [clients EXCEPT ![c] = clients'[c]]
    <3>1. CASE ~Exists(clients[c].id)
      BY <1>6, <3>1 DEF ReadAutomation, RowsTypeOK
    <3>2. CASE Exists(clients[c].id)
      <4>1. autos[clients[c].id] \in AutomationRow
        BY <1>0, <3>2 DEF Exists, RowsTypeOK
      <4> DEFINE busy == clients[c].id \in mixed \/ Between(c, clients[c].id) # {}
      <4>2. clients'[c] = [pc |-> "readTrigger", id |-> clients[c].id,
              channel |-> autos[clients[c].id].channel,
              version |-> autos[clients[c].id].version, trigger |-> clients[c].trigger,
              response |-> clients[c].response, disturbed |-> busy]
        BY <1>0, <1>6, <3>2, ZenonT(60) DEF ReadAutomation, RowsTypeOK, Client
      <4>3. busy \in BOOLEAN
        OBVIOUS
      <4>4. autos[clients[c].id].channel \in {"ig", "wa"}
            /\ autos[clients[c].id].version \in Versions
        BY <4>1 DEF AutomationRow, Versions
      <4> HIDE DEF busy
      <4>5. clients'[c] \in Client
        BY <1>0, <4>2, <4>3, <4>4 DEF Client
      <4> QED
        BY <1>6, <4>5 DEF ReadAutomation, RowsTypeOK
    <3> QED
      BY <3>1, <3>2
  <2> QED
    BY <1>6, <2>1 DEF ReadAutomation, RowsTypeOK
<1>7. ASSUME NEW c \in Clients, ReadTrigger(c)
      PROVE  RowsTypeOK'
  <2>1. triggers[clients[c].id] \in Versions \cup {NoAuto}
    BY <1>0 DEF RowsTypeOK
  <2>2. ASSUME NEW row \in Versions
        PROVE  [clients[c] EXCEPT !.pc = "readResponse", !.trigger = row] \in Client
    BY <1>0 DEF Client
  <2> QED
    BY <1>7, <2>1, <2>2 DEF ReadTrigger, RowsTypeOK
<1>8. ASSUME NEW c \in Clients, ReadResponse(c)
      PROVE  RowsTypeOK'
  <2>1. responses[clients[c].id] \in Versions \cup {NoAuto}
    BY <1>0 DEF RowsTypeOK
  <2>2. ASSUME NEW row \in Versions
        PROVE  [clients[c] EXCEPT !.pc = "insert", !.response = row] \in Client
    BY <1>0 DEF Client
  <2> QED
    BY <1>8, <2>1, <2>2 DEF ReadResponse, RowsTypeOK
<1>9. ASSUME NEW c \in Clients, InsertClone(c)
      PROVE  RowsTypeOK'
  <2>1. [channel |-> "ig", status |-> "paused", version |-> clients[c].version]
          \in AutomationRow
    BY <1>0 DEF AutomationRow, Versions
  <2>2. clients[c].channel \in {"ig", "wa"}
    BY <1>0 DEF Client
  <2>3. clients' \in [Clients -> Client]
    BY <1>9 DEF InsertClone, RowsTypeOK
  <2>4. CASE clients[c].channel = "ig"
    <3>1. PICK b \in AutoIds :
            /\ autos' = [autos EXCEPT ![b] = [channel |-> "ig", status |-> "paused",
                                              version |-> clients[c].version]]
            /\ triggers' = [triggers EXCEPT ![b] = clients[c].trigger]
            /\ responses' = [responses EXCEPT ![b] = clients[c].response]
            /\ mixed' = IF clients[c].disturbed THEN mixed \cup {b} ELSE mixed
            /\ versions' = versions
      BY <1>9, <2>4 DEF InsertClone
    <3>2. autos' \in [AutoIds -> AutomationRow \cup {NoAuto}]
      BY <2>1, <3>1 DEF RowsTypeOK
    <3>3. /\ triggers' \in [AutoIds -> Versions \cup {NoAuto}]
          /\ responses' \in [AutoIds -> Versions \cup {NoAuto}]
      BY <1>0, <3>1 DEF RowsTypeOK
    <3>4. mixed' \subseteq AutoIds
      BY <3>1 DEF RowsTypeOK
    <3> QED
      BY <2>3, <3>1, <3>2, <3>3, <3>4 DEF RowsTypeOK
  <2>5. CASE clients[c].channel # "ig"
    BY <1>0, <1>9, <2>2, <2>3, <2>5 DEF InsertClone, RowsTypeOK
  <2> QED
    BY <2>4, <2>5
<1>10. ASSUME NEW c \in Clients, Dies(c)
       PROVE  RowsTypeOK'
  BY <1>0, <1>10 DEF Dies, RowsTypeOK
<1>11. CASE ToggleStatus
  BY <1>11 DEF ToggleStatus, RowsTypeOK, AutomationRow, Exists
<1>12. ASSUME NEW a \in AutoIds, Delete(a)
       PROVE  RowsTypeOK'
  <2>1. \A d \in Clients : [clients[d] EXCEPT !.disturbed = TRUE] \in Client
    BY <1>0 DEF Client
  <2> QED
    BY <1>0, <1>12, <2>1 DEF Delete, RowsTypeOK
<1>13. CASE UNCHANGED rowsVars
  BY <1>13 DEF rowsVars, RowsTypeOK
<1> QED
  BY <1>1, <1>2, <1>3, <1>4, <1>5, <1>6, <1>7, <1>8, <1>9, <1>10, <1>11, <1>12,
     <1>13
     DEF RowsNext

\* The steps keep the three rows of every automation together.
LEMMA CompleteStep ==
  ASSUME RowsTypeOK, RowsComplete, [RowsNext]_rowsVars
  PROVE  RowsComplete'
<1> USE RowsAssumption, NoAutoIsNoRow
<1> USE DEF RowsTypeOK, RowsComplete, Exists
<1>0. \A c \in Clients : clients[c].id \in AutoIds /\ clients[c].version \in Versions
        /\ clients[c].trigger \in Versions /\ clients[c].response \in Versions
  BY DEF Client
<1>1. ASSUME NEW c \in Clients, PatchAutomation(c)
      PROVE  RowsComplete'
  <2>1. \A a \in AutoIds : autos'[a] # NoAuto <=> autos[a] # NoAuto
    BY <1>0, <1>1 DEF PatchAutomation, AutomationRow, Versions
  <2> QED
    BY <1>1, <2>1 DEF PatchAutomation
<1>2. ASSUME NEW c \in Clients, PatchTrigger(c)
      PROVE  RowsComplete'
  <2>1. \A a \in AutoIds : triggers'[a] # NoAuto <=> triggers[a] # NoAuto
    BY <1>0, <1>2 DEF PatchTrigger, Versions
  <2> QED
    BY <1>2, <2>1 DEF PatchTrigger
<1>3. ASSUME NEW c \in Clients, PatchResponse(c)
      PROVE  RowsComplete'
  <2>1. \A a \in AutoIds : responses'[a] # NoAuto <=> responses[a] # NoAuto
    BY <1>0, <1>3 DEF PatchResponse, Versions
  <2> QED
    BY <1>3, <2>1 DEF PatchResponse
<1>4. CASE ToggleStatus
  <2>1. \A a \in AutoIds : autos'[a] # NoAuto <=> autos[a] # NoAuto
    BY <1>4 DEF ToggleStatus, AutomationRow
  <2> QED
    BY <1>4, <2>1 DEF ToggleStatus
<1>5. ASSUME NEW a \in AutoIds, Delete(a)
      PROVE  RowsComplete'
  BY <1>5 DEF Delete
<1>6. ASSUME NEW c \in Clients, InsertClone(c)
      PROVE  RowsComplete'
  <2>1. CASE UNCHANGED <<autos, triggers, responses>>
    BY <2>1
  <2>2. ASSUME NEW b \in AutoIds, NEW row \in AutomationRow, autos' = [autos EXCEPT ![b] = row],
               triggers' = [triggers EXCEPT ![b] = clients[c].trigger],
               responses' = [responses EXCEPT ![b] = clients[c].response]
        PROVE  RowsComplete'
    BY <1>0, <2>2 DEF Versions
  <2>3. [channel |-> "ig", status |-> "paused", version |-> clients[c].version]
          \in AutomationRow
    BY <1>0 DEF AutomationRow, Versions
  <2> QED
    BY <1>6, <2>1, <2>2, <2>3 DEF InsertClone
<1>7. ASSUME NEW c \in Clients,
             \/ BeginPatch(c) \/ BeginClone(c) \/ ReadAutomation(c) \/ ReadTrigger(c)
             \/ ReadResponse(c) \/ Dies(c)
      PROVE  RowsComplete'
  BY <1>7
     DEF BeginPatch, BeginClone, ReadAutomation, ReadTrigger, ReadResponse, Dies
<1>8. CASE UNCHANGED rowsVars
  BY <1>8 DEF rowsVars
<1> QED
  BY <1>1, <1>2, <1>3, <1>4, <1>5, <1>6, <1>7, <1>8 DEF RowsNext

\* RowsAgree, with the condition named.
AtRest(a) == Exists(a) /\ a \notin mixed /\ \A c \in Clients : ~Patching(c, a)

LEMMA AgreeIs ==
  RowsAgree <=> \A a \in AutoIds : AtRest(a) =>
    triggers[a] = autos[a].version /\ responses[a] = autos[a].version
BY DEF RowsAgree, AtRest, Patching

WritesInv == PatchInv /\ CloneInv /\ RowsAgree

\* A write to an automation leaves what is known of the others, and of its own
\* rows it must show what is known from now on, if nobody was in between.
LEMMA WriteFrame ==
  ASSUME RowsTypeOK, WritesInv, NEW c \in Clients, NEW a \in AutoIds,
         clients[c].id = a, NEW next \in Client, Disturb(c, a, next),
         ~Cloning(c),
         next.pc = "idle" \/ (next.pc \in {"patchTrigger", "patchResponse"} /\ next.id = a),
         \A b \in AutoIds \ {a} :
           autos'[b] = autos[b] /\ triggers'[b] = triggers[b]
             /\ responses'[b] = responses[b],
         autos'[a] # NoAuto /\ a \notin mixed
           /\ (\A d \in Clients \ {c} : ~Patching(d, a))
         => IF next.pc = "idle"
            THEN triggers'[a] = autos'[a].version /\ responses'[a] = autos'[a].version
            ELSE autos'[a].version = next.version
                 /\ (next.pc = "patchResponse" => triggers'[a] = next.version)
  PROVE  WritesInv'
<1> USE DEF WritesInv
<1>1. /\ clients' \in [Clients -> Client] /\ mixed' \subseteq AutoIds
      /\ clients'[c] = next
      /\ \A d \in Clients \ {c} :
           /\ d \in Between(c, a) => clients'[d].disturbed
           /\ clients'[d].pc = clients[d].pc /\ clients'[d].id = clients[d].id
           /\ clients'[d].version = clients[d].version
           /\ clients'[d].trigger = clients[d].trigger
           /\ clients'[d].response = clients[d].response
           /\ ~clients'[d].disturbed => ~clients[d].disturbed
      /\ mixed \subseteq mixed' /\ mixed' \subseteq mixed \cup {a}
      /\ Between(c, a) # {} => a \in mixed'
      /\ Between(c, a) = {} => mixed' = mixed
  BY DisturbIs
<1>2. \A d \in Clients : clients[d].id \in AutoIds
  BY DEF RowsTypeOK, Client
<1>3. \A d \in Clients \ {c} : \A b \in AutoIds : Patching(d, b)' <=> Patching(d, b)
  BY <1>1 DEF Patching
<1>4. \A d \in Clients \ {c} : Patching(d, a) \/ (Cloning(d) /\ clients[d].id = a)
        => d \in Between(c, a)
  BY DEF Patching, Cloning, Between
<1>5. a \notin mixed' => a \notin mixed /\ \A d \in Clients \ {c} : ~Patching(d, a)
  BY <1>1, <1>4
<1>6. \A b \in AutoIds \ {a} : ~Patching(c, b) /\ ~Patching(c, b)'
  BY <1>1 DEF Patching
<1>7. \A b \in AutoIds \ {a} : (b \in mixed' <=> b \in mixed) /\ (Exists(b)' <=> Exists(b))
  BY <1>1 DEF Exists
<1>8. PatchInv'
  <2> SUFFICES ASSUME NEW d \in Clients, NEW b \in AutoIds, b = clients'[d].id,
                      Patching(d, b)', Exists(b)', b \notin mixed'
               PROVE  /\ autos'[b].version = clients'[d].version
                      /\ clients'[d].pc = "patchResponse"
                           => triggers'[b] = clients'[d].version
                      /\ \A e \in Clients \ {d} : ~Patching(e, b)'
    BY <1>1 DEF PatchInv, Client
  <2>1. CASE d = c
    <3>1. b = a /\ next.pc # "idle"
      BY <1>1, <2>1 DEF Patching
    <3> QED
      BY <1>1, <1>3, <1>5, <2>1, <3>1 DEF Exists
  <2>2. CASE d # c
    <3>1. b # a
      BY <1>3, <1>5, <2>2
    <3>2. /\ autos[b].version = clients[d].version
          /\ clients[d].pc = "patchResponse" => triggers[b] = clients[d].version
          /\ \A e \in Clients \ {d} : ~Patching(e, b)
      BY <1>1, <1>3, <1>7, <2>2, <3>1 DEF PatchInv
    <3> QED
      BY <1>1, <1>3, <1>6, <2>2, <3>1, <3>2
  <2> QED
    BY <2>1, <2>2
<1>9. CloneInv'
  <2> SUFFICES ASSUME NEW d \in Clients, NEW b \in AutoIds, b = clients'[d].id,
                      Cloning(d)', ~clients'[d].disturbed
               PROVE  /\ Exists(b)' /\ b \notin mixed'
                      /\ \A e \in Clients : ~Patching(e, b)'
                      /\ clients'[d].version = autos'[b].version
                      /\ clients'[d].pc # "readTrigger" => clients'[d].trigger = triggers'[b]
                      /\ clients'[d].pc = "insert" => clients'[d].response = responses'[b]
    BY <1>1 DEF CloneInv, Client
  <2>1. d # c
    BY <1>1 DEF Cloning
  <2>2. Cloning(d) /\ ~clients[d].disturbed /\ b = clients[d].id
    BY <1>1, <2>1 DEF Cloning
  <2>3. b # a
    BY <1>1, <1>4, <2>1, <2>2
  <2>4. /\ Exists(b) /\ b \notin mixed /\ \A e \in Clients : ~Patching(e, b)
        /\ clients[d].version = autos[b].version
        /\ clients[d].pc # "readTrigger" => clients[d].trigger = triggers[b]
        /\ clients[d].pc = "insert" => clients[d].response = responses[b]
    BY <2>2 DEF CloneInv
  <2> QED
    BY <1>1, <1>3, <1>6, <1>7, <2>1, <2>3, <2>4
<1>10. RowsAgree'
  <2>1. ASSUME NEW b \in AutoIds, AtRest(b)'
        PROVE  triggers'[b] = autos'[b].version /\ responses'[b] = autos'[b].version
    <3>1. CASE b = a
      <4>1. next.pc = "idle"
        BY <1>1, <2>1, <3>1 DEF AtRest, Patching
      <4> QED
        BY <1>5, <2>1, <3>1, <4>1 DEF AtRest, Exists
    <3>2. CASE b # a
      <4>1. AtRest(b)
        BY <1>3, <1>6, <1>7, <2>1, <3>2 DEF AtRest
      <4> QED
        BY <3>2, <4>1, AgreeIs
    <3> QED
      BY <3>1, <3>2
  <2>2. \A b \in AutoIds : AtRest(b)' =>
          triggers'[b] = autos'[b].version /\ responses'[b] = autos'[b].version
    BY <2>1
  <2> QED
    BY <2>2 DEF RowsAgree, AtRest, Patching
<1> QED
  BY <1>8, <1>9, <1>10

\* A step that moves one request without writing a row.
LEMMA ReadFrame ==
  ASSUME RowsTypeOK, WritesInv, NEW c \in Clients, NEW next \in Client,
         clients' = [clients EXCEPT ![c] = next],
         UNCHANGED <<autos, triggers, responses, mixed>>,
         next.pc \notin {"patchTrigger", "patchResponse"},
         \A a \in AutoIds : Patching(c, a) => a \in mixed,
         next.pc \in {"readTrigger", "readResponse", "insert"} /\ ~next.disturbed =>
           /\ Exists(next.id) /\ next.id \notin mixed
           /\ \A d \in Clients \ {c} : ~Patching(d, next.id)
           /\ next.version = autos[next.id].version
           /\ next.pc # "readTrigger" => next.trigger = triggers[next.id]
           /\ next.pc = "insert" => next.response = responses[next.id]
  PROVE  WritesInv'
<1> USE DEF WritesInv
<1>0. /\ clients' \in [Clients -> Client] /\ clients'[c] = next
      /\ \A d \in Clients \ {c} : clients'[d] = clients[d]
      /\ \A d \in Clients : clients[d].id \in AutoIds
  BY DEF RowsTypeOK, Client
<1>1. \A d \in Clients, a \in AutoIds : Patching(d, a)' => Patching(d, a)
  BY <1>0 DEF Patching
<1>2. PatchInv'
  BY <1>0, <1>1 DEF PatchInv, Patching, Exists
<1>3. CloneInv'
  <2> SUFFICES ASSUME NEW d \in Clients, NEW b \in AutoIds, b = clients'[d].id,
                      Cloning(d)', ~clients'[d].disturbed
               PROVE  /\ Exists(b)' /\ b \notin mixed'
                      /\ \A e \in Clients : ~Patching(e, b)'
                      /\ clients'[d].version = autos'[b].version
                      /\ clients'[d].pc # "readTrigger" => clients'[d].trigger = triggers'[b]
                      /\ clients'[d].pc = "insert" => clients'[d].response = responses'[b]
    BY <1>0 DEF CloneInv, Client
  <2>1. CASE d = c
    <3>1. /\ Exists(b) /\ b \notin mixed /\ \A e \in Clients \ {c} : ~Patching(e, b)
          /\ next.version = autos[b].version
          /\ next.pc # "readTrigger" => next.trigger = triggers[b]
          /\ next.pc = "insert" => next.response = responses[b]
      BY <1>0, <2>1 DEF Cloning
    <3>2. ~Patching(c, b)'
      BY <1>0 DEF Patching
    <3>3. \A e \in Clients : ~Patching(e, b)'
      BY <1>1, <3>1, <3>2
    <3> QED
      BY <1>0, <2>1, <3>1, <3>3 DEF Exists
  <2>2. CASE d # c
    <3>1. /\ Exists(b) /\ b \notin mixed /\ \A e \in Clients : ~Patching(e, b)
          /\ clients[d].version = autos[b].version
          /\ clients[d].pc # "readTrigger" => clients[d].trigger = triggers[b]
          /\ clients[d].pc = "insert" => clients[d].response = responses[b]
      BY <1>0, <2>2 DEF CloneInv, Cloning
    <3> QED
      BY <1>0, <1>1, <2>2, <3>1 DEF Exists
  <2> QED
    BY <2>1, <2>2
<1>4. RowsAgree'
  <2>1. \A a \in AutoIds : AtRest(a)' => AtRest(a)
    BY <1>0 DEF AtRest, Patching, Exists
  <2>2. \A a \in AutoIds : AtRest(a)' =>
          triggers'[a] = autos'[a].version /\ responses'[a] = autos'[a].version
    BY <2>1, AgreeIs
  <2> QED
    BY <2>2 DEF RowsAgree, AtRest, Patching
<1> QED
  BY <1>2, <1>3, <1>4

LEMMA WritesStep ==
  ASSUME RowsTypeOK, RowsComplete, WritesInv, RowsTypeOK', [RowsNext]_rowsVars
  PROVE  WritesInv'
<1> USE RowsAssumption, NoAutoIsNoRow, NobodyIsTyped
<1>0. \A c \in Clients : clients[c] \in Client /\ clients[c].id \in AutoIds
        /\ clients[c].version \in Versions
  BY DEF RowsTypeOK, Client
<1>n. Nobody.pc = "idle"
  BY DEF Nobody
<1>1. ASSUME NEW c \in Clients, PatchAutomation(c)
      PROVE  WritesInv'
  <2> DEFINE a == clients[c].id
             next == [clients[c] EXCEPT !.pc = "patchTrigger"]
  <2>1. next \in Client /\ next.pc = "patchTrigger" /\ next.id = a
        /\ next.version = clients[c].version
    BY <1>0 DEF Client
  <2>2. \A b \in AutoIds \ {a} : autos'[b] = autos[b]
    BY <1>0, <1>1 DEF PatchAutomation, RowsTypeOK
  <2>3. autos'[a] # NoAuto => autos'[a].version = clients[c].version
    BY <1>0, <1>1 DEF PatchAutomation, RowsTypeOK, Exists, AutomationRow
  <2>4. Disturb(c, a, next) /\ ~Cloning(c) /\ UNCHANGED <<triggers, responses>>
    BY <1>1 DEF PatchAutomation, Cloning
  <2>5. a \in AutoIds
    BY <1>0
  <2> HIDE DEF a, next
  <2>6. clients[c].id = a
    BY DEF a
  <2> QED
    BY <2>1, <2>2, <2>3, <2>4, <2>5, <2>6, WriteFrame
<1>2. ASSUME NEW c \in Clients, PatchTrigger(c)
      PROVE  WritesInv'
  <2> DEFINE a == clients[c].id
             next == [clients[c] EXCEPT !.pc = "patchResponse"]
  <2>1. next \in Client /\ next.pc = "patchResponse" /\ next.id = a
        /\ next.version = clients[c].version
    BY <1>0 DEF Client
  <2>2. \A b \in AutoIds \ {a} : triggers'[b] = triggers[b]
    BY <1>0, <1>2 DEF PatchTrigger, RowsTypeOK
  <2>3. autos[a] # NoAuto => triggers'[a] = clients[c].version
    BY <1>0, <1>2 DEF PatchTrigger, RowsTypeOK, RowsComplete, Exists
  <2>4. autos[a] # NoAuto /\ a \notin mixed => autos[a].version = clients[c].version
    BY <1>0, <1>2 DEF PatchTrigger, WritesInv, PatchInv, Patching, Exists
  <2>5. Disturb(c, a, next) /\ ~Cloning(c) /\ UNCHANGED <<autos, responses>>
    BY <1>2 DEF PatchTrigger, Cloning
  <2>6. a \in AutoIds
    BY <1>0
  <2> HIDE DEF a, next
  <2>7. clients[c].id = a
    BY DEF a
  <2> QED
    BY <2>1, <2>2, <2>3, <2>4, <2>5, <2>6, <2>7, WriteFrame
<1>3. ASSUME NEW c \in Clients, PatchResponse(c)
      PROVE  WritesInv'
  <2> DEFINE a == clients[c].id
  <2>1. \A b \in AutoIds \ {a} : responses'[b] = responses[b]
    BY <1>0, <1>3 DEF PatchResponse, RowsTypeOK
  <2>2. autos[a] # NoAuto => responses'[a] = clients[c].version
    BY <1>0, <1>3 DEF PatchResponse, RowsTypeOK, RowsComplete, Exists
  <2>3. autos[a] # NoAuto /\ a \notin mixed
          => triggers[a] = clients[c].version /\ autos[a].version = clients[c].version
    BY <1>0, <1>3 DEF PatchResponse, WritesInv, PatchInv, Patching, Exists
  <2>4. Disturb(c, a, Nobody) /\ ~Cloning(c) /\ UNCHANGED <<autos, triggers>>
    BY <1>3 DEF PatchResponse, Cloning
  <2>5. a \in AutoIds
    BY <1>0
  <2> HIDE DEF a
  <2>6. clients[c].id = a
    BY DEF a
  <2> QED
    BY <1>n, <2>1, <2>2, <2>3, <2>4, <2>5, <2>6, WriteFrame
<1>4. CASE ToggleStatus
  <2>1. \A a \in AutoIds : (Exists(a)' <=> Exists(a))
          /\ (Exists(a) => autos'[a].version = autos[a].version)
    BY <1>4 DEF ToggleStatus, RowsTypeOK, AutomationRow, Exists
  <2>2. UNCHANGED <<triggers, responses, clients, mixed>>
    BY <1>4 DEF ToggleStatus
  <2>3. PatchInv'
    BY <1>0, <2>1, <2>2 DEF WritesInv, PatchInv, Patching
  <2>4. CloneInv'
    BY <1>0, <2>1, <2>2 DEF WritesInv, CloneInv, Patching, Cloning
  <2>5. RowsAgree'
    BY <2>1, <2>2 DEF WritesInv, RowsAgree
  <2> QED
    BY <2>3, <2>4, <2>5 DEF WritesInv
<1>5. ASSUME NEW c \in Clients, BeginPatch(c)
      PROVE  WritesInv'
  <2>1. PICK a \in AutoIds : clients' = [clients EXCEPT ![c] =
          [Nobody EXCEPT !.pc = "patch", !.id = a, !.version = versions + 1]]
    BY <1>5 DEF BeginPatch
  <2> DEFINE next == [Nobody EXCEPT !.pc = "patch", !.id = a, !.version = versions + 1]
  <2>2. next = clients'[c]
    BY <2>1 DEF RowsTypeOK
  <2>3. next \in Client
    BY <2>2 DEF RowsTypeOK
  <2>4. next.pc = "patch"
    BY DEF Nobody
  <2>5. \A b \in AutoIds : ~Patching(c, b)
    BY <1>5 DEF BeginPatch, Patching
  <2>6. clients' = [clients EXCEPT ![c] = next]
    BY <2>1
  <2> HIDE DEF next
  <2> QED
    BY <1>5, <2>3, <2>4, <2>5, <2>6, ReadFrame DEF BeginPatch
<1>6. ASSUME NEW c \in Clients, BeginClone(c)
      PROVE  WritesInv'
  <2>1. PICK a \in AutoIds :
          clients' = [clients EXCEPT ![c] = [Nobody EXCEPT !.pc = "read", !.id = a]]
    BY <1>6 DEF BeginClone
  <2> DEFINE next == [Nobody EXCEPT !.pc = "read", !.id = a]
  <2>2. next = clients'[c]
    BY <2>1 DEF RowsTypeOK
  <2>3. next \in Client
    BY <2>2 DEF RowsTypeOK
  <2>4. next.pc = "read"
    BY DEF Nobody
  <2>5. \A b \in AutoIds : ~Patching(c, b)
    BY <1>6 DEF BeginClone, Patching
  <2>6. clients' = [clients EXCEPT ![c] = next]
    BY <2>1
  <2> HIDE DEF next
  <2> QED
    BY <1>6, <2>3, <2>4, <2>5, <2>6, ReadFrame DEF BeginClone
<1>7. ASSUME NEW c \in Clients, ReadAutomation(c)
      PROVE  WritesInv'
  <2> DEFINE a == clients[c].id
  <2>1. \A b \in AutoIds : ~Patching(c, b)
    BY <1>7 DEF ReadAutomation, Patching
  <2>2. CASE ~Exists(a)
    BY <1>7, <1>n, <2>1, <2>2, ReadFrame, ZenonT(60) DEF ReadAutomation
  <2>3. CASE Exists(a)
    <3> DEFINE busy == a \in mixed \/ Between(c, a) # {}
               next == [clients[c] EXCEPT !.pc = "readTrigger",
                          !.channel = autos[a].channel, !.version = autos[a].version,
                          !.disturbed = busy]
    <3>1. clients' = [clients EXCEPT ![c] = next]
      BY <1>7, <2>3 DEF ReadAutomation
    <3>2. next = clients'[c] /\ next \in Client
      BY <3>1 DEF RowsTypeOK
    <3>3. busy \in BOOLEAN
      OBVIOUS
    <3>4. next.pc = "readTrigger" /\ next.id = a /\ next.version = autos[a].version
          /\ next.disturbed = busy
      <4> HIDE DEF busy
      <4> QED
        BY <1>0, <3>3 DEF Client
    <3>5. ~busy => a \notin mixed /\ \A d \in Clients \ {c} : ~Patching(d, a)
      BY DEF Between, Patching
    <3> HIDE DEF next, busy
    <3> QED
      BY <1>7, <2>1, <2>3, <3>1, <3>2, <3>4, <3>5, ReadFrame, ZenonT(60) DEF ReadAutomation
  <2> QED
    BY <2>2, <2>3
<1>8. ASSUME NEW c \in Clients, ReadTrigger(c)
      PROVE  WritesInv'
  <2> DEFINE a == clients[c].id  row == triggers[a]
  <2>1. (\A b \in AutoIds : ~Patching(c, b)) /\ Cloning(c)
    BY <1>8 DEF ReadTrigger, Patching, Cloning
  <2>2. CASE row = NoAuto
    BY <1>8, <1>n, <2>1, <2>2, ReadFrame DEF ReadTrigger
  <2>3. CASE row # NoAuto
    <3> DEFINE next == [clients[c] EXCEPT !.pc = "readResponse", !.trigger = row]
    <3>1. clients' = [clients EXCEPT ![c] = next]
      BY <1>8, <2>3 DEF ReadTrigger
    <3>2. next = clients'[c] /\ next \in Client
      BY <3>1 DEF RowsTypeOK
    <3>3. next.pc = "readResponse" /\ next.id = a /\ next.trigger = row
          /\ next.version = clients[c].version /\ next.disturbed = clients[c].disturbed
      BY <1>0 DEF Client
    <3>4. ~clients[c].disturbed =>
            /\ Exists(a) /\ a \notin mixed /\ (\A d \in Clients : ~Patching(d, a))
            /\ clients[c].version = autos[a].version
      BY <2>1 DEF WritesInv, CloneInv
    <3> HIDE DEF next
    <3> QED
      BY <1>8, <2>1, <3>1, <3>2, <3>3, <3>4, ReadFrame, ZenonT(60)
         DEF ReadTrigger
  <2> QED
    BY <2>2, <2>3
<1>9. ASSUME NEW c \in Clients, ReadResponse(c)
      PROVE  WritesInv'
  <2> DEFINE a == clients[c].id  row == responses[a]
  <2>1. (\A b \in AutoIds : ~Patching(c, b)) /\ Cloning(c) /\ clients[c].pc # "readTrigger"
    BY <1>9 DEF ReadResponse, Patching, Cloning
  <2>2. CASE row = NoAuto
    BY <1>9, <1>n, <2>1, <2>2, ReadFrame DEF ReadResponse
  <2>3. CASE row # NoAuto
    <3> DEFINE next == [clients[c] EXCEPT !.pc = "insert", !.response = row]
    <3>1. clients' = [clients EXCEPT ![c] = next]
      BY <1>9, <2>3 DEF ReadResponse
    <3>2. next = clients'[c] /\ next \in Client
      BY <3>1 DEF RowsTypeOK
    <3>3. next.pc = "insert" /\ next.id = a /\ next.response = row
          /\ next.trigger = clients[c].trigger
          /\ next.version = clients[c].version /\ next.disturbed = clients[c].disturbed
      BY <1>0 DEF Client
    <3>4. ~clients[c].disturbed =>
            /\ Exists(a) /\ a \notin mixed /\ (\A d \in Clients : ~Patching(d, a))
            /\ clients[c].version = autos[a].version /\ clients[c].trigger = triggers[a]
      BY <2>1 DEF WritesInv, CloneInv
    <3> HIDE DEF next
    <3> QED
      BY <1>9, <2>1, <3>1, <3>2, <3>3, <3>4, ReadFrame, ZenonT(60)
         DEF ReadResponse
  <2> QED
    BY <2>2, <2>3
<1>10. ASSUME NEW c \in Clients, Dies(c)
       PROVE  WritesInv'
  <2>1. /\ clients' \in [Clients -> Client] /\ clients'[c] = Nobody
        /\ \A d \in Clients \ {c} : clients'[d] = clients[d]
    BY <1>10 DEF Dies, RowsTypeOK
  <2>2. /\ UNCHANGED <<autos, triggers, responses>> /\ mixed \subseteq mixed'
        /\ mixed' \subseteq mixed \cup {clients[c].id}
        /\ mixed' # mixed => Patching(c, clients[c].id)
        /\ \A a \in AutoIds : Patching(c, a) => a \in mixed'
    BY <1>10 DEF Dies, Patching
  <2>3. \A d \in Clients, a \in AutoIds : Patching(d, a)' => Patching(d, a) /\ d # c
    BY <1>n, <2>1 DEF Patching
  <2>4. \A a \in AutoIds : a \notin mixed' => a \notin mixed /\ ~Patching(c, a)
    BY <2>2
  <2>5. PatchInv'
    BY <1>n, <2>1, <2>2, <2>3, <2>4 DEF WritesInv, PatchInv, Patching, Exists
  <2>6. CloneInv'
    <3> SUFFICES ASSUME NEW d \in Clients, NEW b \in AutoIds, b = clients'[d].id,
                        Cloning(d)', ~clients'[d].disturbed
                 PROVE  /\ Exists(b)' /\ b \notin mixed'
                        /\ \A e \in Clients : ~Patching(e, b)'
                        /\ clients'[d].version = autos'[b].version
                        /\ clients'[d].pc # "readTrigger"
                             => clients'[d].trigger = triggers'[b]
                        /\ clients'[d].pc = "insert" => clients'[d].response = responses'[b]
      BY <2>1 DEF CloneInv, Client
    <3>1. d # c /\ clients'[d] = clients[d]
      BY <1>n, <2>1 DEF Cloning
    <3>2. /\ Exists(b) /\ b \notin mixed /\ \A e \in Clients : ~Patching(e, b)
          /\ clients[d].version = autos[b].version
          /\ clients[d].pc # "readTrigger" => clients[d].trigger = triggers[b]
          /\ clients[d].pc = "insert" => clients[d].response = responses[b]
      BY <3>1 DEF WritesInv, CloneInv, Cloning
    <3>3. b \notin mixed'
      BY <2>2, <3>2 DEF Patching
    <3> QED
      BY <2>2, <2>3, <3>1, <3>2, <3>3 DEF Exists
  <2>7. RowsAgree'
    <3>1. \A a \in AutoIds : AtRest(a)' => AtRest(a)
      BY <2>1, <2>2, <2>4 DEF AtRest, Patching, Exists
    <3>2. \A a \in AutoIds : AtRest(a)' =>
            triggers'[a] = autos'[a].version /\ responses'[a] = autos'[a].version
      BY <2>2, <3>1, AgreeIs DEF WritesInv
    <3> QED
      BY <3>2 DEF RowsAgree, AtRest, Patching
  <2> QED
    BY <2>5, <2>6, <2>7 DEF WritesInv
<1>11. ASSUME NEW a \in AutoIds, Delete(a)
       PROVE  WritesInv'
  <2>1. /\ clients' \in [Clients -> Client]
        /\ \A d \in Clients :
             /\ clients[d].pc # "idle" /\ clients[d].id = a => clients'[d].disturbed
             /\ ~(clients[d].pc # "idle" /\ clients[d].id = a) => clients'[d] = clients[d]
             /\ clients'[d].pc = clients[d].pc /\ clients'[d].id = clients[d].id
    BY <1>0, <1>11 DEF Delete, RowsTypeOK, Client
  <2>2. /\ ~Exists(a)' /\ mixed' = mixed \ {a}
        /\ \A b \in AutoIds \ {a} : /\ autos'[b] = autos[b] /\ triggers'[b] = triggers[b]
                                    /\ responses'[b] = responses[b]
    BY <1>11 DEF Delete, RowsTypeOK, Exists
  <2>3. \A d \in Clients, b \in AutoIds : Patching(d, b)' <=> Patching(d, b)
    BY <2>1 DEF Patching
  <2>4. PatchInv'
    BY <1>0, <2>1, <2>2, <2>3 DEF WritesInv, PatchInv, Exists
  <2>5. CloneInv'
    <3> SUFFICES ASSUME NEW d \in Clients, NEW b \in AutoIds, b = clients'[d].id,
                        Cloning(d)', ~clients'[d].disturbed
                 PROVE  /\ Exists(b)' /\ b \notin mixed'
                        /\ \A e \in Clients : ~Patching(e, b)'
                        /\ clients'[d].version = autos'[b].version
                        /\ clients'[d].pc # "readTrigger"
                             => clients'[d].trigger = triggers'[b]
                        /\ clients'[d].pc = "insert" => clients'[d].response = responses'[b]
      BY <2>1 DEF CloneInv, Client
    <3>1. b # a /\ clients'[d] = clients[d]
      BY <2>1 DEF Cloning
    <3>2. /\ Exists(b) /\ b \notin mixed /\ \A e \in Clients : ~Patching(e, b)
          /\ clients[d].version = autos[b].version
          /\ clients[d].pc # "readTrigger" => clients[d].trigger = triggers[b]
          /\ clients[d].pc = "insert" => clients[d].response = responses[b]
      BY <3>1 DEF WritesInv, CloneInv, Cloning
    <3> QED
      BY <2>2, <2>3, <3>1, <3>2 DEF Exists
  <2>6. RowsAgree'
    <3>1. \A b \in AutoIds : AtRest(b)' => b # a /\ AtRest(b)
      BY <2>2, <2>3 DEF AtRest, Exists
    <3>2. \A b \in AutoIds : AtRest(b)' =>
            triggers'[b] = autos'[b].version /\ responses'[b] = autos'[b].version
      BY <2>2, <3>1, AgreeIs DEF WritesInv
    <3> QED
      BY <3>2 DEF RowsAgree, AtRest, Patching
  <2> QED
    BY <2>4, <2>5, <2>6 DEF WritesInv
<1>12. ASSUME NEW c \in Clients, InsertClone(c)
       PROVE  WritesInv'
  <2>1. (\A b \in AutoIds : ~Patching(c, b)) /\ Cloning(c)
        /\ clients[c].pc = "insert" /\ clients' = [clients EXCEPT ![c] = Nobody]
    BY <1>12 DEF InsertClone, Patching, Cloning
  <2>2. CASE clients[c].channel # "ig"
    BY <1>12, <1>n, <2>1, <2>2, ReadFrame DEF InsertClone
  <2>3. CASE clients[c].channel = "ig"
    <3>1. PICK b \in AutoIds :
            /\ ~Exists(b)
            /\ \A d \in Clients : clients[d].pc # "idle" => clients[d].id # b
            /\ autos' = [autos EXCEPT ![b] = [channel |-> "ig", status |-> "paused",
                                              version |-> clients[c].version]]
            /\ triggers' = [triggers EXCEPT ![b] = clients[c].trigger]
            /\ responses' = [responses EXCEPT ![b] = clients[c].response]
            /\ mixed' = IF clients[c].disturbed THEN mixed \cup {b} ELSE mixed
      BY <1>12, <2>3 DEF InsertClone
    <3>2. /\ \A a \in AutoIds \ {b} :
               /\ autos'[a] = autos[a] /\ triggers'[a] = triggers[a]
               /\ responses'[a] = responses[a]
               /\ (a \in mixed' <=> a \in mixed) /\ (Exists(a)' <=> Exists(a))
          /\ autos'[b].version = clients[c].version
          /\ triggers'[b] = clients[c].trigger /\ responses'[b] = clients[c].response
      BY <3>1 DEF RowsTypeOK, Exists
    <3>3. /\ clients' \in [Clients -> Client] /\ clients'[c] = Nobody
          /\ \A d \in Clients \ {c} : clients'[d] = clients[d]
          /\ \A d \in Clients : clients'[d].pc # "idle"
               => d # c /\ clients'[d] = clients[d] /\ clients[d].id # b
      BY <1>n, <2>1, <3>1 DEF RowsTypeOK
    <3>4. \A d \in Clients, a \in AutoIds : Patching(d, a)' <=> Patching(d, a)
      BY <1>n, <2>1, <3>3 DEF Patching
    <3>5. PatchInv'
      <4> SUFFICES ASSUME NEW d \in Clients, NEW a \in AutoIds, a = clients'[d].id,
                          Patching(d, a)', Exists(a)', a \notin mixed'
                   PROVE  /\ autos'[a].version = clients'[d].version
                          /\ clients'[d].pc = "patchResponse"
                               => triggers'[a] = clients'[d].version
                          /\ \A e \in Clients \ {d} : ~Patching(e, a)'
        BY <3>3 DEF PatchInv, Client
      <4>1. a # b /\ clients'[d] = clients[d]
        BY <3>3 DEF Patching
      <4> QED
        BY <3>2, <3>4, <4>1 DEF WritesInv, PatchInv
    <3>6. CloneInv'
      <4> SUFFICES ASSUME NEW d \in Clients, NEW a \in AutoIds, a = clients'[d].id,
                          Cloning(d)', ~clients'[d].disturbed
                   PROVE  /\ Exists(a)' /\ a \notin mixed'
                          /\ \A e \in Clients : ~Patching(e, a)'
                          /\ clients'[d].version = autos'[a].version
                          /\ clients'[d].pc # "readTrigger"
                               => clients'[d].trigger = triggers'[a]
                          /\ clients'[d].pc = "insert"
                               => clients'[d].response = responses'[a]
        BY <3>3 DEF CloneInv, Client
      <4>1. a # b /\ clients'[d] = clients[d]
        BY <3>3 DEF Cloning
      <4>2. /\ Exists(a) /\ a \notin mixed /\ \A e \in Clients : ~Patching(e, a)
            /\ clients[d].version = autos[a].version
            /\ clients[d].pc # "readTrigger" => clients[d].trigger = triggers[a]
            /\ clients[d].pc = "insert" => clients[d].response = responses[a]
        BY <4>1 DEF WritesInv, CloneInv, Cloning
      <4> QED
        BY <3>2, <3>4, <4>1, <4>2
    <3>7. RowsAgree'
      <4>1. ASSUME b \notin mixed'
            PROVE  triggers'[b] = autos'[b].version /\ responses'[b] = autos'[b].version
        <5> DEFINE a == clients[c].id
        <5>1. ~clients[c].disturbed
          BY <3>1, <4>1
        <5>2. /\ Exists(a) /\ a \notin mixed /\ (\A d \in Clients : ~Patching(d, a))
              /\ clients[c].version = autos[a].version
              /\ clients[c].trigger = triggers[a] /\ clients[c].response = responses[a]
          BY <2>1, <5>1 DEF WritesInv, CloneInv
        <5>3. triggers[a] = autos[a].version /\ responses[a] = autos[a].version
          BY <1>0, <5>2, AgreeIs DEF WritesInv, AtRest
        <5> QED
          BY <3>2, <5>2, <5>3
      <4>2. \A a \in AutoIds \ {b} : AtRest(a)' => AtRest(a)
        BY <3>2, <3>4 DEF AtRest
      <4>3. \A a \in AutoIds : AtRest(a)' =>
              triggers'[a] = autos'[a].version /\ responses'[a] = autos'[a].version
        BY <3>2, <4>1, <4>2, AgreeIs DEF WritesInv, AtRest
      <4> QED
        BY <4>3 DEF RowsAgree, AtRest, Patching
    <3> QED
      BY <3>5, <3>6, <3>7 DEF WritesInv
  <2> QED
    BY <2>2, <2>3
<1>13. CASE UNCHANGED rowsVars
  BY <1>13
     DEF rowsVars, WritesInv, PatchInv, CloneInv, RowsAgree, Patching, Cloning,
         Exists
<1> QED
  BY <1>1, <1>2, <1>3, <1>4, <1>5, <1>6, <1>7, <1>8, <1>9, <1>10, <1>11, <1>12,
     <1>13
     DEF RowsNext

\* Whatever PATCH, DELETE and duplicate requests do at once, an automation has
\* its trigger and its response or none of the three; and, unless requests fell
\* between each other's statements or one died there, the three come from one
\* PATCH and those of a clone from one state of its source.
THEOREM ThreeRowsBelongTogether ==
  RowsSpec => []RowsBelongTogether
<1>1. RowsInv /\ [RowsNext]_rowsVars => RowsInv'
  BY RowsTypesStep, CompleteStep, WritesStep
     DEF RowsInv, WritesInv, RowsBelongTogether
<1>2. RowsInv => RowsBelongTogether
  BY DEF RowsInv
<1> QED
  BY <1>1, <1>2, RowsStart, PTL DEF RowsSpec


(***************************************************************************)
(* The numbers and the templates of WhatsApp.                              *)
(***************************************************************************)

\* Each place of a handler belongs to one kind of request.
KindInv ==
  \A r \in Slots :
    /\ reqs[r].pc \in {"verify", "lookup", "insert", "update"} => reqs[r].kind = "connect"
    /\ reqs[r].pc = "cut" => reqs[r].kind = "disconnect"
    /\ reqs[r].pc \in {"check", "draft", "submit", "record"} => reqs[r].kind = "template"
    /\ reqs[r].pc \in {"drop", "disable"} => reqs[r].kind = "delete"

\* A request updates a number only if its workspace has it.
OwnNumberInv ==
  \A r \in Slots : reqs[r].pc = "update" =>
    numbers[reqs[r].phone].owner = reqs[r].owner

Answers(r, kind) ==
  reqs[r].kind = kind /\ reqs[r].pc = "ok" /\ reqs[r].mark = "wrote"

NumberAnswers ==
  \A r \in Slots :
    /\ Answers(r, "connect") =>
         numbers[reqs[r].phone] =
           [owner |-> reqs[r].owner, token |-> reqs[r].serial, connected |-> TRUE]
    /\ Answers(r, "disconnect") => ~numbers[reqs[r].phone].connected

NumberPart == OwnNumberInv /\ NumberAnswers

Submitting(r) == reqs[r].kind = "template" /\ reqs[r].pc \in {"submit", "record"}

Inserted(r) == reqs[r].kind = "template" /\ reqs[r].mark # "none"

Deleting(r) == reqs[r].kind = "delete" /\ reqs[r].pc \in {"drop", "disable", "ok"}

\* The rows of a key are numbered, and no two requests have made the same one.
SerialsInv ==
  /\ \A k \in Keys : tplRows[k] # NoSetupRow => tplRows[k].id <= tplMade[k]
  /\ \A r \in Slots : Inserted(r) \/ Deleting(r) => reqs[r].serial <= tplMade[KeyOf(r)]
  /\ \A r, s \in Slots :
       r # s /\ Inserted(r) /\ Inserted(s) /\ KeyOf(r) = KeyOf(s)
         => reqs[r].serial # reqs[s].serial

\* Until Meta's answer is recorded, a row is a draft, or gone.
DraftInv ==
  \A r \in Slots : Submitting(r) =>
    /\ Inserted(r) /\ reqs[r].submit
    /\ reqs[r].mark = "wrote" => StillThere(r)
    /\ StillThere(r) => tplRows[KeyOf(r)].status = "draft"

\* A row is disabled only when nobody is submitting it.
DeleteInv ==
  \A r, s \in Slots :
    Deleting(s) /\ Submitting(r) /\ KeyOf(r) = KeyOf(s)
      /\ (reqs[s].pc = "disable" \/ (reqs[s].pc = "ok" /\ StillThere(s)))
    => reqs[r].serial # reqs[s].serial

Pending(k) == {r \in Slots : reqs[r].pc = "submit" /\ KeyOf(r) = k}

\* Every row is submitted by the request that made it, which is yet to do so,
\* has done so, or never will.
PendingInv ==
  \A k \in Keys : /\ IsFiniteSet(Pending(k))
                  /\ submitted[k] + Cardinality(Pending(k)) <= tplMade[k]

TplAnswers ==
  \A r \in Slots :
    /\ Answers(r, "template") =>
         tplRows[KeyOf(r)] = [status |-> IF reqs[r].submit THEN "pending" ELSE "draft",
                              id |-> reqs[r].serial]
    /\ Answers(r, "delete") /\ StillThere(r) => tplRows[KeyOf(r)].status = "disabled"

TplPart == SerialsInv /\ DraftInv /\ DeleteInv /\ PendingInv /\ TplAnswers

SetupInv == SetupTypeOK /\ KindInv /\ NumberPart /\ TplPart

LEMMA SetupPromises == SetupInv => SubmissionsAreTrue
<1> SUFFICES ASSUME SetupInv PROVE SubmissionsAreTrue
  OBVIOUS
<1>1. OneSubmissionPerRow
  <2> SUFFICES ASSUME NEW k \in Keys PROVE submitted[k] <= tplMade[k]
    BY DEF OneSubmissionPerRow
  <2>1. Cardinality(Pending(k)) \in Nat /\ submitted[k] \in Nat /\ tplMade[k] \in Nat
        /\ submitted[k] + Cardinality(Pending(k)) <= tplMade[k]
    BY FS_CardinalityType DEF SetupInv, SetupTypeOK, TplPart, PendingInv
  <2> QED
    BY <2>1
<1>2. AnswersAreTrue
  <2>1. \A r \in Slots : reqs[r].kind \in {"connect", "disconnect", "template", "delete"}
    BY DEF SetupInv, SetupTypeOK, Req
  <2> QED
    BY <2>1 DEF SetupInv, NumberPart, NumberAnswers, TplPart, TplAnswers, Answers,
                AnswersAreTrue
<1> QED
  BY <1>1, <1>2 DEF SubmissionsAreTrue

LEMMA NoReqIsTyped ==
  /\ NoReq \in Req /\ NoReq.pc = "idle" /\ NoReq.kind = "connect"
  /\ NoReq.mark = "none" /\ NoForm \in Tab /\ AnOwner \in Owners
<1>1. AnOwner \in Owners /\ (CHOOSE p \in Phones : TRUE) \in Phones
      /\ (CHOOSE n \in Names : TRUE) \in Names
  BY SetupAssumption DEF AnOwner
<1> QED
  BY <1>1 DEF NoReq, Req, Pcs, NoForm, Tab

LEMMA SetupStarts == SetupInit => SetupInv
<1> SUFFICES ASSUME SetupInit PROVE SetupInv
  OBVIOUS
<1> USE NoReqIsTyped
<1>1. \A r \in Slots : reqs[r] = NoReq
  BY DEF SetupInit
<1>2. SetupTypeOK
  <2>1. numbers \in [Phones -> Number]
    <3>1. \A p \in Phones :
            \/ numbers[p] = [owner |-> NoOwner, token |-> 0, connected |-> FALSE]
            \/ numbers[p] = [owner |-> AnOwner, token |-> 0, connected |-> TRUE]
      BY DEF SetupInit
    <3>2. /\ [owner |-> NoOwner, token |-> 0, connected |-> FALSE] \in Number
          /\ [owner |-> AnOwner, token |-> 0, connected |-> TRUE] \in Number
      BY DEF Number
    <3> QED
      BY <3>1, <3>2 DEF SetupInit
  <2> QED
    BY <2>1 DEF SetupInit, SetupTypeOK
<1>3. KindInv /\ NumberPart
  BY <1>1 DEF KindInv, NumberPart, OwnNumberInv, NumberAnswers, Answers
<1>4. PendingInv
  <2> SUFFICES ASSUME NEW k \in Keys
               PROVE  IsFiniteSet(Pending(k))
                      /\ submitted[k] + Cardinality(Pending(k)) <= tplMade[k]
    BY DEF PendingInv
  <2>1. Pending(k) = {} /\ submitted[k] = 0 /\ tplMade[k] = 0
    BY <1>1 DEF Pending, SetupInit
  <2> QED
    BY <2>1, FS_EmptySet
<1>5. SerialsInv /\ DraftInv /\ DeleteInv /\ TplAnswers
  BY <1>1
     DEF SetupInit, SerialsInv, DraftInv, DeleteInv, TplAnswers, Inserted, Deleting,
              Submitting, Answers
<1> QED
  BY <1>2, <1>3, <1>4, <1>5 DEF SetupInv, TplPart

\* What a request is about stays.
Keeps(r) ==
  /\ reqs'[r].kind = reqs[r].kind /\ reqs'[r].owner = reqs[r].owner
  /\ reqs'[r].phone = reqs[r].phone /\ reqs'[r].name = reqs[r].name
  /\ reqs'[r].submit = reqs[r].submit /\ reqs'[r].serial = reqs[r].serial

LEMMA GoesIs ==
  ASSUME reqs \in [Slots -> Req], NEW r \in Slots, NEW pc \in Pcs, Goes(r, pc)
  PROVE  /\ reqs' \in [Slots -> Req]
         /\ reqs'[r].pc = pc /\ Keeps(r) /\ reqs'[r].mark = reqs[r].mark
         /\ \A s \in Slots \ {r} : reqs'[s] = reqs[s]
<1>1. reqs'[r] = [reqs[r] EXCEPT !.pc = pc] /\ \A s \in Slots \ {r} : reqs'[s] = reqs[s]
  BY DEF Goes
<1>2. reqs[r] \in Req
  OBVIOUS
<1>3. [reqs[r] EXCEPT !.pc = pc] \in Req
  BY <1>2 DEF Req
<1>4. reqs' \in [Slots -> Req]
  BY <1>3 DEF Goes
<1>5. reqs'[r].pc = pc /\ Keeps(r) /\ reqs'[r].mark = reqs[r].mark
  BY <1>1, <1>2 DEF Req, Keeps
<1> QED
  BY <1>1, <1>4, <1>5

LEMMA WroteIs ==
  ASSUME reqs \in [Slots -> Req], NEW r \in Slots, NEW pc \in Pcs, Wrote(r, pc)
  PROVE  /\ reqs' \in [Slots -> Req]
         /\ reqs'[r].pc = pc /\ \A s \in Slots : Keeps(s)
         /\ \A s \in Slots \ {r} : reqs'[s].pc = reqs[s].pc
         /\ \A s \in Slots \ {r} : reqs'[s].mark = "wrote"
              => reqs[s].mark = "wrote" /\ ~SameRow(r, s)
         /\ \A s \in Slots : reqs'[s].mark = "none" <=> (reqs[s].mark = "none" /\ s # r)
<1>1. ASSUME NEW s \in Slots, NEW mark \in {"none", "wrote", "overtaken"}
      PROVE  [reqs[s] EXCEPT !.mark = mark] \in Req
  BY DEF Req
<1>2. ASSUME NEW mark \in {"none", "wrote", "overtaken"}
      PROVE  /\ [reqs[r] EXCEPT !.pc = pc, !.mark = mark] \in Req
             /\ LET q == [reqs[r] EXCEPT !.pc = pc, !.mark = mark] IN
                /\ q.pc = pc /\ q.mark = mark /\ q.kind = reqs[r].kind
                /\ q.owner = reqs[r].owner /\ q.phone = reqs[r].phone
                /\ q.name = reqs[r].name /\ q.submit = reqs[r].submit
                /\ q.serial = reqs[r].serial
  BY DEF Req
<1>3. PICK mark \in {"none", "wrote", "overtaken"} :
        /\ mark # "none"
        /\ reqs'[r] = [reqs[r] EXCEPT !.pc = pc, !.mark = mark]
  <2>1. reqs[r].mark \in {"none", "wrote", "overtaken"}
    BY DEF Req
  <2>2. CASE reqs[r].mark = "none"
    BY <2>2 DEF Wrote
  <2>3. CASE reqs[r].mark # "none"
    BY <2>1, <2>3 DEF Wrote
  <2> QED
    BY <2>2, <2>3
<1>4. \A s \in Slots \ {r} :
        reqs'[s] = IF SameRow(r, s) /\ reqs[s].mark = "wrote"
                   THEN [reqs[s] EXCEPT !.mark = "overtaken"] ELSE reqs[s]
  BY DEF Wrote
<1>5. /\ reqs'[r] \in Req /\ reqs'[r].pc = pc /\ reqs'[r].mark # "none" /\ Keeps(r)
  BY <1>2, <1>3, ZenonT(60) DEF Keeps
<1>6. ASSUME NEW s \in Slots \ {r}
      PROVE  /\ reqs'[s] \in Req /\ Keeps(s) /\ reqs'[s].pc = reqs[s].pc
             /\ reqs'[s].mark = "wrote" => reqs[s].mark = "wrote" /\ ~SameRow(r, s)
             /\ reqs'[s].mark = "none" <=> reqs[s].mark = "none"
  <2>1. CASE SameRow(r, s) /\ reqs[s].mark = "wrote"
    <3>1. reqs'[s] = [reqs[s] EXCEPT !.mark = "overtaken"]
      BY <1>4, <2>1
    <3>2. /\ reqs'[s].mark = "overtaken" /\ reqs'[s].pc = reqs[s].pc /\ Keeps(s)
      BY <3>1 DEF Req, Keeps
    <3> QED
      BY <1>1, <2>1, <3>1, <3>2
  <2>2. CASE ~(SameRow(r, s) /\ reqs[s].mark = "wrote")
    BY <1>4, <2>2 DEF Keeps
  <2> QED
    BY <2>1, <2>2
<1>7. reqs' \in [Slots -> Req]
  <2>1. DOMAIN reqs' = Slots /\ reqs' = [s \in Slots |-> reqs'[s]]
    BY DEF Wrote
  <2> QED
    BY <1>5, <1>6, <2>1
<1> QED
  BY <1>5, <1>6, <1>7

LEMMA NumberIs ==
  ASSUME numbers \in [Phones -> Number], NEW p \in Phones, NEW n \in Number,
         numbers' = [numbers EXCEPT ![p] = n]
  PROVE  /\ numbers' \in [Phones -> Number] /\ numbers'[p] = n
         /\ \A q \in Phones \ {p} : numbers'[q] = numbers[q]
OBVIOUS

LEMMA KeysAre ==
  ASSUME reqs \in [Slots -> Req], NEW r \in Slots
  PROVE  /\ KeyOf(r) \in Keys /\ reqs[r].phone \in Phones /\ reqs[r].owner \in Owners
         /\ reqs[r].serial \in Nat /\ reqs[r].kind \in {"connect", "disconnect", "template", "delete"}
         /\ reqs[r].mark \in {"none", "wrote", "overtaken"}
BY DEF KeyOf, Keys, Req

\* Requests of their kinds, after a step that moves one of them.
LEMMA KindFrame ==
  ASSUME KindInv, NEW r \in Slots, NEW pc, reqs'[r].pc = pc,
         reqs'[r].kind = reqs[r].kind,
         \A s \in Slots \ {r} : reqs'[s].pc = reqs[s].pc /\ reqs'[s].kind = reqs[s].kind,
         \/ pc \in {"ok", "refused"}
         \/ pc \in {"lookup", "insert", "update"} /\ reqs[r].kind = "connect"
         \/ pc = "cut" /\ reqs[r].kind = "disconnect"
         \/ pc \in {"draft", "submit", "record"} /\ reqs[r].kind = "template"
         \/ pc \in {"drop", "disable"} /\ reqs[r].kind = "delete"
  PROVE  KindInv'
BY DEF KindInv

LEMMA SendIs ==
  ASSUME SetupTypeOK, KindInv, NEW r \in Slots, NEW q \in Req, Send(r, q),
         q.mark = "none",
         \/ q.pc = "verify" /\ q.kind = "connect"
         \/ q.pc = "check" /\ q.kind = "template"
         \/ q.pc = "read" /\ q.kind \in {"disconnect", "delete"}
  PROVE  /\ SetupTypeOK' /\ KindInv'
         /\ reqs[r].pc = "idle" /\ reqs'[r].mark = "none" /\ reqs'[r].pc = q.pc
         /\ \A s \in Slots \ {r} : reqs'[s] = reqs[s]
         /\ UNCHANGED <<numbers, tplRows, tplMade, submitted>>
<1>1. [q EXCEPT !.serial = sent + 1] \in Req
  BY DEF Req, SetupTypeOK
<1>2. reqs'[r] = [q EXCEPT !.serial = sent + 1] /\ sent' = sent + 1
      /\ (\A s \in Slots \ {r} : reqs'[s] = reqs[s])
      /\ UNCHANGED <<numbers, tplRows, tplMade, submitted, tabs>>
  BY DEF Send, SetupTypeOK
<1>3. reqs'[r].pc = q.pc /\ reqs'[r].kind = q.kind /\ reqs'[r].mark = "none"
  BY <1>2 DEF Req
<1>4. SetupTypeOK'
  BY <1>1, <1>2 DEF Send, SetupTypeOK
<1>5. KindInv'
  BY <1>2, <1>3 DEF KindInv
<1> QED
  BY <1>2, <1>3, <1>4, <1>5 DEF Send

\* The requests that the pages and the clients of the API send.
Submits(r) == \/ \E t \in Pages : SubmitConnect(t, r) \/ SubmitTemplate(t, r)
            \/ SubmitDisconnect(r) \/ SubmitDelete(r)

LEMMA SendsAre ==
  ASSUME SetupTypeOK, KindInv, NEW r \in Slots, Submits(r)
  PROVE  /\ SetupTypeOK' /\ KindInv'
         /\ reqs[r].pc = "idle" /\ reqs'[r].mark = "none"
         /\ reqs'[r].pc \in {"verify", "check", "read"}
         /\ \A s \in Slots \ {r} : reqs'[s] = reqs[s]
         /\ UNCHANGED <<numbers, tplRows, tplMade, submitted>>
<1> DEFINE Goal == /\ SetupTypeOK' /\ KindInv'
                   /\ reqs[r].pc = "idle" /\ reqs'[r].mark = "none"
                   /\ reqs'[r].pc \in {"verify", "check", "read"}
                   /\ \A s \in Slots \ {r} : reqs'[s] = reqs[s]
                   /\ UNCHANGED <<numbers, tplRows, tplMade, submitted>>
<1>1. ASSUME NEW t \in Pages, SubmitConnect(t, r)
      PROVE  Goal
  <2>1. PICK p \in Phones :
          Send(r, [NoReq EXCEPT !.pc = "verify", !.page = t, !.owner = tabs[t].owner,
                                !.phone = p])
    BY <1>1 DEF SubmitConnect
  <2> DEFINE q == [NoReq EXCEPT !.pc = "verify", !.page = t, !.owner = tabs[t].owner,
                                !.phone = p]
  <2>2. tabs[t].owner \in Owners
    BY DEF SetupTypeOK, Tab
  <2>3. q \in Req /\ q.pc = "verify" /\ q.kind = "connect" /\ q.mark = "none"
    BY <2>2, NoReqIsTyped DEF Req, Pcs
  <2>4. Send(r, q)
    BY <2>1
  <2> HIDE DEF q
  <2> QED
    BY <2>3, <2>4, SendIs
<1>2. ASSUME NEW t \in Pages, SubmitTemplate(t, r)
      PROVE  Goal
  <2>1. PICK p \in tabs[t].offered, n \in Names, submit \in BOOLEAN :
          Send(r, [NoReq EXCEPT !.kind = "template", !.pc = "check", !.page = t,
                                !.owner = tabs[t].owner, !.phone = p, !.name = n,
                                !.submit = submit])
    BY <1>2 DEF SubmitTemplate
  <2> DEFINE q == [NoReq EXCEPT !.kind = "template", !.pc = "check", !.page = t,
                                !.owner = tabs[t].owner, !.phone = p, !.name = n,
                                !.submit = submit]
  <2>2. tabs[t].owner \in Owners /\ p \in Phones
    BY DEF SetupTypeOK, Tab
  <2>3. q \in Req /\ q.pc = "check" /\ q.kind = "template" /\ q.mark = "none"
    BY <2>2, NoReqIsTyped DEF Req, Pcs
  <2>4. Send(r, q)
    BY <2>1
  <2> HIDE DEF q
  <2> QED
    BY <2>3, <2>4, SendIs
<1>3. CASE SubmitDisconnect(r)
  <2>1. PICK o \in Owners, p \in Phones :
          Send(r, [NoReq EXCEPT !.kind = "disconnect", !.pc = "read", !.owner = o,
                                !.phone = p])
    BY <1>3 DEF SubmitDisconnect
  <2> DEFINE q == [NoReq EXCEPT !.kind = "disconnect", !.pc = "read", !.owner = o,
                                !.phone = p]
  <2>2. q \in Req /\ q.pc = "read" /\ q.kind = "disconnect" /\ q.mark = "none"
    BY NoReqIsTyped DEF Req, Pcs
  <2>3. Send(r, q)
    BY <2>1
  <2> HIDE DEF q
  <2> QED
    BY <2>2, <2>3, SendIs
<1>4. CASE SubmitDelete(r)
  <2>1. PICK o \in Owners, n \in Names :
          Send(r, [NoReq EXCEPT !.kind = "delete", !.pc = "read", !.owner = o,
                                !.name = n])
    BY <1>4 DEF SubmitDelete
  <2> DEFINE q == [NoReq EXCEPT !.kind = "delete", !.pc = "read", !.owner = o,
                                !.name = n]
  <2>2. q \in Req /\ q.pc = "read" /\ q.kind = "delete" /\ q.mark = "none"
    BY NoReqIsTyped DEF Req, Pcs
  <2>3. Send(r, q)
    BY <2>1
  <2> HIDE DEF q
  <2> QED
    BY <2>2, <2>3, SendIs
<1> QED
  BY <1>1, <1>2, <1>3, <1>4 DEF Submits

\* A step changes nothing of request s but what a page knows of it, or that
\* another request has written its row.
Calm(s) ==
  /\ Keeps(s) /\ reqs'[s].pc = reqs[s].pc
  /\ reqs'[s].mark = "wrote" => reqs[s].mark = "wrote"
  /\ reqs'[s].mark = "none" <=> reqs[s].mark = "none"

LEMMA StillCalm ==
  ASSUME NEW s, reqs'[s] = reqs[s] PROVE Calm(s)
BY DEF Calm, Keeps

\* A request moves to pc as Goes and Wrote move it; the others are calm.
LEMMA GoesCalm ==
  ASSUME SetupTypeOK, KindInv, NEW r \in Slots, NEW pc \in Pcs, Goes(r, pc),
         UNCHANGED <<tabs, sent>>,
         \/ pc \in {"ok", "refused"}
         \/ pc \in {"lookup", "insert", "update"} /\ reqs[r].kind = "connect"
         \/ pc \in {"draft", "submit", "record"} /\ reqs[r].kind = "template"
  PROVE  /\ reqs' \in [Slots -> Req] /\ KindInv'
         /\ reqs'[r].pc = pc /\ Keeps(r) /\ reqs'[r].mark = reqs[r].mark
         /\ \A s \in Slots \ {r} : Calm(s)
<1>1. /\ reqs' \in [Slots -> Req]
      /\ reqs'[r].pc = pc /\ Keeps(r) /\ reqs'[r].mark = reqs[r].mark
      /\ \A s \in Slots \ {r} : reqs'[s] = reqs[s]
  BY GoesIs DEF SetupTypeOK
<1>2. \A s \in Slots \ {r} : Calm(s)
  BY <1>1, StillCalm
<1>3. KindInv'
  BY <1>1, KindFrame DEF Keeps
<1> QED
  BY <1>1, <1>2, <1>3

LEMMA WroteCalm ==
  ASSUME SetupTypeOK, KindInv, NEW r \in Slots, Wrote(r, "ok")
  PROVE  /\ reqs' \in [Slots -> Req] /\ KindInv'
         /\ reqs'[r].pc = "ok" /\ Keeps(r) /\ reqs'[r].mark # "none"
         /\ \A s \in Slots \ {r} :
              Calm(s) /\ (reqs'[s].mark = "wrote" => ~SameRow(r, s))
<1>1. /\ reqs' \in [Slots -> Req]
      /\ reqs'[r].pc = "ok" /\ \A s \in Slots : Keeps(s)
      /\ \A s \in Slots \ {r} : reqs'[s].pc = reqs[s].pc
      /\ \A s \in Slots \ {r} : reqs'[s].mark = "wrote"
           => reqs[s].mark = "wrote" /\ ~SameRow(r, s)
      /\ \A s \in Slots : reqs'[s].mark = "none" <=> (reqs[s].mark = "none" /\ s # r)
  BY WroteIs DEF SetupTypeOK, Pcs
<1>2. KindInv'
  BY <1>1 DEF KindInv, Keeps
<1> QED
  BY <1>1, <1>2 DEF Calm

\* The steps of the pages and of a connection that breaks: each request is as
\* it was, or free.
Page(r) == Answered(r) \/ Breaks(r)

LEMMA PageIs ==
  ASSUME SetupTypeOK, KindInv, NEW r \in Slots, Page(r)
  PROVE  /\ SetupTypeOK' /\ KindInv'
         /\ \A s \in Slots : Calm(s) \/ reqs'[s] = NoReq
         /\ UNCHANGED <<numbers, tplRows, tplMade, submitted>>
<1>0. /\ UNCHANGED <<numbers, tplRows, tplMade, submitted, sent, setupEnv>>
      /\ tabs' \in [Pages -> Tab]
  <2>1. CASE Answered(r)
    <3>1. \A t \in Pages : [tabs EXCEPT ![t] = NoForm] \in [Pages -> Tab]
      BY NoReqIsTyped DEF SetupTypeOK
    <3>2. reqs[r].page \in Pages \cup {NoPage}
      BY DEF SetupTypeOK, Req
    <3> QED
      BY <2>1, <3>1, <3>2 DEF Answered, SetupTypeOK
  <2>2. CASE Breaks(r)
    BY <2>2 DEF Breaks, SetupTypeOK
  <2> QED
    BY <2>1, <2>2 DEF Page
<1>1. CASE reqs' = [reqs EXCEPT ![r] = NoReq]
  <2>1. /\ reqs' \in [Slots -> Req] /\ reqs'[r] = NoReq
        /\ \A s \in Slots \ {r} : reqs'[s] = reqs[s]
    BY <1>1, NoReqIsTyped DEF SetupTypeOK
  <2>2. \A s \in Slots : Calm(s) \/ reqs'[s] = NoReq
    BY <2>1, StillCalm
  <2>3. KindInv'
    BY <2>1, NoReqIsTyped DEF KindInv
  <2> QED
    BY <1>0, <2>1, <2>2, <2>3 DEF SetupTypeOK
<1>2. CASE reqs' = [reqs EXCEPT ![r].page = NoPage]
  <2>1. [reqs[r] EXCEPT !.page = NoPage] \in Req
    BY DEF SetupTypeOK, Req
  <2>2. /\ reqs' \in [Slots -> Req] /\ reqs'[r] = [reqs[r] EXCEPT !.page = NoPage]
        /\ \A s \in Slots \ {r} : reqs'[s] = reqs[s]
    BY <1>2, <2>1 DEF SetupTypeOK
  <2>3. Calm(r)
    <3>1. reqs[r] \in Req
      BY DEF SetupTypeOK
    <3> QED
      BY <2>2, <3>1 DEF Calm, Keeps, Req
  <2>4. \A s \in Slots : Calm(s)
    BY <2>2, <2>3, StillCalm
  <2>5. KindInv'
    BY <2>4 DEF KindInv, Calm, Keeps
  <2> QED
    BY <1>0, <2>2, <2>4, <2>5 DEF SetupTypeOK
<1> QED
  BY <1>1, <1>2 DEF Page, Answered, Breaks

LEMMA OpenIs ==
  ASSUME SetupTypeOK, KindInv, NEW t \in Pages, OpenForm(t)
  PROVE  /\ SetupTypeOK' /\ KindInv' /\ UNCHANGED <<numbers, tplRows, tplMade, submitted>>
         /\ \A s \in Slots : Calm(s)
<1>1. PICK o \in Owners, f \in {"connect", "template"} :
        tabs' = [tabs EXCEPT ![t] = [form |-> f, owner |-> o,
          offered |-> {p \in Phones : numbers[p].owner = o /\ numbers[p].connected}]]
  BY DEF OpenForm
<1>2. UNCHANGED <<numbers, tplRows, tplMade, submitted, reqs, sent, setupEnv>>
  BY DEF OpenForm
<1>3. [form |-> f, owner |-> o,
       offered |-> {p \in Phones : numbers[p].owner = o /\ numbers[p].connected}] \in Tab
  BY DEF Tab
<1>4. tabs' \in [Pages -> Tab]
  BY <1>1, <1>3 DEF SetupTypeOK
<1>5. SetupTypeOK' /\ KindInv'
  BY <1>2, <1>4 DEF SetupTypeOK, KindInv
<1> QED
  BY <1>2, <1>5, StillCalm

\* What the loads and the insert of a template do to their request.
LEMMA DisconnectIs ==
  ASSUME SetupTypeOK, KindInv, NEW r \in Slots, DisconnectLoad(r)
  PROVE  /\ reqs' \in [Slots -> Req] /\ KindInv'
         /\ Keeps(r) /\ reqs'[r].pc \in {"refused", "cut", "ok"}
         /\ reqs[r].kind = "disconnect"
         /\ reqs'[r].pc = "ok" => ~numbers[reqs[r].phone].connected
         /\ \A s \in Slots \ {r} : Calm(s)
<1> DEFINE row == numbers[reqs[r].phone]
           pc == IF row.owner # reqs[r].owner THEN "refused"
                 ELSE IF row.connected THEN "cut" ELSE "ok"
           mark == IF row.owner = reqs[r].owner /\ ~row.connected THEN "wrote"
                   ELSE reqs[r].mark
<1>1. reqs[r] \in Req /\ reqs[r].kind = "disconnect"
  BY DEF SetupTypeOK, DisconnectLoad
<1>2. reqs' = [reqs EXCEPT ![r] = [reqs[r] EXCEPT !.pc = pc, !.mark = mark]]
  BY <1>1 DEF DisconnectLoad, SetupTypeOK
<1>3. /\ pc \in {"refused", "cut", "ok"} /\ mark \in {"none", "wrote", "overtaken"}
      /\ pc = "ok" => ~row.connected
  <2>1. reqs[r].mark \in {"none", "wrote", "overtaken"}
    BY <1>1 DEF Req
  <2> QED
    BY <2>1
<1> HIDE DEF pc, mark
<1>4. [reqs[r] EXCEPT !.pc = pc, !.mark = mark] \in Req
  BY <1>1, <1>3 DEF Req, Pcs
<1>5. /\ reqs' \in [Slots -> Req] /\ reqs'[r].pc = pc /\ Keeps(r)
      /\ \A s \in Slots \ {r} : reqs'[s] = reqs[s]
  <2>1. /\ reqs' \in [Slots -> Req]
        /\ reqs'[r] = [reqs[r] EXCEPT !.pc = pc, !.mark = mark]
        /\ \A s \in Slots \ {r} : reqs'[s] = reqs[s]
    BY <1>2, <1>4 DEF SetupTypeOK
  <2> QED
    BY <1>1, <2>1 DEF Req, Keeps
<1>6. KindInv'
  BY <1>1, <1>3, <1>5, KindFrame DEF Keeps
<1> QED
  BY <1>1, <1>3, <1>5, <1>6, StillCalm

LEMMA DeleteIs ==
  ASSUME SetupTypeOK, KindInv, NEW r \in Slots, DeleteTplLoad(r)
  PROVE  /\ reqs' \in [Slots -> Req] /\ KindInv'
         /\ reqs[r].kind = "delete" /\ reqs'[r].kind = "delete"
         /\ reqs'[r].owner = reqs[r].owner /\ reqs'[r].name = reqs[r].name
         /\ reqs'[r].mark = reqs[r].mark
         /\ LET row == tplRows[KeyOf(r)] IN
            \/ reqs'[r].pc = "refused" /\ Keeps(r)
            \/ /\ row # NoSetupRow /\ reqs'[r].serial = row.id
               /\ reqs'[r].pc = IF row.status = "draft" THEN "drop" ELSE "disable"
         /\ \A s \in Slots \ {r} : Calm(s)
<1> DEFINE row == tplRows[KeyOf(r)]
           pc == IF row.status = "draft" THEN "drop" ELSE "disable"
<1>1. reqs[r] \in Req /\ reqs[r].kind = "delete" /\ KeyOf(r) \in Keys
  BY KeysAre DEF SetupTypeOK, DeleteTplLoad
<1>2. CASE row = NoSetupRow
  <2>1. Goes(r, "refused") /\ UNCHANGED <<tabs, sent>>
    BY <1>2 DEF DeleteTplLoad, others
  <2>2. reqs' \in [Slots -> Req] /\ KindInv' /\ reqs'[r].pc = "refused" /\ Keeps(r)
        /\ reqs'[r].mark = reqs[r].mark /\ \A s \in Slots \ {r} : Calm(s)
    BY <2>1, GoesCalm DEF Pcs
  <2> QED
    BY <1>1, <2>2 DEF Keeps
<1>3. CASE row # NoSetupRow
  <2>1. row.id \in Nat
    BY <1>1, <1>3 DEF SetupTypeOK, TplRow
  <2>2. reqs' = [reqs EXCEPT ![r] = [reqs[r] EXCEPT !.serial = row.id, !.pc = pc]]
    BY <1>1, <1>3 DEF DeleteTplLoad, SetupTypeOK
  <2>3. pc \in {"drop", "disable"}
    OBVIOUS
  <2> HIDE DEF pc
  <2>4. [reqs[r] EXCEPT !.serial = row.id, !.pc = pc] \in Req
    BY <1>1, <2>1, <2>3 DEF Req, Pcs
  <2>5. /\ reqs' \in [Slots -> Req]
        /\ reqs'[r] = [reqs[r] EXCEPT !.serial = row.id, !.pc = pc]
        /\ \A s \in Slots \ {r} : reqs'[s] = reqs[s]
    BY <2>2, <2>4 DEF SetupTypeOK
  <2>6. /\ reqs'[r].kind = "delete" /\ reqs'[r].serial = row.id /\ reqs'[r].pc = pc
        /\ reqs'[r].owner = reqs[r].owner /\ reqs'[r].name = reqs[r].name
        /\ reqs'[r].mark = reqs[r].mark
    BY <1>1, <2>5 DEF Req
  <2>7. KindInv'
    BY <1>1, <2>3, <2>5, <2>6, KindFrame
  <2>8. \A s \in Slots \ {r} : Calm(s)
    BY <2>5, StillCalm
  <2> QED
    BY <1>1, <1>3, <2>5, <2>6, <2>7, <2>8 DEF pc
<1> QED
  BY <1>2, <1>3

LEMMA DraftIs ==
  ASSUME SetupTypeOK, KindInv, NEW r \in Slots, InsertTplDraft(r)
  PROVE  LET k == KeyOf(r) IN
         /\ SetupTypeOK' /\ KindInv' /\ UNCHANGED <<numbers, submitted>>
         /\ reqs[r].kind = "template"
         /\ \A s \in Slots \ {r} : reqs'[s] = reqs[s]
         /\ \/ /\ UNCHANGED <<tplMade, tplRows>> /\ Keeps(r)
               /\ reqs'[r].pc = "refused" /\ reqs'[r].mark = reqs[r].mark
            \/ /\ tplRows[k] = NoSetupRow
               /\ tplRows'[k] = [status |-> "draft", id |-> tplMade[k] + 1]
               /\ tplMade'[k] = tplMade[k] + 1
               /\ \A j \in Keys \ {k} : tplRows'[j] = tplRows[j] /\ tplMade'[j] = tplMade[j]
               /\ reqs'[r].kind = "template" /\ reqs'[r].owner = reqs[r].owner
               /\ reqs'[r].name = reqs[r].name /\ reqs'[r].submit = reqs[r].submit
               /\ reqs'[r].serial = tplMade[k] + 1 /\ reqs'[r].mark = "wrote"
               /\ reqs'[r].pc = IF reqs[r].submit THEN "submit" ELSE "ok"
<1> DEFINE k == KeyOf(r)
           pc == IF reqs[r].submit THEN "submit" ELSE "ok"
           fresh == tplMade[k] + 1
<1>1. reqs[r] \in Req /\ reqs[r].kind = "template" /\ k \in Keys
      /\ UNCHANGED <<numbers, submitted, tabs, sent, setupEnv>>
  BY KeysAre DEF SetupTypeOK, InsertTplDraft, KindInv, others
<1>2. CASE tplRows[k] # NoSetupRow
  <2>1. Goes(r, "refused") /\ UNCHANGED <<tplMade, tplRows>>
    BY <1>2 DEF InsertTplDraft
  <2>2. reqs' \in [Slots -> Req] /\ KindInv' /\ reqs'[r].pc = "refused" /\ Keeps(r)
        /\ reqs'[r].mark = reqs[r].mark
    BY <1>1, <2>1, GoesCalm DEF Pcs
  <2>3. \A s \in Slots \ {r} : reqs'[s] = reqs[s]
    BY <2>1 DEF Goes, SetupTypeOK
  <2> QED
    BY <1>1, <2>1, <2>2, <2>3 DEF SetupTypeOK
<1>3. CASE tplRows[k] = NoSetupRow
  <2>1. /\ tplMade' = [tplMade EXCEPT ![k] = fresh]
        /\ tplRows' = [tplRows EXCEPT ![k] = [status |-> "draft", id |-> fresh]]
        /\ reqs' = [reqs EXCEPT ![r] =
             [reqs[r] EXCEPT !.pc = pc, !.serial = fresh, !.mark = "wrote"]]
    BY <1>1, <1>3 DEF InsertTplDraft, SetupTypeOK
  <2>2. pc \in {"submit", "ok"} /\ fresh \in Nat
    BY <1>1 DEF SetupTypeOK
  <2>3. [status |-> "draft", id |-> fresh] \in TplRow
    BY <2>2 DEF TplRow
  <2> HIDE DEF pc, fresh
  <2>4. [reqs[r] EXCEPT !.pc = pc, !.serial = fresh, !.mark = "wrote"] \in Req
    BY <1>1, <2>2 DEF Req, Pcs
  <2>5. /\ reqs' \in [Slots -> Req]
        /\ reqs'[r] = [reqs[r] EXCEPT !.pc = pc, !.serial = fresh, !.mark = "wrote"]
        /\ \A s \in Slots \ {r} : reqs'[s] = reqs[s]
    BY <2>1, <2>4 DEF SetupTypeOK
  <2>6. /\ reqs'[r].kind = "template" /\ reqs'[r].serial = fresh /\ reqs'[r].pc = pc
        /\ reqs'[r].owner = reqs[r].owner /\ reqs'[r].name = reqs[r].name
        /\ reqs'[r].mark = "wrote" /\ reqs'[r].submit = reqs[r].submit
    BY <1>1, <2>5 DEF Req
  <2>7. KindInv'
    BY <1>1, <2>2, <2>5, <2>6, KindFrame
  <2>8. /\ tplRows' \in [Keys -> TplRow \cup {NoSetupRow}] /\ tplMade' \in [Keys -> Nat]
        /\ tplRows'[k] = [status |-> "draft", id |-> fresh] /\ tplMade'[k] = fresh
        /\ \A j \in Keys \ {k} : tplRows'[j] = tplRows[j] /\ tplMade'[j] = tplMade[j]
    BY <1>1, <2>1, <2>2, <2>3 DEF SetupTypeOK
  <2>9. SetupTypeOK'
    BY <1>1, <2>5, <2>8 DEF SetupTypeOK
  <2> QED
    BY <1>1, <1>3, <2>5, <2>6, <2>7, <2>8, <2>9 DEF pc, fresh
<1> QED
  BY <1>2, <1>3

\* The updates of a template's row go by its id, and leave it.
LEMMA RowWritten ==
  ASSUME SetupTypeOK, NEW r \in Slots, RecordPending(r) \/ DeleteTplWrite(r)
  PROVE  LET k == KeyOf(r) IN
         /\ tplRows' \in [Keys -> TplRow \cup {NoSetupRow}]
         /\ \A j \in Keys \ {k} : tplRows'[j] = tplRows[j]
         /\ tplRows'[k] # NoSetupRow =>
              tplRows[k] # NoSetupRow /\ tplRows'[k].id = tplRows[k].id
         /\ ~StillThere(r) => tplRows'[k] = tplRows[k]
         /\ StillThere(r) /\ RecordPending(r) =>
              tplRows'[k] = [status |-> "pending", id |-> reqs[r].serial]
         /\ StillThere(r) /\ DeleteTplWrite(r) =>
              \/ reqs[r].pc = "drop" /\ tplRows'[k] = NoSetupRow
              \/ /\ reqs[r].pc = "disable" /\ tplRows'[k] # NoSetupRow
                 /\ tplRows'[k].status = "disabled"
<1> DEFINE k == KeyOf(r)
<1>1. k \in Keys
  BY KeysAre DEF SetupTypeOK
<1>2. CASE ~StillThere(r)
  <2>1. tplRows' = tplRows
    BY <1>2 DEF RecordPending, DeleteTplWrite
  <2> QED
    BY <1>2, <2>1 DEF SetupTypeOK
<1>3. CASE StillThere(r)
  <2>1. tplRows[k] \in TplRow /\ tplRows[k].id = reqs[r].serial
    BY <1>1, <1>3 DEF SetupTypeOK, StillThere
  <2>2. ASSUME NEW status \in {"pending", "disabled"}
        PROVE  /\ [tplRows[k] EXCEPT !.status = status] \in TplRow
               /\ [tplRows[k] EXCEPT !.status = status].id = tplRows[k].id
               /\ [tplRows[k] EXCEPT !.status = status].status = status
               /\ [tplRows[k] EXCEPT !.status = status] # NoSetupRow
               /\ [tplRows[k] EXCEPT !.status = status] =
                    [status |-> status, id |-> reqs[r].serial]
    <3>1. [tplRows[k] EXCEPT !.status = status] \in TplRow
          /\ [tplRows[k] EXCEPT !.status = status].id = tplRows[k].id
          /\ [tplRows[k] EXCEPT !.status = status].status = status
      BY <2>1 DEF TplRow
    <3>2. [tplRows[k] EXCEPT !.status = status] # NoSetupRow
      BY <3>1, NoRowIsATemplate DEF TplRow
    <3>3. [tplRows[k] EXCEPT !.status = status] = [status |-> status, id |-> reqs[r].serial]
      BY <2>1 DEF TplRow
    <3> QED
      BY <3>1, <3>2, <3>3
  <2>3. CASE RecordPending(r)
    <3>1. tplRows' = [tplRows EXCEPT ![k] = [tplRows[k] EXCEPT !.status = "pending"]]
          /\ ~DeleteTplWrite(r)
      BY <1>1, <1>3, <2>3 DEF RecordPending, DeleteTplWrite, SetupTypeOK
    <3>2. /\ tplRows' \in [Keys -> TplRow \cup {NoSetupRow}]
          /\ \A j \in Keys \ {k} : tplRows'[j] = tplRows[j]
          /\ tplRows'[k] = [tplRows[k] EXCEPT !.status = "pending"]
      BY <1>1, <2>2, <3>1 DEF SetupTypeOK
    <3> QED
      BY <1>3, <2>1, <2>2, <3>1, <3>2 DEF StillThere
  <2>4. CASE DeleteTplWrite(r) /\ reqs[r].pc = "drop"
    <3>1. tplRows' = [tplRows EXCEPT ![k] = NoSetupRow] /\ ~RecordPending(r)
      BY <1>1, <1>3, <2>4 DEF RecordPending, DeleteTplWrite, SetupTypeOK
    <3>2. /\ tplRows' \in [Keys -> TplRow \cup {NoSetupRow}]
          /\ \A j \in Keys \ {k} : tplRows'[j] = tplRows[j]
          /\ tplRows'[k] = NoSetupRow
      BY <1>1, <3>1 DEF SetupTypeOK
    <3> QED
      BY <1>3, <2>4, <3>1, <3>2
  <2>5. CASE DeleteTplWrite(r) /\ reqs[r].pc = "disable"
    <3>1. tplRows' = [tplRows EXCEPT ![k] = [tplRows[k] EXCEPT !.status = "disabled"]]
          /\ ~RecordPending(r)
      BY <1>1, <1>3, <2>5 DEF RecordPending, DeleteTplWrite, SetupTypeOK
    <3>2. /\ tplRows' \in [Keys -> TplRow \cup {NoSetupRow}]
          /\ \A j \in Keys \ {k} : tplRows'[j] = tplRows[j]
          /\ tplRows'[k] = [tplRows[k] EXCEPT !.status = "disabled"]
      BY <1>1, <2>2, <3>1 DEF SetupTypeOK
    <3> QED
      BY <1>3, <2>1, <2>2, <2>5, <3>1, <3>2 DEF StillThere
  <2> QED
    BY <2>3, <2>4, <2>5 DEF DeleteTplWrite
<1> QED
  BY <1>2, <1>3

LEMMA SetupTypesStep ==
  ASSUME SetupTypeOK, KindInv, [SetupNext]_setupVars
  PROVE  SetupTypeOK' /\ KindInv'
<1> DEFINE Fine == SetupTypeOK' /\ KindInv'
<1> USE DEF Pcs
<1>1. ASSUME NEW t \in Pages, OpenForm(t)
      PROVE  Fine
  BY <1>1, OpenIs
<1>2. ASSUME NEW r \in Slots, Submits(r) \/ Page(r)
      PROVE  Fine
  BY <1>2, SendsAre, PageIs
<1>3. ASSUME NEW r \in Slots, GetPhoneNumberInfo(r)
      PROVE  Fine
  <2>1. reqs[r].kind = "connect"
    BY <1>3 DEF GetPhoneNumberInfo, KindInv
  <2>2. reqs' \in [Slots -> Req] /\ KindInv'
    BY <1>3, <2>1, GoesCalm DEF GetPhoneNumberInfo, rest
  <2> QED
    BY <1>3, <2>2 DEF GetPhoneNumberInfo, rest, SetupTypeOK
<1>4. ASSUME NEW r \in Slots, LookupNumber(r)
      PROVE  Fine
  <2>1. reqs[r].kind = "connect"
    BY <1>4 DEF LookupNumber, KindInv
  <2>2. reqs' \in [Slots -> Req] /\ KindInv'
    BY <1>4, <2>1, GoesCalm DEF LookupNumber, rest
  <2> QED
    BY <1>4, <2>2 DEF LookupNumber, rest, SetupTypeOK
<1>5. ASSUME NEW r \in Slots, InsertNumber(r)
      PROVE  Fine
  <2>1. numbers' \in [Phones -> Number]
    <3>1. reqs[r].phone \in Phones /\ reqs[r].owner \in Owners /\ reqs[r].serial \in Nat
      BY KeysAre DEF SetupTypeOK
    <3>2. [owner |-> reqs[r].owner, token |-> reqs[r].serial, connected |-> TRUE] \in Number
      BY <3>1 DEF Number
    <3> QED
      BY <1>5, <3>1, <3>2 DEF InsertNumber, SetupTypeOK
  <2>2. reqs' \in [Slots -> Req] /\ KindInv'
    BY <1>5, GoesCalm, WroteCalm DEF InsertNumber, rest
  <2> QED
    BY <1>5, <2>1, <2>2 DEF InsertNumber, rest, SetupTypeOK
<1>6. ASSUME NEW r \in Slots, UpdateNumber(r) \/ DisconnectWrite(r)
      PROVE  Fine
  <2>1. numbers' \in [Phones -> Number]
    <3>1. reqs[r].phone \in Phones /\ reqs[r].serial \in Nat
      BY KeysAre DEF SetupTypeOK
    <3>2. numbers[reqs[r].phone] \in Number
      BY <3>1 DEF SetupTypeOK
    <3>3. /\ [numbers[reqs[r].phone] EXCEPT !.token = reqs[r].serial, !.connected = TRUE]
               \in Number
          /\ [numbers[reqs[r].phone] EXCEPT !.connected = FALSE] \in Number
      BY <3>1, <3>2 DEF Number
    <3>4. \/ numbers' = [numbers EXCEPT ![reqs[r].phone] =
               [numbers[reqs[r].phone] EXCEPT !.token = reqs[r].serial, !.connected = TRUE]]
          \/ numbers' = [numbers EXCEPT ![reqs[r].phone] =
               [numbers[reqs[r].phone] EXCEPT !.connected = FALSE]]
      BY <1>6, <3>1 DEF UpdateNumber, DisconnectWrite, SetupTypeOK
    <3> QED
      BY <3>1, <3>3, <3>4 DEF SetupTypeOK
  <2>2. reqs' \in [Slots -> Req] /\ KindInv'
    BY <1>6, WroteCalm DEF UpdateNumber, DisconnectWrite
  <2> QED
    BY <1>6, <2>1, <2>2 DEF UpdateNumber, DisconnectWrite, rest, SetupTypeOK
<1>7. ASSUME NEW r \in Slots, DisconnectLoad(r)
      PROVE  Fine
  <2>1. reqs' \in [Slots -> Req] /\ KindInv'
    BY <1>7, DisconnectIs
  <2> QED
    BY <1>7, <2>1 DEF DisconnectLoad, rest, SetupTypeOK
<1>8. ASSUME NEW r \in Slots, CheckNumber(r)
      PROVE  Fine
  <2>1. reqs[r].kind = "template"
    BY <1>8 DEF CheckNumber, KindInv
  <2>2. reqs' \in [Slots -> Req] /\ KindInv'
    <3>1. Goes(r, "draft") \/ Goes(r, "refused")
      BY <1>8 DEF CheckNumber
    <3> QED
      BY <1>8, <2>1, <3>1, GoesCalm DEF CheckNumber, others
  <2> QED
    BY <1>8, <2>2 DEF CheckNumber, others, SetupTypeOK
<1>9. ASSUME NEW r \in Slots, InsertTplDraft(r)
      PROVE  Fine
  BY <1>9, DraftIs
<1>10. ASSUME NEW r \in Slots, SubmitToMeta(r)
       PROVE  Fine
  <2>1. reqs[r].kind = "template"
    BY <1>10 DEF SubmitToMeta, KindInv
  <2>2. reqs' \in [Slots -> Req] /\ KindInv'
    BY <1>10, <2>1, GoesCalm DEF SubmitToMeta, others
  <2>3. submitted' \in [Keys -> Nat]
    BY <1>10, KeysAre DEF SubmitToMeta, SetupTypeOK
  <2> QED
    BY <1>10, <2>2, <2>3 DEF SubmitToMeta, others, SetupTypeOK
<1>11. ASSUME NEW r \in Slots, RecordPending(r) \/ DeleteTplWrite(r)
       PROVE  Fine
  <2>1. reqs' \in [Slots -> Req] /\ KindInv'
    BY <1>11, GoesCalm, WroteCalm DEF RecordPending, DeleteTplWrite, others
  <2>2. tplRows' \in [Keys -> TplRow \cup {NoSetupRow}]
    BY <1>11, RowWritten
  <2> QED
    BY <1>11, <2>1, <2>2 DEF RecordPending, DeleteTplWrite, others, SetupTypeOK
<1>12. ASSUME NEW r \in Slots, DeleteTplLoad(r)
       PROVE  Fine
  <2>1. reqs' \in [Slots -> Req] /\ KindInv'
    BY <1>12, DeleteIs
  <2> QED
    BY <1>12, <2>1 DEF DeleteTplLoad, others, SetupTypeOK
<1>13. ASSUME NEW r \in Slots, Rejects(r)
       PROVE  Fine
  <2>1. reqs' \in [Slots -> Req] /\ KindInv'
    BY <1>13, GoesCalm DEF Rejects
  <2> QED
    BY <1>13, <2>1 DEF Rejects, SetupTypeOK
<1>14. CASE UNCHANGED setupVars
  BY <1>14 DEF setupVars, SetupTypeOK, KindInv
<1> QED
  BY <1>1, <1>2, <1>3, <1>4, <1>5, <1>6, <1>7, <1>8, <1>9, <1>10, <1>11, <1>12,
     <1>13,
     <1>14 DEF SetupNext, Submits, Page

\* NumberPart says nothing of a request that writes no number and answers none.
LEMMA NumberFrame ==
  ASSUME SetupTypeOK, NumberPart, KindInv', numbers' = numbers,
         \A s \in Slots : \/ Calm(s)
                          \/ reqs'[s].pc \notin {"update", "ok"}
                          \/ reqs'[s].kind \in {"template", "delete"}
  PROVE  NumberPart'
<1>1. OwnNumberInv'
  <2> SUFFICES ASSUME NEW s \in Slots, reqs'[s].pc = "update"
               PROVE  numbers'[reqs'[s].phone].owner = reqs'[s].owner
    BY DEF OwnNumberInv
  <2>1. Calm(s)
    BY DEF KindInv
  <2> QED
    BY <2>1 DEF Calm, Keeps, NumberPart, OwnNumberInv
<1>2. NumberAnswers'
  <2> SUFFICES ASSUME NEW s \in Slots, reqs'[s].pc = "ok", reqs'[s].mark = "wrote",
                      reqs'[s].kind \in {"connect", "disconnect"}
               PROVE  /\ reqs'[s].kind = "connect" =>
                           numbers'[reqs'[s].phone] =
                             [owner |-> reqs'[s].owner, token |-> reqs'[s].serial,
                              connected |-> TRUE]
                      /\ reqs'[s].kind = "disconnect" => ~numbers'[reqs'[s].phone].connected
    BY DEF NumberAnswers, Answers
  <2>1. Calm(s)
    OBVIOUS
  <2> QED
    BY <2>1 DEF Calm, Keeps, NumberPart, NumberAnswers, Answers
<1> QED
  BY <1>1, <1>2 DEF NumberPart

\* A request writes its number, and answers.
LEMMA NumberWritten ==
  ASSUME SetupTypeOK, KindInv, NumberPart, NEW r \in Slots, Wrote(r, "ok"),
         reqs[r].kind \in {"connect", "disconnect"},
         \A q \in Phones \ {reqs[r].phone} : numbers'[q] = numbers[q],
         reqs[r].kind = "connect" =>
           numbers'[reqs[r].phone] =
             [owner |-> reqs[r].owner, token |-> reqs[r].serial, connected |-> TRUE],
         reqs[r].kind = "disconnect" => ~numbers'[reqs[r].phone].connected,
         numbers[reqs[r].phone].owner # NoOwner
           => numbers'[reqs[r].phone].owner = numbers[reqs[r].phone].owner
  PROVE  NumberPart'
<1>1. /\ reqs'[r].pc = "ok" /\ Keeps(r)
      /\ \A s \in Slots \ {r} : Calm(s) /\ (reqs'[s].mark = "wrote" => ~SameRow(r, s))
  BY WroteCalm
<1>2. \A s \in Slots : reqs[s].phone \in Phones /\ reqs[s].owner \in Owners
  BY KeysAre DEF SetupTypeOK
<1>3. OwnNumberInv'
  <2> SUFFICES ASSUME NEW s \in Slots, reqs'[s].pc = "update"
               PROVE  numbers'[reqs'[s].phone].owner = reqs'[s].owner
    BY DEF OwnNumberInv
  <2>1. s # r /\ Calm(s)
    BY <1>1
  <2>2. numbers[reqs[s].phone].owner = reqs[s].owner
    BY <2>1 DEF Calm, NumberPart, OwnNumberInv
  <2>3. numbers[reqs[s].phone].owner # NoOwner
    BY <1>2, <2>2, SetupAssumption
  <2>4. numbers'[reqs[s].phone].owner = numbers[reqs[s].phone].owner
    BY <1>2, <2>3
  <2> QED
    BY <2>1, <2>2, <2>4 DEF Calm, Keeps
<1>4. NumberAnswers'
  <2> SUFFICES ASSUME NEW s \in Slots, reqs'[s].pc = "ok", reqs'[s].mark = "wrote",
                      reqs'[s].kind \in {"connect", "disconnect"}
               PROVE  /\ reqs'[s].kind = "connect" =>
                           numbers'[reqs'[s].phone] =
                             [owner |-> reqs'[s].owner, token |-> reqs'[s].serial,
                              connected |-> TRUE]
                      /\ reqs'[s].kind = "disconnect" => ~numbers'[reqs'[s].phone].connected
    BY DEF NumberAnswers, Answers
  <2>1. CASE s = r
    BY <1>1, <2>1 DEF Keeps
  <2>2. CASE s # r
    <3>1. Calm(s) /\ ~SameRow(r, s) /\ reqs[s].kind \in {"connect", "disconnect"}
      BY <1>1, <2>2 DEF Calm, Keeps
    <3>2. reqs[s].phone # reqs[r].phone
      BY <3>1 DEF SameRow, Templating
    <3>3. numbers'[reqs[s].phone] = numbers[reqs[s].phone]
      BY <1>2, <3>2
    <3>4. reqs[s].pc = "ok" /\ reqs[s].mark = "wrote"
      BY <3>1 DEF Calm
    <3>5. /\ reqs[s].kind = "connect" =>
               numbers[reqs[s].phone] =
                 [owner |-> reqs[s].owner, token |-> reqs[s].serial, connected |-> TRUE]
          /\ reqs[s].kind = "disconnect" => ~numbers[reqs[s].phone].connected
      BY <3>4 DEF NumberPart, NumberAnswers, Answers
    <3> QED
      BY <3>1, <3>3, <3>5 DEF Calm, Keeps
  <2> QED
    BY <2>1, <2>2
<1> QED
  BY <1>3, <1>4 DEF NumberPart

LEMMA NumberStep ==
  ASSUME SetupTypeOK, KindInv, NumberPart, [SetupNext]_setupVars
  PROVE  NumberPart'
<1>0. SetupTypeOK' /\ KindInv'
  BY SetupTypesStep
<1>t. \A r \in Slots : reqs[r].phone \in Phones /\ reqs[r].owner \in Owners
                       /\ reqs[r].serial \in Nat
  BY KeysAre DEF SetupTypeOK
<1> USE DEF Pcs
<1>1. ASSUME NEW t \in Pages, OpenForm(t)
      PROVE  NumberPart'
  BY <1>0, <1>1, OpenIs, NumberFrame
<1>2. ASSUME NEW r \in Slots, Submits(r)
      PROVE  NumberPart'
  <2>1. numbers' = numbers /\ reqs'[r].pc \in {"verify", "check", "read"}
        /\ \A s \in Slots \ {r} : Calm(s)
    BY <1>2, SendsAre, StillCalm
  <2> QED
    BY <1>0, <2>1, NumberFrame
<1>3. ASSUME NEW r \in Slots, Page(r)
      PROVE  NumberPart'
  <2>1. numbers' = numbers /\ \A s \in Slots : Calm(s) \/ reqs'[s].pc = "idle"
    BY <1>3, PageIs, NoReqIsTyped
  <2> QED
    BY <1>0, <2>1, NumberFrame
<1>4. ASSUME NEW r \in Slots, GetPhoneNumberInfo(r)
      PROVE  NumberPart'
  <2>1. reqs[r].kind = "connect" /\ numbers' = numbers /\ UNCHANGED <<tabs, sent>>
    BY <1>4 DEF GetPhoneNumberInfo, KindInv, rest
  <2>2. reqs'[r].pc \in {"lookup", "refused"} /\ \A s \in Slots \ {r} : Calm(s)
    BY <1>4, <2>1, GoesCalm DEF GetPhoneNumberInfo
  <2> QED
    BY <1>0, <2>1, <2>2, NumberFrame
<1>5. ASSUME NEW r \in Slots, LookupNumber(r)
      PROVE  NumberPart'
  <2>1. reqs[r].kind = "connect" /\ numbers' = numbers /\ UNCHANGED <<tabs, sent>>
    BY <1>5 DEF LookupNumber, KindInv, rest
  <2>2. CASE Goes(r, "insert")
    <3>1. reqs'[r].pc = "insert" /\ \A s \in Slots \ {r} : Calm(s)
      BY <2>1, <2>2, GoesCalm
    <3> QED
      BY <1>0, <2>1, <3>1, NumberFrame
  <2>3. CASE Goes(r, "update") /\ numbers[reqs[r].phone].owner = reqs[r].owner
    <3>1. reqs'[r].pc = "update" /\ Keeps(r) /\ \A s \in Slots \ {r} : Calm(s)
      BY <2>1, <2>3, GoesCalm
    <3>2. OwnNumberInv'
      <4> SUFFICES ASSUME NEW s \in Slots, reqs'[s].pc = "update"
                   PROVE  numbers'[reqs'[s].phone].owner = reqs'[s].owner
        BY DEF OwnNumberInv
      <4>1. Keeps(s) /\ (s # r => reqs[s].pc = "update")
        BY <3>1 DEF Calm
      <4>2. numbers[reqs[s].phone].owner = reqs[s].owner
        BY <2>3, <4>1 DEF NumberPart, OwnNumberInv
      <4> QED
        BY <2>1, <4>1, <4>2 DEF Keeps
    <3>3. NumberAnswers'
      <4> SUFFICES ASSUME NEW s \in Slots, reqs'[s].pc = "ok", reqs'[s].mark = "wrote"
                   PROVE  /\ reqs'[s].kind = "connect" =>
                               numbers'[reqs'[s].phone] =
                                 [owner |-> reqs'[s].owner, token |-> reqs'[s].serial,
                                  connected |-> TRUE]
                          /\ reqs'[s].kind = "disconnect" =>
                               ~numbers'[reqs'[s].phone].connected
        BY DEF NumberAnswers, Answers
      <4>1. Calm(s)
        BY <3>1
      <4> QED
        BY <2>1, <4>1 DEF Calm, Keeps, NumberPart, NumberAnswers, Answers
    <3> QED
      BY <3>2, <3>3 DEF NumberPart
  <2> QED
    BY <1>5, <2>2, <2>3 DEF LookupNumber
<1>6. ASSUME NEW r \in Slots, InsertNumber(r)
      PROVE  NumberPart'
  <2>1. reqs[r].kind = "connect" /\ UNCHANGED <<tabs, sent>>
    BY <1>6 DEF InsertNumber, KindInv, rest
  <2>2. CASE numbers[reqs[r].phone].owner # NoOwner
    <3>1. Goes(r, "refused") /\ numbers' = numbers
      BY <1>6, <2>2 DEF InsertNumber
    <3>2. reqs'[r].pc = "refused" /\ \A s \in Slots \ {r} : Calm(s)
      BY <2>1, <3>1, GoesCalm
    <3> QED
      BY <1>0, <3>1, <3>2, NumberFrame
  <2>3. CASE numbers[reqs[r].phone].owner = NoOwner
    <3>1. /\ Wrote(r, "ok")
          /\ numbers' = [numbers EXCEPT ![reqs[r].phone] =
               [owner |-> reqs[r].owner, token |-> reqs[r].serial, connected |-> TRUE]]
      BY <1>6, <2>3 DEF InsertNumber
    <3>2. /\ \A q \in Phones \ {reqs[r].phone} : numbers'[q] = numbers[q]
          /\ numbers'[reqs[r].phone] =
               [owner |-> reqs[r].owner, token |-> reqs[r].serial, connected |-> TRUE]
      BY <1>t, <3>1 DEF SetupTypeOK
    <3> QED
      BY <2>1, <2>3, <3>1, <3>2, NumberWritten
  <2> QED
    BY <2>2, <2>3
<1>7. ASSUME NEW r \in Slots, UpdateNumber(r)
      PROVE  NumberPart'
  <2> DEFINE p == reqs[r].phone
  <2>1. reqs[r].kind = "connect" /\ Wrote(r, "ok") /\ numbers[p].owner = reqs[r].owner
    BY <1>7 DEF UpdateNumber, KindInv, NumberPart, OwnNumberInv
  <2>2. numbers[p] \in Number /\ p \in Phones
    BY <1>t DEF SetupTypeOK
  <2>3. /\ \A q \in Phones \ {p} : numbers'[q] = numbers[q]
        /\ numbers'[p] = [numbers[p] EXCEPT !.token = reqs[r].serial, !.connected = TRUE]
    BY <1>7, <2>2 DEF UpdateNumber, SetupTypeOK
  <2>4. numbers'[p] =
          [owner |-> reqs[r].owner, token |-> reqs[r].serial, connected |-> TRUE]
    BY <2>1, <2>2, <2>3 DEF Number
  <2>5. numbers'[p].owner = numbers[p].owner
    BY <2>1, <2>4
  <2> QED
    BY <2>1, <2>3, <2>4, <2>5, NumberWritten
<1>8. ASSUME NEW r \in Slots, DisconnectWrite(r)
      PROVE  NumberPart'
  <2> DEFINE p == reqs[r].phone
  <2>1. reqs[r].kind = "disconnect" /\ Wrote(r, "ok")
    BY <1>8 DEF DisconnectWrite, KindInv
  <2>2. numbers[p] \in Number /\ p \in Phones
    BY <1>t DEF SetupTypeOK
  <2>3. /\ \A q \in Phones \ {p} : numbers'[q] = numbers[q]
        /\ numbers'[p] = [numbers[p] EXCEPT !.connected = FALSE]
    BY <1>8, <2>2 DEF DisconnectWrite, SetupTypeOK
  <2>4. numbers'[p].owner = numbers[p].owner /\ ~numbers'[p].connected
    BY <2>2, <2>3 DEF Number
  <2> QED
    BY <2>1, <2>3, <2>4, NumberWritten
<1>9. ASSUME NEW r \in Slots, DisconnectLoad(r)
      PROVE  NumberPart'
  <2>1. numbers' = numbers
    BY <1>9 DEF DisconnectLoad
  <2>2. /\ Keeps(r) /\ reqs'[r].pc \in {"refused", "cut", "ok"}
        /\ reqs[r].kind = "disconnect"
        /\ reqs'[r].pc = "ok" => ~numbers[reqs[r].phone].connected
        /\ \A s \in Slots \ {r} : Calm(s)
    BY <1>9, DisconnectIs
  <2>3. OwnNumberInv'
    <3> SUFFICES ASSUME NEW s \in Slots, reqs'[s].pc = "update"
                 PROVE  numbers'[reqs'[s].phone].owner = reqs'[s].owner
      BY DEF OwnNumberInv
    <3>1. Calm(s)
      BY <2>2
    <3> QED
      BY <2>1, <3>1 DEF Calm, Keeps, NumberPart, OwnNumberInv
  <2>4. NumberAnswers'
    <3> SUFFICES ASSUME NEW s \in Slots, reqs'[s].pc = "ok", reqs'[s].mark = "wrote"
                 PROVE  /\ reqs'[s].kind = "connect" =>
                             numbers'[reqs'[s].phone] =
                               [owner |-> reqs'[s].owner, token |-> reqs'[s].serial,
                                connected |-> TRUE]
                        /\ reqs'[s].kind = "disconnect" =>
                             ~numbers'[reqs'[s].phone].connected
      BY DEF NumberAnswers, Answers
    <3>1. CASE s = r
      BY <2>1, <2>2, <3>1 DEF Keeps
    <3>2. CASE s # r
      <4>1. Calm(s)
        BY <2>2, <3>2
      <4> QED
        BY <2>1, <4>1 DEF Calm, Keeps, NumberPart, NumberAnswers, Answers
    <3> QED
      BY <3>1, <3>2
  <2> QED
    BY <2>3, <2>4 DEF NumberPart
<1>10. ASSUME NEW r \in Slots,
              CheckNumber(r) \/ SubmitToMeta(r) \/ RecordPending(r) \/ Rejects(r)
       PROVE  NumberPart'
  <2>1. numbers' = numbers /\ UNCHANGED <<tabs, sent>>
    BY <1>10 DEF CheckNumber, SubmitToMeta, RecordPending, Rejects, others
  <2>2. CASE Goes(r, "refused")
    <3>1. reqs'[r].pc = "refused" /\ \A s \in Slots \ {r} : Calm(s)
      BY <2>1, <2>2, GoesCalm
    <3> QED
      BY <1>0, <2>1, <3>1, NumberFrame
  <2>3. CASE ~Goes(r, "refused")
    <3>1. /\ reqs[r].kind = "template"
          /\ Goes(r, "draft") \/ Goes(r, "record") \/ Goes(r, "ok")
      BY <1>10, <2>3 DEF CheckNumber, SubmitToMeta, RecordPending, Rejects, KindInv
    <3>2. reqs'[r].kind = "template" /\ \A s \in Slots \ {r} : Calm(s)
      BY <2>1, <3>1, GoesCalm DEF Keeps
    <3> QED
      BY <1>0, <2>1, <3>2, NumberFrame
  <2> QED
    BY <2>2, <2>3
<1>11. ASSUME NEW r \in Slots, InsertTplDraft(r)
       PROVE  NumberPart'
  <2>1. numbers' = numbers /\ \A s \in Slots \ {r} : Calm(s)
    BY <1>11, DraftIs, StillCalm
  <2>2. reqs'[r].kind = "template"
    BY <1>11, DraftIs DEF Keeps
  <2> QED
    BY <1>0, <2>1, <2>2, NumberFrame
<1>12. ASSUME NEW r \in Slots, DeleteTplLoad(r)
       PROVE  NumberPart'
  <2>1. numbers' = numbers /\ reqs'[r].kind = "delete" /\ \A s \in Slots \ {r} : Calm(s)
    BY <1>12, DeleteIs DEF DeleteTplLoad, others
  <2> QED
    BY <1>0, <2>1, NumberFrame
<1>13. ASSUME NEW r \in Slots, DeleteTplWrite(r)
       PROVE  NumberPart'
  <2>1. numbers' = numbers /\ reqs'[r].kind = "delete" /\ \A s \in Slots \ {r} : Calm(s)
    BY <1>13, WroteCalm DEF DeleteTplWrite, others, KindInv, Keeps
  <2> QED
    BY <1>0, <2>1, NumberFrame
<1>14. CASE UNCHANGED setupVars
  BY <1>0, <1>14, NumberFrame, StillCalm DEF setupVars
<1> QED
  BY <1>1, <1>2, <1>3, <1>4, <1>5, <1>6, <1>7, <1>8, <1>9, <1>10, <1>11, <1>12,
     <1>13,
     <1>14 DEF SetupNext, Submits, Page

\* TplPart says nothing of requests that are about no row of a template, or not
\* yet, or no longer.
LEMMA TplFrame ==
  ASSUME SetupTypeOK, SetupTypeOK', KindInv', TplPart, UNCHANGED <<tplRows, tplMade, submitted>>,
         \A s \in Slots :
           \/ Calm(s)
           \/ reqs'[s].kind \notin {"template", "delete"}
           \/ /\ reqs'[s].pc \notin {"submit", "record", "drop", "disable", "ok"}
              /\ \/ reqs'[s].mark = "none"
                 \/ Keeps(s) /\ (reqs'[s].mark = "none" <=> reqs[s].mark = "none")
  PROVE  TplPart'
<1>1. \A s \in Slots : Inserted(s)' => Inserted(s) /\ Keeps(s)
  BY DEF Inserted, Calm, Keeps
<1>2. \A s \in Slots : Submitting(s)' => Submitting(s) /\ Calm(s)
  BY DEF Submitting, Calm, Keeps
<1>3. \A s \in Slots : Deleting(s)' => Deleting(s) /\ Calm(s)
  BY DEF Deleting, Calm, Keeps
<1>4. ASSUME NEW s \in Slots, Answers(s, "template")' \/ Answers(s, "delete")'
      PROVE  Calm(s)
  BY <1>4 DEF Answers
<1>5. \A s \in Slots : Keeps(s) => KeyOf(s)' = KeyOf(s) /\ (StillThere(s)' <=> StillThere(s))
  BY DEF Keeps, KeyOf, StillThere
<1>6. \A s \in Slots : Calm(s) => Keeps(s)
  BY DEF Calm
<1>7. SerialsInv'
  <2>1. ASSUME NEW s \in Slots, Inserted(s)' \/ Deleting(s)'
        PROVE  reqs'[s].serial <= tplMade'[KeyOf(s)']
    <3>1. Keeps(s) /\ (Inserted(s) \/ Deleting(s))
      BY <1>1, <1>3, <1>6, <2>1
    <3> QED
      BY <1>5, <3>1 DEF Keeps, TplPart, SerialsInv
  <2>2. ASSUME NEW s \in Slots, NEW q \in Slots, s # q, Inserted(s)', Inserted(q)',
               KeyOf(s)' = KeyOf(q)'
        PROVE  reqs'[s].serial # reqs'[q].serial
    <3>1. Keeps(s) /\ Inserted(s) /\ Keeps(q) /\ Inserted(q)
      BY <1>1, <2>2
    <3> QED
      BY <1>5, <2>2, <3>1 DEF Keeps, TplPart, SerialsInv
  <2> QED
    BY <2>1, <2>2 DEF SerialsInv, TplPart
<1>8. DraftInv'
  <2> SUFFICES ASSUME NEW s \in Slots, Submitting(s)'
               PROVE  /\ Inserted(s)' /\ reqs'[s].submit
                      /\ reqs'[s].mark = "wrote" => StillThere(s)'
                      /\ StillThere(s)' => tplRows'[KeyOf(s)'].status = "draft"
    BY DEF DraftInv
  <2>1. Submitting(s) /\ Calm(s) /\ Keeps(s) /\ KeyOf(s)' = KeyOf(s)
        /\ (StillThere(s)' <=> StillThere(s))
    BY <1>2, <1>5, <1>6
  <2>2. /\ Inserted(s) /\ reqs[s].submit
        /\ reqs[s].mark = "wrote" => StillThere(s)
        /\ StillThere(s) => tplRows[KeyOf(s)].status = "draft"
    BY <2>1 DEF TplPart, DraftInv
  <2> QED
    BY <2>1, <2>2 DEF Calm, Keeps, Inserted
<1>9. DeleteInv'
  <2> SUFFICES ASSUME NEW r \in Slots, NEW s \in Slots, Deleting(s)', Submitting(r)',
                      KeyOf(r)' = KeyOf(s)',
                      reqs'[s].pc = "disable" \/ (reqs'[s].pc = "ok" /\ StillThere(s)')
               PROVE  reqs'[r].serial # reqs'[s].serial
    BY DEF DeleteInv
  <2>1. Deleting(s) /\ Submitting(r) /\ Calm(s) /\ Keeps(s) /\ Keeps(r)
    BY <1>2, <1>3, <1>6
  <2> QED
    BY <1>5, <2>1 DEF Calm, Keeps, TplPart, DeleteInv
<1>10. PendingInv'
  <2> SUFFICES ASSUME NEW k \in Keys
               PROVE  IsFiniteSet(Pending(k)')
                      /\ submitted'[k] + Cardinality(Pending(k)') <= tplMade'[k]
    BY DEF PendingInv
  <2>1. Pending(k)' \subseteq Pending(k)
    <3> SUFFICES ASSUME NEW s \in Slots, reqs'[s].pc = "submit", KeyOf(s)' = k
                 PROVE  reqs[s].pc = "submit" /\ KeyOf(s) = k
      BY DEF Pending
    <3>1. Submitting(s)'
      BY DEF KindInv, Submitting
    <3> QED
      BY <1>2, <1>5, <1>6, <3>1 DEF Calm
  <2>2. IsFiniteSet(Pending(k)) /\ submitted[k] + Cardinality(Pending(k)) <= tplMade[k]
    BY DEF TplPart, PendingInv
  <2>3. IsFiniteSet(Pending(k)') /\ Cardinality(Pending(k)') <= Cardinality(Pending(k))
        /\ Cardinality(Pending(k)') \in Nat /\ Cardinality(Pending(k)) \in Nat
    BY <2>1, <2>2, FS_Subset, FS_CardinalityType
  <2> HIDE DEF Pending
  <2> QED
    BY <2>2, <2>3 DEF SetupTypeOK
<1>11. TplAnswers'
  <2>1. ASSUME NEW s \in Slots, Answers(s, "template")'
        PROVE  tplRows'[KeyOf(s)'] =
                 [status |-> IF reqs'[s].submit THEN "pending" ELSE "draft",
                  id |-> reqs'[s].serial]
    <3>1. Calm(s)
      BY <1>4, <2>1
    <3>2. Answers(s, "template") /\ Keeps(s) /\ KeyOf(s)' = KeyOf(s)
      BY <1>5, <2>1, <3>1 DEF Answers, Calm, Keeps
    <3>3. tplRows[KeyOf(s)] = [status |-> IF reqs[s].submit THEN "pending" ELSE "draft",
                               id |-> reqs[s].serial]
      BY <3>2 DEF TplPart, TplAnswers
    <3> QED
      BY <3>2, <3>3 DEF Keeps
  <2>2. ASSUME NEW s \in Slots, Answers(s, "delete")', StillThere(s)'
        PROVE  tplRows'[KeyOf(s)'].status = "disabled"
    <3>1. Calm(s)
      BY <1>4, <2>2
    <3>2. Answers(s, "delete") /\ KeyOf(s)' = KeyOf(s) /\ StillThere(s)
      BY <1>5, <1>6, <2>2, <3>1 DEF Answers, Calm, Keeps
    <3> QED
      BY <3>2 DEF TplPart, TplAnswers
  <2> QED
    BY <2>1, <2>2 DEF TplAnswers
<1> QED
  BY <1>7, <1>8, <1>9, <1>10, <1>11 DEF TplPart

\* The draft that a request inserts has a number that no other request has.
LEMMA DraftKeepsTpl ==
  ASSUME SetupTypeOK, KindInv, TplPart, NEW r \in Slots, InsertTplDraft(r)
  PROVE  TplPart'
<1> DEFINE k == KeyOf(r)
<1>0. /\ SetupTypeOK' /\ KindInv' /\ submitted' = submitted
      /\ reqs[r].kind = "template" /\ reqs[r].pc = "draft"
      /\ \A s \in Slots \ {r} : reqs'[s] = reqs[s]
  BY DraftIs DEF InsertTplDraft
<1>t. /\ \A s \in Slots : KeyOf(s) \in Keys /\ reqs[s].serial \in Nat
      /\ \A j \in Keys : tplMade[j] \in Nat /\ submitted[j] \in Nat
  BY KeysAre DEF SetupTypeOK
<1>1. CASE /\ UNCHANGED <<tplMade, tplRows>> /\ Keeps(r)
           /\ reqs'[r].pc = "refused" /\ reqs'[r].mark = reqs[r].mark
  BY <1>0, <1>1, TplFrame, StillCalm
<1>2. CASE /\ tplRows[k] = NoSetupRow
           /\ tplRows'[k] = [status |-> "draft", id |-> tplMade[k] + 1]
           /\ tplMade'[k] = tplMade[k] + 1
           /\ \A j \in Keys \ {k} : tplRows'[j] = tplRows[j] /\ tplMade'[j] = tplMade[j]
           /\ reqs'[r].kind = "template" /\ reqs'[r].owner = reqs[r].owner
           /\ reqs'[r].name = reqs[r].name /\ reqs'[r].submit = reqs[r].submit
           /\ reqs'[r].serial = tplMade[k] + 1 /\ reqs'[r].mark = "wrote"
           /\ reqs'[r].pc = IF reqs[r].submit THEN "submit" ELSE "ok"
  <2>1. /\ \A s \in Slots : KeyOf(s)' = KeyOf(s)
        /\ \A s \in Slots \ {r} :
             /\ Inserted(s)' <=> Inserted(s)
             /\ Submitting(s)' <=> Submitting(s)
             /\ Deleting(s)' <=> Deleting(s)
             /\ reqs'[s].serial = reqs[s].serial
             /\ KeyOf(s) # k => (StillThere(s)' <=> StillThere(s))
    BY <1>0, <1>2, <1>t DEF KeyOf, Inserted, Submitting, Deleting, StillThere
  <2>2. tplRows'[k].id = tplMade[k] + 1 /\ tplRows'[k].status = "draft"
    BY <1>2
  <2>3. \A s \in Slots \ {r} : /\ Inserted(s) \/ Deleting(s) => reqs[s].serial <= tplMade[KeyOf(s)]
                               /\ KeyOf(s) = k => ~StillThere(s)
    BY <1>2 DEF TplPart, SerialsInv, StillThere
  <2>4. ASSUME NEW s \in Slots \ {r}, Inserted(s) \/ Deleting(s), KeyOf(s) = k
        PROVE  ~StillThere(s)' /\ reqs[s].serial # tplMade[k] + 1
    BY <1>t, <2>1, <2>2, <2>3, <2>4 DEF StillThere
  <2>5. SerialsInv'
    <3>1. ASSUME NEW j \in Keys, tplRows'[j] # NoSetupRow
          PROVE  tplRows'[j].id <= tplMade'[j]
      BY <1>2, <1>t, <2>2, <3>1 DEF TplPart, SerialsInv
    <3>2. ASSUME NEW s \in Slots, Inserted(s)' \/ Deleting(s)'
          PROVE  reqs'[s].serial <= tplMade'[KeyOf(s)']
      <4>1. CASE s = r
        BY <1>2, <1>t, <2>1, <4>1
      <4>2. CASE s # r
        BY <1>2, <1>t, <2>1, <2>3, <3>2, <4>2
      <4> QED
        BY <4>1, <4>2
    <3>3. ASSUME NEW s \in Slots, NEW q \in Slots, s # q, Inserted(s)', Inserted(q)',
                 KeyOf(s)' = KeyOf(q)'
          PROVE  reqs'[s].serial # reqs'[q].serial
      <4>1. CASE s # r /\ q # r
        BY <2>1, <3>3, <4>1 DEF TplPart, SerialsInv
      <4>2. CASE s = r
        BY <1>2, <2>1, <2>4, <3>3, <4>2
      <4>3. CASE q = r
        BY <1>2, <2>1, <2>4, <3>3, <4>3
      <4> QED
        BY <4>1, <4>2, <4>3
    <3> QED
      BY <3>1, <3>2, <3>3 DEF SerialsInv
  <2>6. DraftInv'
    <3> SUFFICES ASSUME NEW s \in Slots, Submitting(s)'
                 PROVE  /\ Inserted(s)' /\ reqs'[s].submit
                        /\ reqs'[s].mark = "wrote" => StillThere(s)'
                        /\ StillThere(s)' => tplRows'[KeyOf(s)'].status = "draft"
      BY DEF DraftInv
    <3>1. CASE s = r
      <4>1. reqs'[r].submit
        BY <1>2, <3>1 DEF Submitting
      <4>2. tplRows'[k] # NoSetupRow
        BY <1>2, <1>t, NoRowIsATemplate DEF TplRow
      <4>3. StillThere(r)' /\ Inserted(r)'
        BY <1>2, <2>1, <2>2, <4>2 DEF StillThere, Inserted
      <4> QED
        BY <2>1, <2>2, <3>1, <4>1, <4>3
    <3>2. CASE s # r
      <4>1. Submitting(s) /\ reqs'[s] = reqs[s]
        BY <1>0, <2>1, <3>2
      <4>2. /\ Inserted(s) /\ reqs[s].submit
            /\ reqs[s].mark = "wrote" => StillThere(s)
            /\ StillThere(s) => tplRows[KeyOf(s)].status = "draft"
        BY <4>1 DEF TplPart, DraftInv
      <4>3. CASE KeyOf(s) = k
        BY <2>1, <2>3, <2>4, <3>2, <4>1, <4>2, <4>3
      <4>4. CASE KeyOf(s) # k
        BY <1>2, <1>t, <2>1, <3>2, <4>1, <4>2, <4>4
      <4> QED
        BY <4>3, <4>4
    <3> QED
      BY <3>1, <3>2
  <2>7. DeleteInv'
    <3> SUFFICES ASSUME NEW q \in Slots, NEW s \in Slots, Deleting(s)', Submitting(q)',
                        KeyOf(q)' = KeyOf(s)',
                        reqs'[s].pc = "disable" \/ (reqs'[s].pc = "ok" /\ StillThere(s)')
                 PROVE  reqs'[q].serial # reqs'[s].serial
      BY DEF DeleteInv
    <3>1. s # r /\ Deleting(s) /\ reqs'[s] = reqs[s]
      BY <1>0, <1>2, <2>1 DEF Deleting
    <3>2. CASE q = r
      BY <1>2, <2>1, <2>4, <3>1, <3>2
    <3>3. CASE q # r /\ KeyOf(s) = k
      BY <2>1, <2>4, <3>1, <3>3 DEF TplPart, DeleteInv
    <3>4. CASE q # r /\ KeyOf(s) # k
      BY <2>1, <3>1, <3>4 DEF TplPart, DeleteInv
    <3> QED
      BY <3>2, <3>3, <3>4
  <2>8. PendingInv'
    <3> SUFFICES ASSUME NEW j \in Keys
                 PROVE  IsFiniteSet(Pending(j)')
                        /\ submitted'[j] + Cardinality(Pending(j)') <= tplMade'[j]
      BY DEF PendingInv
    <3>1. IsFiniteSet(Pending(j)) /\ submitted[j] + Cardinality(Pending(j)) <= tplMade[j]
      BY DEF TplPart, PendingInv
    <3>2. CASE j # k
      <4>1. Pending(j)' \subseteq Pending(j)
        BY <1>0, <2>1, <3>2 DEF Pending
      <4>2. /\ IsFiniteSet(Pending(j)')
            /\ Cardinality(Pending(j)') <= Cardinality(Pending(j))
            /\ Cardinality(Pending(j)') \in Nat /\ Cardinality(Pending(j)) \in Nat
        BY <3>1, <4>1, FS_Subset, FS_CardinalityType
      <4>3. tplMade'[j] = tplMade[j]
        BY <1>2, <3>2
      <4> HIDE DEF Pending
      <4> QED
        BY <1>0, <1>t, <3>1, <4>2, <4>3
    <3>3. CASE j = k
      <4>1. Pending(j)' \subseteq Pending(j) \cup {r}
        BY <1>0, <2>1 DEF Pending
      <4>2. /\ IsFiniteSet(Pending(j) \cup {r})
            /\ Cardinality(Pending(j) \cup {r}) <= Cardinality(Pending(j)) + 1
            /\ Cardinality(Pending(j)) \in Nat
        <5>1. /\ IsFiniteSet(Pending(j) \cup {r})
              /\ Cardinality(Pending(j) \cup {r}) =
                   IF r \in Pending(j) THEN Cardinality(Pending(j))
                   ELSE Cardinality(Pending(j)) + 1
          BY <3>1, FS_AddElement
        <5>2. Cardinality(Pending(j)) \in Nat
          BY <3>1, FS_CardinalityType
        <5> QED
          BY <5>1, <5>2
      <4>3. /\ IsFiniteSet(Pending(j)') /\ Cardinality(Pending(j)') \in Nat
            /\ Cardinality(Pending(j) \cup {r}) \in Nat
            /\ Cardinality(Pending(j)') <= Cardinality(Pending(j) \cup {r})
        BY <4>1, <4>2, FS_Subset, FS_CardinalityType
      <4>4. tplMade'[j] = tplMade[j] + 1
        BY <1>2, <3>3
      <4> HIDE DEF Pending
      <4> QED
        BY <1>0, <1>t, <3>1, <4>2, <4>3, <4>4
    <3> QED
      BY <3>2, <3>3
  <2>9. TplAnswers'
    <3>1. ASSUME NEW s \in Slots, Answers(s, "template")'
          PROVE  tplRows'[KeyOf(s)'] =
                   [status |-> IF reqs'[s].submit THEN "pending" ELSE "draft",
                    id |-> reqs'[s].serial]
      <4>1. CASE s = r
        <5>1. ~reqs'[r].submit
          BY <1>2, <3>1, <4>1 DEF Answers
        <5> QED
          BY <1>2, <2>1, <4>1, <5>1
      <4>2. CASE s # r
        <5>1. Answers(s, "template") /\ reqs'[s] = reqs[s]
          BY <1>0, <3>1, <4>2 DEF Answers
        <5>2. tplRows[KeyOf(s)] = [status |-> IF reqs[s].submit THEN "pending" ELSE "draft",
                                   id |-> reqs[s].serial]
          BY <5>1 DEF TplPart, TplAnswers
        <5>3. tplRows[KeyOf(s)].id = reqs[s].serial /\ tplRows[KeyOf(s)] # NoSetupRow
          BY <1>t, <5>2, NoRowIsATemplate DEF TplRow
        <5>4. KeyOf(s) # k
          BY <2>3, <4>2, <5>3 DEF StillThere
        <5> QED
          BY <1>2, <1>t, <2>1, <5>1, <5>2, <5>4
      <4> QED
        BY <4>1, <4>2
    <3>2. ASSUME NEW s \in Slots, Answers(s, "delete")', StillThere(s)'
          PROVE  tplRows'[KeyOf(s)'].status = "disabled"
      <4>1. s # r /\ Answers(s, "delete") /\ Deleting(s)
        BY <1>0, <1>2, <3>2, ZenonT(60) DEF Answers, Deleting
      <4>2. KeyOf(s) # k /\ StillThere(s)
        BY <2>1, <2>4, <3>2, <4>1
      <4> QED
        BY <1>2, <1>t, <2>1, <4>1, <4>2 DEF TplPart, TplAnswers
    <3> QED
      BY <3>1, <3>2 DEF TplAnswers
  <2> QED
    BY <2>5, <2>6, <2>7, <2>8, <2>9 DEF TplPart
<1> QED
  BY <1>1, <1>2, DraftIs

LEMMA SubmitKeepsTpl ==
  ASSUME SetupTypeOK, KindInv, TplPart, NEW r \in Slots, SubmitToMeta(r)
  PROVE  TplPart'
<1> DEFINE k == KeyOf(r)
<1> USE DEF Pcs
<1>0. SetupTypeOK' /\ KindInv'
  <2>1. [SetupNext]_setupVars
    BY DEF SetupNext
  <2> QED
    BY <2>1, SetupTypesStep
<1>t. /\ \A s \in Slots : KeyOf(s) \in Keys /\ reqs[s].serial \in Nat
      /\ \A j \in Keys : tplMade[j] \in Nat /\ submitted[j] \in Nat
  BY KeysAre DEF SetupTypeOK
<1>1. reqs[r].pc = "submit" /\ reqs[r].kind = "template"
      /\ UNCHANGED <<tplRows, tplMade, tabs, sent>>
  BY DEF SubmitToMeta, KindInv, others
<1>2. PICK pc \in {"record", "refused"} :
        /\ Goes(r, pc)
        /\ \/ submitted' = [submitted EXCEPT ![k] = @ + 1]
           \/ submitted' = submitted /\ pc = "refused"
  <2>1. CASE Goes(r, "record") /\ submitted' = [submitted EXCEPT ![k] = @ + 1]
    BY <2>1
  <2>2. CASE Goes(r, "refused") /\ submitted' = [submitted EXCEPT ![k] = @ + 1]
    BY <2>2
  <2>3. CASE Goes(r, "refused") /\ submitted' = submitted
    BY <2>3
  <2> QED
    BY <2>1, <2>2, <2>3 DEF SubmitToMeta
<1>3. /\ reqs'[r].pc = pc /\ Keeps(r) /\ reqs'[r].mark = reqs[r].mark
      /\ \A s \in Slots \ {r} : Calm(s) /\ reqs'[s] = reqs[s]
  BY <1>1, <1>2, GoesCalm DEF Goes, SetupTypeOK
<1>4. CASE submitted' = submitted /\ pc = "refused"
  BY <1>0, <1>1, <1>3, <1>4, TplFrame
<1>5. CASE submitted' = [submitted EXCEPT ![k] = @ + 1]
  <2>1. /\ submitted'[k] = submitted[k] + 1
        /\ \A j \in Keys \ {k} : submitted'[j] = submitted[j]
    BY <1>t, <1>5 DEF SetupTypeOK
  <2>2. \A s \in Slots :
          /\ KeyOf(s)' = KeyOf(s) /\ reqs'[s].serial = reqs[s].serial
          /\ Inserted(s)' <=> Inserted(s)
          /\ Submitting(s)' => Submitting(s)
          /\ Deleting(s)' => Deleting(s) /\ reqs'[s] = reqs[s]
          /\ StillThere(s)' <=> StillThere(s)
          /\ reqs'[s].submit = reqs[s].submit /\ reqs'[s].mark = reqs[s].mark
    BY <1>1, <1>3, ZenonT(60)
       DEF Keeps, KeyOf, Inserted, Submitting, Deleting, StillThere
  <2>3. SerialsInv'
    BY <1>1, <2>2 DEF TplPart, SerialsInv
  <2>4. DraftInv'
    BY <1>1, <2>2 DEF TplPart, DraftInv
  <2>5. DeleteInv'
    BY <1>1, <2>2 DEF TplPart, DeleteInv
  <2>6. PendingInv'
    <3> SUFFICES ASSUME NEW j \in Keys
                 PROVE  IsFiniteSet(Pending(j)')
                        /\ submitted'[j] + Cardinality(Pending(j)') <= tplMade'[j]
      BY DEF PendingInv
    <3>1. /\ IsFiniteSet(Pending(j)) /\ submitted[j] + Cardinality(Pending(j)) <= tplMade[j]
          /\ Cardinality(Pending(j)) \in Nat
      BY FS_CardinalityType DEF TplPart, PendingInv
    <3>2. r \notin Pending(j)' /\ Pending(j)' \subseteq Pending(j) \ {r}
      BY <1>3, <2>2 DEF Pending
    <3>3. /\ IsFiniteSet(Pending(j) \ {r})
          /\ Cardinality(Pending(j) \ {r}) =
               IF r \in Pending(j) THEN Cardinality(Pending(j)) - 1
               ELSE Cardinality(Pending(j))
      BY <3>1, FS_RemoveElement
    <3>4. /\ IsFiniteSet(Pending(j)') /\ Cardinality(Pending(j)') \in Nat
          /\ Cardinality(Pending(j)') <= Cardinality(Pending(j) \ {r})
      BY <3>2, <3>3, FS_Subset, FS_CardinalityType
    <3>5. r \in Pending(j) <=> j = k
      BY <1>1 DEF Pending
    <3> HIDE DEF Pending
    <3>6. CASE j = k
      BY <1>1, <1>t, <2>1, <3>1, <3>3, <3>4, <3>5, <3>6
    <3>7. CASE j # k
      BY <1>1, <1>t, <2>1, <3>1, <3>3, <3>4, <3>5, <3>7
    <3> QED
      BY <3>6, <3>7, <3>4
  <2>7. TplAnswers'
    <3>1. \A s \in Slots : (Answers(s, "template")' => Answers(s, "template"))
                           /\ (Answers(s, "delete")' => Answers(s, "delete"))
      BY <1>3 DEF Answers
    <3> QED
      BY <1>1, <2>2, <3>1 DEF TplPart, TplAnswers
  <2> QED
    BY <2>3, <2>4, <2>5, <2>6, <2>7 DEF TplPart
<1> QED
  BY <1>2, <1>4, <1>5

\* A row that was submitted is found by its number, and is nobody else's.
LEMMA RecordKeepsTpl ==
  ASSUME SetupTypeOK, KindInv, TplPart, NEW r \in Slots, RecordPending(r)
  PROVE  TplPart'
<1> DEFINE k == KeyOf(r)
<1> USE DEF Pcs
<1>t. /\ \A s \in Slots : KeyOf(s) \in Keys /\ reqs[s].serial \in Nat
      /\ \A j \in Keys : tplMade[j] \in Nat /\ submitted[j] \in Nat
  BY KeysAre DEF SetupTypeOK
<1>1. reqs[r].pc = "record" /\ reqs[r].kind = "template" /\ Goes(r, "ok")
      /\ UNCHANGED <<submitted, tplMade, tabs, sent>>
  BY DEF RecordPending, KindInv, others
<1>2. /\ reqs'[r].pc = "ok" /\ Keeps(r) /\ reqs'[r].mark = reqs[r].mark
      /\ \A s \in Slots \ {r} : reqs'[s] = reqs[s]
  BY <1>1, GoesCalm DEF Goes, SetupTypeOK
<1>3. /\ tplRows' \in [Keys -> TplRow \cup {NoSetupRow}]
      /\ \A j \in Keys \ {k} : tplRows'[j] = tplRows[j]
      /\ tplRows'[k] # NoSetupRow =>
           tplRows[k] # NoSetupRow /\ tplRows'[k].id = tplRows[k].id
      /\ ~StillThere(r) => tplRows'[k] = tplRows[k]
      /\ StillThere(r) => tplRows'[k] = [status |-> "pending", id |-> reqs[r].serial]
  BY RowWritten
<1>4. /\ Submitting(r) /\ Inserted(r) /\ reqs[r].submit
      /\ reqs[r].mark = "wrote" => StillThere(r)
      /\ StillThere(r) => tplRows[k].status = "draft"
  BY <1>1 DEF Submitting, TplPart, DraftInv
<1>5. \A s \in Slots :
        /\ KeyOf(s)' = KeyOf(s) /\ reqs'[s].serial = reqs[s].serial
        /\ reqs'[s].submit = reqs[s].submit /\ reqs'[s].mark = reqs[s].mark
        /\ Inserted(s)' <=> Inserted(s)
        /\ Deleting(s)' => Deleting(s) /\ reqs'[s] = reqs[s]
        /\ StillThere(s)' => StillThere(s)
  <2>1. \A s \in Slots :
          /\ KeyOf(s)' = KeyOf(s) /\ reqs'[s].serial = reqs[s].serial
          /\ reqs'[s].submit = reqs[s].submit /\ reqs'[s].mark = reqs[s].mark
          /\ Inserted(s)' <=> Inserted(s)
          /\ Deleting(s)' => Deleting(s) /\ reqs'[s] = reqs[s]
    BY <1>1, <1>2 DEF Keeps, KeyOf, Inserted, Deleting
  <2>2. ASSUME NEW s \in Slots, StillThere(s)'
        PROVE  StillThere(s)
    BY <1>3, <1>t, <2>1, <2>2 DEF StillThere
  <2> QED
    BY <2>1, <2>2
<1>6. \A s \in Slots : Submitting(s)' => Submitting(s) /\ s # r
  BY <1>1, <1>2 DEF Submitting
<1>7. ASSUME NEW s \in Slots \ {r}, Inserted(s), StillThere(s), KeyOf(s) = k
      PROVE  tplRows'[k] = tplRows[k]
  <2>1. reqs[s].serial # reqs[r].serial
    BY <1>4, <1>7 DEF TplPart, SerialsInv
  <2>2. ~StillThere(r)
    BY <1>7, <2>1 DEF StillThere
  <2> QED
    BY <1>3, <2>2
<1>8. SerialsInv'
  <2>1. ASSUME NEW j \in Keys, tplRows'[j] # NoSetupRow
        PROVE  tplRows'[j].id <= tplMade'[j]
    BY <1>1, <1>3, <2>1 DEF TplPart, SerialsInv
  <2> QED
    BY <1>1, <1>5, <2>1 DEF TplPart, SerialsInv
<1>9. DraftInv'
  <2> SUFFICES ASSUME NEW s \in Slots, Submitting(s)'
               PROVE  /\ Inserted(s)' /\ reqs'[s].submit
                      /\ reqs'[s].mark = "wrote" => StillThere(s)'
                      /\ StillThere(s)' => tplRows'[KeyOf(s)'].status = "draft"
    BY DEF DraftInv
  <2>1. /\ Submitting(s) /\ s # r /\ Inserted(s) /\ reqs[s].submit
        /\ reqs[s].mark = "wrote" => StillThere(s)
        /\ StillThere(s) => tplRows[KeyOf(s)].status = "draft"
    BY <1>6 DEF TplPart, DraftInv
  <2>2. StillThere(s) => tplRows'[KeyOf(s)] = tplRows[KeyOf(s)]
    BY <1>3, <1>7, <1>t, <2>1
  <2>3. StillThere(s) => StillThere(s)'
    BY <1>5, <2>2 DEF StillThere
  <2> QED
    BY <1>5, <2>1, <2>2, <2>3
<1>10. DeleteInv'
  <2> SUFFICES ASSUME NEW q \in Slots, NEW s \in Slots, Deleting(s)', Submitting(q)',
                      KeyOf(q)' = KeyOf(s)',
                      reqs'[s].pc = "disable" \/ (reqs'[s].pc = "ok" /\ StillThere(s)')
               PROVE  reqs'[q].serial # reqs'[s].serial
    BY DEF DeleteInv
  <2>1. Deleting(s) /\ Submitting(q) /\ reqs'[s] = reqs[s] /\ (StillThere(s)' => StillThere(s))
    BY <1>5, <1>6
  <2> QED
    BY <1>5, <2>1 DEF TplPart, DeleteInv
<1>11. PendingInv'
  <2> SUFFICES ASSUME NEW j \in Keys
               PROVE  IsFiniteSet(Pending(j)')
                      /\ submitted'[j] + Cardinality(Pending(j)') <= tplMade'[j]
    BY DEF PendingInv
  <2>1. Pending(j)' = Pending(j)
    BY <1>1, <1>2, <1>5 DEF Pending
  <2> QED
    BY <1>1, <2>1 DEF TplPart, PendingInv
<1>12. TplAnswers'
  <2>1. ASSUME NEW s \in Slots, Answers(s, "template")'
        PROVE  tplRows'[KeyOf(s)'] =
                 [status |-> IF reqs'[s].submit THEN "pending" ELSE "draft",
                  id |-> reqs'[s].serial]
    <3>1. CASE s = r
      <4>1. reqs[r].mark = "wrote"
        BY <1>5, <2>1, <3>1 DEF Answers
      <4> QED
        BY <1>3, <1>4, <1>5, <3>1, <4>1
    <3>2. CASE s # r
      <4>1. Answers(s, "template") /\ Inserted(s) /\ reqs'[s] = reqs[s]
        BY <1>2, <2>1, <3>2 DEF Answers, Inserted
      <4>2. tplRows[KeyOf(s)] = [status |-> IF reqs[s].submit THEN "pending" ELSE "draft",
                                 id |-> reqs[s].serial]
        BY <4>1 DEF TplPart, TplAnswers
      <4>3. StillThere(s)
        BY <1>t, <4>2, NoRowIsATemplate DEF StillThere, TplRow
      <4>4. tplRows'[KeyOf(s)] = tplRows[KeyOf(s)]
        BY <1>3, <1>7, <1>t, <3>2, <4>1, <4>3
      <4> QED
        BY <1>5, <4>1, <4>2, <4>4
    <3> QED
      BY <3>1, <3>2
  <2>2. ASSUME NEW s \in Slots, Answers(s, "delete")', StillThere(s)'
        PROVE  tplRows'[KeyOf(s)'].status = "disabled"
    <3>1. s # r /\ Answers(s, "delete") /\ StillThere(s)
      BY <1>1, <1>2, <1>5, <2>2 DEF Answers, Keeps
    <3>2. tplRows[KeyOf(s)].status = "disabled"
      BY <3>1 DEF TplPart, TplAnswers
    <3>3. CASE KeyOf(s) # k
      BY <1>3, <1>5, <1>t, <3>2, <3>3
    <3>4. CASE KeyOf(s) = k
      <4>1. ~StillThere(r)
        BY <1>4, <3>2, <3>4
      <4> QED
        BY <1>3, <1>5, <3>2, <3>4, <4>1
    <3> QED
      BY <3>3, <3>4
  <2> QED
    BY <2>1, <2>2 DEF TplAnswers
<1> QED
  BY <1>8, <1>9, <1>10, <1>11, <1>12 DEF TplPart

LEMMA DeleteLoadKeepsTpl ==
  ASSUME SetupTypeOK, KindInv, TplPart, NEW r \in Slots, DeleteTplLoad(r)
  PROVE  TplPart'
<1> DEFINE k == KeyOf(r)
           row == tplRows[k]
<1>0. SetupTypeOK' /\ KindInv'
  <2>1. [SetupNext]_setupVars
    BY DEF SetupNext
  <2> QED
    BY <2>1, SetupTypesStep
<1>t. \A s \in Slots : KeyOf(s) \in Keys /\ reqs[s].serial \in Nat
  BY KeysAre DEF SetupTypeOK
<1>1. /\ reqs[r].pc = "read" /\ reqs[r].kind = "delete" /\ reqs'[r].kind = "delete"
      /\ UNCHANGED <<tplRows, tplMade, submitted>>
      /\ reqs'[r].owner = reqs[r].owner /\ reqs'[r].name = reqs[r].name
      /\ \A s \in Slots \ {r} : Calm(s)
  BY DeleteIs DEF DeleteTplLoad, others
<1>2. CASE reqs'[r].pc = "refused" /\ Keeps(r) /\ reqs'[r].mark = reqs[r].mark
  BY <1>0, <1>1, <1>2, TplFrame
<1>3. CASE /\ row # NoSetupRow /\ reqs'[r].serial = row.id
           /\ reqs'[r].pc = IF row.status = "draft" THEN "drop" ELSE "disable"
  <2>1. \A s \in Slots : KeyOf(s)' = KeyOf(s)
    BY <1>1 DEF Calm, Keeps, KeyOf
  <2>2. \A s \in Slots \ {r} :
          /\ reqs'[s].pc = reqs[s].pc /\ reqs'[s].serial = reqs[s].serial
          /\ reqs'[s].submit = reqs[s].submit /\ reqs'[s].kind = reqs[s].kind
          /\ reqs'[s].mark = "wrote" => reqs[s].mark = "wrote"
          /\ StillThere(s)' <=> StillThere(s)
    BY <1>1, <2>1 DEF Calm, Keeps, StillThere
  <2>3. /\ \A s \in Slots : Inserted(s)' => Inserted(s) /\ s # r
        /\ \A s \in Slots \ {r} : Inserted(s) => Inserted(s)'
        /\ \A s \in Slots : Submitting(s)' => Submitting(s) /\ s # r
        /\ \A s \in Slots \ {r} : Deleting(s)' => Deleting(s)
    BY <1>1 DEF Calm, Keeps, Inserted, Submitting, Deleting
  <2>4. SerialsInv'
    <3>1. ASSUME NEW s \in Slots, Inserted(s)' \/ Deleting(s)'
          PROVE  reqs'[s].serial <= tplMade'[KeyOf(s)']
      <4>1. CASE s = r
        BY <1>1, <1>3, <1>t, <2>1, <4>1 DEF TplPart, SerialsInv
      <4>2. CASE s # r
        BY <1>1, <2>1, <2>2, <2>3, <3>1, <4>2 DEF TplPart, SerialsInv
      <4> QED
        BY <4>1, <4>2
    <3>2. ASSUME NEW s \in Slots, NEW q \in Slots, s # q, Inserted(s)', Inserted(q)',
                 KeyOf(s)' = KeyOf(q)'
          PROVE  reqs'[s].serial # reqs'[q].serial
      BY <2>1, <2>2, <2>3, <3>2 DEF TplPart, SerialsInv
    <3> QED
      BY <1>1, <3>1, <3>2 DEF TplPart, SerialsInv
  <2>5. DraftInv'
    <3> SUFFICES ASSUME NEW s \in Slots, Submitting(s)'
                 PROVE  /\ Inserted(s)' /\ reqs'[s].submit
                        /\ reqs'[s].mark = "wrote" => StillThere(s)'
                        /\ StillThere(s)' => tplRows'[KeyOf(s)'].status = "draft"
      BY DEF DraftInv
    <3>1. /\ s # r /\ Inserted(s) /\ reqs[s].submit
          /\ reqs[s].mark = "wrote" => StillThere(s)
          /\ StillThere(s) => tplRows[KeyOf(s)].status = "draft"
      BY <2>3 DEF TplPart, DraftInv
    <3> QED
      BY <1>1, <2>1, <2>2, <2>3, <3>1
  <2>6. DeleteInv'
    <3> SUFFICES ASSUME NEW q \in Slots, NEW s \in Slots, Deleting(s)', Submitting(q)',
                        KeyOf(q)' = KeyOf(s)',
                        reqs'[s].pc = "disable" \/ (reqs'[s].pc = "ok" /\ StillThere(s)')
                 PROVE  reqs'[q].serial # reqs'[s].serial
      BY DEF DeleteInv
    <3>1. Submitting(q) /\ q # r /\ reqs'[q].serial = reqs[q].serial
      BY <2>2, <2>3
    <3>2. CASE s = r
      <4>1. row.status # "draft"
        BY <1>3, <3>2
      <4>2. ~StillThere(q)
        BY <2>1, <3>1, <3>2, <4>1 DEF TplPart, DraftInv
      <4> QED
        BY <1>3, <2>1, <3>1, <3>2, <4>2 DEF StillThere
    <3>3. CASE s # r
      BY <2>1, <2>2, <2>3, <3>1, <3>3 DEF TplPart, DeleteInv
    <3> QED
      BY <3>2, <3>3
  <2>7. PendingInv'
    <3> SUFFICES ASSUME NEW j \in Keys
                 PROVE  IsFiniteSet(Pending(j)')
                        /\ submitted'[j] + Cardinality(Pending(j)') <= tplMade'[j]
      BY DEF PendingInv
    <3>1. Pending(j)' = Pending(j)
      BY <1>1, <1>3, <2>1, <2>2 DEF Pending
    <3> QED
      BY <1>1, <3>1 DEF TplPart, PendingInv
  <2>8. TplAnswers'
    <3>1. \A s \in Slots : /\ Answers(s, "template")' => Answers(s, "template") /\ s # r
                           /\ Answers(s, "delete")' => Answers(s, "delete") /\ s # r
      BY <1>1, <1>3, <2>2 DEF Answers
    <3> QED
      BY <1>1, <2>1, <2>2, <3>1 DEF TplPart, TplAnswers
  <2> QED
    BY <2>4, <2>5, <2>6, <2>7, <2>8 DEF TplPart
<1> QED
  BY <1>2, <1>3, DeleteIs

\* What is dropped or disabled is what the request read, if it is there still.
LEMMA DeleteWriteKeepsTpl ==
  ASSUME SetupTypeOK, KindInv, TplPart, NEW r \in Slots, DeleteTplWrite(r)
  PROVE  TplPart'
<1> DEFINE k == KeyOf(r)
<1>t. \A s \in Slots : KeyOf(s) \in Keys /\ reqs[s].serial \in Nat
  BY KeysAre DEF SetupTypeOK
<1>1. /\ reqs[r].pc \in {"drop", "disable"} /\ reqs[r].kind = "delete" /\ Wrote(r, "ok")
      /\ UNCHANGED <<submitted, tplMade>>
  BY DEF DeleteTplWrite, KindInv
<1>2. /\ reqs'[r].pc = "ok" /\ Keeps(r)
      /\ \A s \in Slots \ {r} : Calm(s) /\ (reqs'[s].mark = "wrote" => ~SameRow(r, s))
  BY <1>1, WroteCalm
<1>3. /\ tplRows' \in [Keys -> TplRow \cup {NoSetupRow}]
      /\ \A j \in Keys \ {k} : tplRows'[j] = tplRows[j]
      /\ tplRows'[k] # NoSetupRow =>
           tplRows[k] # NoSetupRow /\ tplRows'[k].id = tplRows[k].id
      /\ ~StillThere(r) => tplRows'[k] = tplRows[k]
      /\ StillThere(r) =>
           \/ reqs[r].pc = "drop" /\ tplRows'[k] = NoSetupRow
           \/ /\ reqs[r].pc = "disable" /\ tplRows'[k] # NoSetupRow
              /\ tplRows'[k].status = "disabled"
  BY RowWritten
<1>4. \A s \in Slots : KeyOf(s)' = KeyOf(s) /\ reqs'[s].serial = reqs[s].serial
                       /\ reqs'[s].submit = reqs[s].submit /\ reqs'[s].kind = reqs[s].kind
  BY <1>2 DEF Calm, Keeps, KeyOf
<1>5. ASSUME NEW s \in Slots, StillThere(s)'
      PROVE  StillThere(s)
  BY <1>3, <1>4, <1>t, <1>5 DEF StillThere
<1>6. /\ \A s \in Slots : Inserted(s)' <=> Inserted(s)
      /\ \A s \in Slots : Submitting(s)' => Submitting(s) /\ s # r
      /\ \A s \in Slots : Deleting(s)' => Deleting(s)
  <2>1. ~Inserted(r) /\ ~Inserted(r)' /\ ~Submitting(r)' /\ Deleting(r)
    BY <1>1, <1>4 DEF Inserted, Submitting, Deleting
  <2>2. ASSUME NEW s \in Slots \ {r}
        PROVE  /\ Inserted(s)' <=> Inserted(s)
               /\ Submitting(s)' => Submitting(s)
               /\ Deleting(s)' => Deleting(s)
    BY <1>2, <1>4 DEF Calm, Inserted, Submitting, Deleting
  <2> QED
    BY <2>1, <2>2
\* A request that has not been overtaken is about another row.
<1>7. ASSUME NEW s \in Slots \ {r}, reqs'[s].mark = "wrote",
             reqs[s].kind \in {"template", "delete"}
      PROVE  KeyOf(s) # k /\ tplRows'[KeyOf(s)] = tplRows[KeyOf(s)]
             /\ (StillThere(s)' <=> StillThere(s))
  <2>1. KeyOf(s) # k
    BY <1>1, <1>2, <1>7 DEF SameRow, Templating
  <2> QED
    BY <1>3, <1>4, <1>t, <2>1 DEF StillThere
<1>8. SerialsInv'
  <2>1. ASSUME NEW j \in Keys, tplRows'[j] # NoSetupRow
        PROVE  tplRows'[j].id <= tplMade'[j]
    BY <1>1, <1>3, <2>1 DEF TplPart, SerialsInv
  <2> QED
    BY <1>1, <1>4, <1>6, <2>1 DEF TplPart, SerialsInv
<1>9. DraftInv'
  <2> SUFFICES ASSUME NEW s \in Slots, Submitting(s)'
               PROVE  /\ Inserted(s)' /\ reqs'[s].submit
                      /\ reqs'[s].mark = "wrote" => StillThere(s)'
                      /\ StillThere(s)' => tplRows'[KeyOf(s)'].status = "draft"
    BY DEF DraftInv
  <2>1. /\ Submitting(s) /\ s # r /\ Inserted(s) /\ reqs[s].submit
        /\ reqs[s].mark = "wrote" => StillThere(s)
        /\ StillThere(s) => tplRows[KeyOf(s)].status = "draft"
        /\ reqs[s].kind = "template"
    BY <1>6 DEF TplPart, DraftInv, Submitting
  <2>2. reqs'[s].mark = "wrote" => StillThere(s)'
    BY <1>2, <1>7, <2>1 DEF Calm
  <2>3. ASSUME StillThere(s)'
        PROVE  tplRows'[KeyOf(s)].status = "draft"
    <3>1. StillThere(s) /\ tplRows[KeyOf(s)].status = "draft"
      BY <1>5, <2>1, <2>3
    <3>2. CASE KeyOf(s) # k
      BY <1>3, <1>t, <3>1, <3>2
    <3>3. CASE KeyOf(s) = k
      <4>1. ASSUME StillThere(r)
            PROVE  FALSE
        <5>1. reqs[s].serial = reqs[r].serial
          BY <3>1, <3>3, <4>1 DEF StillThere
        <5>2. tplRows'[k] # NoSetupRow
          BY <1>4, <2>3, <3>3 DEF StillThere
        <5>3. reqs[r].pc = "disable"
          BY <1>3, <4>1, <5>2
        <5> QED
          BY <1>1, <2>1, <3>3, <5>1, <5>3 DEF Deleting, TplPart, DeleteInv
      <4> QED
        BY <1>3, <3>1, <3>3, <4>1
    <3> QED
      BY <3>2, <3>3
  <2> QED
    BY <1>4, <1>6, <2>1, <2>2, <2>3
<1>10. DeleteInv'
  <2> SUFFICES ASSUME NEW q \in Slots, NEW s \in Slots, Deleting(s)', Submitting(q)',
                      KeyOf(q)' = KeyOf(s)',
                      reqs'[s].pc = "disable" \/ (reqs'[s].pc = "ok" /\ StillThere(s)')
               PROVE  reqs'[q].serial # reqs'[s].serial
    BY DEF DeleteInv
  <2>1. Deleting(s) /\ Submitting(q) /\ q # r /\ (StillThere(s)' => StillThere(s))
    BY <1>5, <1>6
  <2>2. CASE s = r
    <3>1. StillThere(r)' /\ StillThere(r)
      BY <1>2, <2>1, <2>2
    <3>2. reqs[r].pc = "disable"
      BY <1>3, <1>4, <3>1 DEF StillThere
    <3> QED
      BY <1>4, <2>1, <2>2, <3>2 DEF TplPart, DeleteInv
  <2>3. CASE s # r
    <3>1. reqs'[s].pc = reqs[s].pc
      BY <1>2, <2>3 DEF Calm
    <3> QED
      BY <1>4, <2>1, <3>1 DEF TplPart, DeleteInv
  <2> QED
    BY <2>2, <2>3
<1>11. PendingInv'
  <2> SUFFICES ASSUME NEW j \in Keys
               PROVE  IsFiniteSet(Pending(j)')
                      /\ submitted'[j] + Cardinality(Pending(j)') <= tplMade'[j]
    BY DEF PendingInv
  <2>1. Pending(j)' = Pending(j)
    BY <1>1, <1>2, <1>4 DEF Pending, Calm
  <2> QED
    BY <1>1, <2>1 DEF TplPart, PendingInv
<1>12. TplAnswers'
  <2>1. ASSUME NEW s \in Slots, Answers(s, "template")'
        PROVE  tplRows'[KeyOf(s)'] =
                 [status |-> IF reqs'[s].submit THEN "pending" ELSE "draft",
                  id |-> reqs'[s].serial]
    <3>1. s # r /\ Answers(s, "template") /\ reqs'[s].mark = "wrote"
      BY <1>1, <1>2, <1>4, <2>1 DEF Answers, Calm
    <3>2. tplRows'[KeyOf(s)] = tplRows[KeyOf(s)]
      BY <1>7, <3>1 DEF Answers
    <3>3. tplRows[KeyOf(s)] = [status |-> IF reqs[s].submit THEN "pending" ELSE "draft",
                               id |-> reqs[s].serial]
      BY <3>1 DEF TplPart, TplAnswers
    <3> QED
      BY <1>4, <3>2, <3>3
  <2>2. ASSUME NEW s \in Slots, Answers(s, "delete")', StillThere(s)'
        PROVE  tplRows'[KeyOf(s)'].status = "disabled"
    <3>1. CASE s = r
      <4>1. StillThere(r) /\ tplRows'[k] # NoSetupRow
        BY <1>4, <1>5, <2>2, <3>1 DEF StillThere
      <4> QED
        BY <1>3, <1>4, <3>1, <4>1
    <3>2. CASE s # r
      <4>1. Answers(s, "delete") /\ reqs'[s].mark = "wrote" /\ StillThere(s)
        BY <1>2, <1>4, <1>5, <2>2, <3>2 DEF Answers, Calm
      <4>2. tplRows'[KeyOf(s)] = tplRows[KeyOf(s)]
        BY <1>7, <3>2, <4>1 DEF Answers
      <4> QED
        BY <1>4, <4>1, <4>2 DEF TplPart, TplAnswers
    <3> QED
      BY <3>1, <3>2
  <2> QED
    BY <2>1, <2>2 DEF TplAnswers
<1> QED
  BY <1>8, <1>9, <1>10, <1>11, <1>12 DEF TplPart

LEMMA TplStep ==
  ASSUME SetupTypeOK, KindInv, TplPart, [SetupNext]_setupVars
  PROVE  TplPart'
<1>0. SetupTypeOK' /\ KindInv'
  BY SetupTypesStep
<1> USE DEF Pcs
<1>1. ASSUME NEW t \in Pages, OpenForm(t)
      PROVE  TplPart'
  <2>1. UNCHANGED <<tplRows, tplMade, submitted>> /\ \A s \in Slots : Calm(s)
    BY <1>1, OpenIs
  <2> QED
    BY <1>0, <2>1, TplFrame
<1>2. ASSUME NEW r \in Slots, Submits(r)
      PROVE  TplPart'
  <2>1. UNCHANGED <<tplRows, tplMade, submitted>>
        /\ reqs'[r].mark = "none" /\ reqs'[r].pc \in {"verify", "check", "read"}
        /\ \A s \in Slots \ {r} : Calm(s)
    BY <1>2, SendsAre, StillCalm
  <2> QED
    BY <1>0, <2>1, TplFrame
<1>3. ASSUME NEW r \in Slots, Page(r)
      PROVE  TplPart'
  <2>1. UNCHANGED <<tplRows, tplMade, submitted>>
        /\ \A s \in Slots : Calm(s) \/ reqs'[s].kind = "connect"
    BY <1>3, PageIs, NoReqIsTyped
  <2> QED
    BY <1>0, <2>1, TplFrame
<1>4. ASSUME NEW r \in Slots, GetPhoneNumberInfo(r) \/ LookupNumber(r) \/ Rejects(r)
                              \/ CheckNumber(r)
      PROVE  TplPart'
  <2>1. UNCHANGED <<tplRows, tplMade, submitted, tabs, sent>>
    BY <1>4 DEF GetPhoneNumberInfo, LookupNumber, Rejects, CheckNumber, rest, others
  <2>2. CASE Goes(r, "refused")
    <3>1. /\ reqs'[r].pc = "refused" /\ Keeps(r) /\ reqs'[r].mark = reqs[r].mark
          /\ \A s \in Slots \ {r} : Calm(s)
      BY <2>1, <2>2, GoesCalm
    <3> QED
      BY <1>0, <2>1, <3>1, TplFrame
  <2>3. CASE ~Goes(r, "refused")
    <3>1. \/ /\ reqs[r].kind = "connect"
             /\ Goes(r, "lookup") \/ Goes(r, "insert") \/ Goes(r, "update")
          \/ reqs[r].kind = "template" /\ Goes(r, "draft")
      BY <1>4, <2>3
         DEF GetPhoneNumberInfo, LookupNumber, Rejects, CheckNumber, KindInv
    <3>2. /\ reqs'[r].pc \in {"lookup", "insert", "update", "draft"}
          /\ Keeps(r) /\ reqs'[r].mark = reqs[r].mark
          /\ \A s \in Slots \ {r} : Calm(s)
      BY <2>1, <3>1, GoesCalm
    <3> QED
      BY <1>0, <2>1, <3>2, TplFrame
  <2> QED
    BY <2>2, <2>3
<1>5. ASSUME NEW r \in Slots, InsertNumber(r) \/ UpdateNumber(r) \/ DisconnectWrite(r)
      PROVE  TplPart'
  <2>1. UNCHANGED <<tplRows, tplMade, submitted, tabs, sent>>
        /\ reqs[r].kind \in {"connect", "disconnect"}
    BY <1>5 DEF InsertNumber, UpdateNumber, DisconnectWrite, rest, KindInv
  <2>2. Wrote(r, "ok") \/ Goes(r, "refused")
    BY <1>5 DEF InsertNumber, UpdateNumber, DisconnectWrite
  <2>3. Keeps(r) /\ \A s \in Slots \ {r} : Calm(s)
    BY <2>1, <2>2, GoesCalm, WroteCalm
  <2>4. reqs'[r].kind \notin {"template", "delete"}
    BY <2>1, <2>3 DEF Keeps
  <2> QED
    BY <1>0, <2>1, <2>3, <2>4, TplFrame
<1>6. ASSUME NEW r \in Slots, DisconnectLoad(r)
      PROVE  TplPart'
  <2>1. UNCHANGED <<tplRows, tplMade, submitted>>
        /\ reqs'[r].kind = "disconnect" /\ \A s \in Slots \ {r} : Calm(s)
    BY <1>6, DisconnectIs DEF DisconnectLoad, rest, Keeps
  <2> QED
    BY <1>0, <2>1, TplFrame, SMTT(60)
<1>7. ASSUME NEW r \in Slots,
             \/ InsertTplDraft(r) \/ SubmitToMeta(r) \/ RecordPending(r)
             \/ DeleteTplLoad(r) \/ DeleteTplWrite(r)
      PROVE  TplPart'
  <2>1. CASE InsertTplDraft(r)
    BY <2>1, DraftKeepsTpl
  <2>2. CASE SubmitToMeta(r)
    BY <2>2, SubmitKeepsTpl
  <2>3. CASE RecordPending(r)
    BY <2>3, RecordKeepsTpl
  <2>4. CASE DeleteTplLoad(r)
    BY <2>4, DeleteLoadKeepsTpl
  <2>5. CASE DeleteTplWrite(r)
    BY <2>5, DeleteWriteKeepsTpl
  <2> QED
    BY <1>7, <2>1, <2>2, <2>3, <2>4, <2>5
<1>8. CASE UNCHANGED setupVars
  <2>1. UNCHANGED <<tplRows, tplMade, submitted>> /\ \A s \in Slots : Calm(s)
    BY <1>8, StillCalm DEF setupVars
  <2> QED
    BY <1>0, <2>1, TplFrame
<1> QED
  BY <1>1, <1>2, <1>3, <1>4, <1>5, <1>6, <1>7, <1>8 DEF SetupNext, Submits, Page

\* However the requests of the forms overlap, break off and are sent again: Meta
\* is given the template of a row once, and what an answer says is what is
\* stored unless another request has written the row since.
THEOREM SubmissionsMatchTheRows ==
  SetupSpec => []SubmissionsAreTrue
<1>1. SetupInv /\ [SetupNext]_setupVars => SetupInv'
  BY SetupTypesStep, NumberStep, TplStep DEF SetupInv
<1> QED
  BY <1>1, SetupStarts, SetupPromises, PTL DEF SetupSpec

\* A phone number that a workspace has connected is never taken by another one:
\* the insert of connectWhatsapp is refused, and the updates of a reconnection
\* and of disconnectWhatsapp leave the owner.
THEOREM NumbersStay ==
  SetupSpec => NumberKeepsItsWorkspace
<1>1. SetupInv /\ [SetupNext]_setupVars =>
        [\A p \in Phones : numbers[p].owner # NoOwner
           => numbers'[p].owner = numbers[p].owner]_numbers
  <2> SUFFICES ASSUME SetupInv, [SetupNext]_setupVars, numbers' # numbers,
                      NEW p \in Phones, numbers[p].owner # NoOwner
               PROVE  numbers'[p].owner = numbers[p].owner
    OBVIOUS
  <2>1. ASSUME NEW r \in Slots, InsertNumber(r)
        PROVE  numbers'[p].owner = numbers[p].owner
    <3>1. CASE numbers[reqs[r].phone].owner = NoOwner
      BY <2>1, <3>1 DEF InsertNumber, SetupInv, SetupTypeOK
    <3>2. CASE numbers[reqs[r].phone].owner # NoOwner
      BY <2>1, <3>2 DEF InsertNumber
    <3> QED
      BY <3>1, <3>2
  <2>2. ASSUME NEW r \in Slots, UpdateNumber(r) \/ DisconnectWrite(r)
        PROVE  numbers'[p].owner = numbers[p].owner
    <3> DEFINE n == reqs[r].phone
    <3>1. numbers[n] \in Number /\ n \in Phones
      BY KeysAre DEF SetupInv, SetupTypeOK
    <3>2. /\ \A q \in Phones \ {n} : numbers'[q] = numbers[q]
          /\ \/ numbers'[n] = [numbers[n] EXCEPT !.token = reqs[r].serial, !.connected = TRUE]
             \/ numbers'[n] = [numbers[n] EXCEPT !.connected = FALSE]
      BY <2>2, <3>1 DEF UpdateNumber, DisconnectWrite, SetupInv, SetupTypeOK
    <3>3. numbers'[n].owner = numbers[n].owner
      BY <3>1, <3>2 DEF Number
    <3> QED
      BY <3>2, <3>3
  <2>3. \A t \in Pages : ~OpenForm(t)
    BY DEF OpenForm
  <2>4. \A r \in Slots : ~Submits(r)
    BY
       DEF Submits, SubmitConnect, SubmitTemplate, SubmitDisconnect, SubmitDelete,
           Send
  <2>5. \A r \in Slots : ~Page(r)
    BY DEF Page, Answered, Breaks
  <2>6. \A r \in Slots :
          ~(GetPhoneNumberInfo(r) \/ LookupNumber(r) \/ DisconnectLoad(r) \/ Rejects(r))
    BY DEF GetPhoneNumberInfo, LookupNumber, DisconnectLoad, Rejects
  <2>7. \A r \in Slots :
          /\ ~CheckNumber(r) /\ ~InsertTplDraft(r) /\ ~SubmitToMeta(r)
          /\ ~RecordPending(r) /\ ~DeleteTplLoad(r) /\ ~DeleteTplWrite(r)
    BY DEF CheckNumber, InsertTplDraft, SubmitToMeta, RecordPending, DeleteTplLoad,
           DeleteTplWrite, others
  <2>8. ~UNCHANGED setupVars
    BY DEF setupVars
  <2> QED
    BY <2>1, <2>2, <2>3, <2>4, <2>5, <2>6, <2>7, <2>8 DEF SetupNext, Submits, Page
<1>2. SetupInv /\ [SetupNext]_setupVars => SetupInv'
  BY SetupTypesStep, NumberStep, TplStep DEF SetupInv
<1> QED
  BY <1>1, <1>2, SetupStarts, PTL DEF SetupSpec, NumberKeepsItsWorkspace

(***************************************************************************)
(* The tags of a lead.  A fold over a sequence is a walk over its indices: *)
(* what it has after n of them is a function of n.                         *)
(***************************************************************************)

\* f has the value of a fold that takes the greatest index last, for each set of indices.
Folds(S, V, base, step, f) ==
  /\ f \in [SUBSET S -> V]
  /\ \A s \in SUBSET S :
       f[s] = IF s = {} THEN base ELSE step[<<Max(s), f[s \ {Max(s)}]>>]

LEMMA FoldExists ==
  ASSUME NEW S, S \subseteq Nat, IsFiniteSet(S),
         NEW V, NEW base \in V, NEW step \in [S \X V -> V]
  PROVE  \E f : Folds(S, V, base, step, f)
<1> DEFINE Step(f, s) == IF s = {} THEN base ELSE step[<<Max(s), f[s \ {Max(s)}]>>]
           Solves(f, k) == \A s \in Small(S, k) : f[s] = Step(f, s)
           Sizes == {k \in Nat : \E f \in [Small(S, k) -> V] : Solves(f, k)}
<1>m. ASSUME NEW k \in Nat, NEW s \in Small(S, k + 1), s # {}
      PROVE  Max(s) \in S /\ s \ {Max(s)} \in Small(S, k)
  <2>1. IsFiniteSet(s) /\ s \subseteq Nat /\ s \subseteq S /\ Cardinality(s) <= k + 1
    BY FS_Subset DEF Small
  <2>2. Max(s) \in s
    BY <1>m, <2>1, MaxIs
  <2>3. PICK m \in s : m = Max(s)
    BY <2>2
  <2>4. Cardinality(s \ {m}) = Cardinality(s) - 1 /\ Cardinality(s) \in Nat
    BY <2>1, FS_RemoveElement, FS_CardinalityType
  <2>5. s \ {m} \in Small(S, k)
    BY <2>1, <2>4 DEF Small
  <2> QED
    BY <2>1, <2>3, <2>5
<1>1. 0 \in Sizes
  <2>1. \A s \in Small(S, 0) : s = {}
    BY SmallIs
  <2>2. Solves([s \in Small(S, 0) |-> base], 0)
    BY <2>1
  <2> QED
    BY <2>2
<1>2. ASSUME NEW k \in Sizes PROVE k + 1 \in Sizes
  <2>1. PICK f \in [Small(S, k) -> V] : Solves(f, k)
    OBVIOUS
  <2> DEFINE h == [s \in Small(S, k + 1) |-> Step(f, s)]
  <2>2. \A s \in Small(S, k + 1) : Step(f, s) \in V
    BY <1>m
  <2>3. h \in [Small(S, k + 1) -> V]
    BY <2>2
  <2>4. ASSUME NEW s \in Small(S, k) PROVE s \in Small(S, k + 1) /\ h[s] = f[s]
    <3>1. s \in Small(S, k + 1)
      BY SmallIs
    <3> QED
      BY <2>1, <3>1
  <2>5. Solves(h, k + 1)
    <3> SUFFICES ASSUME NEW s \in Small(S, k + 1) PROVE h[s] = Step(h, s)
      OBVIOUS
    <3>1. s # {} => h[s \ {Max(s)}] = f[s \ {Max(s)}]
      BY <1>m, <2>4
    <3> QED
      BY <3>1
  <2> HIDE DEF h, Solves
  <2> QED
    BY <2>3, <2>5
<1>3. Sizes = Nat
  <2> Sizes \in SUBSET Nat
    OBVIOUS
  <2> HIDE DEF Sizes
  <2> QED
    BY <1>1, <1>2, Induction
<1>4. Cardinality(S) \in Nat /\ Small(S, Cardinality(S)) = SUBSET S
  BY FS_Subset, FS_CardinalityType DEF Small
<1>5. PICK f \in [SUBSET S -> V] : Solves(f, Cardinality(S))
  <2>1. Cardinality(S) \in Sizes
    BY <1>3, <1>4
  <2> HIDE DEF Solves
  <2> QED
    BY <1>4, <2>1
<1> QED
  BY <1>4, <1>5 DEF Folds

\* The greatest of the first n indices.
LEMMA LastIndex ==
  ASSUME NEW n \in Nat, n # 0
  PROVE  Max(1..n) = n /\ (1..n) \ {n} = 1..(n - 1) /\ 1..n # {}
<1>1. n \in 1..n
  OBVIOUS
<1>2. 1..n \subseteq Nat /\ 1..n # {} /\ IsFiniteSet(1..n)
  <2>1. 1 \in Int /\ n \in Int
    OBVIOUS
  <2>2. IsFiniteSet(1..n)
    BY <2>1, FS_Interval, Zenon
  <2> QED
    BY <1>1, <2>2
<1>3. Max(1..n) \in 1..n /\ n <= Max(1..n)
  BY <1>1, <1>2, MaxIs
<1> QED
  BY <1>2, <1>3

\* What Dedupe has after each element.
LEMMA DedupeWalk ==
  ASSUME NEW T, NEW s \in Seq(T)
  PROVE  \E k :
           /\ k[0] = <<>> /\ Dedupe(s) = k[Len(s)]
           /\ \A n \in 1..Len(s) :
                k[n] = IF Contains(k[n - 1], s[n]) THEN k[n - 1] ELSE Append(k[n - 1], s[n])
<1> DEFINE S == 1..Len(s)
           V == Seq(T)
           Turned(f, x) == IF x = {} THEN <<>>
                         ELSE IF Contains(f[x \ {Max(x)}], s[Max(x)]) THEN f[x \ {Max(x)}]
                              ELSE Append(f[x \ {Max(x)}], s[Max(x)])
           step == [p \in S \X V |-> IF Contains(p[2], s[p[1]]) THEN p[2]
                                     ELSE Append(p[2], s[p[1]])]
           iter == CHOOSE f : f = [x \in SUBSET S |-> Turned(f, x)]
<1>1. Len(s) \in Nat /\ DOMAIN s = S /\ (\A i \in S : s[i] \in T) /\ S \subseteq Nat
  OBVIOUS
<1>0. IsFiniteSet(S)
  <2>1. 1 \in Int /\ Len(s) \in Int
    OBVIOUS
  <2> QED
    BY <2>1, FS_Interval, Zenon
<1>n. ASSUME NEW n \in S
      PROVE  n \in Nat /\ n # 0 /\ n - 1 \in 0..Len(s) /\ n \in 0..Len(s) /\ 1..n \subseteq S
  <2>1. Len(s) \in Nat /\ n \in Nat /\ n # 0 /\ n <= Len(s)
    BY <1>1
  <2>2. \A i \in 1..n : i \in S
    BY <2>1
  <2> QED
    BY <2>1, <2>2
<1> HIDE DEF S
<1>2. step \in [S \X V -> V] /\ <<>> \in V
  <2>1. ASSUME NEW i \in S, NEW q \in V
        PROVE  (IF Contains(q, s[i]) THEN q ELSE Append(q, s[i])) \in V
    BY <1>1
  <2>2. ASSUME NEW p \in S \X V PROVE p[1] \in S /\ p[2] \in V
    OBVIOUS
  <2>3. \A p \in S \X V : step[p] \in V
    BY <2>1, <2>2
  <2> QED
    BY <2>3
<1>3. PICK f : Folds(S, V, <<>>, step, f)
  <2> HIDE DEF step, V
  <2> QED
    BY <1>0, <1>1, <1>2, FoldExists
<1>4. f = [x \in SUBSET S |-> Turned(f, x)]
  <2>1. ASSUME NEW x \in SUBSET S, x # {} PROVE f[x] = Turned(f, x)
    <3>1. Max(x) \in S
      <4>1. x \subseteq Nat /\ IsFiniteSet(x)
        BY <1>0, <1>1, FS_Subset
      <4> QED
        BY <2>1, <4>1, MaxIs
    <3>2. <<Max(x), f[x \ {Max(x)}]>> \in S \X V
      BY <1>3, <3>1 DEF Folds
    <3>3. f[x] = step[<<Max(x), f[x \ {Max(x)}]>>]
      BY <1>3, <2>1 DEF Folds
    <3> QED
      BY <2>1, <3>2, <3>3
  <2>2. f[{}] = <<>> /\ DOMAIN f = SUBSET S
    BY <1>3 DEF Folds
  <2> QED
    BY <2>1, <2>2, <1>3, ZenonT(60) DEF Folds
<1>5. iter = [x \in SUBSET S |-> Turned(iter, x)]
  BY <1>4, ZenonT(60)
<1>6. Dedupe(s) = iter[S]
  BY <1>1 DEF Dedupe, FoldLeft, MapThenFoldSet
<1> HIDE DEF iter
<1> DEFINE k == [n \in 0..Len(s) |-> iter[1..n]]
<1>7. k[0] = <<>>
  BY <1>5
<1>8. ASSUME NEW n \in 1..Len(s)
      PROVE  k[n] = IF Contains(k[n - 1], s[n]) THEN k[n - 1] ELSE Append(k[n - 1], s[n])
  <2>1. Max(1..n) = n /\ (1..n) \ {n} = 1..(n - 1) /\ 1..n # {} /\ 1..n \in SUBSET S
    BY <1>n, LastIndex DEF S
  <2>2. iter[1..n] = Turned(iter, 1..n)
    BY <1>5, <2>1
  <2>3. k[n] = iter[1..n] /\ k[n - 1] = iter[1..(n - 1)]
    BY <1>n DEF S
  <2> HIDE DEF k
  <2> QED
    BY <2>1, <2>2, <2>3
<1>9. Dedupe(s) = k[Len(s)]
  BY <1>1, <1>6 DEF S
<1> HIDE DEF k
<1> QED
  BY <1>7, <1>8, <1>9

\* What a filter has after each element.
LEMMA WithoutWalk ==
  ASSUME NEW T, NEW s \in Seq(T), NEW dropped
  PROVE  \E k :
           /\ k[0] = <<>> /\ Without(s, dropped) = k[Len(s)]
           /\ \A n \in 1..Len(s) :
                k[n] = IF Contains(dropped, s[n]) THEN k[n - 1] ELSE Append(k[n - 1], s[n])
<1> DEFINE S == 1..Len(s)
           V == Seq(T)
           Turned(f, x) == IF x = {} THEN <<>>
                         ELSE IF Contains(dropped, s[Max(x)]) THEN f[x \ {Max(x)}]
                              ELSE Append(f[x \ {Max(x)}], s[Max(x)])
           step == [p \in S \X V |-> IF Contains(dropped, s[p[1]]) THEN p[2]
                                     ELSE Append(p[2], s[p[1]])]
           iter == CHOOSE f : f = [x \in SUBSET S |-> Turned(f, x)]
<1>1. Len(s) \in Nat /\ DOMAIN s = S /\ (\A i \in S : s[i] \in T) /\ S \subseteq Nat
  OBVIOUS
<1>0. IsFiniteSet(S)
  <2>1. 1 \in Int /\ Len(s) \in Int
    OBVIOUS
  <2> QED
    BY <2>1, FS_Interval, Zenon
<1>n. ASSUME NEW n \in S
      PROVE  n \in Nat /\ n # 0 /\ n - 1 \in 0..Len(s) /\ n \in 0..Len(s) /\ 1..n \subseteq S
  <2>1. Len(s) \in Nat /\ n \in Nat /\ n # 0 /\ n <= Len(s)
    BY <1>1
  <2>2. \A i \in 1..n : i \in S
    BY <2>1
  <2> QED
    BY <2>1, <2>2
<1> HIDE DEF S
<1>2. step \in [S \X V -> V] /\ <<>> \in V
  <2>1. ASSUME NEW i \in S, NEW q \in V
        PROVE  (IF Contains(dropped, s[i]) THEN q ELSE Append(q, s[i])) \in V
    BY <1>1
  <2>2. ASSUME NEW p \in S \X V PROVE p[1] \in S /\ p[2] \in V
    OBVIOUS
  <2>3. \A p \in S \X V : step[p] \in V
    BY <2>1, <2>2
  <2> QED
    BY <2>3
<1>3. PICK f : Folds(S, V, <<>>, step, f)
  <2> HIDE DEF step, V
  <2> QED
    BY <1>0, <1>1, <1>2, FoldExists
<1>4. f = [x \in SUBSET S |-> Turned(f, x)]
  <2>1. ASSUME NEW x \in SUBSET S, x # {} PROVE f[x] = Turned(f, x)
    <3>1. Max(x) \in S
      <4>1. x \subseteq Nat /\ IsFiniteSet(x)
        BY <1>0, <1>1, FS_Subset
      <4> QED
        BY <2>1, <4>1, MaxIs
    <3>2. <<Max(x), f[x \ {Max(x)}]>> \in S \X V
      BY <1>3, <3>1 DEF Folds
    <3>3. f[x] = step[<<Max(x), f[x \ {Max(x)}]>>]
      BY <1>3, <2>1 DEF Folds
    <3> QED
      BY <2>1, <3>2, <3>3
  <2>2. f[{}] = <<>> /\ DOMAIN f = SUBSET S
    BY <1>3 DEF Folds
  <2> QED
    BY <2>1, <2>2, <1>3, ZenonT(60) DEF Folds
<1>5. iter = [x \in SUBSET S |-> Turned(iter, x)]
  BY <1>4, ZenonT(60)
<1>6. Without(s, dropped) = iter[S]
  BY <1>1 DEF Without, FoldLeft, MapThenFoldSet
<1> HIDE DEF iter
<1> DEFINE k == [n \in 0..Len(s) |-> iter[1..n]]
<1>7. k[0] = <<>>
  BY <1>5
<1>8. ASSUME NEW n \in 1..Len(s)
      PROVE  k[n] = IF Contains(dropped, s[n]) THEN k[n - 1] ELSE Append(k[n - 1], s[n])
  <2>1. Max(1..n) = n /\ (1..n) \ {n} = 1..(n - 1) /\ 1..n # {} /\ 1..n \in SUBSET S
    BY <1>n, LastIndex DEF S
  <2>2. iter[1..n] = Turned(iter, 1..n)
    BY <1>5, <2>1
  <2>3. k[n] = iter[1..n] /\ k[n - 1] = iter[1..(n - 1)]
    BY <1>n DEF S
  <2> HIDE DEF k
  <2> QED
    BY <2>1, <2>2, <2>3
<1>9. Without(s, dropped) = k[Len(s)]
  BY <1>1, <1>6 DEF S
<1> HIDE DEF k
<1> QED
  BY <1>7, <1>8, <1>9

\* What Dedupe gives: a sequence of the same elements, each of them once.
LEMMA DedupeIs ==
  ASSUME NEW T, NEW s \in Seq(T)
  PROVE  Dedupe(s) \in Seq(T) /\ IsInjective(Dedupe(s))
<1>1. PICK k :
        /\ k[0] = <<>> /\ Dedupe(s) = k[Len(s)]
        /\ \A n \in 1..Len(s) :
             k[n] = IF Contains(k[n - 1], s[n]) THEN k[n - 1] ELSE Append(k[n - 1], s[n])
  BY DedupeWalk
<1> DEFINE Good == {n \in Nat : n <= Len(s) => k[n] \in Seq(T) /\ IsInjective(k[n])}
<1>2. 0 \in Good
  <2>1. <<>> \in Seq(T) /\ IsInjective(<<>>)
    BY DEF IsInjective
  <2> QED
    BY <1>1, <2>1
<1>3. ASSUME NEW n \in Good PROVE n + 1 \in Good
  <2> SUFFICES ASSUME n + 1 <= Len(s)
               PROVE  k[n + 1] \in Seq(T) /\ IsInjective(k[n + 1])
    OBVIOUS
  <2>1. k[n] \in Seq(T) /\ IsInjective(k[n]) /\ n + 1 \in 1..Len(s) /\ s[n + 1] \in T
    OBVIOUS
  <2>2. k[n + 1] = IF Contains(k[n], s[n + 1]) THEN k[n] ELSE Append(k[n], s[n + 1])
    <3>1. (n + 1) - 1 = n
      OBVIOUS
    <3> QED
      BY <1>1, <2>1, <3>1
  <2>3. ASSUME NEW q \in Seq(T), IsInjective(q), NEW x \in T, ~Contains(q, x)
        PROVE  Append(q, x) \in Seq(T) /\ IsInjective(Append(q, x))
    BY <2>3 DEF IsInjective, Contains
  <2> QED
    BY <2>1, <2>2, <2>3
<1>4. Good = Nat
  <2> Good \in SUBSET Nat
    OBVIOUS
  <2> HIDE DEF Good
  <2> QED
    BY <1>2, <1>3, Induction
<1>5. Len(s) \in Good /\ Len(s) \in Nat
  BY <1>4
<1> QED
  BY <1>1, <1>5

\* What a filter gives: the elements that are not to be dropped, all of them and no
\* others, and none twice that was not there twice.
LEMMA WithoutIs ==
  ASSUME NEW T, NEW s \in Seq(T), NEW dropped
  PROVE  /\ Without(s, dropped) \in Seq({t \in T : ~Contains(dropped, t)})
         /\ \A t : Contains(s, t) /\ ~Contains(dropped, t) => Contains(Without(s, dropped), t)
         /\ IsInjective(s) => IsInjective(Without(s, dropped))
<1> DEFINE U == {t \in T : ~Contains(dropped, t)}
<1>1. PICK k :
        /\ k[0] = <<>> /\ Without(s, dropped) = k[Len(s)]
        /\ \A n \in 1..Len(s) :
             k[n] = IF Contains(dropped, s[n]) THEN k[n - 1] ELSE Append(k[n - 1], s[n])
  BY WithoutWalk
<1> DEFINE Kept(n) == \A i \in 1..n : Contains(dropped, s[i]) \/ Contains(k[n], s[i])
           Old(n) == \A i \in 1..Len(k[n]) : \E m \in 1..n : k[n][i] = s[m]
           Good == {n \in Nat : n <= Len(s) =>
                      /\ k[n] \in Seq(U) /\ Kept(n) /\ Old(n)
                      /\ IsInjective(s) => IsInjective(k[n])}
<1>2. 0 \in Good
  <2>1. <<>> \in Seq(U) /\ IsInjective(<<>>) /\ Len(<<>>) = 0
    BY DEF IsInjective
  <2>2. k[0] \in Seq(U) /\ IsInjective(k[0]) /\ Len(k[0]) = 0
    BY <1>1, <2>1
  <2>3. Kept(0) /\ Old(0)
    BY <2>2
  <2> HIDE DEF Kept, Old
  <2> QED
    BY <2>2, <2>3
<1>3. ASSUME NEW n \in Good PROVE n + 1 \in Good
  <2> SUFFICES ASSUME n + 1 <= Len(s)
               PROVE  /\ k[n + 1] \in Seq(U) /\ Kept(n + 1) /\ Old(n + 1)
                      /\ IsInjective(s) => IsInjective(k[n + 1])
    OBVIOUS
  <2>1. /\ k[n] \in Seq(U) /\ Kept(n) /\ Old(n) /\ n \in Nat
        /\ IsInjective(s) => IsInjective(k[n])
        /\ n + 1 \in 1..Len(s) /\ s[n + 1] \in T /\ Len(s) \in Nat
    OBVIOUS
  <2>2. k[n + 1] = IF Contains(dropped, s[n + 1]) THEN k[n] ELSE Append(k[n], s[n + 1])
    <3>1. (n + 1) - 1 = n
      OBVIOUS
    <3> QED
      BY <1>1, <2>1, <3>1
  <2>3. PICK q \in Seq(U), x \in T : q = k[n] /\ x = s[n + 1]
    BY <2>1
  <2>4. CASE Contains(dropped, x)
    <3>1. k[n + 1] = q
      BY <2>2, <2>3, <2>4
    <3>2. \A i \in 1..(n + 1) : i \in 1..n \/ i = n + 1
      BY <2>1
    <3>3. \A i \in 1..n : i \in 1..(n + 1)
      BY <2>1
    <3> QED
      BY <2>1, <2>3, <2>4, <3>1, <3>2, <3>3
  <2>5. CASE ~Contains(dropped, x)
    <3> DEFINE r == Append(q, x)
    <3>1. k[n + 1] = r
      BY <2>2, <2>3, <2>5
    <3>2. /\ r \in Seq(U) /\ Len(r) = Len(q) + 1 /\ r[Len(q) + 1] = x /\ Len(q) \in Nat
          /\ \A i \in 1..Len(q) : r[i] = q[i]
      BY <2>5
    <3> HIDE DEF r
    <3>3. Old(n + 1)
      <4> SUFFICES ASSUME NEW i \in 1..Len(r) PROVE \E m \in 1..(n + 1) : r[i] = s[m]
        BY <3>1
      <4>1. CASE i = Len(q) + 1
        BY <2>1, <2>3, <3>2, <4>1
      <4>2. CASE i # Len(q) + 1
        <5>1. i \in 1..Len(q)
          BY <3>2, <4>2
        <5>2. PICK m \in 1..n : q[i] = s[m]
          BY <2>1, <2>3, <5>1
        <5>3. m \in 1..(n + 1)
          BY <2>1
        <5> QED
          BY <3>2, <5>1, <5>2, <5>3
      <4> QED
        BY <4>1, <4>2
    <3>4. Kept(n + 1)
      <4> SUFFICES ASSUME NEW i \in 1..(n + 1), ~Contains(dropped, s[i]) PROVE Contains(r, s[i])
        BY <3>1
      <4>1. CASE i = n + 1
        BY <2>3, <3>2, <4>1 DEF Contains
      <4>2. CASE i # n + 1
        <5>1. i \in 1..n
          BY <2>1, <4>2
        <5>2. PICK m \in 1..Len(q) : q[m] = s[i]
          BY <2>1, <2>3, <5>1 DEF Contains
        <5> QED
          BY <3>2, <5>2 DEF Contains
      <4> QED
        BY <4>1, <4>2
    <3>5. ASSUME IsInjective(s) PROVE IsInjective(r)
      <4>1. IsInjective(q)
        BY <2>1, <2>3, <3>5
      <4>2. \A i \in 1..Len(q) : q[i] # x
        <5> SUFFICES ASSUME NEW i \in 1..Len(q), q[i] = x PROVE FALSE
          OBVIOUS
        <5>1. PICK m \in 1..n : q[i] = s[m]
          BY <2>1, <2>3
        <5>2. m \in DOMAIN s /\ n + 1 \in DOMAIN s /\ s[m] = s[n + 1] /\ m # n + 1
          BY <2>1, <2>3, <5>1
        <5> QED
          BY <3>5, <5>2 DEF IsInjective
      <4>3. \A a, b \in 1..Len(q) : q[a] = q[b] => a = b
        BY <4>1 DEF IsInjective
      <4>4. DOMAIN r = 1..(Len(q) + 1)
        BY <3>2
      <4>5. ASSUME NEW a \in DOMAIN r, NEW b \in DOMAIN r, r[a] = r[b] PROVE a = b
        <5>1. (a \in 1..Len(q) \/ a = Len(q) + 1) /\ (b \in 1..Len(q) \/ b = Len(q) + 1)
          BY <3>2, <4>4
        <5> QED
          BY <3>2, <4>2, <4>3, <4>5, <5>1
      <4> QED
        BY <4>5 DEF IsInjective
    <3> QED
      BY <3>1, <3>2, <3>3, <3>4, <3>5
  <2> QED
    BY <2>4, <2>5
<1>4. Good = Nat
  <2> Good \in SUBSET Nat
    OBVIOUS
  <2> HIDE DEF Good
  <2> QED
    BY <1>2, <1>3, Induction
<1>5. Len(s) \in Good /\ Len(s) \in Nat
  <2>1. Len(s) \in Nat
    OBVIOUS
  <2> HIDE DEF Good
  <2> QED
    BY <1>4, <2>1
<1>6. /\ k[Len(s)] \in Seq(U) /\ Kept(Len(s))
      /\ IsInjective(s) => IsInjective(k[Len(s)])
  BY <1>5
<1>7. \A t : Contains(s, t) /\ ~Contains(dropped, t) => Contains(k[Len(s)], t)
  BY <1>6 DEF Contains
<1> QED
  BY <1>1, <1>6, <1>7

\* Every text is normalised to a tag or to nothing, and a plain one to itself.
LEMMA NormalIs ==
  ASSUME NEW t \in Text
  PROVE  /\ Normal(t) \in Tag \cup {Blank}
         /\ t.form = "plain" => Normal(t) = t /\ t \in Tag
<1>0. Blank.form = "blank"
  BY DEF Blank
<1>1. CASE t = Blank
  BY <1>0, <1>1 DEF Normal
<1>2. CASE t \in [word : Words, form : {"plain"}]
  BY <1>2 DEF Normal, Tag, Text
<1>3. CASE t \in [word : LongWords, form : {"edge", "long"}]
  <2>1. t.word \in Words /\ t.word \in LongWords /\ t.form \in {"edge", "long"}
    BY <1>3, TagsAssumption
  <2>2. CASE t.form = "long"
    <3>1. [t EXCEPT !.form = "edge"] = [word |-> t.word, form |-> "edge"]
      BY <1>3
    <3>2. Normal(t) = [word |-> t.word, form |-> "edge"]
      BY <2>2, <3>1 DEF Normal
    <3> QED
      BY <2>1, <2>2, <3>2 DEF Tag, Text
  <2>3. CASE t.form = "edge"
    <3>1. [t EXCEPT !.form = "plain"] = [word |-> t.word, form |-> "plain"]
      BY <1>3
    <3>2. Normal(t) = [word |-> t.word, form |-> "plain"]
      BY <2>3, <3>1 DEF Normal
    <3> QED
      BY <2>1, <2>3, <3>2 DEF Tag, Text
  <2> QED
    BY <2>1, <2>2, <2>3
<1> QED
  BY <1>1, <1>2, <1>3 DEF Text

LEMMA NormalisedIs ==
  ASSUME NEW texts \in Seq(Text)
  PROVE  /\ Normalised(texts) \in Seq(Tag)
         /\ \A t \in ToSet(texts) : t.form = "plain" => Contains(Normalised(texts), t)
<1> DEFINE all == [i \in DOMAIN texts |-> Normal(texts[i])]
           T == Tag \cup {Blank}
<1>1. /\ Len(texts) \in Nat /\ DOMAIN texts = 1..Len(texts)
      /\ \A i \in DOMAIN texts : texts[i] \in Text /\ all[i] \in T
  BY NormalIs
<1>2. all \in Seq(T) /\ Len(all) = Len(texts)
  BY <1>1
<1> HIDE DEF all
<1>3. ASSUME NEW x PROVE Contains(<<Blank>>, x) <=> x = Blank
  BY DEF Contains
<1>4. {x \in T : ~Contains(<<Blank>>, x)} = Tag
  <2>1. Blank \notin Tag
    BY DEF Blank, Tag
  <2> QED
    BY <1>3, <2>1
<1>5. Normalised(texts) = Without(all, <<Blank>>)
  BY DEF Normalised, all
<1>6. /\ Without(all, <<Blank>>) \in Seq(Tag)
      /\ \A t : Contains(all, t) /\ ~Contains(<<Blank>>, t) => Contains(Without(all, <<Blank>>), t)
  BY <1>2, <1>4, WithoutIs
<1>7. ASSUME NEW t \in ToSet(texts), t.form = "plain" PROVE Contains(all, t) /\ ~Contains(<<Blank>>, t)
  <2>1. PICK i \in DOMAIN texts : texts[i] = t
    BY DEF ToSet
  <2>0. Blank.form = "blank"
    BY DEF Blank
  <2>2. t \in Text /\ t # Blank
    BY <1>1, <1>7, <2>0, <2>1
  <2>3. Normal(t) = t
    BY <1>7, <2>2, NormalIs
  <2>4. all[i] = t
    BY <2>1, <2>3 DEF all
  <2> QED
    BY <1>1, <1>2, <1>3, <2>1, <2>2, <2>4 DEF Contains
<1> QED
  BY <1>5, <1>6, <1>7

LEMMA CappedIs ==
  ASSUME NEW T, NEW s \in Seq(T)
  PROVE  /\ Capped(s) \in Seq(T) /\ Len(Capped(s)) <= MaxTags
         /\ IsInjective(s) => IsInjective(Capped(s))
         /\ \A t : Contains(Capped(s), t) => Contains(s, t)
<1>1. PICK n \in Nat : n <= Len(s) /\ n <= MaxTags /\ Capped(s) = SubSeq(s, 1, n)
  BY TagsAssumption DEF Capped
<1>2. PICK r \in Seq(T) : r = Capped(s) /\ Len(r) = n /\ \A i \in 1..n : r[i] = s[i]
  <2>1. SubSeq(s, 1, n) \in Seq(T) /\ Len(SubSeq(s, 1, n)) = n
        /\ \A i \in 1..n : SubSeq(s, 1, n)[i] = s[i]
    BY <1>1
  <2> QED
    BY <1>1, <2>1
<1>3. \A i \in 1..n : i \in 1..Len(s)
  BY <1>1
<1> QED
  BY <1>1, <1>2, <1>3 DEF IsInjective, Contains

\* The change of an edit keeps the row clean: tags only, none twice, no more than the
\* cap; and a removal leaves none of the plain tags it names.
LEMMA ChangeIs ==
  ASSUME NEW tags \in Seq(Tag), NEW edit, edit.given \in Seq(Text),
         edit.dropped \in Seq(Text), edit.op \in {"replace", "change"}
  PROVE  /\ Change(tags, edit) \in Seq(Tag) /\ Len(Change(tags, edit)) <= MaxTags
         /\ IsInjective(tags) => IsInjective(Change(tags, edit))
         /\ edit.op = "change" =>
              \A t \in ToSet(edit.dropped) :
                t.form = "plain" => ~Contains(Change(tags, edit), t)
<1>1. PICK given \in Seq(Tag), dropped \in Seq(Tag) :
        /\ given = Normalised(edit.given) /\ dropped = Normalised(edit.dropped)
        /\ \A t \in ToSet(edit.dropped) : t.form = "plain" => Contains(dropped, t)
  BY NormalisedIs
<1>2. CASE edit.op = "replace"
  <2>1. Change(tags, edit) = Capped(Dedupe(given))
    BY <1>1, <1>2 DEF Change
  <2> QED
    BY <1>2, <2>1, DedupeIs, CappedIs
<1>3. CASE edit.op = "change"
  <2>1. PICK more \in Seq(Tag) :
          /\ more = IF edit.given = <<>> THEN tags ELSE Dedupe(tags \o given)
          /\ IsInjective(tags) => IsInjective(more)
    <3>1. tags \o given \in Seq(Tag)
      OBVIOUS
    <3> QED
      BY <3>1, DedupeIs
  <2>2. Change(tags, edit) = Capped(Without(more, dropped))
    BY <1>1, <1>3, <2>1 DEF Change
  <2>3. PICK q \in Seq({t \in Tag : ~Contains(dropped, t)}) :
          q = Without(more, dropped) /\ (IsInjective(more) => IsInjective(q))
    BY WithoutIs
  <2>4. q \in Seq(Tag) /\ \A t : Contains(q, t) => ~Contains(dropped, t)
    BY DEF Contains
  <2>5. /\ Capped(q) \in Seq(Tag) /\ Len(Capped(q)) <= MaxTags
        /\ IsInjective(q) => IsInjective(Capped(q))
        /\ \A t : Contains(Capped(q), t) => Contains(q, t)
    BY <2>4, CappedIs
  <2> QED
    BY <1>1, <2>1, <2>2, <2>3, <2>4, <2>5
<1> QED
  BY <1>2, <1>3

-----------------------------------------------------------------------------
(* The tags of a lead: the invariant.                                        *)

\* What an edit is about to write, or has written: clean, and without what it removes.
CleanEdit(edit) ==
  /\ IsInjective(edit.next) /\ Len(edit.next) <= MaxTags
  /\ edit.op = "change" =>
       \A t \in ToSet(edit.dropped) : t.form = "plain" => ~Contains(edit.next, t)

\* An edit in between has read the row that still is there, or one that was written since.
ReadsInv ==
  \A i \in DOMAIN edits :
    /\ edits[i].pc \in {"read", "written"} => CleanEdit(edits[i])
    /\ edits[i].pc = "read" =>
         /\ edits[i].since <= Writes
         /\ edits[i].since = Writes => edits[i].next = Change(stored, edits[i])

\* The row is what the last writer wrote.
LastInv ==
  /\ lastWrite = 0 => stored = <<>>
  /\ lastWrite # 0 => /\ lastWrite \in DOMAIN edits
                      /\ edits[lastWrite].pc = "written"
                      /\ edits[lastWrite].next = stored

\* An editor that has heard of the last write shows it, and while it waits it
\* keeps it to show again.
ViewInv ==
  \A e \in Editors :
    /\ editors[e].edit <= Len(edits) /\ editors[e].heard <= Len(edits)
    /\ editors[e].heard # 0 => edits[editors[e].heard].pc = "written"
    /\ editors[e].sure /\ editors[e].heard = lastWrite =>
         stored = IF editors[e].edit = 0 THEN editors[e].shown ELSE editors[e].before

TagsInv ==
  TagsTypeOK /\ TagsAreClean /\ ReadsInv /\ LastInv /\ LostOnlyByOverlap /\ ViewInv

LEMMA TagsPromise == TagsInv => EditsAreTrue
<1> SUFFICES ASSUME TagsInv PROVE EditsAreTrue
  OBVIOUS
<1>1. ShownIsStored
  BY DEF TagsInv, ViewInv, ShownIsStored
<1>2. RemovedIsGone
  BY DEF TagsInv, ReadsInv, CleanEdit, RemovedIsGone
<1> QED
  BY <1>1, <1>2 DEF TagsInv, EditsAreTrue

LEMMA TagsStart == TagsInit => TagsInv
<1> SUFFICES ASSUME TagsInit PROVE TagsInv
  OBVIOUS
<1>1. /\ stored = <<>> /\ ideal = <<>> /\ edits = <<>> /\ lastWrite = 0
      /\ overlapped = FALSE /\ DOMAIN edits = {} /\ Len(edits) = 0
      /\ <<>> \in Seq(Tag) /\ <<>> \in Seq(Edit) /\ MaxEdits \in Nat /\ MaxTags \in Nat
  BY TagsAssumption DEF TagsInit
<1>2. editors = [e \in Editors |-> [shown |-> <<>>, before |-> <<>>, edit |-> 0,
                                   heard |-> 0, sure |-> TRUE]]
  BY DEF TagsInit
<1>3. editors \in [Editors -> Editor]
  <2>1. [shown |-> <<>>, before |-> <<>>, edit |-> 0, heard |-> 0, sure |-> TRUE] \in Editor
    BY <1>1 DEF Editor
  <2> QED
    BY <1>2, <2>1
<1>4. TagsTypeOK
  <2>1. lastWrite \in 0..MaxEdits /\ Len(edits) <= MaxEdits
    BY <1>1
  <2>2. stored \in Seq(Tag) /\ ideal \in Seq(Tag) /\ edits \in Seq(Edit)
    BY <1>1, Zenon
  <2> QED
    BY <1>1, <1>3, <2>1, <2>2, Zenon DEF TagsTypeOK
<1>5. TagsAreClean
  BY <1>1 DEF TagsAreClean, IsInjective, ToSet
<1>6. ReadsInv /\ LastInv /\ LostOnlyByOverlap
  BY <1>1 DEF ReadsInv, LastInv, LostOnlyByOverlap
<1>7. ViewInv
  BY <1>1, <1>2 DEF ViewInv
<1> QED
  BY <1>4, <1>5, <1>6, <1>7 DEF TagsInv

LEMMA WritesIs == edits \in Seq(Edit) => Writes \in Nat
<1> SUFFICES ASSUME edits \in Seq(Edit) PROVE Writes \in Nat
  OBVIOUS
<1>1. DOMAIN edits = 1..Len(edits) /\ 1 \in Int /\ Len(edits) \in Int
  OBVIOUS
<1>2. IsFiniteSet(DOMAIN edits)
  BY <1>1, FS_Interval, Zenon
<1>3. PICK w : w = {i \in DOMAIN edits : edits[i].pc = "written"} /\ w \subseteq DOMAIN edits
  OBVIOUS
<1>4. Cardinality(w) \in Nat
  BY <1>2, <1>3, FS_Subset, FS_CardinalityType, Zenon
<1> QED
  BY <1>3, <1>4 DEF Writes

\* Nobody wrote: the edits that are written are the same.
LEMMA WritesStay ==
  ASSUME DOMAIN edits \subseteq DOMAIN edits',
         \A j \in DOMAIN edits' :
           edits'[j].pc = "written" <=> j \in DOMAIN edits /\ edits[j].pc = "written"
  PROVE  Writes' = Writes
<1>1. {j \in DOMAIN edits' : edits'[j].pc = "written"}
        = {j \in DOMAIN edits : edits[j].pc = "written"}
  OBVIOUS
<1> QED
  BY <1>1 DEF Writes

\* One more edit has written.
LEMMA WritesGrow ==
  ASSUME edits \in Seq(Edit), DOMAIN edits' = DOMAIN edits, NEW i \in DOMAIN edits,
         edits[i].pc # "written", edits'[i].pc = "written",
         \A j \in DOMAIN edits \ {i} : edits'[j].pc = edits[j].pc
  PROVE  Writes' = Writes + 1
<1> DEFINE W == {j \in DOMAIN edits : edits[j].pc = "written"}
<1>1. PICK w : w = W /\ IsFiniteSet(w) /\ i \notin w
  <2>1. DOMAIN edits = 1..Len(edits) /\ 1 \in Int /\ Len(edits) \in Int
    OBVIOUS
  <2>2. IsFiniteSet(DOMAIN edits)
    BY <2>1, FS_Interval, Zenon
  <2>3. W \subseteq DOMAIN edits
    OBVIOUS
  <2>4. IsFiniteSet(W)
    BY <2>2, <2>3, FS_Subset, Zenon
  <2> QED
    BY <2>4
<1>2. {j \in DOMAIN edits' : edits'[j].pc = "written"} = w \cup {i}
  BY <1>1
<1>3. Cardinality(w \cup {i}) = Cardinality(w) + 1
  BY <1>1, FS_AddElement
<1> QED
  BY <1>1, <1>2, <1>3 DEF Writes

\* A change of the tags looks at what is asked, not at where the edit is.
LEMMA ChangeOf ==
  ASSUME NEW tags, NEW x, NEW y, x.op = y.op, x.given = y.given,
         x.dropped = y.dropped
  PROVE  Change(tags, x) = Change(tags, y)
BY DEF Change

-----------------------------------------------------------------------------
(* The tags of a lead: the steps.                                            *)

LEMMA RequestIs ==
  ASSUME edits \in Seq(Edit), NEW by \in Editors \cup {Api},
         NEW op \in {"replace", "change"}, NEW given \in Seq(Text),
         NEW dropped \in Seq(Text)
  PROVE  LET q == Request(by, op, given, dropped) IN
         /\ q \in Seq(Edit) /\ Len(q) = Len(edits) + 1
         /\ \A j \in 1..Len(edits) : q[j] = edits[j]
         /\ q[Len(edits) + 1].pc = "sent"
<1>1. PICK x : /\ x = [by |-> by, op |-> op, given |-> given, dropped |-> dropped,
                       next |-> <<>>, since |-> 0, pc |-> "sent"]
               /\ x.pc = "sent" /\ x \in Edit
  <2>0. <<>> \in Seq(Tag)
    OBVIOUS
  <2>1. PICK none \in Seq(Tag) : none = <<>>
    BY <2>0, Zenon
  <2>2. [by |-> by, op |-> op, given |-> given, dropped |-> dropped, next |-> none,
         since |-> 0, pc |-> "sent"] \in Edit
    BY DEF Edit
  <2> QED
    BY <2>1, <2>2
<1>2. Request(by, op, given, dropped) = Append(edits, x)
  BY <1>1 DEF Request
<1>3. x \in Edit /\ x.pc = "sent"
  BY <1>1
<1>4. /\ Append(edits, x) \in Seq(Edit) /\ Len(Append(edits, x)) = Len(edits) + 1
      /\ Append(edits, x)[Len(edits) + 1] = x
      /\ \A j \in 1..Len(edits) : Append(edits, x)[j] = edits[j]
  BY <1>3
<1> QED
  BY <1>2, <1>3, <1>4

\* A request that is sent leaves the row, and what is known of it, alone.
LEMMA AskedStep ==
  ASSUME TagsInv, Len(edits) < MaxEdits,
         NEW by \in Editors \cup {Api}, NEW op \in {"replace", "change"},
         NEW given \in Seq(Text), NEW dropped \in Seq(Text),
         edits' = Request(by, op, given, dropped),
         UNCHANGED <<stored, ideal, lastWrite, overlapped>>
  PROVE  /\ edits' \in Seq(Edit) /\ Len(edits') <= MaxEdits
         /\ Len(edits') = Len(edits) + 1
         /\ \A j \in DOMAIN edits : j \in DOMAIN edits' /\ edits'[j] = edits[j]
         /\ (TagsAreClean /\ ReadsInv /\ LastInv /\ LostOnlyByOverlap)'
<1>1. /\ edits \in Seq(Edit) /\ Len(edits) \in Nat /\ MaxEdits \in Nat
      /\ DOMAIN edits = 1..Len(edits)
  BY TagsAssumption DEF TagsInv, TagsTypeOK
<1>2. /\ edits' \in Seq(Edit) /\ Len(edits') = Len(edits) + 1
      /\ \A j \in 1..Len(edits) : edits'[j] = edits[j]
      /\ edits'[Len(edits) + 1].pc = "sent"
  BY <1>1, RequestIs
<1>3. /\ DOMAIN edits' = 1..(Len(edits) + 1)
      /\ \A j \in DOMAIN edits' : j \in DOMAIN edits \/ j = Len(edits) + 1
      /\ \A j \in DOMAIN edits : j \in DOMAIN edits'
      /\ Len(edits) + 1 \notin DOMAIN edits
  BY <1>1, <1>2
<1>4. Writes' = Writes
  <2>1. \A j \in DOMAIN edits' :
          edits'[j].pc = "written" <=> j \in DOMAIN edits /\ edits[j].pc = "written"
    BY <1>1, <1>2, <1>3
  <2> QED
    BY <1>3, <2>1, WritesStay
<1>5. ReadsInv'
  <2> SUFFICES ASSUME NEW i \in DOMAIN edits'
               PROVE  /\ edits'[i].pc \in {"read", "written"} => CleanEdit(edits'[i])
                      /\ edits'[i].pc = "read" =>
                           /\ edits'[i].since <= Writes'
                           /\ edits'[i].since = Writes'
                                => edits'[i].next = Change(stored', edits'[i])
    BY DEF ReadsInv, CleanEdit, Change, Capped
  <2>1. CASE i = Len(edits) + 1
    BY <1>2, <2>1
  <2>2. CASE i \in DOMAIN edits
    BY <1>1, <1>2, <1>4, <2>2 DEF TagsInv, ReadsInv
  <2> QED
    BY <1>3, <2>1, <2>2
<1>6. LastInv'
  BY <1>1, <1>2, <1>3 DEF TagsInv, LastInv
<1>7. (TagsAreClean /\ LostOnlyByOverlap)'
  BY DEF TagsInv, TagsAreClean, LostOnlyByOverlap
<1> QED
  BY <1>1, <1>2, <1>3, <1>5, <1>6, <1>7

\* An editor that sends keeps what it shows, to show it again.
LEMMA SendsStep ==
  ASSUME TagsInv, NEW e \in Editors, NEW given \in Seq(Text),
         NEW dropped \in Seq(Text), NEW shown \in Seq(Tag),
         Sends(e, given, dropped, shown)
  PROVE  TagsInv'
<1>1. /\ e \in Editors \cup {Api} /\ "change" \in {"replace", "change"}
      /\ editors[e].edit = 0 /\ Len(edits) < MaxEdits
      /\ edits' = Request(e, "change", given, dropped)
      /\ UNCHANGED <<stored, ideal, lastWrite, overlapped>>
  BY DEF Sends
<1>2. /\ edits' \in Seq(Edit) /\ Len(edits') <= MaxEdits
      /\ Len(edits') = Len(edits) + 1
      /\ \A j \in DOMAIN edits : j \in DOMAIN edits' /\ edits'[j] = edits[j]
      /\ (TagsAreClean /\ ReadsInv /\ LastInv /\ LostOnlyByOverlap)'
  BY <1>1, AskedStep
<1>3. /\ edits \in Seq(Edit) /\ Len(edits) \in Nat /\ MaxEdits \in Nat
      /\ DOMAIN edits = 1..Len(edits)
  BY TagsAssumption DEF TagsInv, TagsTypeOK
<1>4. PICK x : /\ x = [editors[e] EXCEPT !.shown = shown, !.before = editors[e].shown,
                                         !.edit = Len(edits) + 1]
               /\ editors' = [editors EXCEPT ![e] = x]
  BY DEF Sends
<1>5. editors[e] \in Editor
  BY DEF TagsInv, TagsTypeOK
<1>6. /\ x \in Editor /\ x.before = editors[e].shown /\ x.edit = Len(edits) + 1
      /\ x.heard = editors[e].heard /\ x.sure = editors[e].sure
  <2>1. Len(edits) + 1 \in 0..MaxEdits
    BY <1>1, <1>3
  <2> QED
    BY <1>4, <1>5, <2>1 DEF Editor
<1>7. /\ editors' \in [Editors -> Editor] /\ editors'[e] = x
      /\ \A d \in Editors \ {e} : editors'[d] = editors[d]
  BY <1>4, <1>6 DEF TagsInv, TagsTypeOK
<1>8. TagsTypeOK'
  BY <1>1, <1>2, <1>7 DEF TagsInv, TagsTypeOK
<1>9. ViewInv'
  <2> SUFFICES ASSUME NEW d \in Editors
               PROVE  /\ editors'[d].edit <= Len(edits') /\ editors'[d].heard <= Len(edits')
                      /\ editors'[d].heard # 0 => edits'[editors'[d].heard].pc = "written"
                      /\ editors'[d].sure /\ editors'[d].heard = lastWrite' =>
                           stored' = IF editors'[d].edit = 0 THEN editors'[d].shown
                                                             ELSE editors'[d].before
    BY DEF ViewInv
  <2>1. /\ editors[d] \in Editor /\ editors[d].heard \in Nat /\ editors[d].edit \in Nat
        /\ editors[d].edit <= Len(edits) /\ editors[d].heard <= Len(edits)
    BY <1>3 DEF TagsInv, TagsTypeOK, ViewInv, Editor
  <2>2. editors[d].heard # 0 => edits'[editors[d].heard].pc = "written"
    <3>1. editors[d].heard # 0 => editors[d].heard \in DOMAIN edits
      BY <1>3, <2>1
    <3> QED
      BY <1>2, <3>1 DEF TagsInv, ViewInv
  <2>3. CASE d = e
    BY <1>1, <1>2, <1>3, <1>6, <1>7, <2>1, <2>2, <2>3 DEF TagsInv, ViewInv
  <2>4. CASE d # e
    BY <1>1, <1>2, <1>3, <1>7, <2>1, <2>2, <2>4 DEF TagsInv, ViewInv
  <2> QED
    BY <2>3, <2>4
<1> QED
  BY <1>2, <1>8, <1>9 DEF TagsInv

LEMMA AddStep ==
  ASSUME TagsInv, NEW e \in Editors, HandleAdd(e)
  PROVE  TagsInv'
<1>1. PICK raw \in Text : /\ Normal(raw) # Blank
                          /\ Sends(e, <<Normal(raw)>>, <<>>,
                                   Append(editors[e].shown, Normal(raw)))
  BY DEF HandleAdd
<1>2. Normal(raw) \in Tag /\ Normal(raw) \in Text
  BY <1>1, NormalIs DEF Tag
<1>3. editors[e].shown \in Seq(Tag)
  BY DEF TagsInv, TagsTypeOK, Editor
<1>4. Append(editors[e].shown, Normal(raw)) \in Seq(Tag)
  BY <1>2, <1>3
<1>5. <<Normal(raw)>> \in Seq(Text) /\ <<>> \in Seq(Text)
  BY <1>2
<1> QED
  BY <1>1, <1>4, <1>5, SendsStep

LEMMA RemoveStep ==
  ASSUME TagsInv, NEW e \in Editors, HandleRemove(e)
  PROVE  TagsInv'
<1>1. editors[e].shown \in Seq(Tag)
  BY DEF TagsInv, TagsTypeOK, Editor
<1>2. PICK t \in ToSet(editors[e].shown) :
        Sends(e, <<>>, <<t>>, Without(editors[e].shown, <<t>>))
  BY DEF HandleRemove
<1>3. t \in Text
  BY <1>1 DEF ToSet, Tag
<1>4. PICK q \in Seq({x \in Tag : ~Contains(<<t>>, x)}) : q = Without(editors[e].shown, <<t>>)
  BY <1>1, WithoutIs
<1>5. q \in Seq(Tag)
  OBVIOUS
<1>6. <<t>> \in Seq(Text) /\ <<>> \in Seq(Text)
  BY <1>3
<1> QED
  BY <1>2, <1>4, <1>5, <1>6, SendsStep

\* What an editor does by itself moves neither the row nor a request.
LEMMA EditorStep ==
  ASSUME TagsInv, NEW e \in Editors, NEW x \in Editor,
         editors' = [editors EXCEPT ![e] = x],
         UNCHANGED <<stored, edits, ideal, lastWrite, overlapped>>,
         x.edit = 0, x.heard <= Len(edits),
         x.heard # 0 => edits[x.heard].pc = "written",
         x.sure /\ x.heard = lastWrite => stored = x.shown
  PROVE  TagsInv'
<1>1. /\ editors' \in [Editors -> Editor] /\ editors'[e] = x
      /\ \A d \in Editors \ {e} : editors'[d] = editors[d]
  BY DEF TagsInv, TagsTypeOK
<1>2. TagsTypeOK'
  BY <1>1 DEF TagsInv, TagsTypeOK
<1>3. (TagsAreClean /\ LastInv /\ LostOnlyByOverlap)'
  BY DEF TagsInv, TagsAreClean, LastInv, LostOnlyByOverlap
<1>4. Writes' = Writes
  BY DEF Writes
<1>5. ReadsInv'
  <2> SUFFICES ASSUME NEW i \in DOMAIN edits
               PROVE  /\ edits[i].pc \in {"read", "written"} => CleanEdit(edits[i])
                      /\ edits[i].pc = "read" =>
                           /\ edits[i].since <= Writes
                           /\ edits[i].since = Writes
                                => edits[i].next = Change(stored, edits[i])
    BY <1>4 DEF ReadsInv
  <2> QED
    BY DEF TagsInv, ReadsInv
<1>6. ViewInv'
  <2> SUFFICES ASSUME NEW d \in Editors
               PROVE  /\ editors'[d].edit <= Len(edits) /\ editors'[d].heard <= Len(edits)
                      /\ editors'[d].heard # 0 => edits[editors'[d].heard].pc = "written"
                      /\ editors'[d].sure /\ editors'[d].heard = lastWrite =>
                           stored = IF editors'[d].edit = 0 THEN editors'[d].shown
                                                            ELSE editors'[d].before
    BY DEF ViewInv
  <2>1. Len(edits) \in Nat
    BY DEF TagsInv, TagsTypeOK
  <2>2. CASE d = e
    BY <1>1, <2>1, <2>2
  <2>3. CASE d # e
    BY <1>1, <2>3 DEF TagsInv, ViewInv
  <2> QED
    BY <2>2, <2>3
<1> QED
  BY <1>2, <1>3, <1>5, <1>6 DEF TagsInv

LEMMA TagsAnsweredStep ==
  ASSUME TagsInv, NEW e \in Editors, TagsAnswered(e)
  PROVE  TagsInv'
<1> DEFINE n == editors[e].edit
<1>1. /\ editors[e] \in Editor /\ n \in 0..MaxEdits /\ n # 0 /\ n <= Len(edits)
      /\ MaxEdits \in Nat /\ edits \in Seq(Edit) /\ Len(edits) \in Nat
      /\ editors[e].heard <= Len(edits)
      /\ editors[e].heard # 0 => edits[editors[e].heard].pc = "written"
      /\ UNCHANGED <<stored, edits, ideal, lastWrite, overlapped>>
  BY TagsAssumption DEF TagsAnswered, TagsInv, TagsTypeOK, ViewInv, Editor
<1>2. n \in DOMAIN edits /\ edits[n] \in Edit /\ edits[n].pc \in {"written", "failed"}
  BY <1>1 DEF TagsAnswered
<1>3. <<>> \in Seq(Tag) /\ edits[n].next \in Seq(Tag) /\ editors[e].before \in Seq(Tag)
  <2>1. <<>> \in Seq(Tag)
    OBVIOUS
  <2>2. edits[n].next \in Seq(Tag)
    BY <1>2, ZenonT(30) DEF Edit
  <2>3. editors[e].before \in Seq(Tag)
    BY <1>1, ZenonT(30) DEF Editor
  <2> QED
    BY <2>1, <2>2, <2>3
<1>4. CASE edits[n].pc = "written"
  <2>1. PICK x : /\ x = [shown |-> edits[n].next, before |-> <<>>, edit |-> 0,
                         heard |-> n, sure |-> TRUE]
                 /\ editors' = [editors EXCEPT ![e] = x]
    BY <1>4 DEF TagsAnswered
  <2>2. x \in Editor /\ x.edit = 0 /\ x.heard = n /\ x.shown = edits[n].next
    BY <1>1, <1>3, <2>1 DEF Editor
  <2>3. lastWrite = n => stored = x.shown
    BY <1>1, <2>2 DEF TagsInv, LastInv
  <2> QED
    BY <1>1, <1>4, <2>1, <2>2, <2>3, EditorStep
<1>5. CASE edits[n].pc = "failed"
  <2>1. PICK x : /\ x = [editors[e] EXCEPT !.shown = editors[e].before, !.before = <<>>,
                                           !.edit = 0]
                 /\ editors' = [editors EXCEPT ![e] = x]
    BY <1>5 DEF TagsAnswered
  <2>2. /\ x \in Editor /\ x.edit = 0 /\ x.heard = editors[e].heard
        /\ x.shown = editors[e].before /\ x.sure = editors[e].sure
    <3>1. 0 \in 0..MaxEdits
      BY <1>1
    <3> QED
      BY <1>1, <1>3, <2>1, <3>1 DEF Editor
  <2>3. x.sure /\ x.heard = lastWrite => stored = x.shown
    BY <1>1, <2>2 DEF TagsInv, ViewInv
  <2> QED
    BY <1>1, <2>1, <2>2, <2>3, EditorStep
<1> QED
  BY <1>2, <1>4, <1>5

LEMMA TagsBreakStep ==
  ASSUME TagsInv, NEW e \in Editors, TagsBreak(e)
  PROVE  TagsInv'
<1>1. /\ editors[e] \in Editor /\ MaxEdits \in Nat /\ <<>> \in Seq(Tag)
      /\ editors[e].heard <= Len(edits)
      /\ editors[e].heard # 0 => edits[editors[e].heard].pc = "written"
      /\ UNCHANGED <<stored, edits, ideal, lastWrite, overlapped>>
  BY TagsAssumption DEF TagsBreak, TagsInv, TagsTypeOK, ViewInv
<1>2. PICK x : /\ x = [editors[e] EXCEPT !.before = <<>>, !.edit = 0, !.sure = FALSE]
               /\ editors' = [editors EXCEPT ![e] = x]
  BY DEF TagsBreak
<1>3. x \in Editor /\ x.edit = 0 /\ x.heard = editors[e].heard /\ ~x.sure
  <2>1. 0 \in 0..MaxEdits
    BY <1>1
  <2> QED
    BY <1>1, <1>2, <2>1 DEF Editor
<1> QED
  BY <1>1, <1>2, <1>3, EditorStep

LEMMA ReloadStep ==
  ASSUME TagsInv, NEW e \in Editors, Reload(e)
  PROVE  TagsInv'
<1>1. /\ stored \in Seq(Tag) /\ <<>> \in Seq(Tag) /\ MaxEdits \in Nat
      /\ lastWrite \in 0..MaxEdits /\ edits \in Seq(Edit)
      /\ UNCHANGED <<stored, edits, ideal, lastWrite, overlapped>>
  BY TagsAssumption DEF Reload, TagsInv, TagsTypeOK
<1>2. PICK x : /\ x = [shown |-> stored, before |-> <<>>, edit |-> 0,
                       heard |-> lastWrite, sure |-> TRUE]
               /\ editors' = [editors EXCEPT ![e] = x]
  BY DEF Reload
<1>3. x \in Editor /\ x.edit = 0 /\ x.heard = lastWrite /\ x.shown = stored
  <2>1. 0 \in 0..MaxEdits
    BY <1>1
  <2> QED
    BY <1>1, <1>2, <2>1 DEF Editor
<1>4. lastWrite <= Len(edits) /\ (lastWrite # 0 => edits[lastWrite].pc = "written")
  BY <1>1 DEF TagsInv, LastInv
<1> QED
  BY <1>1, <1>2, <1>3, <1>4, EditorStep

LEMMA ApiStep ==
  ASSUME TagsInv, ApiRequest
  PROVE  TagsInv'
<1>1. PICK op \in {"replace", "change"}, given \in Seq(Text), dropped \in Seq(Text) :
        edits' = Request(Api, op, given, dropped)
  <2>1. <<>> \in Seq(Text)
    OBVIOUS
  <2> QED
    BY <2>1, ApiAssumption DEF ApiRequest
<1>2. /\ Api \in Editors \cup {Api} /\ Len(edits) < MaxEdits
      /\ UNCHANGED <<stored, ideal, lastWrite, overlapped>> /\ editors' = editors
  BY DEF ApiRequest
<1>3. /\ edits' \in Seq(Edit) /\ Len(edits') <= MaxEdits
      /\ Len(edits') = Len(edits) + 1
      /\ \A j \in DOMAIN edits : j \in DOMAIN edits' /\ edits'[j] = edits[j]
      /\ (TagsAreClean /\ ReadsInv /\ LastInv /\ LostOnlyByOverlap)'
  BY <1>1, <1>2, AskedStep
<1>4. TagsTypeOK'
  BY <1>2, <1>3 DEF TagsInv, TagsTypeOK
<1>5. ViewInv'
  <2> SUFFICES ASSUME NEW d \in Editors
               PROVE  /\ editors[d].edit <= Len(edits') /\ editors[d].heard <= Len(edits')
                      /\ editors[d].heard # 0 => edits'[editors[d].heard].pc = "written"
                      /\ editors[d].sure /\ editors[d].heard = lastWrite =>
                           stored = IF editors[d].edit = 0 THEN editors[d].shown
                                                           ELSE editors[d].before
    BY <1>2 DEF ViewInv
  <2>1. /\ editors[d] \in Editor /\ editors[d].heard \in Nat /\ editors[d].edit \in Nat
        /\ editors[d].edit <= Len(edits) /\ editors[d].heard <= Len(edits)
        /\ Len(edits) \in Nat /\ DOMAIN edits = 1..Len(edits)
    BY TagsAssumption DEF TagsInv, TagsTypeOK, ViewInv, Editor
  <2>2. editors[d].heard # 0 => editors[d].heard \in DOMAIN edits
    BY <2>1
  <2>3. editors[d].heard # 0 => edits'[editors[d].heard].pc = "written"
    BY <1>3, <2>2 DEF TagsInv, ViewInv
  <2>4. /\ editors[d].sure /\ editors[d].heard = lastWrite =>
             stored = IF editors[d].edit = 0 THEN editors[d].shown ELSE editors[d].before
    BY DEF TagsInv, ViewInv
  <2> QED
    BY <1>3, <2>1, <2>3, <2>4
<1> QED
  BY <1>3, <1>4, <1>5 DEF TagsInv

\* A step of one edit keeps what the editors know, as long as it takes no write back
\* and a write is one that no editor has heard of.
LEMMA ViewKept ==
  ASSUME TagsInv, editors' = editors, Len(edits') = Len(edits),
         \A j \in DOMAIN edits : edits[j].pc = "written" => edits'[j].pc = "written",
         \/ UNCHANGED <<stored, lastWrite>>
         \/ lastWrite' \in DOMAIN edits /\ edits[lastWrite'].pc # "written"
  PROVE  ViewInv'
<1> SUFFICES ASSUME NEW d \in Editors
             PROVE  /\ editors[d].edit <= Len(edits) /\ editors[d].heard <= Len(edits)
                    /\ editors[d].heard # 0 => edits'[editors[d].heard].pc = "written"
                    /\ editors[d].sure /\ editors[d].heard = lastWrite' =>
                         stored' = IF editors[d].edit = 0 THEN editors[d].shown
                                                          ELSE editors[d].before
  BY DEF ViewInv
<1>1. /\ editors[d] \in Editor /\ editors[d].heard \in Nat
      /\ editors[d].edit <= Len(edits) /\ editors[d].heard <= Len(edits)
      /\ Len(edits) \in Nat /\ DOMAIN edits = 1..Len(edits)
  BY TagsAssumption DEF TagsInv, TagsTypeOK, ViewInv, Editor
<1>2. editors[d].heard # 0 =>
        editors[d].heard \in DOMAIN edits /\ edits[editors[d].heard].pc = "written"
  BY <1>1 DEF TagsInv, ViewInv
<1>3. CASE UNCHANGED <<stored, lastWrite>>
  BY <1>1, <1>2, <1>3 DEF TagsInv, ViewInv
<1>4. CASE lastWrite' \in DOMAIN edits /\ edits[lastWrite'].pc # "written"
  <2>1. lastWrite' # 0
    BY <1>1, <1>4
  <2> QED
    BY <1>1, <1>2, <1>4, <2>1
<1> QED
  BY <1>3, <1>4

\* One edit moves on to y: the others stay.
LEMMA EditMoves ==
  ASSUME edits \in Seq(Edit), NEW i \in DOMAIN edits, NEW y \in Edit,
         edits' = [edits EXCEPT ![i] = y]
  PROVE  /\ edits' \in Seq(Edit) /\ Len(edits') = Len(edits)
         /\ DOMAIN edits' = DOMAIN edits /\ edits'[i] = y
         /\ \A j \in DOMAIN edits \ {i} : edits'[j] = edits[j]
OBVIOUS

LEMMA ReadRowStep ==
  ASSUME TagsInv, NEW i \in DOMAIN edits, ReadRow(i)
  PROVE  TagsInv'
<1>1. /\ edits \in Seq(Edit) /\ edits[i] \in Edit /\ edits[i].pc = "sent"
      /\ stored \in Seq(Tag)
      /\ UNCHANGED <<stored, editors, ideal, lastWrite, overlapped>>
  BY DEF ReadRow, TagsInv, TagsTypeOK
<1>2. PICK n \in Nat, next \in Seq(Tag) :
        /\ n = Writes /\ next = Change(stored, edits[i])
        /\ IsInjective(next) /\ Len(next) <= MaxTags
        /\ edits[i].op = "change" =>
             \A t \in ToSet(edits[i].dropped) : t.form = "plain" => ~Contains(next, t)
  <2>1. /\ edits[i].given \in Seq(Text) /\ edits[i].dropped \in Seq(Text)
        /\ edits[i].op \in {"replace", "change"}
    BY <1>1 DEF Edit
  <2>2. IsInjective(stored)
    BY DEF TagsInv, TagsAreClean
  <2> QED
    BY <1>1, <2>1, <2>2, ChangeIs, WritesIs
<1>3. PICK y : /\ y = [edits[i] EXCEPT !.pc = "read", !.since = n, !.next = next]
               /\ edits' = [edits EXCEPT ![i] = y]
  BY <1>1, <1>2 DEF ReadRow
<1>4. /\ y \in Edit /\ y.pc = "read" /\ y.since = n /\ y.next = next
      /\ y.op = edits[i].op /\ y.given = edits[i].given /\ y.dropped = edits[i].dropped
  BY <1>1, <1>3 DEF Edit
<1>5. /\ edits' \in Seq(Edit) /\ Len(edits') = Len(edits)
      /\ DOMAIN edits' = DOMAIN edits /\ edits'[i] = y
      /\ \A j \in DOMAIN edits \ {i} : edits'[j] = edits[j]
  BY <1>1, <1>3, <1>4, EditMoves
<1>6. Writes' = Writes
  <2>1. \A j \in DOMAIN edits' :
          edits'[j].pc = "written" <=> j \in DOMAIN edits /\ edits[j].pc = "written"
    BY <1>1, <1>4, <1>5
  <2> QED
    BY <1>5, <2>1, WritesStay
<1>7. TagsTypeOK'
  BY <1>1, <1>5 DEF TagsInv, TagsTypeOK
<1>8. (TagsAreClean /\ LostOnlyByOverlap)'
  BY <1>1 DEF TagsInv, TagsAreClean, LostOnlyByOverlap
<1>9. LastInv'
  BY <1>1, <1>4, <1>5 DEF TagsInv, LastInv
<1>10. ReadsInv'
  <2> SUFFICES ASSUME NEW j \in DOMAIN edits
               PROVE  /\ edits'[j].pc \in {"read", "written"} => CleanEdit(edits'[j])
                      /\ edits'[j].pc = "read" =>
                           /\ edits'[j].since <= Writes
                           /\ edits'[j].since = Writes
                                => edits'[j].next = Change(stored, edits'[j])
    BY <1>1, <1>5, <1>6 DEF ReadsInv
  <2>1. CASE j = i
    <3>1. CleanEdit(y)
      BY <1>2, <1>4 DEF CleanEdit
    <3>2. Change(stored, y) = next
      BY <1>2, <1>4, ChangeOf
    <3> QED
      BY <1>2, <1>4, <1>5, <2>1, <3>1, <3>2
  <2>2. CASE j # i
    BY <1>5, <2>2 DEF TagsInv, ReadsInv
  <2> QED
    BY <2>1, <2>2
<1>11. ViewInv'
  <2>1. \A j \in DOMAIN edits : edits[j].pc = "written" => edits'[j].pc = "written"
    BY <1>1, <1>5
  <2> QED
    BY <1>1, <1>5, <2>1, ViewKept
<1> QED
  BY <1>7, <1>8, <1>9, <1>10, <1>11 DEF TagsInv

\* The write: an edit whose row was not written since it read is one step.
LEMMA WriteRowStep ==
  ASSUME TagsInv, NEW i \in DOMAIN edits, WriteRow(i)
  PROVE  TagsInv'
<1>1. /\ edits \in Seq(Edit) /\ edits[i] \in Edit /\ edits[i].pc = "read"
      /\ stored \in Seq(Tag) /\ ideal \in Seq(Tag) /\ overlapped \in BOOLEAN
      /\ stored' = edits[i].next /\ ideal' = Change(ideal, edits[i]) /\ lastWrite' = i
      /\ editors' = editors /\ MaxEdits \in Nat /\ i \in 1..Len(edits)
      /\ Len(edits) \in Nat /\ Len(edits) <= MaxEdits /\ DOMAIN edits = 1..Len(edits)
  BY TagsAssumption DEF WriteRow, TagsInv, TagsTypeOK
<1>2. PICK y : /\ y = [edits[i] EXCEPT !.pc = "written"]
               /\ edits' = [edits EXCEPT ![i] = y]
  BY <1>1 DEF WriteRow
<1>3. /\ y \in Edit /\ y.pc = "written" /\ y.since = edits[i].since
      /\ y.next = edits[i].next /\ y.op = edits[i].op
      /\ y.given = edits[i].given /\ y.dropped = edits[i].dropped
  BY <1>1, <1>2 DEF Edit
<1>4. /\ edits' \in Seq(Edit) /\ Len(edits') = Len(edits)
      /\ DOMAIN edits' = DOMAIN edits /\ edits'[i] = y
      /\ \A j \in DOMAIN edits \ {i} : edits'[j] = edits[j]
  BY <1>1, <1>2, <1>3, EditMoves
<1>5. PICK n \in Nat : n = Writes /\ Writes' = n + 1
  <2>1. Writes \in Nat
    BY <1>1, WritesIs
  <2>2. Writes' = Writes + 1
    <3>1. edits[i].pc # "written" /\ edits'[i].pc = "written"
      BY <1>1, <1>3, <1>4
    <3>2. \A j \in DOMAIN edits \ {i} : edits'[j].pc = edits[j].pc
      BY <1>4
    <3> QED
      BY <1>1, <1>4, <3>1, <3>2, WritesGrow
  <2> QED
    BY <2>1, <2>2
<1>6. CleanEdit(edits[i]) /\ edits[i].next \in Seq(Tag)
  BY <1>1 DEF TagsInv, ReadsInv, Edit
<1>7. CleanEdit(y)
  BY <1>3, <1>6 DEF CleanEdit
<1>8. TagsTypeOK'
  <2>1. ideal' \in Seq(Tag)
    <3>1. /\ edits[i].given \in Seq(Text) /\ edits[i].dropped \in Seq(Text)
          /\ edits[i].op \in {"replace", "change"}
      BY <1>1 DEF Edit
    <3> QED
      BY <1>1, <3>1, ChangeIs
  <2>2. lastWrite' \in 0..MaxEdits
    BY <1>1
  <2>3. overlapped' \in BOOLEAN
    BY <1>1 DEF WriteRow
  <2> QED
    BY <1>1, <1>4, <1>6, <2>1, <2>2, <2>3 DEF TagsInv, TagsTypeOK
<1>9. TagsAreClean'
  <2>1. Blank \notin Tag
    BY DEF Blank, Tag
  <2>2. \A k \in DOMAIN edits[i].next : edits[i].next[k] \in Tag
    BY <1>6
  <2> QED
    BY <1>1, <1>6, <2>1, <2>2 DEF TagsAreClean, CleanEdit, ToSet
<1>10. LastInv'
  BY <1>1, <1>3, <1>4 DEF LastInv
<1>11. LostOnlyByOverlap'
  <2> SUFFICES ASSUME ~overlapped' PROVE stored' = ideal'
    BY DEF LostOnlyByOverlap
  <2>1. ~overlapped /\ edits[i].since = Writes
    BY DEF WriteRow
  <2>2. stored = ideal
    BY <2>1 DEF TagsInv, LostOnlyByOverlap
  <2>3. edits[i].next = Change(stored, edits[i])
    BY <1>1, <2>1 DEF TagsInv, ReadsInv
  <2> QED
    BY <1>1, <2>2, <2>3
<1>12. ReadsInv'
  <2> SUFFICES ASSUME NEW j \in DOMAIN edits
               PROVE  /\ edits'[j].pc \in {"read", "written"} => CleanEdit(edits'[j])
                      /\ edits'[j].pc = "read" =>
                           /\ edits'[j].since <= n + 1 /\ edits'[j].since # n + 1
    BY <1>4, <1>5 DEF ReadsInv
  <2>1. CASE j = i
    BY <1>3, <1>4, <1>7, <2>1
  <2>2. CASE j # i
    <3>1. edits'[j] = edits[j] /\ edits[j].since \in Nat
      <4>1. edits[j] \in Edit
        BY <1>1
      <4> QED
        BY <1>4, <2>2, <4>1 DEF Edit
    <3>2. /\ edits[j].pc \in {"read", "written"} => CleanEdit(edits[j])
          /\ edits[j].pc = "read" => edits[j].since <= n
      BY <1>5 DEF TagsInv, ReadsInv
    <3> QED
      BY <3>1, <3>2
  <2> QED
    BY <2>1, <2>2
<1>13. ViewInv'
  <2>1. \A j \in DOMAIN edits : edits[j].pc = "written" => edits'[j].pc = "written"
    BY <1>1, <1>3, <1>4
  <2>2. lastWrite' \in DOMAIN edits /\ edits[lastWrite'].pc # "written"
    BY <1>1
  <2> QED
    BY <1>1, <1>4, <2>1, <2>2, ViewKept
<1> QED
  BY <1>8, <1>9, <1>10, <1>11, <1>12, <1>13 DEF TagsInv

LEMMA FailsStep ==
  ASSUME TagsInv, NEW i \in DOMAIN edits, Fails(i)
  PROVE  TagsInv'
<1>1. /\ edits \in Seq(Edit) /\ edits[i] \in Edit /\ edits[i].pc # "written"
      /\ UNCHANGED <<stored, editors, ideal, lastWrite, overlapped>>
  BY DEF Fails, TagsInv, TagsTypeOK
<1>2. PICK y : /\ y = [edits[i] EXCEPT !.pc = "failed"]
               /\ edits' = [edits EXCEPT ![i] = y]
  BY <1>1 DEF Fails
<1>3. y \in Edit /\ y.pc = "failed"
  BY <1>1, <1>2 DEF Edit
<1>4. /\ edits' \in Seq(Edit) /\ Len(edits') = Len(edits)
      /\ DOMAIN edits' = DOMAIN edits /\ edits'[i] = y
      /\ \A j \in DOMAIN edits \ {i} : edits'[j] = edits[j]
  BY <1>1, <1>2, <1>3, EditMoves
<1>5. Writes' = Writes
  <2>1. \A j \in DOMAIN edits' :
          edits'[j].pc = "written" <=> j \in DOMAIN edits /\ edits[j].pc = "written"
    BY <1>1, <1>3, <1>4
  <2> QED
    BY <1>4, <2>1, WritesStay
<1>6. TagsTypeOK'
  BY <1>1, <1>4 DEF TagsInv, TagsTypeOK
<1>7. (TagsAreClean /\ LostOnlyByOverlap)'
  BY <1>1 DEF TagsInv, TagsAreClean, LostOnlyByOverlap
<1>8. LastInv'
  BY <1>1, <1>4 DEF TagsInv, LastInv
<1>9. ReadsInv'
  <2> SUFFICES ASSUME NEW j \in DOMAIN edits
               PROVE  /\ edits'[j].pc \in {"read", "written"} => CleanEdit(edits'[j])
                      /\ edits'[j].pc = "read" =>
                           /\ edits'[j].since <= Writes
                           /\ edits'[j].since = Writes
                                => edits'[j].next = Change(stored, edits'[j])
    BY <1>1, <1>4, <1>5 DEF ReadsInv
  <2>1. CASE j = i
    BY <1>3, <1>4, <2>1
  <2>2. CASE j # i
    BY <1>4, <2>2 DEF TagsInv, ReadsInv
  <2> QED
    BY <2>1, <2>2
<1>10. ViewInv'
  <2>1. \A j \in DOMAIN edits : edits[j].pc = "written" => edits'[j].pc = "written"
    BY <1>1, <1>4
  <2> QED
    BY <1>1, <1>4, <2>1, ViewKept
<1> QED
  BY <1>6, <1>7, <1>8, <1>9, <1>10 DEF TagsInv

LEMMA TagsStep == TagsInv /\ [TagsNext]_tagsVars => TagsInv'
<1> SUFFICES ASSUME TagsInv, [TagsNext]_tagsVars PROVE TagsInv'
  OBVIOUS
<1>1. ASSUME NEW e \in Editors,
             \/ HandleAdd(e) \/ HandleRemove(e) \/ TagsAnswered(e) \/ TagsBreak(e)
             \/ Reload(e)
      PROVE  TagsInv'
  BY <1>1, AddStep, RemoveStep, TagsAnsweredStep, TagsBreakStep, ReloadStep
<1>2. ASSUME NEW i \in DOMAIN edits, ReadRow(i) \/ WriteRow(i) \/ Fails(i)
      PROVE  TagsInv'
  BY <1>2, ReadRowStep, WriteRowStep, FailsStep
<1>3. CASE UNCHANGED tagsVars
  <2>1. UNCHANGED <<stored, editors, edits, ideal, lastWrite, overlapped>>
    BY <1>3 DEF tagsVars
  <2>2. Writes' = Writes
    BY <2>1 DEF Writes
  <2>3. ReadsInv'
    <3> SUFFICES ASSUME NEW i \in DOMAIN edits
                 PROVE  /\ edits[i].pc \in {"read", "written"} => CleanEdit(edits[i])
                        /\ edits[i].pc = "read" =>
                             /\ edits[i].since <= Writes
                             /\ edits[i].since = Writes
                                  => edits[i].next = Change(stored, edits[i])
      BY <2>1, <2>2 DEF ReadsInv
    <3> QED
      BY DEF TagsInv, ReadsInv
  <2>4. TagsTypeOK' /\ TagsAreClean' /\ LastInv' /\ LostOnlyByOverlap'
    BY <2>1 DEF TagsInv, TagsTypeOK, TagsAreClean, LastInv, LostOnlyByOverlap
  <2>5. ViewInv'
    BY <2>1 DEF TagsInv, ViewInv
  <2> QED
    BY <2>3, <2>4, <2>5 DEF TagsInv
<1> QED
  BY <1>1, <1>2, <1>3, ApiStep DEF TagsNext

\* However many editors and API clients change the tags of a lead, and whatever they
\* send: an edit is lost only when two of them overlap, an editor that has heard of the
\* last write shows the row, and a removed tag is gone from what was written.
THEOREM EditsStayTrue == TagsSpec => []EditsAreTrue
<1>1. TagsInv => EditsAreTrue
  BY TagsPromise
<1> QED
  BY <1>1, TagsStart, TagsStep, PTL DEF TagsSpec

\* The row of a lead holds tags of their type, none twice, no blank, and no more than
\* the cap, whatever updateLeadTags is sent and however its two statements interleave.
THEOREM TagsStayClean == TagsSpec => [](TagsTypeOK /\ TagsAreClean)
<1>1. TagsInv => TagsTypeOK /\ TagsAreClean
  BY DEF TagsInv
<1> QED
  BY <1>1, TagsStart, TagsStep, PTL DEF TagsSpec

(***************************************************************************)
(* The paged lists.  A row that was there when the walk began and is not   *)
(* yet seen either comes on a later page, or has moved past the reader; in *)
(* a list, only a row that leaves moves others forward.                    *)
(***************************************************************************)

\* The rows that the reader still has to see, but for those that may be missed.
Unread == (walk.start \ walk.seen) \ (walk.moved \cup walk.left)

\* The places the reader is through with.
Covered == IF walk.items THEN walk.page * PageSize ELSE Skip(walk.page)

Passed == {r \in Unread : Place(r) <= Covered}

StampsInv ==
  /\ \A r \in Ids : stamps[r] <= MaxRows + walk.changes
  /\ \A q, r \in Rows : stamps[q] = stamps[r] => q = r

ListInv ==
  /\ Unread \subseteq matches /\ walk.left \subseteq Rows
  /\ listing = "queued" => walk.left \cap matches = {}

\* The reader knows that there is no further page.
AtTheEnd ==
  \/ walk.pc = "done"
  \/ walk.items /\ walk.total # -1 /\ ~HasNext

\* No more rows were passed than left the list, and on the last page no more
\* are beyond it than came since they were counted.
ReaderInv ==
  /\ walk.page # 0
  /\ walk.pc = "read" => Cardinality(Passed) <= Cardinality(walk.left)
  /\ walk.pc = "read" /\ walk.total # -1 /\ ~walk.items =>
       Cardinality(matches) <= walk.total + walk.raced
  /\ AtTheEnd => Cardinality(Unread) <= Cardinality(walk.left) + walk.raced

PagesInv == PagesTypeOK /\ StampsInv /\ ListInv /\ ReaderInv

LEMMA PagesPromise == PagesInv => MissedOnlyIfMoved
<1> SUFFICES ASSUME PagesInv, walk.pc = "done"
             PROVE  Cardinality(Unread) <= Cardinality(walk.left) + walk.raced
  BY DEF MissedOnlyIfMoved, Unread
<1> QED
  BY DEF PagesInv, ReaderInv, AtTheEnd

\* Every set of rows is finite.
LEMMA IdsAre ==
  /\ IsFiniteSet(Ids)
  /\ \A s \in SUBSET Ids : IsFiniteSet(s) /\ Cardinality(s) \in Nat
  /\ \A s \in SUBSET Ids : \A t \in SUBSET s : Cardinality(t) <= Cardinality(s)
<1>1. 1 \in Int /\ MaxRows \in Int
  BY PagesAssumption
<1>2. IsFiniteSet(Ids)
  BY <1>1, FS_Interval, Zenon DEF Ids
<1>3. \A s \in SUBSET Ids : IsFiniteSet(s) /\ Cardinality(s) \in Nat
  BY <1>2, FS_Subset, FS_CardinalityType, Zenon
<1>4. ASSUME NEW s \in SUBSET Ids, NEW t \in SUBSET s PROVE Cardinality(t) <= Cardinality(s)
  BY <1>3, FS_Subset, Zenon
<1> QED
  BY <1>2, <1>3, <1>4

\* The rows up to one in the list.
Upto(r) == {q \in matches : stamps[q] >= stamps[r]}

LEMMA PlaceIs ==
  ASSUME PagesTypeOK, StampsInv
  PROVE  /\ matches \subseteq Ids /\ Cardinality(matches) \in Nat
         /\ \A r \in Ids : Place(r) = Cardinality(Upto(r)) /\ Upto(r) \in SUBSET Ids
         /\ \A r \in Ids : Place(r) \in Nat /\ Place(r) <= Cardinality(matches)
         /\ \A q, r \in matches : Place(q) = Place(r) => q = r
<1>1. matches \subseteq Rows /\ Rows \subseteq Ids /\ stamps \in [Ids -> Nat]
  BY DEF PagesTypeOK, Rows
<1>2. \A r : Upto(r) \in SUBSET matches /\ Place(r) = Cardinality(Upto(r))
  BY DEF Upto, Place
<1>3. \A r : Place(r) \in Nat /\ Place(r) <= Cardinality(matches)
  BY <1>1, <1>2, IdsAre
<1>4. ASSUME NEW q \in matches, NEW r \in matches, stamps[q] < stamps[r]
      PROVE  Place(q) # Place(r)
  <2>1. PICK s : s = Upto(q)
    OBVIOUS
  <2>2. s \in SUBSET Ids /\ q \in s /\ Upto(r) \in SUBSET (s \ {q}) /\ s \ {q} \in SUBSET Ids
    BY <1>1, <1>4, <2>1 DEF Upto
  <2>3. Cardinality(s \ {q}) = Cardinality(s) - 1
    BY <2>2, IdsAre, FS_RemoveElement, Zenon
  <2>4. Cardinality(Upto(r)) <= Cardinality(s \ {q})
    BY <2>2, IdsAre, Zenon
  <2>5. Cardinality(s) \in Nat /\ Cardinality(Upto(r)) \in Nat
    BY <2>2, IdsAre
  <2> QED
    BY <1>2, <2>1, <2>3, <2>4, <2>5
<1>5. ASSUME NEW q \in matches, NEW r \in matches, Place(q) = Place(r) PROVE q = r
  <2>1. q \in Rows /\ r \in Rows /\ stamps[q] \in Nat /\ stamps[r] \in Nat
    BY <1>1
  <2>2. stamps[q] = stamps[r]
    BY <1>4, <1>5, <2>1
  <2> QED
    BY <2>1, <2>2 DEF StampsInv
<1> QED
  BY <1>1, <1>2, <1>3, <1>5, IdsAre

\* Beyond a place are no more rows than the list has beyond it.
LEMMA BeyondIs ==
  ASSUME PagesTypeOK, StampsInv, NEW n \in Nat
  PROVE  LET beyond == {r \in matches : Place(r) > n} IN
         /\ n <= Cardinality(matches) => Cardinality(beyond) <= Cardinality(matches) - n
         /\ n >= Cardinality(matches) => beyond = {}
<1> DEFINE beyond == {r \in matches : Place(r) > n}
           place == [r \in beyond |-> Place(r)]
<1>1. PICK m \in Nat : m = Cardinality(matches) /\ matches \subseteq Ids
  BY PlaceIs
<1>2. \A r \in matches : Place(r) \in Nat /\ Place(r) <= m
  BY <1>1, PlaceIs
<1>3. \A q, r \in matches : Place(q) = Place(r) => q = r
  BY PlaceIs
<1>4. n >= m => beyond = {}
  BY <1>2
<1>5. ASSUME n <= m PROVE Cardinality(beyond) <= m - n
  <2>1. place \in Injection(beyond, (n + 1)..m)
    <3>1. \A r \in beyond : place[r] \in (n + 1)..m
      BY <1>2
    <3>2. place \in [beyond -> (n + 1)..m]
      BY <3>1
    <3>3. \A q, r \in beyond : place[q] = place[r] => q = r
      BY <1>3
    <3> HIDE DEF place, beyond
    <3> QED
      BY <3>2, <3>3 DEF Injection, IsInjective
  <2>2. n + 1 \in Int /\ m \in Int
    BY <1>1
  <2>3. IsFiniteSet((n + 1)..m) /\ Cardinality((n + 1)..m) = m - n
    <3>1. IsFiniteSet((n + 1)..m)
      BY <2>2, FS_Interval, Zenon
    <3>2. Cardinality((n + 1)..m) = IF n + 1 > m THEN 0 ELSE m - (n + 1) + 1
      BY <2>2, FS_Interval, Zenon
    <3> QED
      BY <1>1, <1>5, <3>1, <3>2
  <2>4. Cardinality(beyond) <= Cardinality((n + 1)..m)
    <3> HIDE DEF place, beyond
    <3> QED
      BY <2>1, <2>3, FS_Injection, Zenon
  <2> QED
    BY <2>3, <2>4
<1> QED
  BY <1>1, <1>4, <1>5

LEMMA PagesStart == PagesInit => PagesInv
<1> SUFFICES ASSUME PagesInit PROVE PagesInv
  OBVIOUS
<1>1. /\ listing \in {"leads", "queued", "settled"} /\ matches \subseteq Rows
      /\ walk = [pc |-> "read", page |-> 1, items |-> FALSE, total |-> -1,
                 start |-> matches, seen |-> {}, moved |-> {}, left |-> {},
                 raced |-> 0, changes |-> 0]
  BY DEF PagesInit
<1>2. PICK n \in 0..MaxRows : stamps = [r \in Ids |-> IF r <= n THEN r ELSE 0]
  BY DEF PagesInit
<1>3. /\ MaxRows \in Nat /\ PageSize \in Nat /\ \A r \in Ids : r \in Nat
  BY PagesAssumption DEF Ids
<1>4. stamps \in [Ids -> Nat] /\ Rows \subseteq Ids /\ matches \subseteq Ids
  BY <1>1, <1>2, <1>3 DEF Rows
<1>5. walk \in Walk
  <2>1. matches \in SUBSET Ids /\ {} \in SUBSET Ids
    BY <1>4
  <2> QED
    BY <1>1, <2>1 DEF Walk
<1>6. PagesTypeOK
  BY <1>1, <1>4, <1>5 DEF PagesTypeOK
<1>7. StampsInv
  BY <1>1, <1>2, <1>3 DEF StampsInv, Rows, Ids
<1>8. Unread = matches /\ walk.left = {}
  BY <1>1 DEF Unread
<1>9. ListInv
  BY <1>8 DEF ListInv
<1>10. Covered = 0
  BY <1>1, <1>3 DEF Covered, Skip
<1>11. Passed = {}
  <2>1. \A r \in matches : r \in Upto(r) /\ r \in Ids
    BY <1>4 DEF Upto
  <2>2. \A r \in matches : Cardinality(Upto(r)) # 0
    <3>1. \A r \in matches : IsFiniteSet(Upto(r))
      BY <1>6, <1>7, <2>1, PlaceIs, IdsAre
    <3> QED
      BY <2>1, <3>1, FS_EmptySet
  <2>3. \A r \in matches : Place(r) = Cardinality(Upto(r)) /\ Place(r) \in Nat
    BY <1>6, <1>7, <2>1, PlaceIs
  <2> QED
    BY <1>8, <1>10, <2>2, <2>3 DEF Passed
<1>12. ReaderInv
  <2>1. Cardinality(Passed) = 0 /\ Cardinality(walk.left) = 0
    BY <1>8, <1>11, FS_EmptySet
  <2> QED
    BY <1>1, <2>1 DEF ReaderInv, AtTheEnd
<1> QED
  BY <1>6, <1>7, <1>9, <1>12 DEF PagesInv

-----------------------------------------------------------------------------
(* The paged lists: the reader.                                              *)

\* What all steps of the reader leave alone.
LEMMA ReaderFrame ==
  ASSUME PagesInv, UNCHANGED <<listing, stamps, matches>>,
         walk' \in Walk, walk'.changes = walk.changes, walk'.left = walk.left,
         Unread' \subseteq Unread
  PROVE  /\ PagesTypeOK' /\ StampsInv' /\ ListInv'
         /\ \A r \in Ids : Place(r)' = Place(r)
<1>1. Rows' = Rows
  BY DEF Rows
<1>2. PagesTypeOK'
  BY <1>1 DEF PagesInv, PagesTypeOK
<1>3. StampsInv'
  BY <1>1 DEF PagesInv, StampsInv
<1>4. ListInv'
  BY <1>1 DEF PagesInv, ListInv
<1>5. \A r \in Ids : Place(r)' = Place(r)
  BY DEF Place
<1> QED
  BY <1>2, <1>3, <1>4, <1>5

\* The places of a page end where those of the next begin.
LEMMA PagesAre ==
  ASSUME PagesTypeOK, walk.page # 0
  PROVE  /\ walk.page \in Nat /\ walk.page * PageSize \in Nat
         /\ Skip(walk.page) \in Nat
         /\ Skip(walk.page) + PageSize = walk.page * PageSize
         /\ Skip(walk.page + 1) = walk.page * PageSize
         /\ Covered \in Nat
<1>1. PICK p \in Nat, s \in Nat : p = walk.page /\ s = PageSize /\ p # 0
  BY PagesAssumption DEF PagesTypeOK, Walk
<1>2. p * s \in Nat /\ (p - 1) * s \in Nat /\ (p - 1) * s + s = p * s
      /\ ((p + 1) - 1) * s = p * s
  <2>1. p - 1 \in Nat /\ (p + 1) - 1 = p
    BY <1>1
  <2>2. \A a, b \in Nat : a * b \in Nat
    OBVIOUS
  <2>3. (p - 1) * s + s = p * s
    OBVIOUS
  <2> QED
    BY <2>1, <2>2, <2>3
<1> QED
  BY <1>1, <1>2 DEF Skip, Covered

LEMMA ReadItemsStep ==
  ASSUME PagesInv, ReadItems
  PROVE  PagesInv'
<1>1. /\ walk \in Walk /\ walk.pc = "read" /\ ~walk.items
      /\ UNCHANGED <<listing, stamps, matches>> /\ walk.page # 0
  BY DEF ReadItems, PagesInv, PagesTypeOK, ReaderInv
<1>2. PICK slice : slice = Slice(walk.page) /\ slice \subseteq Ids
  BY DEF PagesInv, PagesTypeOK, Rows, Slice
<1>3. walk' = [walk EXCEPT !.items = TRUE, !.seen = walk.seen \cup slice]
  BY <1>2 DEF ReadItems
<1>4. /\ walk' \in Walk /\ walk'.changes = walk.changes /\ walk'.left = walk.left
      /\ walk'.moved = walk.moved /\ walk'.start = walk.start /\ walk'.raced = walk.raced
      /\ walk'.page = walk.page /\ walk'.total = walk.total /\ walk'.pc = "read"
      /\ walk'.items /\ walk'.seen = walk.seen \cup slice
  BY <1>1, <1>2, <1>3 DEF Walk
<1>5. Unread' = Unread \ slice
  BY <1>4 DEF Unread
<1>6. /\ PagesTypeOK' /\ StampsInv' /\ ListInv'
      /\ \A r \in Ids : Place(r)' = Place(r)
  BY <1>1, <1>4, <1>5, ReaderFrame
<1>7. PICK n \in Nat, k \in Nat :
        /\ n = walk.page * PageSize /\ k = Skip(walk.page) /\ k + PageSize = n
        /\ Covered = k /\ Covered' = n
  BY <1>1, <1>4, PagesAre DEF PagesInv, Covered
<1>8. /\ Unread \subseteq matches /\ matches \subseteq Ids
      /\ \A r \in Ids : Place(r) \in Nat
      /\ \A r \in matches : r \in slice <=> k < Place(r) /\ Place(r) <= n
  BY <1>2, <1>7, PlaceIs DEF PagesInv, ListInv, Slice
<1>9. Passed' \subseteq Passed
  <2> SUFFICES ASSUME NEW r \in Passed' PROVE r \in Passed
    OBVIOUS
  <2>1. r \in Unread /\ r \notin slice /\ Place(r)' <= n
    BY <1>5, <1>7 DEF Passed
  <2>2. r \in matches /\ Place(r) \in Nat /\ Place(r) <= n
    BY <1>6, <1>8, <2>1
  <2> QED
    BY <1>7, <1>8, <2>1, <2>2 DEF Passed
<1>10. Passed \in SUBSET Ids /\ Unread \in SUBSET Ids /\ walk.left \in SUBSET Ids
  BY <1>1, <1>8 DEF Passed, Walk
<1>11. PICK p \in Nat, l \in Nat, c \in Nat :
         /\ p = Cardinality(Passed') /\ l = Cardinality(walk.left) /\ p <= l
         /\ c = Cardinality(matches)
  <2>1. Cardinality(Passed) <= Cardinality(walk.left)
    BY <1>1 DEF PagesInv, ReaderInv
  <2>2. Passed' \in SUBSET Ids /\ Cardinality(Passed') <= Cardinality(Passed)
    BY <1>9, <1>10, IdsAre
  <2> QED
    BY <1>8, <1>10, <2>1, <2>2, IdsAre
<1>12. ASSUME walk.total # -1, ~(n < walk.total)
       PROVE  Cardinality(Unread') <= l + walk.raced
  <2>1. walk.total \in Nat /\ walk.raced \in Nat /\ c <= walk.total + walk.raced
    BY <1>1, <1>11, <1>12 DEF Walk, PagesInv, ReaderInv
  <2>2. PICK beyond : beyond = {r \in matches : Place(r) > n}
    OBVIOUS
  <2>3. Unread' \subseteq Passed' \cup beyond
    <3> SUFFICES ASSUME NEW r \in Unread', r \notin beyond PROVE r \in Passed'
      OBVIOUS
    <3>1. r \in matches /\ r \in Ids /\ Place(r) \in Nat /\ Place(r) <= n
      BY <1>5, <1>8, <2>2
    <3> QED
      BY <1>6, <1>7, <3>1 DEF Passed
  <2>4. beyond \in SUBSET Ids /\ Cardinality(beyond) \in Nat
    BY <1>8, <2>2, IdsAre
  <2>5. Cardinality(beyond) <= walk.raced
    <3>1. n <= c => Cardinality(beyond) <= c - n
      BY <1>11, <2>2, BeyondIs DEF PagesInv
    <3>2. n >= c => Cardinality(beyond) = 0
      BY <1>11, <2>2, BeyondIs, FS_EmptySet DEF PagesInv
    <3> QED
      BY <1>12, <2>1, <2>4, <3>1, <3>2
  <2>6. /\ Unread' \in SUBSET (Passed' \cup beyond) /\ Passed' \cup beyond \in SUBSET Ids
        /\ Passed' \in SUBSET Ids
    BY <1>9, <1>10, <2>3, <2>4
  <2>7. Cardinality(Passed' \cup beyond) <= p + Cardinality(beyond)
    <3>1. IsFiniteSet(Passed') /\ IsFiniteSet(beyond)
      BY <2>4, <2>6, IdsAre
    <3>2. Cardinality(Passed' \cup beyond)
            = Cardinality(Passed') + Cardinality(beyond) - Cardinality(Passed' \cap beyond)
      BY <3>1, FS_Union, Zenon
    <3>3. Cardinality(Passed' \cap beyond) \in Nat
      BY <2>6, IdsAre
    <3> QED
      BY <1>11, <2>4, <3>2, <3>3
  <2>8. Cardinality(Unread') <= Cardinality(Passed' \cup beyond)
    BY <2>6, IdsAre
  <2>9. Cardinality(Unread') \in Nat /\ Cardinality(Passed' \cup beyond) \in Nat
    BY <2>6, IdsAre
  <2> QED
    BY <1>11, <2>1, <2>4, <2>5, <2>7, <2>8, <2>9
<1>13. ReaderInv'
  BY <1>1, <1>4, <1>7, <1>11, <1>12 DEF ReaderInv, AtTheEnd, HasNext
<1> QED
  BY <1>6, <1>13 DEF PagesInv

LEMMA ReadTotalStep ==
  ASSUME PagesInv, ReadTotal
  PROVE  PagesInv'
<1>1. /\ walk \in Walk /\ walk.pc = "read" /\ walk.total = -1
      /\ UNCHANGED <<listing, stamps, matches>> /\ walk.page # 0
  BY DEF ReadTotal, PagesInv, PagesTypeOK, ReaderInv
<1>2. PICK c \in Nat : c = Cardinality(matches)
  BY PlaceIs DEF PagesInv
<1>3. walk' = [walk EXCEPT !.total = c]
  BY <1>2 DEF ReadTotal
<1>4. /\ walk' \in Walk /\ walk'.changes = walk.changes /\ walk'.left = walk.left
      /\ walk'.moved = walk.moved /\ walk'.start = walk.start /\ walk'.raced = walk.raced
      /\ walk'.page = walk.page /\ walk'.total = c /\ walk'.pc = "read"
      /\ walk'.items = walk.items /\ walk'.seen = walk.seen
  BY <1>1, <1>2, <1>3 DEF Walk
<1>5. Unread' = Unread
  BY <1>4 DEF Unread
<1>6. /\ PagesTypeOK' /\ StampsInv' /\ ListInv'
      /\ \A r \in Ids : Place(r)' = Place(r)
  BY <1>1, <1>4, <1>5, ReaderFrame
<1>7. Covered' = Covered
  BY <1>4 DEF Covered, Skip
<1>8. /\ Unread \subseteq matches /\ matches \subseteq Ids
      /\ \A r \in Ids : Place(r) \in Nat /\ Place(r) <= c
  BY <1>2, PlaceIs DEF PagesInv, ListInv
<1>9. Passed' = Passed
  <2>1. \A r \in Unread : Place(r)' = Place(r)
    BY <1>6, <1>8
  <2> QED
    BY <1>5, <1>7, <2>1 DEF Passed
<1>10. PICK l \in Nat : l = Cardinality(walk.left) /\ Cardinality(Passed) <= l
  <2>1. walk.left \in SUBSET Ids
    BY <1>1 DEF Walk
  <2> QED
    BY <1>1, <2>1, IdsAre DEF PagesInv, ReaderInv
<1>11. walk.raced \in Nat
  BY <1>1 DEF Walk
<1>12. ASSUME walk.items, ~(walk.page * PageSize < c)
       PROVE  Cardinality(Unread) <= l + walk.raced
  <2>1. walk.page * PageSize \in Nat /\ Covered = walk.page * PageSize
    BY <1>1, <1>12, PagesAre DEF PagesInv, Covered
  <2>2. Unread = Passed
    BY <1>8, <1>12, <2>1 DEF Passed
  <2>3. Cardinality(Unread) \in Nat
    BY <1>8, IdsAre
  <2> QED
    BY <1>10, <1>11, <2>2, <2>3
<1>13. ReaderInv'
  BY <1>1, <1>2, <1>4, <1>5, <1>9, <1>10, <1>11, <1>12 DEF ReaderInv, AtTheEnd, HasNext
<1> QED
  BY <1>6, <1>13 DEF PagesInv

LEMMA TurnStep ==
  ASSUME PagesInv, Turn
  PROVE  PagesInv'
<1>1. /\ walk \in Walk /\ walk.pc = "read" /\ walk.total # -1 /\ walk.items
      /\ UNCHANGED <<listing, stamps, matches>> /\ walk.page # 0 /\ walk.page \in Nat
  BY DEF Turn, PagesInv, PagesTypeOK, ReaderInv, Walk
<1>2. CASE HasNext
  <2>0. PICK p \in Nat, none \in Nat \cup {-1} : p = walk.page + 1 /\ p # 0 /\ none = -1
    BY <1>1
  <2>1. walk' = [walk EXCEPT !.page = p, !.items = FALSE, !.total = none]
    BY <1>2, <2>0 DEF Turn
  <2>2. /\ walk' \in Walk /\ walk'.changes = walk.changes /\ walk'.left = walk.left
        /\ walk'.moved = walk.moved /\ walk'.start = walk.start
        /\ walk'.page = p /\ walk'.total = none /\ walk'.pc = "read"
        /\ ~walk'.items /\ walk'.seen = walk.seen
    BY <1>1, <2>1 DEF Walk
  <2>3. Unread' = Unread
    BY <2>2 DEF Unread
  <2>4. /\ PagesTypeOK' /\ StampsInv' /\ ListInv'
        /\ \A r \in Ids : Place(r)' = Place(r)
    BY <1>1, <2>2, <2>3, ReaderFrame
  <2>5. Covered' = Covered
    BY <1>1, <2>0, <2>2, PagesAre DEF PagesInv, Covered, Skip
  <2>6. Passed' = Passed
    <3>1. \A r \in Unread : Place(r)' = Place(r)
      BY <2>4, PlaceIs DEF PagesInv, ListInv
    <3> QED
      BY <2>3, <2>5, <3>1 DEF Passed
  <2>7. ReaderInv'
    BY <1>1, <2>0, <2>2, <2>6 DEF PagesInv, ReaderInv, AtTheEnd
  <2> QED
    BY <2>4, <2>7 DEF PagesInv
<1>3. CASE ~HasNext
  <2>1. walk' = [walk EXCEPT !.pc = "done"]
    BY <1>3 DEF Turn
  <2>2. /\ walk' \in Walk /\ walk'.changes = walk.changes /\ walk'.left = walk.left
        /\ walk'.moved = walk.moved /\ walk'.start = walk.start
        /\ walk'.page = walk.page /\ walk'.pc = "done" /\ walk'.raced = walk.raced
        /\ walk'.seen = walk.seen
    BY <1>1, <2>1 DEF Walk
  <2>3. Unread' = Unread
    BY <2>2 DEF Unread
  <2>4. PagesTypeOK' /\ StampsInv' /\ ListInv'
    BY <1>1, <2>2, <2>3, ReaderFrame
  <2>5. ReaderInv'
    BY <1>1, <1>3, <2>2, <2>3 DEF PagesInv, ReaderInv, AtTheEnd
  <2> QED
    BY <2>4, <2>5 DEF PagesInv
<1> QED
  BY <1>2, <1>3

-----------------------------------------------------------------------------
(* The paged lists: what the worker does meanwhile.                          *)

\* Rows that come or move to the front push the others back, and at most
\* raced grows with the list: the reader passes no more of them.
LEMMA PushedStep ==
  ASSUME PagesInv, walk.pc = "read", walk' \in Walk, walk'.pc = "read",
         PagesTypeOK', StampsInv', ListInv',
         walk'.left = walk.left, walk'.page = walk.page, walk'.items = walk.items,
         walk'.total = walk.total, Unread' \subseteq Unread,
         walk'.raced = walk.raced \/ walk'.raced = walk.raced + Raced,
         \/ matches' = matches
         \/ /\ walk'.raced = walk.raced + Raced
            /\ \E r : matches' = matches \cup {r},
         \A r \in Unread' : Upto(r) \subseteq Upto(r)'
  PROVE  PagesInv'
<1>1. /\ walk \in Walk /\ matches \subseteq Ids /\ Unread \subseteq Ids
      /\ \A r \in Ids : Place(r) = Cardinality(Upto(r)) /\ Place(r) \in Nat
      /\ Cardinality(matches) \in Nat
  BY PlaceIs DEF PagesInv, PagesTypeOK, ListInv
<1>2. \A r \in Ids : Place(r)' = Cardinality(Upto(r)') /\ Upto(r)' \in SUBSET Ids
  <2>1. \A r : Place(r)' = Cardinality(Upto(r)')
    BY DEF Place, Upto
  <2>2. matches' \subseteq Ids
    BY DEF PagesTypeOK, Rows
  <2> QED
    BY <2>1, <2>2 DEF Upto
<1>3. \A r \in Unread' : Place(r) <= Place(r)'
  BY <1>1, <1>2, IdsAre
<1>4. Covered' = Covered /\ Covered \in Nat
  <2>1. Covered' = Covered
    BY DEF Covered, Skip
  <2> QED
    BY <2>1, PagesAre DEF PagesInv, ReaderInv
<1>5. Passed' \subseteq Passed
  <2> SUFFICES ASSUME NEW r \in Passed' PROVE r \in Passed
    OBVIOUS
  <2>1. r \in Unread' /\ r \in Unread /\ r \in Ids /\ Place(r)' <= Covered
    BY <1>1, <1>4 DEF Passed
  <2>2. Place(r) <= Place(r)' /\ Place(r) \in Nat /\ Place(r)' \in Nat
    BY <1>1, <1>2, <1>3, <2>1, IdsAre
  <2> QED
    BY <1>4, <2>1, <2>2 DEF Passed
<1>6. Passed \in SUBSET Ids /\ Unread \in SUBSET Ids /\ walk.left \in SUBSET Ids
  BY <1>1 DEF Passed, Walk
<1>7. /\ Cardinality(Passed') <= Cardinality(Passed) /\ Cardinality(Passed) \in Nat
      /\ Cardinality(Unread') <= Cardinality(Unread) /\ Cardinality(Unread) \in Nat
      /\ Cardinality(Passed') \in Nat /\ Cardinality(Unread') \in Nat
      /\ Cardinality(walk.left) \in Nat
  <2>1. Passed' \in SUBSET Ids /\ Unread' \in SUBSET Ids
    BY <1>5, <1>6
  <2> QED
    BY <1>5, <1>6, <2>1, IdsAre
<1>8. walk.raced \in Nat /\ walk'.raced \in Nat /\ walk'.raced >= walk.raced
  BY <1>1 DEF Walk, Raced
<1>9. walk.total # -1 /\ ~walk.items =>
        Cardinality(matches') <= Cardinality(matches) + (walk'.raced - walk.raced)
  <2>1. CASE matches' = matches
    BY <1>1, <1>8, <2>1
  <2>2. CASE walk'.raced = walk.raced + Raced /\ \E r : matches' = matches \cup {r}
    <3>1. PICK r : matches' = matches \cup {r}
      BY <2>2
    <3>2. Cardinality(matches') <= Cardinality(matches) + 1
      BY <1>1, <3>1, IdsAre, FS_AddElement
    <3>3. walk.total # -1 /\ ~walk.items => walk'.raced - walk.raced = 1
      BY <1>8, <2>2 DEF Raced
    <3> QED
      BY <3>2, <3>3
  <2> QED
    BY <2>1, <2>2
<1>10. walk.total # -1 /\ ~walk.items =>
         Cardinality(matches') <= walk'.total + walk'.raced
  <2> SUFFICES ASSUME walk.total # -1, ~walk.items
               PROVE  Cardinality(matches') <= walk'.total + walk'.raced
    OBVIOUS
  <2>1. Cardinality(matches) <= walk.total + walk.raced /\ walk.total \in Nat
    BY <1>1 DEF PagesInv, ReaderInv, Walk
  <2>2. Cardinality(matches') \in Nat
    BY IdsAre DEF PagesTypeOK, Rows
  <2> QED
    BY <1>1, <1>8, <1>9, <2>1, <2>2
<1>11. AtTheEnd' => AtTheEnd
  BY DEF AtTheEnd, HasNext
<1>12. ReaderInv'
  BY <1>7, <1>8, <1>10, <1>11 DEF PagesInv, ReaderInv
<1> QED
  BY <1>12 DEF PagesInv

\* A new stamp is later than all others.
LEMMA NewStampIs ==
  ASSUME PagesTypeOK, StampsInv, NEW r \in Ids,
         stamps' = [stamps EXCEPT ![r] = NewStamp], walk'.changes = walk.changes + 1
  PROVE  /\ stamps' \in [Ids -> Nat] /\ Rows' = Rows \cup {r} /\ StampsInv'
         /\ \A q \in Ids \ {r} : stamps'[q] = stamps[q]
         /\ \A q \in Ids : stamps[q] <= stamps'[r] /\ stamps[q] \in Nat
<1>1. /\ stamps \in [Ids -> Nat] /\ MaxRows \in Nat /\ walk.changes \in Nat
  BY PagesAssumption DEF PagesTypeOK, Walk
<1>2. PICK n \in Nat : n = NewStamp /\ n = MaxRows + walk.changes + 1
  BY <1>1 DEF NewStamp
<1>3. /\ stamps' \in [Ids -> Nat] /\ stamps'[r] = n
      /\ \A q \in Ids \ {r} : stamps'[q] = stamps[q]
  BY <1>1, <1>2
<1>4. \A q \in Ids : stamps[q] < n /\ stamps[q] \in Nat
  BY <1>1, <1>2 DEF StampsInv
<1>5. Rows' = Rows \cup {r}
  <2>1. \A q \in Ids : stamps'[q] # 0 <=> stamps[q] # 0 \/ q = r
    BY <1>1, <1>2, <1>3
  <2> QED
    BY <2>1 DEF Rows
<1>6. StampsInv'
  <2>1. \A q \in Ids : stamps'[q] <= MaxRows + walk'.changes
    BY <1>1, <1>2, <1>3, <1>4
  <2>2. ASSUME NEW p \in Rows', NEW q \in Rows', stamps'[p] = stamps'[q] PROVE p = q
    <3>1. p \in Ids /\ q \in Ids
      BY DEF Rows
    <3>2. CASE p = r \/ q = r
      BY <1>3, <1>4, <2>2, <3>1, <3>2
    <3>3. CASE p # r /\ q # r
      BY <1>3, <1>5, <2>2, <3>1, <3>3 DEF StampsInv
    <3> QED
      BY <3>2, <3>3
  <2> QED
    BY <2>1, <2>2 DEF StampsInv
<1> QED
  BY <1>2, <1>3, <1>4, <1>5, <1>6

LEMMA InsertRowStep ==
  ASSUME PagesInv, NEW r \in Ids, InsertRow(r)
  PROVE  PagesInv'
<1>1. /\ walk \in Walk /\ walk.pc = "read" /\ r \notin Rows /\ listing' = listing
      /\ stamps' = [stamps EXCEPT ![r] = NewStamp]
      /\ PagesTypeOK /\ StampsInv /\ ListInv
  BY DEF InsertRow, Changes, PagesInv, PagesTypeOK
<1>2. PICK k \in Nat :
        /\ walk' = [walk EXCEPT !.changes = walk.changes + 1, !.raced = k]
        /\ \/ listing = "settled" /\ matches' = matches /\ k = walk.raced
           \/ listing # "settled" /\ matches' = matches \cup {r} /\ k = walk.raced + Raced
  <2>1. walk.raced \in Nat /\ walk.raced + Raced \in Nat
    BY <1>1 DEF Walk, Raced
  <2>2. CASE listing = "settled"
    <3>1. walk' = [walk EXCEPT !.changes = walk.changes + 1, !.raced = walk.raced]
      BY <1>1, <2>2 DEF InsertRow, Changes, Walk
    <3> QED
      BY <2>1, <2>2, <3>1 DEF InsertRow
  <2>3. CASE listing # "settled"
    <3>1. walk' = [walk EXCEPT !.changes = walk.changes + 1, !.raced = walk.raced + Raced]
      BY <1>1, <2>3 DEF InsertRow, Changes, Walk
    <3> QED
      BY <2>1, <2>3, <3>1 DEF InsertRow
  <2> QED
    BY <2>2, <2>3
<1>c. PICK c \in Nat : c = walk.changes + 1
  BY <1>1 DEF Walk
<1>3. /\ walk' \in Walk /\ walk'.changes = walk.changes + 1 /\ walk'.left = walk.left
      /\ walk'.moved = walk.moved /\ walk'.start = walk.start /\ walk'.raced = k
      /\ walk'.page = walk.page /\ walk'.total = walk.total /\ walk'.pc = "read"
      /\ walk'.items = walk.items /\ walk'.seen = walk.seen
  <2>1. walk' = [walk EXCEPT !.changes = c, !.raced = k]
    BY <1>2, <1>c
  <2>2. walk' \in Walk
    BY <1>1, <2>1 DEF Walk
  <2> QED
    BY <1>1, <1>c, <2>1, <2>2 DEF Walk
<1>4. /\ stamps' \in [Ids -> Nat] /\ Rows' = Rows \cup {r} /\ StampsInv'
      /\ \A q \in Ids \ {r} : stamps'[q] = stamps[q]
      /\ \A q \in Ids : stamps[q] <= stamps'[r] /\ stamps[q] \in Nat
  BY <1>1, <1>3, NewStampIs
<1>5. Unread' = Unread
  BY <1>3 DEF Unread
<1>6. PagesTypeOK'
  BY <1>1, <1>2, <1>3, <1>4 DEF PagesTypeOK
<1>7. ListInv'
  BY <1>1, <1>2, <1>3, <1>4, <1>5 DEF ListInv
<1>8. \A q \in Unread' : Upto(q) \subseteq Upto(q)'
  <2>1. matches \subseteq Ids /\ r \notin matches /\ Unread \subseteq matches
    BY <1>1 DEF PagesTypeOK, Rows, ListInv
  <2>2. matches \subseteq matches'
    BY <1>2
  <2>3. \A q \in matches : stamps'[q] = stamps[q]
    BY <1>4, <2>1
  <2> QED
    BY <1>5, <2>1, <2>2, <2>3 DEF Upto
<1>9. /\ walk'.raced = walk.raced \/ walk'.raced = walk.raced + Raced
      /\ \/ matches' = matches
         \/ walk'.raced = walk.raced + Raced /\ \E q : matches' = matches \cup {q}
  BY <1>2, <1>3
<1> QED
  BY <1>1, <1>3, <1>4, <1>5, <1>6, <1>7, <1>8, <1>9, PushedStep

LEMMA TouchStep ==
  ASSUME PagesInv, NEW r \in Ids, Touch(r)
  PROVE  PagesInv'
<1>1. /\ walk \in Walk /\ walk.pc = "read" /\ r \in Rows /\ listing = "leads"
      /\ stamps' = [stamps EXCEPT ![r] = NewStamp]
      /\ UNCHANGED <<listing, matches>>
      /\ PagesTypeOK /\ StampsInv /\ ListInv
  BY DEF Touch, Changes, PagesInv, PagesTypeOK
<1>2. PICK m \in SUBSET Ids : m = walk.moved \cup {r}
  BY <1>1 DEF Walk
<1>3. walk' = [walk EXCEPT !.changes = walk.changes + 1, !.moved = m]
  BY <1>1, <1>2 DEF Touch, Changes, Walk
<1>c. PICK c \in Nat : c = walk.changes + 1
  BY <1>1 DEF Walk
<1>4. /\ walk' \in Walk /\ walk'.changes = walk.changes + 1 /\ walk'.left = walk.left
      /\ walk'.moved = m /\ walk'.start = walk.start /\ walk'.raced = walk.raced
      /\ walk'.page = walk.page /\ walk'.total = walk.total /\ walk'.pc = "read"
      /\ walk'.items = walk.items /\ walk'.seen = walk.seen
  <2>1. walk' = [walk EXCEPT !.changes = c, !.moved = m]
    BY <1>3, <1>c
  <2>2. walk' \in Walk
    BY <1>1, <2>1 DEF Walk
  <2> QED
    BY <1>1, <1>c, <2>1, <2>2 DEF Walk
<1>5. /\ stamps' \in [Ids -> Nat] /\ Rows' = Rows \cup {r} /\ StampsInv'
      /\ \A q \in Ids \ {r} : stamps'[q] = stamps[q]
      /\ \A q \in Ids : stamps[q] <= stamps'[r] /\ stamps[q] \in Nat
  BY <1>1, <1>4, NewStampIs
<1>6. Unread' = Unread \ {r}
  BY <1>2, <1>4 DEF Unread
<1>7. PagesTypeOK'
  BY <1>1, <1>4, <1>5 DEF PagesTypeOK
<1>8. ListInv'
  BY <1>1, <1>4, <1>5, <1>6 DEF ListInv
<1>9. \A q \in Unread' : Upto(q) \subseteq Upto(q)'
  <2> SUFFICES ASSUME NEW q \in Unread \ {r}, NEW p \in Upto(q) PROVE p \in Upto(q)'
    BY <1>6
  <2>1. p \in matches /\ stamps[p] >= stamps[q] /\ p \in Ids /\ q \in Ids
    BY <1>1 DEF Upto, PagesTypeOK, Rows, ListInv
  <2>2. stamps'[p] >= stamps'[q]
    BY <1>5, <2>1
  <2> QED
    BY <1>1, <2>1, <2>2 DEF Upto
<1> QED
  BY <1>1, <1>4, <1>5, <1>6, <1>7, <1>8, <1>9, PushedStep

\* A send that is settled takes its place in the list of its new status.
LEMMA EntersStep ==
  ASSUME PagesInv, NEW r \in Rows, r \notin matches, listing = "settled",
         Changes([walk EXCEPT !.raced = @ + Raced]), matches' = matches \cup {r},
         UNCHANGED <<listing, stamps>>
  PROVE  PagesInv'
<1>1. walk \in Walk /\ walk.pc = "read" /\ PagesTypeOK /\ StampsInv /\ ListInv
  BY DEF Changes, PagesInv, PagesTypeOK
<1>2. PICK k \in Nat : k = walk.raced + Raced
  BY <1>1 DEF Walk, Raced
<1>3. walk' = [walk EXCEPT !.changes = walk.changes + 1, !.raced = k]
  BY <1>1, <1>2 DEF Changes, Walk
<1>c. PICK c \in Nat : c = walk.changes + 1
  BY <1>1 DEF Walk
<1>4. /\ walk' \in Walk /\ walk'.changes = walk.changes + 1 /\ walk'.left = walk.left
      /\ walk'.moved = walk.moved /\ walk'.start = walk.start /\ walk'.raced = k
      /\ walk'.page = walk.page /\ walk'.total = walk.total /\ walk'.pc = "read"
      /\ walk'.items = walk.items /\ walk'.seen = walk.seen
  <2>1. walk' = [walk EXCEPT !.changes = c, !.raced = k]
    BY <1>3, <1>c
  <2>2. walk' \in Walk
    BY <1>1, <2>1 DEF Walk
  <2> QED
    BY <1>1, <1>c, <2>1, <2>2 DEF Walk
<1>5. Rows' = Rows /\ Unread' = Unread
  BY <1>4 DEF Rows, Unread
<1>6. PagesTypeOK'
  BY <1>1, <1>4, <1>5 DEF PagesTypeOK
<1>7. StampsInv'
  <2>1. \A q \in Ids : stamps[q] <= MaxRows + walk.changes + 1
    BY <1>1, PagesAssumption DEF StampsInv, PagesTypeOK, Walk
  <2> QED
    BY <1>1, <1>4, <1>5, <2>1, PagesAssumption DEF StampsInv, Walk
<1>8. ListInv'
  BY <1>1, <1>4, <1>5 DEF ListInv
<1>9. \A q \in Unread' : Upto(q) \subseteq Upto(q)'
  BY DEF Upto
<1> QED
  BY <1>1, <1>2, <1>4, <1>5, <1>6, <1>7, <1>8, <1>9, PushedStep

\* A send that leaves the list moves those behind it forward by a place, and one of
\* them, no more, past the reader.
LEMMA LeavesStep ==
  ASSUME PagesInv, NEW r \in matches, listing = "queued",
         Changes([walk EXCEPT !.left = @ \cup {r}]), matches' = matches \ {r},
         UNCHANGED <<listing, stamps>>
  PROVE  PagesInv'
<1>1. /\ walk \in Walk /\ walk.pc = "read" /\ PagesTypeOK /\ StampsInv /\ ListInv
      /\ matches \subseteq Rows /\ Rows \subseteq Ids /\ r \in Ids /\ r \notin walk.left
      /\ MaxRows \in Nat
  BY PagesAssumption DEF Changes, PagesInv, PagesTypeOK, Rows, ListInv
<1>2. PICK l \in SUBSET Ids : l = walk.left \cup {r}
  BY <1>1 DEF Walk
<1>3. walk' = [walk EXCEPT !.changes = walk.changes + 1, !.left = l]
  BY <1>1, <1>2 DEF Changes, Walk
<1>c. PICK c \in Nat : c = walk.changes + 1
  BY <1>1 DEF Walk
<1>4. /\ walk' \in Walk /\ walk'.changes = walk.changes + 1 /\ walk'.left = l
      /\ walk'.moved = walk.moved /\ walk'.start = walk.start /\ walk'.raced = walk.raced
      /\ walk'.page = walk.page /\ walk'.total = walk.total /\ walk'.pc = "read"
      /\ walk'.items = walk.items /\ walk'.seen = walk.seen
  <2>1. walk' = [walk EXCEPT !.changes = c, !.left = l]
    BY <1>3, <1>c
  <2>2. walk' \in Walk
    BY <1>1, <2>1 DEF Walk
  <2> QED
    BY <1>1, <1>c, <2>1, <2>2 DEF Walk
<1>5. Rows' = Rows /\ Unread' = Unread \ {r}
  BY <1>2, <1>4 DEF Rows, Unread
<1>6. PagesTypeOK'
  BY <1>1, <1>4, <1>5 DEF PagesTypeOK
<1>7. StampsInv'
  <2>1. \A q \in Ids : stamps[q] <= MaxRows + walk.changes + 1
    BY <1>1 DEF StampsInv, PagesTypeOK, Walk
  <2> QED
    BY <1>1, <1>4, <1>5, <2>1 DEF StampsInv, Walk
<1>8. ListInv'
  BY <1>1, <1>2, <1>4, <1>5 DEF ListInv
<1>9. \A q \in matches \ {r} :
        Place(q) \in Nat /\ Place(q)' \in Nat /\ Place(q) <= Place(q)' + 1
  <2> SUFFICES ASSUME NEW q \in matches \ {r}
               PROVE  Place(q) \in Nat /\ Place(q)' \in Nat /\ Place(q) <= Place(q)' + 1
    OBVIOUS
  <2>1. PICK s \in SUBSET Ids : s = Upto(q) /\ Place(q) = Cardinality(s)
    BY <1>1, PlaceIs
  <2>2. Place(q)' = Cardinality(s \ {r})
    <3>1. s \ {r} = {p \in matches' : stamps'[p] >= stamps'[q]}
      BY <2>1 DEF Upto
    <3> QED
      BY <3>1 DEF Place
  <2>3. s \ {r} \in SUBSET Ids
    OBVIOUS
  <2>4. Cardinality(s) <= Cardinality(s \ {r}) + 1
    <3>1. IsFiniteSet(s) /\ Cardinality(s) \in Nat
      BY IdsAre
    <3>2. Cardinality(s \ {r}) = IF r \in s THEN Cardinality(s) - 1 ELSE Cardinality(s)
      BY <3>1, FS_RemoveElement, Zenon
    <3> QED
      BY <3>1, <3>2
  <2> QED
    BY <2>1, <2>2, <2>3, <2>4, IdsAre
<1>10. PICK n \in Nat : n = Covered /\ n = Covered'
  <2>1. Covered' = Covered
    BY <1>4 DEF Covered, Skip
  <2> QED
    BY <1>1, <2>1, PagesAre DEF PagesInv, ReaderInv
<1>11. \E x : Passed' \subseteq Passed \cup {x}
  <2>1. ASSUME NEW q \in Passed', q \notin Passed
        PROVE  q \in matches /\ Place(q) = n + 1
    <3>1. q \in Unread /\ q \in matches \ {r} /\ Place(q)' <= n
      BY <1>1, <1>5, <1>10 DEF Passed, ListInv
    <3>2. ~(Place(q) <= n)
      BY <1>10, <2>1, <3>1 DEF Passed
    <3> QED
      BY <1>9, <3>1, <3>2
  <2>2. \A p, q \in Passed' \ Passed : p = q
    BY <1>1, <2>1, PlaceIs
  <2> QED
    BY <2>2
<1>12. PICK x : Passed' \subseteq Passed \cup {x}
  BY <1>11
<1>13. Passed \in SUBSET Ids /\ Unread \in SUBSET Ids /\ walk.left \in SUBSET Ids
  BY <1>1 DEF Passed, ListInv, Walk
<1>14. PICK p \in Nat, d \in Nat : p = Cardinality(Passed) /\ d = Cardinality(walk.left)
  BY <1>13, IdsAre
<1>15. Cardinality(l) = d + 1 /\ Cardinality(Passed') <= p + 1 /\ Cardinality(Passed') \in Nat
  <2>1. Cardinality(l) = d + 1
    BY <1>1, <1>2, <1>13, <1>14, IdsAre, FS_AddElement
  <2>2. PICK t : t = Passed \cup {x} /\ IsFiniteSet(t) /\ Cardinality(t) <= p + 1
    <3>1. IsFiniteSet(Passed)
      BY <1>13, IdsAre
    <3>2. /\ IsFiniteSet(Passed \cup {x})
          /\ Cardinality(Passed \cup {x})
               = IF x \in Passed THEN Cardinality(Passed) ELSE Cardinality(Passed) + 1
      BY <3>1, FS_AddElement, Zenon
    <3> QED
      BY <1>14, <3>2
  <2>3. Cardinality(Passed') <= Cardinality(t)
    BY <1>12, <2>2, FS_Subset
  <2>4. Cardinality(Passed') \in Nat /\ Cardinality(t) \in Nat
    <3>1. Passed' \in SUBSET Ids
      BY <1>5, <1>13 DEF Passed
    <3> QED
      BY <2>2, <3>1, IdsAre, FS_CardinalityType
  <2> QED
    BY <2>1, <2>2, <2>3, <2>4
<1>16. /\ Cardinality(Unread') <= Cardinality(Unread)
       /\ Cardinality(Unread') \in Nat /\ Cardinality(Unread) \in Nat
       /\ Cardinality(matches') <= Cardinality(matches)
       /\ Cardinality(matches') \in Nat /\ Cardinality(matches) \in Nat
       /\ walk.raced \in Nat
  <2>1. /\ Unread' \in SUBSET Unread /\ Unread' \in SUBSET Ids /\ matches \in SUBSET Ids
        /\ matches' \in SUBSET matches /\ matches' \in SUBSET Ids
    BY <1>1, <1>5, <1>13
  <2> QED
    BY <1>1, <1>13, <2>1, IdsAre DEF Walk
<1>17. AtTheEnd' => AtTheEnd
  BY <1>1, <1>4 DEF AtTheEnd, HasNext
<1>18. ReaderInv'
  <2>1. Cardinality(Passed') <= Cardinality(l)
    BY <1>1, <1>14, <1>15 DEF PagesInv, ReaderInv
  <2>2. walk.total # -1 /\ ~walk.items => Cardinality(matches') <= walk.total + walk.raced
    <3>1. walk.total # -1 => walk.total \in Nat
      BY <1>1 DEF Walk
    <3> QED
      BY <1>1, <1>16, <3>1 DEF PagesInv, ReaderInv
  <2>3. AtTheEnd => Cardinality(Unread') <= Cardinality(l) + walk.raced
    <3>1. AtTheEnd => Cardinality(Unread) <= d + walk.raced
      BY <1>14 DEF PagesInv, ReaderInv
    <3> QED
      BY <1>15, <1>16, <3>1
  <2>4. walk.page # 0
    BY DEF PagesInv, ReaderInv
  <2> QED
    BY <1>4, <1>17, <2>1, <2>2, <2>3, <2>4 DEF ReaderInv
<1> QED
  BY <1>6, <1>7, <1>8, <1>18 DEF PagesInv

LEMMA PagesStep == PagesInv /\ [PagesNext]_pagesVars => PagesInv'
<1> SUFFICES ASSUME PagesInv, [PagesNext]_pagesVars PROVE PagesInv'
  OBVIOUS
<1>1. ASSUME NEW r \in Ids, Settled(r) PROVE PagesInv'
  BY <1>1, EntersStep, LeavesStep DEF Settled
<1>2. CASE UNCHANGED pagesVars
  BY <1>2 DEF pagesVars, PagesInv, PagesTypeOK, Rows, StampsInv, ListInv, ReaderInv,
              AtTheEnd, HasNext, Unread, Passed, Covered, Place, Skip
<1> QED
  BY <1>1, <1>2, ReadItemsStep, ReadTotalStep, TurnStep, InsertRowStep, TouchStep
     DEF PagesNext

\* However long the list and the pages are, and however the worker's writes fall
\* between the reads of the pager: a walk misses no row that stayed where it was, but
\* one for each row that left the list or slipped in between a count and its page.
THEOREM WalksMissOnlyWhatMoves == PagesSpec => []MissedOnlyIfMoved
<1>1. PagesInv => MissedOnlyIfMoved
  BY PagesPromise
<1> QED
  BY <1>1, PagesStart, PagesStep, PTL DEF PagesSpec

(***************************************************************************)
(* The parts in one behaviour, as the run takes them: each of them does    *)
(* what its own specification allows, so all that is proved of it holds.   *)
(***************************************************************************)

\* A behaviour of the run is one of every part, which moves or stands still.
THEOREM PartsKeepTheirSpecs ==
  MCSpec => /\ BudgetSpec /\ WindowSpec /\ PagesSpec /\ TagsSpec /\ FormSpec
            /\ RowsSpec /\ ModalSpec /\ SetupSpec
            /\ [](part \in Parts)
<1>1. MCInit => /\ BudgetInit /\ WindowInit /\ PagesInit /\ TagsInit /\ FormInit
                /\ RowsInit /\ ModalInit /\ SetupInit /\ part \in Parts
  BY DEF MCInit
<1>2. [MCNext]_MCVars => [BudgetNext]_budgetVars
  BY DEF MCNext, MCVars
<1>3. [MCNext]_MCVars => [WindowNext]_windowVars
  BY DEF MCNext, MCVars
<1>4. [MCNext]_MCVars => [PagesNext]_pagesVars
  BY DEF MCNext, MCVars
<1>5. [MCNext]_MCVars => [TagsNext]_tagsVars
  BY DEF MCNext, MCVars
<1>6. [MCNext]_MCVars => [FormNext]_formVars
  BY DEF MCNext, MCVars
<1>7. [MCNext]_MCVars => [RowsNext]_rowsVars
  BY DEF MCNext, MCVars
<1>8. [MCNext]_MCVars => [ModalNext]_modal
  BY DEF MCNext, MCVars
<1>9. [MCNext]_MCVars => [SetupNext]_setupVars
  BY DEF MCNext, MCVars
<1>10. part \in Parts /\ [MCNext]_MCVars => (part \in Parts)'
  BY DEF MCNext, MCVars
<1>11. MCSpec => BudgetSpec /\ WindowSpec /\ PagesSpec
  BY <1>1, <1>2, <1>3, <1>4, PTL DEF MCSpec, BudgetSpec, WindowSpec, PagesSpec
<1>12. MCSpec => TagsSpec /\ FormSpec /\ RowsSpec
  BY <1>1, <1>5, <1>6, <1>7, PTL DEF MCSpec, TagsSpec, FormSpec, RowsSpec
<1>13. MCSpec => ModalSpec /\ SetupSpec /\ [](part \in Parts)
  BY <1>1, <1>8, <1>9, <1>10, PTL DEF MCSpec, ModalSpec, SetupSpec
<1> QED
  BY <1>11, <1>12, <1>13, PTL

\* Every table, request and page of the dashboard, the window and the month's rows
\* have their types, and the tags of a lead are clean, whatever each part does.
THEOREM DashboardTypes == MCSpec => []DashboardTypeOK
<1>1. BudgetSpec => []BudgetInv
  BY BudgetStarts, BudgetStep, PTL DEF BudgetSpec
<1>2. PagesSpec => []PagesInv
  BY PagesStart, PagesStep, PTL DEF PagesSpec
<1>3. TagsSpec => []TagsInv
  BY TagsStart, TagsStep, PTL DEF TagsSpec
<1>4. FormSpec => []FormInv
  <2>1. FormInv /\ [FormNext]_formVars => FormInv'
    BY FormTypesStep, PickerStep, TemplateStep, SubmitStep DEF FormInv
  <2> QED
    BY <2>1, FormStarts, PTL DEF FormSpec
<1>5. RowsSpec => []RowsInv
  <2>1. RowsInv /\ [RowsNext]_rowsVars => RowsInv'
    BY RowsTypesStep, CompleteStep, WritesStep DEF RowsInv, WritesInv, RowsBelongTogether
  <2> QED
    BY <2>1, RowsStart, PTL DEF RowsSpec
<1>6. ModalSpec => []ModalInv
  <2>1. ModalInit => ModalInv
    BY FiresAssumption
       DEF ModalInit, ModalInv, ModalTypeOK, Modal, ResultIsOfThisOpening
  <2>2. ModalInv /\ [ModalNext]_modal => ModalInv'
    BY ModalStep
  <2> QED
    BY <2>1, <2>2, PTL DEF ModalSpec
<1>7. SetupSpec => []SetupInv
  <2>1. SetupInv /\ [SetupNext]_setupVars => SetupInv'
    BY SetupTypesStep, NumberStep, TplStep DEF SetupInv
  <2> QED
    BY <2>1, SetupStarts, PTL DEF SetupSpec
<1>8. /\ part \in Parts /\ BudgetInv /\ WindowInv /\ PagesInv /\ TagsInv
      /\ FormInv /\ RowsInv /\ ModalInv /\ SetupInv
      => DashboardTypeOK
  BY DEF BudgetInv, WindowInv, PagesInv, TagsInv, FormInv, FormTypes, RowsInv, ModalInv,
         SetupInv, DashboardTypeOK
<1> QED
  BY <1>1, <1>2, <1>3, <1>4, <1>5, <1>6, <1>7, <1>8, WindowInvariant,
     PartsKeepTheirSpecs, PTL

================================================================================

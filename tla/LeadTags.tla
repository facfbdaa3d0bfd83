------------------------------ MODULE LeadTags ------------------------------
(* The tags of one lead, edited from several browsers and through the API.   *)
(*                                                                           *)
(* A tag editor shows the new tags at once, sends a PATCH request, and then  *)
(* shows what the server answered.  The server reads the row, changes the    *)
(* tags and writes them back, in two statements.                             *)
EXTENDS Integers, Sequences, FiniteSets, SequencesExt

CONSTANTS Editors,     \* tag editors open on the lead
          Words,       \* what tags say
          LongWords,   \* those with a longer text, cut after a blank
          MaxTags,     \* MAX_TAGS_PER_LEAD
          ApiLists,    \* lists of texts an API client sends
          MaxEdits     \* bound on the requests

ASSUME TagsAssumption ==
  LongWords \subseteq Words /\ MaxTags \in Nat /\ MaxEdits \in Nat

VARIABLES
  stored,      \* the tags in the row
  editors,     \* the open editors
  edits,       \* requests begun, in order
  ideal,       \* the tags, had every written edit been one step
  lastWrite,   \* the edit that wrote last
  overlapped   \* whether a write fell between the read and write of another

tagsVars == <<stored, editors, edits, ideal, lastWrite, overlapped>>

\* A text is a word as it is ("plain"), with a cut that leaves a blank at the
\* end ("edge"), or too long ("long"); or it is nothing but blanks.
Blank == [word |-> "", form |-> "blank"]

Text == [word : Words, form : {"plain"}]
          \cup [word : LongWords, form : {"edge", "long"}] \cup {Blank}

Tag == {t \in Text : t.form \in {"plain", "edge"}}

ASSUME ApiAssumption == ApiLists \subseteq Seq(Text)

Api == "api"

\* A request replaces the tags with those given, or adds the given ones and
\* takes out the dropped ones.
Edit == [by : Editors \cup {Api}, op : {"replace", "change"},
         given : Seq(Text), dropped : Seq(Text), next : Seq(Tag), since : Nat,
         pc : {"sent", "read", "written", "failed"}]

Editor == [shown : Seq(Tag), before : Seq(Tag), edit : 0..MaxEdits,
           heard : 0..MaxEdits, sure : BOOLEAN]

TagsTypeOK ==
  /\ stored \in Seq(Tag) /\ ideal \in Seq(Tag)
  /\ editors \in [Editors -> Editor]
  /\ edits \in Seq(Edit) /\ Len(edits) <= MaxEdits
  /\ lastWrite \in 0..MaxEdits
  /\ overlapped \in BOOLEAN

TagsInit ==
  /\ stored = <<>> /\ ideal = <<>> /\ edits = <<>>
  /\ editors = [e \in Editors |-> [shown |-> <<>>, before |-> <<>>, edit |-> 0,
                                   heard |-> 0, sure |-> TRUE]]
  /\ lastWrite = 0 /\ overlapped = FALSE

-----------------------------------------------------------------------------
(* The change of the tags.                                                   *)

\* normaliseTag trims before it cuts, so a cut can leave a blank at the end
\* that a second normalisation takes away.
Normal(t) ==
  CASE t.form = "long" -> [t EXCEPT !.form = "edge"]
    [] t.form = "edge" -> [t EXCEPT !.form = "plain"]
    [] OTHER -> t

Dedupe(s) ==
  FoldLeft(LAMBDA out, t : IF Contains(out, t) THEN out ELSE Append(out, t), <<>>, s)

\* A filter, as a fold: SelectSeq is opaque to the provers.
Without(s, dropped) ==
  FoldLeft(LAMBDA out, t : IF Contains(dropped, t) THEN out ELSE Append(out, t), <<>>, s)

Normalised(texts) ==
  Without([i \in DOMAIN texts |-> Normal(texts[i])], <<Blank>>)

\* The newest tags are cut off.
Capped(s) == SubSeq(s, 1, IF Len(s) < MaxTags THEN Len(s) ELSE MaxTags)

Change(tags, edit) ==
  LET given == Normalised(edit.given)
      more == IF edit.given = <<>> THEN tags ELSE Dedupe(tags \o given)
  IN Capped(IF edit.op = "replace" THEN Dedupe(given)
            ELSE Without(more, Normalised(edit.dropped)))

-----------------------------------------------------------------------------
(* The editor.                                                               *)

Request(by, op, given, dropped) ==
  Append(edits, [by |-> by, op |-> op, given |-> given, dropped |-> dropped,
                 next |-> <<>>, since |-> 0, pc |-> "sent"])

\* The tags are shown as they will be; the editor is busy until the answer.
Sends(e, given, dropped, shown) ==
  /\ editors[e].edit = 0 /\ Len(edits) < MaxEdits
  /\ edits' = Request(e, "change", given, dropped)
  /\ editors' = [editors EXCEPT ![e] = [@ EXCEPT !.shown = shown,
                   !.before = editors[e].shown, !.edit = Len(edits) + 1]]
  /\ UNCHANGED <<stored, ideal, lastWrite, overlapped>>

\* A text is typed; one that is shown already, or blank, is dropped.
HandleAdd(e) ==
  \E raw \in Text :
    LET t == Normal(raw) IN
    /\ t # Blank /\ ~Contains(editors[e].shown, t)
    /\ Sends(e, <<t>>, <<>>, Append(editors[e].shown, t))

\* The cross of a tag, or Backspace for the last one.
HandleRemove(e) ==
  \E t \in ToSet(editors[e].shown) :
    Sends(e, <<>>, <<t>>, Without(editors[e].shown, <<t>>))

\* Mutant: a refused edit is not taken back.
TagsAnsweredKeeps(e) ==
  LET edit == edits[editors[e].edit] IN
  /\ editors[e].edit # 0 /\ edit.pc \in {"written", "failed"}
  /\ editors' = [editors EXCEPT ![e] =
       IF edit.pc = "written"
       THEN [shown |-> edit.next, before |-> <<>>, edit |-> 0,
             heard |-> @.edit, sure |-> TRUE]
       ELSE [@ EXCEPT !.before = <<>>, !.edit = 0]]
  /\ UNCHANGED <<stored, edits, ideal, lastWrite, overlapped>>

\* The answer shows the server's tags, and an error what was shown before.
TagsAnswered(e) ==
  LET edit == edits[editors[e].edit] IN
  /\ editors[e].edit # 0 /\ edit.pc \in {"written", "failed"}
  /\ editors' = [editors EXCEPT ![e] =
       IF edit.pc = "written"
       THEN [shown |-> edit.next, before |-> <<>>, edit |-> 0,
             heard |-> @.edit, sure |-> TRUE]
       ELSE [@ EXCEPT !.shown = editors[e].before, !.before = <<>>, !.edit = 0]]
  /\ UNCHANGED <<stored, edits, ideal, lastWrite, overlapped>>

\* The connection breaks: fetch throws, and what was shown at once stays.
TagsBreak(e) ==
  /\ editors[e].edit # 0
  /\ editors' = [editors EXCEPT ![e] = [@ EXCEPT !.before = <<>>, !.edit = 0,
                                                   !.sure = FALSE]]
  /\ UNCHANGED <<stored, edits, ideal, lastWrite, overlapped>>

\* The page is loaded again; a request that was sent is not taken back.
Reload(e) ==
  /\ editors' = [editors EXCEPT ![e] =
       [shown |-> stored, before |-> <<>>, edit |-> 0, heard |-> lastWrite,
        sure |-> TRUE]]
  /\ UNCHANGED <<stored, edits, ideal, lastWrite, overlapped>>

-----------------------------------------------------------------------------
(* PATCH /leads/[id]/tags.                                                   *)

ApiRequest ==
  /\ Len(edits) < MaxEdits
  /\ \E given, dropped \in ApiLists :
       \/ edits' = Request(Api, "replace", given, <<>>)
       \/ /\ given # <<>> \/ dropped # <<>>
          /\ edits' = Request(Api, "change", given, dropped)
  /\ UNCHANGED <<stored, editors, ideal, lastWrite, overlapped>>

Writes == Cardinality({i \in DOMAIN edits : edits[i].pc = "written"})

ReadRow(i) ==
  /\ edits[i].pc = "sent"
  /\ edits' = [edits EXCEPT ![i].pc = "read", ![i].since = Writes,
                            ![i].next = Change(stored, edits[i])]
  /\ UNCHANGED <<stored, editors, ideal, lastWrite, overlapped>>

WriteRow(i) ==
  /\ edits[i].pc = "read"
  /\ stored' = edits[i].next
  /\ ideal' = Change(ideal, edits[i])
  /\ lastWrite' = i
  /\ overlapped' = (overlapped \/ edits[i].since # Writes)
  /\ edits' = [edits EXCEPT ![i].pc = "written"]
  /\ UNCHANGED editors

\* 404 for a lead that is gone, 500 for a database that fails.
Fails(i) ==
  /\ edits[i].pc \in {"sent", "read"}
  /\ edits' = [edits EXCEPT ![i].pc = "failed"]
  /\ UNCHANGED <<stored, editors, ideal, lastWrite, overlapped>>

TagsNext ==
  \/ \E e \in Editors : \/ HandleAdd(e) \/ HandleRemove(e) \/ TagsAnswered(e)
                        \/ TagsBreak(e) \/ Reload(e)
  \/ ApiRequest
  \/ \E i \in DOMAIN edits : ReadRow(i) \/ WriteRow(i) \/ Fails(i)

TagsSpec == TagsInit /\ [][TagsNext]_tagsVars

-----------------------------------------------------------------------------
(* Properties.                                                               *)

\* Whatever is sent, and however edits overlap, the row never holds a tag
\* twice, a blank, or more tags than the cap.
TagsAreClean ==
  /\ IsInjective(stored) /\ Len(stored) <= MaxTags
  /\ Blank \notin ToSet(stored)

\* An editor that is not waiting and whose last connection did not break shows
\* the row, unless an edit it has not heard of wrote it since: a refused edit is
\* taken back, and one that was cut at the cap shows what was kept.
ShownIsStored ==
  \A e \in Editors :
    editors[e].edit = 0 /\ editors[e].sure /\ editors[e].heard = lastWrite
      => editors[e].shown = stored

\* Edits are lost only when the read and write of two of them overlap.
LostOnlyByOverlap == ~overlapped => stored = ideal

\* A tag that was removed is gone from the row that was written, unless it was
\* stored with the blank at the cut, which the request no longer names.
RemovedIsGone ==
  \A i \in DOMAIN edits :
    edits[i].op = "change" /\ edits[i].pc = "written" =>
      \A t \in ToSet(edits[i].dropped) :
        t.form = "plain" => ~Contains(edits[i].next, t)

\* Nobody's edit is lost and nobody is shown tags that are not stored, but for
\* the races of updateLeadTags and the broken connections of the editor.
EditsAreTrue == LostOnlyByOverlap /\ ShownIsStored /\ RemovedIsGone

=============================================================================

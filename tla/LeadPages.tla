----------------------------- MODULE LeadPages -----------------------------
(* The paged lists of leads and sends: a reader who goes from page to page   *)
(* with the pager while the worker captures leads and settles sends.         *)
(*                                                                           *)
(* A page is a slice of the rows and a count of them, read side by side.     *)
(* Leads are sorted by lastSeenAt, and a capture moves a lead to the front;  *)
(* sends are sorted by queuedAt, and stop or begin to match the status that  *)
(* is filtered for when they are settled.  The times are distinct here.      *)
EXTENDS Integers, FiniteSets

CONSTANTS MaxRows,     \* bound on the rows
          PageSize,
          MaxChanges   \* bound on the changes of the rows during a walk

ASSUME PagesAssumption ==
  MaxRows \in Nat /\ PageSize \in Nat \ {0} /\ MaxChanges \in Nat

VARIABLES
  listing,   \* "leads", or the sends filtered by "queued" or another status
  stamps,    \* lastSeenAt or queuedAt of each row, 0 for no row
  matches,   \* the rows the filter takes
  walk       \* the reader, and what changed since the walk began

pagesVars == <<listing, stamps, matches, walk>>

Ids == 1..MaxRows

Walk == [pc : {"read", "done"}, page : Nat, items : BOOLEAN,
         total : Nat \cup {-1}, start : SUBSET Ids, seen : SUBSET Ids,
         moved : SUBSET Ids, left : SUBSET Ids, raced : Nat, changes : Nat]

Rows == {r \in Ids : stamps[r] # 0}

PagesTypeOK ==
  /\ listing \in {"leads", "queued", "settled"}
  /\ stamps \in [Ids -> Nat]
  /\ matches \subseteq Rows
  /\ walk \in Walk

PagesInit ==
  /\ listing \in {"leads", "queued", "settled"}
  /\ \E n \in 0..MaxRows : stamps = [r \in Ids |-> IF r <= n THEN r ELSE 0]
  /\ IF listing = "leads" THEN matches = Rows ELSE matches \in SUBSET Rows
  /\ walk = [pc |-> "read", page |-> 1, items |-> FALSE, total |-> -1,
             start |-> matches, seen |-> {}, moved |-> {}, left |-> {},
             raced |-> 0, changes |-> 0]

-----------------------------------------------------------------------------
(* The reader.                                                               *)

\* The place of a row in the list, sorted by the stamps, newest first.
Place(r) == Cardinality({q \in matches : stamps[q] >= stamps[r]})

\* Mutant: pages counted from 0.
SkipFromZero(page) == page * PageSize

\* normalisePagination: the rows skipped before a page, counted from 1.
Skip(page) == (page - 1) * PageSize

Slice(page) ==
  {r \in matches : Skip(page) < Place(r) /\ Place(r) <= Skip(page) + PageSize}

ReadItems ==
  /\ walk.pc = "read" /\ ~walk.items
  /\ walk' = [walk EXCEPT !.items = TRUE,
                          !.seen = @ \cup Slice(walk.page)]
  /\ UNCHANGED <<listing, stamps, matches>>

ReadTotal ==
  /\ walk.pc = "read" /\ walk.total = -1
  /\ walk' = [walk EXCEPT !.total = Cardinality(matches)]
  /\ UNCHANGED <<listing, stamps, matches>>

HasNext == walk.page * PageSize < walk.total

\* The pager offers the next page when there is one.
Turn ==
  /\ walk.pc = "read" /\ walk.items /\ walk.total # -1
  /\ walk' = IF HasNext
             THEN [walk EXCEPT !.page = @ + 1, !.items = FALSE, !.total = -1]
             ELSE [walk EXCEPT !.pc = "done"]
  /\ UNCHANGED <<listing, stamps, matches>>

-----------------------------------------------------------------------------
(* What the worker does to the rows meanwhile.                               *)

\* A row that begins to match after the count of a page and before its items.
Raced == IF walk.total # -1 /\ ~walk.items THEN 1 ELSE 0

\* A time later than every stamp: new Date().
NewStamp == MaxRows + walk.changes + 1

Changes(w) ==
  /\ walk.pc = "read" /\ walk.changes < MaxChanges
  /\ walk' = [w EXCEPT !.changes = @ + 1]

\* captureLead inserts a lead and the handlers insert sends, as queued.
InsertRow(r) ==
  /\ r \notin Rows
  /\ stamps' = [stamps EXCEPT ![r] = NewStamp]
  /\ IF listing = "settled" THEN Changes(walk) /\ matches' = matches
     ELSE /\ Changes([walk EXCEPT !.raced = @ + Raced])
          /\ matches' = matches \cup {r}
  /\ UNCHANGED listing

\* captureLead again, for a lead that is there: lastSeenAt is now.
Touch(r) ==
  /\ listing = "leads" /\ r \in Rows
  /\ Changes([walk EXCEPT !.moved = @ \cup {r}])
  /\ stamps' = [stamps EXCEPT ![r] = NewStamp]
  /\ UNCHANGED <<listing, matches>>

\* The worker settles a queued send: it leaves the list of the queued ones,
\* or enters another list at its place.
Settled(r) ==
  /\ \/ /\ listing = "queued" /\ r \in matches
        /\ Changes([walk EXCEPT !.left = @ \cup {r}])
        /\ matches' = matches \ {r}
     \/ /\ listing = "settled" /\ r \in Rows \ matches
        /\ Changes([walk EXCEPT !.raced = @ + Raced])
        /\ matches' = matches \cup {r}
  /\ UNCHANGED <<listing, stamps>>

PagesNext ==
  \/ ReadItems \/ ReadTotal \/ Turn
  \/ \E r \in Ids : InsertRow(r) \/ Touch(r) \/ Settled(r)

PagesSpec == PagesInit /\ [][PagesNext]_pagesVars

-----------------------------------------------------------------------------
(* Properties.                                                               *)

\* What a whole walk missed of the rows that were there when it began: a lead
\* that moved to a page already read, and besides no more rows than left the
\* list (the later ones move up over the page break) or came between the count
\* and the items of a page (the last one is pushed past the last page).
MissedOnlyIfMoved ==
  walk.pc = "done" =>
    LET missed == (walk.start \ walk.seen) \ (walk.moved \cup walk.left)
    IN Cardinality(missed) <= Cardinality(walk.left) + walk.raced

=============================================================================

------------------------------ MODULE TestFire ------------------------------
(* The modal that tries an automation out on a sample text.  The server      *)
(* (previewAutomation) answers whether the text would fire it, and changes   *)
(* nothing; the answer may come when the modal is closed, or open again.     *)
EXTENDS Integers

CONSTANT MaxFires   \* bound on the tries

ASSUME FiresAssumption == MaxFires \in Nat

VARIABLE modal      \* a result stands for the try it answers, counted from 1

Modal == [open : BOOLEAN, fires : 0..MaxFires, asking : 0..MaxFires,
          result : 0..MaxFires, opened : 0..MaxFires, late : BOOLEAN]

ModalTypeOK == modal \in Modal

ModalInit == modal = [open |-> FALSE, fires |-> 0, asking |-> 0, result |-> 0,
                      opened |-> 0, late |-> FALSE]

OpenModal ==
  /\ ~modal.open
  /\ modal' = [modal EXCEPT !.open = TRUE, !.opened = modal.fires]

\* Mutant: the result stays.
CloseModalKeeps ==
  /\ modal.open
  /\ modal' = [modal EXCEPT !.open = FALSE, !.late = modal.asking # 0]

\* Closing empties the text and the result; Escape does not close a modal that
\* waits, but the button in its header does.
CloseModal ==
  /\ modal.open
  /\ modal' = [modal EXCEPT !.open = FALSE, !.result = 0,
                            !.late = modal.asking # 0]

HandleFire ==
  /\ modal.open /\ modal.asking = 0 /\ modal.fires < MaxFires
  /\ modal' = [modal EXCEPT !.fires = @ + 1, !.asking = modal.fires + 1,
                            !.result = 0, !.late = FALSE]

\* The answer, whether or not the modal is still open; an error shows none.
FireAnswered ==
  /\ modal.asking # 0
  /\ modal' \in {[modal EXCEPT !.asking = 0, !.result = modal.asking],
                 [modal EXCEPT !.asking = 0]}

ModalNext == OpenModal \/ CloseModal \/ HandleFire \/ FireAnswered

ModalSpec == ModalInit /\ [][ModalNext]_modal

-----------------------------------------------------------------------------
\* The modal shows the result of a try made since it was opened, unless it was
\* closed while it waited: then the answer comes to the next opening.
ResultIsOfThisOpening ==
  modal.open /\ modal.result # 0 => modal.result > modal.opened \/ modal.late

=============================================================================

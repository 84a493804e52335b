-------------------------------- MODULE Slot --------------------------------
(***************************************************************************)
(* backends/runtime/src/slot.rs: where a protocol thread waits for the     *)
(* user's answer.  Every operation runs under the slot's mutex, so each is *)
(* one function from a slot to a slot; the condition variable is the guard *)
(* Ready on the wait.                                                      *)
(***************************************************************************)

CONSTANT NoAnswer   \* the value of a slot that has none

States == {"Empty", "Answered", "Cancelled", "Withdrawn"}

\* Answered(None) is "Cancelled" here, and Answered(Some) "Answered".  The value
\* of a cancel is history: who gave it.
NewSlot == [is |-> "Empty", value |-> NoAnswer, begun |-> FALSE]

Emptied(slot) == [slot EXCEPT !.is = "Empty", !.value = NoAnswer]

\* Mutant: begin drops nothing.
BeginKeepsAll(slot) == [slot EXCEPT !.begun = TRUE]

\* Mutant: begin drops a cancel too.
BeginDropsAll(slot) == [Emptied(slot) EXCEPT !.begun = TRUE]

\* An answer or a withdrawal left over is dropped; a cancel is kept.
Begin(slot) ==
  [(IF slot.is \in {"Answered", "Withdrawn"} THEN Emptied(slot) ELSE slot)
     EXCEPT !.begun = TRUE]

Ready(slot) == slot.is # "Empty"

\* wait_asked, once Ready: what is returned is slot.is and slot.value.
Taken(slot) == [Emptied(slot) EXCEPT !.begun = FALSE]

AnswerWith(slot, v) == [slot EXCEPT !.is = "Answered", !.value = v]

Cancel(slot, by) == [slot EXCEPT !.is = "Cancelled", !.value = by]

\* Only a question begun and not yet answered is taken back.
Withdraw(slot) ==
  IF slot.begun /\ slot.is = "Empty" THEN [slot EXCEPT !.is = "Withdrawn"] ELSE slot
=============================================================================

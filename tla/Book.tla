------------------------------- MODULE Book --------------------------------
(***************************************************************************)
(* crates/kdp-core/src/book.rs: the order book that the processor and the  *)
(* loader rebuild from snapshots and deltas.  A slot is a (side, price);   *)
(* a level of 0 is no level.                                               *)
(***************************************************************************)
EXTENDS Integers, FiniteSetsExt, Functions

CONSTANT Slots

Sides == {slot[1] : slot \in Slots}
NoLevels == [slot \in Slots |-> 0]
SideSum(levels, side) == SumFunctionOnSet(levels, {slot \in Slots : slot[1] = side})

EmptyBook == [levels |-> NoLevels, total |-> [side \in Sides |-> 0], underflows |-> 0]

\* apply_snapshot_levels: the book is the snapshot; underflows go on counting.
ApplySnapshot(book, levels) ==
    [book EXCEPT !.levels = levels, !.total = [side \in Sides |-> SideSum(levels, side)]]

\* A plausible bug: the residual of a pruned level stays in the running total.
ApplyChangeKeepsResidual(book, slot, delta) ==
    LET new == book.levels[slot] + delta
    IN [book EXCEPT !.levels[slot] = Max({new, 0}),
                    !.total[slot[1]] = @ + delta,
                    !.underflows = @ + IF new < 0 THEN 1 ELSE 0]

\* apply_change: a level that reaches zero or less is dropped, and what it would
\* have been with it.
ApplyChange(book, slot, delta) ==
    LET new == book.levels[slot] + delta
    IN [book EXCEPT !.levels[slot] = Max({new, 0}),
                    !.total[slot[1]] = @ + delta - Min({new, 0}),
                    !.underflows = @ + IF new < 0 THEN 1 ELSE 0]
=============================================================================

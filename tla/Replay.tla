------------------------------- MODULE Replay -------------------------------
(***************************************************************************)
(* crates/kdp-load/src/replay.rs and the Loader of lib.rs: the book        *)
(* rebuilt from the merged stream, and the replay of a range of it.        *)
(***************************************************************************)
EXTENDS Merge, Book

NewReplayer == [book |-> EmptyBook, pending_gaps |-> <<>>]

\* The levels of a snapshot event as a book side holds them.
LevelsOf(event) ==
    [slot \in Slots |-> IF \E l \in event.levels : l[1] = slot
                        THEN (CHOOSE l \in event.levels : l[1] = slot)[2] ELSE 0]

\* BookReplayer::apply.  A snapshot re-anchors the book.
Apply(replayer, event) ==
    CASE event.kind = "snapshot" ->
           [book |-> ApplySnapshot(replayer.book, LevelsOf(event)), pending_gaps |-> <<>>]
      [] event.kind = "delta" ->
           LET change == CHOOSE l \in event.levels : TRUE
           IN [replayer EXCEPT !.book = ApplyChange(@, change[1], change[2])]
      [] event.kind = "gap" -> [replayer EXCEPT !.pending_gaps = Append(@, event)]
      [] event.kind = "trade" -> replayer

Replayed(events) ==
    LET after[n \in 0 .. Len(events)] ==
            IF n = 0 THEN NewReplayer ELSE Apply(after[n - 1], events[n])
    IN after[Len(events)]

\* The position of the first event at or after t0, which ends the pre-roll; 0 if
\* there is none.
PreRolled(events, t0) ==
    SelectInSeq(events, LAMBDA e : e.ts >= t0)

\* between(t0, t1): the gaps that are pending at t0, the book at t0 as a
\* synthetic snapshot, and the events of [t0, t1).  The stream is read no
\* further than its first event at or after t1.
Between(stream, t0, t1) ==
    LET held == PreRolled(stream.events, t0)
        from == IF held = 0 THEN Len(stream.events) + 1 ELSE held
        rest == SubSeq(stream.events, from, Len(stream.events))
        stop == SelectInSeq(rest, LAMBDA e : e.ts >= t1)
        opening == Replayed(SubSeq(stream.events, 1, from - 1))
    IN [ok |-> stop # 0 \/ stream.ok,
        gaps |-> opening.pending_gaps,
        opener |-> opening.book.levels,
        events |-> IF stop = 0 THEN rest ELSE SubSeq(rest, 1, stop - 1)]
=============================================================================

------------------------------- MODULE Store -------------------------------
(***************************************************************************)
(* The append-only JSONL log of one (ticker, channel) stream, as           *)
(* crates/kdp-store writes it (JsonlWriter under a StreamSet) and as       *)
(* crates/kdp-process/src/reader.rs reads it back.  A log is the sequence  *)
(* of the lines of its day files.  A line is the record written, or "torn" *)
(* (a tail without its newline), or "bad" (a record glued to a torn tail). *)
(***************************************************************************)
EXTENDS Sequences, SequencesExt

Line(kind, s) == [kind |-> kind, s |-> s]
EndsTorn(lines) == lines # <<>> /\ Last(lines).kind = "torn"

\* A plausible bug: the newline is not written.
AppendedNoNewline(lines, r) ==
    {IF EndsTorn(lines) THEN lines ELSE Append(lines, Line("torn", r.s))}

\* JsonlWriter::append returning Ok: one line, flushed.  The file is opened
\* for append and its tail is not looked at, so a record that follows a torn
\* tail shares its line, unless the UTC day has changed and it opens a file.
Appended(lines, r) ==
    {Append(lines, r)}
      \cup IF EndsTorn(lines) THEN {Append(Front(lines), Line("bad", r.s))} ELSE {}

\* An append that is cut short leaves a tail without a newline.
Cut(lines, r) == IF EndsTorn(lines) THEN lines ELSE Append(lines, Line("torn", r.s))

\* JsonlWriter::append returning Err: nothing was written, or a part of the
\* line was (`tear`), or the buffer is flushed after all when it is dropped.
AppendFailed(lines, r, tear) ==
    {lines} \cup Appended(lines, r) \cup IF tear THEN {Cut(lines, r)} ELSE {}

\* read_envelopes: where the lines are that decode; the others are read errors.
Readable(lines) == {i \in DOMAIN lines : lines[i].kind \notin {"torn", "bad"}}
\* Those of them that hold a whole record, glued to a torn one.
Spoiled(lines) == {i \in DOMAIN lines : lines[i].kind = "bad"}
=============================================================================

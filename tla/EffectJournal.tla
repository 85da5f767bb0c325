----------------------------- MODULE EffectJournal -----------------------------
(***************************************************************************)
(* The file of dar/effect_journal.py: lines that are appended in parts, read   *)
(* back one by one and validated as a state machine per key.                  *)
(*                                                                         *)
(* Abstracted: a record is its key and status (the other fields come from one  *)
(* durable intent, so they match); a line that is not one whole record does    *)
(* not parse, or fails its MAC: it is Torn.                                   *)
(***************************************************************************)
EXTENDS Naturals, Sequences

CONSTANTS
  Keys,              \* idempotency keys
  Torn               \* a line that cannot be read

Statuses == {"PREPARED", "COMMITTED", "REFUSED"}
Records == [key : Keys, status : Statuses]

ASSUME TornAssumption == Torn \notin Records

\* open: the last line has no newline yet, so the next record is written onto it.
Files == [lines : Seq(Records \cup {Torn}), open : BOOLEAN]

EmptyFile == [lines |-> <<>>, open |-> FALSE]

Record(k, status) == [key |-> k, status |-> status]

\* What the last line becomes when data that reads as x is written to the file.
WithLine(file, x, open) ==
  [lines |-> IF file.open THEN [file.lines EXCEPT ![Len(file.lines)] = Torn]
                          ELSE Append(file.lines, x),
   open  |-> open]

\* _append_locked: the whole record and its newline.
Appended(file, r) == WithLine(file, r, FALSE)

\* ... or an error or a crash in between: nothing was written, a part of the record,
\* the record without its newline, or all of it.
AppendFailed(file, r) ==
  {file, WithLine(file, Torn, TRUE), WithLine(file, r, TRUE), Appended(file, r)}

LinesOf(file, k) ==
  {i \in DOMAIN file.lines : file.lines[i] # Torn /\ file.lines[i].key = k}

Recorded(file, k) == LinesOf(file, k) # {}

\* records() raises unless every line is whole.
Whole(file) == \A i \in DOMAIN file.lines : file.lines[i] # Torn

\* _validated_state raises as well unless each key is PREPARED once and then concluded at
\* most once.
ValidAt(file, i) ==
  LET r == file.lines[i]
      earlier == {j \in LinesOf(file, r.key) : j < i} IN
  IF r.status = "PREPARED" THEN earlier = {}
  ELSE \E j \in earlier : earlier = {j} /\ file.lines[j].status = "PREPARED"

Readable(file) ==
  /\ Whole(file)
  /\ \A i \in DOMAIN file.lines : ValidAt(file, i)

\* The keys of a file that was validated.
KnownKeys(file) == {k \in Keys : Recorded(file, k)}

Concluded(file, k, status) == \E i \in LinesOf(file, k) : file.lines[i].status = status
=============================================================================

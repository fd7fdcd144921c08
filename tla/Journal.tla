------------------------------ MODULE Journal ------------------------------
(***************************************************************************)
(* append_jsonl and read_jsonl of storage.py on one journal.  A writer     *)
(* that dies, or whose write raises, may leave a row without its newline;  *)
(* the next writer moves it to <journal>.interrupted and cuts it off.  The *)
(* lock is released by the system when its holder dies.  A fragment that   *)
(* a death leaves in .interrupted is not counted there: the row is still   *)
(* at the end of the journal and is moved again.                           *)
(***************************************************************************)
EXTENDS Naturals, Sequences, SequencesExt

CONSTANTS
  Appenders,  \* threads and processes that append
  Rows        \* bound: the rows that are appended

VARIABLES
  rows,     \* the complete rows
  tail,     \* the row without newline at the end, none or one
  moved,    \* the rows in .interrupted
  append,   \* of each appender: the step, its row, and where the complete rows ended
  acked,    \* history: the rows whose append returned
  torn      \* history: the rows that were written in part

journalVars == <<rows, tail, moved, append, acked, torn>>

NoAppend == [step |-> "idle", row |-> {}, end |-> 0]

JournalInit ==
  /\ rows = << >> /\ tail = {} /\ moved = {} /\ acked = {} /\ torn = {}
  /\ append = [a \in Appenders |-> NoAppend]

Held == \E a \in Appenders : append[a].step # "idle"
Used == acked \cup torn \cup ToSet(rows) \cup UNION {append[a].row : a \in Appenders}

Stay(a, step) == append' = [append EXCEPT ![a].step = step]
Leave(a) == append' = [append EXCEPT ![a] = NoAppend]

\* The lock is taken and the last byte read.
Open(a) ==
  \E row \in Rows \ Used :
    /\ ~Held
    /\ append' = [append EXCEPT ![a] =
         [step |-> IF tail = {} THEN "clean" ELSE "torn", row |-> {row}, end |-> Len(rows)]]
    /\ UNCHANGED <<rows, tail, moved, acked, torn>>

Recover(a) ==
  /\ append[a].step = "torn" /\ moved' = moved \cup tail /\ Stay(a, "moved")
  /\ UNCHANGED <<rows, tail, acked, torn>>

\* Mutant: the whole journal is cut off with the torn row.
CutAll(a) ==
  /\ append[a].step = "moved" /\ rows' = << >> /\ tail' = {}
  /\ Stay(a, "clean")
  /\ UNCHANGED <<moved, acked, torn>>

Cut(a) ==
  /\ append[a].step = "moved" /\ rows' = SubSeq(rows, 1, append[a].end) /\ tail' = {}
  /\ Stay(a, "clean")
  /\ UNCHANGED <<moved, acked, torn>>

Write(a) ==
  /\ append[a].step = "clean"
  /\ \E row \in append[a].row : rows' = Append(rows, row)
  /\ Stay(a, "written")
  /\ UNCHANGED <<tail, moved, acked, torn>>

\* Synced; the append returns.
Return(a) ==
  /\ append[a].step = "written" /\ acked' = acked \cup append[a].row /\ Leave(a)
  /\ UNCHANGED <<rows, tail, moved, torn>>

\* The writer dies or the write raises: with a part of the row written, or in any other step.
Tear(a) ==
  /\ append[a].step = "clean" /\ tail' = append[a].row /\ torn' = torn \cup append[a].row
  /\ Leave(a)
  /\ UNCHANGED <<rows, moved, acked>>

Stop(a) ==
  /\ append[a].step # "idle" /\ Leave(a)
  /\ UNCHANGED <<rows, tail, moved, acked, torn>>

JournalNext ==
  \E a \in Appenders :
    Open(a) \/ Recover(a) \/ Cut(a) \/ Write(a) \/ Return(a) \/ Tear(a) \/ Stop(a)

\* read_jsonl takes no lock and leaves out a row without newline.
ReadJsonl == rows

-----------------------------------------------------------------------------

\* Wherever appends die, a reader finds every row whose append returned, and every row that was
\* torn is still there for diagnosis: at the end of the journal or in .interrupted.
NothingLost == acked \subseteq ToSet(ReadJsonl) /\ torn \subseteq tail \cup moved
=============================================================================

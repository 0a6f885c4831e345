---------------------------- MODULE MemoryStore ----------------------------
(***************************************************************************)
(* The Memory Fabric store (memory_fabric_jsonl.py): one JSON line per     *)
(* record, appended under the writer lock behind a tail that ends in a     *)
(* newline, and read by everybody without that lock.  A reader may         *)
(* therefore meet the part of a line that a writer has got onto the disk,  *)
(* or died in.  Lines are UTF-8 beyond ASCII: such a part may end within a *)
(* character, and then the file does not even decode.  Nothing in the      *)
(* repository rewrites the file, but its readers reckon with somebody who  *)
(* does.                                                                   *)
(***************************************************************************)
EXTENDS Naturals, Sequences, FiniteSets

CONSTANTS
  Ids,        \* what records are called
  NoteIds,    \* ... those of the notes that others write
  Else,       \* the others
  Bad,        \* a complete line that is not JSON
  Nobody,     \* the holder of the free writer lock
  MaxNotes,   \* bound on the notes others append
  MaxEdits    \* bound on rewritings

ASSUME StoreAssumption ==
  /\ NoteIds \subseteq Ids /\ Nobody # Else
  /\ Bad \notin [id : Ids, body : {0, 1}]
  /\ MaxNotes \in Nat /\ MaxEdits \in Nat

Bodies == {0, 1}
Records == [id : Ids, body : Bodies]

VARIABLES
  store,    \* the complete lines
  torn,     \* and behind them the beginning of another
  cut,      \* places of lines, TailLine included, left with half a character
  writer,   \* who is in append_record, holding the writer lock
  edits     \* how often the file was rewritten

storeVars == <<store, torn, cut, writer, edits>>

TailLine == Len(store) + 1

StoreInit ==
  /\ store = <<>> /\ torn = FALSE /\ cut = {}
  /\ writer = Nobody
  /\ edits = 0

-----------------------------------------------------------------------------
(* append_record.  Its error is that the tail is not a line's end.         *)

MayAppend == writer = Nobody /\ ~torn
RefusesTail == writer = Nobody /\ torn

BeginLine(w) ==
  /\ MayAppend
  /\ writer' = w /\ torn' = TRUE
  /\ UNCHANGED <<store, cut, edits>>

EndLine(w, record) ==
  /\ writer = w
  /\ store' = Append(store, record)
  /\ torn' = FALSE /\ writer' = Nobody
  /\ UNCHANGED <<cut, edits>>

\* The disk fails, or the writer dies, somewhere in the line.
LeaveTail(w) ==
  /\ writer = w
  /\ writer' = Nobody
  /\ cut' \in {cut, cut \cup {TailLine}}
  /\ UNCHANGED <<store, torn, edits>>

-----------------------------------------------------------------------------
(* What readers make of it *)

\* Every line parses, the last one included.
Readable == ~torn /\ \A n \in DOMAIN store : store[n] # Bad

Places(id) == {n \in DOMAIN store : store[n] # Bad /\ store[n].id = id}
Known(id) == Places(id) # {}

-----------------------------------------------------------------------------
(* Others: notes, and hands on the file while nobody appends               *)

NotesFit == Cardinality(UNION {Places(id) : id \in NoteIds}) < MaxNotes

BeginNote == NotesFit /\ BeginLine(Else)
EndNote ==
  \E id \in NoteIds, body \in Bodies : EndLine(Else, [id |-> id, body |-> body])

Edit ==
  \E n \in DOMAIN store :
    /\ store[n] # Bad
    /\ store' = [store EXCEPT ![n].body = 1 - @]
    /\ UNCHANGED <<torn, cut>>

Truncate ==
  \E n \in DOMAIN store :
    /\ store' = SubSeq(store, 1, n - 1)
    /\ torn' = FALSE /\ cut' = cut \cap 1..(n - 1)

\* A tail is cut off, or ended.
Mend ==
  /\ torn /\ torn' = FALSE
  /\ \/ store' = store /\ cut' = cut \ {TailLine}
     \/ store' = Append(store, Bad) /\ UNCHANGED cut

Rewrite ==
  /\ writer = Nobody /\ edits < MaxEdits
  /\ edits' = edits + 1
  /\ Edit \/ Truncate \/ Mend
  /\ UNCHANGED writer
=============================================================================

----------------------------- MODULE GraphIndex -----------------------------
(***************************************************************************)
(* The sidecar of the store (memory_fabric_graph_index.py): its records,   *)
(* the last line of each id, brought up to date from where the last        *)
(* refresh stopped or built anew.  Refreshes exclude each other by the     *)
(* sidecar's lock; they exclude neither appends nor rewritings, and read   *)
(* the store three times: to check it against the metadata, to scan it,    *)
(* and to write new metadata.                                              *)
(*                                                                         *)
(* Fingerprints are the lines they are of.  The count of rewritings stands *)
(* for the file's mtime: of two files of one size, append-only between     *)
(* them, the mtimes agree.                                                 *)
(***************************************************************************)
EXTENDS MemoryStore, FiniteSetsExt, SequencesExt

VARIABLES
  index,     \* the sidecar: rows, and the metadata of the store they are from
  refresh    \* the refresh that holds the sidecar's lock

indexVars == <<index, refresh>>

None == [step |-> "none"]

IndexInit == index = None /\ refresh = None

Size == 2 * Len(store) + (IF torn THEN 1 ELSE 0)

-----------------------------------------------------------------------------
(* Rows *)

\* _upsert_record, line by line.
Upsert(rows, record) ==
  IF record = Bad THEN rows ELSE {row \in rows : row.id # record.id} \cup {record}

Project(rows, lines) ==
  LET upTo[n \in 0..Len(lines)] ==
        IF n = 0 THEN rows ELSE Upsert(upTo[n - 1], lines[n])
  IN  upTo[Len(lines)]

-----------------------------------------------------------------------------
(* _refresh_index_locked *)

\* Fault: what is indexed is not compared.
RequiresRebuildBySize ==
  \/ index = None
  \/ Size < 2 * index.offset \/ Size < index.size
  \/ Size = index.size /\ edits # index.edits

RequiresRebuild ==
  \/ index = None
  \/ Size < 2 * index.offset \/ Size < index.size
  \/ Size = index.size /\ edits # index.edits
  \/ index.finger # SubSeq(store, 1, index.offset)

Check ==
  /\ refresh = None
  /\ refresh' = [step |-> "scan", fresh |-> RequiresRebuild, since |-> Len(store),
                 overtaken |-> FALSE]
  /\ UNCHANGED <<storeVars, index>>

\* Fault: a line that was only begun counts as one that does not parse.
ScanTorn ==
  /\ refresh.step = "scan"
  /\ LET offset == IF refresh.fresh THEN 0 ELSE index.offset
         lines  == SubSeq(store, offset + 1, Len(store))
         rows   == IF refresh.fresh THEN {} ELSE index.rows
     IN  refresh' = [step |-> "commit", fresh |-> refresh.fresh, since |-> refresh.since,
                     overtaken |-> refresh.overtaken, rows |-> Project(rows, lines),
                     offset |-> offset + Len(lines) + (IF torn THEN 1 ELSE 0)]
  /\ UNCHANGED <<storeVars, index>>

\* From the last complete line that was indexed to the last one there is.
Scan ==
  /\ refresh.step = "scan"
  /\ LET offset == IF refresh.fresh THEN 0 ELSE index.offset
         lines  == SubSeq(store, offset + 1, Len(store))
         rows   == IF refresh.fresh THEN {} ELSE index.rows
     IN  refresh' = [step |-> "commit", fresh |-> refresh.fresh, since |-> refresh.since,
                     overtaken |-> refresh.overtaken, rows |-> Project(rows, lines),
                     offset |-> offset + Len(lines)]
  /\ UNCHANGED <<storeVars, index>>

\* Rows and metadata in one transaction, the metadata from the store as it is now;
\* the caller reads both in a snapshot it opens under the same lock.
Commit ==
  /\ refresh.step = "commit"
  /\ index' = [rows |-> refresh.rows, offset |-> refresh.offset,
               finger |-> SubSeq(store, 1, Min({refresh.offset, Len(store)})),
               size |-> Size, edits |-> edits,
               overtaken |-> refresh.overtaken \/ (~refresh.fresh /\ index.overtaken)]
  /\ refresh' = None
  /\ UNCHANGED storeVars

\* The refresher dies: nothing of it is left.
Abandon ==
  /\ refresh # None
  /\ refresh' = None
  /\ UNCHANGED <<storeVars, index>>

\* The sidecar is deleted, or becomes unusable.
LoseIndex ==
  /\ refresh = None /\ index # None
  /\ index' = None
  /\ UNCHANGED <<storeVars, refresh>>

\* What a rewriting does to a refresh under way.
Overtake ==
  /\ refresh' = IF refresh = None THEN None ELSE [refresh EXCEPT !.overtaken = TRUE]
  /\ UNCHANGED index
=============================================================================

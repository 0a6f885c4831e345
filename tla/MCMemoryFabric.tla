--------------------------- MODULE MCMemoryFabric ---------------------------
(* One run, two lessons, the second of which refers to the first. *)
EXTENDS MemoryFabric

CONSTANTS r1, l1, l2

MCIds == (Runs \X Lessons) \cup NoteIds
MCRefs == [l \in Lessons |-> IF l = l2 THEN {l1} ELSE {}]
=============================================================================

----------------------------- MODULE MCPsfStream -----------------------------
(* PsfStream with three samples and two milliseconds to the second; the    *)
(* .cfg files choose what may fail and what the listener does.             *)
EXTENDS PsfStream
=============================================================================

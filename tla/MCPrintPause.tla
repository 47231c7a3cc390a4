---------------------------- MODULE MCPrintPause -----------------------------
EXTENDS PrintPause

\* A macro that makes a move, between two moves, and one pause.
MacroPrints == {[job |-> <<"line", "macro", "line">>, pauses |-> 1]}
MoveMacro == <<"line">>
AllSegments == [line |-> 1, long |-> 2, arc |-> 3]

=============================================================================

--------------------------- MODULE MCPythonStream ----------------------------
(* Two threads that share a stream. *)
EXTENDS PythonStream, TLC

CONSTANTS t1, t2

TwoThreads == {t1, t2}

SomePieces == {0, 1, 2}

=============================================================================

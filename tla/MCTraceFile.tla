---------------------------- MODULE MCTraceFile -----------------------------
(* Instances of TraceFile for TLC: one or two traces, up to four words that *)
(* can be read, anything in them; the counter starts with 0, 1 or the      *)
(* largest value of a counter modulo 4.                                    *)
EXTENDS TraceFile

MCFiles == UNION {[procs : {1, 2}, words : {n}, type : [Start..(n - 1) -> EntryType]] : n \in 2..6}
=============================================================================

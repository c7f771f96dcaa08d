-------------------------------- MODULE CPU --------------------------------
(***************************************************************************)
(* The processors (CPU.h): each replays its entries of the trace, one      *)
(* memory operation at a time, and stops the simulation when the traces of *)
(* all processors have ended.  The trace is any trace: an entry is chosen  *)
(* when it is read, processor c has at most MaxOps[c] memory operations    *)
(* and any number of NOPs.  This module shares the two ports of its cache with *)
(* module Cache.                                                           *)
(***************************************************************************)
EXTENDS Cache

CONSTANT MaxOps    \* bound on the memory operations of each processor

ASSUME MaxOpsAssumption == MaxOps \in [CPUs -> Nat]

VARIABLES ppc,       \* fetch: at the clock wait that ends the loop body
                     \* write: at the extra clock wait of a write
                     \* wait: for Port_MemDone;  end: returned
          left,      \* memory operations the trace still has
          ended,     \* processors whose END entry was read
          stopped    \* sc_stop() was called

cpuVars == <<ppc, left, ended, stopped>>

CpuLabels == {"fetch", "write", "wait", "end"}

Eof == ended = CPUs      \* TraceFile::eof

CpuStep(c, ph, l) ==
  /\ Step(CpuP(c), ph)
  /\ ppc[c] = l
  /\ UNCHANGED <<busVars, flagVars, line, cpc, localVars, c2c, stats, done>>

(* The trace has an operation next: it is handed to the cache.             *)
CpuIssue(c) ==
  /\ CpuStep(c, "edge", "fetch")
  /\ ~Eof /\ c \notin ended /\ left[c] > 0
  /\ \E r \in CpuRequest :
       /\ func' = [func EXCEPT ![c] = r]
       /\ ppc' = [ppc EXCEPT ![c] = IF r.op = "WRITE" THEN "write" ELSE "wait"]
  /\ left' = [left EXCEPT ![c] = @ - 1]
  /\ UNCHANGED <<ended, stopped>>

(* A NOP of the trace, or the NOPs next() returns once the trace ended.    *)
CpuNop(c) ==
  /\ CpuStep(c, "edge", "fetch")
  /\ ~Eof
  /\ UNCHANGED <<func, cpuVars>>

(* The END entry of the trace, which next() returns as a NOP.              *)
CpuTraceEnd(c) ==
  /\ CpuStep(c, "edge", "fetch")
  /\ ~Eof /\ c \notin ended
  /\ ended' = ended \cup {c}
  /\ UNCHANGED <<func, ppc, left, stopped>>

CpuStop(c) ==
  /\ CpuStep(c, "edge", "fetch")
  /\ Eof
  /\ stopped' = TRUE
  /\ ppc' = [ppc EXCEPT ![c] = "end"]
  /\ UNCHANGED <<func, left, ended>>

CpuWriteSent(c) ==
  /\ CpuStep(c, "edge", "write")
  /\ ppc' = [ppc EXCEPT ![c] = "wait"]
  /\ UNCHANGED <<func, left, ended, stopped>>

CpuDone(c) ==
  /\ CpuStep(c, "delta", "wait")
  /\ ppc' = [ppc EXCEPT ![c] = "fetch"]
  /\ UNCHANGED <<func, left, ended, stopped>>

Cpu(c) == CpuIssue(c) \/ CpuNop(c) \/ CpuTraceEnd(c) \/ CpuStop(c)
          \/ CpuWriteSent(c) \/ CpuDone(c)

CpuInit ==
  /\ ppc = [c \in CPUs |-> "fetch"]
  /\ left = MaxOps
  /\ ended = {}
  /\ stopped = FALSE

CpuTypeOK ==
  /\ ppc \in [CPUs -> CpuLabels]
  /\ left \in [CPUs -> Nat]
  /\ ended \subseteq CPUs
  /\ stopped \in BOOLEAN
=============================================================================

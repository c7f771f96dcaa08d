------------------------------ MODULE TraceFile ------------------------------
(***************************************************************************)
(* The trace file (psa.cpp), sc_main around it (assignment1.cpp) and the   *)
(* loops of the processors that read it (CPU.h).  The traces of all        *)
(* processors of the file are interleaved, one word for each in turn.      *)
(* Module PSA takes a processor's trace to be any trace, and the count of  *)
(* traces and of processors to agree; here the file is read as it is       *)
(* written, the number of processors comes from the command line, and      *)
(* m_num_finished starts with whatever the memory held.                    *)
(*                                                                         *)
(* Words of the file are numbered from 0; two make its header.  The end of *)
(* the file need not be at a word: what is left over is never read.        *)
(***************************************************************************)
EXTENDS Integers, FiniteSets

CONSTANTS Files,      \* [procs, words, type]: files that can be opened
          CpuNums,    \* second argument of the program
          Garbage,    \* what m_num_finished may start with
          Modulus     \* of a uint32_t

(* The sum of two numbers of that width.                                   *)
Plus(a, b) == IF a + b < Modulus THEN a + b ELSE a + b - Modulus

EntryType == {"NOP", "READ", "WRITE", "END"}
Start == 2

ASSUME TraceAssumption ==
  /\ \A f \in Files : /\ f.procs \in Nat \ {0} /\ f.words \in Nat /\ f.procs < Modulus
                      /\ f.type \in [Start..(f.words - 1) -> EntryType]
  /\ CpuNums \subseteq Nat
  /\ Modulus \in Nat /\ Garbage \subseteq 0..(Modulus - 1)

VARIABLES
  file,            \* the file
  cpunum,          \* CPUNUM: the processors of the simulation
  garbage,         \* the first value of m_num_finished
  m_positions,     \* next word of each trace, 0 when it has ended
  m_num_finished,
  pc,              \* processors: loop, op (waits for its cache), end
  due,             \* processors that run at the present clock edge
  stopped,         \* sc_stop() was called
  taken,           \* the words read for each trace
  count            \* memory operations counted for each processor

vars == <<file, cpunum, garbage, m_positions, m_num_finished, pc, due, stopped, taken, count>>

given == <<file, cpunum, garbage>>

Pids == 0..(file.procs - 1)       \* the traces
Cpus == 0..(cpunum - 1)           \* the processors

(* The constructor throws "Unexpected end of tracefile", and the program   *)
(* ends, unless there is a word more than one for each processor.          *)
Refused(f) == f.words < Start + f.procs + 1

Init ==
  /\ file \in {f \in Files : ~Refused(f)}
  /\ cpunum \in CpuNums
  /\ garbage \in Garbage
  /\ m_positions = [p \in Pids |-> Start + p]
  /\ m_num_finished = garbage
  /\ pc = [c \in Cpus |-> "loop"]
  /\ due = {}
  /\ stopped = FALSE
  /\ taken = [p \in Pids |-> {}]
  /\ count = [p \in Pids |-> 0]

-----------------------------------------------------------------------------
(* TraceFile::next and eof.                                                *)

Eof == m_num_finished = file.procs

Open(c)  == c \in Pids /\ m_positions[c] # 0
AtEnd(c) == m_positions[c] + 1 > file.words
Entry(c) == file.type[m_positions[c]]

(* Mutant: the size of a word is counted twice.                            *)
AdvancedBytes(c) == [m_positions EXCEPT ![c] = @ + 4 * file.procs]

Advanced(c) == [m_positions EXCEPT ![c] = @ + file.procs]

(* Mutant: the trace stays open.                                           *)
EndTraceKept(c) ==
  /\ m_num_finished' = Plus(m_num_finished, 1)
  /\ UNCHANGED m_positions

(* Mutant: the end is not counted.                                         *)
EndTraceUncounted(c) ==
  /\ m_positions' = [m_positions EXCEPT ![c] = 0]
  /\ UNCHANGED m_num_finished

EndTrace(c) ==
  /\ m_positions' = [m_positions EXCEPT ![c] = 0]
  /\ m_num_finished' = Plus(m_num_finished, 1)

Read(c) == taken' = [taken EXCEPT ![c] = @ \cup {m_positions[c]}]

-----------------------------------------------------------------------------
(* The loop of a processor, from one clock edge to the next.               *)

Loop(c) == c \in due /\ due' = due \ {c} /\ UNCHANGED given

(* A NOP: of the trace, or because it has ended.                           *)
NextNop(c) ==
  /\ Loop(c) /\ ~Eof /\ c \in Pids
  /\ \/ ~Open(c) /\ UNCHANGED <<m_positions, taken>>
     \/ /\ Open(c) /\ ~AtEnd(c) /\ Entry(c) = "NOP"
        /\ Read(c) /\ m_positions' = Advanced(c)
  /\ UNCHANGED <<m_num_finished, pc, stopped, count>>

(* An END entry, or no whole entry left: it gets a NOP.                    *)
NextEnd(c) ==
  /\ Loop(c) /\ ~Eof /\ Open(c)
  /\ \/ AtEnd(c) /\ UNCHANGED taken
     \/ ~AtEnd(c) /\ Entry(c) = "END" /\ Read(c)
  /\ EndTrace(c)
  /\ UNCHANGED <<pc, stopped, count>>

(* A memory operation is handed to the cache.                              *)
NextOp(c) ==
  /\ Loop(c) /\ ~Eof /\ Open(c) /\ ~AtEnd(c) /\ Entry(c) \in {"READ", "WRITE"}
  /\ Read(c) /\ m_positions' = Advanced(c)
  /\ pc' = [pc EXCEPT ![c] = "op"]
  /\ UNCHANGED <<m_num_finished, stopped, count>>

(* The end of the file, or no trace for the processor.                     *)
Stop(c) ==
  /\ Loop(c)
  /\ Eof \/ c \notin Pids
  /\ pc' = [pc EXCEPT ![c] = "end"]
  /\ stopped' = TRUE
  /\ UNCHANGED <<m_positions, m_num_finished, taken, count>>

(* Mutant: num_cpus is one too small.                                      *)
CountedShort(c) == IF c + 1 \in Pids THEN [count EXCEPT ![c] = @ + 1] ELSE count

(* The statistics have room for the processors of the file.                *)
Counted(c) == IF c \in Pids THEN [count EXCEPT ![c] = @ + 1] ELSE count

(* The cache has done the operation, and counted it as a hit or a miss.    *)
OpDone(c) ==
  /\ ~stopped /\ c \in Cpus /\ pc[c] = "op"
  /\ pc' = [pc EXCEPT ![c] = "loop"]
  /\ count' = Counted(c)
  /\ UNCHANGED <<given, m_positions, m_num_finished, due, stopped, taken>>

(* The next clock edge.  sc_stop() lets the present one end.               *)
Tick ==
  /\ ~stopped /\ due = {}
  /\ due' = {c \in Cpus : pc[c] = "loop"}
  /\ due' # {}
  /\ UNCHANGED <<given, m_positions, m_num_finished, pc, stopped, taken, count>>

Finished == stopped /\ due = {} /\ UNCHANGED vars

Next ==
  \/ \E c \in Cpus : NextNop(c) \/ NextEnd(c) \/ NextOp(c) \/ Stop(c) \/ OpDone(c)
  \/ Tick \/ Finished

Spec == Init /\ [][Next]_vars

(* The clock goes on, and so do the processes it wakes; the caches answer  *)
(* (PSA!PortFairSpec).                                                     *)
FairSpec ==
  /\ Spec
  /\ WF_vars(Next)
  /\ \A c \in UNION {0..(n - 1) : n \in CpuNums} : WF_vars(OpDone(c))

-----------------------------------------------------------------------------
(* No trace is read beyond the file.                                       *)
TypeOK ==
  /\ file \in Files /\ cpunum \in CpuNums /\ garbage \in Garbage
  /\ m_positions \in [Pids -> {0} \cup Start..(file.words - 1 + file.procs)]
  /\ m_num_finished \in 0..(Modulus - 1)
  /\ pc \in [Cpus -> {"loop", "op", "end"}]
  /\ due \subseteq Cpus
  /\ stopped \in BOOLEAN
  /\ taken \in [Pids -> SUBSET (Start..(file.words - 1))]
  /\ count \in [Pids -> Nat]

Ended == {p \in Pids : m_positions[p] = 0}

(* m_num_finished counts the traces that have ended, however they ended,   *)
(* each once, on top of what it started with (psa.cpp:246, 269): eof()     *)
(* says what psa.h:117 promises if that is 0, and is wrong for every other *)
(* value below the number of traces.                                       *)
FinishedCount == m_num_finished = Plus(garbage, Cardinality(Ended))

(* With a counter that starts at 0 and no more processors than traces, the *)
(* simulation does not stop before every trace has been replayed to its    *)
(* end and every operation was answered (CPU.h:31, 93).                    *)
StopMeansDone ==
  stopped /\ garbage = 0 /\ cpunum <= file.procs =>
    Ended = Pids /\ \A c \in Cpus : pc[c] # "op"

Lane(p) == {w \in Start..(file.words - 1) : (w - Start) % file.procs = p}
Before(p) == IF m_positions[p] # 0 THEN {w \in Lane(p) : w < m_positions[p]}
             ELSE {w \in Lane(p) : \A v \in Lane(p) : v < w => file.type[v] # "END"}

(* Each processor is given its own words of the file, all of them up to    *)
(* the END and none behind it, however the processors run against each     *)
(* other (psa.cpp:204-207, 255).                                           *)
LaneRead == \A p \in Pids : taken[p] = Before(p)

(* Every operation that was handed over and answered has been counted once *)
(* (psa.cpp:131-161).  If a run ends without any, the caches have accessed *)
(* no memory, and assignment1.cpp:108 divides by zero.                     *)
Operations(p) == {w \in taken[p] : file.type[w] \in {"READ", "WRITE"}}
AllCounted ==
  \A p \in Pids :
    count[p] + (IF p \in Cpus /\ pc[p] = "op" THEN 1 ELSE 0) = Cardinality(Operations(p))

(* The simulation ends if there is a processor for every trace.            *)
Ends == (garbage = 0 /\ cpunum >= file.procs) ~> stopped
=============================================================================

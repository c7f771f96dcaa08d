-------------------------------- MODULE SysC --------------------------------
(***************************************************************************)
(* The part of the SystemC kernel that the simulator relies on.  Simulated *)
(* time advances by half a clock period at a time (sc_clock's              *)
(* default_event fires on both edges).  At each edge the kernel runs, one  *)
(* at a time and in an unspecified order, every process that waits for the *)
(* clock (phase "edge"); a process runs from one wait() to the next        *)
(* without interruption.  Writes to signals become visible when all have   *)
(* run; processes sensitive to a signal that changed, or to a buffer that  *)
(* was written, then run in a delta cycle (phase "delta").                 *)
(*                                                                         *)
(* `run' is the set of processes that still have to run in this phase.     *)
(*                                                                         *)
(* The four resolved wires of the bus (address, function, processor,       *)
(* source) are always driven and released together; they are one message.  *)
(* `drv' is the set of pairs <<process, message>> of the processes that    *)
(* drive them (sc_signal_rv keeps one driver per process); `wires' is what *)
(* read() returns.                                                         *)
(***************************************************************************)
EXTENDS Integers, FiniteSets

CONSTANTS CPUs,     \* processors, each with its cache (CPUNUM of sc_main)
          Slots,    \* transfers a cache may have spawned at the same time
          Tags,     \* values of address bits 12..31
          Sets,     \* values of the index bits 5..11
          Offs      \* offsets within a cache line, 0 is the aligned one

ASSUME SlotsAssumption == Slots \subseteq Nat
ASSUME AddrAssumption  == Tags \subseteq Nat /\ 0 \in Tags /\ 0 \in Offs

Addr    == [tag : Tags, set : Sets, off : Offs]
LineOf(a) == [a EXCEPT !.off = 0]          \* addr & ~0b11111

CpuP(c)   == <<"cpu", c>>
CacheP(c) == <<"cache", c>>
SnoopP(c) == <<"snoop", c>>
C2CP(t)   == <<"c2c", t>>
MemP      == <<"mem", "execute">>
MemSnoopP == <<"memsnoop", "snoop">>

Threads == CPUs \X Slots   \* <<c, j>> is a thread spawned by the snooper of c

Procs == {CpuP(c) : c \in CPUs} \cup {CacheP(c) : c \in CPUs}
         \cup {SnoopP(c) : c \in CPUs} \cup {C2CP(t) : t \in Threads}
         \cup {MemP, MemSnoopP}

Msg == [func : {"READ", "WRITE", "INVALIDATE", "RESPONSE", "REQUESTED"},
        id   : CPUs,
        addr : Addr,
        src  : CPUs \cup {"DRAM", "Z"}]

NoMsg == [func |-> "NOTHING"]   \* all wires at Z: FUNC_NOTHING is read
Clash == [func |-> "X"]         \* two drivers disagree: bits at X

VARIABLES clk,      \* TRUE: the last edge was a rising one
          phase,    \* "edge", "delta" or "stop"
          run, wires, drv

kernelVars == <<clk, phase, run, wires, drv>>

Resolve(d) == IF d = {} THEN NoMsg
              ELSE IF \E x \in d : d = {x} THEN (CHOOSE x \in d : TRUE)[2]
              ELSE Clash

SysCTypeOK ==
  /\ clk \in BOOLEAN
  /\ phase \in {"edge", "delta", "stop"}
  /\ run \subseteq Procs
  /\ wires \in Msg \cup {NoMsg, Clash}
  /\ drv \subseteq Procs \X Msg

(* Process p runs in phase ph up to its next wait(); it spawns `spawned'.  *)
Spawning(p, ph, spawned) ==
  /\ phase = ph
  /\ p \in run
  /\ run' = (run \ {p}) \cup spawned
  /\ UNCHANGED <<clk, phase, wires>>

Step(p, ph) == Spawning(p, ph, {})

(* All processes of the edge have run: signals are updated and `woken',    *)
(* the processes whose event fired, run next.  sc_stop() lets the current  *)
(* delta cycle finish and ends the simulation before the next one.         *)
Update(stopped, woken) ==
  /\ phase = "edge"
  /\ run = {}
  /\ wires' = Resolve(drv)
  /\ phase' = IF stopped THEN "stop" ELSE "delta"
  /\ run' = IF stopped THEN {} ELSE woken
  /\ UNCHANGED <<clk, drv>>

(* Nothing is left to run at this time: the next clock edge.               *)
Tick(woken) ==
  /\ phase = "delta"
  /\ run = {}
  /\ clk' = ~clk
  /\ phase' = "edge"
  /\ run' = woken
  /\ wires' = Resolve(drv)
  /\ UNCHANGED drv
=============================================================================

-------------------------------- MODULE PSA --------------------------------
(***************************************************************************)
(* The simulator of assignment_1 as sc_main wires it: processors with      *)
(* their caches, one bus and one memory on the same clock.  The kernel     *)
(* alternates the processes of an edge (Update ends them) and those of the *)
(* delta cycle after it (Tick ends them).                                  *)
(***************************************************************************)
EXTENDS CPU, Memory

vars == <<kernelVars, owner, flagVars, cacheVars, cpuVars, memVars>>

-----------------------------------------------------------------------------
(* The processes that each event wakes.  A process that looks at the wires *)
(* and goes back to the same wait changes nothing, so only those that the  *)
(* message lets through are run.                                           *)

CpusAtClock == {c \in CPUs : ppc[c] \in {"fetch", "write"}}

CachesAtClock(rising, w) ==
  {c \in CPUs : \/ cpc[c] \in ClockLabels
                \/ cpc[c] \in NegLabels /\ ~rising
                \/ /\ cpc[c] = "fillAnswer"
                   /\ AnswerFor(w, c, LineOf(req[c].addr))
                \/ /\ cpc[c] = "wbAnswer"
                   /\ AnswerFor(w, c, WbAddr(c)) /\ w.func = "RESPONSE"}

ThreadsAtClock == {t \in Threads : c2c[t] # NoThread /\ c2c[t].pc # "start"}

AtClock(rising, w) ==
  {CpuP(c) : c \in CpusAtClock}
  \cup {CacheP(c) : c \in CachesAtClock(rising, w)}
  \cup {C2CP(t) : t \in ThreadsAtClock}
  \cup (IF MemAwaitsClock THEN {MemP} ELSE {})
  \cup (IF ForMemory(w) THEN {MemSnoopP} ELSE {})

(* The buffers between processor and cache notify every write; the wire    *)
(* Port_BusFunc notifies only when its value is not the one it had.        *)
AtDelta(w) ==
  {CacheP(c) : c \in {d \in CPUs : func[d] # NoRequest /\ cpc[d] = "idle"}}
  \cup {CpuP(c) : c \in {d \in done : ppc[d] = "wait"}}
  \cup (IF w.func = wires.func THEN {}
        ELSE {SnoopP(c) : c \in {d \in CPUs : SnoopedBy(w, d)}}
             \cup (IF MemAwaitsChange THEN {MemP} ELSE {}))

KernelUpdate ==
  /\ Update(stopped, AtDelta(Resolve(drv)))
  /\ UNCHANGED <<owner, flagVars, cacheVars, cpuVars, memVars>>

KernelTick ==
  /\ Tick(AtClock(~clk, Resolve(drv)))
  /\ func' = [c \in CPUs |-> NoRequest]
  /\ done' = {}
  /\ UNCHANGED <<owner, flagVars, line, cpc, localVars, c2c, stats, cpuVars, memVars>>

(* sc_start() returns.                                                     *)
Finished == phase = "stop" /\ UNCHANGED vars

-----------------------------------------------------------------------------
Init ==
  /\ clk = TRUE
  /\ phase = "edge"
  /\ run = {CpuP(c) : c \in CPUs}
  /\ wires = NoMsg
  /\ drv = {}
  /\ BusInit /\ CacheInit /\ CpuInit /\ MemInit

CpuNext   == \E c \in CPUs : Cpu(c) /\ UNCHANGED memVars
CacheNext == \E c \in CPUs : Execute(c) /\ UNCHANGED <<cpuVars, memVars>>
SnoopNext == \E c \in CPUs : Snoop(c) /\ UNCHANGED <<cpuVars, memVars>>
C2CNext   == \E t \in Threads : CacheToCache(t) /\ UNCHANGED <<cpuVars, memVars>>
MemNext   == (MemExecute \/ MemSnoop) /\ UNCHANGED <<cacheVars, cpuVars>>

Next == CpuNext \/ CacheNext \/ SnoopNext \/ C2CNext \/ MemNext
        \/ KernelUpdate \/ KernelTick \/ Finished

Spec == Init /\ [][Next]_vars

TypeOK == SysCTypeOK /\ BusTypeOK /\ CacheTypeOK /\ CpuTypeOK /\ MemTypeOK

-----------------------------------------------------------------------------
(* Arbitration: the wires have at most one driver, the process that holds  *)
(* the mutex, so no message is ever garbled (Bus.h:249, the arbiter).      *)
BusExclusion ==
  /\ \A d \in drv : d[1] = owner
  /\ \A d, e \in drv : d = e
  /\ wires # Clash

(* No message is on the wires for more or less than the half cycle between *)
(* two edges: nobody starts or stops driving in a delta cycle, where a     *)
(* snooper's thread already tries to lock the bus (Bus.h:195).             *)
DriveOnlyAtEdges == [][phase = "delta" => drv' = drv]_vars

(* A cache that waits in wait_for_response has its request on the wires,   *)
(* in the queue of the memory, in service, or just answered: stale answers *)
(* that end a wait early never leave a later wait without its own          *)
(* (Bus.h:106-130, Memory.h:49-55).                                        *)
Underway(c, a) ==
  \/ wires.func \notin {"NOTHING", "REQUESTED"} /\ wires.id = c /\ wires.addr = a
  \/ \E i \in DOMAIN queue : queue[i] = [id |-> c, addr |-> a]
  \/ Serving /\ mreq = [id |-> c, addr |-> a]

NoLostRequest == \A c \in CPUs :
  /\ cpc[c] = "fillAnswer" => Underway(c, LineOf(req[c].addr))
  /\ cpc[c] = "wbAnswer"   => Underway(c, WbAddr(c))

(* The memory sleeps until Port_BusFunc changes; if it falls asleep while  *)
(* a request is being queued, or two messages of the same kind follow each *)
(* other, a change is still to come, unless the simulation was stopped     *)
(* before (Memory.h:62-69).                                                *)
QueueNotForgotten ==
  MemAwaitsChange /\ queue # << >> =>
    wires.func # "NOTHING" \/ MemP \in run \/ phase = "stop"

(* The processor never misses the Port_Done of its operation, and its      *)
(* cache never works or reports unasked (CPU.h:63-76, Cache.h:97).         *)
NoLostDone == \A c \in CPUs :
  /\ ppc[c] = "wait" => \/ func[c] # NoRequest
                        \/ cpc[c] \notin {"idle", "done"}
                        \/ c \in done
  /\ ppc[c] = "fetch" => cpc[c] \in {"idle", "done"}
  /\ c \in done => ppc[c] \in {"wait", "fetch"}

(* A modified or owned copy, the only one that is up to date, is not given *)
(* up for another line before its write-back was answered on the bus       *)
(* (Cache.h:195-219).                                                      *)
DirtyWrittenBack == [][\A c \in CPUs, s \in Sets, w \in WaySet :
    Dirty(line[c][s][w]) /\ line'[c][s][w].state = "REQUESTED"
      => /\ cpc[c] = "wbAnswer" /\ way[c] = w
         /\ wires.func = "RESPONSE" /\ wires.id = c
         /\ wires.addr.tag = line[c][s][w].tag]_vars

-----------------------------------------------------------------------------
Counted(c) == stats[c]["writehit"] + stats[c]["writemiss"]
              + stats[c]["readhit"] + stats[c]["readmiss"]

(* The caches keep the promise of CpuPort.                                 *)
Port == INSTANCE CpuPort WITH
  outstanding <- {c \in CPUs : ppc[c] \in {"write", "wait"} /\ c \notin done},
  counted <- [c \in CPUs |-> Counted(c)],
  halted <- (phase = "stop")

PortSpec == Port!Spec

(* The memory controller keeps the promise of MemServer.                   *)
Server == INSTANCE MemServer WITH
  Requests <- MemReq, None <- NoReq,
  pending <- IF mpc \in {"delay", "c2c", "lock"} THEN <<mreq>> \o queue ELSE queue,
  answer <- IF mpc = "driving" THEN mreq ELSE NoReq

ServerSpec == Server!Spec

-----------------------------------------------------------------------------
(* The kernel goes on as long as a process can run, and a trace is a       *)
(* finite file: its NOPs come to an end.                                   *)
Fairness ==
  /\ WF_vars(Next)
  /\ \A c \in CPUs : SF_vars((CpuIssue(c) \/ CpuTraceEnd(c)) /\ UNCHANGED memVars)

FairSpec == Spec /\ Fairness

(* Every operation of a processor is completed (CpuPort with fairness).    *)
PortFairSpec == Port!FairSpec

(* The simulation comes to its end: no processor waits for ever behind the *)
(* others, whatever the order in which the kernel runs the processes.      *)
Termination == <>(phase = "stop")
=============================================================================

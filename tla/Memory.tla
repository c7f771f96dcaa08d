------------------------------- MODULE Memory -------------------------------
(***************************************************************************)
(* The memory controller (Memory.h) and the bus operations only it calls   *)
(* (get_next_request, memory_response, memory_controller_wait).  The       *)
(* snooping process samples the wires at every edge and queues the         *)
(* requests; the executing process serves them in order, each after a      *)
(* delay that is shorter when the memory was already busy.                 *)
(***************************************************************************)
EXTENDS Bus, Sequences

CONSTANTS LatFresh,    \* 99 half cycles: the memory was idle
          LatQueued    \* 10 half cycles: requests were queued

ASSUME LatAssumption == LatFresh \in Nat \ {0} /\ LatQueued \in Nat \ {0}

VARIABLES queue,    \* std::queue<request>
          mpc,      \* where execute() waits
          mreq,     \* the request being served
          count,    \* iterations of the delay loop that are left
          cycles_to_wait

memVars == <<queue, mpc, mreq, count, cycles_to_wait>>

NoReq == [id |-> "none"]
MemReq == [id : CPUs, addr : Addr]

MemLabels == {"changed", "synced", "delay", "c2c", "lock", "driving"}

(* Where execute() waits for the clock, and where for a change of          *)
(* Port_BusFunc (memory_controller_wait).                                  *)
MemAwaitsClock  == mpc # "changed"
MemAwaitsChange == mpc = "changed"

Serving == mpc \in {"delay", "c2c", "lock", "driving"}

(* snoop(): get_next_request returned a request.                           *)
MemSnoop ==
  /\ Step(MemSnoopP, "edge")
  /\ queue' = Append(queue, [id |-> wires.id, addr |-> wires.addr])
  /\ UNCHANGED <<drv, owner, intended, c2c_intended,
                 mpc, mreq, count, cycles_to_wait>>

(* Mutant: execute() sleeps again without looking at the queue.            *)
NextRequestSleeps(latency) ==
  /\ cycles_to_wait' = LatFresh
  /\ mpc' = "changed"
  /\ mreq' = NoReq
  /\ count' = 0
  /\ UNCHANGED queue

(* Mutant: the request is copied from the front and never popped.          *)
NextRequestNoPop(latency) ==
  \/ /\ queue = << >>
     /\ NextRequestSleeps(latency)
  \/ /\ queue # << >>
     /\ mreq' = Head(queue)
     /\ cycles_to_wait' = latency
     /\ count' = latency
     /\ mpc' = "delay"
     /\ UNCHANGED queue

(* while(requests.empty()) of execute(), and the pop that follows it.      *)
NextRequest(latency) ==
  \/ /\ queue = << >>
     /\ cycles_to_wait' = LatFresh
     /\ mpc' = "changed"
     /\ mreq' = NoReq
     /\ count' = 0
     /\ UNCHANGED queue
  \/ /\ queue # << >>
     /\ queue' = Tail(queue)
     /\ mreq' = Head(queue)
     /\ cycles_to_wait' = latency
     /\ count' = latency
     /\ mpc' = "delay"

(* Port_BusFunc changed: memory_controller_wait returns.                   *)
MemWake ==
  /\ Step(MemP, "delta")
  /\ mpc = "changed"
  /\ mpc' = "synced"
  /\ UNCHANGED <<drv, owner, intended, c2c_intended,
                 queue, mreq, count, cycles_to_wait>>

MemFetch ==
  /\ Step(MemP, "edge")
  /\ mpc = "synced"
  /\ NextRequest(cycles_to_wait)
  /\ UNCHANGED <<drv, owner, intended, c2c_intended>>

MemAnswer == [func |-> "RESPONSE", id |-> mreq.id, addr |-> mreq.addr,
              src |-> "DRAM"]

(* The loop on try_lock of memory_response, `intended' being set.          *)
MemTryLock ==
  /\ intended' = TRUE
  /\ \/ /\ Free(BusNow)
        /\ BusBecomes(Driven(BusNow, MemP, MemAnswer))
        /\ mpc' = "driving"
     \/ /\ ~Free(BusNow)
        /\ mpc' = "lock"
        /\ UNCHANGED busVars

(* The first loop of memory_response: let a cache-to-cache transfer pass.  *)
MemRespond ==
  \/ /\ c2c_intended
     /\ mpc' = "c2c"
     /\ UNCHANGED <<drv, owner, intended>>
  \/ /\ ~c2c_intended
     /\ MemTryLock

(* An iteration of the delay loop; memory_response is called after the     *)
(* last one, in the same step.                                             *)
MemDelay ==
  /\ Step(MemP, "edge")
  /\ mpc = "delay"
  /\ count' = count - 1
  /\ \/ count > 1 /\ UNCHANGED <<mpc, drv, owner, intended>>
     \/ count = 1 /\ MemRespond
  /\ UNCHANGED <<c2c_intended, queue, mreq, cycles_to_wait>>

MemC2C ==
  /\ Step(MemP, "edge")
  /\ mpc = "c2c"
  /\ MemRespond
  /\ UNCHANGED <<c2c_intended, queue, mreq, count, cycles_to_wait>>

MemLock ==
  /\ Step(MemP, "edge")
  /\ mpc = "lock"
  /\ MemTryLock
  /\ UNCHANGED <<c2c_intended, queue, mreq, count, cycles_to_wait>>

(* Mutant: the priority flag stays set after the answer.                   *)
MemReleaseKeepsFlag ==
  /\ Step(MemP, "edge")
  /\ mpc = "driving"
  /\ BusBecomes(Released(MemP))
  /\ NextRequest(LatQueued)
  /\ UNCHANGED <<intended, c2c_intended>>

(* End of memory_response; execute() goes on to the next request without   *)
(* waiting, at the latency of a queued one.                                *)
MemRelease ==
  /\ Step(MemP, "edge")
  /\ mpc = "driving"
  /\ BusBecomes(Released(MemP))
  /\ intended' = FALSE
  /\ NextRequest(LatQueued)
  /\ UNCHANGED c2c_intended

MemExecute == MemWake \/ MemFetch \/ MemDelay \/ MemC2C \/ MemLock \/ MemRelease

MemInit ==
  /\ queue = << >>
  /\ mpc = "changed"
  /\ mreq = NoReq
  /\ count = 0
  /\ cycles_to_wait = LatFresh

MemTypeOK ==
  /\ queue \in Seq(MemReq)
  /\ mpc \in MemLabels
  /\ mreq \in MemReq \cup {NoReq}
  /\ Serving => mreq \in MemReq
  /\ count \in Nat
  /\ mpc = "delay" => count > 0
  /\ cycles_to_wait \in {LatFresh, LatQueued}
=============================================================================

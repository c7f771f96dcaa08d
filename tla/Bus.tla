-------------------------------- MODULE Bus --------------------------------
(***************************************************************************)
(* The arbiter of the shared bus (Bus.h): the mutex, the two priority      *)
(* flags, and the operations that drive the wires.  Every operation of the *)
(* class is a procedure that runs in the caller's process and waits for    *)
(* the clock in the middle; here it is the pair of steps before and after  *)
(* that wait, which the modules of the callers use in their own actions.   *)
(***************************************************************************)
EXTENDS SysC

VARIABLES owner,         \* process that locked bus_mutex, or Nobody
          intended,      \* the memory wants the bus
          c2c_intended   \* a cache-to-cache transfer wants the bus

busVars   == <<drv, owner>>
flagVars  == <<intended, c2c_intended>>

Nobody == <<"nobody", "">>

(* The state of the bus during a step: what it is at its start, what the   *)
(* process's release makes of it (the wires go back to Z and the mutex is  *)
(* unlocked, whoever locked it), and what driving message m makes of it.   *)
BusNow == [owner |-> owner, drv |-> drv]

Released(p) == [owner |-> Nobody, drv |-> {d \in drv : d[1] # p}]

Driven(b, p, m) == [owner |-> p, drv |-> b.drv \cup {<<p, m>>}]

BusBecomes(b) == owner' = b.owner /\ drv' = b.drv

(* try_lock() by the thread that already holds the mutex (all SystemC      *)
(* processes share one thread) returns false with the C library in use.    *)
Free(b) == b.owner = Nobody

(* Mutant: the mutex is not tried.                                         *)
MayRequestUnlocked(b) == ~c2c_intended /\ ~intended

(* read(), write() and cacheline_invalidate() give up, and the caller      *)
(* retries later, while anybody with a higher priority wants the bus.      *)
MayRequest(b) == ~c2c_intended /\ ~intended /\ Free(b)

Request(f, c, a) == [func |-> f, id |-> c, addr |-> a, src |-> "Z"]

Requesting(b, f, c, a) ==
  MayRequest(b) /\ BusBecomes(Driven(b, CacheP(c), Request(f, c, a)))

Refused(b) == ~MayRequest(b) /\ BusBecomes(b)

(* What wait_for_response(c, a) and wait_for_any(c) let through.           *)
AnswerFor(m, c, a) ==
  m.func \in {"RESPONSE", "REQUESTED"} /\ m.id = c /\ m.addr = a

SnoopedBy(m, c) ==
  m.func \in {"INVALIDATE", "WRITE", "READ"} /\ m.id # c

(* Mutant: only reads are queued.                                          *)
ForMemoryReads(m) == m.func = "READ"

(* What get_next_request() lets through: everything but an answer, the     *)
(* INVALIDATE and REQUESTED messages included.                             *)
ForMemory(m) == m.func \notin {"RESPONSE", "NOTHING"}

BusInit ==
  /\ owner = Nobody
  /\ intended = FALSE
  /\ c2c_intended = FALSE

BusTypeOK ==
  /\ owner \in Procs \cup {Nobody}
  /\ intended \in BOOLEAN
  /\ c2c_intended \in BOOLEAN
=============================================================================

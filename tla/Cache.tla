------------------------------- MODULE Cache -------------------------------
(***************************************************************************)
(* The private caches (Cache.h): the process that serves the processor     *)
(* (execute), the process that snoops the bus (snooping), and the threads  *)
(* it spawns for cache-to-cache transfers (Bus::cache_to_cache).           *)
(*                                                                         *)
(* cpc[c] is the wait() of execute() at which cache c is suspended:        *)
(*   idle      for a request of the processor                              *)
(*   looked    after the lookup (one cycle for hit or miss)                *)
(*   invWait, invNeg, invDrive    write hit: the two waits of the loop on  *)
(*                                cacheline_invalidate, and inside it      *)
(*   readNeg   read hit: half a cycle, to notice an invalidation           *)
(*   recheck   before going back to the lookup                             *)
(*   wbWait, wbDrive, wbAnswer    write-back of the victim                 *)
(*   fillWait, fillDrive, fillAnswer   read of the line                    *)
(*   upWait, upNeg, upDrive       write miss that got a shared copy        *)
(*   refill    before going back to _post_writeback                        *)
(*   done      after Port_Done was written                                 *)
(***************************************************************************)
EXTENDS Bus, CacheSet

VARIABLES line,     \* cachelines: line[c][s][w]
          cpc,
          req,      \* f and addr of execute()
          hit, way, \* whether rindex > -1; rindex then, min_id otherwise
          res,      \* the result wait_for_response is going to return
          c2c,      \* the spawned threads
          stats,    \* the counters of psa.cpp
          func,     \* a write of Port_Func and Port_Addr not yet delivered
          done      \* caches that wrote Port_Done in this cycle

portVars  == <<func, done>>
localVars == <<req, hit, way, res>>
cacheVars == <<line, cpc, req, hit, way, res, c2c, stats, func, done>>

Line == [state : States, tag : Tags, counter : 0..MaxCounter]

CpuRequest == [op : {"READ", "WRITE"}, addr : Addr]   \* a request of a processor
NoRequest == [op |-> "none"]

ClockLabels == {"looked", "invWait", "invDrive", "recheck", "wbWait", "wbDrive",
                "fillWait", "fillDrive", "upWait", "upDrive", "refill", "done"}
NegLabels    == {"invNeg", "readNeg", "upNeg"}
AnswerLabels == {"wbAnswer", "fillAnswer"}
Labels == {"idle"} \cup ClockLabels \cup NegLabels \cup AnswerLabels

StatKinds == {"writehit", "writemiss", "readhit", "readmiss"}

NoThread == [pc |-> "none"]
Thread == [pc : {"start", "lock", "driving"}, id : CPUs, addr : Addr, way : WaySet]

-----------------------------------------------------------------------------
SetOf(c)  == line[c][req[c].addr.set]
Cur(c)    == SetOf(c)[way[c]]
WbAddr(c) == [req[c].addr EXCEPT !.tag = Cur(c).tag, !.off = 0]

GoTo(c, l) == cpc' = [cpc EXCEPT ![c] = l]

SetCur(c, l) == line' = [line EXCEPT ![c][req[c].addr.set][way[c]] = l]

CurState(c, s) == SetCur(c, [Cur(c) EXCEPT !.state = s])

(* check_the_cachelinestat: the lookup, then one wait for the clock.       *)
Lookup(c, r) ==
  LET set   == line[c][r.addr.set]
      found == Matches(set, r.addr.tag) # {}
  IN /\ hit' = [hit EXCEPT ![c] = found]
     /\ way' = [way EXCEPT ![c] = IF found THEN Found(set, r.addr.tag)
                                  ELSE Victim(set, r.addr.tag)]
     /\ line' = [line EXCEPT ![c][r.addr.set] = Aged(set, r.addr.tag)]
     /\ GoTo(c, "looked")

(* Mutant: Port_Done is not written.                                       *)
FinishSilently(c, kind) ==
  /\ stats' = [stats EXCEPT ![c][kind] = @ + 1]
  /\ GoTo(c, "done")
  /\ UNCHANGED done

(* Port_Done is written; the processor is woken in the delta cycle.        *)
Finish(c, kind) ==
  /\ stats' = [stats EXCEPT ![c][kind] = @ + 1]
  /\ done' = done \cup {c}
  /\ GoTo(c, "done")

(* cacheline_invalidate, called with the address as the processor gave it. *)
TryInvalidate(b, c, driving, waiting) ==
  \/ Requesting(b, "INVALIDATE", c, req[c].addr) /\ GoTo(c, driving)
  \/ Refused(b) /\ GoTo(c, waiting)

TryWriteBack(c) ==
  \/ Requesting(BusNow, "WRITE", c, WbAddr(c)) /\ GoTo(c, "wbDrive")
  \/ Refused(BusNow) /\ GoTo(c, "wbWait")

TryRead(c) ==
  \/ Requesting(BusNow, "READ", c, LineOf(req[c].addr)) /\ GoTo(c, "fillDrive")
  \/ Refused(BusNow) /\ GoTo(c, "fillWait")

(* _post_writeback: the line is marked, and keeps the tag it had.          *)
PostWriteback(c) == CurState(c, "REQUESTED") /\ TryRead(c)

(* The line was read and is in state s; b is the bus, which the same step  *)
(* may have released.  A write to a shared copy has to invalidate the      *)
(* others first.                                                           *)
Fill(b, c, s) ==
  LET filled == [state |-> s, tag |-> req[c].addr.tag, counter |-> MaxCounter]
  IN \/ /\ req[c].op = "READ"
        /\ SetCur(c, filled)
        /\ Finish(c, "readmiss")
        /\ BusBecomes(b)
     \/ /\ req[c].op = "WRITE" /\ s = "SHARED"
        /\ SetCur(c, filled)
        /\ TryInvalidate(b, c, "upDrive", "upWait")
        /\ UNCHANGED <<stats, done>>
     \/ /\ req[c].op = "WRITE" /\ s # "SHARED"
        /\ SetCur(c, [filled EXCEPT !.state = "MODIFIED"])
        /\ Finish(c, "writemiss")
        /\ BusBecomes(b)

-----------------------------------------------------------------------------
(* The steps of execute().                                                 *)

ExecuteStep(c, l) ==
  /\ Step(CacheP(c), "edge")
  /\ cpc[c] = l
  /\ UNCHANGED <<intended, c2c_intended, c2c, func>>

(* Port_Func was written: the request is read and looked up.               *)
Accept(c) ==
  /\ Step(CacheP(c), "delta")
  /\ cpc[c] = "idle"
  /\ req' = [req EXCEPT ![c] = func[c]]
  /\ Lookup(c, func[c])
  /\ UNCHANGED <<drv, owner, intended, c2c_intended, res, c2c, stats, func, done>>

(* Mutant: a write hit is counted at the lookup, and again when done.      *)
HitWriteCounted(c) ==
  /\ ExecuteStep(c, "looked")
  /\ hit[c] /\ req[c].op = "WRITE"
  /\ SetCur(c, [Cur(c) EXCEPT !.counter = MaxCounter])
  /\ TryInvalidate(BusNow, c, "invDrive", "invWait")
  /\ stats' = [stats EXCEPT ![c]["writehit"] = @ + 1]
  /\ UNCHANGED <<localVars, done>>

(* The line is cached and is written: the others are invalidated first.    *)
HitWrite(c) ==
  /\ ExecuteStep(c, "looked")
  /\ hit[c] /\ req[c].op = "WRITE"
  /\ SetCur(c, [Cur(c) EXCEPT !.counter = MaxCounter])
  /\ TryInvalidate(BusNow, c, "invDrive", "invWait")
  /\ UNCHANGED <<localVars, stats, done>>

(* The line is cached and is read, half a cycle later.                     *)
HitRead(c) ==
  /\ ExecuteStep(c, "looked")
  /\ hit[c] /\ req[c].op = "READ"
  /\ SetCur(c, [Cur(c) EXCEPT !.counter = MaxCounter])
  /\ GoTo(c, "readNeg")
  /\ UNCHANGED <<localVars, stats, done, busVars>>

(* The line to replace is dirty: it is written back first.                 *)
MissDirty(c) ==
  /\ ExecuteStep(c, "looked")
  /\ ~hit[c] /\ Dirty(Cur(c))
  /\ TryWriteBack(c)
  /\ UNCHANGED <<localVars, line, stats, done>>

MissClean(c) ==
  /\ ExecuteStep(c, "looked")
  /\ ~hit[c] /\ ~Dirty(Cur(c))
  /\ PostWriteback(c)
  /\ UNCHANGED <<localVars, stats, done>>

(* wait(default_event) between two attempts; the next wait is for a        *)
(* falling edge, which gives an invalidation time to arrive.               *)
InvalidateWait(c) ==
  \E l \in {<<"invWait", "invNeg">>, <<"upWait", "upNeg">>} :
    /\ ExecuteStep(c, l[1])
    /\ GoTo(c, l[2])
    /\ UNCHANGED <<localVars, line, stats, done, busVars>>

(* On the falling edge: the copy is gone and everything starts again, or   *)
(* another attempt is made (a read hit succeeds).                          *)
Invalidated(c) ==
  \E l \in {<<"invNeg", "recheck">>, <<"readNeg", "recheck">>, <<"upNeg", "refill">>} :
    /\ ExecuteStep(c, l[1])
    /\ ~Valid(Cur(c))
    /\ GoTo(c, l[2])
    /\ UNCHANGED <<localVars, line, stats, done, busVars>>

RetryInvalidate(c) ==
  \E l \in {<<"invNeg", "invDrive", "invWait">>, <<"upNeg", "upDrive", "upWait">>} :
    /\ ExecuteStep(c, l[1])
    /\ Valid(Cur(c))
    /\ TryInvalidate(BusNow, c, l[2], l[3])
    /\ UNCHANGED <<localVars, line, stats, done>>

ReadHit(c) ==
  /\ ExecuteStep(c, "readNeg")
  /\ Valid(Cur(c))
  /\ Finish(c, "readhit")
  /\ UNCHANGED <<localVars, line, busVars>>

Recheck(c) ==
  /\ ExecuteStep(c, "recheck")
  /\ Lookup(c, req[c])
  /\ UNCHANGED <<req, res, stats, done, busVars>>

(* The INVALIDATE was on the bus: the copy becomes modified, whatever      *)
(* happened to it meanwhile.                                               *)
WriteDone(c) ==
  \E l \in {<<"invDrive", "writehit">>, <<"upDrive", "writemiss">>} :
    /\ ExecuteStep(c, l[1])
    /\ BusBecomes(Released(CacheP(c)))
    /\ CurState(c, "MODIFIED")
    /\ Finish(c, l[2])
    /\ UNCHANGED localVars

(* The victim may have been invalidated while the bus was busy.            *)
RetryWriteBack(c) ==
  /\ ExecuteStep(c, "wbWait")
  /\ \/ Dirty(Cur(c)) /\ TryWriteBack(c) /\ UNCHANGED line
     \/ ~Dirty(Cur(c)) /\ PostWriteback(c)
  /\ UNCHANGED <<localVars, stats, done>>

(* Mutant: the answer to the write-back is not awaited.                    *)
WriteBackUnawaited(c) ==
  /\ ExecuteStep(c, "wbDrive")
  /\ BusBecomes(Released(CacheP(c)))
  /\ CurState(c, "REQUESTED")
  /\ GoTo(c, "fillWait")
  /\ UNCHANGED <<localVars, stats, done>>

(* The WRITE was on the bus.                                               *)
WriteBackSent(c) ==
  /\ ExecuteStep(c, "wbDrive")
  /\ BusBecomes(Released(CacheP(c)))
  /\ GoTo(c, "wbAnswer")
  /\ UNCHANGED <<localVars, line, stats, done>>

(* wait_for_response for the write-back; its result is not used, and only  *)
(* a RESPONSE ends it.                                                     *)
WriteBackAnswered(c) ==
  /\ ExecuteStep(c, "wbAnswer")
  /\ wires.func = "RESPONSE"
  /\ PostWriteback(c)
  /\ UNCHANGED <<localVars, stats, done>>

RetryRead(c) ==
  \/ /\ ExecuteStep(c, "fillWait")
     /\ TryRead(c)
     /\ UNCHANGED <<localVars, line, stats, done>>
  \/ /\ ExecuteStep(c, "refill")
     /\ PostWriteback(c)
     /\ UNCHANGED <<localVars, stats, done>>

(* The READ was on the bus.  If the line is still marked the answer is     *)
(* awaited; if the snooper changed its state, that state is kept.          *)
ReadSent(c) ==
  /\ ExecuteStep(c, "fillDrive")
  /\ \/ /\ Cur(c).state = "REQUESTED"
        /\ BusBecomes(Released(CacheP(c)))
        /\ GoTo(c, "fillAnswer")
        /\ UNCHANGED <<line, stats, done>>
     \/ /\ Cur(c).state # "REQUESTED"
        /\ Fill(Released(CacheP(c)), c, Cur(c).state)
  /\ UNCHANGED localVars

(* wait_for_response for the read.  REQUESTED: somebody else reads the     *)
(* line too.                                                               *)
ReadContended(c) ==
  /\ ExecuteStep(c, "fillAnswer")
  /\ wires.func = "REQUESTED"
  /\ res' = [res EXCEPT ![c] = "SHARED"]
  /\ UNCHANGED <<cpc, req, hit, way, line, stats, done, busVars>>

ReadAnswered(c) ==
  /\ ExecuteStep(c, "fillAnswer")
  /\ wires.func = "RESPONSE"
  /\ Fill(BusNow, c, IF wires.src # "DRAM" THEN "SHARED" ELSE res[c])
  /\ res' = [res EXCEPT ![c] = "EXCLUSIVE"]
  /\ UNCHANGED <<req, hit, way>>

(* End of the loop body: its local variables are gone.                     *)
Done(c) ==
  /\ ExecuteStep(c, "done")
  /\ GoTo(c, "idle")
  /\ req' = [req EXCEPT ![c] = NoRequest]
  /\ hit' = [hit EXCEPT ![c] = FALSE]
  /\ way' = [way EXCEPT ![c] = 1]
  /\ UNCHANGED <<res, line, stats, done, busVars>>

Execute(c) ==
  \/ Accept(c) \/ HitWrite(c) \/ HitRead(c) \/ MissDirty(c) \/ MissClean(c)
  \/ InvalidateWait(c) \/ Invalidated(c) \/ RetryInvalidate(c) \/ ReadHit(c)
  \/ Recheck(c) \/ WriteDone(c) \/ RetryWriteBack(c) \/ WriteBackSent(c)
  \/ WriteBackAnswered(c) \/ RetryRead(c) \/ ReadSent(c) \/ ReadContended(c)
  \/ ReadAnswered(c) \/ Done(c)

-----------------------------------------------------------------------------
(* snooping(): wait_for_any let the message on the wires through.          *)

Snooped(c) == Matches(line[c][wires.addr.set], wires.addr.tag)
SnoopedWay(c) == Max(Snooped(c))

SnoopState(c, s) ==
  line' = [line EXCEPT ![c][wires.addr.set][SnoopedWay(c)].state = s]

SnoopStep(c, spawned) ==
  /\ Spawning(SnoopP(c), "delta", spawned)
  /\ UNCHANGED <<drv, owner, intended, c2c_intended, cpc, localVars, stats, portVars>>

SnoopMiss(c) ==
  /\ SnoopStep(c, {})
  /\ Snooped(c) = {}
  /\ UNCHANGED <<line, c2c>>

SnoopInvalidate(c) ==
  /\ SnoopStep(c, {})
  /\ Snooped(c) # {}
  /\ wires.func \in {"WRITE", "INVALIDATE"}
  /\ SnoopState(c, "INVALID")
  /\ UNCHANGED c2c

(* A thread is spawned to answer a READ; it runs in this delta cycle.      *)
SnoopRead(c) ==
  /\ wires.func = "READ"
  /\ \E j \in Slots :
       /\ c2c[<<c, j>>] = NoThread
       /\ \A i \in Slots : c2c[<<c, i>>] = NoThread => j <= i
       /\ SnoopStep(c, {C2CP(<<c, j>>)})
       /\ Snooped(c) # {}
       /\ c2c' = [c2c EXCEPT ![<<c, j>>] =
                    [pc |-> "start", id |-> wires.id, addr |-> wires.addr,
                     way |-> SnoopedWay(c)]]
       /\ IF line[c][wires.addr.set][SnoopedWay(c)].state = "REQUESTED"
          THEN SnoopState(c, "SHARED")
          ELSE UNCHANGED line

Snoop(c) == SnoopMiss(c) \/ SnoopInvalidate(c) \/ SnoopRead(c)

-----------------------------------------------------------------------------
(* Bus::cache_to_cache, in the thread t = <<c, j>> spawned by cache c.     *)

C2CLine(t) == line[t[1]][c2c[t].addr.set][c2c[t].way]

C2CMsg(t) == [func |-> IF C2CLine(t).state = "REQUESTED" THEN "REQUESTED"
                                                         ELSE "RESPONSE",
              id   |-> c2c[t].id, addr |-> c2c[t].addr, src |-> t[1]]

(* *clstate, when the answer goes out.                                     *)
AfterAnswer(s) == CASE s = "MODIFIED"  -> "OWNED"
                    [] s = "EXCLUSIVE" -> "SHARED"
                    [] OTHER           -> s

C2CStep(t, ph, l) ==
  /\ Step(C2CP(t), ph)
  /\ c2c[t] # NoThread
  /\ c2c[t].pc = l
  /\ UNCHANGED <<intended, cpc, localVars, stats, portVars>>

(* Mutant: the answer is driven without waiting for the mutex.             *)
C2CTryLockBlind(t) ==
  /\ BusBecomes(Driven(BusNow, C2CP(t), C2CMsg(t)))
  /\ line' = [line EXCEPT ![t[1]][c2c[t].addr.set][c2c[t].way].state =
                AfterAnswer(@)]
  /\ c2c' = [c2c EXCEPT ![t].pc = "driving"]

(* The loop on try_lock, and the answer.                                   *)
C2CTryLock(t) ==
  \/ /\ Free(BusNow)
     /\ BusBecomes(Driven(BusNow, C2CP(t), C2CMsg(t)))
     /\ line' = [line EXCEPT ![t[1]][c2c[t].addr.set][c2c[t].way].state =
                   AfterAnswer(@)]
     /\ c2c' = [c2c EXCEPT ![t].pc = "driving"]
  \/ /\ ~Free(BusNow)
     /\ c2c' = [c2c EXCEPT ![t].pc = "lock"]
     /\ UNCHANGED <<line, busVars>>

C2CStart(t) ==
  /\ C2CStep(t, "delta", "start")
  /\ c2c_intended' = TRUE
  /\ C2CTryLock(t)

C2CLock(t) ==
  /\ C2CStep(t, "edge", "lock")
  /\ C2CTryLock(t)
  /\ UNCHANGED c2c_intended

(* Mutant: the flag is not lowered.                                        *)
C2CEndKeepsFlag(t) ==
  /\ C2CStep(t, "edge", "driving")
  /\ BusBecomes(Released(C2CP(t)))
  /\ c2c' = [c2c EXCEPT ![t] = NoThread]
  /\ UNCHANGED <<line, c2c_intended>>

C2CEnd(t) ==
  /\ C2CStep(t, "edge", "driving")
  /\ BusBecomes(Released(C2CP(t)))
  /\ c2c_intended' = FALSE
  /\ c2c' = [c2c EXCEPT ![t] = NoThread]
  /\ UNCHANGED line

CacheToCache(t) == C2CStart(t) \/ C2CLock(t) \/ C2CEnd(t)

-----------------------------------------------------------------------------
CacheInit ==
  /\ line = [c \in CPUs |-> [s \in Sets |-> [w \in WaySet |->
              [state |-> "INVALID", tag |-> 0, counter |-> 0]]]]
  /\ cpc = [c \in CPUs |-> "idle"]
  /\ req = [c \in CPUs |-> NoRequest]
  /\ hit = [c \in CPUs |-> FALSE]
  /\ way = [c \in CPUs |-> 1]
  /\ res = [c \in CPUs |-> "EXCLUSIVE"]
  /\ c2c = [t \in Threads |-> NoThread]
  /\ stats = [c \in CPUs |-> [k \in StatKinds |-> 0]]
  /\ func = [c \in CPUs |-> NoRequest]
  /\ done = {}

CacheTypeOK ==
  /\ line \in [CPUs -> [Sets -> [WaySet -> Line]]]
  /\ cpc \in [CPUs -> Labels]
  /\ req \in [CPUs -> CpuRequest \cup {NoRequest}]
  /\ hit \in [CPUs -> BOOLEAN]
  /\ way \in [CPUs -> WaySet]
  /\ res \in [CPUs -> {"EXCLUSIVE", "SHARED"}]
  /\ c2c \in [Threads -> Thread \cup {NoThread}]
  /\ stats \in [CPUs -> [StatKinds -> Nat]]
  /\ func \in [CPUs -> CpuRequest \cup {NoRequest}]
  /\ done \subseteq CPUs
  /\ \A c \in CPUs : cpc[c] # "idle" => req[c] \in CpuRequest
=============================================================================

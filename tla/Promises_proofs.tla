--------------------------- MODULE Promises_proofs ---------------------------
(***************************************************************************)
(* What the parts of the simulator promise to each other: the cache to its *)
(* processor, the memory controller to the caches.  Proofs for every       *)
(* number of processors, sets, ways, tags, transfer threads, latencies and *)
(* trace lengths, on top of the types and the arbitration of PSA_proofs.   *)
(***************************************************************************)
EXTENDS PSA_proofs, SequenceTheorems

-----------------------------------------------------------------------------
(* The handshake between a processor and its cache.                        *)

Hand(c) ==
  /\ func[c] # NoRequest =>
       /\ ppc[c] \in {"write", "wait"} /\ c \notin done
       /\ phase = "edge"  => cpc[c] = "idle" \/ (cpc[c] = "done" /\ CacheP(c) \in run)
       /\ phase = "delta" => cpc[c] = "looked" \/ (cpc[c] = "idle" /\ CacheP(c) \in run)
  /\ c \in done =>
       /\ cpc[c] = "done" /\ ppc[c] \in {"wait", "fetch"}
       /\ phase # "delta" => ppc[c] = "wait" /\ CacheP(c) \notin run
       /\ phase = "delta" /\ ppc[c] = "wait" => CpuP(c) \in run
  /\ ppc[c] = "write" /\ func[c] = NoRequest =>
       /\ phase = "edge" /\ CpuP(c) \in run
       /\ cpc[c] \notin {"idle", "done"}
       /\ CacheP(c) \in run => cpc[c] = "looked"
  /\ ppc[c] = "wait" /\ func[c] = NoRequest /\ c \notin done =>
       cpc[c] \notin {"idle", "done"}
  /\ ppc[c] \in {"fetch", "end"} =>
       /\ cpc[c] \in {"idle", "done"}
       /\ cpc[c] = "done" => c \in done \/ (phase = "edge" /\ CacheP(c) \in run)
  /\ CpuP(c) \in run /\ phase = "delta" => c \in done
  /\ c \in ended => ppc[c] \in {"fetch", "end"}

(* The simulation is stopped by a processor, when all traces have ended.   *)
HandInv ==
  /\ \A c \in CPUs : Hand(c)
  /\ stopped => Eof
  /\ phase = "stop" => stopped

(* What a step of execute() means to the processor: the request is taken,  *)
(* served, completed, and the cache is ready for the next.                 *)
Accepting(c) == /\ phase = "delta" /\ cpc[c] = "idle" /\ cpc'[c] = "looked"
                /\ UNCHANGED <<done, stats>>
Serves(c)    == /\ phase = "edge" /\ cpc[c] \notin {"idle", "done"}
                /\ cpc'[c] \notin {"idle", "done"}
                /\ UNCHANGED <<done, stats>>
Completing(c) == /\ phase = "edge" /\ cpc[c] \notin {"idle", "looked", "done"}
                 /\ cpc'[c] = "done" /\ done' = done \cup {c}
                 /\ \E k \in StatKinds : stats' = [stats EXCEPT ![c][k] = @ + 1]
Returning(c) == /\ phase = "edge" /\ cpc[c] = "done" /\ cpc'[c] = "idle"
                /\ UNCHANGED <<done, stats>>

Progresses(c) == Accepting(c) \/ Serves(c) \/ Completing(c) \/ Returning(c)

LEMMA FillProgress ==
  ASSUME TypeOK, NEW c \in CPUs, phase = "edge", cpc[c] \notin {"idle", "looked", "done"},
         NEW b, NEW s, Fill(b, c, s)
  PROVE  Progresses(c)
<1>a. cpc \in [CPUs -> Labels]
  BY DEF TypeOK, CacheTypeOK
<1>1. \A k \in StatKinds : Finish(c, k) => Completing(c)
  BY <1>a DEF Finish, GoTo, Completing
<1>2. TryInvalidate(b, c, "upDrive", "upWait") /\ UNCHANGED <<stats, done>> => Serves(c)
  BY <1>a DEF TryInvalidate, GoTo, Serves
<1> QED BY <1>1, <1>2 DEF Fill, Progresses, StatKinds

LEMMA ExecuteProgress ==
  ASSUME TypeOK, NEW c \in CPUs, Execute(c)
  PROVE  Progresses(c)
<1>a. cpc \in [CPUs -> Labels]
  BY DEF TypeOK, CacheTypeOK
<1>b. \A l : GoTo(c, l) => cpc'[c] = l
  BY <1>a DEF GoTo
<1>c. \A k \in StatKinds : Finish(c, k) /\ phase = "edge"
        /\ cpc[c] \notin {"idle", "looked", "done"} => Completing(c)
  BY <1>a DEF Finish, GoTo, Completing
<1>d. /\ \A b, d, w : TryInvalidate(b, c, d, w) => cpc'[c] \in {d, w}
      /\ TryWriteBack(c) => cpc'[c] \in {"wbDrive", "wbWait"}
      /\ TryRead(c) => cpc'[c] \in {"fillDrive", "fillWait"}
      /\ PostWriteback(c) => cpc'[c] \in {"fillDrive", "fillWait"}
  BY <1>b DEF TryInvalidate, TryWriteBack, TryRead, PostWriteback
<1>g. \A l : ExecuteStep(c, l) => cpc[c] = l /\ phase = "edge"
  BY Unidle
<1>1. CASE Accept(c)
  BY <1>1, <1>b DEF Accept, Step, Spawning, Lookup, Accepting, Progresses
<1>2. CASE HitWrite(c) \/ HitRead(c) \/ MissDirty(c) \/ MissClean(c)
  BY <1>2, <1>b, <1>d, <1>g
     DEF HitWrite, HitRead, MissDirty, MissClean, Serves, Progresses
<1>3. CASE InvalidateWait(c) \/ Invalidated(c)
  BY <1>3, <1>b, <1>g DEF InvalidateWait, Invalidated, Serves, Progresses
<1>4. CASE RetryInvalidate(c)
  BY <1>4, <1>d, <1>g DEF RetryInvalidate, Serves, Progresses
<1>5. CASE ReadHit(c)
  BY <1>5, <1>c, <1>g DEF ReadHit, Progresses, StatKinds
<1>6. CASE WriteDone(c)
  <2>1. PICK l \in {<<"invDrive", "writehit">>, <<"upDrive", "writemiss">>} :
          ExecuteStep(c, l[1]) /\ Finish(c, l[2])
    BY <1>6 DEF WriteDone
  <2>2. l[2] \in StatKinds /\ l[1] \notin {"idle", "looked", "done"}
    BY DEF StatKinds
  <2> QED BY <1>c, <1>g, <2>1, <2>2 DEF Progresses
<1>7. CASE Recheck(c) \/ RetryWriteBack(c) \/ WriteBackSent(c) \/ WriteBackAnswered(c)
           \/ RetryRead(c) \/ ReadContended(c)
  BY <1>7, <1>b, <1>d, <1>g
     DEF Recheck, Lookup, RetryWriteBack, WriteBackSent, WriteBackAnswered, RetryRead,
         ReadContended, Serves, Progresses
<1>8. CASE ReadSent(c)
  <2>1. ExecuteStep(c, "fillDrive") /\ cpc[c] = "fillDrive" /\ phase = "edge"
    BY <1>8, <1>g DEF ReadSent
  <2>2. CASE GoTo(c, "fillAnswer") /\ UNCHANGED <<stats, done>>
    BY <1>b, <2>1, <2>2 DEF Serves, Progresses
  <2>3. CASE Fill(Released(CacheP(c)), c, Cur(c).state)
    BY <2>1, <2>3, FillProgress
  <2> QED BY <1>8, <2>2, <2>3 DEF ReadSent
<1>9. CASE ReadAnswered(c)
  <2>1. PICK s : ExecuteStep(c, "fillAnswer") /\ Fill(BusNow, c, s)
    BY <1>9 DEF ReadAnswered
  <2> QED BY <1>g, <2>1, FillProgress
<1>10. CASE Done(c)
  BY <1>10, <1>b, <1>g DEF Done, Returning, Progresses
<1> QED BY <1>1, <1>2, <1>3, <1>4, <1>5, <1>6, <1>7, <1>8, <1>9, <1>10 DEF Execute

LEMMA ExecuteRan ==
  ASSUME NEW c \in CPUs, Execute(c)
  PROVE  /\ CacheP(c) \in run /\ run' = run \ {CacheP(c)}
         /\ UNCHANGED <<clk, phase, wires, c2c, func>>
BY DEF Execute, ExecuteStep, Step, Spawning, Accept, HitWrite, HitRead, MissDirty,
   MissClean, InvalidateWait, Invalidated, RetryInvalidate, ReadHit, Recheck, WriteDone,
   RetryWriteBack, WriteBackSent, WriteBackAnswered, RetryRead, ReadSent,
   ReadContended, ReadAnswered, Done

LEMMA ExecuteHand ==
  ASSUME IInv, HandInv, NEW c \in CPUs, Execute(c), UNCHANGED cpuVars
  PROVE  HandInv'
<1>1. /\ CacheP(c) \in run /\ run' = run \ {CacheP(c)} /\ UNCHANGED <<phase, func>>
      /\ UNCHANGED <<ppc, ended, stopped>>
  BY ExecuteRan DEF cpuVars
<1>2. \A d \in CPUs \ {c} : cpc'[d] = cpc[d]
  BY ExecuteMoves
<1>3. Progresses(c) /\ done \subseteq CPUs
  BY ExecuteProgress DEF IInv, TypeOK, CacheTypeOK
<1>4. phase = "delta" => func[c] # NoRequest
  BY <1>1 DEF IInv, RunInv
<1>5. /\ \A d \in CPUs : CpuP(d) \in run' <=> CpuP(d) \in run
      /\ \A d \in CPUs \ {c} : CacheP(d) \in run' <=> CacheP(d) \in run
      /\ CacheP(c) \notin run'
  <2>1. \A p : p # CacheP(c) => (p \in run' <=> p \in run)
    BY <1>1
  <2>2. \A d \in CPUs : CpuP(d) # CacheP(c) /\ (d # c => CacheP(d) # CacheP(c))
    BY DEF CpuP, CacheP
  <2>3. CacheP(c) \notin run'
    BY <1>1
  <2> QED BY <2>1, <2>2, <2>3
<1>6. \A d \in CPUs \ {c} : d \in done' <=> d \in done
  BY <1>3 DEF Progresses, Accepting, Serves, Completing, Returning
<1>7. ASSUME NEW d \in CPUs, d # c PROVE Hand(d)'
  <2>1. /\ Hand(d) /\ cpc'[d] = cpc[d] /\ (d \in done' <=> d \in done)
        /\ CpuP(d) \in run' <=> CpuP(d) \in run
        /\ CacheP(d) \in run' <=> CacheP(d) \in run
    <3>1. d \in CPUs \ {c}
      BY <1>7
    <3> QED BY <1>2, <1>5, <1>6, <3>1 DEF HandInv
  <2> QED BY <1>1, <2>1 DEF Hand
<1>8. Hand(c)'
  <2>1. Hand(c)
    BY DEF HandInv
  <2>2. CASE Accepting(c)
    BY <1>1, <1>4, <1>5, <2>1, <2>2 DEF Hand, Accepting
  <2>3. CASE Serves(c)
    BY <1>1, <1>5, <2>1, <2>3 DEF Hand, Serves
  <2>4. CASE Completing(c)
    <3>1. /\ phase = "edge" /\ cpc[c] \notin {"idle", "looked", "done"}
          /\ cpc'[c] = "done" /\ c \in done'
      BY <2>4 DEF Completing
    <3>2. func[c] = NoRequest /\ ppc[c] = "wait"
      BY <1>1, <2>1, <3>1 DEF Hand, IInv, TypeOK, CpuTypeOK, CpuLabels
    <3> QED BY <1>1, <1>5, <2>1, <3>1, <3>2 DEF Hand
  <2>5. CASE Returning(c)
    BY <1>1, <1>5, <2>1, <2>5 DEF Hand, Returning
  <2> QED BY <1>3, <2>2, <2>3, <2>4, <2>5 DEF Progresses
<1> QED BY <1>1, <1>7, <1>8 DEF HandInv, Eof

(* The other processes have no part in it.                                 *)
OutsideHand == /\ UNCHANGED <<phase, func, ppc, cpc, done, stats, ended, stopped>>
               /\ \A c \in CPUs : /\ CacheP(c) \in run' <=> CacheP(c) \in run
                                  /\ CpuP(c) \in run' <=> CpuP(c) \in run

LEMMA OutsideHandKeeps ==
  ASSUME HandInv, OutsideHand
  PROVE  HandInv'
BY DEF HandInv, OutsideHand, Hand, Eof

LEMMA OthersOutside ==
  ASSUME \/ SnoopNext \/ C2CNext \/ MemNext
         \/ UNCHANGED vars
  PROVE  OutsideHand
<1> USE DEF portVars, cpuVars, cacheVars, memVars
<1>1. CASE SnoopNext
  <2>1. PICK c \in CPUs : Snoop(c) /\ UNCHANGED cpuVars
    BY <1>1 DEF SnoopNext
  <2>2. PICK sp : SnoopStep(c, sp) /\ (sp = {} \/ \E t \in Threads : sp = {C2CP(t)})
    BY <2>1 DEF Snoop, SnoopMiss, SnoopInvalidate, SnoopRead, Threads
  <2>3. run' = (run \ {SnoopP(c)}) \cup sp /\ UNCHANGED <<phase, func, cpc, done, stats>>
    BY <2>2 DEF SnoopStep, Spawning
  <2> QED BY <2>1, <2>2, <2>3, ProcNames DEF OutsideHand
<1>2. CASE C2CNext
  <2>1. PICK t \in Threads : CacheToCache(t) /\ UNCHANGED cpuVars
    BY <1>2 DEF C2CNext
  <2>2. run' = run \ {C2CP(t)} /\ UNCHANGED <<phase, func, cpc, done, stats>>
    BY <2>1 DEF CacheToCache, C2CStart, C2CLock, C2CEnd, C2CStep, Step, Spawning
  <2> QED BY <2>1, <2>2, ProcNames DEF OutsideHand
<1>3. CASE MemNext
  <2>1. \E p \in {MemP, MemSnoopP} : run' = run \ {p} /\ UNCHANGED phase
    BY <1>3 DEF MemNext, MemExecute, MemSnoop, MemWake, MemFetch, MemDelay, MemC2C,
                MemLock, MemRelease, Step, Spawning
  <2>2. \A c \in CPUs : CacheP(c) \notin {MemP, MemSnoopP} /\ CpuP(c) \notin {MemP, MemSnoopP}
    BY DEF CacheP, CpuP, MemP, MemSnoopP
  <2> QED BY <1>3, <2>1, <2>2 DEF OutsideHand, MemNext
<1>4. CASE UNCHANGED vars
  BY <1>4 DEF vars, OutsideHand, kernelVars
<1> QED BY <1>1, <1>2, <1>3, <1>4

LEMMA CpuHand ==
  ASSUME IInv, HandInv, NEW c \in CPUs, Cpu(c)
  PROVE  HandInv'
<1> USE DEF cpuVars, localVars
<1>1. /\ run' = run \ {CpuP(c)} /\ CpuP(c) \in run /\ UNCHANGED <<phase, cpc, done>>
      /\ phase = "edge" \/ CpuDone(c)
  BY DEF Cpu, CpuStep, CpuIssue, CpuNop, CpuTraceEnd, CpuStop, CpuWriteSent, CpuDone,
         Step, Spawning
<1>2. /\ \A d \in CPUs : /\ CacheP(d) \in run' <=> CacheP(d) \in run
                         /\ d # c => (CpuP(d) \in run' <=> CpuP(d) \in run)
      /\ CpuP(c) \notin run'
  <2>1. \A d \in CPUs : CacheP(d) # CpuP(c) /\ (d # c => CpuP(d) # CpuP(c))
    BY DEF CpuP, CacheP
  <2> QED BY <1>1, <2>1
<1>3. /\ func \in [CPUs -> CpuRequest \cup {NoRequest}] /\ ppc \in [CPUs -> CpuLabels]
      /\ ended \subseteq CPUs /\ \A r \in CpuRequest : r # NoRequest
  BY DEF IInv, TypeOK, CacheTypeOK, CpuTypeOK, CpuRequest, NoRequest
<1>4. \A d \in CPUs : Hand(d)
  BY DEF HandInv
<1>5. ASSUME NEW d \in CPUs, d # c PROVE Hand(d)'
  <2>1. ppc'[d] = ppc[d] /\ func'[d] = func[d] /\ (d \in ended' <=> d \in ended)
    BY <1>3, <1>5 DEF Cpu, CpuIssue, CpuNop, CpuTraceEnd, CpuStop, CpuWriteSent, CpuDone
  <2> QED BY <1>1, <1>2, <1>4, <1>5, <2>1 DEF Hand
<1>6. Hand(c)'
  <2>1. Hand(c)
    BY <1>4
  <2>2. CASE CpuIssue(c)
    <3>1. /\ ppc[c] = "fetch" /\ c \notin ended /\ phase = "edge"
          /\ func'[c] # NoRequest /\ ppc'[c] \in {"write", "wait"} /\ UNCHANGED ended
      BY <1>3, <2>2 DEF CpuIssue, CpuStep, Step, Spawning
    <3> QED BY <1>1, <1>2, <2>1, <3>1 DEF Hand
  <2>3. CASE CpuNop(c)
    <3>1. ppc[c] = "fetch" /\ phase = "edge" /\ UNCHANGED <<func, ppc, ended>>
      BY <2>3 DEF CpuNop, CpuStep, Step, Spawning
    <3> QED BY <1>1, <1>2, <2>1, <3>1 DEF Hand
  <2>4. CASE CpuTraceEnd(c)
    <3>1. ppc[c] = "fetch" /\ phase = "edge" /\ UNCHANGED <<func, ppc>>
      BY <2>4 DEF CpuTraceEnd, CpuStep, Step, Spawning
    <3> QED BY <1>1, <1>2, <2>1, <3>1 DEF Hand
  <2>5. CASE CpuStop(c)
    <3>1. /\ ppc[c] = "fetch" /\ phase = "edge" /\ ppc'[c] = "end"
          /\ UNCHANGED <<func, ended>>
      BY <1>3, <2>5 DEF CpuStop, CpuStep, Step, Spawning
    <3> QED BY <1>1, <1>2, <2>1, <3>1 DEF Hand
  <2>6. CASE CpuWriteSent(c)
    <3>1. /\ ppc[c] = "write" /\ phase = "edge" /\ ppc'[c] = "wait"
          /\ UNCHANGED <<func, ended>>
      BY <1>3, <2>6 DEF CpuWriteSent, CpuStep, Step, Spawning
    <3> QED BY <1>1, <1>2, <2>1, <3>1 DEF Hand
  <2>7. CASE CpuDone(c)
    <3>1. /\ ppc[c] = "wait" /\ phase = "delta" /\ ppc'[c] = "fetch"
          /\ UNCHANGED <<func, ended>>
      BY <1>3, <2>7 DEF CpuDone, CpuStep, Step, Spawning
    <3> QED BY <1>1, <1>2, <2>1, <3>1 DEF Hand
  <2> QED BY <2>2, <2>3, <2>4, <2>5, <2>6, <2>7 DEF Cpu
<1>7. (stopped' => Eof') /\ (phase' = "stop" => stopped')
  BY <1>1, <1>3 DEF HandInv, Eof, Cpu, CpuIssue, CpuNop, CpuTraceEnd, CpuStop,
                    CpuWriteSent, CpuDone
<1> QED BY <1>5, <1>6, <1>7 DEF HandInv

LEMMA KernelHand ==
  ASSUME IInv, HandInv, KernelUpdate \/ KernelTick
  PROVE  HandInv'
<1> USE DEF cpuVars, cacheVars
<1>a. /\ \A c \in CPUs : Hand(c)
      /\ done \subseteq CPUs /\ cpc \in [CPUs -> Labels]
  BY DEF HandInv, IInv, TypeOK, CacheTypeOK
<1>1. CASE KernelUpdate
  <2>1. /\ phase = "edge" /\ run = {} /\ UNCHANGED <<cacheVars, cpuVars>>
        /\ \/ stopped /\ phase' = "stop" /\ run' = {}
           \/ phase' = "delta" /\ run' = AtDelta(Resolve(drv))
    BY <1>1 DEF KernelUpdate, Update
  <2>2. ASSUME NEW c \in CPUs, phase' = "delta"
        PROVE  /\ func[c] # NoRequest /\ cpc[c] = "idle" => CacheP(c) \in run'
               /\ CpuP(c) \in run' <=> c \in done /\ ppc[c] = "wait"
    <3>1. run' = AtDelta(Resolve(drv))
      BY <2>1, <2>2
    <3>2. \A x, y : /\ CacheP(x) # CpuP(y) /\ SnoopP(x) # CpuP(y) /\ MemP # CpuP(y)
                    /\ CpuP(x) = CpuP(y) => x = y
      BY DEF CacheP, CpuP, SnoopP, MemP
    <3>3. func[c] # NoRequest /\ cpc[c] = "idle" => CacheP(c) \in run'
      BY <3>1 DEF AtDelta
    <3>4. c \in done /\ ppc[c] = "wait" => CpuP(c) \in run'
      BY <3>1 DEF AtDelta
    <3>5. CpuP(c) \in run' => c \in done /\ ppc[c] = "wait"
      <4>1. SUFFICES ASSUME CpuP(c) \in run' PROVE c \in done /\ ppc[c] = "wait"
        OBVIOUS
      <4>2. \/ CpuP(c) \in {CacheP(d) : d \in {e \in CPUs : func[e] # NoRequest /\ cpc[e] = "idle"}}
            \/ CpuP(c) \in {CpuP(d) : d \in {e \in done : ppc[e] = "wait"}}
            \/ CpuP(c) \in {SnoopP(d) : d \in {e \in CPUs : SnoopedBy(Resolve(drv), e)}}
            \/ CpuP(c) = MemP
        BY <3>1, <4>1, Zenon DEF AtDelta
      <4> QED BY <3>2, <4>2
    <3> QED BY <3>3, <3>4, <3>5
  <2>3. ASSUME NEW c \in CPUs PROVE Hand(c)'
    <3>1. Hand(c)
      BY <1>a
    <3>2. CASE phase' = "delta"
      BY <2>1, <2>2, <3>1, <3>2 DEF Hand
    <3>3. CASE phase' = "stop"
      BY <2>1, <3>1, <3>3 DEF Hand
    <3> QED BY <2>1, <3>2, <3>3
  <2> QED BY <2>1, <2>3 DEF HandInv, Eof
<1>2. CASE KernelTick
  <2>1. /\ phase = "delta" /\ run = {} /\ phase' = "edge"
        /\ UNCHANGED <<cpc, ppc, ended, stopped>>
        /\ done' = {} /\ func' = [c \in CPUs |-> NoRequest]
        /\ run' = AtClock(~clk, Resolve(drv))
    BY <1>2 DEF KernelTick, Tick
  <2>2. ASSUME NEW c \in CPUs
        PROVE  /\ ppc[c] \in {"fetch", "write"} => CpuP(c) \in run'
               /\ cpc[c] \in ClockLabels => CacheP(c) \in run'
    BY <2>1 DEF AtClock, CpusAtClock, CachesAtClock
  <2>3. ASSUME NEW c \in CPUs PROVE Hand(c)'
    <3>1. Hand(c)
      BY <1>a
    <3> QED BY <2>1, <2>2, <3>1 DEF Hand, ClockLabels
  <2> QED BY <2>1, <2>3 DEF HandInv, Eof
<1> QED BY <1>1, <1>2

LEMMA HandInit ==
  ASSUME Init
  PROVE  HandInv
BY ProcNames DEF Init, BusInit, CacheInit, CpuInit, HandInv, Hand

LEMMA HandStep ==
  ASSUME IInv, HandInv, [Next]_vars
  PROVE  HandInv'
<1>1. CASE CpuNext
  BY <1>1, CpuHand DEF CpuNext
<1>2. CASE CacheNext
  BY <1>2, ExecuteHand DEF CacheNext
<1>3. CASE SnoopNext \/ C2CNext \/ MemNext \/ UNCHANGED vars
  BY <1>3, OthersOutside, OutsideHandKeeps
<1>4. CASE KernelUpdate \/ KernelTick
  BY <1>4, KernelHand
<1> QED BY <1>1, <1>2, <1>3, <1>4 DEF Next, Finished

(* In every reachable state a processor and its cache agree on how far the *)
(* operation between them is: handed over, in service, reported or over    *)
(* (CPU.h:51-76, Cache.h:97-110).                                          *)
THEOREM Handshake == Spec => []HandInv
<1>1. IInv /\ HandInv /\ [Next]_vars => HandInv'
  BY HandStep
<1> QED BY Inductive, HandInit, <1>1, PTL DEF Spec

(* No processor misses the completion of its operation, and no cache works *)
(* or reports unasked, whatever the order in which the kernel runs the     *)
(* processes (CPU.h:63-76).                                                *)
THEOREM CompletionSeen == Spec => []NoLostDone
<1>1. HandInv => NoLostDone
  BY DEF HandInv, Hand, NoLostDone
<1> QED BY Handshake, <1>1, PTL

-----------------------------------------------------------------------------
(* The simulator implements CpuPort.                                       *)

Outstanding == {c \in CPUs : ppc[c] \in {"write", "wait"} /\ c \notin done}
CountedBy   == [c \in CPUs |-> Counted(c)]
PortKept    == UNCHANGED <<Outstanding, CountedBy, phase = "stop">>

LEMMA PortStutters ==
  ASSUME PortKept
  PROVE  UNCHANGED Port!portVars
BY DEF PortKept, Outstanding, CountedBy, Port!portVars

(* A completed operation is counted once, under one kind.                  *)
LEMMA CountOne ==
  ASSUME stats \in [CPUs -> [StatKinds -> Nat]], NEW c \in CPUs, NEW k \in StatKinds,
         stats' = [stats EXCEPT ![c][k] = @ + 1]
  PROVE  CountedBy' = [CountedBy EXCEPT ![c] = @ + 1]
<1>1. \A d \in CPUs \ {c} : stats'[d] = stats[d]
  OBVIOUS
<1>2. \A j \in StatKinds : stats'[c][j] = IF j = k THEN stats[c][j] + 1 ELSE stats[c][j]
  OBVIOUS
<1>3. \A j \in StatKinds : stats[c][j] \in Nat
  OBVIOUS
<1>4. Counted(c)' = Counted(c) + 1
  BY <1>2, <1>3 DEF Counted, StatKinds
<1>5. \A d \in CPUs \ {c} : Counted(d)' = Counted(d)
  BY <1>1 DEF Counted
<1> QED BY <1>4, <1>5 DEF CountedBy

LEMMA CpuPortStep ==
  ASSUME IInv, HandInv, NEW c \in CPUs, Cpu(c)
  PROVE  Port!Next \/ PortKept
<1> USE DEF cpuVars, localVars
<1>a. Hand(c) /\ ppc \in [CPUs -> CpuLabels]
  BY DEF HandInv, IInv, TypeOK, CpuTypeOK
<1>1. UNCHANGED <<phase, done, stats>> /\ CountedBy' = CountedBy
  BY DEF Cpu, CpuStep, CpuIssue, CpuNop, CpuTraceEnd, CpuStop, CpuWriteSent, CpuDone,
         Step, Spawning, CountedBy, Counted
<1>2. CASE CpuIssue(c)
  <2>1. /\ ppc[c] = "fetch" /\ phase = "edge"
        /\ \E l \in {"write", "wait"} : ppc' = [ppc EXCEPT ![c] = l]
    BY <1>2 DEF CpuIssue, CpuStep, Step, Spawning
  <2>2. c \notin done
    BY <1>a, <2>1 DEF Hand
  <2>3. c \notin Outstanding /\ Outstanding' = Outstanding \cup {c}
    BY <1>a, <1>1, <2>1, <2>2 DEF Outstanding
  <2> QED BY <1>1, <2>1, <2>3 DEF Port!Next, Port!Issue, Outstanding, CountedBy
<1>3. CASE CpuNop(c) \/ CpuTraceEnd(c)
  <2>1. UNCHANGED ppc
    BY <1>3 DEF CpuNop, CpuTraceEnd
  <2> QED BY <1>1, <2>1 DEF PortKept, Outstanding
<1>4. CASE CpuStop(c)
  <2>1. ppc[c] = "fetch" /\ ppc' = [ppc EXCEPT ![c] = "end"]
    BY <1>4 DEF CpuStop, CpuStep
  <2> QED BY <1>a, <1>1, <2>1 DEF PortKept, Outstanding
<1>5. CASE CpuWriteSent(c)
  <2>1. ppc[c] = "write" /\ ppc' = [ppc EXCEPT ![c] = "wait"]
    BY <1>5 DEF CpuWriteSent, CpuStep
  <2> QED BY <1>a, <1>1, <2>1 DEF PortKept, Outstanding
<1>6. CASE CpuDone(c)
  <2>1. /\ ppc[c] = "wait" /\ ppc' = [ppc EXCEPT ![c] = "fetch"]
        /\ phase = "delta" /\ CpuP(c) \in run
    BY <1>6 DEF CpuDone, CpuStep, Step, Spawning
  <2>2. c \in done
    BY <1>a, <2>1 DEF Hand
  <2> QED BY <1>a, <1>1, <2>1, <2>2 DEF PortKept, Outstanding
<1> QED BY <1>2, <1>3, <1>4, <1>5, <1>6 DEF Cpu

LEMMA ExecutePortStep ==
  ASSUME IInv, HandInv, NEW c \in CPUs, Execute(c), UNCHANGED cpuVars
  PROVE  Port!Next \/ PortKept
<1>1. /\ CacheP(c) \in run /\ UNCHANGED <<phase, ppc, func>> /\ Hand(c) /\ Progresses(c)
      /\ stats \in [CPUs -> [StatKinds -> Nat]] /\ ppc \in [CPUs -> CpuLabels]
  BY ExecuteRan, ExecuteProgress DEF HandInv, IInv, TypeOK, CacheTypeOK, CpuTypeOK, cpuVars
<1>2. CASE UNCHANGED <<done, stats>>
  BY <1>1, <1>2 DEF PortKept, Outstanding, CountedBy, Counted
<1>3. CASE Completing(c)
  <2>1. phase = "edge" /\ cpc[c] \notin {"idle", "looked", "done"} /\ done' = done \cup {c}
    BY <1>3 DEF Completing
  <2>2. ppc[c] = "wait" /\ c \notin done
    BY <1>1, <2>1 DEF Hand, CpuLabels
  <2>3. c \in Outstanding /\ Outstanding' = Outstanding \ {c}
    BY <1>1, <2>1, <2>2 DEF Outstanding
  <2>4. CountedBy' = [CountedBy EXCEPT ![c] = @ + 1]
    BY <1>1, <1>3, CountOne DEF Completing
  <2> QED BY <1>1, <2>3, <2>4 DEF Port!Next, Port!Complete, Outstanding, CountedBy
<1> QED BY <1>1, <1>2, <1>3 DEF Progresses, Accepting, Serves, Returning

LEMMA KernelPortStep ==
  ASSUME IInv, HandInv, KernelUpdate \/ KernelTick
  PROVE  Port!Next \/ PortKept
<1> USE DEF cpuVars, cacheVars
<1>a. \A c \in CPUs : Hand(c)
  BY DEF HandInv
<1>1. UNCHANGED <<ppc, stats>> /\ CountedBy' = CountedBy
  BY DEF KernelUpdate, KernelTick, CountedBy, Counted
<1>2. CASE KernelUpdate
  <2>1. UNCHANGED done /\ phase = "edge" /\ phase' \in {"delta", "stop"}
        /\ (phase' = "stop" => stopped)
    BY <1>2 DEF KernelUpdate, Update
  <2>2. Outstanding' = Outstanding
    BY <1>1, <2>1 DEF Outstanding
  <2>3. CASE phase' = "delta"
    BY <1>1, <2>1, <2>2, <2>3 DEF PortKept
  <2>4. CASE phase' = "stop"
    <3>1. \A c \in CPUs : ppc[c] \in {"fetch", "end"}
      BY <1>a, <2>1, <2>4 DEF HandInv, Hand, Eof
    <3>2. Outstanding = {}
      BY <3>1 DEF Outstanding
    <3> QED BY <1>1, <2>2, <2>4, <3>2 DEF Port!Next, Port!Halt, Outstanding, CountedBy
  <2> QED BY <2>1, <2>3, <2>4
<1>3. CASE KernelTick
  <2>1. phase = "delta" /\ phase' = "edge" /\ run = {} /\ done' = {}
    BY <1>3 DEF KernelTick, Tick
  <2>2. \A c \in CPUs : c \in done => ppc[c] = "fetch"
    BY <1>a, <2>1 DEF Hand
  <2>3. Outstanding' = Outstanding
    BY <1>1, <2>1, <2>2 DEF Outstanding
  <2> QED BY <1>1, <2>1, <2>3 DEF PortKept
<1> QED BY <1>2, <1>3

LEMMA PortStep ==
  ASSUME IInv, HandInv, [Next]_vars
  PROVE  [Port!Next]_Port!portVars
<1>1. CASE CpuNext
  BY <1>1, CpuPortStep, PortStutters DEF CpuNext
<1>2. CASE CacheNext
  BY <1>2, ExecutePortStep, PortStutters DEF CacheNext
<1>3. CASE SnoopNext \/ C2CNext \/ MemNext \/ UNCHANGED vars
  <2>1. PortKept
    BY <1>3, OthersOutside DEF OutsideHand, PortKept, Outstanding, CountedBy, Counted
  <2> QED BY <2>1, PortStutters
<1>4. CASE KernelUpdate \/ KernelTick
  BY <1>4, KernelPortStep, PortStutters
<1> QED BY <1>1, <1>2, <1>3, <1>4 DEF Next, Finished

LEMMA PortInit == Init => Port!Init
<1> SUFFICES ASSUME Init PROVE Port!Init
  OBVIOUS
<1>1. \A c \in CPUs : Counted(c) = 0
  BY DEF Init, CacheInit, Counted, StatKinds
<1> QED BY <1>1 DEF Init, CpuInit, Port!Init

(* The simulator keeps the promise of CpuPort: a processor has one         *)
(* operation outstanding, which is completed and counted once, and the     *)
(* simulation ends only when nothing is outstanding (CPU.h:41-84,          *)
(* Cache.h:97-262, psa.cpp).                                               *)
THEOREM PortImplemented == Spec => PortSpec
<1>1. IInv /\ HandInv /\ [Next]_vars => [Port!Next]_Port!portVars
  BY PortStep
<1> QED BY Inductive, Handshake, PortInit, <1>1, PTL DEF Spec, PortSpec, Port!Spec

-----------------------------------------------------------------------------
(* The memory controller implements MemServer.                             *)

Pending   == IF mpc \in {"delay", "c2c", "lock"} THEN <<mreq>> \o queue ELSE queue
Answering == IF mpc = "driving" THEN mreq ELSE NoReq

LEMMA PushBehind ==
  ASSUME NEW q \in Seq(MemReq), NEW m \in MemReq, NEW r \in MemReq
  PROVE  <<m>> \o Append(q, r) = Append(<<m>> \o q, r)
<1>1. <<m>> \in Seq(MemReq) /\ <<r>> \in Seq(MemReq)
  OBVIOUS
<1>2. (<<m>> \o q) \o <<r>> = <<m>> \o (q \o <<r>>)
  BY <1>1, ConcatAssociative
<1>3. <<m>> \o q \in Seq(MemReq)
  BY <1>1, ConcatProperties
<1> QED BY <1>2, <1>3, AppendIsConcat

LEMMA PutInFront ==
  ASSUME NEW q \in Seq(MemReq), NEW m \in MemReq
  PROVE  /\ <<m>> \o q # << >> /\ Head(<<m>> \o q) = m /\ Tail(<<m>> \o q) = q
         /\ q # << >> => <<Head(q)>> \o Tail(q) = q
OBVIOUS

ServerKept == UNCHANGED <<Pending, Answering>>

LEMMA ServerStutters ==
  ASSUME ServerKept \/ UNCHANGED memVars
  PROVE  UNCHANGED Server!serverVars
BY DEF ServerKept, Pending, Answering, memVars, Server!serverVars

LEMMA NextRequestPending ==
  ASSUME MemTypeOK, mpc \in {"synced", "driving"}, NEW l, NextRequest(l)
  PROVE  Pending' = Pending /\ Answering' = NoReq
<1>1. Pending = queue /\ queue \in Seq(MemReq)
  BY DEF Pending, MemTypeOK
<1>2. CASE queue = << >>
  BY <1>1, <1>2 DEF NextRequest, Pending, Answering
<1>3. CASE queue # << >>
  <2>1. Head(queue) \in MemReq
    BY <1>1, <1>3, QueueOps
  <2> QED BY <1>1, <1>3, <2>1, PutInFront DEF NextRequest, Pending, Answering
<1> QED BY <1>2, <1>3

LEMMA RespondServes ==
  ASSUME MemTypeOK, mpc \in {"delay", "c2c", "lock"}, UNCHANGED <<mreq, queue>>,
         MemTryLock \/ MemRespond
  PROVE  Server!Answer \/ ServerKept
<1>1. /\ Pending = <<mreq>> \o queue /\ Answering = NoReq
      /\ queue \in Seq(MemReq) /\ mreq \in MemReq
  BY DEF Pending, Answering, MemTypeOK, Serving
<1>2. CASE mpc' \in {"c2c", "lock"}
  BY <1>1, <1>2 DEF ServerKept, Pending, Answering
<1>3. CASE mpc' = "driving"
  <2>1. Pending' = queue /\ Answering' = mreq
    BY <1>3 DEF Pending, Answering
  <2> QED BY <1>1, <2>1, PutInFront DEF Server!Answer, Pending, Answering
<1> QED BY <1>2, <1>3 DEF MemTryLock, MemRespond

LEMMA ServerStep ==
  ASSUME IInv, [Next]_vars
  PROVE  [Server!Next]_Server!serverVars
<1>a. MemTypeOK
  BY DEF IInv, TypeOK
<1>1. CASE MemSnoop
  <2>1. wires \in Msg
    BY <1>1 DEF MemSnoop, Step, Spawning, IInv, RunInv, ForMemory, NoMsg, TypeOK, SysCTypeOK
  <2>2. PICK r \in MemReq : queue' = Append(queue, r)
    BY <1>1, <2>1 DEF MemSnoop, MemReq, Msg
  <2>3. UNCHANGED <<mpc, mreq>> /\ queue \in Seq(MemReq)
    BY <1>a, <1>1 DEF MemSnoop, MemTypeOK
  <2>4. Pending' = Append(Pending, r) /\ Answering' = Answering
    BY <1>a, <2>2, <2>3, PushBehind DEF Pending, Answering, MemTypeOK, Serving
  <2> QED BY <2>4 DEF Server!Next, Server!Take, Pending, Answering
<1>2. CASE MemWake
  <2>1. ServerKept
    BY <1>2 DEF MemWake, ServerKept, Pending, Answering
  <2> QED BY <2>1, ServerStutters
<1>3. CASE MemFetch
  <2>1. mpc = "synced" /\ NextRequest(cycles_to_wait)
    BY <1>3 DEF MemFetch
  <2>2. ServerKept
    BY <1>a, <2>1, NextRequestPending DEF ServerKept, Answering
  <2> QED BY <2>2, ServerStutters
<1>4. CASE MemDelay \/ MemC2C \/ MemLock
  <2>1. mpc \in {"delay", "c2c", "lock"} /\ UNCHANGED <<mreq, queue>>
    BY <1>4 DEF MemDelay, MemC2C, MemLock
  <2>2. (MemTryLock \/ MemRespond) \/ UNCHANGED mpc
    BY <1>4 DEF MemDelay, MemC2C, MemLock
  <2>3. UNCHANGED mpc => ServerKept
    BY <2>1 DEF ServerKept, Pending, Answering
  <2> QED BY <1>a, <2>1, <2>2, <2>3, RespondServes, ServerStutters DEF Server!Next
<1>5. CASE MemRelease
  <2>1. mpc = "driving" /\ NextRequest(LatQueued)
    BY <1>5 DEF MemRelease
  <2>2. Pending' = Pending /\ Answering' = NoReq
    BY <1>a, <2>1, NextRequestPending
  <2>3. Answering # NoReq
    BY <1>a, <2>1 DEF Answering, MemTypeOK, Serving, MemReq, NoReq
  <2> QED BY <2>2, <2>3 DEF Server!Next, Server!Finish, Pending, Answering
<1>6. CASE UNCHANGED memVars
  BY <1>6, ServerStutters
<1>7. \/ MemSnoop \/ MemExecute \/ UNCHANGED memVars
  BY DEF Next, CpuNext, CacheNext, SnoopNext, C2CNext, MemNext, KernelUpdate, KernelTick,
         Finished, vars
<1> QED BY <1>1, <1>2, <1>3, <1>4, <1>5, <1>6, <1>7 DEF MemExecute

LEMMA ServerInit == Init => Server!Init
BY DEF Init, MemInit, Server!Init

(* The memory controller keeps the promise of MemServer: every request it  *)
(* takes from the bus is answered once, in the order of arrival            *)
(* (Memory.h:42-102).                                                      *)
THEOREM ServerImplemented == Spec => ServerSpec
<1>1. IInv /\ [Next]_vars => [Server!Next]_Server!serverVars
  BY ServerStep
<1> QED BY Inductive, ServerInit, <1>1, PTL DEF Spec, ServerSpec, Server!Spec

-----------------------------------------------------------------------------
(* A request on its way.  The memory samples it while it is on the wires,  *)
(* queues it, serves it, and answers; the cache is woken by the answer.    *)

(* The request for which cache c drives the wires, or waits.               *)
Wanted(c) == IF cpc[c] \in {"wbDrive", "wbAnswer"} THEN WbAddr(c) ELSE LineOf(req[c].addr)
ReqOf(c)  == [id |-> c, addr |-> Wanted(c)]
AskOf(c)  == Request(IF cpc[c] = "wbDrive" THEN "WRITE" ELSE "READ", c, Wanted(c))

Sends(c) == cpc[c] \in {"wbDrive", "fillDrive"}
Waits(c) == cpc[c] \in AnswerLabels

InMemory(r) == \/ \E i \in DOMAIN queue : queue[i] = r
               \/ Serving /\ mreq = r
Sampling(r) == /\ phase = "edge" /\ MemSnoopP \in run
               /\ wires.func \in {"READ", "WRITE"} /\ wires.id = r.id /\ wires.addr = r.addr
Noticed(r)  == InMemory(r) \/ Sampling(r)
Answered(c) == /\ phase = "edge" /\ CacheP(c) \in run
               /\ wires.func = "RESPONSE" /\ wires.id = c /\ wires.addr = Wanted(c)

Asks(c) ==
  /\ Sends(c) => drv = {<<CacheP(c), AskOf(c)>>}
  /\ Sends(c) /\ phase = "edge" /\ CacheP(c) \in run => Noticed(ReqOf(c))
  /\ Waits(c) => Noticed(ReqOf(c)) \/ Answered(c)
  /\ cpc[c] = "wbAnswer" /\ phase = "edge" /\ CacheP(c) \in run =>
       wires.func = "RESPONSE" /\ wires.id = c /\ wires.addr = WbAddr(c)
  /\ cpc[c] = "refill" => Cur(c).state = "INVALID"

(* When the memory ends its answer, everybody who waits for it is awake.   *)
Answers ==
  /\ mpc = "driving" => drv = {<<MemP, MemAnswer>>}
  /\ mpc = "driving" /\ phase = "edge" /\ MemP \in run =>
       /\ wires = MemAnswer
       /\ \A c \in CPUs : Waits(c) /\ mreq = ReqOf(c) => CacheP(c) \in run

AskInv ==
  /\ phase = "delta" => wires = Resolve(drv)
  /\ \A c \in CPUs : Asks(c)
  /\ Answers
  /\ QueueNotForgotten

LEMMA ResolveOne ==
  ASSUME NEW p, NEW m, drv = {<<p, m>>}
  PROVE  Resolve(drv) = m
<1>1. \E x \in drv : drv = {x}
  OBVIOUS
<1>2. (CHOOSE x \in drv : TRUE) = <<p, m>>
  OBVIOUS
<1> QED BY <1>1, <1>2 DEF Resolve

LEMMA HolderAlone ==
  ASSUME LockInv, NEW c \in CPUs, Sends(c)
  PROVE  /\ owner = CacheP(c) /\ mpc # "driving"
         /\ \A d \in CPUs : Sends(d) => d = c
<1>1. \A d \in CPUs : Sends(d) => CacheP(d) = owner
  BY DEF LockInv, Inside, Sends, DriveLabels
<1>2. mpc = "driving" => MemP = owner
  BY DEF LockInv, Inside
<1> QED BY <1>1, <1>2, ProcNames

(* A snooped line keeps its tag, and one that is invalid stays so.         *)
Snoops(l, m) == /\ m.tag = l.tag
                /\ l.state = "INVALID" => m.state = "INVALID"
                /\ m.state = "REQUESTED" => l.state = "REQUESTED"

LinesSnooped(c) == \A s \in Sets, w \in WaySet : Snoops(line[c][s][w], line'[c][s][w])

LEMMA StateSnooped ==
  ASSUME TypeOK, NEW c \in CPUs, NEW s \in Sets, NEW w \in WaySet, NEW st \in States,
         line' = [line EXCEPT ![c][s][w].state = st],
         line[c][s][w].state = "INVALID" => st = "INVALID",
         st = "REQUESTED" => line[c][s][w].state = "REQUESTED"
  PROVE  \A d \in CPUs : LinesSnooped(d)
<1>1. line \in [CPUs -> [Sets -> [WaySet -> Line]]]
  BY DEF TypeOK, CacheTypeOK
<1>2. ASSUME NEW d \in CPUs, NEW t \in Sets, NEW v \in WaySet
      PROVE  Snoops(line[d][t][v], line'[d][t][v])
  <2>1. line[d][t][v] \in Line
    BY <1>1
  <2>2. line'[d][t][v] = IF d = c /\ t = s /\ v = w
                         THEN [line[c][s][w] EXCEPT !.state = st] ELSE line[d][t][v]
    BY <1>1
  <2> QED BY <2>1, <2>2 DEF Snoops, Line
<1> QED BY <1>2 DEF LinesSnooped

LEMMA SnoopLines ==
  ASSUME IInv, NEW c \in CPUs, Snoop(c)
  PROVE  \A d \in CPUs : LinesSnooped(d)
<1>a. TypeOK /\ line \in [CPUs -> [Sets -> [WaySet -> Line]]]
  BY DEF IInv, TypeOK, CacheTypeOK
<1>1. CASE UNCHANGED line
  BY <1>1 DEF LinesSnooped, Snoops
<1>2. ASSUME NEW s, SnoopState(c, s), Snooped(c) # {}, SnoopP(c) \in run,
             s \in {"INVALID", "SHARED"}
      PROVE  \A d \in CPUs : LinesSnooped(d)
  <2>1. wires \in Msg
    BY <1>2, SnoopedMsg
  <2>2. wires.addr.set \in Sets
    BY <2>1, AddrParts DEF Msg
  <2>3. SnoopedWay(c) \in WaySet /\ SnoopedWay(c) \in Snooped(c)
    BY <1>2, MaxOfWays DEF SnoopedWay, Snooped, Matches
  <2>4. line[c][wires.addr.set][SnoopedWay(c)].state # "INVALID"
    BY <2>3 DEF Snooped, Matches, Valid
  <2> QED BY ZenonT(40), <1>a, <1>2, <2>2, <2>3, <2>4, StateSnooped DEF SnoopState, States
<1>3. SnoopP(c) \in run
  BY DEF Snoop, SnoopMiss, SnoopInvalidate, SnoopRead, SnoopStep, Spawning
<1> QED BY <1>1, <1>2, <1>3 DEF Snoop, SnoopMiss, SnoopInvalidate, SnoopRead

LEMMA C2CLines ==
  ASSUME IInv, NEW t \in Threads, CacheToCache(t)
  PROVE  \A d \in CPUs : LinesSnooped(d)
<1>a. /\ TypeOK /\ line \in [CPUs -> [Sets -> [WaySet -> Line]]]
      /\ c2c[t] \in Thread /\ t[1] \in CPUs
  BY DEF IInv, TypeOK, CacheTypeOK, CacheToCache, C2CStart, C2CLock, C2CEnd, C2CStep,
         Threads
<1>1. CASE UNCHANGED line
  BY <1>1 DEF LinesSnooped, Snoops
<1>2. CASE line' = [line EXCEPT ![t[1]][c2c[t].addr.set][c2c[t].way].state = AfterAnswer(@)]
  <2> DEFINE s == c2c[t].addr.set
             w == c2c[t].way
             st == AfterAnswer(line[t[1]][s][w].state)
  <2>1. s \in Sets /\ w \in WaySet
    BY <1>a, AddrParts DEF Thread
  <2>2. line[t[1]][s][w].state \in States
    BY <1>a, <2>1 DEF Line
  <2>3. /\ st \in States
        /\ line[t[1]][s][w].state = "INVALID" => st = "INVALID"
        /\ st = "REQUESTED" => line[t[1]][s][w].state = "REQUESTED"
    BY <2>2 DEF AfterAnswer, States
  <2>4. line' = [line EXCEPT ![t[1]][s][w].state = st]
    BY <1>2
  <2> HIDE DEF s, w, st
  <2> QED BY <1>a, <2>1, <2>3, <2>4, StateSnooped
<1> QED BY <1>1, <1>2 DEF CacheToCache, C2CStart, C2CLock, C2CEnd, C2CTryLock

(* A step of execute() concerns the lines of its own cache.                *)
LEMMA ExecuteElsewhere ==
  ASSUME TypeOK, NEW c \in CPUs, Execute(c)
  PROVE  \A d \in CPUs \ {c} : line'[d] = line[d] /\ req'[d] = req[d] /\ way'[d] = way[d]
<1> USE DEF localVars
<1>a. /\ line \in [CPUs -> [Sets -> [WaySet -> Line]]]
      /\ req \in [CPUs -> CpuRequest \cup {NoRequest}] /\ way \in [CPUs -> WaySet]
  BY DEF TypeOK, CacheTypeOK
<1> DEFINE Own == \A d \in CPUs \ {c} : line'[d] = line[d]
<1>1. /\ \A l : SetCur(c, l) => Own
      /\ \A st : CurState(c, st) => Own
      /\ PostWriteback(c) => Own
      /\ UNCHANGED line => Own
  BY <1>a DEF SetCur, CurState, PostWriteback
<1>2. /\ \A b, st : Fill(b, c, st) => Own
      /\ \A r : Lookup(c, r) => Own /\ \A d \in CPUs \ {c} : way'[d] = way[d]
  BY <1>a, <1>1 DEF Fill, Lookup
<1> HIDE DEF Own
<1>3. Own
  BY <1>1, <1>2
     DEF Execute, Accept, HitWrite, HitRead, MissDirty, MissClean, InvalidateWait, Invalidated,
         RetryInvalidate, ReadHit, Recheck, WriteDone, RetryWriteBack, WriteBackSent,
         WriteBackAnswered, RetryRead, ReadSent, ReadContended, ReadAnswered, Done
<1>4. \A d \in CPUs \ {c} : req'[d] = req[d] /\ way'[d] = way[d]
  <2>1. CASE Accept(c) \/ Recheck(c)
    BY <1>a, <1>2, <2>1 DEF Accept, Recheck
  <2>2. CASE Done(c)
    BY <1>a, <2>2 DEF Done
  <2>3. CASE UNCHANGED <<req, way>>
    BY <2>3
  <2> QED BY <2>1, <2>2, <2>3
          DEF Execute, HitWrite, HitRead, MissDirty, MissClean, InvalidateWait, Invalidated,
              RetryInvalidate, ReadHit, WriteDone, RetryWriteBack, WriteBackSent,
              WriteBackAnswered, RetryRead, ReadSent, ReadContended, ReadAnswered
<1> QED BY <1>3, <1>4 DEF Own

(* The request that TryRead and TryWriteBack put on the wires.             *)
LEMMA RequestDriven ==
  ASSUME LockInv, NEW c \in CPUs, NEW f, NEW a, Requesting(BusNow, f, c, a)
  PROVE  drv' = {<<CacheP(c), Request(f, c, a)>>}
BY DEF LockInv, Requesting, MayRequest, Free, BusNow, BusBecomes, Driven

LEMMA ReadAsks ==
  ASSUME IInv, NEW c \in CPUs, cpc[c] # "idle", TryRead(c), UNCHANGED req
  PROVE  \/ Sends(c)' /\ drv' = {<<CacheP(c), AskOf(c)'>>}
         \/ cpc'[c] = "fillWait"
<1>a. cpc \in [CPUs -> Labels] /\ LockInv
  BY DEF IInv, TypeOK, CacheTypeOK
<1>1. CASE Requesting(BusNow, "READ", c, LineOf(req[c].addr)) /\ GoTo(c, "fillDrive")
  <2>1. cpc'[c] = "fillDrive"
    BY <1>a, <1>1 DEF GoTo
  <2>2. AskOf(c)' = Request("READ", c, LineOf(req[c].addr))
    BY <2>1 DEF AskOf, Wanted, Request, LineOf
  <2> QED BY <1>a, <1>1, <2>1, <2>2, RequestDriven DEF Sends
<1>2. CASE GoTo(c, "fillWait")
  BY <1>a, <1>2 DEF GoTo
<1> QED BY <1>1, <1>2 DEF TryRead

LEMMA WriteBackAsks ==
  ASSUME IInv, NEW c \in CPUs, cpc[c] # "idle", TryWriteBack(c), UNCHANGED <<req, way, line>>
  PROVE  \/ Sends(c)' /\ drv' = {<<CacheP(c), AskOf(c)'>>}
         \/ cpc'[c] = "wbWait"
<1>a. cpc \in [CPUs -> Labels] /\ LockInv
  BY DEF IInv, TypeOK, CacheTypeOK
<1>1. CASE Requesting(BusNow, "WRITE", c, WbAddr(c)) /\ GoTo(c, "wbDrive")
  <2>1. cpc'[c] = "wbDrive"
    BY <1>a, <1>1 DEF GoTo
  <2>2. AskOf(c)' = Request("WRITE", c, WbAddr(c))
    BY <2>1 DEF AskOf, Wanted, Request, WbAddr, Cur, SetOf
  <2> QED BY <1>a, <1>1, <2>1, <2>2, RequestDriven DEF Sends
<1>2. CASE GoTo(c, "wbWait")
  BY <1>a, <1>2 DEF GoTo
<1> QED BY <1>1, <1>2 DEF TryWriteBack

(* What a step of execute() means to the request of the cache.             *)
AskStep(c) ==
  \/ Sends(c)' /\ drv' = {<<CacheP(c), AskOf(c)'>>}
  \/ Sends(c) /\ Waits(c)' /\ ReqOf(c)' = ReqOf(c)
  \/ Waits(c) /\ Waits(c)' /\ ReqOf(c)' = ReqOf(c) /\ wires.func = "REQUESTED"
  \/ cpc'[c] = "refill" /\ Cur(c)'.state = "INVALID"
  \/ ~Sends(c)' /\ ~Waits(c)' /\ cpc'[c] # "refill"

LEMMA ExecuteAsks ==
  ASSUME IInv, NEW c \in CPUs, Execute(c)
  PROVE  AskStep(c)
<1> USE DEF localVars, AnswerLabels
<1>a. cpc \in [CPUs -> Labels] /\ TypeOK
  BY DEF IInv, TypeOK, CacheTypeOK
<1>b. \A l : GoTo(c, l) => cpc'[c] = l
  BY <1>a DEF GoTo
<1>g. \A l : ExecuteStep(c, l) => cpc[c] = l
  BY Unidle
<1>h. /\ TryRead(c) /\ cpc[c] # "idle" /\ UNCHANGED req => AskStep(c)
      /\ PostWriteback(c) /\ cpc[c] # "idle" /\ UNCHANGED req => AskStep(c)
      /\ TryWriteBack(c) /\ cpc[c] # "idle" /\ UNCHANGED <<req, way, line>> => AskStep(c)
  <2>1. cpc'[c] \in {"fillWait", "wbWait"} => AskStep(c)
    BY DEF AskStep, Sends, Waits
  <2> QED BY <2>1, ReadAsks, WriteBackAsks DEF PostWriteback, AskStep
<1>i. \A l : /\ cpc'[c] = l
             /\ l \notin {"wbDrive", "fillDrive", "wbAnswer", "fillAnswer", "refill"}
             => AskStep(c)
  BY DEF AskStep, Sends, Waits
<1>j. /\ \A k : Finish(c, k) => cpc'[c] = "done"
      /\ \A b, d, w : TryInvalidate(b, c, d, w) => cpc'[c] \in {d, w}
  BY <1>b DEF Finish, TryInvalidate
<1>k. \A b, st : Fill(b, c, st) => cpc'[c] \in {"done", "upDrive", "upWait"}
  BY <1>j DEF Fill
<1>1. CASE Accept(c) \/ HitWrite(c) \/ HitRead(c)
  BY <1>1, <1>b, <1>i, <1>j DEF Accept, Lookup, HitWrite, HitRead
<1>2. CASE MissDirty(c)
  BY <1>2, <1>g, <1>h DEF MissDirty
<1>3. CASE MissClean(c)
  BY <1>3, <1>g, <1>h DEF MissClean
<1>4. CASE InvalidateWait(c) \/ RetryInvalidate(c) \/ ReadHit(c) \/ WriteDone(c)
  BY <1>4, <1>b, <1>i, <1>j DEF InvalidateWait, RetryInvalidate, ReadHit, WriteDone
<1>5. CASE Invalidated(c)
  <2>1. PICK l \in {"recheck", "refill"} : cpc'[c] = l
    BY <1>5, <1>b DEF Invalidated
  <2>2. Cur(c)'.state = "INVALID"
    BY <1>5 DEF Invalidated, Cur, SetOf, Valid
  <2> QED BY <2>1, <2>2, <1>i DEF AskStep
<1>6. CASE Recheck(c) \/ Done(c)
  BY <1>6, <1>b, <1>i DEF Recheck, Lookup, Done
<1>7. CASE RetryWriteBack(c)
  BY <1>7, <1>g, <1>h DEF RetryWriteBack
<1>8. CASE WriteBackSent(c)
  <2>1. cpc[c] = "wbDrive" /\ cpc'[c] = "wbAnswer" /\ UNCHANGED <<req, way, line>>
    BY <1>8, <1>b, <1>g DEF WriteBackSent
  <2>2. ReqOf(c)' = ReqOf(c)
    BY <2>1 DEF ReqOf, Wanted, WbAddr, Cur, SetOf
  <2> QED BY <2>1, <2>2 DEF AskStep, Sends, Waits
<1>9. CASE WriteBackAnswered(c)
  BY <1>9, <1>g, <1>h DEF WriteBackAnswered
<1>10. CASE RetryRead(c)
  BY <1>10, <1>g, <1>h DEF RetryRead
<1>11. CASE ReadSent(c)
  <2>1. CASE GoTo(c, "fillAnswer")
    <3>1. cpc[c] = "fillDrive" /\ cpc'[c] = "fillAnswer" /\ UNCHANGED req
      BY <1>11, <2>1, <1>b, <1>g DEF ReadSent
    <3>2. ReqOf(c)' = ReqOf(c)
      BY <3>1 DEF ReqOf, Wanted, LineOf
    <3> QED BY <3>1, <3>2 DEF AskStep, Sends, Waits
  <2>2. CASE Fill(Released(CacheP(c)), c, Cur(c).state)
    BY <2>2, <1>i, <1>k
  <2> QED BY <1>11, <2>1, <2>2 DEF ReadSent
<1>12. CASE ReadContended(c)
  <2>1. cpc[c] = "fillAnswer" /\ wires.func = "REQUESTED" /\ UNCHANGED <<cpc, req>>
    BY <1>12, <1>g DEF ReadContended
  <2>2. ReqOf(c)' = ReqOf(c)
    BY <2>1 DEF ReqOf, Wanted, LineOf
  <2> QED BY <2>1, <2>2 DEF AskStep, Waits
<1>13. CASE ReadAnswered(c)
  BY <1>13, <1>i, <1>k DEF ReadAnswered
<1> QED BY <1>1, <1>2, <1>3, <1>4, <1>5, <1>6, <1>7, <1>8, <1>9, <1>10, <1>11, <1>12,
           <1>13 DEF Execute

-----------------------------------------------------------------------------
(* Requests are not lost: each step preserves AskInv.                      *)

(* Noticed(r) after the step.                                              *)
Still(r) ==
  \/ \E i \in DOMAIN queue' : queue'[i] = r
  \/ Serving' /\ mreq' = r
  \/ /\ phase' = "edge" /\ MemSnoopP \in run'
     /\ wires'.func \in {"READ", "WRITE"} /\ wires'.id = r.id /\ wires'.addr = r.addr

LEMMA ReqStays ==
  ASSUME TypeOK, NEW c \in CPUs, cpc[c] # "idle", LinesSnooped(c),
         cpc'[c] = cpc[c], req'[c] = req[c], way'[c] = way[c]
  PROVE  /\ WbAddr(c)' = WbAddr(c) /\ Wanted(c)' = Wanted(c)
         /\ ReqOf(c)' = ReqOf(c) /\ AskOf(c)' = AskOf(c)
         /\ Cur(c).state = "INVALID" => Cur(c)'.state = "INVALID"
<1>1. req[c].addr.set \in Sets /\ way[c] \in WaySet
  BY CurTypes, AddrParts DEF TypeOK, CacheTypeOK
<1>2. Snoops(Cur(c), Cur(c)')
  BY <1>1 DEF LinesSnooped, Cur, SetOf
<1>3. WbAddr(c)' = WbAddr(c)
  BY <1>2 DEF WbAddr, Snoops
<1>4. Wanted(c)' = Wanted(c)
  BY <1>3 DEF Wanted, LineOf
<1>5. ReqOf(c)' = ReqOf(c) /\ AskOf(c)' = AskOf(c)
  BY <1>4 DEF ReqOf, AskOf, Request
<1> QED BY <1>2, <1>3, <1>4, <1>5 DEF Snoops

LEMMA AsksStay ==
  ASSUME TypeOK, NEW c \in CPUs, Asks(c), LinesSnooped(c),
         cpc'[c] = cpc[c], req'[c] = req[c], way'[c] = way[c], UNCHANGED <<phase, wires>>,
         CacheP(c) \in run' <=> CacheP(c) \in run,
         Sends(c) => drv' = drv,
         Noticed(ReqOf(c)) => Still(ReqOf(c)) \/ (Waits(c) /\ Answered(c))
  PROVE  Asks(c)'
<1>1. CASE ~Sends(c) /\ ~Waits(c) /\ cpc[c] # "refill"
  BY <1>1 DEF Asks, Sends, Waits, AnswerLabels
<1>2. CASE Sends(c) \/ Waits(c) \/ cpc[c] = "refill"
  <2>1. cpc[c] # "idle"
    BY <1>2 DEF Sends, Waits, AnswerLabels
  <2>2. /\ WbAddr(c)' = WbAddr(c) /\ Wanted(c)' = Wanted(c)
        /\ ReqOf(c)' = ReqOf(c) /\ AskOf(c)' = AskOf(c)
        /\ Cur(c).state = "INVALID" => Cur(c)'.state = "INVALID"
    BY <2>1, ReqStays
  <2>3. (Sends(c)' <=> Sends(c)) /\ (Waits(c)' <=> Waits(c)) /\ ~(Sends(c) /\ Waits(c))
    BY DEF Sends, Waits, AnswerLabels
  <2>4. Noticed(ReqOf(c))' <=> Still(ReqOf(c))
    BY <2>2 DEF Noticed, InMemory, Sampling, Still
  <2>5. Answered(c)' <=> Answered(c)
    BY <2>2 DEF Answered
  <2> QED BY <2>2, <2>3, <2>4, <2>5 DEF Asks
<1> QED BY <1>1, <1>2

LEMMA NoticedStays ==
  ASSUME UNCHANGED <<phase, wires, memVars>>, MemSnoopP \in run' <=> MemSnoopP \in run
  PROVE  \A r : Noticed(r) => Still(r)
BY DEF Noticed, InMemory, Sampling, Still, Serving, memVars

(* A step that neither execute() nor the memory nor the kernel takes.      *)
LEMMA BystanderAsks ==
  ASSUME IInv, AskInv, UNCHANGED <<phase, wires, memVars, cpc, req, way>>,
         \A p \in {CacheP(c) : c \in CPUs} \cup {MemP, MemSnoopP} : p \in run' <=> p \in run,
         \A c \in CPUs : LinesSnooped(c),
         phase = "delta" \/ mpc = "driving" \/ (\E c \in CPUs : Sends(c)) => drv' = drv
  PROVE  AskInv'
<1>a. TypeOK
  BY DEF IInv
<1>1. /\ \A c \in CPUs : CacheP(c) \in run' <=> CacheP(c) \in run
      /\ MemP \in run' <=> MemP \in run
      /\ MemSnoopP \in run' <=> MemSnoopP \in run
  OBVIOUS
<1>2. ASSUME NEW c \in CPUs PROVE Asks(c)'
  <2>1. Asks(c) /\ (Sends(c) => drv' = drv)
    BY DEF AskInv
  <2>2. Noticed(ReqOf(c)) => Still(ReqOf(c))
    BY <1>1, NoticedStays
  <2> QED BY <1>a, <1>1, <2>1, <2>2, AsksStay
<1>3. Answers'
  <2>1. \A c \in CPUs : Waits(c)' => Waits(c) /\ ReqOf(c)' = ReqOf(c)
    BY <1>a, ReqStays DEF Waits, AnswerLabels
  <2>2. mpc' = mpc /\ mreq' = mreq /\ MemAnswer' = MemAnswer
    BY DEF memVars, MemAnswer
  <2> QED BY <1>1, <2>1, <2>2 DEF AskInv, Answers
<1>4. QueueNotForgotten'
  BY <1>1 DEF AskInv, QueueNotForgotten, MemAwaitsChange, memVars
<1>5. phase' = "delta" => wires' = Resolve(drv)'
  BY DEF AskInv, Resolve
<1> QED BY <1>2, <1>3, <1>4, <1>5 DEF AskInv

LEMMA CpuAsks ==
  ASSUME IInv, AskInv, NEW c \in CPUs, Cpu(c), UNCHANGED memVars
  PROVE  AskInv'
<1>1. /\ run' = run \ {CpuP(c)}
      /\ UNCHANGED <<phase, wires, drv, cpc, req, way, line>>
  BY DEF Cpu, CpuStep, CpuIssue, CpuNop, CpuTraceEnd, CpuStop, CpuWriteSent, CpuDone,
         Step, Spawning, busVars, localVars
<1>2. \A p \in {CacheP(d) : d \in CPUs} \cup {MemP, MemSnoopP} : p # CpuP(c)
  BY DEF CacheP, MemP, MemSnoopP, CpuP
<1>3. \A d \in CPUs : LinesSnooped(d)
  BY <1>1 DEF LinesSnooped, Snoops
<1> QED BY <1>1, <1>2, <1>3, BystanderAsks

LEMMA SnoopAsks ==
  ASSUME IInv, AskInv, NEW c \in CPUs, Snoop(c), UNCHANGED memVars
  PROVE  AskInv'
<1>1. PICK sp : SnoopStep(c, sp) /\ (sp = {} \/ \E t \in Threads : sp = {C2CP(t)})
  BY DEF Snoop, SnoopMiss, SnoopInvalidate, SnoopRead, Threads
<1>2. /\ run' = (run \ {SnoopP(c)}) \cup sp
      /\ UNCHANGED <<phase, wires, drv, cpc, req, way>>
  BY <1>1 DEF SnoopStep, Spawning, localVars
<1>3. \A p \in {CacheP(d) : d \in CPUs} \cup {MemP, MemSnoopP} :
        p # SnoopP(c) /\ \A t \in Threads : p # C2CP(t)
  BY DEF CacheP, MemP, MemSnoopP, SnoopP, C2CP
<1>4. \A p \in {CacheP(d) : d \in CPUs} \cup {MemP, MemSnoopP} : p \in run' <=> p \in run
  BY <1>1, <1>2, <1>3
<1> QED BY <1>2, <1>4, SnoopLines, BystanderAsks

LEMMA C2CAsks ==
  ASSUME IInv, AskInv, NEW t \in Threads, CacheToCache(t), UNCHANGED <<cpuVars, memVars>>
  PROVE  AskInv'
<1>a. LockInv
  BY DEF IInv
<1>1. run' = run \ {C2CP(t)} /\ UNCHANGED <<phase, wires, cpc, req, way>>
  BY DEF CacheToCache, C2CStart, C2CLock, C2CEnd, C2CStep, Step, Spawning, localVars
<1>2. \A p \in {CacheP(d) : d \in CPUs} \cup {MemP, MemSnoopP} : p # C2CP(t)
  BY DEF CacheP, MemP, MemSnoopP, C2CP
<1>3. owner \notin {Nobody, C2CP(t)} => drv' = drv
  <2>1. C2CEnd(t) => owner = C2CP(t)
    BY <1>a DEF C2CEnd, C2CStep, LockInv, Inside
  <2> QED BY <2>1 DEF CacheToCache, C2CStart, C2CLock, C2CTryLock, Free, BusNow, busVars
<1>4. mpc = "driving" \/ (\E c \in CPUs : Sends(c)) => drv' = drv
  <2>1. mpc = "driving" => owner = MemP
    BY <1>a DEF LockInv, Inside
  <2>2. \A c \in CPUs : Sends(c) => owner = CacheP(c)
    BY <1>a, HolderAlone
  <2> QED BY <1>3, <2>1, <2>2, ProcNames
<1>5. phase = "delta" => drv' = drv
  BY C2CPreserves DEF Kept
<1> QED BY <1>1, <1>2, <1>4, <1>5, C2CLines, BystanderAsks

LEMMA ExecuteAskInv ==
  ASSUME IInv, AskInv, NEW c \in CPUs, Execute(c), UNCHANGED memVars
  PROVE  AskInv'
<1>a. TypeOK /\ LockInv /\ Asks(c)
  BY DEF IInv, AskInv
<1>b. Moves(c) /\ (phase = "delta" => Kept) /\ \A d \in CPUs \ {c} : cpc'[d] = cpc[d]
  BY ExecuteMoves
<1>c. /\ CacheP(c) \in run /\ run' = run \ {CacheP(c)} /\ UNCHANGED <<phase, wires>>
      /\ \A d \in CPUs \ {c} : line'[d] = line[d] /\ req'[d] = req[d] /\ way'[d] = way[d]
  BY <1>a, ExecuteRan, ExecuteElsewhere
<1>d. /\ MemP # CacheP(c) /\ MemSnoopP # CacheP(c)
      /\ \A d \in CPUs \ {c} : CacheP(d) # CacheP(c)
  BY ProcNames
<1>e. \A r : Noticed(r) => Still(r)
  BY <1>c, <1>d, NoticedStays
<1>f. owner \notin {Nobody, CacheP(c)} => drv' = drv
  BY <1>b DEF Moves, Kept, Taken, GivenUp
<1>1. ASSUME NEW d \in CPUs, d # c PROVE Asks(d)'
  <2>1. Asks(d) /\ d \in CPUs \ {c}
    BY <1>1 DEF AskInv
  <2>2. Sends(d) => drv' = drv
    BY <1>a, <1>d, <1>f, <2>1, HolderAlone, ProcNames
  <2>3. LinesSnooped(d)
    BY <1>c, <2>1 DEF LinesSnooped, Snoops
  <2>4. CacheP(d) \in run' <=> CacheP(d) \in run
    BY <1>c, <1>d, <2>1
  <2> QED BY <1>a, <1>b, <1>c, <1>e, <2>1, <2>2, <2>3, <2>4, AsksStay
<1>2. Asks(c)'
  <2>1. CacheP(c) \notin run'
    BY <1>c
  <2>2. CASE Sends(c)' /\ drv' = {<<CacheP(c), AskOf(c)'>>}
    BY <2>1, <2>2 DEF Asks, Sends, Waits, AnswerLabels
  <2>3. CASE Waits(c)' /\ ReqOf(c)' = ReqOf(c) /\ Noticed(ReqOf(c))
    <3>1. Still(ReqOf(c))
      BY <1>e, <2>3
    <3>2. Noticed(ReqOf(c))'
      BY <2>3, <3>1 DEF Noticed, InMemory, Sampling, Still
    <3> QED BY <2>1, <2>3, <3>2 DEF Asks, Sends, Waits, AnswerLabels
  <2>4. CASE cpc'[c] = "refill" /\ Cur(c)'.state = "INVALID"
    BY <2>4 DEF Asks, Sends, Waits, AnswerLabels
  <2>5. CASE ~Sends(c)' /\ ~Waits(c)' /\ cpc'[c] # "refill"
    BY <2>5 DEF Asks, Waits, AnswerLabels
  <2>6. phase = "edge" \/ ~(Sends(c) \/ Waits(c))
    BY ExecuteProgress, <1>a
       DEF Progresses, Accepting, Serves, Completing, Returning, Sends, Waits, AnswerLabels
  <2>7. /\ Sends(c) => Noticed(ReqOf(c))
        /\ Waits(c) /\ wires.func = "REQUESTED" => Noticed(ReqOf(c))
    BY <1>a, <1>c, <2>6 DEF Asks, Answered
  <2> QED BY <2>2, <2>3, <2>4, <2>5, <2>7, ExecuteAsks DEF AskStep
<1>3. Answers'
  <2>1. /\ mpc' = mpc /\ mreq' = mreq /\ MemAnswer' = MemAnswer /\ Answers
    BY DEF memVars, MemAnswer, AskInv
  <2>2. mpc = "driving" => drv' = drv
    <3>1. mpc = "driving" => owner = MemP
      BY <1>a DEF LockInv, Inside
    <3> QED BY <1>d, <1>f, <3>1, ProcNames
  <2>3. MemP \in run' <=> MemP \in run
    BY <1>c, <1>d
  <2>4. ASSUME mpc = "driving", phase = "edge", MemP \in run, NEW d \in CPUs,
               Waits(d)', mreq = ReqOf(d)'
        PROVE  CacheP(d) \in run'
    <3>1. /\ wires = MemAnswer
          /\ Waits(d) /\ mreq = ReqOf(d) => CacheP(d) \in run
      BY <2>1, <2>4 DEF Answers
    <3>2. CASE d = c
      <4>1. ~Sends(c)
        BY <1>a, <2>4, HolderAlone
      <4>2. wires.func # "REQUESTED"
        BY <3>1 DEF MemAnswer
      <4>3. ~Sends(c)'
        BY <2>4, <3>2 DEF Sends, Waits, AnswerLabels
      <4>4. cpc'[c] # "refill"
        BY <2>4, <3>2 DEF Waits, AnswerLabels
      <4> QED BY <2>4, <3>2, <4>1, <4>2, <4>3, <4>4, ExecuteAsks DEF AskStep
    <3>3. CASE d # c
      <4>1. d \in CPUs \ {c} /\ cpc'[d] = cpc[d]
        BY <1>b, <3>3
      <4>2. Waits(d) /\ cpc[d] # "idle" /\ LinesSnooped(d)
        BY <1>c, <2>4, <4>1 DEF Waits, AnswerLabels, LinesSnooped, Snoops
      <4>3. ReqOf(d)' = ReqOf(d)
        BY <1>a, <1>c, <4>1, <4>2, ReqStays
      <4> QED BY <1>c, <1>d, <2>4, <3>1, <4>1, <4>2, <4>3
    <3> QED BY <3>2, <3>3
  <2> QED BY <1>c, <2>1, <2>2, <2>3, <2>4 DEF Answers
<1>4. QueueNotForgotten'
  <2>1. MemP \in run' <=> MemP \in run
    BY <1>c, <1>d
  <2> QED BY <1>c, <2>1 DEF AskInv, QueueNotForgotten, MemAwaitsChange, memVars
<1>5. phase' = "delta" => wires' = Resolve(drv)'
  BY <1>b, <1>c DEF AskInv, Resolve, Kept
<1> QED BY <1>1, <1>2, <1>3, <1>4, <1>5 DEF AskInv

LEMMA RequestsQueued ==
  ASSUME NEW q \in Seq(MemReq), NEW i \in DOMAIN q
  PROVE  /\ \A r \in MemReq : i \in DOMAIN Append(q, r) /\ Append(q, r)[i] = q[i]
         /\ q # << >> /\ (i = 1 \/ (i - 1 \in DOMAIN Tail(q) /\ Tail(q)[i - 1] = q[i]))
         /\ q[1] = Head(q)
OBVIOUS

(* The memory takes its next request: the others stay in the queue.        *)
LEMMA NextKeepsRequests ==
  ASSUME MemTypeOK, NEW l, NextRequest(l)
  PROVE  /\ \A r : (\E i \in DOMAIN queue : queue[i] = r) => Still(r)
         /\ mpc' # "driving"
         /\ MemAwaitsChange' => queue' = << >>
<1>1. CASE queue = << >>
  BY <1>1 DEF NextRequest, MemAwaitsChange
<1>2. CASE queue # << >>
  <2>1. queue' = Tail(queue) /\ mreq' = Head(queue) /\ mpc' = "delay"
    BY <1>2 DEF NextRequest
  <2>2. ASSUME NEW i \in DOMAIN queue
        PROVE  Still(queue[i])
    <3>1. \/ queue[i] = Head(queue)
          \/ i - 1 \in DOMAIN Tail(queue) /\ Tail(queue)[i - 1] = queue[i]
      BY RequestsQueued DEF MemTypeOK
    <3> QED BY <2>1, <3>1 DEF Still, Serving
  <2> QED BY <2>1, <2>2 DEF MemAwaitsChange
<1> QED BY <1>1, <1>2

(* What a step of the memory does to requests and to the bus.              *)
Forgets(r) == mpc = "driving" /\ mreq = r /\ MemP \in run /\ phase = "edge"

MemStep ==
  /\ \A r \in MemReq : Noticed(r) => Still(r) \/ Forgets(r)
  /\ \E p \in {MemP, MemSnoopP} : p \in run /\ run' = run \ {p}
  /\ UNCHANGED <<phase, wires>>
  /\ owner \notin {Nobody, MemP} => drv' = drv
  /\ mpc' = "driving" => \/ drv' = {<<MemP, MemAnswer'>>} /\ MemP \notin run'
                         \/ UNCHANGED <<mpc, mreq, drv>> /\ run' = run \ {MemSnoopP}
  /\ QueueNotForgotten'

LEMMA MemSnoopSteps ==
  ASSUME IInv, MemSnoop
  PROVE  MemStep
<1> DEFINE new == [id |-> wires.id, addr |-> wires.addr]
<1>1. /\ run' = run \ {MemSnoopP} /\ MemSnoopP \in run
      /\ UNCHANGED <<phase, wires, drv, mpc, mreq>> /\ phase = "edge"
      /\ queue' = Append(queue, new)
  BY DEF MemSnoop, Step, Spawning
<1>2. wires \in Msg /\ ForMemory(wires) /\ queue \in Seq(MemReq)
  BY <1>1 DEF IInv, RunInv, ForMemory, NoMsg, TypeOK, SysCTypeOK, MemTypeOK
<1>3. new \in MemReq
  BY <1>2 DEF Msg, MemReq
<1>4. ASSUME NEW r \in MemReq, Noticed(r)
      PROVE  Still(r)
  <2>1. CASE \E i \in DOMAIN queue : queue[i] = r
    BY <1>1, <1>2, <1>3, <2>1, RequestsQueued DEF Still
  <2>2. CASE Serving /\ mreq = r
    BY <1>1, <2>2 DEF Still, Serving
  <2>3. CASE Sampling(r)
    <3>1. r = new
      BY <2>3 DEF Sampling, MemReq
    <3>2. Len(queue) + 1 \in DOMAIN queue' /\ queue'[Len(queue) + 1] = new
      BY <1>1, <1>2, <1>3
    <3> QED BY <3>1, <3>2 DEF Still
  <2> QED BY <1>4, <2>1, <2>2, <2>3 DEF Noticed, InMemory
<1>5. QueueNotForgotten'
  BY <1>1, <1>2 DEF QueueNotForgotten, ForMemory
<1> QED BY <1>1, <1>4, <1>5 DEF MemStep

LEMMA MemAnswerSteps ==
  ASSUME IInv, MemDelay \/ MemC2C \/ MemLock
  PROVE  MemStep
<1>1. /\ run' = run \ {MemP} /\ MemP \in run /\ UNCHANGED <<phase, wires, queue, mreq>>
      /\ mpc \in {"delay", "c2c", "lock"}
      /\ (MemTryLock \/ MemRespond) \/ UNCHANGED <<mpc, drv, owner>>
  BY DEF MemDelay, MemC2C, MemLock, Step, Spawning
<1>2. /\ mpc' \in {"delay", "c2c", "lock", "driving"}
      /\ owner # Nobody => drv' = drv
      /\ mpc' = "driving" => drv' = {<<MemP, MemAnswer'>>}
  <2>1. CASE UNCHANGED <<mpc, drv, owner>>
    BY <1>1, <2>1
  <2>2. CASE Free(BusNow) /\ BusBecomes(Driven(BusNow, MemP, MemAnswer)) /\ mpc' = "driving"
    BY <1>1, <2>2 DEF Free, BusNow, BusBecomes, Driven, MemAnswer, IInv, LockInv
  <2>3. CASE mpc' \in {"c2c", "lock"} /\ UNCHANGED drv
    BY <2>3
  <2> QED BY <1>1, <2>1, <2>2, <2>3 DEF MemTryLock, MemRespond, busVars
<1>3. \A r \in MemReq : Noticed(r) => Still(r)
  <2>1. Serving /\ Serving' /\ (MemSnoopP \in run' <=> MemSnoopP \in run)
    BY <1>1, <1>2, ProcNames DEF Serving
  <2> QED BY <1>1, <2>1 DEF Noticed, InMemory, Sampling, Still
<1>4. QueueNotForgotten'
  BY <1>2 DEF QueueNotForgotten, MemAwaitsChange
<1> QED BY <1>1, <1>2, <1>3, <1>4 DEF MemStep

LEMMA MemMoves ==
  ASSUME IInv, MemExecute \/ MemSnoop
  PROVE  MemStep
<1>a. MemTypeOK /\ LockInv /\ MemP # MemSnoopP
  BY ProcNames DEF IInv, TypeOK
<1>1. CASE MemSnoop
  BY <1>1, MemSnoopSteps
<1>2. CASE MemDelay \/ MemC2C \/ MemLock
  BY <1>2, MemAnswerSteps
<1>3. CASE MemWake
  <2>1. /\ run' = run \ {MemP} /\ MemP \in run
        /\ UNCHANGED <<phase, wires, drv, queue, mreq>>
        /\ mpc = "changed" /\ mpc' = "synced"
    BY <1>3 DEF MemWake, Step, Spawning
  <2>2. \A r \in MemReq : Noticed(r) => Still(r)
    BY <1>a, <2>1 DEF Noticed, InMemory, Sampling, Still, Serving
  <2> QED BY <2>1, <2>2 DEF MemStep, QueueNotForgotten, MemAwaitsChange
<1>4. CASE MemFetch \/ MemRelease
  <2>1. /\ run' = run \ {MemP} /\ MemP \in run /\ UNCHANGED <<phase, wires>>
        /\ phase = "edge" /\ mpc \in {"synced", "driving"}
        /\ \E l : NextRequest(l)
        /\ mpc = "synced" => UNCHANGED drv
    BY <1>4 DEF MemFetch, MemRelease, Step, Spawning
  <2>2. /\ \A r : (\E i \in DOMAIN queue : queue[i] = r) => Still(r)
        /\ mpc' # "driving"
        /\ MemAwaitsChange' => queue' = << >>
    BY <1>a, <2>1, NextKeepsRequests
  <2>3. \A r \in MemReq : Noticed(r) => Still(r) \/ Forgets(r)
    <3>1. \A r : Sampling(r) => Still(r)
      BY <1>a, <2>1 DEF Sampling, Still
    <3>2. \A r : Serving /\ mreq = r => Forgets(r)
      BY <2>1 DEF Serving, Forgets
    <3> QED BY <2>2, <3>1, <3>2 DEF Noticed, InMemory
  <2>4. mpc = "driving" => owner = MemP
    BY <1>a DEF LockInv, Inside
  <2>5. owner \notin {Nobody, MemP} => drv' = drv
    BY <2>1, <2>4
  <2> QED BY <2>1, <2>2, <2>3, <2>5 DEF MemStep, QueueNotForgotten
<1> QED BY <1>1, <1>2, <1>3, <1>4 DEF MemExecute

LEMMA MemAskInv ==
  ASSUME IInv, AskInv, MemExecute \/ MemSnoop, UNCHANGED <<cacheVars, cpuVars>>
  PROVE  AskInv'
<1>a. TypeOK /\ LockInv /\ UNCHANGED <<cpc, req, way, line>> /\ MemStep
  BY MemMoves DEF IInv, cacheVars
<1>b. PICK p \in {MemP, MemSnoopP} : p \in run /\ run' = run \ {p}
  BY <1>a DEF MemStep
<1>c. UNCHANGED <<phase, wires>> /\ \A c \in CPUs : LinesSnooped(c)
  BY <1>a DEF MemStep, LinesSnooped, Snoops
<1>d. \A c \in CPUs : CacheP(c) \in run' <=> CacheP(c) \in run
  BY <1>b DEF CacheP, MemP, MemSnoopP
<1>1. ASSUME NEW c \in CPUs PROVE Asks(c)'
  <2>1. CASE cpc[c] = "idle"
    BY <1>a, <2>1 DEF Asks, Sends, Waits, AnswerLabels
  <2>2. CASE cpc[c] # "idle"
    <3>1. Asks(c) /\ Answers
      BY DEF AskInv
    <3>2. ReqOf(c) \in MemReq
      BY <1>a, <2>2, CurTypes DEF ReqOf, Wanted, MemReq
    <3>3. Sends(c) => drv' = drv /\ mpc # "driving"
      BY <1>a, HolderAlone, ProcNames DEF MemStep
    <3>4. Sends(c) \/ Waits(c) => (Noticed(ReqOf(c)) => Still(ReqOf(c)) \/ (Waits(c) /\ Answered(c)))
      <4>1. SUFFICES ASSUME Sends(c) \/ Waits(c), Noticed(ReqOf(c)), ~Still(ReqOf(c))
            PROVE  Waits(c) /\ Answered(c)
        OBVIOUS
      <4>2. Forgets(ReqOf(c))
        BY <1>a, <3>2, <4>1 DEF MemStep
      <4>3. Waits(c) /\ CacheP(c) \in run /\ wires = MemAnswer
        BY <3>1, <3>3, <4>1, <4>2 DEF Forgets, Answers
      <4> QED BY <4>2, <4>3 DEF Forgets, Answered, MemAnswer, ReqOf
    <3>5. CASE Sends(c) \/ Waits(c)
      BY <1>a, <1>c, <1>d, <3>1, <3>3, <3>4, <3>5, AsksStay
    <3>6. CASE ~Sends(c) /\ ~Waits(c)
      BY <1>a, <3>1, <3>6 DEF Asks, Sends, Waits, AnswerLabels, Cur, SetOf
    <3> QED BY <3>5, <3>6
  <2> QED BY <2>1, <2>2
<1>2. Answers'
  <2>1. \A c \in CPUs : (Waits(c)' <=> Waits(c)) /\ ReqOf(c)' = ReqOf(c)
    BY <1>a DEF Waits, ReqOf, Wanted, WbAddr, Cur, SetOf, LineOf
  <2>2. CASE drv' = {<<MemP, MemAnswer'>>} /\ MemP \notin run'
    BY <2>2 DEF Answers
  <2>3. CASE UNCHANGED <<mpc, mreq, drv>> /\ run' = run \ {MemSnoopP}
    <3>1. MemAnswer' = MemAnswer /\ (MemP \in run' <=> MemP \in run)
      BY <2>3, ProcNames DEF MemAnswer
    <3> QED BY <1>c, <1>d, <2>1, <2>3, <3>1 DEF Answers, AskInv
  <2>4. CASE mpc' # "driving"
    BY <2>4 DEF Answers
  <2> QED BY <1>a, <2>2, <2>3, <2>4 DEF MemStep
<1>3. QueueNotForgotten'
  BY <1>a DEF MemStep
<1>4. phase' = "delta" => wires' = Resolve(drv)'
  <2>1. phase = "delta" => drv' = drv
    BY MemPreserves DEF Kept
  <2> QED BY <1>c, <2>1 DEF AskInv, Resolve
<1> QED BY <1>1, <1>2, <1>3, <1>4 DEF AskInv

LEMMA KernelAskInv ==
  ASSUME IInv, AskInv, KernelUpdate \/ KernelTick
  PROVE  AskInv'
<1>a. /\ TypeOK /\ LockInv /\ Answers /\ QueueNotForgotten
      /\ \A c \in CPUs : Asks(c)
  BY DEF IInv, AskInv
<1>b. /\ UNCHANGED <<drv, cpc, req, way, line, memVars>> /\ run = {}
      /\ wires' = Resolve(drv) /\ Resolve(drv)' = Resolve(drv)
  BY DEF KernelUpdate, Update, KernelTick, Tick, localVars, cacheVars, Resolve
<1>c. /\ \A c \in CPUs : /\ ReqOf(c)' = ReqOf(c) /\ AskOf(c)' = AskOf(c) /\ Cur(c)' = Cur(c)
                         /\ WbAddr(c)' = WbAddr(c) /\ Wanted(c)' = Wanted(c)
                         /\ (Waits(c)' <=> Waits(c)) /\ (Sends(c)' <=> Sends(c))
                         /\ InMemory(ReqOf(c))' <=> InMemory(ReqOf(c))
      /\ MemAnswer' = MemAnswer
  BY <1>b DEF ReqOf, AskOf, Wanted, WbAddr, Cur, SetOf, LineOf, Waits, Sends, Request,
              InMemory, Serving, memVars, MemAnswer
<1>d. \A c \in CPUs : Waits(c) => InMemory(ReqOf(c))
  BY <1>a, <1>b DEF Asks, Noticed, Sampling, Answered
<1>1. CASE KernelUpdate
  <2>1. /\ phase' \in {"delta", "stop"}
        /\ phase' = "delta" => run' = AtDelta(Resolve(drv))
    BY <1>1 DEF KernelUpdate, Update
  <2>2. ASSUME NEW c \in CPUs PROVE Asks(c)'
    BY <1>a, <1>b, <1>c, <1>d, <2>1 DEF Asks, Noticed
  <2>3. Answers'
    BY <1>a, <1>b, <1>c, <2>1 DEF Answers, memVars
  <2>4. QueueNotForgotten'
    <3>1. SUFFICES ASSUME MemAwaitsChange, queue # << >>, phase' = "delta",
                          Resolve(drv).func = "NOTHING"
          PROVE  MemP \in run'
      BY <1>b, <2>1 DEF QueueNotForgotten, MemAwaitsChange, memVars
    <3>2. wires.func # "NOTHING"
      BY <1>1, <1>a, <1>b, <3>1 DEF QueueNotForgotten, KernelUpdate, Update
    <3> QED BY <2>1, <3>1, <3>2 DEF AtDelta
  <2> QED BY <1>b, <2>2, <2>3, <2>4 DEF AskInv
<1>2. CASE KernelTick
  <2>1. phase = "delta" /\ phase' = "edge" /\ run' = AtClock(~clk, Resolve(drv))
    BY <1>2 DEF KernelTick, Tick
  <2>2. ASSUME NEW c \in CPUs PROVE Asks(c)'
    <3>1. Asks(c)
      BY <1>a
    <3>2. Sends(c) => Sampling(ReqOf(c))'
      <4>1. SUFFICES ASSUME Sends(c) PROVE Sampling(ReqOf(c))'
        OBVIOUS
      <4>2. wires' = AskOf(c)
        BY <1>b, <3>1, <4>1, ResolveOne DEF Asks
      <4>3. AskOf(c).func \in {"READ", "WRITE"} /\ AskOf(c).id = c /\ AskOf(c).addr = Wanted(c)
        BY DEF AskOf, Request
      <4>4. MemSnoopP \in run'
        BY <1>b, <2>1, <4>2, <4>3 DEF AtClock, ForMemory
      <4> QED BY <1>c, <2>1, <4>2, <4>3, <4>4 DEF Sampling, ReqOf
    <3>3. cpc[c] = "wbAnswer" /\ CacheP(c) \in run' =>
            AnswerFor(Resolve(drv), c, WbAddr(c)) /\ Resolve(drv).func = "RESPONSE"
      <4>1. SUFFICES ASSUME cpc[c] = "wbAnswer", CacheP(c) \in run'
            PROVE  AnswerFor(Resolve(drv), c, WbAddr(c)) /\ Resolve(drv).func = "RESPONSE"
        OBVIOUS
      <4>2. c \in CachesAtClock(~clk, Resolve(drv))
        <5>1. /\ \A t : CacheP(c) # C2CP(t)
              /\ \A d : /\ CacheP(c) # CpuP(d) /\ (CacheP(c) = CacheP(d) => c = d)
              /\ CacheP(c) \notin {MemP, MemSnoopP}
          BY DEF CacheP, C2CP, CpuP, MemP, MemSnoopP
        <5> QED BY <2>1, <4>1, <5>1, Zenon DEF AtClock
      <4> QED BY <4>1, <4>2 DEF CachesAtClock, ClockLabels, NegLabels
    <3> QED BY <1>b, <1>c, <1>d, <3>1, <3>2, <3>3 DEF Asks, Noticed, AnswerFor
  <2>3. Answers'
    <3>1. ASSUME mpc = "driving"
          PROVE  /\ drv = {<<MemP, MemAnswer>>} /\ wires' = MemAnswer
                 /\ \A c \in CPUs : Waits(c) /\ mreq = ReqOf(c) => CacheP(c) \in run'
      <4>1. drv = {<<MemP, MemAnswer>>} /\ Resolve(drv) = MemAnswer
        BY <1>a, <3>1, ResolveOne DEF Answers
      <4>2. ASSUME NEW c \in CPUs, Waits(c), mreq = ReqOf(c)
            PROVE  c \in CachesAtClock(~clk, MemAnswer)
        <5>1. MemAnswer.func = "RESPONSE" /\ MemAnswer.id = c /\ MemAnswer.addr = Wanted(c)
          BY <4>2 DEF MemAnswer, ReqOf
        <5> QED BY <4>2, <5>1 DEF CachesAtClock, AnswerFor, Waits, AnswerLabels, Wanted
      <4> QED BY <1>b, <2>1, <4>1, <4>2 DEF AtClock
    <3>2. mpc' = mpc /\ mreq' = mreq
      BY <1>b DEF memVars
    <3> QED BY <1>b, <1>c, <3>1, <3>2 DEF Answers
  <2>4. wires' = wires
    BY <1>b, <2>1 DEF AskInv
  <2>5. QueueNotForgotten'
    BY <1>a, <1>b, <2>1, <2>4 DEF QueueNotForgotten, MemAwaitsChange, memVars
  <2> QED BY <2>1, <2>2, <2>3, <2>5 DEF AskInv
<1> QED BY <1>1, <1>2

LEMMA AskInit ==
  ASSUME Init
  PROVE  AskInv
<1>1. \A c \in CPUs : Asks(c)
  BY DEF Init, CacheInit, Asks, Sends, Waits, AnswerLabels
<1> QED BY <1>1 DEF Init, MemInit, AskInv, Answers, QueueNotForgotten

LEMMA AskStepInv ==
  ASSUME IInv, AskInv, [Next]_vars
  PROVE  AskInv'
<1>1. CASE CpuNext
  BY <1>1, CpuAsks DEF CpuNext
<1>2. CASE CacheNext
  BY <1>2, ExecuteAskInv DEF CacheNext
<1>3. CASE SnoopNext
  BY <1>3, SnoopAsks DEF SnoopNext
<1>4. CASE C2CNext
  BY <1>4, C2CAsks DEF C2CNext
<1>5. CASE MemNext
  BY <1>5, MemAskInv DEF MemNext
<1>6. CASE KernelUpdate \/ KernelTick
  BY <1>6, KernelAskInv
<1>7. CASE UNCHANGED vars
  <2>1. UNCHANGED <<phase, wires, memVars, cpc, req, way, line, run, drv>>
    BY <1>7 DEF vars, kernelVars, cacheVars
  <2>2. \A c \in CPUs : LinesSnooped(c)
    BY <2>1 DEF LinesSnooped, Snoops
  <2> QED BY <2>1, <2>2, BystanderAsks
<1> QED BY <1>1, <1>2, <1>3, <1>4, <1>5, <1>6, <1>7 DEF Next, Finished

(* In every reachable state a request is on the wires, noticed by the      *)
(* memory, or being answered as long as somebody waits for it.             *)
THEOREM RequestsTracked == Spec => []AskInv
<1>1. IInv /\ AskInv /\ [Next]_vars => AskInv'
  BY AskStepInv
<1> QED BY Inductive, AskInit, <1>1, PTL DEF Spec

(* A cache that waits for an answer has a request of its own underway,     *)
(* whatever stale answers ended its earlier waits (Bus.h:106-130,          *)
(* Memory.h:49-55).                                                        *)
THEOREM RequestsNotLost == Spec => []NoLostRequest
<1>1. AskInv => NoLostRequest
  <2>1. SUFFICES ASSUME AskInv, NEW c \in CPUs, Waits(c)
        PROVE  Underway(c, Wanted(c))
    BY DEF NoLostRequest, Waits, AnswerLabels, Wanted
  <2>2. Noticed(ReqOf(c)) \/ Answered(c)
    BY <2>1 DEF AskInv, Asks
  <2> QED BY <2>2 DEF Noticed, InMemory, Sampling, Answered, ReqOf, Underway
<1> QED BY RequestsTracked, <1>1, PTL

(* The memory never sleeps on a request: one that arrives as it falls      *)
(* asleep is still followed by a change of Port_BusFunc (Memory.h:62-69).  *)
THEOREM QueueWatched == Spec => []QueueNotForgotten
<1>1. AskInv => QueueNotForgotten
  BY DEF AskInv
<1> QED BY RequestsTracked, <1>1, PTL

-----------------------------------------------------------------------------
(* A dirty line is marked for replacement only when its write-back was     *)
(* answered.                                                               *)

Marked(c, s, w) == Dirty(line[c][s][w]) /\ line'[c][s][w].state = "REQUESTED"
NoneMarked(c)   == \A s \in Sets, w \in WaySet : ~Marked(c, s, w)

LEMMA SetCurMarks ==
  ASSUME TypeOK, NEW c \in CPUs, cpc[c] # "idle", NEW l, SetCur(c, l)
  PROVE  \A s \in Sets, w \in WaySet : Marked(c, s, w) =>
           way[c] = w /\ l.state = "REQUESTED" /\ Dirty(Cur(c)) /\ line[c][s][w] = Cur(c)
<1>1. /\ line \in [CPUs -> [Sets -> [WaySet -> Line]]] /\ way[c] \in WaySet
      /\ req[c].addr.set \in Sets
  BY CurTypes, AddrParts DEF TypeOK, CacheTypeOK
<1>2. ASSUME NEW s \in Sets, NEW w \in WaySet
      PROVE  line'[c][s][w] = IF s = req[c].addr.set /\ w = way[c] THEN l ELSE line[c][s][w]
  BY <1>1 DEF SetCur
<1>3. ASSUME NEW s \in Sets, NEW w \in WaySet, Marked(c, s, w)
      PROVE  way[c] = w /\ l.state = "REQUESTED" /\ Dirty(Cur(c)) /\ line[c][s][w] = Cur(c)
  BY <1>2, <1>3 DEF Marked, Dirty, Cur, SetOf
<1> QED BY <1>3

LEMMA LookupMarks ==
  ASSUME TypeOK, NEW c \in CPUs, NEW r \in CpuRequest, Lookup(c, r)
  PROVE  NoneMarked(c)
<1>1. line \in [CPUs -> [Sets -> [WaySet -> Line]]] /\ r.addr.set \in Sets
  BY AddrParts DEF TypeOK, CacheTypeOK, CpuRequest
<1>2. ASSUME NEW s \in Sets, NEW w \in WaySet
      PROVE  line'[c][s][w].state = line[c][s][w].state
  <2>1. CASE s = r.addr.set
    <3>1. line'[c][s] = Aged(line[c][s], r.addr.tag)
      BY <1>1, <2>1 DEF Lookup
    <3>2. line[c][s][w] \in Line
      BY <1>1
    <3> QED BY <3>1, <3>2 DEF Aged, Line
  <2>2. CASE s # r.addr.set
    BY <1>1, <2>2 DEF Lookup
  <2> QED BY <2>1, <2>2
<1> QED BY <1>2 DEF NoneMarked, Marked, Dirty

LEMMA ExecuteMarks ==
  ASSUME IInv, AskInv, NEW c \in CPUs, Execute(c), NEW s \in Sets, NEW w \in WaySet,
         Marked(c, s, w)
  PROVE  /\ cpc[c] = "wbAnswer" /\ way[c] = w /\ line[c][s][w] = Cur(c)
         /\ phase = "edge" /\ CacheP(c) \in run
<1> USE DEF localVars
<1>a. TypeOK
  BY DEF IInv
<1>b. /\ UNCHANGED line => NoneMarked(c)
      /\ ~NoneMarked(c)
  BY DEF NoneMarked, Marked, Dirty
<1>g. \A l : ExecuteStep(c, l) => cpc[c] = l /\ phase = "edge" /\ CacheP(c) \in run
  BY DEF ExecuteStep, Step, Spawning
<1>c. \A l : SetCur(c, l) /\ cpc[c] # "idle" =>
        way[c] = w /\ l.state = "REQUESTED" /\ Dirty(Cur(c)) /\ line[c][s][w] = Cur(c)
  BY <1>a, SetCurMarks
<1>d. cpc[c] # "idle" => Cur(c) \in Line
  BY <1>a, CurTypes
<1>e. \A st : CurState(c, st) /\ cpc[c] # "idle" =>
        way[c] = w /\ st = "REQUESTED" /\ Dirty(Cur(c)) /\ line[c][s][w] = Cur(c)
  BY <1>c, <1>d DEF CurState, Line
<1>f. \A b, st : Fill(b, c, st) /\ cpc[c] # "idle" => st = "REQUESTED"
  BY <1>c DEF Fill
<1>h. PostWriteback(c) /\ cpc[c] # "idle" =>
        way[c] = w /\ Dirty(Cur(c)) /\ line[c][s][w] = Cur(c)
  BY <1>e DEF PostWriteback
<1>1. CASE Accept(c)
  <2>1. func[c] \in CpuRequest
    BY <1>1 DEF Accept, Step, Spawning, IInv, RunInv, TypeOK, CacheTypeOK
  <2> QED BY <1>1, <1>a, <1>b, <2>1, LookupMarks DEF Accept
<1>2. CASE Recheck(c)
  <2>1. req[c] \in CpuRequest
    BY <1>2, <1>a, <1>g, CurTypes DEF Recheck
  <2> QED BY <1>2, <1>a, <1>b, <2>1, LookupMarks DEF Recheck
<1>3. CASE HitWrite(c) \/ HitRead(c)
  <2>1. cpc[c] # "idle" /\ SetCur(c, [Cur(c) EXCEPT !.counter = MaxCounter])
    BY <1>3, <1>g DEF HitWrite, HitRead
  <2>2. [Cur(c) EXCEPT !.counter = MaxCounter].state = Cur(c).state
    BY <1>d, <2>1 DEF Line
  <2>3. Cur(c).state = "REQUESTED" /\ Dirty(Cur(c))
    BY <1>c, <2>1, <2>2
  <2> QED BY <2>3 DEF Dirty
<1>4. CASE MissClean(c)
  BY <1>4, <1>g, <1>h DEF MissClean
<1>5. CASE WriteDone(c)
  BY <1>5, <1>g, <1>e DEF WriteDone
<1>6. CASE RetryWriteBack(c)
  BY <1>6, <1>b, <1>g, <1>h DEF RetryWriteBack
<1>7. CASE WriteBackAnswered(c)
  BY <1>7, <1>g, <1>h DEF WriteBackAnswered
<1>8. CASE RetryRead(c)
  <2>1. cpc[c] = "refill" /\ Dirty(Cur(c))
    BY <1>8, <1>b, <1>g, <1>h DEF RetryRead
  <2> QED BY <2>1 DEF AskInv, Asks, Dirty
<1>9. CASE ReadSent(c)
  BY <1>9, <1>b, <1>g, <1>f DEF ReadSent
<1>10. CASE ReadAnswered(c)
  <2>1. cpc[c] = "fillAnswer" /\ res[c] # "REQUESTED"
    BY <1>10, <1>a, <1>g DEF ReadAnswered, TypeOK, CacheTypeOK
  <2> QED BY <1>10, <1>f, <2>1 DEF ReadAnswered
<1>11. CASE UNCHANGED line
  BY <1>11, <1>b
<1> QED BY <1>1, <1>2, <1>3, <1>4, <1>5, <1>6, <1>7, <1>8, <1>9, <1>10, <1>11
        DEF Execute, MissDirty, InvalidateWait, Invalidated, RetryInvalidate, ReadHit,
            WriteBackSent, ReadContended, Done

(* The lines of cache c change only by its own process, by its snooper and *)
(* by a transfer out of it.                                                *)
LEMMA NoneMarkedElsewhere ==
  ASSUME IInv, Next, NEW c \in CPUs, ~Execute(c)
  PROVE  NoneMarked(c)
<1>1. LinesSnooped(c) => NoneMarked(c)
  BY DEF LinesSnooped, Snoops, NoneMarked, Marked, Dirty
<1>2. line'[c] = line[c] => NoneMarked(c)
  BY DEF NoneMarked, Marked, Dirty
<1>3. CASE CpuNext
  BY <1>3, <1>2 DEF CpuNext, Cpu, CpuIssue, CpuNop, CpuTraceEnd, CpuStop, CpuWriteSent,
                     CpuDone, CpuStep, cacheVars
<1>4. CASE CacheNext
  BY <1>4, <1>2, ExecuteElsewhere DEF CacheNext, IInv
<1>5. CASE SnoopNext
  BY <1>5, <1>1, SnoopLines DEF SnoopNext
<1>6. CASE C2CNext
  BY <1>6, <1>1, C2CLines DEF C2CNext
<1>7. CASE MemNext \/ KernelUpdate \/ KernelTick \/ Finished
  BY <1>7, <1>2 DEF MemNext, KernelUpdate, KernelTick, Finished, vars, cacheVars
<1> QED BY <1>3, <1>4, <1>5, <1>6, <1>7 DEF Next

(* A modified or owned copy is not given up before its own write-back was  *)
(* answered on the bus (Cache.h:195-219).                                  *)
THEOREM WrittenBack == Spec => DirtyWrittenBack
<1> DEFINE Given == \A c \in CPUs, s \in Sets, w \in WaySet :
      Dirty(line[c][s][w]) /\ line'[c][s][w].state = "REQUESTED"
        => /\ cpc[c] = "wbAnswer" /\ way[c] = w
           /\ wires.func = "RESPONSE" /\ wires.id = c
           /\ wires.addr.tag = line[c][s][w].tag
<1>1. ASSUME IInv, AskInv, [Next]_vars
      PROVE  [Given]_vars
  <2>1. SUFFICES ASSUME Next, NEW c \in CPUs, NEW s \in Sets, NEW w \in WaySet,
                        Marked(c, s, w)
                 PROVE  /\ cpc[c] = "wbAnswer" /\ way[c] = w
                        /\ wires.func = "RESPONSE" /\ wires.id = c
                        /\ wires.addr.tag = line[c][s][w].tag
    BY <1>1 DEF Marked
  <2>2. Execute(c)
    BY <1>1, <2>1, NoneMarkedElsewhere DEF NoneMarked
  <2>3. /\ cpc[c] = "wbAnswer" /\ way[c] = w /\ line[c][s][w] = Cur(c)
        /\ phase = "edge" /\ CacheP(c) \in run
    BY <1>1, <2>1, <2>2, ExecuteMarks
  <2>4. wires.func = "RESPONSE" /\ wires.id = c /\ wires.addr = WbAddr(c)
    BY <1>1, <2>3 DEF AskInv, Asks
  <2>5. WbAddr(c).tag = Cur(c).tag
    <3>1. req[c].addr \in Addr
      BY <1>1, <2>3, CurTypes DEF IInv
    <3> QED BY <3>1 DEF WbAddr, Addr
  <2> QED BY <2>3, <2>4, <2>5
<1>2. IInv /\ AskInv /\ [Next]_vars => [Given]_vars
  BY <1>1
<1> HIDE DEF Given
<1>3. Spec => [][Given]_vars
  BY Inductive, RequestsTracked, <1>2, PTL DEF Spec
<1> QED BY <1>3 DEF DirtyWrittenBack, Given
=============================================================================

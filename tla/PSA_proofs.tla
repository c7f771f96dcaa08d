----------------------------- MODULE PSA_proofs -----------------------------
(***************************************************************************)
(* Proofs about PSA for every number of processors, sets, ways, tags,      *)
(* transfer threads, latencies and trace lengths.                          *)
(***************************************************************************)
EXTENDS PSA, TLAPS, WellFoundedInduction

LineType == [CPUs -> [Sets -> [WaySet -> Line]]]

-----------------------------------------------------------------------------
(* Lemmas about the operators on addresses, messages and lines.            *)

LEMMA AddrParts ==
  ASSUME NEW a \in Addr
  PROVE  a.set \in Sets /\ a.tag \in Tags /\ LineOf(a) \in Addr
BY AddrAssumption DEF Addr, LineOf

LEMMA MinCounter ==
  ASSUME NEW S, S \subseteq Nat, S # {}
  PROVE  \E n \in S : \A m \in S : n <= m
<1>1. IsWellFoundedOn(OpToRel(<, Nat), Nat)
  BY NatLessThanWellFounded
<1>2. PICK n \in S : \A m \in S : ~(<<m, n>> \in OpToRel(<, Nat))
  BY <1>1, WFMin
<1>3. \A m \in S : ~(m < n)
  BY <1>2 DEF OpToRel
<1> QED BY <1>3

LEMMA MaxOfWays ==
  ASSUME NEW S, S \subseteq WaySet, S # {}
  PROVE  Max(S) \in S /\ \A w \in S : w <= Max(S)
<1> DEFINE T == {Ways - w : w \in S}
<1>0. \A w \in S : w \in Nat /\ Ways - w \in Nat
  BY CacheSetAssumption DEF WaySet
<1>1. T \subseteq Nat /\ T # {}
  BY <1>0
<1>2. PICK n \in T : \A m \in T : n <= m
  BY <1>1, MinCounter
<1>3. PICK x \in S : n = Ways - x
  BY <1>2
<1>4. \A w \in S : x >= w
  <2> TAKE w \in S
  <2>1. Ways - w \in T
    OBVIOUS
  <2>2. Ways - x <= Ways - w
    BY <1>2, <1>3, <2>1
  <2> QED BY <1>0, <2>2, CacheSetAssumption
<1>5. \E y \in S : \A w \in S : y >= w
  BY <1>4
<1> QED BY <1>5, CacheSetAssumption DEF Max, WaySet

LEMMA VictimType ==
  ASSUME NEW set \in [WaySet -> Line], NEW t, Matches(set, t) = {}
  PROVE  Victim(set, t) \in WaySet
<1> DEFINE others  == Replaceable(set, t)
           invalid == {w \in others : ~Valid(set[w])}
           counters == {set[w].counter : w \in others}
<1>1. others = WaySet /\ others # {}
  BY CacheSetAssumption DEF Replaceable, WaySet
<1>2. CASE invalid # {}
  BY <1>1, <1>2, MaxOfWays DEF Victim
<1>3. CASE invalid = {}
  <2>1. counters \subseteq Nat /\ counters # {}
    BY <1>1 DEF Line
  <2>2. PICK n \in counters : \A m \in counters : n <= m
    BY <2>1, MinCounter
  <2> DEFINE least == {w \in others : set[w].counter = n}
  <2>3. least \subseteq Nat /\ least # {}
    BY <2>2, <1>1 DEF WaySet
  <2>4. PICK x \in least : \A v \in least : x <= v
    BY <2>3, MinCounter
  <2>5. \A v \in others : \/ set[x].counter < set[v].counter
                          \/ set[x].counter = set[v].counter /\ x <= v
    <3> TAKE v \in others
    <3>1. set[v].counter \in counters
      OBVIOUS
    <3>2. n <= set[v].counter /\ set[x].counter = n /\ n \in Nat /\ set[v].counter \in Nat
      BY <2>1, <2>2, <2>4, <3>1
    <3> QED BY <3>2, <2>4
  <2> HIDE DEF others, invalid, counters, least
  <2>6. Victim(set, t) = CHOOSE w \in others : \A v \in others :
            \/ set[w].counter < set[v].counter
            \/ set[w].counter = set[v].counter /\ w <= v
    BY <1>3 DEF Victim, others, invalid
  <2>7. x \in others
    BY <2>4 DEF least
  <2> QED BY <2>5, <2>6, <2>7, <1>1
<1> QED BY <1>2, <1>3

LEMMA AgedType ==
  ASSUME NEW set \in [WaySet -> Line], NEW t
  PROVE  Aged(set, t) \in [WaySet -> Line]
BY CacheSetAssumption DEF Aged, Line

LEMMA FoundType ==
  ASSUME NEW set \in [WaySet -> Line], NEW t, Matches(set, t) # {}
  PROVE  Found(set, t) \in WaySet
BY MaxOfWays DEF Found, Matches
-----------------------------------------------------------------------------
(* The inductive invariant: types, who drives the bus, and what the kernel *)
(* has scheduled.                                                          *)

DriveLabels == {"invDrive", "wbDrive", "fillDrive", "upDrive"}

(* The processes inside an operation of the bus.                           *)
Inside == {CacheP(c) : c \in {d \in CPUs : cpc[d] \in DriveLabels}}
          \cup {C2CP(t) : t \in {u \in Threads : c2c[u] # NoThread /\ c2c[u].pc = "driving"}}
          \cup {q \in {MemP} : mpc = "driving"}

(* A process inside an operation of the bus holds the mutex, and the       *)
(* holder is the only driver of the wires.                                 *)
LockInv ==
  /\ owner = Nobody => drv = {}
  /\ owner # Nobody => \E m \in Msg : drv = {<<owner, m>>}
  /\ Inside \subseteq {owner}

(* Who runs in which phase, and why it was woken.                          *)
RunInv ==
  /\ wires # Clash
  /\ MemSnoopP \in run => phase = "edge" /\ ForMemory(wires)
  /\ \A c \in CPUs :
       /\ CacheP(c) \in run /\ phase = "delta" => func[c] # NoRequest
       /\ SnoopP(c) \in run => phase = "delta" /\ SnoopedBy(wires, c) /\ owner # Nobody
  /\ \A t \in Threads : C2CP(t) \in run /\ phase = "delta" => owner # Nobody

IInv == TypeOK /\ LockInv /\ RunInv

LEMMA ProcNames ==
  /\ \A c \in CPUs : /\ CpuP(c) \in Procs /\ CacheP(c) \in Procs /\ SnoopP(c) \in Procs
                     /\ CacheP(c) # Nobody /\ CacheP(c) # MemP
                     /\ CacheP(c) # MemSnoopP /\ SnoopP(c) # MemSnoopP
                     /\ CpuP(c) # MemSnoopP /\ SnoopP(c) # MemP
  /\ \A t \in Threads : /\ C2CP(t) \in Procs /\ C2CP(t) # Nobody
                        /\ C2CP(t) # MemP /\ C2CP(t) # MemSnoopP
  /\ MemP \in Procs /\ MemSnoopP \in Procs /\ MemP # Nobody /\ MemP # MemSnoopP
  /\ \A c, d \in CPUs : /\ CacheP(c) = CacheP(d) => c = d
                        /\ SnoopP(c) = SnoopP(d) => c = d
                        /\ CacheP(c) # SnoopP(d) /\ CacheP(c) # CpuP(d)
                        /\ CpuP(c) # SnoopP(d)
  /\ \A c \in CPUs, t \in Threads : /\ CacheP(c) # C2CP(t) /\ SnoopP(c) # C2CP(t)
                                   /\ CpuP(c) # C2CP(t)
  /\ \A t, u \in Threads : C2CP(t) = C2CP(u) => t = u
BY DEF CpuP, CacheP, SnoopP, C2CP, MemP, MemSnoopP, Nobody, Procs

LEMMA CurTypes ==
  ASSUME TypeOK, NEW c \in CPUs, cpc[c] # "idle"
  PROVE  /\ req[c] \in CpuRequest /\ req[c].addr \in Addr
         /\ SetOf(c) \in [WaySet -> Line]
         /\ Cur(c) \in Line /\ Cur(c).state \in States
         /\ WbAddr(c) \in Addr /\ LineOf(req[c].addr) \in Addr
<1>1. req[c] \in CpuRequest /\ req[c].addr \in Addr
  BY DEF TypeOK, CacheTypeOK, CpuRequest
<1>2. SetOf(c) \in [WaySet -> Line]
  BY <1>1, AddrParts DEF TypeOK, CacheTypeOK, SetOf
<1>3. Cur(c) \in Line
  BY <1>2 DEF TypeOK, CacheTypeOK, Cur
<1>4. Cur(c).state \in States /\ Cur(c).tag \in Tags
  BY <1>3 DEF Line
<1>5. WbAddr(c) \in Addr
  BY <1>1, <1>4, AddrAssumption DEF WbAddr, Addr
<1> QED BY <1>1, <1>2, <1>3, <1>4, <1>5, AddrParts

LEMMA SetCurType ==
  ASSUME TypeOK, NEW c \in CPUs, cpc[c] # "idle", NEW l \in Line, SetCur(c, l)
  PROVE  line' \in LineType
<1>1. req[c].addr.set \in Sets /\ way[c] \in WaySet /\ line \in LineType
  BY CurTypes, AddrParts DEF TypeOK, CacheTypeOK, LineType
<1> QED BY <1>1 DEF SetCur, LineType

LEMMA CurStateType ==
  ASSUME TypeOK, NEW c \in CPUs, cpc[c] # "idle", NEW s \in States, CurState(c, s)
  PROVE  line' \in LineType
<1>1. [Cur(c) EXCEPT !.state = s] \in Line
  BY CurTypes DEF Line
<1> QED BY <1>1, SetCurType DEF CurState

LEMMA LookupType ==
  ASSUME TypeOK, NEW c \in CPUs, NEW r \in CpuRequest, Lookup(c, r)
  PROVE  /\ line' \in LineType
         /\ hit' \in [CPUs -> BOOLEAN] /\ way' \in [CPUs -> WaySet]
         /\ cpc' = [cpc EXCEPT ![c] = "looked"]
<1> DEFINE set == line[c][r.addr.set]
<1>1. r.addr.set \in Sets
  BY AddrParts DEF CpuRequest
<1>2. set \in [WaySet -> Line] /\ line \in LineType
  BY <1>1 DEF TypeOK, CacheTypeOK, LineType
<1>3. Aged(set, r.addr.tag) \in [WaySet -> Line]
  BY <1>2, AgedType
<1>4. line' \in LineType
  BY <1>1, <1>2, <1>3 DEF Lookup, LineType
<1>5. Matches(set, r.addr.tag) # {} => Found(set, r.addr.tag) \in WaySet
  BY <1>2, FoundType
<1>6. Matches(set, r.addr.tag) = {} => Victim(set, r.addr.tag) \in WaySet
  BY <1>2, VictimType
<1> QED BY <1>4, <1>5, <1>6 DEF Lookup, GoTo, TypeOK, CacheTypeOK
-----------------------------------------------------------------------------
(* Types are preserved.                                                    *)

BusOK(b) == b.owner \in Procs \cup {Nobody} /\ b.drv \subseteq Procs \X Msg
BusOKAfter == owner' \in Procs \cup {Nobody} /\ drv' \subseteq Procs \X Msg

LEMMA BusesOK ==
  ASSUME TypeOK
  PROVE  BusOK(BusNow) /\ \A p : BusOK(Released(p))
BY DEF BusOK, BusNow, Released, TypeOK, BusTypeOK, SysCTypeOK

LEMMA DrivenOK ==
  ASSUME NEW b, BusOK(b), NEW p \in Procs, NEW m \in Msg
  PROVE  BusOK(Driven(b, p, m))
BY DEF BusOK, Driven

LEMMA BecomesOK ==
  ASSUME NEW b, BusOK(b), BusBecomes(b)
  PROVE  BusOKAfter
BY DEF BusOK, BusBecomes, BusOKAfter

LEMMA RequestingOK ==
  ASSUME NEW b, BusOK(b), NEW c \in CPUs, NEW a \in Addr,
         NEW f \in {"READ", "WRITE", "INVALIDATE"}, Requesting(b, f, c, a)
  PROVE  BusOKAfter
<1>1. Request(f, c, a) \in Msg
  BY DEF Request, Msg
<1>2. BusOK(Driven(b, CacheP(c), Request(f, c, a)))
  BY <1>1, DrivenOK, ProcNames
<1> QED BY <1>2, BecomesOK DEF Requesting

LEMMA TryInvalidateOK ==
  ASSUME TypeOK, NEW b, BusOK(b), NEW c \in CPUs, cpc[c] # "idle",
         NEW driving, NEW waiting, TryInvalidate(b, c, driving, waiting)
  PROVE  BusOKAfter /\ \E l \in {driving, waiting} : cpc' = [cpc EXCEPT ![c] = l]
<1>1. req[c].addr \in Addr
  BY CurTypes
<1>2. CASE Requesting(b, "INVALIDATE", c, req[c].addr) /\ GoTo(c, driving)
  BY <1>1, <1>2, RequestingOK DEF GoTo
<1>3. CASE Refused(b) /\ GoTo(c, waiting)
  BY <1>3, BecomesOK DEF GoTo, Refused
<1> QED BY <1>2, <1>3 DEF TryInvalidate

LEMMA TryReadOK ==
  ASSUME TypeOK, NEW c \in CPUs, cpc[c] # "idle", TryRead(c)
  PROVE  BusOKAfter /\ \E l \in {"fillDrive", "fillWait"} : cpc' = [cpc EXCEPT ![c] = l]
<1>1. LineOf(req[c].addr) \in Addr
  BY CurTypes
<1>2. CASE Requesting(BusNow, "READ", c, LineOf(req[c].addr)) /\ GoTo(c, "fillDrive")
  BY <1>1, <1>2, RequestingOK, BusesOK DEF GoTo
<1>3. CASE Refused(BusNow) /\ GoTo(c, "fillWait")
  BY <1>3, BecomesOK, BusesOK DEF GoTo, Refused
<1> QED BY <1>2, <1>3 DEF TryRead

LEMMA TryWriteBackOK ==
  ASSUME TypeOK, NEW c \in CPUs, cpc[c] # "idle", TryWriteBack(c)
  PROVE  BusOKAfter /\ \E l \in {"wbDrive", "wbWait"} : cpc' = [cpc EXCEPT ![c] = l]
<1>1. WbAddr(c) \in Addr
  BY CurTypes
<1>2. CASE Requesting(BusNow, "WRITE", c, WbAddr(c)) /\ GoTo(c, "wbDrive")
  BY <1>1, <1>2, RequestingOK, BusesOK DEF GoTo
<1>3. CASE Refused(BusNow) /\ GoTo(c, "wbWait")
  BY <1>3, BecomesOK, BusesOK DEF GoTo, Refused
<1> QED BY <1>2, <1>3 DEF TryWriteBack

LEMMA PostWritebackOK ==
  ASSUME TypeOK, NEW c \in CPUs, cpc[c] # "idle", PostWriteback(c)
  PROVE  /\ BusOKAfter /\ line' \in LineType
         /\ \E l \in {"fillDrive", "fillWait"} : cpc' = [cpc EXCEPT ![c] = l]
BY TryReadOK, CurStateType DEF PostWriteback, States

LEMMA FinishOK ==
  ASSUME TypeOK, NEW c \in CPUs, NEW k \in StatKinds, Finish(c, k)
  PROVE  /\ stats' \in [CPUs -> [StatKinds -> Nat]] /\ done' \subseteq CPUs
         /\ cpc' = [cpc EXCEPT ![c] = "done"]
BY DEF Finish, GoTo, TypeOK, CacheTypeOK

LEMMA FillOK ==
  ASSUME TypeOK, NEW b, BusOK(b), NEW c \in CPUs, cpc[c] # "idle",
         NEW s \in States, Fill(b, c, s)
  PROVE  /\ BusOKAfter /\ line' \in LineType
         /\ stats' \in [CPUs -> [StatKinds -> Nat]] /\ done' \subseteq CPUs
         /\ \E l \in {"done", "upDrive", "upWait"} : cpc' = [cpc EXCEPT ![c] = l]
<1> DEFINE filled == [state |-> s, tag |-> req[c].addr.tag, counter |-> MaxCounter]
<1>1. req[c].addr.tag \in Tags
  BY CurTypes, AddrParts
<1>2. filled \in Line /\ [filled EXCEPT !.state = "MODIFIED"] \in Line
  BY <1>1, CacheSetAssumption DEF Line, States
<1>3. CASE req[c].op = "READ" /\ SetCur(c, filled) /\ Finish(c, "readmiss") /\ BusBecomes(b)
  BY <1>2, <1>3, SetCurType, FinishOK, BecomesOK DEF StatKinds
<1>4. CASE /\ SetCur(c, filled) /\ TryInvalidate(b, c, "upDrive", "upWait")
           /\ UNCHANGED <<stats, done>>
  BY <1>2, <1>4, SetCurType, TryInvalidateOK DEF TypeOK, CacheTypeOK
<1>5. CASE /\ SetCur(c, [filled EXCEPT !.state = "MODIFIED"])
           /\ Finish(c, "writemiss") /\ BusBecomes(b)
  BY <1>2, <1>5, SetCurType, FinishOK, BecomesOK DEF StatKinds
<1> QED BY <1>3, <1>4, <1>5 DEF Fill

(* A step of execute() that does not take a new request.                   *)
LEMMA StepType ==
  ASSUME TypeOK, NEW c \in CPUs, cpc[c] # "idle",
         \E l \in Labels : cpc' = [cpc EXCEPT ![c] = l],
         UNCHANGED <<req, hit, way, c2c, func>>,
         line' \in LineType, res' \in [CPUs -> {"EXCLUSIVE", "SHARED"}],
         stats' \in [CPUs -> [StatKinds -> Nat]], done' \subseteq CPUs
  PROVE  CacheTypeOK'
BY DEF TypeOK, CacheTypeOK, LineType

LEMMA Unidle ==
  ASSUME NEW c \in CPUs, NEW l, ExecuteStep(c, l)
  PROVE  /\ cpc[c] = l /\ UNCHANGED <<intended, c2c_intended, c2c, func>>
         /\ phase = "edge" /\ CacheP(c) \in run /\ run' = run \ {CacheP(c)}
         /\ UNCHANGED <<clk, phase, wires>>
BY DEF ExecuteStep, Step, Spawning

LEMMA ExecuteType ==
  ASSUME IInv, NEW c \in CPUs, Execute(c)
  PROVE  CacheTypeOK' /\ BusOKAfter
<1> USE DEF Labels, ClockLabels, NegLabels, AnswerLabels, localVars
<1>a. TypeOK
  BY DEF IInv
<1>b. /\ line \in LineType /\ stats \in [CPUs -> [StatKinds -> Nat]] /\ done \subseteq CPUs
      /\ res \in [CPUs -> {"EXCLUSIVE", "SHARED"}]
  BY <1>a DEF TypeOK, CacheTypeOK, LineType
<1>c. UNCHANGED busVars => BusOKAfter
  BY <1>a DEF TypeOK, SysCTypeOK, BusTypeOK, busVars, BusOKAfter
<1>d. \A p : BusBecomes(Released(p)) => BusOKAfter
  BY <1>a, BusesOK, BecomesOK
<1>1. CASE Accept(c)
  <2>1. CacheP(c) \in run /\ phase = "delta"
    BY <1>1 DEF Accept, Step, Spawning
  <2>2. func[c] \in CpuRequest
    BY <1>a, <2>1 DEF IInv, RunInv, TypeOK, CacheTypeOK
  <2>3. /\ Lookup(c, func[c]) /\ req' = [req EXCEPT ![c] = func[c]]
        /\ UNCHANGED <<drv, owner, res, c2c, stats, func, done>>
    BY <1>1 DEF Accept
  <2>4. CacheTypeOK'
    BY <1>a, <2>2, <2>3, LookupType DEF TypeOK, CacheTypeOK, LineType
  <2> QED BY <1>c, <2>3, <2>4 DEF busVars
<1>2. CASE HitWrite(c)
  <2>1. cpc[c] # "idle"
    BY <1>2, Unidle DEF HitWrite
  <2>2. [Cur(c) EXCEPT !.counter = MaxCounter] \in Line
    BY <1>a, <2>1, CurTypes, CacheSetAssumption DEF Line
  <2>3. line' \in LineType
    BY <1>a, <1>2, <2>1, <2>2, SetCurType DEF HitWrite
  <2>4. BusOKAfter /\ \E l \in {"invDrive", "invWait"} : cpc' = [cpc EXCEPT ![c] = l]
    BY <1>a, <1>2, <2>1, TryInvalidateOK, BusesOK DEF HitWrite
  <2> QED BY <1>a, <1>b, <1>2, <2>1, <2>3, <2>4, StepType, Unidle DEF HitWrite
<1>3. CASE HitRead(c)
  <2>1. cpc[c] # "idle"
    BY <1>3, Unidle DEF HitRead
  <2>2. [Cur(c) EXCEPT !.counter = MaxCounter] \in Line
    BY <1>a, <2>1, CurTypes, CacheSetAssumption DEF Line
  <2>3. line' \in LineType
    BY <1>a, <1>3, <2>1, <2>2, SetCurType DEF HitRead
  <2> QED BY <1>a, <1>b, <1>c, <1>3, <2>1, <2>3, StepType, Unidle DEF HitRead, GoTo
<1>4. CASE MissDirty(c)
  <2>1. cpc[c] # "idle"
    BY <1>4, Unidle DEF MissDirty
  <2> QED BY <1>a, <1>b, <1>4, <2>1, StepType, TryWriteBackOK, Unidle DEF MissDirty
<1>5. CASE MissClean(c)
  <2>1. cpc[c] # "idle"
    BY <1>5, Unidle DEF MissClean
  <2> QED BY <1>a, <1>b, <1>5, <2>1, StepType, PostWritebackOK, Unidle DEF MissClean
<1>6. CASE InvalidateWait(c)
  <2>1. PICK l \in {<<"invWait", "invNeg">>, <<"upWait", "upNeg">>} :
          ExecuteStep(c, l[1]) /\ GoTo(c, l[2])
          /\ UNCHANGED <<localVars, line, stats, done, busVars>>
    BY <1>6 DEF InvalidateWait
  <2>2. cpc[c] # "idle"
    BY <2>1, Unidle
  <2>3. l[2] \in Labels
    OBVIOUS
  <2>4. \E k \in Labels : cpc' = [cpc EXCEPT ![c] = k]
    BY <2>1, <2>3 DEF GoTo
  <2> QED BY <1>a, <1>b, <1>c, <2>1, <2>2, <2>4, StepType, Unidle
<1>7. CASE Invalidated(c)
  <2>1. PICK l \in {<<"invNeg", "recheck">>, <<"readNeg", "recheck">>, <<"upNeg", "refill">>} :
          ExecuteStep(c, l[1]) /\ GoTo(c, l[2])
          /\ UNCHANGED <<localVars, line, stats, done, busVars>>
    BY <1>7 DEF Invalidated
  <2>2. cpc[c] # "idle"
    BY <2>1, Unidle
  <2>3. l[2] \in Labels
    OBVIOUS
  <2>4. \E k \in Labels : cpc' = [cpc EXCEPT ![c] = k]
    BY <2>1, <2>3 DEF GoTo
  <2> QED BY <1>a, <1>b, <1>c, <2>1, <2>2, <2>4, StepType, Unidle
<1>8. CASE RetryInvalidate(c)
  <2>1. PICK l \in {<<"invNeg", "invDrive", "invWait">>, <<"upNeg", "upDrive", "upWait">>} :
          /\ ExecuteStep(c, l[1])
          /\ TryInvalidate(BusNow, c, l[2], l[3])
          /\ UNCHANGED <<localVars, line, stats, done>>
    BY <1>8 DEF RetryInvalidate
  <2>2. cpc[c] # "idle"
    BY <2>1, Unidle
  <2>3. BusOKAfter /\ \E k \in {l[2], l[3]} : cpc' = [cpc EXCEPT ![c] = k]
    BY <1>a, <2>1, <2>2, TryInvalidateOK, BusesOK
  <2>4. l[2] \in Labels /\ l[3] \in Labels
    OBVIOUS
  <2>5. \E k \in Labels : cpc' = [cpc EXCEPT ![c] = k]
    BY <2>3, <2>4
  <2> QED BY <1>a, <1>b, <2>1, <2>2, <2>3, <2>5, StepType, Unidle
<1>9. CASE ReadHit(c)
  <2>1. cpc[c] # "idle"
    BY <1>9, Unidle DEF ReadHit
  <2>2. Finish(c, "readhit") /\ UNCHANGED <<req, hit, way, res, line, busVars>>
    BY <1>9 DEF ReadHit
  <2>3. /\ stats' \in [CPUs -> [StatKinds -> Nat]] /\ done' \subseteq CPUs
        /\ cpc' = [cpc EXCEPT ![c] = "done"]
    BY <1>a, <2>2, FinishOK DEF StatKinds
  <2> QED BY <1>a, <1>b, <1>c, <1>9, <2>1, <2>2, <2>3, StepType, Unidle DEF ReadHit
<1>10. CASE Recheck(c)
  <2>1. cpc[c] # "idle"
    BY <1>10, Unidle DEF Recheck
  <2>2. /\ Lookup(c, req[c]) /\ UNCHANGED <<req, res, stats, done, busVars, c2c, func>>
    BY <1>10, Unidle DEF Recheck
  <2>3. CacheTypeOK'
    BY <1>a, <2>1, <2>2, CurTypes, LookupType DEF TypeOK, CacheTypeOK, LineType
  <2> QED BY <1>c, <2>2, <2>3
<1>11. CASE WriteDone(c)
  <2>1. PICK l \in {<<"invDrive", "writehit">>, <<"upDrive", "writemiss">>} :
          /\ ExecuteStep(c, l[1])
          /\ BusBecomes(Released(CacheP(c)))
          /\ CurState(c, "MODIFIED")
          /\ Finish(c, l[2])
          /\ UNCHANGED localVars
    BY <1>11 DEF WriteDone
  <2>2. cpc[c] # "idle"
    BY <2>1, Unidle
  <2>3. /\ stats' \in [CPUs -> [StatKinds -> Nat]] /\ done' \subseteq CPUs
        /\ cpc' = [cpc EXCEPT ![c] = "done"]
    BY <1>a, <2>1, FinishOK DEF StatKinds
  <2>4. line' \in LineType
    BY <1>a, <2>1, <2>2, CurStateType DEF States
  <2> QED BY <1>a, <1>b, <1>d, <2>1, <2>2, <2>3, <2>4, StepType, Unidle
<1>12. CASE RetryWriteBack(c)
  <2>1. cpc[c] # "idle"
    BY <1>12, Unidle DEF RetryWriteBack
  <2> QED BY <1>a, <1>b, <1>12, <2>1, StepType, TryWriteBackOK, PostWritebackOK, Unidle
          DEF RetryWriteBack
<1>13. CASE WriteBackSent(c)
  <2>1. cpc[c] # "idle"
    BY <1>13, Unidle DEF WriteBackSent
  <2> QED BY <1>a, <1>b, <1>d, <1>13, <2>1, StepType, Unidle DEF WriteBackSent, GoTo
<1>14. CASE WriteBackAnswered(c)
  <2>1. cpc[c] # "idle"
    BY <1>14, Unidle DEF WriteBackAnswered
  <2> QED BY <1>a, <1>b, <1>14, <2>1, StepType, PostWritebackOK, Unidle DEF WriteBackAnswered
<1>15. CASE RetryRead(c)
  <2>1. cpc[c] # "idle"
    BY <1>15, Unidle DEF RetryRead
  <2> QED BY <1>a, <1>b, <1>15, <2>1, StepType, TryReadOK, PostWritebackOK, Unidle
          DEF RetryRead
<1>16. CASE ReadSent(c)
  <2>1. cpc[c] # "idle"
    BY <1>16, Unidle DEF ReadSent
  <2>2. CASE GoTo(c, "fillAnswer")
    BY <1>a, <1>b, <1>d, <1>16, <2>1, <2>2, FillOK, BusesOK, CurTypes, StepType, Unidle
       DEF ReadSent, GoTo
  <2>3. CASE Fill(Released(CacheP(c)), c, Cur(c).state) /\ UNCHANGED localVars
    BY <1>a, <1>b, <1>16, <2>1, <2>3, FillOK, BusesOK, CurTypes, StepType, Unidle
       DEF ReadSent
  <2> QED BY <1>16, <2>2, <2>3 DEF ReadSent
<1>17. CASE ReadContended(c)
  <2>1. cpc[c] # "idle" /\ cpc' = cpc
    BY <1>17, Unidle DEF ReadContended
  <2>2. /\ res' = [res EXCEPT ![c] = "SHARED"]
        /\ UNCHANGED <<cpc, req, hit, way, line, stats, done, busVars, c2c, func>>
    BY <1>17, Unidle DEF ReadContended
  <2> QED BY <1>a, <1>c, <2>2 DEF TypeOK, CacheTypeOK
<1>18. CASE ReadAnswered(c)
  <2>1. cpc[c] # "idle"
    BY <1>18, Unidle DEF ReadAnswered
  <2>2. (IF wires.src # "DRAM" THEN "SHARED" ELSE res[c]) \in States
    BY <1>b DEF States
  <2>3. /\ BusOKAfter /\ line' \in LineType
        /\ stats' \in [CPUs -> [StatKinds -> Nat]] /\ done' \subseteq CPUs
        /\ \E l \in {"done", "upDrive", "upWait"} : cpc' = [cpc EXCEPT ![c] = l]
    BY <1>a, <1>18, <2>1, <2>2, FillOK, BusesOK DEF ReadAnswered
  <2> QED BY <1>a, <1>b, <1>18, <2>1, <2>3, StepType, Unidle DEF ReadAnswered
<1>19. CASE Done(c)
  <2>1. /\ cpc' = [cpc EXCEPT ![c] = "idle"] /\ req' = [req EXCEPT ![c] = NoRequest]
        /\ hit' = [hit EXCEPT ![c] = FALSE] /\ way' = [way EXCEPT ![c] = 1]
        /\ UNCHANGED <<res, line, stats, done, busVars, c2c, func>>
    BY <1>19, Unidle DEF Done, GoTo
  <2>2. CacheTypeOK'
    BY <1>a, <2>1, CacheSetAssumption DEF TypeOK, CacheTypeOK, WaySet
  <2> QED BY <1>c, <2>1, <2>2
<1> QED BY <1>1, <1>2, <1>3, <1>4, <1>5, <1>6, <1>7, <1>8, <1>9, <1>10, <1>11, <1>12,
           <1>13, <1>14, <1>15, <1>16, <1>17, <1>18, <1>19 DEF Execute

(* A snooper only runs for a proper message.                               *)
LEMMA SnoopedMsg ==
  ASSUME IInv, NEW c \in CPUs, SnoopP(c) \in run
  PROVE  wires \in Msg /\ wires.addr \in Addr /\ wires.id \in CPUs
<1>1. SnoopedBy(wires, c)
  BY DEF IInv, RunInv
<1>2. wires # NoMsg /\ wires # Clash
  BY <1>1 DEF SnoopedBy, NoMsg, Clash
<1>3. wires \in Msg
  BY <1>2 DEF IInv, TypeOK, SysCTypeOK
<1> QED BY <1>3 DEF Msg

LEMMA SnoopedWayType ==
  ASSUME IInv, NEW c \in CPUs, SnoopP(c) \in run, Snooped(c) # {}
  PROVE  /\ SnoopedWay(c) \in WaySet /\ wires.addr.set \in Sets
         /\ line[c][wires.addr.set][SnoopedWay(c)] \in Line
<1>1. wires.addr.set \in Sets
  BY SnoopedMsg, AddrParts
<1>2. SnoopedWay(c) \in WaySet
  BY MaxOfWays DEF SnoopedWay, Snooped, Matches
<1> QED BY <1>1, <1>2 DEF IInv, TypeOK, CacheTypeOK

LEMMA SnoopStateType ==
  ASSUME IInv, NEW c \in CPUs, SnoopP(c) \in run, Snooped(c) # {},
         NEW s \in States, SnoopState(c, s)
  PROVE  line' \in LineType
<1> DEFINE x == wires.addr.set
           w == SnoopedWay(c)
<1>1. x \in Sets /\ w \in WaySet /\ line[c][x][w] \in Line /\ line \in LineType
  BY SnoopedWayType DEF IInv, TypeOK, CacheTypeOK, LineType
<1>2. [line[c][x][w] EXCEPT !.state = s] \in Line
  BY <1>1 DEF Line
<1>3. line' = [line EXCEPT ![c][x][w] = [line[c][x][w] EXCEPT !.state = s]]
  BY <1>1 DEF SnoopState, LineType
<1> HIDE DEF x, w
<1> QED BY <1>1, <1>2, <1>3 DEF LineType

LEMMA SnoopType ==
  ASSUME IInv, NEW c \in CPUs, Snoop(c)
  PROVE  CacheTypeOK' /\ UNCHANGED <<owner, drv, intended, c2c_intended>>
<1> USE DEF localVars, portVars
<1>a. CacheTypeOK
  BY DEF IInv, TypeOK
<1>1. CASE SnoopMiss(c)
  BY <1>a, <1>1 DEF SnoopMiss, SnoopStep, CacheTypeOK
<1>2. CASE SnoopInvalidate(c)
  <2>1. SnoopP(c) \in run /\ SnoopState(c, "INVALID") /\ Snooped(c) # {}
    BY <1>2 DEF SnoopInvalidate, SnoopStep, Spawning
  <2>2. line' \in LineType
    BY <2>1, SnoopStateType DEF States
  <2> QED BY <1>a, <1>2, <2>2 DEF SnoopInvalidate, SnoopStep, CacheTypeOK, LineType
<1>3. CASE SnoopRead(c)
  <2>1. PICK j \in Slots :
          /\ SnoopStep(c, {C2CP(<<c, j>>)})
          /\ Snooped(c) # {}
          /\ c2c' = [c2c EXCEPT ![<<c, j>>] =
                    [pc |-> "start", id |-> wires.id, addr |-> wires.addr,
                     way |-> SnoopedWay(c)]]
          /\ IF line[c][wires.addr.set][SnoopedWay(c)].state = "REQUESTED"
             THEN SnoopState(c, "SHARED")
             ELSE UNCHANGED line
    BY <1>3 DEF SnoopRead
  <2>2. SnoopP(c) \in run
    BY <2>1 DEF SnoopStep, Spawning
  <2>3. [pc |-> "start", id |-> wires.id, addr |-> wires.addr, way |-> SnoopedWay(c)]
          \in Thread
    BY <2>1, <2>2, SnoopedMsg, SnoopedWayType DEF Thread
  <2>4. line' \in LineType
    BY <1>a, <2>1, <2>2, SnoopStateType DEF States, CacheTypeOK, LineType
  <2>5. c2c' \in [Threads -> Thread \cup {NoThread}]
    BY <1>a, <2>1, <2>3 DEF CacheTypeOK
  <2> QED BY <1>a, <2>1, <2>4, <2>5 DEF SnoopStep, CacheTypeOK, LineType
<1> QED BY <1>1, <1>2, <1>3 DEF Snoop

LEMMA C2CMsgType ==
  ASSUME IInv, NEW t \in Threads, c2c[t] # NoThread
  PROVE  C2CLine(t) \in Line /\ C2CMsg(t) \in Msg
         /\ c2c[t] \in Thread /\ t[1] \in CPUs
         /\ c2c[t].addr.set \in Sets /\ c2c[t].way \in WaySet
<1>1. c2c[t] \in Thread /\ t[1] \in CPUs
  BY DEF IInv, TypeOK, CacheTypeOK, Threads
<1>2. c2c[t].addr \in Addr /\ c2c[t].id \in CPUs /\ c2c[t].way \in WaySet
  BY <1>1 DEF Thread
<1>3. c2c[t].addr.set \in Sets
  BY <1>2, AddrParts
<1>4. C2CLine(t) \in Line
  BY <1>1, <1>2, <1>3 DEF IInv, TypeOK, CacheTypeOK, C2CLine
<1>5. C2CMsg(t) \in Msg
  BY <1>1, <1>2 DEF C2CMsg, Msg
<1> QED BY <1>1, <1>2, <1>3, <1>4, <1>5

LEMMA C2CTryLockType ==
  ASSUME IInv, NEW t \in Threads, c2c[t] # NoThread, C2CTryLock(t)
  PROVE  /\ line' \in LineType /\ BusOKAfter
         /\ c2c' \in [Threads -> Thread \cup {NoThread}]
<1>0. /\ line \in LineType /\ c2c \in [Threads -> Thread \cup {NoThread}] /\ TypeOK
  BY DEF IInv, TypeOK, CacheTypeOK, LineType
<1>1. \A l \in {"driving", "lock"} : [c2c[t] EXCEPT !.pc = l] \in Thread
  BY C2CMsgType DEF Thread
<1>2. CASE /\ BusBecomes(Driven(BusNow, C2CP(t), C2CMsg(t)))
           /\ line' = [line EXCEPT ![t[1]][c2c[t].addr.set][c2c[t].way].state =
                   AfterAnswer(@)]
           /\ c2c' = [c2c EXCEPT ![t].pc = "driving"]
  <2>1. BusOKAfter
    BY <1>0, <1>2, C2CMsgType, BusesOK, DrivenOK, BecomesOK, ProcNames
  <2>2. c2c' \in [Threads -> Thread \cup {NoThread}]
    BY <1>0, <1>1, <1>2
  <2> DEFINE c == t[1]
             x == c2c[t].addr.set
             w == c2c[t].way
             l == [line[c][x][w] EXCEPT !.state = AfterAnswer(@)]
  <2>3. c \in CPUs /\ x \in Sets /\ w \in WaySet /\ line[c][x][w] \in Line
    BY C2CMsgType DEF C2CLine
  <2>4. line[c][x][w].state \in States
    BY <2>3 DEF Line
  <2>5. AfterAnswer(line[c][x][w].state) \in States
    BY <2>4 DEF AfterAnswer, States
  <2>6. l \in Line
    BY <2>3, <2>5 DEF Line
  <2>7. line' = [line EXCEPT ![c][x][w] = l]
    BY <1>0, <1>2, <2>3 DEF LineType, Line
  <2> HIDE DEF c, x, w, l
  <2>8. line' \in LineType
    BY <1>0, <2>3, <2>6, <2>7 DEF LineType
  <2> QED BY <2>1, <2>2, <2>8
<1>3. CASE /\ c2c' = [c2c EXCEPT ![t].pc = "lock"]
           /\ UNCHANGED <<line, busVars>>
  BY <1>0, <1>1, <1>3 DEF busVars, BusOKAfter, TypeOK, SysCTypeOK, BusTypeOK
<1> QED BY <1>2, <1>3 DEF C2CTryLock

LEMMA CacheToCacheType ==
  ASSUME IInv, NEW t \in Threads, CacheToCache(t)
  PROVE  CacheTypeOK' /\ BusOKAfter
<1> USE DEF C2CStep, localVars, portVars
<1>a. CacheTypeOK /\ TypeOK
  BY DEF IInv, TypeOK
<1>1. CASE C2CStart(t)
  BY <1>a, <1>1, C2CTryLockType DEF C2CStart, CacheTypeOK, LineType
<1>2. CASE C2CLock(t)
  BY <1>a, <1>2, C2CTryLockType DEF C2CLock, CacheTypeOK, LineType
<1>3. CASE C2CEnd(t)
  <2>1. BusOKAfter
    BY <1>a, <1>3, BusesOK, BecomesOK DEF C2CEnd
  <2> QED BY <1>a, <1>3, <2>1 DEF C2CEnd, CacheTypeOK
<1> QED BY <1>1, <1>2, <1>3 DEF CacheToCache

LEMMA CpuType ==
  ASSUME TypeOK, NEW c \in CPUs, Cpu(c)
  PROVE  CpuTypeOK' /\ CacheTypeOK' /\ UNCHANGED <<busVars, flagVars, cpc, c2c>>
<1> USE DEF CpuStep, localVars, cpuVars, CpuLabels
<1>a. CpuTypeOK /\ CacheTypeOK
  BY DEF TypeOK
<1>1. CASE CpuIssue(c)
  <2>1. PICK r \in CpuRequest :
          /\ func' = [func EXCEPT ![c] = r]
          /\ ppc' = [ppc EXCEPT ![c] = IF r.op = "WRITE" THEN "write" ELSE "wait"]
    BY <1>1 DEF CpuIssue
  <2>2. func' \in [CPUs -> CpuRequest \cup {NoRequest}]
    BY <1>a, <2>1 DEF CacheTypeOK
  <2>3. ppc' \in [CPUs -> CpuLabels]
    BY <1>a, <2>1 DEF CpuTypeOK
  <2>4. left' \in [CPUs -> Nat]
    BY <1>a, <1>1 DEF CpuIssue, CpuTypeOK
  <2> QED BY <1>a, <1>1, <2>2, <2>3, <2>4 DEF CpuIssue, CpuTypeOK, CacheTypeOK
<1>2. CASE CpuNop(c)
  BY <1>a, <1>2 DEF CpuNop, CpuTypeOK, CacheTypeOK
<1>3. CASE CpuTraceEnd(c)
  BY <1>a, <1>3 DEF CpuTraceEnd, CpuTypeOK, CacheTypeOK
<1>4. CASE CpuStop(c)
  BY <1>a, <1>4 DEF CpuStop, CpuTypeOK, CacheTypeOK
<1>5. CASE CpuWriteSent(c)
  BY <1>a, <1>5 DEF CpuWriteSent, CpuTypeOK, CacheTypeOK
<1>6. CASE CpuDone(c)
  BY <1>a, <1>6 DEF CpuDone, CpuTypeOK, CacheTypeOK
<1> QED BY <1>1, <1>2, <1>3, <1>4, <1>5, <1>6 DEF Cpu

LEMMA QueueOps ==
  ASSUME NEW q \in Seq(MemReq)
  PROVE  /\ \A r \in MemReq : Append(q, r) \in Seq(MemReq)
         /\ q # << >> => Head(q) \in MemReq /\ Tail(q) \in Seq(MemReq)
OBVIOUS

LEMMA MemAnswerType ==
  ASSUME TypeOK, Serving
  PROVE  MemAnswer \in Msg
BY DEF TypeOK, MemTypeOK, MemReq, MemAnswer, Msg

LEMMA NextRequestType ==
  ASSUME MemTypeOK, NEW l \in {LatFresh, LatQueued}, NextRequest(l)
  PROVE  MemTypeOK' /\ mpc' # "driving"
<1>1. CASE queue = << >>
  BY <1>1, LatAssumption DEF NextRequest, MemTypeOK, MemLabels, Serving
<1>2. CASE queue # << >>
  <2>1. Head(queue) \in MemReq /\ Tail(queue) \in Seq(MemReq)
    BY <1>2, QueueOps DEF MemTypeOK
  <2> QED BY <1>2, <2>1, LatAssumption DEF NextRequest, MemTypeOK, MemLabels, Serving
<1> QED BY <1>1, <1>2

LEMMA MemRespondType ==
  ASSUME TypeOK, Serving, MemTryLock \/ MemRespond
  PROVE  /\ BusOKAfter /\ intended' \in BOOLEAN
         /\ mpc' \in {"c2c", "lock", "driving"}
<1>1. CASE MemTryLock
  BY <1>1, MemAnswerType, BusesOK, DrivenOK, BecomesOK, ProcNames
     DEF MemTryLock, busVars, BusOKAfter, TypeOK, SysCTypeOK, BusTypeOK
<1>2. CASE c2c_intended /\ mpc' = "c2c" /\ UNCHANGED <<drv, owner, intended>>
  BY <1>2 DEF BusOKAfter, TypeOK, SysCTypeOK, BusTypeOK
<1> QED BY <1>1, <1>2 DEF MemRespond

LEMMA MemType ==
  ASSUME IInv, MemExecute \/ MemSnoop
  PROVE  MemTypeOK' /\ BusOKAfter /\ intended' \in BOOLEAN /\ UNCHANGED c2c_intended
<1>a. MemTypeOK /\ TypeOK /\ RunInv
  BY DEF IInv, TypeOK
<1>b. UNCHANGED <<drv, owner, intended>> => BusOKAfter /\ intended' \in BOOLEAN
  BY <1>a DEF TypeOK, SysCTypeOK, BusTypeOK, BusOKAfter
<1>1. CASE MemSnoop
  <2>1. MemSnoopP \in run
    BY <1>1 DEF MemSnoop, Step, Spawning
  <2>2. ForMemory(wires) /\ wires # Clash
    BY <1>a, <2>1 DEF RunInv
  <2>3. wires # NoMsg
    BY <2>2 DEF ForMemory, NoMsg
  <2>4. wires \in Msg
    BY <1>a, <2>2, <2>3 DEF TypeOK, SysCTypeOK
  <2>5. [id |-> wires.id, addr |-> wires.addr] \in MemReq
    BY <2>4 DEF Msg, MemReq
  <2>6. queue' \in Seq(MemReq)
    BY <1>a, <1>1, <2>5, QueueOps DEF MemSnoop, MemTypeOK
  <2> QED BY <1>a, <1>b, <1>1, <2>6 DEF MemSnoop, MemTypeOK, Serving
<1>2. CASE MemWake
  BY <1>a, <1>b, <1>2 DEF MemWake, MemTypeOK, MemLabels, Serving
<1>3. CASE MemFetch
  BY <1>a, <1>b, <1>3, NextRequestType DEF MemFetch, MemTypeOK
<1>4. CASE MemDelay
  <2>1. Serving /\ count \in Nat /\ mreq \in MemReq
    BY <1>a, <1>4 DEF MemDelay, Serving, MemTypeOK
  <2>2. CASE count > 1 /\ UNCHANGED <<mpc, drv, owner, intended>>
    BY <1>a, <1>b, <1>4, <2>1, <2>2 DEF MemDelay, MemTypeOK, Serving
  <2>3. CASE count = 1 /\ MemRespond
    BY <1>a, <1>4, <2>1, <2>3, MemRespondType DEF MemDelay, MemTypeOK, MemLabels, Serving
  <2> QED BY <1>4, <2>2, <2>3 DEF MemDelay
<1>5. CASE MemC2C
  <2>1. Serving
    BY <1>5 DEF MemC2C, Serving
  <2> QED BY <1>a, <1>5, <2>1, MemRespondType DEF MemC2C, MemTypeOK, MemLabels, Serving
<1>6. CASE MemLock
  <2>1. Serving
    BY <1>6 DEF MemLock, Serving
  <2> QED BY <1>a, <1>6, <2>1, MemRespondType DEF MemLock, MemTypeOK, MemLabels, Serving
<1>7. CASE MemRelease
  BY <1>a, <1>7, NextRequestType, BusesOK, BecomesOK DEF MemRelease
<1> QED BY <1>1, <1>2, <1>3, <1>4, <1>5, <1>6, <1>7 DEF MemExecute

(* What the wires carry is well formed: one driver, or none.               *)
LEMMA ResolveType ==
  ASSUME IInv
  PROVE  /\ Resolve(drv) \in Msg \cup {NoMsg} /\ Resolve(drv) # Clash
         /\ Resolve(drv) # NoMsg => owner # Nobody
<1>1. \A m \in Msg : m # Clash /\ m # NoMsg
  BY DEF Msg, Clash, NoMsg
<1>2. NoMsg # Clash
  BY DEF NoMsg, Clash
<1>3. CASE drv = {}
  BY <1>2, <1>3 DEF Resolve
<1>4. CASE drv # {}
  <2>1. owner # Nobody
    BY <1>4 DEF IInv, LockInv
  <2>2. PICK m \in Msg : drv = {<<owner, m>>}
    BY <2>1 DEF IInv, LockInv
  <2>3. Resolve(drv) = m
    <3>1. <<owner, m>> \in drv /\ \E x \in drv : drv = {x}
      BY <2>2
    <3>2. (CHOOSE x \in drv : TRUE) \in drv
      BY <3>1
    <3>3. (CHOOSE x \in drv : TRUE) = <<owner, m>>
      BY <2>2, <3>2
    <3> QED BY <1>4, <3>1, <3>3 DEF Resolve
  <2> QED BY <1>1, <2>1, <2>3
<1> QED BY <1>3, <1>4

-----------------------------------------------------------------------------
(* What a step does to the bus: nothing, take it when it is free (or was   *)
(* one's own), or give it up.                                              *)

Kept == UNCHANGED <<owner, drv>>
Taken(p) == owner \in {Nobody, p} /\ owner' = p /\ \E m \in Msg : drv' = {<<p, m>>}
GivenUp(p) == owner = p /\ owner' = Nobody /\ drv' = {}

(* b is the bus as it is, or as its holder leaves it.                      *)
Clear(b, p) == \/ b = BusNow
               \/ owner = p /\ b = [owner |-> Nobody, drv |-> {}]

LEMMA ReleasedClear ==
  ASSUME LockInv, NEW p, owner = p, p # Nobody
  PROVE  Released(p) = [owner |-> Nobody, drv |-> {}] /\ Clear(Released(p), p)
BY DEF LockInv, Released, Clear

LEMMA ReleasedGivenUp ==
  ASSUME LockInv, NEW p, owner = p, p # Nobody, BusBecomes(Released(p))
  PROVE  GivenUp(p)
BY ReleasedClear DEF BusBecomes, GivenUp

LEMMA DrivenTaken ==
  ASSUME LockInv, NEW p, NEW b, Clear(b, p), Free(b), NEW m \in Msg,
         BusBecomes(Driven(b, p, m))
  PROVE  Taken(p)
<1>1. b.owner = Nobody /\ b.drv = {} /\ owner \in {Nobody, p}
  BY DEF LockInv, Clear, Free, BusNow
<1>2. owner' = p /\ drv' = {<<p, m>>}
  BY <1>1 DEF BusBecomes, Driven
<1> QED BY <1>1, <1>2 DEF Taken

LEMMA RequestingTaken ==
  ASSUME LockInv, NEW c \in CPUs, NEW b, Clear(b, CacheP(c)), NEW a \in Addr,
         NEW f \in {"READ", "WRITE", "INVALIDATE"}, Requesting(b, f, c, a)
  PROVE  Taken(CacheP(c))
<1>1. Request(f, c, a) \in Msg
  BY DEF Request, Msg
<1> QED BY <1>1, DrivenTaken DEF Requesting, MayRequest

(* Whether execute() is between driving a request and releasing the bus.   *)
LEMMA RefusedOutcome ==
  ASSUME LockInv, NEW p, p # Nobody, NEW b, Clear(b, p), BusBecomes(b)
  PROVE  IF b = BusNow THEN Kept ELSE GivenUp(p)
BY DEF Clear, BusBecomes, BusNow, Kept, GivenUp

Outcome(b, c) == IF b = BusNow THEN Kept ELSE GivenUp(CacheP(c))

LEMMA TryOutcome ==
  ASSUME IInv, NEW c \in CPUs, cpc[c] # "idle", NEW b, Clear(b, CacheP(c))
  PROVE  /\ \A d, w : TryInvalidate(b, c, d, w) =>
              Taken(CacheP(c)) \/ (Outcome(b, c) /\ cpc'[c] = w)
         /\ TryWriteBack(c) => Taken(CacheP(c)) \/ (Kept /\ cpc'[c] = "wbWait")
         /\ TryRead(c) => Taken(CacheP(c)) \/ (Kept /\ cpc'[c] = "fillWait")
<1> USE DEF IInv
<1>1. /\ req[c].addr \in Addr /\ WbAddr(c) \in Addr /\ LineOf(req[c].addr) \in Addr
      /\ cpc \in [CPUs -> Labels] /\ LockInv /\ Clear(BusNow, CacheP(c))
  BY CurTypes DEF TypeOK, CacheTypeOK, Clear
<1>2. \A l : GoTo(c, l) => cpc'[c] = l
  BY <1>1 DEF GoTo
<1>3. Refused(b) => Outcome(b, c)
  BY <1>1, RefusedOutcome, ProcNames DEF Refused, Outcome
<1>4. Refused(BusNow) => Kept
  BY DEF Refused, BusBecomes, BusNow, Kept
<1>5. \A d, w : TryInvalidate(b, c, d, w) =>
        Taken(CacheP(c)) \/ (Outcome(b, c) /\ cpc'[c] = w)
  BY <1>1, <1>2, <1>3, RequestingTaken DEF TryInvalidate
<1>6. TryWriteBack(c) => Taken(CacheP(c)) \/ (Kept /\ cpc'[c] = "wbWait")
  BY <1>1, <1>2, <1>4, RequestingTaken DEF TryWriteBack
<1>7. TryRead(c) => Taken(CacheP(c)) \/ (Kept /\ cpc'[c] = "fillWait")
  BY <1>1, <1>2, <1>4, RequestingTaken DEF TryRead
<1> QED BY <1>5, <1>6, <1>7

LEMMA FillOutcome ==
  ASSUME IInv, NEW c \in CPUs, cpc[c] # "idle", NEW b, Clear(b, CacheP(c)),
         NEW s, Fill(b, c, s)
  PROVE  Taken(CacheP(c)) \/ (Outcome(b, c) /\ cpc'[c] \notin DriveLabels)
<1>1. \A k : Finish(c, k) => cpc'[c] = "done"
  BY DEF Finish, GoTo, IInv, TypeOK, CacheTypeOK
<1>2. BusBecomes(b) => Outcome(b, c)
  BY RefusedOutcome, ProcNames DEF IInv, Outcome
<1>3. TryInvalidate(b, c, "upDrive", "upWait") =>
        Taken(CacheP(c)) \/ (Outcome(b, c) /\ cpc'[c] = "upWait")
  BY TryOutcome
<1> QED BY <1>1, <1>2, <1>3 DEF Fill, DriveLabels

(* The bus and the wait of a cache move together.                          *)
Moves(c) ==
  \/ Kept /\ cpc[c] \notin DriveLabels /\ cpc'[c] \notin DriveLabels
  \/ Taken(CacheP(c))
  \/ GivenUp(CacheP(c)) /\ cpc'[c] \notin DriveLabels

LEMMA ExecuteMoves ==
  ASSUME IInv, NEW c \in CPUs, Execute(c)
  PROVE  /\ Moves(c) /\ (phase = "delta" => Kept)
         /\ \A d \in CPUs \ {c} : cpc'[d] = cpc[d]
         /\ UNCHANGED <<c2c, func>>
<1> USE DEF DriveLabels
<1>a. cpc \in [CPUs -> Labels] /\ LockInv
  BY DEF IInv, TypeOK, CacheTypeOK
<1>b. Clear(BusNow, CacheP(c)) /\ Outcome(BusNow, c) = Kept
  BY DEF Clear, Outcome
<1>c. UNCHANGED busVars => Kept
  BY DEF busVars, Kept
<1>d. \A l : GoTo(c, l) => cpc'[c] = l /\ \A d \in CPUs \ {c} : cpc'[d] = cpc[d]
  BY <1>a DEF GoTo
<1>e. \A k : Finish(c, k) => cpc'[c] = "done" /\ \A d \in CPUs \ {c} : cpc'[d] = cpc[d]
  BY <1>d DEF Finish
<1>f. cpc[c] # "idle" => \A b, d, w : TryInvalidate(b, c, d, w) \/ TryWriteBack(c) \/ TryRead(c)
        => \A e \in CPUs \ {c} : cpc'[e] = cpc[e]
  BY <1>d DEF TryInvalidate, TryWriteBack, TryRead
<1>g. \A l : ExecuteStep(c, l) =>
        cpc[c] = l /\ phase = "edge" /\ UNCHANGED <<c2c, func>>
  BY Unidle
<1>h. cpc[c] \in DriveLabels /\ BusBecomes(Released(CacheP(c))) => GivenUp(CacheP(c))
  BY <1>a, ReleasedGivenUp, ProcNames DEF LockInv, Inside
<1>i. cpc[c] \in DriveLabels =>
        Clear(Released(CacheP(c)), CacheP(c)) /\ (Outcome(Released(CacheP(c)), c) => GivenUp(CacheP(c)))
  <2>1. SUFFICES ASSUME cpc[c] \in DriveLabels
        PROVE Clear(Released(CacheP(c)), CacheP(c)) /\ Released(CacheP(c)) # BusNow
    BY DEF Outcome
  <2>2. owner = CacheP(c) /\ owner # Nobody
    BY <1>a, <2>1, ProcNames DEF LockInv, Inside
  <2> QED BY <1>a, <2>2, ReleasedClear DEF BusNow
<1>1. CASE Accept(c)
  BY <1>1, <1>d DEF Accept, Step, Spawning, Lookup, Moves, Kept
<1>2. CASE HitWrite(c)
  BY <1>2, <1>b, <1>f, <1>g, TryOutcome DEF HitWrite, Moves
<1>3. CASE HitRead(c)
  BY <1>3, <1>c, <1>d, <1>g DEF HitRead, Moves
<1>4. CASE MissDirty(c)
  BY <1>4, <1>b, <1>f, <1>g, TryOutcome DEF MissDirty, Moves
<1>5. CASE MissClean(c)
  BY <1>5, <1>b, <1>f, <1>g, TryOutcome DEF MissClean, PostWriteback, Moves
<1>6. CASE InvalidateWait(c)
  BY <1>6, <1>c, <1>d, <1>g DEF InvalidateWait, Moves
<1>7. CASE Invalidated(c)
  BY <1>7, <1>c, <1>d, <1>g DEF Invalidated, Moves
<1>8. CASE RetryInvalidate(c)
  <2>1. PICK l \in {<<"invNeg", "invDrive", "invWait">>, <<"upNeg", "upDrive", "upWait">>} :
          ExecuteStep(c, l[1]) /\ TryInvalidate(BusNow, c, l[2], l[3])
    BY <1>8 DEF RetryInvalidate
  <2>2. /\ cpc[c] \notin DriveLabels /\ cpc[c] # "idle" /\ l[3] \notin DriveLabels
    BY <1>g, <2>1
  <2> QED BY <1>b, <1>f, <1>g, <2>1, <2>2, TryOutcome DEF Moves
<1>9. CASE ReadHit(c)
  BY <1>9, <1>c, <1>e, <1>g DEF ReadHit, Moves
<1>10. CASE Recheck(c)
  BY <1>10, <1>c, <1>d, <1>g DEF Recheck, Lookup, Moves
<1>11. CASE WriteDone(c)
  <2>1. PICK l \in {<<"invDrive", "writehit">>, <<"upDrive", "writemiss">>} :
          /\ ExecuteStep(c, l[1])
          /\ BusBecomes(Released(CacheP(c)))
          /\ Finish(c, l[2])
    BY <1>11 DEF WriteDone
  <2>2. cpc[c] \in DriveLabels
    BY <1>g, <2>1
  <2> QED BY <1>e, <1>g, <1>h, <2>1, <2>2 DEF Moves
<1>12. CASE RetryWriteBack(c)
  BY <1>12, <1>b, <1>f, <1>g, TryOutcome DEF RetryWriteBack, PostWriteback, Moves
<1>13. CASE WriteBackSent(c)
  BY <1>13, <1>d, <1>g, <1>h DEF WriteBackSent, Moves
<1>14. CASE WriteBackAnswered(c)
  BY <1>14, <1>b, <1>f, <1>g, TryOutcome DEF WriteBackAnswered, PostWriteback, Moves
<1>15. CASE RetryRead(c)
  BY <1>15, <1>b, <1>f, <1>g, TryOutcome DEF RetryRead, PostWriteback, Moves
<1>16. CASE ReadSent(c)
  <2>1. ExecuteStep(c, "fillDrive") /\ cpc[c] = "fillDrive"
    BY <1>16, <1>g DEF ReadSent
  <2>2. CASE BusBecomes(Released(CacheP(c))) /\ GoTo(c, "fillAnswer")
    BY <1>d, <1>g, <1>h, <2>1, <2>2 DEF Moves
  <2>3. CASE Fill(Released(CacheP(c)), c, Cur(c).state)
    BY <1>e, <1>f, <1>g, <1>i, <2>1, <2>3, FillOutcome DEF Moves, Fill
  <2> QED BY <1>16, <2>2, <2>3 DEF ReadSent
<1>17. CASE ReadContended(c)
  BY <1>17, <1>c, <1>g DEF ReadContended, Moves
<1>18. CASE ReadAnswered(c)
  <2>1. PICK s : ExecuteStep(c, "fillAnswer") /\ Fill(BusNow, c, s)
    BY <1>18 DEF ReadAnswered
  <2> QED BY <1>b, <1>e, <1>f, <1>g, <2>1, FillOutcome DEF Moves, Fill
<1>19. CASE Done(c)
  BY <1>19, <1>c, <1>d, <1>g DEF Done, Moves
<1> QED BY <1>1, <1>2, <1>3, <1>4, <1>5, <1>6, <1>7, <1>8, <1>9, <1>10, <1>11, <1>12,
           <1>13, <1>14, <1>15, <1>16, <1>17, <1>18, <1>19 DEF Execute

-----------------------------------------------------------------------------
(* Each step preserves the inductive invariant.                            *)

(* Process p ran up to its next wait, and spawned some transfer threads.   *)
Ran(p) == /\ p \in run /\ UNCHANGED <<clk, phase, wires>>
          /\ \/ run' = run \ {p}
             \/ /\ owner # Nobody
                /\ \E t \in Threads : run' = (run \ {p}) \cup {C2CP(t)}

LEMMA StepRan ==
  ASSUME NEW p, NEW ph, Step(p, ph)
  PROVE  Ran(p) /\ phase = ph
BY DEF Step, Spawning, Ran

(* The types of the kernel and the schedule, when the bus changes only at  *)
(* an edge and no cache that has to run loses its request.                 *)
LEMMA RanPreserves ==
  ASSUME IInv, NEW p, Ran(p), BusOKAfter, phase = "delta" => Kept /\ UNCHANGED func
  PROVE  SysCTypeOK' /\ RunInv'
<1>1. run' \subseteq Procs
  BY ProcNames DEF IInv, TypeOK, SysCTypeOK, Ran
<1>2. SysCTypeOK'
  BY <1>1 DEF IInv, TypeOK, SysCTypeOK, Ran, BusOKAfter
<1>3. /\ MemSnoopP \in run' => MemSnoopP \in run
      /\ \A c \in CPUs : /\ CacheP(c) \in run' => CacheP(c) \in run
                         /\ SnoopP(c) \in run' => SnoopP(c) \in run
      /\ \A t \in Threads : C2CP(t) \in run' => C2CP(t) \in run \/ owner # Nobody
  BY ProcNames DEF Ran
<1>4. phase = "delta" => owner' = owner
  BY DEF Kept
<1> QED BY <1>2, <1>3, <1>4 DEF IInv, RunInv, Ran

(* The bus is kept, taken or given up by process p.                        *)
LEMMA LockPreserved ==
  ASSUME LockInv, NEW p \in Procs,
         \/ Kept /\ Inside' \subseteq Inside
         \/ Taken(p) /\ Inside' \subseteq Inside \cup {p}
         \/ GivenUp(p) /\ Inside' \subseteq Inside \ {p}
  PROVE  LockInv'
<1>1. p # Nobody /\ Nobody \notin Inside
  <2>1. Nobody \notin Procs
    BY DEF Procs, CpuP, CacheP, SnoopP, C2CP, MemP, MemSnoopP, Nobody
  <2>2. Inside \subseteq Procs
    BY ProcNames DEF Inside
  <2> QED BY <2>1, <2>2
<1>2. CASE Kept /\ Inside' \subseteq Inside
  BY <1>2 DEF LockInv, Kept
<1>3. CASE Taken(p) /\ Inside' \subseteq Inside \cup {p}
  BY <1>1, <1>3 DEF LockInv, Taken
<1>4. CASE GivenUp(p) /\ Inside' \subseteq Inside \ {p}
  BY <1>1, <1>4 DEF LockInv, GivenUp
<1> QED BY <1>2, <1>3, <1>4

LEMMA CpuPreserves ==
  ASSUME IInv, NEW c \in CPUs, Cpu(c), UNCHANGED memVars
  PROVE  IInv'
<1>1. /\ CpuTypeOK' /\ CacheTypeOK' /\ UNCHANGED <<owner, drv, flagVars, cpc, c2c, mpc>>
  BY CpuType DEF IInv, busVars, memVars
<1>2. Ran(CpuP(c)) /\ (phase = "delta" => UNCHANGED func)
  BY StepRan DEF Cpu, CpuStep, CpuIssue, CpuNop, CpuTraceEnd, CpuStop, CpuWriteSent, CpuDone
<1>3. Kept /\ Inside' = Inside /\ BusOKAfter
  BY <1>1 DEF Kept, Inside, BusOKAfter, IInv, TypeOK, SysCTypeOK, BusTypeOK
<1>4. SysCTypeOK' /\ RunInv'
  BY <1>2, <1>3, RanPreserves
<1>5. LockInv'
  BY <1>3, LockPreserved, ProcNames DEF IInv
<1>6. BusTypeOK' /\ MemTypeOK'
  BY <1>1 DEF IInv, TypeOK, BusTypeOK, MemTypeOK, flagVars, memVars, Serving
<1> QED BY <1>1, <1>4, <1>5, <1>6 DEF IInv, TypeOK

LEMMA ExecutePreserves ==
  ASSUME IInv, NEW c \in CPUs, Execute(c), UNCHANGED <<cpuVars, memVars>>
  PROVE  IInv' /\ (phase = "delta" => Kept)
<1>1. CacheTypeOK' /\ BusOKAfter
  BY ExecuteType
<1>2. /\ Moves(c) /\ (phase = "delta" => Kept)
      /\ \A d \in CPUs \ {c} : cpc'[d] = cpc[d]
      /\ UNCHANGED <<c2c, func>>
  BY ExecuteMoves
<1>3. Ran(CacheP(c)) /\ UNCHANGED <<intended, c2c_intended>>
  BY StepRan DEF Execute, ExecuteStep, Accept, HitWrite, HitRead, MissDirty, MissClean,
     InvalidateWait, Invalidated, RetryInvalidate, ReadHit, Recheck, WriteDone,
     RetryWriteBack, WriteBackSent, WriteBackAnswered, RetryRead, ReadSent,
     ReadContended, ReadAnswered, Done
<1>4. SysCTypeOK' /\ RunInv'
  BY <1>1, <1>2, <1>3, RanPreserves
<1>5. /\ Inside' \subseteq Inside \cup {CacheP(c)}
      /\ cpc'[c] \notin DriveLabels => CacheP(c) \notin Inside'
  BY <1>2, ProcNames DEF Inside, memVars
<1>6. LockInv'
  BY <1>2, <1>5, LockPreserved, ProcNames DEF IInv, Moves
<1>7. BusTypeOK' /\ MemTypeOK' /\ CpuTypeOK'
  BY <1>1, <1>3 DEF IInv, TypeOK, BusTypeOK, BusOKAfter, MemTypeOK, Serving, CpuTypeOK,
                    memVars, cpuVars
<1> QED BY <1>1, <1>2, <1>4, <1>6, <1>7 DEF IInv, TypeOK

LEMMA SnoopPreserves ==
  ASSUME IInv, NEW c \in CPUs, Snoop(c), UNCHANGED <<cpuVars, memVars>>
  PROVE  IInv' /\ Kept
<1>1. CacheTypeOK' /\ UNCHANGED <<owner, drv, intended, c2c_intended>>
  BY SnoopType
<1>2. Kept /\ BusOKAfter
  BY <1>1 DEF Kept, BusOKAfter, IInv, TypeOK, SysCTypeOK, BusTypeOK
<1>3. SnoopP(c) \in run
  BY DEF Snoop, SnoopMiss, SnoopInvalidate, SnoopRead, SnoopStep, Spawning
<1>4. owner # Nobody /\ phase = "delta"
  BY <1>3 DEF IInv, RunInv
<1>5. \E sp : /\ SnoopStep(c, sp) /\ (sp = {} \/ \E t \in Threads : sp = {C2CP(t)})
  BY DEF Snoop, SnoopMiss, SnoopInvalidate, SnoopRead, Threads
<1>6. Ran(SnoopP(c)) /\ UNCHANGED <<func, cpc>>
  BY <1>4, <1>5 DEF SnoopStep, Spawning, Ran, portVars
<1>7. SysCTypeOK' /\ RunInv'
  BY <1>2, <1>6, RanPreserves
<1>8. \A t \in Threads : c2c'[t] # NoThread /\ c2c'[t].pc = "driving" =>
                         c2c[t] # NoThread /\ c2c[t].pc = "driving"
  <2>1. c2c \in [Threads -> Thread \cup {NoThread}]
    BY DEF IInv, TypeOK, CacheTypeOK
  <2>2. CASE UNCHANGED c2c
    BY <2>2
  <2>3. CASE SnoopRead(c)
    <3>1. PICK j \in Slots :
            c2c' = [c2c EXCEPT ![<<c, j>>] =
                      [pc |-> "start", id |-> wires.id, addr |-> wires.addr,
                       way |-> SnoopedWay(c)]]
      BY <2>3 DEF SnoopRead
    <3>2. <<c, j>> \in Threads
      BY DEF Threads
    <3>3. c2c'[<<c, j>>].pc = "start"
      BY <2>1, <3>1, <3>2
    <3>4. \A t \in Threads : t # <<c, j>> => c2c'[t] = c2c[t]
      BY <2>1, <3>1
    <3> QED BY <3>3, <3>4
  <2> QED BY <2>2, <2>3 DEF Snoop, SnoopMiss, SnoopInvalidate
<1>9. Inside' \subseteq Inside
  BY <1>6, <1>8 DEF Inside, memVars
<1>10. LockInv'
  BY <1>2, <1>9, LockPreserved, ProcNames DEF IInv
<1>11. BusTypeOK' /\ MemTypeOK' /\ CpuTypeOK'
  BY <1>1 DEF IInv, TypeOK, BusTypeOK, MemTypeOK, Serving, CpuTypeOK, memVars, cpuVars
<1> QED BY <1>1, <1>2, <1>7, <1>10, <1>11 DEF IInv, TypeOK

LEMMA C2CPreserves ==
  ASSUME IInv, NEW t \in Threads, CacheToCache(t), UNCHANGED <<cpuVars, memVars>>
  PROVE  IInv' /\ (phase = "delta" => Kept)
<1> DEFINE Driving(u) == c2c[u] # NoThread /\ c2c[u].pc = "driving"
<1>a. c2c \in [Threads -> Thread \cup {NoThread}] /\ c2c[t] # NoThread /\ LockInv
  BY DEF IInv, TypeOK, CacheTypeOK, CacheToCache, C2CStart, C2CLock, C2CEnd, C2CStep
<1>1. CacheTypeOK' /\ BusOKAfter
  BY CacheToCacheType
<1>2. /\ Ran(C2CP(t)) /\ UNCHANGED <<func, cpc, intended>> /\ c2c_intended' \in BOOLEAN
      /\ C2CP(t) \in run
  BY StepRan DEF CacheToCache, C2CStart, C2CLock, C2CEnd, C2CStep, portVars, Ran,
                 IInv, TypeOK, BusTypeOK
<1>3. \A l : c2c' = [c2c EXCEPT ![t].pc = l] => c2c'[t].pc = l
  BY <1>a DEF Thread
<1>4. C2CTryLock(t) => \/ Taken(C2CP(t)) /\ Free(BusNow)
                       \/ Kept /\ ~Driving(t)'
  <2>1. CASE Free(BusNow) /\ BusBecomes(Driven(BusNow, C2CP(t), C2CMsg(t)))
    BY <1>a, <2>1, C2CMsgType, DrivenTaken DEF Clear
  <2>2. CASE c2c' = [c2c EXCEPT ![t].pc = "lock"] /\ UNCHANGED busVars
    BY <1>3, <2>2 DEF busVars, Kept
  <2> QED BY <2>1, <2>2 DEF C2CTryLock
<1>5. C2CEnd(t) => GivenUp(C2CP(t)) /\ ~Driving(t)' /\ phase = "edge"
  <2>1. SUFFICES ASSUME C2CEnd(t)
        PROVE GivenUp(C2CP(t)) /\ ~Driving(t)' /\ phase = "edge"
    OBVIOUS
  <2>2. /\ Driving(t) /\ phase = "edge" /\ BusBecomes(Released(C2CP(t)))
        /\ c2c' = [c2c EXCEPT ![t] = NoThread]
    BY <2>1, StepRan DEF C2CEnd, C2CStep
  <2>3. owner = C2CP(t) /\ owner # Nobody
    BY <1>a, <2>2, ProcNames DEF LockInv, Inside
  <2> QED BY <1>a, <2>2, <2>3, ReleasedGivenUp
<1>6. phase = "delta" => owner # Nobody
  BY <1>2 DEF IInv, RunInv
<1>7. phase = "delta" => Kept
  BY <1>4, <1>5, <1>6, StepRan
     DEF CacheToCache, C2CStart, C2CLock, C2CStep, Free, BusNow
<1>8. \A u \in Threads : u # t => c2c'[u] = c2c[u]
  BY <1>a DEF CacheToCache, C2CStart, C2CLock, C2CEnd, C2CTryLock
<1>9. SysCTypeOK' /\ RunInv'
  BY <1>1, <1>2, <1>7, RanPreserves
<1>10. /\ Inside' \subseteq Inside \cup {C2CP(t)}
       /\ ~Driving(t)' => C2CP(t) \notin Inside'
  BY <1>2, <1>8, ProcNames DEF Inside, memVars
<1>11. \/ Taken(C2CP(t))
       \/ Kept /\ ~Driving(t)'
       \/ GivenUp(C2CP(t)) /\ ~Driving(t)'
  BY <1>4, <1>5 DEF CacheToCache, C2CStart, C2CLock
<1>12. LockInv'
  BY <1>a, <1>10, <1>11, LockPreserved, ProcNames
<1>13. BusTypeOK' /\ MemTypeOK' /\ CpuTypeOK'
  BY <1>1, <1>2 DEF IInv, TypeOK, BusTypeOK, BusOKAfter, MemTypeOK, Serving, CpuTypeOK,
                    memVars, cpuVars
<1> QED BY <1>1, <1>7, <1>9, <1>12, <1>13 DEF IInv, TypeOK

LEMMA MemPreserves ==
  ASSUME IInv, MemExecute \/ MemSnoop, UNCHANGED <<cacheVars, cpuVars>>
  PROVE  IInv' /\ (phase = "delta" => Kept)
<1> USE DEF cacheVars
<1>a. TypeOK /\ LockInv /\ MemTypeOK
  BY DEF IInv, TypeOK
<1>1. MemTypeOK' /\ BusOKAfter /\ intended' \in BOOLEAN /\ UNCHANGED c2c_intended
  BY MemType
<1>2. \E p \in {MemP, MemSnoopP} : Ran(p)
  BY StepRan DEF MemExecute, MemSnoop, MemWake, MemFetch, MemDelay, MemC2C, MemLock, MemRelease
<1>3. (MemTryLock \/ MemRespond) /\ Serving => Taken(MemP) \/ (Kept /\ mpc' # "driving")
  <2>1. SUFFICES ASSUME MemTryLock \/ MemRespond, Serving
        PROVE  Taken(MemP) \/ (Kept /\ mpc' # "driving")
    OBVIOUS
  <2>2. CASE Free(BusNow) /\ BusBecomes(Driven(BusNow, MemP, MemAnswer))
    BY <1>a, <2>1, <2>2, MemAnswerType, DrivenTaken DEF Clear
  <2>3. CASE mpc' \in {"c2c", "lock"} /\ UNCHANGED <<drv, owner>>
    BY <2>3 DEF Kept
  <2> QED BY <2>1, <2>2, <2>3 DEF MemTryLock, MemRespond, busVars
<1>4. /\ \/ Taken(MemP)
         \/ Kept /\ (mpc' = "driving" => mpc = "driving")
         \/ GivenUp(MemP) /\ mpc' # "driving"
      /\ phase = "delta" => Kept
  <2>1. CASE MemSnoop
    BY <2>1 DEF MemSnoop, Kept
  <2>2. CASE MemWake
    BY <2>2 DEF MemWake, Kept
  <2>3. CASE MemFetch
    BY <1>a, <2>3, NextRequestType, StepRan DEF MemFetch, Kept, MemTypeOK
  <2>4. CASE MemDelay
    <3>1. phase = "edge" /\ Serving
      BY <2>4, StepRan DEF MemDelay, Serving
    <3> QED BY <1>3, <2>4, <3>1 DEF MemDelay, Kept
  <2>5. CASE MemC2C
    <3>1. phase = "edge" /\ Serving
      BY <2>5, StepRan DEF MemC2C, Serving
    <3> QED BY <1>3, <2>5, <3>1 DEF MemC2C
  <2>6. CASE MemLock
    <3>1. phase = "edge" /\ Serving
      BY <2>6, StepRan DEF MemLock, Serving
    <3> QED BY <1>3, <2>6, <3>1 DEF MemLock
  <2>7. CASE MemRelease
    <3>1. phase = "edge" /\ mpc = "driving"
      BY <2>7, StepRan DEF MemRelease
    <3>2. owner = MemP /\ owner # Nobody
      BY <1>a, <3>1, ProcNames DEF LockInv, Inside
    <3>3. GivenUp(MemP)
      BY <1>a, <2>7, <3>2, ReleasedGivenUp DEF MemRelease
    <3>4. mpc' # "driving"
      BY <1>a, <2>7, NextRequestType DEF MemRelease
    <3> QED BY <3>1, <3>3, <3>4
  <2> QED BY <2>1, <2>2, <2>3, <2>4, <2>5, <2>6, <2>7 DEF MemExecute
<1>5. SysCTypeOK' /\ RunInv'
  BY <1>1, <1>2, <1>4, RanPreserves
<1>6. /\ Inside' \subseteq Inside \cup {MemP}
      /\ mpc' # "driving" => MemP \notin Inside'
      /\ (mpc' = "driving" => mpc = "driving") => Inside' \subseteq Inside
  BY ProcNames DEF Inside
<1>7. LockInv'
  BY <1>a, <1>4, <1>6, LockPreserved, ProcNames
<1>8. BusTypeOK' /\ CpuTypeOK' /\ CacheTypeOK'
  BY <1>1 DEF IInv, TypeOK, BusTypeOK, BusOKAfter, CpuTypeOK, CacheTypeOK, cpuVars
<1> QED BY <1>1, <1>4, <1>5, <1>7, <1>8 DEF IInv, TypeOK

LEMMA KernelPreserves ==
  ASSUME IInv, KernelUpdate \/ KernelTick \/ UNCHANGED vars
  PROVE  IInv' /\ Kept
<1> USE DEF busVars, flagVars, memVars, cpuVars, localVars, cacheVars, kernelVars
<1>a. TypeOK /\ LockInv /\ RunInv
  BY DEF IInv
<1>1. CASE KernelUpdate
  <2>1. /\ UNCHANGED <<clk, drv, owner, flagVars, cacheVars, cpuVars, memVars>>
        /\ wires' = Resolve(drv) /\ phase' \in {"delta", "stop"}
        /\ \/ run' = {}
           \/ run' = AtDelta(Resolve(drv)) /\ phase' = "delta"
    BY <1>1 DEF KernelUpdate, Update
  <2>2. run' \subseteq Procs
    BY <1>a, <2>1, ProcNames DEF AtDelta, TypeOK, CacheTypeOK
  <2>3. /\ MemSnoopP \notin run'
        /\ \A c \in CPUs : /\ CacheP(c) \in run' => func[c] # NoRequest
                           /\ SnoopP(c) \in run' => SnoopedBy(Resolve(drv), c)
                                                    /\ phase' = "delta"
        /\ \A t \in Threads : C2CP(t) \notin run'
    <3> DEFINE w == Resolve(drv)
    <3>1. \A x \in AtDelta(w) :
             \/ \E c \in CPUs : x = CacheP(c) /\ func[c] # NoRequest
             \/ \E c \in CPUs : x = CpuP(c)
             \/ \E c \in CPUs : x = SnoopP(c) /\ SnoopedBy(w, c)
             \/ x = MemP
      <4> HIDE DEF w
      <4>1. done \subseteq CPUs
        BY <1>a DEF TypeOK, CacheTypeOK
      <4>2. \A x \in AtDelta(w) :
               \/ x \in {CacheP(c) : c \in {d \in CPUs : func[d] # NoRequest /\ cpc[d] = "idle"}}
               \/ x \in {CpuP(c) : c \in {d \in done : ppc[d] = "wait"}}
               \/ x \in {SnoopP(c) : c \in {d \in CPUs : SnoopedBy(w, d)}}
               \/ x = MemP
        BY Zenon DEF AtDelta
      <4> QED BY <4>1, <4>2
    <3>2. MemSnoopP \notin AtDelta(w) /\ \A t \in Threads : C2CP(t) \notin AtDelta(w)
      BY <3>1, ProcNames
    <3>3. \A c \in CPUs : CacheP(c) \in AtDelta(w) => func[c] # NoRequest
      BY <3>1, ProcNames
    <3>4. \A c \in CPUs : SnoopP(c) \in AtDelta(w) => SnoopedBy(w, c)
      BY <3>1, ProcNames
    <3> HIDE DEF w
    <3> QED BY <2>1, <3>2, <3>3, <3>4 DEF w
  <2>4. \A c \in CPUs : ~SnoopedBy(NoMsg, c)
    BY DEF SnoopedBy, NoMsg
  <2>5. RunInv'
    BY <2>1, <2>3, <2>4, ResolveType DEF RunInv
  <2>6. LockInv' /\ Kept
    BY <1>a, <2>1 DEF LockInv, Inside, Kept
  <2>7. SysCTypeOK'
    BY <1>a, <2>1, <2>2, ResolveType DEF TypeOK, SysCTypeOK
  <2> QED BY <1>a, <2>1, <2>5, <2>6, <2>7
          DEF IInv, TypeOK, BusTypeOK, CacheTypeOK, CpuTypeOK, MemTypeOK, Serving
<1>2. CASE KernelTick
  <2>1. /\ UNCHANGED <<drv, owner, flagVars, line, cpc, localVars, c2c, stats, cpuVars, memVars>>
        /\ wires' = Resolve(drv) /\ phase' = "edge" /\ clk' = ~clk
        /\ run' = AtClock(~clk, Resolve(drv))
        /\ func' = [c \in CPUs |-> NoRequest] /\ done' = {}
    BY <1>2 DEF KernelTick, Tick
  <2>2. run' \subseteq Procs
    BY <1>a, <2>1, ProcNames
       DEF AtClock, CpusAtClock, CachesAtClock, ThreadsAtClock
  <2>3. /\ MemSnoopP \in run' => ForMemory(Resolve(drv))
        /\ \A c \in CPUs : SnoopP(c) \notin run'
    BY <2>1, ProcNames DEF AtClock, CpusAtClock, CachesAtClock, ThreadsAtClock
  <2>4. RunInv'
    BY <2>1, <2>3, ResolveType DEF RunInv
  <2>5. LockInv' /\ Kept
    BY <1>a, <2>1 DEF LockInv, Inside, Kept
  <2>6. SysCTypeOK'
    BY <1>a, <2>1, <2>2, ResolveType DEF TypeOK, SysCTypeOK
  <2>7. CacheTypeOK'
    BY <1>a, <2>1 DEF TypeOK, CacheTypeOK
  <2> QED BY <1>a, <2>1, <2>4, <2>5, <2>6, <2>7
          DEF IInv, TypeOK, BusTypeOK, CpuTypeOK, MemTypeOK, Serving
<1>3. CASE UNCHANGED vars
  <2>1. /\ UNCHANGED <<clk, phase, run, wires, drv>> /\ UNCHANGED <<owner, flagVars>>
        /\ UNCHANGED cacheVars /\ UNCHANGED <<cpuVars, memVars>>
    BY <1>3 DEF vars
  <2>2. SysCTypeOK' /\ BusTypeOK' /\ CpuTypeOK' /\ MemTypeOK'
    BY <1>a, <2>1 DEF TypeOK, SysCTypeOK, BusTypeOK, CpuTypeOK, MemTypeOK, Serving
  <2>3. CacheTypeOK'
    BY <1>a, <2>1 DEF TypeOK, CacheTypeOK
  <2>4. LockInv' /\ Kept
    BY <1>a, <2>1 DEF LockInv, Inside, Kept
  <2>5. RunInv'
    BY <1>a, <2>1 DEF RunInv
  <2> QED BY <2>2, <2>3, <2>4, <2>5 DEF IInv, TypeOK
<1> QED BY <1>1, <1>2, <1>3

LEMMA InitInductive == Init => IInv
<1> SUFFICES ASSUME Init PROVE IInv
  OBVIOUS
<1> USE DEF Init, BusInit, CacheInit, CpuInit, MemInit
<1>1. \A c \in CPUs, s \in Sets, w \in WaySet :
        [state |-> "INVALID", tag |-> 0, counter |-> 0] \in Line
  BY AddrAssumption, CacheSetAssumption DEF Line, States
<1>2. line \in LineType
  BY <1>1 DEF LineType
<1>3. CacheTypeOK
  <2>1. \A c \in CPUs : cpc[c] = "idle"
    OBVIOUS
  <2>2. 1 \in WaySet /\ "idle" \in Labels
    BY CacheSetAssumption DEF WaySet, Labels
  <2>3. stats \in [CPUs -> [StatKinds -> Nat]]
    OBVIOUS
  <2> QED BY <1>2, <2>1, <2>2, <2>3 DEF CacheTypeOK, LineType
<1>4. SysCTypeOK /\ BusTypeOK /\ CpuTypeOK
  <2>1. run \subseteq Procs
    BY ProcNames
  <2>2. SysCTypeOK
    BY <2>1 DEF SysCTypeOK
  <2>3. BusTypeOK
    BY DEF BusTypeOK
  <2>4. CpuTypeOK
    BY MaxOpsAssumption DEF CpuTypeOK, CpuLabels
  <2> QED BY <2>2, <2>3, <2>4
<1>5. MemTypeOK
  BY DEF MemTypeOK, MemLabels, Serving
<1>6. LockInv
  BY DEF LockInv, Inside, DriveLabels
<1>7. RunInv
  BY ProcNames DEF RunInv, NoMsg, Clash
<1> QED BY <1>3, <1>4, <1>5, <1>6, <1>7 DEF IInv, TypeOK

(* Every step preserves the invariant, and changes the drivers of the      *)
(* wires only at an edge.                                                  *)
LEMMA StepInductive ==
  ASSUME IInv, [Next]_vars
  PROVE  IInv' /\ (phase = "delta" => Kept)
<1>1. CASE CpuNext
  <2>1. PICK c \in CPUs : Cpu(c) /\ UNCHANGED memVars
    BY <1>1 DEF CpuNext
  <2>2. Kept
    BY <2>1, CpuType DEF IInv, busVars, Kept
  <2> QED BY <2>1, <2>2, CpuPreserves
<1>2. CASE CacheNext
  BY <1>2, ExecutePreserves DEF CacheNext
<1>3. CASE SnoopNext
  BY <1>3, SnoopPreserves DEF SnoopNext
<1>4. CASE C2CNext
  BY <1>4, C2CPreserves DEF C2CNext
<1>5. CASE MemNext
  BY <1>5, MemPreserves DEF MemNext
<1>6. CASE KernelUpdate \/ KernelTick \/ Finished \/ UNCHANGED vars
  BY <1>6, KernelPreserves DEF Finished
<1> QED BY <1>1, <1>2, <1>3, <1>4, <1>5, <1>6 DEF Next
-----------------------------------------------------------------------------
(* In every reachable state the types are right, every process inside an   *)
(* operation of the bus holds bus_mutex and drives the wires alone, and    *)
(* the kernel runs a process only for the event it waited for.             *)
THEOREM Inductive == Spec => []IInv
<1>1. IInv /\ [Next]_vars => IInv'
  BY StepInductive
<1> QED BY InitInductive, <1>1, PTL DEF Spec

(* The state of the simulator is always of its type (no value of a line,   *)
(* a request, an address or a message is ever malformed).                  *)
THEOREM TypeCorrect == Spec => []TypeOK
<1>1. IInv => TypeOK
  BY DEF IInv
<1> QED BY Inductive, <1>1, PTL

(* Arbitration is right for any number of processors and threads: at most  *)
(* one driver, which holds bus_mutex, and no garbled message (Bus.h).      *)
THEOREM ExclusiveBus == Spec => []BusExclusion
<1>1. IInv => BusExclusion
  BY DEF IInv, LockInv, RunInv, BusExclusion
<1> QED BY Inductive, <1>1, PTL

(* A message stays on the wires from one edge to the next: the try_lock of *)
(* a snooper's thread in the delta cycle (Bus.h:195) never succeeds, as    *)
(* the message it answers is still being driven.                           *)
THEOREM StableWires == Spec => DriveOnlyAtEdges
<1>1. IInv /\ [Next]_vars => [phase = "delta" => drv' = drv]_vars
  BY StepInductive DEF Kept
<1> QED BY Inductive, <1>1, PTL DEF Spec, DriveOnlyAtEdges

=============================================================================

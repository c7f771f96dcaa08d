---------------------------- MODULE Snoop_proofs ----------------------------
(***************************************************************************)
(* Theorems of Snoop, for every size of the memories and the region, every *)
(* quantum and any number of accesses.  Types and SnoopSound hold for any  *)
(* thread the kernel starts with; that Initiator keeps no region through   *)
(* which it could write to watched words holds if Snooping_initiator is    *)
(* the first, and rests on what Erase leaves in a table (EraseKeeps).      *)
(***************************************************************************)
EXTENDS Snoop, SequenceTheorems, WellFoundedInduction, TLAPS

MemOK == mem \in [Targets -> [Words -> {"initial", "written"}]]

SnoopOK ==
  /\ write_snoop \in [Targets -> BOOLEAN]
  /\ snooped \in [Targets -> [first : Words, last : Words]]
  /\ m_dmi_valid \in BOOLEAN

ArmedInv == MemOK /\ SnoopOK /\ SnoopArmed

LEMMA CodeFacts ==
  /\ Code.target = 1 /\ Code.first = 0 /\ Code.last = SnoopLast
  /\ 1 \in Targets /\ 0 \in Words /\ SnoopLast \in Words
  /\ Code.first..Code.last \subseteq Words
BY SnoopAssumption DEF Code, Targets, Words

LEMMA InitArmed == Init => ArmedInv /\ CacheFresh
<1> SUFFICES ASSUME Init PROVE ArmedInv /\ CacheFresh
  OBVIOUS
<1>1. MemOK
  BY DEF Init, MemOK
<1>2. SnoopOK
  BY CodeFacts DEF Init, SnoopOK
<1>3. SnoopArmed /\ CacheFresh
  BY DEF Init, SnoopArmed, CacheFresh
<1> QED BY <1>1, <1>2, <1>3 DEF ArmedInv

(* RequestSnoop: the memory watches the region before the copy is valid.   *)
LEMMA RequestArmed == ArmedInv /\ RequestSnoop => ArmedInv' /\ CacheFresh'
<1> SUFFICES ASSUME ArmedInv, RequestSnoop PROVE ArmedInv' /\ CacheFresh'
  OBVIOUS
<1>1. /\ write_snoop' = [write_snoop EXCEPT ![1] = TRUE]
      /\ snooped' = [snooped EXCEPT ![1] = [first |-> 0, last |-> SnoopLast]]
      /\ m_dmi_valid' = TRUE /\ m_cache' = Contents(mem) /\ mem' = mem
  BY CodeFacts DEF RequestSnoop, StatusKept
<1>2. SnoopOK' /\ MemOK'
  BY <1>1, CodeFacts DEF ArmedInv, SnoopOK, MemOK
<1>3. SnoopArmed'
  BY <1>1, CodeFacts DEF ArmedInv, SnoopOK, SnoopArmed, Watched, Code
<1>4. CacheFresh'
  BY <1>1 DEF CacheFresh
<1> QED BY <1>2, <1>3, <1>4 DEF ArmedInv

(* Access: a write that the memory catches makes the copy invalid in the   *)
(* same step as it takes the snoop away.                                   *)
LEMMA AccessArmed == ArmedInv /\ Access => ArmedInv'
<1> SUFFICES ASSUME ArmedInv, Access PROVE ArmedInv'
  OBVIOUS
<1>1. PICK t \in Targets, w \in Words, cmd \in Commands :
        DmiAccess(t, w, cmd) \/ Transport(t, w, cmd)
  BY DEF Access
<1>2. MemOK'
  BY <1>1 DEF DmiAccess, Transport, Store, ArmedInv, MemOK
<1>3. CASE DmiAccess(t, w, cmd)
  BY <1>2, <1>3 DEF DmiAccess, ArmedInv, SnoopOK, SnoopArmed, Watched
<1>4. CASE Transport(t, w, cmd)
  <2>1. /\ write_snoop' = [write_snoop EXCEPT ![t] = @ /\ ~Caught(t, w, cmd)]
        /\ m_dmi_valid' = (m_dmi_valid /\ ~(Caught(t, w, cmd) /\ CopyHit(Watched(t))))
        /\ snooped' = snooped
    BY <1>4 DEF Transport
  <2>2. SnoopOK'
    BY <2>1 DEF ArmedInv, SnoopOK
  <2>3. SnoopArmed'
    <3> SUFFICES ASSUME m_dmi_valid' PROVE write_snoop'[1] /\ Watched(1)' = Code
      BY CodeFacts DEF SnoopArmed
    <3>1. m_dmi_valid /\ write_snoop[1] /\ Watched(1) = Code
      BY <2>1, CodeFacts DEF ArmedInv, SnoopArmed
    <3>2. CopyHit(Watched(1))
      BY <3>1, CodeFacts, SnoopAssumption DEF CopyHit, Overlaps, Words
    <3>3. t = 1 => ~Caught(t, w, cmd)
      BY <2>1, <3>1, <3>2
    <3>4. write_snoop'[1]
      BY <2>1, <3>1, <3>3, CodeFacts DEF ArmedInv, SnoopOK
    <3> QED BY <2>1, <3>1, <3>4 DEF Watched
  <2> QED BY <1>2, <2>2, <2>3 DEF ArmedInv
<1> QED BY <1>1, <1>3, <1>4

(* The other steps leave the memories and the copy alone.                  *)
LEMMA OtherSteps ==
  ASSUME UNCHANGED vars \/ (\E t \in Threads : Dispatch(t)) \/ NextQuantum \/ Execute
  PROVE  UNCHANGED <<mem, write_snoop, snooped, m_dmi_valid, m_cache>>
BY DEF vars, memories, snooper, Dispatch, NextQuantum, Execute

LEMMA StepArmed == ArmedInv /\ [Next]_vars => ArmedInv'
<1> SUFFICES ASSUME ArmedInv, [Next]_vars PROVE ArmedInv'
  OBVIOUS
<1>1. CASE UNCHANGED <<mem, write_snoop, snooped, m_dmi_valid, m_cache>>
  BY <1>1 DEF ArmedInv, MemOK, SnoopOK, SnoopArmed, Watched
<1>2. CASE RequestSnoop
  BY <1>2, RequestArmed
<1>3. CASE Access
  BY <1>3, AccessArmed
<1> QED BY <1>1, <1>2, <1>3, OtherSteps DEF Next

(* While Snooping_initiator believes in its copy, the memory watches the   *)
(* region the copy was taken from (snooping.cpp:156-173, 531-537).         *)
THEOREM AlwaysArmed == Spec => []SnoopArmed
<1>1. ArmedInv => SnoopArmed
  BY DEF ArmedInv
<1> QED BY <1>1, InitArmed, StepArmed, PTL DEF Spec

(* A write outside the copied region does not show in it.                  *)
LEMMA StoreOutside ==
  ASSUME NEW t \in Targets, NEW w \in Words, NEW cmd \in Commands,
         MemOK, Store(t, w, cmd), ~(cmd = "WRITE" /\ Covers(Code, t, w))
  PROVE  Contents(mem') = Contents(mem)
<1>1. ASSUME NEW x \in Code.first..Code.last PROVE mem'[1][x] = mem[1][x]
  <2>1. CASE cmd # "WRITE"
    BY <2>1 DEF Store
  <2>2. CASE cmd = "WRITE"
    <3>1. ~(t = 1 /\ w = x)
      BY <2>2, CodeFacts DEF Covers
    <3> QED BY <2>2, <3>1, <1>1, CodeFacts DEF Store, MemOK
  <2> QED BY <2>1, <2>2
<1> QED BY <1>1, CodeFacts DEF Contents

LEMMA StepFresh ==
  ArmedInv /\ CacheFresh /\ NoWriteRegion /\ [Next]_vars => CacheFresh'
<1> SUFFICES ASSUME ArmedInv, CacheFresh, NoWriteRegion, [Next]_vars PROVE CacheFresh'
  OBVIOUS
<1>1. CASE UNCHANGED <<mem, write_snoop, snooped, m_dmi_valid, m_cache>>
  BY <1>1 DEF CacheFresh, Contents
<1>2. CASE RequestSnoop
  BY <1>2, RequestArmed
<1>3. CASE Access
  <2> SUFFICES ASSUME m_dmi_valid' PROVE m_cache' = Contents(mem')
    BY DEF CacheFresh
  <2>1. PICK t \in Targets, w \in Words, cmd \in Commands :
          DmiAccess(t, w, cmd) \/ Transport(t, w, cmd)
    BY <1>3 DEF Access
  <2>2. m_dmi_valid /\ m_cache' = m_cache
    BY <1>3, <2>1 DEF Access, DmiAccess, Transport
  <2>3. write_snoop[1] /\ Watched(1) = Code
    BY <2>2, CodeFacts DEF ArmedInv, SnoopArmed
  <2>4. ~(cmd = "WRITE" /\ Covers(Code, t, w))
    <3>1. CASE DmiAccess(t, w, cmd)
      BY <2>3, <3>1, CodeFacts DEF DmiAccess, NoWriteRegion, Covers
    <3>2. CASE Transport(t, w, cmd)
      <4> SUFFICES ASSUME cmd = "WRITE", Covers(Code, t, w) PROVE FALSE
        OBVIOUS
      <4>1. t = 1
        BY CodeFacts DEF Covers
      <4>2. Caught(t, w, cmd)
        BY <2>3, <4>1 DEF Caught
      <4>3. CopyHit(Watched(t))
        BY <2>3, <4>1, CodeFacts, SnoopAssumption DEF CopyHit, Overlaps, Words
      <4> QED BY <3>2, <4>2, <4>3 DEF Transport
    <3> QED BY <2>1, <3>1, <3>2
  <2>5. Store(t, w, cmd)
    BY <2>1 DEF DmiAccess, Transport
  <2> QED BY <2>2, <2>4, <2>5, StoreOutside DEF ArmedInv, CacheFresh
<1> QED BY <1>1, <1>2, <1>3, OtherSteps DEF Next

-----------------------------------------------------------------------------
(* What Erase leaves.  A recursive function is well defined, and what it   *)
(* keeps is proved, by looking at the first place where it would not be.   *)

LEMMA LeastOf ==
  ASSUME NEW S, S \subseteq Nat, S # {}
  PROVE  \E n \in S : \A m \in S : n <= m
<1>1. IsWellFoundedOn(OpToRel(<, Nat), Nat)
  BY NatLessThanWellFounded
<1>2. PICK n \in S : \A m \in S : ~(<<m, n>> \in OpToRel(<, Nat))
  BY <1>1, WFMin
<1>3. \A m \in S : ~(m < n)
  BY <1>2 DEF OpToRel
<1> QED BY <1>3

Nothing == [kept |-> << >>, skip |-> FALSE]

(* g holds what was kept of the first n regions of the table.              *)
Examines(g, n, table, r) ==
  /\ g = [i \in 0..n |-> g[i]]
  /\ g[0] = Nothing
  /\ \A i \in 1..n : g[i] = Examine(g[i - 1], table[i], r)

LEMMA ExaminesAll ==
  ASSUME NEW table, Len(table) \in Nat, NEW r
  PROVE  \E g : Examines(g, Len(table), table, r)
<1> DEFINE S == {n \in 0..Len(table) : ~\E g : Examines(g, n, table, r)}
<1>1. SUFFICES ASSUME S # {} PROVE FALSE
  OBVIOUS
<1>a. S \subseteq Nat
  OBVIOUS
<1>b. \A n \in 0..Len(table) : n \notin S => \E g : Examines(g, n, table, r)
  OBVIOUS
<1>c. \A n \in S : n \in 0..Len(table) /\ ~\E g : Examines(g, n, table, r)
  OBVIOUS
<1> HIDE DEF S
<1>2. PICK n \in S : \A m \in S : n <= m
  BY <1>1, <1>a, LeastOf
<1>3. CASE n = 0
  <2>1. Examines([i \in 0..0 |-> Nothing], 0, table, r)
    BY DEF Examines
  <2> QED BY <1>c, <1>3, <2>1
<1>4. CASE n # 0
  <2>1. /\ n \in Nat /\ n - 1 \in 0..Len(table) /\ ~(n <= n - 1)
        /\ 0 \in 0..n /\ 0 \in 0..(n - 1)
    BY <1>c, <1>4
  <2>2. PICK g : Examines(g, n - 1, table, r)
    BY <1>2, <1>b, <2>1
  <2> DEFINE h == [i \in 0..n |-> IF i = n THEN Examine(g[n - 1], table[n], r) ELSE g[i]]
  <2>3. \A i \in 0..n : h[i] = IF i = n THEN Examine(g[n - 1], table[n], r) ELSE g[i]
    OBVIOUS
  <2>4. h = [i \in 0..n |-> h[i]]
    OBVIOUS
  <2> HIDE DEF h
  <2>5. h[0] = Nothing
    BY <1>4, <2>1, <2>2, <2>3 DEF Examines
  <2>6. ASSUME NEW i \in 1..n PROVE h[i] = Examine(h[i - 1], table[i], r)
    <3>1. h[i - 1] = g[i - 1]
      BY <2>1, <2>3
    <3>2. CASE i = n
      BY <2>1, <2>3, <3>1, <3>2
    <3>3. CASE i # n
      <4>1. i \in 1..(n - 1) /\ i \in 0..n
        BY <2>1, <3>3
      <4> QED BY <2>2, <2>3, <3>1, <3>3, <4>1 DEF Examines
    <3> QED BY <3>2, <3>3
  <2>7. Examines(h, n, table, r)
    BY <2>4, <2>5, <2>6 DEF Examines
  <2> QED BY <1>c, <2>7
<1> QED BY <1>3, <1>4

LEMMA EraseExamines ==
  ASSUME NEW table, Len(table) \in Nat, NEW r
  PROVE  \E g : Examines(g, Len(table), table, r) /\ Erase(table, r) = g[Len(table)].kept
<1> DEFINE F(f) == [i \in 0..Len(table) |->
                      IF i = 0 THEN [kept |-> << >>, skip |-> FALSE]
                      ELSE Examine(f[i - 1], table[i], r)]
           examined == CHOOSE f : f = F(f)
<1>1. PICK g : Examines(g, Len(table), table, r)
  BY ExaminesAll
<1>2. \A i \in 0..Len(table) : i # 0 => i \in 1..Len(table)
  OBVIOUS
<1>3. g = F(g)
  BY <1>1, <1>2 DEF Examines, Nothing
<1>4. examined = F(examined)
  BY <1>3
<1>5. Erase(table, r) = examined[Len(table)].kept
  BY DEF Erase
<1> HIDE DEF examined
<1>a. \A i \in 0..Len(table) : examined[i] = F(examined)[i]
  BY <1>4
<1>b. examined = [i \in 0..Len(table) |-> examined[i]]
  BY <1>4
<1>c. 0 \in 0..Len(table) /\ \A i \in 1..Len(table) : i \in 0..Len(table) /\ i # 0
  OBVIOUS
<1>6. Examines(examined, Len(table), table, r)
  BY <1>a, <1>b, <1>c DEF Examines, Nothing
<1> QED BY <1>5, <1>6

(* Regions are dropped, none is added or changed; and a region that is the *)
(* only one to overlap is never the one the index skips.                   *)
LEMMA EraseKeeps ==
  ASSUME NEW R, NEW table \in Seq(R), NEW r
  PROVE  /\ Erase(table, r) \in Seq(R)
         /\ \A k \in DOMAIN Erase(table, r) :
              \E i \in DOMAIN table : Erase(table, r)[k] = table[i]
         /\ (\A i, j \in DOMAIN table : Overlaps(table[i], r) /\ Overlaps(table[j], r) => i = j)
              => \A k \in DOMAIN Erase(table, r) : ~Overlaps(Erase(table, r)[k], r)
<1> DEFINE N == Len(table)
           Single == \A i, j \in DOMAIN table :
                       Overlaps(table[i], r) /\ Overlaps(table[j], r) => i = j
<1>1. N \in Nat /\ DOMAIN table = 1..N /\ \A i \in 1..N : table[i] \in R
  OBVIOUS
<1>2. PICK g : Examines(g, N, table, r) /\ Erase(table, r) = g[N].kept
  BY <1>1, EraseExamines
<1> DEFINE Good(i) ==
      /\ g[i] \in [kept : Seq(R), skip : BOOLEAN]
      /\ \A k \in DOMAIN g[i].kept : \E j \in DOMAIN table : g[i].kept[k] = table[j]
      /\ Single => /\ \A k \in DOMAIN g[i].kept : ~Overlaps(g[i].kept[k], r)
                   /\ g[i].skip => i # 0 /\ Overlaps(table[i], r)
<1>3. Good(0)
  <2>1. g[0].kept = << >> /\ g[0].skip = FALSE /\ g[0] = [kept |-> << >>, skip |-> FALSE]
    BY <1>2 DEF Examines, Nothing
  <2>2. << >> \in Seq(R) /\ DOMAIN << >> = {}
    OBVIOUS
  <2> QED BY <2>1, <2>2
<1>4. ASSUME NEW i \in 1..N, Good(i - 1) PROVE Good(i)
  <2> DEFINE a == g[i - 1]
  <2>1. g[i] = Examine(a, table[i], r) /\ i \in DOMAIN table /\ table[i] \in R
    BY <1>1, <1>2 DEF Examines
  <2>2. a \in [kept : Seq(R), skip : BOOLEAN] /\ a.kept \in Seq(R)
    BY <1>4
  <2>3. \A k \in DOMAIN a.kept : \E j \in DOMAIN table : a.kept[k] = table[j]
    BY <1>4
  <2>4. Single => /\ \A k \in DOMAIN a.kept : ~Overlaps(a.kept[k], r)
                  /\ a.skip => ~Overlaps(table[i], r)
    <3> SUFFICES ASSUME Single
                 PROVE  /\ \A k \in DOMAIN a.kept : ~Overlaps(a.kept[k], r)
                        /\ a.skip => ~Overlaps(table[i], r)
      OBVIOUS
    <3>1. a.skip => i - 1 # 0 /\ Overlaps(table[i - 1], r)
      BY <1>4
    <3>2. a.skip => i - 1 \in DOMAIN table /\ i - 1 # i
      BY <1>1, <3>1
    <3>3. \A k \in DOMAIN a.kept : ~Overlaps(a.kept[k], r)
      BY <1>4
    <3> QED BY <2>1, <3>1, <3>2, <3>3
  <2> HIDE DEF a, Single
  <2> DEFINE b == Append(a.kept, table[i])
  <2>5. /\ b \in Seq(R) /\ Len(a.kept) \in Nat
        /\ \A k \in DOMAIN b : b[k] = table[i] \/ (k \in DOMAIN a.kept /\ b[k] = a.kept[k])
    BY <2>1, <2>2
  <2> HIDE DEF b
  <2>6. CASE a.skip
    <3>1. g[i] = [kept |-> b, skip |-> FALSE]
      BY <2>1, <2>6 DEF Examine, b
    <3> QED BY <2>1, <2>3, <2>4, <2>5, <2>6, <3>1
  <2>7. CASE ~a.skip /\ Overlaps(table[i], r)
    <3>1. g[i].kept = a.kept /\ g[i].skip = TRUE /\ g[i] \in [kept : Seq(R), skip : BOOLEAN]
      BY <2>1, <2>2, <2>7 DEF Examine
    <3> QED BY <2>3, <2>4, <2>7, <3>1
  <2>8. CASE ~a.skip /\ ~Overlaps(table[i], r)
    <3>1. g[i].kept = b /\ g[i].skip = FALSE /\ g[i] \in [kept : Seq(R), skip : BOOLEAN]
      BY <2>1, <2>2, <2>5, <2>8 DEF Examine, b
    <3> QED BY <2>1, <2>3, <2>4, <2>5, <2>8, <3>1
  <2> QED BY <2>6, <2>7, <2>8
<1> HIDE DEF Good
<1>5. \A i \in 0..N : Good(i)
  <2> DEFINE S == {i \in 0..N : ~Good(i)}
  <2> SUFFICES ASSUME S # {} PROVE FALSE
    OBVIOUS
  <2>1. /\ S \subseteq Nat
        /\ \A i \in S : i \in 0..N /\ ~Good(i)
        /\ \A i \in 0..N : i \notin S => Good(i)
    BY <1>1
  <2> HIDE DEF S
  <2>2. PICK i \in S : \A j \in S : i <= j
    BY <2>1, LeastOf
  <2>3. i \in 1..N /\ i - 1 \in 0..N /\ ~(i <= i - 1)
    BY <1>1, <1>3, <2>1, <2>2
  <2> QED BY <1>4, <2>1, <2>2, <2>3
<1>6. Good(N)
  BY <1>1, <1>5
<1> QED BY <1>2, <1>6 DEF Good

(* As long as Initiator keeps no region through which it could write to    *)
(* watched words, Snooping_initiator executes what is in the memory        *)
(* (snooping.cpp:28-43): the snoop and the invalidation leave no gap.      *)
THEOREM SnoopSound == Spec /\ []NoWriteRegion => []CacheFresh
BY InitArmed, StepArmed, StepFresh, PTL DEF Spec

-----------------------------------------------------------------------------
(* Types.  A thread that may still run has something left to do, and the   *)
(* one that runs does not wait as well.                                    *)
Turns ==
  /\ running \notin ready
  /\ running = Snooper \/ Snooper \in ready => count < MaxCount
  /\ running = Writer \/ Writer \in ready => accessed < Accesses

TypeInv == TypeOK /\ Turns

Region == [target : Targets, first : Words, last : Words, write : BOOLEAN]

LEMMA Constants ==
  /\ Size \in Nat \ {0} /\ Accesses \in Nat \ {0} /\ MaxCount \in Nat \ {0}
  /\ Quantum \in Nat \ {0} /\ First \subseteq Threads
  /\ Snooper # Writer /\ Snooper # Nobody /\ Writer # Nobody
BY SnoopAssumption DEF Snooper, Writer, Nobody

LEMMA WholeMemoryType ==
  ASSUME NEW t \in Targets, NEW cmd
  PROVE  WholeMemory(t, cmd) \in Region
BY Constants DEF WholeMemory, Region, Words

(* The clock of the thread that runs.                                      *)
LEMMA ElapseType ==
  ASSUME TypeInv, Elapse \/ Finish
  PROVE  /\ running' \in Threads \union {Nobody} /\ local' \in 0..(Quantum - 1)
         /\ ready' = ready /\ running' \in {running, Nobody}
BY Constants DEF TypeInv, TypeOK, Elapse, Finish

LEMMA ContentsType ==
  ASSUME MemOK
  PROVE  Contents(mem) \in [Code.first..Code.last -> {"initial", "written"}]
BY CodeFacts DEF MemOK, Contents

LEMMA TypeInit == Init => TypeInv
<1> SUFFICES ASSUME Init PROVE TypeInv
  OBVIOUS
<1>1. /\ mem \in [Targets -> [Words -> {"initial", "written"}]]
      /\ write_snoop \in [Targets -> BOOLEAN]
      /\ snooped \in [Targets -> [first : Words, last : Words]]
  <2>1. 0 \in Words
    BY Constants DEF Words
  <2> QED BY <2>1 DEF Init
<1>2. /\ count \in 0..MaxCount /\ accessed \in 0..Accesses /\ local \in 0..(Quantum - 1)
      /\ dmi_table \in Seq([target : Targets, first : Words, last : Words, write : BOOLEAN])
  BY Constants DEF Init
<1>3. TypeOK
  BY <1>1, <1>2 DEF Init, TypeOK
<1>4. Turns
  BY Constants DEF Init, Turns, Threads
<1> QED BY <1>3, <1>4 DEF TypeInv

LEMMA TypeStep == TypeInv /\ [Next]_vars => TypeInv'
<1> SUFFICES ASSUME TypeInv, [Next]_vars PROVE TypeInv'
  OBVIOUS
<1> USE DEF TypeInv
<1>a. dmi_table \in Seq(Region)
  BY DEF TypeOK, Region
<1>1. CASE UNCHANGED vars
  BY <1>1 DEF vars, memories, snooper, writer, kernel, TypeOK, Turns
<1>2. ASSUME NEW t \in Threads, Dispatch(t) PROVE TypeInv'
  <2>1. TypeOK'
    BY <1>2, Constants DEF Dispatch, TypeOK, memories, snooper, writer
  <2>2. Turns'
    BY <1>2, Constants DEF Dispatch, TypeOK, Turns, snooper, writer, Threads
  <2> QED BY <2>1, <2>2
<1>3. CASE NextQuantum
  <2>1. TypeOK'
    BY <1>3 DEF NextQuantum, TypeOK, memories, snooper, writer
  <2>2. Turns'
    BY <1>3, Constants DEF NextQuantum, Turns, snooper, writer, Live, Threads
  <2> QED BY <2>1, <2>2
<1>4. CASE RequestSnoop
  <2>1. dmi_table' \in Seq(Region)
    BY <1>4, <1>a, EraseKeeps DEF RequestSnoop
  <2>2. m_cache' \in [Code.first..Code.last -> {"initial", "written"}]
    BY <1>4, ContentsType DEF RequestSnoop, TypeOK, MemOK
  <2>3. /\ write_snoop' \in [Targets -> BOOLEAN]
        /\ snooped' \in [Targets -> [first : Words, last : Words]]
        /\ m_dmi_valid' \in BOOLEAN
    BY <1>4, CodeFacts DEF RequestSnoop, TypeOK, StatusKept
  <2>4. TypeOK'
    BY <1>4, <2>1, <2>2, <2>3 DEF RequestSnoop, TypeOK, Region, kernel
  <2> QED BY <1>4, <2>4 DEF RequestSnoop, Turns, kernel
<1>5. CASE Execute
  <2>1. count + 1 \in 0..MaxCount /\ (count + 1 # MaxCount => count + 1 < MaxCount)
    BY <1>5, Constants DEF Execute, Turns, TypeOK
  <2>2. Elapse \/ Finish
    BY <1>5 DEF Execute
  <2>3. TypeOK'
    BY <1>5, <2>1, <2>2, ElapseType DEF Execute, TypeOK, memories, writer
  <2>a. running = Snooper /\ count' = count + 1 /\ accessed' = accessed
    BY <1>5 DEF Execute, writer
  <2>b. ASSUME count' = MaxCount, Finish PROVE Turns'
    BY <2>a, <2>b, Constants DEF Turns, Finish, TypeOK, Threads
  <2>c. ASSUME count' # MaxCount, Elapse PROVE Turns'
    BY <2>1, <2>a, <2>c, Constants DEF Turns, Elapse, TypeOK, Threads
  <2>4. Turns'
    BY <1>5, <2>b, <2>c DEF Execute
  <2> QED BY <2>3, <2>4
<1>6. CASE Access
  <2>1. PICK t \in Targets, w \in Words, cmd \in Commands :
          DmiAccess(t, w, cmd) \/ Transport(t, w, cmd)
    BY <1>6 DEF Access
  <2>2. mem' \in [Targets -> [Words -> {"initial", "written"}]]
    BY SMTT(30), <2>1 DEF DmiAccess, Transport, Store, TypeOK
  <2>3. dmi_table' \in Seq(Region)
    <3>1. CASE DmiAccess(t, w, cmd)
      BY <1>a, <3>1 DEF DmiAccess
    <3>2. CASE Transport(t, w, cmd)
      <4> DEFINE kept == IF Caught(t, w, cmd) THEN Erase(dmi_table, Watched(t)) ELSE dmi_table
      <4>1. kept \in Seq(Region)
        BY <1>a, EraseKeeps
      <4>2. dmi_table' = kept \/ dmi_table' = Append(kept, WholeMemory(t, cmd))
        BY <3>2 DEF Transport
      <4> HIDE DEF kept
      <4> QED BY <4>1, <4>2, WholeMemoryType
    <3> QED BY <2>1, <3>1, <3>2
  <2>4. /\ write_snoop' \in [Targets -> BOOLEAN]
        /\ snooped' \in [Targets -> [first : Words, last : Words]]
        /\ m_dmi_valid' \in BOOLEAN
    BY <2>1 DEF DmiAccess, Transport, TypeOK
  <2>5. accessed + 1 \in 0..Accesses /\ (accessed + 1 # Accesses => accessed + 1 < Accesses)
    BY <1>6, Constants DEF Access, Turns, TypeOK
  <2>6. Elapse \/ Finish
    BY <1>6 DEF Access
  <2>7. TypeOK'
    BY <1>6, <2>2, <2>3, <2>4, <2>5, <2>6, ElapseType DEF Access, TypeOK, Region
  <2>a. running = Writer /\ accessed' = accessed + 1 /\ count' = count
    BY <1>6 DEF Access
  <2>b. ASSUME accessed' = Accesses, Finish PROVE Turns'
    BY <2>a, <2>b, Constants DEF Turns, Finish, TypeOK, Threads
  <2>c. ASSUME accessed' # Accesses, Elapse PROVE Turns'
    BY <2>5, <2>a, <2>c, Constants DEF Turns, Elapse, TypeOK, Threads
  <2>8. Turns'
    BY <1>6, <2>b, <2>c DEF Access
  <2> QED BY <2>7, <2>8
<1> QED BY <1>1, <1>2, <1>3, <1>4, <1>5, <1>6 DEF Next

(* Tables, copies and counters stay of their types and within their        *)
(* bounds, whoever runs first (snooping.cpp).                              *)
THEOREM SnoopTypes == Spec => []TypeOK
<1>1. TypeInv => TypeOK
  BY DEF TypeInv
<1> QED BY <1>1, TypeInit, TypeStep, PTL DEF Spec

-----------------------------------------------------------------------------
(* The regions that Initiator keeps, when Snooping_initiator runs first.   *)
(* It is granted whole memories only, and one region of the memory that is *)
(* watched: a second one is granted only after a write that was caught,    *)
(* which took the first away.                                              *)

WholeTable ==
  \A i \in DOMAIN dmi_table : dmi_table[i].first = 0 /\ dmi_table[i].last = Size - 1

OneRegion ==
  \A i, j \in DOMAIN dmi_table : dmi_table[i].target = 1 /\ dmi_table[j].target = 1 => i = j

(* Nobody has run, or Snooping_initiator has not yet asked for the snoop.  *)
NotYet ==
  /\ dmi_table = << >> /\ ~write_snoop[1] /\ ~m_dmi_valid
  /\ (running = Nobody /\ ~Started) \/ running = Snooper

Watching ==
  /\ write_snoop[1] /\ Watched(1) = Code
  /\ \A i \in DOMAIN dmi_table : dmi_table[i].target = 1 => ~dmi_table[i].write

Writable ==
  /\ ~write_snoop[1]
  /\ \E i \in DOMAIN dmi_table : dmi_table[i].target = 1 /\ dmi_table[i].write

RegionInv ==
  /\ ~write_snoop[0] /\ WholeTable /\ OneRegion
  /\ NotYet \/ Watching \/ Writable

(* Every region of the watched memory goes when the code is invalidated,   *)
(* as there is at most one; the other regions stay as they are.            *)
LEMMA EraseCode ==
  ASSUME TypeOK, WholeTable, OneRegion
  PROVE  LET t == Erase(dmi_table, Code)
         IN /\ t \in Seq(Region)
            /\ \A k \in DOMAIN t : /\ t[k].first = 0 /\ t[k].last = Size - 1
                                   /\ t[k].target # 1
<1> DEFINE t == Erase(dmi_table, Code)
<1>1. dmi_table \in Seq(Region)
  BY DEF TypeOK, Region
<1>2. \A i \in DOMAIN dmi_table : Overlaps(dmi_table[i], Code) <=> dmi_table[i].target = 1
  BY CodeFacts, Constants, SnoopAssumption DEF WholeTable, Overlaps
<1>3. /\ t \in Seq(Region)
      /\ \A k \in DOMAIN t : \E i \in DOMAIN dmi_table : t[k] = dmi_table[i]
      /\ \A k \in DOMAIN t : ~Overlaps(t[k], Code)
  BY <1>1, <1>2, EraseKeeps DEF OneRegion
<1> HIDE DEF t
<1>4. \A k \in DOMAIN t : /\ t[k].first = 0 /\ t[k].last = Size - 1
                          /\ t[k].target # 1
  BY <1>2, <1>3 DEF WholeTable
<1> QED BY <1>3, <1>4 DEF t

LEMMA RegionInit == Init => RegionInv
BY Constants DEF Init, RegionInv, WholeTable, OneRegion, NotYet, Started, Targets

(* The kernel.                                                             *)
LEMMA KernelRegion ==
  ASSUME First = {Snooper}, RegionInv,
         (\E t \in Threads : Dispatch(t)) \/ NextQuantum \/ UNCHANGED vars
  PROVE  RegionInv'
<1>1. UNCHANGED <<memories, snooper, writer>>
  BY DEF Dispatch, NextQuantum, vars
<1>2. /\ UNCHANGED <<dmi_table, write_snoop, snooped, m_dmi_valid>>
      /\ WholeTable' /\ OneRegion' /\ ~write_snoop'[0]
      /\ (Watching => Watching') /\ (Writable => Writable')
  BY <1>1 DEF memories, snooper, writer, RegionInv, WholeTable, OneRegion, Watching, Writable,
              Watched
<1>3. NotYet => NotYet'
  <2>1. ASSUME NotYet, NEW t \in Threads, Dispatch(t) PROVE running' = Snooper
    BY <2>1, Constants DEF NotYet, Dispatch
  <2>2. NotYet => ~NextQuantum
    BY Constants DEF NotYet, NextQuantum, Started, Threads
  <2>3. NotYet /\ UNCHANGED vars => NotYet'
    BY DEF NotYet, vars, memories, snooper, writer, kernel, Started
  <2> QED BY <1>2, <2>1, <2>2, <2>3 DEF NotYet
<1> QED BY <1>2, <1>3 DEF RegionInv

LEMMA RequestRegion ==
  ASSUME TypeOK, RegionInv, RequestSnoop
  PROVE  RegionInv'
<1>1. /\ dmi_table' = Erase(dmi_table, Code)
      /\ write_snoop' = [write_snoop EXCEPT ![1] = TRUE]
      /\ snooped' = [snooped EXCEPT ![1] = [first |-> 0, last |-> SnoopLast]]
  BY CodeFacts DEF RequestSnoop
<1>2. \A k \in DOMAIN dmi_table' : /\ dmi_table'[k].first = 0 /\ dmi_table'[k].last = Size - 1
                                   /\ dmi_table'[k].target # 1
  BY <1>1, EraseCode DEF RegionInv
<1>3. WholeTable' /\ OneRegion'
  BY <1>2 DEF WholeTable, OneRegion
<1>4. ~write_snoop'[0] /\ write_snoop'[1] /\ Watched(1)' = Code
  BY <1>1, CodeFacts DEF RegionInv, TypeOK, Watched, Code
<1> QED BY <1>2, <1>3, <1>4 DEF RegionInv, Watching

(* A region is added at the end of what is kept.                           *)
LEMMA OneMore ==
  ASSUME NEW s \in Seq(Region), NEW e \in Region
  PROVE  /\ DOMAIN Append(s, e) = 1..(Len(s) + 1)
         /\ \A k \in DOMAIN Append(s, e) :
              \/ k \in DOMAIN s /\ Append(s, e)[k] = s[k]
              \/ k = Len(s) + 1 /\ Append(s, e)[k] = e
         /\ DOMAIN s = 1..Len(s) /\ Len(s) \in Nat
OBVIOUS

LEMMA AccessRegion ==
  ASSUME TypeOK, RegionInv, Access
  PROVE  RegionInv'
<1>1. PICK t \in Targets, w \in Words, cmd \in Commands :
        DmiAccess(t, w, cmd) \/ Transport(t, w, cmd)
  BY DEF Access
<1>2. ~NotYet
  BY Constants DEF Access, NotYet
<1>a. dmi_table \in Seq(Region)
  BY DEF TypeOK, Region
<1>3. CASE DmiAccess(t, w, cmd)
  BY <1>2, <1>3 DEF DmiAccess, RegionInv, WholeTable, OneRegion, Watching, Writable, Watched
<1>4. CASE Transport(t, w, cmd)
  <2> DEFINE kept == IF Caught(t, w, cmd) THEN Erase(dmi_table, Watched(t)) ELSE dmi_table
             added == WholeMemory(t, cmd)
  <2>1. /\ write_snoop' = [write_snoop EXCEPT ![t] = @ /\ ~Caught(t, w, cmd)]
        /\ dmi_table' = IF Rejected(write_snoop', t, cmd) THEN kept ELSE Append(kept, added)
        /\ snooped' = snooped /\ Usable(t, w, cmd) = {}
    BY <1>4 DEF Transport
  <2>2. added \in Region /\ added.target = t /\ added.first = 0 /\ added.last = Size - 1
        /\ (added.write <=> cmd = "WRITE")
    BY WholeMemoryType DEF WholeMemory
  <2>3. ~write_snoop'[0]
    BY <2>1 DEF RegionInv, TypeOK, Targets
  <2>4. Watched(1)' = Watched(1)
    BY <2>1 DEF Watched
  <2>5. CASE t = 0
    <3>1. ~Caught(t, w, cmd) /\ write_snoop' = write_snoop
      BY <2>1, <2>5 DEF RegionInv, Caught, TypeOK
    <3>2. dmi_table' = Append(dmi_table, added)
      BY <2>1, <2>5, <3>1 DEF Rejected, RegionInv
    <3> HIDE DEF added
    <3>3. \A k \in DOMAIN dmi_table' :
            \/ k \in DOMAIN dmi_table /\ dmi_table'[k] = dmi_table[k]
            \/ dmi_table'[k].target = 0 /\ dmi_table'[k] = added
      BY <1>a, <2>2, <2>5, <3>2, OneMore
    <3>4. \A k \in DOMAIN dmi_table : k \in DOMAIN dmi_table' /\ dmi_table'[k] = dmi_table[k]
      BY <1>a, <2>2, <3>2
    <3>5. WholeTable' /\ OneRegion'
      BY <2>2, <3>3 DEF RegionInv, WholeTable, OneRegion
    <3>6. Watching => Watching'
      BY <2>4, <3>1, <3>3 DEF Watching
    <3>7. Writable => Writable'
      BY <3>1, <3>4 DEF Writable
    <3> QED BY <1>2, <2>3, <3>5, <3>6, <3>7 DEF RegionInv
  <2>6. CASE t = 1
    (* A region that may be written covers the word, whatever the access.  *)
    <3>1. ~Writable
      BY <2>1, <2>6, Constants DEF Writable, Usable, Covers, RegionInv, WholeTable, Words
    <3>2. Watching
      BY <1>2, <3>1 DEF RegionInv
    <3>3. CASE Caught(t, w, cmd)
      <4>1. kept = Erase(dmi_table, Code) /\ cmd = "WRITE"
        BY <2>6, <3>2, <3>3 DEF Watching, Caught
      <4>2. /\ kept \in Seq(Region)
            /\ \A k \in DOMAIN kept : /\ kept[k].first = 0 /\ kept[k].last = Size - 1
                                      /\ kept[k].target # 1
        BY <4>1, EraseCode DEF RegionInv
      <4>3. ~write_snoop'[1]
        BY <2>1, <2>6, <3>3 DEF TypeOK
      <4>4. dmi_table' = Append(kept, added)
        BY <2>1, <2>6, <4>3 DEF Rejected
      <4> HIDE DEF kept, added
      <4>5. \A k \in DOMAIN dmi_table' :
              \/ k \in DOMAIN kept /\ dmi_table'[k] = kept[k]
              \/ k = Len(kept) + 1 /\ dmi_table'[k] = added
        BY <2>2, <4>2, <4>4, OneMore
      <4>6. Len(kept) + 1 \in DOMAIN dmi_table' /\ dmi_table'[Len(kept) + 1] = added
        BY <2>2, <4>2, <4>4
      <4>7. WholeTable' /\ OneRegion'
        BY <2>2, <4>2, <4>5 DEF WholeTable, OneRegion
      <4>8. Writable'
        BY <2>2, <2>6, <4>1, <4>3, <4>6 DEF Writable
      <4> QED BY <2>3, <4>7, <4>8 DEF RegionInv
    <3>4. CASE ~Caught(t, w, cmd)
      <4>1. kept = dmi_table /\ write_snoop' = write_snoop /\ write_snoop[1]
        BY <2>1, <2>6, <3>2, <3>4 DEF Watching, TypeOK
      <4>2. CASE cmd = "WRITE"
        <5>1. dmi_table' = dmi_table
          BY <2>1, <2>6, <4>1, <4>2 DEF Rejected
        <5> QED BY <2>3, <2>4, <3>2, <4>1, <5>1 DEF RegionInv, WholeTable, OneRegion, Watching
      (* A read that no region serves: there is none of the memory.        *)
      <4>3. CASE cmd # "WRITE"
        <5>1. dmi_table' = Append(dmi_table, added)
          BY <2>1, <4>1, <4>3 DEF Rejected
        <5>2. \A i \in DOMAIN dmi_table : dmi_table[i].target # 1
          BY <2>1, <2>6, <4>3, Constants DEF Usable, Covers, RegionInv, WholeTable, Words
        <5> HIDE DEF added
        <5>3. \A k \in DOMAIN dmi_table' :
                \/ k \in DOMAIN dmi_table /\ dmi_table'[k] = dmi_table[k]
                \/ k = Len(dmi_table) + 1 /\ dmi_table'[k] = added
          BY <1>a, <2>2, <5>1, OneMore
        <5>4. WholeTable' /\ OneRegion'
          BY <2>2, <5>2, <5>3 DEF RegionInv, WholeTable, OneRegion
        <5>5. Watching'
          BY <2>2, <2>4, <3>2, <4>1, <4>3, <5>2, <5>3 DEF Watching
        <5> QED BY <2>3, <5>4, <5>5 DEF RegionInv
      <4> QED BY <4>2, <4>3
    <3> QED BY <3>3, <3>4
  <2> QED BY <2>5, <2>6 DEF Targets
<1> QED BY <1>1, <1>3, <1>4

LEMMA StepRegion ==
  ASSUME First = {Snooper}, TypeOK, RegionInv, SnoopArmed, [Next]_vars
  PROVE  RegionInv'
<1>1. CASE Execute
  <2>1. UNCHANGED <<dmi_table, write_snoop, snooped>> /\ m_dmi_valid
    BY <1>1 DEF Execute, memories, writer
  <2> QED BY <2>1 DEF RegionInv, WholeTable, OneRegion, NotYet, Watching, Writable, Watched
<1> QED BY <1>1, KernelRegion, RequestRegion, AccessRegion DEF Next

LEMMA RegionsReadOnly == TypeOK /\ RegionInv => NoWriteRegion
<1> SUFFICES ASSUME TypeOK, RegionInv, NEW t \in Targets, NEW w \in Words,
                    write_snoop[t], NEW i \in Usable(t, w, "WRITE")
             PROVE  FALSE
  BY DEF NoWriteRegion
<1>1. t = 1
  BY DEF Targets, RegionInv
<1>2. i \in DOMAIN dmi_table /\ dmi_table[i].target = 1 /\ dmi_table[i].write
  BY <1>1 DEF Usable, Covers
<1> QED BY <1>1, <1>2 DEF RegionInv, NotYet, Watching, Writable

(* When Snooping_initiator runs first, the table of Initiator never holds  *)
(* a region through which watched words could be written without the       *)
(* memory seeing it (snooping.cpp:39-43), although the loop over the table *)
(* skips a region behind each it erases: there is only one to erase.       *)
THEOREM NoWriteUnseen ==
  ASSUME First = {Snooper}
  PROVE  Spec => []NoWriteRegion
<1>1. TypeOK /\ SnoopArmed /\ RegionInv /\ [Next]_vars => RegionInv'
  BY StepRegion
<1> QED BY <1>1, SnoopTypes, AlwaysArmed, RegionInit, RegionsReadOnly, PTL DEF Spec

(* And then what it executes is what is in the memory (snooping.cpp:28-46).*)
THEOREM CopyFresh ==
  ASSUME First = {Snooper}
  PROVE  Spec => []CacheFresh
BY NoWriteUnseen, SnoopSound, PTL
=============================================================================

-------------------------- MODULE TraceFile_proofs --------------------------
(***************************************************************************)
(* Theorems of TraceFile, for files with any number of traces and words,   *)
(* any number of processors and any first value of m_num_finished.         *)
(***************************************************************************)
EXTENDS TraceFile, FiniteSetTheorems, TLAPS

(* A processor runs or waits for its cache, and it waits only while it has *)
(* a trace that is open.                                                   *)
Waiting ==
  \A c \in Cpus : /\ c \in due => pc[c] = "loop"
                  /\ pc[c] = "op" => Open(c)

(* What has been read of an open trace lies before its position.           *)
TakenBefore == \A p \in Pids : m_positions[p] # 0 => \A w \in taken[p] : w < m_positions[p]

(* StopMeansDone without the processors.                                   *)
StopAtEnd == stopped /\ garbage = 0 /\ cpunum <= file.procs => Ended = Pids

IInv == TypeOK /\ Waiting /\ TakenBefore /\ FinishedCount /\ StopAtEnd /\ AllCounted

-----------------------------------------------------------------------------
(* The file is one of Files.                                               *)
LEMMA FileOK ==
  ASSUME file \in Files
  PROVE  /\ file.procs \in Nat \ {0} /\ file.words \in Nat /\ file.procs < Modulus
         /\ Modulus \in Nat \ {0}
         /\ file.type \in [Start..(file.words - 1) -> EntryType]
BY TraceAssumption

(* The traces are a finite set, and so is every part of it.                *)
LEMMA PidsFinite ==
  ASSUME file \in Files
  PROVE  /\ IsFiniteSet(Pids) /\ Cardinality(Pids) = file.procs
         /\ \A S \in SUBSET Pids :
              IsFiniteSet(S) /\ Cardinality(S) \in 0..file.procs
              /\ (Cardinality(S) = file.procs => S = Pids)
<1>1. IsFiniteSet(Pids) /\ Cardinality(Pids) = file.procs
  <2>1. 0 \in Int /\ file.procs - 1 \in Int /\ file.procs \in Nat \ {0}
    BY FileOK
  <2>2. IsFiniteSet(0..(file.procs - 1))
        /\ Cardinality(0..(file.procs - 1)) =
             IF 0 > file.procs - 1 THEN 0 ELSE (file.procs - 1) - 0 + 1
    BY <2>1, FS_Interval
  <2> QED BY <2>1, <2>2 DEF Pids
<1>2. ASSUME NEW S \in SUBSET Pids
      PROVE  IsFiniteSet(S) /\ Cardinality(S) \in 0..file.procs
             /\ (Cardinality(S) = file.procs => S = Pids)
  <2>1. IsFiniteSet(S) /\ Cardinality(S) <= Cardinality(Pids)
        /\ (Cardinality(S) = Cardinality(Pids) => S = Pids)
    BY <1>1, FS_Subset
  <2> QED BY <1>1, <2>1, FS_CardinalityType
<1> QED BY <1>1, <1>2

(* With a counter that started at 0, eof() says that every trace has ended. *)
LEMMA EofMeansEnded ==
  ASSUME TypeOK, FinishedCount, garbage = 0, Eof
  PROVE  Ended = Pids
<1>1. Cardinality(Ended) \in 0..file.procs /\ (Cardinality(Ended) = file.procs => Ended = Pids)
  BY PidsFinite DEF TypeOK, Ended
<1>2. Cardinality(Ended) < Modulus
  BY <1>1, FileOK DEF TypeOK
<1> QED BY <1>1, <1>2 DEF FinishedCount, Eof, Plus

LEMMA InitInv == Init => IInv
<1> SUFFICES ASSUME Init PROVE IInv
  OBVIOUS
<1>1. file \in Files /\ file.words >= Start + file.procs + 1
  BY FileOK DEF Init, Refused, Start
<1>2. TypeOK
  <2>1. m_positions \in [Pids -> {0} \cup Start..(file.words - 1 + file.procs)]
    BY <1>1, FileOK DEF Init, Pids, Start
  <2>2. m_num_finished \in 0..(Modulus - 1) /\ garbage \in Garbage
    BY TraceAssumption DEF Init
  <2>3. /\ pc \in [Cpus -> {"loop", "op", "end"}] /\ due \subseteq Cpus /\ stopped \in BOOLEAN
        /\ taken \in [Pids -> SUBSET (Start..(file.words - 1))]
        /\ count \in [Pids -> Nat]
    BY DEF Init
  <2> QED BY <1>1, <2>1, <2>2, <2>3 DEF Init, TypeOK
<1>3. Ended = {}
  BY <1>1, FileOK DEF Init, Ended, Pids, Start
<1>4. garbage \in Nat /\ garbage < Modulus
  BY TraceAssumption DEF Init
<1>5. FinishedCount
  BY <1>1, <1>3, <1>4, FileOK, FS_EmptySet DEF Init, FinishedCount, Plus
<1>6. Waiting /\ TakenBefore /\ StopAtEnd
  BY DEF Init, Waiting, TakenBefore, StopAtEnd
<1>7. AllCounted
  BY FS_EmptySet DEF Init, AllCounted, Operations
<1> QED BY <1>2, <1>5, <1>6, <1>7 DEF IInv

-----------------------------------------------------------------------------
(* A word is read that was not read before, and the position moves on.     *)
LEMMA ReadWord ==
  ASSUME IInv, NEW c \in Pids, Open(c), ~AtEnd(c), UNCHANGED given,
         Read(c), m_positions' = Advanced(c)
  PROVE  /\ m_positions' \in [Pids -> {0} \cup Start..(file.words - 1 + file.procs)]
         /\ taken' \in [Pids -> SUBSET (Start..(file.words - 1))]
         /\ TakenBefore' /\ Ended' = Ended
         /\ m_positions[c] \notin taken[c]
         /\ taken' = [taken EXCEPT ![c] = @ \cup {m_positions[c]}]
<1> USE DEF IInv, Pids, given
<1>1. /\ m_positions[c] \in Start..(file.words - 1)
      /\ m_positions[c] + file.procs \in Start..(file.words - 1 + file.procs)
      /\ m_positions[c] + file.procs > m_positions[c]
      /\ file.procs \in Nat \ {0}
  <2>1. file.procs \in Nat \ {0} /\ file.words \in Nat
    BY FileOK DEF TypeOK
  <2>2. m_positions[c] \in {0} \cup Start..(file.words - 1 + file.procs) /\ m_positions[c] # 0
    BY DEF TypeOK, Open
  <2>3. m_positions[c] \in Int /\ m_positions[c] >= Start /\ m_positions[c] + 1 <= file.words
    BY <2>1, <2>2 DEF AtEnd, Start
  <2> QED BY <2>1, <2>3 DEF Start
<1>2. m_positions' \in [Pids -> {0} \cup Start..(file.words - 1 + file.procs)]
  BY <1>1 DEF TypeOK, Advanced
<1>3. taken' \in [Pids -> SUBSET (Start..(file.words - 1))]
  BY <1>1 DEF TypeOK, Read
<1>4. m_positions[c] \notin taken[c]
  BY <1>1 DEF TakenBefore, Start, TypeOK
<1>5. TakenBefore'
  <2> SUFFICES ASSUME NEW p \in Pids, m_positions'[p] # 0, NEW w \in taken'[p]
               PROVE  w < m_positions'[p]
    BY DEF TakenBefore
  <2>1. CASE p = c
    <3>1. m_positions'[p] = m_positions[c] + file.procs
      BY <2>1 DEF Advanced, TypeOK
    <3>2. w = m_positions[c] \/ w \in taken[c]
      BY <2>1 DEF Read, TypeOK
    <3>3. w \in taken[c] => w < m_positions[c] /\ w \in Int
      BY <1>1 DEF TakenBefore, TypeOK, Open
    <3> QED BY <1>1, <3>1, <3>2, <3>3
  <2>2. CASE p # c
    BY <2>2 DEF TakenBefore, Advanced, Read, TypeOK
  <2> QED BY <2>1, <2>2
<1>6. Ended' = Ended
  BY <1>1 DEF Ended, Advanced, TypeOK, Start, Open
<1> QED BY <1>2, <1>3, <1>4, <1>5, <1>6 DEF Read

(* The operations among the words read are finitely many.                  *)
LEMMA OperationsFinite ==
  ASSUME TypeOK, NEW p \in Pids
  PROVE  IsFiniteSet(Operations(p)) /\ Cardinality(Operations(p)) \in Nat
<1>1. Start \in Int /\ file.words - 1 \in Int
  BY FileOK DEF TypeOK, Start
<1>2. IsFiniteSet(Start..(file.words - 1))
  BY <1>1, FS_Interval
<1>3. Operations(p) \in SUBSET (Start..(file.words - 1))
  BY DEF TypeOK, Operations
<1> QED BY <1>2, <1>3, FS_Subset, FS_CardinalityType

(* What a step that reads an operation leaves to be counted.               *)
LEMMA OneOperationMore ==
  ASSUME TypeOK, NEW c \in Pids, UNCHANGED given, m_positions[c] \notin taken[c],
         taken' = [taken EXCEPT ![c] = @ \cup {m_positions[c]}]
  PROVE  /\ \A p \in Pids \ {c} : Operations(p)' = Operations(p)
         /\ Entry(c) \in {"READ", "WRITE"} =>
              Cardinality(Operations(c)') = Cardinality(Operations(c)) + 1
         /\ Entry(c) \notin {"READ", "WRITE"} => Operations(c)' = Operations(c)
<1>1. \A p \in Pids \ {c} : Operations(p)' = Operations(p)
  BY DEF Operations, TypeOK, given, Pids
<1>2. taken'[c] = taken[c] \cup {m_positions[c]}
  BY DEF TypeOK
<1>3. ASSUME Entry(c) \in {"READ", "WRITE"}
      PROVE  Cardinality(Operations(c)') = Cardinality(Operations(c)) + 1
  <2>1. Operations(c)' = Operations(c) \cup {m_positions[c]}
    BY <1>2, <1>3 DEF Operations, Entry, given
  <2>2. m_positions[c] \notin Operations(c)
    BY DEF Operations
  <2> QED BY <2>1, <2>2, OperationsFinite, FS_AddElement
<1>4. Entry(c) \notin {"READ", "WRITE"} => Operations(c)' = Operations(c)
  BY <1>2 DEF Operations, Entry, given
<1> QED BY <1>1, <1>3, <1>4

-----------------------------------------------------------------------------
(* Actions that read no word and end no trace.                             *)
LEMMA SameTraces ==
  ASSUME UNCHANGED <<given, m_positions, taken>>
  PROVE  /\ Pids' = Pids /\ Cpus' = Cpus /\ Ended' = Ended
         /\ \A p \in Pids : Operations(p)' = Operations(p) /\ Open(p)' = Open(p)
BY DEF given, Pids, Cpus, Ended, Operations, Open

LEMMA NextNopInv ==
  ASSUME IInv, NEW c \in Cpus, NextNop(c)
  PROVE  IInv'
<1> USE DEF IInv
<1>0. Pids' = Pids /\ Cpus' = Cpus /\ c \in Pids
  BY DEF NextNop, Loop, given, Pids, Cpus
<1>1. CASE UNCHANGED <<m_positions, taken>>
  <2>1. TypeOK' /\ TakenBefore'
    BY <1>0, <1>1 DEF NextNop, Loop, given, TypeOK, TakenBefore
  <2>2. Waiting' /\ FinishedCount' /\ StopAtEnd' /\ AllCounted'
    BY <1>0, <1>1, SameTraces DEF NextNop, Loop, given, Waiting, FinishedCount, StopAtEnd, AllCounted, Open
  <2> QED BY <2>1, <2>2
<1>2. CASE Open(c) /\ ~AtEnd(c) /\ Entry(c) = "NOP" /\ Read(c) /\ m_positions' = Advanced(c)
  <2>1. /\ m_positions' \in [Pids -> {0} \cup Start..(file.words - 1 + file.procs)]
        /\ taken' \in [Pids -> SUBSET (Start..(file.words - 1))]
        /\ TakenBefore' /\ Ended' = Ended
        /\ m_positions[c] \notin taken[c]
        /\ taken' = [taken EXCEPT ![c] = @ \cup {m_positions[c]}]
    BY <1>0, <1>2, ReadWord DEF NextNop, Loop
  <2>2. TypeOK'
    BY <1>0, <2>1 DEF NextNop, Loop, given, TypeOK
  <2>3. \A p \in Pids : Operations(p)' = Operations(p)
    BY <1>0, <1>2, <2>1, OneOperationMore DEF NextNop, Loop
  <2>4. \A p \in Pids : m_positions[p] # 0 => m_positions'[p] # 0
    BY <1>0, <2>1 DEF Ended
  <2>5. Waiting'
    BY <1>0, <2>4 DEF NextNop, Loop, Waiting, Open
  <2>6. FinishedCount' /\ StopAtEnd'
    BY <1>0, <2>1 DEF NextNop, Loop, given, FinishedCount, StopAtEnd
  <2>7. AllCounted'
    BY <1>0, <2>3 DEF NextNop, AllCounted
  <2> QED BY <2>1, <2>2, <2>5, <2>6, <2>7
<1> QED BY <1>1, <1>2 DEF NextNop

LEMMA NextOpInv ==
  ASSUME IInv, NEW c \in Cpus, NextOp(c)
  PROVE  IInv'
<1> USE DEF IInv
<1>0. Pids' = Pids /\ Cpus' = Cpus /\ c \in Pids /\ pc[c] = "loop"
  BY DEF NextOp, Loop, given, Pids, Cpus, Open, Waiting
<1>1. /\ m_positions' \in [Pids -> {0} \cup Start..(file.words - 1 + file.procs)]
      /\ taken' \in [Pids -> SUBSET (Start..(file.words - 1))]
      /\ TakenBefore' /\ Ended' = Ended
      /\ m_positions[c] \notin taken[c]
      /\ taken' = [taken EXCEPT ![c] = @ \cup {m_positions[c]}]
  BY <1>0, ReadWord DEF NextOp, Loop
<1>2. TypeOK'
  BY <1>0, <1>1 DEF NextOp, Loop, given, TypeOK
<1>3. /\ \A p \in Pids \ {c} : Operations(p)' = Operations(p)
      /\ Cardinality(Operations(c)') = Cardinality(Operations(c)) + 1
  BY <1>0, <1>1, OneOperationMore DEF NextOp, Loop
<1>4. \A p \in Pids : m_positions[p] # 0 => m_positions'[p] # 0
  BY <1>0, <1>1 DEF Ended
<1>5. Waiting'
  BY <1>0, <1>4 DEF NextOp, Loop, Waiting, Open, TypeOK
<1>6. FinishedCount' /\ StopAtEnd'
  BY <1>0, <1>1 DEF NextOp, Loop, given, FinishedCount, StopAtEnd
<1>7. AllCounted'
  <2> SUFFICES ASSUME NEW p \in Pids
               PROVE  count'[p] + (IF p \in Cpus /\ pc'[p] = "op" THEN 1 ELSE 0)
                        = Cardinality(Operations(p)')
    BY <1>0 DEF AllCounted
  <2>1. CASE p = c
    BY <1>0, <1>3, <2>1 DEF NextOp, AllCounted, TypeOK
  <2>2. CASE p # c
    BY <1>0, <1>3, <2>2 DEF NextOp, AllCounted, TypeOK
  <2> QED BY <2>1, <2>2
<1> QED BY <1>1, <1>2, <1>5, <1>6, <1>7

LEMMA NextEndInv ==
  ASSUME IInv, NEW c \in Cpus, NextEnd(c)
  PROVE  IInv'
<1> USE DEF IInv
<1>0. Pids' = Pids /\ Cpus' = Cpus /\ c \in Pids /\ pc[c] = "loop" /\ m_positions[c] # 0
  BY DEF NextEnd, Loop, given, Pids, Cpus, Open, Waiting
<1>1. /\ m_positions' = [m_positions EXCEPT ![c] = 0]
      /\ m_num_finished' = Plus(m_num_finished, 1)
  BY DEF NextEnd, EndTrace
<1>2. taken' \in [Pids -> SUBSET (Start..(file.words - 1))]
      /\ \A p \in Pids : Operations(p)' = Operations(p) /\ (p # c => taken'[p] = taken[p])
  <2>1. CASE UNCHANGED taken
    BY <2>1 DEF TypeOK, Operations, NextEnd, Loop, given
  <2>2. CASE ~AtEnd(c) /\ Entry(c) = "END" /\ Read(c)
    <3>1. m_positions[c] \in Start..(file.words - 1)
      BY <1>0, <2>2, FileOK DEF TypeOK, AtEnd, Start
    <3>2. taken' = [taken EXCEPT ![c] = @ \cup {m_positions[c]}]
      BY <2>2 DEF Read
    <3>3. \A p \in Pids : Operations(p)' = Operations(p)
      BY <2>2, <3>2 DEF Operations, Entry, TypeOK, NextEnd, Loop, given
    <3> QED BY <1>0, <3>1, <3>2, <3>3 DEF TypeOK
  <2> QED BY <2>1, <2>2 DEF NextEnd
<1>3. TypeOK'
  <2>1. m_num_finished' \in 0..(Modulus - 1)
    BY <1>1, FileOK DEF TypeOK, Plus
  <2>2. m_positions' \in [Pids -> {0} \cup Start..(file.words - 1 + file.procs)]
    BY <1>0, <1>1 DEF TypeOK
  <2> QED BY <1>0, <1>2, <2>1, <2>2 DEF NextEnd, Loop, given, TypeOK
<1>4. TakenBefore'
  BY <1>0, <1>1, <1>2 DEF TakenBefore, TypeOK
<1>5. Waiting'
  <2> SUFFICES ASSUME NEW d \in Cpus
               PROVE  (d \in due' => pc[d] = "loop") /\ (pc[d] = "op" => Open(d)')
    BY <1>0 DEF Waiting, NextEnd
  <2>1. pc[d] = "op" => d # c
    BY <1>0
  <2> QED BY <1>0, <1>1, <2>1 DEF Waiting, Open, NextEnd, Loop, TypeOK
<1>6. FinishedCount'
  <2>1. Ended' = Ended \cup {c} /\ c \notin Ended
    BY <1>0, <1>1 DEF Ended, TypeOK
  <2>2. IsFiniteSet(Ended) /\ Cardinality(Ended) \in 0..file.procs
        /\ Cardinality(Ended \cup {c}) \in 0..file.procs
    BY <1>0, PidsFinite DEF Ended, TypeOK
  <2>3. Cardinality(Ended') = Cardinality(Ended) + 1
    BY <2>1, <2>2, FS_AddElement
  <2>4. garbage \in 0..(Modulus - 1) /\ garbage' = garbage
    BY TraceAssumption DEF TypeOK, NextEnd, Loop, given
  <2>5. \A k \in Nat : k + 1 < Modulus => Plus(Plus(garbage, k), 1) = Plus(garbage, k + 1)
    BY <2>4, FileOK DEF Plus, TypeOK
  <2>6. Cardinality(Ended) + 1 < Modulus /\ Cardinality(Ended) \in Nat
    BY <2>1, <2>2, <2>3, FileOK DEF TypeOK
  <2>7. m_num_finished' = Plus(garbage, Cardinality(Ended) + 1)
    BY <1>1, <2>5, <2>6 DEF FinishedCount
  <2> QED BY <2>3, <2>4, <2>7 DEF FinishedCount
<1>7. StopAtEnd'
  BY <1>0, <1>1 DEF StopAtEnd, Ended, NextEnd, Loop, given, TypeOK
<1>8. AllCounted'
  BY <1>0, <1>2 DEF AllCounted, NextEnd
<1> QED BY <1>3, <1>4, <1>5, <1>6, <1>7, <1>8

LEMMA StopInv ==
  ASSUME IInv, NEW c \in Cpus, Stop(c)
  PROVE  IInv'
<1> USE DEF IInv
<1>0. /\ Pids' = Pids /\ Cpus' = Cpus /\ Ended' = Ended
      /\ \A p \in Pids : Operations(p)' = Operations(p)
      /\ pc[c] = "loop" /\ pc' = [pc EXCEPT ![c] = "end"]
  BY SameTraces DEF Stop, Loop, Waiting
<1>1. TypeOK'
  BY <1>0 DEF Stop, Loop, given, TypeOK
<1>2. Waiting' /\ TakenBefore' /\ FinishedCount'
  BY <1>0 DEF Stop, Loop, given, Waiting, TakenBefore, FinishedCount, Open, TypeOK
<1>3. AllCounted'
  BY <1>0 DEF Stop, AllCounted, TypeOK
<1>4. StopAtEnd'
  <2>1. cpunum <= file.procs => c \in Pids
    BY FileOK, TraceAssumption DEF Cpus, Pids, TypeOK
  <2> QED BY <1>0, <2>1, EofMeansEnded DEF Stop, Loop, given, StopAtEnd
<1> QED BY <1>1, <1>2, <1>3, <1>4

LEMMA OpDoneInv ==
  ASSUME IInv, NEW c \in Cpus, OpDone(c)
  PROVE  IInv'
<1> USE DEF IInv
<1>0. /\ Pids' = Pids /\ Cpus' = Cpus /\ Ended' = Ended
      /\ \A p \in Pids : Operations(p)' = Operations(p)
      /\ c \in Pids /\ pc[c] = "op" /\ pc' = [pc EXCEPT ![c] = "loop"]
      /\ count' = [count EXCEPT ![c] = @ + 1]
  BY SameTraces DEF OpDone, Waiting, Open, Counted
<1>1. TypeOK'
  BY <1>0 DEF OpDone, given, TypeOK
<1>2. Waiting' /\ TakenBefore' /\ FinishedCount' /\ StopAtEnd'
  BY <1>0 DEF OpDone, given, Waiting, TakenBefore, FinishedCount, StopAtEnd, Open, TypeOK
<1>3. AllCounted'
  BY <1>0 DEF AllCounted, TypeOK
<1> QED BY <1>1, <1>2, <1>3

LEMMA TickInv ==
  ASSUME IInv, Tick
  PROVE  IInv'
<1> USE DEF IInv
<1>0. /\ Pids' = Pids /\ Cpus' = Cpus /\ Ended' = Ended
      /\ \A p \in Pids : Operations(p)' = Operations(p)
  BY SameTraces DEF Tick
<1>1. TypeOK'
  BY <1>0 DEF Tick, given, TypeOK
<1>2. /\ Waiting' /\ TakenBefore' /\ FinishedCount' /\ StopAtEnd' /\ AllCounted'
  BY <1>0 DEF Tick, given, Waiting, TakenBefore, FinishedCount, StopAtEnd, AllCounted, Open
<1> QED BY <1>1, <1>2

LEMMA StutterInv ==
  ASSUME IInv, UNCHANGED vars
  PROVE  IInv'
<1>0. UNCHANGED <<given, m_positions, taken>> /\ UNCHANGED vars
  BY DEF vars, given
<1> QED BY <1>0, SameTraces DEF IInv, vars, given, TypeOK, Waiting, TakenBefore, FinishedCount,
           StopAtEnd, AllCounted, Open

(* The invariant, and why: a processor that waits has an open trace, so the *)
(* end of the last trace finds everybody answered; and only the first end  *)
(* of a trace is counted.                                                  *)
THEOREM Inductive == Spec => []IInv
<1>1. IInv /\ [Next]_vars => IInv'
  BY NextNopInv, NextEndInv, NextOpInv, StopInv, OpDoneInv, TickInv, StutterInv
     DEF Next, Finished
<1> QED BY <1>1, InitInv, PTL DEF Spec

(* Positions, counters and what is read stay within the file and the width *)
(* of the counter (psa.cpp:225-281).                                       *)
THEOREM TypeCorrect == Spec => []TypeOK
<1>1. IInv => TypeOK
  BY DEF IInv
<1> QED BY <1>1, Inductive, PTL

(* m_num_finished is off by its first value for ever (psa.cpp:246, 269).   *)
THEOREM CountsEnds == Spec => []FinishedCount
<1>1. IInv => FinishedCount
  BY DEF IInv
<1> QED BY <1>1, Inductive, PTL

(* No early stop with a counter that starts at 0 (psa.cpp:285, CPU.h:31).  *)
THEOREM NoEarlyStop == Spec => []StopMeansDone
<1>1. IInv => StopMeansDone
  BY DEF IInv, StopMeansDone, StopAtEnd, Waiting, Open, Ended
<1> QED BY <1>1, Inductive, PTL

(* Every operation is counted once (psa.cpp:131-161).                      *)
THEOREM CountsOperations == Spec => []AllCounted
<1>1. IInv => AllCounted
  BY DEF IInv
<1> QED BY <1>1, Inductive, PTL

-----------------------------------------------------------------------------
(* The words that belong to each processor.                                *)

(* An open trace stands at one of its own words, or behind the file, and   *)
(* has not met its END.                                                    *)
OwnPosition ==
  \A p \in Pids : m_positions[p] # 0 => (m_positions[p] - Start) % file.procs = p

NoEndRead ==
  \A p \in Pids : m_positions[p] # 0 => \A w \in taken[p] : file.type[w] # "END"

LaneInv == OwnPosition /\ NoEndRead /\ LaneRead

(* Division by the number of traces, in the three forms the lanes need.    *)
LEMMA DivMod ==
  ASSUME NEW n \in Nat \ {0}, NEW a \in Nat
  PROVE  /\ a = n * (a \div n) + (a % n)
         /\ a \div n \in Nat /\ (a % n) \in 0..(n - 1)
OBVIOUS

LEMMA QuotientsAgree ==
  ASSUME NEW n \in Nat \ {0}, NEW k \in Int, NEW j \in Int,
         n * j <= n * k, n * k < n * j + n
  PROVE  k = j
<1>1. n * (k - j) < n /\ n * (k - j) >= 0
  OBVIOUS
<1>2. k - j < 1
  BY <1>1
<1>3. k - j >= 0
  BY <1>1
<1> QED BY <1>2, <1>3

LEMMA DivisionUnique ==
  ASSUME NEW n \in Nat \ {0}, NEW k \in Int, NEW j \in Int,
         NEW p \in 0..(n - 1), NEW q \in 0..(n - 1), n * k + p = n * j + q
  PROVE  k = j /\ p = q
<1>1. CASE n * j <= n * k
  <2>1. n * k < n * j + n
    BY <1>1
  <2>2. k = j
    BY <1>1, <2>1, QuotientsAgree
  <2> QED BY <2>2
<1>2. CASE n * k <= n * j
  <2>1. n * j < n * k + n
    BY <1>2
  <2>2. k = j
    BY <1>2, <2>1, QuotientsAgree
  <2> QED BY <2>2
<1>3. n * j \in Int /\ n * k \in Int
  OBVIOUS
<1> QED BY <1>1, <1>2, <1>3

(* The next word of a trace belongs to the same processor.                 *)
LEMMA NextInLane ==
  ASSUME NEW n \in Nat \ {0}, NEW a \in Nat
  PROVE  (a + n) % n = a % n
<1>1. a + n \in Nat
  OBVIOUS
<1>2. \A b \in Nat : /\ b = n * (b \div n) + (b % n)
                     /\ b \div n \in Nat /\ (b % n) \in 0..(n - 1)
  BY DivMod, Zenon
<1>3. PICK j \in Nat, q \in 0..(n - 1) : a + n = n * j + q /\ q = (a + n) % n
  BY <1>1, <1>2, Zenon
<1>4. PICK i \in Nat, p \in 0..(n - 1) : a = n * i + p /\ p = a % n
  BY <1>2, Zenon
<1>5. i + 1 \in Int /\ j \in Int /\ n * (i + 1) + p = n * j + q
  BY <1>3, <1>4
<1>6. p = q
  BY <1>5, DivisionUnique, Zenon
<1> QED BY <1>3, <1>4, <1>6

(* And there is none in between.                                           *)
LEMMA NoneBetween ==
  ASSUME NEW n \in Nat \ {0}, NEW a \in Nat, NEW b \in Nat,
         a % n = b % n, a <= b, b < a + n
  PROVE  a = b
<1>1. \A c \in Nat : /\ c = n * (c \div n) + (c % n)
                     /\ c \div n \in Nat /\ (c % n) \in 0..(n - 1)
  BY DivMod, Zenon
<1>2. PICK j \in Nat, q \in 0..(n - 1) : b = n * j + q /\ q = b % n
  BY <1>1, Zenon
<1>3. PICK i \in Nat, p \in 0..(n - 1) : a = n * i + p /\ p = a % n
  BY <1>1, Zenon
<1>4. p = q
  BY <1>2, <1>3
<1>5. n * i \in Int /\ n * j \in Int /\ i \in Int /\ j \in Int
  OBVIOUS
<1>6. n * i <= n * j /\ n * j < n * i + n
  BY <1>2, <1>3, <1>4, <1>5
<1>7. j = i
  BY <1>5, <1>6, QuotientsAgree
<1> QED BY <1>2, <1>3, <1>4, <1>7

(* What is in the lane of a trace up to its next position.                 *)
LEMMA UpToNext ==
  ASSUME TypeOK, OwnPosition, NEW c \in Pids, Open(c), ~AtEnd(c)
  PROVE  /\ m_positions[c] \in Lane(c)
         /\ ((m_positions[c] + file.procs) - Start) % file.procs = c
         /\ {w \in Lane(c) : w < m_positions[c] + file.procs}
              = {w \in Lane(c) : w < m_positions[c]} \cup {m_positions[c]}
<1> DEFINE pos == m_positions[c]
           n == file.procs
<1>1. /\ n \in Nat \ {0} /\ file.words \in Nat
      /\ pos \in Start..(file.words - 1) /\ Start = 2 /\ pos - Start \in Nat
  <2>1. n \in Nat \ {0} /\ file.words \in Nat
    BY FileOK DEF TypeOK
  <2>2. pos \in {0} \cup Start..(file.words - 1 + n) /\ pos # 0
    BY DEF TypeOK, Open
  <2> QED BY <2>1, <2>2 DEF AtEnd, Start
<1>2. (pos - Start) % n = c
  BY <1>1 DEF OwnPosition, Start
<1>3. pos \in Lane(c)
  BY <1>1, <1>2 DEF Lane
<1>4. ((pos + n) - Start) % n = c
  <2>1. ((pos - Start) + n) % n = (pos - Start) % n
    BY <1>1, NextInLane, Zenon
  <2>2. (pos + n) - Start = (pos - Start) + n
    BY <1>1
  <2> QED BY <1>2, <2>1, <2>2
<1>5. ASSUME NEW w \in Lane(c), w < pos + n, ~(w < pos)
      PROVE  w = pos
  <2>1. w - Start \in Nat /\ (w - Start) % n = c
    BY <1>1 DEF Lane
  <2>2. pos - Start <= w - Start /\ w - Start < (pos - Start) + n
    BY <1>1, <1>5, <2>1 DEF Lane
  <2>3. (pos - Start) % n = (w - Start) % n
    BY <1>2, <2>1
  <2>4. pos - Start = w - Start
    BY <1>1, <2>1, <2>2, <2>3, NoneBetween, Zenon
  <2> QED BY <1>1, <2>4 DEF Lane
<1>6. \A w \in Lane(c) : w \in Int
  BY <1>1 DEF Lane
<1>7. {w \in Lane(c) : w < pos + n} = {w \in Lane(c) : w < pos} \cup {pos}
  BY <1>1, <1>3, <1>5, <1>6
<1> QED BY <1>3, <1>4, <1>7

LEMMA LaneInit == Init => LaneInv
<1> SUFFICES ASSUME Init PROVE LaneInv
  OBVIOUS
<1>1. file \in Files /\ file.procs \in Nat \ {0} /\ file.words \in Nat
  BY FileOK DEF Init
<1>2. \A p \in Pids : m_positions[p] = Start + p /\ taken[p] = {} /\ p \in 0..(file.procs - 1)
  BY DEF Init, Pids
<1>3. \A p \in Pids : p % file.procs = p
  BY <1>1, <1>2
<1>4. \A p \in Pids : m_positions[p] - Start = p /\ m_positions[p] # 0
  BY <1>1, <1>2 DEF Start
<1>5. OwnPosition /\ NoEndRead
  BY <1>2, <1>3, <1>4 DEF OwnPosition, NoEndRead
<1>6. LaneRead
  <2> SUFFICES ASSUME NEW p \in Pids, NEW w \in Lane(p), w < m_positions[p]
               PROVE  FALSE
    BY <1>2, <1>4 DEF LaneRead, Before
  <2>1. w - Start \in Nat /\ w - Start < p /\ (w - Start) % file.procs = p
    BY <1>1, <1>2 DEF Lane, Start
  <2>2. (w - Start) % file.procs = w - Start
    BY <1>1, <1>2, <2>1
  <2> QED BY <1>1, <1>2, <2>1, <2>2
<1> QED BY <1>5, <1>6 DEF LaneInv

(* Where nothing is read.                                                  *)
LEMMA LaneSame ==
  ASSUME LaneInv, UNCHANGED <<given, m_positions, taken>>
  PROVE  LaneInv'
BY DEF LaneInv, OwnPosition, NoEndRead, LaneRead, Before, Lane, Pids, given

(* A word that is no END is read.                                          *)
LEMMA LaneReadOn ==
  ASSUME TypeOK, LaneInv, NEW c \in Pids, Open(c), ~AtEnd(c), Entry(c) # "END",
         UNCHANGED given, Read(c), m_positions' = Advanced(c)
  PROVE  LaneInv'
<1>1. Pids' = Pids /\ \A p \in Pids : Lane(p)' = Lane(p)
  BY DEF Pids, Lane, given
<1>2. /\ m_positions[c] \in Lane(c)
      /\ ((m_positions[c] + file.procs) - Start) % file.procs = c
      /\ {w \in Lane(c) : w < m_positions[c] + file.procs}
           = {w \in Lane(c) : w < m_positions[c]} \cup {m_positions[c]}
  BY UpToNext DEF LaneInv
<1>3. /\ m_positions'[c] = m_positions[c] + file.procs
      /\ taken'[c] = taken[c] \cup {m_positions[c]}
      /\ \A p \in Pids : p # c => m_positions'[p] = m_positions[p] /\ taken'[p] = taken[p]
  BY DEF Advanced, Read, TypeOK
<1>4. m_positions'[c] # 0 /\ m_positions[c] # 0
  BY <1>3, FileOK DEF TypeOK, Open, Start
<1>5. OwnPosition'
  <2> SUFFICES ASSUME NEW p \in Pids, m_positions'[p] # 0
               PROVE  (m_positions'[p] - Start) % file.procs = p
    BY <1>1 DEF OwnPosition, given
  <2>1. CASE p = c
    <3>1. m_positions'[p] - Start = (m_positions[c] + file.procs) - Start
      BY <1>3, <2>1, Zenon
    <3> QED BY <1>2, <2>1, <3>1, Zenon
  <2>2. CASE p # c
    BY <1>3, <2>2 DEF LaneInv, OwnPosition
  <2> QED BY <2>1, <2>2
<1>6. NoEndRead'
  BY <1>1, <1>3, <1>4 DEF LaneInv, NoEndRead, Entry, given
<1>7. LaneRead'
  <2> SUFFICES ASSUME NEW p \in Pids PROVE taken'[p] = Before(p)'
    BY <1>1 DEF LaneRead
  <2>1. CASE p = c
    <3>1. taken[c] = {w \in Lane(c) : w < m_positions[c]}
      BY <1>4 DEF LaneInv, LaneRead, Before
    <3>2. Before(c)' = {w \in Lane(c) : w < m_positions[c] + file.procs}
      BY <1>1, <1>3, <1>4 DEF Before
    <3> QED BY <1>2, <1>3, <2>1, <3>1, <3>2
  <2>2. CASE p # c
    <3>1. m_positions'[p] = m_positions[p] /\ Lane(p)' = Lane(p) /\ file' = file
      BY <1>1, <1>3, <2>2 DEF given
    <3>2. Before(p)' = Before(p)
      BY <3>1 DEF Before
    <3> QED BY <1>3, <2>2, <3>2 DEF LaneInv, LaneRead
  <2> QED BY <2>1, <2>2
<1> QED BY <1>5, <1>6, <1>7 DEF LaneInv

(* A trace ends, at an END or at the end of the file.                      *)
LEMMA LaneEnds ==
  ASSUME TypeOK, LaneInv, NEW c \in Pids, NextEnd(c)
  PROVE  LaneInv'
<1>1. /\ Pids' = Pids /\ \A p \in Pids : Lane(p)' = Lane(p)
      /\ file' = file /\ Open(c)
  BY DEF Pids, Lane, NextEnd, Loop, given
<1>2. /\ m_positions'[c] = 0
      /\ \A p \in Pids : p # c => m_positions'[p] = m_positions[p] /\ taken'[p] = taken[p]
  BY DEF NextEnd, EndTrace, Read, TypeOK
<1>3. OwnPosition' /\ NoEndRead'
  BY <1>1, <1>2 DEF LaneInv, OwnPosition, NoEndRead
<1>4. /\ taken[c] = {w \in Lane(c) : w < m_positions[c]}
      /\ \A w \in Lane(c) : w < m_positions[c] => file.type[w] # "END"
      /\ m_positions[c] \in Int /\ file.words \in Int
      /\ \A w \in Lane(c) : w \in Int /\ w < file.words
  <2>1. m_positions[c] # 0
    BY <1>1 DEF Open
  <2>2. taken[c] = {w \in Lane(c) : w < m_positions[c]}
    BY <2>1 DEF LaneInv, LaneRead, Before
  <2>3. \A w \in taken[c] : file.type[w] # "END"
    BY <2>1 DEF LaneInv, NoEndRead
  <2> QED BY <2>1, <2>2, <2>3, FileOK DEF TypeOK, Lane, Start
<1>5. taken'[c] = {w \in Lane(c) : \A v \in Lane(c) : v < w => file.type[v] # "END"}
  <2>1. CASE AtEnd(c) /\ UNCHANGED taken
    <3>1. \A w \in Lane(c) : w < m_positions[c]
      BY <1>4, <2>1 DEF AtEnd
    <3> QED BY <1>4, <2>1, <3>1
  <2>2. CASE ~AtEnd(c) /\ Entry(c) = "END" /\ Read(c)
    <3>1. taken'[c] = taken[c] \cup {m_positions[c]}
      BY <2>2 DEF Read, TypeOK
    <3>2. m_positions[c] \in Lane(c) /\ file.type[m_positions[c]] = "END"
      BY <1>1, <2>2, UpToNext DEF LaneInv, Entry
    <3>3. ASSUME NEW w \in Lane(c)
          PROVE  w \in taken'[c] <=> \A v \in Lane(c) : v < w => file.type[v] # "END"
      <4>1. CASE w <= m_positions[c]
        <5>1. \A v \in Lane(c) : v < w => v < m_positions[c]
          BY <1>4, <4>1
        <5> QED BY <1>4, <3>1, <4>1, <5>1
      <4>2. CASE m_positions[c] < w
        BY <1>4, <3>1, <3>2, <4>2
      <4> QED BY <1>4, <4>1, <4>2
    <3> QED BY <1>4, <3>1, <3>2, <3>3
  <2> QED BY <2>1, <2>2 DEF NextEnd
<1>6. LaneRead'
  <2> SUFFICES ASSUME NEW p \in Pids PROVE taken'[p] = Before(p)'
    BY <1>1 DEF LaneRead
  <2>1. CASE p = c
    BY SMTT(30), <1>1, <1>2, <1>5, <2>1 DEF Before
  <2>2. CASE p # c
    <3>1. m_positions'[p] = m_positions[p] /\ Lane(p)' = Lane(p) /\ file' = file
      BY <1>1, <1>2, <2>2
    <3>2. Before(p)' = Before(p)
      BY <3>1 DEF Before
    <3> QED BY <1>2, <2>2, <3>2 DEF LaneInv, LaneRead
  <2> QED BY <2>1, <2>2
<1> QED BY <1>3, <1>6 DEF LaneInv

(* However the processors run against each other, each is given the words  *)
(* of its own lane, all up to the END and none behind it (psa.cpp:204-207, *)
(* 255): the position of an open trace keeps its remainder, and between it *)
(* and the next there is no other word of the lane.                        *)
THEOREM OwnWords == Spec => []LaneRead
<1>1. TypeOK /\ LaneInv /\ [Next]_vars => LaneInv'
  <2> SUFFICES ASSUME TypeOK, LaneInv, [Next]_vars PROVE LaneInv'
    OBVIOUS
  <2>1. ASSUME NEW c \in Cpus, NextNop(c) PROVE LaneInv'
    <3>1. CASE UNCHANGED <<m_positions, taken>>
      BY <2>1, <3>1, LaneSame DEF NextNop, Loop
    <3>2. CASE Open(c) /\ ~AtEnd(c) /\ Entry(c) = "NOP" /\ Read(c) /\ m_positions' = Advanced(c)
      BY <2>1, <3>2, LaneReadOn DEF NextNop, Loop
    <3> QED BY <2>1, <3>1, <3>2 DEF NextNop
  <2>2. ASSUME NEW c \in Cpus, NextOp(c) PROVE LaneInv'
    BY <2>2, LaneReadOn DEF NextOp, Loop, Open
  <2>3. ASSUME NEW c \in Cpus, NextEnd(c) PROVE LaneInv'
    BY <2>3, LaneEnds DEF NextEnd, Open
  <2>4. ASSUME NEW c \in Cpus, Stop(c) \/ OpDone(c) PROVE LaneInv'
    BY <2>4, LaneSame DEF Stop, OpDone, Loop
  <2>5. CASE Tick \/ Finished \/ UNCHANGED vars
    BY <2>5, LaneSame DEF Tick, Finished, vars, given
  <2> QED BY <2>1, <2>2, <2>3, <2>4, <2>5 DEF Next
<1>2. LaneInv => LaneRead
  BY DEF LaneInv
<1> QED BY <1>1, <1>2, LaneInit, TypeCorrect, PTL DEF Spec
=============================================================================

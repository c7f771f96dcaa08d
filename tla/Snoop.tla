------------------------------- MODULE Snoop -------------------------------
(***************************************************************************)
(* The bus snooping example (locknsnoop/snooping_sticky/snooping.cpp): an  *)
(* initiator that executes from a copy of a memory region, an initiator    *)
(* that reads and writes at random, by transactions or through DMI         *)
(* regions it keeps in a table, an interconnect that maps system addresses *)
(* to two memories and back, and memories that watch a region for writes.  *)
(*                                                                         *)
(* A system address is a pair of a target and a word of it: decode_address *)
(* takes the pair apart and reconstruct_address puts it together.  A       *)
(* memory holds "initial" or "written" in each word; the value written is  *)
(* the address, the same one at every write of a word.                     *)
(*                                                                         *)
(* A thread runs until its local time reaches the quantum: every step of a *)
(* thread is one iteration of its loop, and threads change at sync() only. *)
(***************************************************************************)
EXTENDS Integers, Sequences

CONSTANTS Size,        \* words of a memory (SIZE)
          SnoopLast,   \* last word of the region that is copied (end_address)
          Accesses,    \* iterations of Initiator::thread_process
          MaxCount,    \* instructions until Snooping_initiator waits for ever
          Quantum,     \* the global quantum, in units of LATENCY
          First        \* the threads the kernel may run first

Snooper == "initiator1"
Writer  == "initiator2"
Threads == {Snooper, Writer}

ASSUME SnoopAssumption ==
  /\ Size \in Nat \ {0}
  /\ SnoopLast \in 0..(Size - 1)
  /\ {Accesses, MaxCount, Quantum} \subseteq Nat \ {0}
  /\ First \in SUBSET Threads /\ First # {}

Targets  == {0, 1}
Words    == 0..(Size - 1)
Commands == {"READ", "WRITE"}

(* start_address and end_address: the region starts at the second memory.  *)
Code == [target |-> 1, first |-> 0, last |-> SnoopLast]

Covers(r, t, w)  == r.target = t /\ r.first <= w /\ w <= r.last
Overlaps(r, s)   == r.target = s.target /\ r.first <= s.last /\ s.first <= r.last

VARIABLES
  mem,            \* the words of the memories
  write_snoop,    \* the memories that watch a region
  snooped,        \* the region each memory watches, or watched last
  m_dmi_valid,    \* Snooping_initiator: the copy may be executed
  m_cache,        \* Snooping_initiator: the copy
  count,          \* Snooping_initiator: instructions executed
  dmi_table,      \* Initiator: the DMI regions it was granted
  accessed,       \* Initiator: iterations done
  running, ready, \* the thread that runs, and those that can at this time
  local           \* local time of the running thread

memories == <<mem, write_snoop, snooped>>
snooper  == <<m_dmi_valid, m_cache, count>>
writer   == <<dmi_table, accessed>>
kernel   == <<running, ready, local>>
vars     == <<memories, snooper, writer, kernel>>

Nobody == "nobody"
NoCopy == << >>

Contents(m) == [w \in Code.first..Code.last |-> m[Code.target][w]]

Init ==
  /\ mem = [t \in Targets |-> [w \in Words |-> "initial"]]
  /\ write_snoop = [t \in Targets |-> FALSE]
  /\ snooped = [t \in Targets |-> [first |-> 0, last |-> 0]]
  /\ m_dmi_valid = FALSE
  /\ m_cache = NoCopy
  /\ count = 0
  /\ dmi_table = << >>
  /\ accessed = 0
  /\ running = Nobody
  /\ ready = Threads
  /\ local = 0

-----------------------------------------------------------------------------
(* The kernel.                                                             *)

Live(t) == IF t = Snooper THEN count < MaxCount ELSE accessed < Accesses

Started == Threads \ ready # {} \/ count > 0 \/ accessed > 0

(* A thread starts, or returns from sync().                                *)
Dispatch(t) ==
  /\ running = Nobody
  /\ t \in ready
  /\ Started \/ t \in First
  /\ running' = t
  /\ ready' = ready \ {t}
  /\ local' = 0
  /\ UNCHANGED <<memories, snooper, writer>>

(* The time of the next quantum: sync() of every thread that waits.        *)
NextQuantum ==
  /\ running = Nobody
  /\ ready = {}
  /\ ready' = {t \in Threads : Live(t)}
  /\ ready' # {}
  /\ UNCHANGED <<memories, snooper, writer, running, local>>

(* Mutant: the thread never asks whether it needs to sync().               *)
ElapseUnsynced == local' = local + 1 /\ UNCHANGED <<running, ready>>

(* m_qk.inc(latency), and sync() when the quantum is used up.              *)
Elapse ==
  IF local + 1 >= Quantum
  THEN running' = Nobody /\ local' = 0 /\ UNCHANGED ready
  ELSE local' = local + 1 /\ UNCHANGED <<running, ready>>

(* The thread returned, or waits for nothing.                              *)
Finish == running' = Nobody /\ local' = 0 /\ UNCHANGED ready

-----------------------------------------------------------------------------
(* Interconnect::invalidate_direct_mem_ptr calls every initiator.          *)

(* Mutant: the interconnect passes the memory's own addresses on.          *)
CopyHitUnmapped(r) == Overlaps([r EXCEPT !.target = 0], Code)

CopyHit(r) == Overlaps(r, Code)

(* Initiator::invalidate_direct_mem_ptr: the regions are examined in turn. *)
(* The index moves on after an erase as well, so that the region behind an *)
(* erased one is skipped.                                                  *)
Examine(a, e, r) ==
  IF a.skip THEN [kept |-> Append(a.kept, e), skip |-> FALSE]
  ELSE IF Overlaps(e, r) THEN [a EXCEPT !.skip = TRUE]
  ELSE [a EXCEPT !.kept = Append(@, e)]

Erase(table, r) ==
  LET examined[i \in 0..Len(table)] ==
        IF i = 0 THEN [kept |-> << >>, skip |-> FALSE]
        ELSE Examine(examined[i - 1], table[i], r)
  IN examined[Len(table)].kept

Watched(t) == [target |-> t, first |-> snooped[t].first, last |-> snooped[t].last]

-----------------------------------------------------------------------------
(* Snooping_initiator::thread_process.                                     *)

(* Mutant: the callback during the call wins over the status.              *)
CallbackKept(status, called) == status /\ ~called

(* The status the call returns is assigned after the callback it made.     *)
StatusKept(status, called) == status

(* The request: the memory sets up the snoop and invalidates the region    *)
(* for all initiators, the caller included; the status that is returned    *)
(* then makes the copy valid.                                              *)
RequestSnoop ==
  /\ running = Snooper
  /\ ~m_dmi_valid
  /\ write_snoop' = [write_snoop EXCEPT ![Code.target] = TRUE]
  /\ snooped' = [snooped EXCEPT ![Code.target] =
                   [first |-> Code.first, last |-> Code.last]]
  /\ dmi_table' = Erase(dmi_table, Code)
  /\ m_dmi_valid' = StatusKept(TRUE, CopyHit(Code))
  /\ m_cache' = Contents(mem)
  /\ UNCHANGED <<mem, count, accessed, kernel>>

(* One instruction from the copy.  The last one waits without an event.    *)
Execute ==
  /\ running = Snooper
  /\ m_dmi_valid
  /\ count' = count + 1
  /\ IF count' = MaxCount THEN Finish ELSE Elapse
  /\ UNCHANGED <<memories, m_dmi_valid, m_cache, writer>>

-----------------------------------------------------------------------------
(* Memory::get_direct_mem_ptr for Initiator: its transactions carry no     *)
(* valid extension, as RequestSnoop makes it invalid before the release.   *)

WholeMemory(t, cmd) ==
  [target |-> t, first |-> 0, last |-> Size - 1, write |-> cmd = "WRITE"]

(* Mutant: the snoop is not looked at.                                     *)
RejectedNever(snoop, t, cmd) == FALSE

(* The snoop, as write_snoop is when DMI is requested.                     *)
Rejected(snoop, t, cmd) == snoop[t] /\ cmd = "WRITE"

(* Initiator::thread_process, one iteration.                               *)

Usable(t, w, cmd) ==
  {i \in DOMAIN dmi_table : /\ Covers(dmi_table[i], t, w)
                            /\ cmd = "WRITE" => dmi_table[i].write}

Store(t, w, cmd) ==
  mem' = IF cmd = "WRITE" THEN [mem EXCEPT ![t][w] = "written"] ELSE mem

DmiAccess(t, w, cmd) ==
  /\ Usable(t, w, cmd) # {}
  /\ Store(t, w, cmd)
  /\ UNCHANGED <<write_snoop, snooped, m_dmi_valid, dmi_table>>

(* Mutant: the last word of the region is missed.                          *)
CaughtShort(t, w, cmd) ==
  cmd = "WRITE" /\ write_snoop[t] /\ Covers(Watched(t), t, w) /\ w < snooped[t].last

Caught(t, w, cmd) ==
  cmd = "WRITE" /\ write_snoop[t] /\ Covers(Watched(t), t, w)

(* b_transport, then the request for DMI, which the memory always allows.  *)
Transport(t, w, cmd) ==
  /\ Usable(t, w, cmd) = {}
  /\ Store(t, w, cmd)
  /\ write_snoop' = [write_snoop EXCEPT ![t] = @ /\ ~Caught(t, w, cmd)]
  /\ m_dmi_valid' = (m_dmi_valid /\ ~(Caught(t, w, cmd) /\ CopyHit(Watched(t))))
  /\ LET kept == IF Caught(t, w, cmd) THEN Erase(dmi_table, Watched(t)) ELSE dmi_table
     IN dmi_table' = IF Rejected(write_snoop', t, cmd) THEN kept
                     ELSE Append(kept, WholeMemory(t, cmd))
  /\ UNCHANGED snooped

Access ==
  /\ running = Writer
  /\ \E t \in Targets, w \in Words, cmd \in Commands :
       DmiAccess(t, w, cmd) \/ Transport(t, w, cmd)
  /\ accessed' = accessed + 1
  /\ IF accessed' = Accesses THEN Finish ELSE Elapse
  /\ UNCHANGED <<m_cache, count>>

Next ==
  \/ \E t \in Threads : Dispatch(t)
  \/ NextQuantum
  \/ RequestSnoop
  \/ Execute
  \/ Access

TypeOK ==
  /\ mem \in [Targets -> [Words -> {"initial", "written"}]]
  /\ write_snoop \in [Targets -> BOOLEAN]
  /\ snooped \in [Targets -> [first : Words, last : Words]]
  /\ m_dmi_valid \in BOOLEAN
  /\ m_cache \in {NoCopy} \union
                  [Code.first..Code.last -> {"initial", "written"}]
  /\ count \in 0..MaxCount
  /\ dmi_table \in Seq([target : Targets, first : Words, last : Words,
                        write : BOOLEAN])
  /\ accessed \in 0..Accesses
  /\ running \in Threads \union {Nobody}
  /\ ready \in SUBSET Threads
  /\ local \in 0..(Quantum - 1)

(* While the copy is executed, the memory watches exactly that region:     *)
(* write_snoop is never cleared, nor the region moved, behind the back of  *)
(* Snooping_initiator, which would then never hear of a write.             *)
SnoopArmed == m_dmi_valid => write_snoop[Code.target] /\ Watched(Code.target) = Code

(* Only DMI READ access is allowed to a region that is watched             *)
(* (snooping.cpp:39-43): Initiator's table keeps no region through which   *)
(* it could write there without the memory seeing it.                      *)
NoWriteRegion ==
  \A t \in Targets, w \in Words :
    write_snoop[t] /\ Covers(Watched(t), t, w) => Usable(t, w, "WRITE") = {}

(* The instructions that may be executed from the copy are those in the    *)
(* memory (snooping.cpp:30-33).                                            *)
CacheFresh == m_dmi_valid => m_cache = Contents(mem)

Spec == Init /\ [][Next]_vars
FairSpec == Spec /\ WF_vars(Next)

(* When the region was invalidated, Snooping_initiator refreshes its copy  *)
(* (snooping.cpp:45-46), unless it has stopped for ever.                   *)
CopyRefreshed == ~m_dmi_valid ~> (m_dmi_valid \/ count = MaxCount)
=============================================================================

# Verification of the PSA cache simulator

The repository holds a SystemC simulator of a multiprocessor with private
write-back caches that keep themselves coherent with a MOESI protocol over one
snooped bus (`src/src/assignment_1`, with the trace reader of `src/lib`), and
the TLM-2.0 locking and snooping examples it was developed beside
(`src/locknsnoop`). This directory holds TLA+ models of the simulator
and of the examples, the TLC configurations that check them, and proofs about
them. Line numbers below
are those of the source files.

## 1. The system

### The simulator (`src/src/assignment_1`, `src/lib`)

| component | state | operations | talks to |
|---|---|---|---|
| processor, `CPU.h` | position in its trace | replay the next entry; hand a read or write to the cache and wait for `Port_Done`; call `sc_stop` when all traces ended | its cache (two `sc_buffer`s), the trace reader |
| cache, `Cache.h` | lines (state, tag, LRU counter) per set and way | `execute` (lookup, hit, write-back of a victim, read, invalidation), `snooping` (answer, invalidate), one spawned thread per cache-to-cache transfer | its processor, the bus |
| bus, `Bus.h` | `bus_mutex`, `intended`, `c2c_intended`, the resolved wires | `read`, `write`, `cacheline_invalidate` (refused when busy), `cache_to_cache`, `memory_response` (insist until they get the bus), `wait_for_any`, `wait_for_response`, `get_next_request` | everybody: its operations run in the process of the caller |
| memory controller, `Memory.h` | queue of requests, request in service | `snoop` queues what it sees on the wires, `execute` answers in order after a delay | the bus |
| trace reader and statistics, `psa.cpp` | a position per processor, the number of finished traces, hit and miss counters | `next`, `eof`, `stats_*` | processors, caches |
| `sc_main`, `assignment1.cpp` | | wiring, start, printing of the results | |

What is hard here:

* at every clock edge the kernel runs all waiting processes in an order the
  standard leaves open, and each runs a long stretch of code, often several
  operations of the bus, before it waits again; no test controls that order;
* a lookup, a request on the bus and its answer are at least a half cycle
  apart, and the line may be snooped in between;
* arbitration is a `try_lock` and two flags that five operations use in five
  different ways;
* the wires carry no identity of a request: an answer names a processor and an
  address, and the memory also answers what nobody waits for;
* `Port_BusFunc` is a signal: two equal messages in a row are one event;
* everything ends by polling and retrying, and the simulation ends only if
  every processor gets its turn.

What makes each part correct:

* bus: one driver at a time, messages that last a whole half cycle, nobody
  starves;
* memory: every request taken is answered once, in order, and it never sleeps
  while the queue holds something;
* cache: exactly one completion per operation, counted once; no modified line
  is dropped; a request is never forgotten;
* processor: never misses the completion of its operation;
* the whole: coherence (who may hold a line in which state), and termination.

### The examples (`src/locknsnoop`)

| component | state | operations |
|---|---|---|
| `lock_interconnect.h` (three variants) | a map address -> locked, by whom | pass or refuse a transaction |
| `load_link_interconnect.h` (three variants) | a map address -> linked | LOAD-LINK, STORE-CONDITIONAL, plain writes |
| `lock_lt_initiator.h` (three variants) | two threads with a retry state; pooled transactions with sticky or automatic extensions | read-modify-write with lock and unlock; load-link and store-conditional |
| `gp_mm.h` | a list of free transactions and a list of empty cells through the same nodes | `allocate`, `free` |
| `at_interconnect.h` | request and response in progress and queues, per target and per initiator | `nb_transport_fw`, `nb_transport_bw`, two spawned processes |
| `at_type?_initiator.h`, `at_type?_target.h` | transactions in flight, pending responses | TLM-2.0 four-phase handshake, in seven styles |
| `snooping.cpp` | DMI tables, a snooped region, a translated cache | DMI requests, writes, invalidation |
| `tlm2_base_protocol_checker.h` | per transaction its phase on a hop and the path it took; the request and the response in progress on the hop | reports what breaks the base protocol; passes everything on |
| `lock_example.cpp` (three, the same) | | four initiators, the interconnects, six targets, a checker on every hop |

Hard here: transactions that come back from the pool with the extensions of
their previous life; invalidation callbacks that run inside the call that asks
for the region; responses that complete before or after the request phase ends;
calls that run through five components and change the state of each on the way
there and on the way back; processes that end a phase some time after it was
over, and queues that only the end of a phase empties.

What makes the examples correct: locks keep others out and are given back; a
store succeeds only if nothing was written since the load; a copied region is
never executed when stale; a transaction is in the hands of its users or in the
pool, never both; on each hop one request and one response is in progress; every
transaction is answered once, reaches its initiator, and returns to the pool.

## 2. Plan

1. **Core (done).** `SysC`, `Bus`, `CacheSet`, `Cache`, `Memory`, `CPU`
   composed by `PSA`; the abstract specifications `CpuPort` and `MemServer`;
   `Claims`, what comments say and the code does not do.
   Proved: types, arbitration, stability of the wires, both refinements, and all
   invariants of `core`.
2. **Trace reader (done).** `TraceFile`: positions, end tags, short files,
   `m_num_finished` with any initial value, a processor count that differs from
   the file's. Proved.
3. **DMI snooping (done).** `Snoop`: DMI tables, the snooped region, the
   callbacks. Proved for the order of the threads that the code creates.
4. **Locks (done).** `Pool` with the three variants of extensions, `Lock`,
   `LoadLink`, and `Locking`, which composes the two; each with its proofs.
5. **AT (done).** `TLM`, `ATInitiator`, `ATTargetCalls`, `BaseProtocol`,
   `ATInterconnect`, composed by `AT`: both types of initiators, all five types
   of targets, the checkers, END_REQ and `internal_ph` in either order when both
   are due. Proved: types and all invariants of `at`.
6. **Cache sets (open).** A module over `CacheSet` with several ways: the
   counters against the real order of use, duplicates of a line while another is
   REQUESTED.
7. **More proofs (done).** Every invariant and action property of the passing runs
   is a theorem, and so are the refinements that state no fairness. What is left is
   liveness (see the end of section 5).

## 3. The models

### Time and scheduling (`SysC`)

The clock only serves to wake processes, so time is the alternation of two
phases. In phase `edge` the processes that wait for the clock run, one at a
time, in any order; each of them is one action, from one `wait()` to the next.
`Update` then makes the writes to signals visible and wakes the processes that
are sensitive to them, which run in phase `delta`; `Tick` is the next edge.
`clk` tells rising from falling edges, since some waits are for the falling one.
`sc_clock`'s `default_event` fires on both edges, so `wait()` for it is half a
cycle.

The four resolved signals of the bus are always written together and are one
message here. The set `drv` holds who drives what; `Resolve` computes what is
read: the message of the only driver, Z without one (a vector of Z read as a
number is 0: `FUNC_NOTHING`, processor 0), X bits with two.

Three facts about the kernel matter and are modelled: `Port_BusFunc` notifies
only when its value changes; the `sc_buffer`s between processor and cache notify
every write; `sc_stop` lets the current delta cycle finish. All SystemC
processes share one operating system thread, so `try_lock` on a mutex that is
already held always returns false, whoever holds it.

A process that is woken, looks at the wires and waits for the same event again
changes nothing; such steps are not taken (the guards are in `AtClock` and
`AtDelta` of `PSA`).

### Correspondence

| module | code | state |
|---|---|---|
| `Bus` | `Bus.h` | `owner` is `bus_mutex`, `intended`, `c2c_intended` the flags of the same name |
| `CacheSet` | the lookup loop, `Cache.h:120-137` | pure functions of a set |
| `Cache` | `Cache.h`, `Bus::cache_to_cache` | `line` is `cachelines`; `cpc` the `wait()` at which `execute` is suspended; `req`, `hit`, `way` its local variables; `res` the result of `wait_for_response`; `c2c` the spawned threads |
| `Memory` | `Memory.h`, `Bus::memory_response` | `queue` is `requests`; `mpc`, `mreq`, `count` the position, request and delay loop of `execute` |
| `CPU` | `CPU.h`, `TraceFile::next`, `eof` | `ppc` the `wait()` of `execute`; `left` and `ended` what remains of the trace |
| `PSA` | `assignment1.cpp` | composition, one disjunct of `Next` per kind of process and two for the kernel |
| `CpuPort` | | abstract: one operation per processor at a time, each completed and counted once, no end with one outstanding |
| `MemServer` | | abstract: a server that answers every request once, in order |
| `Claims` | comments of `Bus.h`, `Cache.h` and `utils.h` | |
| `TraceFile` | `psa.cpp`, the loop of `CPU.h`, `assignment1.cpp` | `m_positions`, `m_num_finished` as in the code; `file`, `cpunum`, `garbage` what the program is started with; `taken` and `count` what was read and counted |
| `MCPSA`, `MCTraceFile` | | instances for TLC |

The operations of the bus are procedures of their callers, so an action of a
cache is, for instance, "the READ was on the wires; release them; the line is
still marked, so wait for an answer" (`ReadSent`). Every call it makes is part
of it: `MemRelease` releases the wires, clears the flag, looks at the queue and
takes the next request, as the code does without a wait in between.

An address is a record of tag, set and offset; the low bits matter because
reads go out with the address of the line and invalidations with the address
the processor gave. A trace is any sequence of reads, writes and NOPs: an entry
is chosen when it is read.

Not modelled of the simulator: the data of the lines (the code keeps none), messages on the
console, `_main_memory_access_rate` and `_time_for_bus_acquisition` (relaxed
counters that are only printed).

`PSA` takes the count of finished traces to start at 0 and the number of
processors to be that of the file. The code guarantees neither: no constructor
initialises `m_num_finished`, and the number comes from the command line.
`TraceFile` has these, at the price of a simple processor: its cache answers
some time (`OpDone`), which is what `PortFairSpec` of `PSA` says. Words of the
file are numbered, `Refused` is the check of the constructor, and the choice of
a file stands for its bytes. `sc_stop` lets the processes of the same edge run
(`due`), so several may stop, read or end a trace after it.

### The examples

Nothing connects the simulator and the examples, and the blocking
transactions of the locking initiators share nothing with the non-blocking ones
of the others but the pool, the lock map and the link map. So the locking path
and the AT path are composed separately: `Locking` has the regular transactions
as its environment, `AT` has the lock in front of a target as either closed or
open.

| module | code | state |
|---|---|---|
| `Snoop` | `snooping_sticky/snooping.cpp` | `mem`, `write_snoop`, `snooped` of the two memories; `m_dmi_valid`, `m_cache`, `count` of `Snooping_initiator`; `dmi_table` and the iteration `accessed` of `Initiator`; `running`, `ready`, `local` are the kernel and the quantum keepers |
| `Pool` | `common/gp_mm.h`, the extensions of the three variants | the access nodes with their three pointers, `free_list`, `empties`; per transaction its reference count, user and extensions |
| `Lock` | `lock_interconnect.h`, `thread_process_1` of `lock_lt_initiator.h` | `lock_map`, `lock_id`; `i`, `addr`, `next_read`; `last` records the last transaction for the properties |
| `LoadLink` | `load_link_interconnect.h`, `thread_process_2`, `lock_lt_target.h` | `lock_map`; `i`, `addr`, `next_load`; `regular` the regular writes under way; `failed`, `passed` and `overwritten` record history for the properties |
| `Locking` | `lock_lt_initiator.h` as `lock_example.cpp` wires it | both of them; `thread_process_1`, `thread_process_2` are its steps |
| `TLM` | what TLM-2.0 and the kernel do for the AT components | reference counts, payload event queues (`peq`), `runnable` processes |
| `ATInitiator` | `at_typea_initiator.h`, `at_typeb_initiator.h` | `init[i]`: where its thread is, `req_in_progress`, iterations left |
| `ATTargetCalls` | `at_type?_target.h`, what is called in them, `lock_interconnect.h` on the non-blocking path | `targ[t]`: `n_trans`, `response_in_progress`, `next_response_pending`, `end_req_pending` |
| `BaseProtocol` | `tlm2_base_protocol_checker.h` | `check[h]`: `m_map`, `m_request_in_progress`, `m_response_in_progress` of the checker on hop h; `path` is `shared_map` |
| `ATInterconnect` | `at_interconnect.h` | `req`, `rsp` are the transactions in progress, `req_queue`, `rsp_queue` those that wait; `trans[x]` has the route extension |
| `AT` | threads, event queues and processes of all of them, wiring | `faults`, what assertions and checkers have reported |

*Snoop.* Temporal decoupling is the point: a thread runs without a break until
its local time reaches the quantum, so an action is one iteration of a thread
and the threads change only at `sync()`. A request for DMI calls the memory, the
memory calls back through the interconnect into every initiator, the caller
included, and all of that is part of one action (`RequestSnoop`, `Transport`).
`Erase` follows the loop of `Initiator::invalidate_direct_mem_ptr` with its
index; `Examine` is its body. System addresses are pairs of target and word; `Watched` is
`reconstruct_address`.

*Pool.* `new` returns fresh nodes and transactions in order. `Free` is the last
`release()` with the whole chain of `free` functions behind it. `variant` says
how extensions are attached: `sticky` ones stay and are marked invalid by the
memory manager, `auto` ones are deleted by `reset()`, and those of `two` have a
guard that is set beside them and deleted while they stay. `Presence` is what the
interconnect takes for an extension in each.

*Lock, LoadLink.* The locking threads use `b_transport`. A transaction is
decided when it passes the interconnect. Regular transactions are non-blocking
and pass the same function, END_RESP included, and the memory behind
`Load_link_interconnect`, which only has `b_transport`, executes them later in
a process of its socket: four phases per regular write. Under the exclusion rule
of the AT interconnect one of them is in its request phase at a time.

*AT.* A transport call runs through an initiator, a checker, the interconnect, a
checker and a target, and returns through all of them, in one step of one
process, so a handler is an operator from a state (a record of the variables) to
a state, with the status and the phase it returns (`Result`); a call of one in
another is an application. `State` and `Become` convert. Each action is one run
of a process:

* `Thread`, `Resume`: an iteration of an initiator, up to `wait(end_req_event)`
  or the wait at its end;
* `InitiatorPeq`, `TargetPeq`: one callback of an event queue;
* `SendRsp`: the process of a target of type D that sends a pending response;
* `EndReq`, `EndRsp`: the processes of the interconnect, one per target and one
  per initiator.

All delays are `rand_ps()`, which may be 0, so there is no time and an event
queue is a bag, of which any entry may be taken next. One thing depends on time:
`send_end_req` posts END_REQ to the initiator with a delay, and `internal_ph` to
the target's own queue with that delay plus `rand_ps()`, which is n^3/100 in
integers and 0 for n below 5 (`at_typea_target.h:160-166`,
`at_typeb_target.h:70-75`, `common_header.h:52-57`). If the two delays differ,
END_REQ is taken before `internal_ph` is due. If they are equal both callbacks run
in one evaluation phase, in either order. So END_REQ may be taken at any time, and
when `internal_ph` is taken first, its END_REQ is due in the evaluation phase that
is underway: it moves from `peq` to `overdue.entries` (`Overtaken`, `TakenDue`),
and the phase does not end before it was taken (`IsOver`). What is scheduled in a
phase is for a later one, a wait or a delay of 0 included: `later` holds those
entries and threads, and `Due` and `Waiting` keep them back. (While nothing is
overdue and no process is runnable a phase ends with every step. That separates
callbacks the kernel might run in one phase, and as all delays are arbitrary their
orders are the same.)

`overdue.inits` is a history variable: the initiators of type B that an END_REQ has
become overdue for, whether or not harm was done. Type A has no such hazard: it
posts the response to the queue its END_REQ is in, for a later phase, and takes the
END_REQ first. Type B acts on BEGIN_RESP in the call. `Silent` and `Exclusion`
except those initiators, as narrowly as the code allows: on their own hop a second
request may be in progress, and the checker there may report just that. Everything
else (the other hops, responses, assertions, references, the queues) is stated
without exception. `RuleHonored` is the rule without the exception, and fails.

An immediate notification makes a process runnable (`Notify`). A process that
notifies the event it is itself sensitive to, as `end_req_process` and
`end_rsp_process` do when a target or an initiator answers at once, runs again
under SystemC up to 2.2, and not since 2.3: constant `SelfNotify`. The repository
names 2.3.3 (`Makefile:11`), so the runs take FALSE, and with it a queue whose head
was answered in the call is never looked at again (`LeftBehind`). The proofs cover
both.

`Require` notes what an `assert`, a `SC_REPORT_FATAL` or a checker reports, and
goes on. The checkers are modelled for what they see of phases, exclusion and
paths. The one behind the lock interconnect does not see what that refuses.

## 4. What the runs check

### The simulator

The two passing runs, `core` and `live`, use two caches of one line each and two line addresses that compete
for it, so that every miss replaces a line. The delays of the memory are 2 and
1 half cycles in place of 99 and 10: the order of events depends only on whether
an answer comes before or after something else happens, and with NOPs of any
number in both traces every such order occurs.

**core** (`MCcore.cfg`, 1.7 million states): processor 1 has two operations,
processor 2 one, all kinds, all addresses, all orders of the processes.

* `BusExclusion`, `DriveOnlyAtEdges`: arbitration.
* `NoLostRequest`: a cache that waits for an answer has a request underway.
  It is not obvious, since a stale answer can end a wait early.
* `QueueNotForgotten`: the memory goes to sleep only when something is still
  going to wake it, unless the simulation was stopped before.
* `NoLostDone`: the processor cannot miss its completion.
* `DirtyWrittenBack`: a modified or owned line is not overwritten before its
  write-back was answered. The answer may be to an earlier request for the same
  line, as `wait_for_response` compares processor and address only (`Bus.h:111`).
* `PortSpec`, `ServerSpec`: the simulator implements `CpuPort`, the memory
  controller implements `MemServer`.

**live** (`MClive.cfg`, 0.2 million states): one operation each, under
fairness. `Termination`: the simulation ends. `PortFairSpec`: every operation is
completed. Polling loops, flags and retries of all parties are involved; a flag
left raised is a livelock, and the mutants of this run are of that kind.

Fairness: `WF_vars(Next)`, since the kernel runs as long as something is
scheduled, and for each processor strong fairness of reading an entry that is
not a NOP, since a trace is a finite file and its NOPs run out. Nothing is
assumed of the order in which processes run, and nothing of who wins the bus.

**Disagreements.** Two runs with the instance of `core` each find a behaviour that
contradicts a comment:

| run | the code does |
|---|---|
| `oneExclusive` | Two caches hold a line EXCLUSIVE, which the state REQUESTED was added to prevent (`utils.h:17`): a requested line keeps its old tag, and two READs in a row are one event. |
| `writeInvalidates` | A copy survives an INVALIDATE that follows another without a gap (`Bus.h:139`). |

Two more are plain from the text. The first attempt to invalidate after the
lookup cycle does not check that the copy is still valid (`Cache.h:152`), which
`Bus.h:223` demands; the attempts that follow it do. And `c2c_intended`, the priority
of transfers (`Bus.h:251`), is one flag for all of them, which the first to finish
lowers for the others (216); it takes three caches, two of which answer one READ.
Because of the others, coherence in the strict sense (one modified copy,
no stale shared copy) is not a property of this code, and no passing run states
it.

**trace** (`MCtrace.cfg`, 76 thousand states): files of one and two traces with up
to four words, anything in them; one to three processors; a counter that starts
at 0, at 1, and one below its overflow.

* `FinishedCount`: `m_num_finished` is what it started with plus the traces that
  have ended, each once, whether by END or by the end of the file.
* `StopMeansDone`, `Ends`: with a counter that starts at 0 the simulation stops
  after every trace has been replayed and every operation answered, if there are
  no more processors than traces, and it stops, if there are no fewer. (With more,
  it stops at once; with fewer, never; with another first value, too early or
  never. The properties say which assumption each needs, and the instance has the
  other cases as well.)
* `LaneRead`: every processor is given its words of the file, all and only
  those up to its END, although one stream is repositioned for each of them.
* `AllCounted`: a memory operation is counted once.

Fairness: of the clock and the processes it wakes (`WF_vars(Next)`) and of each
cache's answer. A trace is finite, so nothing has to be assumed of it.

### The examples

**snoop** (`MCsnoop.cfg`, 7 thousand states).

* `SnoopArmed`: while the copy is believed, the memory watches exactly the
  region it was taken from. Both sides change their half of this in callbacks.
* `NoWriteRegion`: no DMI region is left through which a watched word could be
  written unseen.
* `CacheFresh`: the copy equals the memory whenever it may be executed.
* `CopyRefreshed`: after an invalidation the copy is made valid again, or the
  snooping initiator has stopped for good. Fairness: `WF_vars(Next)`, the kernel
  goes on while there is something to run.

`First` is the set of threads the kernel may run first. SystemC leaves the order
open; with the order of creation (`initiator1`, as `snoop` takes it) all four
hold, with the other one `NoWriteRegion` fails (`writeRegion`): the loop that
erases regions skips the one behind an erased one, a read region in front of a
write region protects the latter. Started first, the snooping initiator asks
while the table is still empty; from then on write regions are refused while it
watches, and the write that removes the snoop is itself granted a region for
reads and writes, so that there is never more than one entry for the watched
memory and nothing to skip.

**pool** (`MCpool.cfg`, 0.4 million states), in each of the three variants.

* `ListShape`: the two lists are one chain, linked both ways, cut at
  `free_list`.
* `NotShared`, `NothingLost`: a transaction is in use or on the free list,
  once.
* `CleanExtensions`: a valid extension belongs to the present user.

**locking** (`MClocking.cfg`, 0.5 million states): both threads of the locking
initiator against each other and two regular writes.

* `NeverBounced`: the only locking initiator is never refused. It is not
  obvious, since its unlocking writes go to other addresses than its locks
  (below) and locks pile up: what saves it is that the write before a read shares
  the address of that read. The error branch of the initiator is dead code in the
  wiring of `lock_example.cpp`.
* `OneLink`: no link outlives its cycle.
* `StoreSeesPassedWrites`: a store succeeds only when no write was let through
  to its address after the load.

**at** (`MCat.cfg`, 0.3 million states): an initiator of type A and one of type
B, two targets of any of the fifteen pairs of types, three transactions to any
of them, shared out between the two in every way, the lock in front of a target of type E open or closed, callbacks that
are due at once in either order.

* `Silent`: no assertion fails, no component meets a phase it calls illegal or a
  third transaction in its pipeline, every transaction is answered once and
  before its initiator ends it, and no checker has anything to report. After an
  END_REQ was overdue for an initiator of type B, a second request in progress
  (rule 7.2.4 b) is the only thing a checker may report.
* `Exclusion`: on each hop one response is in progress, and one request, except on
  the hop of an initiator of type B an END_REQ was overdue for. It is stated over the phases of the transactions, as the checkers are no witness of it:
  one that sees TLM_COMPLETED forgets the request in progress, whichever it was.
* `HeldAlive`: a transaction that a queue, an event queue, a target or a thread
  has its hands on is not back in the pool. (An END_REQ that is overdue may find
  its transaction there; the callback that takes it does not look at it.)
* `QueuesWatched`: where something waits, something is in progress. Whether its end
  comes is a matter of `AllServed`.
* `AllServed`: everything comes to rest with nothing pending, or the interconnect has
  forgotten a queue for good (`LeftBehind`): what it has noted down there as in
  progress is over, and the process that takes the next is not going to run. That
  happens with SystemC 2.3.3, against "Requests are serviced in a first-come-first-served
  order" (`at_interconnect.h:294`): when a queued request is answered in the call,
  `end_req_process` notifies itself (326, 350), and `end_rsp_process` does so for
  responses (436). `LeftBehind` asks for a target or initiator of a type that answers in
  the call, B, D or E; so with targets of the types A and C and initiators of type A
  everything gets through. Fairness:
  the kernel goes on while something is scheduled; `FairSpec` writes `WF_vars(Next)` as
  its definition, with `CanRun` for `ENABLED Next`, since TLC would try every step
  to evaluate the latter. Deadlock is not checked: the system stops when all is
  done, and that it does not stop before is what `AllServed` says.

**Disagreements.**

| run | the code does |
|---|---|
| `writeRegion` | A writable region survives the invalidation that a snoop request makes (`snooping.cpp:344`). |
| `storeIsAtomic` | A write that passed the interconnect before the load is executed after it, and the store succeeds over it (`load_link_interconnect.h:114`). |
| `ruleHonored` | `internal_ph` comes before its END_REQ, the response ends the request, the next one begins, and the END_REQ ends that (`at_typeb_initiator.h:150`); a further request begins while it is in progress, against the rule of line 77. Instance of `at`. |

Also plain from the text: a request that was queued, and is answered in the call while
another response is in progress, is queued again, and `end_req_process` returns
(`at_interconnect.h:335`, `362`) before it gives back the reference of the first queue
(371), so that the pool never gets the transaction back. And the unlocking write of a locking initiator goes to a
fresh address (`lock_lt_initiator.h:121-126`), not to the one that was read and
locked, as the comments on the cycle suggest (95-97).

### Bounds

| bound | value | why it is enough |
|---|---|---|
| processors | 2 | all pairwise races; a third adds a second transfer thread at a time, which the invariants are proved for |
| `Ways`, `Sets` | 1, 1 | every miss evicts; replacement among ways is step 6 of the plan |
| `Tags` | 2 | a line and its competitor |
| `Offs` | {0} | the offset only appears in INVALIDATE messages, which nobody answers to a waiting cache |
| `Slots` | 1 | a cache is asked for one line at a time by the only other one |
| `MaxOps` | 2 and 1; 1 and 1 | two operations are needed for an answer to outlive its request and for a write-back |
| `MaxCounter` | 1 | saturation at 0 happens at once |
| delays | 2 and 1 | see above |

Nothing else is bounded: NOPs are unlimited, and the queue is as long as it gets.

Of the examples:

| bound | value | why it is enough |
|---|---|---|
| `Size`, `SnoopLast` | 3, 1 | words inside the region, its last one, and one outside |
| `Accesses`, `MaxCount` | 6, 5 | a read region, a write region, a snoop request between them, a write that is caught, a second request |
| `Quantum` | 2 | a thread does several things before the other runs, and fewer than it has to do |
| `MaxTrans`, `MaxRefs` | 3, 2 | first, inner and last node of each list; a reference that is not the last |
| `LockAddr`, `LockIterations` | 4, 6 | as many locks can pile up as there are cycles |
| addresses, `Others`, iterations of `LoadLink` | 2, 2, 5 | the other address; two writes in different phases; a failed store and its repetition |
| `Inits`, `Targets` of `AT` | one of each type; 2 of any types | each initiator meets each target while another target of any type answers it and the other initiator |
| `Trans`, `Loads` | 3; 3 and 0 to 0 and 3 | three requests of one initiator, as an overdue END_REQ does harm to the next request and shows in the one after; a request in a queue behind one in a target with a response waiting: three transactions; a fourth only makes queues longer (the third transaction of a pipeline is held up already, as `TypeOK` has it), and the invariants are proved for any number |
| files of `TraceFile` | 1 or 2 traces, 4 words | a whole round, a last round that is short, END before, in and behind it |
| `CpuNums`, `Garbage`, `Modulus` | 1-3; 0, 1, 3; 4 | fewer, as many and more processors than traces; a counter that is right, too high, and wraps to 0 |

The proofs show that the properties of `core`, the invariants of `snoop`, of `trace`,
of `pool`, of `locking` and of `at` do not depend on these values.

`Thread` of `AT` waits when the pool has no free transaction, where the code creates
one: with `Trans` finite the proofs cover every size of the pool, too small ones
included.

## 5. What is proved

`PSA_proofs` proves, for any number of processors, threads, sets, ways, tags and
offsets, any latencies of at least 1 and any trace lengths:

* `TypeCorrect`: `Spec => []TypeOK`;
* `ExclusiveBus`: `Spec => []BusExclusion`, at most one driver of the wires,
  the holder of `bus_mutex`, and no garbled message;
* `StableWires`: `Spec => DriveOnlyAtEdges`.

Assumptions: the named ones of the modules (`AddrAssumption`, that the tag and
offset 0 exist; `CacheSetAssumption`, `LatAssumption`, `MaxOpsAssumption`,
`SlotsAssumption`), which TLC evaluates in every run.

The argument is the inductive invariant `IInv` (theorem `Inductive`), of three
parts. `TypeOK` alone is not inductive: a snooper that ran while the wires are
at Z would take an address from nothing. `LockInv` says that whoever is between
the two halves of an operation of the bus holds the mutex, that the holder drives
exactly one message and that nobody else drives; it needs no order of the
processes because every operation starts with the mutex free, ends by releasing
it, or does both in one step (a read that turns into an INVALIDATE). `RunInv`
says that the kernel runs a process only for the event it waited for: a snooper
only in a delta cycle in which a request of somebody else is on the wires, hence
with the mutex taken, hence without a chance for the thread it spawns to start
driving there. Each action of `execute`, of the snooper, of a transfer and of
the memory is classified as keeping, taking or giving up the bus
(`ExecuteMoves`, `C2CPreserves`, `MemPreserves`), and one lemma
(`LockPreserved`) covers the three cases.

`Promises_proofs` builds on `IInv` and proves, for the same constants, what the
parts promise to each other:

* `CompletionSeen` (`Spec => []NoLostDone`) and `PortImplemented` (`Spec =>
  PortSpec`). The invariant is `HandInv` (theorem `Handshake`): where the
  request, the work of the cache and `Port_Done` are, in each phase. `Port_Done`
  of a cycle is always followed by the processor's wake-up in the delta cycle
  after it, and a request written at an edge finds the cache either idle or
  about to become idle in the same edge. Each step of `execute` is classified
  (`ExecuteProgress`) as accepting, serving, completing or returning, and only a
  completing one is a step of `CpuPort`, with one counter going up by one.
* `ServerImplemented` (`Spec => ServerSpec`), from `IInv` alone: what is pending
  is the queue, with the request in service in front of it until its answer is
  driven, so that taking a request out of the queue is a stutter; the rest are
  the laws of `Append` and of concatenation.
* `RequestsNotLost` (`Spec => []NoLostRequest`), `QueueWatched` (`Spec =>
  []QueueNotForgotten`) and `WrittenBack` (`Spec => DirtyWrittenBack`). The
  invariant is `AskInv` (theorem `RequestsTracked`). It follows a request from
  the wires to its answer: while a cache drives it the memory is sampling it or
  has it; while the cache waits the memory has it, or the answer is on the wires
  and the cache is about to run; and when the memory ends an answer every cache
  that waits for it is awake. Without the last part a request could leave the
  memory unseen. Bystanders are covered by one lemma (`BystanderAsks`): a
  snooper may change the state of a line, never its tag, so the address a
  write-back waits for stays. That no answer is missed rests on `LockInv`: the
  memory holds the bus while it answers. `WrittenBack` then needs only which of
  the steps of `execute` mark a line (`ExecuteMarks`), and that no snooper and
  no transfer does.

### The examples

* `Snoop_proofs`: `SnoopTypes` (`Spec => []TypeOK`) and `AlwaysArmed` (`Spec =>
  []SnoopArmed`), for any sizes, any quantum and either order of the threads;
  `SnoopSound`, `Spec /\ []NoWriteRegion => []CacheFresh`: the protocol itself
  leaves no gap, the copy can only be stale because of a region the loop forgets;
  `NoWriteUnseen` and `CopyFresh`, when the snooping initiator runs first: `Spec
  => []NoWriteRegion` and `Spec => []CacheFresh`. The invariant of `AlwaysArmed`
  adds only types to `SnoopArmed`; the crucial step is that a write that is caught
  takes the snoop and the copy's validity away together. `SnoopTypes` needs that a
  thread which may still run has something left to do (`Turns`). `NoWriteUnseen`
  rests on `RegionInv`: the table never holds more than one region of the watched
  memory, and either the snooping initiator has not run yet, or the memory watches
  and that region is read-only, or nothing is watched and it may be written. What
  the index loop keeps is a recursive function, so `EraseKeeps` looks at the first
  index where the loop would keep something else.
* `Pool_proofs`: `PoolTypes`, `PoolListShape`, `PoolNotShared`,
  `PoolNothingLost`, `PoolCleanExtensions`, for any number of transactions and
  references and each variant. The inductive invariant adds
  `ListShape`, which says where each pointer of each node leads (what `free`
  does with `prev` is right only because of it), and that nothing is used or
  listed before it was created.
* `Locking_proofs`: of the lock, for one client and any addresses (`LockInductive`):
  before a locking read the address of the client is unlocked, or the client is at
  its very first read. Of the link, for any number of regular writes
  (`LinkInductive`, `AtMostOneLink`, `PassedWritesSeen`): as long as the link
  stands, no write has passed. Of both together: `Composition`, a behaviour of
  `Locking` is one of `Lock` and one of `LoadLink`, as a step of one leaves the
  variables of the other alone; and with it the invariants of both for the whole
  (`LockingTypes`, `LockingNeverBounced`, `LockingOneLink`,
  `LockingPassedWritesSeen`).
* `TraceFile_proofs`: `TypeCorrect`, `CountsEnds`, `NoEarlyStop`,
  `CountsOperations`, `OwnWords` (`Spec => []LaneRead`), for any files, any
  numbers of processors and any modulus of the counter. The inductive invariant
  adds that a processor waits for its cache only while its trace is open, that
  what was read of an open trace lies before its position, and that the simulation
  stopped at the end of all traces; the counter is handled by a lemma on the
  cardinality of the ended traces. `OwnWords` has an invariant of its own
  (`LaneInv`): an open trace stands at a position of its own lane and has read no
  END; that no word of the lane lies between two such positions is arithmetic with
  `%`, done once with quotients.
* `AT_proofs`: `ATTypes`, `NoneWaitsForNone` (`Spec => []QueuesWatched`) and
  `HeldReferenced` (`Spec => []HeldAlive`), for any initiators of both types, any
  targets of any types, any numbers of iterations, any size of the pool, and both
  ways a process notifies itself. The inductive invariant is `ATInv` (theorem
  `ATSound`): there is a function `p` from the transactions to places, and the
  state agrees with it.

  A place is a queue, a kind of entry of an event queue, a pointer of a target, or
  the hands of the process that runs. `Sound(s, p, h, L)` says, of a state `s` in
  the middle of a handler, that every queue, event, pointer and thread holds
  transactions of its own place only and holds each once (`Queued`, `Posted`,
  `Pointed`, `Initiating`); that the reference count of each transaction is at
  least what its place needs, and one more for `h`, which the running process
  holds (`Referenced`); that the pipeline of a target of type A or B has as many
  transactions as `n_trans` says, never more than two (`Counted`); and that nothing
  waits in a queue while nothing is in progress (`Watched`). An END_REQ in `peq` is
  of a transaction that is not past the pipeline; of one that is overdue nothing is
  needed but that it is an END_REQ of an initiator (`Typed`), as its callback does
  not touch the transaction. `L` are the pointers a target has dealt
  with and not cleared yet. The counts are bounded from below and not given
  exactly: they are not exact, as a reference of a queue may never be given back (section 4).

  The proof follows the calls. For each handler there is a lemma that takes a
  sound state to a sound state, with the transaction at the place its status
  stands for: a target that answers TLM_UPDATED with END_REQ has it in its
  pipeline (`Outcome`), an initiator that answers TLM_COMPLETED has given it up
  (`Delivered`). The checkers and the assertions change nothing the invariant
  looks at (`Overseen`), which takes them out of all of these. Above the handlers
  there is one lemma for each action (`ThreadStep` to `EndRspStep`).
* `ATHops_proofs`: `NoFaults` (`Spec => []Silent`) and `HopsExclusive` (`Spec =>
  []Exclusion`), for the same constants as `AT_proofs`: for every wiring, however the
  kernel orders the processes, no assertion fails, no component meets a phase it calls
  illegal, no checker reports anything, and each hop has one request and one response
  in progress; but for the requests of the initiators of type B in `overdue.inits`.
  The inductive invariant is `HopsInv` (theorem `HopsSound`).

  Neither property is inductive, with `ATInv` or without it: whether a component
  accepts a phase depends on what it has noted down of the hop, and the checkers know
  less than that (one that sees TLM_COMPLETED forgets the request in progress,
  whichever it was). So `HopsInv` adds to `Sound` the phases, under the same function
  `p` from transactions to places (`Hopped`):

  | part | what it says |
  |---|---|
  | `Checked` | the checkers have reported nothing they have no excuse for (`Excused`); a request or response that a checker has noted down is in that phase |
  | `Trips` | the two hops of each transaction are in the phases that go with its place (`Stands`), it is on no other hop, and the path it has come is what its phases say (`Way`, `Stack`) |
  | `Asked` | a transaction in BEGIN_REQ on the hop of an initiator not in `overdue.inits` is the one that initiator has in `req` |
  | `Answered` | one in BEGIN_RESP there is the one in `rsp` of the interconnect, and the process that ends it is not runnable yet |
  | `Requested` | one in BEGIN_REQ on the hop of a target is the one in `req` of the interconnect, with its process not runnable yet either |
  | `Responses` | `response_in_progress` stands for one transaction of the target, and never in type E |
  | `Ends` | for an initiator not in `overdue.inits`: an END_REQ in its event queue is there once, and the initiator waits for it (`PostedEnds`); one that is overdue is so for a type A initiator, which still waits for it (`OverdueEnds`); and a response that is due is not one whose END_REQ is overdue (`InOrder`) |

  `Exclusion` follows from `Asked` and `Requested` for requests, from `Answered` and
  `Responses` for responses: two transactions in the phase would both be the one that
  is noted down. `Silent` is the part `Excused` of `Checked`, and what needs the
  other parts is that it stays: a call adds to `faults` when the phase does not fit the
  hop, when a response comes back on another path than its request, or when an
  assertion of a component fails, and the lemma of each handler shows that none does.
  `InOrder` is what makes type A immune to an overdue END_REQ: it speaks of `peq` and
  `later` as the running process found them, and holds again when a phase is over, as
  nothing is overdue then.

  The proof follows the calls as that of `AT_proofs` does. In the middle of a handler
  nothing is said of the phases of the transaction in hand (`Whole(s, p, h, L, x)`,
  with `TakeUp` and `LetGo` at both ends), and the lemmas state where it is and in
  which phases afterwards (`Held`, or `Fits` where it is let go of): `Progress` for
  what a target makes of a request, `Handed` for what an initiator makes of a
  response, `Concluded` for the END_RESP on its way to the target. Type E makes it
  longer: such a target is done with a transaction that the interconnect still has
  in a queue of responses, so that one hop is idle while the other is not (the last
  argument of `Stands`).

Assumptions: `SnoopAssumption`, `PoolAssumption`, `LockAssumption`,
`LoadLinkAssumption`, `TraceAssumption`, `TLMAssumption` (there is an initiator
and a target, no two components share a name, and no transaction is null) and
`ATAssumption`.

### Only model-checked

Everything in `live`, `Ends` of the trace reader, `CopyRefreshed` of `Snoop` and
`AllServed` of `AT`: liveness and fairness are out of the prover's reach. All
invariants and action properties of the passing runs are proved.

## 6. What is not modelled

* Of the simulator: replacement among several ways at run time (plan, 6); the
  access and time counters, the printing of the statistics and the command line.
* Of the examples: the destructor of the pool, which runs after the simulation;
  the data of the transactions and the checks on them; durations; the error
  responses to byte enables and bursts, which no initiator sends; `b_transport`,
  debug and DMI calls of the AT interconnect and the checkers, which nobody uses
  with the AT components or which keep nothing; `Lock_LT_initiator` among the
  initiators of `AT` (module `Locking` has it) and `Lock_LT_target` among its
  targets (module `LoadLink` has its socket).
* The base protocol checker's rules on attributes, data and timing, and the end
  of its checks after 100000 transactions.
* The dumps of extensions (formatting), the tutorials (exercises without bus or
  cache), project files and archives.

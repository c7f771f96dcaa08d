--------------------------------- MODULE TLM ---------------------------------
(***************************************************************************)
(* What the modules of the AT example share: transactions with a reference *)
(* count, phases and statuses of the non-blocking transport calls, payload *)
(* event queues and processes made runnable by immediate notification.     *)
(*                                                                         *)
(* A call runs through several components and returns through them, all in *)
(* one step of one process.  So every handler is an operator that takes    *)
(* the state s, a record of the variables of module AT, and gives a new    *)
(* one, or a Result: the new state, the status it returns and the phase it *)
(* leaves in its argument.                                                 *)
(***************************************************************************)
EXTENDS Integers, Sequences, FiniteSets, Bags

CONSTANTS InitsA, InitsB,   \* the initiators of types A and B
          Targets,
          Trans,            \* bound: transactions of the pool, numbered
          SelfNotify        \* a process may make itself runnable again: it
                            \* may up to SystemC 2.2, it may not since 2.3

Inits == InitsA \cup InitsB
Hops  == Inits \cup Targets

ASSUME TLMAssumption ==
  /\ Trans \subseteq Nat \ {0} /\ Inits # {} /\ Targets # {}
  /\ InitsA \cap InitsB = {} /\ Inits \cap Targets = {}
  /\ SelfNotify \in BOOLEAN

Null == 0

Result(s, ret, phase) == [s |-> s, ret |-> ret, phase |-> phase]
Accepted(s, phase) == Result(s, "ACCEPTED", phase)
Updated(s, phase) == Result(s, "UPDATED", phase)
Completed(s, phase) == Result(s, "COMPLETED", phase)

(* An assert or a SC_REPORT_FATAL: what it reports is remembered.          *)
Require(s, cond, what) ==
  IF cond THEN s ELSE [s EXCEPT !.faults = @ \cup {what}]

-----------------------------------------------------------------------------
Acquire(s, x) == [s EXCEPT !.trans[x].ref = @ + 1]

(* The last one gives the transaction back to the pool.                    *)
Release(s, x) ==
  [Require(s, s.trans[x].ref > 0, "released too often") EXCEPT !.trans[x].ref = @ - 1]

(* peq_with_cb_and_phase::notify.  The delays are arbitrary, so the entries *)
(* come out in any order; what the order of two of them depends on is said  *)
(* where they come out.                                                     *)
Post(s, at, x, phase) ==
  [s EXCEPT !.peq = @ (+) SetToBag({[at |-> at, trans |-> x, phase |-> phase]})]

(* sc_event::notify() of an event that a method process is sensitive to:   *)
(* the process becomes runnable.                                           *)
Notify(s, process) ==
  IF process = s.self /\ ~SelfNotify THEN s
  ELSE [s EXCEPT !.runnable = @ \cup {process}]

-----------------------------------------------------------------------------
Answer(s, x, status) ==
  [Require(s, s.trans[x].ref > 0 /\ s.trans[x].status = "INCOMPLETE",
           "answered twice or after its end")
     EXCEPT !.trans[x].status = status]

(* The execution of a transaction in a target; the response is TLM_OK.     *)
Execute(s, x) == Answer(s, x, "OK")

(* check_transaction of an initiator, at the end of a transaction.         *)
CheckTransaction(s, x) ==
  Require(s, s.trans[x].ref > 0 /\ s.trans[x].status # "INCOMPLETE",
          "completed without an answer")
=============================================================================

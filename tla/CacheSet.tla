------------------------------ MODULE CacheSet ------------------------------
(***************************************************************************)
(* Looking up one set of the set-associative cache: the loop of            *)
(* SingleCache::execute that finds the line, chooses the line to replace   *)
(* and ages the others (Cache.h:120-137), as functions of the set.         *)
(* A set is a function from 1..Ways to lines.                              *)
(***************************************************************************)
EXTENDS Integers, FiniteSetsExt

CONSTANTS Ways,         \* CACHE_SET_SIZE
          MaxCounter    \* MAX_COUNTER

ASSUME CacheSetAssumption == Ways \in Nat \ {0} /\ MaxCounter \in Nat \ {0}

WaySet == 1..Ways

States == {"MODIFIED", "OWNED", "EXCLUSIVE", "SHARED", "REQUESTED", "INVALID"}

Valid(l) == l.state # "INVALID"
Dirty(l) == l.state \in {"MODIFIED", "OWNED"}

Matches(set, t) == {w \in WaySet : Valid(set[w]) /\ set[w].tag = t}

(* rindex: the loop keeps the last match.                                  *)
Found(set, t) == Max(Matches(set, t))

Replaceable(set, t) == WaySet \ Matches(set, t)

(* min_id: the last invalid way; without one, the first of the ways with   *)
(* the smallest counter.                                                   *)
Victim(set, t) ==
  LET others  == Replaceable(set, t)
      invalid == {w \in others : ~Valid(set[w])}
  IN IF invalid # {} THEN Max(invalid)
     ELSE CHOOSE w \in others : \A v \in others :
            \/ set[w].counter < set[v].counter
            \/ set[w].counter = set[v].counter /\ w <= v

(* Mutant: the counter is not kept at 0.                                   *)
AgedBelowZero(set, t) ==
  [w \in WaySet |->
     IF w \in Matches(set, t) THEN set[w] ELSE [set[w] EXCEPT !.counter = @ - 1]]

(* Every way that did not match grows older; the counter stops at 0.       *)
Aged(set, t) ==
  [w \in WaySet |->
     IF w \in Matches(set, t) THEN set[w]
     ELSE [set[w] EXCEPT !.counter = IF @ = 0 THEN 0 ELSE @ - 1]]
=============================================================================

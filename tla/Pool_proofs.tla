---------------------------- MODULE Pool_proofs -----------------------------
(***************************************************************************)
(* Theorems of Pool: the two lists of the pool stay one chain, and the     *)
(* chain holds every transaction that is not used, once.                   *)
(***************************************************************************)
EXTENDS Pool, TLAPS

(* Nobody uses a transaction that was not created, and none is on a list.  *)
OnlyMade ==
  /\ \A t \in Trans : t > made => refs[t] = 0
  /\ \A n \in OnFreeList : nodes[n].trans <= made

IInv == TypeOK /\ ListShape /\ OnlyMade /\ NotShared /\ NothingLost /\ CleanExtensions

USE PoolAssumption DEF Null, Trans, Users, Extensions, Presence

LEMMA InitInv == Init => IInv
BY DEF Init, IInv, TypeOK, ListShape, OnlyMade, NotShared, NothingLost,
       CleanExtensions, Node, OnFreeList, InUse

(* What allocate() does to the lists.                                      *)
LEMMA AllocateInv ==
  ASSUME NEW t \in Trans, NEW u \in Users, IInv, Allocate(u, t)
  PROVE  IInv'
<1> USE DEF IInv
<1>1. TypeOK'
  <2>0. /\ refs' \in [Trans -> 0..MaxRefs] /\ user' \in [Trans -> Users] /\ variant' \in Variants
        /\ ext' \in [Trans -> [Extensions -> Presence]]
    <3>1. refs' \in [Trans -> 0..MaxRefs] /\ user' \in [Trans -> Users] /\ variant' \in Variants
      BY DEF Allocate, Attached, TypeOK
    <3>2. ext' \in [Trans -> [Extensions -> Presence]]
      BY DEF Allocate, Attached, TypeOK
    <3> QED BY <3>1, <3>2
  <2>1. CASE Reuse(t)
    <3>1. free_list \in 1..grown /\ free_list' = free_list - 1
      BY <2>1 DEF Reuse, TypeOK, ListShape
    <3> QED BY <2>0, <2>1, <3>1 DEF Reuse, TypeOK
  <2>2. CASE Create(t)
    BY <2>0, <2>2 DEF Create, TypeOK, lists
  <2> QED BY <2>1, <2>2 DEF Allocate
<1>2. refs[t] = 0
  <2>1. CASE Reuse(t)
    BY <2>1 DEF Reuse, TypeOK, NotShared, OnFreeList, InUse
  <2>2. CASE Create(t)
    BY <2>2 DEF Create, TypeOK, OnlyMade
  <2> QED BY <2>1, <2>2 DEF Allocate
<1>3. ListShape' /\ OnlyMade' /\ NotShared' /\ NothingLost'
  <2>1. CASE Reuse(t)
    <3>0. free_list \in 1..grown /\ free_list' = free_list - 1
      BY <2>1 DEF Reuse, TypeOK, ListShape
    <3>1. /\ OnFreeList' = OnFreeList \ {free_list}
          /\ free_list \in 1..grown
          /\ free_list' = free_list - 1
      BY <3>0 DEF TypeOK, OnFreeList
    <3>2. ListShape'
      BY <2>1, <3>1 DEF Reuse, TypeOK, ListShape
    <3>3. InUse' = InUse \union {t}
      BY <1>1 DEF Allocate, InUse, TypeOK
    <3>4. OnlyMade'
      <4>1. t <= made /\ made' = made
        BY <2>1, <3>1 DEF Reuse, OnlyMade, OnFreeList
      <4>2. \A s \in Trans : s > made' => refs'[s] = 0
        BY <4>1 DEF Allocate, TypeOK, OnlyMade
      <4>3. \A n \in OnFreeList' : nodes'[n].trans <= made'
        BY <2>1, <3>1, <4>1 DEF Reuse, OnlyMade
      <4> QED BY <4>2, <4>3 DEF OnlyMade
    <3>5. NotShared'
      BY <2>1, <3>1, <3>3 DEF Reuse, NotShared, OnFreeList, TypeOK
    <3>6. NothingLost'
      BY <2>1, <3>1, <3>3 DEF Reuse, NothingLost, TypeOK
    <3> QED BY <3>2, <3>4, <3>5, <3>6
  <2>2. CASE Create(t)
    <3>1. UNCHANGED <<nodes, grown, free_list, empties>> /\ OnFreeList = {} /\ OnFreeList' = {}
      BY <2>2 DEF Create, lists, OnFreeList
    <3>2. ListShape'
      BY <3>1 DEF ListShape
    <3>3. InUse' = InUse \union {t}
      BY <1>1 DEF Allocate, InUse, TypeOK
    <3>4. OnlyMade'
      BY <2>2, <3>1 DEF Allocate, Create, TypeOK, OnlyMade
    <3>5. NotShared' /\ NothingLost'
      BY <2>2, <3>1, <3>3 DEF Create, NotShared, NothingLost, TypeOK
    <3> QED BY <3>2, <3>4, <3>5
  <2> QED BY <2>1, <2>2 DEF Allocate
<1>4. CleanExtensions'
  BY <1>1, <1>2 DEF Allocate, Attached, CleanExtensions, TypeOK, InUse
<1> QED BY <1>1, <1>3, <1>4

(* The references of a transaction that stays in use are nobody else's     *)
(* business.                                                               *)
LEMMA CountInv ==
  ASSUME NEW t \in Trans, IInv, Acquire(t) \/ Release(t)
  PROVE  IInv'
<1> USE DEF IInv
<1>1. /\ UNCHANGED <<nodes, grown, free_list, empties, made, user, ext, variant>>
      /\ TypeOK' /\ InUse' = InUse
  <2>1. UNCHANGED <<nodes, grown, free_list, empties, made, user, ext, variant>>
    BY DEF Acquire, Release, lists
  <2>2. \E k \in 1..MaxRefs : refs' = [refs EXCEPT ![t] = k] /\ refs[t] > 0
    <3>1. CASE Acquire(t)
      <4>1. refs[t] + 1 \in 1..MaxRefs /\ refs[t] > 0
        BY <3>1 DEF Acquire, TypeOK
      <4> QED BY <3>1, <4>1 DEF Acquire
    <3>2. CASE Release(t)
      <4>1. refs[t] \in 2..MaxRefs
        BY <3>2 DEF Release, TypeOK
      <4>2. refs[t] - 1 \in 1..MaxRefs
        BY <4>1
      <4>3. refs' = [refs EXCEPT ![t] = refs[t] - 1] /\ refs[t] > 0
        BY <3>2, <4>1 DEF Release
      <4> QED BY <4>2, <4>3
    <3> QED BY <3>1, <3>2
  <2>3. /\ refs' \in [Trans -> 0..MaxRefs]
        /\ \A s \in Trans : refs'[s] > 0 <=> refs[s] > 0
    BY <2>2 DEF TypeOK
  <2>4. TypeOK'
    BY <2>1, <2>3 DEF TypeOK
  <2> QED BY <2>1, <2>3, <2>4 DEF InUse
<1>2. OnFreeList' = OnFreeList /\ ListShape'
  BY <1>1 DEF OnFreeList, ListShape
<1>3. OnlyMade'
  BY <1>1, <1>2 DEF Acquire, Release, OnlyMade, TypeOK
<1>4. NotShared' /\ NothingLost' /\ CleanExtensions'
  BY <1>1, <1>2 DEF NotShared, NothingLost, CleanExtensions
<1> QED BY <1>1, <1>2, <1>3, <1>4

(* The extension of its user counts no more, and no other begins to.       *)
LEMMA DetachedFacts ==
  ASSUME TypeOK, NEW t \in Trans
  PROVE  /\ Detached(t) \in [Extensions -> Presence]
         /\ \A e \in Extensions :
              Detached(t)[e] = "valid" => ext[t][e] = "valid" /\ e # user[t]
<1>0. ext[t] \in [Extensions -> Presence]
  BY DEF TypeOK
<1>1. CASE variant = "sticky"
  BY <1>0, <1>1 DEF Detached, DetachedSticky
<1>2. CASE variant = "auto"
  BY <1>2 DEF Detached, DetachedAuto
<1>3. CASE variant = "two"
  BY <1>0, <1>3 DEF Detached, DetachedTwo
<1> QED BY <1>1, <1>2, <1>3 DEF TypeOK, Variants

LEMMA FreeInv ==
  ASSUME NEW t \in Trans, IInv, Free(t)
  PROVE  IInv'
<1> USE DEF IInv
<1>1. /\ free_list' = free_list + 1 /\ nodes'[free_list + 1].trans = t
      /\ \A n \in OnFreeList : nodes'[n].trans = nodes[n].trans
      /\ grown' \in Nat /\ nodes' \in [1..grown' -> Node]
      /\ free_list + 1 \in 1..grown' /\ ListShape' /\ empties' \in 0..grown'
  <2>1. CASE FreeInNewNode(t)
    <3>1. free_list = grown
      BY <2>1 DEF FreeInNewNode, ListShape, TypeOK
    <3>2. nodes' = [n \in 1..(grown + 1) |->
                      IF n = grown + 1 THEN [trans |-> t, next |-> grown, prev |-> 0]
                      ELSE IF n = grown THEN [nodes[n] EXCEPT !.prev = grown + 1]
                      ELSE nodes[n]]
          /\ grown' = grown + 1 /\ free_list' = grown + 1 /\ empties' = 0
      BY <2>1, <3>1 DEF FreeInNewNode, NewNode
    <3>3. nodes' \in [1..grown' -> Node]
      <4>1. ASSUME NEW n \in 1..(grown + 1)
            PROVE  (IF n = grown + 1 THEN [trans |-> t, next |-> grown, prev |-> 0]
                    ELSE IF n = grown THEN [nodes[n] EXCEPT !.prev = grown + 1]
                    ELSE nodes[n]) \in Node
        <5>1. CASE n = grown + 1
          BY <5>1 DEF TypeOK, Node
        <5>2. CASE n \in 1..grown
          <6>1. nodes[n] \in Node /\ grown + 1 \in Nat /\ n # grown + 1
            BY <5>2 DEF TypeOK
          <6>2. [nodes[n] EXCEPT !.prev = grown + 1] \in Node
            BY <6>1 DEF Node
          <6> QED BY <6>1, <6>2
        <5>3. n = grown + 1 \/ n \in 1..grown
          BY DEF TypeOK
        <5> QED BY <5>1, <5>2, <5>3
      <4> QED BY <3>2, <4>1
    <3>4. \A n \in 1..grown : nodes'[n].trans = nodes[n].trans /\ nodes'[n].next = nodes[n].next
      BY <3>2 DEF TypeOK, Node
    <3>5. \A n \in 1..grown : nodes'[n].prev = n + 1
      BY SMTT(30), <3>2 DEF TypeOK, Node, ListShape
    <3>6. ListShape'
      <4>1. nodes'[grown + 1].next = grown /\ nodes'[grown + 1].prev = 0
        BY <3>2 DEF TypeOK
      <4>2. ASSUME NEW n \in 1..grown'
            PROVE  /\ nodes'[n].next = n - 1
                   /\ nodes'[n].prev = IF n < grown' THEN n + 1 ELSE 0
        <5>1. CASE n = grown + 1
          BY <3>2, <4>1, <5>1 DEF TypeOK
        <5>2. CASE n \in 1..grown
          BY <3>2, <3>4, <3>5, <5>2 DEF ListShape, TypeOK
        <5> QED BY <3>2, <5>1, <5>2 DEF TypeOK
      <4> QED BY <3>2, <4>2 DEF ListShape, TypeOK
    <3> QED BY <3>1, <3>2, <3>3, <3>4, <3>6 DEF TypeOK, OnFreeList
  <2>2. CASE FreeInEmptyNode(t)
    <3>1. empties = free_list + 1 /\ empties \in 1..grown
      BY <2>2 DEF FreeInEmptyNode, ListShape, TypeOK
    <3>2. /\ nodes' = [nodes EXCEPT ![free_list + 1].trans = t]
          /\ grown' = grown /\ free_list' = free_list + 1
          /\ empties' = nodes[free_list + 1].prev
      BY <2>2, <3>1 DEF FreeInEmptyNode
    <3>3. nodes' \in [1..grown' -> Node]
      BY <3>2 DEF TypeOK, Node
    <3>4. \A n \in 1..grown : nodes'[n].prev = nodes[n].prev /\ nodes'[n].next = nodes[n].next
      BY <3>2 DEF TypeOK, Node
    <3>5. \A n \in OnFreeList : nodes'[n] = nodes[n]
      BY <3>1, <3>2 DEF TypeOK, OnFreeList
    <3>6. empties' = IF free_list + 1 < grown THEN free_list + 2 ELSE 0
      BY <3>1, <3>2 DEF ListShape, TypeOK
    <3>7. ListShape'
      BY <3>2, <3>4, <3>6 DEF ListShape, TypeOK
    <3>8. nodes'[free_list + 1].trans = t
      BY <3>1, <3>2 DEF TypeOK, Node
    <3>9. empties' \in 0..grown'
      BY <3>1, <3>2, <3>6 DEF TypeOK
    <3> QED BY <3>1, <3>2, <3>3, <3>5, <3>7, <3>8, <3>9 DEF TypeOK
  <2> QED BY <2>1, <2>2 DEF Free
<1>2. TypeOK'
  <2>1. refs' \in [Trans -> 0..MaxRefs] /\ user' \in [Trans -> Users] /\ variant' \in Variants /\ made' = made
    BY DEF Free, TypeOK
  <2>2. ext' \in [Trans -> [Extensions -> Presence]]
    <3>1. Detached(t) \in [Extensions -> Presence]
      BY DetachedFacts DEF TypeOK
    <3> QED BY <3>1 DEF Free, TypeOK
  <2> QED BY <1>1, <2>1, <2>2 DEF TypeOK
<1>3. OnFreeList' = OnFreeList \union {free_list + 1} /\ free_list + 1 \notin OnFreeList
  BY <1>1 DEF OnFreeList, TypeOK
<1>4. InUse' = InUse \ {t} /\ t \in InUse /\ t <= made
  BY DEF Free, InUse, TypeOK, OnlyMade
<1>5. OnlyMade'
  BY <1>1, <1>3, <1>4 DEF Free, OnlyMade, TypeOK
<1>6. NotShared'
  BY <1>1, <1>3, <1>4 DEF NotShared
<1>7. NothingLost'
  BY <1>1, <1>3, <1>4 DEF Free, NothingLost
<1>8. CleanExtensions'
  <2>1. \A e \in Extensions : Detached(t)[e] = "valid" => ext[t][e] = "valid" /\ e # user[t]
    BY DetachedFacts DEF TypeOK
  <2>2. \A s \in Trans : s # t => ext'[s] = ext[s] /\ user'[s] = user[s]
    BY DEF Free, TypeOK
  <2>3. \A e \in Extensions : ext'[t][e] # "valid"
    BY <2>1 DEF Free, CleanExtensions, TypeOK
  <2> QED BY <1>4, <2>2, <2>3 DEF CleanExtensions
<1>9. ListShape'
  BY <1>1
<1> QED BY <1>2, <1>5, <1>6, <1>7, <1>8, <1>9

(* The invariant the other theorems rest on: the pool is one chain of      *)
(* nodes (gp_mm.h:81-111) and everything it hands out and takes back is    *)
(* accounted for, however many transactions, references and users.         *)
THEOREM Inductive == Spec => []IInv
<1>1. IInv /\ [Next]_vars => IInv'
  <2> SUFFICES ASSUME IInv, [Next]_vars PROVE IInv'
    OBVIOUS
  <2>1. CASE UNCHANGED vars
    BY <2>1 DEF IInv, TypeOK, ListShape, OnlyMade, NotShared, NothingLost,
                CleanExtensions, OnFreeList, InUse, vars, lists
  <2>2. CASE Next
    BY <2>2, AllocateInv, CountInv, FreeInv DEF Next
  <2> QED BY <2>1, <2>2
<1> QED BY <1>1, InitInv, PTL DEF Spec

(* Type correctness, for any number of transactions and references.        *)
THEOREM PoolTypes == Spec => []TypeOK
BY Inductive, PTL DEF IInv

(* The two lists stay one chain (gp_mm.h:81-111).                          *)
THEOREM PoolListShape == Spec => []ListShape
BY Inductive, PTL DEF IInv

(* allocate() never returns a transaction that is in use (gp_mm.h:81-95).  *)
THEOREM PoolNotShared == Spec => []NotShared
BY Inductive, PTL DEF IInv

(* Every transaction that was created is in use or on the free list        *)
(* (gp_mm.h:97-111).                                                       *)
THEOREM PoolNothingLost == Spec => []NothingLost
BY Inductive, PTL DEF IInv

(* No transaction carries the extension of an earlier user, in any of the  *)
(* variants (locking_sticky/lock_extension.h:103-112, 174-183,             *)
(* gp_mm.h:97-99).                                                         *)
THEOREM PoolCleanExtensions == Spec => []CleanExtensions
BY Inductive, PTL DEF IInv
=============================================================================

-------------------------------- MODULE Pool --------------------------------
(***************************************************************************)
(* The transaction pool of the TLM examples: gp_mm (common/gp_mm.h) with   *)
(* its two lists of access nodes, the reference count that decides when a  *)
(* transaction goes back, and the extensions the locking examples put on   *)
(* it, in their three variants:                                            *)
(*   sticky  memory managers (lock_mm, load_link_mm) leave an extension on *)
(*           the transactions they hand out; its valid flag counts;        *)
(*   auto    every use attaches an auto extension, which reset() deletes;  *)
(*   two     a sticky extension holds the data, an automatic guard counts. *)
(*                                                                         *)
(* Nodes and transactions are numbered in the order in which `new' returns *)
(* them; 0 is the null pointer.                                            *)
(***************************************************************************)
EXTENDS Integers

CONSTANTS MaxTrans,     \* bound: transactions created
          MaxRefs       \* bound: references to one transaction

ASSUME PoolAssumption == MaxTrans \in Nat \ {0} /\ MaxRefs \in Nat \ {0}

Null == 0
Trans == 1..MaxTrans

Variants   == {"sticky", "auto", "two"}
Extensions == {"lock", "link"}

(* Who allocates: a regular initiator, or a thread of Lock_LT_initiator.   *)
Users == {"gp", "lock", "link"}

(* An extension that is there but does not count is "invalid": its flag is *)
(* down, or its guard is gone.                                             *)
Presence == {"absent", "valid", "invalid"}

VARIABLES
  nodes,       \* the access nodes: [trans, next, prev]
  grown,       \* how many there are: DOMAIN nodes = 1..grown
  free_list,   \* the first node with a free transaction
  empties,     \* the first node without one
  made,        \* transactions created so far
  refs,        \* reference count of each transaction
  user,        \* who allocated it: in the sticky variant, its manager
  ext,         \* the presence of each extension on each transaction
  variant      \* of the example

lists == <<nodes, grown, free_list, empties>>
vars  == <<lists, made, refs, user, ext, variant>>

Init ==
  /\ nodes = << >>
  /\ grown = 0
  /\ free_list = Null
  /\ empties = Null
  /\ made = 0
  /\ refs = [t \in Trans |-> 0]
  /\ user = [t \in Trans |-> "gp"]
  /\ ext = [t \in Trans |-> [e \in Extensions |-> "absent"]]
  /\ variant \in Variants

-----------------------------------------------------------------------------
(* gp_mm::allocate.                                                        *)

(* Mutant: the node stays at the head of the free list.                    *)
ReuseKept(t) ==
  /\ free_list # Null
  /\ t = nodes[free_list].trans
  /\ empties' = free_list
  /\ UNCHANGED <<nodes, grown, free_list, made>>

Reuse(t) ==
  /\ free_list # Null
  /\ t = nodes[free_list].trans
  /\ empties' = free_list
  /\ free_list' = nodes[free_list].next
  /\ UNCHANGED <<nodes, grown, made>>

Create(t) ==
  /\ free_list = Null
  /\ made < MaxTrans
  /\ made' = made + 1
  /\ t = made'
  /\ UNCHANGED lists

(* The extension of its user, attached when it is not there, counts.       *)
Attached(u, t) == IF u = "gp" THEN ext[t] ELSE [ext[t] EXCEPT ![u] = "valid"]

(* allocate() and acquire() by an initiator.                               *)
Allocate(u, t) ==
  /\ Reuse(t) \/ Create(t)
  /\ refs' = [refs EXCEPT ![t] = 1]
  /\ user' = [user EXCEPT ![t] = u]
  /\ ext' = [ext EXCEPT ![t] = Attached(u, t)]
  /\ UNCHANGED variant

(* A queue of the interconnect, or a target, keeps the transaction.        *)
Acquire(t) ==
  /\ refs[t] \in 1..(MaxRefs - 1)
  /\ refs' = [refs EXCEPT ![t] = @ + 1]
  /\ UNCHANGED <<lists, made, user, ext, variant>>

(* Mutant: a reference is given back twice.                                *)
ReleaseTwice(t) ==
  /\ refs[t] # 1
  /\ refs' = [refs EXCEPT ![t] = @ - 1]
  /\ UNCHANGED <<lists, made, user, ext, variant>>

(* release() that is not the last.                                         *)
Release(t) ==
  /\ refs[t] > 1
  /\ refs' = [refs EXCEPT ![t] = @ - 1]
  /\ UNCHANGED <<lists, made, user, ext, variant>>

-----------------------------------------------------------------------------
(* gp_mm::free: the transaction goes to the first empty node, or to a new  *)
(* node in front of the free list.                                         *)

NewNode == grown + 1

(* Mutant: the node that was first is not linked back to the new one.      *)
FreeInNewNodeUnlinked(t) ==
  /\ empties = Null
  /\ nodes' = [n \in 1..NewNode |->
                 IF n = NewNode THEN [trans |-> t, next |-> free_list, prev |-> Null]
                 ELSE nodes[n]]
  /\ grown' = NewNode
  /\ free_list' = NewNode
  /\ empties' = Null

FreeInNewNode(t) ==
  /\ empties = Null
  /\ nodes' = [n \in 1..NewNode |->
                 IF n = NewNode THEN [trans |-> t, next |-> free_list, prev |-> Null]
                 ELSE IF n = free_list THEN [nodes[n] EXCEPT !.prev = NewNode]
                 ELSE nodes[n]]
  /\ grown' = NewNode
  /\ free_list' = NewNode
  /\ empties' = Null

(* Mutant: the empty nodes are followed the wrong way.                     *)
FreeInEmptyNodeNext(t) ==
  /\ empties # Null
  /\ nodes' = [nodes EXCEPT ![empties].trans = t]
  /\ UNCHANGED grown
  /\ free_list' = empties
  /\ empties' = nodes[empties].next

FreeInEmptyNode(t) ==
  /\ empties # Null
  /\ nodes' = [nodes EXCEPT ![empties].trans = t]
  /\ UNCHANGED grown
  /\ free_list' = empties
  /\ empties' = nodes[empties].prev

(* lock_mm::free and load_link_mm::free lower the flag of their extension. *)
DetachedSticky(t) ==
  [e \in Extensions |-> IF e = user[t] THEN "invalid" ELSE ext[t][e]]

(* reset() deletes the auto extensions.                                    *)
DetachedAuto(t) == [e \in Extensions |-> "absent"]

(* reset() takes the guards away and leaves the data.                      *)
DetachedTwo(t) ==
  [e \in Extensions |-> IF ext[t][e] = "absent" THEN "absent" ELSE "invalid"]

(* Mutant: the flag, the extension or the guard is left as it is.          *)
DetachedNothing(t) == ext[t]

Detached(t) ==
  CASE variant = "sticky" -> DetachedSticky(t)
    [] variant = "auto"   -> DetachedAuto(t)
    [] variant = "two"    -> DetachedTwo(t)

(* The last release(): free() of the manager, which ends in gp_mm::free.   *)
Free(t) ==
  /\ refs[t] = 1
  /\ refs' = [refs EXCEPT ![t] = 0]
  /\ ext' = [ext EXCEPT ![t] = Detached(t)]
  /\ user' = [user EXCEPT ![t] = "gp"]
  /\ FreeInNewNode(t) \/ FreeInEmptyNode(t)
  /\ UNCHANGED <<made, variant>>

Next ==
  \E t \in Trans :
    \/ \E u \in Users : Allocate(u, t)
    \/ Acquire(t)
    \/ Release(t)
    \/ Free(t)

Spec == Init /\ [][Next]_vars

-----------------------------------------------------------------------------
Node == [trans : Trans, next : Nat, prev : Nat]

TypeOK ==
  /\ grown \in Nat
  /\ nodes \in [1..grown -> Node]
  /\ free_list \in 0..grown
  /\ empties \in 0..grown
  /\ made \in 0..MaxTrans
  /\ refs \in [Trans -> 0..MaxRefs]
  /\ user \in [Trans -> Users]
  /\ ext \in [Trans -> [Extensions -> Presence]]
  /\ variant \in Variants

InUse == {t \in Trans : refs[t] > 0}

(* The two lists are one chain: `next' leads from every node to the one    *)
(* created before it and `prev' back, the free list starts at free_list    *)
(* and empties is the node above it.  gp_mm keeps no other record of which *)
(* nodes are free.                                                         *)
ListShape ==
  /\ \A n \in 1..grown :
       /\ nodes[n].next = n - 1
       /\ nodes[n].prev = IF n < grown THEN n + 1 ELSE Null
  /\ empties = IF free_list < grown THEN free_list + 1 ELSE Null

(* The nodes `next' leads to from free_list, by ListShape.                 *)
OnFreeList == 1..free_list

(* No transaction is handed out while somebody still holds a reference, as *)
(* the one that is handed out next has none, and no two nodes of the free  *)
(* list hold the same one (gp_mm.h:81-111).                                *)
NotShared ==
  \A n \in OnFreeList :
    /\ nodes[n].trans \notin InUse
    /\ \A k \in OnFreeList : nodes[k].trans = nodes[n].trans => k = n

(* A transaction that was created is used or can be handed out again: the  *)
(* pool loses none, and `new' is called only when all are in use.          *)
NothingLost ==
  \A t \in 1..made : t \in InUse \/ \E n \in OnFreeList : nodes[n].trans = t

(* The interconnects tell the commands by the extension alone              *)
(* (lock_interconnect.h:97, load_link_interconnect.h:98): a transaction    *)
(* carries an extension that counts only for the one who uses it now.      *)
CleanExtensions ==
  \A t \in Trans, e \in Extensions :
    ext[t][e] = "valid" => t \in InUse /\ user[t] = e
=============================================================================

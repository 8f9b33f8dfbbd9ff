----------------------------- MODULE StaticPool -----------------------------
(***************************************************************************)
(* static_pool (stream/detail/static_allocator.hpp): memory of a fixed     *)
(* size, handed out in ascending order and taken back all at once, when    *)
(* the last block is freed; it is shared by the copies of an allocator.    *)
(* Addresses are offsets from the end of the object.                       *)
(***************************************************************************)
EXTENDS Integers, FiniteSets, FiniteSetTheorems, TLAPS

CONSTANT Size   \* size_

VARIABLES
    refs,       \* refs_
    count,      \* count_
    p,          \* p_
    blocks      \* history: the blocks in use

vars == <<refs, count, p, blocks>>

\* static_pool::construct()
Init == refs = 1 /\ count = 0 /\ p = 0 /\ blocks = {}

Share ==
    /\ refs > 0
    /\ refs' = refs + 1
    /\ UNCHANGED <<count, p, blocks>>

\* The last owner deletes the memory, when nothing in it is in use.
Destroy ==
    /\ refs > 0 /\ (refs = 1 => blocks = {})
    /\ refs' = refs - 1
    /\ UNCHANGED <<count, p, blocks>>

\* A block that would end at the end of the memory is refused, too.
Alloc(n) ==
    /\ refs > 0 /\ p + n < Size
    /\ count' = count + 1 /\ p' = p + n
    /\ blocks' = blocks \cup {[at |-> p, size |-> n]}
    /\ UNCHANGED refs

Dealloc(b) ==
    /\ refs > 0
    /\ count' = count - 1
    /\ p' = IF count = 1 THEN 0 ELSE p
    /\ blocks' = blocks \ {b}
    /\ UNCHANGED refs

Next ==
    \/ Share \/ Destroy
    \/ \E n \in Nat \ {0} : Alloc(n)
    \/ \E b \in blocks : Dealloc(b)

Spec == Init /\ [][Next]_vars

-----------------------------------------------------------------------------
Overlap(a, b) == a.at < b.at + b.size /\ b.at < a.at + a.size

\* Two blocks in use share no byte, and each lies within the memory, though the memory
\* is reused from its beginning whenever the count of blocks comes down to zero.
BlocksApart ==
    /\ \A b \in blocks : 0 <= b.at /\ b.at + b.size <= Size
    /\ \A a, b \in blocks : a # b => ~ Overlap(a, b)

\* The inductive invariant: count_ counts the blocks, and p_ is above them all.
PoolInv ==
    /\ refs \in Nat /\ p \in Nat /\ (p = 0 \/ p < Size)
    /\ IsFiniteSet(blocks) /\ count = Cardinality(blocks)
    /\ blocks \subseteq [at : Nat, size : Nat \ {0}]
    /\ \A b \in blocks : b.at + b.size <= p
    /\ \A a, b \in blocks : a # b => ~ Overlap(a, b)

\* The invariant holds of a new pool and in every step: alloc() takes what lies above
\* all the blocks, and dealloc() goes back to the beginning only when none is left.
THEOREM PoolInvariant == Spec => []PoolInv
  <1>1. Init => PoolInv
    BY FS_EmptySet DEF Init, PoolInv
  <1>2. ASSUME PoolInv, [Next]_vars
        PROVE  PoolInv'
    <2>1. CASE Share \/ Destroy \/ UNCHANGED vars
      BY <1>2, <2>1 DEF PoolInv, Overlap, Share, Destroy, vars
    <2>2. ASSUME NEW n \in Nat \ {0}, Alloc(n)
          PROVE  PoolInv'
      <3> DEFINE new == [at |-> p, size |-> n]
      <3>1. /\ blocks' = blocks \cup {new} /\ count' = count + 1 /\ p' = p + n
            /\ p + n < Size /\ refs' = refs
        BY <2>2 DEF Alloc
      <3>2. new \in [at : Nat, size : Nat \ {0}] /\ new.at = p /\ new.size = n
        BY <1>2 DEF PoolInv
      <3> HIDE DEF new
      <3>3. \A b \in blocks : b.at \in Nat /\ b.size \in Nat /\ b.at + b.size <= p /\ b.size > 0
        BY <1>2 DEF PoolInv
      <3>4. new \notin blocks
        BY <1>2, <2>2, <3>2, <3>3 DEF PoolInv
      <3>5. IsFiniteSet(blocks') /\ count' = Cardinality(blocks')
        BY <1>2, <3>1, <3>4, FS_AddElement DEF PoolInv
      <3>6. \A b \in blocks : ~ Overlap(new, b) /\ ~ Overlap(b, new)
        BY <1>2, <2>2, <3>2, <3>3 DEF PoolInv, Overlap
      <3>7. \A b \in blocks' : b.at + b.size <= p'
        BY <1>2, <2>2, <3>1, <3>2, <3>3 DEF PoolInv
      <3>8. \A a, b \in blocks' : a # b => ~ Overlap(a, b)
        BY <1>2, <3>1, <3>6 DEF PoolInv
      <3>9. p' \in Nat /\ p' < Size /\ blocks' \subseteq [at : Nat, size : Nat \ {0}]
        BY <1>2, <2>2, <3>1, <3>2 DEF PoolInv
      <3>10. QED
        BY <1>2, <3>1, <3>5, <3>7, <3>8, <3>9 DEF PoolInv, Overlap
    <2>3. ASSUME NEW b \in blocks, Dealloc(b)
          PROVE  PoolInv'
      <3>1. /\ blocks' = blocks \ {b} /\ count' = count - 1 /\ refs' = refs
            /\ p' = IF count = 1 THEN 0 ELSE p
        BY <2>3 DEF Dealloc
      <3>2. IsFiniteSet(blocks') /\ count' = Cardinality(blocks')
        BY <1>2, <2>3, <3>1, FS_RemoveElement DEF PoolInv
      <3>3. count = 1 => blocks' = {}
        BY <1>2, <3>1, <3>2, FS_EmptySet DEF PoolInv
      <3>4. QED
        BY <1>2, <3>1, <3>2, <3>3 DEF PoolInv, Overlap
    <2>4. QED
      BY <1>2, <2>1, <2>2, <2>3 DEF Next
  <1>3. QED
    BY <1>1, <1>2, PTL DEF Spec

\* Whatever is allocated and freed in whatever order, blocks in use do not overlap.
THEOREM NoOverlap == ASSUME Size \in Nat PROVE Spec => []BlocksApart
  <1>1. PoolInv => BlocksApart
    BY DEF PoolInv, BlocksApart
  <1>2. QED
    BY <1>1, PoolInvariant, PTL

=============================================================================

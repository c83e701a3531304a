----------------------------- MODULE Heap_proofs -----------------------------
(***************************************************************************)
(* Proofs about the C heap.  First what holds of the abstract heap of      *)
(* HeapBlocks: its inductive invariant, no overlap, no leak, no            *)
(* fragmentation.  Then the list: which links a list of free blocks has,   *)
(* what the walks along it find, and what taking a block off it, cutting   *)
(* one and entering one do to it.  Then the memory: blocks are pieces      *)
(* apart from each other and from what is left above the heap top.  The    *)
(* invariant of the heap joins the two, and from it follow the soundness   *)
(* of the list, what the program is promised, and that every call is a     *)
(* step of the abstract heap.  Last come sums over finite functions, with  *)
(* which the bytes are counted that the two queries of the heap report.    *)
(***************************************************************************)
EXTENDS MCHeap, FiniteSetTheorems, WellFoundedInduction, TLAPS

\* The ends of the heap and the size of its smallest block.
LEMMA Bounds == /\ Org \in Nat /\ End \in Nat /\ Org <= End
                /\ MinBlock \in Nat \ {0}
BY HeapAssumption

\* The invariant of the abstract heap is inductive as it stands.
IInv == Abstract!TypeOK /\ Abstract!NoOverlap /\ Abstract!NoLeak /\ Abstract!Coalesced

-----------------------------------------------------------------------------
(* Facts about blocks.                                                     *)

\* A block made of an address and a length has them.
LEMMA NewBlock ==
    ASSUME NEW a \in Nat, NEW n \in Nat
    PROVE  LET b == [at |-> a, len |-> n]
           IN  b \in Abstract!Block /\ b.at = a /\ b.len = n /\ Abstract!EndOf(b) = a + n
BY DEF Abstract!Block, Abstract!EndOf

\* What the type invariant says of each block, in one place.
LEMMA BlockFacts ==
    ASSUME Abstract!TypeOK
    PROVE  /\ heapptr \in Nat /\ Org <= heapptr /\ heapptr <= End
           /\ \A b \in Abstract!Blocks : /\ b \in Abstract!Block /\ b.at \in Nat /\ b.len \in Nat
                                /\ b.len > 0 /\ Abstract!EndOf(b) = b.at + b.len
                                /\ Org <= b.at /\ Abstract!EndOf(b) <= heapptr
BY Bounds DEF Abstract!TypeOK, Abstract!Blocks, Abstract!Block, Abstract!EndOf

\* Different blocks differ in their address and in their end, because each
\* of them has a byte.
LEMMA DistinctAt ==
    ASSUME Abstract!TypeOK, Abstract!NoOverlap, NEW b \in Abstract!Blocks, NEW c \in Abstract!Blocks, b # c
    PROVE  b.at # c.at /\ Abstract!EndOf(b) # Abstract!EndOf(c)
BY BlockFacts DEF Abstract!NoOverlap

\* Every other block ends at or below the address of the block at the top.
LEMMA TopBlock ==
    ASSUME Abstract!TypeOK, Abstract!NoOverlap, NEW u \in Abstract!Blocks, Abstract!EndOf(u) = heapptr,
           NEW b \in Abstract!Blocks, b # u
    PROVE  Abstract!EndOf(b) <= u.at
<1>1. Abstract!EndOf(b) <= u.at \/ Abstract!EndOf(u) <= b.at
  BY DEF Abstract!NoOverlap
<1> QED
  BY <1>1, BlockFacts

-----------------------------------------------------------------------------
(* The invariant is inductive: one lemma for each action.                  *)

\* The empty heap satisfies the invariant.
LEMMA InitIInv == Abstract!Init => IInv
BY Bounds
   DEF Abstract!Init, IInv, Abstract!TypeOK, Abstract!NoOverlap, Abstract!NoLeak, Abstract!Coalesced, Abstract!Blocks

\* Taking memory from the top keeps the invariant.
LEMMA GrantTopStep ==
    ASSUME IInv, NEW n \in Abstract!Sizes, Abstract!GrantTop(n)
    PROVE  IInv'
<1> DEFINE u == [at |-> heapptr, len |-> n]
<1>1. n \in Nat /\ n > 0
  BY Bounds DEF Abstract!Sizes
<1>2. /\ heapptr \in Nat /\ Org <= heapptr
      /\ \A b \in Abstract!Blocks : /\ b \in Abstract!Block /\ b.at \in Nat /\ b.len > 0
                           /\ Org <= b.at /\ Abstract!EndOf(b) <= heapptr /\ b.at < Abstract!EndOf(b)
  BY BlockFacts DEF IInv
<1>3. u \in Abstract!Block /\ u.at = heapptr /\ u.len = n /\ Abstract!EndOf(u) = heapptr + n
  BY <1>1, <1>2, NewBlock
<1>4. /\ FreeBlocks' = FreeBlocks /\ UsedBlocks' = UsedBlocks \cup {u}
      /\ heapptr' = heapptr + n /\ heapptr' <= End
      /\ Abstract!Blocks' = Abstract!Blocks \cup {u}
  BY DEF Abstract!GrantTop, Abstract!Blocks
<1> HIDE DEF u
<1>5. Abstract!TypeOK'
  <2>1. heapptr' \in Org .. End
    BY <1>1, <1>2, <1>4, Bounds
  <2>2. FreeBlocks' \subseteq Abstract!Block /\ UsedBlocks' \subseteq Abstract!Block
    BY <1>3, <1>4 DEF IInv, Abstract!TypeOK
  <2>3. ASSUME NEW b \in Abstract!Blocks'
        PROVE  Org <= b.at /\ b.len > 0 /\ Abstract!EndOf(b) <= heapptr'
    <3>1. CASE b = u
      BY <3>1, <1>1, <1>2, <1>3, <1>4
    <3>2. CASE b \in Abstract!Blocks
      BY <3>2, <1>1, <1>2, <1>4, BlockFacts DEF IInv
    <3> QED
      BY <3>1, <3>2, <1>4
  <2> QED
    BY <2>1, <2>2, <2>3 DEF Abstract!TypeOK
<1>6. Abstract!NoOverlap'
  <2>1. u \notin Abstract!Blocks
    BY <1>1, <1>2, <1>3
  <2>2. (FreeBlocks \cap UsedBlocks)' = {}
    BY <2>1, <1>4 DEF IInv, Abstract!NoOverlap, Abstract!Blocks
  <2>3. ASSUME NEW b \in Abstract!Blocks', NEW c \in Abstract!Blocks', b # c
        PROVE  Abstract!EndOf(b) <= c.at \/ Abstract!EndOf(c) <= b.at
    BY <2>3, <1>2, <1>3, <1>4 DEF IInv, Abstract!NoOverlap
  <2> QED
    BY <2>2, <2>3 DEF Abstract!NoOverlap
<1>7. Abstract!NoLeak'
  <2>1. SUFFICES ASSUME NEW x \in Org .. heapptr' - 1
                 PROVE  \E b \in Abstract!Blocks' : b.at <= x /\ x < Abstract!EndOf(b)
    BY DEF Abstract!NoLeak
  <2>2. CASE x < heapptr
    <3>1. x \in Org .. heapptr - 1
      BY <2>1, <2>2, <1>2, Bounds
    <3> QED
      BY <3>1, <1>4 DEF IInv, Abstract!NoLeak
  <2>3. CASE x >= heapptr
    BY <2>1, <2>3, <1>1, <1>2, <1>3, <1>4, Bounds
  <2> QED
    BY <2>1, <2>2, <2>3, <1>2, Bounds
<1>8. Abstract!Coalesced'
  <2>1. \A f \in FreeBlocks : Abstract!EndOf(f) # heapptr'
    BY <1>1, <1>2, <1>4, BlockFacts DEF IInv, Abstract!Blocks
  <2> QED
    BY <2>1, <1>4 DEF IInv, Abstract!Coalesced
<1> QED
  BY <1>5, <1>6, <1>7, <1>8 DEF IInv

\* Handing out a free block as it is keeps the invariant.
LEMMA GrantWholeStep ==
    ASSUME IInv, NEW f \in FreeBlocks, Abstract!GrantWhole(f)
    PROVE  IInv'
<1>1. /\ FreeBlocks' = FreeBlocks \ {f} /\ UsedBlocks' = UsedBlocks \cup {f} /\ heapptr' = heapptr
      /\ Abstract!Blocks' = Abstract!Blocks
  BY DEF Abstract!GrantWhole, Abstract!Blocks
<1>2. Abstract!TypeOK'
  BY <1>1 DEF IInv, Abstract!TypeOK
<1>3. Abstract!NoOverlap'
  BY <1>1 DEF IInv, Abstract!NoOverlap
<1>4. Abstract!NoLeak'
  BY <1>1 DEF IInv, Abstract!NoLeak
<1>5. Abstract!Coalesced'
  BY <1>1 DEF IInv, Abstract!Coalesced
<1> QED
  BY <1>2, <1>3, <1>4, <1>5 DEF IInv

\* Slicing a free block keeps the invariant.
LEMMA GrantSliceStep ==
    ASSUME IInv, NEW f \in FreeBlocks, NEW n \in Abstract!Sizes, Abstract!GrantSlice(f, n)
    PROVE  IInv'
<1> DEFINE r == [at |-> f.at, len |-> f.len - n]
           u == [at |-> Abstract!EndOf(f) - n, len |-> n]
<1>1. n \in Nat /\ n > 0 /\ MinBlock \in Nat /\ MinBlock > 0
  BY Bounds DEF Abstract!Sizes
<1>2. /\ heapptr \in Nat
      /\ \A b \in Abstract!Blocks : /\ b \in Abstract!Block /\ b.at \in Nat /\ b.len \in Nat
                           /\ b.len > 0 /\ Abstract!EndOf(b) = b.at + b.len
                           /\ Org <= b.at /\ Abstract!EndOf(b) <= heapptr
  BY BlockFacts DEF IInv
<1>3. f \in Abstract!Blocks /\ f.at \in Nat /\ f.len \in Nat /\ n < f.len
  BY <1>1, <1>2 DEF Abstract!GrantSlice, Abstract!Blocks
<1>4. /\ r \in Abstract!Block /\ r.at = f.at /\ r.len > 0 /\ Abstract!EndOf(r) = Abstract!EndOf(f) - n
      /\ u \in Abstract!Block /\ u.at = Abstract!EndOf(f) - n /\ u.len > 0 /\ Abstract!EndOf(u) = Abstract!EndOf(f)
  <2>1. f.len - n \in Nat /\ Abstract!EndOf(f) - n \in Nat
    BY <1>1, <1>2, <1>3
  <2> QED
    BY <2>1, <1>1, <1>2, <1>3, NewBlock
<1>5. FreeBlocks' = (FreeBlocks \ {f}) \cup {r} /\ UsedBlocks' = UsedBlocks \cup {u} /\ heapptr' = heapptr
  BY DEF Abstract!GrantSlice
<1> HIDE DEF r, u
<1>6. Abstract!Blocks' = (Abstract!Blocks \ {f}) \cup {r, u}
  BY <1>5 DEF Abstract!Blocks, IInv, Abstract!NoOverlap
<1>7. \A b \in Abstract!Blocks \ {f} : Abstract!EndOf(b) <= f.at \/ Abstract!EndOf(f) <= b.at
  BY <1>3 DEF IInv, Abstract!NoOverlap
<1>8. r \notin Abstract!Blocks \ {f} /\ u \notin Abstract!Blocks \ {f} /\ r # u
  BY <1>1, <1>2, <1>3, <1>4, <1>7
<1>9. Abstract!TypeOK'
  <2>1. FreeBlocks' \subseteq Abstract!Block /\ UsedBlocks' \subseteq Abstract!Block
    BY <1>4, <1>5 DEF IInv, Abstract!TypeOK
  <2>2. ASSUME NEW b \in Abstract!Blocks'
        PROVE  Org <= b.at /\ b.len > 0 /\ Abstract!EndOf(b) <= heapptr'
    <3>1. CASE b \in {r, u}
      BY <3>1, <1>1, <1>2, <1>3, <1>4, <1>5, Bounds
    <3>2. CASE b \in Abstract!Blocks
      BY <3>2, <1>2, <1>5
    <3> QED
      BY <3>1, <3>2, <1>6
  <2> QED
    BY <2>1, <2>2, <1>5 DEF IInv, Abstract!TypeOK
<1>10. Abstract!NoOverlap'
  <2>1. (FreeBlocks \cap UsedBlocks)' = {}
    BY <1>3, <1>5, <1>8 DEF IInv, Abstract!NoOverlap, Abstract!Blocks
  <2>2. ASSUME NEW b \in Abstract!Blocks \ {f}
        PROVE  /\ Abstract!EndOf(b) <= r.at \/ Abstract!EndOf(r) <= b.at
               /\ Abstract!EndOf(b) <= u.at \/ Abstract!EndOf(u) <= b.at
    BY <1>1, <1>2, <1>3, <1>4, <1>7
  <2>3. Abstract!EndOf(r) <= u.at
    BY <1>1, <1>2, <1>3, <1>4
  <2>4. ASSUME NEW b \in Abstract!Blocks', NEW c \in Abstract!Blocks', b # c
        PROVE  Abstract!EndOf(b) <= c.at \/ Abstract!EndOf(c) <= b.at
    BY <2>2, <2>3, <2>4, <1>6 DEF IInv, Abstract!NoOverlap
  <2> QED
    BY <2>1, <2>4 DEF Abstract!NoOverlap
<1>11. Abstract!NoLeak'
  <2>1. SUFFICES ASSUME NEW x \in Org .. heapptr - 1
                 PROVE  \E b \in Abstract!Blocks' : b.at <= x /\ x < Abstract!EndOf(b)
    BY <1>5 DEF Abstract!NoLeak
  <2>2. PICK b \in Abstract!Blocks : b.at <= x /\ x < Abstract!EndOf(b)
    BY <2>1 DEF IInv, Abstract!NoLeak
  <2>3. CASE b = f
    BY <2>1, <2>2, <2>3, <1>1, <1>2, <1>3, <1>4, <1>6, Bounds
  <2>4. CASE b # f
    BY <2>2, <2>4, <1>6
  <2> QED
    BY <2>3, <2>4
<1>12. Abstract!Coalesced'
  <2>1. \A g \in FreeBlocks \ {f} : /\ Abstract!EndOf(g) # r.at /\ Abstract!EndOf(r) # g.at
                              /\ Abstract!EndOf(g) # heapptr
    BY <1>1, <1>2, <1>3, <1>4, <1>7 DEF IInv, Abstract!Coalesced, Abstract!Blocks
  <2>2. Abstract!EndOf(r) # r.at /\ Abstract!EndOf(r) # heapptr
    BY <1>1, <1>2, <1>3, <1>4
  <2>3. \A g, h \in FreeBlocks \ {f} : Abstract!EndOf(g) # h.at
    BY DEF IInv, Abstract!Coalesced
  <2> QED
    BY <2>1, <2>2, <2>3, <1>5 DEF Abstract!Coalesced
<1> QED
  BY <1>9, <1>10, <1>11, <1>12 DEF IInv

\* Freeing the block below the top keeps the invariant, whether or not the
\* top falls past a free block.
LEMMA FreeTopStep ==
    ASSUME IInv, NEW u \in UsedBlocks, Abstract!FreeTop(u)
    PROVE  IInv'
<1>1. u \in Abstract!Blocks /\ Abstract!EndOf(u) = heapptr /\ UsedBlocks' = UsedBlocks \ {u} /\ u \notin FreeBlocks
  BY DEF Abstract!FreeTop, Abstract!Blocks, IInv, Abstract!NoOverlap
<1>2. /\ heapptr \in Nat
      /\ \A b \in Abstract!Blocks : /\ b \in Abstract!Block /\ b.at \in Nat /\ b.len \in Nat
                           /\ b.len > 0 /\ Abstract!EndOf(b) = b.at + b.len
                           /\ Org <= b.at /\ Abstract!EndOf(b) <= heapptr
  BY BlockFacts DEF IInv
<1>3. \A b \in Abstract!Blocks \ {u} : Abstract!EndOf(b) <= u.at
  BY <1>1, TopBlock DEF IInv
<1>4. CASE Abstract!Before(u) = {}
  <2>1. FreeBlocks' = FreeBlocks /\ heapptr' = u.at /\ Abstract!Blocks' = Abstract!Blocks \ {u}
    BY <1>1, <1>4 DEF Abstract!FreeTop, Abstract!Blocks
  <2>2. Abstract!TypeOK'
    <3>1. heapptr' \in Org .. End
      BY <2>1, <1>1, <1>2, BlockFacts, Bounds DEF IInv
    <3> QED
      BY <3>1, <2>1, <1>1, <1>2, <1>3 DEF IInv, Abstract!TypeOK
  <2>3. Abstract!NoOverlap'
    BY <2>1, <1>1 DEF IInv, Abstract!NoOverlap
  <2>4. Abstract!NoLeak'
    <3>1. SUFFICES ASSUME NEW x \in Org .. u.at - 1
                   PROVE  \E b \in Abstract!Blocks \ {u} : b.at <= x /\ x < Abstract!EndOf(b)
      BY <2>1 DEF Abstract!NoLeak
    <3>2. x \in Org .. heapptr - 1 /\ x < u.at
      BY <3>1, <1>1, <1>2, Bounds
    <3>3. PICK b \in Abstract!Blocks : b.at <= x /\ x < Abstract!EndOf(b)
      BY <3>2 DEF IInv, Abstract!NoLeak
    <3>4. b # u
      BY <3>1, <3>2, <3>3, <1>1, <1>2, Bounds
    <3> QED
      BY <3>3, <3>4
  <2>5. Abstract!Coalesced'
    BY <2>1, <1>4 DEF IInv, Abstract!Coalesced, Abstract!Before
  <2> QED
    BY <2>2, <2>3, <2>4, <2>5 DEF IInv
<1>5. CASE Abstract!Before(u) # {}
  <2>1. PICK f \in Abstract!Before(u) : heapptr' = f.at
    BY <1>5 DEF Abstract!FreeTop
  <2>2. f \in FreeBlocks /\ f \in Abstract!Blocks /\ f # u /\ Abstract!EndOf(f) = u.at
    BY <2>1, <1>1 DEF Abstract!Before, Abstract!Blocks
  <2>3. Abstract!Before(u) = {f}
    BY <2>2, DistinctAt DEF Abstract!Before, IInv, Abstract!Blocks
  <2>4. /\ FreeBlocks' = FreeBlocks \ {f} /\ heapptr' = f.at
        /\ Abstract!Blocks' = Abstract!Blocks \ {u, f}
    BY <2>1, <2>2, <2>3, <1>1 DEF Abstract!FreeTop, Abstract!Blocks, IInv, Abstract!NoOverlap
  <2>5. \A b \in Abstract!Blocks \ {u, f} : Abstract!EndOf(b) <= f.at
    <3>1. ASSUME NEW b \in Abstract!Blocks \ {u, f}
          PROVE  Abstract!EndOf(b) <= f.at
      <4>1. Abstract!EndOf(b) <= u.at /\ (Abstract!EndOf(b) <= f.at \/ Abstract!EndOf(f) <= b.at)
        BY <3>1, <2>2, <1>3 DEF IInv, Abstract!NoOverlap
      <4> QED
        BY <4>1, <3>1, <2>2, <1>2
    <3> QED
      BY <3>1
  <2>6. Abstract!TypeOK'
    <3>1. heapptr' \in Org .. End
      BY <2>2, <2>4, <1>2, BlockFacts, Bounds DEF IInv
    <3> QED
      BY <3>1, <2>4, <2>5, <1>1, <1>2 DEF IInv, Abstract!TypeOK
  <2>7. Abstract!NoOverlap'
    BY <2>4, <1>1 DEF IInv, Abstract!NoOverlap
  <2>8. Abstract!NoLeak'
    <3>1. SUFFICES ASSUME NEW x \in Org .. f.at - 1
                   PROVE  \E b \in Abstract!Blocks \ {u, f} : b.at <= x /\ x < Abstract!EndOf(b)
      BY <2>4 DEF Abstract!NoLeak
    <3>2. x \in Org .. heapptr - 1 /\ x < f.at /\ x < u.at
      BY <3>1, <2>2, <1>1, <1>2, Bounds
    <3>3. PICK b \in Abstract!Blocks : b.at <= x /\ x < Abstract!EndOf(b)
      BY <3>2 DEF IInv, Abstract!NoLeak
    <3>4. b # u /\ b # f
      BY <3>1, <3>2, <3>3, <2>2, <1>1, <1>2, Bounds
    <3> QED
      BY <3>3, <3>4
  <2>9. Abstract!Coalesced'
    BY <2>2, <2>4 DEF IInv, Abstract!Coalesced
  <2> QED
    BY <2>6, <2>7, <2>8, <2>9 DEF IInv
<1> QED
  BY <1>4, <1>5

\* Freeing a block elsewhere keeps the invariant: the block that enters the
\* free list spans the freed one and the free neighbours it touches.
LEMMA FreeInnerStep ==
    ASSUME IInv, NEW u \in UsedBlocks, Abstract!FreeInner(u)
    PROVE  IInv'
<1> DEFINE Gone == {u} \cup Abstract!Before(u) \cup Abstract!After(u)
<1>1. u \in Abstract!Blocks /\ Abstract!EndOf(u) # heapptr /\ u \notin FreeBlocks
  BY DEF Abstract!FreeInner, Abstract!Blocks, IInv, Abstract!NoOverlap
<1>2. /\ heapptr \in Nat
      /\ \A b \in Abstract!Blocks : /\ b \in Abstract!Block /\ b.at \in Nat /\ b.len \in Nat
                           /\ b.len > 0 /\ Abstract!EndOf(b) = b.at + b.len
                           /\ Org <= b.at /\ Abstract!EndOf(b) <= heapptr
  BY BlockFacts DEF IInv
<1>3. PICK lo \in IF Abstract!Before(u) = {} THEN {u.at} ELSE {f.at : f \in Abstract!Before(u)},
           hi \in IF Abstract!After(u) = {} THEN {Abstract!EndOf(u)} ELSE {Abstract!EndOf(f) : f \in Abstract!After(u)} :
           FreeBlocks' = (FreeBlocks \ (Abstract!Before(u) \cup Abstract!After(u)))
                       \cup {[at |-> lo, len |-> hi - lo]}
  BY DEF Abstract!FreeInner
<1> DEFINE g == [at |-> lo, len |-> hi - lo]
<1>4. Abstract!Before(u) \subseteq FreeBlocks /\ Abstract!After(u) \subseteq FreeBlocks /\ Gone \subseteq Abstract!Blocks
  BY <1>1 DEF Abstract!Before, Abstract!After, Abstract!Blocks
<1>5. \/ Abstract!Before(u) = {} /\ lo = u.at
      \/ \E f \in FreeBlocks : f \in Abstract!Blocks /\ Abstract!Before(u) = {f} /\ Abstract!EndOf(f) = u.at /\ lo = f.at
  <2>1. CASE Abstract!Before(u) = {}
    BY <2>1, <1>3
  <2>2. CASE Abstract!Before(u) # {}
    <3>1. PICK f \in Abstract!Before(u) : lo = f.at
      BY <2>2, <1>3
    <3>2. f \in FreeBlocks /\ f \in Abstract!Blocks /\ Abstract!EndOf(f) = u.at
      BY <3>1 DEF Abstract!Before, Abstract!Blocks
    <3>3. Abstract!Before(u) = {f}
      BY <3>2, DistinctAt DEF Abstract!Before, IInv, Abstract!Blocks
    <3> QED
      BY <3>1, <3>2, <3>3
  <2> QED
    BY <2>1, <2>2
<1>6. \/ Abstract!After(u) = {} /\ hi = Abstract!EndOf(u)
      \/ \E f \in FreeBlocks : f \in Abstract!Blocks /\ Abstract!After(u) = {f} /\ f.at = Abstract!EndOf(u) /\ hi = Abstract!EndOf(f)
  <2>1. CASE Abstract!After(u) = {}
    BY <2>1, <1>3
  <2>2. CASE Abstract!After(u) # {}
    <3>1. PICK f \in Abstract!After(u) : hi = Abstract!EndOf(f)
      BY <2>2, <1>3
    <3>2. f \in FreeBlocks /\ f \in Abstract!Blocks /\ f.at = Abstract!EndOf(u)
      BY <3>1 DEF Abstract!After, Abstract!Blocks
    <3>3. Abstract!After(u) = {f}
      BY <3>2, DistinctAt DEF Abstract!After, IInv, Abstract!Blocks
    <3> QED
      BY <3>1, <3>2, <3>3
  <2> QED
    BY <2>1, <2>2
<1>7. /\ lo \in Nat /\ hi \in Nat /\ Org <= lo /\ hi <= heapptr
      /\ lo <= u.at /\ Abstract!EndOf(u) <= hi /\ lo < hi
  BY <1>1, <1>2, <1>5, <1>6, Bounds
<1>8. g \in Abstract!Block /\ g.at = lo /\ g.len = hi - lo /\ g.len > 0 /\ Abstract!EndOf(g) = hi
  BY <1>7, NewBlock
<1>9. /\ FreeBlocks' = (FreeBlocks \ (Abstract!Before(u) \cup Abstract!After(u))) \cup {g}
      /\ UsedBlocks' = UsedBlocks \ {u} /\ heapptr' = heapptr
  BY <1>3 DEF Abstract!FreeInner
<1> HIDE DEF g
<1>10. Abstract!Blocks' = (Abstract!Blocks \ Gone) \cup {g}
  BY <1>4, <1>9 DEF Abstract!Blocks, IInv, Abstract!NoOverlap
<1>11. \A b \in Abstract!Blocks \ Gone : Abstract!EndOf(b) <= lo \/ hi <= b.at
  <2>1. SUFFICES ASSUME NEW b \in Abstract!Blocks \ Gone
                 PROVE  Abstract!EndOf(b) <= lo \/ hi <= b.at
    OBVIOUS
  <2>2. Abstract!EndOf(b) <= u.at \/ Abstract!EndOf(u) <= b.at
    BY <1>1 DEF IInv, Abstract!NoOverlap
  <2>3. CASE Abstract!EndOf(b) <= u.at
    <3>1. CASE lo = u.at
      BY <2>3, <3>1
    <3>2. CASE lo # u.at
      <4>1. PICK f \in Abstract!Blocks : Abstract!Before(u) = {f} /\ Abstract!EndOf(f) = u.at /\ lo = f.at
        BY <3>2, <1>5
      <4>2. Abstract!EndOf(b) <= f.at \/ Abstract!EndOf(f) <= b.at
        BY <4>1 DEF IInv, Abstract!NoOverlap
      <4> QED
        BY <2>3, <4>1, <4>2, <1>1, <1>2
    <3> QED
      BY <3>1, <3>2
  <2>4. CASE Abstract!EndOf(u) <= b.at
    <3>1. CASE hi = Abstract!EndOf(u)
      BY <2>4, <3>1
    <3>2. CASE hi # Abstract!EndOf(u)
      <4>1. PICK f \in Abstract!Blocks : Abstract!After(u) = {f} /\ f.at = Abstract!EndOf(u) /\ hi = Abstract!EndOf(f)
        BY <3>2, <1>6
      <4>2. Abstract!EndOf(b) <= f.at \/ Abstract!EndOf(f) <= b.at
        BY <4>1 DEF IInv, Abstract!NoOverlap
      <4> QED
        BY <2>4, <4>1, <4>2, <1>1, <1>2
    <3> QED
      BY <3>1, <3>2
  <2> QED
    BY <2>2, <2>3, <2>4
<1>12. g \notin Abstract!Blocks \ Gone
  BY <1>2, <1>7, <1>8, <1>11
<1>13. Abstract!TypeOK'
  <2>1. FreeBlocks' \subseteq Abstract!Block /\ UsedBlocks' \subseteq Abstract!Block
    BY <1>8, <1>9 DEF IInv, Abstract!TypeOK
  <2>2. \A b \in Abstract!Blocks' : Org <= b.at /\ b.len > 0 /\ Abstract!EndOf(b) <= heapptr'
    BY <1>2, <1>7, <1>8, <1>9, <1>10
  <2> QED
    BY <2>1, <2>2, <1>9 DEF IInv, Abstract!TypeOK
<1>14. Abstract!NoOverlap'
  <2>1. g \notin UsedBlocks'
    BY <1>1, <1>4, <1>9, <1>12 DEF IInv, Abstract!NoOverlap, Abstract!Blocks
  <2>2. (FreeBlocks \cap UsedBlocks)' = {}
    BY <2>1, <1>9 DEF IInv, Abstract!NoOverlap
  <2>3. ASSUME NEW b \in Abstract!Blocks', NEW c \in Abstract!Blocks', b # c
        PROVE  Abstract!EndOf(b) <= c.at \/ Abstract!EndOf(c) <= b.at
    BY <2>3, <1>8, <1>10, <1>11 DEF IInv, Abstract!NoOverlap
  <2> QED
    BY <2>2, <2>3 DEF Abstract!NoOverlap
<1>15. Abstract!NoLeak'
  <2>1. SUFFICES ASSUME NEW x \in Org .. heapptr - 1
                 PROVE  \E b \in Abstract!Blocks' : b.at <= x /\ x < Abstract!EndOf(b)
    BY <1>9 DEF Abstract!NoLeak
  <2>2. PICK b \in Abstract!Blocks : b.at <= x /\ x < Abstract!EndOf(b)
    BY <2>1 DEF IInv, Abstract!NoLeak
  <2>3. CASE b \in Gone
    <3>1. lo <= b.at /\ Abstract!EndOf(b) <= hi
      BY <2>3, <1>1, <1>2, <1>5, <1>6, <1>7
    <3> QED
      BY <3>1, <2>1, <2>2, <1>2, <1>7, <1>8, <1>10, Bounds
  <2>4. CASE b \notin Gone
    BY <2>2, <2>4, <1>10
  <2> QED
    BY <2>3, <2>4
<1>16. Abstract!Coalesced'
  <2>1. ASSUME NEW f \in FreeBlocks \ (Abstract!Before(u) \cup Abstract!After(u))
        PROVE  Abstract!EndOf(f) # lo /\ f.at # hi
    <3>1. Abstract!EndOf(f) # u.at /\ f.at # Abstract!EndOf(u)
      BY <2>1 DEF Abstract!Before, Abstract!After
    <3>2. \A h \in FreeBlocks : Abstract!EndOf(f) # h.at /\ Abstract!EndOf(h) # f.at
      BY <2>1 DEF IInv, Abstract!Coalesced
    <3> QED
      BY <3>1, <3>2, <1>5, <1>6
  <2>2. hi # heapptr
    BY <1>1, <1>6 DEF IInv, Abstract!Coalesced
  <2>3. hi # lo
    BY <1>7
  <2> QED
    BY <2>1, <2>2, <2>3, <1>8, <1>9 DEF IInv, Abstract!Coalesced
<1> QED
  BY <1>13, <1>14, <1>15, <1>16 DEF IInv

\* Growing or shrinking the block below the top keeps the invariant.
LEMMA ResizeStep ==
    ASSUME IInv, NEW u \in UsedBlocks, NEW n \in Abstract!Sizes, Abstract!Resize(u, n)
    PROVE  IInv'
<1> DEFINE v == [at |-> u.at, len |-> n]
<1>1. u \in Abstract!Blocks /\ Abstract!EndOf(u) = heapptr /\ u \notin FreeBlocks
  BY DEF Abstract!Resize, Abstract!Blocks, IInv, Abstract!NoOverlap
<1>2. /\ heapptr \in Nat
      /\ \A b \in Abstract!Blocks : /\ b \in Abstract!Block /\ b.at \in Nat /\ b.len \in Nat
                           /\ b.len > 0 /\ Abstract!EndOf(b) = b.at + b.len
                           /\ Org <= b.at /\ Abstract!EndOf(b) <= heapptr
  BY BlockFacts DEF IInv
<1>3. n \in Nat /\ n > 0
  BY Bounds DEF Abstract!Sizes
<1>4. v \in Abstract!Block /\ v.at = u.at /\ v.len = n /\ Abstract!EndOf(v) = u.at + n
  BY <1>1, <1>2, <1>3, NewBlock
<1>5. /\ UsedBlocks' = (UsedBlocks \ {u}) \cup {v} /\ FreeBlocks' = FreeBlocks
      /\ heapptr' = u.at + n /\ heapptr' <= End
  BY DEF Abstract!Resize
<1> HIDE DEF v
<1>6. \A b \in Abstract!Blocks \ {u} : Abstract!EndOf(b) <= u.at
  BY <1>1, TopBlock DEF IInv
<1>7. Abstract!Blocks' = (Abstract!Blocks \ {u}) \cup {v}
  BY <1>1, <1>5 DEF Abstract!Blocks
<1>8. v \notin Abstract!Blocks \ {u}
  BY <1>1, <1>2, <1>3, <1>4, <1>6
<1>9. Abstract!TypeOK'
  <2>1. heapptr' \in Org .. End
    BY <1>1, <1>2, <1>3, <1>5, Bounds
  <2>2. FreeBlocks' \subseteq Abstract!Block /\ UsedBlocks' \subseteq Abstract!Block
    BY <1>4, <1>5 DEF IInv, Abstract!TypeOK
  <2>3. \A b \in Abstract!Blocks' : Org <= b.at /\ b.len > 0 /\ Abstract!EndOf(b) <= heapptr'
    BY <1>1, <1>2, <1>3, <1>4, <1>5, <1>6, <1>7, Bounds
  <2> QED
    BY <2>1, <2>2, <2>3 DEF Abstract!TypeOK
<1>10. Abstract!NoOverlap'
  <2>1. (FreeBlocks \cap UsedBlocks)' = {}
    BY <1>1, <1>5, <1>8 DEF IInv, Abstract!NoOverlap, Abstract!Blocks
  <2>2. ASSUME NEW b \in Abstract!Blocks', NEW c \in Abstract!Blocks', b # c
        PROVE  Abstract!EndOf(b) <= c.at \/ Abstract!EndOf(c) <= b.at
    BY <2>2, <1>4, <1>6, <1>7 DEF IInv, Abstract!NoOverlap
  <2> QED
    BY <2>1, <2>2 DEF Abstract!NoOverlap
<1>11. Abstract!NoLeak'
  <2>1. SUFFICES ASSUME NEW x \in Org .. heapptr' - 1
                 PROVE  \E b \in Abstract!Blocks' : b.at <= x /\ x < Abstract!EndOf(b)
    BY DEF Abstract!NoLeak
  <2>2. x \in Int /\ Org <= x /\ x < u.at + n
    BY <2>1, <1>1, <1>2, <1>3, <1>5, Bounds
  <2>3. CASE x < u.at
    <3>1. x \in Org .. heapptr - 1
      BY <2>2, <2>3, <1>1, <1>2, Bounds
    <3>2. PICK b \in Abstract!Blocks : b.at <= x /\ x < Abstract!EndOf(b)
      BY <3>1 DEF IInv, Abstract!NoLeak
    <3>3. b # u
      BY <2>2, <2>3, <3>2, <1>1, <1>2
    <3> QED
      BY <3>2, <3>3, <1>7
  <2>4. CASE x >= u.at
    BY <2>2, <2>4, <1>4, <1>7
  <2> QED
    BY <2>2, <2>3, <2>4, <1>1, <1>2
<1>12. Abstract!Coalesced'
  <2>1. \A f \in FreeBlocks : Abstract!EndOf(f) # heapptr'
    BY <1>1, <1>2, <1>3, <1>5, <1>6 DEF Abstract!Blocks
  <2> QED
    BY <2>1, <1>5 DEF IInv, Abstract!Coalesced
<1> QED
  BY <1>9, <1>10, <1>11, <1>12 DEF IInv

-----------------------------------------------------------------------------
(* The theorems.                                                           *)

\* Every step of the heap keeps the invariant.
LEMMA Step == IInv /\ [Abstract!Next]_(Abstract!blockVars) => IInv'
<1> SUFFICES ASSUME IInv, [Abstract!Next]_(Abstract!blockVars)
             PROVE  IInv'
  OBVIOUS
<1>1. ASSUME NEW n \in Abstract!Sizes, Abstract!GrantTop(n)
      PROVE  IInv'
  BY <1>1, GrantTopStep
<1>2. ASSUME NEW f \in FreeBlocks, Abstract!GrantWhole(f)
      PROVE  IInv'
  BY <1>2, GrantWholeStep
<1>3. ASSUME NEW f \in FreeBlocks, NEW n \in Abstract!Sizes, Abstract!GrantSlice(f, n)
      PROVE  IInv'
  BY <1>3, GrantSliceStep
<1>4. ASSUME NEW u \in UsedBlocks, Abstract!FreeTop(u)
      PROVE  IInv'
  BY <1>4, FreeTopStep
<1>5. ASSUME NEW u \in UsedBlocks, Abstract!FreeInner(u)
      PROVE  IInv'
  BY <1>5, FreeInnerStep
<1>6. ASSUME NEW u \in UsedBlocks, NEW n \in Abstract!Sizes, Abstract!Resize(u, n)
      PROVE  IInv'
  BY <1>6, ResizeStep
<1>7. CASE UNCHANGED Abstract!blockVars
  BY <1>7 DEF Abstract!blockVars, IInv, Abstract!TypeOK, Abstract!NoOverlap, Abstract!NoLeak, Abstract!Coalesced, Abstract!Blocks,
              Abstract!EndOf, Abstract!Block
<1> QED
  BY <1>1, <1>2, <1>3, <1>4, <1>5, <1>6, <1>7 DEF Abstract!Next

\* The conjunction is an invariant of the abstract heap.
THEOREM Inductive == Abstract!Spec => []IInv
BY InitIInv, Step, PTL DEF Abstract!Spec

\* Blocks handed out by malloc, calloc and realloc, and the free blocks that
\* hold the allocator's links, never share a byte.
THEOREM NeverOverlap == Abstract!Spec => []Abstract!NoOverlap
<1>1. IInv => Abstract!NoOverlap
  BY DEF IInv
<1> QED
  BY <1>1, Inductive, PTL

\* Every byte below the heap top is in some block: free() gives all of it
\* back, in whatever order it is called.
THEOREM NeverLeaks == Abstract!Spec => []Abstract!NoLeak
<1>1. IInv => Abstract!NoLeak
  BY DEF IInv
<1> QED
  BY <1>1, Inductive, PTL

\* No two free blocks touch and none touches the top, so a request fails
\* only when no contiguous run of free memory is large enough.
THEOREM AlwaysCoalesced == Abstract!Spec => []Abstract!Coalesced
<1>1. IInv => Abstract!Coalesced
  BY DEF IInv
<1> QED
  BY <1>1, Inductive, PTL


-----------------------------------------------------------------------------
(* Induction over the naturals, and the recursion over a list.             *)

\* What holds of 0 and passes from each number to the next holds of all.
LEMMA NatSetInduction ==
    ASSUME NEW S, 0 \in S, \A n \in Nat : n \in S => n + 1 \in S
    PROVE  Nat \subseteq S
<1> PICK R : R = OpToRel(<, Nat)
  OBVIOUS
<1>1. R = {ss \in Nat \X Nat : ss[1] < ss[2]}
  BY DEF OpToRel
<1>2. IsWellFoundedOn(R, Nat)
  BY NatLessThanWellFounded
<1> PICK T : T = {n \in Nat : n \notin S}
  OBVIOUS
<1> SUFFICES ASSUME T # {} PROVE FALSE
  OBVIOUS
<1>3. PICK x \in T : \A y \in T : ~ (<<y, x>> \in R)
  BY <1>2, WFMin
<1>4. x \in Nat /\ x # 0 /\ x \notin S
  OBVIOUS
<1>5. x - 1 \in Nat /\ x - 1 < x /\ (x - 1) + 1 = x
  BY ONLY <1>4
<1>6. <<x - 1, x>> \in R
  BY <1>1, <1>4, <1>5
<1>7. x - 1 \notin S
  BY <1>4, <1>5
<1> QED
  BY <1>3, <1>5, <1>6, <1>7

\* A set of naturals that is not empty has a least member.
LEMMA HasLeast ==
    ASSUME NEW T \in SUBSET Nat, T # {}
    PROVE  \E m \in T : \A y \in T : m <= y
<1> PICK S : S = {n \in Nat : \A y \in T : n <= y}
  OBVIOUS
<1> SUFFICES ASSUME \A m \in T : m \notin S PROVE FALSE
  OBVIOUS
<1>1. 0 \in S
  OBVIOUS
<1>2. ASSUME NEW n \in Nat, n \in S PROVE n + 1 \in S
  <2>1. n \notin T
    BY <1>2
  <2>2. \A y \in T : n <= y /\ n # y /\ y \in Nat
    BY <1>2, <2>1
  <2>3. \A y \in T : n + 1 <= y
    BY <2>2
  <2> QED
    BY <2>3
<1>3. Nat \subseteq S
  BY <1>1, <1>2, NatSetInduction
<1> QED
  BY <1>3

-----------------------------------------------------------------------------
(* The order of the list.                                                  *)

\* n is the first address of S behind a, and p the last one before it.
NextIn(S, a, n) == IF n = Null THEN \A x \in S : x <= a
                   ELSE n \in S /\ a < n /\ \A x \in S : x <= a \/ n <= x
PrevIn(S, a, p) == IF p = Null THEN \A x \in S : a <= x
                   ELSE p \in S /\ p < a /\ \A x \in S : a <= x \/ x <= p

FreeBlock == [size : Nat, next : Nat, prev : Nat]

Linked(b, first, last) ==
    /\ DOMAIN b \subseteq 1 .. Word - 1
    /\ \A a \in DOMAIN b : /\ b[a] \in FreeBlock /\ b[a].size > 0
                           /\ NextIn(DOMAIN b, a, b[a].next)
                           /\ PrevIn(DOMAIN b, a, b[a].prev)
    /\ NextIn(DOMAIN b, Null, first)
    /\ PrevIn(DOMAIN b, Word, last)

\* A linked list is sound in the sense of the runs.
LEMMA LinkedSound ==
    ASSUME Linked(blk, heapfirst, heaplast)
    PROVE  ListSound
<1>1. Word \in Nat /\ DOMAIN blk \subseteq 1 .. Word - 1
  BY HeapAssumption DEF Linked
<1>2. ASSUME NEW T \in SUBSET (1 .. Word - 1), NEW n, n = Null => T = {},
             n # Null => n \in T /\ \A x \in T : n <= x
      PROVE  Least(T) = n
  <2>1. CASE n = Null
    BY <1>2, <2>1 DEF Least
  <2>2. CASE n # Null
    <3>1. n \in T /\ (\A x \in T : n <= x) /\ T \subseteq Nat
      BY <1>1, <1>2, <2>2
    <3>2. PICK m : m = CHOOSE x \in T : \A y \in T : x <= y
      OBVIOUS
    <3>3. m \in T /\ \A y \in T : m <= y
      BY <3>1, <3>2
    <3>4. m = n
      BY <3>1, <3>3
    <3> QED
      BY <3>1, <3>2, <3>4 DEF Least
  <2> QED
    BY <2>1, <2>2
<1>3. ASSUME NEW T \in SUBSET (1 .. Word - 1), NEW n, n = Null => T = {},
             n # Null => n \in T /\ \A x \in T : x <= n
      PROVE  Greatest(T) = n
  <2>1. CASE n = Null
    BY <1>3, <2>1 DEF Greatest
  <2>2. CASE n # Null
    <3>1. n \in T /\ (\A x \in T : x <= n) /\ T \subseteq Nat
      BY <1>1, <1>3, <2>2
    <3>2. PICK m : m = CHOOSE x \in T : \A y \in T : y <= x
      OBVIOUS
    <3>3. m \in T /\ \A y \in T : y <= m
      BY <3>1, <3>2
    <3>4. m = n
      BY <3>1, <3>3
    <3> QED
      BY <3>1, <3>2, <3>4 DEF Greatest
  <2> QED
    BY <2>1, <2>2
<1>4. ASSUME NEW a \in 0 .. Word, NEW n, NextIn(DOMAIN blk, a, n)
      PROVE  Least({x \in DOMAIN blk : x > a}) = n
  <2> PICK T : T = {x \in DOMAIN blk : x > a}
    OBVIOUS
  <2>1. T \in SUBSET (1 .. Word - 1)
    BY <1>1
  <2>2. n = Null => T = {}
    BY <1>1, <1>4 DEF NextIn
  <2>3. n # Null => n \in T /\ \A x \in T : n <= x
    BY <1>1, <1>4 DEF NextIn
  <2> QED
    BY <1>2, <2>1, <2>2, <2>3
<1>5. ASSUME NEW a \in 0 .. Word, NEW p, PrevIn(DOMAIN blk, a, p)
      PROVE  Greatest({x \in DOMAIN blk : x < a}) = p
  <2> PICK T : T = {x \in DOMAIN blk : x < a}
    OBVIOUS
  <2>1. T \in SUBSET (1 .. Word - 1)
    BY <1>1
  <2>2. p = Null => T = {}
    BY <1>1, <1>5 DEF PrevIn
  <2>3. p # Null => p \in T /\ \A x \in T : x <= p
    BY <1>1, <1>5 DEF PrevIn
  <2> QED
    BY <1>3, <2>1, <2>2, <2>3
<1>6. \A a \in DOMAIN blk : a \in 0 .. Word
  BY <1>1
<1>7. Null \in 0 .. Word /\ Word \in 0 .. Word
  BY <1>1 DEF Null
<1>8. {x \in DOMAIN blk : x > Null} = DOMAIN blk /\ {x \in DOMAIN blk : x < Word} = DOMAIN blk
  <2>1. \A x \in DOMAIN blk : x > Null /\ x < Word
    BY <1>1 DEF Null
  <2> QED
    BY <2>1
<1>9. heapfirst = Least(DOMAIN blk)
  BY <1>4, <1>7, <1>8 DEF Linked
<1>10. heaplast = Greatest(DOMAIN blk)
  BY <1>5, <1>7, <1>8 DEF Linked
<1> QED
  BY <1>4, <1>5, <1>6, <1>9, <1>10 DEF Linked, ListSound


\* A set of words that is not empty has a greatest member.
LEMMA HasGreatest ==
    ASSUME NEW T \in SUBSET (1 .. Word - 1), T # {}
    PROVE  \E m \in T : \A y \in T : y <= m
<1>1. Word \in Nat /\ T \subseteq Nat /\ \A y \in T : Word - y \in Nat
  BY HeapAssumption
<1> PICK S : S = {Word - y : y \in T}
  OBVIOUS
<1>2. S \in SUBSET Nat /\ S # {}
  BY <1>1
<1>3. PICK m \in S : \A y \in S : m <= y
  BY <1>2, HasLeast
<1>4. PICK k \in T : m = Word - k
  BY <1>3
<1>5. ASSUME NEW y \in T PROVE y <= k
  <2>1. Word - y \in S
    OBVIOUS
  <2>2. Word - k <= Word - y
    BY <2>1, <1>3, <1>4
  <2> QED
    BY <2>2, <1>1
<1> QED
  BY <1>5

\* What malloc's search returns is Null or a block of the list with room for
\* what it looks for, and it is Null only if no block has room.
LEMMA FirstFitSound ==
    ASSUME Linked(blk, heapfirst, heaplast), NEW t \in Nat
    PROVE  /\ FirstFit(t) \in Nodes
           /\ FirstFit(t) # Null => blk[FirstFit(t)].size >= t
           /\ FirstFit(t) = Null => \A a \in DOMAIN blk : blk[a].size < t
<1>1. /\ Word \in Nat /\ DOMAIN blk \subseteq 1 .. Word - 1 /\ Null = 0
      /\ \A a \in DOMAIN blk : a \in Nat /\ a > 0 /\ a # Null /\ blk[a].size \in Nat
  BY HeapAssumption DEF Linked, Null, FreeBlock
<1>2. \A a \in DOMAIN blk : /\ blk[a].next \in Nodes
                            /\ blk[a].next = Null => \A x \in DOMAIN blk : x <= a
                            /\ blk[a].next # Null =>
                                  /\ a < blk[a].next
                                  /\ \A x \in DOMAIN blk : x <= a \/ blk[a].next <= x
  BY DEF Linked, NextIn, Nodes
<1>3. /\ heapfirst \in Nodes
      /\ heapfirst = Null => DOMAIN blk = {}
      /\ heapfirst # Null => \A x \in DOMAIN blk : heapfirst <= x
  BY <1>1 DEF Linked, NextIn, Nodes
<1>a. PICK Fits : Fits = [a \in DOMAIN blk |-> {x \in DOMAIN blk : a <= x /\ blk[x].size >= t}]
  OBVIOUS
<1>b. PICK g : g = [a \in Nodes |-> IF a = Null THEN Null
                                  ELSE IF Fits[a] = {} THEN Null
                                  ELSE CHOOSE m \in Fits[a] : \A y \in Fits[a] : m <= y]
  OBVIOUS
<1>c. g = [a \in Nodes |-> g[a]] /\ g[Null] = Null
  BY <1>b DEF Nodes
<1>d. ASSUME NEW a \in DOMAIN blk
      PROVE  g[a] = IF Fits[a] = {} THEN Null
                    ELSE CHOOSE m \in Fits[a] : \A y \in Fits[a] : m <= y
  BY <1>1, <1>b DEF Nodes
<1>e. ASSUME NEW a \in DOMAIN blk
      PROVE  Fits[a] = {x \in DOMAIN blk : a <= x /\ blk[x].size >= t}
  BY <1>a
<1>4. ASSUME NEW a \in DOMAIN blk, blk[a].size >= t PROVE g[a] = a
  <2>1. a \in Fits[a] /\ Fits[a] # {} /\ \A y \in Fits[a] : a <= y /\ y \in Nat
    BY <1>1, <1>4, <1>e
  <2>2. PICK m : m = CHOOSE k \in Fits[a] : \A y \in Fits[a] : k <= y
    OBVIOUS
  <2>3. m \in Fits[a] /\ \A y \in Fits[a] : m <= y
    BY <2>1, <2>2
  <2>4. m = a
    BY <2>1, <2>3, <1>1
  <2>5. g[a] = m
    BY <2>1, <2>2, <1>d
  <2> QED
    BY <2>4, <2>5
<1>5. ASSUME NEW a \in DOMAIN blk, ~ (blk[a].size >= t) PROVE g[a] = g[blk[a].next]
  <2>1. CASE blk[a].next = Null
    <3>1. Fits[a] = {}
      BY <1>1, <1>2, <1>5, <1>e, <2>1
    <3> QED
      BY <3>1, <2>1, <1>c, <1>d
  <2>2. CASE blk[a].next # Null
    <3>1. blk[a].next \in DOMAIN blk /\ Fits[a] = Fits[blk[a].next]
      <4>1. blk[a].next \in DOMAIN blk
        BY <1>2, <2>2 DEF Nodes
      <4>2. \A x \in DOMAIN blk : x >= a /\ blk[x].size >= t <=> x >= blk[a].next /\ blk[x].size >= t
        BY <4>1, <1>1, <1>2, <1>5, <2>2
      <4> QED
        BY <4>1, <4>2, <1>e
    <3> QED
      BY <3>1, <1>d
  <2> QED
    BY <2>1, <2>2
<1>6. g = [a \in Nodes |-> IF a = Null THEN Null
                           ELSE IF blk[a].size >= t THEN a
                           ELSE g[blk[a].next]]
  <2>1. \A a \in Nodes : g[a] = IF a = Null THEN Null
                                ELSE IF blk[a].size >= t THEN a
                                ELSE g[blk[a].next]
    BY <1>1, <1>4, <1>5, <1>c DEF Nodes
  <2> QED
    BY <2>1, <1>c
<1>7. PICK h : /\ h = [a \in Nodes |-> IF a = Null THEN Null
                                       ELSE IF blk[a].size >= t THEN a
                                       ELSE h[blk[a].next]]
               /\ FirstFit(t) = h[heapfirst]
  BY <1>6 DEF FirstFit
<1>8. \A a \in DOMAIN blk : h[a] = IF blk[a].size >= t THEN a ELSE h[blk[a].next]
  BY <1>1, <1>7 DEF Nodes
<1>9. h[Null] = Null
  BY <1>7 DEF Nodes
<1>f. PICK Good : Good = {a \in DOMAIN blk :
          /\ h[a] \in Nodes
          /\ h[a] # Null => blk[h[a]].size >= t
          /\ h[a] = Null => \A x \in DOMAIN blk : x >= a => blk[x].size < t}
  OBVIOUS
<1>T. PICK T : T = DOMAIN blk \ Good
  OBVIOUS
<1>10. T = {}
  <2> SUFFICES ASSUME T # {} PROVE FALSE
    OBVIOUS
  <2>1. T \in SUBSET (1 .. Word - 1)
    BY <1>1, <1>T
  <2>2. PICK a \in T : \A y \in T : y <= a
    BY <2>1, HasGreatest
  <2>3. a \in DOMAIN blk /\ a \in Nat
    BY <1>1, <1>T
  <2>7. SUFFICES /\ h[a] \in Nodes
                 /\ h[a] # Null => blk[h[a]].size >= t
                 /\ h[a] = Null => \A x \in DOMAIN blk : x >= a => blk[x].size < t
    BY <2>3, <1>f, <1>T
  <2>4. CASE blk[a].size >= t
    BY <2>3, <2>4, <1>1, <1>8 DEF Nodes
  <2>5. CASE blk[a].size < t /\ blk[a].next = Null
    <3>1. h[a] = Null
      BY <2>3, <2>5, <1>1, <1>8, <1>9
    <3>2. \A x \in DOMAIN blk : x >= a => blk[x].size < t
      BY <2>3, <2>5, <1>1, <1>2
    <3> QED
      BY <2>3, <3>1, <3>2 DEF Nodes
  <2>6. CASE blk[a].size < t /\ blk[a].next # Null
    <3>1. PICK n : n = blk[a].next
      OBVIOUS
    <3>2. n \in DOMAIN blk /\ a < n /\ \A x \in DOMAIN blk : x <= a \/ n <= x
      BY <2>3, <2>6, <3>1, <1>2 DEF Nodes
    <3>3. n \notin T
      BY <2>2, <2>3, <3>2, <1>1
    <3>4. h[a] = h[n]
      BY <2>3, <2>6, <3>1, <1>1, <1>8
    <3>5. \A x \in DOMAIN blk : x >= a => x = a \/ x >= n
      BY <2>3, <3>2, <1>1
    <3> QED
      <4>1. /\ h[n] \in Nodes
            /\ h[n] # Null => blk[h[n]].size >= t
            /\ h[n] = Null => \A x \in DOMAIN blk : x >= n => blk[x].size < t
        BY <3>2, <3>3, <1>f, <1>T
      <4> QED
        BY <2>6, <3>4, <3>5, <4>1
  <2> QED
    BY <2>3, <2>4, <2>5, <2>6, <1>1
<1>g. \A a \in DOMAIN blk : /\ h[a] \in Nodes
                            /\ h[a] # Null => blk[h[a]].size >= t
                            /\ h[a] = Null => \A x \in DOMAIN blk : x >= a => blk[x].size < t
  BY <1>10, <1>f, <1>T
<1>11. CASE heapfirst = Null
  BY <1>3, <1>7, <1>9, <1>11 DEF Nodes
<1>12. CASE heapfirst # Null
  <2>1. heapfirst \in DOMAIN blk
    BY <1>3, <1>12 DEF Nodes
  <2>2. \A x \in DOMAIN blk : x >= heapfirst
    BY <1>1, <1>3, <1>12, <2>1
  <2> QED
    <3>1. PICK r : r = FirstFit(t) /\ r = h[heapfirst]
      BY <1>7
    <3>2. /\ r \in Nodes
          /\ r # Null => blk[r].size >= t
          /\ r = Null => \A x \in DOMAIN blk : x >= heapfirst => blk[x].size < t
      <4>1. /\ h[heapfirst] \in Nodes
            /\ h[heapfirst] # Null => blk[h[heapfirst]].size >= t
            /\ h[heapfirst] = Null => \A x \in DOMAIN blk : x >= heapfirst => blk[x].size < t
        BY <2>1, <1>g
      <4> QED
        BY <4>1, <3>1
    <3>3. r = Null => \A x \in DOMAIN blk : blk[x].size < t
      BY <2>2, <3>2
    <3> QED
      BY <3>1, <3>2, <3>3
<1> QED
  BY <1>11, <1>12

\* heapadd's walk stops at the last block below the address it enters, and
\* what follows that block is the first one above.
LEMMA PlaceSound ==
    ASSUME Linked(blk, heapfirst, heaplast), NEW f \in 1 .. Word - 1, f \notin DOMAIN blk
    PROVE  /\ PrevIn(DOMAIN blk, f, Place(f))
           /\ NextIn(DOMAIN blk, f, NextOf(Place(f)))
           /\ Place(f) \in Nodes /\ NextOf(Place(f)) \in Nodes
<1>1. /\ Word \in Nat /\ DOMAIN blk \subseteq 1 .. Word - 1 /\ Null = 0 /\ f \in Nat /\ f > 0
      /\ \A a \in DOMAIN blk : a \in Nat /\ a > 0 /\ a # Null /\ a # f
  BY HeapAssumption DEF Linked, Null
<1>2. \A a \in DOMAIN blk : /\ blk[a].next \in Nodes
                            /\ blk[a].next = Null => \A x \in DOMAIN blk : x <= a
                            /\ blk[a].next # Null =>
                                  /\ a < blk[a].next
                                  /\ \A x \in DOMAIN blk : x <= a \/ blk[a].next <= x
  BY DEF Linked, NextIn, Nodes
<1>3. /\ heapfirst \in Nodes
      /\ heapfirst = Null => DOMAIN blk = {}
      /\ heapfirst # Null => \A x \in DOMAIN blk : heapfirst <= x
  <2>1. NextIn(DOMAIN blk, Null, heapfirst)
    BY DEF Linked
  <2>2. CASE heapfirst = Null
    <3>1. \A x \in DOMAIN blk : x <= Null
      BY <2>1, <2>2 DEF NextIn
    <3>2. ASSUME NEW x \in DOMAIN blk PROVE FALSE
      BY <3>1, <1>1
    <3> QED
      BY <2>2, <3>2 DEF Nodes
  <2>3. CASE heapfirst # Null
    <3>1. heapfirst \in DOMAIN blk /\ \A x \in DOMAIN blk : x <= Null \/ heapfirst <= x
      BY <2>1, <2>3 DEF NextIn
    <3> QED
      BY <2>3, <3>1, <1>1 DEF Nodes
  <2> QED
    BY <2>2, <2>3
<1>4. ASSUME NEW l \in Nodes
      PROVE  /\ l \in Nat /\ NextOf(l) \in Nodes /\ NextOf(l) \in Nat
             /\ NextOf(l) = Null => \A x \in DOMAIN blk : x <= l
             /\ NextOf(l) # Null => /\ NextOf(l) \in DOMAIN blk /\ l < NextOf(l)
                                    /\ \A x \in DOMAIN blk : x <= l \/ NextOf(l) <= x
  <2>1. CASE l = Null
    BY <2>1, <1>1, <1>3 DEF NextOf, Nodes
  <2>2. CASE l # Null
    <3>1. l \in DOMAIN blk /\ NextOf(l) = blk[l].next
      BY <2>2 DEF NextOf, Nodes
    <3> QED
      BY <3>1, <1>1, <1>2 DEF Nodes
  <2> QED
    BY <2>1, <2>2
\* The blocks below f, and the last of them.
<1>a. PICK B : B = {x \in DOMAIN blk : x <= f}
  OBVIOUS
<1>b. PICK m : m = CHOOSE y \in B : \A x \in B : x <= y
  OBVIOUS
<1>5. B # {} => m \in B /\ \A x \in B : x <= m
  <2>1. SUFFICES ASSUME B # {} PROVE m \in B /\ \A x \in B : x <= m
    OBVIOUS
  <2>2. B \in SUBSET (1 .. Word - 1)
    BY <1>1, <1>a
  <2>3. \E y \in B : \A x \in B : x <= y
    BY <2>1, <2>2, HasGreatest
  <2> QED
    BY <2>3, <1>b
<1>c. PICK g : g = [l \in Nodes |-> IF NextOf(l) = Null \/ NextOf(l) > f THEN l ELSE m]
  OBVIOUS
<1>6. g = [l \in Nodes |-> IF NextOf(l) = Null \/ NextOf(l) > f THEN l ELSE g[NextOf(l)]]
  <2>1. ASSUME NEW l \in Nodes, ~ (NextOf(l) = Null \/ NextOf(l) > f)
        PROVE  g[NextOf(l)] = m
    <3>1. PICK n : n = NextOf(l)
      OBVIOUS
    <3>2. n \in DOMAIN blk /\ n \in Nodes /\ n <= f /\ n \in B
      BY <2>1, <3>1, <1>1, <1>4, <1>a
    <3>3. m \in B /\ m \in DOMAIN blk /\ m <= f /\ \A x \in B : x <= m
      BY <3>2, <1>5, <1>a
    <3>4. CASE NextOf(n) = Null \/ NextOf(n) > f
      <4>1. \A x \in DOMAIN blk : x <= n \/ x > f
        BY <3>2, <3>4, <1>1, <1>4
      <4>2. m = n
        BY <3>2, <3>3, <4>1, <1>1
      <4> QED
        BY <3>1, <3>2, <3>4, <4>2, <1>c
    <3>5. CASE ~ (NextOf(n) = Null \/ NextOf(n) > f)
      BY <3>1, <3>2, <3>5, <1>c
    <3> QED
      BY <3>4, <3>5
  <2>2. \A l \in Nodes : g[l] = IF NextOf(l) = Null \/ NextOf(l) > f THEN l ELSE g[NextOf(l)]
    BY <2>1, <1>c
  <2>3. g = [l \in Nodes |-> g[l]]
    BY <1>c
  <2> QED
    BY <2>2, <2>3
<1>7. PICK h : /\ h = [l \in Nodes |-> IF NextOf(l) = Null \/ NextOf(l) > f THEN l
                                       ELSE h[NextOf(l)]]
               /\ Place(f) = h[Null]
  BY <1>6 DEF Place
<1>8. \A l \in Nodes : h[l] = IF NextOf(l) = Null \/ NextOf(l) > f THEN l ELSE h[NextOf(l)]
  BY <1>7
\* Wherever the walk starts below f it stops at the last block below f.
<1>d. PICK Good : Good = {l \in Nodes : /\ h[l] \in Nodes /\ h[l] < f
                                        /\ NextOf(h[l]) = Null \/ NextOf(h[l]) > f}
  OBVIOUS
<1>9. ASSUME NEW l \in Nodes, l < f, NextOf(l) \in Good \/ NextOf(l) = Null \/ NextOf(l) > f
      PROVE  l \in Good
  <2>1. CASE NextOf(l) = Null \/ NextOf(l) > f
    <3>1. h[l] = l
      BY <2>1, <1>8
    <3> QED
      BY <2>1, <3>1, <1>9, <1>d
  <2>2. CASE ~ (NextOf(l) = Null \/ NextOf(l) > f)
    <3>1. h[l] = h[NextOf(l)] /\ NextOf(l) \in Good
      BY <2>2, <1>8, <1>9
    <3> QED
      BY <3>1, <1>d
  <2> QED
    BY <2>1, <2>2
<1>e. PICK T : T = {l \in DOMAIN blk : l < f /\ l \notin Good}
  OBVIOUS
<1>10. T = {}
  <2> SUFFICES ASSUME T # {} PROVE FALSE
    OBVIOUS
  <2>1. T \in SUBSET (1 .. Word - 1)
    BY <1>1, <1>e
  <2>2. PICK a \in T : \A y \in T : y <= a
    BY <2>1, HasGreatest
  <2>3. a \in DOMAIN blk /\ a \in Nodes /\ a \in Nat /\ a < f /\ a \notin Good
    BY <1>1, <1>e DEF Nodes
  <2>4. CASE NextOf(a) # Null /\ NextOf(a) <= f
    <3>1. NextOf(a) \in DOMAIN blk /\ a < NextOf(a) /\ NextOf(a) < f
      BY <2>3, <2>4, <1>1, <1>4
    <3>2. NextOf(a) \in Good
      BY <2>2, <2>3, <3>1, <1>1, <1>e
    <3> QED
      BY <3>2, <2>3, <1>9
  <2> QED
    BY <2>3, <2>4, <1>1, <1>4, <1>9
<1>11. Null \in Good
  <2>1. Null \in Nodes /\ Null < f
    BY <1>1 DEF Nodes
  <2>2. CASE NextOf(Null) # Null /\ NextOf(Null) <= f
    <3>1. NextOf(Null) \in DOMAIN blk /\ NextOf(Null) < f
      BY <2>1, <2>2, <1>1, <1>4
    <3>2. NextOf(Null) \in Good
      BY <3>1, <1>10, <1>e
    <3> QED
      BY <2>1, <3>2, <1>9
  <2>3. NextOf(Null) \in Nat
    BY <2>1, <1>4
  <2> QED
    BY <2>1, <2>2, <2>3, <1>1, <1>9
<1>12. PICK l : l = Place(f)
  OBVIOUS
<1>13. l \in Nodes /\ l < f /\ (NextOf(l) = Null \/ NextOf(l) > f)
  BY <1>7, <1>11, <1>12, <1>d
<1>14. PrevIn(DOMAIN blk, f, l)
  <2>1. \A x \in DOMAIN blk : x <= l \/ x > f
    BY <1>13, <1>1, <1>4
  <2> QED
    BY <2>1, <1>13, <1>1 DEF PrevIn, Nodes
<1>15. NextIn(DOMAIN blk, f, NextOf(l))
  <2>1. \A x \in DOMAIN blk : x <= l \/ (NextOf(l) # Null /\ NextOf(l) <= x)
    BY <1>13, <1>4
  <2>2. \A x \in DOMAIN blk : x <= f \/ (NextOf(l) # Null /\ NextOf(l) <= x)
    BY <2>1, <1>13, <1>1, <1>4
  <2> QED
    BY <2>2, <1>13, <1>1, <1>4 DEF NextIn
<1> QED
  BY <1>12, <1>13, <1>14, <1>15, <1>4


-----------------------------------------------------------------------------
(* Edits of the list.                                                      *)

\* What a linked list says of each of its blocks, and of its ends.
LEMMA LinkedFacts ==
    ASSUME NEW b, NEW first, NEW last, Linked(b, first, last)
    PROVE  /\ Word \in Nat /\ Null = 0 /\ \A x \in DOMAIN b : x \in Nat /\ x > 0 /\ x < Word
           /\ \A x \in DOMAIN b : /\ b[x] \in FreeBlock /\ b[x].size > 0
                                  /\ b[x].next \in DOMAIN b \cup {Null}
                                  /\ b[x].prev \in DOMAIN b \cup {Null}
                                  /\ b[x].next \in Nat /\ b[x].prev \in Nat /\ b[x].size \in Nat
                                  /\ NextIn(DOMAIN b, x, b[x].next)
                                  /\ PrevIn(DOMAIN b, x, b[x].prev)
           /\ first \in DOMAIN b \cup {Null} /\ last \in DOMAIN b \cup {Null}
           /\ NextIn(DOMAIN b, Null, first) /\ PrevIn(DOMAIN b, Word, last)
<1>1. Word \in Nat /\ Null = 0 /\ \A x \in DOMAIN b : x \in Nat /\ x > 0 /\ x < Word
  BY HeapAssumption DEF Linked, Null
<1>2. ASSUME NEW x \in DOMAIN b
      PROVE  /\ b[x] \in FreeBlock /\ b[x].size > 0
             /\ NextIn(DOMAIN b, x, b[x].next)
             /\ PrevIn(DOMAIN b, x, b[x].prev)
  BY DEF Linked
<1>3. ASSUME NEW x \in DOMAIN b
      PROVE  b[x].next \in Nat /\ b[x].prev \in Nat /\ b[x].size \in Nat
  BY <1>2 DEF FreeBlock
<1>4. NextIn(DOMAIN b, Null, first) /\ PrevIn(DOMAIN b, Word, last)
  BY DEF Linked
<1>5. \A a, n : NextIn(DOMAIN b, a, n) \/ PrevIn(DOMAIN b, a, n) => n \in DOMAIN b \cup {Null}
  BY DEF NextIn, PrevIn
<1> QED
  BY <1>1, <1>2, <1>3, <1>4, <1>5

\* Taking a block out: its neighbours are linked to each other.
LEMMA RemoveLinked ==
    ASSUME NEW b, NEW first, NEW last, Linked(b, first, last),
           NEW a \in DOMAIN b, NEW p, NEW n, p = b[a].prev, n = b[a].next,
           NEW c, DOMAIN c = DOMAIN b \ {a},
           \A x \in DOMAIN c : /\ c[x] \in FreeBlock /\ c[x].size > 0
                               /\ c[x].next = IF x = p THEN n ELSE b[x].next
                               /\ c[x].prev = IF x = n THEN p ELSE b[x].prev
    PROVE  Linked(c, IF p = Null THEN n ELSE first, IF n = Null THEN p ELSE last)
<1> PICK D : D = DOMAIN b
  OBVIOUS
<1>1. /\ Word \in Nat /\ Null = 0 /\ \A x \in D : x \in Nat /\ x > 0 /\ x < Word
      /\ \A x \in D : /\ b[x].next \in Nat /\ b[x].prev \in Nat
                      /\ NextIn(D, x, b[x].next) /\ PrevIn(D, x, b[x].prev)
      /\ NextIn(D, Null, first) /\ PrevIn(D, Word, last)
  BY LinkedFacts
<1>2. a \in D /\ a \in Nat /\ a > 0 /\ a < Word /\ NextIn(D, a, n) /\ PrevIn(D, a, p) /\ n \in Nat /\ p \in Nat
  BY <1>1
<1>3. /\ n = Null => \A x \in D : x <= a
      /\ n # Null => n \in D /\ a < n /\ \A x \in D : x <= a \/ n <= x
      /\ p = Null => \A x \in D : a <= x
      /\ p # Null => p \in D /\ p < a /\ \A x \in D : a <= x \/ x <= p
  BY <1>2 DEF NextIn, PrevIn
\* What followed, or was followed by, the block now has its neighbour.
<1>4. ASSUME NEW x \in Nat, NEW y \in Nat, x # a, NextIn(D, x, y)
      PROVE  NextIn(D \ {a}, x, IF y = a THEN n ELSE y)
  <2>1. CASE y = a
    <3>1. x < a /\ \A z \in D : z <= x \/ a <= z
      BY <1>4, <2>1, <1>1, <1>2 DEF NextIn
    <3>2. CASE n = Null
      <4>1. \A z \in D \ {a} : z <= x
        BY <3>1, <3>2, <1>1, <1>2, <1>3
      <4> QED
        BY <2>1, <3>2, <4>1 DEF NextIn
    <3>3. CASE n # Null
      <4>1. n \in D \ {a} /\ x < n /\ \A z \in D \ {a} : z <= x \/ n <= z
        BY <3>1, <3>3, <1>1, <1>2, <1>3
      <4> QED
        BY <2>1, <3>3, <4>1 DEF NextIn
    <3> QED
      BY <3>2, <3>3
  <2>2. CASE y # a
    BY <1>4, <2>2 DEF NextIn
  <2> QED
    BY <2>1, <2>2
<1>5. ASSUME NEW x \in Nat, NEW y \in Nat, x # a, PrevIn(D, x, y)
      PROVE  PrevIn(D \ {a}, x, IF y = a THEN p ELSE y)
  <2>1. CASE y = a
    <3>1. a < x /\ \A z \in D : x <= z \/ z <= a
      BY <1>5, <2>1, <1>1, <1>2 DEF PrevIn
    <3>2. CASE p = Null
      <4>1. \A z \in D \ {a} : x <= z
        BY <3>1, <3>2, <1>1, <1>2, <1>3
      <4> QED
        BY <2>1, <3>2, <4>1 DEF PrevIn
    <3>3. CASE p # Null
      <4>1. p \in D \ {a} /\ p < x /\ \A z \in D \ {a} : x <= z \/ z <= p
        BY <3>1, <3>3, <1>1, <1>2, <1>3
      <4> QED
        BY <2>1, <3>3, <4>1 DEF PrevIn
    <3> QED
      BY <3>2, <3>3
  <2> QED
    BY <1>5, <2>1 DEF PrevIn
\* Only the block's neighbours link to it.
<1>6. ASSUME NEW x \in D, x # a
      PROVE  (b[x].next = a <=> x = p) /\ (b[x].prev = a <=> x = n)
  <2>1. b[x].next = a <=> x = p
    <3>1. /\ b[x].next = Null => \A z \in D : z <= x
          /\ b[x].next # Null => b[x].next \in D /\ x < b[x].next
                                 /\ \A z \in D : z <= x \/ b[x].next <= z
      BY <1>1 DEF NextIn
    <3>2. x \in Nat /\ x > 0
      BY <1>1
    <3>3. b[x].next = a => x = p
      BY <3>1, <3>2, <1>1, <1>2, <1>3, <1>6
    <3>4. x = p => b[x].next = a
      BY <3>1, <3>2, <1>1, <1>2, <1>3, <1>6
    <3> QED
      BY <3>3, <3>4
  <2>2. b[x].prev = a <=> x = n
    <3>1. /\ b[x].prev = Null => \A z \in D : x <= z
          /\ b[x].prev # Null => b[x].prev \in D /\ b[x].prev < x
                                 /\ \A z \in D : x <= z \/ z <= b[x].prev
      BY <1>1 DEF PrevIn
    <3>2. x \in Nat /\ x > 0
      BY <1>1
    <3>3. b[x].prev = a => x = n
      BY <3>1, <3>2, <1>1, <1>2, <1>3, <1>6
    <3>4. x = n => b[x].prev = a
      BY <3>1, <3>2, <1>1, <1>2, <1>3, <1>6
    <3> QED
      BY <3>3, <3>4
  <2> QED
    BY <2>1, <2>2
<1>7. (first = a <=> p = Null) /\ (last = a <=> n = Null)
  <2>1. /\ first = Null => \A z \in D : z <= Null
        /\ first # Null => first \in D /\ \A z \in D : z <= Null \/ first <= z
        /\ last = Null => \A z \in D : Word <= z
        /\ last # Null => last \in D /\ \A z \in D : Word <= z \/ z <= last
    BY <1>1 DEF NextIn, PrevIn
  <2>2. first \in D /\ last \in D /\ \A z \in D : first <= z /\ z <= last
    BY <2>1, <1>1, <1>2
  <2>3. first = a <=> p = Null
    BY <2>2, <1>1, <1>2, <1>3
  <2>4. last = a <=> n = Null
    BY <2>2, <1>1, <1>2, <1>3
  <2> QED
    BY <2>3, <2>4
<1>8. ASSUME NEW x \in DOMAIN c
      PROVE  NextIn(DOMAIN c, x, c[x].next) /\ PrevIn(DOMAIN c, x, c[x].prev)
  <2>1. x \in D /\ x # a /\ x \in Nat /\ b[x].next \in Nat /\ b[x].prev \in Nat
    BY <1>1
  <2>2. c[x].next = (IF b[x].next = a THEN n ELSE b[x].next) /\ c[x].prev = (IF b[x].prev = a THEN p ELSE b[x].prev)
    BY <2>1, <1>6
  <2>3. NextIn(D, x, b[x].next) /\ PrevIn(D, x, b[x].prev)
    BY <2>1, <1>1
  <2>4. NextIn(D \ {a}, x, c[x].next)
    BY <2>1, <2>2, <2>3, <1>4
  <2>5. PrevIn(D \ {a}, x, c[x].prev)
    BY <2>1, <2>2, <2>3, <1>5
  <2> QED
    BY <2>4, <2>5
<1>9. first \in Nat /\ last \in Nat /\ Null \in Nat /\ Null # a /\ Word # a
  BY <1>1, <1>2, LinkedFacts
<1>10. NextIn(DOMAIN c, Null, IF p = Null THEN n ELSE first)
  BY <1>1, <1>4, <1>7, <1>9
<1>11. PrevIn(DOMAIN c, Word, IF n = Null THEN p ELSE last)
  BY <1>1, <1>5, <1>7, <1>9
<1>12. DOMAIN c \subseteq 1 .. Word - 1
  BY DEF Linked
<1> QED
  BY <1>8, <1>10, <1>11, <1>12 DEF Linked

\* Entering a block between two neighbours.
LEMMA InsertLinked ==
    ASSUME NEW b, NEW first, NEW last, Linked(b, first, last),
           NEW f \in 1 .. Word - 1, f \notin DOMAIN b, NEW l, NEW r,
           PrevIn(DOMAIN b, f, l), NextIn(DOMAIN b, f, r),
           NEW c, DOMAIN c = DOMAIN b \cup {f},
           \A x \in DOMAIN c : c[x] \in FreeBlock /\ c[x].size > 0,
           c[f].next = r, c[f].prev = l,
           \A x \in DOMAIN b : /\ c[x].next = IF x = l THEN f ELSE b[x].next
                               /\ c[x].prev = IF x = r THEN f ELSE b[x].prev
    PROVE  Linked(c, IF l = Null THEN f ELSE first, IF r = Null THEN f ELSE last)
<1> PICK D : D = DOMAIN b
  OBVIOUS
<1>1. /\ Word \in Nat /\ Null = 0 /\ \A x \in D : x \in Nat /\ x > 0 /\ x < Word
      /\ \A x \in D : /\ b[x].next \in Nat /\ b[x].prev \in Nat
                      /\ NextIn(D, x, b[x].next) /\ PrevIn(D, x, b[x].prev)
      /\ NextIn(D, Null, first) /\ PrevIn(D, Word, last)
  BY LinkedFacts
<1>2. f \in Nat /\ f > 0 /\ f < Word /\ f \notin D
  BY <1>1
<1>3. /\ r = Null => \A x \in D : x <= f
      /\ r # Null => r \in D /\ f < r /\ \A x \in D : x <= f \/ r <= x
      /\ l = Null => \A x \in D : f <= x
      /\ l # Null => l \in D /\ l < f /\ \A x \in D : f <= x \/ x <= l
  BY DEF NextIn, PrevIn
<1>4. \A x \in D : (r # Null /\ r <= x) \/ (l # Null /\ x <= l)
  BY <1>1, <1>2, <1>3
<1>5. ASSUME NEW x \in Nat, NEW y \in Nat, x \in D \cup {Null}, NextIn(D, x, y)
      PROVE  NextIn(D \cup {f}, x, IF x = l THEN f ELSE y)
  <2>1. CASE x = l
    <3>1. x < f /\ \A z \in D : z <= x \/ f <= z
      BY <2>1, <1>1, <1>2, <1>3
    <3> QED
      BY <2>1, <3>1, <1>1, <1>2 DEF NextIn
  <2>2. CASE x # l /\ y = Null
    <3>1. \A z \in D : z <= x
      BY <1>5, <2>2 DEF NextIn
    <3>2. f <= x
      BY <2>2, <3>1, <1>1, <1>2, <1>3, <1>5
    <3> QED
      BY <2>2, <3>1, <3>2 DEF NextIn
  <2>3. CASE x # l /\ y # Null
    <3>1. y \in D /\ x < y /\ \A z \in D : z <= x \/ y <= z
      BY <1>5, <2>3 DEF NextIn
    <3>2. f <= x \/ y <= f
      <4>1. CASE l = Null
        BY <2>3, <4>1, <1>1, <1>2, <1>3, <1>5
      <4>2. CASE l # Null
        BY <2>3, <3>1, <4>2, <1>1, <1>2, <1>3, <1>5
      <4> QED
        BY <4>1, <4>2
    <3> QED
      BY <2>3, <3>1, <3>2 DEF NextIn
  <2> QED
    BY <2>1, <2>2, <2>3
<1>6. ASSUME NEW x \in Nat, NEW y \in Nat, x \in D \/ x = Word, PrevIn(D, x, y)
      PROVE  PrevIn(D \cup {f}, x, IF x = r \/ (x = Word /\ r = Null) THEN f ELSE y)
  <2>1. CASE x = r \/ (x = Word /\ r = Null)
    <3>1. f < x /\ \A z \in D : x <= z \/ z <= f
      BY <2>1, <1>1, <1>2, <1>3, <1>6
    <3> QED
      BY <2>1, <3>1, <1>1, <1>2 DEF PrevIn
  <2>2. CASE ~ (x = r \/ (x = Word /\ r = Null)) /\ y = Null
    <3>1. \A z \in D : x <= z
      BY <1>6, <2>2 DEF PrevIn
    <3>2. x <= f
      BY <2>2, <3>1, <1>1, <1>2, <1>3, <1>6
    <3> QED
      BY <2>2, <3>1, <3>2 DEF PrevIn
  <2>3. CASE ~ (x = r \/ (x = Word /\ r = Null)) /\ y # Null
    <3>1. y \in D /\ y < x /\ \A z \in D : x <= z \/ z <= y
      BY <1>6, <2>3 DEF PrevIn
    <3>2. x <= f \/ f <= y
      <4>1. CASE r = Null
        BY <2>3, <3>1, <4>1, <1>1, <1>2, <1>3, <1>6
      <4>2. CASE r # Null
        BY <2>3, <3>1, <4>2, <1>1, <1>2, <1>3, <1>6
      <4> QED
        BY <4>1, <4>2
    <3> QED
      BY <2>3, <3>1, <3>2 DEF PrevIn
  <2> QED
    BY <2>1, <2>2, <2>3
<1>7. ASSUME NEW x \in D
      PROVE  NextIn(DOMAIN c, x, c[x].next) /\ PrevIn(DOMAIN c, x, c[x].prev)
  <2>1. x \in Nat /\ x # Word /\ b[x].next \in Nat /\ b[x].prev \in Nat
    BY <1>1
  <2>2. NextIn(D, x, b[x].next) /\ PrevIn(D, x, b[x].prev)
    BY <1>1
  <2>3. NextIn(D \cup {f}, x, c[x].next)
    BY <2>1, <2>2, <1>5
  <2>4. PrevIn(D \cup {f}, x, c[x].prev)
    BY <2>1, <2>2, <1>6
  <2> QED
    BY <2>3, <2>4
<1>8. NextIn(DOMAIN c, f, c[f].next) /\ PrevIn(DOMAIN c, f, c[f].prev)
  BY <1>1, <1>2, <1>3 DEF NextIn, PrevIn
<1>9. first \in Nat /\ last \in Nat /\ Null \in Nat /\ Word \notin D
  BY <1>1, LinkedFacts
<1>10. NextIn(DOMAIN c, Null, IF l = Null THEN f ELSE first)
  <2>1. NextIn(D \cup {f}, Null, IF Null = l THEN f ELSE first)
    BY <1>1, <1>5, <1>9
  <2> QED
    BY <2>1
<1>11. PrevIn(DOMAIN c, Word, IF r = Null THEN f ELSE last)
  <2>1. PrevIn(D \cup {f}, Word, IF Word = r \/ (Word = Word /\ r = Null) THEN f ELSE last)
    BY <1>1, <1>6, <1>9
  <2>2. Word # r
    BY <1>1, <1>3, <1>9, HeapAssumption
  <2> QED
    BY <2>1, <2>2
<1>12. DOMAIN c \subseteq 1 .. Word - 1
  BY DEF Linked
<1> QED
  BY <1>7, <1>8, <1>10, <1>11, <1>12 DEF Linked


\* A list whose blocks only change their sizes stays linked.
LEMMA SameLinks ==
    ASSUME NEW b, NEW first, NEW last, Linked(b, first, last),
           NEW c, DOMAIN c = DOMAIN b,
           \A x \in DOMAIN c : /\ c[x] \in FreeBlock /\ c[x].size > 0
                               /\ c[x].next = b[x].next /\ c[x].prev = b[x].prev
    PROVE  Linked(c, first, last)
BY DEF Linked

\* What the helpers of the list do to each of its blocks.
LEMMA NextFacts ==
    ASSUME NEW b, \A x \in DOMAIN b : b[x] \in FreeBlock, NEW a, NEW v \in Nat, Null \notin DOMAIN b,
           NEW c, c = WithNext(b, a, v)
    PROVE  /\ DOMAIN c = DOMAIN b
           /\ \A x \in DOMAIN b : /\ c[x] \in FreeBlock
                                  /\ c[x].size = b[x].size /\ c[x].prev = b[x].prev
                                  /\ c[x].next = IF x = a THEN v ELSE b[x].next
<1>1. DOMAIN c = DOMAIN b
  BY DEF WithNext
<1>2. ASSUME NEW x \in DOMAIN b
      PROVE  /\ c[x] \in FreeBlock
             /\ c[x].size = b[x].size /\ c[x].prev = b[x].prev
             /\ c[x].next = IF x = a THEN v ELSE b[x].next
  <2>1. b[x] \in [size : Nat, next : Nat, prev : Nat] /\ x # Null
    BY DEF FreeBlock
  <2>2. CASE x = a
    <3>1. c[x] = [b[x] EXCEPT !.next = v]
      BY <2>1, <2>2 DEF WithNext
    <3> QED
      BY <3>1, <2>1, <2>2 DEF FreeBlock
  <2>3. CASE x # a
    <3>1. c[x] = b[x]
      BY <2>3 DEF WithNext
    <3> QED
      BY <3>1, <2>3
  <2> QED
    BY <2>2, <2>3
<1> QED
  BY <1>1, <1>2

\* The same of the link to the block before.
LEMMA PrevFacts ==
    ASSUME NEW b, \A x \in DOMAIN b : b[x] \in FreeBlock, NEW a, NEW v \in Nat, Null \notin DOMAIN b,
           NEW c, c = WithPrev(b, a, v)
    PROVE  /\ DOMAIN c = DOMAIN b
           /\ \A x \in DOMAIN b : /\ c[x] \in FreeBlock
                                  /\ c[x].size = b[x].size /\ c[x].next = b[x].next
                                  /\ c[x].prev = IF x = a THEN v ELSE b[x].prev
<1>1. DOMAIN c = DOMAIN b
  BY DEF WithPrev
<1>2. ASSUME NEW x \in DOMAIN b
      PROVE  /\ c[x] \in FreeBlock
             /\ c[x].size = b[x].size /\ c[x].next = b[x].next
             /\ c[x].prev = IF x = a THEN v ELSE b[x].prev
  <2>1. b[x] \in [size : Nat, next : Nat, prev : Nat] /\ x # Null
    BY DEF FreeBlock
  <2>2. CASE x = a
    <3>1. c[x] = [b[x] EXCEPT !.prev = v]
      BY <2>1, <2>2 DEF WithPrev
    <3> QED
      BY <3>1, <2>1, <2>2 DEF FreeBlock
  <2>3. CASE x # a
    <3>1. c[x] = b[x]
      BY <2>3 DEF WithPrev
    <3> QED
      BY <3>1, <2>3
  <2> QED
    BY <2>2, <2>3
<1> QED
  BY <1>1, <1>2

\* malloc and free take a block off the list like this.
Unlink(b, a) == Without(WithPrev(WithNext(b, b[a].prev, b[a].next), b[a].next, b[a].prev), a)

\* List c is list b without block a.
OffList(b, a, c) ==
    /\ DOMAIN c = DOMAIN b \ {a}
    /\ \A x \in DOMAIN c : /\ c[x] \in FreeBlock /\ c[x].size > 0 /\ c[x].size = b[x].size
                           /\ c[x].next = IF x = b[a].prev THEN b[a].next ELSE b[x].next
                           /\ c[x].prev = IF x = b[a].next THEN b[a].prev ELSE b[x].prev

\* The blocks that remain keep their sizes, and only the neighbours of the
\* one taken change their links.
LEMMA UnlinkedSizes ==
    ASSUME NEW b, NEW first, NEW last, Linked(b, first, last),
           NEW a \in DOMAIN b, NEW c, c = Unlink(b, a)
    PROVE  OffList(b, a, c)
<1>p. PICK p, n : p = b[a].prev /\ n = b[a].next
  OBVIOUS
<1>1. /\ \A x \in DOMAIN b : /\ b[x] \in FreeBlock /\ b[x].size > 0 /\ x # Null
                             /\ b[x].next \in Nat /\ b[x].prev \in Nat
      /\ p \in Nat /\ n \in Nat /\ Null \notin DOMAIN b
  BY <1>p, LinkedFacts
<1>2. PICK b1 : b1 = WithNext(b, p, n)
  OBVIOUS
<1>3. /\ DOMAIN b1 = DOMAIN b
      /\ \A x \in DOMAIN b : /\ b1[x] \in FreeBlock /\ b1[x].size = b[x].size /\ b1[x].prev = b[x].prev
                             /\ b1[x].next = IF x = p THEN n ELSE b[x].next
  BY <1>1, <1>2, NextFacts
<1>4. PICK b2 : b2 = WithPrev(b1, n, p)
  OBVIOUS
<1>5. /\ DOMAIN b2 = DOMAIN b
      /\ \A x \in DOMAIN b : /\ b2[x] \in FreeBlock /\ b2[x].size = b[x].size
                             /\ b2[x].prev = IF x = n THEN p ELSE b[x].prev
                             /\ b2[x].next = IF x = p THEN n ELSE b[x].next
  BY <1>1, <1>3, <1>4, PrevFacts
<1>6. DOMAIN c = DOMAIN b \ {a} /\ \A x \in DOMAIN c : c[x] = b2[x]
  BY <1>p, <1>2, <1>4, <1>5 DEF Unlink, Without, Restrict
<1>7. \A x \in DOMAIN c : /\ c[x] \in FreeBlock /\ c[x].size > 0 /\ c[x].size = b[x].size
                          /\ c[x].next = IF x = p THEN n ELSE b[x].next
                          /\ c[x].prev = IF x = n THEN p ELSE b[x].prev
  BY <1>1, <1>5, <1>6
<1>8. ASSUME NEW x \in DOMAIN c
      PROVE  /\ c[x] \in FreeBlock /\ c[x].size > 0 /\ c[x].size = b[x].size
             /\ c[x].next = IF x = b[a].prev THEN b[a].next ELSE b[x].next
             /\ c[x].prev = IF x = b[a].next THEN b[a].prev ELSE b[x].prev
  BY <1>p, <1>7
<1> QED
  BY ONLY <1>6, <1>8 DEF OffList

\* What remains is linked, with the ends malloc and free compute.
LEMMA Unlinked ==
    ASSUME NEW b, NEW first, NEW last, Linked(b, first, last),
           NEW a \in DOMAIN b, NEW c, c = Unlink(b, a),
           NEW nfirst, nfirst = IF b[a].prev = Null THEN b[a].next ELSE first,
           NEW nlast, nlast = IF b[a].next = Null THEN b[a].prev ELSE last
    PROVE  Linked(c, nfirst, nlast)
<1>1. PICK p, n : p = b[a].prev /\ n = b[a].next
  OBVIOUS
<1>2. /\ DOMAIN c = DOMAIN b \ {a}
      /\ \A x \in DOMAIN c : /\ c[x] \in FreeBlock /\ c[x].size > 0
                             /\ c[x].next = IF x = p THEN n ELSE b[x].next
                             /\ c[x].prev = IF x = n THEN p ELSE b[x].prev
  <2>1. OffList(b, a, c)
    BY UnlinkedSizes
  <2>2. DOMAIN c = DOMAIN b \ {a}
    BY <2>1 DEF OffList
  <2>3. ASSUME NEW x \in DOMAIN c
        PROVE  /\ c[x] \in FreeBlock /\ c[x].size > 0
               /\ c[x].next = IF x = p THEN n ELSE b[x].next
               /\ c[x].prev = IF x = n THEN p ELSE b[x].prev
    <3>1. /\ c[x] \in FreeBlock /\ c[x].size > 0
          /\ c[x].next = IF x = b[a].prev THEN b[a].next ELSE b[x].next
          /\ c[x].prev = IF x = b[a].next THEN b[a].prev ELSE b[x].prev
      BY <2>1 DEF OffList
    <3> QED
      BY <3>1, <1>1
  <2> QED
    BY ONLY <2>2, <2>3
<1>3. Linked(c, IF p = Null THEN n ELSE first, IF n = Null THEN p ELSE last)
  BY <1>1, <1>2, RemoveLinked
<1> QED
  BY <1>1, <1>3

\* Cutting a block to another size.
CutTo(b, a, s) == [b EXCEPT ![a].size = s]

\* A block that is cut stays where it is in the list.
LEMMA Cut ==
    ASSUME NEW b, NEW first, NEW last, Linked(b, first, last),
           NEW a \in DOMAIN b, NEW s \in Nat \ {0}, NEW c, c = CutTo(b, a, s)
    PROVE  /\ Linked(c, first, last) /\ DOMAIN c = DOMAIN b
           /\ \A x \in DOMAIN c : c[x].size = IF x = a THEN s ELSE b[x].size
<1>1. \A x \in DOMAIN b : b[x] \in [size : Nat, next : Nat, prev : Nat] /\ b[x].size > 0
  BY DEF Linked, FreeBlock
<1>2. DOMAIN c = DOMAIN b
  BY DEF CutTo
<1>3. ASSUME NEW x \in DOMAIN b
      PROVE  /\ c[x] \in FreeBlock /\ c[x].size > 0
             /\ c[x].next = b[x].next /\ c[x].prev = b[x].prev
             /\ c[x].size = IF x = a THEN s ELSE b[x].size
  <2>1. CASE x = a
    <3>1. c[x] = [b[x] EXCEPT !.size = s]
      BY <2>1 DEF CutTo
    <3> QED
      BY <3>1, <2>1, <1>1 DEF FreeBlock
  <2>2. CASE x # a
    <3>1. c[x] = b[x]
      BY <2>2 DEF CutTo
    <3> QED
      BY <3>1, <2>2, <1>1 DEF FreeBlock
  <2> QED
    BY <2>1, <2>2
<1>4. Linked(c, first, last)
  BY <1>2, <1>3, SameLinks
<1> QED
  BY <1>2, <1>3, <1>4


\* List c is list b with the piece of s bytes at f entered between the blocks
\* left and right: jl and jr say which of them it touches and is joined to,
\* start is where the block it ends up in begins.
Joined(b, f, s, left, right, jl, jr, start, c) ==
    /\ jl = (left # Null /\ (left + b[left].size) % Word = f)
    /\ jr = (right # Null /\ (f + s) % Word = right)
    /\ start = IF jl THEN left ELSE f
    /\ DOMAIN c = (DOMAIN b \ (IF jr THEN {right} ELSE {})) \cup {start}
    /\ c[start].size = (IF jl THEN b[left].size ELSE 0) + s + (IF jr THEN b[right].size ELSE 0)
    /\ \A x \in DOMAIN c \ {start} : c[x].size = b[x].size

\* The piece ends up between the last block before it and the first behind it.
EntersAs(b, f, s, c) ==
    \E left, right \in DOMAIN b \cup {Null}, jl, jr \in BOOLEAN, start \in Nat :
        /\ PrevIn(DOMAIN b, f, left) /\ NextIn(DOMAIN b, f, right)
        /\ Joined(b, f, s, left, right, jl, jr, start, c)

\* What heapadd does to the list and to the blocks it enters a block among.
LEMMA Entered ==
    ASSUME Linked(blk, heapfirst, heaplast), NEW f \in 1 .. Word - 1, f \notin DOMAIN blk,
           NEW s \in Nat \ {0}, Enter(f, s)
    PROVE  Linked(blk', heapfirst', heaplast') /\ EntersAs(blk, f, s, blk')
<1>1. PICK left : left = Place(f)
  OBVIOUS
<1>2. PICK right : right = NextOf(left)
  OBVIOUS
<1>3. PICK joinRight \in BOOLEAN : joinRight = (right # Null /\ (f + s) % Word = right)
  OBVIOUS
<1>4. PICK joinLeft \in BOOLEAN : joinLeft = (left # Null /\ (left + blk[left].size) % Word = f)
  OBVIOUS
<1>5. PICK next : next = IF joinRight THEN blk[right].next ELSE right
  OBVIOUS
<1>6. PICK start : start = IF joinLeft THEN left ELSE f
  OBVIOUS
<1>7. PICK size : size = IF joinRight THEN s + blk[right].size ELSE s
  OBVIOUS
<1>8. PICK whole : whole = IF joinLeft THEN [blk[left] EXCEPT !.size = @ + size, !.next = next]
                           ELSE [size |-> size, next |-> next, prev |-> left]
  OBVIOUS
<1>9. PICK rest : rest = IF joinRight THEN Without(blk, right) ELSE blk
  OBVIOUS
<1>10. /\ blk' = With(WithPrev(WithNext(rest, left, start), next, start), start, whole)
       /\ heapfirst' = IF left = Null THEN f ELSE heapfirst
       /\ heaplast' = IF next = Null THEN start ELSE heaplast
  BY <1>1, <1>2, <1>3, <1>4, <1>5, <1>6, <1>7, <1>8, <1>9 DEF Enter
<1>11. /\ PrevIn(DOMAIN blk, f, left) /\ NextIn(DOMAIN blk, f, right)
       /\ left \in Nodes /\ right \in Nodes
  BY <1>1, <1>2, PlaceSound
<1>12. /\ Word \in Nat /\ Null = 0 /\ Null \notin DOMAIN blk /\ f \in Nat /\ f > 0 /\ s \in Nat /\ s > 0
       /\ \A x \in DOMAIN blk : /\ x \in Nat /\ x > 0 /\ x # Null /\ x # f
                                /\ blk[x] \in FreeBlock /\ blk[x].size > 0
                                /\ blk[x].next \in Nat /\ blk[x].prev \in Nat /\ blk[x].size \in Nat
                                /\ NextIn(DOMAIN blk, x, blk[x].next)
                                /\ PrevIn(DOMAIN blk, x, blk[x].prev)
  <2>1. f \in Nat /\ f > 0 /\ s \in Nat /\ s > 0
    BY HeapAssumption
  <2> QED
    BY <2>1, LinkedFacts
<1>13. /\ left # Null => left \in DOMAIN blk /\ left < f
       /\ right # Null => right \in DOMAIN blk /\ f < right
       /\ left \in Nat /\ right \in Nat /\ left # f /\ right # f /\ (left # right \/ left = Null)
  BY <1>11, <1>12 DEF Nodes, NextIn, PrevIn
<1>14. /\ next \in Nat /\ start \in Nat /\ size \in Nat /\ size > 0
       /\ joinRight => right \in DOMAIN blk /\ right # Null
       /\ joinLeft => left \in DOMAIN blk /\ left # Null
       /\ start # Null
  <2>1. joinRight => right \in DOMAIN blk /\ right # Null
    BY <1>3, <1>13
  <2>2. joinLeft => left \in DOMAIN blk /\ left # Null
    BY <1>4, <1>13
  <2>3. next \in Nat
    BY <2>1, <1>5, <1>12, <1>13
  <2>4. start \in Nat /\ start # Null
    BY <2>2, <1>6, <1>12, <1>13
  <2>5. size \in Nat /\ size > 0
    BY <2>1, <1>7, <1>12
  <2> QED
    BY <2>1, <2>2, <2>3, <2>4, <2>5
\* The block that follows the right neighbour, and what links to it.
<1>15. ASSUME joinRight
       PROVE  /\ next = blk[right].next /\ (right < next \/ next = Null)
              /\ next # Null => next \in DOMAIN blk /\ next # left /\ next # f /\ next # right
  <2>1. next = blk[right].next /\ NextIn(DOMAIN blk, right, next) /\ right \in DOMAIN blk /\ f < right
    BY <1>5, <1>12, <1>13, <1>14, <1>15
  <2>2. next # Null => next \in DOMAIN blk /\ right < next
    BY <2>1 DEF NextIn
  <2> QED
    BY <2>1, <2>2, <1>12, <1>13, <1>14
<1>16. PICK D : D = DOMAIN rest
  OBVIOUS
<1>17. /\ D = DOMAIN blk \ (IF joinRight THEN {right} ELSE {})
       /\ \A x \in D : rest[x] = blk[x]
       /\ \A x \in D : x \in DOMAIN blk /\ rest[x] \in FreeBlock
       /\ Null \notin D /\ f \notin D
  <2>1. CASE joinRight
    BY <2>1, <1>9, <1>12, <1>16 DEF Without, Restrict
  <2>2. CASE ~joinRight
    BY <2>2, <1>9, <1>12, <1>16
  <2> QED
    BY <2>1, <2>2
<1>18. PICK r1 : r1 = WithNext(rest, left, start)
  OBVIOUS
<1>19. /\ DOMAIN r1 = D
       /\ \A x \in D : /\ r1[x] \in FreeBlock /\ r1[x].size = blk[x].size /\ r1[x].prev = blk[x].prev
                       /\ r1[x].next = IF x = left THEN start ELSE blk[x].next
  <2>1. /\ DOMAIN r1 = DOMAIN rest
        /\ \A x \in DOMAIN rest :
              /\ r1[x] \in FreeBlock
              /\ r1[x].size = rest[x].size /\ r1[x].prev = rest[x].prev
              /\ r1[x].next = IF x = left THEN start ELSE rest[x].next
    <3>1. (\A x \in DOMAIN rest : rest[x] \in FreeBlock) /\ Null \notin DOMAIN rest /\ start \in Nat
      BY <1>14, <1>16, <1>17
    <3> QED
      BY ONLY <3>1, <1>18, NextFacts
  <2> QED
    BY <2>1, <1>16, <1>17
<1>20. PICK r2 : r2 = WithPrev(r1, next, start)
  OBVIOUS
<1>21. /\ DOMAIN r2 = D
       /\ \A x \in D : /\ r2[x] \in FreeBlock /\ r2[x].size = blk[x].size
                       /\ r2[x].next = IF x = left THEN start ELSE blk[x].next
                       /\ r2[x].prev = IF x = next THEN start ELSE blk[x].prev
  BY <1>14, <1>17, <1>19, <1>20, PrevFacts
<1>22. PICK c : c = blk'
  OBVIOUS
<1>23. DOMAIN c = {start} \cup D /\ c[start] = whole /\ \A x \in D \ {start} : c[x] = r2[x]
  <2>1. c = With(r2, start, whole)
    BY <1>10, <1>18, <1>20, <1>22
  <2>2. c = [x \in D \cup {start} |-> IF x = start THEN whole ELSE r2[x]]
    BY <2>1, <1>21 DEF With
  <2> QED
    BY <2>2
<1>24. /\ whole \in FreeBlock /\ whole.size > 0 /\ whole.next = next
       /\ whole.prev = IF joinLeft THEN blk[left].prev ELSE left
       /\ whole.size = (IF joinLeft THEN blk[left].size ELSE 0) + size
  <2>1. CASE joinLeft
    <3>1. blk[left] \in [size : Nat, next : Nat, prev : Nat] /\ blk[left].size > 0
      BY <2>1, <1>12, <1>14 DEF FreeBlock
    <3>2. whole = [blk[left] EXCEPT !.size = @ + size, !.next = next]
      BY <2>1, <1>8
    <3>3. whole = [size |-> blk[left].size + size, next |-> next, prev |-> blk[left].prev]
      BY <3>1, <3>2
    <3> QED
      BY <2>1, <3>1, <3>3, <1>14 DEF FreeBlock
  <2>2. CASE ~joinLeft
    <3>1. whole = [size |-> size, next |-> next, prev |-> left]
      BY <2>2, <1>8
    <3>2. whole \in FreeBlock /\ whole.size = size /\ whole.next = next /\ whole.prev = left
      BY ONLY <3>1, <1>13, <1>14 DEF FreeBlock
    <3>3. 0 + size = size
      BY <1>14
    <3> QED
      BY <2>2, <3>2, <3>3, <1>14
  <2> QED
    BY <2>1, <2>2
<1>25. \A x \in DOMAIN c : c[x] \in FreeBlock /\ c[x].size > 0
  BY <1>12, <1>17, <1>21, <1>23, <1>24
<1>26. \A x \in D \ {start} : /\ c[x].size = blk[x].size
                              /\ c[x].next = IF x = left THEN start ELSE blk[x].next
                              /\ c[x].prev = IF x = next THEN start ELSE blk[x].prev
  BY <1>21, <1>23
\* The list with the block entered and not yet joined.
<1>27. PICK b1 : b1 = [x \in DOMAIN blk \cup {f} |->
            IF x = f THEN [size |-> s, next |-> right, prev |-> left]
            ELSE [size |-> blk[x].size, next |-> IF x = left THEN f ELSE blk[x].next,
                  prev |-> IF x = right THEN f ELSE blk[x].prev]]
  OBVIOUS
<1>28. /\ DOMAIN b1 = DOMAIN blk \cup {f}
       /\ b1[f].next = right /\ b1[f].prev = left
       /\ \A x \in DOMAIN blk : /\ b1[x].next = IF x = left THEN f ELSE blk[x].next
                                /\ b1[x].prev = IF x = right THEN f ELSE blk[x].prev
  BY <1>12, <1>27
<1>29. \A x \in DOMAIN b1 : b1[x] \in FreeBlock /\ b1[x].size > 0
  <2>1. b1[f] = [size |-> s, next |-> right, prev |-> left]
    BY <1>27
  <2>2. ASSUME NEW x \in DOMAIN blk PROVE b1[x] \in FreeBlock /\ b1[x].size > 0
    <3>1. b1[x] = [size |-> blk[x].size, next |-> IF x = left THEN f ELSE blk[x].next,
                   prev |-> IF x = right THEN f ELSE blk[x].prev]
      BY <1>12, <1>27
    <3> QED
      BY <3>1, <1>12 DEF FreeBlock
  <2> QED
    BY <2>1, <2>2, <1>12, <1>13, <1>28 DEF FreeBlock
<1>30. PICK first1 : first1 = IF left = Null THEN f ELSE heapfirst
  OBVIOUS
<1>31. PICK last1 : last1 = IF right = Null THEN f ELSE heaplast
  OBVIOUS
<1>32. Linked(b1, first1, last1)
  <2>1. Linked(b1, IF left = Null THEN f ELSE heapfirst, IF right = Null THEN f ELSE heaplast)
    BY <1>11, <1>28, <1>29, InsertLinked
  <2> QED
    BY <2>1, <1>30, <1>31
\* The list after it was joined to the right.
<1>33. PICK b2 : b2 = IF joinRight
           THEN [x \in DOMAIN b1 \ {right} |->
                    [size |-> b1[x].size, next |-> IF x = f THEN next ELSE b1[x].next,
                     prev |-> IF x = next THEN f ELSE b1[x].prev]]
           ELSE b1
  OBVIOUS
<1>34. PICK last2 : last2 = IF next = Null THEN f ELSE heaplast
  OBVIOUS
<1>35. /\ Linked(b2, first1, last2)
       /\ DOMAIN b2 = D \cup {f}
       /\ b2[f].next = next /\ b2[f].prev = left
       /\ \A x \in D : /\ b2[x].next = IF x = left THEN f ELSE blk[x].next
                       /\ b2[x].prev = IF x = next THEN f ELSE blk[x].prev
  <2>1. CASE joinRight
    <3>1. right \in DOMAIN b1 /\ b1[right].next = next /\ b1[right].prev = f /\ right # f /\ right # left
      BY <2>1, <1>5, <1>12, <1>13, <1>14, <1>28
    <3>2. DOMAIN b2 = DOMAIN b1 \ {right} /\ DOMAIN b2 = D \cup {f}
      BY <2>1, <3>1, <1>17, <1>28, <1>33
    <3>3. ASSUME NEW x \in DOMAIN b2
          PROVE  /\ b2[x] \in FreeBlock /\ b2[x].size > 0
                 /\ b2[x].next = IF x = f THEN next ELSE b1[x].next
                 /\ b2[x].prev = IF x = next THEN f ELSE b1[x].prev
      <4>1. x \in DOMAIN b1 /\ b1[x] \in [size : Nat, next : Nat, prev : Nat] /\ b1[x].size > 0
        BY <3>2, <1>29 DEF FreeBlock
      <4>2. b2[x] = [size |-> b1[x].size, next |-> IF x = f THEN next ELSE b1[x].next,
                     prev |-> IF x = next THEN f ELSE b1[x].prev]
        BY <2>1, <3>2, <1>33
      <4> QED
        BY <4>1, <4>2, <1>12, <1>14 DEF FreeBlock
    <3>4. Linked(b2, IF f = Null THEN next ELSE first1, IF next = Null THEN f ELSE last1)
      BY <3>1, <3>2, <3>3, <1>32, RemoveLinked
    <3>5. Linked(b2, first1, last2)
      BY <2>1, <3>4, <1>12, <1>14, <1>31, <1>34
    <3>6. b2[f].next = next /\ b2[f].prev = left
      BY <2>1, <3>2, <3>3, <1>12, <1>15, <1>28
    <3>7. ASSUME NEW x \in D
          PROVE  /\ b2[x].next = IF x = left THEN f ELSE blk[x].next
                 /\ b2[x].prev = IF x = next THEN f ELSE blk[x].prev
      <4>1. x \in DOMAIN b2 /\ x \in DOMAIN blk /\ x # f /\ x # right
        BY <2>1, <3>2, <1>12, <1>17
      <4> QED
        BY <4>1, <3>3, <1>28
    <3> QED
      BY <3>2, <3>5, <3>6, <3>7
  <2>2. CASE ~joinRight
    <3>1. b2 = b1 /\ next = right /\ D = DOMAIN blk /\ last2 = last1
      BY <2>2, <1>5, <1>17, <1>31, <1>33, <1>34
    <3> QED
      BY <3>1, <1>28, <1>32
  <2> QED
    BY <2>1, <2>2
<1>36. Linked(c, first1, IF next = Null THEN start ELSE heaplast)
  <2>1. CASE joinLeft
    <3>1. start = left /\ left \in DOMAIN blk /\ left # Null /\ left \in D /\ left # f /\ left # next
      BY <2>1, <1>3, <1>5, <1>6, <1>13, <1>14, <1>15, <1>17
    <3>2. DOMAIN c = D /\ DOMAIN c = DOMAIN b2 \ {f}
      BY <3>1, <1>17, <1>23, <1>35
    <3>3. ASSUME NEW x \in DOMAIN c
          PROVE  /\ c[x] \in FreeBlock /\ c[x].size > 0
                 /\ c[x].next = IF x = left THEN next ELSE b2[x].next
                 /\ c[x].prev = IF x = next THEN left ELSE b2[x].prev
      <4>1. CASE x = left
        <5>1. c[x].next = next /\ c[x].prev = blk[left].prev
          BY <2>1, <3>1, <4>1, <1>23, <1>24
        <5> QED
          BY <4>1, <5>1, <3>1, <1>25, <1>35
      <4>2. CASE x # left
        <5>1. x \in D \ {start}
          BY <3>1, <3>2, <4>2
        <5> QED
          BY <4>2, <5>1, <3>1, <1>25, <1>26, <1>35
      <4> QED
        BY <4>1, <4>2
    <3>4. f \in DOMAIN b2
      BY <1>35
    <3>5. Linked(c, IF left = Null THEN next ELSE first1, IF next = Null THEN left ELSE last2)
      <4>1. b2[f].prev = left /\ b2[f].next = next /\ Linked(b2, first1, last2)
        BY <1>35
      <4> QED
        BY ONLY <3>2, <3>3, <3>4, <4>1, RemoveLinked
    <3> QED
      BY <3>1, <3>5, <1>34
  <2>2. CASE ~joinLeft
    <3>1. start = f /\ DOMAIN c = DOMAIN b2
      BY <2>2, <1>6, <1>23, <1>35
    <3>2. ASSUME NEW x \in DOMAIN c
          PROVE  /\ c[x] \in FreeBlock /\ c[x].size > 0
                 /\ c[x].next = b2[x].next /\ c[x].prev = b2[x].prev
      <4>1. CASE x = f
        BY <2>2, <3>1, <4>1, <1>23, <1>24, <1>25, <1>35
      <4>2. CASE x # f
        <5>1. x \in D \ {start}
          BY <3>1, <4>2, <1>23
        <5> QED
          BY <5>1, <3>1, <1>25, <1>26, <1>35
      <4> QED
        BY <4>1, <4>2
    <3>3. Linked(c, first1, last2)
      BY <3>1, <3>2, <1>35, SameLinks
    <3> QED
      BY <3>1, <3>3, <1>34
  <2> QED
    BY <2>1, <2>2
<1>37. Linked(blk', heapfirst', heaplast')
  BY <1>10, <1>22, <1>30, <1>36
<1>38. /\ DOMAIN c = (DOMAIN blk \ (IF joinRight THEN {right} ELSE {})) \cup {start}
       /\ c[start].size = (IF joinLeft THEN blk[left].size ELSE 0) + s
                             + (IF joinRight THEN blk[right].size ELSE 0)
       /\ \A x \in DOMAIN c \ {start} : c[x].size = blk[x].size
  <2>1. DOMAIN c = (DOMAIN blk \ (IF joinRight THEN {right} ELSE {})) \cup {start}
    BY <1>17, <1>23
  <2>2. c[start].size = (IF joinLeft THEN blk[left].size ELSE 0) + s
                             + (IF joinRight THEN blk[right].size ELSE 0)
    BY <1>7, <1>12, <1>14, <1>23, <1>24
  <2>3. \A x \in DOMAIN c \ {start} : c[x].size = blk[x].size
    BY <1>23, <1>26
  <2> QED
    BY <2>1, <2>2, <2>3
<1>39. Joined(blk, f, s, left, right, joinLeft, joinRight, start, c)
  BY <1>3, <1>4, <1>6, <1>38 DEF Joined
<1>40. EntersAs(blk, f, s, c)
  BY <1>11, <1>14, <1>39 DEF EntersAs, Nodes
<1> QED
  BY <1>22, <1>37, <1>40


-----------------------------------------------------------------------------
(* The memory.                                                             *)

Clear(a, n, c, k) == a + n <= c \/ c + k <= a

\* A piece of memory outside what is left above the heap top.
Piece(a, n, top) == /\ a \in Nat /\ n \in Nat /\ a > 0 /\ n > 0 /\ a + n <= Word
                    /\ a + n <= top \/ End <= a \/ top = End

\* The free blocks b, the used ones u and the memory U that may still be
\* donated are pieces apart from each other.
Spaced(b, u, top, U) ==
    /\ top \in Nat /\ 0 < top /\ top <= End
    /\ \A a \in DOMAIN b : Piece(a, b[a].size, top)
    /\ \A a \in DOMAIN u : Piece(a, u[a], top)
    /\ \A d \in U : Piece(d.at, d.len, top)
    /\ \A a, c \in DOMAIN b : a # c => Clear(a, b[a].size, c, b[c].size)
    /\ \A a, c \in DOMAIN u : a # c => Clear(a, u[a], c, u[c])
    /\ \A a \in DOMAIN b, c \in DOMAIN u : Clear(a, b[a].size, c, u[c])
    /\ \A a \in DOMAIN b, d \in U : Clear(a, b[a].size, d.at, d.len)
    /\ \A a \in DOMAIN u, d \in U : Clear(a, u[a], d.at, d.len)

\* A free block is handed out as it is.
LEMMA SpacedWhole ==
    ASSUME NEW b, NEW u, NEW top, NEW U, Spaced(b, u, top, U), NEW f \in DOMAIN b,
           NEW c, DOMAIN c = DOMAIN b \ {f}, \A x \in DOMAIN c : c[x].size = b[x].size,
           NEW v, v = With(u, f, b[f].size)
    PROVE  Spaced(c, v, top, U)
<1>1. DOMAIN v = DOMAIN u \cup {f} /\ v[f] = b[f].size /\ \A x \in DOMAIN u \ {f} : v[x] = u[x]
  BY DEF With
<1> QED
  BY <1>1 DEF Spaced, Piece, Clear

\* A block of t bytes is cut off the upper end of a free one.
LEMMA SpacedSlice ==
    ASSUME NEW b, NEW u, NEW top, NEW U, Spaced(b, u, top, U), NEW f \in DOMAIN b,
           NEW t \in Nat, NEW rest \in Nat, t > 0, rest > 0, b[f].size = rest + t,
           NEW c, DOMAIN c = DOMAIN b, \A x \in DOMAIN c : c[x].size = IF x = f THEN rest ELSE b[x].size,
           NEW v, v = With(u, f + rest, t)
    PROVE  Spaced(c, v, top, U)
<1>1. DOMAIN v = DOMAIN u \cup {f + rest} /\ v[f + rest] = t /\ \A x \in DOMAIN u \ {f + rest} : v[x] = u[x]
  BY DEF With
<1>2. f \in Nat /\ f + (rest + t) <= Word /\ f > 0 /\ Piece(f, rest + t, top) /\ top \in Nat /\ 0 < top /\ top <= End
  BY DEF Spaced, Piece
<1>3. Piece(f, rest, top) /\ Piece(f + rest, t, top)
  BY <1>2, HeapAssumption DEF Piece
\* What is apart from the whole block is apart from both its parts.
<1>4. ASSUME NEW a \in Nat, NEW n \in Nat, Clear(f, rest + t, a, n) \/ Clear(a, n, f, rest + t)
      PROVE  /\ Clear(f, rest, a, n) /\ Clear(a, n, f, rest)
             /\ Clear(f + rest, t, a, n) /\ Clear(a, n, f + rest, t)
  BY <1>2, <1>4 DEF Clear
<1>5. Clear(f, rest, f + rest, t)
  BY <1>2 DEF Clear
<1>6. /\ \A a \in DOMAIN b : Piece(a, b[a].size, top) /\ a \in Nat /\ b[a].size \in Nat
      /\ \A a \in DOMAIN u : Piece(a, u[a], top) /\ a \in Nat /\ u[a] \in Nat
      /\ \A d \in U : Piece(d.at, d.len, top) /\ d.at \in Nat /\ d.len \in Nat
  BY DEF Spaced, Piece
<1>7. /\ \A a \in DOMAIN b : a # f => Clear(a, b[a].size, f, rest + t)
      /\ \A a \in DOMAIN u : Clear(f, rest + t, a, u[a])
      /\ \A d \in U : Clear(f, rest + t, d.at, d.len)
  BY DEF Spaced
<1>8. \A a \in DOMAIN c : Piece(a, c[a].size, top)
  BY <1>3, <1>6
<1>9. \A a \in DOMAIN v : Piece(a, v[a], top)
  BY <1>1, <1>3, <1>6
<1>10. \A a, e \in DOMAIN c : a # e => Clear(a, c[a].size, e, c[e].size)
  <2>1. \A a, e \in DOMAIN b : a # e => Clear(a, b[a].size, e, b[e].size)
    BY DEF Spaced
  <2>2. ASSUME NEW a \in DOMAIN b, a # f
        PROVE  Clear(a, b[a].size, f, rest) /\ Clear(f, rest, a, b[a].size)
    BY <2>2, <1>4, <1>6, <1>7
  <2> QED
    BY <2>1, <2>2
<1>11. \A a, e \in DOMAIN v : a # e => Clear(a, v[a], e, v[e])
  <2>1. \A a, e \in DOMAIN u : a # e => Clear(a, u[a], e, u[e])
    BY DEF Spaced
  <2>2. ASSUME NEW a \in DOMAIN u
        PROVE  Clear(a, u[a], f + rest, t) /\ Clear(f + rest, t, a, u[a])
    BY <1>4, <1>6, <1>7
  <2> QED
    BY <2>1, <2>2, <1>1
<1>12. \A a \in DOMAIN c, e \in DOMAIN v : Clear(a, c[a].size, e, v[e])
  <2>1. \A a \in DOMAIN b, e \in DOMAIN u : Clear(a, b[a].size, e, u[e])
    BY DEF Spaced
  <2>2. ASSUME NEW a \in DOMAIN b, a # f PROVE Clear(a, b[a].size, f + rest, t)
    BY <2>2, <1>4, <1>6, <1>7
  <2>3. ASSUME NEW e \in DOMAIN u PROVE Clear(f, rest, e, u[e])
    BY <1>4, <1>6, <1>7
  <2> QED
    BY <2>1, <2>2, <2>3, <1>1, <1>5
<1>13. \A a \in DOMAIN c, d \in U : Clear(a, c[a].size, d.at, d.len)
  <2>1. \A a \in DOMAIN b, d \in U : Clear(a, b[a].size, d.at, d.len)
    BY DEF Spaced
  <2>2. ASSUME NEW d \in U PROVE Clear(f, rest, d.at, d.len)
    BY <1>4, <1>6, <1>7
  <2> QED
    BY <2>1, <2>2
<1>14. \A a \in DOMAIN v, d \in U : Clear(a, v[a], d.at, d.len)
  <2>1. \A a \in DOMAIN u, d \in U : Clear(a, u[a], d.at, d.len)
    BY DEF Spaced
  <2>2. ASSUME NEW d \in U PROVE Clear(f + rest, t, d.at, d.len)
    BY <1>4, <1>6, <1>7
  <2> QED
    BY <2>1, <2>2, <1>1
<1> QED
  BY <1>2, <1>6, <1>8, <1>9, <1>10, <1>11, <1>12, <1>13, <1>14 DEF Spaced

\* A block is taken from the top.
LEMMA SpacedTop ==
    ASSUME NEW b, NEW u, NEW top, NEW U, Spaced(b, u, top, U),
           NEW t \in Nat, t > 0, top + t <= End, NEW v, v = With(u, top, t)
    PROVE  Spaced(b, v, top + t, U)
<1>1. DOMAIN v = DOMAIN u \cup {top} /\ v[top] = t /\ \A x \in DOMAIN u \ {top} : v[x] = u[x]
  BY DEF With
<1> QED
  BY <1>1, HeapAssumption DEF Spaced, Piece, Clear

\* A piece of memory is apart from everything known.
Lone(a, n, b, u, U) == /\ \A x \in DOMAIN b : Clear(a, n, x, b[x].size)
                       /\ \A x \in DOMAIN u : Clear(a, n, x, u[x])
                       /\ \A d \in U : Clear(a, n, d.at, d.len)

\* Fewer pieces are still apart, and each is apart from those that remain.
LEMMA SpacedLess ==
    ASSUME NEW b, NEW u, NEW top, NEW U, Spaced(b, u, top, U),
           NEW c, DOMAIN c \subseteq DOMAIN b, \A x \in DOMAIN c : c[x].size = b[x].size,
           NEW v, DOMAIN v \subseteq DOMAIN u, \A x \in DOMAIN v : v[x] = u[x],
           NEW V \in SUBSET U
    PROVE  Spaced(c, v, top, V)
BY DEF Spaced

\* A used block that is given back is apart from everything that remains.
LEMMA LoneUsed ==
    ASSUME NEW b, NEW u, NEW top, NEW U, Spaced(b, u, top, U), NEW a \in DOMAIN u,
           NEW v, v = Without(u, a)
    PROVE  Spaced(b, v, top, U) /\ Lone(a, u[a], b, v, U) /\ Piece(a, u[a], top)
<1>1. DOMAIN v = DOMAIN u \ {a} /\ \A x \in DOMAIN v : v[x] = u[x]
  BY DEF Without, Restrict
<1>2. Lone(a, u[a], b, v, U)
  BY <1>1 DEF Spaced, Lone, Clear
<1>3. Spaced(b, v, top, U)
  BY <1>1 DEF Spaced
<1> QED
  BY <1>2, <1>3 DEF Spaced

\* The top falls to the start of a piece that ends there.
LEMMA SpacedLower ==
    ASSUME NEW b, NEW u, NEW top, NEW U, Spaced(b, u, top, U),
           NEW a \in Nat, NEW n \in Nat, a > 0, n > 0, a + n = top, Lone(a, n, b, u, U)
    PROVE  Spaced(b, u, a, U)
<1>1. ASSUME NEW x, NEW m, Piece(x, m, top), Clear(a, n, x, m) PROVE Piece(x, m, a)
  BY <1>1, HeapAssumption DEF Spaced, Piece, Clear
<1>2. top \in Nat /\ top <= End
  BY DEF Spaced
<1>3. \A x \in DOMAIN b : Piece(x, b[x].size, a)
  BY <1>1 DEF Spaced, Lone
<1>4. \A x \in DOMAIN u : Piece(x, u[x], a)
  BY <1>1 DEF Spaced, Lone
<1>5. \A d \in U : Piece(d.at, d.len, a)
  BY <1>1 DEF Spaced, Lone
<1>6. a <= End
  BY <1>2, HeapAssumption
<1> QED
  BY <1>3, <1>4, <1>5, <1>6 DEF Spaced

\* The block below the top changes its size.
LEMMA SpacedResize ==
    ASSUME NEW b, NEW u, NEW top, NEW U, Spaced(b, u, top, U), NEW a \in DOMAIN u, a + u[a] = top,
           NEW n \in Nat, n > 0, a + n <= End, NEW v, v = [u EXCEPT ![a] = n]
    PROVE  Spaced(b, v, a + n, U)
<1>1. PICK w : w = Without(u, a)
  OBVIOUS
<1>2. Spaced(b, w, top, U) /\ Lone(a, u[a], b, w, U) /\ Piece(a, u[a], top)
  BY <1>1, LoneUsed
<1>3. Spaced(b, w, a, U)
  BY <1>2, SpacedLower DEF Piece
<1>4. DOMAIN w = DOMAIN u \ {a} /\ \A x \in DOMAIN w : w[x] = u[x]
  BY <1>1 DEF Without, Restrict
<1>5. v = With(w, a, n)
  <2>1. DOMAIN w \cup {a} = DOMAIN u
    BY <1>4
  <2>2. With(w, a, n) = [x \in DOMAIN u |-> IF x = a THEN n ELSE w[x]]
    BY <2>1 DEF With
  <2>3. \A x \in DOMAIN u : (IF x = a THEN n ELSE w[x]) = v[x]
    BY <1>4
  <2> QED
    BY <2>2, <2>3
<1> QED
  BY <1>3, <1>5, SpacedTop

\* The ends of pieces do not wrap around to an address above zero.
LEMMA NoWrap ==
    ASSUME NEW a \in Nat, NEW n \in Nat, a > 0, a + n <= Word, NEW z \in Nat, z > 0, z < Word
    PROVE  (a + n) % Word = z <=> a + n = z
<1>1. Word \in Nat /\ Word > 0
  BY HeapAssumption
<1>2. CASE a + n = Word
  <2>1. Word % Word = 0
    BY <1>1, Z3
  <2> QED
    BY <1>2, <2>1
<1>3. CASE a + n < Word
  <2>1. (a + n) % Word = a + n
    BY <1>1, <1>3, Z3
  <2> QED
    BY <2>1
<1> QED
  BY <1>1, <1>2, <1>3

\* A piece touches the neighbours it is joined to.
Touches(b, f, s, left, right, jl, jr) == /\ jl => left \in DOMAIN b /\ left + b[left].size = f
                                         /\ jr => right \in DOMAIN b /\ f + s = right

\* Addresses are words, but no piece that is joined wraps around.
LEMMA JoinedTouches ==
    ASSUME NEW b, NEW u, NEW top, NEW U, Spaced(b, u, top, U),
           NEW f, NEW s, Piece(f, s, top), Lone(f, s, b, u, U),
           NEW left \in DOMAIN b \cup {Null}, NEW right \in DOMAIN b \cup {Null},
           NEW jl \in BOOLEAN, NEW jr \in BOOLEAN,
           NEW start, NEW c, Joined(b, f, s, left, right, jl, jr, start, c)
    PROVE  Touches(b, f, s, left, right, jl, jr)
<1> /\ jl => left # Null /\ (left + b[left].size) % Word = f
    /\ jr => right # Null /\ (f + s) % Word = right
    /\ start = IF jl THEN left ELSE f
    /\ DOMAIN c = (DOMAIN b \ (IF jr THEN {right} ELSE {})) \cup {start}
    /\ c[start].size = (IF jl THEN b[left].size ELSE 0) + s + (IF jr THEN b[right].size ELSE 0)
    /\ \A x \in DOMAIN c \ {start} : c[x].size = b[x].size
  BY DEF Joined
<1>1. Word \in Nat /\ Word > 0 /\ End \in Nat /\ Null = 0
  BY HeapAssumption DEF Null
<1>3. /\ \A x \in DOMAIN b : Piece(x, b[x].size, top)
      /\ \A x \in DOMAIN b : x \in Nat /\ b[x].size \in Nat /\ x > 0 /\ b[x].size > 0 /\ x + b[x].size <= Word
      /\ f \in Nat /\ s \in Nat /\ f > 0 /\ s > 0 /\ f + s <= Word
      /\ top \in Nat /\ top <= End
  BY DEF Spaced, Piece
<1>4. jl => left \in DOMAIN b /\ left + b[left].size = f
  <2>1. SUFFICES ASSUME jl PROVE left \in DOMAIN b /\ left + b[left].size = f
    OBVIOUS
  <2>2. left \in DOMAIN b /\ (left + b[left].size) % Word = f
    BY <2>1
  <2>3. /\ left \in Nat /\ b[left].size \in Nat /\ left > 0 /\ b[left].size > 0
        /\ left + b[left].size <= Word /\ f \in Nat /\ f > 0
    BY <2>2, <1>3
  <2>4. left + b[left].size = f
    BY <2>2, <2>3, <1>1, <1>3, NoWrap
  <2> QED
    BY <2>2, <2>4
<1>5. jr => right \in DOMAIN b /\ f + s = right
  <2>1. ASSUME jr PROVE right \in DOMAIN b /\ (f + s) % Word = right
    BY <2>1
  <2>2. ASSUME jr PROVE right \in Nat /\ right > 0 /\ right < Word
    BY <2>1, <2>2, <1>1, <1>3
  <2>3. f + s \in Nat /\ f < Word
    BY <1>1, <1>3
  <2> QED
    BY <2>1, <2>2, <2>3, <1>1, <1>3, NoWrap
<1> QED
  BY <1>4, <1>5 DEF Touches

\* A piece enters the free blocks, alone or joined to its neighbours.
LEMMA SpacedEnter ==
    ASSUME NEW b, NEW u, NEW top, NEW U, Spaced(b, u, top, U),
           NEW f, NEW s, Piece(f, s, top), Lone(f, s, b, u, U),
           NEW left \in DOMAIN b \cup {Null}, NEW right \in DOMAIN b \cup {Null},
           NEW jl \in BOOLEAN, NEW jr \in BOOLEAN,
           NEW start, NEW c, Joined(b, f, s, left, right, jl, jr, start, c)
    PROVE  Spaced(c, u, top, U)
<1>2. Touches(b, f, s, left, right, jl, jr)
  BY JoinedTouches
<1> /\ jl => left # Null /\ (left + b[left].size) % Word = f
    /\ jr => right # Null /\ (f + s) % Word = right
    /\ start = IF jl THEN left ELSE f
    /\ DOMAIN c = (DOMAIN b \ (IF jr THEN {right} ELSE {})) \cup {start}
    /\ c[start].size = (IF jl THEN b[left].size ELSE 0) + s + (IF jr THEN b[right].size ELSE 0)
    /\ \A x \in DOMAIN c \ {start} : c[x].size = b[x].size
  BY DEF Joined
<1>1. Word \in Nat /\ Word > 0 /\ End \in Nat /\ Null = 0
  BY HeapAssumption DEF Null
<1>3. /\ \A x \in DOMAIN b : Piece(x, b[x].size, top)
      /\ \A x \in DOMAIN b : x \in Nat /\ b[x].size \in Nat /\ x > 0 /\ b[x].size > 0 /\ x + b[x].size <= Word
      /\ f \in Nat /\ s \in Nat /\ f > 0 /\ s > 0 /\ f + s <= Word
      /\ top \in Nat /\ top <= End
  BY DEF Spaced, Piece
<1>4. jl => left \in DOMAIN b /\ left + b[left].size = f
  BY <1>2 DEF Touches
<1>5. jr => right \in DOMAIN b /\ f + s = right
  BY <1>2 DEF Touches
\* The joined piece, from start to its end.
<1>6. PICK n : n = c[start].size
  OBVIOUS
<1>7. /\ start \in Nat /\ start > 0 /\ n \in Nat /\ n > 0 /\ start <= f
      /\ start + n = IF jr THEN right + b[right].size ELSE f + s
  BY <1>3, <1>4, <1>5, <1>6
<1>8. Piece(start, n, top)
  <2>1. start + n <= Word
    BY <1>3, <1>5, <1>7
  <2>2. ASSUME top # End PROVE start + n <= top \/ End <= start
    <3>1. f + s <= top \/ End <= f
      BY <2>2 DEF Piece
    <3>2. jl => left + b[left].size <= top \/ End <= left
      BY <2>2, <1>3, <1>4 DEF Piece
    <3>3. jr => right + b[right].size <= top \/ End <= right
      BY <2>2, <1>3, <1>5 DEF Piece
    <3>4. CASE f + s <= top
      BY <3>3, <3>4, <2>2, <1>1, <1>3, <1>5, <1>7
    <3>5. CASE End <= f
      BY <3>2, <3>5, <2>2, <1>1, <1>3, <1>4, <1>7
    <3> QED
      BY <3>1, <3>4, <3>5
  <2> QED
    BY <2>1, <2>2, <1>7 DEF Piece
\* What is apart from its parts is apart from the joined piece.
<1>9. ASSUME NEW x \in Nat, NEW m \in Nat, m > 0, Clear(f, s, x, m),
             jl => Clear(left, b[left].size, x, m), jr => Clear(right, b[right].size, x, m)
      PROVE  Clear(start, n, x, m) /\ Clear(x, m, start, n)
  <2>1. CASE f + s <= x
    <3>1. start + n <= x
      BY <2>1, <1>3, <1>5, <1>7, <1>9 DEF Clear
    <3> QED
      BY <3>1 DEF Clear
  <2>2. CASE x + m <= f
    <3>1. x + m <= start
      BY <2>2, <1>3, <1>4, <1>9 DEF Clear
    <3> QED
      BY <3>1 DEF Clear
  <2> QED
    BY <2>1, <2>2, <1>9 DEF Clear
<1>10. \A x \in DOMAIN c \ {start} : x \in DOMAIN b /\ c[x].size = b[x].size /\ (jr => x # right) /\ (jl => x # left)
  OBVIOUS
<1>11. ASSUME NEW x \in DOMAIN c \ {start}
       PROVE  Clear(start, n, x, c[x].size) /\ Clear(x, c[x].size, start, n)
  <2>1. \A y, z \in DOMAIN b : y # z => Clear(y, b[y].size, z, b[z].size)
    BY DEF Spaced
  <2>2. x \in DOMAIN b /\ x \in Nat /\ b[x].size \in Nat /\ b[x].size > 0
    BY <1>3, <1>10
  <2>3. Clear(f, s, x, b[x].size)
    BY <2>2 DEF Lone
  <2>4. jl => Clear(left, b[left].size, x, b[x].size)
    BY <2>1, <2>2, <1>4, <1>10
  <2>5. jr => Clear(right, b[right].size, x, b[x].size)
    BY <2>1, <2>2, <1>5, <1>10
  <2> QED
    BY <2>2, <2>3, <2>4, <2>5, <1>9, <1>10
<1>12. ASSUME NEW x \in DOMAIN u PROVE Clear(start, n, x, u[x])
  <2>1. x \in Nat /\ u[x] \in Nat /\ u[x] > 0 /\ \A y \in DOMAIN b : Clear(y, b[y].size, x, u[x])
    BY DEF Spaced, Piece
  <2>2. Clear(f, s, x, u[x])
    BY DEF Lone
  <2> QED
    BY <2>1, <2>2, <1>4, <1>5, <1>9
<1>13. ASSUME NEW d \in U PROVE Clear(start, n, d.at, d.len)
  <2>1. d.at \in Nat /\ d.len \in Nat /\ d.len > 0 /\ \A y \in DOMAIN b : Clear(y, b[y].size, d.at, d.len)
    BY DEF Spaced, Piece
  <2>2. Clear(f, s, d.at, d.len)
    BY DEF Lone
  <2> QED
    BY <2>1, <2>2, <1>4, <1>5, <1>9
<1>14. \A x \in DOMAIN c : Piece(x, c[x].size, top)
  BY <1>3, <1>6, <1>8, <1>10
<1>15. \A x, y \in DOMAIN c : x # y => Clear(x, c[x].size, y, c[y].size)
  <2>1. \A y, z \in DOMAIN b : y # z => Clear(y, b[y].size, z, b[z].size)
    BY DEF Spaced
  <2> QED
    BY <2>1, <1>6, <1>10, <1>11
<1>16. \A x \in DOMAIN c, y \in DOMAIN u : Clear(x, c[x].size, y, u[y])
  <2>1. \A x \in DOMAIN b, y \in DOMAIN u : Clear(x, b[x].size, y, u[y])
    BY DEF Spaced
  <2> QED
    BY <2>1, <1>6, <1>10, <1>12
<1>17. \A x \in DOMAIN c, d \in U : Clear(x, c[x].size, d.at, d.len)
  <2>1. \A x \in DOMAIN b, d \in U : Clear(x, b[x].size, d.at, d.len)
    BY DEF Spaced
  <2> QED
    BY <2>1, <1>6, <1>10, <1>13
<1> QED
  BY <1>14, <1>15, <1>16, <1>17 DEF Spaced


-----------------------------------------------------------------------------
(* The invariant of the heap.                                              *)

HeapInv ==
    /\ Linked(blk, heapfirst, heaplast)
    /\ Spaced(blk, used, heapptr, Donations \ donated)
    /\ \A a \in DOMAIN blk : blk[a].size >= MinBlock
    /\ DOMAIN req = DOMAIN used
    /\ \A a \in DOMAIN used : used[a] >= MinBlock /\ req[a] \in Nat
    /\ \A m \in moving : m.from \in DOMAIN used

\* No request is so large that the size word, or the heap top a realloc in
\* place computes, wraps around the address space; the code does not check.
RequestsFit ==
    /\ \A n \in Requests : n + 2 * Admin < Word /\ End + n + Admin <= Word
    /\ \A a \in Arrays : a[1] * a[2] \in Nat /\ a[1] * a[2] + Admin < Word

\* The initial heap satisfies the invariant.
LEMMA InitHeap == Init => HeapInv
<1> SUFFICES ASSUME Init PROVE HeapInv
  OBVIOUS
<1>1. DOMAIN blk = {} /\ DOMAIN used = {} /\ DOMAIN req = {} /\ moving = {} /\ heapptr = Org
  BY DEF Init, Nothing
<1>2. Linked(blk, heapfirst, heaplast)
  BY <1>1 DEF Init, Linked, NextIn, PrevIn
<1>3. Org \in Nat /\ End \in Nat /\ Org > 0 /\ Org <= End
  BY HeapAssumption
<1>4. ASSUME NEW d \in Donations PROVE Piece(d.at, d.len, Org)
  BY HeapAssumption DEF Piece
<1>5. Spaced(blk, used, heapptr, Donations \ donated)
  BY <1>1, <1>3, <1>4 DEF Spaced
<1> QED
  BY <1>1, <1>2, <1>5 DEF HeapInv

-----------------------------------------------------------------------------
(* malloc.                                                                 *)

\* The list, the memory and the sizes of the free blocks after a call.
ListInv(b, first, last, u, top, U) == /\ Linked(b, first, last)
                                      /\ Spaced(b, u, top, U)
                                      /\ \A a \in DOMAIN b : b[a].size >= MinBlock

\* What malloc does to the used blocks: there is a new one.
Granted(t, r) == \E a \in Nat, n \in Nat : /\ a \notin DOMAIN used /\ n >= t
                                           /\ used' = With(used, a, n)
                                           /\ req' = With(req, a, r)

\* The sizes malloc and realloc compute.
LEMMA TotalFits == /\ MinBlock \in Nat /\ MinBlock > 0 /\ Admin \in Nat /\ Admin < MinBlock /\ Word \in Nat
                   /\ \A s \in Nat : Total(s) \in Nat /\ Total(s) >= MinBlock
                   /\ \A s \in Nat : s + Admin < Word => Total(s) >= s + Admin
                   /\ \A s \in Nat : Resized(s) \in Nat /\ Resized(s) >= MinBlock
                   /\ \A s \in Nat : s + Admin < Word => /\ Resized(s) >= s + Admin
                                                         /\ Resized(s) = MinBlock \/ Resized(s) = s + Admin
<1>1. Word \in Nat /\ Word > 0 /\ Admin \in Nat /\ MinBlock \in Nat /\ MinBlock > 0 /\ Admin < MinBlock
  BY HeapAssumption
<1>2. ASSUME NEW s \in Nat
      PROVE  (s + Admin) % Word \in Nat /\ (s + Admin < Word => (s + Admin) % Word = s + Admin)
  BY <1>1, Z3
<1>3. ASSUME NEW s \in Nat
      PROVE  /\ Total(s) \in Nat /\ Total(s) >= MinBlock
             /\ s + Admin < Word => Total(s) >= s + Admin
  BY <1>1, <1>2 DEF Total
<1>4. ASSUME NEW s \in Nat
      PROVE  /\ Resized(s) \in Nat /\ Resized(s) >= MinBlock
             /\ s + Admin < Word => /\ Resized(s) >= s + Admin
                                    /\ Resized(s) = MinBlock \/ Resized(s) = s + Admin
  BY <1>1, <1>2 DEF Resized
<1> QED
  BY <1>1, <1>3, <1>4

\* malloc hands out a free block as it is.
LEMMA TakeWholeKeeps ==
    ASSUME HeapInv, NEW t \in Nat, t >= MinBlock, NEW r, TakeWhole(t, r)
    PROVE  /\ ListInv(blk', heapfirst', heaplast', used', heapptr', Donations \ donated)
           /\ Granted(t, r)
           /\ \E f \in FreeBlocks : Abstract!GrantWhole(f)
<1>1. PICK f : f = FirstFit(t)
  OBVIOUS
<1>2. PICK p, n : p = blk[f].prev /\ n = blk[f].next
  OBVIOUS
<1>3. /\ f # Null /\ heapptr' = heapptr
      /\ blk' = Without(WithPrev(WithNext(blk, p, n), n, p), f)
      /\ heapfirst' = IF p = Null THEN n ELSE heapfirst
      /\ heaplast' = IF n = Null THEN p ELSE heaplast
      /\ used' = With(used, f, blk[f].size) /\ req' = With(req, f, r)
  BY <1>1, <1>2 DEF TakeWhole, Hand
<1>4. f \in DOMAIN blk /\ blk[f].size >= t
  BY <1>1, <1>3, FirstFitSound DEF HeapInv, Nodes
<1>5. f \in Nat /\ blk[f].size \in Nat /\ blk[f].size > 0
  BY <1>4 DEF HeapInv, Spaced, Piece
<1>6. PICK c : c = blk'
  OBVIOUS
<1>7. /\ Linked(c, heapfirst', heaplast') /\ DOMAIN c = DOMAIN blk \ {f}
      /\ \A x \in DOMAIN c : c[x].size = blk[x].size
  <2>1. c = Unlink(blk, f)
    BY <1>2, <1>3, <1>6 DEF Unlink
  <2>2. Linked(blk, heapfirst, heaplast)
    BY DEF HeapInv
  <2>3. /\ heapfirst' = IF blk[f].prev = Null THEN blk[f].next ELSE heapfirst
        /\ heaplast' = IF blk[f].next = Null THEN blk[f].prev ELSE heaplast
    BY <1>2, <1>3
  <2> QED
    <3>1. OffList(blk, f, c)
      BY ONLY <2>1, <2>2, <1>4, UnlinkedSizes
    <3>2. Linked(c, heapfirst', heaplast')
      BY ONLY <2>1, <2>2, <2>3, <1>4, Unlinked
    <3> QED
      BY <3>1, <3>2 DEF OffList
<1>8. Spaced(c, used', heapptr', Donations \ donated)
  BY <1>3, <1>4, <1>7, SpacedWhole DEF HeapInv
<1>9. ListInv(c, heapfirst', heaplast', used', heapptr', Donations \ donated)
  BY <1>7, <1>8 DEF ListInv, HeapInv
<1>10. f \notin DOMAIN used
  BY <1>4, <1>5 DEF HeapInv, Spaced, Piece, Clear
<1>11. Granted(t, r)
  BY <1>3, <1>4, <1>5, <1>10 DEF Granted
<1>12. PICK g : g = [at |-> f, len |-> blk[f].size]
  OBVIOUS
<1>13. g \in FreeBlocks
  BY <1>4, <1>12 DEF FreeBlocks
<1>14. FreeBlocks' = FreeBlocks \ {g}
  <2>1. FreeBlocks' = {[at |-> a, len |-> c[a].size] : a \in DOMAIN c}
    BY <1>6 DEF FreeBlocks
  <2>2. {[at |-> a, len |-> c[a].size] : a \in DOMAIN c} = {[at |-> a, len |-> blk[a].size] : a \in DOMAIN blk} \ {g}
    BY <1>4, <1>7, <1>12
  <2> QED
    BY <2>1, <2>2 DEF FreeBlocks
<1>15. UsedBlocks' = UsedBlocks \cup {g}
  <2>1. PICK v : v = used'
    OBVIOUS
  <2>2. DOMAIN v = DOMAIN used \cup {f} /\ v[f] = blk[f].size /\ \A x \in DOMAIN used : v[x] = used[x]
    BY <2>1, <1>3, <1>10 DEF With
  <2>3. UsedBlocks' = {[at |-> a, len |-> v[a]] : a \in DOMAIN v}
    BY <2>1 DEF UsedBlocks
  <2>4. {[at |-> a, len |-> v[a]] : a \in DOMAIN v} = {[at |-> a, len |-> used[a]] : a \in DOMAIN used} \cup {g}
    BY <2>2, <1>12
  <2> QED
    BY <2>3, <2>4 DEF UsedBlocks
<1>16. Abstract!GrantWhole(g)
  BY <1>3, <1>14, <1>15 DEF Abstract!GrantWhole
<1> QED
  BY <1>6, <1>9, <1>11, <1>13, <1>16


\* The blocks of a table of sizes.
BlocksOf(u) == {[at |-> x, len |-> u[x]] : x \in DOMAIN u}

\* A table of sizes without one of its blocks.
LEMMA BlocksWithout ==
    ASSUME NEW u, NEW a \in DOMAIN u, NEW v, v = Without(u, a)
    PROVE  /\ DOMAIN v = DOMAIN u \ {a} /\ \A x \in DOMAIN v : v[x] = u[x]
           /\ BlocksOf(v) = BlocksOf(u) \ {[at |-> a, len |-> u[a]]}
<1>1. DOMAIN v = DOMAIN u \ {a} /\ \A x \in DOMAIN v : v[x] = u[x]
  BY DEF Without, Restrict
<1>2. {[at |-> x, len |-> v[x]] : x \in DOMAIN v} = {[at |-> x, len |-> u[x]] : x \in DOMAIN u \ {a}}
  BY <1>1
<1>3. {[at |-> x, len |-> u[x]] : x \in DOMAIN u \ {a}}
         = {[at |-> x, len |-> u[x]] : x \in DOMAIN u} \ {[at |-> a, len |-> u[a]]}
  OBVIOUS
<1> QED
  BY <1>1, <1>2, <1>3 DEF BlocksOf

\* The used blocks after one more, as the abstract heap sees them.
LEMMA UsedWith ==
    ASSUME NEW a, a \notin DOMAIN used, NEW n, used' = With(used, a, n)
    PROVE  UsedBlocks' = UsedBlocks \cup {[at |-> a, len |-> n]}
<1>1. PICK v : v = used'
  OBVIOUS
<1>2. BlocksOf(v) = BlocksOf(used) \cup {[at |-> a, len |-> n]}
  <2>1. v = With(used, a, n)
    BY <1>1
  <2>2. DOMAIN v = DOMAIN used \cup {a} /\ v[a] = n /\ \A x \in DOMAIN used : v[x] = used[x]
    BY <2>1 DEF With
  <2> QED
    BY <2>2 DEF BlocksOf
<1> QED
  BY <1>1, <1>2 DEF UsedBlocks, BlocksOf

\* The used blocks after one less.
LEMMA UsedWithout ==
    ASSUME NEW a \in DOMAIN used, used' = Without(used, a)
    PROVE  UsedBlocks' = UsedBlocks \ {[at |-> a, len |-> used[a]]}
<1>1. PICK v : v = used'
  OBVIOUS
<1>2. BlocksOf(v) = BlocksOf(used) \ {[at |-> a, len |-> used[a]]}
  BY <1>1, BlocksWithout
<1> QED
  BY <1>1, <1>2 DEF UsedBlocks, BlocksOf

\* malloc cuts the upper end off a free block.
LEMMA SliceKeeps ==
    ASSUME HeapInv, NEW t \in Nat, t >= MinBlock, NEW r, Slice(t, r)
    PROVE  /\ ListInv(blk', heapfirst', heaplast', used', heapptr', Donations \ donated)
           /\ Granted(t, r)
           /\ Abstract!TypeOK => \E f \in FreeBlocks, n \in Abstract!Sizes : Abstract!GrantSlice(f, n)
<1>1. PICK f : f = FirstFit(t)
  OBVIOUS
<1>2. PICK rest : rest = blk[f].size - t
  OBVIOUS
<1>3. /\ f # Null /\ rest >= MinBlock /\ heapptr' = heapptr
      /\ blk' = [blk EXCEPT ![f].size = rest]
      /\ heapfirst' = heapfirst /\ heaplast' = heaplast
      /\ used' = With(used, f + rest, t) /\ req' = With(req, f + rest, r)
  BY <1>1, <1>2 DEF Slice, Hand
<1>4. f \in DOMAIN blk /\ blk[f].size >= t
  BY <1>1, <1>3, FirstFitSound DEF HeapInv, Nodes
<1>5. /\ f \in Nat /\ blk[f].size \in Nat /\ blk[f].size > 0
      /\ MinBlock \in Nat /\ MinBlock > 0 /\ t > 0
      /\ rest \in Nat /\ rest > 0 /\ blk[f].size = rest + t /\ f + rest \in Nat
  <2>1. f \in Nat /\ blk[f].size \in Nat /\ blk[f].size > 0
    BY <1>4 DEF HeapInv, Spaced, Piece
  <2>2. MinBlock \in Nat /\ MinBlock > 0
    BY HeapAssumption
  <2> QED
    BY <2>1, <2>2, <1>2, <1>3, <1>4
<1>6. PICK c : c = blk'
  OBVIOUS
<1>7. /\ Linked(c, heapfirst', heaplast') /\ DOMAIN c = DOMAIN blk
      /\ \A x \in DOMAIN c : c[x].size = IF x = f THEN rest ELSE blk[x].size
  <2>1. Linked(blk, heapfirst, heaplast) /\ rest \in Nat \ {0} /\ c = CutTo(blk, f, rest)
    BY <1>3, <1>5, <1>6 DEF HeapInv, CutTo
  <2> QED
    BY <2>1, <1>3, <1>4, Cut
<1>8. Spaced(c, used', heapptr', Donations \ donated)
  BY <1>3, <1>4, <1>5, <1>7, SpacedSlice DEF HeapInv
<1>9. ListInv(c, heapfirst', heaplast', used', heapptr', Donations \ donated)
  BY <1>3, <1>7, <1>8 DEF ListInv, HeapInv
<1>10. f + rest \notin DOMAIN used
  <2>1. ASSUME f + rest \in DOMAIN used PROVE FALSE
    <3>1. /\ Clear(f, blk[f].size, f + rest, used[f + rest])
          /\ used[f + rest] \in Nat /\ used[f + rest] > 0
      BY <2>1, <1>4 DEF HeapInv, Spaced, Piece
    <3> QED
      BY <3>1, <1>5 DEF Clear
  <2> QED
    BY <2>1
<1>11. Granted(t, r)
  BY <1>3, <1>5, <1>10 DEF Granted
<1>12. PICK g : g = [at |-> f, len |-> blk[f].size]
  OBVIOUS
<1>13. g \in FreeBlocks /\ g.at = f /\ g.len = blk[f].size /\ Abstract!EndOf(g) - t = f + rest /\ g.len - t = rest
  BY <1>4, <1>5, <1>12 DEF FreeBlocks, Abstract!EndOf
<1>14. FreeBlocks' = (FreeBlocks \ {g}) \cup {[at |-> f, len |-> rest]}
  <2>1. FreeBlocks' = {[at |-> a, len |-> c[a].size] : a \in DOMAIN c}
    BY <1>6 DEF FreeBlocks
  <2>2. {[at |-> a, len |-> c[a].size] : a \in DOMAIN c}
           = {[at |-> a, len |-> c[a].size] : a \in DOMAIN blk \ {f}} \cup {[at |-> f, len |-> rest]}
    BY <1>4, <1>7
  <2>3. {[at |-> a, len |-> c[a].size] : a \in DOMAIN blk \ {f}}
           = {[at |-> a, len |-> blk[a].size] : a \in DOMAIN blk \ {f}}
    BY <1>7
  <2>4. {[at |-> a, len |-> blk[a].size] : a \in DOMAIN blk \ {f}}
           = {[at |-> a, len |-> blk[a].size] : a \in DOMAIN blk} \ {g}
    BY <1>4, <1>12
  <2> QED
    BY <2>1, <2>2, <2>3, <2>4 DEF FreeBlocks
<1>15. UsedBlocks' = UsedBlocks \cup {[at |-> f + rest, len |-> t]}
  BY <1>3, <1>10, UsedWith
<1>16. t + MinBlock <= g.len
  BY <1>3, <1>5, <1>13
<1>17. ASSUME Abstract!TypeOK PROVE t \in Abstract!Sizes
  <2>1. Org <= f /\ f + blk[f].size <= heapptr /\ heapptr <= End /\ heapptr \in Nat
    BY <1>5, <1>13, <1>17, BlockFacts DEF Abstract!Blocks
  <2>2. t <= End - Org
    BY <2>1, <1>4, <1>5, HeapAssumption
  <2> QED
    BY <2>2, HeapAssumption DEF Abstract!Sizes
<1>18. Abstract!GrantSlice(g, t)
  BY <1>3, <1>13, <1>14, <1>15, <1>16 DEF Abstract!GrantSlice
<1> QED
  BY <1>6, <1>9, <1>11, <1>13, <1>17, <1>18

\* malloc takes the block from the top.
LEMMA TakeFromTopKeeps ==
    ASSUME HeapInv, NEW t \in Nat, t >= MinBlock, NEW r, TakeFromTop(t, r)
    PROVE  /\ ListInv(blk', heapfirst', heaplast', used', heapptr', Donations \ donated)
           /\ Granted(t, r)
           /\ Abstract!TypeOK => \E n \in Abstract!Sizes : Abstract!GrantTop(n)
<1>1. /\ heapptr + t <= End /\ heapptr' = heapptr + t
      /\ blk' = blk /\ heapfirst' = heapfirst /\ heaplast' = heaplast
      /\ used' = With(used, heapptr, t) /\ req' = With(req, heapptr, r)
  BY DEF TakeFromTop, Hand, list
<1>2. MinBlock \in Nat /\ MinBlock > 0 /\ t > 0 /\ heapptr \in Nat /\ End \in Nat /\ Org \in Nat
  BY HeapAssumption DEF HeapInv, Spaced
<1>3. Spaced(blk, used', heapptr + t, Donations \ donated)
  BY <1>1, <1>2, SpacedTop DEF HeapInv
<1>4. ListInv(blk', heapfirst', heaplast', used', heapptr', Donations \ donated)
  BY <1>1, <1>3 DEF ListInv, HeapInv
<1>5. heapptr \notin DOMAIN used
  <2>1. ASSUME heapptr \in DOMAIN used PROVE FALSE
    <3>1. Piece(heapptr, used[heapptr], heapptr)
      BY <2>1 DEF HeapInv, Spaced
    <3> QED
      BY <3>1, <1>1, <1>2 DEF Piece
  <2> QED
    BY <2>1
<1>6. Granted(t, r)
  BY <1>1, <1>2, <1>5 DEF Granted
<1>7. FreeBlocks' = FreeBlocks
  BY <1>1 DEF FreeBlocks
<1>8. UsedBlocks' = UsedBlocks \cup {[at |-> heapptr, len |-> t]}
  BY <1>1, <1>5, UsedWith
<1>9. ASSUME Abstract!TypeOK PROVE t \in Abstract!Sizes
  BY <1>1, <1>2, <1>9, BlockFacts DEF Abstract!Sizes
<1>10. Abstract!GrantTop(t)
  BY <1>1, <1>7, <1>8 DEF Abstract!GrantTop
<1> QED
  BY <1>4, <1>6, <1>9, <1>10

\* The three ways malloc finds a block, together.
LEMMA GrantKeeps ==
    ASSUME HeapInv, NEW s \in Nat, NEW r, Grant(s, r)
    PROVE  /\ ListInv(blk', heapfirst', heaplast', used', heapptr', Donations \ donated)
           /\ Granted(Total(s), r)
           /\ Abstract!TypeOK => Abstract!Next
<1>1. PICK t \in Nat : t = Total(s) /\ t >= MinBlock
  BY TotalFits
<1>2. CASE TakeWhole(t, r)
  BY <1>1, <1>2, TakeWholeKeeps DEF Abstract!Next
<1>3. CASE Slice(t, r)
  BY <1>1, <1>3, SliceKeeps DEF Abstract!Next
<1>4. CASE TakeFromTop(t, r)
  BY <1>1, <1>4, TakeFromTopKeeps DEF Abstract!Next
<1> QED
  BY <1>1, <1>2, <1>3, <1>4 DEF Grant


-----------------------------------------------------------------------------
(* free.                                                                   *)

\* What the invariant says of the blocks one by one.
LEMMA HeapFacts ==
    ASSUME HeapInv
    PROVE  /\ Word \in Nat /\ End \in Nat /\ End < Word /\ Null = 0
           /\ heapptr \in Nat /\ heapptr > 0 /\ heapptr <= End
           /\ \A a \in DOMAIN blk : /\ a \in Nat /\ a > 0 /\ a < Word /\ a # Null
                                    /\ blk[a].size \in Nat /\ blk[a].size > 0 /\ a + blk[a].size <= Word
           /\ \A a \in DOMAIN used : /\ a \in Nat /\ a > 0 /\ a < Word /\ a \notin DOMAIN blk
                                     /\ used[a] \in Nat /\ used[a] > 0 /\ a + used[a] <= Word
<1>1. Word \in Nat /\ End \in Nat /\ End < Word /\ Null = 0
  BY HeapAssumption DEF Null
<1>2. heapptr \in Nat /\ heapptr > 0 /\ heapptr <= End
  BY DEF HeapInv, Spaced
<1>3. ASSUME NEW a \in DOMAIN blk
      PROVE  /\ a \in Nat /\ a > 0 /\ a < Word /\ a # Null
             /\ blk[a].size \in Nat /\ blk[a].size > 0 /\ a + blk[a].size <= Word
  BY <1>1 DEF HeapInv, Spaced, Piece
<1>4. ASSUME NEW a \in DOMAIN used
      PROVE  /\ a \in Nat /\ a > 0 /\ a < Word
             /\ used[a] \in Nat /\ used[a] > 0 /\ a + used[a] <= Word
  BY <1>1 DEF HeapInv, Spaced, Piece
<1>5. ASSUME NEW a \in DOMAIN used, a \in DOMAIN blk PROVE FALSE
  <2>1. Clear(a, blk[a].size, a, used[a])
    BY <1>5 DEF HeapInv, Spaced
  <2> QED
    BY <2>1, <1>3, <1>4, <1>5 DEF Clear
<1> QED
  BY <1>1, <1>2, <1>3, <1>4, <1>5

\* The address comparisons of free and realloc, made modulo the width of an
\* address, tell whether a block ends where the heap top or another block is.
LEMMA EndsAt ==
    ASSUME HeapInv
    PROVE  /\ \A b \in DOMAIN used : AtTop(b) <=> b + used[b] = heapptr
           /\ \A b \in DOMAIN used, a \in DOMAIN blk :
                 (a + blk[a].size) % Word = b <=> a + blk[a].size = b
<1>1. ASSUME NEW b \in DOMAIN used PROVE AtTop(b) <=> b + used[b] = heapptr
  <2>1. /\ b \in Nat /\ b > 0 /\ used[b] \in Nat /\ b + used[b] <= Word
        /\ heapptr \in Nat /\ heapptr > 0 /\ heapptr < Word
    BY HeapFacts
  <2>2. (b + used[b]) % Word = heapptr <=> b + used[b] = heapptr
    BY ONLY <2>1, NoWrap
  <2> QED
    BY <2>2 DEF AtTop
<1>2. ASSUME NEW b \in DOMAIN used, NEW a \in DOMAIN blk
      PROVE  (a + blk[a].size) % Word = b <=> a + blk[a].size = b
  <2>1. /\ a \in Nat /\ a > 0 /\ blk[a].size \in Nat /\ a + blk[a].size <= Word
        /\ b \in Nat /\ b > 0 /\ b < Word
    BY HeapFacts
  <2> QED
    BY ONLY <2>1, NoWrap
<1> QED
  BY <1>1, <1>2

\* Without donated memory every block lies below the top.
Below == /\ Org \in Nat /\ Org <= heapptr
         /\ \A a \in DOMAIN blk : a + blk[a].size <= heapptr
         /\ \A a \in DOMAIN used : a + used[a] <= heapptr

\* The type invariant of the abstract heap says so.
LEMMA TypeBelow == ASSUME HeapInv, Abstract!TypeOK PROVE Below
<1>1. ASSUME NEW a \in DOMAIN blk PROVE a + blk[a].size <= heapptr
  <2>1. PICK b : b = [at |-> a, len |-> blk[a].size]
    OBVIOUS
  <2>2. b \in Abstract!Blocks /\ b.at = a /\ b.len = blk[a].size
    BY <2>1 DEF Abstract!Blocks, FreeBlocks
  <2> QED
    BY <2>2, BlockFacts
<1>2. ASSUME NEW a \in DOMAIN used PROVE a + used[a] <= heapptr
  <2>1. PICK b : b = [at |-> a, len |-> used[a]]
    OBVIOUS
  <2>2. b \in Abstract!Blocks /\ b.at = a /\ b.len = used[a]
    BY <2>1 DEF Abstract!Blocks, UsedBlocks
  <2> QED
    BY <2>2, BlockFacts
<1> QED
  BY <1>1, <1>2, BlockFacts, HeapAssumption DEF Below

\* The block the program frees, as the abstract heap sees it.
Held(b) == [at |-> b, len |-> used[b]]

\* Freeing the block at the top when no free block touches it.
LEMMA LowerKeeps ==
    ASSUME HeapInv, NEW b \in DOMAIN used, Lower(b), used' = Without(used, b)
    PROVE  /\ ListInv(blk', heapfirst', heaplast', used', heapptr', Donations \ donated)
           /\ Abstract!TypeOK => Held(b) \in UsedBlocks /\ Abstract!FreeTop(Held(b))
<1>1. /\ heapptr' = b /\ blk' = blk /\ heapfirst' = heapfirst /\ heaplast' = heaplast
      /\ AtTop(b) /\ ~LastTouches(b)
  BY DEF Lower, list
<1>2. b + used[b] = heapptr
  BY <1>1, EndsAt
<1>3. PICK v : v = used'
  OBVIOUS
<1>4. Spaced(blk, v, heapptr, Donations \ donated) /\ Lone(b, used[b], blk, v, Donations \ donated)
  BY <1>3, LoneUsed DEF HeapInv
<1>5. Spaced(blk, v, b, Donations \ donated)
  BY <1>2, <1>4, HeapFacts, SpacedLower
<1>6. ListInv(blk', heapfirst', heaplast', used', heapptr', Donations \ donated)
  BY <1>1, <1>3, <1>5 DEF ListInv, HeapInv
<1>7. PICK u : u = Held(b)
  OBVIOUS
<1>8. u \in UsedBlocks /\ u.at = b /\ u.len = used[b] /\ Abstract!EndOf(u) = heapptr
  BY <1>2, <1>7 DEF Held, UsedBlocks, Abstract!EndOf
<1>9. FreeBlocks' = FreeBlocks /\ UsedBlocks' = UsedBlocks \ {u}
  BY <1>1, <1>7, UsedWithout DEF FreeBlocks, Held
<1>10. ASSUME Abstract!TypeOK PROVE Abstract!Before(u) = {}
  <2>1. SUFFICES ASSUME NEW x \in DOMAIN blk, x + blk[x].size = b PROVE FALSE
    BY <1>8 DEF Abstract!Before, Abstract!EndOf, FreeBlocks
  <2>2. Below
    BY <1>10, TypeBelow
  <2>3. PrevIn(DOMAIN blk, Word, heaplast)
    BY DEF HeapInv, Linked
  <2>4. heaplast # Null /\ heaplast \in DOMAIN blk /\ x <= heaplast
    BY <2>1, <2>3, HeapFacts DEF PrevIn
  <2>5. CASE x = heaplast
    <3>1. (heaplast + blk[heaplast].size) % Word = b
      BY <2>1, <2>4, <2>5, EndsAt
    <3> QED
      BY <3>1, <2>4, <1>1 DEF LastTouches
  <2>6. CASE x # heaplast
    <3>1. /\ Clear(x, blk[x].size, heaplast, blk[heaplast].size)
          /\ Clear(heaplast, blk[heaplast].size, b, used[b])
      BY <2>4, <2>6 DEF HeapInv, Spaced
    <3>2. heaplast + blk[heaplast].size <= heapptr
      BY <2>2, <2>4 DEF Below
    <3> QED
      BY <2>1, <2>4, <2>6, <3>1, <3>2, <1>2, HeapFacts DEF Clear
  <2> QED
    BY <2>5, <2>6
<1>11. ASSUME Abstract!TypeOK PROVE Abstract!FreeTop(u)
  BY <1>1, <1>8, <1>9, <1>10, <1>11 DEF Abstract!FreeTop
<1> QED
  BY <1>6, <1>7, <1>8, <1>11

\* Freeing the block at the top when the last free block touches it.
LEMMA LowerFarKeeps ==
    ASSUME HeapInv, NEW b \in DOMAIN used, LowerFar(b), used' = Without(used, b)
    PROVE  /\ ListInv(blk', heapfirst', heaplast', used', heapptr', Donations \ donated)
           /\ Abstract!TypeOK /\ Abstract!NoOverlap
                 => Held(b) \in UsedBlocks /\ Abstract!FreeTop(Held(b))
<1>1. PICK a, p : a = heaplast /\ p = blk[a].prev
  OBVIOUS
<1>2. /\ heapptr' = a /\ heaplast' = p /\ heapfirst' = IF p = Null THEN Null ELSE heapfirst
      /\ blk' = Without(WithNext(blk, p, Null), a)
      /\ AtTop(b) /\ a # Null /\ (a + blk[a].size) % Word = b
  BY <1>1 DEF LowerFar, LastTouches
<1>3. a \in DOMAIN blk
  <2>1. PrevIn(DOMAIN blk, Word, heaplast)
    BY DEF HeapInv, Linked
  <2> QED
    BY <2>1, <1>1, <1>2 DEF PrevIn
<1>4. b + used[b] = heapptr /\ a + blk[a].size = b
  <2>1. b + used[b] = heapptr
    BY <1>2, EndsAt
  <2>2. a + blk[a].size = b
    BY <1>2, <1>3, EndsAt
  <2> QED
    BY <2>1, <2>2
<1>5. blk[a].next = Null
  <2>1. NextIn(DOMAIN blk, a, blk[a].next) /\ PrevIn(DOMAIN blk, Word, a)
    BY <1>1, <1>3 DEF HeapInv, Linked
  <2> QED
    BY <2>1, <1>2, <1>3, HeapFacts DEF NextIn, PrevIn
<1>6. PICK c : c = blk'
  OBVIOUS
<1>7. PICK n : n = Null
  OBVIOUS
<1>8. /\ Linked(c, heapfirst', heaplast') /\ DOMAIN c = DOMAIN blk \ {a}
      /\ \A x \in DOMAIN c : c[x].size = blk[x].size
  <2>1. c = Unlink(blk, a)
    BY <1>1, <1>2, <1>5, <1>6 DEF WithPrev, Unlink
  <2>2. p = blk[a].prev /\ n = blk[a].next /\ Linked(blk, heapfirst, heaplast)
    BY <1>1, <1>5, <1>7 DEF HeapInv
  <2>3. /\ heapfirst' = IF blk[a].prev = Null THEN blk[a].next ELSE heapfirst
        /\ heaplast' = IF blk[a].next = Null THEN blk[a].prev ELSE heaplast
    BY <2>2, <1>2, <1>7
  <2> QED
    <3>1. OffList(blk, a, c)
      BY ONLY <2>1, <2>2, <1>3, UnlinkedSizes
    <3>2. Linked(c, heapfirst', heaplast')
      BY ONLY <2>1, <2>2, <2>3, <1>3, Unlinked
    <3> QED
      BY <3>1, <3>2 DEF OffList
<1>9. PICK v : v = used'
  OBVIOUS
<1>10. /\ Spaced(blk, v, heapptr, Donations \ donated) /\ Lone(b, used[b], blk, v, Donations \ donated)
       /\ DOMAIN v = DOMAIN used \ {b} /\ \A x \in DOMAIN v : v[x] = used[x]
  <2>1. Spaced(blk, v, heapptr, Donations \ donated) /\ Lone(b, used[b], blk, v, Donations \ donated)
    BY <1>9, LoneUsed DEF HeapInv
  <2>2. DOMAIN v = DOMAIN used \ {b} /\ \A x \in DOMAIN v : v[x] = used[x]
    BY <1>9 DEF Without, Restrict
  <2> QED
    BY <2>1, <2>2
<1>11. Spaced(c, v, heapptr, Donations \ donated)
  BY <1>8, <1>10, SpacedLess
<1>12. Lone(b, used[b], c, v, Donations \ donated)
  BY <1>8, <1>10 DEF Lone
<1>13. Spaced(c, v, b, Donations \ donated)
  BY <1>4, <1>11, <1>12, HeapFacts, SpacedLower
<1>14. Lone(a, blk[a].size, c, v, Donations \ donated)
  BY <1>3, <1>8, <1>10 DEF Lone, Spaced, HeapInv, Clear
<1>15. Spaced(c, v, a, Donations \ donated)
  BY <1>3, <1>4, <1>13, <1>14, HeapFacts, SpacedLower
<1>16. ListInv(blk', heapfirst', heaplast', used', heapptr', Donations \ donated)
  <2>1. ListInv(c, heapfirst', heaplast', v, a, Donations \ donated)
    BY <1>8, <1>15 DEF ListInv, HeapInv
  <2> QED
    BY <2>1, <1>2, <1>6, <1>9
<1>17. PICK u : u = Held(b)
  OBVIOUS
<1>18. u \in UsedBlocks /\ u.at = b /\ u.len = used[b] /\ Abstract!EndOf(u) = heapptr
  BY <1>4, <1>17 DEF Held, UsedBlocks, Abstract!EndOf
<1>19. PICK g : g = [at |-> a, len |-> blk[a].size]
  OBVIOUS
<1>20. g \in FreeBlocks /\ g.at = a /\ Abstract!EndOf(g) = b /\ g \in Abstract!Before(u)
  BY <1>3, <1>4, <1>18, <1>19 DEF FreeBlocks, Abstract!EndOf, Abstract!Before
<1>21. UsedBlocks' = UsedBlocks \ {u}
  BY <1>17, UsedWithout DEF Held
<1>22. FreeBlocks' = FreeBlocks \ {g}
  <2>1. FreeBlocks' = {[at |-> x, len |-> c[x].size] : x \in DOMAIN c}
    BY <1>6 DEF FreeBlocks
  <2>2. {[at |-> x, len |-> c[x].size] : x \in DOMAIN c} = {[at |-> x, len |-> blk[x].size] : x \in DOMAIN blk} \ {g}
    BY <1>3, <1>8, <1>19
  <2> QED
    BY <2>1, <2>2 DEF FreeBlocks
<1>23. ASSUME Abstract!TypeOK, Abstract!NoOverlap PROVE Abstract!FreeTop(u)
  <2>1. Abstract!Before(u) = {g}
    <3>1. \A h \in Abstract!Before(u) : h = g
      BY <1>18, <1>20, <1>23, DistinctAt DEF Abstract!Before, Abstract!Blocks
    <3> QED
      BY <3>1, <1>20
  <2> QED
    BY <2>1, <1>2, <1>18, <1>20, <1>21, <1>22 DEF Abstract!FreeTop
<1> QED
  BY <1>16, <1>17, <1>18, <1>23


\* Entering a piece of memory that is apart from everything known keeps the
\* list sorted and its blocks apart, and the free blocks that touch the piece
\* become one block with it.
LEMMA EnterKeeps ==
    ASSUME NEW u, NEW U, ListInv(blk, heapfirst, heaplast, u, heapptr, U),
           NEW f, NEW s, Piece(f, s, heapptr), Lone(f, s, blk, u, U), s >= MinBlock, Enter(f, s)
    PROVE  ListInv(blk', heapfirst', heaplast', u, heapptr, U)
<1>1. /\ Linked(blk, heapfirst, heaplast) /\ Spaced(blk, u, heapptr, U)
      /\ \A x \in DOMAIN blk : blk[x].size >= MinBlock
  BY DEF ListInv
<1>2. /\ \A x \in DOMAIN blk : /\ x \in Nat /\ blk[x].size \in Nat /\ blk[x].size > 0
      /\ f \in Nat /\ s \in Nat /\ f > 0 /\ s > 0 /\ f + s <= Word /\ Word \in Nat /\ MinBlock \in Nat
  BY <1>1, HeapAssumption DEF Spaced, Piece
<1>3. f \in 1 .. Word - 1
  BY <1>2
<1>4. ASSUME f \in DOMAIN blk PROVE FALSE
  <2>1. Clear(f, s, f, blk[f].size)
    BY <1>4 DEF Lone
  <2> QED
    BY <2>1, <1>2, <1>4 DEF Clear
<1>5. PICK c : c = blk'
  OBVIOUS
<1>6. Linked(c, heapfirst', heaplast') /\ EntersAs(blk, f, s, c)
  <2>1. f \notin DOMAIN blk /\ s \in Nat \ {0}
    BY <1>2, <1>4
  <2> QED
    BY <2>1, <1>1, <1>3, <1>5, Entered
<1>7. PICK left, right \in DOMAIN blk \cup {Null}, jl, jr \in BOOLEAN, start \in Nat :
         Joined(blk, f, s, left, right, jl, jr, start, c)
  BY <1>6 DEF EntersAs
<1>8. Spaced(c, u, heapptr, U)
  BY ONLY <1>1, <1>7, SpacedEnter, Piece(f, s, heapptr), Lone(f, s, blk, u, U)
<1>9. ASSUME NEW x \in DOMAIN c PROVE c[x].size >= MinBlock
  <2>1. CASE x = start
    <3>1. (jl => blk[left].size \in Nat) /\ (jr => blk[right].size \in Nat)
      BY <1>2, <1>7 DEF Joined
    <3> QED
      BY <2>1, <3>1, <1>2, <1>7 DEF Joined
  <2>2. CASE x # start
    BY <2>2, <1>1, <1>7 DEF Joined
  <2> QED
    BY <2>1, <2>2
<1> QED
  BY <1>5, <1>6, <1>8, <1>9 DEF ListInv

\* A block of the free list, as the abstract heap sees it.
Listed(x) == [at |-> x, len |-> blk[x].size]

\* Freeing a block that is not at the top joins it to the free blocks that
\* touch it, as the abstract heap does.
LEMMA EnterFrees ==
    ASSUME HeapInv, NEW b \in DOMAIN used, ~AtTop(b), Enter(b, used[b]),
           heapptr' = heapptr, used' = Without(used, b)
    PROVE  Held(b) \in UsedBlocks /\ Abstract!FreeInner(Held(b))
<1>1. PICK u : u = Held(b)
  OBVIOUS
<1>2. PICK D : D = DOMAIN blk
  OBVIOUS
<1>3. PICK s : s = used[b]
  OBVIOUS
<1>4. /\ u \in UsedBlocks /\ u.at = b /\ u.len = s /\ Abstract!EndOf(u) = b + s
      /\ b \in Nat /\ b > 0 /\ b < Word /\ b \notin D /\ s \in Nat /\ s > 0 /\ b + s <= Word
  BY <1>1, <1>2, <1>3, HeapFacts DEF Held, UsedBlocks, Abstract!EndOf
<1>5. \A x \in D : /\ x \in Nat /\ x > 0 /\ x < Word /\ x # Null
                   /\ blk[x].size \in Nat /\ blk[x].size > 0 /\ x + blk[x].size <= Word
  BY <1>2, HeapFacts
<1>6. Abstract!EndOf(u) # heapptr
  BY <1>3, <1>4, EndsAt
<1>7. UsedBlocks' = UsedBlocks \ {u}
  BY <1>1, UsedWithout DEF Held
<1>8. PICK c : c = blk'
  OBVIOUS
<1>9. EntersAs(blk, b, s, c)
  <2>1. Linked(blk, heapfirst, heaplast)
    BY DEF HeapInv
  <2>2. b \in 1 .. Word - 1 /\ s \in Nat \ {0} /\ b \notin DOMAIN blk /\ Enter(b, s)
    BY <1>2, <1>3, <1>4, HeapFacts
  <2> QED
    BY <2>1, <2>2, <1>8, Entered
<1>10. PICK left, right \in D \cup {Null}, jl, jr \in BOOLEAN, start \in Nat :
          /\ PrevIn(D, b, left) /\ NextIn(D, b, right)
          /\ Joined(blk, b, s, left, right, jl, jr, start, c)
  BY <1>2, <1>9 DEF EntersAs
<1>11. Touches(blk, b, s, left, right, jl, jr)
  <2>1. Spaced(blk, Without(used, b), heapptr, Donations \ donated) /\ Piece(b, s, heapptr)
        /\ Lone(b, s, blk, Without(used, b), Donations \ donated)
    BY <1>3, LoneUsed DEF HeapInv
  <2>2. left \in DOMAIN blk \cup {Null} /\ right \in DOMAIN blk \cup {Null}
    BY <1>2, <1>10
  <2> QED
    BY ONLY <2>1, <2>2, <1>10, JoinedTouches
\* The blocks joined to u are exactly the free blocks that touch it.
<1>12. PICK L : L = IF jl THEN {left} ELSE {}
  OBVIOUS
<1>13. PICK R : R = IF jr THEN {right} ELSE {}
  OBVIOUS
<1>14. \A x \in D : x \in L <=> x + blk[x].size = b
  <2>1. ASSUME NEW x \in D, x + blk[x].size = b PROVE x = left
    <3>1. left # Null /\ left \in D /\ x <= left /\ left < b
      BY <2>1, <1>5, <1>10 DEF PrevIn
    <3>2. x # left => Clear(x, blk[x].size, left, blk[left].size)
      BY <3>1, <1>2 DEF HeapInv, Spaced
    <3> QED
      BY <2>1, <3>1, <3>2, <1>4, <1>5 DEF Clear
  <2>2. ASSUME NEW x \in D, x + blk[x].size = b PROVE jl
    <3>1. x = left
      BY <2>1, <2>2
    <3>2. (left + blk[left].size) % Word = b
      BY <2>2, <3>1, <1>2, EndsAt
    <3> QED
      BY <2>2, <3>1, <3>2, <1>5, <1>10 DEF Joined
  <2>3. jl => left + blk[left].size = b
    BY <1>11 DEF Touches
  <2> QED
    BY <2>1, <2>2, <2>3, <1>12
<1>15. \A x \in D : x \in R <=> b + s = x
  <2>1. ASSUME NEW x \in D, b + s = x PROVE x = right
    <3>1. right # Null /\ right \in D /\ right <= x /\ b < right
      BY <2>1, <1>4, <1>5, <1>10 DEF NextIn
    <3>2. Clear(right, blk[right].size, b, used[b])
      BY <3>1, <1>2 DEF HeapInv, Spaced
    <3> QED
      BY <2>1, <3>1, <3>2, <1>3, <1>4, <1>5 DEF Clear
  <2>2. ASSUME NEW x \in D, b + s = x PROVE jr
    <3>1. x = right
      BY <2>1, <2>2
    <3>2. (b + s) % Word = right
      BY <2>2, <3>1, <1>4, <1>5, HeapFacts, NoWrap
    <3> QED
      BY <2>2, <3>1, <3>2, <1>5, <1>10 DEF Joined
  <2>3. jr => b + s = right
    BY <1>11 DEF Touches
  <2> QED
    BY <2>1, <2>2, <2>3, <1>13
<1>16. L \subseteq D /\ R \subseteq D
  BY <1>2, <1>11, <1>12, <1>13 DEF Touches
<1>17. Abstract!Before(u) = {Listed(x) : x \in L}
  BY <1>2, <1>4, <1>14, <1>16 DEF Abstract!Before, Abstract!EndOf, FreeBlocks, Listed
<1>18. Abstract!After(u) = {Listed(x) : x \in R}
  BY <1>2, <1>4, <1>15, <1>16 DEF Abstract!After, Abstract!EndOf, FreeBlocks, Listed
<1>19. PICK n : n = c[start].size
  OBVIOUS
<1>20. PICK lo : lo = start
  OBVIOUS
<1>21. PICK hi : hi = IF jr THEN right + blk[right].size ELSE b + s
  OBVIOUS
<1>22. n = hi - lo
  <2>1. /\ jl => left + blk[left].size = b /\ left \in D
        /\ jr => b + s = right /\ right \in D
    BY <1>2, <1>11 DEF Touches
  <2>2. /\ start = IF jl THEN left ELSE b
        /\ n = (IF jl THEN blk[left].size ELSE 0) + s + (IF jr THEN blk[right].size ELSE 0)
    BY <1>10, <1>19 DEF Joined
  <2> QED
    BY <2>1, <2>2, <1>4, <1>5, <1>20, <1>21
<1>23. lo \in IF Abstract!Before(u) = {} THEN {u.at} ELSE {f.at : f \in Abstract!Before(u)}
  <2>1. CASE jl
    <3>1. Abstract!Before(u) = {Listed(left)} /\ lo = left
      BY <2>1, <1>10, <1>12, <1>17, <1>20 DEF Joined
    <3> QED
      BY <3>1 DEF Listed
  <2>2. CASE ~jl
    <3>1. Abstract!Before(u) = {} /\ lo = b
      BY <2>2, <1>10, <1>12, <1>17, <1>20 DEF Joined
    <3> QED
      BY <3>1, <1>4
  <2> QED
    BY <2>1, <2>2
<1>24. hi \in IF Abstract!After(u) = {} THEN {Abstract!EndOf(u)} ELSE {Abstract!EndOf(f) : f \in Abstract!After(u)}
  <2>1. CASE jr
    <3>1. Abstract!After(u) = {Listed(right)} /\ hi = right + blk[right].size
      BY <2>1, <1>13, <1>18, <1>21
    <3> QED
      BY <3>1 DEF Listed, Abstract!EndOf
  <2>2. CASE ~jr
    <3>1. Abstract!After(u) = {} /\ hi = b + s
      BY <2>2, <1>13, <1>18, <1>21
    <3> QED
      BY <3>1, <1>4
  <2> QED
    BY <2>1, <2>2
<1>25. /\ DOMAIN c = (D \ (L \cup R)) \cup {start} /\ start \notin D \ (L \cup R)
       /\ \A x \in D \ (L \cup R) : c[x].size = blk[x].size
  <2>1. /\ DOMAIN c = (D \ R) \cup {start} /\ start = IF jl THEN left ELSE b
        /\ \A x \in DOMAIN c \ {start} : c[x].size = blk[x].size
    BY <1>2, <1>10, <1>13 DEF Joined
  <2>2. CASE jl
    BY <2>1, <2>2, <1>12
  <2>3. CASE ~jl
    BY <2>1, <2>3, <1>4, <1>12
  <2> QED
    BY <2>2, <2>3
<1>26. FreeBlocks' = {Listed(x) : x \in D \ (L \cup R)} \cup {[at |-> lo, len |-> hi - lo]}
  <2>1. FreeBlocks' = {[at |-> x, len |-> c[x].size] : x \in DOMAIN c}
    BY <1>8 DEF FreeBlocks
  <2>2. {[at |-> x, len |-> c[x].size] : x \in DOMAIN c}
           = {[at |-> x, len |-> c[x].size] : x \in D \ (L \cup R)} \cup {[at |-> lo, len |-> hi - lo]}
    <3>1. PICK T : T = D \ (L \cup R)
      OBVIOUS
    <3>2. DOMAIN c = T \cup {lo} /\ c[lo].size = hi - lo
      BY <3>1, <1>19, <1>20, <1>22, <1>25
    <3>3. {[at |-> x, len |-> c[x].size] : x \in T \cup {lo}}
             = {[at |-> x, len |-> c[x].size] : x \in T} \cup {[at |-> lo, len |-> c[lo].size]}
      OBVIOUS
    <3> QED
      BY <3>1, <3>2, <3>3
  <2>3. {[at |-> x, len |-> c[x].size] : x \in D \ (L \cup R)} = {[at |-> x, len |-> blk[x].size] : x \in D \ (L \cup R)}
    BY <1>25
  <2> QED
    BY <2>1, <2>2, <2>3 DEF Listed
<1>27. FreeBlocks \ (Abstract!Before(u) \cup Abstract!After(u)) = {Listed(x) : x \in D \ (L \cup R)}
  <2>1. FreeBlocks = {Listed(x) : x \in D}
    BY <1>2 DEF FreeBlocks, Listed
  <2>2. \A x, y \in D : Listed(x) = Listed(y) => x = y
    BY DEF Listed
  <2> QED
    BY <2>1, <2>2, <1>16, <1>17, <1>18
<1>28. Abstract!FreeInner(u)
  BY <1>6, <1>7, <1>23, <1>24, <1>26, <1>27 DEF Abstract!FreeInner
<1> QED
  BY <1>1, <1>4, <1>28


\* The block the program frees leaves the used blocks, and what it took goes
\* to the top or to the list.
LEMMA ReleaseKeeps ==
    ASSUME HeapInv, NEW b \in DOMAIN used, Release(b)
    PROVE  /\ ListInv(blk', heapfirst', heaplast', used', heapptr', Donations \ donated)
           /\ used' = Without(used, b) /\ req' = Without(req, b)
           /\ Abstract!TypeOK /\ Abstract!NoOverlap => Abstract!Next
<1>1. used' = Without(used, b) /\ req' = Without(req, b)
  BY DEF Release
<1>2. CASE Lower(b)
  <2>1. Abstract!TypeOK => Held(b) \in UsedBlocks /\ Abstract!FreeTop(Held(b))
    BY <1>1, <1>2, LowerKeeps
  <2>2. Abstract!TypeOK => Abstract!Next
    BY <2>1 DEF Abstract!Next
  <2> QED
    BY <2>2, <1>1, <1>2, LowerKeeps
<1>3. CASE LowerFar(b)
  <2>1. Abstract!TypeOK /\ Abstract!NoOverlap => Held(b) \in UsedBlocks /\ Abstract!FreeTop(Held(b))
    BY <1>1, <1>3, LowerFarKeeps
  <2>2. Abstract!TypeOK /\ Abstract!NoOverlap => Abstract!Next
    BY <2>1 DEF Abstract!Next
  <2> QED
    BY <2>2, <1>1, <1>3, LowerFarKeeps
<1>4. CASE ~AtTop(b) /\ Enter(b, used[b]) /\ heapptr' = heapptr
  <2>1. Held(b) \in UsedBlocks /\ Abstract!FreeInner(Held(b))
    BY <1>1, <1>4, EnterFrees
  <2>2. Abstract!Next
    BY <2>1 DEF Abstract!Next
  <2>3. PICK v, s, U : v = Without(used, b) /\ s = used[b] /\ U = Donations \ donated
    OBVIOUS
  <2>4. Spaced(blk, v, heapptr, U) /\ Lone(b, s, blk, v, U) /\ Piece(b, s, heapptr)
    BY <2>3, LoneUsed DEF HeapInv
  <2>5. ListInv(blk, heapfirst, heaplast, v, heapptr, U)
    BY <2>4 DEF HeapInv, ListInv
  <2>6. s >= MinBlock /\ Enter(b, s)
    BY <2>3, <1>4 DEF HeapInv
  <2>7. ListInv(blk', heapfirst', heaplast', v, heapptr, U)
    BY <2>4, <2>5, <2>6, EnterKeeps
  <2> QED
    BY <2>2, <2>3, <2>7, <1>1, <1>4
<1> QED
  BY <1>2, <1>3, <1>4 DEF Release

-----------------------------------------------------------------------------
(* _heapadd.                                                               *)

\* Memory given to the heap enters the list; what may still be given stays
\* apart from everything.
LEMMA HeapAddKeeps ==
    ASSUME HeapInv, NEW d \in Donations \ donated, HeapAdd(d)
    PROVE  ListInv(blk', heapfirst', heaplast', used', heapptr', Donations \ donated')
<1>1. PICK U : U = Donations \ donated'
  OBVIOUS
<1>2. PICK f, s : f = d.at /\ s = d.len
  OBVIOUS
<1>3. /\ U = (Donations \ donated) \ {d} /\ s >= MinBlock /\ Enter(f, s)
      /\ heapptr' = heapptr /\ used' = used
  BY <1>1, <1>2 DEF HeapAdd
<1>4. Spaced(blk, used, heapptr, U)
  BY <1>3, SpacedLess DEF HeapInv
<1>5. Piece(f, s, heapptr)
  BY <1>2 DEF HeapInv, Spaced
<1>6. Lone(f, s, blk, used, U)
  <2>1. \A x \in DOMAIN blk : Clear(f, s, x, blk[x].size)
    BY <1>2 DEF HeapInv, Spaced, Clear
  <2>2. \A x \in DOMAIN used : Clear(f, s, x, used[x])
    BY <1>2 DEF HeapInv, Spaced, Clear
  <2>3. \A e \in U : Clear(f, s, e.at, e.len)
    BY <1>2, <1>3, HeapAssumption DEF Clear
  <2> QED
    BY <2>1, <2>2, <2>3 DEF Lone
<1>7. ListInv(blk, heapfirst, heaplast, used, heapptr, U)
  BY <1>4 DEF HeapInv, ListInv
<1>8. ListInv(blk', heapfirst', heaplast', used, heapptr, U)
  BY <1>3, <1>5, <1>6, <1>7, EnterKeeps
<1> QED
  BY <1>1, <1>3, <1>8

-----------------------------------------------------------------------------
(* realloc in place.                                                       *)

\* The block at the top takes its new size, and the top ends it.
LEMMA ReallocInPlaceKeeps ==
    ASSUME RequestsFit, HeapInv, NEW b \in DOMAIN used, NEW n \in Requests, ReallocInPlace(b, n)
    PROVE  /\ ListInv(blk', heapfirst', heaplast', used', heapptr', Donations \ donated)
           /\ Abstract!TypeOK => Abstract!Next
<1>1. PICK t : t = Resized(n)
  OBVIOUS
<1>2. n \in Nat /\ n + Admin < Word /\ End + n + Admin <= Word
  BY HeapAssumption DEF RequestsFit
<1>3. t \in Nat /\ t >= MinBlock /\ t > 0 /\ (t = MinBlock \/ t = n + Admin)
  BY <1>1, <1>2, TotalFits
<1>4. /\ AtTop(b) /\ NewTop(b, n) <= End /\ heapptr' = NewTop(b, n)
      /\ used' = [used EXCEPT ![b] = t]
      /\ blk' = blk /\ heapfirst' = heapfirst /\ heaplast' = heaplast
  BY <1>1 DEF ReallocInPlace, InPlace, list
<1>5. b \in Nat /\ b > 0 /\ used[b] \in Nat /\ used[b] >= MinBlock /\ b + used[b] = heapptr
  BY <1>4, HeapFacts, EndsAt DEF HeapInv
<1>6. b + t < Word
  <2>1. /\ heapptr \in Nat /\ heapptr <= End /\ End < Word /\ End \in Nat /\ Word \in Nat
        /\ MinBlock \in Nat /\ MinBlock > 0 /\ Admin \in Nat
    BY HeapFacts, TotalFits
  <2>2. b < End
    BY <2>1, <1>5
  <2> QED
    BY <2>1, <2>2, <1>2, <1>3, <1>5
<1>7. NewTop(b, n) = b + t
  <2>1. heapptr - used[b] + t = b + t
    BY <1>3, <1>5, HeapFacts
  <2>2. Word \in Nat /\ b + t \in Nat
    BY <1>3, <1>5, HeapFacts
  <2>3. (b + t) % Word = b + t
    BY ONLY <2>2, <1>6, Z3
  <2> QED
    BY <2>1, <2>3, <1>1 DEF NewTop
<1>8. PICK v : v = used'
  OBVIOUS
<1>9. Spaced(blk, v, b + t, Donations \ donated)
  BY <1>3, <1>4, <1>5, <1>7, <1>8, SpacedResize DEF HeapInv
<1>10. ListInv(blk', heapfirst', heaplast', used', heapptr', Donations \ donated)
  <2>1. ListInv(blk, heapfirst, heaplast, v, b + t, Donations \ donated)
    BY <1>9 DEF HeapInv, ListInv
  <2> QED
    BY <2>1, <1>4, <1>7, <1>8
<1>11. ASSUME Abstract!TypeOK PROVE Abstract!Next
  <2>1. PICK u : u = Held(b)
    OBVIOUS
  <2>2. u \in UsedBlocks /\ u.at = b /\ u.len = used[b] /\ Abstract!EndOf(u) = heapptr
    BY <2>1, <1>5 DEF Held, UsedBlocks, Abstract!EndOf
  <2>3. t \in Abstract!Sizes
    <3>1. Org <= b /\ b + t <= End /\ Org \in Nat /\ End \in Nat /\ MinBlock \in Nat
      BY <2>2, <1>4, <1>7, <1>11, BlockFacts, HeapAssumption DEF Abstract!Blocks
    <3> QED
      BY <3>1, <1>3, <1>5 DEF Abstract!Sizes
  <2>4. UsedBlocks' = (UsedBlocks \ {u}) \cup {[at |-> b, len |-> t]}
    <3>1. DOMAIN v = DOMAIN used /\ v[b] = t /\ \A x \in DOMAIN used \ {b} : v[x] = used[x]
      BY <1>4, <1>8
    <3>2. UsedBlocks' = {[at |-> x, len |-> v[x]] : x \in DOMAIN v}
      BY <1>8 DEF UsedBlocks
    <3>3. {[at |-> x, len |-> v[x]] : x \in DOMAIN v}
             = {[at |-> x, len |-> v[x]] : x \in DOMAIN used \ {b}} \cup {[at |-> b, len |-> t]}
      BY <3>1
    <3>4. {[at |-> x, len |-> v[x]] : x \in DOMAIN used \ {b}}
             = {[at |-> x, len |-> used[x]] : x \in DOMAIN used \ {b}}
      BY <3>1
    <3>5. {[at |-> x, len |-> used[x]] : x \in DOMAIN used \ {b}} = UsedBlocks \ {u}
      BY <2>1 DEF UsedBlocks, Held
    <3> QED
      BY <3>2, <3>3, <3>4, <3>5
  <2>5. FreeBlocks' = FreeBlocks
    BY <1>4 DEF FreeBlocks
  <2>6. Abstract!Resize(u, t)
    BY <2>2, <2>4, <2>5, <1>4, <1>7 DEF Abstract!Resize
  <2> QED
    BY <2>2, <2>3, <2>6 DEF Abstract!Next
<1> QED
  BY <1>10, <1>11


-----------------------------------------------------------------------------
(* The invariant is inductive.                                             *)

\* What HeapInv asks for after a call.
LEMMA HeapInvAfter ==
    ASSUME ListInv(blk', heapfirst', heaplast', used', heapptr', Donations \ donated'),
           DOMAIN req' = DOMAIN used',
           \A a \in DOMAIN used' : used'[a] >= MinBlock /\ req'[a] \in Nat,
           \A m \in moving' : m.from \in DOMAIN used'
    PROVE  HeapInv'
BY DEF ListInv, HeapInv

\* One more block, of at least t bytes, for a request of r.
LEMMA AfterGrant ==
    ASSUME HeapInv, NEW t \in Nat, t >= MinBlock, NEW r \in Nat, Granted(t, r)
    PROVE  /\ DOMAIN req' = DOMAIN used'
           /\ \A a \in DOMAIN used' : used'[a] >= MinBlock /\ req'[a] \in Nat
           /\ DOMAIN used \subseteq DOMAIN used'
           /\ \A a \in DOMAIN used : used'[a] = used[a] /\ req'[a] = req[a]
           /\ \A a \in DOMAIN used' \ DOMAIN used : used'[a] \in Nat /\ used'[a] >= t /\ req'[a] = r
<1>1. PICK a \in Nat, n \in Nat : /\ a \notin DOMAIN used /\ n >= t
                                  /\ used' = With(used, a, n) /\ req' = With(req, a, r)
  BY DEF Granted
<1>2. PICK v, q : v = used' /\ q = req'
  OBVIOUS
<1>3. /\ DOMAIN v = DOMAIN used \cup {a} /\ v[a] = n /\ \A x \in DOMAIN used : v[x] = used[x]
  BY <1>1, <1>2 DEF With
<1>4. /\ DOMAIN q = DOMAIN used \cup {a} /\ q[a] = r /\ \A x \in DOMAIN used : q[x] = req[x]
  BY <1>1, <1>2 DEF With, HeapInv
<1>5. \A x \in DOMAIN v : v[x] >= MinBlock /\ q[x] \in Nat
  BY <1>1, <1>3, <1>4, TotalFits DEF HeapInv
<1> QED
  BY <1>1, <1>2, <1>3, <1>4, <1>5

\* One block less.
LEMMA AfterRelease ==
    ASSUME HeapInv, NEW b \in DOMAIN used, used' = Without(used, b), req' = Without(req, b)
    PROVE  /\ DOMAIN used' = DOMAIN used \ {b} /\ DOMAIN req' = DOMAIN used'
           /\ \A a \in DOMAIN used' : used'[a] >= MinBlock /\ req'[a] \in Nat
           /\ \A a \in DOMAIN used' : used'[a] = used[a] /\ req'[a] = req[a]
<1>1. PICK v, q : v = used' /\ q = req'
  OBVIOUS
<1>2. DOMAIN v = DOMAIN used \ {b} /\ \A x \in DOMAIN v : v[x] = used[x]
  BY <1>1 DEF Without, Restrict
<1>3. DOMAIN q = DOMAIN used \ {b} /\ \A x \in DOMAIN q : q[x] = req[x]
  BY <1>1 DEF Without, Restrict, HeapInv
<1> QED
  BY <1>1, <1>2, <1>3 DEF HeapInv

\* What the queries of malloc are: the sizes of a request, of an array and of
\* a block that moves.
LEMMA Asked ==
    ASSUME RequestsFit
    PROVE  /\ \A n \in Requests : /\ n \in Nat /\ n + Admin < Word
                                  /\ Resized(n) \in Nat /\ Resized(n) >= n /\ Resized(n) + Admin < Word
           /\ \A a \in Arrays : /\ a[1] * a[2] \in Nat /\ a[1] * a[2] + Admin < Word
                                /\ (a[1] * a[2]) % Word = a[1] * a[2]
<1>1. /\ Word \in Nat /\ Word > 0 /\ Admin \in Nat /\ MinBlock \in Nat /\ MinBlock + Admin < Word
      /\ \A n \in Requests : n \in Nat
  BY HeapAssumption
<1>2. ASSUME NEW n \in Requests
      PROVE  /\ n \in Nat /\ n + Admin < Word
             /\ Resized(n) \in Nat /\ Resized(n) >= n /\ Resized(n) + Admin < Word
  <2>1. n \in Nat /\ n + 2 * Admin < Word
    BY <1>1 DEF RequestsFit
  <2>2. n + Admin < Word
    BY <2>1, <1>1
  <2>3. Resized(n) \in Nat /\ Resized(n) >= n + Admin /\ (Resized(n) = MinBlock \/ Resized(n) = n + Admin)
    BY <2>1, <2>2, TotalFits
  <2> QED
    BY <2>1, <2>2, <2>3, <1>1
<1>3. ASSUME NEW a \in Arrays
      PROVE  /\ a[1] * a[2] \in Nat /\ a[1] * a[2] + Admin < Word
             /\ (a[1] * a[2]) % Word = a[1] * a[2]
  <2>1. PICK p : p = a[1] * a[2]
    OBVIOUS
  <2>2. p \in Nat /\ p + Admin < Word
    BY <2>1 DEF RequestsFit
  <2>3. p < Word
    BY <2>2, <1>1
  <2>4. p % Word = p
    BY ONLY <2>2, <2>3, <1>1, Z3
  <2> QED
    BY <2>1, <2>2, <2>4
<1> QED
  BY <1>2, <1>3

\* Every call keeps the invariant.
LEMMA HeapStep == ASSUME RequestsFit, HeapInv, [Next]_vars PROVE HeapInv'
<1>1. ASSUME NEW s \in Nat, NEW r \in Nat, Grant(s, r), donated' = donated
      PROVE  /\ ListInv(blk', heapfirst', heaplast', used', heapptr', Donations \ donated')
             /\ DOMAIN req' = DOMAIN used'
             /\ \A a \in DOMAIN used' : used'[a] >= MinBlock /\ req'[a] \in Nat
             /\ DOMAIN used \subseteq DOMAIN used'
  <2>1. PICK t : t = Total(s)
    OBVIOUS
  <2>2. t \in Nat /\ t >= MinBlock
    BY <2>1, TotalFits
  <2>3. Granted(t, r) /\ ListInv(blk', heapfirst', heaplast', used', heapptr', Donations \ donated)
    BY <2>1, <1>1, GrantKeeps
  <2> QED
    BY <2>2, <2>3, <1>1, AfterGrant
<1>2. ASSUME NEW n \in Requests, Malloc(n) PROVE HeapInv'
  <2>1. n \in Nat /\ Grant(n, n) /\ moving' = moving /\ donated' = donated
    BY <1>2, Asked DEF Malloc
  <2> QED
    BY <2>1, <1>1, HeapInvAfter DEF HeapInv
<1>3. ASSUME NEW a \in Arrays, Calloc(a[1], a[2]) PROVE HeapInv'
  <2>1. a[1] * a[2] \in Nat /\ Grant(a[1] * a[2], a[1] * a[2]) /\ moving' = moving /\ donated' = donated
    BY <1>3, Asked DEF Calloc
  <2> QED
    BY <2>1, <1>1, HeapInvAfter DEF HeapInv
<1>4. ASSUME NEW b \in DOMAIN used, Release(b), moving' = {}, donated' = donated PROVE HeapInv'
  BY <1>4, ReleaseKeeps, AfterRelease, HeapInvAfter
<1>5. ASSUME NEW b \in DOMAIN used, NEW n \in Requests, moving = {}, ReallocInPlace(b, n) PROVE HeapInv'
  <2>1. ListInv(blk', heapfirst', heaplast', used', heapptr', Donations \ donated')
    BY <1>5, ReallocInPlaceKeeps DEF ReallocInPlace
  <2>2. /\ used' = [used EXCEPT ![b] = Resized(n)] /\ req' = [req EXCEPT ![b] = n]
        /\ moving' = {} /\ n \in Nat /\ Resized(n) >= MinBlock /\ DOMAIN req = DOMAIN used
    BY <1>5, Asked, TotalFits DEF ReallocInPlace, HeapInv
  <2>3. PICK v, q : v = used' /\ q = req'
    OBVIOUS
  <2>4. DOMAIN v = DOMAIN used /\ DOMAIN q = DOMAIN used /\ \A a \in DOMAIN used : v[a] >= MinBlock /\ q[a] \in Nat
    BY <2>2, <2>3 DEF HeapInv
  <2> QED
    BY <2>1, <2>2, <2>3, <2>4, HeapInvAfter
<1>6. ASSUME NEW b \in DOMAIN used, NEW n \in Requests, ReallocMove(b, n) PROVE HeapInv'
  <2>1. PICK t : t = Resized(n)
    OBVIOUS
  <2>2. t \in Nat /\ n \in Nat /\ Grant(t, n) /\ donated' = donated
    BY <2>1, <1>6, Asked DEF ReallocMove
  <2>3. \A m \in moving' : m.from = b
    BY <1>6 DEF ReallocMove
  <2> QED
    BY <2>2, <2>3, <1>1, HeapInvAfter
<1>7. ASSUME NEW d \in Donations \ donated, HeapAdd(d) PROVE HeapInv'
  <2>1. used' = used /\ req' = req /\ moving' = moving
    BY <1>7 DEF HeapAdd
  <2> QED
    BY <2>1, <1>7, HeapAddKeeps, HeapInvAfter DEF HeapInv
<1>8. CASE Call
  <2>1. moving = {}
    BY <1>8 DEF Call
  <2>2. ASSUME NEW b \in DOMAIN used, Free(b) PROVE HeapInv'
    BY <2>1, <2>2, <1>4 DEF Free
  <2> QED
    BY <2>1, <2>2, <1>2, <1>3, <1>5, <1>6, <1>7, <1>8 DEF Call
<1>9. CASE ReallocDone
  <2>1. PICK m \in moving : Release(m.from) /\ moving' = {} /\ donated' = donated
    BY <1>9 DEF ReallocDone
  <2>2. m.from \in DOMAIN used
    BY DEF HeapInv
  <2> QED
    BY <2>1, <2>2, <1>4
<1>10. CASE UNCHANGED vars
  BY <1>10 DEF vars, list, HeapInv
<1> QED
  BY <1>8, <1>9, <1>10 DEF Next

\* The invariant of the heap, whatever is given to it with _heapadd.
THEOREM HeapInductive == ASSUME RequestsFit PROVE Spec => []HeapInv
BY InitHeap, HeapStep, PTL DEF Spec


-----------------------------------------------------------------------------
(* The properties of the runs.                                             *)

\* No two blocks share a byte.
LEMMA SpacedDisjoint == ASSUME HeapInv PROVE BlocksDisjoint
<1>1. ASSUME NEW a \in DOMAIN blk, NEW c \in DOMAIN blk, a # c PROVE Clear(a, blk[a].size, c, blk[c].size)
  BY <1>1 DEF HeapInv, Spaced
<1>2. ASSUME NEW a \in DOMAIN used, NEW c \in DOMAIN used, a # c PROVE Clear(a, used[a], c, used[c])
  BY <1>2 DEF HeapInv, Spaced
<1>3. ASSUME NEW a \in DOMAIN blk, NEW c \in DOMAIN used PROVE Clear(a, blk[a].size, c, used[c])
  BY DEF HeapInv, Spaced
<1>4. ASSUME NEW b \in FreeBlocks \cup UsedBlocks, NEW c \in FreeBlocks \cup UsedBlocks, b # c
      PROVE  b.at + b.len <= c.at \/ c.at + c.len <= b.at
  <2>1. CASE b \in FreeBlocks /\ c \in FreeBlocks
    BY <2>1, <1>1, <1>4 DEF FreeBlocks, Clear
  <2>2. CASE b \in UsedBlocks /\ c \in UsedBlocks
    BY <2>2, <1>2, <1>4 DEF UsedBlocks, Clear
  <2>3. CASE b \in FreeBlocks /\ c \in UsedBlocks
    BY <2>3, <1>3 DEF FreeBlocks, UsedBlocks, Clear
  <2>4. CASE b \in UsedBlocks /\ c \in FreeBlocks
    BY <2>4, <1>3 DEF FreeBlocks, UsedBlocks, Clear
  <2> QED
    BY <2>1, <2>2, <2>3, <2>4
<1> QED
  BY <1>4 DEF BlocksDisjoint

\* The free list stays doubly linked, sorted by address and complete, and no
\* two blocks share a byte, whatever the program gives the heap.
THEOREM ListStaysSound == ASSUME RequestsFit PROVE Spec => []DonationsKept
<1>1. HeapInv => DonationsKept
  BY LinkedSound, SpacedDisjoint DEF HeapInv, DonationsKept
<1> QED
  BY <1>1, HeapInductive, PTL

-----------------------------------------------------------------------------
(* What the program gets.                                                  *)

\* Both blocks of a move are there until realloc frees the old one, and what
\* it copies has room in both.
PromiseInv ==
    /\ HeapInv
    /\ \A a \in DOMAIN used : req[a] + Admin <= used[a]
    /\ \A m \in moving :
          /\ {m.from, m.to} \subseteq DOMAIN used
          /\ m.bytes + Admin <= used[m.from] /\ m.bytes + Admin <= used[m.to]
          /\ m.bytes >= req[m.from] \/ m.bytes >= req[m.to]

\* malloc hands out a block with room for the request and its size word.
LEMMA PromiseGrant ==
    ASSUME PromiseInv, NEW s \in Nat, NEW r \in Nat, r <= s, s + Admin < Word, Grant(s, r)
    PROVE  /\ \A a \in DOMAIN used' : req'[a] + Admin <= used'[a]
           /\ DOMAIN used \subseteq DOMAIN used'
           /\ \A a \in DOMAIN used : used'[a] = used[a] /\ req'[a] = req[a]
           /\ \A a \in DOMAIN used' \ DOMAIN used : used'[a] >= s + Admin /\ req'[a] = r
<1>1. PICK t : t = Total(s)
  OBVIOUS
<1>2. t \in Nat /\ t >= MinBlock /\ t >= s + Admin /\ Admin \in Nat
  BY <1>1, TotalFits
<1>3. HeapInv
  BY DEF PromiseInv
<1>4. Granted(t, r)
  BY <1>1, <1>3, GrantKeeps
<1>5. /\ DOMAIN used \subseteq DOMAIN used'
      /\ \A a \in DOMAIN used : used'[a] = used[a] /\ req'[a] = req[a]
      /\ \A a \in DOMAIN used' \ DOMAIN used : used'[a] \in Nat /\ used'[a] >= t /\ req'[a] = r
  BY <1>2, <1>3, <1>4, AfterGrant
<1>6. \A a \in DOMAIN used' \ DOMAIN used : used'[a] >= s + Admin
  BY <1>2, <1>5
<1>7. ASSUME NEW a \in DOMAIN used' PROVE req'[a] + Admin <= used'[a]
  <2>1. CASE a \in DOMAIN used
    BY <2>1, <1>5 DEF PromiseInv
  <2>2. CASE a \notin DOMAIN used
    BY <2>2, <1>2, <1>5, <1>6
  <2> QED
    BY <2>1, <2>2
<1> QED
  BY <1>5, <1>6, <1>7

\* Every call keeps the promises.
LEMMA PromiseStep == ASSUME RequestsFit, PromiseInv, [Next]_vars PROVE PromiseInv'
<1>1. HeapInv /\ HeapInv'
  BY HeapStep DEF PromiseInv
<1>2. ASSUME NEW s \in Nat, s + Admin < Word, Grant(s, s), moving = {}, moving' = moving PROVE PromiseInv'
  BY <1>1, <1>2, PromiseGrant DEF PromiseInv
<1>3. ASSUME NEW b \in DOMAIN used, Release(b), moving' = {} PROVE PromiseInv'
  <2>1. used' = Without(used, b) /\ req' = Without(req, b)
    BY <1>3 DEF Release
  <2>2. /\ DOMAIN used' \subseteq DOMAIN used
        /\ \A a \in DOMAIN used' : used'[a] = used[a] /\ req'[a] = req[a]
    BY <2>1, <1>1, AfterRelease
  <2> QED
    BY <2>2, <1>1, <1>3 DEF PromiseInv
<1>4. ASSUME NEW n \in Requests, Malloc(n), moving = {} PROVE PromiseInv'
  <2>1. n \in Nat /\ n + Admin < Word /\ Grant(n, n) /\ moving' = moving
    BY <1>4, Asked DEF Malloc
  <2> QED
    BY <2>1, <1>2, <1>4
<1>5. ASSUME NEW a \in Arrays, Calloc(a[1], a[2]), moving = {} PROVE PromiseInv'
  <2>1. PICK p : p = a[1] * a[2]
    OBVIOUS
  <2>2. p \in Nat /\ p + Admin < Word /\ Grant(p, p) /\ moving' = moving
    BY <2>1, <1>5, Asked DEF Calloc
  <2> QED
    BY <2>2, <1>2, <1>5
<1>6. ASSUME NEW b \in DOMAIN used, NEW n \in Requests, moving = {}, ReallocInPlace(b, n) PROVE PromiseInv'
  <2>1. /\ used' = [used EXCEPT ![b] = Resized(n)] /\ req' = [req EXCEPT ![b] = n]
        /\ moving' = {} /\ n \in Nat /\ Resized(n) >= n + Admin /\ DOMAIN req = DOMAIN used
    BY <1>1, <1>6, Asked, TotalFits DEF ReallocInPlace, HeapInv
  <2>2. PICK v, q : v = used' /\ q = req'
    OBVIOUS
  <2>3. DOMAIN v = DOMAIN used /\ \A a \in DOMAIN used : q[a] + Admin <= v[a]
    BY <2>1, <2>2, TotalFits DEF PromiseInv
  <2> QED
    BY <2>1, <2>2, <2>3, <1>1 DEF PromiseInv
<1>7. ASSUME NEW b \in DOMAIN used, NEW n \in Requests, moving = {}, ReallocMove(b, n) PROVE PromiseInv'
  <2>1. PICK t : t = Resized(n)
    OBVIOUS
  <2>2. t \in Nat /\ n \in Nat /\ n <= t /\ t + Admin < Word /\ Grant(t, n)
    BY <2>1, <1>7, Asked DEF ReallocMove
  <2>3. /\ \A a \in DOMAIN used' : req'[a] + Admin <= used'[a]
        /\ DOMAIN used \subseteq DOMAIN used'
        /\ \A a \in DOMAIN used : used'[a] = used[a] /\ req'[a] = req[a]
        /\ \A a \in DOMAIN used' \ DOMAIN used : used'[a] >= t + Admin /\ req'[a] = n
    BY <2>2, PromiseGrant
  <2>4. PICK k : k = CopySize(used[b], t)
    OBVIOUS
  <2>5. PICK a \in DOMAIN used' \ DOMAIN used : moving' = {[from |-> b, to |-> a, bytes |-> k]}
    BY <2>1, <2>4, <1>7 DEF ReallocMove
  <2>6. /\ used[b] \in Nat /\ used[b] >= req[b] + Admin /\ req[b] \in Nat /\ Admin \in Nat
        /\ used'[a] \in Nat /\ used'[a] >= t + Admin /\ used'[b] = used[b] /\ req'[b] = req[b] /\ req'[a] = n
    BY <2>3, <1>1, TotalFits DEF PromiseInv, HeapInv, Spaced, Piece
  <2>7. k + Admin <= used[b] /\ k + Admin <= used'[a] /\ (k >= req[b] \/ k >= n)
    BY <2>2, <2>4, <2>6 DEF CopySize
  <2>8. ASSUME NEW m \in moving' PROVE m.from = b /\ m.to = a /\ m.bytes = k
    BY <2>5
  <2> QED
    BY <2>3, <2>6, <2>7, <2>8, <1>1 DEF PromiseInv
<1>8. ASSUME NEW d, HeapAdd(d) PROVE PromiseInv'
  BY <1>1, <1>8 DEF HeapAdd, PromiseInv
<1>9. CASE Call
  <2>1. moving = {}
    BY <1>9 DEF Call
  <2>2. ASSUME NEW b \in DOMAIN used, Free(b) PROVE PromiseInv'
    BY <2>1, <2>2, <1>3 DEF Free
  <2> QED
    BY <2>1, <2>2, <1>4, <1>5, <1>6, <1>7, <1>8, <1>9 DEF Call
<1>10. CASE ReallocDone
  <2>1. PICK m \in moving : Release(m.from) /\ moving' = {}
    BY <1>10 DEF ReallocDone
  <2>2. m.from \in DOMAIN used
    BY DEF PromiseInv
  <2> QED
    BY <2>1, <2>2, <1>3
<1>11. CASE UNCHANGED vars
  BY <1>1, <1>11 DEF vars, PromiseInv
<1> QED
  BY <1>9, <1>10, <1>11 DEF Next

\* Every block has room for what was asked, and realloc copies, within both
\* blocks, all that the program may keep.
THEOREM PromisesKept == ASSUME RequestsFit PROVE Spec => []KeepsPromises
<1>1. Init => PromiseInv
  <2>1. Init => DOMAIN used = {} /\ moving = {}
    BY DEF Init, Nothing
  <2> QED
    BY <2>1, InitHeap DEF PromiseInv
<1>2. PromiseInv /\ [Next]_vars => PromiseInv'
  BY PromiseStep
<1>3. PromiseInv => KeepsPromises
  BY DEF PromiseInv, KeepsPromises, GrantCovers, CopyKeepsData
<1> QED
  BY <1>1, <1>2, <1>3, PTL DEF Spec

-----------------------------------------------------------------------------
(* The heap implements the cutting of memory into blocks.                  *)

\* Every call is a step of the abstract heap, or none.
LEMMA BlocksStep ==
    ASSUME RequestsFit, Donations = {}, HeapInv, IInv, [Next]_vars
    PROVE  [Abstract!Next]_(Abstract!blockVars)
<1>1. Abstract!TypeOK /\ Abstract!NoOverlap
  BY DEF IInv
<1>2. ASSUME NEW s \in Nat, NEW r, Grant(s, r) PROVE Abstract!Next
  BY <1>1, <1>2, GrantKeeps
<1>3. ASSUME NEW b \in DOMAIN used, Release(b) PROVE Abstract!Next
  BY <1>1, <1>3, ReleaseKeeps
<1>4. ASSUME NEW b \in DOMAIN used, NEW n \in Requests, ReallocInPlace(b, n) PROVE Abstract!Next
  BY <1>1, <1>4, ReallocInPlaceKeeps
<1>5. CASE Call
  <2>1. ASSUME NEW n \in Requests, Malloc(n) PROVE Abstract!Next
    BY <2>1, <1>2, Asked DEF Malloc
  <2>2. ASSUME NEW a \in Arrays, Calloc(a[1], a[2]) PROVE Abstract!Next
    BY <2>2, <1>2, Asked DEF Calloc
  <2>3. ASSUME NEW b \in DOMAIN used, Free(b) PROVE Abstract!Next
    BY <2>3, <1>3 DEF Free
  <2>4. ASSUME NEW b \in DOMAIN used, NEW n \in Requests, ReallocMove(b, n) PROVE Abstract!Next
    BY <2>4, <1>2, Asked DEF ReallocMove
  <2> QED
    BY <2>1, <2>2, <2>3, <2>4, <1>4, <1>5 DEF Call
<1>6. CASE ReallocDone
  <2>1. PICK m \in moving : Release(m.from)
    BY <1>6 DEF ReallocDone
  <2>2. m.from \in DOMAIN used
    BY DEF HeapInv
  <2> QED
    BY <2>1, <2>2, <1>3
<1>7. CASE UNCHANGED vars
  BY <1>7 DEF vars, list, Abstract!blockVars, FreeBlocks, UsedBlocks
<1> QED
  BY <1>5, <1>6, <1>7 DEF Next

\* The linked list and the heap top implement the abstract cutting of the
\* memory between them into blocks, as long as no other memory is given.
THEOREM ListIsBlocks == ASSUME RequestsFit, Donations = {} PROVE Spec => ImplementsBlocks
<1>1. Init => Abstract!Init
  BY DEF Init, Nothing, Abstract!Init, FreeBlocks, UsedBlocks
<1>2. HeapInv /\ IInv /\ [Next]_vars => IInv' /\ [Abstract!Next]_(Abstract!blockVars)
  BY BlocksStep, Step
<1>3. Abstract!Init => IInv
  BY InitIInv
<1> QED
  BY <1>1, <1>2, <1>3, HeapInductive, PTL DEF Spec, ImplementsBlocks, Abstract!Spec

\* So the list inherits what is proved of the blocks.  No byte below the
\* heap top is lost between malloc, free and realloc.
THEOREM ListLeaksNothing == ASSUME RequestsFit, Donations = {} PROVE Spec => []NoLeak
<1>1. IInv => NoLeak
  BY DEF IInv, NoLeak
<1> QED
  BY <1>1, ListIsBlocks, Inductive, PTL DEF ImplementsBlocks

\* No two blocks of the free list touch, and none touches the heap top.
THEOREM ListCoalesced == ASSUME RequestsFit, Donations = {} PROVE Spec => []Coalesced
<1>1. IInv => Coalesced
  BY DEF IInv, Coalesced
<1> QED
  BY <1>1, ListIsBlocks, Inductive, PTL DEF ImplementsBlocks

-----------------------------------------------------------------------------
(* Sums.                                                                   *)

\* The sum of a function's values.
SumOf(f) == FoldFunction(+, 0, f)

\* S gives the sum of f over each set of its arguments.
Sums(f, S) == /\ S[{}] = 0
              /\ \A s \in SUBSET DOMAIN f : S[s] \in Nat
              /\ \A s \in SUBSET DOMAIN f : \A x \in s : S[s] = f[x] + S[s \ {x}]

\* The sets of arguments of a finite function, by their number.
LEMMA SubsetFacts ==
    ASSUME NEW D, IsFiniteSet(D)
    PROVE  /\ Cardinality(D) \in Nat
           /\ \A s \in SUBSET D : /\ Cardinality(s) \in Nat /\ Cardinality(s) <= Cardinality(D)
                                  /\ Cardinality(s) = 0 <=> s = {}
                                  /\ \A x \in s : /\ s \ {x} \in SUBSET D
                                                  /\ Cardinality(s \ {x}) = Cardinality(s) - 1
<1>1. Cardinality(D) \in Nat
  BY FS_CardinalityType
<1>2. ASSUME NEW s \in SUBSET D
      PROVE  /\ Cardinality(s) \in Nat /\ Cardinality(s) <= Cardinality(D)
             /\ Cardinality(s) = 0 <=> s = {}
             /\ \A x \in s : /\ s \ {x} \in SUBSET D
                             /\ Cardinality(s \ {x}) = Cardinality(s) - 1
  <2>1. IsFiniteSet(s) /\ Cardinality(s) <= Cardinality(D)
    BY FS_Subset
  <2> QED
    BY <2>1, FS_CardinalityType, FS_EmptySet, FS_RemoveElement
<1> QED
  BY <1>1, <1>2

\* The recursion of the fold: one argument after the other.
Folds(it, f, D) == it = [s \in SUBSET D |-> IF s = {} THEN 0
                           ELSE f[CHOOSE x \in s : TRUE] + it[s \ {CHOOSE x \in s : TRUE}]]

\* The recursion of the fold has a solution.
LEMMA FoldDefined ==
    ASSUME NEW f, NEW D, D = DOMAIN f, IsFiniteSet(D)
    PROVE  \E it : Folds(it, f, D) /\ SumOf(f) = it[D]
<1> DEFINE C(s) == CHOOSE x \in s : TRUE
           One(g, s) == IF s = {} THEN 0 ELSE f[C(s)] + g[s \ {C(s)}]
           Upto(n) == \E g : \A s \in SUBSET D : Cardinality(s) <= n => g[s] = One(g, s)
           P == {n \in Nat : Upto(n)}
<1>0. /\ Cardinality(D) \in Nat
      /\ \A s \in SUBSET D : /\ Cardinality(s) \in Nat /\ Cardinality(s) <= Cardinality(D)
                             /\ Cardinality(s) = 0 <=> s = {}
                             /\ \A x \in s : /\ s \ {x} \in SUBSET D
                                             /\ Cardinality(s \ {x}) = Cardinality(s) - 1
  BY SubsetFacts
<1>1. \A s \in SUBSET D : s # {} => C(s) \in s
  OBVIOUS
<1>2. 0 \in P
  <2>1. PICK g : g = [s \in SUBSET D |-> 0]
    OBVIOUS
  <2>2. ASSUME NEW s \in SUBSET D, Cardinality(s) <= 0 PROVE g[s] = One(g, s)
    BY <2>1, <2>2, <1>0
  <2> QED
    BY <2>2
<1>3. ASSUME NEW n \in Nat, n \in P PROVE n + 1 \in P
  <2>1. PICK g : \A s \in SUBSET D : Cardinality(s) <= n => g[s] = One(g, s)
    BY <1>3
  <2>2. PICK h : h = [s \in SUBSET D |-> One(g, s)]
    OBVIOUS
  <2>3. ASSUME NEW s \in SUBSET D, Cardinality(s) <= n + 1 PROVE h[s] = One(h, s)
    <3>1. h[s] = One(g, s)
      BY <2>2
    <3>2. CASE s # {}
      <4>1. PICK t \in SUBSET D : t = s \ {C(s)} /\ Cardinality(t) <= n
        <5>1. C(s) \in s
          BY <1>1, <3>2
        <5> HIDE DEF C
        <5>2. s \ {C(s)} \in SUBSET D /\ Cardinality(s \ {C(s)}) = Cardinality(s) - 1
          BY <5>1, <1>0
        <5>3. Cardinality(s \ {C(s)}) <= n
          BY <5>2, <2>3, <1>0
        <5> QED
          BY <5>2, <5>3
      <4>2. h[t] = One(g, t) /\ g[t] = One(g, t)
        BY <4>1, <2>1, <2>2
      <4> QED
        BY <3>1, <3>2, <4>1, <4>2
    <3> QED
      BY <3>1, <3>2
  <2>4. Upto(n + 1)
    BY <2>3
  <2> HIDE DEF Upto
  <2> QED
    BY <2>4
<1>4. Upto(Cardinality(D))
  <2> HIDE DEF Upto
  <2>1. Nat \subseteq P
    BY <1>2, <1>3, NatSetInduction
  <2> QED
    BY <2>1, <1>0
<1>5. PICK g : \A s \in SUBSET D : g[s] = One(g, s)
  <2> HIDE DEF One
  <2> QED
    BY <1>4, <1>0
<1>6. \E it : it = [s \in SUBSET D |-> One(it, s)]
  <2>1. PICK it : it = [s \in SUBSET D |-> g[s]]
    OBVIOUS
  <2>2. \A s \in SUBSET D : s # {} => s \ {C(s)} \in SUBSET D
    OBVIOUS
  <2>3. \A s \in SUBSET D : it[s] = One(it, s)
    BY <1>5, <2>1, <2>2
  <2>4. it = [s \in SUBSET D |-> One(it, s)]
    BY <2>1, <2>3
  <2> QED
    BY <2>4
<1>7. PICK it : Folds(it, f, D)
  BY <1>6 DEF Folds
<1>8. (CHOOSE h : Folds(h, f, D)) = CHOOSE h : h = [s \in SUBSET D |-> One(h, s)]
  BY DEF Folds
<1>9. SumOf(f) = (CHOOSE h : h = [s \in SUBSET D |-> One(h, s)])[D]
  BY D = DOMAIN f DEF SumOf, FoldFunction, FoldFunctionOnSet, MapThenFoldSet
<1>10. Folds(CHOOSE h : Folds(h, f, D), f, D)
  BY <1>7
<1> QED
  BY <1>8, <1>9, <1>10


\* The fold takes the arguments one by one in an order it does not say; the
\* sum is the same in every order.
LEMMA SumsExist ==
    ASSUME NEW f, IsFiniteSet(DOMAIN f), \A x \in DOMAIN f : f[x] \in Nat
    PROVE  \E S : Sums(f, S) /\ SumOf(f) = S[DOMAIN f]
<1> PICK D : D = DOMAIN f
  OBVIOUS
<1>1. PICK it : Folds(it, f, D) /\ SumOf(f) = it[D]
  BY FoldDefined
<1>2. it[{}] = 0
  BY <1>1 DEF Folds
<1>3. ASSUME NEW s \in SUBSET D, s # {}
      PROVE  \E c \in s : it[s] = f[c] + it[s \ {c}]
  <2>1. (CHOOSE x \in s : TRUE) \in s
    BY <1>3
  <2> QED
    BY <1>1, <1>3, <2>1 DEF Folds
<1> DEFINE Good(s) == it[s] \in Nat /\ \A x \in s : it[s] = f[x] + it[s \ {x}]
           P == {n \in Nat : \A s \in SUBSET D : Cardinality(s) <= n => Good(s)}
<1>0. /\ Cardinality(D) \in Nat
      /\ \A s \in SUBSET D : /\ Cardinality(s) \in Nat /\ Cardinality(s) <= Cardinality(D)
                             /\ Cardinality(s) = 0 <=> s = {}
                             /\ \A x \in s : /\ s \ {x} \in SUBSET D
                                             /\ Cardinality(s \ {x}) = Cardinality(s) - 1
  BY SubsetFacts
<1>4. 0 \in P
  <2>1. \A s \in SUBSET D : Cardinality(s) <= 0 => s = {}
    BY <1>0
  <2> QED
    BY <1>2, <2>1
<1>5. ASSUME NEW n \in Nat, n \in P PROVE n + 1 \in P
  <2>1. ASSUME NEW s \in SUBSET D, Cardinality(s) <= n + 1 PROVE Good(s)
    <3>1. CASE s = {}
      BY <3>1, <1>2
    <3>2. CASE s # {}
      <4>1. PICK c \in s : it[s] = f[c] + it[s \ {c}]
        BY <1>3, <3>2
      <4>2. ASSUME NEW x \in s PROVE s \ {x} \in SUBSET D /\ Good(s \ {x})
        <5>1. s \ {x} \in SUBSET D /\ Cardinality(s \ {x}) <= n
          BY <2>1, <1>0
        <5> QED
          BY <5>1, <1>5
      <4>3. it[s] \in Nat
        <5>1. f[c] \in Nat /\ it[s \ {c}] \in Nat
          BY <4>2
        <5> QED
          BY <4>1, <5>1
      <4>4. ASSUME NEW x \in s, x # c PROVE it[s] = f[x] + it[s \ {x}]
        <5>1. it[s \ {c}] = f[x] + it[(s \ {c}) \ {x}]
          BY <4>2, <4>4
        <5>2. it[s \ {x}] = f[c] + it[(s \ {x}) \ {c}]
          BY <4>2, <4>4
        <5>3. (s \ {c}) \ {x} = (s \ {x}) \ {c}
          OBVIOUS
        <5>4. PICK k : k = it[(s \ {c}) \ {x}]
          OBVIOUS
        <5>5. k \in Nat /\ f[c] \in Nat /\ f[x] \in Nat
          <6>1. s \ {c} \in SUBSET D /\ x \in s \ {c} /\ Cardinality(s \ {c}) <= n + 1
            BY <2>1, <4>2, <4>4, <1>0
          <6>2. PICK t \in SUBSET D : t = s \ {c}
            BY <6>1
          <6>3. t \ {x} \in SUBSET D /\ Cardinality(t \ {x}) = Cardinality(t) - 1
            BY <6>1, <6>2, <1>0
          <6>4. Cardinality(t \ {x}) <= n
            BY <6>1, <6>2, <6>3, <1>0
          <6>5. it[t \ {x}] \in Nat
            BY <6>3, <6>4, <1>5
          <6> QED
            BY <6>2, <6>5, <5>4
        <5>6. it[s \ {c}] = f[x] + k /\ it[s \ {x}] = f[c] + k
          BY <5>1, <5>2, <5>3, <5>4
        <5> QED
          BY ONLY <4>1, <5>5, <5>6
      <4> QED
        BY <4>1, <4>3, <4>4
    <3> QED
      BY <3>1, <3>2
  <2> QED
    BY <2>1
<1>6. \A s \in SUBSET D : Good(s)
  <2>1. Nat \subseteq P
    <3> HIDE DEF P
    <3> QED
      BY <1>4, <1>5, NatSetInduction
  <2>2. ASSUME NEW s \in SUBSET D PROVE Good(s)
    <3>1. Cardinality(s) \in Nat /\ Cardinality(s) <= Cardinality(s)
      BY <1>0
    <3>2. Cardinality(s) \in P
      BY <2>1, <3>1
    <3> HIDE DEF Good
    <3> QED
      BY <3>1, <3>2
  <2> QED
    BY <2>2
<1> QED
  BY <1>1, <1>2, <1>6 DEF Sums

\* Where two functions agree their sums do.
LEMMA SumsAgree ==
    ASSUME NEW f, NEW g, NEW S, NEW T, Sums(f, S), Sums(g, T),
           NEW D, IsFiniteSet(D), D \subseteq DOMAIN f, D \subseteq DOMAIN g,
           \A x \in D : f[x] = g[x]
    PROVE  S[D] = T[D]
<1> DEFINE P == {n \in Nat : \A s \in SUBSET D : Cardinality(s) = n => S[s] = T[s]}
<1>1. 0 \in P
  BY SubsetFacts DEF Sums
<1>2. ASSUME NEW n \in Nat, n \in P PROVE n + 1 \in P
  <2>1. ASSUME NEW s \in SUBSET D, Cardinality(s) = n + 1 PROVE S[s] = T[s]
    <3>1. s # {}
      BY <2>1, SubsetFacts
    <3>2. PICK x \in s : TRUE
      BY <3>1
    <3>3. s \ {x} \in SUBSET D /\ Cardinality(s \ {x}) = n
      BY <2>1, SubsetFacts
    <3>4. S[s \ {x}] = T[s \ {x}] /\ f[x] = g[x]
      BY <3>3, <1>2
    <3>5. s \in SUBSET DOMAIN f /\ s \in SUBSET DOMAIN g
      OBVIOUS
    <3>6. S[s] = f[x] + S[s \ {x}] /\ T[s] = g[x] + T[s \ {x}]
      BY <3>2, <3>5 DEF Sums
    <3> QED
      BY <3>4, <3>6
  <2> QED
    BY <2>1
<1>3. Nat \subseteq P
  <2> HIDE DEF P
  <2> QED
    BY <1>1, <1>2, NatSetInduction
<1>4. D \in SUBSET D /\ Cardinality(D) \in P
  BY <1>3, SubsetFacts
<1> QED
  BY <1>4

\* g is f with one argument more.
Adds(f, a, g) == /\ a \notin DOMAIN f /\ DOMAIN g = DOMAIN f \cup {a}
                 /\ \A x \in DOMAIN f : g[x] = f[x]

\* A finite function with naturals as values.
Counted(f) == IsFiniteSet(DOMAIN f) /\ \A x \in DOMAIN f : f[x] \in Nat

\* The sum of a function of one more argument.
LEMMA SumAdds ==
    ASSUME NEW f, NEW g, NEW a, Counted(f), Counted(g), Adds(f, a, g)
    PROVE  SumOf(f) \in Nat /\ g[a] \in Nat /\ SumOf(g) = SumOf(f) + g[a]
<1>1. PICK S : Sums(f, S) /\ SumOf(f) = S[DOMAIN f]
  BY SumsExist DEF Counted
<1>2. PICK T : Sums(g, T) /\ SumOf(g) = T[DOMAIN g]
  BY SumsExist DEF Counted
<1>3. a \in DOMAIN g /\ DOMAIN g \ {a} = DOMAIN f
  BY DEF Adds
<1>4. T[DOMAIN g] = g[a] + T[DOMAIN f]
  BY <1>2, <1>3 DEF Sums
<1>5. S[DOMAIN f] = T[DOMAIN f]
  <2>1. IsFiniteSet(DOMAIN f) /\ DOMAIN f \subseteq DOMAIN g /\ \A x \in DOMAIN f : f[x] = g[x]
    BY DEF Counted, Adds
  <2> QED
    BY <1>1, <1>2, <2>1, SumsAgree
<1>6. S[DOMAIN f] \in Nat /\ g[a] \in Nat
  BY <1>1, <1>3 DEF Sums, Counted
<1> QED
  BY <1>1, <1>2, <1>4, <1>5, <1>6

\* Functions that agree have the same sum.
LEMMA SumSame ==
    ASSUME NEW f, NEW g, Counted(f), Counted(g), DOMAIN f = DOMAIN g, \A x \in DOMAIN f : f[x] = g[x]
    PROVE  SumOf(f) \in Nat /\ SumOf(g) = SumOf(f)
<1>1. PICK S : Sums(f, S) /\ SumOf(f) = S[DOMAIN f]
  BY SumsExist DEF Counted
<1>2. PICK T : Sums(g, T) /\ SumOf(g) = T[DOMAIN g]
  BY SumsExist DEF Counted
<1>3. S[DOMAIN f] = T[DOMAIN f]
  BY <1>1, <1>2, SumsAgree DEF Counted
<1>4. S[DOMAIN f] \in Nat
  BY <1>1 DEF Sums
<1> QED
  BY <1>1, <1>2, <1>3, <1>4

\* Nothing adds up to zero.
LEMMA SumNone == ASSUME NEW f, DOMAIN f = {} PROVE SumOf(f) = 0
<1>1. IsFiniteSet(DOMAIN f)
  BY FS_EmptySet
<1>2. PICK S : Sums(f, S) /\ SumOf(f) = S[DOMAIN f]
  BY <1>1, SumsExist
<1> QED
  BY <1>2 DEF Sums


-----------------------------------------------------------------------------
(* What is not in use is counted as available.                             *)

\* One argument has another value.
LEMMA SumChanges ==
    ASSUME NEW f, NEW g, NEW a \in DOMAIN f, Counted(f), Counted(g),
           DOMAIN g = DOMAIN f, \A x \in DOMAIN f : x # a => g[x] = f[x]
    PROVE  /\ SumOf(f) \in Nat /\ SumOf(g) \in Nat /\ f[a] \in Nat /\ g[a] \in Nat
           /\ SumOf(g) + f[a] = SumOf(f) + g[a]
<1>1. PICK m : m = [x \in DOMAIN f \ {a} |-> f[x]]
  OBVIOUS
<1>2. Counted(m) /\ Adds(m, a, f) /\ Adds(m, a, g)
  <2>1. IsFiniteSet(DOMAIN f \ {a})
    BY FS_RemoveElement DEF Counted
  <2>2. DOMAIN m = DOMAIN f \ {a} /\ \A x \in DOMAIN m : m[x] = f[x] /\ m[x] = g[x]
    BY <1>1
  <2> QED
    BY <2>1, <2>2 DEF Counted, Adds
<1>3. SumOf(m) \in Nat /\ f[a] \in Nat /\ SumOf(f) = SumOf(m) + f[a]
  BY <1>2, SumAdds
<1>4. g[a] \in Nat /\ SumOf(g) = SumOf(m) + g[a]
  BY <1>2, SumAdds
<1> QED
  BY <1>3, <1>4

\* The sizes of the blocks of a list.
SizesOf(b) == [a \in DOMAIN b |-> b[a].size]

\* The bytes in the blocks, free and used.
Tally(b, u) == SumOf(SizesOf(b)) + SumOf(u)

\* The blocks can be counted.
LEMMA BlocksCounted ==
    ASSUME NEW b, NEW u, NEW top, NEW U, Spaced(b, u, top, U)
    PROVE  /\ Counted(SizesOf(b)) /\ Counted(u)
           /\ SumOf(SizesOf(b)) \in Nat /\ SumOf(u) \in Nat
<1>1. Word \in Nat /\ IsFiniteSet(0 .. Word)
  BY HeapAssumption, FS_Interval
<1>2. DOMAIN b \in SUBSET (0 .. Word) /\ DOMAIN u \in SUBSET (0 .. Word)
  BY <1>1 DEF Spaced, Piece
<1>3. IsFiniteSet(DOMAIN b) /\ IsFiniteSet(DOMAIN u)
  BY <1>1, <1>2, FS_Subset
<1>4. Counted(SizesOf(b)) /\ Counted(u)
  BY <1>3 DEF Counted, SizesOf, Spaced, Piece
<1> QED
  BY <1>4, SumSame

\* A list of one block less.
LEMMA SizesLess ==
    ASSUME NEW b, NEW c, NEW a \in DOMAIN b, Counted(SizesOf(b)), DOMAIN c = DOMAIN b \ {a},
           \A x \in DOMAIN c : c[x].size = b[x].size
    PROVE  /\ Counted(SizesOf(c)) /\ SumOf(SizesOf(c)) \in Nat /\ b[a].size \in Nat
           /\ SumOf(SizesOf(b)) = SumOf(SizesOf(c)) + b[a].size
<1>1. PICK f, g : f = SizesOf(c) /\ g = SizesOf(b)
  OBVIOUS
<1>2. /\ DOMAIN f = DOMAIN b \ {a} /\ DOMAIN g = DOMAIN b /\ g[a] = b[a].size
      /\ \A x \in DOMAIN f : f[x] = g[x]
  BY <1>1 DEF SizesOf
<1>3. Counted(f) /\ Adds(f, a, g)
  <2>1. IsFiniteSet(DOMAIN b \ {a})
    BY <1>1, <1>2, FS_RemoveElement DEF Counted
  <2> QED
    BY <1>1, <1>2, <2>1 DEF Counted, Adds
<1> QED
  BY <1>1, <1>2, <1>3, SumAdds

\* One block less, or one more, in a table of sizes.
LEMMA TableFacts ==
    ASSUME NEW u, NEW a, NEW n
    PROVE  /\ a \notin DOMAIN u => Adds(u, a, With(u, a, n)) /\ With(u, a, n)[a] = n
           /\ a \in DOMAIN u => Adds(Without(u, a), a, u)
<1>1. PICK v : v = With(u, a, n)
  OBVIOUS
<1>2. DOMAIN v = DOMAIN u \cup {a} /\ v[a] = n /\ \A x \in DOMAIN u : x # a => v[x] = u[x]
  BY <1>1 DEF With
<1>3. PICK w : w = Without(u, a)
  OBVIOUS
<1>4. DOMAIN w = DOMAIN u \ {a} /\ \A x \in DOMAIN w : w[x] = u[x]
  BY <1>3 DEF Without, Restrict
<1> QED
  BY <1>1, <1>2, <1>3, <1>4 DEF Adds

\* malloc: what is handed out leaves the free blocks or the space above.
LEMMA GrantTally ==
    ASSUME HeapInv, NEW s \in Nat, NEW r, Grant(s, r)
    PROVE  Tally(blk', used') + heapptr = Tally(blk, used) + heapptr'
<1>1. PICK t \in Nat : t = Total(s) /\ t >= MinBlock /\ t > 0
  BY TotalFits
<1>2. PICK c, v, top : c = blk' /\ v = used' /\ top = heapptr'
  OBVIOUS
<1>3. Spaced(blk, used, heapptr, Donations \ donated) /\ Spaced(c, v, top, Donations \ donated)
  BY <1>2, GrantKeeps DEF ListInv, HeapInv
<1>4. /\ Counted(SizesOf(blk)) /\ Counted(used) /\ SumOf(SizesOf(blk)) \in Nat /\ SumOf(used) \in Nat
      /\ Counted(SizesOf(c)) /\ Counted(v) /\ SumOf(SizesOf(c)) \in Nat /\ SumOf(v) \in Nat
      /\ heapptr \in Nat /\ top \in Nat
  <2>1. heapptr \in Nat /\ top \in Nat
    BY <1>3 DEF Spaced
  <2> QED
    BY <1>3, <2>1, BlocksCounted
<1>5. ASSUME NEW a, NEW n, a \notin DOMAIN used, v = With(used, a, n)
      PROVE  n \in Nat /\ SumOf(v) = SumOf(used) + n
  <2>1. Adds(used, a, v) /\ v[a] = n
    BY <1>5, TableFacts
  <2> QED
    BY <2>1, <1>4, SumAdds
<1> SUFFICES SumOf(SizesOf(c)) + SumOf(v) + heapptr = SumOf(SizesOf(blk)) + SumOf(used) + top
  BY <1>2 DEF Tally
<1>6. CASE TakeWhole(t, r)
  <2>1. PICK f, p, n : f = FirstFit(t) /\ p = blk[f].prev /\ n = blk[f].next
    OBVIOUS
  <2>2. /\ f # Null /\ top = heapptr /\ v = With(used, f, blk[f].size)
        /\ c = Without(WithPrev(WithNext(blk, p, n), n, p), f)
    BY <1>2, <1>6, <2>1 DEF TakeWhole, Hand
  <2>3. f \in DOMAIN blk
    BY <2>1, <2>2, FirstFitSound DEF HeapInv, Nodes
  <2>4. DOMAIN c = DOMAIN blk \ {f} /\ \A x \in DOMAIN c : c[x].size = blk[x].size
    <3>1. c = Unlink(blk, f) /\ Linked(blk, heapfirst, heaplast)
      BY <2>1, <2>2 DEF Unlink, HeapInv
    <3>2. OffList(blk, f, c)
      BY ONLY <3>1, <2>3, UnlinkedSizes
    <3> QED
      BY <3>2 DEF OffList
  <2>5. SumOf(SizesOf(blk)) = SumOf(SizesOf(c)) + blk[f].size /\ blk[f].size \in Nat
    BY <1>4, <2>3, <2>4, SizesLess
  <2>6. f \notin DOMAIN used
    BY <2>3, HeapFacts
  <2>7. SumOf(v) = SumOf(used) + blk[f].size
    BY <2>2, <2>6, <1>5
  <2> QED
    BY <1>4, <2>2, <2>5, <2>7
<1>7. CASE Slice(t, r)
  <2>1. PICK f, rest : f = FirstFit(t) /\ rest = blk[f].size - t
    OBVIOUS
  <2>2. /\ f # Null /\ rest >= MinBlock /\ top = heapptr /\ v = With(used, f + rest, t)
        /\ c = [blk EXCEPT ![f].size = rest]
    BY <1>2, <1>7, <2>1 DEF Slice, Hand
  <2>3. f \in DOMAIN blk /\ blk[f].size >= t
    BY <2>1, <2>2, FirstFitSound DEF HeapInv, Nodes
  <2>4. /\ f \in Nat /\ f > 0 /\ blk[f].size \in Nat /\ blk[f].size = rest + t
        /\ rest \in Nat /\ rest > 0
    BY <1>1, <2>1, <2>2, <2>3, HeapFacts, TotalFits
  <2>5. DOMAIN c = DOMAIN blk /\ \A x \in DOMAIN c : c[x].size = IF x = f THEN rest ELSE blk[x].size
    <3>1. Linked(blk, heapfirst, heaplast) /\ rest \in Nat \ {0} /\ c = CutTo(blk, f, rest)
      BY <2>2, <2>4 DEF HeapInv, CutTo
    <3> QED
      BY <3>1, <2>3, Cut
  <2>6. SumOf(SizesOf(c)) + blk[f].size = SumOf(SizesOf(blk)) + rest
    <3>1. PICK g, h : g = SizesOf(blk) /\ h = SizesOf(c)
      OBVIOUS
    <3>2. /\ DOMAIN h = DOMAIN g /\ f \in DOMAIN g /\ g[f] = blk[f].size /\ h[f] = rest
          /\ \A x \in DOMAIN g : x # f => h[x] = g[x]
      BY <2>3, <2>5, <3>1 DEF SizesOf
    <3> QED
      BY <3>1, <3>2, <1>4, SumChanges
  <2>7. f + rest \notin DOMAIN used
    <3>1. ASSUME f + rest \in DOMAIN used PROVE FALSE
      <4>1. /\ Clear(f, blk[f].size, f + rest, used[f + rest])
            /\ used[f + rest] \in Nat /\ used[f + rest] > 0
        BY <3>1, <2>3 DEF HeapInv, Spaced, Piece
      <4> QED
        BY <4>1, <1>1, <2>4 DEF Clear
    <3> QED
      BY <3>1
  <2>8. SumOf(v) = SumOf(used) + t
    BY <2>2, <2>7, <1>5
  <2> QED
    BY <1>1, <1>4, <2>2, <2>4, <2>6, <2>8
<1>8. CASE TakeFromTop(t, r)
  <2>1. heapptr + t <= End /\ top = heapptr + t /\ c = blk /\ v = With(used, heapptr, t)
    BY <1>2, <1>8 DEF TakeFromTop, Hand, list
  <2>2. heapptr \notin DOMAIN used
    <3>1. ASSUME heapptr \in DOMAIN used PROVE FALSE
      <4>1. Piece(heapptr, used[heapptr], heapptr)
        BY <3>1 DEF HeapInv, Spaced
      <4> QED
        BY <4>1, <2>1, <1>1, HeapFacts DEF Piece
    <3> QED
      BY <3>1
  <2>3. SumOf(v) = SumOf(used) + t
    BY <2>1, <2>2, <1>5
  <2> QED
    BY <1>1, <1>4, <2>1, <2>3
<1> QED
  BY <1>1, <1>6, <1>7, <1>8 DEF Grant

\* A piece that enters the list is counted once, joined or not.
LEMMA EnterTally ==
    ASSUME NEW b, NEW f \in Nat, f \notin DOMAIN b, NEW s \in Nat, NEW c, EntersAs(b, f, s, c),
           \A x \in DOMAIN b : x \in Nat /\ x # Null,
           Counted(SizesOf(b)), Counted(SizesOf(c))
    PROVE  SumOf(SizesOf(c)) = SumOf(SizesOf(b)) + s
<1>1. PICK left, right \in DOMAIN b \cup {Null}, jl, jr \in BOOLEAN, start \in Nat :
         /\ PrevIn(DOMAIN b, f, left) /\ NextIn(DOMAIN b, f, right)
         /\ Joined(b, f, s, left, right, jl, jr, start, c)
  BY DEF EntersAs
<1>2. /\ jl => left \in DOMAIN b /\ left < f
      /\ jr => right \in DOMAIN b /\ f < right
  <2>1. (jl => left # Null) /\ (jr => right # Null)
    BY <1>1 DEF Joined
  <2> QED
    BY <2>1, <1>1 DEF PrevIn, NextIn
<1>3. PICK R : R = IF jr THEN {right} ELSE {}
  OBVIOUS
<1>4. PICK m : m = [x \in DOMAIN b \ R |-> b[x]]
  OBVIOUS
<1>5. DOMAIN m = DOMAIN b \ R /\ \A x \in DOMAIN m : m[x].size = b[x].size
  BY <1>4
<1>6. PICK k : k = IF jr THEN b[right].size ELSE 0
  OBVIOUS
<1>7. /\ Counted(SizesOf(m)) /\ SumOf(SizesOf(m)) \in Nat /\ k \in Nat
      /\ SumOf(SizesOf(b)) = SumOf(SizesOf(m)) + k
  <2>1. CASE jr
    BY <2>1, <1>2, <1>3, <1>5, <1>6, SizesLess
  <2>2. CASE ~jr
    <3>1. PICK g, h : g = SizesOf(b) /\ h = SizesOf(m)
      OBVIOUS
    <3>2. DOMAIN h = DOMAIN g /\ \A x \in DOMAIN g : h[x] = g[x]
      BY <2>2, <3>1, <1>3, <1>5 DEF SizesOf
    <3>3. Counted(g) /\ Counted(h)
      BY <3>1, <3>2 DEF Counted
    <3>4. SumOf(g) \in Nat /\ SumOf(h) = SumOf(g)
      BY <3>2, <3>3, SumSame
    <3> QED
      BY <2>2, <3>1, <3>3, <3>4, <1>6
  <2> QED
    BY <2>1, <2>2
<1>8. PICK g, h : g = SizesOf(m) /\ h = SizesOf(c)
  OBVIOUS
<1>9. /\ start = IF jl THEN left ELSE f
      /\ DOMAIN g = DOMAIN b \ R /\ DOMAIN h = (DOMAIN b \ R) \cup {start}
      /\ \A x \in DOMAIN g : g[x] = b[x].size
      /\ \A x \in DOMAIN h : x # start => h[x] = b[x].size
      /\ h[start] = (IF jl THEN b[left].size ELSE 0) + s + k
  BY <1>1, <1>3, <1>5, <1>6, <1>8 DEF Joined, SizesOf
<1>10. CASE jl
  <2>1. start = left /\ left \in DOMAIN g /\ g[left] = b[left].size /\ h[left] = b[left].size + s + k
    BY <1>2, <1>3, <1>9, <1>10
  <2>2. DOMAIN h = DOMAIN g /\ \A x \in DOMAIN g : x # left => h[x] = g[x]
    BY <2>1, <1>9
  <2>3. SumOf(g) \in Nat /\ SumOf(h) \in Nat /\ g[left] \in Nat /\ SumOf(h) + g[left] = SumOf(g) + h[left]
    BY <2>1, <2>2, <1>7, <1>8, SumChanges
  <2> QED
    BY <2>1, <2>3, <1>7, <1>8
<1>11. CASE ~jl
  <2>1. start = f /\ f \notin DOMAIN g /\ DOMAIN h = DOMAIN g \cup {f} /\ h[f] = 0 + s + k
        /\ \A x \in DOMAIN g : h[x] = g[x]
    BY <1>9, <1>11
  <2>2. SumOf(h) = SumOf(g) + h[f]
    BY <2>1, <1>7, <1>8, SumAdds DEF Adds
  <2> QED
    BY <2>1, <2>2, <1>7, <1>8
<1> QED
  BY <1>10, <1>11


\* free: what the block took goes to the top, with the last free block if it
\* touches it, or to the list.
LEMMA ReleaseTally ==
    ASSUME HeapInv, NEW b \in DOMAIN used, Release(b)
    PROVE  Tally(blk', used') + heapptr = Tally(blk, used) + heapptr'
<1>1. PICK c, v, top : c = blk' /\ v = used' /\ top = heapptr'
  OBVIOUS
<1>2. Spaced(blk, used, heapptr, Donations \ donated) /\ Spaced(c, v, top, Donations \ donated)
  BY <1>1, ReleaseKeeps DEF ListInv, HeapInv
<1>3. /\ Counted(SizesOf(blk)) /\ Counted(used) /\ SumOf(SizesOf(blk)) \in Nat /\ SumOf(used) \in Nat
      /\ Counted(SizesOf(c)) /\ Counted(v) /\ SumOf(SizesOf(c)) \in Nat /\ SumOf(v) \in Nat
      /\ heapptr \in Nat /\ top \in Nat
  <2>1. heapptr \in Nat /\ top \in Nat
    BY <1>2 DEF Spaced
  <2> QED
    BY <1>2, <2>1, BlocksCounted
<1>4. PICK s : s = used[b]
  OBVIOUS
<1>5. s \in Nat /\ SumOf(used) = SumOf(v) + s
  <2>1. v = Without(used, b)
    BY <1>1, ReleaseKeeps
  <2>2. Adds(v, b, used)
    BY <2>1, TableFacts
  <2> QED
    BY <2>2, <1>3, <1>4, SumAdds
<1>6. b \in Nat /\ b > 0 /\ b < Word /\ b \notin DOMAIN blk
  BY HeapFacts
<1> SUFFICES SumOf(SizesOf(c)) + SumOf(v) + heapptr = SumOf(SizesOf(blk)) + SumOf(used) + top
  BY <1>1 DEF Tally
<1>7. CASE Lower(b)
  <2>1. AtTop(b) /\ top = b /\ c = blk
    BY <1>1, <1>7 DEF Lower, list
  <2>2. b + s = heapptr
    BY <2>1, <1>4, EndsAt
  <2> QED
    BY <2>1, <2>2, <1>3, <1>5, <1>6
<1>8. CASE LowerFar(b)
  <2>1. PICK a, p : a = heaplast /\ p = blk[a].prev
    OBVIOUS
  <2>2. /\ top = a /\ c = Without(WithNext(blk, p, Null), a)
        /\ AtTop(b) /\ a # Null /\ (a + blk[a].size) % Word = b
    BY <1>1, <1>8, <2>1 DEF LowerFar, LastTouches
  <2>3. a \in DOMAIN blk
    <3>1. PrevIn(DOMAIN blk, Word, heaplast)
      BY DEF HeapInv, Linked
    <3> QED
      BY <3>1, <2>1, <2>2 DEF PrevIn
  <2>4. b + s = heapptr
    BY <2>2, <1>4, EndsAt
  <2>5. a + blk[a].size = b
    BY <2>2, <2>3, EndsAt
  <2>6. blk[a].next = Null
    <3>1. NextIn(DOMAIN blk, a, blk[a].next) /\ PrevIn(DOMAIN blk, Word, a)
      BY <2>1, <2>3 DEF HeapInv, Linked
    <3> QED
      BY <3>1, <2>2, <2>3, HeapFacts DEF NextIn, PrevIn
  <2>7. DOMAIN c = DOMAIN blk \ {a} /\ \A x \in DOMAIN c : c[x].size = blk[x].size
    <3>1. c = Unlink(blk, a) /\ Linked(blk, heapfirst, heaplast)
      BY <2>1, <2>2, <2>6 DEF Unlink, WithPrev, HeapInv
    <3>2. OffList(blk, a, c)
      BY ONLY <3>1, <2>3, UnlinkedSizes
    <3> QED
      BY <3>2 DEF OffList
  <2>8. SumOf(SizesOf(blk)) = SumOf(SizesOf(c)) + blk[a].size /\ blk[a].size \in Nat
    BY <1>3, <2>3, <2>7, SizesLess
  <2> QED
    BY <1>3, <1>5, <1>6, <2>2, <2>4, <2>5, <2>8
<1>9. CASE ~AtTop(b) /\ Enter(b, used[b]) /\ heapptr' = heapptr
  <2>1. EntersAs(blk, b, s, c)
    <3>1. Linked(blk, heapfirst, heaplast) /\ s > 0
      BY <1>4, HeapFacts DEF HeapInv
    <3>2. b \in 1 .. Word - 1 /\ s \in Nat \ {0} /\ Enter(b, s)
      BY <1>4, <1>5, <1>6, <1>9, <3>1, HeapFacts
    <3> QED
      BY <3>1, <3>2, <1>1, <1>6, Entered
  <2>2. SumOf(SizesOf(c)) = SumOf(SizesOf(blk)) + s
    <3>1. \A x \in DOMAIN blk : x \in Nat /\ x # Null
      BY HeapFacts
    <3> QED
      BY <2>1, <3>1, <1>3, <1>5, <1>6, EnterTally
  <2> QED
    BY <1>1, <1>3, <1>5, <1>9, <2>2
<1> QED
  BY <1>7, <1>8, <1>9 DEF Release

\* _heapadd: what the program gives is available.
LEMMA HeapAddTally ==
    ASSUME HeapInv, NEW d \in Donations \ donated, HeapAdd(d)
    PROVE  /\ Tally(blk', used') = Tally(blk, used) + d.len
           /\ heapptr' = heapptr /\ d.len \in Nat /\ donated' = donated \cup {d}
<1>1. PICK c, U : c = blk' /\ U = Donations \ donated'
  OBVIOUS
<1>2. PICK f, s : f = d.at /\ s = d.len
  OBVIOUS
<1>3. s >= MinBlock /\ Enter(f, s) /\ heapptr' = heapptr /\ used' = used /\ donated' = donated \cup {d}
  BY <1>2 DEF HeapAdd
<1>4. Spaced(blk, used, heapptr, Donations \ donated) /\ Spaced(c, used, heapptr, U)
  <2>1. ListInv(blk', heapfirst', heaplast', used', heapptr', Donations \ donated')
    BY HeapAddKeeps
  <2>2. Spaced(c, used, heapptr, U)
    BY <2>1, <1>1, <1>3 DEF ListInv
  <2> QED
    BY <2>2 DEF HeapInv
<1>5. /\ Counted(SizesOf(blk)) /\ Counted(SizesOf(c))
      /\ SumOf(SizesOf(blk)) \in Nat /\ SumOf(SizesOf(c)) \in Nat /\ SumOf(used) \in Nat
  BY <1>4, BlocksCounted
<1>6. Piece(f, s, heapptr) /\ \A x \in DOMAIN blk : Clear(x, blk[x].size, f, s)
  BY <1>2, <1>4 DEF Spaced
<1>7. f \in Nat /\ s \in Nat /\ f > 0 /\ s > 0 /\ f + s <= Word
  BY <1>6 DEF Piece
<1>8. ASSUME f \in DOMAIN blk PROVE FALSE
  <2>1. Clear(f, blk[f].size, f, s)
    BY <1>6, <1>8
  <2> QED
    BY <2>1, <1>7, <1>8, HeapFacts DEF Clear
<1>9. EntersAs(blk, f, s, c)
  <2>1. Linked(blk, heapfirst, heaplast) /\ f \in 1 .. Word - 1 /\ s \in Nat \ {0}
    BY <1>7, HeapFacts DEF HeapInv
  <2> QED
    BY <2>1, <1>1, <1>3, <1>8, Entered
<1>10. SumOf(SizesOf(c)) = SumOf(SizesOf(blk)) + s
  <2>1. \A x \in DOMAIN blk : x \in Nat /\ x # Null
    BY HeapFacts
  <2> QED
    BY <2>1, <1>5, <1>7, <1>8, <1>9, EnterTally
<1> QED
  BY <1>1, <1>2, <1>3, <1>5, <1>7, <1>10 DEF Tally

\* realloc in place: the block at the top and the top grow or shrink alike.
LEMMA ReallocInPlaceTally ==
    ASSUME RequestsFit, HeapInv, NEW b \in DOMAIN used, NEW n \in Requests, ReallocInPlace(b, n)
    PROVE  Tally(blk', used') + heapptr = Tally(blk, used) + heapptr'
<1>1. PICK v, top, t : v = used' /\ top = heapptr' /\ t = Resized(n)
  OBVIOUS
<1>2. /\ AtTop(b) /\ top = NewTop(b, n) /\ top <= End /\ blk' = blk
      /\ v = [used EXCEPT ![b] = t]
  BY <1>1 DEF ReallocInPlace, InPlace, list
<1>3. Spaced(blk, used, heapptr, Donations \ donated) /\ Spaced(blk, v, top, Donations \ donated)
  <2>1. ListInv(blk', heapfirst', heaplast', used', heapptr', Donations \ donated)
    BY ReallocInPlaceKeeps
  <2>2. Spaced(blk, v, top, Donations \ donated)
    BY <2>1, <1>1, <1>2 DEF ListInv
  <2> QED
    BY <2>2 DEF HeapInv
<1>4. /\ Counted(used) /\ Counted(v)
      /\ SumOf(SizesOf(blk)) \in Nat /\ SumOf(used) \in Nat /\ SumOf(v) \in Nat
      /\ heapptr \in Nat /\ top \in Nat
  <2>1. heapptr \in Nat /\ top \in Nat
    BY <1>3 DEF Spaced
  <2> QED
    BY <1>3, <2>1, BlocksCounted
<1>5. b \in Nat /\ b > 0 /\ used[b] \in Nat /\ used[b] >= MinBlock /\ b + used[b] = heapptr
  BY <1>2, HeapFacts, EndsAt DEF HeapInv
<1>6. top = b + t /\ t \in Nat
  <2>1. n \in Nat /\ n + Admin < Word /\ End + n + Admin <= Word
    BY HeapAssumption DEF RequestsFit
  <2>2. t \in Nat /\ (t = MinBlock \/ t = n + Admin)
    BY <2>1, <1>1, TotalFits
  <2>3. /\ heapptr <= End /\ End < Word /\ End \in Nat /\ Word \in Nat
        /\ MinBlock \in Nat /\ MinBlock > 0 /\ Admin \in Nat
    BY HeapFacts, TotalFits
  <2>4. b + t \in Nat /\ b + t < Word
    BY <2>1, <2>2, <2>3, <1>4, <1>5
  <2>5. (b + t) % Word = b + t
    BY ONLY <2>3, <2>4, Z3
  <2>6. heapptr - used[b] + t = b + t
    BY <2>2, <1>5
  <2> QED
    BY <2>2, <2>5, <2>6, <1>1, <1>2 DEF NewTop
<1>7. SumOf(v) + used[b] = SumOf(used) + t
  <2>1. DOMAIN v = DOMAIN used /\ v[b] = t /\ \A x \in DOMAIN used : x # b => v[x] = used[x]
    BY <1>2
  <2> QED
    BY <2>1, <1>4, SumChanges
<1> QED
  BY <1>1, <1>2, <1>4, <1>5, <1>6, <1>7 DEF Tally

-----------------------------------------------------------------------------
(* The invariant.                                                          *)

\* The bytes of the blocks given to _heapadd.
Lens(D) == [d \in D |-> d.len]

\* Every byte below the top and every byte given is in a block.
TallyInv == /\ HeapInv
            /\ Counted(Lens(donated))
            /\ Tally(blk, used) + Org = heapptr + SumOf(Lens(donated))

\* Every call keeps it.
LEMMA TallyStep == ASSUME RequestsFit, TallyInv, [Next]_vars PROVE TallyInv'
<1>1. HeapInv /\ HeapInv'
  BY HeapStep DEF TallyInv
<1>2. PICK before, after : before = Tally(blk, used) /\ after = Tally(blk', used')
  OBVIOUS
<1>3. PICK top, given : top = heapptr' /\ given = SumOf(Lens(donated))
  OBVIOUS
<1>4. before \in Nat /\ after \in Nat /\ heapptr \in Nat /\ top \in Nat /\ Org \in Nat
  <2>1. Spaced(blk, used, heapptr, Donations \ donated)
    BY <1>1 DEF HeapInv
  <2>2. Spaced(blk', used', heapptr', Donations \ donated')
    BY <1>1 DEF HeapInv
  <2>3. PICK c, v, U : c = blk' /\ v = used' /\ U = Donations \ donated'
    OBVIOUS
  <2>4. Spaced(c, v, top, U)
    BY <2>2, <2>3, <1>3
  <2>5. before \in Nat
    BY <2>1, <1>2, BlocksCounted DEF Tally
  <2>6. Tally(c, v) \in Nat
    BY <2>4, BlocksCounted DEF Tally
  <2>7. heapptr \in Nat /\ top \in Nat
    BY <2>1, <2>4 DEF Spaced
  <2> QED
    BY <2>3, <2>5, <2>6, <2>7, <1>2, HeapAssumption
<1>5. before + Org = heapptr + given /\ Counted(Lens(donated)) /\ given \in Nat
  BY <1>2, <1>3, SumSame DEF TallyInv
<1>6. ASSUME after + heapptr = before + top, donated' = donated PROVE TallyInv'
  <2>1. after + Org = top + given
    BY <1>4, <1>5, <1>6
  <2> QED
    BY <2>1, <1>1, <1>2, <1>3, <1>5, <1>6 DEF TallyInv
<1>7. ASSUME NEW d \in Donations \ donated, HeapAdd(d) PROVE TallyInv'
  <2>1. after = before + d.len /\ top = heapptr /\ d.len \in Nat /\ donated' = donated \cup {d}
    BY <1>1, <1>2, <1>3, <1>7, HeapAddTally
  <2>2. PICK D : D = donated \cup {d}
    OBVIOUS
  <2>3. PICK f, g : f = Lens(donated) /\ g = Lens(D)
    OBVIOUS
  <2>4. Adds(f, d, g) /\ g[d] = d.len
    BY <2>2, <2>3, <1>7 DEF Adds, Lens
  <2>5. Counted(g)
    <3>1. IsFiniteSet(donated) /\ \A x \in donated : x.len \in Nat
      BY <1>5 DEF Counted, Lens
    <3>2. IsFiniteSet(D)
      BY <3>1, <2>2, FS_AddElement
    <3> QED
      BY <3>1, <3>2, <2>1, <2>2, <2>3 DEF Counted, Lens
  <2>6. SumOf(g) = given + d.len
    BY <2>3, <2>4, <2>5, <1>3, <1>5, SumAdds
  <2>7. after + Org = top + SumOf(g)
    BY <2>1, <2>6, <1>4, <1>5
  <2>8. donated' = D /\ Lens(donated') = g
    BY <2>1, <2>2, <2>3
  <2> QED
    BY <2>5, <2>7, <2>8, <1>1, <1>2, <1>3 DEF TallyInv
<1>8. ASSUME NEW s \in Nat, NEW r, Grant(s, r), donated' = donated PROVE TallyInv'
  BY <1>1, <1>2, <1>3, <1>6, <1>8, GrantTally
<1>9. ASSUME NEW b \in DOMAIN used, Release(b), donated' = donated PROVE TallyInv'
  BY <1>1, <1>2, <1>3, <1>6, <1>9, ReleaseTally
<1>10. CASE Call
  <2>1. ASSUME NEW n \in Requests, Malloc(n) PROVE TallyInv'
    BY <2>1, <1>8, Asked DEF Malloc
  <2>2. ASSUME NEW a \in Arrays, Calloc(a[1], a[2]) PROVE TallyInv'
    BY <2>2, <1>8, Asked DEF Calloc
  <2>3. ASSUME NEW b \in DOMAIN used, Free(b) PROVE TallyInv'
    BY <2>3, <1>9 DEF Free
  <2>4. ASSUME NEW b \in DOMAIN used, NEW n \in Requests, ReallocMove(b, n) PROVE TallyInv'
    BY <2>4, <1>8, Asked DEF ReallocMove
  <2>5. ASSUME NEW b \in DOMAIN used, NEW n \in Requests, ReallocInPlace(b, n) PROVE TallyInv'
    <3>1. donated' = donated
      BY <2>5 DEF ReallocInPlace
    <3> QED
      BY <3>1, <2>5, <1>1, <1>2, <1>3, <1>6, ReallocInPlaceTally
  <2> QED
    BY <2>1, <2>2, <2>3, <2>4, <2>5, <1>7, <1>10 DEF Call
<1>11. CASE ReallocDone
  <2>1. PICK m \in moving : Release(m.from) /\ donated' = donated
    BY <1>11 DEF ReallocDone
  <2>2. m.from \in DOMAIN used
    BY <1>1 DEF HeapInv
  <2> QED
    BY <2>1, <2>2, <1>9
<1>12. CASE UNCHANGED vars
  BY <1>1, <1>12 DEF vars, list, TallyInv
<1> QED
  BY <1>10, <1>11, <1>12 DEF Next

\* The empty heap satisfies it.
LEMMA TallyInit == Init => TallyInv
<1> SUFFICES ASSUME Init PROVE TallyInv
  OBVIOUS
<1>1. DOMAIN SizesOf(blk) = {} /\ DOMAIN used = {} /\ DOMAIN Lens(donated) = {} /\ heapptr = Org
  BY DEF Init, Nothing, SizesOf, Lens
<1>2. SumOf(SizesOf(blk)) = 0 /\ SumOf(used) = 0 /\ SumOf(Lens(donated)) = 0
  BY <1>1, SumNone
<1>3. Counted(Lens(donated))
  BY <1>1, FS_EmptySet DEF Counted
<1> QED
  BY <1>1, <1>2, <1>3, InitHeap, HeapAssumption DEF TallyInv, Tally


-----------------------------------------------------------------------------
(* What the queries report.                                                *)

\* The walk of the list: each block is followed by the next one above it.
LEMMA WalkFacts ==
    ASSUME HeapInv
    PROVE  /\ Null \in Nodes /\ heapfirst \in Nodes /\ DOMAIN blk \subseteq Nodes
           /\ heapfirst = Null => DOMAIN blk = {}
           /\ heapfirst # Null => heapfirst \in DOMAIN blk /\ \A x \in DOMAIN blk : heapfirst <= x
           /\ \A a \in DOMAIN blk :
                 /\ blk[a].next \in Nodes
                 /\ blk[a].next = Null => \A x \in DOMAIN blk : x <= a
                 /\ blk[a].next # Null => /\ blk[a].next \in DOMAIN blk /\ a < blk[a].next
                                          /\ \A x \in DOMAIN blk : x <= a \/ blk[a].next <= x
<1>1. Linked(blk, heapfirst, heaplast)
  BY DEF HeapInv
<1>2. \A a \in DOMAIN blk : NextIn(DOMAIN blk, a, blk[a].next)
  BY <1>1 DEF Linked
<1>3. NextIn(DOMAIN blk, Null, heapfirst) /\ \A x \in DOMAIN blk : x \in Nat /\ x > 0 /\ Null = 0
  BY <1>1, HeapFacts DEF Linked
<1>4. heapfirst = Null => DOMAIN blk = {}
  <2>1. SUFFICES ASSUME heapfirst = Null, NEW x \in DOMAIN blk PROVE FALSE
    OBVIOUS
  <2>2. x <= Null
    BY <2>1, <1>3 DEF NextIn
  <2> QED
    BY <2>2, <1>3
<1>5. heapfirst # Null => heapfirst \in DOMAIN blk /\ \A x \in DOMAIN blk : heapfirst <= x
  BY <1>3 DEF NextIn
<1> QED
  BY <1>2, <1>4, <1>5 DEF NextIn, Nodes

\* A set of addresses of free blocks that is not empty has a greatest member.
LEMMA LastOf ==
    ASSUME HeapInv, NEW T \in SUBSET DOMAIN blk, T # {}
    PROVE  \E m \in T : \A y \in T : y <= m
<1>1. T \in SUBSET (1 .. Word - 1)
  BY DEF HeapInv, Linked
<1> QED
  BY <1>1, HasGreatest

\* _heapmemavail adds up the blocks of the list and what is above the top.
LEMMA WalkSums == ASSUME HeapInv PROVE HeapMemAvail = SumOf(SizesOf(blk)) + End - heapptr
<1>1. Counted(SizesOf(blk))
  BY BlocksCounted DEF HeapInv
<1>2. PICK sz : sz = SizesOf(blk)
  OBVIOUS
<1>3. DOMAIN sz = DOMAIN blk /\ \A a \in DOMAIN blk : sz[a] = blk[a].size
  BY <1>2 DEF SizesOf
<1>4. PICK S : Sums(sz, S) /\ SumOf(sz) = S[DOMAIN blk]
  BY <1>1, <1>2, <1>3, SumsExist DEF Counted
<1> DEFINE Tail(a) == {x \in DOMAIN blk : a <= x}
<1>5. PICK g : g = [a \in Nodes |-> IF a = Null THEN 0 ELSE S[Tail(a)]]
  OBVIOUS
<1>6. g[Null] = 0 /\ \A a \in DOMAIN blk : g[a] = S[Tail(a)]
  <2>1. \A a \in DOMAIN blk : a \in Nodes /\ a # Null
    BY WalkFacts, HeapFacts
  <2> QED
    BY <2>1, <1>5, WalkFacts
<1>7. ASSUME NEW a \in DOMAIN blk PROVE g[a] = blk[a].size + g[blk[a].next]
  <2>1. a \in Tail(a) /\ Tail(a) \in SUBSET DOMAIN sz
    BY <1>3, HeapFacts
  <2>2. S[Tail(a)] = blk[a].size + S[Tail(a) \ {a}]
    BY <2>1, <1>3, <1>4 DEF Sums
  <2>3. CASE blk[a].next = Null
    <3>1. Tail(a) \ {a} = {}
      <4>1. \A x \in DOMAIN blk : x <= a
        BY <2>3, WalkFacts
      <4> QED
        BY <4>1, HeapFacts
    <3>2. S[{}] = 0
      BY <1>4 DEF Sums
    <3> QED
      BY <2>2, <2>3, <3>1, <3>2, <1>6
  <2>4. CASE blk[a].next # Null
    <3>1. PICK n \in DOMAIN blk : n = blk[a].next /\ a < n /\ \A x \in DOMAIN blk : x <= a \/ n <= x
      BY <2>4, WalkFacts
    <3>2. Tail(a) \ {a} = Tail(n)
      BY <3>1, HeapFacts
    <3>3. g[n] = S[Tail(n)] /\ g[a] = S[Tail(a)]
      BY <1>6
    <3> HIDE DEF Tail
    <3> QED
      BY <2>2, <3>1, <3>2, <3>3
  <2> QED
    BY <2>3, <2>4
<1>8. g = [a \in Nodes |-> IF a = Null THEN 0 ELSE blk[a].size + g[blk[a].next]]
  <2>1. \A a \in Nodes : g[a] = IF a = Null THEN 0 ELSE blk[a].size + g[blk[a].next]
    <3> HIDE DEF Tail
    <3> QED
      BY <1>6, <1>7 DEF Nodes
  <2>2. g = [a \in Nodes |-> g[a]]
    BY <1>5
  <2> HIDE DEF Tail
  <2> QED
    BY <2>1, <2>2
<1>9. PICK h : /\ h = [a \in Nodes |-> IF a = Null THEN 0 ELSE blk[a].size + h[blk[a].next]]
               /\ HeapMemAvail = h[heapfirst] + End - heapptr
  <2> HIDE DEF Tail
  <2> QED
    BY <1>8 DEF HeapMemAvail
<1>10. h[Null] = 0 /\ \A a \in DOMAIN blk : h[a] = blk[a].size + h[blk[a].next]
  <2>1. \A a \in DOMAIN blk : a \in Nodes /\ a # Null
    BY WalkFacts, HeapFacts
  <2> QED
    BY <2>1, <1>9, WalkFacts
\* The recursion has one solution.
<1>11. \A a \in DOMAIN blk : h[a] = g[a]
  <2>1. PICK T : T = {a \in DOMAIN blk : h[a] # g[a]}
    OBVIOUS
  <2>2. SUFFICES ASSUME T # {} PROVE FALSE
    BY <2>1
  <2>3. PICK a \in T : \A y \in T : y <= a
    BY <2>1, <2>2, LastOf
  <2>4. a \in DOMAIN blk /\ h[blk[a].next] # g[blk[a].next]
    BY <2>1, <1>7, <1>10
  <2>5. blk[a].next \in T /\ a < blk[a].next
    <3>1. blk[a].next # Null
      BY <2>4, <1>6, <1>10
    <3> QED
      BY <2>1, <2>4, <3>1, WalkFacts
  <2> QED
    BY <2>1, <2>3, <2>4, <2>5, HeapFacts
<1>12. h[heapfirst] = SumOf(sz)
  <2>1. CASE heapfirst = Null
    <3>1. DOMAIN blk = {}
      BY <2>1, WalkFacts
    <3>2. S[{}] = 0
      BY <1>4 DEF Sums
    <3> QED
      BY <2>1, <3>1, <3>2, <1>4, <1>10
  <2>2. CASE heapfirst # Null
    <3>1. heapfirst \in DOMAIN blk /\ Tail(heapfirst) = DOMAIN blk
      BY <2>2, WalkFacts
    <3>2. h[heapfirst] = S[Tail(heapfirst)]
      BY <3>1, <1>6, <1>11
    <3> QED
      BY <3>1, <3>2, <1>4
  <2> QED
    BY <2>1, <2>2
<1> QED
  BY <1>2, <1>9, <1>12

\* A set of words that is not empty has a greatest member, 0 included.
LEMMA HasMost ==
    ASSUME NEW T \in SUBSET (0 .. Word), T # {}
    PROVE  \E m \in T : \A y \in T : y <= m
<1>1. Word \in Nat /\ T \subseteq Nat /\ \A y \in T : Word - y \in Nat
  BY HeapAssumption
<1> PICK S : S = {Word - y : y \in T}
  OBVIOUS
<1>2. S \in SUBSET Nat /\ S # {}
  BY <1>1
<1>3. PICK k \in S : \A y \in S : k <= y
  BY <1>2, HasLeast
<1>4. PICK m \in T : k = Word - m
  BY <1>3
<1>5. ASSUME NEW y \in T PROVE y <= m
  <2>1. Word - y \in S
    OBVIOUS
  <2>2. Word - m <= Word - y
    BY <2>1, <1>3, <1>4
  <2>3. m \in Nat /\ y \in Nat
    BY <1>1
  <2> QED
    BY ONLY <2>2, <2>3, <1>1
<1> QED
  BY <1>5

\* The walk finds the size of a block or of the space above that none exceeds.
LEMMA WalkMax ==
    ASSUME HeapInv
    PROVE  \E size \in Nat : /\ \/ size = End - heapptr
                                \/ \E x \in DOMAIN blk : size = blk[x].size
                             /\ End - heapptr <= size
                             /\ \A x \in DOMAIN blk : blk[x].size <= size
                             /\ HeapMaxAvail = IF size < Admin THEN 0 ELSE size - Admin
<1>1. PICK rest : rest = End - heapptr
  OBVIOUS
<1>2. /\ Word \in Nat /\ rest \in Nat /\ rest <= Word
      /\ \A a \in DOMAIN blk : /\ a \in Nat /\ a # Null /\ a \in Nodes
                               /\ blk[a].size \in Nat /\ blk[a].size <= Word
  BY <1>1, HeapFacts, WalkFacts
\* The sizes the walk meets from a on.
<1> DEFINE Met(a) == {rest} \cup {blk[x].size : x \in {y \in DOMAIN blk : a <= y}}
           Most(T) == CHOOSE m \in T : \A y \in T : y <= m
<1>3. ASSUME NEW a \in DOMAIN blk
      PROVE  /\ Most(Met(a)) \in Met(a) /\ Most(Met(a)) \in Nat
             /\ \A y \in Met(a) : y <= Most(Met(a))
  <2>1. PICK T : T = Met(a)
    OBVIOUS
  <2>2. T \in SUBSET (0 .. Word) /\ T # {}
    BY <2>1, <1>2
  <2>3. PICK m : m = Most(T)
    OBVIOUS
  <2>4. \E k \in T : \A y \in T : y <= k
    BY <2>2, HasMost
  <2>5. m \in T /\ \A y \in T : y <= m
    BY <2>3, <2>4
  <2>6. m \in Nat
    BY <2>2, <2>5, <1>2
  <2> QED
    BY <2>1, <2>3, <2>5, <2>6
<1>4. PICK g : g = [a \in Nodes |-> IF a = Null THEN rest ELSE Most(Met(a))]
  OBVIOUS
<1>5. g[Null] = rest /\ \A a \in DOMAIN blk : g[a] = Most(Met(a))
  <2> HIDE DEF Met, Most
  <2> QED
    BY <1>2, <1>4, WalkFacts
<1>6. ASSUME NEW a \in DOMAIN blk PROVE g[a] = Larger(g[blk[a].next], blk[a].size)
  <2>1. PICK n, p, q : n = blk[a].next /\ p = g[a] /\ q = g[n]
    OBVIOUS
  <2>2. /\ p \in Met(a) /\ p \in Nat /\ \A y \in Met(a) : y <= p
    <3> HIDE DEF Met, Most
    <3> QED
      BY <2>1, <1>3, <1>5
  <2>3. p >= rest /\ p >= blk[a].size
    BY <2>2, <1>2
  <2>4. p = rest \/ p = blk[a].size \/ \E x \in DOMAIN blk : a < x /\ p = blk[x].size
    BY <2>2, <1>2
  <2>5. CASE n = Null
    <3>1. q = rest
      BY <2>1, <2>5, <1>5
    <3>2. \A x \in DOMAIN blk : ~ (a < x)
      <4>1. \A x \in DOMAIN blk : x <= a
        BY <2>1, <2>5, WalkFacts
      <4> QED
        BY <4>1, <1>2
    <3>3. p = Larger(rest, blk[a].size)
      BY ONLY <1>2, <2>2, <2>3, <2>4, <3>2 DEF Larger
    <3> QED
      BY <2>1, <3>1, <3>3
  <2>6. CASE n # Null
    <3>1. n \in DOMAIN blk /\ a < n /\ \A x \in DOMAIN blk : x <= a \/ n <= x
      BY <2>1, <2>6, WalkFacts
    <3>2. q \in Met(n) /\ q \in Nat /\ \A y \in Met(n) : y <= q
      <4> HIDE DEF Met, Most
      <4> QED
        BY <2>1, <3>1, <1>3, <1>5
    <3>3. q >= rest /\ \A x \in DOMAIN blk : a < x => blk[x].size <= q
      <4>1. ASSUME NEW x \in DOMAIN blk, a < x PROVE n <= x
        BY <3>1, <4>1, <1>2
      <4> QED
        BY <3>2, <4>1, <1>2
    <3>4. q <= p
      <4>1. q = rest \/ \E x \in DOMAIN blk : n <= x /\ q = blk[x].size
        BY <3>2
      <4>2. ASSUME NEW x \in DOMAIN blk, n <= x PROVE blk[x].size <= p
        <5>1. a <= x
          BY <3>1, <4>2, <1>2
        <5> QED
          BY <2>2, <5>1
      <4> QED
        BY <4>1, <4>2, <2>3
    <3>5. p <= q \/ p = blk[a].size
      BY <2>4, <3>2, <3>3
    <3>6. blk[a].size \in Nat
      BY <1>2
    <3>7. p = Larger(q, blk[a].size)
      BY ONLY <2>2, <2>3, <3>2, <3>4, <3>5, <3>6 DEF Larger
    <3> QED
      BY <2>1, <3>7
  <2> QED
    BY <2>5, <2>6
<1> HIDE DEF Met, Most
<1>7. g = [a \in Nodes |-> IF a = Null THEN End - heapptr
                           ELSE Larger(g[blk[a].next], blk[a].size)]
  <2>1. \A a \in Nodes : g[a] = IF a = Null THEN End - heapptr
                                ELSE Larger(g[blk[a].next], blk[a].size)
    BY <1>1, <1>5, <1>6 DEF Nodes
  <2>2. g = [a \in Nodes |-> g[a]]
    BY <1>4
  <2> QED
    BY <2>1, <2>2
<1>8. PICK h : /\ h = [a \in Nodes |-> IF a = Null THEN End - heapptr
                                       ELSE Larger(h[blk[a].next], blk[a].size)]
               /\ HeapMaxAvail = IF h[heapfirst] < Admin THEN 0 ELSE h[heapfirst] - Admin
  <2> DEFINE Walks(w) == w = [a \in Nodes |-> IF a = Null THEN End - heapptr
                                             ELSE Larger(w[blk[a].next], blk[a].size)]
  <2>1. PICK h : h = CHOOSE w : Walks(w)
    OBVIOUS
  <2>2. HeapMaxAvail = IF h[heapfirst] < Admin THEN 0 ELSE h[heapfirst] - Admin
    BY ONLY <2>1 DEF HeapMaxAvail
  <2>3. Walks(g)
    BY <1>7
  <2>4. Walks(h)
    <3> HIDE DEF Walks
    <3> QED
      BY <2>1, <2>3
  <2> QED
    BY <2>2, <2>4
<1>9. h[Null] = rest /\ \A a \in DOMAIN blk : h[a] = Larger(h[blk[a].next], blk[a].size)
  BY <1>1, <1>2, <1>8, WalkFacts
<1> DEFINE Good(a) == /\ h[a] \in Nat /\ rest <= h[a]
                      /\ h[a] = rest \/ \E x \in DOMAIN blk : h[a] = blk[x].size
                      /\ \A x \in DOMAIN blk : a <= x => blk[x].size <= h[a]
<1>10. ASSUME NEW a \in DOMAIN blk, blk[a].next # Null => Good(blk[a].next) PROVE Good(a)
  <2>1. PICK n, p, q, k : n = blk[a].next /\ p = h[a] /\ q = h[n] /\ k = blk[a].size
    OBVIOUS
  <2>2. /\ q \in Nat /\ rest <= q
        /\ q = rest \/ \E x \in DOMAIN blk : q = blk[x].size
        /\ \A x \in DOMAIN blk : a <= x => x = a \/ blk[x].size <= q
    <3>1. CASE n = Null
      <4>1. \A x \in DOMAIN blk : x <= a
        BY <2>1, <3>1, WalkFacts
      <4>2. \A x \in DOMAIN blk : a <= x => x = a
        BY <4>1, <1>2
      <4>3. q = rest
        BY <2>1, <3>1, <1>9
      <4> QED
        BY <4>2, <4>3, <1>2
    <3>2. CASE n # Null
      <4>1. a < n /\ n \in DOMAIN blk /\ \A x \in DOMAIN blk : x <= a \/ n <= x
        BY <2>1, <3>2, WalkFacts
      <4>2. \A x \in DOMAIN blk : a <= x => x = a \/ n <= x
        BY <4>1, <1>2
      <4>3. Good(n)
        BY <2>1, <3>2, <1>10
      <4> QED
        BY <2>1, <4>2, <4>3
    <3> QED
      BY <3>1, <3>2
  <2>3. p = Larger(q, k) /\ k \in Nat
    BY <2>1, <1>2, <1>9
  <2>4. p \in Nat /\ q <= p /\ k <= p /\ (p = q \/ p = k)
    <3>1. q \in Nat
      BY <2>2
    <3> QED
      BY ONLY <3>1, <2>3 DEF Larger
  <2>5. ASSUME NEW x \in DOMAIN blk, a <= x PROVE blk[x].size <= p
    <3>1. blk[x].size \in Nat /\ (x = a \/ blk[x].size <= q)
      BY <2>2, <2>5, <1>2
    <3> QED
      BY <2>1, <2>2, <2>4, <3>1
  <2>6. p = rest \/ \E x \in DOMAIN blk : p = blk[x].size
    BY <2>1, <2>2, <2>4
  <2> QED
    BY <2>1, <2>2, <2>4, <2>5, <2>6, <1>2
<1> HIDE DEF Good
<1>11. \A a \in DOMAIN blk : Good(a)
  <2>1. PICK T : T = {a \in DOMAIN blk : ~Good(a)}
    OBVIOUS
  <2>2. SUFFICES ASSUME T # {} PROVE FALSE
    BY <2>1
  <2>3. PICK a \in T : \A y \in T : y <= a
    BY <2>1, <2>2, LastOf
  <2>4. a \in DOMAIN blk /\ ~Good(a)
    BY <2>1
  <2>5. blk[a].next # Null /\ ~Good(blk[a].next)
    BY <2>4, <1>10
  <2>6. blk[a].next \in DOMAIN blk /\ a < blk[a].next
    BY <2>4, <2>5, WalkFacts
  <2> QED
    BY <2>1, <2>3, <2>4, <2>5, <2>6, <1>2
<1>12. PICK size : size = h[heapfirst]
  OBVIOUS
<1>13. /\ size \in Nat /\ rest <= size
       /\ size = rest \/ \E x \in DOMAIN blk : size = blk[x].size
       /\ \A x \in DOMAIN blk : blk[x].size <= size
  <2>1. CASE heapfirst = Null
    BY <2>1, <1>2, <1>9, <1>12, WalkFacts
  <2>2. CASE heapfirst # Null
    BY <2>2, <1>11, <1>12, WalkFacts DEF Good
  <2> QED
    BY <2>1, <2>2
<1> QED
  BY <1>1, <1>8, <1>12, <1>13

\* Nothing larger than _heapmaxavail reports can be allocated.
LEMMA MaxBounds == ASSUME HeapInv PROVE MaxAvailBounds
<1>1. PICK size \in Nat : /\ End - heapptr <= size
                          /\ \A x \in DOMAIN blk : blk[x].size <= size
                          /\ HeapMaxAvail = IF size < Admin THEN 0 ELSE size - Admin
  BY WalkMax
<1>2. Word \in Nat /\ Admin \in Nat /\ End \in Nat /\ heapptr \in Nat
  BY TotalFits, HeapFacts
<1>3. SUFFICES ASSUME NEW n \in HeapMaxAvail + 1 .. Word - Admin - 1 PROVE ~Grantable(n)
  BY DEF MaxAvailBounds
<1>4. n \in Nat /\ n + Admin < Word /\ n + Admin > size
  BY <1>1, <1>2
<1>5. PICK t : t = Total(n)
  OBVIOUS
<1>6. t \in Nat /\ t > size
  BY <1>1, <1>2, <1>4, <1>5, TotalFits
<1>7. FirstFit(t) = Null
  <2>1. SUFFICES ASSUME FirstFit(t) # Null PROVE FALSE
    OBVIOUS
  <2>2. FirstFit(t) \in DOMAIN blk /\ blk[FirstFit(t)].size >= t
    BY <1>6, <2>1, FirstFitSound DEF HeapInv, Nodes
  <2> QED
    BY <2>2, <1>1, <1>6, HeapFacts
<1>8. ~ (heapptr + t <= End)
  BY <1>1, <1>2, <1>6
<1> QED
  BY <1>5, <1>7, <1>8 DEF Grantable

\* What _heapmaxavail reports can be allocated, unless no block is so small.
LEMMA MaxMeant == ASSUME HeapInv PROVE MaxAvailMeant
<1>1. PICK size \in Nat : /\ \/ size = End - heapptr
                             \/ \E x \in DOMAIN blk : size = blk[x].size
                          /\ HeapMaxAvail = IF size < Admin THEN 0 ELSE size - Admin
  BY WalkMax
<1>2. /\ Word \in Nat /\ Admin \in Nat /\ MinBlock \in Nat /\ End \in Nat /\ heapptr \in Nat
      /\ Admin < MinBlock /\ heapptr > 0 /\ heapptr <= End /\ End < Word
  BY TotalFits, HeapFacts
<1>3. SUFFICES ASSUME HeapMaxAvail + Admin >= MinBlock PROVE Grantable(HeapMaxAvail)
  BY DEF MaxAvailMeant
<1>4. PICK n : n = HeapMaxAvail
  OBVIOUS
<1>5. n \in Nat /\ n + Admin = size /\ size >= MinBlock
  BY <1>1, <1>2, <1>3, <1>4
<1>6. size < Word
  <2>1. \A x \in DOMAIN blk : x \in Nat /\ x > 0 /\ blk[x].size \in Nat /\ x + blk[x].size <= Word
    BY HeapFacts
  <2> QED
    BY <1>1, <1>2, <2>1
<1>7. (n + Admin) % Word = size
  <2>1. size % Word = size
    BY ONLY <1>1, <1>2, <1>6, Z3
  <2> QED
    BY <1>5, <2>1
<1>8. Total(n) = size
  BY <1>2, <1>5, <1>7 DEF Total
<1>9. FirstFit(size) # Null \/ heapptr + size <= End
  <2>1. CASE size = End - heapptr
    BY <2>1, <1>2
  <2>2. CASE \E x \in DOMAIN blk : size = blk[x].size
    <3>1. Linked(blk, heapfirst, heaplast)
      BY DEF HeapInv
    <3>2. FirstFit(size) = Null => \A x \in DOMAIN blk : blk[x].size < size
      BY <3>1, FirstFitSound
    <3> QED
      BY <2>2, <3>2
  <2> QED
    BY <1>1, <2>1, <2>2
<1> QED
  BY <1>4, <1>8, <1>9 DEF Grantable

\* What is not in use is counted as available, whatever was given to the
\* heap and in whatever order the blocks are freed, and the largest block
\* reported can be allocated, unless it is too small for any, but nothing larger.
THEOREM QueriesHonest == ASSUME RequestsFit PROVE Spec => []AvailHonest
<1>1. ASSUME TallyInv PROVE AvailHonest
  <2>1. HeapInv
    BY <1>1 DEF TallyInv
  <2>2. HeapMemAvail = SumOf(SizesOf(blk)) + End - heapptr
    BY <2>1, WalkSums
  <2>3. SumOf(SizesOf(blk)) \in Nat /\ SumOf(used) \in Nat
    BY <2>1, BlocksCounted DEF HeapInv
  <2>4. SumOf(SizesOf(blk)) + SumOf(used) + Org = heapptr + SumOf(Lens(donated))
    BY <1>1 DEF TallyInv, Tally
  <2>5. SumOf(Lens(donated)) \in Nat
    BY <1>1, SumSame DEF TallyInv
  <2>6. HeapMemAvail + SumOf(used) = End - Org + SumOf(Lens(donated))
    BY <2>1, <2>2, <2>3, <2>4, <2>5, HeapFacts, HeapAssumption
  <2>7. Conserved
    BY <2>6 DEF Conserved, Given, SumOf, Lens
  <2> QED
    BY <2>1, <2>7, MaxBounds, MaxMeant DEF AvailHonest
<1> QED
  BY <1>1, TallyInit, TallyStep, PTL DEF Spec
=============================================================================

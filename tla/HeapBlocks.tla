------------------------------ MODULE HeapBlocks ------------------------------
(***************************************************************************)
(* What the C heap of src/libraries/libc promises: the memory from Org to  *)
(* the heap top is cut into blocks, free or used, without gap or overlap,  *)
(* and neighbouring free space is always one block.  How a free block is   *)
(* found, and how the free blocks are linked, is left open.                *)
(***************************************************************************)
EXTENDS Integers

CONSTANTS Org, End,     \* the heap's memory: the addresses Org .. End - 1
          MinBlock      \* the smallest block

VARIABLES top,          \* memory from here on was never handed out, or is again free
          free, used    \* the blocks below top

blockVars == <<top, free, used>>

Block == [at : Nat, len : Nat]
Blocks == free \cup used

EndOf(b) == b.at + b.len

Init == top = Org /\ free = {} /\ used = {}

GrantTop(n) == /\ top + n <= End
               /\ top' = top + n
               /\ used' = used \cup {[at |-> top, len |-> n]}
               /\ UNCHANGED free

GrantWhole(f) == /\ free' = free \ {f}
                 /\ used' = used \cup {f}
                 /\ UNCHANGED top

\* The used block is cut off the upper end of the free one.
GrantSlice(f, n) == /\ n + MinBlock <= f.len
                    /\ free' = (free \ {f}) \cup {[at |-> f.at, len |-> f.len - n]}
                    /\ used' = used \cup {[at |-> EndOf(f) - n, len |-> n]}
                    /\ UNCHANGED top

Before(u) == {f \in free : EndOf(f) = u.at}
After(u)  == {f \in free : f.at = EndOf(u)}

\* Freeing what is below the top lowers the top, past free space there.
FreeTop(u) == /\ EndOf(u) = top
              /\ used' = used \ {u}
              /\ free' = free \ Before(u)
              /\ top' \in IF Before(u) = {} THEN {u.at} ELSE {f.at : f \in Before(u)}

FreeInner(u) == /\ EndOf(u) # top
                /\ used' = used \ {u}
                /\ \E lo \in IF Before(u) = {} THEN {u.at}
                                               ELSE {f.at : f \in Before(u)},
                      hi \in IF After(u) = {} THEN {EndOf(u)}
                                              ELSE {EndOf(f) : f \in After(u)} :
                      free' = (free \ (Before(u) \cup After(u)))
                                  \cup {[at |-> lo, len |-> hi - lo]}
                /\ UNCHANGED top

\* The block below the top grows or shrinks in place.
Resize(u, n) == /\ EndOf(u) = top
                /\ u.at + n <= End
                /\ used' = (used \ {u}) \cup {[at |-> u.at, len |-> n]}
                /\ top' = u.at + n
                /\ UNCHANGED free

Sizes == MinBlock .. End - Org

Next == \/ \E n \in Sizes : GrantTop(n)
        \/ \E f \in free : GrantWhole(f) \/ \E n \in Sizes : GrantSlice(f, n)
        \/ \E u \in used : FreeTop(u) \/ FreeInner(u) \/ \E n \in Sizes : Resize(u, n)

Spec == Init /\ [][Next]_blockVars

-----------------------------------------------------------------------------
TypeOK == /\ top \in Org .. End
          /\ free \subseteq Block /\ used \subseteq Block
          /\ \A b \in Blocks : Org <= b.at /\ b.len > 0 /\ EndOf(b) <= top

\* No byte belongs to two blocks: neither two of the program's, nor one of
\* the program's and one whose links free() and malloc() rewrite.
NoOverlap == /\ free \cap used = {}
             /\ \A b, c \in Blocks : b # c => EndOf(b) <= c.at \/ EndOf(c) <= b.at

\* No byte is leaked: all memory below the top is in some block.
NoLeak == \A x \in Org .. top - 1 : \E b \in Blocks : b.at <= x /\ x < EndOf(b)

\* Free space is never fragmented without need: no two free blocks touch,
\* and none touches the top.
Coalesced == /\ \A f, g \in free : EndOf(f) # g.at
             /\ \A f \in free : EndOf(f) # top
=============================================================================

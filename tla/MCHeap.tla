-------------------------------- MODULE MCHeap --------------------------------
(***************************************************************************)
(* The properties of the heap that the runs check in a memory of a few     *)
(* dozen bytes, and the abstract specification it implements there.        *)
(***************************************************************************)
EXTENDS Heap

(* Values of the constants. *)

SmallArray == {<<2, 6>>}            \* calloc(2, 6)
AroundHeap == {[at |-> 2, len |-> 6], [at |-> 38, len |-> 7], [at |-> 50, len |-> 5]}

-----------------------------------------------------------------------------
FreeBlocks == {[at |-> a, len |-> blk[a].size] : a \in DOMAIN blk}
UsedBlocks == {[at |-> a, len |-> used[a]] : a \in DOMAIN used}

-----------------------------------------------------------------------------
(* The free list. *)

Least(S) == IF S = {} THEN Null ELSE CHOOSE x \in S : \A y \in S : x <= y
Greatest(S) == IF S = {} THEN Null ELSE CHOOSE x \in S : \A y \in S : y <= x

\* The free list is what the next malloc, free and _heapmemavail take it
\* for: doubly linked, sorted by address, complete, with correct ends.
ListSound ==
    /\ heapfirst = Least(DOMAIN blk)
    /\ heaplast = Greatest(DOMAIN blk)
    /\ \A a \in DOMAIN blk :
          /\ blk[a].next = Least({x \in DOMAIN blk : x > a})
          /\ blk[a].prev = Greatest({x \in DOMAIN blk : x < a})

\* No two blocks share a byte: the design notes ask for no overlaps
\* between live blocks.
BlocksDisjoint ==
    \A b, c \in FreeBlocks \cup UsedBlocks :
        b # c => b.at + b.len <= c.at \/ c.at + c.len <= b.at

-----------------------------------------------------------------------------
(* Accounting. *)

\* _heapmemavail: the sum over the list, and what is above the top.
HeapMemAvail ==
    LET sum[a \in Nodes] == IF a = Null THEN 0 ELSE blk[a].size + sum[blk[a].next]
    IN  sum[heapfirst] + End - heapptr

Given == FoldFunction(+, 0, [d \in donated |-> d.len])

\* Whatever is not handed out is counted as available: _heapmemavail
\* returns to its initial value, plus what was donated, once everything is
\* freed, in whatever order.
Conserved == HeapMemAvail + FoldFunction(+, 0, used) = End - Org + Given

\* The larger of two sizes.
Larger(s, k) == IF s < k THEN k ELSE s

\* Mutant: the size word of the block is not taken off.
HeapMaxAvailGross ==
    LET largest[a \in Nodes] == IF a = Null THEN End - heapptr
                               ELSE Larger(largest[blk[a].next], blk[a].size)
    IN  largest[heapfirst]

\* _heapmaxavail: the largest block of the list, or what is above the top.
\* The walk compares from the front and this from the end, with one result.
HeapMaxAvail ==
    LET largest[a \in Nodes] == IF a = Null THEN End - heapptr
                               ELSE Larger(largest[blk[a].next], blk[a].size)
        size == largest[heapfirst]
    IN  IF size < Admin THEN 0 ELSE size - Admin

\* malloc would find room for n bytes.
Grantable(n) == FirstFit(Total(n)) # Null \/ heapptr + Total(n) <= End

\* _heapmaxavail never reports too little: nothing larger can be allocated.
MaxAvailBounds == \A n \in HeapMaxAvail + 1 .. Word - Admin - 1 : ~Grantable(n)

\* And it reports too much only if it is less than the smallest block holds:
\* malloc has no room for a block in what is left above the heap top.
MaxAvailMeant == HeapMaxAvail + Admin >= MinBlock => Grantable(HeapMaxAvail)

\* What the two queries say of the heap is so: what is not in use is counted
\* as available, and the largest block can be allocated, but nothing larger.
AvailHonest == Conserved /\ MaxAvailBounds /\ MaxAvailMeant

\* Memory that is given to the heap from elsewhere keeps the list sound and
\* the blocks apart (__heapadd).
DonationsKept == ListSound /\ BlocksDisjoint

-----------------------------------------------------------------------------
(* What the program gets. *)

\* A block holds at least the bytes the program asked malloc, calloc or
\* realloc for, behind its size word.
GrantCovers == \A a \in DOMAIN used : req[a] + Admin <= used[a]

\* realloc copies everything the program may keep of the old block, within
\* both blocks, although it passes malloc a size that already has the size
\* word added.
CopyKeepsData ==
    \A m \in moving :
        /\ m.bytes + Admin <= used[m.from] /\ m.bytes + Admin <= used[m.to]
        /\ m.bytes >= req[m.from] \/ m.bytes >= req[m.to]

\* The program gets the bytes it asks for, and keeps those it had.
KeepsPromises == GrantCovers /\ CopyKeepsData

-----------------------------------------------------------------------------
(* Refinement. *)

Abstract == INSTANCE HeapBlocks WITH
                top <- heapptr, free <- FreeBlocks, used <- UsedBlocks

\* The linked list and the heap top implement the abstract cutting of the
\* memory into blocks, with all that is proved of it.
ImplementsBlocks == Abstract!Spec

\* No byte is leaked: what malloc hands out, what free enters into the list
\* and what a resize moves the heap top by leave nothing between them.
NoLeak == Abstract!NoLeak

\* Free space is never fragmented without need: no two blocks of the list
\* touch, and none touches the heap top (free).
Coalesced == Abstract!Coalesced
=============================================================================

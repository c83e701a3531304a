--------------------------------- MODULE Heap ---------------------------------
(***************************************************************************)
(* The C heap of src/libraries/libc: malloc, calloc, free, realloc and     *)
(* _heapadd, over a doubly linked list of free blocks sorted by address    *)
(* and a heap top that moves.                                              *)
(*                                                                         *)
(* The heap is not reentrant and no handler calls it, so a call is one     *)
(* step; only realloc is two, its malloc and its copying and free, because *)
(* both blocks exist in between.  A call that changes nothing (a NULL or   *)
(* zero argument, no memory left) is no step.  What a used block holds     *)
(* beyond its size word is the program's and not tracked.  Addresses and   *)
(* sizes are words, reduced modulo Word.                                   *)
(***************************************************************************)
EXTENDS Integers, FiniteSets, Functions

CONSTANTS Org, End,      \* __heaporg, __heapend
          Word,          \* 2^16 in the source
          Admin,         \* HEAP_ADMIN_SPACE: the size word of a used block
          MinBlock,      \* HEAP_MIN_BLOCKSIZE
          Requests,      \* sizes the program asks for
          Arrays,        \* <<count, size>> pairs it passes to calloc
          Donations      \* [at, len] records it passes to _heapadd

ASSUME HeapAssumption ==
    /\ {Org, End, Word, Admin, MinBlock} \subseteq Nat \ {0}
    /\ Org <= End /\ End < Word /\ Admin < MinBlock /\ MinBlock + Admin < Word
    /\ Requests \subseteq 1 .. Word - 1
    /\ \A d \in Donations : /\ {d.at, d.len} \subseteq Nat \ {0} /\ d.at + d.len <= Word
                            /\ d.at >= End \/ d.at + d.len <= Org
                            /\ \A e \in Donations \ {d} :
                                  d.at + d.len <= e.at \/ e.at + e.len <= d.at

VARIABLES heapptr,                \* __heapptr: the heap top
          heapfirst, heaplast,    \* the ends of the free list
          blk,                    \* the free blocks: struct freeblock by address
          used,                   \* the size word of each used block, by address
          req,                    \* what the program asked for when it got the block
          moving,                 \* the moves realloc is in the middle of: at most one
          donated                 \* blocks given to _heapadd so far

list == <<heapfirst, heaplast, blk>>
vars == <<heapptr, list, used, req, moving, donated>>

Addr == 0 .. Word - 1
Null == 0

Nothing == [a \in {} |-> 0]

Init == /\ heapptr = Org
        /\ heapfirst = Null /\ heaplast = Null
        /\ blk = Nothing
        /\ used = Nothing /\ req = Nothing
        /\ moving = {}
        /\ donated = {}

-----------------------------------------------------------------------------
(* The free list. *)

With(f, a, v) == [x \in DOMAIN f \cup {a} |-> IF x = a THEN v ELSE f[x]]
Without(f, a) == Restrict(f, DOMAIN f \ {a})
WithNext(b, a, n) == IF a = Null THEN b ELSE [b EXCEPT ![a].next = n]
WithPrev(b, a, p) == IF a = Null THEN b ELSE [b EXCEPT ![a].prev = p]

Nodes == DOMAIN blk \cup {Null}

\* The first block of the list with room for t bytes, or Null.
FirstFit(t) ==
    LET scan[a \in Nodes] == IF a = Null THEN Null
                            ELSE IF blk[a].size >= t THEN a
                            ELSE scan[blk[a].next]
    IN  scan[heapfirst]

\* The block behind block l, or in front of all if l is Null.
NextOf(l) == IF l = Null THEN heapfirst ELSE blk[l].next

\* The last block below address f, or Null: the walk stops at it.
Place(f) ==
    LET walk[l \in Nodes] == IF NextOf(l) = Null \/ NextOf(l) > f THEN l
                             ELSE walk[NextOf(l)]
    IN  walk[Null]

\* Mutant: a block is joined to its right neighbour only.
EnterNoLeftMerge(f, s) ==
    LET left  == Place(f)
        right == NextOf(left)
        joinRight == right # Null /\ (f + s) % Word = right
        next  == IF joinRight THEN blk[right].next ELSE right
        size  == IF joinRight THEN s + blk[right].size ELSE s
        rest  == WithNext(IF joinRight THEN Without(blk, right) ELSE blk, left, f)
    IN  /\ blk' = With(WithPrev(rest, next, f), f,
                       [size |-> size, next |-> next, prev |-> left])
        /\ heapfirst' = IF left = Null THEN f ELSE heapfirst
        /\ heaplast' = IF next = Null THEN f ELSE heaplast

\* heapadd: enter a block, joined to the neighbours it touches.
Enter(f, s) ==
    LET left  == Place(f)
        right == NextOf(left)
        joinRight == right # Null /\ (f + s) % Word = right
        joinLeft  == left # Null /\ (left + blk[left].size) % Word = f
        next  == IF joinRight THEN blk[right].next ELSE right
        size  == IF joinRight THEN s + blk[right].size ELSE s
        start == IF joinLeft THEN left ELSE f
        whole == IF joinLeft THEN [blk[left] EXCEPT !.size = @ + size, !.next = next]
                 ELSE [size |-> size, next |-> next, prev |-> left]
        rest  == WithNext(IF joinRight THEN Without(blk, right) ELSE blk, left, start)
    IN  /\ blk' = With(WithPrev(rest, next, start), start, whole)
        /\ heapfirst' = IF left = Null THEN f ELSE heapfirst
        /\ heaplast' = IF next = Null THEN start ELSE heaplast

-----------------------------------------------------------------------------
(* malloc, for a request of r bytes passed as the size argument s.         *)

Total(s) == LET t == (s + Admin) % Word
            IN  IF t <= MinBlock THEN MinBlock ELSE t

Hand(a, t, r) == /\ used' = With(used, a, t)
                 /\ req' = With(req, a, r)

\* Mutant: the block behind keeps its link to the one taken.
TakeWholeStale(t, r) ==
    LET f == FirstFit(t)
        p == blk[f].prev
        n == blk[f].next
    IN  /\ f # Null /\ blk[f].size - t < MinBlock
        /\ blk' = Without(WithNext(blk, p, n), f)
        /\ heapfirst' = IF p = Null THEN n ELSE heapfirst
        /\ heaplast' = IF n = Null THEN p ELSE heaplast
        /\ Hand(f, blk[f].size, r)
        /\ UNCHANGED heapptr

\* Mutant: what is too small for a block of its own is not handed out.
TakeWholeShort(t, r) ==
    LET f == FirstFit(t)
        p == blk[f].prev
        n == blk[f].next
    IN  /\ f # Null /\ blk[f].size - t < MinBlock
        /\ blk' = Without(WithPrev(WithNext(blk, p, n), n, p), f)
        /\ heapfirst' = IF p = Null THEN n ELSE heapfirst
        /\ heaplast' = IF n = Null THEN p ELSE heaplast
        /\ Hand(f, t, r)
        /\ UNCHANGED heapptr

TakeWhole(t, r) ==
    LET f == FirstFit(t)
        p == blk[f].prev
        n == blk[f].next
    IN  /\ f # Null /\ blk[f].size - t < MinBlock
        /\ blk' = Without(WithPrev(WithNext(blk, p, n), n, p), f)
        /\ heapfirst' = IF p = Null THEN n ELSE heapfirst
        /\ heaplast' = IF n = Null THEN p ELSE heaplast
        /\ Hand(f, blk[f].size, r)
        /\ UNCHANGED heapptr

Slice(t, r) ==
    LET f == FirstFit(t)
        rest == blk[f].size - t
    IN  /\ f # Null /\ rest >= MinBlock
        /\ blk' = [blk EXCEPT ![f].size = rest]
        /\ Hand(f + rest, t, r)
        /\ UNCHANGED <<heapptr, heapfirst, heaplast>>

TakeFromTop(t, r) == /\ FirstFit(t) = Null
                     /\ heapptr + t <= End
                     /\ heapptr' = heapptr + t
                     /\ Hand(heapptr, t, r)
                     /\ UNCHANGED list

Grant(s, r) == \/ TakeWhole(Total(s), r)
               \/ Slice(Total(s), r)
               \/ TakeFromTop(Total(s), r)

Malloc(n) == /\ Grant(n, n)
             /\ UNCHANGED <<moving, donated>>

\* The product is a word; a product of zero makes malloc return NULL.
Calloc(count, size) == /\ (count * size) % Word # 0
                       /\ Grant((count * size) % Word, count * size)
                       /\ UNCHANGED <<moving, donated>>

-----------------------------------------------------------------------------
(* free and _heapadd. *)

AtTop(b) == (b + used[b]) % Word = heapptr

\* The last free block touches the block at b.
LastTouches(b) == /\ heaplast # Null
                  /\ (heaplast + blk[heaplast].size) % Word = b

Lower(b) == /\ AtTop(b) /\ ~LastTouches(b)
            /\ heapptr' = b
            /\ UNCHANGED list

\* Mutant: the free list keeps the block that became part of the top.
LowerFarKept(b) == /\ AtTop(b) /\ LastTouches(b)
                   /\ heapptr' = heaplast
                   /\ UNCHANGED list

LowerFar(b) == /\ AtTop(b) /\ LastTouches(b)
               /\ heapptr' = heaplast
               /\ heaplast' = blk[heaplast].prev
               /\ heapfirst' = IF heaplast' = Null THEN Null ELSE heapfirst
               /\ blk' = Without(WithNext(blk, heaplast', Null), heaplast)

Release(b) == /\ \/ Lower(b)
                 \/ LowerFar(b)
                 \/ ~AtTop(b) /\ Enter(b, used[b]) /\ UNCHANGED heapptr
              /\ used' = Without(used, b)
              /\ req' = Without(req, b)

Free(b) == /\ Release(b)
           /\ UNCHANGED <<moving, donated>>

\* Memory outside the heap, given once.  Less than a free block is ignored.
HeapAdd(d) == /\ d.len >= MinBlock
              /\ donated' = donated \cup {d}
              /\ Enter(d.at, d.len)
              /\ UNCHANGED <<heapptr, used, req, moving>>

-----------------------------------------------------------------------------
(* realloc of the block at b to n bytes. *)

Resized(n) == LET t == (n + Admin) % Word
              IN  IF t < MinBlock THEN MinBlock ELSE t

\* Where the heap top would be if the block grew or shrank in place.
NewTop(b, n) == (heapptr - used[b] + Resized(n)) % Word

InPlace(b, n) == AtTop(b) /\ NewTop(b, n) <= End

ReallocInPlace(b, n) == /\ InPlace(b, n)
                        /\ heapptr' = NewTop(b, n)
                        /\ used' = [used EXCEPT ![b] = Resized(n)]
                        /\ req' = [req EXCEPT ![b] = n]
                        /\ UNCHANGED <<list, moving, donated>>

\* Mutant: the old size counts the size word.
CopyTooLong(old, new) == IF new > old THEN old ELSE new

\* What is copied from a block of old bytes: new is already the augmented size.
CopySize(old, new) == IF new > old - Admin THEN old - Admin ELSE new

ReallocMove(b, n) == /\ ~InPlace(b, n)
                     /\ Grant(Resized(n), n)
                     /\ \E a \in DOMAIN used' \ DOMAIN used :
                           moving' = {[from |-> b, to |-> a,
                                       bytes |-> CopySize(used[b], Resized(n))]}
                     /\ UNCHANGED donated

ReallocDone == \E m \in moving : /\ Release(m.from)
                                 /\ moving' = {}
                                 /\ UNCHANGED donated

-----------------------------------------------------------------------------
Call == /\ moving = {}
        /\ \/ \E n \in Requests : Malloc(n)
           \/ \E a \in Arrays : Calloc(a[1], a[2])
           \/ \E b \in DOMAIN used :
                 \/ Free(b)
                 \/ \E n \in Requests : ReallocInPlace(b, n) \/ ReallocMove(b, n)
           \/ \E d \in Donations \ donated : HeapAdd(d)

Next == Call \/ ReallocDone

Spec == Init /\ [][Next]_vars
=============================================================================

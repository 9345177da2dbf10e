-------------------------------- MODULE Malloc --------------------------------
(***************************************************************************)
(* malloc() and free() of umalloc.c, one process and one thread.  Addresses *)
(* and sizes are in units of a header; base has address 0, below the heap. *)
(***************************************************************************)
EXTENDS Naturals, FiniteSets, Functions, TLC

CONSTANTS NALLOC,       \* least number of units morecore() asks for
          HeapEnd,      \* sbrk() fails beyond this address
          Requests,     \* sizes asked for, header included
          HeapStart     \* where the heap begins

VARIABLE heap           \* headers, freep, end of the heap, blocks given out

base == 0
NULL == HeapEnd + 1
Header(ptr, size) == [ptr |-> ptr, size |-> size]
Init == heap = [at |-> (base :> Header(NULL, 0)), freep |-> NULL, brk |-> HeapStart, live |-> {}]

ptr(h, p) == h.at[p].ptr
size(h, p) == h.at[p].size

(***************************************************************************)
(* free(): find the place in the address-ordered ring, join neighbours.    *)
(***************************************************************************)
RECURSIVE Place(_, _, _)
Place(h, bp, p) ==
    IF \/ bp > p /\ bp < ptr(h, p)
       \/ p >= ptr(h, p) /\ (bp > p \/ bp < ptr(h, p))
    THEN p ELSE Place(h, bp, ptr(h, p))

\* Mutant: a block is joined with the one after it only.
free_forward_only(h, bp) ==
    LET p == Place(h, bp, h.freep)
        next == ptr(h, p)
        b == IF bp + size(h, bp) = next THEN Header(ptr(h, next), size(h, bp) + size(h, next))
                                        ELSE Header(next, size(h, bp))
    IN  [h EXCEPT !.at[bp] = b, !.at[p].ptr = bp, !.freep = p, !.live = @ \ {bp}]

free(h, bp) ==
    LET p == Place(h, bp, h.freep)
        next == ptr(h, p)
        b == IF bp + size(h, bp) = next THEN Header(ptr(h, next), size(h, bp) + size(h, next))
                                        ELSE Header(next, size(h, bp))
        q == IF p + size(h, p) = bp THEN Header(b.ptr, size(h, p) + b.size)
                                    ELSE Header(bp, size(h, p))
    IN  [h EXCEPT !.at[bp] = b, !.at[p] = q, !.freep = p, !.live = @ \ {bp}]

(***************************************************************************)
(* morecore(): a new block at the end of the heap, given to free().        *)
(***************************************************************************)
Units(n) == IF n < NALLOC THEN NALLOC ELSE n
Refused(h, n) == h.brk + Units(n) > HeapEnd
morecore(h, n) ==
    free([h EXCEPT !.at = @ @@ (h.brk :> Header(NULL, Units(n))), !.brk = @ + Units(n)], h.brk)

(***************************************************************************)
(* malloc(): search the ring from freep; split a larger block at its end.  *)
(***************************************************************************)
Taken(h, prevp, p, n) ==
    IF size(h, p) = n
    THEN [h EXCEPT !.at[prevp].ptr = ptr(h, p), !.freep = prevp, !.live = @ \cup {p}]
    ELSE LET q == p + size(h, p) - n IN
         [h EXCEPT !.at = [@ EXCEPT ![p].size = @ - n] @@ (q :> Header(NULL, n)),
                   !.freep = prevp, !.live = @ \cup {q}]

RECURSIVE Search(_, _, _, _)
Search(h, prevp, p, n) ==
    IF size(h, p) >= n THEN Taken(h, prevp, p, n)
    ELSE IF p # h.freep THEN Search(h, p, ptr(h, p), n)
    ELSE IF Refused(h, n) THEN h
    ELSE LET more == morecore(h, n) IN Search(more, more.freep, ptr(more, more.freep), n)

Started(h) == IF h.freep = NULL THEN [h EXCEPT !.at[base] = Header(base, 0), !.freep = base] ELSE h

(***************************************************************************)
(* Headers that are neither free nor given out are memory of their block.  *)
(***************************************************************************)
RECURSIVE Ring(_, _)
Ring(h, p) == IF ptr(h, p) = base THEN {p} ELSE {p} \cup Ring(h, ptr(h, p))
FreeBlocks(h) == IF h.freep = NULL THEN {} ELSE Ring(h, base) \ {base}
Forget(h) == [h EXCEPT !.at = Restrict(@, {base} \cup FreeBlocks(h) \cup h.live)]

malloc(n) == LET h == Started(heap) IN heap' = Forget(Search(h, h.freep, ptr(h, h.freep), n))
free_call(p) == p \in heap.live /\ heap' = Forget(free(heap, p))

Next == (\E n \in Requests : malloc(n)) \/ (\E p \in heap.live : free_call(p))
Spec == Init /\ [][Next]_heap

-----------------------------------------------------------------------------
Units_of(b) == b..(b + size(heap, b) - 1)
Blocks == FreeBlocks(heap) \cup heap.live

\* The blocks given out and the free blocks cover the heap without gap or
\* overlap.
BlocksTileHeap ==
    /\ FreeBlocks(heap) \cap heap.live = {}
    /\ UNION {Units_of(b) : b \in Blocks} = HeapStart..(heap.brk - 1)
    /\ \A b, c \in Blocks : b # c => Units_of(b) \cap Units_of(c) = {}

\* free() joins a block with both neighbours.
FreeJoined ==
    \A b, c \in FreeBlocks(heap) : b + size(heap, b) # c

(* After any sequence of calls the heap is tiled, and no two free blocks   *)
(* touch, so a request fails only when no run of free units is long enough *)
(* and sbrk() refuses (malloc, free, morecore).                            *)
HeapRight == BlocksTileHeap /\ FreeJoined
=============================================================================

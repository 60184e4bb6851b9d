-------------------------------- MODULE Heap --------------------------------
(***************************************************************************)
(* The allocator (heap.c): a list of blocks in address order that is       *)
(* searched first fit, split on allocation and merged on free.  Addresses  *)
(* are bytes from the start of the heap, and a block is named by the       *)
(* address of its header.                                                  *)
(***************************************************************************)
EXTENDS Integers, Functions

CONSTANTS
    HeaderSize,     \* sizeof(struct block)
    InitSize        \* HEAP_INIT_SIZE

MACHINE_ALIGNMENT == 8

ASSUME HeapSizesAssumption ==
    /\ HeaderSize \in Nat \ {0} /\ HeaderSize % MACHINE_ALIGNMENT = 0
    /\ InitSize \in Nat /\ InitSize % MACHINE_ALIGNMENT = 0
    /\ InitSize > HeaderSize

heap_start == 0
NULL == -1

VARIABLES
    blk,        \* the headers whose magic is MAGIC_HEADER
    heap_end

heap == <<blk, heap_end>>

\* Function f with x mapped to v.
Put(f, x, v) == [y \in DOMAIN f \cup {x} |-> IF y = x THEN v ELSE f[y]]

\* sys_brk is taken to succeed: the code tests for a negative result, which
\* the system call never gives.
HeapInit ==
    /\ blk = [a \in {heap_start} |->
                 [size |-> InitSize - HeaderSize, free |-> TRUE,
                  next |-> NULL, prev |-> NULL]]
    /\ heap_end = InitSize

-----------------------------------------------------------------------------
(* my_malloc.                                                              *)

\* Mutant: sizes are not rounded up.
unaligned(size) == size

align(size) ==
    ((size + MACHINE_ALIGNMENT - 1) \div MACHINE_ALIGNMENT) * MACHINE_ALIGNMENT

\* Mutant: the block's size is not compared.
FitsAnySize(b, a, size) == b[a].free

Fits(b, a, size) == b[a].free /\ b[a].size >= size

\* The first block of list b that fits, or NULL.
FirstFit(b, size) ==
    LET search[a \in DOMAIN b \cup {NULL}] ==
            IF a = NULL \/ Fits(b, a, size) THEN a ELSE search[b[a].next]
    IN  search[heap_start]

LastBlock(b) ==
    LET last[a \in DOMAIN b] == IF b[a].next = NULL THEN a ELSE last[b[a].next]
    IN  last[heap_start]

\* Cut block a after size bytes.  The block that followed a keeps a as its
\* prev, although the new block is now between them.
split_block(b, a, size) ==
    LET total == size + HeaderSize
        new == [size |-> b[a].size - total, free |-> TRUE,
                next |-> b[a].next, prev |-> a]
    IN  Put([b EXCEPT ![a].next = a + total, ![a].size = size], a + total, new)

\* The end of find_free, once block a is found.
Take(b, a, size) ==
    LET cut == IF b[a].size > size + HeaderSize THEN split_block(b, a, size)
                                                ELSE b
    IN  [cut EXCEPT ![a].free = FALSE]

\* The list after the heap has grown by size bytes.
extend_heap(b, size) ==
    LET s == LastBlock(b)
        new == [size |-> size - HeaderSize, free |-> TRUE,
                next |-> NULL, prev |-> s]
    IN  IF b[s].free THEN [b EXCEPT ![s].size = @ + size]
        ELSE Put([b EXCEPT ![s].next = heap_end], heap_end, new)

\* my_malloc returns block a.
Malloc(bytes, a) ==
    LET size == align(bytes)
        grow == align(bytes + InitSize)
        longer == extend_heap(blk, grow)
    IN  \/ /\ FirstFit(blk, size) # NULL
           /\ a = FirstFit(blk, size)
           /\ blk' = Take(blk, a, size)
           /\ UNCHANGED heap_end
        \/ /\ FirstFit(blk, size) = NULL
           /\ a = FirstFit(longer, size)
           /\ blk' = Take(longer, a, size)
           /\ heap_end' = heap_end + grow

-----------------------------------------------------------------------------
(* my_free.                                                                *)

\* Mutant: the header of the merged block is not added.
MergeForgetsHeader(b, p, c) ==
    LET after == b[c].next
        grown == [b EXCEPT ![p].size = @ + b[c].size, ![p].next = after]
        linked == IF after = NULL THEN grown ELSE [grown EXCEPT ![after].prev = p]
    IN  Restrict(linked, DOMAIN b \ {c})

\* Give block c, which follows p on the list, to p.
Merge(b, p, c) ==
    LET after == b[c].next
        grown == [b EXCEPT ![p].size = @ + b[c].size + HeaderSize,
                           ![p].next = after]
        linked == IF after = NULL THEN grown ELSE [grown EXCEPT ![after].prev = p]
    IN  Restrict(linked, DOMAIN b \ {c})

FreeBlock(b, a) == a # NULL /\ b[a].free

\* Mutant: only the block before is merged.
coalesceBackwards(b, c) ==
    LET p == b[c].prev
    IN  IF FreeBlock(b, p) THEN Merge(b, p, c) ELSE b

\* Merge c with its prev, then the result with its next.
coalesce(b, c) ==
    LET p == b[c].prev
        back == FreeBlock(b, p)
        b1 == IF back THEN Merge(b, p, c) ELSE b
        c1 == IF back THEN p ELSE c
        n == b1[c1].next
    IN  IF FreeBlock(b1, n) THEN Merge(b1, c1, n) ELSE b1

\* Freeing a block twice, or something that is no block, changes nothing.
Free(a) ==
    /\ blk' = IF a \in DOMAIN blk /\ ~blk[a].free
              THEN coalesce([blk EXCEPT ![a].free = TRUE], a)
              ELSE blk
    /\ UNCHANGED heap_end

-----------------------------------------------------------------------------

\* The prev of block c is stale, and leads coalesce to a block that c does not
\* follow or to a header that has been merged away.
Astray(b, c) ==
    LET p == b[c].prev
    IN  p # NULL /\ (p \notin DOMAIN b \/ (b[p].free /\ b[p].next # c))

End(a) == a + HeaderSize + blk[a].size

\* The blocks on the list.
Listed ==
    LET from[a \in DOMAIN blk \cup {NULL}] ==
            IF a = NULL THEN {} ELSE {a} \cup from[blk[a].next]
    IN  from[heap_start]

=============================================================================

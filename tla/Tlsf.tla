-------------------------------- MODULE Tlsf --------------------------------
(***************************************************************************)
(* The allocator under yojimbo (yojimbo/tlsf/tlsf.c): every message, block *)
(* and packet of a connection is allocated from a pool of its own.         *)
(*                                                                         *)
(* Sizes and positions are counted in words of ALIGN_SIZE bytes.  A block  *)
(* is named by the word of its size field, and the caller's pointer is the *)
(* word after it.  Its last word holds the prev_phys_block of the block    *)
(* behind it, and belongs to the caller as long as the block is used.      *)
(***************************************************************************)
EXTENDS Integers, FiniteSets, SequencesExt

CONSTANTS
    PoolSize,       \* words of the first block, without its size field
    Base,           \* address of the pool, as far as alignment goes
    SLLog2,         \* SL_INDEX_COUNT_LOG2
    FLMax,          \* log2 of block_size_max
    Requests,       \* bound: words that callers ask for
    Alignments      \* bound: what they ask for in tlsf_memalign

ASSUME SizesAssumption ==
    /\ PoolSize \in Nat /\ Base \in Nat /\ SLLog2 \in Nat /\ FLMax \in Nat
    /\ 3 <= PoolSize /\ PoolSize < 2 ^ FLMax /\ SLLog2 <= FLMax
    /\ Requests \subseteq 0..(2 ^ FLMax - 1) /\ Alignments \subseteq {2 ^ k : k \in 0..FLMax}

VARIABLES
    heap,           \* the headers in the pool and the control structure
    held            \* the blocks callers hold, and the words they asked for

vars == <<heap, held>>
-----------------------------------------------------------------------------
(* Sizes and classes.                                                      *)

MinSize == 3                        \* block_size_min
HeaderSize == MinSize + 1           \* sizeof(block_header_t)
SizeMax == 2 ^ FLMax                \* block_size_max
Sentinel == PoolSize + 1
Words == 0..Sentinel
Nowhere == -1                       \* what a caller may have written over a pointer

Larger(a, b) == IF a < b THEN b ELSE a
RoundUp(n, align) == ((n + align - 1) \div align) * align
Fls(n) == CHOOSE k \in 0..n : 2 ^ k <= n /\ n < 2 ^ (k + 1)

AdjustRequest(n, align) ==
    IF n = 0 \/ RoundUp(n, align) >= SizeMax THEN 0 ELSE Larger(RoundUp(n, align), MinSize)

Classes == (0..(FLMax - SLLog2)) \X (0..(2 ^ SLLog2 - 1))
SmallBlock == 2 ^ SLLog2
Step(n) == 2 ^ (Fls(n) - SLLog2)
MappingInsert(n) ==
    IF n < SmallBlock THEN <<0, n>>
    ELSE <<Fls(n) - SLLog2 + 1, n \div Step(n) - SmallBlock>>

\* What makes every block of the class large enough.
RoundedSize(n) == IF n < SmallBlock THEN n ELSE n + Step(n) - 1
\* Mutant of MappingSearch: the class of the size itself, some of whose blocks are smaller.
MappingSearchDown(n) == MappingInsert(n)

\* The search rounds up.
MappingSearch(n) == MappingInsert(RoundedSize(n))
-----------------------------------------------------------------------------
(* The free lists.                                                         *)

Before(c, d) == c[1] < d[1] \/ (c[1] = d[1] /\ c[2] <= d[2])
First(S) == CHOOSE c \in S : \A d \in S : Before(c, d)

\* The class of the block to take: further on in the same row, or the first of a later row.
Suitable(h, c) ==
    LET row == {d \in h.slBitmap : d[1] = c[1] /\ c[2] <= d[2]}
        later == {d \in h.slBitmap : d[1] \in h.flBitmap /\ c[1] < d[1]}
    IN IF row # {} THEN {First(row)} ELSE IF later # {} THEN {First(later)} ELSE {}

RemoveFree(h, b, c) ==
    LET list == RemoveFirst(h.lists[c], b)
        sl == IF list = <<>> THEN h.slBitmap \ {c} ELSE h.slBitmap
    IN [h EXCEPT !.lists[c] = list, !.slBitmap = sl,
                 !.flBitmap = IF \E d \in sl : d[1] = c[1] THEN @ ELSE @ \ {c[1]}]

BlockRemove(h, b) == RemoveFree(h, b, MappingInsert(h.size[b]))
BlockInsert(h, b) ==
    LET c == MappingInsert(h.size[b])
    IN [h EXCEPT !.lists[c] = <<b>> \o @, !.slBitmap = @ \union {c}, !.flBitmap = @ \union {c[1]}]
-----------------------------------------------------------------------------
(* Blocks.                                                                 *)

After(h, b) == b + 1 + h.size[b]
LinkNext(h, b) == [h EXCEPT !.prevPhys[After(h, b)] = b]
MarkFree(h, b) ==
    [h EXCEPT !.prevPhys[After(h, b)] = b, !.prevFree = @ \union {After(h, b)}, !.free = @ \union {b}]
MarkUsed(h, b) ==
    [h EXCEPT !.prevPhys[After(h, b)] = Nowhere, !.prevFree = @ \ {After(h, b)}, !.free = @ \ {b}]

CanSplit(h, b, n) == h.size[b] >= HeaderSize + n
Rest(b, n) == b + 1 + n

\* Mutant of Split: the size field of the second part is not taken off.
SplitShort(h, b, n) ==
    MarkFree([h EXCEPT !.size[b] = n, !.size[Rest(b, n)] = h.size[b] - n,
                       !.headers = @ \union {Rest(b, n)}], Rest(b, n))

\* The second part is free; whether the first is, its flag is yet to say.
Split(h, b, n) ==
    MarkFree([h EXCEPT !.size[b] = n, !.size[Rest(b, n)] = h.size[b] - (n + 1),
                       !.headers = @ \union {Rest(b, n)}], Rest(b, n))

Absorb(h, b, next) ==
    LinkNext([h EXCEPT !.size[b] = @ + h.size[next] + 1, !.size[next] = 0, !.prevPhys[next] = Nowhere,
                       !.headers = @ \ {next}, !.free = @ \ {next}, !.prevFree = @ \ {next}], b)

\* Mutant of MergePrev: a free block before the freed one is left as it is.
MergePrevNever(h, b) == [heap |-> h, block |-> b]

MergePrev(h, b) ==
    IF b \in h.prevFree
    THEN [heap |-> Absorb(BlockRemove(h, h.prevPhys[b]), h.prevPhys[b], b), block |-> h.prevPhys[b]]
    ELSE [heap |-> h, block |-> b]

\* Mutant of MergeNext: the block behind is taken in whether it is free or not.
MergeNextAny(h, b) ==
    IF After(h, b) # Sentinel THEN Absorb(BlockRemove(h, After(h, b)), b, After(h, b)) ELSE h

MergeNext(h, b) ==
    IF After(h, b) \in h.free THEN Absorb(BlockRemove(h, After(h, b)), b, After(h, b)) ELSE h

TrimFree(h, b, n) ==
    IF CanSplit(h, b, n)
    THEN LET s == LinkNext(Split(h, b, n), b)
         IN BlockInsert([s EXCEPT !.prevFree = @ \union {Rest(b, n)}], Rest(b, n))
    ELSE h

TrimUsed(h, b, n) ==
    IF CanSplit(h, b, n)
    THEN LET s == Split(h, b, n)
         IN BlockInsert(MergeNext([s EXCEPT !.prevFree = @ \ {Rest(b, n)}], Rest(b, n)), Rest(b, n))
    ELSE h

\* The block behind the gap is taken, the gap is a free block of its own.
TrimLeading(h, b, gap) ==
    IF CanSplit(h, b, gap)
    THEN LET s == Split(h, b, gap - 1)
             r == Rest(b, gap - 1)
         IN [heap |-> BlockInsert(LinkNext([s EXCEPT !.prevFree = @ \union {r}], b), b), block |-> r]
    ELSE [heap |-> h, block |-> b]
-----------------------------------------------------------------------------
(* The interface.  An operation returns the heap and the block, or the     *)
(* heap as it was and Nowhere.                                             *)

Failed(h) == [heap |-> h, block |-> Nowhere]

LocateFree(h, n) ==
    LET classes == IF n > 0 /\ MappingSearch(n) \in Classes THEN Suitable(h, MappingSearch(n)) ELSE {}
    IN IF classes = {} THEN Failed(h)
       ELSE LET c == CHOOSE d \in classes : TRUE
            IN [heap |-> RemoveFree(h, Head(h.lists[c]), c), block |-> Head(h.lists[c])]

PrepareUsed(h, b, n) == [heap |-> MarkUsed(TrimFree(h, b, n), b), block |-> b]

Alloc(h, n) ==
    LET words == AdjustRequest(n, 1)
        found == LocateFree(h, words)
    IN IF found.block = Nowhere THEN found ELSE PrepareUsed(found.heap, found.block, words)

\* How far a block has to be cut at the front: not at all, or by room for a free block.
Gap(b, align) ==
    LET at == Base + b + 1
        gap == RoundUp(at, align) - at
    IN IF gap = 0 \/ gap >= HeaderSize THEN gap
       ELSE RoundUp(RoundUp(at, align) + Larger(HeaderSize - gap, align), align) - at

AlignedAlloc(h, n, align) ==
    LET words == AdjustRequest(n, 1)
        withGap == AdjustRequest(words + align + HeaderSize, align)
        found == LocateFree(h, IF words > 0 /\ align > 1 THEN withGap ELSE words)
        gap == Gap(found.block, align)
        cut == IF gap = 0 THEN found ELSE TrimLeading(found.heap, found.block, gap)
    IN IF found.block = Nowhere THEN found ELSE PrepareUsed(cut.heap, cut.block, words)

Release(h, b) ==
    LET merged == MergePrev(MarkFree(h, b), b)
    IN BlockInsert(MergeNext(merged.heap, merged.block), merged.block)
-----------------------------------------------------------------------------
Pointer(b) == b + 1
BlockOf(p) == p.at - 1

Start == [size |-> [w \in Words |-> IF w = 0 THEN PoolSize ELSE 0],
          headers |-> {0, Sentinel}, free |-> {0}, prevFree |-> {Sentinel},
          prevPhys |-> [w \in Words |-> IF w = Sentinel THEN 0 ELSE Nowhere],
          lists |-> [c \in Classes |-> <<>>], slBitmap |-> {}, flBitmap |-> {}]

Init == heap = BlockInsert(Start, 0) /\ held = {}

Granted(r, n) == heap' = r.heap /\ held' = held \union {[at |-> Pointer(r.block), words |-> n]}

Malloc(n) == LET r == Alloc(heap, n) IN r.block # Nowhere /\ Granted(r, n)
Memalign(n, align) == LET r == AlignedAlloc(heap, n, align) IN r.block # Nowhere /\ Granted(r, n)

Free(p) == heap' = Release(heap, BlockOf(p)) /\ held' = held \ {p}

\* tlsf_realloc of a block that is held, to a size other than 0: in place, behind
\* which the next block may be taken in, or to another block if there is one.
Realloc(p, n) ==
    LET b == BlockOf(p)
        words == AdjustRequest(n, 1)
        next == After(heap, b)
        mustMove == words > heap.size[b]
                    /\ (next \notin heap.free \/ words > heap.size[b] + heap.size[next] + 1)
        other == Alloc(heap, n)
        grown == IF words > heap.size[b] THEN MarkUsed(MergeNext(heap, b), b) ELSE heap
    IN /\ n > 0
       /\ IF mustMove
          THEN /\ other.block # Nowhere
               /\ heap' = Release(other.heap, b)
               /\ held' = (held \ {p}) \union {[at |-> Pointer(other.block), words |-> n]}
          ELSE /\ heap' = TrimUsed(grown, b, words)
               /\ held' = (held \ {p}) \union {[p EXCEPT !.words = n]}

Next ==
    \/ \E n \in Requests : Malloc(n)
    \/ \E n \in Requests, align \in Alignments : Memalign(n, align)
    \/ \E p \in held : Free(p)
    \/ \E p \in held, n \in Requests : Realloc(p, n)

Spec == Init /\ [][Next]_vars
-----------------------------------------------------------------------------
(* Properties.                                                             *)

TypeOK ==
    /\ heap.size \in [Words -> 0..PoolSize]
    /\ heap.prevPhys \in [Words -> Words \union {Nowhere}]
    /\ heap.headers \subseteq Words /\ heap.free \subseteq Words /\ heap.prevFree \subseteq Words
    /\ heap.lists \in [Classes -> Seq(Words)]
    /\ heap.slBitmap \subseteq Classes /\ heap.flBitmap \subseteq 0..(FLMax - SLLog2)
    /\ held \subseteq [at : Words, words : Requests]

\* What tlsf_check and tlsf_check_pool insist on (tlsf.c:839-934): the blocks follow
\* one another through the whole pool, no two free ones in a row, flags and back
\* pointers are right, and the lists hold each free block once, by its class.
Checked ==
    /\ {0, Sentinel} \subseteq heap.headers
    /\ \A b \in heap.headers \ {Sentinel} :
          LET next == After(heap, b)
          IN /\ MinSize <= heap.size[b]
             /\ next \in heap.headers /\ heap.headers \cap (b + 1)..(next - 1) = {}
             /\ b \in heap.free <=> next \in heap.prevFree
             /\ b \in heap.free => next \notin heap.free /\ heap.prevPhys[next] = b
    /\ Sentinel \notin heap.free /\ heap.size[Sentinel] = 0
    /\ heap.free \union heap.prevFree \subseteq heap.headers
    /\ \A c \in Classes :
          /\ c \in heap.slBitmap <=> heap.lists[c] # <<>>
          /\ IsInjective(heap.lists[c])
          /\ ToSet(heap.lists[c]) = {b \in heap.free : MappingInsert(heap.size[b]) = c}
    /\ heap.flBitmap = {c[1] : c \in heap.slBitmap}

\* A block that is found is large enough (asserted in tlsf.c:784), and there is none
\* only if no free block reaches the size that the search rounds up to; what is then
\* cut off in front leaves the pointer aligned, with room for what was asked for.
FoundFits ==
    \A n \in Requests :
        /\ LET words == AdjustRequest(n, 1)
               found == LocateFree(heap, words)
           IN IF found.block # Nowhere THEN heap.size[found.block] >= words
              ELSE \A b \in heap.free : words = 0 \/ heap.size[b] < RoundedSize(words)
        /\ \A align \in Alignments :
              LET r == AlignedAlloc(heap, n, align)
              IN r.block # Nowhere => /\ (Base + Pointer(r.block)) % align = 0
                                      /\ r.heap.size[r.block] >= n

\* What callers are given: blocks in the pool that never overlap, whatever was
\* split, merged and moved in between.
Service == INSTANCE HeapService WITH PoolWords <- PoolSize + 2, Sizes <- Requests
IsHeap == Service!Spec
=============================================================================

------------------------------- MODULE Heap -------------------------------
(***************************************************************************)
(* The allocator of malloclab/mm.c at the level of its blocks: mm_init,    *)
(* mm_malloc, mm_free and mm_realloc, with the boundary tags that they     *)
(* keep.  Addresses are bytes from the start of the heap, which is aligned *)
(* to 8.                                                                   *)
(*                                                                         *)
(* The red-black tree of the free blocks is a set here: rb_insert and      *)
(* rb_delete add and remove a block, and rb_lower_bound finds one of the   *)
(* smallest blocks that are large enough, whichever the shape of the tree  *)
(* gives.  Module RBTree shows that the tree does that.                    *)
(***************************************************************************)
EXTENDS Integers, FiniteSets

CONSTANTS
  Requests,                  (* The sizes that programs ask for.           *)
  INIT_HEAP_AVAILABLE_SIZE,  (* Length of the first free block.            *)
  MIN_EXTEND_SIZE,           (* The heap grows by at least this for malloc.*)
  SmallRequest,              (* Requests up to this are cut off the front  *)
                             (* of a free block, larger ones off its end   *)
                             (* (64 in the source).                        *)
  MAX_HEAP,                  (* Bound: what the heap may grow to.          *)
  MaxLive,                   (* Bound: payloads the program holds.         *)
  MayLoseTypeBit             (* Whether realloc may move a payload so that *)
                             (* the block loses its type bit.              *)

(* Smaller requests get blocks of 16 bytes, and one of those that is not   *)
(* aligned to 8 loses its type bit (module BlockHeader).                   *)
ASSUME RequestsAssumption == Requests \subseteq Nat \ (0 .. 4)
ASSUME LengthsAssumption ==
         /\ INIT_HEAP_AVAILABLE_SIZE \in Nat /\ INIT_HEAP_AVAILABLE_SIZE % 4 = 0
         /\ MIN_EXTEND_SIZE \in Nat          /\ MIN_EXTEND_SIZE % 4 = 0
         /\ INIT_HEAP_AVAILABLE_SIZE >= 16   /\ MIN_EXTEND_SIZE >= 16
ASSUME LimitsAssumption ==
         /\ MAX_HEAP \in Nat /\ MAX_HEAP >= 16 + INIT_HEAP_AVAILABLE_SIZE
         /\ SmallRequest \in Nat /\ MaxLive \in Nat /\ MayLoseTypeBit \in BOOLEAN

VARIABLES
  heap,  (* Blocks, tree, the bit kept in rbnull, and the end of the heap. *)
  live   (* The payloads the program holds and the sizes it asked for.     *)

vars == <<heap, live>>

HEAP_HEADER_SIZE   == 16
MINIMAL_BLOCK_SIZE == 15
rbnull == 0  (* Stands for the block after the last one.                   *)

block_length_from_payload_size(size) == ((size + 12 + 3) \div 4) * 4
payload_size_from_block_length(length) == length - 12

(***************************************************************************)
(* Blocks.  heap.block maps the address of every block to its header.  The *)
(* type bit, the one before the payload, tells a payload's block from it.  *)
(***************************************************************************)
Starts(h)            == DOMAIN h.block
Length(h, b)         == h.block[b].length
get_block_type(b)    == (b % 8) \div 4
get_block_payload(b) == b + 8 + 4 * get_block_type(b)

(* Where the payload's block begins according to its type bit.             *)
get_payload_block(h, ptr) ==
  LET b == CHOOSE b \in Starts(h) : get_block_payload(b) = ptr
  IN  IF h.block[b].type = 0 THEN ptr - 8 ELSE ptr - 12

is_last_block(h, b)          == b + Length(h, b) = h.brk
get_logical_next_block(h, b) == IF is_last_block(h, b) THEN rbnull ELSE b + Length(h, b)

(* The free block before or after b, as a set with at most one element.    *)
get_previous_block_if_free(h, b) ==
  {p \in Starts(h) : h.block[b].previous_is_free /\ p + Length(h, p) = b}
(* Mutant of get_next_block_if_free: a block in use will do.               *)
anynext(h, b) == {n \in Starts(h) : n = b + Length(h, b) /\ n < h.brk}

get_next_block_if_free(h, b) ==
  {n \in Starts(h) : n = b + Length(h, b) /\ n < h.brk /\ h.block[n].is_free}

set_previous_is_free(h, b, value) ==
  IF b = rbnull THEN [h EXCEPT !.last_is_free = value]
  ELSE IF b \in Starts(h) THEN [h EXCEPT !.block[b].previous_is_free = value]
  ELSE h

(* A header at b of this length; the headers within it are no blocks now.  *)
Header(h, b, header) ==
  [h EXCEPT !.block = [c \in {b} \cup {c \in Starts(h) : c < b \/ c >= b + header.length} |->
                         IF c = b THEN header ELSE h.block[c]]]

(* PRESERVE is init_block with the previous-is-free bit kept, and SetTo    *)
(* with the bit given; neither touches the next block.                     *)
SetTo(h, b, length, is_free, previous_is_free) ==
  Header(h, b, [length |-> length, is_free |-> is_free,
                previous_is_free |-> previous_is_free, type |-> get_block_type(b)])
PRESERVE(h, b, length, is_free) ==
  SetTo(h, b, length, is_free, h.block[b].previous_is_free)

TellNext(h, b) == set_previous_is_free(h, get_logical_next_block(h, b), h.block[b].is_free)

set_block_is_free(h, b, is_free) == TellNext([h EXCEPT !.block[b].is_free = is_free], b)

rb_insert(h, b) == [h EXCEPT !.tree = @ \cup {b}]
rb_delete(h, b) == [h EXCEPT !.tree = @ \ {b}]

rb_lower_bound(h, length) ==
  {b \in h.tree : /\ Length(h, b) >= length
                  /\ \A c \in h.tree : Length(h, c) >= length => Length(h, b) <= Length(h, c)}

(***************************************************************************)
(* The heap grows.  Calls for which mem_sbrk would fail are left out: the  *)
(* code goes on as if it had not.                                          *)
(***************************************************************************)
mem_sbrk(h, n) == [h EXCEPT !.brk = @ + n]
MayGrow(n)     == heap.brk + n <= MAX_HEAP

LastBlock(h) == CHOOSE b \in Starts(h) : is_last_block(h, b)

(* How much extend adds to the heap, and the free block it makes, which is *)
(* not in the tree.                                                        *)
Wanted(length) == IF length < MIN_EXTEND_SIZE THEN MIN_EXTEND_SIZE ELSE length
ExtendBy(h, length) ==
  Wanted(length) - (IF h.last_is_free THEN Length(h, LastBlock(h)) ELSE 0)
Extended(h, length) == IF h.last_is_free THEN LastBlock(h) ELSE h.brk

extend(h, length) ==
  LET b     == Extended(h, length)
      grown == mem_sbrk(IF h.last_is_free THEN rb_delete(h, b) ELSE h, ExtendBy(h, length))
  IN  TellNext(IF h.last_is_free THEN PRESERVE(grown, b, Wanted(length), TRUE)
               ELSE SetTo(grown, b, Wanted(length), TRUE, FALSE), b)

(***************************************************************************)
(* mm_malloc, once a block of at least the length is found and out of the  *)
(* tree: what is left of it is a free block again when it is long enough.  *)
(***************************************************************************)
FromEnd(size) == size > SmallRequest
Splits(h, found, length) == Length(h, found) >= length + MINIMAL_BLOCK_SIZE

split(h, found, size) ==
  LET length == block_length_from_payload_size(size)
      rest   == Length(h, found) - length
  IN  IF FromEnd(size)
      THEN rb_insert(TellNext(SetTo(PRESERVE(h, found, rest, TRUE),
                                    found + rest, length, TRUE, TRUE), found + rest), found)
      ELSE rb_insert(TellNext(SetTo(PRESERVE(h, found, length, TRUE),
                                    found + length, rest, TRUE, TRUE), found + length),
                     found + length)

(* The block given out and the heap after it.                              *)
allocate(h, found, size) ==
  LET length == block_length_from_payload_size(size)
      cut    == Splits(h, found, length)
      b      == IF cut /\ FromEnd(size) THEN found + Length(h, found) - length ELSE found
  IN  [heap  |-> set_block_is_free(IF cut THEN split(h, found, size) ELSE h, b, FALSE),
       block |-> b]

(* Mutant of release: the block before is not merged.                      *)
releaseforward(h, b) ==
  LET next   == get_next_block_if_free(h, b)
      end    == IF next = {} THEN b + Length(h, b)
                ELSE b + Length(h, b) + Length(h, CHOOSE n \in next : TRUE)
      loose  == [h EXCEPT !.tree = @ \ next]
  IN  rb_insert(IF next = {} THEN set_block_is_free(h, b, TRUE)
                ELSE TellNext(PRESERVE(loose, b, end - b, TRUE), b), b)

(***************************************************************************)
(* mm_free: the block and the free ones next to it become one.             *)
(***************************************************************************)
release(h, b) ==
  LET previous == get_previous_block_if_free(h, b)
      next     == get_next_block_if_free(h, b)
      start    == IF previous = {} THEN b ELSE CHOOSE p \in previous : TRUE
      end      == IF next = {} THEN b + Length(h, b)
                  ELSE b + Length(h, b) + Length(h, CHOOSE n \in next : TRUE)
      loose    == [h EXCEPT !.tree = @ \ (previous \cup next)]
  IN  rb_insert(IF previous \cup next = {} THEN set_block_is_free(h, b, TRUE)
                ELSE TellNext(PRESERVE(loose, start, end - start, TRUE), start), start)

(***************************************************************************)
(* mm_realloc, case by case.  A case is chosen by the block's neighbours;  *)
(* Neighbour is the length of a free neighbour, 0 when there is none.      *)
(***************************************************************************)
Neighbour(h, found) == IF found = {} THEN 0 ELSE Length(h, CHOOSE n \in found : TRUE)
Before(h, b)        == Neighbour(h, get_previous_block_if_free(h, b))
After(h, b)         == Neighbour(h, get_next_block_if_free(h, b))

(* Case 0: what is cut off is a free block, together with a free one that  *)
(* follows; when none does it has to be long enough.                       *)
shrink(h, b, size) ==
  LET length == block_length_from_payload_size(size)
      rest   == Length(h, b) - length + After(h, b)
      loose  == [h EXCEPT !.tree = @ \ get_next_block_if_free(h, b)]
  IN  IF After(h, b) = 0 /\ rest < MINIMAL_BLOCK_SIZE THEN h
      ELSE rb_insert(TellNext(SetTo(PRESERVE(loose, b, length, FALSE),
                                    b + length, rest, TRUE, FALSE), b + length), b + length)

(* What the block grows by at the end of the heap.  The payload's size is  *)
(* taken from the length with the header, so it is 12 too many.            *)
min_grow_size(h, b, size) ==
  block_length_from_payload_size(size) - payload_size_from_block_length(Length(h, b))

(* Cases 1 and 2: the last block, or the one before a last free block that *)
(* is too short, grows at the end of the heap.                             *)
(* Mutants of growlast: the free block stays in the tree; or its length is *)
(* not taken from what the heap grows by.                                  *)
growkeeping(h, b, size) ==
  LET grow == min_grow_size(h, b, size)
  IN  TellNext(PRESERVE(mem_sbrk(h, grow - After(h, b)), b, Length(h, b) + grow, FALSE), b)

growtoofar(h, b, size) ==
  LET grow == min_grow_size(h, b, size)
  IN  TellNext(PRESERVE(mem_sbrk([h EXCEPT !.tree = @ \ get_next_block_if_free(h, b)], grow),
                        b, Length(h, b) + grow, FALSE), b)

growlast(h, b, size) ==
  LET grow == min_grow_size(h, b, size)
  IN  TellNext(PRESERVE(mem_sbrk([h EXCEPT !.tree = @ \ get_next_block_if_free(h, b)],
                                 grow - After(h, b)),
                        b, Length(h, b) + grow, FALSE), b)

(* Case 3: which neighbours are merged: one when it is enough, the shorter *)
(* one when each is (the next when they are equal), both when both are     *)
(* needed.                                                                 *)
Payload(h, b)        == payload_size_from_block_length(Length(h, b))
PreviousEnough(h, b, size) == Payload(h, b) + Before(h, b) > size
NextEnough(h, b, size)     == Payload(h, b) + After(h, b) > size
(* Mutant of BothEnough: the length of the block is taken for its payload. *)
bothnearly(h, b, size) == Length(h, b) + Before(h, b) + After(h, b) > size

BothEnough(h, b, size)     == Payload(h, b) + Before(h, b) + After(h, b) > size

MergesPrevious(h, b, size) ==
  /\ BothEnough(h, b, size)
  /\ NextEnough(h, b, size) => PreviousEnough(h, b, size) /\ Before(h, b) < After(h, b)
MergesNext(h, b, size) ==
  /\ BothEnough(h, b, size)
  /\ PreviousEnough(h, b, size) => NextEnough(h, b, size) /\ Before(h, b) >= After(h, b)

(* The bytes at the end of the new block are saved and put back after the  *)
(* payload has moved, at the same distance from the payload.  When they    *)
(* begin 4 bytes before the old payload, they are put back over the bytes  *)
(* before the new one, the old block's type bit among them.                *)
RestoresTypeBit(old, new, length) ==
  get_block_type(new) = 1 /\ new + length - 8 = get_block_payload(old) - 4

(* Mutant of merge: nothing is cut off and the next block is not told.     *)
mergeall(h, b, size) ==
  LET previous == IF MergesPrevious(h, b, size) THEN get_previous_block_if_free(h, b) ELSE {}
      next     == IF MergesNext(h, b, size) THEN get_next_block_if_free(h, b) ELSE {}
      new      == b - Neighbour(h, previous)
      total    == Length(h, b) + Neighbour(h, previous) + Neighbour(h, next)
  IN  [heap  |-> PRESERVE([h EXCEPT !.tree = @ \ (previous \cup next)], new, total, FALSE),
       block |-> new]

merge(h, b, size) ==
  LET previous == IF MergesPrevious(h, b, size) THEN get_previous_block_if_free(h, b) ELSE {}
      next     == IF MergesNext(h, b, size) THEN get_next_block_if_free(h, b) ELSE {}
      new      == b - Neighbour(h, previous)
      total    == Length(h, b) + Neighbour(h, previous) + Neighbour(h, next)
      needed   == block_length_from_payload_size(size)
      length   == IF total - needed < MINIMAL_BLOCK_SIZE THEN total ELSE needed
      rest     == total - length
      loose    == [h EXCEPT !.tree = @ \ (previous \cup next)]
      merged   == PRESERVE(loose, new, length, FALSE)
      moved    == IF new # b /\ RestoresTypeBit(b, new, length)
                  THEN [merged EXCEPT !.block[new].type = h.block[b].type] ELSE merged
  IN  [heap  |-> IF rest = 0 THEN TellNext(moved, new)
                 ELSE rb_insert(TellNext(SetTo(moved, new + length, rest, TRUE, FALSE),
                                         new + length), new + length),
       block |-> new]

(***************************************************************************)
(* Actions.                                                                *)
(***************************************************************************)
Holds(ptr, size) == [ptr |-> ptr, size |-> size]
Block(p)         == get_payload_block(heap, p.ptr)

(* What mm_init makes of a heap that mem_reset_brk has emptied.            *)
Fresh ==
  [block        |-> [b \in {HEAP_HEADER_SIZE} |->
                       [length |-> INIT_HEAP_AVAILABLE_SIZE,
                        is_free |-> TRUE, previous_is_free |-> FALSE,
                        type |-> get_block_type(b)]],
   tree         |-> {HEAP_HEADER_SIZE},
   last_is_free |-> TRUE,
   brk          |-> HEAP_HEADER_SIZE + INIT_HEAP_AVAILABLE_SIZE]

Init == heap = Fresh /\ live = {}

(* The driver starts over, with whatever the program holds.                *)
mm_init == heap' = Fresh /\ live' = {}

(* The heap after a block is found or made, and the block.                 *)
Finds(h, length) ==
  IF rb_lower_bound(h, length) # {}
  THEN {[heap |-> rb_delete(h, b), block |-> b] : b \in rb_lower_bound(h, length)}
  ELSE {[heap |-> extend(h, length), block |-> Extended(h, length)]}

GrowsForMalloc(length) ==
  IF rb_lower_bound(heap, length) # {} THEN 0 ELSE ExtendBy(heap, length)

mm_malloc(size) ==
  LET length == block_length_from_payload_size(size)
  IN  /\ Cardinality(live) < MaxLive
      /\ MayGrow(GrowsForMalloc(length))
      /\ \E found \in Finds(heap, length) :
           LET given == allocate(found.heap, found.block, size)
           IN  /\ heap' = given.heap
               /\ live' = live \cup {Holds(get_block_payload(given.block), size)}

mm_free(p) ==
  /\ heap' = release(heap, Block(p))
  /\ live' = live \ {p}

Resized(p, block, size) == live' = (live \ {p}) \cup {Holds(get_block_payload(block), size)}

(* The payload's size, in place.                                           *)
ReallocInPlace(p, size) ==
  /\ size = Payload(heap, Block(p))
  /\ heap' = heap
  /\ Resized(p, Block(p), size)

ReallocShrinks(p, size) ==
  /\ size < Payload(heap, Block(p))
  /\ heap' = shrink(heap, Block(p), size)
  /\ Resized(p, Block(p), size)

Grows(p, size) == size > Payload(heap, Block(p))

(* The block is the last, or the one after it is, is free and is not       *)
(* longer than what the block would grow by.                               *)
AtEnd(b, size) ==
  \/ is_last_block(heap, b)
  \/ /\ After(heap, b) # 0
     /\ b + Length(heap, b) + After(heap, b) = heap.brk
     /\ After(heap, b) <= min_grow_size(heap, b, size)

ReallocGrowsAtEnd(p, size) ==
  /\ Grows(p, size) /\ AtEnd(Block(p), size)
  /\ MayGrow(min_grow_size(heap, Block(p), size) - After(heap, Block(p)))
  /\ heap' = growlast(heap, Block(p), size)
  /\ Resized(p, Block(p), size)

ReallocMerges(p, size) ==
  /\ Grows(p, size) /\ ~ AtEnd(Block(p), size)
  /\ BothEnough(heap, Block(p), size)
  /\ LET merged == merge(heap, Block(p), size)
     IN  /\ MayLoseTypeBit \/ merged.heap.block[merged.block].type = get_block_type(merged.block)
         /\ heap' = merged.heap
         /\ Resized(p, merged.block, size)

(* Case 4: mm_malloc, copy, mm_free of the old block.                      *)
ReallocMoves(p, size) ==
  LET length == block_length_from_payload_size(size)
  IN  /\ Grows(p, size) /\ ~ AtEnd(Block(p), size)
      /\ ~ BothEnough(heap, Block(p), size)
      /\ MayGrow(GrowsForMalloc(length))
      /\ \E found \in Finds(heap, length) :
           LET given == allocate(found.heap, found.block, size)
           IN  /\ heap' = release(given.heap, Block(p))
               /\ Resized(p, given.block, size)

mm_realloc(p, size) ==
  IF size = 0 THEN mm_free(p)
  ELSE \/ ReallocInPlace(p, size) \/ ReallocShrinks(p, size)
       \/ ReallocGrowsAtEnd(p, size) \/ ReallocMerges(p, size) \/ ReallocMoves(p, size)

Next == \/ mm_init
        \/ \E size \in Requests : mm_malloc(size)
        \/ \E p \in live : mm_free(p)
        \/ \E p \in live, size \in Requests \cup {0} : mm_realloc(p, size)

Spec == Init /\ [][Next]_vars

(***************************************************************************)
(* Properties.                                                             *)
(***************************************************************************)
header_t == [length : Nat, is_free : BOOLEAN, previous_is_free : BOOLEAN, type : {0, 1}]

TypeOK ==
  /\ Starts(heap) \subseteq Nat
  /\ \A b \in Starts(heap) : heap.block[b] \in header_t
  /\ heap.tree \subseteq Starts(heap)
  /\ heap.last_is_free \in BOOLEAN
  /\ heap.brk \in HEAP_HEADER_SIZE .. MAX_HEAP
  /\ live \subseteq [ptr : Nat, size : Requests]

(* Blocks follow one another from the heap's header to its end: no gap, no *)
(* overlap, whatever was merged and cut, and none is too short.            *)
BlocksTileTheHeap ==
  LET ends == {b + Length(heap, b) : b \in Starts(heap)}
  IN  /\ \A b \in Starts(heap) : Length(heap, b) >= MINIMAL_BLOCK_SIZE
      /\ Starts(heap) \cup {heap.brk} = ends \cup {HEAP_HEADER_SIZE}
      /\ heap.brk \notin Starts(heap) /\ HEAP_HEADER_SIZE \notin ends
      /\ Cardinality(ends) = Cardinality(Starts(heap))

(* mm_validate_blocks (mm.c:1107): every block is told whether the one     *)
(* before it is free, and rbnull whether the last one is.  A stale bit     *)
(* makes a later mm_free merge a block that is in use.                     *)
NeighboursAreTold ==
  \A b \in Starts(heap) :
    heap.block[b].is_free =
      LET n == get_logical_next_block(heap, b)
      IN  IF n = rbnull THEN heap.last_is_free ELSE heap.block[n].previous_is_free

(* The tree holds the free blocks, no more (a block given out twice) and   *)
(* no fewer (one lost for good).                                           *)
TreeHoldsFreeBlocks == heap.tree = {b \in Starts(heap) : heap.block[b].is_free}

(* Every payload the program holds is aligned to 8, in a block of its own, *)
(* in use and large enough; and every block in use is held.                *)
PayloadsAreGood ==
  /\ \A p \in live : /\ p.ptr % 8 = 0
                     /\ Block(p) \in Starts(heap) \ heap.tree
                     /\ Payload(heap, Block(p)) >= p.size
  /\ \A p, q \in live : p # q => Block(p) # Block(q)
  /\ {Block(p) : p \in live} = {b \in Starts(heap) : ~ heap.block[b].is_free}

(***************************************************************************)
(* The invariant that induction needs, of a heap h and the payloads l.     *)
(* Between any two calls the blocks are laid end to end from the header of *)
(* the heap to its end, each is told of the one before it, and each block  *)
(* in use belongs to one payload.                                          *)
(***************************************************************************)
End(h, b)     == b + Length(h, b)
IsFree(h, b)  == h.block[b].is_free

IsHeap(h) ==
  /\ h = [block |-> h.block, tree |-> h.tree, last_is_free |-> h.last_is_free, brk |-> h.brk]
  /\ h.block \in [Starts(h) -> header_t]
  /\ Starts(h) \subseteq Nat /\ h.tree \subseteq Nat
  /\ h.last_is_free \in BOOLEAN /\ h.brk \in Nat

(* Addresses and lengths are multiples of 4, and no block is shorter than  *)
(* 16 bytes.                                                               *)
WellFormed(h) ==
  \A b \in Starts(h) :
    /\ b % 4 = 0 /\ Length(h, b) % 4 = 0
    /\ b >= HEAP_HEADER_SIZE /\ Length(h, b) > MINIMAL_BLOCK_SIZE
    /\ h.block[b].type = get_block_type(b)

EndToEnd(h) ==
  /\ HEAP_HEADER_SIZE \in Starts(h)
  /\ \A b \in Starts(h) : End(h, b) \in Starts(h) \cup {h.brk} /\ End(h, b) <= h.brk
  /\ \A b, c \in Starts(h) : b < c => End(h, b) <= c
  /\ \A c \in (Starts(h) \ {HEAP_HEADER_SIZE}) \cup {h.brk} :
       \E b \in Starts(h) : End(h, b) = c

Told(h) ==
  /\ ~ h.block[HEAP_HEADER_SIZE].previous_is_free
  /\ \A b \in Starts(h) :
       IsFree(h, b) = IF End(h, b) = h.brk THEN h.last_is_free
                      ELSE h.block[End(h, b)].previous_is_free

InTree(h) == h.tree = {b \in Starts(h) : IsFree(h, b)}

Owns(h, p, b) == /\ ~ IsFree(h, b) /\ p.ptr = get_block_payload(b)
                 /\ p.size <= payload_size_from_block_length(Length(h, b))

Held(h, l) ==
  /\ IsFiniteSet(l) /\ l \subseteq [ptr : Nat, size : Requests]
  /\ \A p \in l : \E b \in Starts(h) : Owns(h, p, b)
  /\ \A b \in Starts(h) : ~ IsFree(h, b) => \E p \in l : Owns(h, p, b)
  /\ \A p, q \in l : p.ptr = q.ptr => p = q

Consistent(h, l) ==
  /\ IsHeap(h) /\ WellFormed(h) /\ EndToEnd(h) /\ Told(h) /\ InTree(h) /\ Held(h, l)
  /\ h.brk <= MAX_HEAP

IInv == Consistent(heap, live)

(* The promise of module Allocator: whatever is split, merged, moved and   *)
(* grown, payloads are aligned, within the heap and apart, and a call      *)
(* touches no payload but the one it is about.  The heap never shrinks.    *)
Alloc == INSTANCE Allocator WITH ALIGNMENT <- 8, brk <- heap.brk
ImplementsAllocator == Alloc!Spec

(* Free blocks are merged (mm.c:6): no call leaves more pairs of free      *)
(* neighbours than it found but a mm_realloc that moves a payload towards  *)
(* the start of the heap, which does not look behind what it cuts off.     *)
FreePairs(h) == {b \in h.tree : get_next_block_if_free(h, b) # {}}
MovesDown    == /\ Cardinality(live') = Cardinality(live)
                /\ \E p \in live, q \in live' : p \notin live' /\ q \notin live /\ q.ptr < p.ptr
FreeNeighboursAreMerged ==
  [][Cardinality(FreePairs(heap')) > Cardinality(FreePairs(heap)) => MovesDown]_vars

(* "We use the bit just before the payload ... to store the block type"    *)
(* (mm.c:88).                                                              *)
TypeBitsAreRight == \A b \in Starts(heap) : heap.block[b].type = get_block_type(b)
=============================================================================

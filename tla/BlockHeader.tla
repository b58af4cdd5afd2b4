---------------------------- MODULE BlockHeader ----------------------------
(***************************************************************************)
(* How malloclab/mm.c packs the header of a block into 12 bytes around its *)
(* payload: four fields of 23 bits and a bit beside each.  On a block at a *)
(* multiple of 8 the header is 8 bytes before the payload and 4 after it,  *)
(* on any other block all 12 come before.  A free block ends with its      *)
(* length again, in 3 bytes (the footer).                                  *)
(*                                                                         *)
(* Module Heap takes headers for records.  This one keeps the bytes of an  *)
(* area inside a larger heap, between blocks that stay in use: blocks of   *)
(* the area are split, merged and resized where they are, each reading the *)
(* bytes that others left.  Beside the bytes it keeps what was last stored *)
(* in each field, which the field must still read as.                      *)
(***************************************************************************)
EXTENDS Integers, FiniteSets, FiniteSetsExt

CONSTANTS
  Areas,     (* Pairs: where the area begins, and the block after it.      *)
  Lengths,   (* Of the blocks that are asked for.                          *)
  Nodes,     (* Of the tree: what parent, children and color are set to.   *)
  Fills,     (* What a program writes, by its first byte.                  *)
  Shortest,  (* The least length modelled of a block not at a multiple of  *)
             (* 8; one of 16 bytes loses its type bit (README, 7.2).       *)
  MaxBlocks, (* Bounds of the model: blocks in the area, and calls.        *)
  MaxCalls

(* What 23 bits can hold, times 4; the heap ends below, at 20 MB (MAX_HEAP *)
(* in config.h).                                                           *)
Numbers == 0 .. 2^25 - 1

ASSUME AreasAssumption ==
  \A a \in Areas : /\ \A k \in 1 .. 2 : a[k] \in Numbers /\ a[k] % 4 = 0
                   /\ a[2] >= a[1] + 20
ASSUME LengthsAssumption == \A l \in Lengths : l \in Nat /\ l % 4 = 0 /\ l >= 16
ASSUME NodesAssumption ==
  /\ Nodes \subseteq [parent : Numbers, left : Numbers, right : Numbers, color : {0, 1}]
  /\ \A n \in Nodes : \A p \in {n.parent, n.left, n.right} : p % 4 = 0
ASSUME FillsAssumption == Fills \subseteq 0 .. 255

VARIABLES
  area,  (* The area of this heap.                                         *)
  mem,   (* Its bytes, and the first of the block after it.                *)
  told,  (* Of each block, by its first address, what was last stored.     *)
  calls  (* How many calls there have been.                                *)

vars == <<area, mem, told, calls>>

(***************************************************************************)
(* Bits, and numbers of 23 bits that leave the lowest bit of their first   *)
(* byte alone.                                                             *)
(***************************************************************************)
even(x)              == 2 * (x \div 2)
read_bit(m, a)       == m[a] % 2
write_bit(m, a, bit) == [m EXCEPT ![a] = even(@) + bit]
put(m, a, x0, x1, x2) == [m EXCEPT ![a] = x0, ![a + 1] = x1, ![a + 2] = x2]

number(x0, x1, x2) == ((x0 + 256 * x1 + 65536 * x2) \div 2) * 4
Byte(value, k)     == (((value \div 4) * 2) \div 256^k) % 256

read_24_transformed(m, a) == number(m[a], m[a + 1], m[a + 2])
write_24_preserve_low_bit(m, a, value) ==
  put(m, a, Byte(value, 0) + read_bit(m, a), Byte(value, 1), Byte(value, 2))

(***************************************************************************)
(* The parts of a header.                                                  *)
(***************************************************************************)
EightAligned(a)          == a % 8 = 0
get_block_length(m, a)   == read_24_transformed(m, a)
get_block_is_free(m, a)  == read_bit(m, a)
get_block_payload(a)     == IF EightAligned(a) THEN a + 8 ELSE a + 12
get_payload_block(m, p)  == IF read_bit(m, p - 1) = 0 THEN p - 8 ELSE p - 12

(* Where the second part of the header of an 8-aligned block would have    *)
(* its first byte, were it whole.                                          *)
second_part_offseted(m, a) ==
  a + get_block_length(m, a) - (IF get_block_is_free(m, a) = 1 THEN 3 ELSE 0) - 12

read_parent(m, a) == read_24_transformed(m, a + 3)
read_left(m, a) ==
  LET s == second_part_offseted(m, a)
  IN  IF EightAligned(a)
      THEN number(m[a + 6], even(m[a + 7]) + read_bit(m, s + 9), m[s + 8])
      ELSE read_24_transformed(m, a + 6)
read_right(m, a) ==
  IF EightAligned(a) THEN read_24_transformed(m, second_part_offseted(m, a) + 9)
  ELSE number(m[a + 9], m[a + 10], even(m[a + 11]) + read_bit(m, a + 9))

write_parent(m, a, value) == write_24_preserve_low_bit(m, a + 3, value)

(* The byte before the payload lends its lowest bit to the block's type;   *)
(* the extra bit keeps what the number has there.                          *)
(* Mutant of write_left: the type bit is not cleared.                      *)
typelost(m, a, value) ==
  LET s    == second_part_offseted(m, a)
      head == [m EXCEPT ![a + 6] = Byte(value, 0) + read_bit(m, a + 6),
                        ![a + 7] = Byte(value, 1), ![s + 8] = Byte(value, 2)]
  IN  IF EightAligned(a) THEN write_bit(head, s + 9, Byte(value, 1) % 2)
      ELSE write_24_preserve_low_bit(m, a + 6, value)

write_left(m, a, value) ==
  LET s    == second_part_offseted(m, a)
      x0   == Byte(value, 0) + read_bit(m, a + 6)
      x1   == Byte(value, 1)
      head == [m EXCEPT ![a + 6] = x0, ![a + 7] = even(x1), ![s + 8] = Byte(value, 2)]
  IN  IF EightAligned(a) THEN write_bit(head, s + 9, x1 % 2)
      ELSE write_24_preserve_low_bit(m, a + 6, value)

(* Mutant of write_right: the extra bit is not kept.                       *)
droppedbit(m, a, value) ==
  LET x2 == Byte(value, 2)
  IN  IF EightAligned(a)
      THEN write_24_preserve_low_bit(m, second_part_offseted(m, a) + 9, value)
      ELSE put(m, a + 9, Byte(value, 0), Byte(value, 1), even(x2) + 1)

write_right(m, a, value) ==
  LET x2 == Byte(value, 2)
  IN  IF EightAligned(a)
      THEN write_24_preserve_low_bit(m, second_part_offseted(m, a) + 9, value)
      ELSE put(m, a + 9, Byte(value, 0) + (x2 % 2), Byte(value, 1), even(x2) + 1)

read_previous_is_free(m, a)         == read_bit(m, a + 3)
write_previous_is_free(m, a, value) == write_bit(m, a + 3, value)
read_color(m, a)                    == read_bit(m, a + 6)
write_color(m, a, value)            == write_bit(m, a + 6, value)

set_block_length_footer(m, a, length) == write_24_preserve_low_bit(m, a + length - 3, length)

(***************************************************************************)
(* Operations on a block.                                                  *)
(***************************************************************************)
get_logical_next_block(m, a) == a + get_block_length(m, a)

(* The block after a is told.                                              *)
TellNext(m, a, is_free) == write_previous_is_free(m, get_logical_next_block(m, a), is_free)

(* Mutant of init_block: the length is written before the type bit and the *)
(* free bit, so that a free block gets a footer only if it was free.       *)
footerlate(m, a, length, is_free, previous_is_free) ==
  LET sized == write_24_preserve_low_bit(m, a, length)
      ended == IF get_block_is_free(m, a) = 1 THEN set_block_length_footer(sized, a, length)
               ELSE sized
      typed == IF EightAligned(a) THEN write_bit(ended, a + 7, 0) ELSE write_bit(ended, a + 11, 1)
  IN  write_parent(write_previous_is_free(write_bit(typed, a, is_free), a, previous_is_free), a, a)

init_block(m, a, length, is_free, previous_is_free) ==
  LET typed == IF EightAligned(a) THEN write_bit(m, a + 7, 0) ELSE write_bit(m, a + 11, 1)
      free  == write_bit(typed, a, is_free)
      sized == write_24_preserve_low_bit(free, a, length)
      ended == IF is_free = 1 THEN set_block_length_footer(sized, a, length) ELSE sized
  IN  write_parent(write_previous_is_free(ended, a, previous_is_free), a, a)

(* The second part of the header, 4 bytes or 8, makes place for the footer *)
(* or takes it.                                                            *)
set_block_is_free(m, a, is_free) ==
  LET length == get_block_length(m, a)
      second == IF EightAligned(a) THEN 4 ELSE 8
      to     == a + length - 3 * is_free - second
      from   == a + length - 3 * (1 - is_free) - second
      moved  == [x \in DOMAIN m |-> IF x \in to .. to + second - 1 THEN m[x - to + from] ELSE m[x]]
      after  == TellNext(write_bit(moved, a, is_free), a, is_free)
  IN  IF is_free = 1 THEN set_block_length_footer(after, a, length) ELSE after

(* The neighbours of a, when they are free: the one before is found through *)
(* its footer.                                                             *)
get_previous_block_if_free(m, a) ==
  IF read_previous_is_free(m, a) = 1 THEN {a - read_24_transformed(m, a - 3)} ELSE {}
get_next_block_if_free(m, a) ==
  LET next == get_logical_next_block(m, a)
  IN  IF next # area[2] /\ get_block_is_free(m, next) = 1 THEN {next} ELSE {}

(* rb_insert and rb_delete, as far as the node's own header goes; a node   *)
(* that is in no tree is its own parent.                                   *)
rb_insert(m, a, n) ==
  write_color(write_parent(write_right(write_left(m, a, n.left), a, n.right), a, n.parent),
              a, n.color)
rb_delete(m, a) == write_parent(m, a, a)
Delete(m, nodes) == IF nodes = {} THEN m ELSE rb_delete(m, CHOOSE a \in nodes : TRUE)

(* What a set of at most one block adds to a length.                       *)
LengthOf(m, blocks) ==
  IF blocks = {} THEN 0 ELSE get_block_length(m, CHOOSE a \in blocks : TRUE)

(* The block from a to to is cut in two, length being the first's.  In     *)
(* mm_malloc both are free and the first keeps what it was told; in        *)
(* mm_realloc the first is in use, and the second has a block before it    *)
(* that is not free.                                                       *)
Cut(m, a, length, to, is_free) ==
  LET first == init_block(m, a, length, is_free, read_previous_is_free(m, a))
  IN  TellNext(init_block(first, a + length, to - a - length, 1, is_free), a + length, 1)

(***************************************************************************)
(* Actions.                                                                *)
(***************************************************************************)
Blocks    == DOMAIN told
IsFree(a) == told[a].is_free = 1
End(a)    == a + told[a].length
InUse     == {a \in Blocks : ~ IsFree(a)}
Payload(a)   == get_block_payload(a) .. get_block_payload(a) + told[a].length - 13

Free(length, n)           == [length |-> length, is_free |-> 1, node |-> n]
Given(length, fill, kept) == [length |-> length, is_free |-> 0, fill |-> fill, kept |-> kept]

(* One block and what is stored in it, or two.                             *)
One(a, r)       == [x \in {a} |-> r]
Two(a, r, b, s) == [x \in {a, b} |-> IF x = a THEN r ELSE s]

(* New blocks take the place of all that began where they are.             *)
Becomes(new) ==
  LET covered == UNION {a .. a + new[a].length - 1 : a \in DOMAIN new}
  IN  /\ told' = [a \in DOMAIN new \cup (Blocks \ covered) |->
                    IF a \in DOMAIN new THEN new[a] ELSE told[a]]
      /\ Cardinality(DOMAIN told') <= MaxBlocks
      /\ \A a \in DOMAIN new : EightAligned(a) \/ new[a].length >= Shortest

(* A free block in memory that holds anything, as mm_init and extend make  *)
(* it.  The block before the area is in use, and so is the one after.      *)
Init ==
  /\ area \in Areas
  /\ \E fill \in Fills, n \in Nodes :
       LET new    == [x \in area[1] .. area[2] + 3 |-> fill]
           length == area[2] - area[1]
           block  == TellNext(init_block(new, area[1], length, 1, 0), area[1], 1)
       IN  /\ mem  = rb_insert(block, area[1], n)
           /\ told = One(area[1], Free(length, n))
  /\ calls = 0

(* The best fit, as far as the area goes; the block is cut when what is    *)
(* left can be a block, for requests of more than 64 bytes at its end.     *)
MINIMAL_BLOCK_SIZE == 15
BestFits(length) ==
  {a \in Blocks : /\ IsFree(a) /\ told[a].length >= length
                  /\ \A b \in Blocks : IsFree(b) /\ told[b].length >= length =>
                       told[a].length <= told[b].length}

mm_malloc(length, n) ==
  \E found \in BestFits(length) :
    LET alone  == rb_delete(mem, found)
        total  == get_block_length(alone, found)
        atEnd  == length - 12 > 64
        first  == IF atEnd THEN total - length ELSE length
        block  == IF atEnd THEN found + total - length ELSE found
        rest   == IF atEnd THEN found ELSE found + length
    IN  /\ IF total < length + MINIMAL_BLOCK_SIZE
           THEN /\ mem' = set_block_is_free(alone, found, 0)
                /\ Becomes(One(found, Given(total, 0, 0)))
           ELSE /\ LET parted == Cut(alone, found, first, found + total, 1)
                   IN  mem' = set_block_is_free(rb_insert(parted, rest, n), block, 0)
                /\ Becomes(Two(block, Given(length, 0, 0), rest, Free(total - length, n)))
        /\ UNCHANGED area

(* The program writes its payload.                                         *)
Written(fill, k) == (fill + 7 * k) % 256
Write(a, fill) ==
  /\ a \in InUse
  /\ mem'  = [x \in DOMAIN mem |-> IF x \in Payload(a)
                                   THEN Written(fill, x - get_block_payload(a)) ELSE mem[x]]
  /\ told' = [told EXCEPT ![a] = Given(told[a].length, fill, told[a].length - 12)]
  /\ UNCHANGED area

mm_free(p, n) ==
  LET block    == get_payload_block(mem, p)
      previous == get_previous_block_if_free(mem, block)
      next     == get_next_block_if_free(mem, block)
      loose    == Delete(Delete(mem, previous), next)
      merged   == block - LengthOf(mem, previous)
      length   == LengthOf(mem, previous) + get_block_length(mem, block) + LengthOf(mem, next)
      freed    == IF length = get_block_length(mem, block) THEN set_block_is_free(loose, block, 1)
                  ELSE TellNext(init_block(loose, merged, length, 1,
                                           read_previous_is_free(loose, merged)), merged, 1)
  IN  /\ mem' = rb_insert(freed, merged, n)
      /\ Becomes(One(merged, Free(length, n)))
      /\ UNCHANGED area

(* mm_realloc, where the block gets shorter.                               *)
Shrinks(p, length, n) ==
  LET block == get_payload_block(mem, p)
      old   == get_block_length(mem, block)
      next  == get_next_block_if_free(mem, block)
      to    == block + old + LengthOf(mem, next)
      parted == Cut(Delete(mem, next), block, length, to, 0)
  IN  /\ length <= old
      /\ IF next = {} /\ old - length < MINIMAL_BLOCK_SIZE THEN UNCHANGED <<mem, told>>
         ELSE /\ mem' = rb_insert(parted, block + length, n)
              /\ Becomes(Two(block, Given(length, told[block].fill,
                                        Min({told[block].kept, length - 12})),
                             block + length, Free(to - block - length, n)))
      /\ UNCHANGED area

(* Case 3 of mm_realloc, the area being inside the heap: the block grows   *)
(* into the next, or moves down into the previous, or both.  Left out is   *)
(* the move that puts saved bytes back over the new header, which Heap     *)
(* shows to lose the type bit (TypeBitsAreRight).                          *)
Joined(m, block, length) ==
  LET old       == get_block_length(m, block)
      previous  == get_previous_block_if_free(m, block)
      next      == get_next_block_if_free(m, block)
      lower     == old + LengthOf(m, previous)
      upper     == old + LengthOf(m, next)
  IN  IF lower + upper - old <= length THEN {}
      ELSE IF lower <= length /\ upper <= length THEN previous \cup next
      ELSE IF lower > length /\ (upper <= length \/ lower < upper) THEN previous
      ELSE next

(* The payload at p moves to the block new.  The bytes saved, which the    *)
(* new header might have overwritten, are put back as far from the payload *)
(* as before.                                                              *)
Moved(old, m, p, new, count, saved) ==
  LET shift == p - get_block_payload(new)
  IN  [x \in DOMAIN m |-> CASE shift # 0 /\ x + shift \in saved -> old[x + shift]
                            [] shift # 0 /\ x + shift \in (p .. p + count - 1) \ saved -> m[x + shift]
                            [] OTHER -> m[x]]

Formed(m, new, given, total) ==
  LET formed == init_block(m, new, given, 0, read_previous_is_free(m, new))
  IN  IF given = total THEN TellNext(formed, new, 0) ELSE formed

(* What is left of the blocks that were joined.                            *)
Rest(m, new, given, total, n) ==
  LET rest == new + given
  IN  IF given = total THEN m
      ELSE rb_insert(TellNext(init_block(m, rest, total - given, 1, 0), rest, 1), rest, n)

(* Mutant of Placed: the rest is cut off before the payload moves.         *)
cutfirst(m, p, new, count, saved, given, total, n) ==
  Moved(m, Rest(Formed(m, new, given, total), new, given, total, n), p, new, count, saved)

Placed(m, p, new, count, saved, given, total, n) ==
  Rest(Moved(m, Formed(m, new, given, total), p, new, count, saved), new, given, total, n)

Merges(p, length, n) ==
  LET block    == get_payload_block(mem, p)
      old      == get_block_length(mem, block)
      joined   == Joined(mem, block, length)
      previous == get_previous_block_if_free(mem, block) \cap joined
      next     == get_next_block_if_free(mem, block) \cap joined
      new      == block - LengthOf(mem, previous)
      total    == old + LengthOf(mem, previous) + LengthOf(mem, next)
      given    == IF total - length < MINIMAL_BLOCK_SIZE THEN total ELSE length
      second   == new + given - (IF EightAligned(new) THEN 4 ELSE 8)
      saved    == IF second < p + old - 12 /\ new + given > p THEN second .. new + given - 1 ELSE {}
      loose    == Delete(Delete(mem, previous), next)
      kept     == Given(given, told[block].fill, told[block].kept)
  IN  /\ length > old /\ joined # {}
      /\ new = block \/ \A x \in saved : x >= p
      /\ mem' = Placed(loose, p, new, old - 12, saved, given, total, n)
      /\ Becomes(IF given = total THEN One(new, kept)
                 ELSE Two(new, kept, new + given, Free(total - given, n)))
      /\ UNCHANGED area

(* Another node of the tree is inserted, deleted or rotated.               *)
Relink(a, n) ==
  /\ IsFree(a)
  /\ mem'  = rb_insert(mem, a, n)
  /\ told' = [told EXCEPT ![a].node = n]
  /\ UNCHANGED area

Step == \/ \E a \in InUse, fill \in Fills : Write(a, fill)
        \/ \E n \in Nodes :
             \/ \E length \in Lengths : mm_malloc(length, n)
             \/ \E a \in InUse :
                  \/ mm_free(get_block_payload(a), n)
                  \/ \E length \in Lengths : \/ Shrinks(get_block_payload(a), length, n)
                                             \/ Merges(get_block_payload(a), length, n)
             \/ \E a \in Blocks : Relink(a, n)

Next == calls < MaxCalls /\ calls' = calls + 1 /\ Step

Spec == Init /\ [][Next]_vars

(***************************************************************************)
(* Properties.                                                             *)
(***************************************************************************)
(* Whatever is split, merged or resized next to a block, and whatever the  *)
(* payloads hold, the fields that say where blocks are and which are free  *)
(* are read as they were last set, the footer of a free block among them:  *)
(* mm_free and mm_realloc (mm.c:724) find neighbours by them.              *)
BlocksAreFound ==
  \A a \in Blocks :
    /\ get_block_is_free(mem, a) = told[a].is_free
    /\ get_block_length(mem, a) = told[a].length
    /\ read_previous_is_free(mem, End(a)) = told[a].is_free
    /\ IsFree(a) => read_24_transformed(mem, End(a) - 3) = told[a].length

(* And so do the fields of a node of the tree, which share bytes with the  *)
(* bits above, the type bit and the footer.                                *)
NodesReadBack ==
  \A a \in Blocks : IsFree(a) =>
    told[a].node = [parent |-> read_parent(mem, a), left |-> read_left(mem, a),
                    right |-> read_right(mem, a), color |-> read_color(mem, a)]

(* "We need to identify a block is type 0 or type 1 from the payload       *)
(* pointer.  We use the bit just before the payload" (mm.c:87): mm_free    *)
(* and mm_realloc find the block of every payload that was given out.      *)
PayloadFindsBlock ==
  \A a \in InUse : get_payload_block(mem, get_block_payload(a)) = a

(* A payload keeps its bytes until its program writes it or frees it: no   *)
(* header, footer or bit of this block or another is stored over it, and   *)
(* when it moves, or the end of its block is cut off, the bytes that still *)
(* belong to it come along.                                                *)
PayloadsAreKept ==
  \A a \in InUse : \A k \in 0 .. told[a].kept - 1 :
    mem[get_block_payload(a) + k] = Written(told[a].fill, k)
============================================================================

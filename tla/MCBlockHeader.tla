--------------------------- MODULE MCBlockHeader ---------------------------
(* BlockHeader on short blocks at either alignment, and one request of     *)
(* more than 64 bytes, which is cut off the end of a block.                *)
EXTENDS BlockHeader

MCAreas   == {<<0, 64>>, <<4, 68>>, <<0, 108>>}
MCLengths == {20, 40, 80}
MCNodes   == {[parent |-> 4, left |-> 2^25 - 4, right |-> 4, color |-> 1],
              [parent |-> 2^25 - 4, left |-> 4, right |-> 2^25 - 4, color |-> 0]}
MCFills   == {255}
============================================================================

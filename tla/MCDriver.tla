------------------------------ MODULE MCDriver -----------------------------
(***************************************************************************)
(* Small instances of Driver for TLC: a heap of 6 bytes, payloads of at    *)
(* most 3 bytes aligned to 2, and lists of one or two trace files.         *)
(***************************************************************************)
EXTENDS Driver

a(index, size) == [type |-> "a", index |-> index, size |-> size]
r(index, size) == [type |-> "r", index |-> index, size |-> size]
f(index)       == [type |-> "f", index |-> index, size |-> 0]

File(num_ids, lines) == [num_ids |-> num_ids, num_ops |-> Len(lines), lines |-> lines]

(* Payloads freed in the order they came, then one resized; a payload that *)
(* grows and shrinks; and payloads left at the end.                        *)
Both     == File(2, <<a(0, 1), a(1, 3), f(0), r(1, 2)>>)
Resizes  == File(1, <<a(0, 2), r(0, 3), r(0, 1), f(0)>>)
Leaves   == File(2, <<a(0, 3), a(1, 1), r(0, 2)>>)
Bogus    == File(1, <<a(0, 1), [f(0) EXCEPT !.type = "x"]>>)
TooMany  == File(2, <<a(0, 1), f(0)>>)

MCRuns == {<<Both, Leaves>>, <<Leaves, Resizes>>, <<Leaves, Bogus>>, <<Resizes, TooMany>>}

MCAddresses  == {-2, 0, 1, 2, 4, 6}
MCIncrements == {0, 3, 4}

MCEvents == {[cycles |-> 2, ticks |-> 2], [cycles |-> 6, ticks |-> 2]}

(* A payload around another one.                                           *)
ContainsRuns == {<<File(2, <<a(0, 1), a(1, 4)>>)>>}
=============================================================================

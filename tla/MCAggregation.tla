--------------------------- MODULE MCAggregation ---------------------------
(* Aggregation with three users: the id of the second goes on after that of *)
(* the first, the id of the third goes on after it with a NUL.  Product 2 is *)
(* nested under product 1.                                                   *)
EXTENDS Aggregation

CONSTANTS a, b

MCBytes  == {a, b, Nul}
MCUsers  == {<<a>>, <<a, b>>, <<a, Nul, b>>}
MCClicks == {<<<<a>>, 1>>, <<<<a, b>>, 1>>, <<<<a, Nul, b>>, 2>>}
MCNested == {<<2, 1>>}
=============================================================================

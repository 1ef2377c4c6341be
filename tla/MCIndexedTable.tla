--------------------------- MODULE MCIndexedTable --------------------------
(* IndexedTable with two pairs to a page.  The tables of five records give  *)
(* a root over three leaves, those of seven an uneven tree of two levels    *)
(* of branches.                                                             *)
EXTENDS IndexedTable

Tables == [1..5 -> Keys] \cup {<<0, 0, 0, 2, 2, 2, 2>>, <<2, 0, 2, 0, 2, 0, 2>>}
============================================================================

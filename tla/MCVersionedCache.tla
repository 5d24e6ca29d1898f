--------------------------- MODULE MCVersionedCache ---------------------------
(***************************************************************************)
(* Values of the constants of VersionedCache for TLC: one product, two     *)
(* categories, two requests of one API process.  Without coalescing the    *)
(* two requests may as well be of two processes.                           *)
(***************************************************************************)
EXTENDS VersionedCache

CONSTANTS mug, books, toys, all, w1, r1, r2, none

OneProduct == {mug}
BothCategories == {books, toys}
AllList == {all}
OneWriter == {w1}
TwoReaders == {r1, r2}
OneProcess == [r \in TwoReaders |-> "api"]
InBooks == [p \in OneProduct |-> books]

Reads(first, second) == [r \in TwoReaders |-> IF r = r1 THEN first ELSE second]
Workload(e, c, reads) == [enabled |-> e, coalesce |-> c, reads |-> reads]

\* Two details, two listings, one of each, and both of both without the cache.
TwoRequests ==
  {Workload(TRUE, c, Reads({x}, {x})) : c \in BOOLEAN, x \in {mug, all}}
  \cup {Workload(TRUE, TRUE, Reads({mug}, {all})),
        Workload(FALSE, TRUE, Reads({mug, all}, {mug, all}))}
=============================================================================

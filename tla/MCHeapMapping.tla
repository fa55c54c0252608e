--------------------------- MODULE MCHeapMapping ---------------------------
EXTENDS HeapMapping

CONSTANTS Bounds, MaxRegions

MCRegions ==
  {[start |-> s, end |-> e, usable |-> u] : s \in Bounds, e \in Bounds, u \in BOOLEAN}

\* Every list of at most MaxRegions nonempty regions: sorted or not, disjoint
\* or overlapping, aligned or not.
MCRegionLists ==
  UNION {[1 .. n -> {r \in MCRegions : r.start < r.end}] : n \in 0 .. MaxRegions}
=============================================================================

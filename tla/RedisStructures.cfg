SPECIFICATION Spec
CONSTANT
    Parts = {"scans", "iterators", "maps", "quicklists", "sized quicklists", "raxes", "seeks", "ziplists",
             "ziplist integers", "listpacks", "listpack integers", "intsets", "sorted sets"}
CHECK_DEADLOCK FALSE
INVARIANTS IterationsReturnAll  TreeIsTheMap PackedIsTheList SortedSetIsOrdered
 

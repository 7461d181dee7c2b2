-------------------------- MODULE MCRedisStructures --------------------------
(***************************************************************************)
(* Small instances of the data structures of a Redis server.  Each part is *)
(* one structure with its own initial state and steps; the variables w, x  *)
(* and y are the state of the structure that is explored.                  *)
(***************************************************************************)
EXTENDS Integers, Sequences, FiniteSets

CONSTANT Parts  \* the structures to explore

VARIABLES part, w, x, y
vars == <<part, w, x, y>>

None == <<>>

D == INSTANCE Dict WITH d <- w, scan <- x, iter <- y,
       Key <- {0, 2, 4, 5}, Value <- {1}, W <- 3, INITIAL_SIZE <- 1, EmptyVisits <- 2
DI == INSTANCE Dict WITH d <- w, scan <- x, iter <- y,
       Key <- {0, 2, 4}, Value <- {1}, W <- 3, INITIAL_SIZE <- 1, EmptyVisits <- 2
E == INSTANCE Dict WITH d <- w, scan <- x, iter <- y,
       Key <- {0, 2, 4}, Value <- {1, 2}, W <- 3, INITIAL_SIZE <- 1, EmptyVisits <- 2

SizeOf(v) == v
Q == INSTANCE Quicklist WITH q <- w, ref <- x, bad <- y, Value <- {1, 2}, Size <- SizeOf,
       Fill <- 2, Compress <- 1, MinCompress <- 2, MaxLen <- 4,
       Commands <- {"PUSH", "POP", "LSET", "LINDEX", "LINSERT", "LREM", "LTRIM", "LRANGE", "LOAD"}
B == INSTANCE Quicklist WITH q <- w, ref <- x, bad <- y, Value <- {1, 2}, Size <- SizeOf,
       Fill <- -3, Compress <- 1, MinCompress <- 1, MaxLen <- 6,
       Commands <- {"PUSH", "POP", "LREM", "LTRIM", "LRANGE"}

Texts(chars, n) == UNION {[1..i -> chars] : i \in 0..n}
R == INSTANCE Rax WITH r <- w, map <- x, Key <- Texts({1, 2}, 2) \cup {<<1, 2, 1>>, <<1, 2, 3>>, <<1, 1, 1, 2>>},
       Probe <- Texts({1, 2, 3}, 3) \cup {<<1, 1, 1, 2>>}, Data <- {"NULL", "x"}, MaxSize <- 9, MaxKeys <- 4
S == INSTANCE Rax WITH r <- w, map <- x,
       Key <- {<<>>, <<1>>, <<1, 1>>, <<1, 1, 2>>, <<1, 1, 2, 2>>, <<1, 1, 2, 3>>, <<2, 1, 1, 1>>, <<3>>},
       Probe <- Texts({1, 2, 3}, 2) \cup {<<1, 1, 2, i>> : i \in 1..3} \cup {<<1, 1, i>> : i \in 1..3}
                \cup {<<2, 1, 1, 1>>, <<2, 1, 1>>, <<2, 1, 2>>},
       Data <- {"x"}, MaxSize <- 9, MaxKeys <- 5

Num(i) == [int |-> TRUE, n |-> i]
Str(i) == [int |-> FALSE, n |-> i]
\* 250 bytes fit below the limit with a short field in front and not with a long one.
Z == INSTANCE Ziplist WITH zl <- w, ref <- x, Value <- {Num(5), Str(250), Str(300)}, Uint16Max <- 4, MaxLen <- 5
ZI == INSTANCE Ziplist WITH zl <- w, ref <- x,
       Value <- {Num(i) : i \in {-1, 12, 13, 128, -129, 32768, -8388608, 8388608}} \cup {Str(1)}, Uint16Max <- 4, MaxLen <- 3
\* Sizes at which the length at the end needs one more byte.
P == INSTANCE Listpack WITH lp <- w, ref <- x, Value <- {Num(5), Str(125), Str(126), Str(16377), Str(16378)},
       Unknown <- 3, MaxBytes <- 33000, MaxLen <- 4
PI == INSTANCE Listpack WITH lp <- w, ref <- x,
       Value <- {Num(i) : i \in {-1, 127, 4095, 4096, -4096, -4097, 32768, -8388608, 8388607}} \cup {Str(63), Str(64)},
       Unknown <- 9, MaxBytes <- 33000, MaxLen <- 2
I == INSTANCE Intset WITH is <- w, ref <- x, Value <- {-9, -5, -3, -2, -1, 0, 1, 4, 5}, Lim16 <- 2, Lim32 <- 5, MaxLen <- 5
SS == INSTANCE SortedSet WITH v <- w, ref <- x, N <- 4, Score <- {1, 2}, MaxLevel <- 2, MaxZiplist <- 2

Two == {"raxes", "seeks", "ziplists", "ziplist integers", "listpacks", "listpack integers", "intsets", "sorted sets"}
Three == {"scans", "iterators", "maps", "quicklists", "sized quicklists"}

----------------------------------------------------------------------------

Init ==
    \/ part \in Parts \cap Three
       /\ \/ part = "scans" /\ D!Init
          \/ part \in {"iterators", "maps"} /\ E!Init
          \/ part = "quicklists" /\ Q!Init
          \/ part = "sized quicklists" /\ B!Init
    \/ part \in Parts \cap Two /\ y = None
       /\ \/ part = "raxes" /\ R!Init
          \/ part = "seeks" /\ S!Init
          \/ part = "ziplists" /\ Z!Init
          \/ part = "ziplist integers" /\ ZI!Init
          \/ part = "listpacks" /\ P!Init
          \/ part = "listpack integers" /\ PI!Init
          \/ part = "intsets" /\ I!Init
          \/ part = "sorted sets" /\ SS!Init

Next ==
    \/ part \in Three /\ UNCHANGED part
       /\ \/ part = "scans" /\ D!NextScan
          \/ part = "iterators" /\ DI!NextIter
          \/ part = "maps" /\ E!Change
          \/ part = "quicklists" /\ Q!Next
          \/ part = "sized quicklists" /\ B!Next
    \/ part \in Two /\ UNCHANGED <<part, y>>
       /\ \/ part = "raxes" /\ R!Next
          \/ part = "seeks" /\ S!Next
          \/ part = "ziplists" /\ Z!Next
          \/ part = "ziplist integers" /\ ZI!Next
          \/ part = "listpacks" /\ P!Next
          \/ part = "listpack integers" /\ PI!Next
          \/ part = "intsets" /\ I!Next
          \/ part = "sorted sets" /\ SS!Next

Spec == Init /\ [][Next]_vars

Of(some) == part \in some

Map == INSTANCE FiniteMap WITH map <- IF part \in {"iterators", "maps"} THEN E!Entries(w) ELSE {}, Key <- {0, 2, 4}, Value <- {1, 2}

\* A hash table with its two tables, rehashed step by step, implements a finite
\* map: every dictAdd, dictReplace and dictDelete changes the one key it is
\* about, and growing, shrinking and rehashing change none (dict.c).
DictIsAMap == Map!Spec

\* Every entry is found by dictFind, in the middle of rehashing too.  A SCAN
\* returns every key that was there all the time, although the table grows,
\* shrinks and is rehashed between the calls (dictScan); a safe iterator returns
\* such a key exactly once (dictNext).
IterationsReturnAll ==
    /\ Of({"scans"}) => D!EntriesAreFindable /\ D!IterationsReturnAll
    /\ Of({"iterators"}) => DI!EntriesAreFindable /\ DI!IterationsReturnAll

\* A quicklist is the list the commands make of it: nodes are split, merged,
\* compressed and deleted without losing, doubling or moving an element, an
\* iterator meets them all, nodes keep the size limit, and what is within the
\* depth of the ends is not compressed (quicklist.c).
QuicklistIsTheList ==
    /\ Of({"quicklists"}) => Q!ListIsRight /\ Q!IteratorsMeetAll
    /\ Of({"sized quicklists"}) => B!ListIsRight /\ B!DepthIsKept /\ B!NodesAreSmall

\* After any insertions and removals a radix tree holds the keys and data put
\* into it and no branch without a key; every seek finds the key its operator
\* names and steps visit the keys in order (rax.c).
TreeIsTheMap ==
    /\ Of({"raxes"}) => R!TreeIsTheMap /\ R!NoDeadEnds
    /\ Of({"seeks"}) => S!SeekIsRight /\ S!StepsAreRight

\* Ziplists, listpacks and intsets hold the elements put into them in their
\* order, at offsets a walk in either direction meets, with the count the header
\* gives; inserting, widening and deleting move every other element to where it
\* is looked for, also where the size of a length or of an integer changes
\* (ziplist.c, listpack.c, intset.c).
PackedIsTheList ==
    /\ Of({"ziplists"}) => Z!LayoutIsRight /\ Z!ContentIsRight /\ Z!LengthIsRight
    /\ Of({"ziplist integers"}) => ZI!ContentIsRight /\ ZI!FindIsRight
    /\ Of({"listpacks"}) => P!SeekIsRight /\ P!BackIsRight /\ P!LengthIsRight
    /\ Of({"listpack integers"}) => PI!SeekIsRight
    /\ Of({"intsets"}) => I!MemoryIsTheSet /\ I!FindIsRight

\* A sorted set, as a skiplist and as a ziplist, is ordered by score and element
\* on every level; ranks computed from the spans are places in that order, and
\* ranges by score and by element are the part of it within the bounds
\* (t_zset.c).
SortedSetIsOrdered == Of({"sorted sets"}) => SS!OrderIsRight /\ SS!RanksAreRight /\ SS!RangesAreRight /\ SS!LexRangesAreRight
=============================================================================

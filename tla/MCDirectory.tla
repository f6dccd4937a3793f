----------------------------- MODULE MCDirectory -----------------------------
(* Instances of Directory: five names, two of them with the same hash, and    *)
(* three residents no operation names, two of which fill a block; directories *)
(* that are linear, indexed, inline or block-mapped, most of them full.      *)
EXTENDS Directory

MCHash == [n \in Names |-> CASE n = "a" -> 1 [] n = "b" -> 2 [] n = "c" -> 2
                             [] n = "d" -> 3 [] n = "f" -> 4]
MCSize == [n \in Names \cup {"e", "p", "q"} |->
               CASE n = "d" -> 2 [] n = "f" -> 3 [] n \in {"p", "q"} -> 5 [] OTHER -> 1]

NoBlock == [kind |-> "data"]

Base(f, c) ==
    [flavour |-> f, csum |-> c, indexed |-> FALSE, nblk |-> 0, blocks |-> 0, parent |-> 2,
     head |-> <<>>, cont |-> <<>>, root |-> EmptyRoot, map |-> NoMap]

DiskOf(f) == [b \in Blocks |-> IF b \in DOMAIN f THEN f[b] ELSE NoBlock]

Start(d, f, u) == [dir |-> d, disk |-> DiskOf(f), used |-> u]

\* Blocks 1, 3, 5, ... belong to others: no two free blocks are adjacent.
Odd == { b \in Blocks : b % 2 = 1 }

RootOf(bs) == build_leaf([k \in DOMAIN bs |-> Extent(k - 1, 1, bs[k], FALSE)])

\* The blocks of a directory, in order: "f" fits in none of them.
First(c) == DirBlock(<<Rec(Self, ".", 1), Rec(2, "..", 1), Rec(22, "e", Usable(c) - 2)>>, c)
Second(c) == DirBlock(<<Rec(11, "a", 1), Rec(12, "b", 1), Rec(13, "c", 1),
                        Rec(14, "d", Usable(c) - 3)>>, c)
Third(c) == DirBlock(<<Rec(20, "p", Usable(c))>>, c)
Fourth(c) == DirBlock(<<Rec(21, "q", Usable(c))>>, c)
Body(c) == <<First(c), Second(c), Third(c), Fourth(c)>>

\* Two blocks in the root, which is full.
Linear(c) ==
    Start([Base("extents", c) EXCEPT !.nblk = 2, !.blocks = 2, !.root = RootOf(<<2, 4>>)],
          [b \in {2, 4} |-> Body(c)[b \div 2]], Odd \cup {2, 4})

\* Four blocks and a tree whose only leaf is full.
Deep(c) ==
    Start([Base("extents", c) EXCEPT !.nblk = 4, !.blocks = 5,
                                     !.root = Node(1, << [lb |-> 0, child |-> 10] >>)],
          [b \in {2, 4, 6, 8, 10} |->
              IF b = 10 THEN RootOf(<<2, 4, 6, 8>>) ELSE Body(c)[b \div 2]],
          Odd \cup {2, 4, 6, 8, 10})

Mapped == Start([Base("map", FALSE) EXCEPT !.nblk = 1, !.blocks = 1, !.map[1] = 2],
                [b \in {2} |-> First(FALSE)], {2})

InInode == Start([Base("inline", FALSE) EXCEPT !.head = <<Vacant(HeadUnits)>>], <<>>, {})

DxBlock(recs, lv, es) ==
    [kind |-> "dir", recs |-> recs, tail |-> FALSE, levels |-> lv,
     ents |-> [k \in DOMAIN es |-> [hash |-> es[k][1], blk |-> es[k][2]]]]

DxRoot(lv, es) == DxBlock(<<Rec(Self, ".", 1), Rec(2, "..", BlockUnits - 1)>>, lv, es)
DxNode(es) == DxBlock(<<Vacant(BlockUnits)>>, 0, es)

\* A directory the kernel indexed: the root, then nodes, then the leaf.
Indexed(c, lv, bs) ==
    LET n == lv + 2
        leaf == Second(c)
        blk(k) == IF k = 1 THEN DxRoot(lv, << <<0, 1>> >>)
                  ELSE IF k < n THEN DxNode(<< <<0, k>> >>) ELSE leaf
        root == RootOf(SubSeq(bs, 1, n))
    IN  Start([Base("extents", c) EXCEPT !.nblk = n, !.indexed = TRUE,
                  !.blocks = IF n > RootMax THEN n + 1 ELSE n,
                  !.root = IF n > RootMax THEN Node(1, << [lb |-> 0, child |-> 20] >>) ELSE root],
              [b \in { bs[k] : k \in 1 .. n } \cup (IF n > RootMax THEN {20} ELSE {}) |->
                  IF b = 20 THEN root ELSE blk(CHOOSE k \in 1 .. n : bs[k] = b)],
              Odd \cup { bs[k] : k \in 1 .. n } \cup (IF n > RootMax THEN {20} ELSE {}))

\* No step reads the ghost call or its answer: states that differ in those
\* alone have the same successors.
WithoutAnswer == <<dir, disk, used, view, ops>>

MCStarts ==
    { Linear(TRUE), Deep(TRUE), Mapped, InInode,
      Indexed(TRUE, 0, <<2, 4>>), Indexed(FALSE, 0, <<2, 4>>),
      Indexed(TRUE, 1, <<2, 4, 6>>), Indexed(FALSE, 2, <<2, 4, 6, 8>>) }
==============================================================================

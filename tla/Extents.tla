------------------------------- MODULE Extents -------------------------------
(***************************************************************************)
(* The extent tree of an ext4 inode (src/extent.rs, src/extent_mut.rs and  *)
(* the walks of src/file_mut.rs): the on-disk coding of an extent, the     *)
(* lookup that descends from the inline root, the traversal that collects  *)
(* every extent, insertion with merges, promotion and splits, the repacking*)
(* of a whole tree, the shrinking walk and the initialisation of a range   *)
(* of a preallocated extent.                                               *)
(*                                                                         *)
(* A tree node, the inline root included, is [kind, depth, ents]; a leaf   *)
(* entry is a coded extent [lb, ee, pb], an index entry [lb, child].  A    *)
(* planner works on a stage [disk, used, fresh, put, bad]: the blocks as   *)
(* the transaction will leave them, the bitmap, the tree blocks it has     *)
(* taken, the blocks it rewrites and the error it stopped with ("" while   *)
(* there is none).                                                         *)
(***************************************************************************)
EXTENDS Integers, Sequences, FiniteSets, SequencesExt

CONSTANTS
    RootMax,     \* entries the 60-byte root holds (4 in the code)
    NodeMax,     \* entries a tree block holds
    InitMaxLen,  \* EXT_INIT_MAX_LEN (32768 in the code)
    MaxDepth,    \* EXT4_EXT_MAX_DEPTH (5 in the code)
    NBlocks,     \* the blocks of the volume are 1 .. NBlocks
    GroupSize    \* blocks of a block group

Blocks == 1 .. NBlocks

Ceiling(n, d) == (n + d - 1) \div d

----------------------------------------------------------------------------
(* Records on disk *)

Extent(l, n, p, u) == [lb |-> l, len |-> n, pb |-> p, un |-> u]

Node(d, es) == [kind |-> "node", depth |-> d, ents |-> es]

\* `ee_len`: sixteen bits; a preallocated extent is stored with InitMaxLen
\* added to its length.
encode_extent(e) ==
    [lb |-> e.lb, pb |-> e.pb,
     ee |-> (e.len + (IF e.un THEN InitMaxLen ELSE 0)) % (2 * InitMaxLen)]

parse_extent(x) ==
    IF x.ee > InitMaxLen
    THEN Extent(x.lb, x.ee - InitMaxLen, x.pb, TRUE)
    ELSE Extent(x.lb, x.ee, x.pb, FALSE)

parse_leaf_entries(node) == [i \in DOMAIN node.ents |-> parse_extent(node.ents[i])]

build_leaf(es) == Node(0, [i \in DOMAIN es |-> encode_extent(es[i])])

EmptyRoot == build_leaf(<<>>)

max_extent_len(un) == IF un THEN InitMaxLen - 1 ELSE InitMaxLen

ExtentBlocks(e) == e.pb .. e.pb + e.len - 1

----------------------------------------------------------------------------
(* Reading the tree *)

\* The entry of an index node to descend into: the last one whose key does
\* not exceed l, or the first when every key does.
Chosen(ents, l) ==
    LET k == SelectInSeq(ents, LAMBDA x : x.lb > l)
    IN  IF k = 0 THEN Len(ents) ELSE IF k = 1 THEN 1 ELSE k - 1

\* The coded extents that contain l, among those before the first that
\* starts after l: the leaf scan stops there.
LeafHit(es, l) ==
    LET stop == SelectInSeq(es, LAMBDA e : e.lb > l)
        seen == IF stop = 0 THEN es ELSE SubSeq(es, 1, stop - 1)
    IN  SelectInSeq(seen, LAMBDA e : l < e.lb + e.len)

NoExtent == Extent(0, 0, 0, FALSE)

RECURSIVE lookup(_, _, _, _)
lookup(disk, node, l, fuel) ==
    IF fuel = 0 \/ node.kind # "node" \/ Len(node.ents) = 0 THEN NoExtent
    ELSE IF node.depth = 0
    THEN LET es == parse_leaf_entries(node)
             i  == LeafHit(es, l)
         IN  IF i = 0 THEN NoExtent ELSE es[i]
    ELSE lookup(disk, disk[node.ents[Chosen(node.ents, l)].child], l, fuel - 1)

\* map_logical: the block that backs l, 0 for a hole and for a block that
\* is preallocated but not written.
Backing(e, l) == IF e.len = 0 \/ e.un THEN 0 ELSE e.pb + (l - e.lb)

map_logical(disk, root, l) == Backing(lookup(disk, root, l, MaxDepth + 1), l)

\* Every extent, in the order of the leaves, and every tree block.
RECURSIVE walk(_, _)
walk(disk, node) ==
    IF node.kind # "node" THEN [exts |-> <<>>, nodes |-> <<>>]
    ELSE IF node.depth = 0 THEN [exts |-> parse_leaf_entries(node), nodes |-> <<>>]
    ELSE LET sub == [i \in DOMAIN node.ents |-> walk(disk, disk[node.ents[i].child])]
         IN  [exts  |-> FlattenSeq([i \in DOMAIN sub |-> sub[i].exts]),
              nodes |-> FlattenSeq([i \in DOMAIN sub |->
                            <<node.ents[i].child>> \o sub[i].nodes])]

collect_all(disk, root) == walk(disk, root).exts

collect_all_with_nodes(disk, root) == walk(disk, root)

----------------------------------------------------------------------------
(* Staging: what a planner changes before anything is committed *)

Stage(disk, used) ==
    [disk |-> disk, used |-> used, fresh |-> <<>>, put |-> {}, bad |-> ""]

Fail(st, why) == [st EXCEPT !.bad = why]

GroupOf(b) == (b - 1) \div GroupSize

\* The lowest free run of n blocks inside one group
\* (alloc::plan_block_allocation), 0 when there is none.
Lowest(bs) == IF bs = {} THEN 0 ELSE CHOOSE b \in bs : \A c \in bs : b <= c

FreeRun(used, n) ==
    Lowest({ b \in Blocks : /\ b + n - 1 <= NBlocks
                            /\ GroupOf(b) = GroupOf(b + n - 1)
                            /\ (b .. b + n - 1) \cap used = {} })

\* Take k tree blocks, one at a time.
RECURSIVE TakeBlocks(_, _)
TakeBlocks(st, k) ==
    LET b == FreeRun(st.used, 1)
    IN  IF k = 0 \/ st.bad # "" THEN st
        ELSE IF b = 0 THEN Fail(st, "nospace")
        ELSE TakeBlocks([st EXCEPT !.used = @ \cup {b}, !.fresh = Append(@, b)], k - 1)

Write(st, b, blk) == [st EXCEPT !.disk[b] = blk, !.put = @ \cup {b}]

----------------------------------------------------------------------------
(* Inserting an extent *)

are_contiguous(a, b) ==
    /\ a.un = b.un
    /\ a.len + b.len <= max_extent_len(a.un)
    /\ a.lb + a.len = b.lb
    /\ a.pb + a.len = b.pb

check_no_overlap(es, new) ==
    \A i \in DOMAIN es : new.lb + new.len <= es[i].lb \/ es[i].lb + es[i].len <= new.lb

MergeAt(es, i) ==
    IF i >= 1 /\ i < Len(es) /\ are_contiguous(es[i], es[i + 1])
    THEN RemoveAt([es EXCEPT ![i].len = @ + es[i + 1].len], i + 1)
    ELSE es

\* The first position whose key exceeds lb.
SortedPos(ents, lb) ==
    LET k == SelectInSeq(ents, LAMBDA x : x.lb > lb)
    IN  IF k = 0 THEN Len(ents) + 1 ELSE k

\* Insert in order, join with the left neighbour, then with the right one.
MergeRight(es, lb) ==
    MergeAt(es, SelectInSeq(es, LAMBDA e : e.lb <= lb /\ lb < e.lb + e.len))

insert_into_leaf_sorted(es, new) ==
    LET pos == SortedPos(es, new.lb)
    IN  MergeRight(MergeAt(InsertAt(es, pos, new), pos - 1), new.lb)

insert_into_index_sorted(ents, x) == InsertAt(ents, SortedPos(ents, x.lb), x)

\* plan_insert_extent: one depth-0 node that holds cap entries, the inline
\* root or the only leaf of a directory.  "deep" asks the caller to go
\* through plan_insert_extent_deep.
Inserted(node, out, cap) ==
    IF Len(out) > cap THEN [res |-> "deep", root |-> node]
    ELSE [res |-> "ok", root |-> build_leaf(out)]

InsertIntoNode(node, new, cap) ==
    LET es == parse_leaf_entries(node)
    IN  IF node.depth # 0 THEN [res |-> "deep", root |-> node]
        ELSE IF ~ check_no_overlap(es, new) THEN [res |-> "corrupt", root |-> node]
        ELSE Inserted(node, insert_into_leaf_sorted(es, new), cap)

plan_insert_extent(root, new) == InsertIntoNode(root, new, RootMax)

\* plan_promote_leaf: the entries of a full root and the new one move to
\* leaf block b; the root indexes it from block 0 on.
plan_promote_leaf(root, new, b) ==
    LET es  == parse_leaf_entries(root)
        out == insert_into_leaf_sorted(es, new)
    IN  [res  |-> IF check_no_overlap(es, new) /\ Len(out) <= NodeMax THEN "ok" ELSE "corrupt",
         leaf |-> build_leaf(out),
         root |-> Node(1, << [lb |-> 0, child |-> b] >>)]

\* The index blocks from the root to the leaf l belongs to, and the leaf;
\* block 0 stands for the root.
RECURSIVE descend_to_leaf(_, _, _, _)
descend_to_leaf(disk, node, b, l) ==
    IF node.depth = 0 THEN <<b>>
    ELSE LET c == node.ents[Chosen(node.ents, l)].child
         IN  <<b>> \o descend_to_leaf(disk, disk[c], c, l)

NodeAt(st, root, b) == IF b = 0 THEN root ELSE st.disk[b]

\* Mutation: the parent keeps the old key of a child whose first extent moved.
CorrectNot(ents, corr) == ents

Correct(ents, corr) ==
    IF corr.child = 0 THEN ents
    ELSE LET i == SelectInSeq(ents, LAMBDA x : x.child = corr.child)
         IN  [ents EXCEPT ![i].lb = corr.lb]

NoEntry == [lb |-> 0, child |-> 0]

\* The walk from the leaf up to the root.  corr is the index entry whose
\* key the child below has changed, split the entry of the block that came
\* into being beside it; either may be absent.  A node that overflows is
\* split in halves; a root that overflows becomes an index over two blocks.
RECURSIVE PlanUp(_, _, _, _, _)
PlanUp(st, root, path, corr, split) ==
    IF st.bad # "" \/ path = <<>> \/ (corr = NoEntry /\ split = NoEntry)
    THEN [st |-> st, root |-> root]
    ELSE
    LET b    == Last(path)
        up   == Front(path)
        node == NodeAt(st, root, b)
        cor  == Correct(node.ents, corr)
        ents == IF split = NoEntry THEN cor ELSE insert_into_index_sorted(cor, split)
        cap  == IF b = 0 THEN RootMax ELSE NodeMax
        half == Len(ents) \div 2
        left == SubSeq(ents, 1, half)
        rest == SubSeq(ents, half + 1, Len(ents))
        \* A changed first key is carried on to the parent.
        carry == IF corr # NoEntry /\ node.ents[1].child = corr.child
                 THEN [lb |-> corr.lb, child |-> b] ELSE NoEntry
    IN  IF corr # NoEntry /\ \A i \in DOMAIN node.ents : node.ents[i].child # corr.child
        THEN [st |-> Fail(st, "corrupt"), root |-> root]
        ELSE CASE Len(ents) <= cap /\ b = 0 ->
               [st |-> st, root |-> Node(root.depth, ents)]
          [] Len(ents) <= cap /\ b # 0 ->
               PlanUp(Write(st, b, Node(node.depth, ents)), root, up, carry, NoEntry)
          [] Len(ents) > cap /\ b = 0 ->
               LET t == TakeBlocks(st, 2)
                   n == Len(t.fresh)
               IN  IF root.depth + 1 > MaxDepth
                   THEN [st |-> Fail(st, "toodeep"), root |-> root]
                   ELSE IF t.bad # "" THEN [st |-> t, root |-> root]
                   ELSE [st |-> Write(Write(t, t.fresh[n - 1], Node(root.depth, left)),
                                      t.fresh[n], Node(root.depth, rest)),
                         root |-> Node(root.depth + 1,
                             << [lb |-> left[1].lb, child |-> t.fresh[n - 1]],
                                [lb |-> rest[1].lb, child |-> t.fresh[n]] >>)]
          [] OTHER ->
               LET t == TakeBlocks(st, 1)
                   c == Last(t.fresh)
               IN  IF t.bad # "" THEN [st |-> t, root |-> root]
                   ELSE PlanUp(Write(Write(t, b, Node(node.depth, left)),
                                     c, Node(node.depth, rest)),
                               root, up, carry, [lb |-> rest[1].lb, child |-> c])

\* plan_insert_extent_deep: the leaf, then the walk up.
LeafPlan(st, root, path, old, es) ==
    LET b    == Last(path)
        cap  == IF b = 0 THEN RootMax ELSE NodeMax
        half == Len(es) \div 2
        left == SubSeq(es, 1, half)
        rest == SubSeq(es, half + 1, Len(es))
        t    == TakeBlocks(st, 1)
        corr == IF old = <<>> \/ es[1].lb # old[1].lb
                THEN [lb |-> es[1].lb, child |-> b] ELSE NoEntry
    IN  CASE Len(es) <= cap /\ b = 0 -> [st |-> st, root |-> build_leaf(es)]
          [] Len(es) <= cap /\ b # 0 ->
               PlanUp(Write(st, b, build_leaf(es)), root, Front(path), corr, NoEntry)
          [] Len(es) > cap /\ t.bad # "" -> [st |-> t, root |-> root]
          [] Len(es) > cap /\ b = 0 ->
               [st   |-> Write(t, Last(t.fresh), build_leaf(es)),
                root |-> Node(1, << [lb |-> es[1].lb, child |-> Last(t.fresh)] >>)]
          [] OTHER ->
               PlanUp(Write(Write(t, b, build_leaf(left)), Last(t.fresh), build_leaf(rest)),
                      root, Front(path), corr,
                      [lb |-> rest[1].lb, child |-> Last(t.fresh)])

LeafInsert(st, root, new, path, old) ==
    IF ~ check_no_overlap(old, new) THEN [st |-> Fail(st, "corrupt"), root |-> root]
    ELSE LeafPlan(st, root, path, old, insert_into_leaf_sorted(old, new))

DescentInsert(st, root, new, path) ==
    LeafInsert(st, root, new, path, parse_leaf_entries(NodeAt(st, root, Last(path))))

plan_insert_extent_deep(st, root, new) ==
    DescentInsert(st, root, new, descend_to_leaf(st.disk, root, 0, new.lb))
----------------------------------------------------------------------------
(* Laying the tree out again (a punched hole) *)

chunks(s, n) ==
    [i \in 1 .. Ceiling(Len(s), n) |->
        SubSeq(s, (i - 1) * n + 1, IF i * n < Len(s) THEN i * n ELSE Len(s))]

\* One level: block k of the level comes from the old tree's blocks while
\* there are any, then from the allocator.
LayOut(t, supply, groups, depth, at) ==
    LET node(k) == IF depth = 0 THEN build_leaf(groups[k]) ELSE Node(depth, groups[k])
    IN  [st     |-> [t EXCEPT !.put = @ \cup ToSet(at), !.disk = [b \in DOMAIN @ |->
                        IF b \in ToSet(at)
                        THEN node(SelectInSeq(at, LAMBDA x : x = b)) ELSE @[b]]],
         supply |-> SubSeq(supply, Len(groups) + 1, Len(supply)),
         above  |-> [k \in DOMAIN groups |-> [lb |-> groups[k][1].lb, child |-> at[k]]]]

Supplied(t, supply, groups, depth, new) ==
    IF t.bad # "" THEN [st |-> t, supply |-> supply, above |-> <<>>]
    ELSE LayOut(t, supply, groups, depth,
                SubSeq(supply, 1, Len(groups) - new)
                    \o SubSeq(t.fresh, Len(t.fresh) - new + 1, Len(t.fresh)))

PackLevel(st, supply, groups, depth) ==
    LET need == IF Len(groups) > Len(supply) THEN Len(groups) - Len(supply) ELSE 0
    IN  Supplied(TakeBlocks(st, need), supply, groups, depth, need)

RECURSIVE PackUp(_, _)
PackUp(lv, depth) ==
    IF lv.st.bad # "" \/ Len(lv.above) <= RootMax
    THEN [st |-> lv.st, left |-> lv.supply, root |-> Node(depth, lv.above)]
    ELSE PackUp(PackLevel(lv.st, lv.supply, chunks(lv.above, NodeMax), depth), depth + 1)

\* plan_repack_tree: the root, and the old tree blocks left unused.
plan_repack_tree(st, es, nodes) ==
    IF Len(es) <= RootMax THEN [st |-> st, left |-> nodes, root |-> build_leaf(es)]
    ELSE PackUp(PackLevel(st, nodes, chunks(es, NodeMax), 0), 1)

----------------------------------------------------------------------------
(* Shrinking: the walk that drops everything from block `end` on *)

\* The walk threads w = [disk, seen, lend, freed, bad] through the entries:
\* the tree blocks rewritten, the physical blocks met, where the previous
\* extent ended, the blocks to free, and whether the tree was refused.
ShrinkExtent(end, acc, x) ==
    LET e    == parse_extent(x)
        gone == IF end > e.lb THEN end - e.lb ELSE 0
        keep == IF gone < e.len THEN gone ELSE e.len
        w    == acc.w
        wrong == \/ e.len = 0
                 \/ e.lb < w.lend
                 \/ e.pb = 0
                 \/ e.pb + e.len - 1 > NBlocks
                 \/ ExtentBlocks(e) \cap w.seen # {}
    IN  [w |-> [w EXCEPT !.lend = e.lb + e.len, !.seen = @ \cup ExtentBlocks(e),
                         !.freed = @ \cup (e.pb + keep .. e.pb + e.len - 1),
                         !.bad = @ \/ wrong],
         prev |-> e.lb,
         ents |-> IF keep = 0 THEN acc.ents
                  ELSE Append(acc.ents, encode_extent([e EXCEPT !.len = keep]))]

RECURSIVE ShrinkNode(_, _, _, _)
ShrinkNode(node, depth, end, w0) ==
    LET Child(acc, x) ==
            LET w     == acc.w
                wrong == \/ acc.prev >= x.lb
                         \/ x.child \notin Blocks
                         \/ x.child \in w.seen
                         \/ w.disk[x.child].kind # "node"
                         \/ w.disk[x.child].ents = <<>>
                         \/ w.disk[x.child].ents[1].lb # x.lb
                sub   == ShrinkNode(w.disk[x.child], depth - 1, end,
                                    [w EXCEPT !.seen = @ \cup {x.child}])
            IN  IF w.bad \/ wrong
                THEN [w |-> [w EXCEPT !.bad = TRUE], prev |-> x.lb, ents |-> acc.ents]
                ELSE IF sub.ents = <<>>
                THEN [w |-> [sub.w EXCEPT !.freed = @ \cup {x.child}],
                      prev |-> x.lb, ents |-> acc.ents]
                ELSE [w |-> [sub.w EXCEPT !.disk[x.child] = Node(depth - 1, sub.ents)],
                      prev |-> x.lb,
                      ents |-> Append(acc.ents,
                                      [lb |-> sub.ents[1].lb, child |-> x.child])]
        start == [w |-> w0, prev |-> -1, ents |-> <<>>]
    IN  IF node.depth # depth THEN [start EXCEPT !.w.bad = TRUE]
        ELSE IF depth = 0
        THEN FoldLeft(LAMBDA acc, x : ShrinkExtent(end, acc, x), start, node.ents)
        ELSE FoldLeft(Child, start, node.ents)

\* plan_truncate_shrink_deep: the root, the rewritten blocks, the freed ones.
Shrunk(depth, out) ==
    [root  |-> Node(IF out.ents = <<>> THEN 0 ELSE depth, out.ents),
     disk  |-> out.w.disk, freed |-> out.w.freed, bad |-> out.w.bad]

plan_truncate_shrink_deep(disk, root, end) ==
    Shrunk(root.depth,
           ShrinkNode(root, root.depth, end,
                      [disk |-> disk, seen |-> {}, lend |-> 0, freed |-> {}, bad |-> FALSE]))

----------------------------------------------------------------------------
(* Writing into a preallocated range of an inline root *)

Pieces(e, first, end) ==
    LET er == e.lb + e.len
        lo == IF e.lb > first THEN e.lb ELSE first
        hi == IF er < end THEN er ELSE end
        piece(a, b, u) == IF a < b THEN <<Extent(a, b - a, e.pb + (a - e.lb), u)>> ELSE <<>>
    IN  IF ~ e.un \/ er <= first \/ e.lb >= end THEN <<e>>
        ELSE piece(e.lb, lo, TRUE) \o piece(lo, hi, FALSE) \o piece(hi, er, TRUE)

JoinLast(es, e) ==
    IF es # <<>> /\ are_contiguous(Last(es), e)
    THEN [es EXCEPT ![Len(es)].len = @ + e.len] ELSE Append(es, e)

\* plan_initialize_range: the new root, or "unsupported" when the tree is
\* deep or the pieces do not fit; and the blocks that became readable.
plan_initialize_range(root, first, end) ==
    LET es  == parse_leaf_entries(root)
        out == FoldLeft(JoinLast, <<>>,
                        FlattenSeq([i \in DOMAIN es |-> Pieces(es[i], first, end)]))
    IN  IF root.depth # 0 \/ Len(out) > RootMax
        THEN [res |-> "unsupported", root |-> root, converted |-> {}]
        ELSE [res |-> "ok", root |-> build_leaf(out),
              converted |-> { l \in first .. end - 1 :
                  \E i \in DOMAIN es : es[i].un /\ l \in es[i].lb .. es[i].lb + es[i].len - 1 }]
==============================================================================

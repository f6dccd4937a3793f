------------------------------ MODULE Directory ------------------------------
(***************************************************************************)
(* One directory on disk under create, unlink, rename and a move of the    *)
(* directory itself (src/dir.rs, src/htree.rs, src/htree_mut.rs,           *)
(* src/inline_mut.rs, src/path.rs and the buffer_* helpers of src/fs.rs).  *)
(* The directory is linear, indexed by a hash tree of up to two levels of  *)
(* index nodes, or held in its inode, and its blocks are mapped by an      *)
(* extent tree or by an ext2/3 block map.                                  *)
(*                                                                         *)
(* Lengths are counted in units; a name takes Size[name] units, "." and    *)
(* ".." one each and the checksum tail one.  A directory block is          *)
(* [kind, recs, tail, levels, ents]: its records as a linear reader sees   *)
(* them, whether it ends in a checksum tail, and the index entries when it *)
(* is a block of the index.                                                *)
(*                                                                         *)
(* A transaction t = [dir, disk, used, bad] is what the BlockBuffer would  *)
(* leave behind: a block or the inode read through the buffer is read from *)
(* t, one read from the device from `disk` and `dir`.  commit_block_buffer *)
(* makes a transaction one step, as Journal shows.                         *)
(***************************************************************************)
EXTENDS Extents, IndirectMap

CONSTANTS
    Names, Hash, Size,
    BlockUnits,   \* units of a directory block
    HeadUnits,    \* units of the inode's own area, `..` left out
    ContUnits,    \* units the attribute area has room for
    RootLimit,    \* entries of the index root
    NodeLimit,    \* entries of an index node
    Inos,         \* inode numbers given to new files
    Parents,      \* inode numbers of directories this one may be moved to
    DirStarts,    \* the directories a behaviour may begin with
    MaxOps        \* operations of a behaviour

VARIABLES
    dir,   \* the directory's inode
    disk,  \* block -> its content
    used,  \* the block bitmap
    view,  \* what a reader finds: every name looked up, and `..`
    res,   \* how the last operation ended
    call,  \* ghost: which operation that was, and on what
    ops    \* operations begun

vars == <<dir, disk, used, view, res, call, ops>>

Self == 1

Hashes == { Hash[n] : n \in Names }

MinOf(S) == CHOOSE x \in S : \A y \in S : x <= y

----------------------------------------------------------------------------
(* Records of a block (dir.rs) *)

Rec(i, n, l) == [ino |-> i, name |-> n, len |-> l]

Vacant(l) == Rec(0, "", l)

Dots == {".", ".."}

entry_rec_len(n) == IF n \in Dots THEN 1 ELSE Size[n]

Named(recs, n) == SelectInSeq(recs, LAMBDA r : r.ino # 0 /\ r.name = n)

\* The inode number the records give for n, 0 when they have none.
InRecs(recs, n) == LET k == Named(recs, n) IN IF k = 0 THEN 0 ELSE recs[k].ino

\* First fit: a vacant record keeps its length, a live one gives up what its
\* own name does not need.  <<>> when no record has room.
add_entry_to_block(recs, i, n) ==
    LET need == entry_rec_len(n)
        own(r) == IF r.ino = 0 THEN 0 ELSE entry_rec_len(r.name)
        k == SelectInSeq(recs, LAMBDA r : r.len >= own(r) + need)
    IN  IF k = 0 THEN <<>>
        ELSE IF recs[k].ino = 0 THEN [recs EXCEPT ![k] = Rec(i, n, @.len)]
        ELSE InsertAt([recs EXCEPT ![k].len = own(recs[k])], k + 1,
                      Rec(i, n, recs[k].len - own(recs[k])))

\* The record before takes the length over; the first record is vacated.
remove_entry_from_block(recs, n) ==
    LET k == Named(recs, n)
    IN  IF k = 1 THEN [recs EXCEPT ![1] = Vacant(@.len)]
        ELSE RemoveAt([recs EXCEPT ![k - 1].len = @ + recs[k].len], k)

DirBlock(recs, tail) ==
    [kind |-> "dir", recs |-> recs, tail |-> tail, levels |-> 0, ents |-> <<>>]

Usable(c) == IF c THEN BlockUnits - 1 ELSE BlockUnits

\* seed_directory_block: `.`, and `..` up to the end.
seed_directory_block(p, c) ==
    DirBlock(<<Rec(Self, ".", 1), Rec(p, "..", Usable(c) - 1)>>, c)

\* seeded_dir_block: a new block with one entry.
seeded_dir_block(i, n, c) == DirBlock(<<Rec(i, n, Usable(c))>>, c)

----------------------------------------------------------------------------
(* Where the blocks of the directory are, as the device has them *)

\* The tree blocks on the way to l are tree blocks (the magic number of
\* ExtentHeader::parse).
RECURSIVE Readable(_, _, _)
Readable(dk, node, l) ==
    /\ node.kind = "node"
    /\ node.depth > 0 => Readable(dk, dk[node.ents[Chosen(node.ents, l)].child], l)

Unreadable == -1

\* map_inode_logical: the block, 0 for a hole.
map_inode_logical(d, dk, l) ==
    IF d.flavour = "map" THEN map_lookup(dk, d.map, l)
    ELSE IF ~ Readable(dk, d.root, l) THEN Unreadable
    ELSE map_logical(dk, d.root, l)

\* The first block for which P(l, b) holds: 0 when there is none,
\* Unreadable when a block before it cannot be mapped.
FirstOf(at, P(_, _)) ==
    LET ls == { l \in DOMAIN at : at[l] = Unreadable \/ (at[l] # 0 /\ P(l, at[l])) }
    IN  IF ls = {} THEN 0 ELSE at[MinOf(ls)]

FirstBlock(d, dk, P(_, _)) ==
    FirstOf([l \in 0 .. d.nblk - 1 |-> map_inode_logical(d, dk, l)], P)

\* dir_block_role: in an indexed directory block 0 is the root, and a block
\* whose first record is vacant and spans it is an index node.
dir_block_role(d, l, blk) ==
    IF ~ d.indexed THEN "entries"
    ELSE IF l = 0 THEN "root"
    ELSE IF blk.recs[1].ino = 0 /\ blk.recs[1].len = BlockUnits THEN "node"
    ELSE "entries"

----------------------------------------------------------------------------
(* The index (htree.rs) *)

\* The entry with the largest hash that is not above h; the first entry's
\* hash counts as zero.
find_entry_for_hash(ents, h) ==
    LET k == SelectInSeq(Tail(ents), LAMBDA e : e.hash > h)
    IN  IF k = 0 THEN ents[Len(ents)].blk ELSE ents[k].blk

\* lookup_leaf_with: the logical block of the leaf, and the device block of
\* the index block that names it.  Blocks are mapped as dv has them and read
\* from dk.
Route(dk, b, n) == [leaf |-> find_entry_for_hash(dk[b].ents, Hash[n]), by |-> b]

RouteFrom(d, dv, dk, n, root) ==
    FoldLeft(LAMBDA at, k : Route(dk, map_inode_logical(d, dv, at.leaf), n),
             Route(dk, root, n), [k \in 1 .. dk[root].levels |-> k])

lookup_leaf_with(d, dv, dk, n) == RouteFrom(d, dv, dk, n, map_inode_logical(d, dv, 0))

----------------------------------------------------------------------------
(* Looking a name up (path.rs, fs.rs) *)

find_inline(d, n) ==
    IF n = ".." THEN d.parent
    ELSE IF n = "." THEN Self
    ELSE LET h == InRecs(d.head, n) IN IF h # 0 THEN h ELSE InRecs(d.cont, n)

InBlock(dk, b, n) == IF b > 0 THEN InRecs(dk[b].recs, n) ELSE 0

find_entry_linear(d, dk, n) ==
    InBlock(dk, FirstBlock(d, dk, LAMBDA l, p : Named(dk[p].recs, n) # 0), n)

find_entry_htree(d, dk, n) ==
    InRecs(dk[map_inode_logical(d, dk, lookup_leaf_with(d, dk, dk, n).leaf)].recs, n)

\* find_entry: the index first, then every block.
RoutedOrScanned(d, dk, n, routed) == IF routed # 0 THEN routed ELSE find_entry_linear(d, dk, n)

find_entry(d, dk, n) ==
    IF d.flavour = "inline" THEN find_inline(d, n)
    ELSE RoutedOrScanned(d, dk, n, IF d.indexed /\ n \notin Dots
                                   THEN find_entry_htree(d, dk, n) ELSE 0)

\* What path lookups find.
FoundNames(at) == [n \in { m \in Names : at[m] # 0 } |-> at[n]]

ViewOf(d, dk) ==
    [map    |-> FoundNames([n \in Names |-> find_entry(d, dk, n)]),
     parent |-> find_entry(d, dk, "..")]

\* find_entry_in_dir: what the operations look at before they write.
find_entry_in_dir(n) ==
    IF dir.flavour = "inline" THEN find_inline(dir, n) ELSE find_entry_linear(dir, disk, n)

----------------------------------------------------------------------------
(* Staging *)

Begin == [dir |-> dir, disk |-> disk, used |-> used, bad |-> ""]

Stop(t, why) == [t EXCEPT !.bad = why]

SetRecs(t, b, recs) == [t EXCEPT !.disk[b].recs = recs]

\* buffer_dir_block_alloc
Claim(t, b) == [t EXCEPT !.used = @ \cup {b}, !.dir.blocks = @ + 1]

----------------------------------------------------------------------------
(* A directory held in its inode (inline_mut.rs) *)

\* InlineDir::add: the inode's own area, then the attribute's.
AddInline(d, i, n) ==
    LET h == add_entry_to_block(d.head, i, n)
        c == add_entry_to_block(d.cont, i, n)
    IN  IF h # <<>> THEN [d EXCEPT !.head = h]
        ELSE IF c # <<>> THEN [d EXCEPT !.cont = c] ELSE d

\* InlineDir::expand: a continuation as large as the attribute area allows.
expand(d) ==
    IF d.cont = <<>> /\ ContUnits > 0 THEN [d EXCEPT !.cont = <<Vacant(ContUnits)>>] ELSE d

Live(recs) == SelectSeq(recs, LAMBDA r : r.ino # 0)

\* buffer_convert_inline_dir: every entry and the new one in a first block.
buffer_convert_inline_dir(t, i, n) ==
    LET d    == t.dir
        all  == Live(d.head) \o Live(d.cont) \o <<Rec(i, n, 0)>>
        Put(recs, r) == IF recs = <<>> THEN <<>> ELSE add_entry_to_block(recs, r.ino, r.name)
        recs == FoldLeft(Put, seed_directory_block(d.parent, d.csum).recs, all)
        b    == FreeRun(t.used, 1)
    IN  IF recs = <<>> THEN Stop(t, "corrupt")
        ELSE IF b = 0 THEN Stop(t, "nospace")
        ELSE [Claim(t, b) EXCEPT
                !.disk[b] = DirBlock(recs, d.csum),
                !.dir.flavour = "extents", !.dir.nblk = 1,
                !.dir.head = <<>>, !.dir.cont = <<>>,
                !.dir.root = plan_insert_extent(EmptyRoot, Extent(0, 1, b, FALSE)).root]

buffer_add_inline_dir_entry(t, i, n) ==
    LET here == AddInline(t.dir, i, n)
        more == AddInline(expand(t.dir), i, n)
    IN  IF here # t.dir THEN [t EXCEPT !.dir = here]
        ELSE IF more # expand(t.dir) THEN [t EXCEPT !.dir = more]
        ELSE buffer_convert_inline_dir(t, i, n)

buffer_remove_inline_dir_entry(t, n) ==
    IF Named(t.dir.head, n) # 0
    THEN [t EXCEPT !.dir.head = remove_entry_from_block(@, n)]
    ELSE IF Named(t.dir.cont, n) # 0
    THEN [t EXCEPT !.dir.cont = remove_entry_from_block(@, n)]
    ELSE Stop(t, "notfound")

----------------------------------------------------------------------------
(* Removing and adding an entry.  d is the inode the caller holds, which   *)
(* may be older than the one in the buffer.                                *)

RemoveFromBlock(t, b, n) ==
    IF b = Unreadable THEN Stop(t, "corrupt")
    ELSE IF b = 0 THEN Stop(t, "notfound")
    ELSE SetRecs(t, b, remove_entry_from_block(t.disk[b].recs, n))

RemoveFromBlocks(t, d, n) ==
    RemoveFromBlock(t, FirstBlock(d, disk, LAMBDA l, p :
                           /\ dir_block_role(d, l, t.disk[p]) = "entries"
                           /\ Named(t.disk[p].recs, n) # 0), n)

buffer_remove_dir_entry(t, d, n) ==
    IF d.flavour # "inline" THEN RemoveFromBlocks(t, d, n)
    ELSE IF t.dir.flavour = "inline" THEN buffer_remove_inline_dir_entry(t, n)
    ELSE RemoveFromBlocks(t, t.dir, n)

\* The leaf the index picks, and no other block.
AddToLeaf(t, b, i, n) ==
    LET recs == add_entry_to_block(t.disk[b].recs, i, n)
    IN  IF b <= 0 THEN Stop(t, "corrupt")
        ELSE IF recs = <<>> THEN Stop(t, "full")
        ELSE SetRecs(t, b, recs)

AddRouted(t, d, leaf, i, n) ==
    IF leaf = 0 THEN Stop(t, "corrupt")
    ELSE AddToLeaf(t, map_inode_logical(d, disk, leaf), i, n)

buffer_add_dir_entry_indexed(t, d, i, n) ==
    AddRouted(t, d, lookup_leaf_with(d, disk, t.disk, n).leaf, i, n)

AddToBlock(t, b, i, n) ==
    IF b = Unreadable THEN Stop(t, "corrupt")
    ELSE IF b = 0 THEN Stop(t, "full")
    ELSE SetRecs(t, b, add_entry_to_block(t.disk[b].recs, i, n))

AddToBlocks(t, d, i, n) ==
    AddToBlock(t, FirstBlock(d, disk, LAMBDA l, p :
                      add_entry_to_block(t.disk[p].recs, i, n) # <<>>), i, n)

buffer_add_dir_entry_inplace(t, d, i, n) ==
    IF t.dir.flavour = "inline" THEN buffer_add_inline_dir_entry(t, i, n)
    ELSE IF d.flavour = "inline" THEN AddToBlocks(t, t.dir, i, n)
    ELSE IF d.indexed THEN buffer_add_dir_entry_indexed(t, d, i, n)
    ELSE AddToBlocks(t, d, i, n)

----------------------------------------------------------------------------
(* Appending a block *)

\* The block is staged, and the size and i_blocks of the inode with it.
Appended(t, b, blk) == [t EXCEPT !.disk[b] = blk, !.dir.nblk = @ + 1]

\* Mutation: the data block is not reserved while the tree takes its own.
ReservedNone(t, b) == t.used

\* The blocks the tree may not take: the ones in use, and the data block,
\* which is marked only once the tree is planned.
Reserved(t, b) == t.used \cup {b}

\* buffer_extend_dir_deep: nothing is staged until the tree is planned from
\* the device's blocks.
Planned(t, b, blk, root, st) ==
    IF st.bad # "" THEN Stop(t, IF st.bad = "nospace" THEN "nospace" ELSE "corrupt")
    ELSE Appended([t EXCEPT !.used = st.used \cup {b},
                            !.disk = [c \in DOMAIN @ |-> IF c \in st.put THEN st.disk[c]
                                                         ELSE @[c]],
                            !.dir.root = root,
                            !.dir.blocks = @ + 1 + Len(st.fresh)],
                  b, blk)

PlannedDeep(t, b, blk, p) == Planned(t, b, blk, p.root, p.st)

buffer_extend_dir_deep(t, b, blk) ==
    PlannedDeep(t, b, blk, plan_insert_extent_deep(Stage(disk, Reserved(t, b)), t.dir.root,
                                                   Extent(t.dir.nblk, 1, b, FALSE)))

\* buffer_extend_dir_depth1: into the only leaf while it has room.
buffer_extend_dir_depth1(t, b, blk) ==
    LET leaf == t.dir.root.ents[1].child
        in   == InsertIntoNode(t.disk[leaf], Extent(t.dir.nblk, 1, b, FALSE), NodeMax)
    IN  IF Len(t.dir.root.ents) # 1 \/ in.res = "deep" THEN buffer_extend_dir_deep(t, b, blk)
        ELSE IF in.res # "ok" THEN Stop(t, "corrupt")
        ELSE Appended([Claim(t, b) EXCEPT !.disk[leaf] = in.root], b, blk)

\* A root of depth 0, promoted when it is full.
ExtendRoot(t0, b, blk) ==
    LET t   == Claim(t0, b)
        ext == Extent(t.dir.nblk, 1, b, FALSE)
        in  == plan_insert_extent(t.dir.root, ext)
        c   == FreeRun(t.used, 1)
        up  == plan_promote_leaf(t.dir.root, ext, c)
    IN  IF in.res = "ok" THEN Appended([t EXCEPT !.dir.root = in.root], b, blk)
        ELSE IF in.res # "deep" THEN Stop(t, "corrupt")
        ELSE IF c = 0 THEN Stop(t, "nospace")
        ELSE IF up.res # "ok" THEN Stop(t, "corrupt")
        ELSE Appended([Claim(t, c) EXCEPT !.disk[c] = up.leaf, !.dir.root = up.root], b, blk)

\* buffer_extend_mapped_dir: a direct pointer or the single indirect block.
buffer_extend_mapped_dir(t0, b, blk) ==
    LET l    == t0.dir.nblk
        t    == Claim(t0, b)
        ind  == t.dir.map[NDirect + 1]
        c    == FreeRun(t.used, 1)
        At(u, p) == Appended([u EXCEPT !.disk[p].ptrs[l - NDirect + 1] = b], b, blk)
        None == [kind |-> "ptrs", ptrs |-> [k \in 1 .. PPB |-> 0]]
    IN  IF l >= NDirect + PPB THEN Stop(t0, "unsupported")
        ELSE IF l < NDirect THEN Appended([t EXCEPT !.dir.map[l + 1] = b], b, blk)
        ELSE IF ind # 0 THEN At(t, ind)
        ELSE IF c = 0 THEN Stop(t, "nospace")
        ELSE At([Claim(t, c) EXCEPT !.disk[c] = None, !.dir.map[NDirect + 1] = c], c)

buffer_append_dir_block(t, blk) ==
    LET b == FreeRun(t.used, 1)
    IN  IF t.bad # "" THEN t
        ELSE IF b = 0 THEN
            Stop(t, IF t.dir.flavour = "map" /\ t.dir.nblk >= NDirect + PPB
                    THEN "unsupported" ELSE "nospace")
        ELSE IF t.dir.flavour = "map" THEN buffer_extend_mapped_dir(t, b, blk)
        ELSE IF t.dir.root.depth = 1 THEN buffer_extend_dir_depth1(t, b, blk)
        ELSE IF t.dir.root.depth > 1 THEN buffer_extend_dir_deep(t, b, blk)
        ELSE ExtendRoot(t, b, blk)

----------------------------------------------------------------------------
(* Splitting a leaf of the index, or giving the index up *)

\* The live entries in the order of their hashes, ties as they were.
ByHash(es) ==
    LET RECURSIVE From(_)
        From(S) == IF S = {} THEN <<>>
                   ELSE SelectSeq(es, LAMBDA r : Hash[r.name] = MinOf(S)) \o From(S \ {MinOf(S)})
    IN  From(Hashes)

\* write_packed_leaf: each entry its own length, the last one to the end.
write_packed_leaf(es, units) ==
    LET before == FoldLeft(LAMBDA a, r : a + entry_rec_len(r.name), 0, Front(es))
    IN  [k \in DOMAIN es |-> [es[k] EXCEPT !.len = IF k = Len(es) THEN units - before
                                                   ELSE entry_rec_len(es[k].name)]]

\* Mutation: the leaf is cut in the middle even between two equal hashes.
SplitAtHalf(es) == Len(es) \div 2

\* Where plan_leaf_split cuts: nearest to the middle, above it first, between
\* two different hashes; 0 when every name has the same hash.
SplitPoint(es) ==
    LET half == Len(es) \div 2
        ms   == { m \in 1 .. Len(es) - 1 : Hash[es[m].name] # Hash[es[m + 1].name] }
        far(m) == IF m >= half THEN 2 * (m - half) ELSE 2 * (half - m) + 1
    IN  IF ms = {} THEN 0 ELSE CHOOSE m \in ms : \A k \in ms : far(m) <= far(k)

\* plan_insert_dx_entry: <<>> when the block is full or routes the hash.
plan_insert_dx_entry(ents, limit, h, blk) ==
    LET rest == Tail(ents)
        k    == SelectInSeq(rest, LAMBDA e : e.hash > h)
    IN  IF Len(ents) >= limit \/ \E j \in DOMAIN rest : rest[j].hash = h THEN <<>>
        ELSE <<ents[1]>> \o InsertAt(rest, IF k = 0 THEN Len(rest) + 1 ELSE k,
                                     [hash |-> h, blk |-> blk])

\* buffer_split_htree_leaf_and_add_entry: done is FALSE when the index has to
\* be dropped instead.
NoSplit(t) == [done |-> FALSE, t |-> t]

\* The upper half is in a block of its own: the leaf keeps the lower one and
\* the index block that led to it gets the new entry.
SplitStaged(a, lp, by, low, up) ==
    [done |-> TRUE,
     t    |-> IF a.bad # "" THEN a
              ELSE [a EXCEPT !.disk[lp].recs = low, !.disk[by].ents = up]]

SplitWith(t, lp, by, low, high, up) ==
    IF up = <<>> \/ low = <<>> \/ high = <<>> THEN NoSplit(t)
    ELSE SplitStaged(buffer_append_dir_block(t, DirBlock(high, t.disk[lp].tail)), lp, by, low, up)

SplitEntries(t, i, n, limit, lp, by, es, m) ==
    LET units == Usable(t.disk[lp].tail)
        h     == Hash[es[m + 1].name]
        left  == write_packed_leaf(SubSeq(es, 1, m), units)
        right == write_packed_leaf(SubSeq(es, m + 1, Len(es)), units)
    IN  IF Len(es) < 2 \/ m = 0 THEN NoSplit(t)
        ELSE SplitWith(t, lp, by,
                 IF Hash[n] >= h THEN left ELSE add_entry_to_block(left, i, n),
                 IF Hash[n] >= h THEN add_entry_to_block(right, i, n) ELSE right,
                 plan_insert_dx_entry(t.disk[by].ents, limit, h, t.dir.nblk))

SplitSorted(t, i, n, limit, lp, by, es) == SplitEntries(t, i, n, limit, lp, by, es, SplitPoint(es))

SplitLeaf(t, i, n, limit, lp, by) ==
    SplitSorted(t, i, n, limit, lp, by, ByHash(Live(t.disk[lp].recs)))

SplitRouted(t, i, n, limit, to) ==
    SplitLeaf(t, i, n, limit, map_inode_logical(t.dir, disk, to.leaf), to.by)

SplitUnder(t, i, n, levels) ==
    IF levels > 1 THEN NoSplit(t)
    ELSE SplitRouted(t, i, n, IF levels = 0 THEN RootLimit ELSE NodeLimit,
                     lookup_leaf_with(t.dir, disk, t.disk, n))

buffer_split_htree_leaf_and_add_entry(t, i, n) ==
    IF ~ t.dir.indexed THEN NoSplit(t)
    ELSE SplitUnder(t, i, n, t.disk[map_inode_logical(t.dir, disk, 0)].levels)

\* The device blocks of the index nodes, level by level.
IndexLevel(t, nodes, at) ==
    [nodes |-> nodes \cup at,
     level |-> UNION { { e.blk : e \in ToSet(t.disk[b].ents) } : b \in at }]

IndexNodes(t, root) ==
    FoldLeft(LAMBDA acc, k :
                 IndexLevel(t, acc.nodes, { map_inode_logical(t.dir, disk, l) : l \in acc.level }),
             [nodes |-> {}, level |-> { e.blk : e \in ToSet(root.ents) }],
             [k \in 1 .. root.levels |-> k]).nodes

\* buffer_drop_htree_index: with checksums the record that spans the root and
\* each node is shortened for a tail.  The index entries underneath are not
\* read again.
Tailed(blk, k, c) ==
    [blk EXCEPT !.recs[k].len = IF c THEN @ - 1 ELSE @, !.tail = c, !.levels = 0, !.ents = <<>>]

DropIndex(t, root, nodes) ==
    [t EXCEPT !.dir.indexed = FALSE,
              !.disk = [b \in DOMAIN @ |-> IF b = root THEN Tailed(@[b], 2, t.dir.csum)
                                           ELSE IF b \in nodes THEN Tailed(@[b], 1, t.dir.csum)
                                           ELSE @[b]]]

DropIndexAt(t, root) == DropIndex(t, root, IndexNodes(t, t.disk[root]))

buffer_drop_htree_index(t) ==
    IF ~ t.dir.indexed THEN t ELSE DropIndexAt(t, map_inode_logical(t.dir, disk, 0))

SplitOrAppended(t, i, n, s) ==
    IF s.done THEN s.t
    ELSE buffer_append_dir_block(buffer_drop_htree_index(t), seeded_dir_block(i, n, t.dir.csum))

extend_dir_and_add_entry(t, i, n) ==
    SplitOrAppended(t, i, n, buffer_split_htree_leaf_and_add_entry(t, i, n))

\* An add in place, and the extension when no block has room.
InPlaceOrExtended(t, i, n, a) ==
    IF t.bad # "" THEN t
    ELSE IF a.bad = "full" THEN extend_dir_and_add_entry(t, i, n) ELSE a

AddEntry(t, d, i, n) == InPlaceOrExtended(t, i, n, buffer_add_dir_entry_inplace(t, d, i, n))

----------------------------------------------------------------------------
(* Operations *)

Refused(why) == res' = why /\ UNCHANGED <<dir, disk, used, view>>

\* commit_block_buffer: all of it, or nothing when the staging failed.
Commit(t) ==
    IF t.bad # "" THEN Refused(t.bad)
    ELSE /\ dir' = t.dir /\ disk' = t.disk /\ used' = t.used
         /\ view' = ViewOf(t.dir, t.disk)
         /\ res' = "ok"

Begun(asked) == ops < MaxOps /\ ops' = ops + 1 /\ call' = asked

NewIno == MinOf(Inos \ { find_entry_in_dir(n) : n \in Names })

\* create, mkdir, mknod, symlink and link: a name that is not there yet.
Create(n) ==
    /\ Begun(<<"add", n, NewIno>>)
    /\ IF find_entry_in_dir(n) # 0 THEN Refused("exists")
       ELSE Commit(AddEntry(Begin, dir, NewIno, n))

\* unlink and rmdir
Unlink(n) ==
    /\ Begun(<<"remove", n>>)
    /\ IF find_entry_in_dir(n) = 0 THEN Refused("notfound")
       ELSE Commit(buffer_remove_dir_entry(Begin, dir, n))

\* Mutation: the source entry is not removed.
RenameStagedNoRemove(src, dst, t) == AddEntry(t, dir, find_entry_in_dir(src), dst)

\* The transaction of a rename: the new entry, then the source taken out of
\* the directory as the buffer has it now.
RemoveSource(a, src) == IF a.bad # "" THEN a ELSE buffer_remove_dir_entry(a, a.dir, src)

RenameStaged(src, dst, t) == RemoveSource(AddEntry(t, dir, find_entry_in_dir(src), dst), src)

\* The source was there when the rename began.
LostSource(t) == IF t.bad \in {"notfound", "corrupt"} THEN Stop(t, "lost") ELSE t

\* apply_rename_at within this directory
Rename(src, dst, replace) ==
    LET old == find_entry_in_dir(dst)
    IN  /\ Begun(<<"rename", src, dst, replace>>)
        /\ IF find_entry_in_dir(src) = 0 THEN Refused("notfound")
           ELSE IF src = dst THEN Refused("ok")
           ELSE IF old # 0 /\ ~ replace THEN Refused("exists")
           ELSE Commit(LostSource(RenameStaged(src, dst,
                    IF old # 0 THEN buffer_remove_dir_entry(Begin, dir, dst) ELSE Begin)))

\* buffer_update_dotdot: the directory itself was moved under p.
buffer_update_dotdot(p) ==
    LET b == map_inode_logical(dir, disk, 0)
    IN  /\ Begun(<<"move", p>>)
        /\ Commit(IF dir.flavour = "inline" THEN [Begin EXCEPT !.dir.parent = p]
                  ELSE [Begin EXCEPT !.disk[b].recs[2].ino = p])

Init ==
    /\ \E s \in DirStarts : dir = s.dir /\ disk = s.disk /\ used = s.used
    /\ view = ViewOf(dir, disk)
    /\ res = "ok"
    /\ call = <<>>
    /\ ops = 0

Next ==
    \/ \E n \in Names : Create(n)
    \/ \E n \in Names : Unlink(n)
    \/ \E src, dst \in Names, replace \in BOOLEAN : Rename(src, dst, replace)
    \/ \E p \in Parents : buffer_update_dotdot(p)

Spec == Init /\ [][Next]_vars

----------------------------------------------------------------------------
(* Properties *)

Promised == INSTANCE DirMap WITH entries <- view.map, parent <- view.parent

\* The directory, read by the lookup that follows its index, is the map the
\* callers were promised: an add, a removal or a rename that answers "ok" has
\* done what it was asked to the names it was given and to no other, a failed
\* one has done nothing, whatever leaf was split, index dropped, block appended
\* or inline area converted on the way.
IsDirMap == Promised!Spec

LogicalBlocks == { map_inode_logical(dir, disk, l) : l \in 0 .. dir.nblk - 1 }

\* How often n is recorded in the blocks or areas of the directory.
Recorded(n) ==
    LET Hits(recs) == { k \in DOMAIN recs : recs[k].ino # 0 /\ recs[k].name = n }
    IN  IF dir.flavour = "inline" THEN Cardinality(Hits(dir.head)) + Cardinality(Hits(dir.cont))
        ELSE MapThenSumSet(LAMBDA b : Cardinality(Hits(disk[b].recs)), LogicalBlocks)

\* A name is recorded at most once, and while the directory is indexed the
\* index alone leads to it: another implementation, which has no linear scan
\* to fall back on, finds every name too.
IndexFindsAll ==
    \A n \in Names :
        /\ Recorded(n) = IF n \in DOMAIN view.map THEN 1 ELSE 0
        /\ dir.indexed /\ n \in DOMAIN view.map => find_entry_htree(dir, disk, n) = view.map[n]

\* The blocks the directory holds, its tree or pointer blocks included, are
\* marked used, are distinct and are as many as i_blocks says.  The records of
\* every block tile it up to its tail, each long enough for its name, and a
\* block of entries has a tail exactly when the volume has checksums: the next
\* reader neither runs over the end nor misses a record.
BlocksSound ==
    LET tree == IF dir.flavour = "extents" THEN ToSet(walk(disk, dir.root).nodes)
                ELSE IF dir.flavour = "map" THEN {dir.map[NDirect + 1]} \ {0} ELSE {}
        held == IF dir.flavour = "inline" THEN {} ELSE LogicalBlocks
        Tiled(l, blk) ==
            /\ FoldLeft(LAMBDA a, r : a + r.len, 0, blk.recs)
                 = IF blk.tail THEN BlockUnits - 1 ELSE BlockUnits
            /\ \A k \in DOMAIN blk.recs :
                 blk.recs[k].ino # 0 => blk.recs[k].len >= entry_rec_len(blk.recs[k].name)
            /\ dir_block_role(dir, l, blk) = "entries" => blk.tail = dir.csum
    IN  /\ tree \cap held = {}
        /\ tree \cup held \subseteq used
        /\ dir.blocks = Cardinality(tree \cup held)
        /\ dir.flavour # "inline" =>
             /\ Cardinality(held) = dir.nblk
             /\ \A l \in 0 .. dir.nblk - 1 : Tiled(l, disk[map_inode_logical(dir, disk, l)])

\* A rename whose source exists and whose destination may be taken finds the
\* source again when it comes to remove it: what apply_rename_at reads
\* "through the buffer" after the add is the directory the add has left.
RenameFindsSource == res # "lost"
==============================================================================

------------------------------- MODULE Content -------------------------------
(***************************************************************************)
(* The content of one regular file under the operations of src/fs.rs:      *)
(* pwrite, truncate, the three fallocate modes and whole-file replacement, *)
(* for a file held in the inode (inline data), in an extent tree or in an  *)
(* ext2/3 block map.  Each operation stages its changes in a BlockBuffer   *)
(* and hands them to commit_block_buffer, which Journal shows atomic, so a *)
(* commit is one step here; pwrite of a long range and zero_range are      *)
(* several commits with a crash possible between them.                     *)
(*                                                                         *)
(* A block holds BS cells.  The cell at position p of the file is written  *)
(* with the value p + 1, so a cell that turns up at a wrong place, or one  *)
(* left over from an earlier use of the block, is told from a right one;   *)
(* 0 is a cell never written.                                              *)
(***************************************************************************)
EXTENDS Extents, IndirectMap

CONSTANTS
    BS,          \* cells of a block
    InlineCeil,  \* inline_mut::ceiling: no inline file is longer
    InlineRoom,  \* what the inode's attribute area has room for
    LogLength,   \* JournalWriter::max_blocks_per_transaction
    TagsPerDesc, \* tags a descriptor block holds
    MemoryBound, \* PWRITE_CHUNK_MAX_BYTES, in blocks
    Starts,      \* the files and free space a behaviour may begin with
    Writes,      \* << offset, length >> of the pwrites tried
    Sizes,       \* sizes given to truncate
    Ranges,      \* << offset, length >> given to punch_hole and zero_range
    Prealloc,    \* << offset, length >> given to keep_size
    Replaces,    \* flavour -> sizes given to write_file
    MaxOps       \* operations of a behaviour

VARIABLES
    ino,   \* the inode: flavour, size, i_blocks (in blocks) and its 60 bytes
    disk,  \* block -> its content
    used,  \* the block bitmap
    free,  \* the superblock's free-blocks count
    ref,   \* what the file should read as
    todo,  \* commits of the running operation still to come
    txn,   \* blocks of the last pwrite's transaction
    res,   \* how the last operation ended
    met,   \* ghost: whether a keep_size met blocks already preallocated
    ops    \* operations begun

vars == <<ino, disk, used, free, ref, todo, txn, res, met, ops>>

Flavours == {"inline", "extents", "map"}

Zeros == [i \in 1 .. BS |-> 0]

DataBlock(cells) == [kind |-> "data", cells |-> cells]

Inode(f) == [flavour |-> f, size |-> 0, blocks |-> 0, root |-> EmptyRoot,
             map |-> NoMap, bytes |-> <<>>]

----------------------------------------------------------------------------
(* Reading (file_io::read_verified, indirect::map_logical_any) *)

map_inode_logical(i, dk, l) ==
    IF i.flavour = "extents" THEN map_logical(dk, i.root, l) ELSE map_lookup(dk, i.map, l)

\* A block that is not a data block reads as something no write put there.
CellOf(blk, k) == IF blk.kind = "data" THEN blk.cells[k + 1] ELSE -1

BlockCell(dk, b, k) == IF b = 0 THEN 0 ELSE CellOf(dk[b], k)

ReadCell(i, dk, p) ==
    IF i.flavour = "inline" THEN i.bytes[p + 1]
    ELSE BlockCell(dk, map_inode_logical(i, dk, p \div BS), p % BS)

read_all(i, dk) == [k \in 1 .. i.size |-> ReadCell(i, dk, k - 1)]

----------------------------------------------------------------------------
(* The transaction an operation hands over *)

Tx(i, dk, u, fr) == [ino |-> i, disk |-> dk, used |-> u, free |-> fr, len |-> 0, res |-> "ok"]

Refuse(why) == [res |-> why]

Resized(s, n) == [k \in 1 .. n |-> IF k <= Len(s) THEN s[k] ELSE 0]

Written(s, off, len) ==
    [k \in 1 .. (IF Len(s) > off + len THEN Len(s) ELSE off + len) |->
        IF k > off /\ k <= off + len THEN k ELSE IF k <= Len(s) THEN s[k] ELSE 0]

Cleared(s, off, len) ==
    [k \in DOMAIN s |-> IF k > off /\ k <= off + len THEN 0 ELSE s[k]]

\* The blocks of the cells lo .. hi - 1, lo < hi
FirstBlock(off) == off \div BS
EndBlock(off, len) == Ceiling(off + len, BS)

----------------------------------------------------------------------------
(* Inline files *)

\* buffer_store_inline_file: FALSE when the inode has no room.
StoresInline(n) == n <= InlineCeil /\ n <= InlineRoom

StoreInline(bytes) ==
    Tx([ino EXCEPT !.bytes = bytes, !.size = Len(bytes)], disk, used, free)

\* buffer_convert_inline_file: the content, if kept, moves to block 0 of an
\* extent-mapped file; the size is left for the caller.
buffer_convert_inline_file(keep) ==
    LET content == IF keep THEN ino.bytes ELSE <<>>
        b       == FreeRun(used, 1)
        out     == [ino EXCEPT !.flavour = "extents", !.bytes = <<>>, !.root = EmptyRoot]
    IN  IF content = <<>> THEN Tx(out, disk, used, free)
        ELSE IF Len(content) > BS THEN Refuse("corrupt")
        ELSE IF b = 0 THEN Refuse("nospace")
        ELSE Tx([out EXCEPT !.root = plan_insert_extent(EmptyRoot, Extent(0, 1, b, FALSE)).root,
                            !.blocks = @ + 1],
                [disk EXCEPT ![b] = DataBlock(Resized(content, BS))],
                used \cup {b}, free - 1)

truncate_inline_file(n) ==
    IF n <= InlineCeil /\ StoresInline(n) THEN StoreInline(Resized(ino.bytes, n))
    ELSE LET c == buffer_convert_inline_file(TRUE)
         IN  IF c.res # "ok" THEN c ELSE [c EXCEPT !.ino.size = n]

----------------------------------------------------------------------------
(* pwrite *)

\* The transaction of `data` blocks at its longest: the tree blocks of as
\* many one-block extents, the inode, the superblock, a bitmap for each
\* group, the descriptor table, the descriptor blocks and the commit block.
Groups == Ceiling(NBlocks, GroupSize)

HalfNode == IF NodeMax \div 2 > 1 THEN NodeMax \div 2 ELSE 1

RECURSIVE TreeBound(_, _)
TreeBound(level, d) ==
    IF d = 0 THEN 0
    ELSE LET l == Ceiling(level, HalfNode) + 1 IN l + TreeBound(l, d - 1)

LogBlocks(tagged) == tagged + Ceiling(tagged, TagsPerDesc) + 1

\* Mutation: the tree blocks are left out of the count.
fitsDataOnly(data) == LogBlocks(data + 2 + Lesser(data, Groups) + 1) <= LogLength

fits(data) ==
    LET tree == TreeBound(data, MaxDepth)
        metadata == 2 + Lesser(data + tree, Groups) + Lesser(data + tree, 1) + tree
    IN  LogBlocks(data + metadata) <= LogLength

RECURSIVE Bisect(_, _)
Bisect(lo, hi) ==
    IF lo + 1 >= hi THEN lo
    ELSE LET mid == lo + (hi - lo) \div 2
         IN  IF fits(mid) THEN Bisect(mid, hi) ELSE Bisect(lo, mid)

pwrite_chunk_blocks == IF fits(MemoryBound) THEN MemoryBound ELSE Bisect(1, MemoryBound)

\* The longest run that can be had, halving the request each time.
RECURSIVE Halve(_, _)
Halve(u, want) ==
    IF FreeRun(u, want) # 0 THEN want ELSE IF want = 1 THEN 0 ELSE Halve(u, want \div 2)

\* w carries the stage and the root of a file on their way through an
\* operation, and the blocks that hold nothing of the file yet.
Adopt(w, out) == [w EXCEPT !.st = out.st, !.root = out.root]

TakeInsert(w, new, top) ==
    CASE top.res = "ok"   -> [w EXCEPT !.root = top.root]
      [] top.res = "deep" -> Adopt(w, plan_insert_extent_deep(w.st, w.root, new))
      [] OTHER            -> [w EXCEPT !.st.bad = top.res]

InsertAny(w, new) == TakeInsert(w, new, plan_insert_extent(w.root, new))

\* n blocks from lb on, at p.
FillRun(w, lb, n, p) ==
    InsertAny([w EXCEPT !.st.used = @ \cup (p .. p + n - 1), !.got = @ \cup (lb .. lb + n - 1)],
              Extent(lb, n, p, FALSE))

\* The unmapped run at lb, as far as it goes.
HoleEnd(w, lb, last) ==
    CHOOSE e \in lb + 1 .. last :
        /\ e = last \/ map_logical(w.st.disk, w.root, e) # 0
        /\ \A x \in lb + 1 .. e - 1 : map_logical(w.st.disk, w.root, x) = 0

\* Phase 1: every unmapped run of lb .. last - 1 is given blocks.
RECURSIVE FillHoles(_, _, _)
FillHoles(w, lb, last) ==
    IF w.st.bad # "" \/ lb >= last THEN w
    ELSE IF map_logical(w.st.disk, w.root, lb) # 0 THEN FillHoles(w, lb + 1, last)
    ELSE LET n == Halve(w.st.used, HoleEnd(w, lb, last) - lb)
         IN  IF n = 0 THEN [w EXCEPT !.st.bad = "nospace"]
             ELSE FillHoles(FillRun(w, lb, n, FreeRun(w.st.used, n)), lb + n, last)

\* Phase 2: a block new to the file starts as zeros, another keeps the
\* cells around the write.  at gives the block of each logical one.
SpliceAt(w, at, off, len) ==
    LET old(l) == IF l \in w.got \/ w.st.disk[at[l]].kind # "data"
                  THEN Zeros ELSE w.st.disk[at[l]].cells
        new(l) == DataBlock([k \in 1 .. BS |->
                     IF l * BS + k > off /\ l * BS + k <= off + len THEN l * BS + k ELSE old(l)[k]])
    IN  IF \E l \in DOMAIN at : at[l] = 0 THEN [w EXCEPT !.st.bad = "corrupt"]
        ELSE [w EXCEPT !.st.put  = @ \cup { at[l] : l \in DOMAIN at },
                       !.st.disk = [b \in Blocks |->
                            IF \E l \in DOMAIN at : at[l] = b
                            THEN new(CHOOSE l \in DOMAIN at : at[l] = b) ELSE @[b]]]

Splice(w, off, len) ==
    IF w.st.bad # "" THEN w
    ELSE SpliceAt(w, [l \in FirstBlock(off) .. EndBlock(off, len) - 1 |->
                         map_logical(w.st.disk, w.root, l)], off, len)

\* The blocks of the transaction: what is rewritten, the inode and, when
\* blocks are taken, the superblock, their bitmaps and the descriptor table.
TxnBlocks(put, taken) ==
    Cardinality(put) + 1
      + (IF taken = {} THEN 0 ELSE 2 + Cardinality({ GroupOf(b) : b \in taken }))

\* A range with preallocated blocks is initialised before anything is staged.
Prepared(tx, ini) ==
    [st   |-> [Stage(tx.disk, tx.used) EXCEPT !.bad = IF ini.res = "ok" THEN "" ELSE ini.res],
     root |-> ini.root, got |-> ini.converted]

Prepare(tx, first, last) ==
    Prepared(tx,
        IF \E l \in first .. last - 1 :
               LET e == lookup(tx.disk, tx.ino.root, l, MaxDepth + 1) IN e.len > 0 /\ e.un
        THEN plan_initialize_range(tx.ino.root, first, last)
        ELSE [res |-> "ok", root |-> tx.ino.root, converted |-> {}])

PwriteStaged(tx, w, end) ==
    LET taken == Cardinality(w.st.used) - Cardinality(tx.used)
    IN  IF w.st.bad # "" THEN Refuse(w.st.bad)
        ELSE [Tx([tx.ino EXCEPT !.root = w.root, !.blocks = @ + taken,
                                !.size = IF @ > end THEN @ ELSE end],
                 w.st.disk, w.st.used, tx.free - taken)
              EXCEPT !.len = LogBlocks(TxnBlocks(w.st.put, w.st.used \ used))]

ExtentPwrite(tx, off, len) ==
    LET first == FirstBlock(off)
        last  == EndBlock(off, len)
    IN  IF tx.res # "ok" THEN tx
        ELSE PwriteStaged(tx,
                Splice(FillHoles(Prepare(tx, first, last), first, last), off, len),
                off + len)

\* One transaction of apply_pwrite_ino.
pwrite_tx(off, len) ==
    LET n == IF Len(ino.bytes) > off + len THEN Len(ino.bytes) ELSE off + len
    IN  IF ino.flavour = "map" THEN Refuse("inval")
        ELSE IF ino.flavour = "inline" /\ off + len <= InlineCeil /\ StoresInline(n)
        THEN StoreInline(Written(ino.bytes, off, len))
        ELSE ExtentPwrite(IF ino.flavour = "inline" THEN buffer_convert_inline_file(TRUE)
                          ELSE Tx(ino, disk, used, free), off, len)

----------------------------------------------------------------------------
(* truncate *)

apply_truncate_grow(n) ==
    IF ino.flavour = "inline" THEN truncate_inline_file(n)
    ELSE Tx([ino EXCEPT !.size = n], disk, used, free)

\* Mutation: the cut-off cells stay in the last block.
ZeroTailKept(dk, b, from) == dk

\* The retained part of the last block is followed by zeros, so that a
\* later grow shows none of what was cut off.
ZeroTail(dk, b, from) ==
    IF b = 0 \/ dk[b].kind # "data" THEN dk
    ELSE [dk EXCEPT ![b] = DataBlock([k \in 1 .. BS |-> IF k > from THEN 0 ELSE @.cells[k]])]

ShrinkTo(n, plan) ==
    LET tail == n % BS
        k    == Cardinality(plan.freed)
    IN  IF plan.bad THEN Refuse("corrupt")
        ELSE Tx([ino EXCEPT !.root = plan.root, !.size = n, !.blocks = Less(@, k)],
                IF tail = 0 THEN plan.disk
                ELSE ZeroTail(plan.disk, map_inode_logical(ino, disk, n \div BS), tail),
                used \ plan.freed, free + k)

apply_truncate_shrink(n) ==
    CASE ino.flavour = "inline"  -> truncate_inline_file(n)
      [] ino.flavour = "map"     -> Refuse("unsupported")
      [] ino.flavour = "extents" ->
           ShrinkTo(n, plan_truncate_shrink_deep(disk, ino.root, Ceiling(n, BS)))

apply_truncate_ino(n) == IF n >= ino.size THEN apply_truncate_grow(n) ELSE apply_truncate_shrink(n)
----------------------------------------------------------------------------
(* fallocate *)

\* The insertion refuses an extent that overlaps another of its leaf, with
\* CorruptExtentTree.
Preallocated(tx, w) ==
    LET taken == Cardinality(w.st.used) - Cardinality(tx.used)
    IN  IF w.st.bad # "" THEN Refuse(w.st.bad)
        ELSE Tx([tx.ino EXCEPT !.root = w.root, !.blocks = @ + taken],
                w.st.disk, w.st.used, tx.free - taken)

\* Any block of the range that reads from disk refuses the call; a
\* preallocated one does not, and is left to the insertion.
apply_fallocate_keep_size(tx, off, len) ==
    LET first == FirstBlock(off)
        last  == EndBlock(off, len)
        n     == last - first
        p     == FreeRun(tx.used, n)
        root  == tx.ino.root
    IN  IF tx.ino.flavour # "extents" THEN Refuse("inval")
        ELSE IF \E l \in first .. last - 1 : map_logical(tx.disk, root, l) # 0 THEN Refuse("inval")
        ELSE IF p = 0 THEN Refuse("nospace")
        ELSE IF n > InitMaxLen - 1 THEN Refuse("inval")
        ELSE Preallocated(tx,
                 InsertAny([st |-> Stage(tx.disk, tx.used \cup (p .. p + n - 1)),
                            root |-> root, got |-> {}],
                           Extent(first, n, p, TRUE)))

\* What is left of an extent around the blocks first .. last - 1
Survivors(e, first, last) ==
    LET er == e.lb + e.len
    IN  IF er <= first \/ e.lb >= last THEN <<e>>
        ELSE (IF e.lb < first THEN <<Extent(e.lb, first - e.lb, e.pb, e.un)>> ELSE <<>>)
             \o (IF er > last THEN <<Extent(last, er - last, e.pb + (last - e.lb), e.un)>> ELSE <<>>)

Punched(e, first, last) ==
    { e.pb + (l - e.lb) : l \in (e.lb .. e.lb + e.len - 1) \cap (first .. last - 1) }

\* A block the range covers in part keeps its place and loses the cells
\* inside the range.
ZeroEdge(dk, lb, off, end) ==
    LET lo == IF off > lb * BS THEN off ELSE lb * BS
        hi == IF end < (lb + 1) * BS THEN end ELSE (lb + 1) * BS
        b  == map_logical(disk, ino.root, lb)
    IN  IF lo >= hi \/ hi - lo = BS \/ b = 0 \/ dk[b].kind # "data" THEN dk
        ELSE [dk EXCEPT ![b] = DataBlock([k \in 1 .. BS |->
                 IF lb * BS + k > lo /\ lb * BS + k <= hi THEN 0 ELSE @.cells[k]])]

Repacked(pack, gone) ==
    LET freed == gone + Len(pack.left)
        fresh == Len(pack.st.fresh)
    IN  IF pack.st.bad # "" THEN Refuse(pack.st.bad)
        ELSE Tx([ino EXCEPT !.root = pack.root, !.blocks = Less(@, freed) + fresh],
                pack.st.disk, pack.st.used \ ToSet(pack.left), free - fresh + freed)

PunchTree(edged, first, last, tree) ==
    LET data == UNION { Punched(tree.exts[i], first, last) : i \in DOMAIN tree.exts }
    IN  Repacked(plan_repack_tree(Stage(edged, used \ data),
                     FlattenSeq([i \in DOMAIN tree.exts |-> Survivors(tree.exts[i], first, last)]),
                     tree.nodes),
                 Cardinality(data))

apply_fallocate_punch_hole(off, len) ==
    LET end   == off + len
        first == Ceiling(off, BS)
        last  == end \div BS
        head  == ZeroEdge(disk, off \div BS, off, end)
        edged == IF off \div BS = last THEN head ELSE ZeroEdge(head, last, off, end)
    IN  IF ino.flavour # "extents" THEN Refuse("inval")
        ELSE IF first >= last THEN Tx(ino, edged, used, free)
        ELSE PunchTree(edged, first, last, collect_all_with_nodes(disk, ino.root))

----------------------------------------------------------------------------
(* write_file: the whole content at once *)

\* The last block of a payload of n cells is filled up with zeros.
PayloadOf(i, n) == DataBlock([k \in 1 .. BS |-> IF i * BS + k <= n THEN i * BS + k ELSE 0])

PutRun(dk, p, k, n) ==
    [b \in Blocks |-> IF b \in p .. p + k - 1 THEN PayloadOf(b - p, n) ELSE dk[b]]

\* The old blocks are freed and a new run is planned from the bitmaps as
\* they are on disk, where the old blocks are still in use.
ReplaceExtents(tx, n) ==
    LET tree  == collect_all_with_nodes(tx.disk, tx.ino.root)
        old   == UNION { ExtentBlocks(tree.exts[i]) : i \in DOMAIN tree.exts } \cup ToSet(tree.nodes)
        k     == Ceiling(n, BS)
        p     == FreeRun(used, k)
        freed == Cardinality(old)
    IN  IF n = 0
        THEN Tx([tx.ino EXCEPT !.root = EmptyRoot, !.size = 0, !.blocks = 0],
                tx.disk, tx.used \ old, tx.free + freed)
        ELSE IF p = 0 THEN Refuse("nospace")
        ELSE Tx([tx.ino EXCEPT !.root = plan_insert_extent(EmptyRoot, Extent(0, k, p, FALSE)).root,
                               !.size = n, !.blocks = k],
                PutRun(tx.disk, p, k, n), (tx.used \ old) \cup (p .. p + k - 1),
                tx.free + freed - k)

\* The pointer blocks stand at the head of the run, the data behind them.
PutPointers(data, ws) ==
    [b \in Blocks |->
        IF \E i \in DOMAIN ws : ws[i].at = b
        THEN [kind |-> "ptrs", ptrs |-> ws[CHOOSE i \in DOMAIN ws : ws[i].at = b].ptrs]
        ELSE data[b]]

MapTx(n, k, ind, p, old, plan) ==
    Tx([ino EXCEPT !.map = plan.ib, !.size = n, !.blocks = k + ind],
       PutPointers(PutRun(disk, p + ind, k, n), plan.p.writes),
       (used \ old) \cup (p .. p + k + ind - 1), free + Cardinality(old) - k - ind)

MapRun(n, k, ind, p, old) ==
    IF n = 0
    THEN Tx([ino EXCEPT !.map = NoMap, !.size = 0, !.blocks = 0],
            disk, used \ old, free + Cardinality(old))
    ELSE IF p = 0 THEN Refuse("nospace")
    ELSE MapTx(n, k, ind, p, old, plan_contiguous(k, p + ind, p))

ReplaceMap(n) ==
    LET gone == collect_for_free(disk, ino.map, Ceiling(ino.size, BS))
        k    == Ceiling(n, BS)
        ind  == count_indirect_blocks(k)
    IN  MapRun(n, k, ind, FreeRun(used, k + ind), gone.data \cup gone.ind)

apply_replace_file_content(n) ==
    LET c == buffer_convert_inline_file(FALSE)
    IN  CASE ino.flavour = "map"     -> ReplaceMap(n)
          [] ino.flavour = "extents" -> ReplaceExtents(Tx(ino, disk, used, free), n)
          [] ino.flavour = "inline"  ->
               IF StoresInline(n) THEN StoreInline([k \in 1 .. n |-> k])
               ELSE IF c.res # "ok" THEN c ELSE ReplaceExtents(c, n)

----------------------------------------------------------------------------
(* Actions *)

\* commit_block_buffer: all of it, or nothing when the operation refused.
Commit(tx, content) ==
    /\ res' = tx.res
    /\ IF tx.res = "ok"
       THEN /\ ino' = tx.ino /\ disk' = tx.disk /\ used' = tx.used /\ free' = tx.free
            /\ ref' = content /\ txn' = tx.len
       ELSE UNCHANGED <<ino, disk, used, free, ref, txn>>

Begin == todo = <<>> /\ ops < MaxOps /\ ops' = ops + 1

\* The documented refusal of keep_size did not come: the call was refused late
\* ("refused", until the next call), or went through ("mapped", from then on).
Met(here) ==
    met' = IF met = "mapped" \/ (here /\ res' = "ok") THEN "mapped"
           ELSE IF here THEN "refused" ELSE "no"

\* A block of the range is preallocated and not written.
MeetsPreallocated(off, len) ==
    /\ ino.flavour = "extents"
    /\ \E l \in FirstBlock(off) .. EndBlock(off, len) - 1 :
         LET e == lookup(disk, ino.root, l, MaxDepth + 1) IN e.len > 0 /\ e.un

\* apply_pwrite: a range longer than a chunk is cut up, each piece a
\* transaction of its own.
Pwrite == \E w \in Writes :
    LET max == pwrite_chunk_blocks * BS
        n   == Ceiling(w[2], max)
    IN  /\ Begin
        /\ todo' = [i \in 1 .. n |->
               [op |-> "pwrite", off |-> w[1] + (i - 1) * max,
                len |-> Lesser(max, w[2] - (i - 1) * max)]]
        /\ res' = "running"
        /\ Met(FALSE)
        /\ UNCHANGED <<ino, disk, used, free, ref, txn>>

\* An error ends the whole call; the pieces before it stay.
ChunkCommit(c, tx) ==
    /\ Commit(tx, Written(ref, c.off, c.len))
    /\ Met(FALSE)
    /\ todo' = IF tx.res = "ok" THEN Tail(todo) ELSE <<>>

PwriteChunk ==
    /\ todo # <<>> /\ Head(todo).op = "pwrite"
    /\ ChunkCommit(Head(todo), pwrite_tx(Head(todo).off, Head(todo).len))
    /\ UNCHANGED ops

Truncate == \E n \in Sizes :
    /\ Begin
    /\ Commit(apply_truncate_ino(n), Resized(ref, n))
    /\ Met(FALSE)
    /\ UNCHANGED todo

KeepSize == \E r \in Prealloc :
    /\ Begin
    /\ Commit(apply_fallocate_keep_size(Tx(ino, disk, used, free), r[1], r[2]), ref)
    /\ Met(MeetsPreallocated(r[1], r[2]))
    /\ UNCHANGED todo

PunchHole == \E r \in Ranges :
    /\ Begin
    /\ Commit(apply_fallocate_punch_hole(r[1], r[2]), Cleared(ref, r[1], r[2]))
    /\ Met(FALSE)
    /\ UNCHANGED todo

\* apply_fallocate_zero_range: a punch, committed, and then a keep_size of
\* the whole blocks.
ZeroRangePunch(r, tx) ==
    LET first == Ceiling(r[1], BS) * BS
        last  == ((r[1] + r[2]) \div BS) * BS
    IN  /\ Commit(tx, Cleared(ref, r[1], r[2]))
        /\ Met(FALSE)
        /\ todo' = IF tx.res = "ok" /\ first < last
                   THEN <<[op |-> "keep", off |-> first, len |-> last - first]>> ELSE <<>>

ZeroRange == \E r \in Ranges :
    /\ Begin
    /\ ZeroRangePunch(r, apply_fallocate_punch_hole(r[1], r[2]))

ZeroRangeKeep ==
    /\ todo # <<>> /\ Head(todo).op = "keep"
    /\ Commit(apply_fallocate_keep_size(Tx(ino, disk, used, free), Head(todo).off, Head(todo).len), ref)
    /\ Met(MeetsPreallocated(Head(todo).off, Head(todo).len))
    /\ todo' = Tail(todo)
    /\ UNCHANGED ops

Replace == \E n \in Replaces[ino.flavour] :
    /\ Begin
    /\ Commit(apply_replace_file_content(n), [k \in 1 .. n |-> k])
    /\ Met(FALSE)
    /\ UNCHANGED todo

\* The machine stops between two commits of an operation: what was
\* committed is there, the rest never happens.
Crash ==
    /\ todo # <<>>
    /\ todo' = <<>> /\ res' = "crash"
    /\ UNCHANGED <<ino, disk, used, free, ref, txn, met, ops>>

\* An empty file, with the ranges of a start preallocated in it already.
Begun(s) ==
    FoldLeft(LAMBDA tx, r : apply_fallocate_keep_size(tx, r[1], r[2]),
             Tx(Inode(s.flavour), [b \in Blocks |-> DataBlock([k \in 1 .. BS |-> -1])],
                s.used, NBlocks - Cardinality(s.used)),
             s.kept)

Init ==
    \E s \in Starts :
        LET tx == Begun(s)
        IN  /\ ino = tx.ino /\ disk = tx.disk /\ used = tx.used /\ free = tx.free
            /\ ref = <<>> /\ todo = <<>> /\ txn = 0 /\ res = "" /\ met = "no" /\ ops = 0

Next == Pwrite \/ PwriteChunk \/ Truncate \/ KeepSize \/ PunchHole \/ ZeroRange
        \/ ZeroRangeKeep \/ Replace \/ Crash

Spec == Init /\ [][Next]_vars

----------------------------------------------------------------------------
(* Properties *)

\* What the file owns: its data blocks and its tree or pointer blocks.
Tree == collect_all_with_nodes(disk, ino.root)

MapTree == collect_for_free(disk, ino.map, Ceiling(ino.size, BS))

Owned ==
    CASE ino.flavour = "inline"  -> {}
      [] ino.flavour = "map"     -> MapTree.data \cup MapTree.ind
      [] ino.flavour = "extents" ->
           UNION { ExtentBlocks(Tree.exts[i]) : i \in DOMAIN Tree.exts } \cup ToSet(Tree.nodes)

\* The same, counted place by place.
Places ==
    CASE ino.flavour = "inline"  -> 0
      [] ino.flavour = "map"     ->
           Cardinality({ l \in 0 .. Ceiling(ino.size, BS) - 1 : map_lookup(disk, ino.map, l) # 0 })
             + Cardinality(MapTree.ind)
      [] ino.flavour = "extents" ->
           FoldLeft(LAMBDA n, e : n + e.len, Len(Tree.nodes), Tree.exts)

\* Reading the file gives what was written to it, byte for byte: nothing
\* misplaced by a split, merge or repacking of the tree, nothing left over
\* from an earlier use of a block, and zeros in every hole, preallocated
\* range, punched range and grown tail.  At every commit, so also after a
\* crash inside a long pwrite or between the two halves of zero_range.
ReadsBack == read_all(ino, disk) = ref

\* Every block is the file's exactly once or free: the operations take and
\* return blocks in step with the tree, the bitmap, i_blocks and the
\* superblock's count, including the tree blocks a split allocates and a
\* truncate, punch or replacement gives back.  And no operation finds the
\* tree another left behind to be corrupt: keys in order and equal to the
\* first block of the subtree below (what truncate insists on), extents in
\* order and apart.  One call is outside it and is named: a keep_size whose
\* range meets blocks preallocated before.  "Partially-overlapping ranges
\* return Error::InvalidArgument", and this one does not: the leaf's own check
\* reports a corrupt tree, which changes nothing, and where the range lies
\* across two leaves it goes through and the blocks are mapped twice.
BlocksAccounted ==
    met # "mapped" =>
        /\ Cardinality(Owned) = Places
        /\ \E s \in Starts : used = s.used \cup Owned /\ s.used \cap Owned = {}
        /\ ino.blocks = Places
        /\ free = NBlocks - Cardinality(used)
        /\ res \in {"corrupt", "toodeep"} => met = "refused"
        /\ ino.flavour = "extents" => ~ plan_truncate_shrink_deep(disk, ino.root, 0).bad

\* What the comment of apply_fallocate_keep_size says of such a call.
OverlapRefused == met = "no"

\* The transaction of a pwrite chunk is never longer than the journal that
\* has to take it: pwrite_chunk_blocks counts the tree blocks, bitmaps and
\* descriptors a chunk may need.
ChunkFits == fits(1) => txn <= LogLength
==============================================================================

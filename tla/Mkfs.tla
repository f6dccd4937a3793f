-------------------------------- MODULE Mkfs --------------------------------
(***************************************************************************)
(* Formatting a volume (src/mkfs.rs), what a mount then asks of it         *)
(* (Superblock::parse, bgd::read_all) and what the structural verifier     *)
(* (src/verify.rs) finds.                                                  *)
(*                                                                         *)
(* Sizes are scaled down: MinBlockSize stands for 1024 bytes, RecMod for   *)
(* 2^16, and so on; the arithmetic between them is the code's.  A checksum *)
(* is modelled by the value it was computed over, so that one taken too    *)
(* early, or over the wrong bits, differs from what it guards.             *)
(***************************************************************************)
EXTENDS IndirectMap, FiniteSets, FiniteSetsExt

CONSTANTS
    MinBlockSize, MaxBlockSize,  \* MIN_BLOCK_SIZE, MAX_BLOCK_SIZE
    ByteBits,                    \* bitmap bits per unit of block size (8)
    MinBlocks,                   \* 64: the fewest blocks a volume may have
    MaxGroup,                    \* MAX_BLOCKS_PER_GROUP (2^16 - 8)
    InodesPerGroup,              \* 8192
    InodeLimit,                  \* the largest inode number (2^32 - 1)
    JournalBlocks,               \* the length of an ext3 journal (1024)
    LostFoundBytes,              \* 16 KiB
    RecMod, CountMod,            \* 2^16: the width of rec_len, and of the counters
                                 \* of a 32-byte descriptor
    Requests,                    \* format calls: [flavor, bs, size, dev, rw]
    Labels                       \* volume labels of at most 16 bytes, no NUL;
                                 \* mkfs writes ""

ROOT_INO == 2
JOURNAL_INO == 3      \* EXT3_JOURNAL_INODE: reserved, below s_first_ino
LOST_FOUND_INO == 4   \* s_first_ino

CeilDiv(n, d) == (n + d - 1) \div d
UpTo(s, n) == Lesser(s, n)

----------------------------------------------------------------------------
(* FsFlavor *)

Ext4(fl) == fl = "ext4"

\* FsFlavor::geometry
geometry(fl) ==
    [inode_size |-> IF Ext4(fl) THEN 2 ELSE 1, desc_size |-> IF Ext4(fl) THEN 2 ELSE 1,
     csum |-> Ext4(fl), tail |-> IF Ext4(fl) THEN 1 ELSE 0]

is_valid_block_size(bs) ==
    bs \in MinBlockSize .. MaxBlockSize /\ \E k \in 0 .. 6 : bs = MinBlockSize * 2 ^ k

blocks_per_group_for(bs) == Lesser(ByteBits * bs, MaxGroup)

lost_found_blocks(bs) ==
    LET n == LostFoundBytes \div bs IN IF n < 2 THEN 2 ELSE Lesser(n, NDirect)

\* superblock::classic_sparse_super
IsPowerOf(g, base) == \E k \in 1 .. 4 : g = base ^ k
classic_sparse_super(g) == g <= 1 \/ \E base \in {3, 5, 7} : IsPowerOf(g, base)

group_count(blocks, first, bpg) == CeilDiv(IF blocks > first THEN blocks - first ELSE 0, bpg)

----------------------------------------------------------------------------
(* What the blocks of the device hold *)

Old == [kind |-> "old"]
Zero == [kind |-> "zero"]

\* set_bitmap_range over a fresh bitmap block: both ranges end at the bits
\* the block has.
BitmapOf(bs, used, len) ==
    [kind |-> "bits",
     bits |-> (0 .. UpTo(used, ByteBits * bs) - 1) \cup (len .. ByteBits * bs - 1)]

\* The bits a bitmap's checksum covers.
Covered(bitmap, n) == bitmap.bits \cap 0 .. n - 1

\* An inode of mkfs: the directories' map is one extent, or direct pointers.
DirInode(fl, first, n, links) ==
    [mode |-> "dir", links |-> links, size |-> n, extents |-> Ext4(fl),
     runs |-> IF Ext4(fl) THEN <<[at |-> first, len |-> n]>> ELSE <<>>,
     map |-> [i \in 1 .. NDirect + 3 |-> IF ~Ext4(fl) /\ i <= n THEN first + i - 1 ELSE 0]]

write_journal_inode(map) ==
    [mode |-> "file", links |-> 1, size |-> JournalBlocks, extents |-> FALSE, runs |-> <<>>,
     map |-> map]

\* write_dir_inodes: the root and /lost+found
write_dir_inodes(fl, bs, root, lf) ==
    [i \in {ROOT_INO, LOST_FOUND_INO} |->
        IF i = ROOT_INO THEN DirInode(fl, root, 1, 3)
        ELSE DirInode(fl, lf, lost_found_blocks(bs), 2)]

\* The blocks of a group's inode table, given the inodes in use in it.
InodeTable(bs, isize, inodes) ==
    LET per == bs \div isize
    IN  [b \in 1 .. CeilDiv(InodesPerGroup * isize, bs) |->
            [kind |-> "inodes",
             at |-> [s \in {i \in DOMAIN inodes : (i - 1) \div per = b - 1} |-> inodes[s]]]]

----------------------------------------------------------------------------
(* Directory blocks *)

\* empty_dir_block: one tombstone over the usable bytes, its length cut to
\* the 16 bits of rec_len.
empty_dir_block(bs, tail) ==
    [kind |-> "dir", bad |-> FALSE, recs |-> <<[ino |-> 0, name |-> "", len |-> (bs - tail) % RecMod]>>]

\* dir::add_entry_to_block on a block mkfs is filling: a tombstone is taken,
\* otherwise the last record is split.  Every name here needs one unit.
add_entry(blk, ino, name) ==
    LET last == blk.recs[Len(blk.recs)]
        rest == SubSeq(blk.recs, 1, Len(blk.recs) - 1)
    IN  IF blk.bad \/ last.len < 1 THEN [blk EXCEPT !.bad = TRUE]
        ELSE IF last.ino = 0
             THEN [blk EXCEPT !.recs = Append(rest, [ino |-> ino, name |-> name, len |-> last.len])]
        ELSE IF last.len < 2 THEN [blk EXCEPT !.bad = TRUE]
        ELSE [blk EXCEPT !.recs = rest \o <<[last EXCEPT !.len = 1],
                                           [ino |-> ino, name |-> name, len |-> last.len - 1]>>]

build_root_dir(bs, tail) ==
    add_entry(add_entry(add_entry(empty_dir_block(bs, tail), ROOT_INO, "."), ROOT_INO, ".."),
              LOST_FOUND_INO, "lost+found")

build_lost_found_dir(bs, tail) ==
    [b \in 1 .. lost_found_blocks(bs) |->
        IF b = 1
        THEN add_entry(add_entry(empty_dir_block(bs, tail), LOST_FOUND_INO, "."), ROOT_INO, "..")
        ELSE empty_dir_block(bs, tail)]

----------------------------------------------------------------------------
(* The superblock and the group descriptors *)

build_superblock(fl, bs, inodes, blocks, free, freeInodes, first, journal) ==
    [inodes_count |-> inodes, blocks_count |-> blocks, free_blocks |-> free,
     free_inodes |-> freeInodes, first_data_block |-> first, block_size |-> bs,
     blocks_per_group |-> blocks_per_group_for(bs), inodes_per_group |-> InodesPerGroup,
     inode_size |-> geometry(fl).inode_size,
     desc_size |-> IF Ext4(fl) THEN geometry(fl).desc_size ELSE 0,
     bit64 |-> Ext4(fl), csum |-> Ext4(fl), sparse |-> Ext4(fl), has_journal |-> fl = "ext3",
     journal_inum |-> journal, first_inode |-> LOST_FOUND_INO, clean |-> TRUE,
     recover |-> FALSE, label |-> "", block_group_nr |-> 0]

\* s_checksum: what it was taken over, nothing on a volume without it.
Stamped(sb) == [kind |-> "sb", sb |-> sb, sum |-> IF sb.csum THEN <<sb>> ELSE <<>>]

\* write_bgd_group: a 32-byte descriptor keeps 16 bits of each counter.
write_bgd_group(fl, bb, ib, it, free, freeInodes, dirs) ==
    LET low(n) == IF Ext4(fl) THEN n ELSE n % CountMod
    IN  [block_bitmap |-> bb, inode_bitmap |-> ib, inode_table |-> it, free_blocks |-> low(free),
         free_inodes |-> low(freeInodes), used_dirs |-> dirs, bb_sum |-> {}, ib_sum |-> {}]

\* A descriptor as it is stored: its fields and the checksum over them.
Unsummed(d) == [d |-> d, sum |-> <<>>]

finalize_bgd_checksum(g, d, bbSum, ibSum) ==
    LET full == [d EXCEPT !.bb_sum = bbSum, !.ib_sum = ibSum]
    IN  [d |-> full, sum |-> <<g, full>>]

----------------------------------------------------------------------------
(* The formatter's calls on the device, in order *)

Put(at, what) == <<[op |-> "write", at |-> at, what |-> what]>>
Flush == <<[op |-> "flush"]>>
RefuseWith(why) == <<[op |-> "refuse", why |-> why]>>

\* Where the blocks of a one-group volume go.
Layout(r) ==
    LET fdb     == IF r.bs = MinBlockSize THEN 1 ELSE 0
        table   == CeilDiv(InodesPerGroup * geometry(r.flavor).inode_size, r.bs)
        root    == fdb + 4 + table
        lfEnd   == root + 1 + lost_found_blocks(r.bs)
        journal == IF r.flavor = "ext3" THEN JournalBlocks ELSE 0
        tree    == IF r.flavor = "ext3" THEN count_indirect_blocks(JournalBlocks) ELSE 0
    IN  [fdb |-> fdb, bgt |-> fdb + 1, bb |-> fdb + 2, ib |-> fdb + 3, it |-> fdb + 4,
         root |-> root, lf |-> root + 1, jdata |-> lfEnd, jtree |-> lfEnd + journal,
         end |-> lfEnd + journal + tree]

\* Mutation: the bitmap indexed by absolute block, as if bit 0 were block 0.
UsedAbsolute(at) == at.end

\* The bits in use: bit i is block first_data_block + i.
UsedBits(at) == at.end - at.fdb

\* The writes of a one-group volume of `blocks` blocks.
SingleGroupWrites(r, blocks) ==
    LET geo     == geometry(r.flavor)
        at      == Layout(r)
        free    == blocks - at.end
        journal == plan_contiguous(JournalBlocks, at.jdata, at.jtree)
        sb      == build_superblock(r.flavor, r.bs, InodesPerGroup, blocks, free,
                                    InodesPerGroup - LOST_FOUND_INO, at.fdb,
                                    IF r.flavor = "ext3" THEN JOURNAL_INO ELSE 0)
        bb      == BitmapOf(r.bs, UsedBits(at), blocks - at.fdb)
        ib      == BitmapOf(r.bs, LOST_FOUND_INO, InodesPerGroup)
        bgd     == write_bgd_group(r.flavor, at.bb, at.ib, at.it, free,
                                   InodesPerGroup - LOST_FOUND_INO, 2)
        summed  == IF geo.csum
                   THEN finalize_bgd_checksum(0, bgd, Covered(bb, blocks_per_group_for(r.bs)),
                                              Covered(ib, InodesPerGroup))
                   ELSE Unsummed(bgd)
        dirs    == write_dir_inodes(r.flavor, r.bs, at.root, at.lf)
        inodes  == IF r.flavor = "ext3"
                   THEN [i \in DOMAIN dirs \cup {JOURNAL_INO} |->
                            IF i = JOURNAL_INO THEN write_journal_inode(journal.ib) ELSE dirs[i]]
                   ELSE dirs
        root    == build_root_dir(r.bs, geo.tail)
        lf      == build_lost_found_dir(r.bs, geo.tail)
        header  == IF at.fdb = 1 THEN <<Zero, Zero>> ELSE <<Zero>>
    IN  IF root.bad \/ lf[1].bad THEN RefuseWith("corrupt")
        ELSE Put(0, header) \o Put(at.fdb, <<Stamped(sb)>>) \o Flush
             \o Put(at.bgt, <<[kind |-> "gdt", descs |-> <<summed>>]>>)
             \o Put(at.bb, <<bb>>) \o Put(at.ib, <<ib>>)
             \o Put(at.it, InodeTable(r.bs, geo.inode_size, inodes))
             \o Put(at.root, <<root>>) \o Put(at.lf, lf)
             \o (IF r.flavor # "ext3" THEN <<>>
                 ELSE Put(at.jdata, <<[kind |-> "jsb", max_len |-> JournalBlocks, start |-> 0]>>)
                      \o FlattenSeq([i \in 1 .. Len(journal.p.writes) |->
                            Put(journal.p.writes[i].at,
                                <<[kind |-> "ptrs", ptrs |-> journal.p.writes[i].ptrs]>>)]))
             \o Flush

\* Mutation: the copies' room forgotten, as if only group 0 had any.
MetaOfFirst(g, gdtBlocks) == IF g = 0 THEN 1 + gdtBlocks ELSE 0

\* The superblock copy and descriptor table at the head of group g.
GroupMeta(g, gdtBlocks) == IF classic_sparse_super(g) THEN 1 + gdtBlocks ELSE 0

\* Group g of an ext4 volume of several groups.
GroupOf(r, g, gdtBlocks) ==
    LET bpg    == blocks_per_group_for(r.bs)
        start  == g * bpg
        glen   == Lesser(bpg, r.size \div r.bs - start)
        bb     == start + GroupMeta(g, gdtBlocks)
        data   == bb + 2 + CeilDiv(InodesPerGroup * geometry("ext4").inode_size, r.bs)
        used   == data - start + (IF g = 0 THEN 1 + lost_found_blocks(r.bs) ELSE 0)
        bbm    == BitmapOf(r.bs, used, glen)
        ibm    == BitmapOf(r.bs, IF g = 0 THEN LOST_FOUND_INO ELSE 0, InodesPerGroup)
        desc   == write_bgd_group("ext4", bb, bb + 1, bb + 2, glen - used,
                                  InodesPerGroup - (IF g = 0 THEN LOST_FOUND_INO ELSE 0),
                                  IF g = 0 THEN 2 ELSE 0)
        inodes == IF g = 0 THEN write_dir_inodes("ext4", r.bs, data, data + 1) ELSE <<>>
    IN  [fits |-> used <= glen, free |-> glen - used, data |-> data,
         desc |-> finalize_bgd_checksum(g, desc, Covered(bbm, bpg), Covered(ibm, InodesPerGroup)),
         writes |-> Put(bb, <<bbm>>) \o Put(bb + 1, <<ibm>>)
                    \o Put(bb + 2, InodeTable(r.bs, geometry("ext4").inode_size, inodes))]

\* The descriptor table as blocks.
TableBlocks(bs, descs, gdtBlocks) ==
    LET per == bs \div geometry("ext4").desc_size
    IN  [b \in 1 .. gdtBlocks |->
            [kind |-> "gdt", descs |-> SubSeq(descs, (b - 1) * per + 1, Lesser(b * per, Len(descs)))]]

\* format_block_groups: each group is written as it is laid out, so a last
\* group too short for its own metadata is refused after the others.
format_block_groups(r) ==
    LET bpg       == blocks_per_group_for(r.bs)
        blocks    == r.size \div r.bs
        n         == CeilDiv(blocks, bpg)
        gdtBlocks == CeilDiv(n * geometry("ext4").desc_size, r.bs)
        table     == CeilDiv(InodesPerGroup * geometry("ext4").inode_size, r.bs)
        group     == [g \in 1 .. n |-> GroupOf(r, g - 1, gdtBlocks)]
        short     == {g \in 1 .. n : ~group[g].fits}
        written(k) == FlattenSeq([g \in 1 .. k |-> group[g].writes])
        sb        == build_superblock("ext4", r.bs, n * InodesPerGroup, blocks,
                                      FoldFunction(LAMBDA g, s : g.free + s, 0, group),
                                      n * InodesPerGroup - LOST_FOUND_INO, 0, 0)
        gdt       == TableBlocks(r.bs, [g \in 1 .. n |-> group[g].desc], gdtBlocks)
        copies(g) == IF ~classic_sparse_super(g) THEN <<>>
                     ELSE Put(g * bpg, <<Stamped([sb EXCEPT !.block_group_nr = g])>>)
                          \o Put(g * bpg + 1, gdt)
        root      == build_root_dir(r.bs, geometry("ext4").tail)
        lf        == build_lost_found_dir(r.bs, geometry("ext4").tail)
    IN  IF bpg <= 4 + gdtBlocks + table THEN RefuseWith("inval")
        ELSE IF n * InodesPerGroup > InodeLimit THEN RefuseWith("inval")
        ELSE IF short # {} THEN written(Min(short) - 1) \o RefuseWith("inval")
        ELSE IF root.bad \/ lf[1].bad THEN written(n) \o RefuseWith("corrupt")
        ELSE written(n) \o Put(0, <<Zero>>) \o Put(0, <<Stamped(sb)>>) \o Put(1, gdt)
             \o Put(group[1].data, <<root>>) \o Put(group[1].data + 1, lf)
             \o FlattenSeq([g \in 1 .. n - 1 |-> copies(g)])
             \o Flush

\* format_filesystem_with_flavor
format_filesystem_with_flavor(r) ==
    LET blocks == r.size \div r.bs
    IN  IF ~is_valid_block_size(r.bs) THEN RefuseWith("inval")
        ELSE IF blocks < MinBlocks THEN RefuseWith("inval")
        ELSE IF ~r.rw THEN RefuseWith("rofs")
        ELSE IF Ext4(r.flavor) /\ r.bs >= 2 * MinBlockSize THEN format_block_groups(r)
        ELSE IF blocks > blocks_per_group_for(r.bs) THEN RefuseWith("inval")
        ELSE IF Layout(r).end > blocks THEN RefuseWith("inval")
        ELSE SingleGroupWrites(r, blocks)

----------------------------------------------------------------------------
(* Mounting: Superblock::parse, bgd::read_all *)

SbBlock(bs) == MinBlockSize \div bs
DescSize(sb) == IF sb.bit64 THEN sb.desc_size ELSE geometry("ext2").desc_size
TableLen(sb) == CeilDiv(sb.inodes_per_group * sb.inode_size, sb.block_size)
Groups(sb) == 0 .. group_count(sb.blocks_count, sb.first_data_block, sb.blocks_per_group) - 1
GroupStart(sb, g) == sb.first_data_block + g * sb.blocks_per_group
GroupEnd(sb, g) == Lesser(GroupStart(sb, g) + sb.blocks_per_group, sb.blocks_count)

\* The checks of parse, and the checksum mount_inner verifies.
parse(c) ==
    /\ c.kind = "sb"
    /\ c.sb.blocks_per_group # 0 /\ c.sb.inodes_per_group # 0 /\ c.sb.inode_size # 0
    /\ c.sb.block_size <= MaxBlockSize
    /\ c.sb.blocks_per_group <= ByteBits * c.sb.block_size
    /\ c.sb.bit64 => c.sb.desc_size >= geometry("ext4").desc_size
    /\ c.sb.blocks_count # 0 /\ c.sb.first_data_block < c.sb.blocks_count
    /\ c.sb.first_data_block = 0 => c.sb.block_size # MinBlockSize
    /\ c.sb.csum => c.sum = <<c.sb>>

group_has_super(sb, g) == g = 0 \/ ~sb.sparse \/ classic_sparse_super(g)

\* descriptor_location: the table follows the superblock's block.
descriptor_location(sb, g) ==
    LET per == sb.block_size \div DescSize(sb)
    IN  <<SbBlock(sb.block_size) + 1 + g \div per, (g % per) + 1>>

\* group_head_metadata_blocks
group_head_metadata_blocks(sb, g) ==
    IF group_has_super(sb, g)
    THEN 1 + CeilDiv(Cardinality(Groups(sb)), sb.block_size \div DescSize(sb))
    ELSE 0

\* Descriptor g as read from the table.
DescAt(d, sb, g) == d[descriptor_location(sb, g)[1]].descs[descriptor_location(sb, g)[2]]

\* read_all's bound on the table, for descriptor g.
TableReadable(d, sb, g) ==
    LET at == descriptor_location(sb, g)
    IN  /\ at[1] \in DOMAIN d
        /\ d[at[1]].kind = "gdt"
        /\ at[2] <= Len(d[at[1]].descs)

\* check_pointers_within: none into group 0's head, and, without flex_bg,
\* each within its own group.
check_pointers_within(sb, g, bgd) ==
    LET head == SbBlock(sb.block_size) + group_head_metadata_blocks(sb, 0)
        own  == GroupStart(sb, g) .. GroupEnd(sb, g) - 1
        last == bgd.inode_table + TableLen(sb) - 1
    IN  /\ \A b \in {bgd.block_bitmap, bgd.inode_bitmap, bgd.inode_table} : b >= head /\ b \in own
        /\ last \in own

read_all(d, sb) ==
    \A g \in Groups(sb) :
        /\ TableReadable(d, sb, g)
        /\ sb.csum => DescAt(d, sb, g).sum = <<g, DescAt(d, sb, g).d>>
        /\ DescAt(d, sb, g).d.block_bitmap < sb.blocks_count
        /\ DescAt(d, sb, g).d.inode_bitmap < sb.blocks_count
        /\ DescAt(d, sb, g).d.inode_table + TableLen(sb) <= sb.blocks_count
        /\ check_pointers_within(sb, g, DescAt(d, sb, g).d)

\* check_fits_device
check_fits_device(d, sb) == sb.blocks_count <= Cardinality(DOMAIN d)

\* bgd::locate_inode
locate_inode(d, sb, ino) ==
    DescAt(d, sb, (ino - 1) \div sb.inodes_per_group).d.inode_table
        + ((ino - 1) % sb.inodes_per_group) \div (sb.block_size \div sb.inode_size)

JournalInode(d, sb) == d[locate_inode(d, sb, sb.journal_inum)].at[sb.journal_inum]

\* physical_map: where block k of the journal is.
JournalAt(d, sb, k) == map_lookup(d, JournalInode(d, sb).map, k)

\* JournalWriter::open: the journal fits its inode and the volume, and every
\* block of it is mapped, behind group 0's descriptors.
journal_open(d, sb) ==
    LET jsb == d[JournalAt(d, sb, 0)]
        end == sb.first_data_block + 1 + CeilDiv(Cardinality(Groups(sb)) * DescSize(sb), sb.block_size)
    IN  sb.journal_inum # 0 =>
            /\ jsb.kind = "jsb" /\ jsb.max_len <= sb.blocks_count
            /\ jsb.max_len <= JournalInode(d, sb).size
            /\ \A k \in 0 .. jsb.max_len - 1 : JournalAt(d, sb, k) \in end .. sb.blocks_count - 1

Mounts(d, bs) ==
    LET c == d[SbBlock(bs)]
    IN  parse(c) /\ read_all(d, c.sb) /\ check_fits_device(d, c.sb) /\ journal_open(d, c.sb)

----------------------------------------------------------------------------
(* verify.rs, on a volume that mounts *)

Bgd(d, sb, g) == DescAt(d, sb, g).d

verify_superblock(sb) ==
    /\ is_valid_block_size(sb.block_size) /\ sb.blocks_count # 0
    /\ sb.free_blocks <= sb.blocks_count /\ sb.free_inodes <= sb.inodes_count

verify_bgds(d, sb) ==
    \A g \in Groups(sb) :
        /\ Bgd(d, sb, g).block_bitmap < sb.blocks_count
        /\ Bgd(d, sb, g).inode_bitmap < sb.blocks_count
        /\ Bgd(d, sb, g).inode_table < sb.blocks_count
        /\ Bgd(d, sb, g).free_blocks <= sb.blocks_per_group
        /\ Bgd(d, sb, g).free_inodes <= sb.inodes_per_group

\* Only the first block of the descriptor table, and no copy, is claimed.
mark_metadata_blocks(d, sb) ==
    (0 .. sb.blocks_count - 1) \cap
        ({0, SbBlock(sb.block_size), sb.first_data_block + 1}
         \cup UNION {LET b == Bgd(d, sb, g)
                     IN  {b.block_bitmap, b.inode_bitmap}
                         \cup (b.inode_table .. b.inode_table + TableLen(sb) - 1) : g \in Groups(sb)})

Readable(d, sb, ino) ==
    LET b == locate_inode(d, sb, ino)
    IN  d[b].kind = "inodes" /\ ino \in DOMAIN d[b].at

\* The inodes the verifier walks: in use and not reserved, and the root.
Walked(d, sb) ==
    {ino \in 1 .. sb.inodes_count :
        /\ (ino - 1) % sb.inodes_per_group
              \in d[Bgd(d, sb, (ino - 1) \div sb.inodes_per_group).inode_bitmap].bits
        /\ ino >= sb.first_inode \/ ino = ROOT_INO}

\* walk_inode_block_tree: the claims of one inode, in order.  (The pointer
\* blocks of a legacy map are claimed too; the inodes walked here have none.)
walk_inode_block_tree(d, sb, ino) ==
    LET i == d[locate_inode(d, sb, ino)].at[ino]
        mapped == SelectSeq([l \in 1 .. i.size |-> map_lookup(d, i.map, l - 1)],
                            LAMBDA b : b # 0)
    IN  IF i.extents
        THEN FlattenSeq([e \in DOMAIN i.runs |-> [k \in 1 .. i.runs[e].len |-> i.runs[e].at + k - 1]])
        ELSE mapped

\* The claims of all the walked inodes, one after the other.
Claims(d, sb) ==
    FlattenSeq([ino \in 1 .. sb.inodes_count |->
        IF ino \in Walked(d, sb) /\ Readable(d, sb, ino)
        THEN walk_inode_block_tree(d, sb, ino) ELSE <<>>])

walk_all_allocated_inodes(d, sb) ==
    LET claims == Claims(d, sb)
    IN  /\ \A ino \in Walked(d, sb) : Readable(d, sb, ino)
        /\ ToSet(claims) \subseteq 0 .. sb.blocks_count - 1
        /\ ToSet(claims) \cap mark_metadata_blocks(d, sb) = {}
        /\ IsInjective(claims)

\* Every block claimed is allocated (the reverse is only a warning).
reconcile_with_bitmaps(d, sb) ==
    LET claimed == mark_metadata_blocks(d, sb) \cup ToSet(Claims(d, sb))
    IN  \A g \in Groups(sb) :
            \A b \in claimed \cap GroupStart(sb, g) .. GroupEnd(sb, g) - 1 :
                b - GroupStart(sb, g) \in d[Bgd(d, sb, g).block_bitmap].bits

verify(d, sb) ==
    /\ verify_superblock(sb)
    /\ verify_bgds(d, sb)
    /\ walk_all_allocated_inodes(d, sb)
    /\ reconcile_with_bitmaps(d, sb)

----------------------------------------------------------------------------
(* The format call, and a label set on the volume it made *)

VARIABLES req,     \* the format call's arguments, <<>> before it
          dev,     \* the device: block -> what it holds
          todo,    \* the device calls still to make
          res,     \* "idle", "run", "done", or the error returned
          marked,  \* marked_not_clean of the mounted volume
          failed,  \* direct_commit_failed
          healthy, \* the journal writer of the mounted volume is
          label    \* sb.volume_name of the mounted volume, and the one being set

vars == <<req, dev, todo, res, marked, failed, healthy, label>>

Init ==
    /\ req = <<>> /\ dev = <<>> /\ todo = <<>> /\ res = "idle"
    /\ marked = FALSE /\ failed = FALSE /\ healthy = TRUE /\ label = [now |-> "", set |-> ""]

Format(r) ==
    /\ res = "idle"
    /\ req' = <<r>>
    /\ dev' = [b \in 0 .. r.dev - 1 |-> Old]
    /\ todo' = format_filesystem_with_flavor(r)
    /\ res' = "run"
    /\ UNCHANGED <<marked, failed, healthy, label>>

\* A device call that succeeds.
WriteAt ==
    /\ todo # <<>> /\ Head(todo).op = "write"
    /\ LET w == Head(todo)
           span == w.at .. w.at + Len(w.what) - 1
       IN  /\ span \subseteq DOMAIN dev
           /\ dev' = [b \in DOMAIN dev |-> IF b \in span THEN w.what[b - w.at + 1] ELSE dev[b]]
    /\ todo' = Tail(todo)
    /\ UNCHANGED <<req, res, marked, failed, healthy, label>>

\* The last call of a format, and of a commit, is a flush.
FlushDevice ==
    /\ todo # <<>> /\ Head(todo).op = "flush"
    /\ todo' = Tail(todo)
    /\ IF Tail(todo) = <<>>
       THEN res' = "done" /\ label' = [label EXCEPT !.now = label.set]
       ELSE UNCHANGED <<res, label>>
    /\ UNCHANGED <<req, dev, marked, failed, healthy>>

\* A refusal the formatter reaches, its earlier writes made.
Refuse ==
    /\ todo # <<>> /\ Head(todo).op = "refuse"
    /\ res' = Head(todo).why
    /\ todo' = <<>>
    /\ UNCHANGED <<req, dev, marked, failed, healthy, label>>

\* A device call that fails ends the format, or the commit: a direct one ends
\* all writing through the mount, a journaled one retires the journal writer.
DeviceFails ==
    /\ todo # <<>> /\ Head(todo).op # "refuse"
    /\ todo' = <<>>
    /\ IF res = "run" THEN res' = "io" /\ UNCHANGED <<failed, healthy>>
       ELSE /\ failed' = (req[1].flavor # "ext3")
            /\ healthy' = (req[1].flavor # "ext3")
            /\ UNCHANGED res
    /\ UNCHANGED <<req, dev, marked, label>>

\* The label and checksum of one copy of the superblock.
Labelled(c, l) == Stamped([c.sb EXCEPT !.label = l])

\* Mutation: only the primary superblock is given the label.
PrimaryOnly(sb) == {0}

\* The groups whose copy set_volume_label rewrites.
LabelGroups(sb) == {g \in Groups(sb) : group_has_super(sb, g)}

\* write_direct's order: the copies in block order, a flush, the primary.
DirectWrites(d, sb, l) ==
    LET copies == SelectSeq([i \in 1 .. Cardinality(Groups(sb)) - 1 |-> i],
                            LAMBDA g : g \in LabelGroups(sb) /\ d[GroupStart(sb, g)].kind = "sb")
        at     == SbBlock(sb.block_size)
    IN  (IF copies = <<>> THEN <<>>
         ELSE FlattenSeq([i \in DOMAIN copies |->
                LET b == GroupStart(sb, copies[i]) IN Put(b, <<Labelled(d[b], l)>>)]) \o Flush)
        \o Put(at, <<Labelled(d[at], l)>>) \o Flush

\* JournalWriter::commit of the one superblock of an ext3 volume: the log,
\* needs_recovery, the journal marked dirty, the block itself, which keeps
\* needs_recovery, and the journal clean again.
JournaledWrites(d, sb, l) ==
    LET at         == SbBlock(sb.block_size)
        Recover(c, on) == <<Stamped([c.sb EXCEPT !.recover = on])>>
        Logged(k)  == Put(JournalAt(d, sb, k), <<[kind |-> "log"]>>)
        Jsb(start) == Put(JournalAt(d, sb, 0), <<[d[JournalAt(d, sb, 0)] EXCEPT !.start = start]>>)
    IN  Logged(1) \o Logged(2) \o Logged(3) \o Put(at, Recover(d[at], TRUE)) \o Flush
        \o Jsb(1) \o Flush
        \o Put(at, Recover(Labelled(d[at], l), TRUE)) \o Flush
        \o Jsb(0) \o Put(at, Recover(Labelled(d[at], l), FALSE)) \o Flush

\* commit_block_buffer; a retired writer refuses.
LabelWrites(d, sb, l) ==
    IF ~sb.has_journal THEN DirectWrites(d, sb, l)
    ELSE IF healthy THEN JournaledWrites(d, sb, l) ELSE <<>>

\* set_volume_label: refuse_write marks the volume not clean first.
set_volume_label(l) ==
    /\ res = "done" /\ todo = <<>> /\ ~failed
    /\ LET at     == SbBlock(req[1].bs)
           unmark == [dev EXCEPT ![at] = Stamped([@.sb EXCEPT !.clean = FALSE])]
           seen   == IF marked THEN dev ELSE unmark
       IN  /\ dev' = seen
           /\ todo' = LabelWrites(seen, dev[at].sb, l)
    /\ marked' = TRUE
    /\ label' = [label EXCEPT !.set = l]
    /\ UNCHANGED <<req, res, failed, healthy>>

Next ==
    \/ \E r \in Requests : Format(r)
    \/ WriteAt
    \/ FlushDevice
    \/ Refuse
    \/ DeviceFails
    \/ \E l \in Labels : set_volume_label(l)

Spec == Init /\ [][Next]_vars

----------------------------------------------------------------------------
(* Properties *)

Formatted == res = "done"
Primary == dev[SbBlock(req[1].bs)]

\* Free blocks of group g by its bitmap.
ClearBits(sb, g) ==
    {b \in 0 .. GroupEnd(sb, g) - GroupStart(sb, g) - 1 :
        b \notin dev[Bgd(dev, sb, g).block_bitmap].bits}

ClearInodes(sb, g) ==
    {i \in 0 .. sb.inodes_per_group - 1 : i \notin dev[Bgd(dev, sb, g).inode_bitmap].bits}

\* A volume the formatter says it made is one the driver mounts: the
\* superblock parses and fits the device, every descriptor's checksum covers
\* what the descriptor says, and its pointers lie inside their own group
\* (mkfs.rs against Superblock::parse and bgd::read_all).  The verifier finds
\* no error on it, the free counts of the descriptors and of the superblock
\* are those of the bitmaps, and each bitmap is the one its checksum was taken
\* over ("both should run clean on any image we produce").  No block of an ext3
\* journal is free, or used twice.
FormatSound ==
    Formatted =>
        LET sb == Primary.sb
        IN  /\ Mounts(dev, req[1].bs)
            /\ verify(dev, sb)
            /\ \A g \in Groups(sb) :
                  LET d == Bgd(dev, sb, g)
                  IN  /\ d.free_blocks = Cardinality(ClearBits(sb, g))
                      /\ d.free_inodes = Cardinality(ClearInodes(sb, g))
                      /\ sb.csum => /\ d.bb_sum = Covered(dev[d.block_bitmap], sb.blocks_per_group)
                                    /\ d.ib_sum = Covered(dev[d.inode_bitmap], sb.inodes_per_group)
            /\ sb.has_journal =>
                  LET blocks == [k \in 1 .. JournalBlocks |-> JournalAt(dev, sb, k - 1)]
                  IN  /\ IsInjective(blocks)
                      /\ \A b \in Range(blocks) : b - sb.first_data_block \notin ClearBits(sb, 0)
            /\ sb.free_blocks = MapThenSumSet(LAMBDA g : Cardinality(ClearBits(sb, g)), Groups(sb))
            /\ sb.free_inodes = MapThenSumSet(LAMBDA g : Cardinality(ClearInodes(sb, g)), Groups(sb))

\* No two structures of a volume share a block: but for the header zeroed in
\* front of the superblock, formatting never writes a block twice.
StructuresDisjoint ==
    [][res = "run" => \A b \in DOMAIN dev :
                        dev'[b] # dev[b] => dev[b].kind \in {"old", "zero"}]_vars

\* Every group that carries a copy of the superblock has one that differs
\* from the primary in the group's number and the state alone, and a copy of
\* the whole descriptor table, also after the volume is given a label, and
\* nothing is left to recover (mkfs.rs's backups and set_volume_label).
CopiesAgree ==
    Formatted /\ todo = <<>> /\ ~failed /\ healthy /\ Primary.kind = "sb" =>
        LET sb == Primary.sb
            table == group_head_metadata_blocks(sb, 0) - 1
        IN  /\ sb.label = label.now /\ ~sb.recover
            /\ \A g \in Groups(sb) \ {0} :
                  group_has_super(sb, g) =>
                    LET at == GroupStart(sb, g)
                    IN  /\ dev[at].kind = "sb" /\ dev[at].sum = (IF sb.csum THEN <<dev[at].sb>> ELSE <<>>)
                        /\ [dev[at].sb EXCEPT !.block_group_nr = 0, !.clean = TRUE]
                             = [sb EXCEPT !.clean = TRUE]
                        /\ dev[at].sb.block_group_nr = g
                        /\ \A k \in 1 .. table : dev[at + k] = dev[SbBlock(sb.block_size) + k]
=============================================================================

------------------------------- MODULE Xattr -------------------------------
(* Extended attributes (xattr.rs, and the setxattr and removexattr of        *)
(* fs.rs).  A file keeps its attributes in the tail of its inode and, when   *)
(* they do not fit, in one external block, which several files may share     *)
(* (h_refcount).  Both are areas of four-byte units: the entries grow from   *)
(* the front, the values from the back, and a zero unit ends the entries.    *)
(*                                                                           *)
(* The volume is one record: the files, the blocks that may hold attributes, *)
(* the superblock's count of free blocks and its EXT_ATTR flag.  An          *)
(* operation stages a volume and commits all of it, or nothing (Journal).    *)
EXTENDS Integers, FiniteSets, Sequences, FiniteSetsExt, TLC

CONSTANTS
    Files, Blocks,
    Attrs,        \* attribute names
    Class,        \* of a name: "ok", "noprefix", "nosuffix" or "toolong"
    NameUnits,    \* units of a name
    Values,       \* values, by name
    ValueUnits,   \* units of a value; an empty value has none
    FixedUnits,   \* units of the fixed part of an entry
    AreaUnits,    \* units of an inode's area, its magic number left out
    BlockUnits,   \* units of a block after its header
    XattrStarts,  \* volumes to start from
    MaxOps

\* The files that refer to a block of volume t.
Referrers(t, b) == { f \in Files : t.file[f].acl = b }

FreeBlocks(t) == { b \in Blocks : ~ t.block[b].used }

\* A volume as the format lays it out: i_file_acl is 0 or names a block.
WellFormed(t) ==
    /\ DOMAIN t = {"file", "block", "free", "flag", "bad"}
    /\ DOMAIN t.file = Files
    /\ DOMAIN t.block = Blocks
    /\ \A f \in Files :
         /\ DOMAIN t.file[f] = {"live", "extra", "wide", "area", "acl", "blocks"}
         /\ t.file[f].acl \in Blocks \cup {0}
    /\ \A b \in Blocks :
         /\ DOMAIN t.block[b] = {"used", "refs", "cells"}
         /\ t.block[b].used \in BOOLEAN

\* Its counts are the ones its files give.
Exact(t) ==
    /\ \A b \in Blocks : /\ t.block[b].refs = Cardinality(Referrers(t, b))
                         /\ t.block[b].used <=> Referrers(t, b) # {}
    /\ t.free = Cardinality(FreeBlocks(t))
    /\ \A f \in Files : t.file[f].blocks = IF t.file[f].acl = 0 THEN 0 ELSE 1
    /\ (\E f \in Files : t.file[f].acl # 0) => t.flag

\* Block numbers start at 1: 0 in i_file_acl is no block.
ASSUME XattrSets ==
    IsFiniteSet(Files) /\ IsFiniteSet(Blocks) /\ Blocks \subseteq Nat \ {0}

\* The driver starts from volumes whose counts are right.
ASSUME XattrStartsSound == \A t \in XattrStarts : WellFormed(t) /\ Exact(t)

VARIABLES vol, want, res, ops

vars == <<vol, want, res, ops>>

----------------------------------------------------------------------------
(* An area of units *)

Zero == [k |-> "zero"]

\* An entry whose value is in the area, and one whose value is an EA inode.
Entry(n, v) == [name |-> n, value |-> v, inum |-> 0]
EaEntry(n, v) == [name |-> n, value |-> v, inum |-> 1]

EntryUnits(n) == FixedUnits + NameUnits[n]

UnitsOf(e) == IF e.inum = 0 THEN ValueUnits[e.value] ELSE 0

\* The units that entries and values take up to the k-th entry.
EntriesTo(es, k) == MapThenSumSet(LAMBDA i : EntryUnits(es[i].name), 1 .. k)
ValuesTo(es, k) == MapThenSumSet(LAMBDA i : UnitsOf(es[i]), 1 .. k)

\* encode_in_inode_entries and encode_external_block, the entries in order.
encode(es, len) ==
    LET off(k) == len - ValuesTo(es, k)
        First(k) == [k |-> "head", name |-> es[k].name, off |-> off(k), inum |-> es[k].inum,
                    size |-> UnitsOf(es[k])]
        At(p) == { k \in DOMAIN es : EntriesTo(es, k - 1) < p /\ p <= EntriesTo(es, k) }
        Val(p) == { k \in DOMAIN es : off(k) < p /\ p <= off(k) + UnitsOf(es[k]) }
    IN  [p \in 1 .. len |->
            IF Val(p) # {} THEN [k |-> "value", value |-> es[Max(Val(p))].value]
            ELSE IF At(p) = {} THEN Zero
            ELSE IF p = EntriesTo(es, Max(At(p)) - 1) + 1 THEN First(Max(At(p)))
            ELSE [k |-> "name"]]

\* The entry whose first unit is p; a value in an EA inode is not read.
EntryAt(cells, p) ==
    LET c == cells[p]
        v == IF c.inum # 0 \/ c.size = 0 THEN "empty" ELSE cells[c.off + 1].value
    IN  [name |-> c.name, value |-> v, inum |-> c.inum]

\* decode_in_inode_entries and decode_external_block_entries: entries until a
\* zero unit, or until less than a fixed part is left.  A unit that starts no
\* entry is read as one all the same.
decode(cells) ==
    LET from[p \in Nat] ==
          IF p + FixedUnits - 1 > Len(cells) THEN <<>>
          ELSE IF cells[p].k = "zero" THEN <<>>
          ELSE IF cells[p].k # "head" THEN <<Entry("junk", "empty")>>
          ELSE <<EntryAt(cells, p)>> \o from[p + EntryUnits(cells[p].name)]
    IN  from[1]

\* Mutation: no unit is left for the zero that ends the entries.
FitsTight(es, len) ==
    EntriesTo(es, Len(es)) + ValuesTo(es, Len(es)) <= len

\* Room for the entries, their values and the end of the entries.
Fits(es, len) ==
    EntriesTo(es, Len(es)) + 1 + ValuesTo(es, Len(es)) <= len

\* The orders the two areas are kept in (by index and bytes; the block by
\* length first), which here is one order of the names.
Sorted(es) == SortSeq(es, LAMBDA a, b : NameUnits[a.name] < NameUnits[b.name])

Holds(es, n) == \E k \in DOMAIN es : es[k].name = n

refuse_if_any_ea_inode_backed(es) == \E k \in DOMAIN es : es[k].inum # 0

\* The entries with n set to v: in its place, or at the end.
With(es, n, v) ==
    IF Holds(es, n)
    THEN [k \in DOMAIN es |-> IF es[k].name = n THEN [es[k] EXCEPT !.value = v] ELSE es[k]]
    ELSE Append(es, Entry(n, v))

Without(es, n) == SelectSeq(es, LAMBDA e : e.name # n)

\* plan_set_in_inode_region and plan_set_in_external_block
plan_set(cells, n, v, len) ==
    LET es == decode(cells)
        to == With(es, n, v)
        No(why) == [res |-> why, cells |-> cells]
    IN  IF Class[n] \in {"noprefix", "nosuffix"} THEN No("invalid")
        ELSE IF Class[n] = "toolong" THEN No("toolong")
        ELSE IF refuse_if_any_ea_inode_backed(es) THEN No("unsupported")
        ELSE IF ~ Fits(to, len) THEN No("nospace")
        ELSE [res |-> "ok", cells |-> encode(Sorted(to), len)]

\* plan_remove_in_inode_region and plan_remove_from_external_block
plan_remove(cells, n, len) ==
    LET es   == decode(cells)
        kept == Without(es, n)
        Out(why, to) == [res |-> why, cells |-> to]
    IN  IF Class[n] = "noprefix" THEN Out("invalid", cells)
        ELSE IF cells = <<>> THEN Out("notfound", cells)
        ELSE IF refuse_if_any_ea_inode_backed(es) THEN Out("unsupported", cells)
        ELSE IF Len(kept) = Len(es) THEN Out("notfound", cells)
        ELSE Out(IF kept = <<>> THEN "empty" ELSE "ok", encode(Sorted(kept), len))

----------------------------------------------------------------------------
(* Reading *)

\* read_all: the area of the inode, then the block.
read_all(vo, f) ==
    LET i == vo.file[f]
    IN  (IF i.extra THEN decode(i.area) ELSE <<>>)
        \o (IF i.acl = 0 THEN <<>> ELSE decode(vo.block[i.acl].cells))

\* read_all_resolved: an EA-inode value is read from its inode.
ValueOf(e) == IF e.inum # 0 THEN "ea" ELSE e.value

\* get_resolved: the first entry of that name.
get(vo, f, n) ==
    LET es == read_all(vo, f)
        at == { k \in DOMAIN es : es[k].name = n }
    IN  IF at = {} THEN "none" ELSE ValueOf(es[Min(at)])

----------------------------------------------------------------------------
(* Staging *)

Stop(t, why) == [t EXCEPT !.bad = why]

\* A block with these attributes, counted in the bitmap and the superblock.
Take(t, b, cells) ==
    [t EXCEPT !.block[b] = [used |-> TRUE, refs |-> 1, cells |-> cells], !.free = @ - 1]

\* buffer_release_xattr_block: freed with its last reference.
buffer_release_xattr_block(t, b) ==
    IF t.block[b].refs <= 1
    THEN [t EXCEPT !.block[b] = [used |-> FALSE, refs |-> 0, cells |-> <<>>], !.free = @ + 1]
    ELSE [t EXCEPT !.block[b].refs = @ - 1]

\* buffer_unshare_xattr_block: a copy of its own, the old block one
\* reference poorer.
buffer_unshare_xattr_block(t, f, cells) ==
    LET b == Min(FreeBlocks(t))
    IN  IF FreeBlocks(t) = {} THEN Stop(t, "nospace")
        ELSE [buffer_release_xattr_block(Take(t, b, cells), t.file[f].acl) EXCEPT !.file[f].acl = b]

\* A block rewritten in place by its only owner, or by a copy.
Rewrite(t, f, cells) ==
    IF t.block[t.file[f].acl].refs > 1 THEN buffer_unshare_xattr_block(t, f, cells)
    ELSE [t EXCEPT !.block[t.file[f].acl].cells = cells]

\* Mutation: the block is freed although other files refer to it.
DropBlockAlways(t, f) ==
    LET b == t.file[f].acl
    IN  [t EXCEPT !.block[b] = [used |-> FALSE, refs |-> 0, cells |-> <<>>], !.free = @ + 1,
                  !.file[f].acl = 0, !.file[f].blocks = @ - 1]

\* The last attribute of the block is gone: the file gives the block up.
DropBlock(t, f) ==
    [buffer_release_xattr_block(t, t.file[f].acl) EXCEPT !.file[f].acl = 0,
                                                         !.file[f].blocks = @ - 1]

\* buffer_remove_from_external_block: found says whether it was there.
buffer_remove_from_external_block(t, f, n) ==
    LET b == t.file[f].acl
        r == plan_remove(t.block[b].cells, n, BlockUnits)
    IN  IF b = 0 \/ r.res = "notfound" THEN [t |-> t, found |-> FALSE]
        ELSE IF r.res = "empty" THEN [t |-> DropBlock(t, f), found |-> TRUE]
        ELSE IF r.res = "ok" THEN [t |-> Rewrite(t, f, r.cells), found |-> TRUE]
        ELSE [t |-> Stop(t, r.res), found |-> FALSE]

\* apply_setxattr_external_block: into the block there is, or a new one.
apply_setxattr_external_block(t0, f, n, v) ==
    LET t == [t0 EXCEPT !.flag = TRUE]
        b == t.file[f].acl
        c == Min(FreeBlocks(t))
        r == plan_set(IF b = 0 THEN <<>> ELSE t.block[b].cells, n, v, BlockUnits)
    IN  IF b = 0 /\ FreeBlocks(t) = {} THEN Stop(t, "nospace")
        ELSE IF r.res # "ok" THEN Stop(t, r.res)
        ELSE IF b # 0 THEN Rewrite(t, f, r.cells)
        ELSE [Take(t, c, r.cells) EXCEPT !.file[f].acl = c, !.file[f].blocks = @ + 1]

\* An inode without extra fields gets them when it has the room.
Widened(t, f) ==
    IF t.file[f].extra \/ ~ t.file[f].wide THEN t
    ELSE [t EXCEPT !.file[f].extra = TRUE, !.file[f].area = <<>>]

\* The value that no longer fits in the inode: taken out of it, and set in
\* the block.
Spill(t, f, n, v) ==
    LET r == plan_remove(t.file[f].area, n, AreaUnits)
        u == IF t.file[f].extra THEN [t EXCEPT !.file[f].area = r.cells] ELSE t
    IN  IF t.file[f].extra /\ r.res \in {"invalid", "unsupported"} THEN Stop(t, r.res)
        ELSE apply_setxattr_external_block(u, f, n, v)

\* apply_setxattr: in the inode, the block's copy taken out, or in the block.
SetStaged(t0, f, n, v) ==
    LET t == Widened(t0, f)
        r == IF t.file[f].extra THEN plan_set(t.file[f].area, n, v, AreaUnits)
             ELSE [res |-> "nospace", cells |-> <<>>]
    IN  IF r.res = "ok"
        THEN buffer_remove_from_external_block([t EXCEPT !.file[f].area = r.cells], f, n).t
        ELSE IF r.res = "nospace" THEN Spill(t, f, n, v)
        ELSE Stop(t, r.res)

\* apply_removexattr: from both places, found in either.
RemoveStaged(t, f, n) ==
    LET r == plan_remove(t.file[f].area, n, AreaUnits)
        in == t.file[f].extra /\ r.res \in {"ok", "empty"}
        x == buffer_remove_from_external_block(
                 IF in THEN [t EXCEPT !.file[f].area = r.cells] ELSE t, f, n)
    IN  IF t.file[f].extra /\ r.res \in {"invalid", "unsupported"} THEN Stop(t, r.res)
        ELSE IF x.t.bad # "" THEN x.t
        ELSE IF ~ in /\ ~ x.found THEN Stop(t, "notfound")
        ELSE x.t

----------------------------------------------------------------------------
(* Operations *)

\* All of a staged volume, or none of it; w is what the caller is promised.
Commit(t, w) ==
    /\ vol' = IF t.bad = "" THEN t ELSE vol
    /\ want' = IF t.bad = "" THEN w ELSE want
    /\ res' = IF t.bad = "" THEN "ok" ELSE t.bad

Begun == ops < MaxOps /\ ops' = ops + 1

apply_setxattr(f, n, v) ==
    /\ Begun
    /\ vol.file[f].live
    /\ Commit(SetStaged(vol, f, n, v), [want EXCEPT ![f] = (n :> v) @@ @])

apply_removexattr(f, n) ==
    /\ Begun
    /\ vol.file[f].live
    /\ Commit(RemoveStaged(vol, f, n),
              [want EXCEPT ![f] = [m \in DOMAIN @ \ {n} |-> @[m]]])

\* The file is deleted (unlink, rmdir, rename): its reference goes with it.
Delete(f) ==
    LET t == IF vol.file[f].acl = 0 THEN vol ELSE DropBlock(vol, f)
    IN  /\ Begun
        /\ vol.file[f].live
        /\ Commit([t EXCEPT !.file[f].live = FALSE, !.file[f].extra = FALSE,
                            !.file[f].wide = FALSE],
                  [want EXCEPT ![f] = <<>>])

Init ==
    /\ vol \in XattrStarts
    /\ want = [f \in Files |-> [n \in { m \in Attrs : get(vol, f, m) # "none" } |-> get(vol, f, n)]]
    /\ res = "ok"
    /\ ops = 0

Next ==
    \/ \E f \in Files, n \in Attrs, v \in Values : apply_setxattr(f, n, v)
    \/ \E f \in Files, n \in Attrs : apply_removexattr(f, n)
    \/ \E f \in Files : Delete(f)

Spec == Init /\ [][Next]_vars

----------------------------------------------------------------------------
(* Properties *)

\* Every file reads back the attributes that were set on it and no others,
\* each of them once: whichever of the two areas an attribute is in or has
\* moved between, and whoever shared the block when another file was written.
AttributesAsSet ==
    \A f \in Files :
        LET es == read_all(vol, f)
        IN  /\ { es[k].name : k \in DOMAIN es } = DOMAIN want[f]
            /\ \A k \in DOMAIN es : ValueOf(es[k]) = want[f][es[k].name]
            /\ Len(es) = Cardinality(DOMAIN want[f])

\* The reference count of an attribute block is the number of files that
\* refer to it, and a block nobody refers to is free: no block is freed under
\* a file or leaks with its last one.  The superblock counts the free blocks,
\* each file counts its block in i_blocks, and the volume says it has
\* attribute blocks when it does.
RefsExact == Exact(vol)
=============================================================================

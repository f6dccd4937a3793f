----------------------------- MODULE Namespace -----------------------------
(* The operations on names (fs.rs): create, mkdir, mknod, symlink, link,     *)
(* unlink, rmdir and rename on inode references.  Each operator is what one  *)
(* of them stages, or why it refuses; Capi makes the calls, by path and by   *)
(* handle, and commits everything a call staged or nothing (Journal).  A     *)
(* directory is the map from names to inodes that Directory shows it to be,  *)
(* and an add may cost it blocks (grow).  What is modelled here is what the  *)
(* operations change besides the names: the inode bitmap and table, link     *)
(* counts and `..`, generations, shared attribute blocks and the counters of *)
(* the groups and of the superblock.                                         *)
(*                                                                           *)
(* The field id of an inode is not on disk; it tells one file that had the   *)
(* number from the next.                                                     *)
EXTENDS Integers, FiniteSets, FiniteSetsExt

CONSTANTS
    Names,
    InodesCount, InodesPerGroup,
    FirstInode,        \* first inode that is not reserved
    MAX_LINKS,
    DirNlink,          \* the DIR_NLINK feature
    GenMod,            \* generations wrap at this number (2^32)
    Seed               \* std::process::id

VARIABLES
    vol,               \* the volume
    counter            \* COUNTER of the process

Root == 2
Ino == 1 .. InodesCount

ASSUME NamespaceAssumption ==
    /\ InodesCount \in Nat /\ FirstInode \in Nat /\ Root < FirstInode /\ Root <= InodesCount
    /\ InodesPerGroup \in Nat \ {0}
    /\ MAX_LINKS \in Nat /\ DirNlink \in BOOLEAN

Groups == 0 .. (InodesCount - 1) \div InodesPerGroup
GroupOf(i) == (i - 1) \div InodesPerGroup

Stop(t, why) == [t EXCEPT !.bad = why]

----------------------------------------------------------------------------
(* Looking up *)

\* A reference: a number and, unless it is GEN_ANY, the generation it must have.
GEN_ANY == -1
Ref(i, g) == [ino |-> i, gen |-> g]

\* find_entry, with the entries every directory has.
find_entry(t, d, n) ==
    IF n = "." THEN d ELSE IF n = ".." THEN t.up[d]
    ELSE IF n \in DOMAIN t.ents[d] THEN t.ents[d][n] ELSE 0

\* Mutation: an inode in use is taken for the one the handle is of.
LiveAnyGeneration(t, r) ==
    /\ r.ino \in Ino
    /\ r.ino >= FirstInode \/ r.ino = Root
    /\ r.ino \in t.bits
    /\ t.tab[r.ino].links # 0 /\ t.tab[r.ino].kind # "none"

\* live_inode: not reserved, allocated, linked and of that generation.
live_inode(t, r) ==
    /\ r.ino \in Ino
    /\ r.ino >= FirstInode \/ r.ino = Root
    /\ r.ino \in t.bits
    /\ t.tab[r.ino].links # 0 /\ t.tab[r.ino].kind # "none"
    /\ r.gen \in {GEN_ANY, t.tab[r.ino].gen}

IsDir(t, i) == t.tab[i].kind = "dir"

\* live_dir: why r is no directory to work in, or "ok".
live_dir(t, r) ==
    IF ~ live_inode(t, r) THEN "stale" ELSE IF ~ IsDir(t, r.ino) THEN "notdir" ELSE "ok"

----------------------------------------------------------------------------
(* Inodes *)

NoInode(g) == [kind |-> "none", links |-> 0, gen |-> g, blocks |-> 0, acl |-> 0, id |-> 0]

Average(t, count) == MapThenSumSet(LAMBDA g : t.grp[g][count], Groups) \div Cardinality(Groups)

\* What a group is worth to a new directory.
Score(t, g) ==
    t.grp[g].free - t.grp[g].dirs
        + (IF t.grp[g].free >= Average(t, "free") THEN 1000 ELSE 0)
        + (IF t.grp[g].dirs <= Average(t, "dirs") THEN 500 ELSE 0)

\* orlov_select_group: the group with the best score, the first from the hint on.
orlov_select_group(t, hint) ==
    LET far(g) == (g - hint) % Cardinality(Groups)
        open   == { g \in Groups : t.grp[g].free > 0 }
    IN  IF open = {} THEN hint
        ELSE CHOOSE g \in open : \A h \in open :
                 \/ Score(t, g) > Score(t, h)
                 \/ Score(t, g) = Score(t, h) /\ far(g) <= far(h)

\* plan_inode_allocation: the first free inode of the first group, from the
\* hint on, that has one; 0 for none.
plan_inode_allocation(t, isdir, hint) ==
    LET start == IF isdir THEN orlov_select_group(t, hint) ELSE hint
        free(g) == { i \in Ino \ t.bits : GroupOf(i) = g /\ i >= FirstInode }
        open  == { g \in Groups : t.grp[g].free # 0 /\ free(g) # {} }
        far(g) == (g - start) % Cardinality(Groups)
    IN  IF open = {} THEN 0
        ELSE Min(free(CHOOSE g \in open : \A h \in open : far(g) <= far(h)))

\* next_inode_generation of the process: its id and a counter, wrapping.
next_inode_generation(c) == (Seed + c) % GenMod

\* buffer_mark_inode_used and the new inode: the bit, the counters of the
\* group and of the superblock, the inode with a new generation.
NewInode(t, i, kind, blocks, links) ==
    IF i = 0 THEN Stop(t, "corrupt")
    ELSE IF blocks > t.sb.blocks THEN Stop(t, "nospace")
    ELSE [t EXCEPT !.bits = @ \cup {i},
                   !.grp[GroupOf(i)] = [free |-> @.free - 1,
                                        dirs |-> @.dirs + (IF kind = "dir" THEN 1 ELSE 0)],
                   !.sb = [inodes |-> @.inodes - 1, blocks |-> @.blocks - blocks],
                   !.tab[i] = [kind |-> kind, links |-> links, gen |-> next_inode_generation(counter),
                               blocks |-> blocks, acl |-> 0, id |-> t.next],
                   !.next = @ + 1]

\* buffer_release_xattr_block: freed with its last reference.
buffer_release_xattr_block(t, x) ==
    IF x = 0 THEN t
    ELSE IF t.xref[x] <= 1 THEN [t EXCEPT !.xref[x] = 0, !.sb.blocks = @ + 1]
    ELSE [t EXCEPT !.xref[x] = @ - 1]

\* Mutation: the group's count of directories is left as it was.
FreeInodeNotDir(t, i) ==
    LET u == buffer_release_xattr_block(t, t.tab[i].acl)
    IN  [u EXCEPT !.bits = @ \ {i}, !.grp[GroupOf(i)].free = @ + 1,
                  !.sb = [inodes |-> @.inodes + 1, blocks |-> @.blocks + t.tab[i].blocks],
                  !.tab[i] = NoInode(t.tab[i].gen)]

\* The end of an inode: its blocks, its reference to an attribute block, its
\* slot and counters; all of it cleared but the generation.
FreeInode(t, i) ==
    LET u == buffer_release_xattr_block(t, t.tab[i].acl)
    IN  [u EXCEPT !.bits = @ \ {i},
                  !.grp[GroupOf(i)] = [free |-> @.free + 1,
                                       dirs |-> @.dirs - (IF IsDir(t, i) THEN 1 ELSE 0)],
                  !.sb = [inodes |-> @.inodes + 1, blocks |-> @.blocks + t.tab[i].blocks],
                  !.tab[i] = NoInode(t.tab[i].gen),
                  !.ents[i] = <<>>]

TooMany == MAX_LINKS + 1

\* next_links_count, by one: the count of a directory that has been over the
\* limit is 1 and stays 1, and does not fall below 2 otherwise.
next_links_count(isdir, count, delta) ==
    IF delta > 0
    THEN IF isdir /\ count = 1 THEN 1
         ELSE IF count >= MAX_LINKS THEN (IF isdir /\ DirNlink THEN 1 ELSE TooMany)
         ELSE count + 1
    ELSE IF isdir THEN (IF count > 2 THEN count - 1 ELSE count)
    ELSE IF count > 0 THEN count - 1 ELSE 0

\* patch_inode_nlink
patch_inode_nlink(t, i, delta) ==
    LET c == next_links_count(IsDir(t, i), t.tab[i].links, delta)
    IN  IF t.bad # "ok" \/ delta = 0 THEN t
        ELSE IF c = TooMany THEN Stop(t, "toomany")
        ELSE [t EXCEPT !.tab[i].links = c]

check_link_room(t, i) == next_links_count(IsDir(t, i), t.tab[i].links, 1) # TooMany

----------------------------------------------------------------------------
(* Entries *)

\* An add, in place or by growing the directory; Directory shows the rest.
AddEntry(t, d, n, i, grow) ==
    IF t.bad # "ok" THEN t
    ELSE IF grow > t.sb.blocks THEN Stop(t, "nospace")
    ELSE [t EXCEPT !.ents[d] = [m \in DOMAIN @ \cup {n} |-> IF m = n THEN i ELSE @[m]],
                   !.tab[d].blocks = @ + grow,
                   !.sb.blocks = @ - grow]

RemoveEntry(t, d, n) == [t EXCEPT !.ents[d] = [m \in DOMAIN @ \ {n} |-> @[m]]]

Empty(t, d) == t.ents[d] = <<>>

\* Mutation: only the directory itself is looked at.
SelfOnly(t, a, d) == a = d

\* is_ancestor_or_self: up from d until a or the root.
is_ancestor_or_self(t, a, d) ==
    LET at[k \in 0 .. InodesCount] ==
            IF k = 0 THEN d
            ELSE LET c == at[k - 1] IN IF c \in {a, Root} THEN c ELSE t.up[c]
    IN  at[InodesCount] = a

----------------------------------------------------------------------------
(* The operations: what each stages, or why it refuses *)

\* plan_new_inode_in_dir, for create, mknod and symlink: the checks.
NewRefused(r, n) ==
    IF live_dir(vol, r) # "ok" THEN live_dir(vol, r)
    ELSE IF find_entry(vol, r.ino, n) # 0 THEN "exists" ELSE "ok"

\* A new inode with one name; the entry is the last thing staged.
Made(r, n, kind, blocks, grow) ==
    LET i == plan_inode_allocation(vol, FALSE, GroupOf(r.ino))
    IN  IF NewRefused(r, n) # "ok" THEN Stop(vol, NewRefused(r, n))
        ELSE AddEntry(NewInode(vol, i, kind, blocks, 1), r.ino, n, i, grow)

\* apply_create_at, apply_mknod_at, apply_symlink_at; the target of a long
\* symlink has a block.
CreateStaged(r, n, grow) == Made(r, n, "file", 0, grow)
MknodStaged(r, n, grow) == Made(r, n, "special", 0, grow)
SymlinkStaged(r, n, blocks, grow) == Made(r, n, "link", blocks, grow)

\* apply_mkdir_at
MkdirStaged(r, n, grow) ==
    LET i == plan_inode_allocation(vol, TRUE, GroupOf(r.ino))
        t == AddEntry(NewInode(vol, i, "dir", 1, 2), r.ino, n, i, grow)
    IN  IF NewRefused(r, n) # "ok" THEN Stop(vol, NewRefused(r, n))
        ELSE IF ~ check_link_room(vol, r.ino) THEN Stop(vol, "toomany")
        ELSE IF t.bad # "ok" THEN t
        ELSE patch_inode_nlink([t EXCEPT !.up[i] = r.ino], r.ino, 1)

\* apply_link_at
LinkStaged(target, r, n, grow) ==
    IF ~ live_inode(vol, target) THEN Stop(vol, "stale")
    ELSE IF IsDir(vol, target.ino) THEN Stop(vol, "isdir")
    ELSE IF ~ check_link_room(vol, target.ino) THEN Stop(vol, "toomany")
    ELSE IF NewRefused(r, n) # "ok" THEN Stop(vol, NewRefused(r, n))
    ELSE AddEntry(patch_inode_nlink(vol, target.ino, 1), r.ino, n, target.ino, grow)

\* One name fewer for a file, and the end of it with the last one.
Unlinked(t, i) ==
    IF t.tab[i].links > 1 THEN [t EXCEPT !.tab[i].links = @ - 1] ELSE FreeInode(t, i)

\* apply_unlink_bytes and apply_unlink_at; a path that ends in a slash only
\* chooses between two errors.
UnlinkStaged(r, n, slash) ==
    LET i == find_entry(vol, r.ino, n)
    IN  IF live_dir(vol, r) # "ok" THEN Stop(vol, live_dir(vol, r))
        ELSE IF i = 0 THEN Stop(vol, "notfound")
        ELSE IF ~ live_inode(vol, Ref(i, GEN_ANY)) THEN Stop(vol, "stale")
        ELSE IF IsDir(vol, i) THEN Stop(vol, "isdir")
        ELSE IF slash THEN Stop(vol, "notdir")
        ELSE Unlinked(RemoveEntry(vol, r.ino, n), i)

\* apply_rmdir_at
RmdirStaged(r, n) ==
    LET i == find_entry(vol, r.ino, n)
    IN  IF n = "." THEN Stop(vol, "invalid")
        ELSE IF n = ".." THEN Stop(vol, "notempty")
        ELSE IF live_dir(vol, r) # "ok" THEN Stop(vol, live_dir(vol, r))
        ELSE IF i = 0 THEN Stop(vol, "notfound")
        ELSE IF ~ live_inode(vol, Ref(i, GEN_ANY)) THEN Stop(vol, "stale")
        ELSE IF ~ IsDir(vol, i) THEN Stop(vol, "notdir")
        ELSE IF ~ Empty(vol, i) THEN Stop(vol, "notempty")
        ELSE patch_inode_nlink(RemoveEntry(FreeInode(vol, i), r.ino, n), r.ino, -1)

\* Mutation: a directory that is replaced leaves its parent's count alone.
DeltasMoveOnly(t, sp, dp, moved, gone) ==
    IF moved THEN patch_inode_nlink(patch_inode_nlink(t, dp, 1), sp, -1) ELSE t

\* apply_parent_nlink_deltas: one change per parent, however many reasons it
\* has; moved is whether a directory changes parents, gone whether the
\* destination loses one.
apply_parent_nlink_deltas(t, sp, dp, moved, gone) ==
    LET Add(x) == IF x THEN 1 ELSE 0
        u == patch_inode_nlink(t, dp, Add(moved) - Add(gone))
    IN  IF moved THEN patch_inode_nlink(u, sp, -1) ELSE u

\* What a rename refuses: the names, the references, the source, the
\* destination, a directory under itself, and the destination's link count.
RenameRefused(a, sn, b, dn, replace) ==
    LET src == find_entry(vol, a.ino, sn)
        dst == find_entry(vol, b.ino, dn)
        dir == IsDir(vol, src)
    IN  IF {sn, dn} \cap {".", ".."} # {} THEN "invalid"
        ELSE IF live_dir(vol, a) # "ok" THEN live_dir(vol, a)
        ELSE IF live_dir(vol, b) # "ok" THEN live_dir(vol, b)
        ELSE IF src = 0 THEN "notfound"
        ELSE IF a.ino = b.ino /\ sn = dn THEN "same"
        ELSE IF dst # 0 /\ ~ replace THEN "exists"
        ELSE IF ~ live_inode(vol, Ref(src, GEN_ANY)) THEN "stale"
        ELSE IF dir /\ is_ancestor_or_self(vol, src, b.ino) THEN "invalid"
        ELSE IF dir /\ dst = 0 /\ a.ino # b.ino /\ ~ check_link_room(vol, b.ino) THEN "toomany"
        ELSE IF dst = 0 THEN "ok"
        ELSE IF dst = src THEN "same"
        ELSE IF ~ dir /\ IsDir(vol, dst) THEN "isdir"
        ELSE IF dir /\ ~ IsDir(vol, dst) THEN "notdir"
        ELSE IF dir /\ ~ Empty(vol, dst) THEN "notempty" ELSE "ok"

\* apply_rename_at: the destination's entry, the source's, `..`, the inode
\* that lost its name, the parents' counts.
RenameStaged(a, sn, b, dn, replace, grow) ==
    LET src   == find_entry(vol, a.ino, sn)
        dst   == find_entry(vol, b.ino, dn)
        moved == IsDir(vol, src) /\ a.ino # b.ino
        gone  == dst # 0 /\ IsDir(vol, dst)
        t1 == IF dst # 0 THEN RemoveEntry(vol, b.ino, dn) ELSE vol
        t2 == AddEntry(t1, b.ino, dn, src, grow)
        t3 == RemoveEntry(t2, a.ino, sn)
        t4 == IF moved THEN [t3 EXCEPT !.up[src] = b.ino] ELSE t3
        t5 == IF dst = 0 THEN t4 ELSE IF gone THEN FreeInode(t4, dst) ELSE Unlinked(t4, dst)
    IN  IF RenameRefused(a, sn, b, dn, replace) # "ok"
        THEN Stop(vol, RenameRefused(a, sn, b, dn, replace))
        ELSE IF t2.bad # "ok" THEN t2
        ELSE apply_parent_nlink_deltas(t5, a.ino, b.ino, moved, gone)

----------------------------------------------------------------------------
(* Properties *)

LiveIn(t) == { i \in Ino : i \in t.bits /\ (i >= FirstInode \/ i = Root) }
DirsIn(t) == { i \in LiveIn(t) : IsDir(t, i) }

Live == LiveIn(vol)
Dirs == DirsIn(vol)

\* The places that have a name, and those that name i.
Places(t) == UNION { { <<d, n>> : n \in DOMAIN t.ents[d] } : d \in DirsIn(t) }
NamesOf(t, i) == { p \in Places(t) : t.ents[p[1]][p[2]] = i }

Subdirs(t, i) == { x \in DirsIn(t) \ {Root} : t.up[x] = i }

\* Where `..` leads from d in the end.
Climb(t, d) ==
    LET at[k \in 0 .. InodesCount] == IF k = 0 THEN d ELSE t.up[at[k - 1]]
    IN  at[InodesCount]

\* The link count of each inode of a volume says what it should.
LinksRight(t) ==
    \A i \in LiveIn(t) :
        IF IsDir(t, i)
        THEN t.tab[i].links \in {2 + Cardinality(Subdirs(t, i))} \cup (IF DirNlink THEN {1} ELSE {})
        ELSE t.tab[i].links = Cardinality(NamesOf(t, i)) /\ t.tab[i].links > 0

\* The link count of a file is the number of its names and that of a
\* directory two more than its subdirectories, or 1 once it has had more than
\* the limit: across links, renames over other names and both ends of a move,
\* so a file is freed with its last name, not before and not later.
LinksExact == LinksRight(vol)

\* The names of a volume lead to inodes in use, and a directory but the root
\* has one, in the directory its `..` says.
NamesRight(t) ==
    /\ \A d \in DirsIn(t) : \A n \in DOMAIN t.ents[d] : live_inode(t, Ref(t.ents[d][n], GEN_ANY))
    /\ \A x \in DirsIn(t) \ {Root} :
         /\ Cardinality(NamesOf(t, x)) = 1
         /\ \A p \in NamesOf(t, x) : p[1] = t.up[x]

\* The directories are a tree: each but the root has one name, its `..` is
\* the directory that has it, and the way up ends at the root.  Every name
\* leads to an inode that is allocated and in use.
TreeShape == NamesRight(vol) /\ \A x \in Dirs : Climb(vol, x) = Root

\* The counters say what the bitmap and the inodes say: free inodes and
\* directories of each group, free inodes and blocks of the volume, and the
\* references of each attribute block.
CountersExact ==
    /\ \A g \in Groups :
         /\ vol.grp[g].free = Cardinality({ i \in Ino \ vol.bits : GroupOf(i) = g })
         /\ vol.grp[g].dirs = Cardinality({ i \in Dirs : GroupOf(i) = g })
    /\ vol.sb.inodes = Cardinality(Ino \ vol.bits)
    /\ vol.sb.blocks + MapThenSumSet(LAMBDA i : vol.tab[i].blocks, Live)
         + Cardinality({ x \in DOMAIN vol.xref : vol.xref[x] > 0 }) = vol.total
    /\ \A x \in DOMAIN vol.xref :
         vol.xref[x] = Cardinality({ i \in Live : vol.tab[i].acl = x })

\* A volume whose inodes, names and link counts are in order, as far as the
\* operations rely on it.
SoundVolume(t) ==
    /\ DOMAIN t = {"tab", "bits", "ents", "up", "xref", "grp", "sb", "total", "next", "bad"}
    /\ t.bad = "ok" /\ t.bits \subseteq Ino
    /\ DOMAIN t.tab = Ino /\ DOMAIN t.ents = Ino /\ DOMAIN t.up = Ino
    /\ DOMAIN t.grp = Groups
    /\ \A i \in Ino : /\ DOMAIN t.tab[i] = {"kind", "links", "gen", "blocks", "acl", "id"}
                      /\ t.tab[i].links \in Nat
    /\ \A g \in Groups : t.grp[g] \in [free : Int, dirs : Int]
    /\ Root \in DirsIn(t) /\ t.up[Root] = Root /\ NamesOf(t, Root) = {}
    /\ \A x \in DirsIn(t) : t.up[x] \in DirsIn(t)
    /\ \A i \in LiveIn(t) : t.tab[i].kind # "none"
    /\ \A i \in Ino \ DirsIn(t) : DOMAIN t.ents[i] = {}
    /\ IsFiniteSet(Places(t))
    /\ NamesRight(t) /\ LinksRight(t)

=============================================================================

------------------------------- MODULE Fsck --------------------------------
(* The audit and its repairs (fsck.rs) on a damaged volume.  The audit walks *)
(* the directories from the root, counts what names each inode and compares  *)
(* that with the inodes, with `..`, with the checksums of the directory      *)
(* blocks and, group by group, the bitmaps with the counters.  The repair    *)
(* then commits one fix at a time, and a crash may come between any two.     *)
(*                                                                           *)
(* Volume, with metadata_csum and FILETYPE: ino[i] is an inode, dir[i] the   *)
(* blocks of a directory, grp and sb the counters.  The records of a block   *)
(* parse up to upto, its checksum is right or wrong (sum), and it is linear  *)
(* or part of an index (htree).  hurt is not on disk: the block does not     *)
(* hold what was written, in a way the repairs cannot undo.  Names are       *)
(* numbers, in the order of their bytes; some are not UTF-8.                 *)
EXTENDS Integers, FiniteSets, Sequences, SequencesExt, FiniteSetsExt, TLC

CONSTANTS
    InodeMax,          \* inodes are 2 (the root) to InodeMax
    MAX_LINKS, DirNlink,
    NotUtf8,           \* names whose bytes are not UTF-8,
    Replaced,          \* and the name from_utf8_lossy makes of them
    FsckStarts,        \* sound volumes
    Harm(_),           \* what may have gone wrong with one
    Bounds,            \* max_dirs_visited and max_entries_per_dir
    MaxHarm, MaxRuns

VARIABLES
    vol, pc,
    found, todo,       \* findings of the scan, repairs still to make
    edited,            \* a repair of this run changed an entry
    bounds, report,
    harm, runs,        \* things that went wrong, runs so far
    was                \* inodes of the tree that the run must keep

vars == <<vol, pc, found, todo, edited, bounds, report, harm, runs, was>>

Root == 2
Nodes == Root .. InodeMax
Dot == 0
DotDot == 1
NoName == -1

----------------------------------------------------------------------------
(* Reading *)

\* read_inode_verified; no inode has a number the tables do not reach.
Reads(v, i) == i \in Nodes /\ v.ino[i].ok
IsDir(v, i) == v.ino[i].kind = "dir"

\* dir_block_checksum
dir_block_checksum(b) ==
    IF b.sum # "bad" THEN "fine" ELSE IF b.htree THEN "index" ELSE "linear"

\* Mutation: any block is restamped.
AlwaysRestamp(b) == TRUE

\* may_restamp
may_restamp(b) == dir_block_checksum(b) = "fine"

\* dir_block_passes_checks
dir_block_passes_checks(b) == b.upto = Len(b.recs)

Parsed(b) == SubSeq(b.recs, 1, b.upto)

\* collect_dir_entries_checked: the blocks of directory d up to one that
\* fails, which ends the reading; block 0 only ends early.
DirReads(v, d) == \A k \in 2 .. Len(v.dir[d]) : dir_block_passes_checks(v.dir[d][k])

BlocksRead(v, d) ==
    IF DirReads(v, d) THEN Len(v.dir[d])
    ELSE Min({ k \in 2 .. Len(v.dir[d]) : ~ dir_block_passes_checks(v.dir[d][k]) })

Entries(v, d) == FlattenSeq([k \in DOMAIN v.dir[d] |-> Parsed(v.dir[d][k])])

----------------------------------------------------------------------------
(* The walk *)

Bump(f, i) == (i :> 1 + (IF i \in DOMAIN f THEN f[i] ELSE 0)) @@ f
Keep(f, i, x) == IF i \in DOMAIN f THEN f ELSE (i :> x) @@ f

WalkStart ==
    [work |-> << [ino |-> Root, parent |-> Root, name |-> NoName] >>, visited |-> {}, scanned |-> 0,
     observed |-> <<>>, claim |-> <<>>, parent |-> <<>>, partial |-> {}, unread |-> {},
     names |-> {}, found |-> <<>>]

\* One entry of directory d.
Count(s, d, e) ==
    LET t == [s EXCEPT !.observed = Bump(@, IF e.name = Dot THEN d ELSE e.ino)]
    IN  IF e.name = Dot THEN t
        ELSE IF e.name = DotDot THEN [t EXCEPT !.claim = (d :> e.ino) @@ @]
        ELSE [t EXCEPT !.names = @ \cup { <<e.ino, d, e.name>> },
                       !.work = IF e.type = "dir"
                                THEN Append(@, [ino |-> e.ino, parent |-> d, name |-> e.name])
                                ELSE @]

BadSums(v, d) ==
    LET bad == SelectSeq([k \in 1 .. BlocksRead(v, d) |-> k],
                         LAMBDA k : dir_block_checksum(v.dir[d][k]) # "fine")
    IN  [k \in DOMAIN bad |-> [kind |-> "sum", ino |-> d, block |-> bad[k]]]

Unreadable(s, d) ==
    [s EXCEPT !.partial = @ \cup {d}, !.unread = @ \cup {d},
              !.found = Append(@, [kind |-> "unreadable", ino |-> d])]

\* The directory w names, just taken off the stack.
Visit(v, w, s, entries) ==
    LET d    == w.ino
        es   == Entries(v, d)
        t    == [s EXCEPT !.parent = Keep(@, d, w.parent), !.scanned = @ + 1]
        sums == [t EXCEPT !.visited = @ \cup {d}, !.found = @ \o BadSums(v, d)]
        seen == FoldLeft(LAMBDA a, e : Count(a, d, e), sums,
                         SubSeq(es, 1, Min({Len(es), entries})))
    IN  IF ~ Reads(v, d) THEN Unreadable(t, d)
        ELSE IF ~ IsDir(v, d)
        THEN [t EXCEPT !.found = Append(@, [kind |-> "bogus", ino |-> d,
                                            parent |-> w.parent, name |-> w.name])]
        ELSE IF ~ DirReads(v, d) THEN Unreadable(sums, d)
        ELSE IF Len(es) > entries THEN [seen EXCEPT !.partial = @ \cup {d}]
        ELSE seen

\* The loop of audit_inner, up to max_dirs_visited.
RECURSIVE Walk(_, _, _)
Walk(v, s, b) ==
    LET w == Last(s.work)
        t == [s EXCEPT !.work = Front(@)]
    IN  IF s.work = <<>> THEN s
        ELSE IF s.scanned >= b.dirs THEN [t EXCEPT !.partial = @ \cup {w.ino}, !.work = <<>>]
        ELSE IF w.ino \in s.visited THEN Walk(v, t, b)
        ELSE Walk(v, Visit(v, w, t, b.entries), b)

----------------------------------------------------------------------------
(* The findings after the walk *)

\* A set of numbers in order, and a list made for each of them.
InOrder(S) == SelectSeq([k \in 1 .. Max(S \cup {0}) |-> k], LAMBDA k : k \in S)
PerInode(S, F(_)) == LET s == InOrder(S) IN FlattenSeq([k \in DOMAIN s |-> F(s[k])])

\* Mutation: a walk that missed entries lowers counts all the same.
TooHighAnyway(v, s, i) == v.ino[i].links > s.observed[i]

\* A count is only too high if the walk missed nothing.
TooHigh(v, s, i) == v.ino[i].links > s.observed[i] /\ s.partial = {}

TooLow(v, s, i) ==
    /\ v.ino[i].links < s.observed[i]
    /\ ~ (v.ino[i].links = 1 /\ IsDir(v, i) /\ DirNlink)

LinkFindings(v, s) ==
    LET F(i) == IF ~ Reads(v, i)
                THEN IF i \in s.unread THEN <<>> ELSE << [kind |-> "dangling", ino |-> i, seen |-> 0] >>
                ELSE IF v.ino[i].links = 0 THEN << [kind |-> "dangling", ino |-> i, seen |-> s.observed[i]] >>
                ELSE IF TooLow(v, s, i) \/ TooHigh(v, s, i)
                THEN << [kind |-> "links", ino |-> i, seen |-> s.observed[i]] >>
                ELSE <<>>
    IN  PerInode(DOMAIN s.observed, F)

\* The names of an inode, by directory and then by name.
NamesOf(s, i) ==
    LET names == { n \in s.names : n[1] = i }
        In(d) == InOrder({ n[3] : n \in { m \in names : m[2] = d } })
        F(d)  == [k \in DOMAIN In(d) |-> <<d, In(d)[k]>>]
    IN  PerInode({ n[2] : n \in names }, F)

\* String::from_utf8_lossy
from_utf8_lossy(n) == IF n \in NotUtf8 THEN Replaced ELSE n

\* A directory with more than one name; the finding has them as strings.
DuplicateFindings(v, s) ==
    LET names(i) == [k \in DOMAIN NamesOf(s, i) |->
                        <<NamesOf(s, i)[k][1], from_utf8_lossy(NamesOf(s, i)[k][2])>>]
        F(i) == IF Len(NamesOf(s, i)) > 1 /\ Reads(v, i) /\ IsDir(v, i)
                THEN << [kind |-> "dup", ino |-> i, names |-> names(i)] >> ELSE <<>>
    IN  PerInode({ n[1] : n \in s.names }, F)

DotDotFindings(v, s) ==
    LET Truth(d) == IF d = Root THEN Root ELSE s.parent[d]
        F(d) == IF s.claim[d] # Truth(d)
                THEN << [kind |-> "dotdot", ino |-> d, to |-> Truth(d)] >> ELSE <<>>
    IN  PerInode(DOMAIN s.claim, F)

\* audit_free_counts: an uninitialised group's bitmap is not read.
FreeBlocks(g) == IF g.block_uninit THEN g.meta ELSE g.bmap
FreeInodes(g) == IF g.inode_uninit THEN g.ipg ELSE g.imap

audit_free_counts(v) ==
    LET off(g) == v.grp[g].blocks # FreeBlocks(v.grp[g]) \/ v.grp[g].inodes # FreeInodes(v.grp[g])
        bad == SelectSeq([g \in DOMAIN v.grp |-> g], off)
        sum == [blocks |-> MapThenSumSet(LAMBDA g : FreeBlocks(v.grp[g]), DOMAIN v.grp),
                inodes |-> MapThenSumSet(LAMBDA g : FreeInodes(v.grp[g]), DOMAIN v.grp)]
    IN  [k \in DOMAIN bad |-> [kind |-> "group", group |-> bad[k],
                               blocks |-> FreeBlocks(v.grp[bad[k]]),
                               inodes |-> FreeInodes(v.grp[bad[k]])]]
        \o (IF v.sb = sum THEN <<>> ELSE << [kind |-> "sb", sum |-> sum] >>)

\* audit_inner
Audit(v, b) ==
    LET s == Walk(v, WalkStart, b)
    IN  s.found \o LinkFindings(v, s) \o DuplicateFindings(v, s) \o DotDotFindings(v, s)
        \o audit_free_counts(v)

----------------------------------------------------------------------------
(* The repairs.  Each is one commit: the volume as it leaves it, whether it  *)
(* changed an entry, and whether it failed, which ends the run.  An edit     *)
(* stamps its block.                                                         *)

Left(v) == [v |-> v, edit |-> FALSE, bad |-> FALSE]
Edited(v) == [Left(v) EXCEPT !.edit = TRUE]
Failed(v) == [Left(v) EXCEPT !.bad = TRUE]

\* The block of d with a record for n, and that record's place in it.
Holders(v, d, n) ==
    { k \in DOMAIN v.dir[d] : \E j \in 1 .. v.dir[d][k].upto : v.dir[d][k].recs[j].name = n }
Place(b, n) == CHOOSE j \in 1 .. b.upto : b.recs[j].name = n

\* repair_dir_block_checksum
repair_dir_block_checksum(v, d, k) ==
    IF dir_block_checksum(v.dir[d][k]) = "linear" /\ dir_block_passes_checks(v.dir[d][k])
    THEN Left([v EXCEPT !.dir[d][k].sum = "ok"]) ELSE Left(v)

\* repair_duplicate_dir_inode, one name of the ones to go.
Unalias(v, d, n) ==
    LET k == Min(Holders(v, d, n))
    IN  IF ~ Reads(v, d) THEN Failed(v)
        ELSE IF ~ IsDir(v, d) \/ Holders(v, d, n) = {} THEN Left(v)
        ELSE IF ~ may_restamp(v.dir[d][k]) THEN Left(v)
        ELSE Edited([v EXCEPT !.dir[d][k].recs = RemoveAt(@, Place(v.dir[d][k], n)),
                              !.dir[d][k].upto = @ - 1, !.dir[d][k].sum = "ok"])

\* ... and the count of the directory that keeps one, by count_subdirs.
Relink(v, i) ==
    LET subdirs == SelectSeq(Entries(v, i), LAMBDA e : /\ e.name \notin {Dot, DotDot}
                                                       /\ e.type = "dir"
                                                       /\ Reads(v, e.ino) /\ IsDir(v, e.ino))
    IN  IF ~ Reads(v, i) THEN Failed(v)
        ELSE IF ~ IsDir(v, i) THEN Left(v)
        ELSE IF ~ DirReads(v, i) THEN Failed(v)
        ELSE Left([v EXCEPT !.ino[i].links = 2 + Len(subdirs)])

\* repair_wrong_dotdot
repair_wrong_dotdot(v, d, to) ==
    LET b == v.dir[d][1]
    IN  IF ~ Reads(v, d) THEN Failed(v)
        ELSE IF ~ IsDir(v, d) \/ ~ may_restamp(b) \/ 1 \notin Holders(v, d, DotDot) THEN Left(v)
        ELSE Edited([v EXCEPT !.dir[d][1].recs[Place(b, DotDot)].ino = to, !.dir[d][1].sum = "ok"])

\* repair_bogus_entry
repair_bogus_entry(v, d, i, n) ==
    LET k == Min(Holders(v, d, n))
    IN  IF ~ Reads(v, d) THEN Failed(v)
        ELSE IF ~ IsDir(v, d) \/ ~ Reads(v, i) \/ Holders(v, d, n) = {} THEN Left(v)
        ELSE IF v.ino[i].kind = "dir" \/ ~ may_restamp(v.dir[d][k]) THEN Left(v)
        ELSE Edited([v EXCEPT !.dir[d][k].recs[Place(v.dir[d][k], n)].type = v.ino[i].kind,
                              !.dir[d][k].sum = "ok"])

\* repair_link_count: never to 0, and a directory past the limit to 1.
repair_link_count(v, i, seen) ==
    IF seen = 0 THEN Left(v)
    ELSE IF ~ Reads(v, i) THEN Failed(v)
    ELSE IF IsDir(v, i) /\ seen > MAX_LINKS
    THEN IF DirNlink THEN Left([v EXCEPT !.ino[i].links = 1]) ELSE Left(v)
    ELSE Left([v EXCEPT !.ino[i].links = seen])

\* repair_block_group_free_counts and repair_superblock_free_counts
repair_counts(v, f) ==
    Left(IF f.kind = "sb" THEN [v EXCEPT !.sb = f.sum]
          ELSE [v EXCEPT !.grp[f.group].blocks = f.blocks, !.grp[f.group].inodes = f.inodes])

Fix(v, f) ==
    CASE f.kind = "sum"    -> repair_dir_block_checksum(v, f.ino, f.block)
      [] f.kind = "alias"  -> Unalias(v, f.dir, f.name)
      [] f.kind = "relink" -> Relink(v, f.ino)
      [] f.kind = "dotdot" -> repair_wrong_dotdot(v, f.ino, f.to)
      [] f.kind = "bogus"  -> repair_bogus_entry(v, f.parent, f.ino, f.name)
      [] f.kind \in {"links", "dangling"} -> repair_link_count(v, f.ino, f.seen)
      [] f.kind \in {"group", "sb"} -> repair_counts(v, f)

OfKind(fs, kinds) == SelectSeq(fs, LAMBDA f : f.kind \in kinds)

\* Mutation: the first name goes too.
DropAll(f) ==
    Append([k \in DOMAIN f.names |-> [kind |-> "alias", dir |-> f.names[k][1], name |-> f.names[k][2]]],
           [kind |-> "relink", ino |-> f.ino])

\* All the names but the first, then the count.
Drops(f) ==
    Append([k \in 1 .. Len(f.names) - 1 |->
               [kind |-> "alias", dir |-> f.names[k + 1][1], name |-> f.names[k + 1][2]]],
           [kind |-> "relink", ino |-> f.ino])

\* The entries to edit; `..` follows the name that is kept.
EntryEdits(fs) ==
    LET kept(i) == { f \in Range(fs) : f.kind = "dup" /\ f.ino = i }
        Edit(f) == CASE f.kind = "dup" -> Drops(f)
                     [] f.kind = "dotdot" /\ kept(f.ino) # {} ->
                          << [f EXCEPT !.to = (CHOOSE g \in kept(f.ino) : TRUE).names[1][1]] >>
                     [] OTHER -> <<f>>
        es == OfKind(fs, {"dup", "dotdot", "bogus"})
    IN  FlattenSeq([k \in DOMAIN es |-> Edit(es[k])])

----------------------------------------------------------------------------
(* audit_with_repair *)

\* The records of directory d, whatever can be read of them, and the inodes
\* they name.
Records(v, d) == IF IsDir(v, d) THEN FlattenSeq([k \in DOMAIN v.dir[d] |-> v.dir[d][k].recs]) ELSE <<>>
Named(recs) == { e.ino : e \in { r \in Range(recs) : r.name \notin {Dot, DotDot} } }

\* The inodes below those of S, held[d] being the ones directory d names.
RECURSIVE Below(_, _)
Below(S, held) ==
    LET T == S \cup UNION { held[d] : d \in S } IN IF T = S THEN S ELSE Below(T, held)

Reach(v, S) == Below(S, [d \in Nodes |-> Named(Records(v, d))])

\* Directories of the tree whose first name is inside themselves: it is the
\* one a repair keeps.
Swallowed(v) ==
    LET tree == Reach(v, {Root})
        In(i) == { d \in tree : i \in Named(Records(v, d)) }
    IN  { i \in tree \ {Root} : IsDir(v, i) /\ Min(In(i)) \in Reach(v, {i}) }

\* Inodes with a name that from_utf8_lossy makes of another in its directory.
Mistaken(v) ==
    UNION { { e.ino : e \in { r \in Range(Records(v, d)) : r.name = Replaced } } :
            d \in { c \in Nodes : \E e \in Range(Records(v, c)) : e.name \in NotUtf8 } }

\* The tree, without what hangs on those.
Kept(v) == Reach(v, {Root}) \ Reach(v, Swallowed(v) \cup Mistaken(v))

NoBounds == [dirs |-> 0, entries |-> 0]
NoReport == [left |-> <<>>, within |-> NoBounds, again |-> FALSE]

\* Bounds no walk of the volume meets.
Whole(b) == b.dirs > 2 * InodeMax /\ b.entries > InodeMax

\* A run is over and what it knew is gone.
Ended == pc' = "idle" /\ found' = <<>> /\ edited' = FALSE /\ bounds' = NoBounds

\* Before the first run, something goes wrong with the volume.
Hurt ==
    /\ runs = 0 /\ pc = "idle" /\ harm < MaxHarm
    /\ harm' = harm + 1
    /\ vol' \in Harm(vol)
    /\ UNCHANGED <<pc, found, todo, edited, bounds, report, runs, was>>

\* The scan; without repair it would be all, and changes nothing.
Scan ==
    /\ pc = "idle" /\ runs < MaxRuns
    /\ runs' = runs + 1
    /\ \E b \in Bounds :
         /\ bounds' = b
         /\ found' = Audit(vol, b)
    /\ was' = Kept(vol)
    /\ report' = [NoReport EXCEPT !.again = Whole(report.within)]
    /\ pc' = "sums"
    /\ todo' = OfKind(found', {"sum"})
    /\ UNCHANGED <<vol, edited, harm>>

\* The next repair of the phase.
Repair ==
    LET r == Fix(vol, todo[1])
    IN  /\ pc # "idle" /\ todo # <<>>
        /\ vol' = r.v
        /\ todo' = IF r.bad THEN <<>> ELSE Tail(todo)
        /\ IF r.bad THEN Ended ELSE UNCHANGED <<pc, found, bounds>> /\ edited' = (edited \/ r.edit)
        /\ UNCHANGED <<report, harm, runs, was>>

Checked == pc = "sums" /\ todo = <<>>
           /\ pc' = "edits" /\ todo' = EntryEdits(found)
           /\ UNCHANGED <<vol, found, edited, bounds, report, harm, runs, was>>

\* Mutation: the counts of the first scan.
NoRecount(v, b) == found

\* The findings the counts are repaired by.
CountsFrom(v, b) == IF edited THEN Audit(v, b) ELSE found

Recount == pc = "edits" /\ todo = <<>>
           /\ pc' = "counts"
           /\ found' = CountsFrom(vol, bounds)
           /\ todo' = OfKind(found', {"links", "dangling", "group", "sb"})
           /\ UNCHANGED <<vol, edited, bounds, report, harm, runs, was>>

Rescan == pc = "counts" /\ todo = <<>>
          /\ report' = [report EXCEPT !.left = Audit(vol, bounds), !.within = bounds]
          /\ Ended
          /\ UNCHANGED <<vol, todo, harm, runs, was>>

\* The process dies between two commits.
Crash == pc # "idle"
         /\ todo' = <<>>
         /\ Ended
         /\ UNCHANGED <<vol, report, harm, runs, was>>

Init ==
    /\ vol \in FsckStarts
    /\ pc = "idle" /\ found = <<>> /\ todo = <<>> /\ edited = FALSE
    /\ bounds = NoBounds
    /\ report = NoReport
    /\ harm = 0 /\ runs = 0
    /\ was = Kept(vol)

Next == Hurt \/ Scan \/ Repair \/ Checked \/ Recount \/ Rescan \/ Crash

Spec == Init /\ [][Next]_vars

----------------------------------------------------------------------------
(* Properties *)

\* No repair, and no crash between two, takes an inode out of the tree: of a
\* directory's names one that leads to it is always left.  Two cases are left
\* out (see Kept): the first name is inside the directory itself, or the name
\* to go is not UTF-8 and its string is the name of something else.
NothingLost == pc # "idle" => was \subseteq Reach(vol, {Root})

\* A directory block that no longer holds what was written never gets a
\* checksum that says it does, whatever else the repairs change in it.
NothingLaundered ==
    \A d \in DOMAIN vol.dir : \A k \in DOMAIN vol.dir[d] :
        vol.dir[d][k].hurt => vol.dir[d][k].sum # "ok"

\* Findings that stay: no repair may touch the block or the inode, or none
\* finds the name, which is not UTF-8.  A directory that keeps a second name
\* stays in doubt: Relink counts it without that name and the next run with it,
\* and `..` follows the first name or the one the walk came by.
Declined(v, f) ==
    LET twice == \E g \in Range(report.left) : g.kind = "dup" /\ g.ino = f.ino
    IN
    CASE f.kind = "sum"        -> v.dir[f.ino][f.block].hurt
      [] f.kind = "unreadable" -> TRUE
      [] f.kind = "dangling"   -> f.seen = 0
      [] f.kind = "links"      -> twice
      [] f.kind = "dotdot"     -> twice \/ ~ may_restamp(v.dir[f.ino][1])
      [] f.kind = "bogus"      -> \E k \in Holders(v, f.parent, f.name) : ~ may_restamp(v.dir[f.parent][k])
      [] f.kind = "dup"        -> \E k \in 2 .. Len(f.names) :
                                     LET in == Holders(v, f.names[k][1], f.names[k][2])
                                     IN  in = {} \/ \E b \in in : ~ may_restamp(v.dir[f.names[k][1]][b])
      [] OTHER -> FALSE

\* Two runs are enough: what a repair that met no bound lists at its end is
\* only what every repair declines, and after the first run of two the `..` of
\* directories that lost the name it followed.
Settles ==
    Whole(report.within)
        => \A f \in Range(report.left) : Declined(vol, f) \/ (f.kind = "dotdot" /\ ~ report.again)

\* The records the audit takes directory d to have when it calls it read: a
\* first block ends where it stops parsing.
Shown(v, d) ==
    IF IsDir(v, d)
    THEN FlattenSeq([k \in DOMAIN v.dir[d] |-> IF k = 1 THEN Parsed(v.dir[d][k]) ELSE v.dir[d][k].recs])
    ELSE <<>>

\* What names i in the directories of the tree, `.` and `..` included, but for
\* the records past such an end.
TrueCount(v, i) ==
    MapThenSumSet(LAMBDA d : Len(SelectSeq(Shown(v, d), LAMBDA e : e.ino = i)),
                  Below({Root}, [d \in Nodes |-> Named(Shown(v, d))]))

\* The counts phase lowers a link count only to what really names the inode:
\* a walk that could not read a directory, or stopped at its bounds, lowers
\* none; a first block that stops parsing does not make the walk such a one.
\* In a directory past MAX_LINKS 1 stands for a count too high to keep.  What
\* Relink writes between two edits is not judged here, as some `..` are still
\* to be moved: the counts phase follows it, and Settles says what is left.
NeverUndercounts ==
    [][pc = "counts" => \A i \in Nodes :
         vol'.ino[i].links < vol.ino[i].links
         => \/ vol'.ino[i].links >= TrueCount(vol, i)
            \/ vol'.ino[i].links = 1 /\ IsDir(vol, i) /\ TrueCount(vol, i) > MAX_LINKS]_vars
=============================================================================

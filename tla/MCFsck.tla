------------------------------ MODULE MCFsck -------------------------------
(* Instances of Fsck: a small tree with a hard link, an indexed directory    *)
(* and a group whose bitmaps were never written.                             *)
EXTENDS Fsck

Rec(n, i, t) == [name |-> n, ino |-> i, type |-> t]
Block(recs, htree) ==
    [recs |-> recs, upto |-> Len(recs), sum |-> "ok", htree |-> htree, hurt |-> FALSE]
Node(kind, links) == [kind |-> kind, links |-> links, ok |-> TRUE]
Group(uninit, blocks) ==
    [block_uninit |-> uninit, inode_uninit |-> uninit, ipg |-> 4,
     bmap |-> IF uninit THEN 7 ELSE blocks, meta |-> blocks, imap |-> IF uninit THEN 1 ELSE 2,
     blocks |-> blocks, inodes |-> IF uninit THEN 4 ELSE 2]

\* 3 and 5 are directories of the root, 4 a file with a name in 2 and in 3,
\* 6 a file and 7 a directory in 5, whose first block is an index.
Tree ==
    [ino |-> 2 :> Node("dir", 4) @@ 3 :> Node("dir", 2) @@ 4 :> Node("file", 2)
             @@ 5 :> Node("dir", 3) @@ 6 :> Node("file", 1) @@ 7 :> Node("dir", 2),
     dir |-> 2 :> << Block(<<Rec(Dot, 2, "dir"), Rec(DotDot, 2, "dir"), Rec(12, 3, "dir")>>, FALSE),
                     Block(<<Rec(10, 4, "file"), Rec(11, 5, "dir")>>, FALSE) >>
             @@ 3 :> << Block(<<Rec(Dot, 3, "dir"), Rec(DotDot, 2, "dir"), Rec(10, 4, "file")>>, FALSE) >>
             @@ 5 :> << Block(<<Rec(Dot, 5, "dir"), Rec(DotDot, 2, "dir")>>, TRUE),
                        Block(<<Rec(10, 6, "file"), Rec(11, 7, "dir")>>, FALSE) >>
             @@ 7 :> << Block(<<Rec(Dot, 7, "dir"), Rec(DotDot, 5, "dir")>>, FALSE) >>,
     grp |-> << Group(FALSE, 3), Group(TRUE, 5) >>,
     sb  |-> [blocks |-> 8, inodes |-> 6]]

\* 6 is a directory of the root and 3 one of 6, with a lower number; 4 is a
\* file in 3, 7 one in 6, and 5 one in the root whose name is Replaced.
Deep ==
    [ino |-> 2 :> Node("dir", 3) @@ 3 :> Node("dir", 2) @@ 4 :> Node("file", 1)
             @@ 5 :> Node("file", 1) @@ 6 :> Node("dir", 3) @@ 7 :> Node("file", 1),
     dir |-> 2 :> << Block(<<Rec(Dot, 2, "dir"), Rec(DotDot, 2, "dir"), Rec(11, 6, "dir"),
                             Rec(Replaced, 5, "file")>>, FALSE) >>
             @@ 3 :> << Block(<<Rec(Dot, 3, "dir"), Rec(DotDot, 6, "dir"), Rec(10, 4, "file")>>, FALSE) >>
             @@ 6 :> << Block(<<Rec(Dot, 6, "dir"), Rec(DotDot, 2, "dir"), Rec(10, 7, "file")>>, FALSE),
                        Block(<<Rec(11, 3, "dir")>>, FALSE) >>,
     grp |-> << Group(FALSE, 3), Group(TRUE, 5) >>,
     sb  |-> [blocks |-> 8, inodes |-> 6]]

MCStarts == {Tree, Deep}

MCBounds == { [dirs |-> d, entries |-> e] : d, e \in {3, 99} }

BlocksOf(v) == UNION { { <<d, k>> : k \in DOMAIN v.dir[d] } : d \in DOMAIN v.dir }
Cut(v, d, k) ==
    [v EXCEPT !.dir[d][k].upto = Len(v.dir[d][k].recs) - 1, !.dir[d][k].sum = "bad",
              !.dir[d][k].hurt = TRUE]

\* A count that is off, an inode that does not read, a wrong `..`, an entry
\* with the wrong type, a checksum that is off, an index or a later block that
\* is damaged, counters that drifted.
Wrong(v) ==
    { [v EXCEPT !.ino[i].links = n] : i \in {2, 4, 5}, n \in {0, 1, 2, 5} }
    \cup { [v EXCEPT !.ino[i].ok = FALSE] : i \in {4, 5} }
    \cup { [v EXCEPT !.dir[d][1].recs[2].ino = 3] : d \in {5, 7} }
    \cup { [v EXCEPT !.dir[3][1].recs[3].type = "dir"], [v EXCEPT !.dir[2][2].recs[1].type = "dir"] }
    \cup { [v EXCEPT !.dir[p[1]][p[2]].sum = "bad", !.dir[p[1]][p[2]].hurt = @ \/ v.dir[p[1]][p[2]].htree]
           : p \in BlocksOf(v) }
    \cup { Cut(v, p[1], p[2]) : p \in { q \in BlocksOf(v) : q[2] > 1 } }
    \cup { [v EXCEPT !.grp[1].blocks = 1], [v EXCEPT !.sb.inodes = 9] }

\* Directory i gets another name, in block k of d, if that block is sound.
Alias(v, d, k, i) ==
    IF ~ dir_block_passes_checks(v.dir[d][k]) THEN {}
    ELSE LET n == CHOOSE m \in 13 .. 20 : Holders(v, d, m) = {} /\ (m > 13 => Holders(v, d, m - 1) # {})
         IN  {[v EXCEPT !.dir[d][k].recs = Append(@, Rec(n, i, "dir")), !.dir[d][k].upto = @ + 1]}

\* ... or one that is not UTF-8.
AliasRaw(v, d, k, i) ==
    IF ~ dir_block_passes_checks(v.dir[d][k]) \/ Holders(v, d, 21) # {} THEN {}
    ELSE {[v EXCEPT !.dir[d][k].recs = Append(@, Rec(21, i, "dir")), !.dir[d][k].upto = @ + 1]}

\* A first block that does not parse to its end, and directories with two
\* names, in one parent or in two.
Awry(v) ==
    { Cut(v, d, 1) : d \in {3, 7} }
    \cup Alias(v, 2, 2, 3) \cup Alias(v, 5, 2, 7)
    \cup Alias(v, 2, 1, 7) \cup Alias(v, 5, 2, 3) \cup Alias(v, 3, 1, 5)
    \cup AliasRaw(v, 5, 2, 7)

\* ... and, in the second tree, names inside the directory itself.
AwryDeep(v) ==
    Alias(v, 3, 1, 3) \cup Alias(v, 3, 1, 6) \cup Alias(v, 2, 1, 3)
    \cup AliasRaw(v, 2, 1, 6) \cup AliasRaw(v, 6, 2, 3)
    \cup { [v EXCEPT !.ino[i].links = n] : i \in {3, 4, 6}, n \in {1, 4} }
    \cup { [v EXCEPT !.dir[3][1].recs[2].ino = 2] } \cup { Cut(v, 6, 2), Cut(v, 3, 1) }

MCHarm(v) == IF IsDir(v, 5) THEN Wrong(v) \cup Awry(v) ELSE AwryDeep(v)

\* NothingLost without its two cases.
TreeKept == [][pc # "idle" => Reach(vol, {Root}) \subseteq Reach(vol', {Root})]_vars

\* Settles for a single run ("a subsequent audit returns clean").
SettlesOnce == Whole(report.within) => \A f \in Range(report.left) : Declined(vol, f)

\* NeverUndercounts when a first block may stop parsing.
CountsAll ==
    [][pc = "counts" => \A i \in {4} : vol'.ino[i].links < vol.ino[i].links
         => vol'.ino[i].links >= Cardinality({ d \in Reach(vol, {Root}) : i \in Named(Records(vol, d)) })]_vars
============================================================================

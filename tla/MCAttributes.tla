---------------------------- MODULE MCAttributes ----------------------------
(* Instances of Attributes: two files that share a block and, as the third,  *)
(* an inode without extra fields yet, one of the small inodes that never     *)
(* have them, or one with an attribute in an EA inode.                       *)
EXTENDS Attributes

MCClass == [n \in Attrs |-> CASE n = "user." -> "nosuffix" [] n = "bad" -> "noprefix"
                              [] n = "long" -> "toolong" [] OTHER -> "ok"]
MCNameUnits == [n \in Attrs |-> CASE n = "a" -> 1 [] n = "b" -> 2 [] OTHER -> 3]
MCValueUnits == [v \in Values \cup {"ea"} |-> CASE v = "empty" -> 0 [] v = "small" -> 1 [] OTHER -> 3]

Plain == [live |-> TRUE, extra |-> TRUE, wide |-> TRUE, area |-> <<>>, acl |-> 0, blocks |-> 0]
Gone == [used |-> FALSE, refs |-> 0, cells |-> <<>>]
Shared == [used |-> TRUE, refs |-> 2,
           cells |-> encode(<<Entry("a", "small"), Entry("c", "big")>>, BlockUnits)]

Sharing(third) ==
    [file  |-> [f \in Files |-> IF f = 3 THEN third ELSE [Plain EXCEPT !.acl = 1, !.blocks = 1]],
     block |-> [b \in Blocks |-> IF b = 1 THEN Shared ELSE Gone],
     free  |-> Cardinality(Blocks) - 1,
     flag  |-> TRUE,
     bad   |-> ""]

Backed == [Plain EXCEPT !.area = encode(<<EaEntry("a", "ea")>>, AreaUnits)]

Third == { [Plain EXCEPT !.extra = FALSE],
           [Plain EXCEPT !.extra = FALSE, !.wide = FALSE],
           Backed }

MCStarts == { Sharing(x) : x \in Third }

\* An inode whose extra fields, where it declares none, hold other bytes.
Stat(isize) ==
    [isize |-> isize, type |-> "file", perm |-> "rw", flags |-> {"extents"},
     uid |-> <<0, 1>>, gid |-> <<1, 0>>,
     base |-> [t \in {"a", "m", "c"} |-> 1],
     ext |-> [t \in {"a", "m", "c"} |-> [ns |-> IF isize = 0 THEN 1 ELSE 0,
                                         era |-> IF isize = 0 THEN 1 ELSE 0]]]

\* i_extra_isize of the third file: none, the mtime's field, or all of them.
MCStats == { [f \in Files |-> Stat(IF f = 3 THEN n ELSE 32)] : n \in {0, 12, 32} }

T(sec, ns) == [sec |-> sec, nsec |-> ns]
MCTimes == { <<T(0, UTIME_OMIT), T(0, UTIME_OMIT)>>, <<T(0, UTIME_NOW), T(0, UTIME_OMIT)>>,
             <<T(MinTime, 1), T(-1, 2)>>, <<T(MaxTime, 3), T(HalfEra, 1)>>,
             <<T(5, 0), T(Era, 2)>>, <<T(0, UTIME_OMIT), T(MaxTime + 1, 0)>>,
             <<T(TIME_OMIT, NsecPerSec), T(0, 0)>>, <<T(0, NsecPerSec), T(0, 0)>>,
             <<T(HalfEra - 1, 0), T(0, UTIME_NOW)>> }
=============================================================================

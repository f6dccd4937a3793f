------------------------------ MODULE MCCapi ------------------------------
(* An instance of Capi: a volume with two empty directories, and one with two *)
(* files that share an attribute block, a hard link and a directory at the   *)
(* link limit.                                                               *)
EXTENDS Capi, TLC

Blank == [kind |-> "none", links |-> 0, gen |-> 0, blocks |-> 0, acl |-> 0, id |-> 0]
File(links, blocks, acl, id, gen) ==
    [kind |-> "file", links |-> links, gen |-> gen, blocks |-> blocks, acl |-> acl, id |-> id]
Dir(links, id) ==
    [kind |-> "dir", links |-> links, gen |-> 0, blocks |-> 1, acl |-> 0, id |-> id]

\* A volume of these inodes; the counters are what they should be.
Volume(tab, ents, up, refs) ==
    LET used == DOMAIN tab \cup {1}
        dirs == { i \in DOMAIN tab : tab[i].kind = "dir" }
        held == MapThenSumSet(LAMBDA i : tab[i].blocks, DOMAIN tab) + (IF refs > 0 THEN 1 ELSE 0)
    IN  [tab  |-> [i \in Ino |-> IF i \in DOMAIN tab THEN tab[i] ELSE Blank],
         bits |-> used,
         ents |-> [i \in Ino |-> IF i \in DOMAIN ents THEN ents[i] ELSE <<>>],
         up   |-> [i \in Ino |-> IF i \in DOMAIN up THEN up[i] ELSE Root],
         xref |-> [x \in {1, 2} |-> IF x = 1 THEN refs ELSE 0],
         grp  |-> [g \in Groups |-> [free |-> Cardinality({ i \in Ino \ used : GroupOf(i) = g }),
                                     dirs |-> Cardinality({ i \in dirs : GroupOf(i) = g })]],
         sb   |-> [inodes |-> Cardinality(Ino \ used), blocks |-> 3],
         total |-> held + 3,
         next |-> 10,
         bad  |-> "ok"]

\* Two empty directories.
Pair == Volume((2 :> Dir(4, 1)) @@ (3 :> Dir(2, 2)) @@ (4 :> Dir(2, 3)),
               2 :> (("a" :> 3) @@ ("b" :> 4)), (2 :> 2) @@ (3 :> 2) @@ (4 :> 2), 0)

\* /a is a directory with a file and a subdirectory, /b a hard link of a file
\* of it; lost+found is still there, so the root is at the limit.  The file of
\* /a/a has a generation of another process, gen.
Built(gen) ==
    Volume((2 :> Dir(4, 1)) @@ (3 :> Dir(3, 2)) @@ (4 :> File(2, 1, 1, 3, Seed)) @@ (5 :> Dir(2, 4))
               @@ (6 :> File(1, 0, 1, 5, gen)) @@ (7 :> Dir(2, 6)),
           (2 :> (("a" :> 3) @@ ("b" :> 4) @@ ("lost+found" :> 7)))
               @@ (3 :> (("a" :> 5) @@ ("b" :> 4))) @@ (5 :> ("a" :> 6)),
           (2 :> 2) @@ (3 :> 2) @@ (5 :> 3) @@ (7 :> 2), 2)

\* One this process does not come to, and the first one it gives out.
MCStarts == {Pair, Built(Seed), Built(Seed + 1)}
MCPaths == { <<>>, <<"a">>, <<"b">>, <<"a", "a">> }
MCOrder == <<".", "..", "a", "b", "lost+found">>
============================================================================

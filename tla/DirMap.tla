------------------------------- MODULE DirMap --------------------------------
(***************************************************************************)
(* What a directory promises its callers: a finite map from names to inode *)
(* numbers and the number of its parent.  A call that succeeds does to the *)
(* names it was given what it was asked to, and nothing to any other; one  *)
(* that fails changes nothing, and says "exists" or "notfound" exactly     *)
(* when that is so.                                                        *)
(***************************************************************************)
CONSTANTS Names, Inos, Parents

VARIABLES
    entries, parent,
    call,  \* the call answered last, with what it was given
    res    \* its answer

Without(n) == [m \in DOMAIN entries \ {n} |-> entries[m]]

With(f, n, i) == [m \in DOMAIN f \cup {n} |-> IF m = n THEN i ELSE f[m]]

Init ==
    /\ \E S \in SUBSET Names : entries \in [S -> Inos]
    /\ parent \in Parents
    /\ call = <<>> /\ res = "ok"

\* The answer is why when that is the case, and never otherwise; any other
\* failure (no space) may come.
Answers(why, holds) == (res' = why <=> holds) /\ (res' # "ok" => UNCHANGED entries)

Add(n, i) ==
    /\ call' = <<"add", n, i>>
    /\ Answers("exists", n \in DOMAIN entries)
    /\ res' = "ok" => entries' = With(entries, n, i)
    /\ UNCHANGED parent

Remove(n) ==
    /\ call' = <<"remove", n>>
    /\ Answers("notfound", n \notin DOMAIN entries)
    /\ res' = "ok" => entries' = Without(n)
    /\ UNCHANGED parent

\* The entry of src moves to dst, over what dst named if it may.
Rename(src, dst, replace) ==
    /\ call' = <<"rename", src, dst, replace>>
    /\ Answers("notfound", src \notin DOMAIN entries)
    /\ Answers("exists", src # dst /\ {src, dst} \subseteq DOMAIN entries /\ ~ replace)
    /\ res' = "ok" =>
         entries' = IF src = dst THEN entries ELSE With(Without(src), dst, entries[src])
    /\ UNCHANGED parent

MoveTo(p) ==
    /\ call' = <<"move", p>>
    /\ parent' = IF res' = "ok" THEN p ELSE parent
    /\ UNCHANGED entries

Next ==
    \/ \E n \in Names, i \in Inos : Add(n, i)
    \/ \E n \in Names : Remove(n)
    \/ \E src, dst \in Names, replace \in BOOLEAN : Rename(src, dst, replace)
    \/ \E p \in Parents : MoveTo(p)

Spec == Init /\ [][Next]_<<entries, parent, call, res>>
==============================================================================

------------------------------ MODULE MCContent ------------------------------
(* Instances of Content: one file of up to five blocks of two cells. *)
EXTENDS Content

\* Where the free space is: one long run, single blocks only, nearly none.
Scattered == { 2 * i : i \in 1 .. 11 }
NearlyFull == (1 .. 24) \ {3, 7, 8, 12, 17}

\* Single blocks preallocated far apart, enough of them to split a leaf.
Apart == << <<0, 2>>, <<4, 2>>, <<8, 2>>, <<12, 2>> >>

Start(f, u, k) == [flavour |-> f, used |-> u, kept |-> k]

MCStarts ==
    { Start("extents", {}, <<>>), Start("extents", Scattered, <<>>),
      Start("extents", NearlyFull, <<>>), Start("extents", {}, Apart),
      Start("inline", NearlyFull, <<>>), Start("map", {17}, <<>>) }

MCWrites == { <<0, 2>>, <<3, 2>>, <<4, 6>>, <<9, 1>>, <<0, 12>> }
MCSizes == { 1, 3, 6, 10 }
MCRanges == { <<1, 4>>, <<2, 2>>, <<4, 5>> }
\* Ranges that meet each other and those preallocated apart, inside a leaf and
\* across two.
MCPrealloc == { <<2, 2>>, <<6, 2>>, <<4, 4>>, <<6, 4>> }

MCReplaces == [f \in Flavours |->
    IF f = "map" THEN {0, 1, 3, 5, 9, 16} ELSE IF f = "inline" THEN {1, 2, 5} ELSE {0, 3, 6}]
==============================================================================

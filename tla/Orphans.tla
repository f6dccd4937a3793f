------------------------------- MODULE Orphans -------------------------------
(***************************************************************************)
(* Orphan recovery at mount (recover_orphans, fs.rs) over a commit that is *)
(* atomic (a journal) or written in flushed stages (write_direct), cut by  *)
(* crashes and device errors and retried by the next mount.                *)
(*                                                                         *)
(* What is on the device is kept per block that is written as one unit:    *)
(* the superblock (chain head, free-inode count), the inode bitmap, the    *)
(* descriptor block, each inode-table block, and the block bitmap holding  *)
(* each member's surplus blocks.  i_dtime is a link to the next member, 0, *)
(* or a deletion time, which is larger than every inode number.            *)
(***************************************************************************)
EXTENDS Naturals, Sequences, FiniteSets

CONSTANTS
  N,          \* s_inodes_count
  TabOf,      \* the inode-table block of each inode
  Doubtful,   \* inodes that may have a body or a block map that cannot be read
  Pointers,   \* inodes that may be mapped by pointers, as ext2 and ext3 do
  MaxCuts     \* bound on crashes and errors

Ino == 1..N
Time == N + 1

ASSUME OrphansAssumption ==
  /\ N \in Nat /\ MaxCuts \in Nat
  /\ DOMAIN TabOf = Ino
  /\ Doubtful \subseteq Ino
  /\ Pointers \subseteq Ino

VARIABLES
  journaled,  \* whether the volume has a journal
  body,       \* the inodes that do not parse
  map,        \* the inodes whose block map cannot be read
  legacy,     \* the inodes that map their blocks by pointers, not extents
  disk,       \* what is durable
  new,        \* the BlockBuffer being committed: the state it leads to
  pc,         \* "down", "plan", "early", "late", "mounted", "failed"
  chain,      \* the members recover_orphans walks
  at,         \* the one it is at
  unstamped,  \* the member passed last and its final i_dtime, as a set
  cuts,       \* how often recovery was cut
  start       \* ghost: the volume as it was first found

volume == <<journaled, body, map, legacy>>
vars == <<volume, disk, new, pc, chain, at, unstamped, cuts, start>>

-----------------------------------------------------------------------------
(* The device. *)

Sb == <<"sb", 0>>
Ibm == <<"ibm", 0>>
Desc == <<"desc", 0>>

Units == {Sb, Ibm, Desc} \cup {<<"tab", TabOf[i]>> : i \in Ino} \cup {<<"bbm", i>> : i \in Ino}

\* `from` with the units in S as `to` has them.
Merge(from, to, S) ==
  [head  |-> IF Sb \in S THEN to.head ELSE from.head,
   freed |-> IF Sb \in S THEN to.freed ELSE from.freed,
   ibit  |-> IF Ibm \in S THEN to.ibit ELSE from.ibit,
   desc  |-> IF Desc \in S THEN to.desc ELSE from.desc,
   node  |-> [i \in Ino |-> IF <<"tab", TabOf[i]>> \in S THEN to.node[i] ELSE from.node[i]],
   bbit  |-> [i \in Ino |-> IF <<"bbm", i>> \in S THEN to.bbit[i] ELSE from.bbit[i]]]

\* Mutation: the superblock is written among the other blocks (#124).
EarlyWithSuper == Units

\* write_direct: the superblock goes out last, behind a flush.
Early == Units \ {Sb}

\* The blocks of that stage the buffer changes.
Dirty(from, to) == {u \in Early : Merge(from, to, {u}) # from}

-----------------------------------------------------------------------------
(* The walk. *)

\* Mutation: a deletion time is followed as if it were a link (#124).
StopsAtUnreadable(d, cur) == cur = 0

\* The walk ends at 0, at a free number outside the table, and at a free
\* member whose i_dtime is no longer a link.
StopsAt(d, cur) ==
  \/ cur = 0
  \/ cur > N
  \/ ~d.ibit[cur] /\ d.node[cur].dtime > N

\* The walk gives up past N + 1 members, and a number outside the table has no
\* inode to read.
Ends(d, cur) == StopsAt(d, cur) \/ cur > N

\* Where the walk goes from each number; it stays where it ends.
Link(d) == [c \in 0..Time |-> IF Ends(d, c) THEN c ELSE d.node[c].dtime]

\* The numbers it comes to, from the head on.
Walk(d) ==
  LET link == Link(d)
      walk[n \in 0 .. N + 2] == IF n = 0 THEN d.head ELSE link[walk[n - 1]]
  IN  walk

\* orphan_chain_to_recover: the members, and whether the walk failed.
OrphanChain(d) ==
  LET walk == Walk(d)
      many == Cardinality({n \in 0 .. N + 1 : ~Ends(d, walk[n])})
  IN  [out |-> [n \in 1..many |-> walk[n - 1]], err |-> ~StopsAt(d, walk[N + 2])]

Elems(s) == {s[j] : j \in 1..Len(s)}

OnChain(d) == Elems(OrphanChain(d).out)

-----------------------------------------------------------------------------
(* One member. *)

\* buffer_stamp_dtime
Stamp(d, i, dtime) == [d EXCEPT !.node[i].dtime = dtime]

\* Mutation: a member with links is deleted like one without.
FinishAsDelete(d, i, link) ==
  [d EXCEPT !.node[i] = [links |-> 0, dtime |-> link, holds |-> FALSE],
            !.bbit[i] = @ /\ ~d.node[i].holds,
            !.ibit[i] = FALSE,
            !.desc = @ + 1]

\* buffer_finish_interrupted_truncate: the blocks past i_size go, the file stays.
\* "Legacy indirect mappings still cannot be planned here: leave their blocks
\* allocated instead of deleting a named file."
FinishTruncate(d, i, link) ==
  IF i \in legacy THEN Stamp(d, i, link)
  ELSE [d EXCEPT !.node[i] = [links |-> d.node[i].links, dtime |-> link, holds |-> FALSE],
                 !.bbit[i] = @ /\ ~d.node[i].holds]

\* buffer_recover_orphan on a member without links: its blocks, its bitmap bit
\* and its body go; the descriptor is credited whatever the bit was.
Delete(d, i, link) ==
  [d EXCEPT !.node[i] = [links |-> 0, dtime |-> link, holds |-> FALSE],
            !.bbit[i] = @ /\ ~d.node[i].holds,
            !.ibit[i] = FALSE,
            !.desc = @ + 1]

Deleted(d, i) == d.node[i].links = 0

\* The i_dtime a member ends with.
FinalDtime(d, i) == IF Deleted(d, i) THEN Time ELSE 0

RecoverOrphan(d, i, link) == IF Deleted(d, i) THEN Delete(d, i, link) ELSE FinishTruncate(d, i, link)

\* Nothing of a member is reclaimed if it does not parse, or if its map is needed
\* and cannot be read; a truncate of a legacy file does not look at the map.
Stuck(d, i) == i \in body \/ (i \in map /\ (Deleted(d, i) \/ i \notin legacy))

\* Mutation: a finished truncate is credited as a freed inode.
CreditAll(d, i) == 1

\* buffer_patch_sb_counters
Credit(d, i) == IF Deleted(d, i) THEN 1 ELSE 0

\* The buffer of one member: the previous member's pending i_dtime, this one's
\* treatment with the link kept, and the head moved on.
Member(d, i, next) ==
  LET moved == [RecoverOrphan(d, i, next) EXCEPT !.head = next, !.freed = @ + Credit(d, i)]
  IN  IF next = 0 THEN Stamp(moved, i, FinalDtime(d, i)) ELSE moved

Pending(d) == IF unstamped = {} THEN d
              ELSE LET u == CHOOSE u \in unstamped : TRUE IN Stamp(d, u.ino, u.dtime)

-----------------------------------------------------------------------------
(* Actions. *)

\* A mount reads the superblock and the chain.  A chain that was reclaimed
\* down to its head leaves only the head to clear.
Mount ==
  /\ pc \in {"down", "mounted"}
  /\ LET c == OrphanChain(disk)
     IN  /\ chain' = c.out
         /\ pc' = IF disk.head = 0 THEN "mounted"
                  ELSE IF c.err THEN "failed"
                  ELSE IF c.out = <<>> THEN "early"
                  ELSE "plan"
         /\ new' = [disk EXCEPT !.head = 0]
  /\ at' = 1
  /\ unstamped' = {}
  /\ UNCHANGED <<disk, cuts, start, volume>>

\* One turn of the loop stages a buffer.  A member that cannot be reclaimed
\* keeps the head, and only the pending i_dtime is written.
Plan ==
  /\ pc = "plan"
  /\ LET i     == chain[at]
         next  == IF at < Len(chain) THEN chain[at + 1] ELSE 0
         stuck == Stuck(disk, i)
     IN  /\ new' = IF stuck THEN Pending(disk) ELSE Member(Pending(disk), i, next)
         /\ unstamped' = IF stuck \/ next = 0 THEN {}
                         ELSE {[ino |-> i, dtime |-> FinalDtime(disk, i)]}
         /\ at' = IF stuck THEN Len(chain) + 1 ELSE at + 1
  /\ pc' = "early"
  /\ UNCHANGED <<disk, chain, cuts, start, volume>>

Returned == IF at > Len(chain) THEN "mounted" ELSE "plan"

\* The journal's commit is atomic.
CommitJournaled ==
  /\ pc = "early" /\ journaled
  /\ disk' = new
  /\ pc' = Returned
  /\ UNCHANGED <<new, chain, at, unstamped, cuts, start, volume>>

\* write_direct's first stage and its flush (recovery clears no uninit flag, so
\* the second is empty), then the superblock and its flush.
CommitEarly ==
  /\ pc = "early" /\ ~journaled
  /\ disk' = Merge(disk, new, Early)
  /\ pc' = "late"
  /\ UNCHANGED <<new, chain, at, unstamped, cuts, start, volume>>

CommitLate ==
  /\ pc = "late"
  /\ disk' = new
  /\ pc' = Returned
  /\ UNCHANGED <<new, chain, at, unstamped, cuts, start, volume>>

\* A crash, or a device error that fails the mount.  A stage that had not been
\* flushed leaves any of its blocks behind.
Cut ==
  /\ pc \in {"plan", "early", "late"} /\ cuts < MaxCuts
  /\ \/ UNCHANGED disk
     \/ pc = "early" /\ journaled /\ disk' = new
     \/ pc = "early" /\ ~journaled /\ \E S \in SUBSET Dirty(disk, new) : disk' = Merge(disk, new, S)
     \/ pc = "late" /\ disk' = new
  /\ pc' = "down"
  /\ unstamped' = {}
  /\ cuts' = cuts + 1
  /\ UNCHANGED <<new, chain, at, start, volume>>

\* A volume as its last owner left it: the members of the chain are in use and
\* hold surplus blocks, with links (an interrupted truncate) or without.
Init ==
  /\ journaled \in BOOLEAN
  /\ body \in SUBSET Doubtful /\ map \in SUBSET (Doubtful \ body)
  /\ legacy \in SUBSET Pointers
  /\ disk \in [head : 0..N, freed : {0}, desc : {0},
               ibit : {[i \in Ino |-> TRUE]}, bbit : {[i \in Ino |-> TRUE]},
               node : [Ino -> [links : {0, 1}, dtime : 0..N, holds : {TRUE}]]]
  /\ \A i \in Ino : i \notin OnChain(disk) => disk.node[i].links = 1 /\ disk.node[i].dtime = 0
  /\ new = disk
  /\ pc = "down"
  /\ chain = <<>>
  /\ at = 1
  /\ unstamped = {}
  /\ cuts = 0
  /\ start = disk

Recovery == Plan \/ CommitJournaled \/ CommitEarly \/ CommitLate

\* A mount that failed on a cyclic chain stays failed.
Failed == pc = "failed" /\ UNCHANGED vars

Next == Mount \/ Recovery \/ Cut \/ Failed

Spec == Init /\ [][Next]_vars

\* A mount is one call: once begun it runs to its end unless it is cut, and a
\* cut volume is mounted again.
FairSpec == Spec /\ WF_vars(Recovery) /\ WF_vars(pc = "down" /\ Mount)

-----------------------------------------------------------------------------
(* Properties. *)

\* The members the volume was found with, unless its chain was a cycle.
Found == IF OrphanChain(start).err THEN {} ELSE OnChain(start)

\* The members recovery gives up on: named files mapped by pointers.
GivenUp(i) == i \in legacy /\ start.node[i].links = 1

\* Work is left on a member: it has no links and still holds its inode, or it
\* still maps blocks past its size and is not one recovery gives up on.
Unfinished(i) == IF Deleted(disk, i) THEN disk.ibit[i] ELSE disk.node[i].holds /\ ~GivenUp(i)

\* "Written last, a crash anywhere before it leaves the old superblock, whose
\* chain head sends the next mount back to finish" (write_direct): whatever is
\* cut and whichever blocks it leaves, every member with work left is one the
\* next mount's walk reaches.
NothingStranded == \A i \in Found : Unfinished(i) => i \in OnChain(disk)

\* A member that still has links is a file the user never deleted: no recovery,
\* cut or retried, frees its inode or takes its links.
NamedFileKept ==
  \A i \in Found : start.node[i].links = 1 => disk.ibit[i] /\ disk.node[i].links = 1

\* A member that left the chain left no block behind: "the retry finishes
\* whatever the cut left" (orphan_chain_to_recover).  A file recovery gives up
\* on keeps every block it had.
RetryFinishes == \A i \in Found : i \notin OnChain(disk) => (disk.bbit[i] <=> GivenUp(i))

\* With a journal that is so: a member's blocks, its inode and the head that
\* moves past it go in one transaction (recover_orphans, #79), and the free-inode
\* counts of the superblock and of the descriptors are the members deleted,
\* neither lost nor credited twice by a retry.
ReclaimedOnce ==
  LET gone == Cardinality({i \in Found : ~disk.ibit[i]})
  IN  journaled => RetryFinishes /\ disk.freed = gone /\ disk.desc = gone

\* However often recovery is cut, a chain of readable members is emptied.
RecoveryEnds ==
  (~OrphanChain(disk).err /\ body = {} /\ map = {}) => <>(pc = "mounted" /\ disk.head = 0)
=============================================================================

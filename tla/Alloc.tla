-------------------------------- MODULE Alloc --------------------------------
(***************************************************************************)
(* Allocation of blocks or inodes by the operations of a mount: planned    *)
(* against the descriptors read at mount (alloc.rs), staged in a           *)
(* BlockBuffer, committed through the journal or directly, and published   *)
(* to the mount afterwards (fs.rs).                                        *)
(*                                                                         *)
(* A group that is flagged uninitialised has an arbitrary bitmap on the    *)
(* device and stands for Implied[g]; the first allocation into it writes   *)
(* the bitmap and clears the flag.  A unit is <<group, bit>>: a block, or  *)
(* an inode, of which an operation takes one (PerTx).                      *)
(***************************************************************************)
EXTENDS Naturals, Sequences, FiniteSets, Functions

CONSTANTS
  NGroups,    \* block groups
  NBits,      \* units in each
  Implied,    \* the bits an uninitialised group has in use
  Reserved,   \* units never handed out: the inodes below s_first_ino
  PerTx,      \* units one operation takes at most
  Threads     \* callers on the mount

Group == 0 .. NGroups - 1
Bit == 0 .. NBits - 1
Unit == Group \X Bit

ASSUME AllocAssumption ==
  /\ NGroups \in Nat \ {0} /\ NBits \in Nat \ {0} /\ PerTx \in Nat \ {0}
  /\ Implied \in [Group -> SUBSET Bit]
  /\ Reserved \subseteq Unit

VARIABLES
  journaled,  \* whether the volume has a journal
  dev,        \* bitmap blocks, and the descriptors' flag and free count
  snap,       \* Filesystem.groups: the descriptors as the mount read them
  cleared,    \* AllocationState.cleared: flags this mount has taken down
  alive,      \* no commit of this mount has failed
  th,         \* each caller: where it is, the units it got, what it frees, its buffer
  used        \* ghost: the units committed operations hold

vars == <<journaled, dev, snap, cleared, alive, th, used>>

EmptyBuf == [bm |-> [g \in {} |-> {}], desc |-> {}, cleared |-> {}]

IdleTh == [pc |-> "idle", pick |-> <<>>, got |-> <<>>, gone |-> {}, buf |-> EmptyBuf]

-----------------------------------------------------------------------------
(* Planning. *)

\* allocation_groups, with the clears the buffer has staged
\* (plan_buffered_block_allocation_excluding).
Uninit(buf, g) == snap.flag[g] /\ g \notin cleared /\ g \notin buf.cleared

\* The bitmap a plan scans: what the flag stands for, what is staged, or what
\* is on the device.
Bitmap(buf, g) ==
  IF Uninit(buf, g) THEN Implied[g]
  ELSE IF g \in DOMAIN buf.bm THEN buf.bm[g]
  ELSE dev.bm[g]

\* The free units of a group, as the plan sees them; a group whose descriptor
\* had none at mount is passed over.
Free(buf, g) ==
  IF snap.free[g] = 0 THEN {}
  ELSE {b \in Bit : b \notin Bitmap(buf, g) /\ <<g, b>> \notin Reserved}

\* plan_inode_allocation, plan_block_allocation_excluding: the first free unit
\* of the first group from the hint on, wrapping around.
PlanFrom(buf, hint) ==
  LET group(step) == (hint + step) % NGroups
      steps == {step \in 0 .. NGroups - 1 : Free(buf, group(step)) # {}}
      first == {group(step) : step \in {s \in steps : \A r \in steps : s <= r}}
  IN  {u \in Unit : /\ u[1] \in first
                    /\ u[2] \in Free(buf, u[1])
                    /\ \A c \in Free(buf, u[1]) : u[2] <= c}

-----------------------------------------------------------------------------
(* Staging. *)

\* BlockBuffer::get_mut on the descriptor block and on a group's bitmap.
Desc(buf) == IF buf.desc = {} THEN [flag |-> dev.flag, free |-> dev.free]
             ELSE CHOOSE d \in buf.desc : TRUE

Loaded(buf, g) == IF g \in DOMAIN buf.bm THEN buf.bm[g] ELSE dev.bm[g]

WithBitmap(buf, g, bits) == [h \in DOMAIN buf.bm \cup {g} |-> IF h = g THEN bits ELSE buf.bm[h]]

\* Mutation: the bitmap of an uninitialised group keeps its old bytes.
WokenStale(buf, g) == Loaded(buf, g)

\* The bitmap block a woken group starts from.
Woken(buf, g) == IF Desc(buf).flag[g] THEN Implied[g] ELSE Loaded(buf, g)

\* buffer_mark_inode_used and buffer_mark_block_run_used with
\* clear_bgd_uninit_flag_if_set, then the descriptor's counter.
MarkUsed(buf, u) ==
  LET g == u[1]
      d == Desc(buf)
  IN  [bm      |-> WithBitmap(buf, g, Woken(buf, g) \cup {u[2]}),
       desc    |-> {[flag |-> [d.flag EXCEPT ![g] = FALSE],
                     free |-> [d.free EXCEPT ![g] = IF @ = 0 THEN 0 ELSE @ - 1]]},
       cleared |-> IF d.flag[g] THEN buf.cleared \cup {g} ELSE buf.cleared]

\* buffer_free_inode_slot, buffer_free_block_run_and_bgd.
MarkFree(buf, u) ==
  LET g == u[1]
      d == Desc(buf)
  IN  [bm      |-> WithBitmap(buf, g, Loaded(buf, g) \ {u[2]}),
       desc    |-> {[flag |-> d.flag, free |-> [d.free EXCEPT ![g] = @ + 1]]},
       cleared |-> buf.cleared]

-----------------------------------------------------------------------------
(* Operations.  Every one takes &self: callers interleave between the plan,
   the reads that stage it, and the commit, which alone holds a lock. *)

\* An operation plans its next unit, from any hint.
Plan(t) ==
  /\ alive /\ th[t].pc \in {"idle", "staged"} /\ th[t].gone = {}
  /\ Len(th[t].got) < PerTx
  /\ \E hint \in Group : \E u \in PlanFrom(th[t].buf, hint) :
       th' = [th EXCEPT ![t].pc = "planned", ![t].pick = u]
  /\ UNCHANGED <<journaled, dev, snap, cleared, alive, used>>

\* No group has a free unit, or a later part of the operation fails: the
\* buffer is dropped.
Abort(t) ==
  /\ th[t].pc \in {"planned", "staged"}
  /\ th' = [th EXCEPT ![t] = IdleTh]
  /\ UNCHANGED <<journaled, dev, snap, cleared, alive, used>>

Stage(t) ==
  /\ th[t].pc = "planned"
  /\ th' = [th EXCEPT ![t].pc = "staged",
                      ![t].got = Append(@, th[t].pick),
                      ![t].buf = MarkUsed(@, th[t].pick)]
  /\ UNCHANGED <<journaled, dev, snap, cleared, alive, used>>

\* A file is removed, and a unit of it freed.
Remove(t, u) ==
  /\ alive /\ th[t].pc = "idle" /\ u \in used \ Reserved
  /\ \A r \in Threads : u \notin th[r].gone
  /\ th' = [th EXCEPT ![t].pc = "staged", ![t].gone = {u}, ![t].buf = MarkFree(@, u)]
  /\ UNCHANGED <<journaled, dev, snap, cleared, alive, used>>

-----------------------------------------------------------------------------
(* commit_block_buffer. *)

WriteBitmaps(d, buf, S) ==
  [flag |-> d.flag, free |-> d.free, bm |-> [g \in Group |-> IF g \in S THEN buf.bm[g] ELSE d.bm[g]]]

WriteDesc(d, buf) == [flag |-> Desc(buf).flag, free |-> Desc(buf).free, bm |-> d.bm]

\* Mutation: the flags that were cleared are not told to the mount.
PublishNothing(buf) == UNCHANGED cleared

\* AllocationState::publish
Publish(buf) == cleared' = cleared \cup buf.cleared

Claims(t) == (used \cup Range(th[t].got)) \ th[t].gone

Done(t) ==
  /\ Publish(th[t].buf)
  /\ used' = Claims(t)
  /\ th' = [th EXCEPT ![t] = IdleTh]
  /\ UNCHANGED <<journaled, snap, alive>>

\* Through the journal a commit is atomic.
CommitJournaled(t) ==
  /\ journaled /\ alive /\ th[t].pc = "staged"
  /\ dev' = WriteDesc(WriteBitmaps(dev, th[t].buf, DOMAIN th[t].buf.bm), th[t].buf)
  /\ Done(t)

\* Mutation: every descriptor goes out with the bitmaps (#319).
DescNever(buf) == FALSE

\* A descriptor block that clears a flag waits for the flush after the bitmaps.
DescLate(buf) == buf.cleared # {}

\* write_direct, first stage.
CommitEarly(t) ==
  /\ ~journaled /\ alive /\ th[t].pc = "staged"
  /\ LET buf == th[t].buf
         d   == WriteBitmaps(dev, buf, DOMAIN buf.bm)
     IN  IF DescLate(buf)
         THEN /\ dev' = d
              /\ th' = [th EXCEPT ![t].pc = "late"]
              /\ UNCHANGED <<journaled, snap, cleared, alive, used>>
         ELSE /\ dev' = WriteDesc(d, buf)
              /\ Done(t)

CommitLate(t) ==
  /\ alive /\ th[t].pc = "late"
  /\ dev' = WriteDesc(dev, th[t].buf)
  /\ Done(t)

\* A commit fails or the machine stops in it.  The journal's took effect or did
\* not (its log decides, at the next replay); a direct one leaves any of the
\* blocks of its stage.  The mount writes no more.
CommitFails(t) ==
  /\ alive /\ th[t].pc \in {"staged", "late"}
  /\ LET buf == th[t].buf
     IN  \/ /\ journaled
            /\ \/ UNCHANGED <<dev, used>>
               \/ /\ dev' = WriteDesc(WriteBitmaps(dev, buf, DOMAIN buf.bm), buf)
                  /\ used' = Claims(t)
         \/ /\ ~journaled /\ th[t].pc = "staged"
            /\ \E S \in SUBSET DOMAIN buf.bm :
                 \/ dev' = WriteBitmaps(dev, buf, S)
                 \/ ~DescLate(buf) /\ dev' = WriteDesc(WriteBitmaps(dev, buf, S), buf)
            /\ used' = used \ th[t].gone
         \/ /\ th[t].pc = "late"
            /\ dev' \in {dev, WriteDesc(dev, buf)}
            /\ UNCHANGED used
  /\ alive' = FALSE
  /\ th' = [th EXCEPT ![t] = IdleTh]
  /\ UNCHANGED <<journaled, snap, cleared>>

\* The next mount reads the descriptors again.
Remount ==
  /\ \A t \in Threads : th[t].pc \in {"idle", "planned", "staged"}
  /\ snap' = [flag |-> dev.flag, free |-> dev.free]
  /\ cleared' = {}
  /\ alive' = TRUE
  /\ th' = [t \in Threads |-> IdleTh]
  /\ UNCHANGED <<journaled, dev, used>>

\* A consistent volume: a flagged group holds nothing but what the flag stands
\* for and its bitmap block is anything; the others' bitmaps and counts are true.
Init ==
  /\ journaled \in BOOLEAN
  /\ \E flag \in [Group -> BOOLEAN], set \in [Group -> SUBSET Bit] :
       /\ \A g \in Group : flag[g] \/ Implied[g] \subseteq set[g]
       /\ dev = [flag |-> flag, bm |-> set,
                 free |-> [g \in Group |-> Cardinality(Bit \ (IF flag[g] THEN Implied[g] ELSE set[g]))]]
       /\ used = {u \in Unit : ~flag[u[1]] /\ u[2] \in set[u[1]] \ Implied[u[1]]}
  /\ snap = [flag |-> dev.flag, free |-> dev.free]
  /\ cleared = {}
  /\ alive = TRUE
  /\ th = [t \in Threads |-> IdleTh]

Next ==
  \/ \E t \in Threads : Plan(t) \/ Abort(t) \/ Stage(t) \/ CommitJournaled(t)
                        \/ CommitEarly(t) \/ CommitLate(t) \/ CommitFails(t)
  \/ \E t \in Threads, u \in Unit : Remove(t, u)
  \/ Remount

Spec == Init /\ [][Next]_vars

-----------------------------------------------------------------------------
(* Properties. *)

\* No unit is handed out twice: not to two operations, not within one, and none
\* that a committed operation holds or that is reserved.
NoDoubleAllocation ==
  \A t \in Threads :
    /\ \A i, j \in 1..Len(th[t].got) : th[t].got[i] = th[t].got[j] => i = j
    /\ Range(th[t].got) \cap (used \cup Reserved) = {}

\* With a journal, whatever commit is cut: what every reader is told of a group,
\* by its flag or by its bitmap, is what is in use in it, and its free count
\* agrees.
BitmapTruth == journaled =>
  \A g \in Group :
    LET inUse == Implied[g] \cup {b \in Bit : <<g, b>> \in used}
    IN  /\ (IF dev.flag[g] THEN Implied[g] ELSE dev.bm[g]) = inUse
        /\ dev.free[g] = NBits - Cardinality(inUse)

\* A flag that is down vouches for the bitmap block: however a direct commit was
\* cut, no mount reads the bytes the flag licensed leaving there (write_direct,
\* #319).
FlagVouches ==
  \A g \in Group : ~dev.flag[g] =>
    Implied[g] \cup {b \in Bit : <<g, b>> \in used} \subseteq dev.bm[g]
=============================================================================

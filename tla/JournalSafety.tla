---------------------------- MODULE JournalSafety ----------------------------
(***************************************************************************)
(* JournalWriter::commit, the replay of a dirty journal, the device's own  *)
(* writes, its errors and crashes preserve the journal's inductive         *)
(* invariant, step by step.  What follows from it, for every volume, every *)
(* transaction, every ring and every number of faults, of a device that is *)
(* settled when a replay starts (the constant Settled): RECOVER guards the *)
(* log, a replay is of a whole transaction, the log is free when it is     *)
(* written, and the journal implements the atomic store.                   *)
(***************************************************************************)
EXTENDS JournalInvariant

\* Clearing the clean state before a commit preserves the invariant.
LEMMA MarkNotCleanKeeps ==
  ASSUME Settled, IInv, TypeInv', MarkNotClean
  PROVE  IInv'
<1> USE DEF IInv
<1>T. Typed
  BY TypeFacts
<1>N. disk.jsb.seq \in Nat /\ vol.jsb.seq \in Nat /\ jw.seq \in Nat
  BY <1>T DEF Typed
<1>1. /\ pc = "up"
      /\ pc' = "up"
      /\ disk' = vol
      /\ vol' = vol
      /\ UNCHANGED <<vol, healthy, hold, live, jw, tx, blocks, i, rp, outcome, faults>>
  BY DEF MarkNotClean, Flush
<1>2. TxInv' /\ LogInv' /\ WalkInv' /\ HomeInv' /\ RecoverInv'
  BY <1>1, FlushKeeps DEF Quiet
<1>3. CursorInv'
  BY <1>1, <1>N DEF CursorInv, Dirty, Logging, Committing
<1>4. OutcomeInv'
  BY <1>1 DEF OutcomeInv, Dirty, Committing
<1> QED
  BY <1>2, <1>3, <1>4

\* The start of a commit, staging and serialising its transaction, preserves the invariant.
LEMMA BeginKeeps ==
  ASSUME Settled, IInv, TypeInv', NEW w \in Txs, Begin(w)
  PROVE  IInv'
<1> USE DEF IInv
<1>T. Typed
  BY TypeFacts
<1>I. disk \in Image /\ vol \in Image /\ jw \in Jsb /\ tx \in Seq(Write)
  BY <1>T DEF Typed
<1>1. /\ pc = "up" /\ pc' = "log"
      /\ healthy /\ healthy' = FALSE
      /\ tx' = PatchRecover(Staged(w))
      /\ blocks' = Serialize(jw.seq, tx')
      /\ Len(Serialize(jw.seq, w)) <= MaxLen - 1
      /\ i' = 1
      /\ outcome' = "busy"
      /\ UNCHANGED <<disk, vol, hold, live, marked, jw, rp, faults>>
  BY DEF Begin
<1>a. /\ tx' \in Seq(Write) /\ Len(tx') = Len(w) /\ Len(tx') > 0 /\ Len(w) \in Nat
      /\ \A k \in 1 .. Len(tx') : tx'[k].blk = SB => tx'[k].val.rec
      /\ \A j, k \in 1 .. Len(tx') : j # k => tx'[j].blk # tx'[k].blk
  <2>1. tx' \in Seq(Write) /\ Len(tx') = Len(w) /\ Len(tx') > 0
    BY <1>1, <1>I, StagedTransaction
  <2>2. Len(w) \in Nat
    BY <2>1
  <2>3. \A k \in 1 .. Len(tx') : tx'[k].blk = SB => tx'[k].val.rec
    BY <1>1, <1>I, StagedTransaction
  <2>4. \A j, k \in 1 .. Len(tx') : j # k => tx'[j].blk # tx'[k].blk
    BY <1>1, <1>I, StagedTransaction
  <2> QED
    BY <2>1, <2>3, <2>4
<1>b. disk.jsb = vol.jsb /\ disk.jsb.start = 0 /\ jw = vol.jsb
  BY <1>1 DEF CursorInv, Dirty
<1>c. Len(tx') + Chunks(Len(tx')) + 1 <= Limit
  BY <1>1, <1>a, SerializeLen DEF Limit
<1>2. LogInv'
  BY <1>1, <1>b DEF LogInv, Dirty
<1>3. WalkInv'
  BY <1>1, NotWalking
<1>4. HomeInv' /\ RecoverInv'
  BY <1>1, <1>b DEF HomeInv, Dirty, RecoverInv
<1>5. TxInv' /\ CursorInv' /\ OutcomeInv'
  BY <1>1, <1>a, <1>b, <1>c DEF TxInv, Limit, Chunks, CursorInv, Dirty, OutcomeInv, Committing
<1> QED
  BY <1>2, <1>3, <1>4, <1>5

\* Writing one block of the log preserves the invariant.
LEMMA LogBlockKeeps ==
  ASSUME Settled, IInv, TypeInv', LogBlock
  PROVE  IInv'
<1> USE DEF IInv
<1>T. Typed
  BY TypeFacts
<1>N. disk.jsb.seq \in Nat /\ vol.jsb.seq \in Nat /\ jw.seq \in Nat
  BY <1>T DEF Typed
<1>B. SB \in Block /\ Len(tx) \in Nat /\ \A k \in 1 .. Len(tx) : tx[k].blk \in Block
  BY <1>T DEF Typed
<1>L. \A p \in Slot : vol.log[p].seq \in Nat /\ disk.log[p].seq \in Nat
  BY <1>T DEF Typed
<1>I. disk \in Image /\ vol \in Image /\ jw \in Jsb /\ tx \in Seq(Write)
  BY <1>T DEF Typed
<1>S. disk.jsb.start \in 0..1 /\ vol.jsb.start \in 0..1
  BY <1>T DEF Typed
<1>a. pc = "log" /\ i \in 1 .. Len(blocks) /\ Len(blocks) <= MaxLen - 1 /\ blocks \in Seq(Entry)
  BY DEF LogBlock, TypeInv, TypeOK, IndexOK
<1>b. i \in Slot /\ blocks[i] \in Entry
  <2>1. blocks[i] \in Entry /\ Len(blocks) \in Nat
    BY <1>a
  <2> QED
    BY <1>a, JournalAssumption DEF Slot
<1>1. /\ pc = "log" /\ pc' = IF i = Len(blocks) THEN "recover" ELSE "log"
      /\ vol'.home = vol.home /\ vol'.jsb = vol.jsb
      /\ vol'.log = [vol.log EXCEPT ![i] = blocks[i]]
      /\ i' = i + 1
      /\ UNCHANGED <<disk, healthy, hold, live, marked, jw, tx, blocks, rp, outcome, faults>>
  BY <1>I, <1>b, WriteLogImage DEF LogBlock
<1>c. /\ blocks = Serialize(jw.seq, tx) /\ disk.jsb = vol.jsb /\ disk.jsb.start = 0 /\ jw = vol.jsb
  BY <1>1 DEF CursorInv, Logging, Dirty
<1>d. blocks[i].seq \in Nat /\ blocks[i].seq <= disk.jsb.seq
  BY <1>a, <1>b, <1>c, <1>N, <1>L, <1>I, <1>S, SerializeType DEF Entry
<1>e. \A p \in Slot : vol'.log[p] = IF p = i THEN blocks[i] ELSE vol.log[p]
  BY <1>1, <1>N, <1>B, <1>L, <1>I, <1>S DEF Image
<1>f. \A p \in 1 .. Len(blocks) : p \in Slot
  <2>1. Len(blocks) \in Nat
    BY <1>a
  <2> QED
    BY <1>a, <2>1, JournalAssumption DEF Slot
<1>2. LogInv'
  <2>1. \A p \in Slot : vol'.log[p].seq <= disk.jsb.seq /\ disk.log[p].seq <= disk.jsb.seq
    BY <1>d, <1>e DEF LogInv
  <2>2. \A p \in 1 .. Len(blocks) : p < i + 1 => vol'.log[p] = blocks[p]
    BY <1>a, <1>e, <1>f DEF LogInv
  <2>3. pc' = "recover" => \A p \in 1 .. Len(blocks) : vol'.log[p] = blocks[p]
    BY <1>1, <2>2
  <2> QED
    BY <1>1, <1>c, <2>1, <2>2, <2>3 DEF LogInv, Dirty, HoldsLog
<1>3. WalkInv'
  BY <1>1, NotWalking
<1>4. HomeInv' /\ RecoverInv'
  BY <1>1, <1>c DEF HomeInv, Dirty, RecoverInv
<1>5. TxInv' /\ CursorInv' /\ OutcomeInv'
  BY <1>1 DEF TxInv, Dirty, Logging, CursorInv, Committing, OutcomeInv
<1> QED
  BY <1>2, <1>3, <1>4, <1>5

\* Setting RECOVER in the superblock preserves the invariant.
LEMMA SetRecoverKeeps ==
  ASSUME Settled, IInv, TypeInv', SetRecover
  PROVE  IInv'
<1> USE DEF IInv
<1>T. Typed
  BY TypeFacts
<1>B. SB \in Block /\ Len(tx) \in Nat /\ \A k \in 1 .. Len(tx) : tx[k].blk \in Block
  BY <1>T DEF Typed
<1>I. disk \in Image /\ vol \in Image /\ jw \in Jsb /\ tx \in Seq(Write)
  BY <1>T DEF Typed
<1>1. /\ pc = "recover"
      /\ pc' = "fence1"
      /\ vol'.log = vol.log
      /\ vol'.jsb = vol.jsb
      /\ vol'.home[SB].rec
      /\ \A b \in Block : vol'.home[b].data = vol.home[b].data
      /\ UNCHANGED <<disk, healthy, hold, live, marked, jw, tx, blocks, i, rp, outcome, faults>>
  BY <1>I, WriteRecoverImage, Zenon DEF SetRecover
<1>a. /\ (Dirty(disk)' <=> Dirty(disk)) /\ (Dirty(vol)' <=> Dirty(vol))
      /\ (HoldsTx(disk)' <=> HoldsTx(disk)) /\ (HoldsTx(vol)' <=> HoldsTx(vol))
      /\ \A q : (HoldsLog(disk, q)' <=> HoldsLog(disk, q))
              /\ (HoldsLog(vol, q)' <=> HoldsLog(vol, q))
  BY <1>1, <1>B, SameImages
<1>2. LogInv'
  BY <1>1, <1>a DEF LogInv
<1>3. WalkInv'
  BY <1>1, NotWalking
<1>4. HomeInv'
  BY <1>1, <1>a DEF HomeInv
<1>5. RecoverInv'
  BY <1>1, <1>a DEF RecoverInv, CursorInv, Logging
<1>6. TxInv' /\ OutcomeInv'
  BY <1>1, <1>a DEF TxInv, Logging, OutcomeInv, Committing
<1>7. CursorInv'
  BY <1>1, <1>a DEF CursorInv, Logging, Committing
<1> QED
  BY <1>2, <1>3, <1>4, <1>5, <1>6, <1>7

\* The commit's first fence preserves the invariant.
LEMMA Fence1Keeps ==
  ASSUME Settled, IInv, TypeInv', Fence1
  PROVE  IInv'
<1> USE DEF IInv
<1>1. /\ pc = "fence1"
      /\ pc' = "dirty"
      /\ disk' = vol
      /\ vol' = vol
      /\ UNCHANGED <<vol, healthy, hold, live, marked, jw, tx, blocks, i, rp, outcome, faults>>
  BY DEF Fence1, Flush
<1>a. /\ (Dirty(disk)' <=> Dirty(vol)) /\ (Dirty(vol)' <=> Dirty(vol))
      /\ (HoldsTx(disk)' <=> HoldsTx(vol)) /\ (HoldsTx(vol)' <=> HoldsTx(vol))
      /\ \A q : (HoldsLog(disk, q)' <=> HoldsLog(vol, q))
              /\ (HoldsLog(vol, q)' <=> HoldsLog(vol, q))
  BY <1>1, FlushedImages
<1>2. LogInv'
  BY <1>1, <1>a DEF LogInv, CursorInv, Logging
<1>3. WalkInv'
  BY <1>1, NotWalking
<1>4. HomeInv'
  BY <1>1, <1>a DEF HomeInv, CursorInv, Logging
<1>5. RecoverInv'
  BY <1>1, <1>a DEF RecoverInv
<1>6. TxInv' /\ OutcomeInv'
  BY <1>1, <1>a DEF TxInv, Logging, OutcomeInv, Committing
<1>7. CursorInv'
  BY <1>1, <1>a DEF CursorInv, Logging, Committing
<1> QED
  BY <1>2, <1>3, <1>4, <1>5, <1>6, <1>7

\* Marking the journal dirty preserves the invariant.
LEMMA MarkDirtyKeeps ==
  ASSUME Settled, IInv, TypeInv', MarkDirty
  PROVE  IInv'
<1> USE DEF IInv
<1>T. Typed
  BY TypeFacts
<1>B. SB \in Block /\ Len(tx) \in Nat /\ \A k \in 1 .. Len(tx) : tx[k].blk \in Block
  BY <1>T DEF Typed
<1>L. \A p \in Slot : vol.log[p].seq \in Nat /\ disk.log[p].seq \in Nat
  BY <1>T DEF Typed
<1>I. disk \in Image /\ vol \in Image /\ jw \in Jsb /\ tx \in Seq(Write)
  BY <1>T DEF Typed
<1>0. jw' \in Jsb
  BY <1>B, <1>L, <1>I DEF MarkDirty, Jsb
<1>1. /\ pc = "dirty"
      /\ pc' = "fence2"
      /\ jw' = [jw EXCEPT !.start = 1]
      /\ vol'.home = vol.home
      /\ vol'.log = vol.log
      /\ vol'.jsb = jw'
      /\ UNCHANGED <<disk, healthy, hold, live, marked, tx, blocks, i, rp, outcome, faults>>
  BY <1>B, <1>L, <1>I, <1>0, WriteJsbImage DEF MarkDirty
<1>a. Dirty(vol)' /\ (Dirty(disk)' <=> Dirty(disk)) /\ ~Dirty(disk) /\ jw'.seq = jw.seq
  BY <1>1 DEF Dirty, CursorInv, Logging, Jsb
<1>b. \A q : (HoldsLog(disk, q)' <=> HoldsLog(disk, q)) /\ (HoldsLog(vol, q)' <=> HoldsLog(vol, q))
  BY <1>1 DEF HoldsLog
<1>2. LogInv'
  BY <1>1, <1>a, <1>b DEF LogInv
<1>3. WalkInv'
  BY <1>1, NotWalking
<1>4. HomeInv'
  BY <1>1, <1>a DEF HomeInv
<1>5. RecoverInv'
  BY <1>1 DEF RecoverInv
<1>6. TxInv' /\ OutcomeInv'
  BY <1>1, <1>a DEF TxInv, Logging, OutcomeInv, Committing
<1>7. CursorInv'
  BY <1>1, <1>a DEF CursorInv, Logging, Committing
<1> QED
  BY <1>2, <1>3, <1>4, <1>5, <1>6, <1>7

\* The commit's second fence preserves the invariant.
LEMMA Fence2Keeps ==
  ASSUME Settled, IInv, TypeInv', Fence2
  PROVE  IInv'
<1> USE DEF IInv
<1>T. Typed
  BY TypeFacts
<1>N. disk.jsb.seq \in Nat /\ vol.jsb.seq \in Nat /\ jw.seq \in Nat
  BY <1>T DEF Typed
<1>1. /\ pc = "fence2"
      /\ pc' = "home"
      /\ disk' = vol
      /\ vol' = vol
      /\ i' = 1
      /\ UNCHANGED <<vol, healthy, hold, live, marked, jw, tx, blocks, rp, outcome, faults>>
  BY DEF Fence2, Flush
<1>a. /\ (Dirty(disk)' <=> Dirty(vol)) /\ (Dirty(vol)' <=> Dirty(vol))
      /\ (HoldsTx(disk)' <=> HoldsTx(vol)) /\ (HoldsTx(vol)' <=> HoldsTx(vol))
      /\ \A q : (HoldsLog(disk, q)' <=> HoldsLog(vol, q))
              /\ (HoldsLog(vol, q)' <=> HoldsLog(vol, q))
  BY <1>1, FlushedImages
<1>2. LogInv'
  BY <1>1, FlushLog DEF Logging
<1>3. WalkInv'
  BY <1>1, NotWalking
<1>4. HomeInv'
  <2>1. HoldsUpTo(vol, i - 1)'
    BY <1>1 DEF HoldsUpTo
  <2> QED
    BY <1>1, <1>a, <2>1 DEF HomeInv
<1>5. RecoverInv'
  BY <1>1, <1>a DEF RecoverInv
<1>6. TxInv' /\ OutcomeInv'
  BY <1>1, <1>a DEF TxInv, Logging, OutcomeInv, Committing
<1>7. CursorInv'
  BY <1>1, <1>a, <1>N DEF CursorInv, Logging, Committing
<1> QED
  BY <1>2, <1>3, <1>4, <1>5, <1>6, <1>7

\* Writing one home block preserves the invariant.
LEMMA HomeBlockKeeps ==
  ASSUME Settled, IInv, TypeInv', HomeBlock
  PROVE  IInv'
<1> USE DEF IInv
<1>T. Typed
  BY TypeFacts
<1>a. i \in 1 .. Len(tx)
  BY <1>T DEF HomeBlock, TypeInv, IndexOK, Typed
<1>1. /\ pc = "home" /\ pc' = IF i = Len(tx) THEN "fence3" ELSE "home"
      /\ vol'.log = vol.log /\ vol'.jsb = vol.jsb
      /\ vol'.home = [vol.home EXCEPT ![tx[i].blk] = tx[i].val]
      /\ i' = i + 1
      /\ UNCHANGED <<disk, healthy, hold, live, marked, jw, tx, blocks, rp, outcome, faults>>
  BY <1>T, <1>a, WriteHomeImage DEF HomeBlock, Typed
<1>b. Dirty(disk) /\ Dirty(vol) /\ HoldsUpTo(vol, i - 1)
  BY <1>1 DEF CursorInv, HomeInv, Dirty
<1>c. /\ HoldsUpTo(vol', i)
      /\ HoldsTx(vol) => HoldsTx(vol')
      /\ i = Len(tx) => HoldsTx(vol')
      /\ \A b \in Block : (\A k \in 1..Len(tx) : tx[k].blk # b) =>
                            vol'.home[b].data = vol.home[b].data
      /\ vol.home[SB].rec => vol'.home[SB].rec
  BY <1>1, <1>b, <1>a, <1>T, TxWrite DEF Typed
<1>2. LogInv'
  BY <1>1, LogFrame DEF Logging
<1>3. WalkInv'
  BY <1>1, NotWalking
<1>4. HomeInv'
  <2>1. HoldsUpTo(vol, i - 1)'
    BY <1>1, <1>a, <1>c DEF HoldsUpTo
  <2>2. i = Len(tx) => HoldsTx(vol)'
    BY <1>1, <1>c DEF HoldsTx, HoldsUpTo
  <2>3. \A b \in Block : (\A k \in 1..Len(tx) : tx[k].blk # b) =>
                           vol'.home[b].data = disk.home[b].data
    BY <1>c DEF HomeInv
  <2> QED
    BY <1>1, <1>b, <2>1, <2>2, <2>3 DEF HomeInv, Dirty
<1>5. RecoverInv'
  BY <1>1, <1>c DEF RecoverInv, Dirty, HoldsTx, HoldsUpTo
<1>6. TxInv' /\ CursorInv' /\ OutcomeInv'
  BY <1>1 DEF TxInv, Dirty, Logging, CursorInv, Committing, OutcomeInv
<1> QED
  BY <1>2, <1>3, <1>4, <1>5, <1>6

\* The commit's third fence preserves the invariant.
LEMMA Fence3Keeps ==
  ASSUME Settled, IInv, TypeInv', Fence3
  PROVE  IInv'
<1> USE DEF IInv
<1>1. /\ pc = "fence3"
      /\ pc' = "clean"
      /\ disk' = vol
      /\ vol' = vol
      /\ UNCHANGED <<vol, healthy, hold, live, marked, jw, tx, blocks, i, rp, outcome, faults>>
  BY DEF Fence3, Flush
<1>a. /\ (Dirty(disk)' <=> Dirty(vol)) /\ (Dirty(vol)' <=> Dirty(vol))
      /\ (HoldsTx(disk)' <=> HoldsTx(vol)) /\ (HoldsTx(vol)' <=> HoldsTx(vol))
      /\ \A q : (HoldsLog(disk, q)' <=> HoldsLog(vol, q))
              /\ (HoldsLog(vol, q)' <=> HoldsLog(vol, q))
  BY <1>1, FlushedImages
<1>2. LogInv'
  BY <1>1, FlushLog DEF Logging
<1>3. WalkInv'
  BY <1>1, NotWalking
<1>4. HomeInv'
  BY <1>1, <1>a DEF HomeInv
<1>5. RecoverInv'
  BY <1>1, <1>a DEF RecoverInv
<1>6. TxInv' /\ OutcomeInv'
  BY <1>1, <1>a DEF TxInv, Logging, OutcomeInv, Committing
<1>7. CursorInv'
  BY <1>1, <1>a DEF CursorInv, Logging, Committing
<1> QED
  BY <1>2, <1>3, <1>4, <1>5, <1>6, <1>7

\* Marking the journal clean preserves the invariant.
LEMMA MarkCleanKeeps ==
  ASSUME Settled, IInv, TypeInv', MarkClean
  PROVE  IInv'
<1> USE DEF IInv
<1>T. Typed
  BY TypeFacts
<1>N. disk.jsb.seq \in Nat /\ vol.jsb.seq \in Nat /\ jw.seq \in Nat
  BY <1>T DEF Typed
<1>I. disk \in Image /\ vol \in Image /\ jw \in Jsb /\ tx \in Seq(Write)
  BY <1>T DEF Typed
<1>0. jw' \in Jsb
  BY <1>I DEF MarkClean, Jsb
<1>1. /\ pc = "clean"
      /\ pc' = IF hold THEN "fence4" ELSE "unrecover"
      /\ jw' = [start |-> 0, seq |-> jw.seq + 1]
      /\ vol'.home = vol.home
      /\ vol'.log = vol.log
      /\ vol'.jsb = jw'
      /\ UNCHANGED <<disk, healthy, hold, live, marked, tx, blocks, i, rp, outcome, faults>>
  BY <1>I, <1>0, WriteJsbImage DEF MarkClean
<1>a. ~Dirty(vol)' /\ (Dirty(disk)' <=> Dirty(disk)) /\ jw'.seq = jw.seq + 1 /\ jw = vol.jsb
      /\ disk.jsb = vol.jsb
  BY <1>1 DEF Dirty, CursorInv
<1>b. \A q : (HoldsLog(disk, q)' <=> HoldsLog(disk, q)) /\ (HoldsLog(vol, q)' <=> HoldsLog(vol, q))
  BY <1>1 DEF HoldsLog
<1>c. (HoldsTx(disk)' <=> HoldsTx(disk)) /\ (HoldsTx(vol)' <=> HoldsTx(vol))
  BY <1>1 DEF HoldsTx, HoldsUpTo
<1>2. LogInv'
  BY <1>1, <1>a, <1>b DEF LogInv
<1>3. WalkInv'
  BY <1>1, NotWalking
<1>4. HomeInv'
  BY <1>1, <1>a, <1>c DEF HomeInv
<1>5. RecoverInv'
  BY <1>1, <1>a DEF RecoverInv
<1>6. TxInv' /\ OutcomeInv'
  BY <1>1, <1>a DEF TxInv, Logging, OutcomeInv, Committing
<1>7. CursorInv'
  BY <1>1, <1>a, <1>N DEF CursorInv, Logging, Committing
<1> QED
  BY <1>2, <1>3, <1>4, <1>5, <1>6, <1>7

\* Clearing RECOVER after a commit preserves the invariant.
LEMMA ClearRecoverKeeps ==
  ASSUME Settled, IInv, TypeInv', ClearRecover
  PROVE  IInv'
<1> USE DEF IInv
<1>T. Typed
  BY TypeFacts
<1>N. disk.jsb.seq \in Nat /\ vol.jsb.seq \in Nat /\ jw.seq \in Nat
  BY <1>T DEF Typed
<1>B. SB \in Block /\ Len(tx) \in Nat /\ \A k \in 1 .. Len(tx) : tx[k].blk \in Block
  BY <1>T DEF Typed
<1>L. \A p \in Slot : vol.log[p].seq \in Nat /\ disk.log[p].seq \in Nat
  BY <1>T DEF Typed
<1>I. disk \in Image /\ vol \in Image /\ jw \in Jsb /\ tx \in Seq(Write)
  BY <1>T DEF Typed
<1>1. /\ pc = "unrecover"
      /\ pc' = "fence4"
      /\ vol'.log = vol.log
      /\ vol'.jsb = vol.jsb
      /\ ~vol'.home[SB].rec
      /\ \A b \in Block : vol'.home[b].data = vol.home[b].data
      /\ UNCHANGED <<disk, healthy, hold, live, marked, jw, tx, blocks, i, rp, outcome, faults>>
  BY <1>N, <1>L, <1>I, WriteRecoverImage, Zenon DEF ClearRecover
<1>a. /\ (Dirty(disk)' <=> Dirty(disk)) /\ (Dirty(vol)' <=> Dirty(vol))
      /\ (HoldsTx(disk)' <=> HoldsTx(disk)) /\ (HoldsTx(vol)' <=> HoldsTx(vol))
  BY <1>1, <1>B, SameImages
<1>2. LogInv'
  BY <1>1, LogFrame DEF Logging
<1>3. WalkInv'
  BY <1>1, NotWalking
<1>4. HomeInv'
  BY <1>1, <1>a DEF HomeInv
<1>5. RecoverInv'
  BY <1>1, <1>a DEF RecoverInv, CursorInv
<1>6. TxInv' /\ OutcomeInv'
  BY <1>1, <1>a DEF TxInv, Logging, OutcomeInv, Committing
<1>7. CursorInv'
  BY <1>1, <1>a DEF CursorInv, Logging, Committing
<1> QED
  BY <1>2, <1>3, <1>4, <1>5, <1>6, <1>7

\* The commit's last fence, and its return, preserve the invariant.
LEMMA Fence4Keeps ==
  ASSUME Settled, IInv, TypeInv', Fence4
  PROVE  IInv'
<1> USE DEF IInv
<1>T. Typed
  BY TypeFacts
<1>N. disk.jsb.seq \in Nat /\ vol.jsb.seq \in Nat /\ jw.seq \in Nat
  BY <1>T DEF Typed
<1>1. /\ pc = "fence4"
      /\ pc' = "up"
      /\ disk' = vol
      /\ vol' = vol
      /\ healthy' = TRUE
      /\ outcome' = "ok"
      /\ UNCHANGED <<vol, hold, live, marked, jw, tx, blocks, i, rp, faults>>
  BY DEF Fence4, Flush
<1>2. TxInv' /\ LogInv' /\ WalkInv' /\ HomeInv' /\ RecoverInv'
  BY <1>1, FlushKeeps DEF Quiet
<1>3. CursorInv'
  BY <1>1, <1>N DEF CursorInv, Dirty, Logging, Committing
<1>4. OutcomeInv'
  BY <1>1 DEF OutcomeInv, CursorInv, Dirty, Committing
<1> QED
  BY <1>2, <1>3, <1>4

\* A commit, from clearing the clean state to its last fence, preserves the invariant.
LEMMA CommitKeeps ==
  ASSUME Settled, IInv, TypeInv', MarkNotClean \/ (\E w \in Txs : Begin(w)) \/ CommitStep
  PROVE  IInv'
BY MarkNotCleanKeeps, BeginKeeps, LogBlockKeeps, SetRecoverKeeps, Fence1Keeps,
   MarkDirtyKeeps, Fence2Keeps, HomeBlockKeeps, Fence3Keeps, MarkCleanKeeps,
   ClearRecoverKeeps, Fence4Keeps DEF CommitStep

\* Reading the journal superblock to start a walk preserves the invariant.
LEMMA ReadJsbKeeps ==
  ASSUME Settled, IInv, TypeInv', ReadJsb
  PROVE  IInv'
<1> USE DEF IInv
<1>T. Typed
  BY TypeFacts
<1>S. disk.jsb.start \in 0..1 /\ vol.jsb.start \in 0..1
  BY <1>T DEF Typed
<1>1. /\ pc = "replay" /\ disk.jsb = vol.jsb
      /\ \/ Dirty(vol) /\ pc' = "walk"
            /\ rp' = [NoPlan EXCEPT !.cur = vol.jsb.start, !.expect = vol.jsb.seq]
         \/ ~Dirty(vol) /\ pc' \in {"munrec", "up", "marker2", "open"}
      /\ UNCHANGED <<disk, vol, healthy, hold, live, marked, jw, tx, blocks, i, outcome, faults>>
  BY DEF ReadJsb, Replayed, Dirty, CursorInv
<1>2. LogInv'
  BY <1>1, LogFrame DEF Logging
<1>3. WalkInv'
  <2>1. CASE Dirty(vol)
    <3>1. Len(tx) > 0
      BY <2>1 DEF TxInv
    <3>2. 0 < Chunks(Len(tx))
      BY <3>1, ChunksBounds, JournalAssumption
    <3>3. vol.jsb.start = 1
      BY <2>1, <1>S DEF Dirty
    <3>4. /\ rp'.cur = 1 /\ rp'.expect = vol.jsb.seq /\ rp'.walked = 0
          /\ rp'.pending = <<>> /\ rp'.writes = <<>>
      BY <1>1, <2>1, <3>3, Zenon DEF NoPlan
    <3>5. PlanOf(0)' = <<>>
      BY DEF PlanOf
    <3>6. 0 = TagsPerDesc * 0
      BY JournalAssumption
    <3>7. WalkedTo(0, 0)'
      BY <1>1, <3>2, <3>4, <3>5, <3>6 DEF WalkedTo
    <3> QED
      BY <1>1, <3>7 DEF WalkInv
  <2>2. CASE ~Dirty(vol)
    BY <1>1, <2>2 DEF WalkInv
  <2> QED
    BY <2>1, <2>2
<1>4. HomeInv' /\ RecoverInv'
  BY <1>1 DEF HomeInv, HoldsUpTo, HoldsTx, RecoverInv
<1>5. TxInv' /\ CursorInv' /\ OutcomeInv'
  BY <1>1 DEF TxInv, Dirty, Logging, CursorInv, Committing, OutcomeInv
<1> QED
  BY <1>2, <1>3, <1>4, <1>5

\* Walking one block of the log preserves the invariant.
LEMMA WalkBlockKeeps ==
  ASSUME Settled, IInv, TypeInv', WalkBlock
  PROVE  IInv'
<1> USE DEF IInv
<1>1. /\ pc = "walk" /\ pc' = "walk"
      /\ UNCHANGED <<disk, vol, healthy, hold, live, marked, jw, tx, blocks, i, outcome, faults>>
      /\ WalkInv'
  BY WalkBlockStep, Zenon DEF WalkBlock
<1>2. LogInv'
  BY <1>1, LogFrame DEF Logging
<1>3. WalkInv'
  BY <1>1
<1>4. HomeInv' /\ RecoverInv'
  BY <1>1, Zenon DEF HomeInv, Dirty, HoldsUpTo, HoldsTx, RecoverInv
<1>5. TxInv' /\ CursorInv' /\ OutcomeInv'
  BY <1>1 DEF TxInv, CursorInv, Committing, OutcomeInv
<1> QED
  BY <1>2, <1>3, <1>4, <1>5

\* Ending the walk, with the whole transaction planned, preserves the invariant.
LEMMA WalkEndKeeps ==
  ASSUME Settled, IInv, TypeInv', WalkEnd
  PROVE  IInv'
<1> USE DEF IInv
<1>a. PlanComplete
  BY WalkEndComplete
<1>b. Dirty(vol) /\ Len(tx) > 0
  BY DEF WalkEnd, CursorInv, TxInv
<1>c. Len(rp.writes) = Len(tx)
  BY <1>a DEF PlanComplete, PlanOf
<1>1. /\ pc = "walk" /\ pc' = "apply" /\ i' = 1
      /\ UNCHANGED <<disk, vol, healthy, hold, live, marked, jw, tx, blocks, rp, outcome, faults>>
  BY <1>b, <1>c DEF WalkEnd
<1>2. LogInv'
  BY <1>1, LogFrame DEF Logging
<1>3. WalkInv'
  BY <1>1, <1>a DEF WalkInv, PlanComplete, PlanOf
<1>4. HomeInv'
  <2>1. HoldsUpTo(vol, i - 1)'
    BY <1>1 DEF HoldsUpTo
  <2> QED
    BY <1>1 DEF HomeInv, HoldsTx, HoldsUpTo
<1>5. RecoverInv'
  BY <1>1 DEF RecoverInv, HoldsUpTo, HoldsTx
<1>6. TxInv' /\ CursorInv' /\ OutcomeInv'
  BY <1>1 DEF TxInv, CursorInv, Logging, Committing, OutcomeInv
<1> QED
  BY <1>2, <1>3, <1>4, <1>5, <1>6

\* Reading the journal superblock and walking the log preserves the invariant.
LEMMA WalkKeeps ==
  ASSUME Settled, IInv, TypeInv', ReadJsb \/ WalkBlock \/ WalkEnd
  PROVE  IInv'
BY ReadJsbKeeps, WalkBlockKeeps, WalkEndKeeps

\* Applying one replayed write preserves the invariant.
LEMMA ApplyWriteKeeps ==
  ASSUME Settled, IInv, TypeInv', ApplyWrite
  PROVE  IInv'
<1> USE DEF IInv
<1>T. Typed
  BY TypeFacts
<1>N. disk.jsb.seq \in Nat /\ vol.jsb.seq \in Nat /\ jw.seq \in Nat
  BY <1>T DEF Typed
<1>B. SB \in Block /\ Len(tx) \in Nat /\ \A k \in 1 .. Len(tx) : tx[k].blk \in Block
  BY <1>T DEF Typed
<1>I. disk \in Image /\ vol \in Image /\ jw \in Jsb /\ tx \in Seq(Write)
  BY <1>T DEF Typed
<1>p. pc = "apply" /\ PlanComplete
  BY DEF ApplyWrite, WalkInv
<1>l. Len(rp.writes) = Len(tx)
  BY <1>p DEF PlanComplete, PlanOf
<1>a. i \in 1 .. Len(tx)
  BY <1>p, <1>l, <1>T DEF TypeInv, IndexOK, Typed
<1>s. rp.writes[i].blk = tx[i].blk /\ rp.writes[i].src = SlotOf(i)
  BY <1>p, <1>a DEF PlanComplete, PlanOf
<1>d. Dirty(vol)
  BY <1>p DEF CursorInv
<1>v. vol.log[SlotOf(i)].val = tx[i].val
  <2>1. /\ SlotOf(i) \in 1 .. Len(tx) + Chunks(Len(tx))
        /\ Serialize(vol.jsb.seq, tx)[SlotOf(i)] = Data(tx[i].val)
    BY <1>a, <1>N, <1>I, SerializeData
  <2>2. Len(Serialize(vol.jsb.seq, tx)) = Len(tx) + Chunks(Len(tx)) + 1 /\ Chunks(Len(tx)) \in Nat
    BY <1>N, <1>B, <1>I, SerializeType, ChunksBounds, Zenon
  <2>3. SlotOf(i) \in 1 .. Len(Serialize(vol.jsb.seq, tx))
    BY <2>1, <2>2
  <2>4. vol.log[SlotOf(i)] = Data(tx[i].val)
    BY <1>d, <2>1, <2>3 DEF LogInv, HoldsLog
  <2> QED
    BY <2>4 DEF Data
<1>w. WriteHome(tx[i].blk, tx[i].val)
  BY <1>s, <1>v DEF ApplyWrite
<1>1. /\ pc = "apply" /\ pc' = IF i = Len(tx) THEN "fenceA" ELSE "apply"
      /\ vol'.log = vol.log /\ vol'.jsb = vol.jsb
      /\ vol'.home = [vol.home EXCEPT ![tx[i].blk] = tx[i].val]
      /\ i' = i + 1
      /\ UNCHANGED <<disk, healthy, hold, live, marked, jw, tx, blocks, rp, outcome, faults>>
  BY <1>T, <1>a, <1>l, <1>w, WriteHomeImage DEF ApplyWrite, Typed
<1>b. Dirty(disk) /\ Dirty(vol) /\ HoldsUpTo(vol, i - 1)
  BY <1>1 DEF CursorInv, HomeInv, Dirty
<1>c. /\ HoldsUpTo(vol', i)
      /\ HoldsTx(vol) => HoldsTx(vol')
      /\ i = Len(tx) => HoldsTx(vol')
      /\ \A b \in Block : (\A k \in 1..Len(tx) : tx[k].blk # b) =>
                            vol'.home[b].data = vol.home[b].data
      /\ vol.home[SB].rec => vol'.home[SB].rec
  BY <1>1, <1>b, <1>a, <1>T, TxWrite DEF Typed
<1>2. LogInv'
  BY <1>1, LogFrame DEF Logging
<1>3. WalkInv'
  BY <1>1 DEF WalkInv, PlanComplete, PlanOf
<1>4. HomeInv'
  <2>1. HoldsUpTo(vol, i - 1)'
    BY <1>1, <1>a, <1>c DEF HoldsUpTo
  <2>2. i = Len(tx) => HoldsTx(vol)'
    BY <1>1, <1>c DEF HoldsTx, HoldsUpTo
  <2>3. \A b \in Block : (\A k \in 1..Len(tx) : tx[k].blk # b) =>
                           vol'.home[b].data = disk.home[b].data
    BY <1>c DEF HomeInv
  <2> QED
    BY <1>1, <1>b, <2>1, <2>2, <2>3, Zenon DEF HomeInv, Dirty
<1>5. RecoverInv'
  BY <1>1, <1>c DEF RecoverInv, Dirty, HoldsTx, HoldsUpTo
<1>6. TxInv' /\ CursorInv' /\ OutcomeInv'
  BY <1>1 DEF TxInv, Dirty, Logging, CursorInv, Committing, OutcomeInv
<1> QED
  BY <1>2, <1>3, <1>4, <1>5, <1>6

\* The fence after the replayed writes preserves the invariant.
LEMMA FenceAKeeps ==
  ASSUME Settled, IInv, TypeInv', FenceA
  PROVE  IInv'
<1> USE DEF IInv
<1>1. /\ pc = "fenceA"
      /\ pc' = "mclean"
      /\ disk' = vol
      /\ vol' = vol
      /\ UNCHANGED <<vol, healthy, hold, live, marked, jw, tx, blocks, i, rp, outcome, faults>>
  BY DEF FenceA, Flush
<1>2. LogInv'
  BY <1>1, FlushLog DEF Logging
<1>3. WalkInv'
  BY <1>1 DEF WalkInv, PlanComplete, PlanOf
<1>4. HomeInv' /\ RecoverInv'
  BY <1>1, Zenon DEF HomeInv, Dirty, HoldsUpTo, HoldsTx, RecoverInv
<1>5. TxInv' /\ CursorInv' /\ OutcomeInv'
  BY <1>1 DEF TxInv, CursorInv, Logging, Committing, OutcomeInv
<1> QED
  BY <1>2, <1>3, <1>4, <1>5

\* Marking the replayed journal clean preserves the invariant.
LEMMA MarkJournalCleanKeeps ==
  ASSUME Settled, IInv, TypeInv', MarkJournalClean
  PROVE  IInv'
<1> USE DEF IInv
<1>T. Typed
  BY TypeFacts
<1>N. disk.jsb.seq \in Nat /\ vol.jsb.seq \in Nat /\ jw.seq \in Nat
  BY <1>T DEF Typed
<1>I. disk \in Image /\ vol \in Image /\ jw \in Jsb /\ tx \in Seq(Write)
  BY <1>T DEF Typed
<1>0. [start |-> 0, seq |-> rp.expect + 1] \in Jsb
  BY <1>T DEF Jsb, Typed
<1>1. /\ pc = "mclean"
      /\ pc' = "fenceB"
      /\ vol'.home = vol.home
      /\ vol'.log = vol.log
      /\ vol'.jsb = [start |-> 0, seq |-> rp.expect + 1]
      /\ UNCHANGED <<disk, healthy, hold, live, marked, jw, tx, blocks, i, rp, outcome, faults>>
  BY <1>I, <1>0, WriteJsbImage DEF MarkJournalClean
<1>2. LogInv'
  BY <1>1 DEF LogInv, Dirty, HoldsLog
<1>3. WalkInv'
  BY <1>1, NotWalking
<1>4. HomeInv' /\ RecoverInv'
  BY <1>1 DEF HomeInv, Dirty, HoldsUpTo, HoldsTx, RecoverInv
<1>5. TxInv' /\ CursorInv' /\ OutcomeInv'
  <2>1. TxInv'
    BY <1>1 DEF TxInv, Dirty, Logging
  <2>2. CursorInv'
    <3>1. rp.expect = vol.jsb.seq + 1
      BY <1>1 DEF WalkInv, PlanComplete
    <3>2. vol'.jsb.seq = rp.expect + 1 /\ ~Dirty(vol)' /\ disk.jsb.seq <= vol.jsb.seq
      BY <1>1 DEF CursorInv, Dirty
    <3>3. disk'.jsb.seq <= vol'.jsb.seq
      BY <1>1, <3>1, <3>2, <1>N
    <3>4. ~healthy
      BY <1>1 DEF CursorInv
    <3> QED
      BY <1>1, <3>2, <3>3, <3>4 DEF CursorInv, Logging
  <2>3. OutcomeInv'
    BY <1>1 DEF OutcomeInv, Dirty, Committing
  <2> QED
    BY <2>1, <2>2, <2>3
<1> QED
  BY <1>2, <1>3, <1>4, <1>5

\* The fence after the journal is clean preserves the invariant.
LEMMA FenceBKeeps ==
  ASSUME Settled, IInv, TypeInv', FenceB
  PROVE  IInv'
<1> USE DEF IInv
<1>T. Typed
  BY TypeFacts
<1>N. disk.jsb.seq \in Nat /\ vol.jsb.seq \in Nat /\ jw.seq \in Nat
  BY <1>T DEF Typed
<1>1. /\ pc = "fenceB"
      /\ pc' = "munrec"
      /\ disk' = vol
      /\ vol' = vol
      /\ UNCHANGED <<vol, healthy, hold, live, marked, jw, tx, blocks, i, rp, outcome, faults>>
  BY DEF FenceB, Flush
<1>2. TxInv' /\ LogInv' /\ WalkInv' /\ HomeInv' /\ RecoverInv'
  BY <1>1, FlushKeeps DEF Quiet
<1>3. CursorInv'
  BY <1>1, <1>N DEF CursorInv, Dirty, Logging, Committing
<1>4. OutcomeInv'
  BY <1>1 DEF OutcomeInv, Dirty, Committing
<1> QED
  BY <1>2, <1>3, <1>4

\* Clearing RECOVER after a replay preserves the invariant.
LEMMA ClearRecoverAfterReplayKeeps ==
  ASSUME Settled, IInv, TypeInv', ClearRecoverAfterReplay
  PROVE  IInv'
<1> USE DEF IInv
<1>T. Typed
  BY TypeFacts
<1>B. SB \in Block /\ Len(tx) \in Nat /\ \A k \in 1 .. Len(tx) : tx[k].blk \in Block
  BY <1>T DEF Typed
<1>I. disk \in Image /\ vol \in Image /\ jw \in Jsb /\ tx \in Seq(Write)
  BY <1>T DEF Typed
<1>1. /\ pc = "munrec"
      /\ pc' = "fenceC"
      /\ vol'.log = vol.log
      /\ vol'.jsb = vol.jsb
      /\ ~vol'.home[SB].rec
      /\ \A b \in Block : vol'.home[b].data = vol.home[b].data
      /\ UNCHANGED <<disk, healthy, hold, live, marked, jw, tx, blocks, i, rp, outcome, faults>>
  BY <1>I, WriteRecoverImage, Zenon DEF ClearRecoverAfterReplay
<1>2. TxInv' /\ LogInv' /\ WalkInv' /\ HomeInv' /\ RecoverInv'
  BY <1>1, <1>B, StillKeeps DEF Quiet, CursorInv
<1>3. CursorInv'
  BY <1>1 DEF CursorInv, Dirty, Logging, Committing
<1>4. OutcomeInv'
  BY <1>1 DEF OutcomeInv, Dirty, Committing
<1> QED
  BY <1>2, <1>3, <1>4

\* The replay's last fence preserves the invariant.
LEMMA FenceCKeeps ==
  ASSUME Settled, IInv, TypeInv', FenceC
  PROVE  IInv'
<1> USE DEF IInv
<1>1. /\ pc = "fenceC"
      /\ pc' = Replayed
      /\ disk' = vol
      /\ vol' = vol
      /\ pc' \in {"up", "marker2", "open"}
      /\ UNCHANGED <<vol, healthy, hold, live, marked, jw, tx, blocks, i, rp, outcome, faults>>
  BY DEF FenceC, Flush, Replayed
<1>2. TxInv' /\ LogInv' /\ WalkInv' /\ HomeInv' /\ RecoverInv'
  BY <1>1, FlushKeeps DEF Quiet
<1>3. CursorInv'
  BY <1>1 DEF CursorInv, Dirty, Logging, Committing
<1>4. OutcomeInv'
  BY <1>1 DEF OutcomeInv, Dirty, Committing
<1> QED
  BY <1>2, <1>3, <1>4

\* Applying the replayed writes, up to the last fence, preserves the invariant.
LEMMA ReplayKeeps ==
  ASSUME Settled, IInv, TypeInv',
         \/ ApplyWrite \/ FenceA \/ MarkJournalClean
         \/ FenceB \/ ClearRecoverAfterReplay \/ FenceC
  PROVE  IInv'
BY ApplyWriteKeeps, FenceAKeeps, MarkJournalCleanKeeps, FenceBKeeps,
   ClearRecoverAfterReplayKeeps, FenceCKeeps

\* A device error during a commit preserves the invariant.
LEMMA CommitIoErrorKeeps ==
  ASSUME Settled, IInv, TypeInv', CommitIoError
  PROVE  IInv'
<1> USE DEF IInv
<1>T. Typed
  BY TypeFacts
<1>B. SB \in Block /\ Len(tx) \in Nat /\ \A k \in 1 .. Len(tx) : tx[k].blk \in Block
  BY <1>T DEF Typed
<1>1. /\ pc \in Committing
      /\ pc' = "up"
      /\ outcome' = "err"
      /\ UNCHANGED <<disk, vol, healthy, hold, live, marked, jw, tx, blocks, i, rp>>
  BY DEF CommitIoError
<1>2. TxInv' /\ LogInv' /\ WalkInv' /\ HomeInv' /\ RecoverInv'
  BY <1>1, <1>B, StillKeeps DEF Quiet
<1>3. CursorInv'
  BY <1>1 DEF CursorInv, Dirty, Logging, Committing
<1>4. OutcomeInv'
  BY <1>1 DEF OutcomeInv, Dirty, Committing
<1> QED
  BY <1>2, <1>3, <1>4

\* A device error during a mount or a replay preserves the invariant.
LEMMA MountIoErrorKeeps ==
  ASSUME Settled, IInv, TypeInv', MountIoError
  PROVE  IInv'
<1> USE DEF IInv
<1>T. Typed
  BY TypeFacts
<1>B. SB \in Block /\ Len(tx) \in Nat /\ \A k \in 1 .. Len(tx) : tx[k].blk \in Block
  BY <1>T DEF Typed
<1>1. /\ pc \in Mounting
      /\ pc' \in {"up", "down"}
      /\ UNCHANGED <<disk, vol, healthy, hold, live, marked, jw, tx, blocks, i, rp, outcome>>
  BY DEF MountIoError
<1>2. TxInv' /\ LogInv' /\ WalkInv' /\ HomeInv' /\ RecoverInv'
  BY <1>1, <1>B, StillKeeps DEF Quiet
<1>3. CursorInv'
  BY <1>1 DEF CursorInv, Dirty, Logging, Committing
<1>4. OutcomeInv'
  BY <1>1 DEF OutcomeInv, Dirty, Committing, Mounting
<1> QED
  BY <1>2, <1>3, <1>4

\* A crash preserves the invariant.
LEMMA CrashKeeps ==
  ASSUME Settled, IInv, TypeInv', Crash
  PROVE  IInv'
<1> USE DEF IInv
<1>T. Typed
  BY TypeFacts
<1>N. disk.jsb.seq \in Nat /\ vol.jsb.seq \in Nat /\ jw.seq \in Nat
  BY <1>T DEF Typed
<1>1. /\ pc' = "down"
      /\ vol' = disk
      /\ healthy' = FALSE
      /\ outcome' = IF outcome = "busy" THEN "err" ELSE outcome
      /\ UNCHANGED <<disk, hold, live, marked, jw, tx, blocks, i, rp>>
  BY DEF Crash
<1>a. (Dirty(disk)' <=> Dirty(disk)) /\ (Dirty(vol)' <=> Dirty(disk))
  BY <1>1 DEF Dirty
<1>b. (HoldsTx(disk)' <=> HoldsTx(disk)) /\ (HoldsTx(vol)' <=> HoldsTx(disk))
  BY <1>1 DEF HoldsTx, HoldsUpTo
<1>c. \A q : (HoldsLog(disk, q)' <=> HoldsLog(disk, q)) /\ (HoldsLog(vol, q)' <=> HoldsLog(disk, q))
  BY <1>1 DEF HoldsLog
<1>2. LogInv'
  BY <1>1, <1>a, <1>c DEF LogInv
<1>3. CursorInv'
  <2>1. disk'.jsb.seq <= vol'.jsb.seq
    BY <1>1, <1>N
  <2> QED
    BY <1>1, <2>1 DEF CursorInv, Logging
<1>4. WalkInv'
  BY <1>1, NotWalking
<1>5. HomeInv'
  BY <1>1, <1>a DEF HomeInv
<1>6. RecoverInv'
  BY <1>1, <1>a, <1>b DEF RecoverInv, HomeInv
<1>7. TxInv'
  BY <1>1, <1>a DEF TxInv, Logging
<1>8. OutcomeInv'
  BY <1>1, <1>a DEF OutcomeInv, Committing
<1> QED
  BY <1>2, <1>3, <1>4, <1>5, <1>6, <1>7, <1>8

\* Stuttering preserves the invariant.
LEMMA StutterKeeps ==
  ASSUME Settled, IInv, TypeInv', UNCHANGED vars
  PROVE  IInv'
<1> USE DEF IInv
<1>1. disk' = disk /\ vol' = vol /\ pc' = pc /\ tx' = tx /\ i' = i
  BY DEF vars
<1>2. blocks' = blocks /\ jw' = jw /\ rp' = rp /\ healthy' = healthy /\ outcome' = outcome
  BY DEF vars
<1>a. (Dirty(disk)' <=> Dirty(disk)) /\ (Dirty(vol)' <=> Dirty(vol))
  BY <1>1
<1>b. (HoldsTx(disk)' <=> HoldsTx(disk)) /\ (HoldsTx(vol)' <=> HoldsTx(vol))
  BY <1>1 DEF HoldsTx, HoldsUpTo
<1>c. \A q : (HoldsLog(disk, q)' <=> HoldsLog(disk, q)) /\ (HoldsLog(vol, q)' <=> HoldsLog(vol, q))
  BY <1>1 DEF HoldsLog
<1>d. HoldsUpTo(vol, i - 1)' <=> HoldsUpTo(vol, i - 1)
  BY <1>1 DEF HoldsUpTo
<1>3. LogInv'
  BY <1>1, <1>2, <1>a, <1>c DEF LogInv
<1>4. WalkInv'
  BY <1>1, <1>2, WalkFrame
<1>5. HomeInv'
  BY <1>1, <1>a, <1>b, <1>d, Zenon DEF HomeInv
<1>6. RecoverInv'
  BY <1>1, <1>a, <1>b DEF RecoverInv
<1>7. TxInv'
  BY <1>1, <1>a DEF TxInv
<1>8. CursorInv'
  BY <1>1, <1>2, <1>a DEF CursorInv
<1>9. OutcomeInv'
  BY <1>1, <1>2, <1>a DEF OutcomeInv
<1> QED
  BY <1>3, <1>4, <1>5, <1>6, <1>7, <1>8, <1>9

\* Device errors, crashes and stuttering preserve the invariant.
LEMMA FaultsKeep ==
  ASSUME Settled, IInv, TypeInv', CommitIoError \/ MountIoError \/ Crash \/ UNCHANGED vars
  PROVE  IInv'
BY CommitIoErrorKeeps, MountIoErrorKeeps, CrashKeeps, StutterKeeps

\* The device's writing a home block back preserves the invariant.
LEMMA WritebackHomeKeeps ==
  ASSUME Settled, IInv, TypeInv', NEW b \in Block, WritebackHome(b)
  PROVE  IInv'
<1> USE DEF IInv
<1>T. Typed
  BY TypeFacts
<1>B. SB \in Block /\ Len(tx) \in Nat /\ \A k \in 1 .. Len(tx) : tx[k].blk \in Block
  BY <1>T DEF Typed
<1>I. disk \in Image /\ vol \in Image /\ jw \in Jsb /\ tx \in Seq(Write)
  BY <1>T DEF Typed
<1>1. /\ disk'.home = [disk.home EXCEPT ![b] = vol.home[b]]
      /\ disk'.log = disk.log /\ disk'.jsb = disk.jsb
      /\ UNCHANGED <<vol, pc, healthy, hold, live, marked, jw, tx, blocks, i, rp, outcome, faults>>
  BY DEF WritebackHome
<1>a. \A c \in Block : disk'.home[c] = IF c = b THEN vol.home[c] ELSE disk.home[c]
  BY <1>1, <1>I DEF Image
<1>h. HoldsTx(disk) /\ HoldsTx(vol) => HoldsTx(disk)'
  BY <1>1 DEF HoldsTx, HoldsUpTo
<1>2. LogInv'
  <2>1. /\ Dirty(disk)' <=> Dirty(disk)
        /\ Dirty(vol)' <=> Dirty(vol)
    BY <1>1 DEF Dirty
  <2>2. /\ \A q : HoldsLog(disk, q)' <=> HoldsLog(disk, q)
        /\ \A q : HoldsLog(vol, q)' <=> HoldsLog(vol, q)
    BY <1>1 DEF HoldsLog
  <2>3. \A p \in Slot : vol.log[p].seq <= disk.jsb.seq /\ disk.log[p].seq <= disk.jsb.seq
    BY DEF LogInv
  <2>4. /\ Dirty(disk) => HoldsLog(disk, disk.jsb.seq) /\ HoldsLog(vol, disk.jsb.seq)
        /\ Dirty(vol) => HoldsLog(disk, vol.jsb.seq) /\ HoldsLog(vol, vol.jsb.seq)
        /\ pc = "log" => \A p \in 1 .. Len(blocks) : p < i => vol.log[p] = blocks[p]
        /\ pc \in {"recover", "fence1", "dirty"} => HoldsLog(vol, jw.seq)
        /\ pc = "dirty" => HoldsLog(disk, jw.seq)
    BY DEF LogInv
  <2>5. /\ (Dirty(disk) => HoldsLog(disk, disk.jsb.seq) /\ HoldsLog(vol, disk.jsb.seq))'
        /\ (Dirty(vol) => HoldsLog(disk, vol.jsb.seq) /\ HoldsLog(vol, vol.jsb.seq))'
        /\ (pc \in {"recover", "fence1", "dirty"} => HoldsLog(vol, jw.seq))'
        /\ (pc = "dirty" => HoldsLog(disk, jw.seq))'
    BY <1>1, <2>1, <2>2, <2>4
  <2>6. /\ (pc = "log" => \A p \in 1 .. Len(blocks) : p < i => vol.log[p] = blocks[p])'
        /\ (\A p \in Slot : vol.log[p].seq <= disk.jsb.seq /\ disk.log[p].seq <= disk.jsb.seq)'
    BY <1>1, <2>3, <2>4, Zenon
  <2> QED
    BY <2>5, <2>6 DEF LogInv
<1>3. WalkInv'
  BY <1>1, WalkFrame, Zenon
<1>4. HomeInv'
  <2>1. HoldsTx(vol)' <=> HoldsTx(vol)
    BY <1>1 DEF HoldsTx, HoldsUpTo
  <2>2. HoldsTx(disk) /\ HoldsTx(vol) => HoldsTx(disk)'
    BY <1>h
  <2>3. HoldsUpTo(vol, i - 1)' <=> HoldsUpTo(vol, i - 1)
    BY <1>1 DEF HoldsUpTo
  <2>4. ~Dirty(disk) => \A c \in Block : vol.home[c].data = disk'.home[c].data
    BY <1>a DEF HomeInv
  <2>5. Dirty(disk) => \A c \in Block : (\A k \in 1..Len(tx) : tx[k].blk # c) =>
                                     vol.home[c].data = disk'.home[c].data
    BY <1>a DEF HomeInv
  <2>6. Dirty(disk)' <=> Dirty(disk)
    BY <1>1 DEF Dirty
  <2>7. Dirty(vol)' <=> Dirty(vol)
    BY <1>1
  <2>8. (~Dirty(disk) => \A c \in Block : vol.home[c].data = disk.home[c].data)'
    BY <1>1, <2>4, <2>6
  <2>9. (Dirty(disk) => \A c \in Block : (\A k \in 1..Len(tx) : tx[k].blk # c) =>
                                     vol.home[c].data = disk.home[c].data)'
    BY <1>1, <2>5, <2>6
  <2>10. (Dirty(disk) /\ ~Dirty(vol) => HoldsTx(disk) /\ HoldsTx(vol))'
    BY <2>1, <2>2, <2>6, <2>7 DEF HomeInv
  <2>11. (pc \in {"home", "apply"} => HoldsUpTo(vol, i - 1))'
    BY <1>1, <2>3 DEF HomeInv
  <2>12. (pc \in {"fence3", "fenceA", "clean", "mclean", "unrecover", "fence4"} => HoldsTx(vol))'
    BY <1>1, <2>1 DEF HomeInv
  <2>13. (pc \in {"clean", "mclean", "unrecover", "fence4"} => HoldsTx(disk))'
    BY <1>1, <2>1, <2>2 DEF HomeInv
  <2> QED
    BY <2>8, <2>9, <2>10, <2>11, <2>12, <2>13, Zenon DEF HomeInv
<1>5. RecoverInv'
  <2>1. HoldsTx(disk) /\ HoldsTx(vol) => HoldsTx(disk)'
    BY <1>h
  <2>2. vol.home[SB].rec /\ disk.home[SB].rec => disk'.home[SB].rec
    BY <1>a, <1>B
  <2>3. (HoldsTx(vol)' <=> HoldsTx(vol)) /\ (Dirty(vol)' <=> Dirty(vol))
    BY <1>1, Zenon DEF HoldsTx, HoldsUpTo, Dirty
  <2>4. pc = "dirty" => vol.home[SB].rec /\ disk.home[SB].rec
    BY DEF RecoverInv
  <2> QED
    BY <1>1, <2>1, <2>2, <2>3, <2>4 DEF RecoverInv
<1>6. TxInv' /\ CursorInv' /\ OutcomeInv'
  BY <1>1, Zenon DEF TxInv, CursorInv, Dirty, OutcomeInv
<1> QED
  BY <1>2, <1>3, <1>4, <1>5, <1>6

\* The device's writing a log block back preserves the invariant.
LEMMA WritebackLogKeeps ==
  ASSUME Settled, IInv, TypeInv', NEW p \in Slot, WritebackLog(p)
  PROVE  IInv'
<1> USE DEF IInv
<1>T. Typed
  BY TypeFacts
<1>B. SB \in Block /\ Len(tx) \in Nat /\ \A k \in 1 .. Len(tx) : tx[k].blk \in Block
  BY <1>T DEF Typed
<1>L. \A s \in Slot : vol.log[s].seq \in Nat /\ disk.log[s].seq \in Nat
  BY <1>T DEF Typed
<1>I. disk \in Image /\ vol \in Image /\ jw \in Jsb /\ tx \in Seq(Write)
  BY <1>T DEF Typed
<1>S. disk.jsb.start \in 0..1 /\ vol.jsb.start \in 0..1
  BY <1>T DEF Typed
<1>1. /\ disk'.log = [disk.log EXCEPT ![p] = vol.log[p]]
      /\ disk'.home = disk.home /\ disk'.jsb = disk.jsb
      /\ UNCHANGED <<vol, pc, healthy, hold, live, marked, jw, tx, blocks, i, rp, outcome, faults>>
  BY DEF WritebackLog
<1>a. \A s \in Slot : disk'.log[s] = IF s = p THEN vol.log[s] ELSE disk.log[s]
  BY <1>1, <1>L, <1>I, <1>S DEF Image
<1>2. LogInv'
  <2>1. ASSUME NEW q, HoldsLog(disk, q), HoldsLog(vol, q),
               Dirty(disk) \/ Dirty(vol) \/ pc = "dirty"
        PROVE  HoldsLog(disk, q)'
    <3>1. Len(tx) + Chunks(Len(tx)) + 1 <= Limit
      BY <2>1 DEF TxInv, Logging
    <3>2. Len(Serialize(q, tx)) = Len(tx) + Chunks(Len(tx)) + 1 /\ Chunks(Len(tx)) \in Nat
      BY <1>B, <1>L, SerializeLen, ChunksBounds, Zenon
    <3>3. \A s \in 1 .. Len(Serialize(q, tx)) : s \in Slot
      BY <3>1, <3>2, JournalAssumption DEF Slot, Limit
    <3>4. ASSUME NEW s \in 1 .. Len(Serialize(q, tx))
          PROVE  disk'.log[s] = Serialize(q, tx)[s]
      BY <3>3, <1>a, <2>1 DEF HoldsLog
    <3> QED
      BY <1>1, <3>4, Zenon DEF HoldsLog
  <2>2. \A s \in Slot : disk'.log[s].seq <= disk.jsb.seq
    BY <1>a DEF LogInv
  <2>3. \A q : HoldsLog(vol, q)' <=> HoldsLog(vol, q)
    BY <1>1 DEF HoldsLog
  <2>4. /\ Dirty(disk)' <=> Dirty(disk)
        /\ Dirty(vol)' <=> Dirty(vol)
        /\ disk'.jsb = disk.jsb
    BY <1>1 DEF Dirty
  <2> HIDE DEF HoldsLog
  <2>5. Dirty(disk) => HoldsLog(disk, disk.jsb.seq)' /\ HoldsLog(vol, disk.jsb.seq)'
    BY <1>1, <2>1, <2>3 DEF LogInv
  <2>6. Dirty(vol) => HoldsLog(disk, vol.jsb.seq)' /\ HoldsLog(vol, vol.jsb.seq)'
    BY <1>1, <2>1, <2>3 DEF LogInv
  <2>7. pc = "dirty" => HoldsLog(disk, jw.seq)'
    BY <1>1, <2>1, <2>3 DEF LogInv
  <2>8. /\ (Dirty(disk) => HoldsLog(disk, disk.jsb.seq) /\ HoldsLog(vol, disk.jsb.seq))'
        /\ (Dirty(vol) => HoldsLog(disk, vol.jsb.seq) /\ HoldsLog(vol, vol.jsb.seq))'
    BY <1>1, <2>4, <2>5, <2>6
  <2>9. (pc = "log" => \A s \in 1 .. Len(blocks) : s < i => vol.log[s] = blocks[s])'
    BY <1>1, Zenon DEF LogInv
  <2>10. (pc \in {"recover", "fence1", "dirty"} => HoldsLog(vol, jw.seq))'
    BY <1>1, <2>3 DEF LogInv
  <2>11. (pc = "dirty" => HoldsLog(disk, jw.seq))'
    BY <1>1, <2>7
  <2>12. (\A s \in Slot : vol.log[s].seq <= disk.jsb.seq /\ disk.log[s].seq <= disk.jsb.seq)'
    BY <1>1, <2>2, <2>4 DEF LogInv
  <2> QED
    BY <2>8, <2>9, <2>10, <2>11, <2>12, Zenon DEF LogInv
<1>3. WalkInv'
  BY <1>1, WalkFrame
<1>4. HomeInv' /\ RecoverInv'
  <2>1. /\ Dirty(disk)' <=> Dirty(disk)
        /\ Dirty(vol)' <=> Dirty(vol)
        /\ HoldsTx(disk)' <=> HoldsTx(disk)
        /\ HoldsTx(vol)' <=> HoldsTx(vol)
        /\ HoldsUpTo(vol, i - 1)' <=> HoldsUpTo(vol, i - 1)
    BY <1>1 DEF Dirty, HoldsTx, HoldsUpTo
  <2>2. HomeInv'
    BY <1>1, <2>1, Zenon DEF HomeInv
  <2>3. RecoverInv'
    BY <1>1, <2>1, Zenon DEF RecoverInv
  <2> QED
    BY <2>2, <2>3
<1>5. TxInv' /\ CursorInv' /\ OutcomeInv'
  BY <1>1, Zenon DEF TxInv, CursorInv, Dirty, OutcomeInv
<1> QED
  BY <1>2, <1>3, <1>4, <1>5

\* The device's writing the journal superblock back preserves the invariant.
LEMMA WritebackJsbKeeps ==
  ASSUME Settled, IInv, TypeInv', WritebackJsb
  PROVE  IInv'
<1> USE DEF IInv
<1>T. Typed
  BY TypeFacts
<1>N. disk.jsb.seq \in Nat /\ vol.jsb.seq \in Nat /\ jw.seq \in Nat
  BY <1>T DEF Typed
<1>L. \A p \in Slot : vol.log[p].seq \in Nat /\ disk.log[p].seq \in Nat
  BY <1>T DEF Typed
<1>1. /\ disk'.home = disk.home
      /\ disk'.log = disk.log
      /\ disk'.jsb = vol.jsb
      /\ UNCHANGED <<vol, pc, healthy, hold, live, marked, jw, tx, blocks, i, rp, outcome, faults>>
  BY WritebackJsbImage DEF WritebackJsb
<1>2. LogInv'
  <2>1. \A p \in Slot : vol.log[p].seq <= vol.jsb.seq /\ disk.log[p].seq <= vol.jsb.seq
    <3>1. disk.jsb.seq <= vol.jsb.seq
      BY DEF CursorInv
    <3>2. \A p \in Slot : vol.log[p].seq <= disk.jsb.seq /\ disk.log[p].seq <= disk.jsb.seq
      BY DEF LogInv
    <3> SUFFICES ASSUME NEW p \in Slot
                 PROVE  vol.log[p].seq <= vol.jsb.seq /\ disk.log[p].seq <= vol.jsb.seq
      OBVIOUS
    <3> DEFINE a == vol.log[p].seq
               b == disk.log[p].seq
               d == disk.jsb.seq
               e == vol.jsb.seq
    <3>3. a \in Nat /\ b \in Nat /\ d \in Nat /\ e \in Nat /\ a <= d /\ b <= d /\ d <= e
      BY <3>1, <3>2, <1>N, <1>L
    <3> HIDE DEF a, b, d, e
    <3>4. a <= e /\ b <= e
      BY <3>3
    <3> QED
      BY <3>4 DEF a, b, e
  <2>2. /\ \A q : HoldsLog(disk, q)' <=> HoldsLog(disk, q)
        /\ \A q : HoldsLog(vol, q)' <=> HoldsLog(vol, q)
    BY <1>1 DEF HoldsLog
  <2>3. /\ Dirty(disk)' <=> Dirty(vol)
        /\ Dirty(vol)' <=> Dirty(vol)
    BY <1>1 DEF Dirty
  <2> HIDE DEF HoldsLog
  <2>4. /\ Dirty(vol) => HoldsLog(disk, vol.jsb.seq) /\ HoldsLog(vol, vol.jsb.seq)
        /\ pc = "log" => \A p \in 1 .. Len(blocks) : p < i => vol.log[p] = blocks[p]
        /\ pc \in {"recover", "fence1", "dirty"} => HoldsLog(vol, jw.seq)
        /\ pc = "dirty" => HoldsLog(disk, jw.seq)
    BY DEF LogInv
  <2>5. /\ (Dirty(disk) => HoldsLog(disk, disk.jsb.seq) /\ HoldsLog(vol, disk.jsb.seq))'
        /\ (Dirty(vol) => HoldsLog(disk, vol.jsb.seq) /\ HoldsLog(vol, vol.jsb.seq))'
        /\ (pc \in {"recover", "fence1", "dirty"} => HoldsLog(vol, jw.seq))'
        /\ (pc = "dirty" => HoldsLog(disk, jw.seq))'
    BY <1>1, <2>2, <2>3, <2>4
  <2>6. /\ (pc = "log" => \A p \in 1 .. Len(blocks) : p < i => vol.log[p] = blocks[p])'
        /\ (\A p \in Slot : vol.log[p].seq <= disk.jsb.seq /\ disk.log[p].seq <= disk.jsb.seq)'
    BY <1>1, <2>1, <2>4
  <2> QED
    BY <2>5, <2>6 DEF LogInv
<1>3. CursorInv'
  <2>1. disk'.jsb.seq <= vol'.jsb.seq
    BY <1>1, <1>N
  <2> QED
    BY <1>1, <2>1 DEF CursorInv, Committing
<1>4. WalkInv'
  BY <1>1, WalkFrame
<1>5. HomeInv' /\ RecoverInv'
  <2>1. HoldsTx(disk)' <=> HoldsTx(disk)
    BY <1>1 DEF HoldsTx, HoldsUpTo
  <2>2. HoldsTx(vol)' <=> HoldsTx(vol)
    BY <1>1 DEF HoldsTx, HoldsUpTo
  <2>3. HoldsUpTo(vol, i - 1)' <=> HoldsUpTo(vol, i - 1)
    BY <1>1 DEF HoldsUpTo
  <2>a. /\ Dirty(disk)' <=> Dirty(vol)
        /\ Dirty(vol)' <=> Dirty(vol)
    BY <1>1 DEF Dirty
  <2>b. ASSUME ~Dirty(vol), NEW c \in Block
        PROVE  vol.home[c].data = disk.home[c].data
    <3>1. CASE ~Dirty(disk)
      BY <3>1 DEF HomeInv
    <3>2. CASE Dirty(disk)
      <4>1. HoldsTx(disk) /\ HoldsTx(vol)
        BY <2>b, <3>2 DEF HomeInv
      <4>2. CASE \E k \in 1..Len(tx) : tx[k].blk = c
        BY <4>1, <4>2 DEF HoldsTx, HoldsUpTo
      <4>3. CASE \A k \in 1..Len(tx) : tx[k].blk # c
        BY <3>2, <4>3 DEF HomeInv
      <4> QED
        BY <4>2, <4>3
    <3> QED
      BY <3>1, <3>2
  <2>c. ASSUME Dirty(vol), NEW c \in Block, \A k \in 1..Len(tx) : tx[k].blk # c
        PROVE  vol.home[c].data = disk.home[c].data
    BY <2>c DEF HomeInv
  <2>4. HomeInv'
    <3>1. (~Dirty(disk) => \A b \in Block : vol.home[b].data = disk.home[b].data)'
      BY <1>1, <2>a, <2>b
    <3>2. (Dirty(disk) => \A b \in Block : (\A k \in 1..Len(tx) : tx[k].blk # b) =>
                                             vol.home[b].data = disk.home[b].data)'
      BY <1>1, <2>a, <2>c
    <3>3. ~(Dirty(disk) /\ ~Dirty(vol))'
      BY <2>a
    <3>4. /\ pc \in {"home", "apply"} => HoldsUpTo(vol, i - 1)
          /\ pc \in {"fence3", "fenceA", "clean", "mclean", "unrecover", "fence4"}
               => HoldsTx(vol)
          /\ pc \in {"clean", "mclean", "unrecover", "fence4"} => HoldsTx(disk)
      BY DEF HomeInv
    <3> HIDE DEF HoldsTx, HoldsUpTo, Dirty
    <3> QED
      BY <1>1, <2>1, <2>2, <2>3, <3>1, <3>2, <3>3, <3>4, Zenon DEF HomeInv
  <2>5. RecoverInv'
    BY <1>1, <2>1, <2>2, <2>a DEF RecoverInv
  <2> QED
    BY <2>4, <2>5
<1>6. TxInv' /\ OutcomeInv'
  BY <1>1 DEF TxInv, Dirty, OutcomeInv
<1> QED
  BY <1>2, <1>3, <1>4, <1>5, <1>6

\* The device's write-backs of single blocks, in any order, preserve the invariant.
LEMMA WritebackKeeps ==
  ASSUME Settled, IInv, TypeInv',
         \/ \E b \in Block : WritebackHome(b)
         \/ \E p \in Slot : WritebackLog(p)
         \/ WritebackJsb
  PROVE  IInv'
BY WritebackHomeKeeps, WritebackLogKeeps, WritebackJsbKeeps

\* Every step preserves the invariant.
LEMMA InvStep ==
  ASSUME Settled
  PROVE  IInv /\ [Next]_vars => IInv'
<1> SUFFICES ASSUME IInv, [Next]_vars
             PROVE  IInv'
  OBVIOUS
<1>1. TypeInv'
  BY TypeStep DEF IInv
<1>2. MountStep => IInv'
  BY <1>1, OpenKeeps, WalkKeeps, ReplayKeeps DEF MountStep
<1>3. Environment => IInv'
  BY <1>1, FaultsKeep, WritebackKeeps DEF Environment
<1> QED
  BY <1>1, <1>2, <1>3, CommitKeeps, OpenKeeps, FaultsKeep DEF Next

\* The invariant holds of every behaviour.
LEMMA InvHolds ==
  ASSUME Settled
  PROVE  Spec => []IInv
<1>1. Init => IInv
  BY InvInit
<1>2. IInv /\ [Next]_vars => IInv'
  BY InvStep
<1> QED
  BY <1>1, <1>2, PTL DEF Spec

-----------------------------------------------------------------------------
(* The theorems. *)

\* Home blocks that hold the transaction are unchanged by replaying it.
LEMMA OverlayOfHeld ==
  ASSUME TypeInv, TxInv, NEW img \in Image, HoldsTx(img)
  PROVE  Overlay(Plain(img.home), Payload(tx)) = Plain(img.home)
<1> DEFINE P == Payload(tx)
           H == Plain(img.home)
<1>1. tx \in Seq(Write) /\ Len(tx) \in Nat
      /\ \A k \in 1 .. Len(tx) : tx[k].blk \in Block
  BY TypeFacts DEF Typed
<1>2. Len(P) = Len(tx) /\ \A k \in 1 .. Len(tx) : P[k].blk = tx[k].blk /\ P[k].val = tx[k].val.data
  BY DEF Payload
<1>3. \A k \in 1 .. Len(tx) : H[tx[k].blk] = tx[k].val.data
  BY <1>1 DEF HoldsTx, HoldsUpTo, Plain
<1>4. H = [b \in Block |-> H[b]]
  BY DEF Plain
<1> HIDE DEF P, H
<1>5. ASSUME NEW b \in Block, \E k \in 1 .. Len(P) : P[k].blk = b
      PROVE  P[CHOOSE k \in 1 .. Len(P) : P[k].blk = b].val = H[b]
  BY <1>2, <1>3, <1>5
<1>6. \A b \in Block : Overlay(H, P)[b] = H[b]
  BY <1>5, Zenon DEF Overlay
<1>7. Overlay(H, P) = [b \in Block |-> Overlay(H, P)[b]]
  BY DEF Overlay
<1>8. Overlay(H, P) = H
  BY <1>4, <1>6, <1>7, Zenon
<1> QED
  BY <1>8 DEF H, P

\* A journal that is durably dirty without the RECOVER flag holds nothing the
\* home blocks lack: a kernel that wipes the journal of a volume without the
\* flag loses nothing (journal_apply::write_needs_recovery, commit_inner's
\* patch of the logged superblock, and the fences around both).
THEOREM RecoverGuards ==
  ASSUME Settled
  PROVE  Spec => []RecoverGuardsLog
<1>1. IInv => RecoverGuardsLog
  <2> SUFFICES ASSUME IInv, Dirty(disk), ~disk.home[SB].rec
               PROVE  Plain(disk.home) = Overlay(Plain(disk.home), Payload(tx))
    BY DEF RecoverGuardsLog, Dirty
  <2>1. TypeInv /\ TxInv /\ RecoverInv /\ HomeInv
    BY DEF IInv
  <2>2. HoldsTx(disk)
    BY <2>1 DEF RecoverInv, HomeInv
  <2>3. disk \in Image
    BY <2>1, TypeFacts DEF Typed
  <2> QED
    BY <2>1, <2>2, <2>3, OverlayOfHeld
<1>2. Spec => []IInv
  BY InvHolds
<1> QED
  BY <1>1, <1>2, PTL

\* What a replay is about to apply is the interrupted transaction, whole, in
\* every reachable state: journal::walk never refuses the driver's own log, never
\* stops short of its commit block, and never takes a block an earlier
\* transaction left behind for part of it.
THEOREM ReplayIsWhole ==
  ASSUME Settled
  PROVE  Spec => []PlanIsTransaction
<1> DEFINE Applied == [k \in 1..Len(rp.writes) |-> [blk |-> rp.writes[k].blk,
                                                    val |-> vol.log[rp.writes[k].src].val]]
<1>1. IInv => (pc \in {"apply", "fenceA", "mclean"} => Applied = tx)
  <2> SUFFICES ASSUME IInv, pc \in {"apply", "fenceA", "mclean"}
               PROVE  Applied = tx
    OBVIOUS
  <2>1. TypeInv /\ LogInv /\ CursorInv /\ PlanComplete /\ TxInv
    BY DEF IInv, WalkInv
  <2>2. tx \in Seq(Write) /\ Len(tx) \in Nat /\ vol.jsb.seq \in Nat /\ Dirty(vol)
    BY <2>1, TypeFacts DEF Typed, CursorInv
  <2>3. Len(rp.writes) = Len(tx)
    BY <2>1 DEF PlanComplete, PlanOf
  <2>4. ASSUME NEW k \in 1 .. Len(tx)
        PROVE  [blk |-> rp.writes[k].blk, val |-> vol.log[rp.writes[k].src].val] = tx[k]
    <3>1. rp.writes[k].blk = tx[k].blk /\ rp.writes[k].src = SlotOf(k)
      <4>1. rp.writes = PlanOf(Len(tx))
        BY <2>1 DEF PlanComplete
      <4>2. PlanOf(Len(tx))[k] = [blk |-> tx[k].blk, src |-> SlotOf(k)]
        BY DEF PlanOf
      <4>3. rp.writes[k] = [blk |-> tx[k].blk, src |-> SlotOf(k)]
        BY <4>1, <4>2
      <4> HIDE DEF Applied
      <4> QED
        BY <4>3
    <3>2. /\ SlotOf(k) \in 1 .. Len(tx) + Chunks(Len(tx))
          /\ Serialize(vol.jsb.seq, tx)[SlotOf(k)] = Data(tx[k].val)
      BY <2>2, SerializeData
    <3>3. Len(Serialize(vol.jsb.seq, tx)) = Len(tx) + Chunks(Len(tx)) + 1 /\ Chunks(Len(tx)) \in Nat
      BY <2>2, SerializeType, ChunksBounds, Zenon
    <3>4. SlotOf(k) \in 1 .. Len(Serialize(vol.jsb.seq, tx))
      BY <3>2, <3>3
    <3>5. vol.log[SlotOf(k)] = Data(tx[k].val)
      BY <2>1, <2>2, <3>2, <3>4 DEF LogInv, HoldsLog
    <3>6. Data(tx[k].val).val = tx[k].val
      BY DEF Data
    <3>7. vol.log[rp.writes[k].src].val = tx[k].val
      BY <3>1, <3>5, <3>6, Zenon
    <3>8. tx[k] \in Write
      BY <2>2
    <3> QED
      BY <3>1, <3>7, <3>8 DEF Write
  <2>5. tx = [k \in 1 .. Len(tx) |-> tx[k]]
    BY <2>2
  <2> QED
    BY <2>3, <2>4, <2>5
<1>2. IInv => pc # "refused"
  BY DEF IInv, WalkInv
<1>3. IInv => PlanIsTransaction
  BY <1>1, <1>2 DEF PlanIsTransaction
<1>4. Spec => []IInv
  BY InvHolds
<1> QED
  BY <1>3, <1>4, PTL

\* A transaction is logged only over a durably clean journal, in every reachable
\* state: the log that JournalWriter::commit overwrites is never the only copy
\* of a transaction the home blocks lack.
THEOREM LogStaysFree ==
  ASSUME Settled
  PROVE  Spec => []LogIsFree
<1>1. IInv => LogIsFree
  BY DEF IInv, CursorInv, Logging, Dirty, LogIsFree
<1>2. Spec => []IInv
  BY InvHolds
<1> QED
  BY <1>1, <1>2, PTL

-----------------------------------------------------------------------------
(* The refinement.  A step that leaves the transaction and what the caller *)
(* knows alone moves blocks from the device's cache to the medium; it      *)
(* changes the recoverable contents only when the dirty journal superblock *)
(* arrives there, and then by the whole transaction at once.               *)

\* Both specifications mean the same by laying writes over a volume.
LEMMA SameOverlay ==
  ASSUME NEW home, NEW w
  PROVE  Atomic!Overlay(home, w) = Overlay(home, w)
BY DEF Overlay, Atomic!Overlay

\* Overlaying the transaction hides its own blocks and keeps the others.
LEMMA OverlayAgrees ==
  ASSUME TypeInv, NEW g, NEW h,
         \A b \in Block : (\A k \in 1 .. Len(tx) : tx[k].blk # b) => g[b] = h[b]
  PROVE  Overlay(g, Payload(tx)) = Overlay(h, Payload(tx))
<1> DEFINE P == Payload(tx)
<1>1. Len(tx) \in Nat
  BY TypeFacts DEF Typed
<1>2. Len(P) = Len(tx) /\ \A k \in 1 .. Len(tx) : P[k].blk = tx[k].blk
  BY <1>1 DEF Payload
<1>3. \A b \in Block : (\E k \in 1 .. Len(P) : P[k].blk = b) \/ g[b] = h[b]
  BY <1>2, Zenon
<1> HIDE DEF P
<1>4. Overlay(g, P) = Overlay(h, P)
  BY <1>3 DEF Overlay
<1> QED
  BY <1>4 DEF P

\* A step of the device leaves the recoverable contents alone or makes the
\* transaction in progress take effect, whole.
LEMMA DeviceStep ==
  ASSUME IInv, tx' = tx,
         \A b \in Block : disk'.home[b].data \in {disk.home[b].data, vol.home[b].data},
         disk'.jsb \in {disk.jsb, vol.jsb}
  PROVE  \/ Recovered' = Recovered
         \/ /\ Recovered' = Overlay(Recovered, Payload(tx))
            /\ outcome \in {"busy", "err"}
<1> DEFINE P == Payload(tx)
           H == Plain(disk.home)
           HH == Plain(disk'.home)
<1>1. TypeInv /\ TxInv /\ HomeInv /\ OutcomeInv
  BY DEF IInv
<1>2. disk \in Image /\ vol \in Image
  BY <1>1, TypeFacts DEF Typed
<1>3. /\ Recovered  = IF Dirty(disk) THEN Overlay(H, P) ELSE H
      /\ Recovered' = IF disk'.jsb.start # 0 THEN Overlay(HH, P) ELSE HH
  <2> HIDE DEF P, H, HH
  <2>1. Recovered = IF Dirty(disk) THEN Overlay(H, P) ELSE H
    BY DEF Recovered, Dirty, H, P
  <2>2. Recovered' = IF disk'.jsb.start # 0 THEN Overlay(HH, P) ELSE HH
    BY DEF Recovered, HH, P
  <2> QED
    BY <2>1, <2>2
<1>4. CASE ~Dirty(disk)
  <2>1. HH = H
    BY <1>1, <1>4 DEF HomeInv, Plain
  <2>2. CASE disk'.jsb.start = 0
    BY <1>3, <1>4, <2>1, <2>2
  <2>3. CASE disk'.jsb.start # 0
    <3>1. Dirty(vol)
      BY <1>4, <2>3 DEF Dirty
    <3>2. outcome \in {"busy", "err"}
      BY <1>1, <3>1 DEF OutcomeInv
    <3> QED
      BY <1>3, <1>4, <2>1, <2>3, <3>2
  <2> QED
    BY <2>2, <2>3
<1>5. CASE Dirty(disk)
  <2>1. \A b \in Block : (\A k \in 1 .. Len(tx) : tx[k].blk # b) => HH[b] = H[b]
    BY <1>1, <1>5 DEF HomeInv, Plain
  <2>2. CASE disk'.jsb.start # 0
    <3> HIDE DEF HH, H
    <3>1. Overlay(HH, P) = Overlay(H, P)
      BY <1>1, <2>1, OverlayAgrees, Zenon
    <3> QED
      BY <1>3, <1>5, <2>2, <3>1
  <2>3. CASE disk'.jsb.start = 0
    <3>1. ~Dirty(vol)
      BY <1>5, <2>3 DEF Dirty
    <3>2. HoldsTx(disk) /\ HoldsTx(vol)
      BY <1>1, <1>5, <3>1 DEF HomeInv
    <3>3. Overlay(H, P) = H
      BY <1>1, <1>2, <3>2, OverlayOfHeld
    <3>4. \A b \in Block : HH[b] = H[b]
      <4> TAKE b \in Block
      <4>1. CASE \A k \in 1 .. Len(tx) : tx[k].blk # b
        BY <2>1, <4>1
      <4>2. ASSUME NEW k \in 1 .. Len(tx), tx[k].blk = b
            PROVE  HH[b] = H[b]
        <5>1. k <= Len(tx)
          BY <1>1, TypeFacts DEF Typed
        <5>2. disk.home[b].data = tx[k].val.data /\ vol.home[b].data = tx[k].val.data
          BY <3>2, <4>2, <5>1 DEF HoldsTx, HoldsUpTo
        <5> QED
          BY <5>2 DEF Plain
      <4> QED
        BY <4>1, <4>2
    <3>5. HH = H
      BY <3>4 DEF Plain
    <3> QED
      BY <1>3, <1>5, <2>3, <3>3, <3>5
  <2> QED
    BY <2>2, <2>3
<1> QED
  BY <1>4, <1>5

\* A step that changes neither the transaction nor what the caller knows is a
\* stutter of the atomic store or its TakeEffect.
LEMMA QuietStep ==
  ASSUME IInv, tx' = tx, outcome' = outcome,
         \A b \in Block : disk'.home[b].data \in {disk.home[b].data, vol.home[b].data},
         disk'.jsb \in {disk.jsb, vol.jsb}
  PROVE  [Atomic!Next]_(Atomic!svars)
<1> DEFINE req == IF outcome \in {"busy", "err"} THEN Payload(tx) ELSE <<>>
<1>1. req' = req
  BY DEF Payload
<1>2. CASE Recovered' = Recovered
  BY <1>1, <1>2 DEF Atomic!svars
<1>3. CASE /\ Recovered' = Overlay(Recovered, Payload(tx))
           /\ outcome \in {"busy", "err"}
  <2>1. Recovered' = Atomic!Overlay(Recovered, req)
    BY <1>3, SameOverlay
  <2>2. Atomic!TakeEffect
    BY <1>1, <1>3, <2>1 DEF Atomic!TakeEffect
  <2> QED
    BY <2>2 DEF Atomic!Next
<1> QED
  BY <1>2, <1>3, DeviceStep

\* Every step of the journal is a step of the atomic store or a stutter.
LEMMA RefineStep ==
  ASSUME IInv, [Next]_vars
  PROVE  [Atomic!Next]_(Atomic!svars)
<1> DEFINE req == IF outcome \in {"busy", "err"} THEN Payload(tx) ELSE <<>>
<1>t. TypeInv /\ TxInv /\ CursorInv /\ HomeInv /\ OutcomeInv
  BY DEF IInv
<1>d. disk \in Image /\ vol \in Image
  BY <1>t, TypeFacts DEF Typed
<1>s. ASSUME disk' = disk, tx' = tx
      PROVE  Recovered' = Recovered
  BY <1>s DEF Recovered
<1>1. CASE MarkNotClean
  BY <1>1, QuietStep DEF MarkNotClean, Flush
<1>2. CASE \E w \in Txs : Begin(w)
  <2> PICK w \in Txs : Begin(w)
    BY <1>2
  <2>1. healthy /\ disk' = disk /\ tx' = PatchRecover(Staged(w)) /\ outcome' = "busy"
    BY DEF Begin
  <2>2. disk.jsb.start = 0 /\ outcome \in {"none", "ok"}
    BY <1>t, <2>1 DEF CursorInv, Dirty, OutcomeInv
  <2>3. Recovered' = Recovered
    BY <2>1, <2>2, Zenon DEF Recovered
  <2>4. Payload(tx') = w
    BY <1>d, <2>1, StagedTransaction
  <2>5. req' = w
    BY <2>1, <2>4
  <2>6. Atomic!Begin(w)
    BY <2>1, <2>2, <2>3, <2>5 DEF Atomic!Begin
  <2> QED
    BY <2>6 DEF Atomic!Next
<1>3. CASE LogBlock
  BY <1>3, QuietStep DEF LogBlock
<1>4. CASE SetRecover
  BY <1>4, QuietStep DEF SetRecover
<1>5. CASE Fence1
  BY <1>5, QuietStep DEF Fence1, Flush
<1>6. CASE MarkDirty
  BY <1>6, QuietStep DEF MarkDirty
<1>7. CASE Fence2
  BY <1>7, QuietStep DEF Fence2, Flush
<1>8. CASE HomeBlock
  BY <1>8, QuietStep DEF HomeBlock
<1>9. CASE Fence3
  BY <1>9, QuietStep DEF Fence3, Flush
<1>10. CASE MarkClean
  BY <1>10, QuietStep DEF MarkClean
<1>11. CASE ClearRecover
  BY <1>11, QuietStep DEF ClearRecover
<1>12. CASE Fence4
  <2>1. /\ pc = "fence4" /\ disk' = vol /\ tx' = tx /\ outcome' = "ok"
    BY <1>12 DEF Fence4, Flush
  <2>2. outcome = "busy" /\ HoldsTx(disk) /\ ~Dirty(vol)
    BY <1>t, <2>1, Zenon DEF OutcomeInv, Committing, HomeInv, CursorInv
  <2>3. Overlay(Plain(disk.home), Payload(tx)) = Plain(disk.home)
    BY <1>t, <1>d, <2>2, OverlayOfHeld
  <2>4. Recovered = Plain(disk.home)
    BY <2>3 DEF Recovered
  <2>5. \/ Recovered' = Recovered
        \/ Recovered' = Overlay(Recovered, Payload(tx))
    BY <2>1, DeviceStep
  <2>6. Recovered' = Recovered
    BY <2>3, <2>4, <2>5
  <2>7. Recovered = Atomic!Overlay(Recovered, req)
    BY <2>2, <2>3, <2>4, SameOverlay
  <2>8. Atomic!ReturnOk
    BY <2>1, <2>2, <2>6, <2>7 DEF Atomic!ReturnOk
  <2> QED
    BY <2>8 DEF Atomic!Next
<1>13. CASE \E checked \in BOOLEAN : StartMount(checked)
  BY <1>13, QuietStep DEF StartMount
<1>14. CASE MarkBeforeReplay
  BY <1>14, QuietStep DEF MarkBeforeReplay, Flush
<1>15. CASE SetMarker("marker1", "markerfence1", "replay")
  BY <1>15, QuietStep DEF SetMarker
<1>16. CASE MarkerFence("markerfence1", "replay")
  BY <1>16, QuietStep DEF MarkerFence, Flush
<1>17. CASE SetMarker("marker2", "markerfence2", "open")
  BY <1>17, QuietStep DEF SetMarker
<1>18. CASE MarkerFence("markerfence2", "open")
  BY <1>18, QuietStep DEF MarkerFence, Flush
<1>19. CASE ReadJsb
  BY <1>19, QuietStep DEF ReadJsb
<1>20. CASE WalkBlock
  BY <1>20, QuietStep DEF WalkBlock
<1>21. CASE WalkEnd
  BY <1>21, QuietStep DEF WalkEnd
<1>22. CASE ApplyWrite
  BY <1>22, QuietStep DEF ApplyWrite
<1>23. CASE FenceA
  BY <1>23, QuietStep DEF FenceA, Flush
<1>24. CASE MarkJournalClean
  BY <1>24, QuietStep DEF MarkJournalClean
<1>25. CASE FenceB
  BY <1>25, QuietStep DEF FenceB, Flush
<1>26. CASE ClearRecoverAfterReplay
  BY <1>26, QuietStep DEF ClearRecoverAfterReplay
<1>27. CASE FenceC
  BY <1>27, QuietStep DEF FenceC, Flush
<1>28. CASE OpenWriter
  <2>1. pc = "open" /\ disk' = disk /\ tx' = tx /\ outcome' = "none"
    BY <1>28 DEF OpenWriter
  <2>2. outcome # "busy"
    BY <1>t, <2>1 DEF OutcomeInv, Committing
  <2>3. Atomic!Settle
    BY <2>1, <2>2, <1>s DEF Atomic!Settle
  <2> QED
    BY <2>3 DEF Atomic!Next
<1>29. CASE StartReplay
  BY <1>29, QuietStep DEF StartReplay
<1>30. CASE Unmount
  BY <1>30, QuietStep DEF Unmount
<1>31. CASE CommitIoError
  <2>1. pc \in Committing /\ disk' = disk /\ tx' = tx /\ outcome' = "err"
    BY <1>31 DEF CommitIoError
  <2>2. outcome = "busy"
    BY <1>t, <2>1 DEF OutcomeInv
  <2>3. Atomic!Fail
    BY <2>1, <2>2, <1>s DEF Atomic!Fail
  <2> QED
    BY <2>3 DEF Atomic!Next
<1>32. CASE MountIoError
  BY <1>32, QuietStep DEF MountIoError
<1>33. CASE Crash
  <2>1. disk' = disk /\ tx' = tx /\ outcome' = IF outcome = "busy" THEN "err" ELSE outcome
    BY <1>33 DEF Crash
  <2>2. CASE outcome = "busy"
    <3>1. Atomic!Fail
      BY <2>1, <2>2, <1>s DEF Atomic!Fail
    <3> QED
      BY <3>1 DEF Atomic!Next
  <2>3. CASE outcome # "busy"
    BY <2>1, <2>3, <1>s DEF Atomic!svars
  <2> QED
    BY <2>2, <2>3
<1>34. CASE \E b \in Block : WritebackHome(b)
  <2> PICK b \in Block : WritebackHome(b)
    BY <1>34
  <2>1. disk'.home = [disk.home EXCEPT ![b] = vol.home[b]] /\ disk'.jsb = disk.jsb
    BY <1>d, WritebackHomeImage
  <2>2. \A c \in Block : disk'.home[c].data \in {disk.home[c].data, vol.home[c].data}
    BY <2>1, <1>d DEF Image
  <2> QED
    BY <2>1, <2>2, QuietStep DEF WritebackHome
<1>35. CASE \E p \in Slot : WritebackLog(p)
  <2> PICK p \in Slot : WritebackLog(p)
    BY <1>35
  <2>1. disk'.home = disk.home /\ disk'.jsb = disk.jsb
    BY <1>d, WritebackLogImage, Zenon
  <2> QED
    BY <2>1, QuietStep DEF WritebackLog
<1>36. CASE WritebackJsb
  <2>1. disk'.home = disk.home /\ disk'.jsb = vol.jsb
    BY <1>36, <1>d, WritebackJsbImage
  <2> QED
    BY <1>36, <2>1, QuietStep DEF WritebackJsb
<1>37. CASE UNCHANGED vars
  BY <1>37, QuietStep DEF vars
<1> QED
  BY <1>1, <1>2, <1>3, <1>4, <1>5, <1>6, <1>7, <1>8, <1>9, <1>10, <1>11, <1>12, <1>13, <1>14,
     <1>15, <1>16, <1>17, <1>18, <1>19, <1>20, <1>21, <1>22, <1>23, <1>24, <1>25, <1>26,
     <1>27, <1>28, <1>29, <1>30, <1>31, <1>32, <1>33, <1>34, <1>35, <1>36, <1>37 DEF Next, CommitStep, MountStep, Environment

\* Every commit takes effect on the recoverable state all at once, not before it
\* was asked for, and durably once it returned Ok; an interrupted one takes
\* effect whole or not at all.  This is the crash contract of journal_writer.rs,
\* for every volume, ring, transaction, crash and I/O error, of a driver whose
\* device is settled when a replay starts.
THEOREM JournalIsAtomic ==
  ASSUME Settled
  PROVE  Spec => CommitIsAtomic
<1>1. Init => Atomic!Init
  <2> SUFFICES ASSUME Init PROVE Atomic!Init
    OBVIOUS
  <2>1. PICK s \in Starts :
          disk = [home |-> [b \in Block |-> [data |-> s[b], rec |-> FALSE]],
                  jsb  |-> [start |-> 0, seq |-> 1],
                  log  |-> [p \in Slot |-> Blank]]
    BY Zenon DEF Init
  <2>2. outcome = "none" /\ disk.jsb.start = 0
    BY <2>1 DEF Init
  <2>3. Plain(disk.home) \in [Block -> Val]
    BY <2>1, JournalAssumption DEF Plain
  <2> QED
    BY <2>2, <2>3 DEF Atomic!Init, Recovered
<1>2. IInv /\ [Next]_vars => [Atomic!Next]_(Atomic!svars)
  BY RefineStep
<1>3. Spec => []IInv
  BY InvHolds
<1> QED
  BY <1>1, <1>2, <1>3, PTL DEF Spec, CommitIsAtomic, Atomic!Spec
==============================================================================

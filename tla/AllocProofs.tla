----------------------------- MODULE AllocProofs -----------------------------
(***************************************************************************)
(* Proofs about Alloc for every number of groups and of units in a group,  *)
(* every set of reserved units and every number of units an operation      *)
(* takes, with one caller on the mount.                                    *)
(***************************************************************************)
EXTENDS Alloc, FiniteSetTheorems, TLAPS

-----------------------------------------------------------------------------
(* The inductive invariant. *)

Descs == [flag : [Group -> BOOLEAN], free : [Group -> Nat]]

Devs == [flag : [Group -> BOOLEAN], bm : [Group -> SUBSET Bit], free : [Group -> Nat]]

Bufs == [bm : UNION {[S -> SUBSET Bit] : S \in SUBSET Group},
         desc : {{}} \cup {{d} : d \in Descs},
         cleared : SUBSET Group]

Callers == [pc : {"idle", "planned", "staged", "late"}, pick : Unit \cup {<<>>},
            got : Seq(Unit), gone : SUBSET Unit, buf : Bufs]

TypeInv ==
  /\ journaled \in BOOLEAN
  /\ dev \in Devs
  /\ snap \in Descs
  /\ cleared \in SUBSET Group
  /\ alive \in BOOLEAN
  /\ th \in [Threads -> Callers]
  /\ used \in SUBSET Unit

\* The bits of group g among the units of S, and with what the group implies.
In(S, g) == {b \in Bit : <<g, b>> \in S}
Held(S, g) == Implied[g] \cup In(S, g)

\* The volume d is sound for the units S.
Sound(d, S) ==
  \A g \in Group :
    /\ d.flag[g] => In(S, g) = {}
    /\ ~d.flag[g] => Held(S, g) \subseteq d.bm[g]
    /\ In(S, g) \cap Implied[g] = {}
    /\ journaled => /\ ~d.flag[g] => d.bm[g] = Held(S, g)
                    /\ d.free[g] = NBits - Cardinality(Held(S, g))

\* What the mount takes for uninitialised is.
ViewInv == alive => \A g \in Group : dev.flag[g] <=> snap.flag[g] /\ g \notin cleared

\* The caller t's buffer takes the volume from used to Claims(t).
BufInv(t) ==
  LET x == th[t]
      buf == x.buf
  IN  /\ buf.desc = {} => buf = EmptyBuf /\ x.got = <<>> /\ x.gone = {}
      /\ x.gone # {} => x.got = <<>> /\ buf.cleared = {}
      /\ buf.cleared \subseteq DOMAIN buf.bm
      /\ \A g \in Group : Desc(buf).flag[g] <=> dev.flag[g] /\ g \notin buf.cleared
      /\ \A g \in buf.cleared : dev.flag[g]
      /\ \A g \in DOMAIN buf.bm : /\ dev.flag[g] => g \in buf.cleared
                                  /\ Held(Claims(t), g) \subseteq buf.bm[g]
                                  /\ journaled => buf.bm[g] = Held(Claims(t), g)
      /\ \A g \in Group \ DOMAIN buf.bm : In(Claims(t), g) = In(used, g)
      /\ \A g \in Group : In(Claims(t), g) \cap Implied[g] = {}
      /\ journaled => \A g \in Group : Desc(buf).free[g] = NBits - Cardinality(Held(Claims(t), g))

\* What the caller has been given is nobody's.
GotInv(t) ==
  LET x == th[t]
  IN  /\ \A i, j \in 1 .. Len(x.got) : x.got[i] = x.got[j] => i = j
      /\ \A i \in 1 .. Len(x.got) : x.got[i] \notin used \cup Reserved
      /\ x.pc = "idle" => x = IdleTh
      /\ x.pc = "planned" => /\ x.pick \in Unit /\ x.gone = {}
                             /\ x.pick \notin Claims(t) \cup Reserved
                             /\ x.pick[2] \notin Implied[x.pick[1]]
      /\ x.pc = "late" => /\ ~journaled /\ x.gone = {}
                          /\ \A g \in DOMAIN x.buf.bm : dev.bm[g] = x.buf.bm[g]

\* A caller that has planned a unit has one.
GotPicks == \A t \in Threads : th[t].pc = "planned" => th[t].pick \in Unit

IInv ==
  /\ TypeInv
  /\ Sound(dev, used)
  /\ ViewInv
  /\ \A t \in Threads : BufInv(t) /\ GotInv(t)

-----------------------------------------------------------------------------
(* Operators. *)

\* A staged descriptor block is the one BlockBuffer::get_mut returns.
LEMMA DescType ==
  ASSUME dev \in Devs, NEW buf \in Bufs
  PROVE  /\ Desc(buf) \in Descs
         /\ buf.desc # {} => buf.desc = {Desc(buf)}
         /\ buf.desc = {} => Desc(buf) = [flag |-> dev.flag, free |-> dev.free]
<1>1. CASE buf.desc = {}
  BY <1>1 DEF Desc, Devs, Descs
<1>2. CASE buf.desc # {}
  <2>1. PICK d \in Descs : buf.desc = {d}
    BY <1>2 DEF Bufs
  <2>2. (CHOOSE e \in {d} : TRUE) = d
    OBVIOUS
  <2>3. Desc(buf) = d
    BY <1>2, <2>1, <2>2 DEF Desc
  <2> QED
    BY <1>2, <2>1, <2>3
<1> QED
  BY <1>1, <1>2

\* A caller whose buffer and claims stay as they are keeps its invariant while
\* no flag changes.
LEMMA BufSame ==
  ASSUME NEW t \in Threads, BufInv(t),
         journaled' = journaled, dev'.flag = dev.flag, used' = used,
         th'[t].buf = th[t].buf, th'[t].got = th[t].got, th'[t].gone = th[t].gone,
         Claims(t)' = Claims(t), Desc(th[t].buf)' = Desc(th[t].buf)
  PROVE  BufInv(t)'
<1>1. \A g : /\ Held(Claims(t), g)' = Held(Claims(t), g)
             /\ In(Claims(t), g)' = In(Claims(t), g)
             /\ In(used, g)' = In(used, g)
  BY DEF Held, In
<1> QED
  BY <1>1 DEF BufInv

\* The bits in use of a group are finitely many, and at most all of them.
LEMMA HeldBits ==
  ASSUME NEW S, NEW g \in Group
  PROVE  /\ Held(S, g) \subseteq Bit
         /\ IsFiniteSet(Held(S, g))
         /\ Cardinality(Held(S, g)) \in 0 .. NBits
<1>1. Held(S, g) \subseteq Bit
  BY AllocAssumption DEF Held, In
<1>2. IsFiniteSet(Bit) /\ Cardinality(Bit) = NBits
  BY AllocAssumption, FS_Interval DEF Bit
<1>3. IsFiniteSet(Held(S, g)) /\ Cardinality(Held(S, g)) <= NBits
  BY <1>1, <1>2, FS_Subset
<1>4. Cardinality(Held(S, g)) \in Nat
  BY <1>3, FS_CardinalityType
<1> QED
  BY <1>1, <1>3, <1>4, AllocAssumption

\* A unit more is a bit more in its group and none in the others.
LEMMA InMore ==
  ASSUME NEW S, NEW u \in Unit, NEW g \in Group
  PROVE  In(S \cup {u}, g) = IF g = u[1] THEN In(S, g) \cup {u[2]} ELSE In(S, g)
BY DEF In, Unit

\* A unit less is a bit less in its group and none in the others.
LEMMA InLess ==
  ASSUME NEW S, NEW u \in Unit, NEW g \in Group
  PROVE  In(S \ {u}, g) = IF g = u[1] THEN In(S, g) \ {u[2]} ELSE In(S, g)
BY DEF In, Unit

\* One bit more in use is one less free.
LEMMA HeldMore ==
  ASSUME NEW S, NEW u \in Unit, u \notin S, u[2] \notin Implied[u[1]]
  PROVE  /\ Held(S \cup {u}, u[1]) = Held(S, u[1]) \cup {u[2]}
         /\ Cardinality(Held(S \cup {u}, u[1])) = Cardinality(Held(S, u[1])) + 1
<1>1. u[1] \in Group /\ u[2] \in Bit /\ u = <<u[1], u[2]>>
  BY DEF Unit
<1>2. Held(S \cup {u}, u[1]) = Held(S, u[1]) \cup {u[2]}
  <2>1. In(S \cup {u}, u[1]) = In(S, u[1]) \cup {u[2]}
    BY <1>1, InMore
  <2> QED
    BY <2>1 DEF Held
<1>3. u[2] \notin Held(S, u[1])
  BY <1>1 DEF Held, In
<1>4. IsFiniteSet(Held(S, u[1]))
  BY <1>1, HeldBits
<1> QED
  BY <1>2, <1>3, <1>4, FS_AddElement

\* One bit less in use is one more free.
LEMMA HeldLess ==
  ASSUME NEW S, NEW u \in Unit, u \in S, u[2] \notin Implied[u[1]]
  PROVE  /\ Held(S \ {u}, u[1]) = Held(S, u[1]) \ {u[2]}
         /\ Cardinality(Held(S \ {u}, u[1])) = Cardinality(Held(S, u[1])) - 1
<1>1. u[1] \in Group /\ u[2] \in Bit /\ u = <<u[1], u[2]>>
  BY DEF Unit
<1>2. Held(S \ {u}, u[1]) = Held(S, u[1]) \ {u[2]}
  <2>1. In(S \ {u}, u[1]) = In(S, u[1]) \ {u[2]}
    BY <1>1, InLess
  <2> QED
    BY <2>1 DEF Held
<1>3. u[2] \in Held(S, u[1])
  BY <1>1 DEF Held, In
<1>4. IsFiniteSet(Held(S, u[1]))
  BY <1>1, HeldBits
<1>5. Cardinality(Held(S, u[1]) \ {u[2]}) = Cardinality(Held(S, u[1])) - 1
  BY <1>3, <1>4, FS_RemoveElement
<1> QED
  BY <1>2, <1>5

\* MarkUsed and MarkFree return buffers.
LEMMA MarksType ==
  ASSUME dev \in Devs, NEW buf \in Bufs, NEW u \in Unit
  PROVE  /\ MarkUsed(buf, u) \in Bufs
         /\ MarkFree(buf, u) \in Bufs
<1>1. u[1] \in Group /\ u[2] \in Bit
  BY DEF Unit
<1>2. Desc(buf) \in Descs
  BY DescType
<1>3. PICK S \in SUBSET Group : buf.bm \in [S -> SUBSET Bit]
  BY DEF Bufs
<1>4. Loaded(buf, u[1]) \in SUBSET Bit /\ Woken(buf, u[1]) \in SUBSET Bit
  BY <1>1, <1>3, AllocAssumption DEF Loaded, Woken, Devs
<1>5. ASSUME NEW bits \in SUBSET Bit
      PROVE  WithBitmap(buf, u[1], bits) \in [S \cup {u[1]} -> SUBSET Bit]
  BY <1>1, <1>3 DEF WithBitmap
<1>6. S \cup {u[1]} \in SUBSET Group
  BY <1>1
<1>7. \A bits \in SUBSET Bit :
        WithBitmap(buf, u[1], bits) \in UNION {[T -> SUBSET Bit] : T \in SUBSET Group}
  BY <1>5, <1>6
<1>8. MarkUsed(buf, u) \in Bufs
  <2>1. [flag |-> [Desc(buf).flag EXCEPT ![u[1]] = FALSE],
         free |-> [Desc(buf).free EXCEPT ![u[1]] = IF @ = 0 THEN 0 ELSE @ - 1]] \in Descs
    BY <1>1, <1>2 DEF Descs
  <2>2. Woken(buf, u[1]) \cup {u[2]} \in SUBSET Bit
    BY <1>1, <1>4
  <2>3. (IF Desc(buf).flag[u[1]] THEN buf.cleared \cup {u[1]} ELSE buf.cleared) \in SUBSET Group
    BY <1>1 DEF Bufs
  <2> QED
    BY <2>1, <2>2, <2>3, <1>7 DEF MarkUsed, Bufs
<1>9. MarkFree(buf, u) \in Bufs
  <2>1. [flag |-> Desc(buf).flag, free |-> [Desc(buf).free EXCEPT ![u[1]] = @ + 1]] \in Descs
    BY <1>1, <1>2 DEF Descs
  <2>2. Loaded(buf, u[1]) \ {u[2]} \in SUBSET Bit
    BY <1>4
  <2>3. buf.cleared \in SUBSET Group
    BY DEF Bufs
  <2> QED
    BY <2>1, <2>2, <2>3, <1>7 DEF MarkFree, Bufs
<1> QED
  BY <1>8, <1>9

-----------------------------------------------------------------------------
(* Types. *)

\* One caller is on the mount.
OneCaller == \A s, t \in Threads : s = t

\* The idle caller has nothing.
LEMMA IdleType == IdleTh \in Callers
<1>1. [g \in {} |-> {}] \in [{} -> SUBSET Bit]
  OBVIOUS
<1>2. {} \in SUBSET Group
  OBVIOUS
<1>3. EmptyBuf \in Bufs
  BY <1>1, <1>2 DEF EmptyBuf, Bufs
<1> QED
  BY <1>3 DEF IdleTh, Callers

\* The parts of a commit keep the type of the volume.
LEMMA WritesType ==
  ASSUME dev \in Devs, NEW d \in Devs, NEW buf \in Bufs, NEW S \in SUBSET DOMAIN buf.bm
  PROVE  /\ WriteBitmaps(d, buf, S) \in Devs
         /\ WriteDesc(d, buf) \in Devs
<1>1. PICK D \in SUBSET Group : buf.bm \in [D -> SUBSET Bit]
  BY DEF Bufs
<1>2. [g \in Group |-> IF g \in S THEN buf.bm[g] ELSE d.bm[g]] \in [Group -> SUBSET Bit]
  BY <1>1 DEF Devs
<1>3. WriteBitmaps(d, buf, S) \in Devs
  BY <1>2 DEF WriteBitmaps, Devs
<1>4. WriteDesc(d, buf) \in Devs
  BY DescType DEF WriteDesc, Devs, Descs
<1> QED
  BY <1>3, <1>4

\* The initial state is typed.
LEMMA TypeInit == Init => TypeInv
<1> SUFFICES ASSUME Init PROVE TypeInv
  OBVIOUS
<1>1. PICK flag \in [Group -> BOOLEAN], set \in [Group -> SUBSET Bit] :
        /\ dev = [flag |-> flag, bm |-> set,
                  free |-> [g \in Group |-> Cardinality(Bit \ (IF flag[g] THEN Implied[g] ELSE set[g]))]]
        /\ used = {u \in Unit : ~flag[u[1]] /\ u[2] \in set[u[1]] \ Implied[u[1]]}
  BY DEF Init
<1>2. IsFiniteSet(Bit)
  BY AllocAssumption, FS_Interval DEF Bit
<1>3. \A T : Cardinality(Bit \ T) \in Nat
  BY <1>2, FS_Subset, FS_CardinalityType
<1>4. dev \in Devs
  BY <1>1, <1>3 DEF Devs
<1>5. th \in [Threads -> Callers]
  BY IdleType DEF Init
<1>6. snap \in Descs
  BY <1>4 DEF Init, Devs, Descs
<1>7. used \in SUBSET Unit
  BY <1>1
<1> QED
  BY <1>4, <1>5, <1>6, <1>7 DEF Init, TypeInv

\* Every step keeps the types.
LEMMA TypeStep == TypeInv /\ GotPicks /\ [Next]_vars => TypeInv'
<1> SUFFICES ASSUME TypeInv, GotPicks, [Next]_vars PROVE TypeInv'
  OBVIOUS
<1> USE DEF TypeInv
<1>1. ASSUME NEW t \in Threads, Plan(t) PROVE TypeInv'
  <2>1. PICK u \in Unit : th' = [th EXCEPT ![t].pc = "planned", ![t].pick = u]
    BY <1>1 DEF Plan, PlanFrom
  <2>2. th' \in [Threads -> Callers]
    BY <2>1 DEF Callers
  <2> QED
    BY <1>1, <2>2 DEF Plan
<1>2. ASSUME NEW t \in Threads, Abort(t) PROVE TypeInv'
  BY <1>2, IdleType DEF Abort
<1>3. ASSUME NEW t \in Threads, Stage(t) PROVE TypeInv'
  <2>1. th[t].buf \in Bufs /\ th[t].pick \in Unit /\ th[t].got \in Seq(Unit)
    BY <1>3 DEF Stage, GotPicks, Callers
  <2>2. MarkUsed(th[t].buf, th[t].pick) \in Bufs
    BY <2>1, MarksType
  <2>3. Append(th[t].got, th[t].pick) \in Seq(Unit)
    BY <2>1
  <2>4. th' \in [Threads -> Callers]
    BY <1>3, <2>2, <2>3 DEF Stage, Callers
  <2> QED
    BY <1>3, <2>4 DEF Stage
<1>4. ASSUME NEW t \in Threads, NEW u \in Unit, Remove(t, u) PROVE TypeInv'
  <2>1. MarkFree(th[t].buf, u) \in Bufs
    BY MarksType DEF Callers
  <2>2. {u} \in SUBSET Unit
    OBVIOUS
  <2>3. th' \in [Threads -> Callers]
    BY <1>4, <2>1, <2>2 DEF Remove, Callers
  <2> QED
    BY <1>4, <2>3 DEF Remove
<1>5. \A t \in Threads : /\ th[t].buf \in Bufs /\ Claims(t) \in SUBSET Unit
                         /\ [th EXCEPT ![t] = IdleTh] \in [Threads -> Callers]
  <2> SUFFICES ASSUME NEW t \in Threads
               PROVE  /\ th[t].buf \in Bufs /\ Claims(t) \in SUBSET Unit
                      /\ [th EXCEPT ![t] = IdleTh] \in [Threads -> Callers]
    OBVIOUS
  <2>1. th[t].buf \in Bufs /\ th[t].got \in Seq(Unit)
    BY DEF Callers
  <2>2. Range(th[t].got) \in SUBSET Unit
    BY <2>1 DEF Range
  <2> QED
    BY <2>1, <2>2, IdleType DEF Claims
<1>6. \A t \in Threads : \A S \in SUBSET DOMAIN th[t].buf.bm :
        /\ WriteBitmaps(dev, th[t].buf, S) \in Devs
        /\ WriteDesc(WriteBitmaps(dev, th[t].buf, S), th[t].buf) \in Devs
        /\ WriteDesc(dev, th[t].buf) \in Devs
  BY <1>5, WritesType
<1>7. \A t \in Threads : cleared \cup th[t].buf.cleared \in SUBSET Group
  BY <1>5 DEF Bufs
<1>8. ASSUME NEW t \in Threads, CommitJournaled(t) PROVE TypeInv'
  BY <1>5, <1>6, <1>7, <1>8 DEF CommitJournaled, Done, Publish
<1>9. ASSUME NEW t \in Threads, CommitEarly(t) PROVE TypeInv'
  <2>1. CASE DescLate(th[t].buf)
    <3>1. th' \in [Threads -> Callers]
      <4>1. th' = [th EXCEPT ![t].pc = "late"]
        BY <1>9, <2>1 DEF CommitEarly
      <4>2. [th[t] EXCEPT !.pc = "late"] \in Callers
        BY <1>9 DEF Callers
      <4> QED
        BY <4>1, <4>2
    <3> QED
      BY <1>6, <1>9, <2>1, <3>1 DEF CommitEarly
  <2>2. CASE ~DescLate(th[t].buf)
    <3>1. dev' = WriteDesc(WriteBitmaps(dev, th[t].buf, DOMAIN th[t].buf.bm), th[t].buf) /\ Done(t)
      BY <1>9, <2>2 DEF CommitEarly
    <3> QED
      BY <1>5, <1>6, <1>7, <3>1 DEF Done, Publish
  <2> QED
    BY <2>1, <2>2
<1>10. ASSUME NEW t \in Threads, CommitLate(t) PROVE TypeInv'
  BY <1>5, <1>6, <1>7, <1>10 DEF CommitLate, Done, Publish
<1>11. ASSUME NEW t \in Threads, CommitFails(t) PROVE TypeInv'
  <2>1. dev' \in Devs
    BY <1>6, <1>11 DEF CommitFails
  <2>2. used' \in SUBSET Unit
    BY <1>5, <1>11 DEF CommitFails
  <2> QED
    BY <1>5, <1>11, <2>1, <2>2 DEF CommitFails
<1>12. CASE Remount
  BY <1>12, IdleType DEF Remount, Devs, Descs
<1>13. CASE UNCHANGED vars
  BY <1>13 DEF vars
<1> QED
  BY <1>1, <1>2, <1>3, <1>4, <1>8, <1>9, <1>10, <1>11, <1>12, <1>13 DEF Next

-----------------------------------------------------------------------------
(* Soundness. *)

AllIdle == \A t \in Threads : th[t] = IdleTh

\* A sound volume with an idle caller satisfies the invariant.
LEMMA IdleFine ==
  TypeInv /\ Sound(dev, used) /\ ViewInv /\ AllIdle => IInv
<1> SUFFICES ASSUME TypeInv, Sound(dev, used), ViewInv, NEW t \in Threads, th[t] = IdleTh
             PROVE  BufInv(t) /\ GotInv(t)
  BY DEF IInv, AllIdle
<1>1. th[t].buf = EmptyBuf /\ th[t].got = <<>> /\ th[t].gone = {} /\ th[t].pc = "idle"
  BY DEF IdleTh
<1>2. Claims(t) = used
  BY <1>1 DEF Claims, Range
<1>3. DOMAIN EmptyBuf.bm = {} /\ EmptyBuf.cleared = {} /\ EmptyBuf.desc = {}
  BY DEF EmptyBuf
<1>4. Desc(EmptyBuf) = [flag |-> dev.flag, free |-> dev.free]
  BY <1>3 DEF Desc
<1>5. BufInv(t)
  BY <1>1, <1>2, <1>3, <1>4 DEF BufInv, Sound
<1>6. GotInv(t)
  BY <1>1 DEF GotInv
<1> QED
  BY <1>5, <1>6

\* What get_mut loads for a group, or the flag stands for, holds the caller's
\* claims.
LEMMA LoadedHolds ==
  ASSUME IInv, NEW t \in Threads, NEW g \in Group
  PROVE  /\ Desc(th[t].buf).flag[g] => Held(Claims(t), g) = Implied[g] /\ g \notin DOMAIN th[t].buf.bm
         /\ ~Desc(th[t].buf).flag[g] =>
              /\ Held(Claims(t), g) \subseteq Loaded(th[t].buf, g)
              /\ journaled => Loaded(th[t].buf, g) = Held(Claims(t), g)
<1> DEFINE buf == th[t].buf
<1>1. BufInv(t) /\ Sound(dev, used)
  BY DEF IInv
<1>2. Desc(buf).flag[g] <=> dev.flag[g] /\ g \notin buf.cleared
  BY <1>1 DEF BufInv
<1>3. CASE g \in DOMAIN buf.bm
  <2>1. dev.flag[g] => g \in buf.cleared
    BY <1>1, <1>3 DEF BufInv
  <2>2. ~Desc(buf).flag[g]
    BY <1>2, <2>1
  <2>3. Loaded(buf, g) = buf.bm[g]
    BY <1>3 DEF Loaded
  <2>4. Held(Claims(t), g) \subseteq buf.bm[g] /\ (journaled => buf.bm[g] = Held(Claims(t), g))
    BY <1>1, <1>3 DEF BufInv
  <2> QED
    BY <2>2, <2>3, <2>4
<1>4. CASE g \notin DOMAIN buf.bm
  <2>1. g \notin buf.cleared
    BY <1>1, <1>4 DEF BufInv
  <2>2. Held(Claims(t), g) = Held(used, g)
    BY <1>1, <1>4 DEF BufInv, Held
  <2>3. Loaded(buf, g) = dev.bm[g]
    BY <1>4 DEF Loaded
  <2>4. dev.flag[g] => Held(used, g) = Implied[g]
    BY <1>1 DEF Sound, Held
  <2>5. ~dev.flag[g] => /\ Held(used, g) \subseteq dev.bm[g]
                        /\ journaled => dev.bm[g] = Held(used, g)
    BY <1>1 DEF Sound
  <2> QED
    BY <1>2, <1>4, <2>1, <2>2, <2>3, <2>4, <2>5
<1> QED
  BY <1>3, <1>4

\* A commit that reaches the device whole leaves a sound volume.
LEMMA CommitWhole ==
  ASSUME IInv, NEW t \in Threads, journaled' = journaled, used' = Claims(t),
         dev' = WriteDesc(WriteBitmaps(dev, th[t].buf, DOMAIN th[t].buf.bm), th[t].buf)
  PROVE  Sound(dev, used)'
<1> DEFINE buf == th[t].buf
<1>1. BufInv(t) /\ Sound(dev, used)
  BY DEF IInv
<1>2. dev'.flag = Desc(buf).flag /\ dev'.free = Desc(buf).free
  BY DEF WriteDesc
<1>3. \A g \in Group : dev'.bm[g] = Loaded(buf, g)
  BY DEF WriteDesc, WriteBitmaps, Loaded
<1> SUFFICES ASSUME NEW g \in Group
             PROVE  /\ dev'.flag[g] => In(Claims(t), g) = {}
                    /\ ~dev'.flag[g] => Held(Claims(t), g) \subseteq dev'.bm[g]
                    /\ In(Claims(t), g) \cap Implied[g] = {}
                    /\ journaled => /\ ~dev'.flag[g] => dev'.bm[g] = Held(Claims(t), g)
                                    /\ dev'.free[g] = NBits - Cardinality(Held(Claims(t), g))
  BY DEF Sound, Held, In
<1>4. In(Claims(t), g) \cap Implied[g] = {}
  BY <1>1 DEF BufInv
<1>5. dev'.flag[g] => In(Claims(t), g) = {}
  BY <1>2, <1>4, LoadedHolds DEF Held
<1>6. ~dev'.flag[g] => /\ Held(Claims(t), g) \subseteq dev'.bm[g]
                       /\ journaled => dev'.bm[g] = Held(Claims(t), g)
  BY <1>2, <1>3, LoadedHolds
<1>7. journaled => dev'.free[g] = NBits - Cardinality(Held(Claims(t), g))
  BY <1>1, <1>2 DEF BufInv
<1> QED
  BY <1>4, <1>5, <1>6, <1>7

-----------------------------------------------------------------------------
(* Preservation. *)

\* Appending a unit adds it to what a sequence holds.
LEMMA RangeAppend ==
  ASSUME NEW s \in Seq(Unit), NEW u \in Unit
  PROVE  Range(Append(s, u)) = Range(s) \cup {u}
<1> DEFINE a == Append(s, u)
<1>1. /\ Len(s) \in Nat /\ DOMAIN s = 1 .. Len(s)
      /\ DOMAIN a = 1 .. Len(s) + 1 /\ a[Len(s) + 1] = u
      /\ \A i \in 1 .. Len(s) : a[i] = s[i]
  OBVIOUS
<1> HIDE DEF a
<1>2. \A x : x \in Range(a) <=> \E i \in 1 .. Len(s) + 1 : a[i] = x
  BY <1>1 DEF Range
<1>3. \A x : x \in Range(s) <=> \E i \in 1 .. Len(s) : s[i] = x
  BY <1>1 DEF Range
<1>4. \A x : x \in Range(a) <=> x \in Range(s) \/ x = u
  BY <1>1, <1>2, <1>3
<1>5. Range(a) = Range(s) \cup {u}
  BY <1>4
<1> QED
  BY <1>5 DEF a

\* plan_inode_allocation and plan_block_allocation return a unit nobody holds.
LEMMA PlanKeeps ==
  ASSUME OneCaller, IInv, TypeInv', NEW t \in Threads, Plan(t)
  PROVE  IInv'
<1> DEFINE buf == th[t].buf
<1>1. /\ TypeInv /\ Sound(dev, used) /\ ViewInv /\ BufInv(t) /\ GotInv(t)
      /\ alive /\ th[t].gone = {} /\ th[t] \in Callers
      /\ UNCHANGED <<journaled, dev, snap, cleared, alive, used>>
  BY DEF IInv, Plan, TypeInv
<1>2. PICK u \in Unit : /\ u[2] \in Free(buf, u[1])
                        /\ th' = [th EXCEPT ![t].pc = "planned", ![t].pick = u]
  BY DEF Plan, PlanFrom
<1>3. u[1] \in Group /\ u[2] \in Bit /\ u = <<u[1], u[2]>>
  BY DEF Unit
<1>4. u[2] \notin Bitmap(buf, u[1]) /\ u \notin Reserved
  BY <1>2, <1>3 DEF Free
<1>5. Held(Claims(t), u[1]) \subseteq Bitmap(buf, u[1])
  <2>1. Uninit(buf, u[1]) <=> Desc(buf).flag[u[1]]
    BY <1>1, <1>3 DEF Uninit, ViewInv, BufInv
  <2> QED
    BY <1>3, <2>1, LoadedHolds DEF Bitmap, Loaded
<1>6. u \notin Claims(t) /\ u[2] \notin Implied[u[1]]
  BY <1>3, <1>4, <1>5 DEF Held, In
<1>7. /\ th'[t].pc = "planned" /\ th'[t].pick = u
      /\ th'[t].got = th[t].got /\ th'[t].gone = th[t].gone /\ th'[t].buf = th[t].buf
  BY <1>1, <1>2 DEF TypeInv, Callers
<1>8. Claims(t)' = Claims(t) /\ Desc(th[t].buf)' = Desc(th[t].buf)
  <2>1. Claims(t)' = Claims(t)
    BY <1>1, <1>7 DEF Claims
  <2>2. th'[t].buf = th[t].buf /\ dev' = dev
    BY <1>1, <1>7
  <2> QED
    BY <2>1, <2>2 DEF Desc
<1>9. Sound(dev, used)' /\ ViewInv'
  BY <1>1 DEF Sound, ViewInv, Held, In
<1>10. BufInv(t)'
  <2>1. dev'.flag = dev.flag
    BY <1>1
  <2> QED
    BY <1>1, <1>7, <1>8, <2>1, BufSame
<1>11. GotInv(t)'
  BY <1>1, <1>3, <1>4, <1>6, <1>7, <1>8 DEF GotInv
<1> QED
  BY <1>9, <1>10, <1>11 DEF IInv, OneCaller

\* buffer_mark_block_run_used and buffer_mark_inode_used stage the unit that was
\* planned.
LEMMA StageKeeps ==
  ASSUME OneCaller, IInv, TypeInv', NEW t \in Threads, Stage(t)
  PROVE  IInv'
<1> DEFINE buf == th[t].buf
           u == th[t].pick
           g == u[1]
           new == MarkUsed(buf, u)
<1>1. /\ TypeInv /\ Sound(dev, used) /\ ViewInv /\ BufInv(t) /\ GotInv(t)
      /\ th[t].pc = "planned" /\ th[t] \in Callers /\ buf \in Bufs /\ th[t].got \in Seq(Unit)
      /\ UNCHANGED <<journaled, dev, snap, cleared, alive, used>>
  BY DEF IInv, Stage, TypeInv, Callers
<1>2. /\ u \in Unit /\ th[t].gone = {}
      /\ u \notin Claims(t) /\ u \notin Reserved /\ u[2] \notin Implied[g]
  BY <1>1 DEF GotInv
<1>3. g \in Group /\ u[2] \in Bit /\ u = <<u[1], u[2]>>
  BY <1>2 DEF Unit
<1>4. /\ th'[t].pc = "staged" /\ th'[t].pick = u /\ th'[t].gone = {}
      /\ th'[t].got = Append(th[t].got, u) /\ th'[t].buf = new
  BY <1>1, <1>2 DEF TypeInv, Callers, Stage
<1>5. Claims(t)' = Claims(t) \cup {u}
  <2>1. Range(Append(th[t].got, u)) = Range(th[t].got) \cup {u}
    BY <1>1, <1>2, RangeAppend
  <2> QED
    BY <1>1, <1>2, <1>4, <2>1 DEF Claims
<1>6. /\ Desc(buf) \in Descs /\ dev \in Devs /\ new \in Bufs
      /\ new.desc # {} /\ new.desc = {Desc(new)}
  <2>1. dev \in Devs /\ new \in Bufs
    BY <1>1, <1>2, MarksType DEF TypeInv
  <2>2. new.desc # {}
    BY DEF MarkUsed
  <2> QED
    BY <1>1, <2>1, <2>2, DescType
<1>7. Desc(new) = [flag |-> [Desc(buf).flag EXCEPT ![g] = FALSE],
                   free |-> [Desc(buf).free EXCEPT ![g] = IF @ = 0 THEN 0 ELSE @ - 1]]
  <2>1. new.desc = {[flag |-> [Desc(buf).flag EXCEPT ![g] = FALSE],
                     free |-> [Desc(buf).free EXCEPT ![g] = IF @ = 0 THEN 0 ELSE @ - 1]]}
    BY DEF MarkUsed
  <2> QED
    BY <1>6, <2>1
<1>8. Desc(th[t].buf)' = Desc(new)
  <2>1. dev' = dev /\ th'[t].buf = new
    BY <1>1, <1>4
  <2> HIDE DEF new
  <2> QED
    BY <2>1 DEF Desc
<1>9. /\ new.cleared = IF Desc(buf).flag[g] THEN buf.cleared \cup {g} ELSE buf.cleared
      /\ DOMAIN new.bm = DOMAIN buf.bm \cup {g}
      /\ new.bm[g] = Woken(buf, g) \cup {u[2]}
      /\ \A h \in DOMAIN buf.bm : h # g => new.bm[h] = buf.bm[h]
  BY DEF MarkUsed, WithBitmap
<1>10. /\ Held(Claims(t), g) \subseteq Woken(buf, g)
       /\ journaled => Woken(buf, g) = Held(Claims(t), g)
  BY <1>3, LoadedHolds DEF Woken
<1>11. \A h \in Group : h # g => In(Claims(t) \cup {u}, h) = In(Claims(t), h)
  BY <1>2, InMore
<1>12. /\ Held(Claims(t) \cup {u}, g) = Held(Claims(t), g) \cup {u[2]}
       /\ Cardinality(Held(Claims(t) \cup {u}, g)) = Cardinality(Held(Claims(t), g)) + 1
       /\ In(Claims(t) \cup {u}, g) = In(Claims(t), g) \cup {u[2]}
  BY <1>2, <1>3, HeldMore, InMore
<1> HIDE DEF new
<1>13. BufInv(t)'
  <2> DEFINE C == Claims(t) \cup {u}
  <2>1. /\ buf.cleared \subseteq DOMAIN buf.bm
        /\ \A h \in buf.cleared : dev.flag[h]
        /\ \A h \in DOMAIN buf.bm : dev.flag[h] => h \in buf.cleared
        /\ \A h \in Group : Desc(buf).flag[h] <=> dev.flag[h] /\ h \notin buf.cleared
        /\ DOMAIN buf.bm \subseteq Group
    <3>1. DOMAIN buf.bm \subseteq Group
      BY <1>1 DEF Bufs
    <3> QED
      BY <1>1, <3>1 DEF BufInv
  <2>2. /\ \A h \in DOMAIN buf.bm : /\ Held(Claims(t), h) \subseteq buf.bm[h]
                                    /\ journaled => buf.bm[h] = Held(Claims(t), h)
        /\ \A h \in Group \ DOMAIN buf.bm : In(Claims(t), h) = In(used, h)
        /\ \A h \in Group : In(Claims(t), h) \cap Implied[h] = {}
        /\ journaled => \A h \in Group : Desc(buf).free[h] = NBits - Cardinality(Held(Claims(t), h))
    BY <1>1 DEF BufInv
  <2>3. /\ ~Desc(new).flag[g]
        /\ Desc(new).free[g] = IF Desc(buf).free[g] = 0 THEN 0 ELSE Desc(buf).free[g] - 1
        /\ \A h \in Group : h # g => /\ Desc(new).flag[h] <=> Desc(buf).flag[h]
                                     /\ Desc(new).free[h] = Desc(buf).free[h]
    <3> DEFINE d == Desc(buf)
               e == Desc(new)
    <3> HIDE DEF buf, u, g
    <3>1. /\ d \in Descs /\ g \in Group
          /\ e = [flag |-> [d.flag EXCEPT ![g] = FALSE],
                  free |-> [d.free EXCEPT ![g] = IF @ = 0 THEN 0 ELSE @ - 1]]
      BY <1>3, <1>6, <1>7
    <3> HIDE DEF d, e
    <3>2. d.flag \in [Group -> BOOLEAN] /\ d.free \in [Group -> Nat]
      BY <3>1 DEF Descs
    <3>3. /\ e.flag = [d.flag EXCEPT ![g] = FALSE]
          /\ e.free = [d.free EXCEPT ![g] = IF @ = 0 THEN 0 ELSE @ - 1]
      BY <3>1
    <3>4. ~e.flag[g] /\ \A h \in Group : h # g => (e.flag[h] <=> d.flag[h])
      BY <3>1, <3>2, <3>3
    <3>5. /\ e.free[g] = IF d.free[g] = 0 THEN 0 ELSE d.free[g] - 1
          /\ \A h \in Group : h # g => e.free[h] = d.free[h]
      BY <3>1, <3>2, <3>3
    <3> QED
      BY <3>4, <3>5 DEF d, e
  <2>4. Desc(buf).free \in [Group -> Nat]
    BY <1>6 DEF Descs
  <2>5. Claims(t)' = C /\ C = Claims(t) \cup {u}
    BY <1>5
  <2> HIDE DEF buf, u, g, C
  <2>6. /\ \A h \in Group : Desc(new).flag[h] <=> dev.flag[h] /\ h \notin new.cleared
        /\ \A h \in new.cleared : dev.flag[h] /\ h \in DOMAIN new.bm
        /\ \A h \in DOMAIN new.bm : dev.flag[h] => h \in new.cleared
    <3>1. CASE Desc(buf).flag[g]
      <4>1. new.cleared = buf.cleared \cup {g}
        BY <1>9, <3>1
      <4>2. \A h \in Group : Desc(new).flag[h] <=> dev.flag[h] /\ h \notin new.cleared
        BY <2>1, <2>3, <4>1
      <4>3. \A h \in new.cleared : dev.flag[h] /\ h \in DOMAIN new.bm
        BY <1>3, <1>9, <2>1, <3>1, <4>1
      <4> QED
        BY <1>9, <2>1, <4>1, <4>2, <4>3
    <3>2. CASE ~Desc(buf).flag[g]
      <4>1. new.cleared = buf.cleared
        BY <1>9, <3>2
      <4>2. \A h \in Group : Desc(new).flag[h] <=> dev.flag[h] /\ h \notin new.cleared
        BY <1>3, <2>1, <2>3, <3>2, <4>1
      <4>3. \A h \in DOMAIN new.bm : dev.flag[h] => h \in new.cleared
        BY <1>3, <1>9, <2>1, <3>2, <4>1
      <4> QED
        BY <1>9, <2>1, <4>1, <4>2, <4>3
    <3> QED
      BY <3>1, <3>2
  <2>7. \A h \in Group : h # g => In(C, h) = In(Claims(t), h) /\ Held(C, h) = Held(Claims(t), h)
    BY <1>11, <2>5 DEF Held
  <2>8. /\ Held(C, g) = Held(Claims(t), g) \cup {u[2]}
        /\ Cardinality(Held(C, g)) = Cardinality(Held(Claims(t), g)) + 1
        /\ In(C, g) = In(Claims(t), g) \cup {u[2]}
    BY <1>12, <2>5
  <2>9. \A h \in DOMAIN new.bm : /\ Held(C, h) \subseteq new.bm[h]
                                 /\ journaled => new.bm[h] = Held(C, h)
    <3> SUFFICES ASSUME NEW h \in DOMAIN new.bm
                 PROVE  Held(C, h) \subseteq new.bm[h] /\ (journaled => new.bm[h] = Held(C, h))
      OBVIOUS
    <3>1. CASE h = g
      BY <1>9, <1>10, <2>8, <3>1
    <3>2. CASE h # g
      <4>1. h \in DOMAIN buf.bm /\ h \in Group
        BY <1>9, <2>1, <3>2
      <4> QED
        BY <1>9, <2>2, <2>7, <3>2, <4>1
    <3> QED
      BY <3>1, <3>2
  <2>10. \A h \in Group \ DOMAIN new.bm : In(C, h) = In(used, h)
    BY <1>9, <2>2, <2>7
  <2>11. \A h \in Group : In(C, h) \cap Implied[h] = {}
    <3> SUFFICES ASSUME NEW h \in Group PROVE In(C, h) \cap Implied[h] = {}
      OBVIOUS
    <3>1. In(Claims(t), h) \cap Implied[h] = {}
      BY <2>2
    <3>2. CASE h = g
      BY <1>2, <2>8, <3>1, <3>2
    <3>3. CASE h # g
      BY <2>7, <3>1, <3>3
    <3> QED
      BY <3>2, <3>3
  <2>12. journaled => \A h \in Group : Desc(new).free[h] = NBits - Cardinality(Held(C, h))
    <3> SUFFICES ASSUME journaled, NEW h \in Group
                 PROVE  Desc(new).free[h] = NBits - Cardinality(Held(C, h))
      OBVIOUS
    <3>1. Desc(buf).free[h] = NBits - Cardinality(Held(Claims(t), h)) /\ Desc(buf).free[h] \in Nat
      BY <2>2, <2>4
    <3>2. CASE h = g
      <4> DEFINE n == Cardinality(Held(Claims(t), h))
                 f == Desc(buf).free[h]
      <4>1. n \in 0 .. NBits /\ n + 1 \in 0 .. NBits
        BY <1>3, <2>8, <3>2, HeldBits
      <4>2. Desc(new).free[h] = IF f = 0 THEN 0 ELSE f - 1
        BY <2>3, <3>2
      <4>3. f = NBits - n /\ f \in Nat /\ Cardinality(Held(C, h)) = n + 1
        BY <2>8, <3>1, <3>2
      <4> HIDE DEF n, f
      <4> QED
        BY <4>1, <4>2, <4>3, AllocAssumption
    <3>3. CASE h # g
      BY <2>3, <2>7, <3>1, <3>3
    <3> QED
      BY <3>2, <3>3
  <2>13. \A h \in Group \cup DOMAIN new.bm : /\ Held(Claims(t), h)' = Held(C, h)
                                             /\ In(Claims(t), h)' = In(C, h)
                                             /\ In(used, h)' = In(used, h)
    BY <1>1, <2>5 DEF Held, In
  <2>14. /\ th'[t].buf = new /\ th'[t].gone = {} /\ new.desc # {}
         /\ dev' = dev /\ journaled' = journaled /\ Desc(th[t].buf)' = Desc(new)
    BY <1>1, <1>4, <1>6, <1>8
  <2> QED
    BY <2>6, <2>9, <2>10, <2>11, <2>12, <2>13, <2>14 DEF BufInv
<1>14. GotInv(t)'
  <2>1. \A i \in 1 .. Len(th[t].got) : th[t].got[i] # u
    <3>1. u \notin Range(th[t].got)
      BY <1>2 DEF Claims
    <3>2. DOMAIN th[t].got = 1 .. Len(th[t].got)
      BY <1>1
    <3> QED
      BY <3>1, <3>2 DEF Range
  <2>2. u \notin used
    BY <1>2 DEF Claims
  <2>3. /\ Len(Append(th[t].got, u)) = Len(th[t].got) + 1
        /\ \A i \in 1 .. Len(th[t].got) : Append(th[t].got, u)[i] = th[t].got[i]
        /\ Append(th[t].got, u)[Len(th[t].got) + 1] = u
        /\ Len(th[t].got) \in Nat
    <3> HIDE DEF u
    <3> QED
      BY <1>1, <1>2
  <2>4. \A i, j \in 1 .. Len(Append(th[t].got, u)) :
           Append(th[t].got, u)[i] = Append(th[t].got, u)[j] => i = j
    <3> DEFINE s == Append(th[t].got, u)
               n == Len(th[t].got)
    <3> HIDE DEF s, n
    <3>1. \A i, j \in 1 .. n : s[i] = s[j] => i = j
      BY <1>1, <2>3 DEF GotInv, s, n
    <3>2. \A i \in 1 .. n : s[i] # s[n + 1]
      BY <2>1, <2>3 DEF s, n
    <3>3. Len(s) = n + 1 /\ n \in Nat
      BY <2>3 DEF s, n
    <3>4. \A i, j \in 1 .. Len(s) : s[i] = s[j] => i = j
      BY <3>1, <3>2, <3>3
    <3> QED
      BY <3>4 DEF s
  <2>5. \A i \in 1 .. Len(Append(th[t].got, u)) : Append(th[t].got, u)[i] \notin used \cup Reserved
    <3>1. \A i \in 1 .. Len(th[t].got) : th[t].got[i] \notin used \cup Reserved
      BY <1>1 DEF GotInv
    <3>2. u \notin used \cup Reserved
      BY <1>2, <2>2
    <3> SUFFICES ASSUME NEW i \in 1 .. Len(th[t].got) + 1
                 PROVE  Append(th[t].got, u)[i] \notin used \cup Reserved
      BY <2>3
    <3>3. CASE i = Len(th[t].got) + 1
      BY <2>3, <3>2, <3>3
    <3>4. CASE i \in 1 .. Len(th[t].got)
      BY <2>3, <3>1, <3>4
    <3> QED
      BY <2>3, <3>3, <3>4
  <2> QED
    BY <1>1, <1>4, <2>4, <2>5 DEF GotInv
<1>15. Sound(dev, used)' /\ ViewInv'
  BY <1>1 DEF Sound, ViewInv, Held, In
<1> QED
  BY <1>13, <1>14, <1>15 DEF IInv, OneCaller

\* buffer_free_inode_slot and buffer_free_block_run_and_bgd stage a unit in use.
LEMMA RemoveKeeps ==
  ASSUME OneCaller, IInv, TypeInv', NEW t \in Threads, NEW u \in Unit, Remove(t, u)
  PROVE  IInv'
<1> DEFINE buf == th[t].buf
           g == u[1]
           new == MarkFree(buf, u)
<1>1. /\ TypeInv /\ Sound(dev, used) /\ ViewInv /\ GotInv(t) /\ th[t].pc = "idle" /\ u \in used
      /\ UNCHANGED <<journaled, dev, snap, cleared, alive, used>>
  BY DEF IInv, Remove
<1>2. th[t] = IdleTh /\ buf = EmptyBuf /\ th[t].got = <<>> /\ th[t].gone = {}
  <2>1. th[t] = IdleTh
    BY <1>1 DEF GotInv
  <2> QED
    BY <2>1 DEF IdleTh
<1>3. g \in Group /\ u[2] \in Bit /\ u = <<u[1], u[2]>>
  BY DEF Unit
<1>4. DOMAIN buf.bm = {} /\ buf.cleared = {} /\ buf.desc = {}
  BY <1>2 DEF EmptyBuf
<1>5. /\ th'[t].pc = "staged" /\ th'[t].gone = {u}
      /\ th'[t].got = <<>> /\ th'[t].buf = new
  BY <1>1, <1>2 DEF TypeInv, Callers, Remove
<1>6. Claims(t)' = used \ {u}
  BY <1>1, <1>5 DEF Claims, Range
<1>7. Desc(buf) = [flag |-> dev.flag, free |-> dev.free]
  BY <1>4 DEF Desc
<1>8. Loaded(buf, g) = dev.bm[g]
  BY <1>4 DEF Loaded
<1>9. /\ new.cleared = {} /\ DOMAIN new.bm = {g} /\ new.bm[g] = dev.bm[g] \ {u[2]}
      /\ new.desc = {[flag |-> dev.flag, free |-> [dev.free EXCEPT ![g] = @ + 1]]}
  <2>1. new.cleared = {} /\ new.bm = WithBitmap(buf, g, dev.bm[g] \ {u[2]})
    BY <1>4, <1>8 DEF MarkFree
  <2>2. Desc(buf).flag = dev.flag /\ Desc(buf).free = dev.free
    BY <1>7
  <2>3. new.desc = {[flag |-> dev.flag, free |-> [dev.free EXCEPT ![g] = @ + 1]]}
    BY <2>2 DEF MarkFree
  <2> HIDE DEF new
  <2> QED
    BY <1>4, <2>1, <2>3 DEF WithBitmap
<1>10. Desc(new) = [flag |-> dev.flag, free |-> [dev.free EXCEPT ![g] = @ + 1]]
  <2>1. dev \in Devs /\ buf \in Bufs
    BY <1>1 DEF TypeInv, Callers
  <2>2. new \in Bufs /\ new.desc # {}
    BY <1>9, <2>1, MarksType
  <2> QED
    BY <1>9, <2>1, <2>2, DescType
<1>11. Desc(th[t].buf)' = Desc(new)
  <2>1. dev' = dev /\ th'[t].buf = new
    BY <1>1, <1>5
  <2> HIDE DEF new
  <2> QED
    BY <2>1 DEF Desc
<1>12. u[2] \notin Implied[g] /\ ~dev.flag[g]
  BY <1>1, <1>3 DEF Sound, In
<1>13. /\ Held(used \ {u}, g) = Held(used, g) \ {u[2]}
       /\ Cardinality(Held(used \ {u}, g)) = Cardinality(Held(used, g)) - 1
  BY <1>1, <1>12, HeldLess
<1>14. \A h \in Group : h # g => In(used \ {u}, h) = In(used, h)
  BY InLess
<1> HIDE DEF new
<1>15. BufInv(t)'
  <2> DEFINE C == used \ {u}
  <2> HIDE DEF C
  <2>1. \A h \in Group : In(C, h) \cap Implied[h] = {}
    BY <1>1 DEF Sound, In, C
  <2>2. Held(C, g) \subseteq new.bm[g] /\ (journaled => new.bm[g] = Held(C, g))
    BY <1>1, <1>3, <1>9, <1>12, <1>13 DEF Sound, C
  <2>3. journaled => \A h \in Group : Desc(new).free[h] = NBits - Cardinality(Held(C, h))
    <3> SUFFICES ASSUME journaled, NEW h \in Group
                 PROVE  Desc(new).free[h] = NBits - Cardinality(Held(C, h))
      OBVIOUS
    <3>1. dev.free[h] = NBits - Cardinality(Held(used, h)) /\ dev.free \in [Group -> Nat]
      BY <1>1 DEF Sound, TypeInv, Devs
    <3>2. CASE h = g
      <4>1. Cardinality(Held(used, g)) \in 0 .. NBits
        BY <1>3, HeldBits
      <4>2. Desc(new).free[g] = dev.free[g] + 1
        BY <1>3, <1>10, <3>1
      <4>3. Cardinality(Held(C, g)) = Cardinality(Held(used, g)) - 1
        BY <1>13 DEF C
      <4>4. Desc(new).free[g] = NBits - Cardinality(Held(used, g)) + 1
        BY <3>1, <3>2, <4>2
      <4> DEFINE n == Cardinality(Held(used, g))
                 m == Cardinality(Held(C, g))
                 f == Desc(new).free[g]
      <4>5. n \in 0 .. NBits /\ m = n - 1 /\ f = NBits - n + 1
        BY <4>1, <4>3, <4>4
      <4> HIDE DEF n, m, f
      <4>6. f = NBits - m
        BY <4>5, AllocAssumption
      <4> QED
        BY <3>2, <4>6 DEF f, m
    <3>3. CASE h # g
      <4>1. Held(C, h) = Held(used, h)
        BY <1>14, <3>3 DEF Held, C
      <4> QED
        BY <1>10, <3>1, <3>3, <4>1
    <3> QED
      BY <3>2, <3>3
  <2>4. \A h \in Group \ {g} : In(C, h) = In(used, h)
    BY <1>14 DEF C
  <2>5. Claims(t)' = C
    BY <1>6 DEF C
  <2>6. Desc(new).flag = dev.flag /\ new.desc # {}
    BY <1>9, <1>10
  <2>7. \A h \in DOMAIN new.bm : /\ ~dev.flag[h]
                                 /\ Held(C, h) \subseteq new.bm[h]
                                 /\ journaled => new.bm[h] = Held(C, h)
    BY <1>9, <1>12, <2>2
  <2>8. \A h \in Group \ DOMAIN new.bm : In(C, h) = In(used, h)
    BY <1>9, <2>4
  <2> QED
    <3>1. /\ journaled' = journaled /\ used' = used /\ dev' = dev
          /\ th'[t].got = <<>> /\ th'[t].gone = {u} /\ th'[t].buf = new
          /\ new.cleared = {} /\ new.desc # {}
          /\ Claims(t)' = C /\ Desc(th[t].buf)' = Desc(new)
      BY <1>1, <1>5, <1>9, <1>11, <2>5, <2>6
    <3>2. \A h : /\ Held(Claims(t), h)' = Held(C, h)
                 /\ In(Claims(t), h)' = In(C, h)
                 /\ In(used, h)' = In(used, h)
      BY <3>1 DEF Held, In
    <3> HIDE DEF buf, g
    <3> QED
      BY <2>1, <2>3, <2>6, <2>7, <2>8, <3>1, <3>2 DEF BufInv
<1>16. GotInv(t)'
  BY <1>5 DEF GotInv
<1>17. Sound(dev, used)' /\ ViewInv'
  BY <1>1 DEF Sound, ViewInv, Held, In
<1> QED
  BY <1>15, <1>16, <1>17 DEF IInv, OneCaller

\* A commit that is done leaves a volume that is sound and a mount that knows it.
LEMMA DoneKeeps ==
  ASSUME OneCaller, IInv, TypeInv', NEW t \in Threads, Done(t),
         dev' = WriteDesc(WriteBitmaps(dev, th[t].buf, DOMAIN th[t].buf.bm), th[t].buf)
  PROVE  IInv'
<1>1. Sound(dev, used)'
  BY CommitWhole DEF Done
<1>2. AllIdle'
  BY DEF AllIdle, Done, OneCaller, IInv, TypeInv
<1>3. dev'.flag = Desc(th[t].buf).flag
  BY DEF WriteDesc
<1>4. BufInv(t) /\ ViewInv
  BY DEF IInv
<1>5. ViewInv'
  BY <1>3, <1>4 DEF ViewInv, BufInv, Done, Publish
<1>6. (TypeInv /\ Sound(dev, used) /\ ViewInv /\ AllIdle => IInv)'
  BY IdleFine, PTL
<1> QED
  BY <1>1, <1>2, <1>5, <1>6

\* The stages of write_direct keep the invariant.
LEMMA DirectKeeps ==
  ASSUME OneCaller, IInv, TypeInv', NEW t \in Threads, CommitEarly(t) \/ CommitLate(t)
  PROVE  IInv'
<1> DEFINE buf == th[t].buf
<1>1. /\ TypeInv /\ Sound(dev, used) /\ ViewInv /\ BufInv(t) /\ GotInv(t)
      /\ buf \in Bufs /\ dev \in Devs
  BY DEF IInv, TypeInv, Callers
<1>2. CASE CommitEarly(t) /\ ~DescLate(buf)
  <2>1. Done(t) /\ dev' = WriteDesc(WriteBitmaps(dev, buf, DOMAIN buf.bm), buf)
    BY <1>2 DEF CommitEarly
  <2> QED
    BY <2>1, DoneKeeps
<1>3. CASE CommitLate(t)
  <2>1. Done(t) /\ dev' = WriteDesc(dev, buf) /\ th[t].pc = "late"
    BY <1>3 DEF CommitLate
  <2>2. \A g \in DOMAIN buf.bm : dev.bm[g] = buf.bm[g]
    BY <1>1, <2>1 DEF GotInv
  <2>3. dev.bm = [g \in Group |-> IF g \in DOMAIN buf.bm THEN buf.bm[g] ELSE dev.bm[g]]
    BY <1>1, <2>2 DEF Devs
  <2>4. WriteBitmaps(dev, buf, DOMAIN buf.bm).bm = dev.bm
    BY <2>3 DEF WriteBitmaps
  <2>5. WriteDesc(dev, buf) = WriteDesc(WriteBitmaps(dev, buf, DOMAIN buf.bm), buf)
    BY <2>4 DEF WriteDesc
  <2> QED
    BY <2>1, <2>5, DoneKeeps
<1>4. CASE CommitEarly(t) /\ DescLate(buf)
  <2>1. /\ dev' = WriteBitmaps(dev, buf, DOMAIN buf.bm)
        /\ th' = [th EXCEPT ![t].pc = "late"]
        /\ ~journaled /\ UNCHANGED <<journaled, snap, cleared, alive, used>>
    BY <1>4 DEF CommitEarly
  <2>2. /\ th'[t].pc = "late" /\ th'[t].pick = th[t].pick /\ th'[t].got = th[t].got
        /\ th'[t].gone = th[t].gone /\ th'[t].buf = th[t].buf
    BY <1>1, <2>1 DEF TypeInv, Callers
  <2>3. buf.cleared # {}
    BY <1>4 DEF DescLate
  <2>4. th[t].gone = {} /\ buf.desc # {}
    <3>1. (buf.desc = {} => buf = EmptyBuf) /\ (th[t].gone # {} => buf.cleared = {})
      BY <1>1 DEF BufInv
    <3>2. EmptyBuf.cleared = {}
      BY DEF EmptyBuf
    <3> QED
      BY <2>3, <3>1, <3>2
  <2>5. Claims(t)' = Claims(t) /\ Desc(th[t].buf)' = Desc(buf)
    BY <2>1, <2>2, <2>4 DEF Claims, Desc
  <2>6. dev'.flag = dev.flag /\ \A g \in Group : dev'.bm[g] = Loaded(buf, g)
    BY <2>1 DEF WriteBitmaps, Loaded
  <2>7. \A g \in Group : Held(used, g) \subseteq Held(Claims(t), g)
    BY <2>4 DEF Held, In, Claims
  <2>8. Sound(dev, used)'
    <3> SUFFICES ASSUME NEW g \in Group, ~dev.flag[g]
                 PROVE  Held(used, g) \subseteq dev'.bm[g]
      BY <1>1, <2>1, <2>6 DEF Sound, Held, In
    <3>1. ~Desc(buf).flag[g]
      BY <1>1 DEF BufInv
    <3> QED
      BY <2>6, <2>7, <3>1, LoadedHolds
  <2>9. ViewInv'
    BY <1>1, <2>1, <2>6 DEF ViewInv
  <2>10. BufInv(t)'
    BY <1>1, <2>1, <2>2, <2>5, <2>6, BufSame
  <2>11. \A g \in DOMAIN buf.bm : dev'.bm[g] = buf.bm[g]
    BY <1>1, <2>6 DEF Loaded, Bufs
  <2>12. GotInv(t)'
    BY <1>1, <2>1, <2>2, <2>4, <2>11 DEF GotInv
  <2> QED
    BY <2>8, <2>9, <2>10, <2>12 DEF IInv, OneCaller
<1> QED
  BY <1>2, <1>3, <1>4

\* A commit that fails, or that the machine stops in, leaves a sound volume,
\* whichever blocks of its stage it has written.
LEMMA FailKeeps ==
  ASSUME OneCaller, IInv, TypeInv', NEW t \in Threads, CommitFails(t)
  PROVE  IInv'
<1> DEFINE buf == th[t].buf
<1>1. TypeInv /\ Sound(dev, used) /\ BufInv(t) /\ GotInv(t) /\ buf \in Bufs
  BY DEF IInv, TypeInv, Callers
<1>2. alive' = FALSE /\ th' = [th EXCEPT ![t] = IdleTh] /\ journaled' = journaled
  BY DEF CommitFails
<1>3. Sound(dev, used)'
  <2>1. CASE UNCHANGED <<dev, used>>
    BY <1>1, <1>2, <2>1 DEF Sound, Held, In
  <2>2. CASE /\ dev' = WriteDesc(WriteBitmaps(dev, buf, DOMAIN buf.bm), buf)
             /\ used' = Claims(t)
    BY <1>2, <2>2, CommitWhole
  <2>3. CASE /\ ~journaled
             /\ \E S \in SUBSET DOMAIN buf.bm :
                  \/ dev' = WriteBitmaps(dev, buf, S)
                  \/ ~DescLate(buf) /\ dev' = WriteDesc(WriteBitmaps(dev, buf, S), buf)
             /\ used' = used \ th[t].gone
    <3>1. PICK S \in SUBSET DOMAIN buf.bm :
             \/ dev' = WriteBitmaps(dev, buf, S)
             \/ ~DescLate(buf) /\ dev' = WriteDesc(WriteBitmaps(dev, buf, S), buf)
      BY <2>3
    <3>2. \A g \in Group : dev'.bm[g] = IF g \in S THEN buf.bm[g] ELSE dev.bm[g]
      BY <3>1 DEF WriteBitmaps, WriteDesc
    <3>3. \A g \in Group : dev'.flag[g] <=> dev.flag[g]
      <4>1. CASE dev' = WriteBitmaps(dev, buf, S)
        BY <4>1 DEF WriteBitmaps
      <4>2. CASE ~DescLate(buf) /\ dev' = WriteDesc(WriteBitmaps(dev, buf, S), buf)
        <5>1. dev'.flag = Desc(buf).flag
          BY <4>2 DEF WriteDesc
        <5>2. buf.cleared = {}
          BY <4>2 DEF DescLate
        <5>3. \A g \in Group : Desc(buf).flag[g] <=> dev.flag[g] /\ g \notin buf.cleared
          BY <1>1 DEF BufInv
        <5> QED
          BY <5>1, <5>2, <5>3
      <4> QED
        BY <3>1, <4>1, <4>2
    <3>4. \A g \in Group : /\ In(used', g) \subseteq In(used, g)
                           /\ Held(used', g) \subseteq Held(used, g)
                           /\ Held(used', g) \subseteq Held(Claims(t), g)
      BY <2>3 DEF In, Held, Claims
    <3> SUFFICES ASSUME NEW g \in Group
                 PROVE  /\ dev.flag[g] => In(used', g) = {}
                        /\ ~dev.flag[g] => Held(used', g) \subseteq dev'.bm[g]
                        /\ In(used', g) \cap Implied[g] = {}
      BY <1>2, <2>3, <3>3 DEF Sound, Held, In
    <3>5. /\ dev.flag[g] => In(used, g) = {}
          /\ ~dev.flag[g] => Held(used, g) \subseteq dev.bm[g]
          /\ In(used, g) \cap Implied[g] = {}
      BY <1>1 DEF Sound
    <3>6. g \in S => Held(Claims(t), g) \subseteq buf.bm[g]
      BY <1>1, <3>1 DEF BufInv
    <3> QED
      BY <3>2, <3>4, <3>5, <3>6
  <2>4. CASE th[t].pc = "late" /\ dev' = WriteDesc(dev, buf) /\ used' = used
    <3>1. /\ ~journaled /\ th[t].gone = {}
          /\ \A g \in DOMAIN buf.bm : dev.bm[g] = buf.bm[g]
      BY <1>1, <2>4 DEF GotInv
    <3>2. dev'.flag = Desc(buf).flag /\ dev'.bm = dev.bm
      BY <2>4 DEF WriteDesc
    <3> SUFFICES ASSUME NEW g \in Group
                 PROVE  /\ Desc(buf).flag[g] => In(used, g) = {}
                        /\ ~Desc(buf).flag[g] => Held(used, g) \subseteq dev.bm[g]
                        /\ In(used, g) \cap Implied[g] = {}
      BY <1>2, <2>4, <3>1, <3>2 DEF Sound, Held, In
    <3>3. Held(used, g) \subseteq Held(Claims(t), g)
      BY <3>1 DEF Held, In, Claims
    <3>4. Loaded(buf, g) = dev.bm[g]
      BY <3>1 DEF Loaded
    <3>5. In(used, g) \cap Implied[g] = {} /\ (dev.flag[g] => In(used, g) = {})
      BY <1>1 DEF Sound
    <3>6. Desc(buf).flag[g] => dev.flag[g]
      BY <1>1 DEF BufInv
    <3>7. ~Desc(buf).flag[g] => Held(Claims(t), g) \subseteq Loaded(buf, g)
      BY LoadedHolds
    <3> QED
      BY <3>3, <3>4, <3>5, <3>6, <3>7
  <2>5. CASE th[t].pc = "late" /\ dev' = dev /\ used' = used
    BY <2>1, <2>5
  <2> QED
    BY <2>1, <2>2, <2>3, <2>4, <2>5 DEF CommitFails
<1>4. AllIdle' /\ ViewInv'
  BY <1>1, <1>2 DEF AllIdle, OneCaller, TypeInv, ViewInv
<1>5. (TypeInv /\ Sound(dev, used) /\ ViewInv /\ AllIdle => IInv)'
  BY IdleFine, PTL
<1> QED
  BY <1>3, <1>4, <1>5

\* Dropping a buffer and mounting again keep the invariant.
LEMMA ResetKeeps ==
  ASSUME OneCaller, IInv, TypeInv', Remount \/ \E t \in Threads : Abort(t)
  PROVE  IInv'
<1>1. TypeInv /\ Sound(dev, used) /\ ViewInv
  BY DEF IInv
<1>2. AllIdle' /\ journaled' = journaled /\ dev' = dev /\ used' = used
  BY <1>1 DEF AllIdle, OneCaller, TypeInv, Remount, Abort
<1>3. ViewInv'
  <2>1. CASE Remount
    BY <2>1 DEF Remount, ViewInv
  <2>2. CASE \E t \in Threads : Abort(t)
    BY <1>1, <2>2 DEF Abort, ViewInv
  <2> QED
    BY <2>1, <2>2
<1>4. Sound(dev, used)'
  BY <1>1, <1>2 DEF Sound, Held, In
<1>5. (TypeInv /\ Sound(dev, used) /\ ViewInv /\ AllIdle => IInv)'
  BY IdleFine, PTL
<1> QED
  BY <1>2, <1>3, <1>4, <1>5

\* The volume of a first mount is sound.
LEMMA InvInit == Init => IInv
<1> SUFFICES ASSUME Init PROVE IInv
  OBVIOUS
<1>1. PICK flag \in [Group -> BOOLEAN], set \in [Group -> SUBSET Bit] :
        /\ \A g \in Group : flag[g] \/ Implied[g] \subseteq set[g]
        /\ dev = [flag |-> flag, bm |-> set,
                  free |-> [g \in Group |-> Cardinality(Bit \ (IF flag[g] THEN Implied[g] ELSE set[g]))]]
        /\ used = {u \in Unit : ~flag[u[1]] /\ u[2] \in set[u[1]] \ Implied[u[1]]}
  BY DEF Init
<1>2. \A g \in Group : In(used, g) = IF flag[g] THEN {} ELSE set[g] \ Implied[g]
  BY <1>1 DEF In, Unit
<1>3. \A g \in Group : Held(used, g) = IF flag[g] THEN Implied[g] ELSE set[g]
  BY <1>1, <1>2 DEF Held
<1>4. \A g \in Group : dev.free[g] = NBits - Cardinality(Held(used, g))
  <2> SUFFICES ASSUME NEW g \in Group PROVE dev.free[g] = NBits - Cardinality(Held(used, g))
    OBVIOUS
  <2>1. IsFiniteSet(Bit) /\ Cardinality(Bit) = NBits
    BY AllocAssumption, FS_Interval DEF Bit
  <2>2. dev.free[g] = Cardinality(Bit \ Held(used, g))
    BY <1>1, <1>3
  <2>3. Bit \cap Held(used, g) = Held(used, g)
    BY HeldBits
  <2>4. Cardinality(Bit \ Held(used, g)) = Cardinality(Bit) - Cardinality(Bit \cap Held(used, g))
    BY <2>1, FS_Difference
  <2> QED
    BY <2>1, <2>2, <2>3, <2>4
<1>5. Sound(dev, used)
  BY <1>1, <1>2, <1>3, <1>4 DEF Sound
<1>6. ViewInv
  BY DEF Init, ViewInv
<1>7. AllIdle
  BY DEF Init, AllIdle
<1> QED
  BY <1>5, <1>6, <1>7, TypeInit, IdleFine

\* Every step of one caller and of the mount keeps the invariant.
LEMMA InvStep == OneCaller /\ IInv /\ [Next]_vars => IInv'
<1> SUFFICES ASSUME OneCaller, IInv, [Next]_vars PROVE IInv'
  OBVIOUS
<1>1. TypeInv /\ GotPicks
  BY DEF IInv, GotInv, GotPicks
<1>2. TypeInv'
  BY <1>1, TypeStep
<1>3. ASSUME NEW t \in Threads, CommitJournaled(t) PROVE IInv'
  BY <1>2, <1>3, DoneKeeps DEF CommitJournaled
<1>4. CASE UNCHANGED vars
  <2>1. /\ UNCHANGED <<journaled, dev, snap, cleared, alive>>
        /\ UNCHANGED <<th, used>>
    BY <1>4 DEF vars
  <2>2. Sound(dev, used)'
    BY <2>1 DEF IInv, Sound
  <2>3. ViewInv'
    BY <2>1 DEF IInv, ViewInv
  <2>4. ASSUME NEW t \in Threads PROVE (BufInv(t) /\ GotInv(t))'
    <3>1. BufInv(t) /\ GotInv(t)
      BY DEF IInv
    <3>2. Claims(t)' = Claims(t)
      BY <2>1 DEF Claims
    <3>3. Desc(th[t].buf)' = Desc(th[t].buf)
      BY <2>1 DEF Desc
    <3>4. BufInv(t)'
      BY <2>1, <3>1, <3>2, <3>3, BufSame
    <3>5. GotInv(t)'
      <4>1. /\ th[t]' = th[t] /\ used' = used /\ journaled' = journaled
            /\ dev' = dev /\ Claims(t)' = Claims(t)
        BY <2>1, <3>2
      <4> QED
        BY <3>1, <4>1 DEF GotInv
    <3> QED
      BY <3>4, <3>5
  <2> QED
    BY <1>2, <2>2, <2>3, <2>4 DEF IInv
<1> QED
  BY <1>2, <1>3, <1>4, PlanKeeps, StageKeeps, RemoveKeeps, DirectKeeps, FailKeeps, ResetKeeps DEF Next

\* The invariant holds throughout.
LEMMA InvHolds ==
  ASSUME OneCaller
  PROVE  Spec => []IInv
<1>1. IInv /\ [Next]_vars => IInv'
  BY InvStep
<1> QED
  BY <1>1, InvInit, PTL DEF Spec

\* With one caller no block or inode is handed out twice, however many groups
\* there are, whichever are uninitialised and whatever fails (alloc.rs, fs.rs).
THEOREM NeverTwice ==
  ASSUME OneCaller
  PROVE  Spec => []NoDoubleAllocation
<1>1. IInv => NoDoubleAllocation
  <2> SUFFICES ASSUME IInv, NEW t \in Threads
               PROVE  /\ \A i, j \in 1..Len(th[t].got) : th[t].got[i] = th[t].got[j] => i = j
                      /\ Range(th[t].got) \cap (used \cup Reserved) = {}
    BY DEF NoDoubleAllocation
  <2>1. GotInv(t) /\ th[t].got \in Seq(Unit)
    BY DEF IInv, TypeInv, Callers
  <2> QED
    <3>1. DOMAIN th[t].got = 1 .. Len(th[t].got)
      BY <2>1
    <3>2. /\ \A i, j \in 1 .. Len(th[t].got) : th[t].got[i] = th[t].got[j] => i = j
          /\ \A i \in 1 .. Len(th[t].got) : th[t].got[i] \notin used \cup Reserved
      BY <2>1 DEF GotInv
    <3> QED
      BY <3>1, <3>2 DEF Range
<1> QED
  BY <1>1, InvHolds, PTL

\* Through the journal bitmaps, flags and free counts say what is in use after
\* every commit, failed ones included.
THEOREM BitmapsAreTrue ==
  ASSUME OneCaller
  PROVE  Spec => []BitmapTruth
<1>1. IInv => BitmapTruth
  BY DEF IInv, Sound, BitmapTruth, Held, In
<1> QED
  BY <1>1, InvHolds, PTL

\* However a direct commit is cut, a flag that is down stands over a bitmap that
\* was written (write_direct).
THEOREM FlagsVouch ==
  ASSUME OneCaller
  PROVE  Spec => []FlagVouches
<1>1. IInv => Sound(dev, used)
  BY DEF IInv
<1>2. Sound(dev, used) => FlagVouches
  <2> SUFFICES ASSUME Sound(dev, used), NEW g \in Group, ~dev.flag[g]
               PROVE  Held(used, g) \subseteq dev.bm[g]
    BY DEF FlagVouches, Held, In
  <2> QED
    BY DEF Sound
<1> QED
  BY <1>1, <1>2, InvHolds, PTL
=============================================================================

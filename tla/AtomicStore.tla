----------------------------- MODULE AtomicStore -----------------------------
(***************************************************************************)
(* What the journal promises its caller: a transaction is applied to the   *)
(* volume wholly or not at all, at one instant, and a transaction whose    *)
(* commit returned Ok has been applied.  A commit that was interrupted, by *)
(* an I/O error or by a crash, stays in doubt until the next mount: until  *)
(* then it may still take effect, but only wholly.                         *)
(***************************************************************************)
EXTENDS Naturals, Sequences

CONSTANTS
  Block,      \* filesystem blocks
  Val,        \* what a block can hold
  Txs         \* the transactions callers commit: sequences of [blk, val]

VARIABLES
  store,      \* the contents a crash at this moment would leave after recovery
  req,        \* the transaction being committed or in doubt, <<>> if none
  outcome     \* what the caller knows: "none", "busy", "ok", "err"

svars == <<store, req, outcome>>

\* The contents after the writes of w, in order; its blocks are distinct.
Overlay(home, w) ==
  [b \in Block |-> IF \E k \in 1..Len(w) : w[k].blk = b
                   THEN w[CHOOSE k \in 1..Len(w) : w[k].blk = b].val
                   ELSE home[b]]

Init ==
  /\ store \in [Block -> Val]
  /\ req = <<>>
  /\ outcome = "none"

Begin(w) ==
  /\ outcome \in {"none", "ok"}
  /\ outcome' = "busy"
  /\ req' = w
  /\ UNCHANGED store

TakeEffect ==
  /\ outcome \in {"busy", "err"}
  /\ store' = Overlay(store, req)
  /\ UNCHANGED <<req, outcome>>

ReturnOk ==
  /\ outcome = "busy"
  /\ store = Overlay(store, req)
  /\ outcome' = "ok"
  /\ req' = <<>>
  /\ UNCHANGED store

Fail ==
  /\ outcome = "busy"
  /\ outcome' = "err"
  /\ UNCHANGED <<store, req>>

\* The next mount settles whatever was in doubt.
Settle ==
  /\ outcome # "busy"
  /\ outcome' = "none"
  /\ req' = <<>>
  /\ UNCHANGED store

Next ==
  \/ \E w \in Txs : Begin(w)
  \/ TakeEffect
  \/ ReturnOk
  \/ Fail
  \/ Settle

Spec == Init /\ [][Next]_svars
==============================================================================

----------------------------- MODULE Settlement -----------------------------
(***************************************************************************)
(* What the rollup promises its users, with no batches, proofs, processes  *)
(* or failures in it: queued deposits settle in order, admitted            *)
(* transactions settle at most once or are rejected, and the sequencer's   *)
(* record of what settled is at most one settlement behind.                *)
(***************************************************************************)
EXTENDS Integers

CONSTANTS
  Dep,    \* deposits, numbered in queue order
  Tx      \* transactions

VARIABLES
  queued,      \* how many deposits are in the queue
  admitted,    \* transactions the sequencer has accepted
  rejected,    \* those of them it has turned down for good
  settled,     \* deposits and transactions with effect on the contract
  recorded     \* the part of settled the sequencer serves as confirmed

vars == <<queued, admitted, rejected, settled, recorded>>

Init ==
  /\ queued = 0 /\ admitted = {} /\ rejected = {}
  /\ settled = [deps |-> {}, txs |-> {}] /\ recorded = settled

Queue ==
  /\ queued \in Dep
  /\ queued' = queued + 1
  /\ UNCHANGED <<admitted, rejected, settled, recorded>>

Admit(t) ==
  /\ t \notin admitted
  /\ admitted' = admitted \cup {t}
  /\ UNCHANGED <<queued, rejected, settled, recorded>>

(* Only a transaction with no effect can be rejected.                      *)
Reject(t) ==
  /\ t \in admitted \ (settled.txs \cup rejected)
  /\ rejected' = rejected \cup {t}
  /\ UNCHANGED <<queued, admitted, settled, recorded>>

(* The next deposits and some waiting transactions take effect at once.    *)
Settle(D, T) ==
  /\ recorded = settled
  /\ D \cup T # {}
  /\ \A d \in D : d < queued /\ d \notin settled.deps
  /\ \A d \in D, c \in Dep : c < d => c \in settled.deps \cup D
  /\ T \subseteq admitted \ (settled.txs \cup rejected)
  /\ settled' = [deps |-> settled.deps \cup D, txs |-> settled.txs \cup T]
  /\ UNCHANGED <<queued, admitted, rejected, recorded>>

(* The sequencer learns of it.                                             *)
Record ==
  /\ recorded # settled
  /\ recorded' = settled
  /\ UNCHANGED <<queued, admitted, rejected, settled>>

Next ==
  \/ Queue
  \/ \E t \in Tx : Admit(t) \/ Reject(t)
  \/ \E D \in SUBSET Dep, T \in SUBSET Tx : Settle(D, T)
  \/ Record

Spec == Init /\ [][Next]_vars
=============================================================================

----------------------------- MODULE SealedLog -----------------------------
(***************************************************************************)
(* What the action ledger promises to whoever audits it later: entries are *)
(* added at the end and nowhere else, and never change; a seal covers      *)
(* everything written so far, and covers more than the seal before it.     *)
(*                                                                         *)
(* Hashes, locks, transactions and signatures do not appear here.          *)
(***************************************************************************)
EXTENDS Naturals, Sequences

CONSTANT Entry  \* what an entry may say

VARIABLES
  log,     \* the entries, in order
  sealed   \* how many of them the last seal covers

Init == log = <<>> /\ sealed = 0

\* log' is log with one more entry; said without a choice of the entry, so that
\* TLC need not enumerate them.
Write == /\ Len(log') = Len(log) + 1
         /\ \A i \in 1 .. Len(log) : log'[i] = log[i]
         /\ log'[Len(log')] \in Entry
         /\ UNCHANGED sealed

Seal == /\ sealed < Len(log)
        /\ sealed' = Len(log)
        /\ UNCHANGED log

Next == Write \/ Seal

Spec == Init /\ [][Next]_<<log, sealed>>
=============================================================================

------------------------------- MODULE Ledger -------------------------------
(***************************************************************************)
(* What a DB promises about the writes it acknowledges, without saying     *)
(* how: a write the caller was told succeeded is waiting, or kept, or      *)
(* lost; it leaves the waiting room once, and a write that is kept stays   *)
(* kept for ever, whatever is flushed, merged or compacted later.          *)
(* TrendDB implements this specification (TrendDB!LedgerSpec).             *)
(***************************************************************************)
EXTENDS TLAPS

CONSTANT Entry      \* everything that can be written

VARIABLES accepted, \* acknowledged so far
          waiting,  \* acknowledged, not settled yet
          kept,     \* what the stored state accounts for
          lost      \* given up by a failed flush

ledger == <<accepted, waiting, kept, lost>>

Init ==
    /\ accepted = {}
    /\ waiting = {}
    /\ kept = {}
    /\ lost = {}

(* Acknowledge a write: into the buffer, or straight into the store. *)
Accept(e) ==
    /\ e \notin accepted
    /\ accepted' = accepted \cup {e}
    /\ \/ waiting' = waiting \cup {e} /\ kept' = kept
       \/ waiting' = waiting /\ kept' = kept \cup {e}
    /\ lost' = lost

(* A flush settles some waiting writes: K reach the store, L are given up. *)
Settle(K, L) ==
    /\ K \cap L = {}
    /\ waiting' = waiting \ (K \cup L)
    /\ kept' = kept \cup K
    /\ lost' = lost \cup L
    /\ accepted' = accepted

Next ==
    \/ \E e \in Entry : Accept(e)
    \/ \E K \in SUBSET waiting : \E L \in SUBSET waiting : Settle(K, L)

Spec == Init /\ [][Next]_ledger

-----------------------------------------------------------------------------
(* The books balance: an acknowledged write is in exactly one of the three *)
(* places, and nothing unacknowledged is in any.                           *)
Balanced ==
    /\ accepted = waiting \cup kept \cup lost
    /\ waiting \cap kept = {}
    /\ waiting \cap lost = {}
    /\ kept \cap lost = {}

(* The promise is consistent: every behaviour of the ledger balances.      *)
THEOREM LedgerBalanced == Spec => []Balanced
<1>1. Init => Balanced
  BY DEF Init, Balanced
<1>2. Balanced /\ [Next]_ledger => Balanced'
  <2> SUFFICES ASSUME Balanced, [Next]_ledger
               PROVE  Balanced'
    OBVIOUS
  <2>1. ASSUME NEW e \in Entry, Accept(e)
        PROVE  Balanced'
    BY <2>1 DEF Balanced, Accept
  <2>2. ASSUME NEW K \in SUBSET waiting, NEW L \in SUBSET waiting, Settle(K, L)
        PROVE  Balanced'
    BY <2>2 DEF Balanced, Settle
  <2>3. CASE UNCHANGED ledger
    BY <2>3 DEF Balanced, ledger
  <2> QED
    BY <2>1, <2>2, <2>3 DEF Next
<1> QED
  BY <1>1, <1>2, PTL DEF Spec

=============================================================================

--------------------------- MODULE DebitContract ---------------------------
(***************************************************************************)
(* What the settlement ledger promises its callers, without processes,     *)
(* requests or failures.  For every idempotency key an amount is owed at   *)
(* most once, it is paid at most once and only in the amount that was owed *)
(* beforehand, and it is acknowledged only after it was paid.              *)
(***************************************************************************)
EXTENDS Naturals

CONSTANTS Key,      \* idempotency keys, one per settlement window
          Amount    \* charges in cents

VARIABLES owed,     \* [Key -> cents], 0 while nothing is owed
          paid,     \* [Key -> cents], 0 while the wallet was not debited
          acked     \* keys a caller was told are committed

vars == <<owed, paid, acked>>

Init ==
  /\ owed  = [k \in Key |-> 0]
  /\ paid  = [k \in Key |-> 0]
  /\ acked = {}

Owe(k, a) ==
  /\ owed[k] = 0
  /\ owed' = [owed EXCEPT ![k] = a]
  /\ UNCHANGED <<paid, acked>>

Pay(k) ==
  /\ owed[k] # 0
  /\ paid[k] = 0
  /\ paid' = [paid EXCEPT ![k] = owed[k]]
  /\ UNCHANGED <<owed, acked>>

Acknowledge(k) ==
  /\ paid[k] # 0
  /\ acked' = acked \union {k}
  /\ UNCHANGED <<owed, paid>>

Next ==
  \E k \in Key :
    \/ \E a \in Amount : Owe(k, a)
    \/ Pay(k)
    \/ Acknowledge(k)

Spec == Init /\ [][Next]_vars
=============================================================================

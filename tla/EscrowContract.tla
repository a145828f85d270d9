--------------------------- MODULE EscrowContract ---------------------------
(***************************************************************************)
(* What a pre-funded escrow promises its organisation, without jobs,       *)
(* answers or failures.  An account is opened, and only then paid in, in   *)
(* full and once.  Money is asked back only from an account that was paid  *)
(* in, after its deployment has left at least once; one of the amounts     *)
(* asked for is paid out, once, and one of them is recorded as paid out    *)
(* only then.                                                              *)
(***************************************************************************)
EXTENDS Naturals

CONSTANT Deposit    \* cents

VARIABLES opened,   \* the account exists
          funded,   \* the wallet was debited the deposit
          left,     \* the deployment was suspended or has ended, though it may
                    \* run again
          asked,    \* the amounts asked back
          returned, \* cents paid out to the wallet, 0 before
          recorded  \* cents recorded as paid out

vars == <<opened, funded, left, asked, returned, recorded>>

Init ==
  /\ opened = FALSE /\ funded = FALSE /\ left = FALSE
  /\ asked = {}
  /\ returned = 0 /\ recorded = 0

Open ==
  /\ ~opened
  /\ opened' = TRUE
  /\ UNCHANGED <<funded, left, asked, returned, recorded>>

Fund ==
  /\ opened /\ ~funded
  /\ funded' = TRUE
  /\ UNCHANGED <<opened, left, asked, returned, recorded>>

Leave ==
  /\ ~left
  /\ left' = TRUE
  /\ UNCHANGED <<opened, funded, asked, returned, recorded>>

Ask(a) ==
  /\ funded /\ left
  /\ asked' = asked \union {a}
  /\ UNCHANGED <<opened, funded, left, returned, recorded>>

Return(a) ==
  /\ a \in asked
  /\ returned = 0
  /\ returned' = a
  /\ UNCHANGED <<opened, funded, left, asked, recorded>>

\* A later record replaces the first, and need not be of the amount that was paid out.
Record(a) ==
  /\ returned # 0
  /\ a \in asked \/ a = 0
  /\ recorded' = a
  /\ UNCHANGED <<opened, funded, left, asked, returned>>

Next ==
  \/ Open \/ Fund \/ Leave
  \/ \E a \in 1..Deposit : Ask(a) \/ Return(a)
  \/ \E a \in 0..Deposit : Record(a)

Spec == Init /\ [][Next]_vars
=============================================================================

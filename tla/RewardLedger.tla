---------------------------- MODULE RewardLedger ----------------------------
(***************************************************************************)
(* What a reward program promises the accounts it serves.  Emissions are    *)
(* accrued to accounts; what an account is owed leaves the books only by    *)
(* being paid to it, as far as the funds go.  Nothing else an account or    *)
(* the authority does may change what anybody is owed.                      *)
(***************************************************************************)
EXTENDS Integers, FiniteSets, FiniteSetsExt

CONSTANT Accounts

VARIABLES
  emitted,   \* rewards emitted so far
  funds,     \* what the rewards vault holds
  owed,      \* what each account may collect
  paid       \* what each account has collected

vars == <<emitted, funds, owed, paid>>

Init ==
  /\ emitted = 0
  /\ funds \in Nat
  /\ owed = [a \in Accounts |-> 0]
  /\ paid = [a \in Accounts |-> 0]

\* Rounding may promise every account one unit more than was emitted.
Accrue ==
  /\ emitted' >= emitted
  /\ \A a \in Accounts : owed'[a] >= owed[a]
  /\ SumFunctionOnSet([a \in Accounts |-> owed'[a] - owed[a]], Accounts)
       <= emitted' - emitted + Cardinality(Accounts)
  /\ owed' # owed => emitted' > emitted
  /\ UNCHANGED <<funds, paid>>

\* What the funds cannot cover is forfeited.
Pay(a) ==
  LET due == owed[a] - owed'[a]
      payment == IF due <= funds THEN due ELSE funds
  IN
  /\ due > 0
  /\ owed' = [owed EXCEPT ![a] = owed'[a]]
  /\ paid' = [paid EXCEPT ![a] = @ + payment]
  /\ funds' = funds - payment
  /\ UNCHANGED emitted

Next == Accrue \/ \E a \in Accounts : Pay(a)

Spec == Init /\ [][Next]_vars
=============================================================================

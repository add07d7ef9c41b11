---------------------------- MODULE CustodyVault ----------------------------
(***************************************************************************)
(* What every vault of the protocol promises: it holds what it owes.       *)
(* Value may arrive unannounced, be recognised as owed, be deposited and   *)
(* owed in one step, or be paid out; only what nobody is owed may be       *)
(* released otherwise.                                                     *)
(***************************************************************************)
EXTENDS Integers

VARIABLES held, owed

vars == <<held, owed>>

Init == held = 0 /\ owed = 0

Deposit == held' > held /\ owed' - owed = held' - held

PayOut == held' < held /\ owed' - owed = held' - held

Arrive == held' > held /\ owed' = owed

Recognise == held' = held /\ owed' > owed

Release == held' < held /\ owed' = owed

\* Whatever the step, the vault covers what it owes afterwards.
Next ==
  /\ 0 <= owed' /\ owed' <= held'
  /\ Deposit \/ PayOut \/ Arrive \/ Recognise \/ Release

Spec == Init /\ [][Next]_vars
=============================================================================

--------------------------- MODULE RevenueHistory ---------------------------
(***************************************************************************)
(* Governance with a history variable for the one thing its revenue index  *)
(* rests on: that the veRISE of a lock does not grow once revenue was       *)
(* booked for it.  extend_lock neither settles the lock's share nor asks    *)
(* that it be settled.                                                     *)
(***************************************************************************)
EXTENDS Governance

VARIABLE settled    \* no lock has grown after revenue was booked for it

RaisesSettled ==
  \A l \in Locks :
    lock[l].exists /\ lock'[l].verise_amount > lock[l].verise_amount
      => lock[l].last_revenue_index = revenue_index

HistoryInit == Init /\ settled = TRUE

HistoryNext == Next /\ settled' = (settled /\ RaisesSettled)

HistorySpec == HistoryInit /\ [][HistoryNext]_<<vars, settled>>

-----------------------------------------------------------------------------
(* Property *)

\* While no lock has grown after revenue was booked for it, the index allots the
\* unexpired locks no more than was booked, through locks that come, go, expire
\* and shrink between bookings and totals that round each booking down:
\* extend_lock, where it raises the veRISE, is all that breaks the index.
AllottedWithinBookings == settled => RevenueCovered
=============================================================================

--------------------------- MODULE EscrowPromise ---------------------------
(***************************************************************************)
(* What the escrow of an order promises, with no handler, transaction or   *)
(* clock in sight.  A reference bills one order; the customer is charged   *)
(* on a billed reference; a charge is settled, which holds the money of    *)
(* the order; held money is released.  Money is never held or released for *)
(* an order nobody was charged for, a settled charge is never forgotten,   *)
(* and an order whose money was once held never returns to NOT_HELD.       *)
(*                                                                         *)
(* A settlement may come after a release: a second charge of the order, or *)
(* a notification processed twice, holds the order again.  Escrow.tla      *)
(* shows that the code implements this module.                             *)
(***************************************************************************)
CONSTANTS
  Orders,   \* the orders placed
  Refs,     \* payment references
  None      \* no order

HoldStatuses == {"NOT_HELD", "HELD", "RELEASED"}

VARIABLES
  billed,   \* the order a reference bills, or None
  charged,  \* references on which the customer was charged
  settled,  \* references the store has recorded as paid
  hold      \* hold status of the money of each order

promiseVars == <<billed, charged, settled, hold>>

PromiseInit ==
  /\ billed = [r \in Refs |-> None]
  /\ charged = {}
  /\ settled = {}
  /\ hold = [o \in Orders |-> "NOT_HELD"]

Bill(r, o) ==
  /\ billed[r] = None
  /\ billed' = [billed EXCEPT ![r] = o]
  /\ UNCHANGED <<charged, settled, hold>>

Charge(r) ==
  /\ billed[r] # None
  /\ charged' = charged \union {r}
  /\ UNCHANGED <<billed, settled, hold>>

Settle(r) ==
  /\ r \in charged
  /\ settled' = settled \union {r}
  /\ hold' = [hold EXCEPT ![billed[r]] = "HELD"]
  /\ UNCHANGED <<billed, charged>>

Release(o) ==
  /\ hold[o] # "NOT_HELD"
  /\ hold' = [hold EXCEPT ![o] = "RELEASED"]
  /\ UNCHANGED <<billed, charged, settled>>

PromiseNext ==
  \/ \E r \in Refs : Charge(r) \/ Settle(r)
  \/ \E r \in Refs, o \in Orders : Bill(r, o)
  \/ \E o \in Orders : Release(o)

PromiseSpec == PromiseInit /\ [][PromiseNext]_promiseVars

=============================================================================

------------------------------- MODULE Escrow -------------------------------
(***************************************************************************)
(* Payments, escrow and release of orders: PaymentService (initialize,     *)
(* Paystack webhook), OrderServiceImpl.confirmOrderByToken and             *)
(* updateOrderStatus, and OrderCron, over the tables Order and Payment.    *)
(*                                                                         *)
(* The program is one Node process (or several) in front of PostgreSQL at  *)
(* READ COMMITTED.  A request is a handler whose steps are the code        *)
(* between two awaited calls; the steps of different handlers interleave.  *)
(* A transaction's writes become visible in one step, its commit; the row  *)
(* locks its updates take make a second writer of the same row wait for    *)
(* that commit, but do not make it read again.                             *)
(***************************************************************************)
EXTENDS Naturals, FiniteSets

CONSTANTS
  Orders,     \* orders placed by createOrder
  Refs,       \* payment references (PAY-<date>-<uuid>)
  Tokens,     \* release tokens, randomInt(100000, 999999) in the code
  Handlers,   \* requests being served at once
  None,       \* SQL null, and a handler's unused field
  HoldDays,   \* days before an automatic release, 7 in the code
  LastDay     \* bound on the clock

ASSUME NoneAssumption == None \notin Orders \union Refs \union Tokens \union Nat
ASSUME DaysAssumption == HoldDays \in Nat \ {0} /\ LastDay \in Nat

OrderStatuses ==
  {"PENDING", "CONFIRMED", "COMPLETED", "CANCELLED", "AWAITING_CONFIRMATION"}
HoldStatuses == {"NOT_HELD", "HELD", "RELEASED"}

VARIABLES
  orders,     \* table Order
  payments,   \* table Payment, by reference; order = None: no such row
  gateway,    \* Paystack's state of each reference
  links,      \* references whose payment link reached the customer
  proc,       \* the step each handler is at, and what it has read
  cron,       \* the nightly job
  announced,  \* history: fund-release events emitted for an order (2: many)
  day         \* the date

vars == <<orders, payments, gateway, links, proc, cron, announced, day>>

Idle == [pc |-> "idle", order |-> None, ref |-> None]
CronIdle == [pc |-> "idle", batch |-> {}, order |-> None]

(* The row createOrder inserts.                                            *)
NewOrder ==
  [status |-> "PENDING", paymentStatus |-> "PENDING", hold |-> "NOT_HELD",
   token |-> None, releaseAt |-> None]

NoPayment == [order |-> None, status |-> "PENDING"]

Init ==
  /\ orders = [o \in Orders |-> NewOrder]
  /\ payments = [r \in Refs |-> NoPayment]
  /\ gateway = [r \in Refs |-> "none"]
  /\ links = {}
  /\ proc = [h \in Handlers |-> Idle]
  /\ cron = CronIdle
  /\ announced = [o \in Orders |-> 0]
  /\ day = 0

At(h, pc) == proc[h].pc = pc
GoTo(h, pc) == proc' = [proc EXCEPT ![h].pc = pc]
Finish(h) == proc' = [proc EXCEPT ![h] = Idle]

(***************************************************************************)
(* Initializing a payment: read the order, open the transaction at the     *)
(* gateway, write the Payment row, answer with the link.                   *)
(***************************************************************************)
Payable(o) ==
  /\ orders[o].paymentStatus # "PAID"
  /\ orders[o].status # "CANCELLED"

(* The reference is generated by the handler and unique to it.             *)
FreshRef(r) ==
  /\ gateway[r] = "none"
  /\ \A h \in Handlers : proc[h].ref # r

InitRead(h, o, r) ==
  /\ At(h, "idle")
  /\ Payable(o)
  /\ FreshRef(r)
  /\ proc' = [proc EXCEPT ![h] = [pc |-> "initGateway", order |-> o, ref |-> r]]
  /\ UNCHANGED <<orders, payments, gateway, links, cron, announced, day>>

InitGateway_LinkFirst(h) ==
  /\ At(h, "initGateway")
  /\ gateway' = [gateway EXCEPT ![proc[h].ref] = "open"]
  /\ links' = links \union {proc[h].ref}
  /\ GoTo(h, "initRecord")
  /\ UNCHANGED <<orders, payments, cron, announced, day>>

(* The gateway has opened the transaction; if the call fails or its answer *)
(* is lost, HandlerDies ends the request before or after this step.        *)
InitGateway(h) ==
  /\ At(h, "initGateway")
  /\ gateway' = [gateway EXCEPT ![proc[h].ref] = "open"]
  /\ GoTo(h, "initRecord")
  /\ UNCHANGED <<orders, payments, links, cron, announced, day>>

InitRecord(h) ==
  /\ At(h, "initRecord")
  /\ payments' = [payments EXCEPT
       ![proc[h].ref] = [order |-> proc[h].order, status |-> "PENDING"]]
  /\ links' = links \union {proc[h].ref}
  /\ Finish(h)
  /\ UNCHANGED <<orders, gateway, cron, announced, day>>

(* The customer, on Paystack's page: a failed attempt may be repeated.     *)
CustomerPays(r) ==
  /\ r \in links
  /\ gateway[r] \in {"open", "failed"}
  /\ \E outcome \in {"success", "failed"} :
       gateway' = [gateway EXCEPT ![r] = outcome]
  /\ UNCHANGED <<orders, payments, links, proc, cron, announced, day>>

(***************************************************************************)
(* The webhook: verify the reference with the gateway, then settle it in a *)
(* transaction.  A notification may arrive for any reference the gateway   *)
(* knows, any number of times and at several handlers at once: Paystack    *)
(* repeats what is not answered with 200, and the controller looks at      *)
(* nothing but the event's name and the reference.                         *)
(***************************************************************************)
Verified_Skipped(r) == gateway[r] # "none"
Verified(r) == gateway[r] = "success"

WebhookVerify(h, r) ==
  /\ At(h, "idle")
  /\ Verified(r)
  /\ proc' = [proc EXCEPT ![h] = [pc |-> "settleRead", order |-> None, ref |-> r]]
  /\ UNCHANGED <<orders, payments, gateway, links, cron, announced, day>>

CanSettle_UnlessCancelled(r) ==
  /\ payments[r].order # None
  /\ payments[r].status # "PAID"
  /\ orders[payments[r].order].status # "CANCELLED"

CanSettle(r) ==
  /\ payments[r].order # None
  /\ payments[r].status # "PAID"

(* findByReference in the transaction: a plain SELECT, no row lock.        *)
SettleRead(h) ==
  /\ At(h, "settleRead")
  /\ CanSettle(proc[h].ref)
  /\ proc' = [proc EXCEPT ![h].pc = "settleWrite",
                          ![h].order = payments[proc[h].ref].order]
  /\ UNCHANGED <<orders, payments, gateway, links, cron, announced, day>>

(* No such payment, or already PAID: nothing is written, the answer is 200. *)
SettleSkip(h) ==
  /\ At(h, "settleRead")
  /\ ~CanSettle(proc[h].ref)
  /\ Finish(h)
  /\ UNCHANGED <<orders, payments, gateway, links, cron, announced, day>>

(* releaseToken is @unique: the update fails, and the transaction with it, *)
(* on a token that another order has, released or not.                     *)
FreeTokens_NotUnique(o) == Tokens
FreeTokens(o) == {t \in Tokens : \A p \in Orders \ {o} : orders[p].token # t}

AutoReleaseAt_Backwards(d) == d - HoldDays
AutoReleaseAt(d) == d + HoldDays

SettleWrite(h) ==
  /\ At(h, "settleWrite")
  /\ payments' = [payments EXCEPT ![proc[h].ref].status = "PAID"]
  /\ \E t \in FreeTokens(proc[h].order) :
       orders' = [orders EXCEPT ![proc[h].order] =
         [status |-> "AWAITING_CONFIRMATION", paymentStatus |-> "PAID",
          hold |-> "HELD", token |-> t, releaseAt |-> AutoReleaseAt(day)]]
  /\ Finish(h)
  /\ UNCHANGED <<gateway, links, cron, announced, day>>

(***************************************************************************)
(* confirmOrderByToken: find the order of the token, check that it is      *)
(* held, release it, emit ORDER_EVENTS.COMPLETED.  Only the caller whose   *)
(* phone is the customer's gets past the read; the others change nothing.  *)
(***************************************************************************)
IsHeld(o) == orders[o].hold = "HELD"

ConfirmRead(h, t) ==
  /\ At(h, "idle")
  /\ \E o \in Orders :
       /\ orders[o].token = t
       /\ IsHeld(o)
       /\ proc' = [proc EXCEPT ![h] = [pc |-> "confirmWrite", order |-> o, ref |-> None]]
  /\ UNCHANGED <<orders, payments, gateway, links, cron, announced, day>>

(* update where id: whatever happened to the row since it was read.        *)
ReleasedRow(row) == [row EXCEPT !.hold = "RELEASED", !.status = "COMPLETED"]

ConfirmWrite(h) ==
  /\ At(h, "confirmWrite")
  /\ orders' = [orders EXCEPT ![proc[h].order] = ReleasedRow(@)]
  /\ GoTo(h, "confirmEmit")
  /\ UNCHANGED <<payments, gateway, links, cron, announced, day>>

(* 0, 1 or many: the events beyond the second are not counted.             *)
Announce(o) ==
  announced' = [announced EXCEPT ![o] = IF @ = 0 THEN 1 ELSE 2]

ConfirmEmit(h) ==
  /\ At(h, "confirmEmit")
  /\ Announce(proc[h].order)
  /\ Finish(h)
  /\ UNCHANGED <<orders, payments, gateway, links, cron, day>>

(* updateOrderStatus checks that the order exists and writes any status.   *)
SetStatus(o, s) ==
  /\ orders' = [orders EXCEPT ![o].status = s]
  /\ UNCHANGED <<payments, gateway, links, proc, cron, announced, day>>

(* A request ends early: the process crashes, a call throws, the           *)
(* transaction times out or is rolled back.  What was committed stays.     *)
HandlerDies(h) ==
  /\ ~At(h, "idle")
  /\ Finish(h)
  /\ UNCHANGED <<orders, payments, gateway, links, cron, announced, day>>

(***************************************************************************)
(* autoReleaseExpiredOrders: one findMany, then one update and one event   *)
(* per row found.  A throw or a crash ends the loop; the job runs again    *)
(* the next midnight.                                                      *)
(***************************************************************************)
Expired_Strict(o) ==
  /\ orders[o].hold = "HELD"
  /\ orders[o].releaseAt # None /\ orders[o].releaseAt < day
  /\ orders[o].status # "COMPLETED"

Expired_AnyHold(o) == orders[o].status # "COMPLETED"

Expired(o) ==
  /\ orders[o].hold = "HELD"
  /\ orders[o].releaseAt # None /\ orders[o].releaseAt <= day
  /\ orders[o].status # "COMPLETED"

CronScan ==
  /\ cron.pc = "idle"
  /\ \E o \in Orders : Expired(o)
  /\ cron' = [pc |-> "loop", batch |-> {o \in Orders : Expired(o)}, order |-> None]
  /\ UNCHANGED <<orders, payments, gateway, links, proc, announced, day>>

CronRelease(o) ==
  /\ cron.pc = "loop"
  /\ o \in cron.batch
  /\ orders' = [orders EXCEPT ![o] = ReleasedRow(@)]
  /\ cron' = [pc |-> "emit", batch |-> cron.batch \ {o}, order |-> o]
  /\ UNCHANGED <<payments, gateway, links, proc, announced, day>>

CronEmit ==
  /\ cron.pc = "emit"
  /\ Announce(cron.order)
  /\ cron' = IF cron.batch = {} THEN CronIdle
             ELSE [cron EXCEPT !.pc = "loop", !.order = None]
  /\ UNCHANGED <<orders, payments, gateway, links, proc, day>>

CronDies ==
  /\ cron.pc # "idle"
  /\ cron' = CronIdle
  /\ UNCHANGED <<orders, payments, gateway, links, proc, announced, day>>

Tick ==
  /\ day < LastDay
  /\ day' = day + 1
  /\ UNCHANGED <<orders, payments, gateway, links, proc, cron, announced>>

(***************************************************************************)
(* The specification.                                                      *)
(***************************************************************************)
HandlerStep(h) ==
  \/ InitGateway(h) \/ InitRecord(h)
  \/ SettleRead(h) \/ SettleSkip(h) \/ SettleWrite(h)
  \/ ConfirmWrite(h) \/ ConfirmEmit(h)
  \/ HandlerDies(h)

Request(h) ==
  \/ \E o \in Orders, r \in Refs : InitRead(h, o, r)
  \/ \E r \in Refs : WebhookVerify(h, r)
  \/ \E t \in Tokens : ConfirmRead(h, t)

CronStep ==
  CronScan \/ (\E o \in Orders : CronRelease(o)) \/ CronEmit \/ CronDies

Next ==
  \/ \E h \in Handlers : Request(h) \/ HandlerStep(h)
  \/ \E r \in Refs : CustomerPays(r)
  \/ \E o \in Orders, s \in OrderStatuses : SetStatus(o, s)
  \/ CronStep
  \/ Tick

Spec == Init /\ [][Next]_vars

(***************************************************************************)
(* Fairness.  A request that was accepted goes on or fails.  Paystack      *)
(* repeats a notification until it is answered with 200, which is when the *)
(* payment is PAID, and a repeated settlement does not fail every time.    *)
(* The job runs every midnight, and the update of one row does not fail    *)
(* every time.  Nothing is assumed of customers, tenants or the clock.     *)
(***************************************************************************)
Serves(h, r) == proc[h].ref = r

PaymentFairness ==
  /\ \A h \in Handlers : WF_vars(HandlerStep(h))
  /\ \A r \in Refs :
       /\ SF_vars(payments[r].status # "PAID" /\ \E h \in Handlers : WebhookVerify(h, r))
       /\ SF_vars(\E h \in Handlers : Serves(h, r) /\ SettleRead(h))
       /\ SF_vars(\E h \in Handlers : Serves(h, r) /\ SettleWrite(h))

CronFairness ==
  /\ WF_vars(CronStep)
  /\ \A o \in Orders : SF_vars(CronRelease(o))

FairSpec == Spec /\ PaymentFairness /\ CronFairness

(***************************************************************************)
(* Properties.                                                             *)
(***************************************************************************)
HandlerPCs == {"idle", "initGateway", "initRecord", "settleRead", "settleWrite",
               "confirmWrite", "confirmEmit"}

OrderRow == [status : OrderStatuses, paymentStatus : {"PENDING", "PAID"},
             hold : HoldStatuses, token : Tokens \union {None},
             releaseAt : Nat \union {None}]

PaymentRow == [order : Orders \union {None}, status : {"PENDING", "PAID"}]

HandlerState ==
  [pc : HandlerPCs, order : Orders \union {None}, ref : Refs \union {None}]

CronState ==
  [pc : {"idle", "loop", "emit"}, batch : SUBSET Orders, order : Orders \union {None}]

(* Every variable keeps its type: columns hold values of their enum or     *)
(* null, and a handler's fields hold what it has read.                     *)
TypeOK ==
  /\ orders \in [Orders -> OrderRow]
  /\ payments \in [Refs -> PaymentRow]
  /\ gateway \in [Refs -> {"none", "open", "failed", "success"}]
  /\ links \subseteq Refs
  /\ proc \in [Handlers -> HandlerState]
  /\ cron \in CronState
  /\ announced \in [Orders -> 0..2]
  /\ day \in Nat

SettledFor(o, r) == payments[r].order = o /\ payments[r].status = "PAID"

(* Money is held, released or announced as released only for an order that *)
(* has a payment recorded as PAID on which the gateway charged the         *)
(* customer: whatever rows confirmOrderByToken and the nightly job write   *)
(* long after reading them, and however often a notification comes.        *)
FundsAreCharged ==
  \A o \in Orders :
    orders[o].hold # "NOT_HELD" \/ orders[o].paymentStatus = "PAID" \/ announced[o] > 0
      => \E r \in Refs : SettledFor(o, r) /\ gateway[r] = "success"

(* Held money can be released: the order has a token to confirm it with    *)
(* that no other order has, so that findOne on the token finds this order, *)
(* and a day on which the nightly job will find it.                        *)
HeldIsReleasable ==
  \A o \in Orders : orders[o].hold = "HELD" =>
    /\ orders[o].paymentStatus = "PAID"
    /\ orders[o].token # None
    /\ orders[o].releaseAt # None
    /\ \A p \in Orders \ {o} : orders[p].token # orders[o].token

(* A charge never lacks its Payment row, without which the webhook would   *)
(* answer 200 and drop it (payment.service.ts:133): initializePayment      *)
(* writes the row before the customer sees the link.                       *)
ChargeIsRecorded ==
  \A r \in Refs : gateway[r] = "success" => payments[r].order # None

(* The escrow's promise, the detail hidden.                                *)
Promise == INSTANCE EscrowPromise WITH
  billed <- [r \in Refs |-> payments[r].order],
  charged <- {r \in Refs : gateway[r] = "success"},
  settled <- {r \in Refs : payments[r].status = "PAID"},
  hold <- [o \in Orders |-> orders[o].hold]

(* Every step of payment, confirmation and release is a step of the        *)
(* promise or leaves it alone.                                             *)
KeepsPromise == Promise!PromiseSpec

(* A charge is settled in the end, though handlers die, transactions roll  *)
(* back and the tenant changes the order's status meanwhile: it needs the  *)
(* gateway to repeat itself, and a token to be left for every order.       *)
ChargeIsSettled ==
  \A r \in Refs : gateway[r] = "success" ~> payments[r].status = "PAID"

(* Money the job should have released: the date has come.                 *)
Due(o) ==
  /\ orders[o].hold = "HELD"
  /\ orders[o].releaseAt # None /\ orders[o].releaseAt <= day

(* Money held past its date is released in the end, whatever becomes of    *)
(* the batch the job was working on, unless the tenant completed the order *)
(* or a second charge has put the date off.                                *)
DueIsReleased ==
  \A o \in Orders : Due(o) ~> ~Due(o) \/ orders[o].status = "COMPLETED"

(***************************************************************************)
(* What the code's comments and tests say, and its interleavings refute.   *)
(***************************************************************************)

(* order.service.impl.ts:227, "Validate hold status": the money of an      *)
(* order is released once for each time it was settled.                    *)
ReleasedOncePerCharge ==
  \A o \in Orders : announced[o] = 2 =>
    \E r1, r2 \in Refs : r1 # r2 /\ SettledFor(o, r1) /\ SettledFor(o, r2)

(* payment.service.integration.spec.ts:167, idempotency: a payment already *)
(* PAID does not update the order again, so that an order leaves RELEASED  *)
(* only when a payment becomes PAID in that step.                          *)
SettledOnce ==
  [][\A o \in Orders :
       orders[o].hold = "RELEASED" /\ orders'[o].hold # "RELEASED"
         => \E r \in Refs : ~SettledFor(o, r) /\ (SettledFor(o, r))']_vars

(* payment.service.ts:62, 'Order is cancelled': a cancelled order is not   *)
(* paid for.                                                               *)
CancelledStaysUnpaid ==
  [][\A o \in Orders :
       orders[o].status = "CANCELLED" => orders'[o].paymentStatus = orders[o].paymentStatus]_vars

=============================================================================

---------------------------- MODULE EscrowProofs ----------------------------
(***************************************************************************)
(* Proofs about Escrow, for any set of orders, references, tokens and      *)
(* handlers and any clock: the type invariant, the three safety invariants *)
(* and the refinement of EscrowPromise, all from one inductive invariant.  *)
(***************************************************************************)
EXTENDS Escrow, TLAPS

(***************************************************************************)
(* The inductive invariant.  What a handler has read is stale by the time  *)
(* it writes; each part below says what stays true of it all the same.     *)
(***************************************************************************)

(* A settled payment was charged, a charge was made through a link, and a  *)
(* link was handed out with its Payment row.                               *)
PaymentsTraced ==
  \A r \in Refs :
    /\ payments[r].status = "PAID" => gateway[r] = "success" /\ payments[r].order # None
    /\ gateway[r] = "success" => r \in links
    /\ r \in links => payments[r].order # None
    /\ payments[r].order # None => gateway[r] # "none"

(* The columns of an order agree with each other and with its payments.    *)
Charged(o) == \E r \in Refs : SettledFor(o, r)

RowsAgree ==
  \A o \in Orders :
    /\ orders[o].hold # "NOT_HELD" =>
         /\ orders[o].paymentStatus = "PAID"
         /\ orders[o].token # None
         /\ orders[o].releaseAt # None
         /\ Charged(o)
    /\ orders[o].hold = "NOT_HELD" =>
         /\ orders[o].paymentStatus = "PENDING"
         /\ orders[o].token = None
         /\ orders[o].releaseAt = None
         /\ announced[o] = 0

TokensUnique ==
  \A o, p \in Orders :
    o # p /\ orders[o].token # None => orders[p].token # orders[o].token

Initializing(h) == proc[h].pc \in {"initGateway", "initRecord"}
Settling(h) == proc[h].pc \in {"settleRead", "settleWrite"}
Confirming(h) == proc[h].pc \in {"confirmWrite", "confirmEmit"}

(* What a handler holds is still so, or is so for good: its reference has  *)
(* no Payment row yet, its charge was made, its order was held once.       *)
HandlersSound ==
  \A h \in Handlers :
    /\ Initializing(h) =>
         /\ proc[h].order \in Orders
         /\ proc[h].ref \in Refs
         /\ payments[proc[h].ref].order = None
         /\ At(h, "initRecord") => gateway[proc[h].ref] # "none"
    /\ Settling(h) =>
         /\ proc[h].ref \in Refs
         /\ gateway[proc[h].ref] = "success"
    /\ At(h, "settleWrite") =>
         /\ proc[h].order \in Orders
         /\ payments[proc[h].ref].order = proc[h].order
    /\ Confirming(h) =>
         /\ proc[h].order \in Orders
         /\ orders[proc[h].order].hold # "NOT_HELD"

(* Two handlers never initialize the same reference.                       *)
RefsOwned ==
  \A g, h \in Handlers :
    g # h /\ Initializing(g) /\ Initializing(h) => proc[g].ref # proc[h].ref

(* The orders the job still has to release were held once.                 *)
BatchSound ==
  /\ \A o \in cron.batch : orders[o].hold # "NOT_HELD"
  /\ cron.pc = "emit" =>
       /\ cron.order \in Orders
       /\ orders[cron.order].hold # "NOT_HELD"

IInv ==
  /\ TypeOK
  /\ PaymentsTraced
  /\ RowsAgree
  /\ TokensUnique
  /\ HandlersSound
  /\ RefsOwned
  /\ BatchSound

(***************************************************************************)
(* No step breaks the inductive invariant.  One step of the proof per      *)
(* action; under it, one per part the action can disturb and one for the   *)
(* parts that speak only of variables it leaves alone.                     *)
(***************************************************************************)
LEMMA InitIInv == Init => IInv
BY NoneAssumption
   DEF Init, IInv, TypeOK, PaymentsTraced, RowsAgree, TokensUnique,
       HandlersSound, RefsOwned, BatchSound, Initializing, Settling, Confirming,
       At, NewOrder, NoPayment, Idle, CronIdle, OrderRow, PaymentRow,
       HandlerState, CronState, OrderStatuses, HoldStatuses, HandlerPCs

(* Releasing a row leaves a well-typed row.                                *)
LEMMA ReleasedRowTyped ==
  ASSUME NEW row \in OrderRow
  PROVE  /\ ReleasedRow(row) \in OrderRow
         /\ ReleasedRow(row).hold = "RELEASED"
         /\ ReleasedRow(row).paymentStatus = row.paymentStatus
         /\ ReleasedRow(row).token = row.token
         /\ ReleasedRow(row).releaseAt = row.releaseAt
BY DEF ReleasedRow, OrderRow, OrderStatuses, HoldStatuses

(* So does a new status, a payment marked PAID, and a handler that has     *)
(* read the order of a payment.                                            *)
LEMMA StatusTyped ==
  ASSUME NEW row \in OrderRow, NEW s \in OrderStatuses
  PROVE  [row EXCEPT !.status = s] \in OrderRow
BY DEF OrderRow

LEMMA PaidTyped ==
  ASSUME NEW row \in PaymentRow
  PROVE  [row EXCEPT !.status = "PAID"] \in PaymentRow
BY DEF PaymentRow

LEMMA ReadTyped ==
  ASSUME NEW state \in HandlerState, NEW o \in Orders \union {None}
  PROVE  [state EXCEPT !.pc = "settleWrite", !.order = o] \in HandlerState
BY DEF HandlerState, HandlerPCs

(* Counting an event keeps the count in 0..2.                              *)
LEMMA AnnounceTyped ==
  ASSUME NEW o, Announce(o), announced \in [Orders -> 0..2]
  PROVE  announced' \in [Orders -> 0..2]
<1>1. 1 \in 0..2 /\ 2 \in 0..2
  OBVIOUS
<1>2. \A p \in Orders : announced'[p] \in 0..2
  BY <1>1 DEF Announce
<1>3. QED
  BY <1>2 DEF Announce

(* The step from one state of the invariant to the next.                   *)
LEMMA NextIInv == IInv /\ [Next]_vars => IInv'
<1> SUFFICES ASSUME IInv, [Next]_vars
             PROVE  IInv'
  OBVIOUS
<1> USE NoneAssumption, DaysAssumption DEF IInv
<1>1. ASSUME NEW h \in Handlers, NEW o \in Orders, NEW r \in Refs, InitRead(h, o, r)
      PROVE  IInv'
  <2>1. TypeOK'
    BY <1>1 DEF TypeOK, HandlerState, HandlerPCs, InitRead
  <2>2. HandlersSound'
    BY <1>1 DEF HandlersSound, Initializing, Settling, Confirming, At,
           PaymentsTraced, InitRead, FreshRef
  <2>3. RefsOwned'
    BY <1>1 DEF RefsOwned, Initializing, InitRead, FreshRef
  <2>4. PaymentsTraced' /\ RowsAgree' /\ TokensUnique' /\ BatchSound'
    BY <1>1 DEF PaymentsTraced, RowsAgree, Charged, SettledFor, TokensUnique,
           BatchSound, InitRead
  <2> QED
    BY <2>1, <2>2, <2>3, <2>4
<1>2. ASSUME NEW h \in Handlers, InitGateway(h)
      PROVE  IInv'
  <2>1. TypeOK'
    <3>1. proc' \in [Handlers -> HandlerState]
      BY <1>2 DEF TypeOK, HandlerState, HandlerPCs, InitGateway, GoTo
    <3>2. gateway' \in [Refs -> {"none", "open", "failed", "success"}]
      BY <1>2 DEF TypeOK, InitGateway
    <3>3. QED
      BY <1>2, <3>1, <3>2 DEF TypeOK, InitGateway
  <2>2. PaymentsTraced'
    BY <1>2 DEF PaymentsTraced, HandlersSound, Initializing, InitGateway, At
  <2>3. HandlersSound'
    BY <1>2 DEF HandlersSound, Initializing, Settling, Confirming, At, TypeOK,
           PaymentsTraced, InitGateway, GoTo
  <2>4. RefsOwned'
    BY <1>2 DEF RefsOwned, Initializing, InitGateway, GoTo, At
  <2>5. RowsAgree' /\ TokensUnique' /\ BatchSound'
    BY <1>2 DEF RowsAgree, Charged, SettledFor, TokensUnique, BatchSound,
           InitGateway
  <2> QED
    BY <2>1, <2>2, <2>3, <2>4, <2>5
<1>3. ASSUME NEW h \in Handlers, InitRecord(h)
      PROVE  IInv'
  <2>1. TypeOK'
    <3>1. proc[h].ref \in Refs /\ proc[h].order \in Orders
      BY <1>3 DEF HandlersSound, Initializing, InitRecord, At
    <3>2. QED
      BY <1>3, <3>1 DEF TypeOK, PaymentRow, HandlerState, HandlerPCs,
             InitRecord, Finish, Idle
  <2>2. PaymentsTraced'
    BY <1>3 DEF PaymentsTraced, TypeOK, HandlersSound, Initializing, InitRecord,
           At
  <2>3. RowsAgree'
    BY <1>3 DEF RowsAgree, Charged, SettledFor, HandlersSound, Initializing,
           InitRecord, At
  <2>4. HandlersSound'
    BY <1>3 DEF HandlersSound, Initializing, Settling, Confirming, At, TypeOK,
           RefsOwned, InitRecord, Finish, Idle
  <2>5. RefsOwned'
    BY <1>3 DEF RefsOwned, Initializing, InitRecord, Finish, Idle
  <2>6. TokensUnique' /\ BatchSound'
    BY <1>3 DEF TokensUnique, BatchSound, InitRecord
  <2> QED
    BY <2>1, <2>2, <2>3, <2>4, <2>5, <2>6
<1>4. ASSUME NEW r \in Refs, CustomerPays(r)
      PROVE  IInv'
  <2>1. TypeOK'
    BY <1>4 DEF TypeOK, CustomerPays
  <2>2. PaymentsTraced'
    BY <1>4 DEF PaymentsTraced, CustomerPays
  <2>3. HandlersSound'
    BY <1>4 DEF HandlersSound, Initializing, Settling, Confirming, At,
           CustomerPays
  <2>4. RowsAgree' /\ TokensUnique' /\ RefsOwned' /\ BatchSound'
    BY <1>4 DEF RowsAgree, Charged, SettledFor, TokensUnique, RefsOwned,
           Initializing, BatchSound, CustomerPays
  <2> QED
    BY <2>1, <2>2, <2>3, <2>4
<1>5. ASSUME NEW h \in Handlers, NEW r \in Refs, WebhookVerify(h, r)
      PROVE  IInv'
  <2>1. TypeOK'
    BY <1>5 DEF TypeOK, HandlerState, HandlerPCs, WebhookVerify
  <2>2. HandlersSound'
    BY <1>5 DEF HandlersSound, Initializing, Settling, Confirming, At,
           WebhookVerify, Verified
  <2>3. RefsOwned'
    BY <1>5 DEF RefsOwned, Initializing, WebhookVerify
  <2>4. PaymentsTraced' /\ RowsAgree' /\ TokensUnique' /\ BatchSound'
    BY <1>5 DEF PaymentsTraced, RowsAgree, Charged, SettledFor, TokensUnique,
           BatchSound, WebhookVerify
  <2> QED
    BY <2>1, <2>2, <2>3, <2>4
<1>6. ASSUME NEW h \in Handlers, SettleRead(h)
      PROVE  IInv'
  <2>1. TypeOK'
    <3>1. payments[proc[h].ref].order \in Orders \union {None}
      BY <1>6 DEF TypeOK, PaymentRow, HandlersSound, Settling, SettleRead, At
    <3>2. proc' \in [Handlers -> HandlerState]
      BY <1>6, <3>1, ReadTyped DEF TypeOK, SettleRead
    <3>3. QED
      BY <1>6, <3>2 DEF TypeOK, SettleRead
  <2>2. HandlersSound'
    BY <1>6 DEF HandlersSound, Initializing, Settling, Confirming, At, TypeOK,
           PaymentRow, PaymentsTraced, SettleRead
  <2>3. RefsOwned'
    BY <1>6 DEF RefsOwned, Initializing, TypeOK, SettleRead
  <2>4. PaymentsTraced' /\ RowsAgree' /\ TokensUnique' /\ BatchSound'
    BY <1>6 DEF PaymentsTraced, RowsAgree, Charged, SettledFor, TokensUnique,
           BatchSound, SettleRead
  <2> QED
    BY <2>1, <2>2, <2>3, <2>4
<1>7. ASSUME NEW h \in Handlers, SettleSkip(h)
      PROVE  IInv'
  <2>1. TypeOK'
    BY <1>7 DEF TypeOK, HandlerState, HandlerPCs, SettleSkip, Finish, Idle
  <2>2. HandlersSound'
    BY <1>7 DEF HandlersSound, Initializing, Settling, Confirming, At,
           SettleSkip, Finish, Idle
  <2>3. RefsOwned'
    BY <1>7 DEF RefsOwned, Initializing, SettleSkip, Finish, Idle
  <2>4. PaymentsTraced' /\ RowsAgree' /\ TokensUnique' /\ BatchSound'
    BY <1>7 DEF PaymentsTraced, RowsAgree, Charged, SettledFor, TokensUnique,
           BatchSound, SettleSkip
  <2> QED
    BY <2>1, <2>2, <2>3, <2>4
<1>8. ASSUME NEW h \in Handlers, SettleWrite(h)
      PROVE  IInv'
  <2>1. TypeOK'
    <3>1. PICK t \in Tokens :
            orders' = [orders EXCEPT ![proc[h].order] =
              [status |-> "AWAITING_CONFIRMATION", paymentStatus |-> "PAID",
               hold |-> "HELD", token |-> t, releaseAt |-> AutoReleaseAt(day)]]
      BY <1>8 DEF SettleWrite, FreeTokens
    <3>2. AutoReleaseAt(day) \in Nat
      BY DEF TypeOK, AutoReleaseAt
    <3>3. [status |-> "AWAITING_CONFIRMATION", paymentStatus |-> "PAID",
           hold |-> "HELD", token |-> t, releaseAt |-> AutoReleaseAt(day)] \in OrderRow
      BY <3>2 DEF OrderRow, OrderStatuses, HoldStatuses
    <3>4. orders' \in [Orders -> OrderRow]
      BY <3>1, <3>3 DEF TypeOK
    <3>5. payments' \in [Refs -> PaymentRow]
      BY <1>8, PaidTyped DEF TypeOK, SettleWrite
    <3>6. proc' \in [Handlers -> HandlerState]
      BY <1>8 DEF TypeOK, HandlerState, HandlerPCs, SettleWrite, Finish, Idle
    <3>7. QED
      BY <1>8, <3>4, <3>5, <3>6 DEF TypeOK, SettleWrite
  <2>2. PaymentsTraced'
    BY <1>8 DEF PaymentsTraced, HandlersSound, Settling, SettleWrite, At
  <2>3. RowsAgree'
    <3>1. PICK r \in Refs, o \in Orders :
            r = proc[h].ref /\ o = proc[h].order /\ payments[r].order = o
      BY <1>8 DEF HandlersSound, Settling, SettleWrite, At
    <3>2. payments' = [payments EXCEPT ![r].status = "PAID"] /\ announced' = announced
      BY <1>8, <3>1 DEF SettleWrite
    <3>3. Charged(o)'
      BY <3>1, <3>2 DEF Charged, SettledFor, TypeOK
    <3>4. ASSUME NEW p \in Orders, Charged(p)
          PROVE  Charged(p)'
      BY <3>2, <3>4 DEF Charged, SettledFor
    <3>5. PICK t \in Tokens :
            orders' = [orders EXCEPT ![o] =
              [status |-> "AWAITING_CONFIRMATION", paymentStatus |-> "PAID",
               hold |-> "HELD", token |-> t, releaseAt |-> AutoReleaseAt(day)]]
      BY <1>8, <3>1 DEF SettleWrite, FreeTokens
    <3>6. AutoReleaseAt(day) \in Nat
      BY DEF TypeOK, AutoReleaseAt
    <3>7. t # None /\ AutoReleaseAt(day) # None
      BY <3>6
    <3>8. QED
      BY <3>2, <3>3, <3>4, <3>5, <3>7 DEF RowsAgree
  <2>4. TokensUnique'
    BY <1>8 DEF TokensUnique, SettleWrite, FreeTokens
  <2>5. HandlersSound'
    BY <1>8 DEF HandlersSound, Initializing, Settling, Confirming, At,
           SettleWrite, Finish, Idle
  <2>6. RefsOwned'
    BY <1>8 DEF RefsOwned, Initializing, SettleWrite, Finish, Idle
  <2>7. BatchSound'
    BY <1>8 DEF BatchSound, SettleWrite
  <2> QED
    BY <2>1, <2>2, <2>3, <2>4, <2>5, <2>6, <2>7
<1>9. ASSUME NEW h \in Handlers, NEW t \in Tokens, ConfirmRead(h, t)
      PROVE  IInv'
  <2>1. TypeOK'
    BY <1>9 DEF TypeOK, HandlerState, HandlerPCs, ConfirmRead
  <2>2. HandlersSound'
    BY <1>9 DEF HandlersSound, Initializing, Settling, Confirming, At,
           ConfirmRead, IsHeld
  <2>3. RefsOwned'
    BY <1>9 DEF RefsOwned, Initializing, ConfirmRead
  <2>4. PaymentsTraced' /\ RowsAgree' /\ TokensUnique' /\ BatchSound'
    BY <1>9 DEF PaymentsTraced, RowsAgree, Charged, SettledFor, TokensUnique,
           BatchSound, ConfirmRead
  <2> QED
    BY <2>1, <2>2, <2>3, <2>4
<1>10. ASSUME NEW h \in Handlers, ConfirmWrite(h)
      PROVE  IInv'
  <2>1. TypeOK'
    <3>1. orders' \in [Orders -> OrderRow]
      BY <1>10, ReleasedRowTyped DEF TypeOK, ConfirmWrite
    <3>2. proc' \in [Handlers -> HandlerState]
      BY <1>10 DEF TypeOK, HandlerState, HandlerPCs, ConfirmWrite, GoTo
    <3>3. QED
      BY <1>10, <3>1, <3>2 DEF TypeOK, ConfirmWrite
  <2>2. RowsAgree'
    BY <1>10 DEF RowsAgree, Charged, SettledFor, HandlersSound, Confirming,
           ConfirmWrite, ReleasedRow, At
  <2>3. TokensUnique'
    BY <1>10 DEF TokensUnique, ConfirmWrite, ReleasedRow
  <2>4. HandlersSound'
    BY <1>10 DEF HandlersSound, Initializing, Settling, Confirming, At,
           ConfirmWrite, ReleasedRow, GoTo
  <2>5. RefsOwned'
    BY <1>10 DEF RefsOwned, Initializing, ConfirmWrite, GoTo
  <2>6. BatchSound'
    BY <1>10 DEF BatchSound, ConfirmWrite, ReleasedRow
  <2>7. PaymentsTraced'
    BY <1>10 DEF PaymentsTraced, ConfirmWrite
  <2> QED
    BY <2>1, <2>2, <2>3, <2>4, <2>5, <2>6, <2>7
<1>11. ASSUME NEW h \in Handlers, ConfirmEmit(h)
      PROVE  IInv'
  <2>1. TypeOK'
    <3>1. announced' \in [Orders -> 0..2]
      BY <1>11, AnnounceTyped DEF TypeOK, ConfirmEmit
    <3>2. proc' \in [Handlers -> HandlerState]
      BY <1>11 DEF TypeOK, HandlerState, HandlerPCs, ConfirmEmit, Finish, Idle
    <3>3. QED
      BY <1>11, <3>1, <3>2 DEF TypeOK, ConfirmEmit
  <2>2. RowsAgree'
    BY <1>11 DEF RowsAgree, Charged, SettledFor, HandlersSound, Confirming,
           ConfirmEmit, Announce, At
  <2>3. HandlersSound'
    BY <1>11 DEF HandlersSound, Initializing, Settling, Confirming, At,
           ConfirmEmit, Finish, Idle
  <2>4. RefsOwned'
    BY <1>11 DEF RefsOwned, Initializing, ConfirmEmit, Finish, Idle
  <2>5. PaymentsTraced' /\ TokensUnique' /\ BatchSound'
    BY <1>11 DEF PaymentsTraced, TokensUnique, BatchSound, ConfirmEmit
  <2> QED
    BY <2>1, <2>2, <2>3, <2>4, <2>5
<1>12. ASSUME NEW h \in Handlers, HandlerDies(h)
      PROVE  IInv'
  <2>1. TypeOK'
    BY <1>12 DEF TypeOK, HandlerState, HandlerPCs, HandlerDies, Finish, Idle
  <2>2. HandlersSound'
    BY <1>12 DEF HandlersSound, Initializing, Settling, Confirming, At,
           HandlerDies, Finish, Idle
  <2>3. RefsOwned'
    BY <1>12 DEF RefsOwned, Initializing, HandlerDies, Finish, Idle
  <2>4. PaymentsTraced' /\ RowsAgree' /\ TokensUnique' /\ BatchSound'
    BY <1>12 DEF PaymentsTraced, RowsAgree, Charged, SettledFor, TokensUnique,
           BatchSound, HandlerDies
  <2> QED
    BY <2>1, <2>2, <2>3, <2>4
<1>13. ASSUME NEW o \in Orders, NEW s \in OrderStatuses, SetStatus(o, s)
      PROVE  IInv'
  <2>1. TypeOK'
    <3>1. orders' \in [Orders -> OrderRow]
      BY <1>13, StatusTyped DEF TypeOK, SetStatus
    <3>2. QED
      BY <1>13, <3>1 DEF TypeOK, SetStatus
  <2>2. RowsAgree'
    BY <1>13 DEF RowsAgree, Charged, SettledFor, SetStatus
  <2>3. TokensUnique'
    BY <1>13 DEF TokensUnique, SetStatus
  <2>4. HandlersSound'
    BY <1>13 DEF HandlersSound, Initializing, Settling, Confirming, At,
           SetStatus
  <2>5. BatchSound'
    BY <1>13 DEF BatchSound, SetStatus
  <2>6. PaymentsTraced' /\ RefsOwned'
    BY <1>13 DEF PaymentsTraced, RefsOwned, Initializing, SetStatus
  <2> QED
    BY <2>1, <2>2, <2>3, <2>4, <2>5, <2>6
<1>14. ASSUME CronScan
      PROVE  IInv'
  <2>1. TypeOK'
    BY <1>14 DEF TypeOK, CronState, CronScan
  <2>2. BatchSound'
    BY <1>14 DEF BatchSound, CronScan, Expired
  <2>3. PaymentsTraced' /\ RowsAgree' /\ TokensUnique' /\ HandlersSound' /\ RefsOwned'
    BY <1>14 DEF PaymentsTraced, RowsAgree, Charged, SettledFor, TokensUnique,
           HandlersSound, Initializing, Settling, Confirming, At, RefsOwned,
           CronScan
  <2> QED
    BY <2>1, <2>2, <2>3
<1>15. ASSUME NEW o \in Orders, CronRelease(o)
      PROVE  IInv'
  <2>1. TypeOK'
    <3>1. orders' \in [Orders -> OrderRow]
      BY <1>15, ReleasedRowTyped DEF TypeOK, CronRelease
    <3>2. QED
      BY <1>15, <3>1 DEF TypeOK, CronState, CronRelease
  <2>2. RowsAgree'
    BY <1>15 DEF RowsAgree, Charged, SettledFor, BatchSound, CronRelease,
           ReleasedRow
  <2>3. TokensUnique'
    BY <1>15 DEF TokensUnique, CronRelease, ReleasedRow
  <2>4. HandlersSound'
    BY <1>15 DEF HandlersSound, Initializing, Settling, Confirming, At,
           CronRelease, ReleasedRow
  <2>5. BatchSound'
    BY <1>15 DEF BatchSound, CronRelease, ReleasedRow
  <2>6. PaymentsTraced' /\ RefsOwned'
    BY <1>15 DEF PaymentsTraced, RefsOwned, Initializing, CronRelease
  <2> QED
    BY <2>1, <2>2, <2>3, <2>4, <2>5, <2>6
<1>16. ASSUME CronEmit
      PROVE  IInv'
  <2>1. TypeOK'
    <3>1. announced' \in [Orders -> 0..2]
      BY <1>16, AnnounceTyped DEF TypeOK, CronEmit
    <3>2. cron' \in CronState
      BY <1>16 DEF TypeOK, CronState, CronEmit, CronIdle
    <3>3. QED
      BY <1>16, <3>1, <3>2 DEF TypeOK, CronEmit
  <2>2. RowsAgree'
    BY <1>16 DEF RowsAgree, Charged, SettledFor, BatchSound, CronEmit, Announce
  <2>3. BatchSound'
    BY <1>16 DEF BatchSound, CronEmit, CronIdle
  <2>4. PaymentsTraced' /\ TokensUnique' /\ HandlersSound' /\ RefsOwned'
    BY <1>16 DEF PaymentsTraced, TokensUnique, HandlersSound, Initializing,
           Settling, Confirming, At, RefsOwned, CronEmit
  <2> QED
    BY <2>1, <2>2, <2>3, <2>4
<1>17. ASSUME CronDies
      PROVE  IInv'
  <2>1. TypeOK'
    BY <1>17 DEF TypeOK, CronState, CronDies, CronIdle
  <2>2. BatchSound'
    BY <1>17 DEF BatchSound, CronDies, CronIdle
  <2>3. PaymentsTraced' /\ RowsAgree' /\ TokensUnique' /\ HandlersSound' /\ RefsOwned'
    BY <1>17 DEF PaymentsTraced, RowsAgree, Charged, SettledFor, TokensUnique,
           HandlersSound, Initializing, Settling, Confirming, At, RefsOwned,
           CronDies
  <2> QED
    BY <2>1, <2>2, <2>3
<1>18. ASSUME Tick
      PROVE  IInv'
  <2>1. TypeOK'
    BY <1>18 DEF TypeOK, Tick
  <2>2. PaymentsTraced' /\ RowsAgree' /\ TokensUnique' /\ HandlersSound' /\ RefsOwned' /\ BatchSound'
    BY <1>18 DEF PaymentsTraced, RowsAgree, Charged, SettledFor, TokensUnique,
           HandlersSound, Initializing, Settling, Confirming, At, RefsOwned,
           BatchSound, Tick
  <2> QED
    BY <2>1, <2>2
<1>19. CASE UNCHANGED vars
  BY <1>19 DEF vars, TypeOK, PaymentsTraced, RowsAgree, Charged, SettledFor,
         TokensUnique, HandlersSound, Initializing, Settling, Confirming, At,
         RefsOwned, BatchSound
<1>20. QED
  BY <1>1, <1>2, <1>3, <1>4, <1>5, <1>6, <1>7, <1>8, <1>9, <1>10, <1>11, <1>12,
     <1>13, <1>14, <1>15, <1>16, <1>17, <1>18, <1>19
     DEF Next, Request, HandlerStep, CronStep

(***************************************************************************)
(* The theorems.                                                           *)
(***************************************************************************)
LEMMA IInvHolds == Spec => []IInv
BY InitIInv, NextIInv, PTL DEF Spec

(* Every variable keeps its type in every reachable state.                 *)
THEOREM TypeCorrect == Spec => []TypeOK
<1>1. IInv => TypeOK
  BY DEF IInv
<1>2. QED
  BY <1>1, IInvHolds, PTL

(* No money is held, released or announced without a settled charge of the *)
(* gateway: RowsAgree ties the columns to a settled payment, and           *)
(* PaymentsTraced ties that payment to the gateway.                        *)
THEOREM FundsCharged == Spec => []FundsAreCharged
<1>1. IInv => FundsAreCharged
  <2> SUFFICES ASSUME IInv, NEW o \in Orders,
                      \/ orders[o].hold # "NOT_HELD"
                      \/ orders[o].paymentStatus = "PAID"
                      \/ announced[o] > 0
               PROVE  \E r \in Refs : SettledFor(o, r) /\ gateway[r] = "success"
    BY DEF FundsAreCharged
  <2>1. orders[o].hold # "NOT_HELD"
    BY DEF IInv, RowsAgree
  <2>2. PICK r \in Refs : SettledFor(o, r)
    BY <2>1 DEF IInv, RowsAgree, Charged
  <2>3. gateway[r] = "success"
    BY <2>2 DEF IInv, PaymentsTraced, SettledFor
  <2>4. QED
    BY <2>2, <2>3
<1>2. QED
  BY <1>1, IInvHolds, PTL

(* Held money always has a token of its own and a release day.             *)
THEOREM HeldReleasable == Spec => []HeldIsReleasable
<1>1. IInv => HeldIsReleasable
  BY DEF IInv, RowsAgree, TokensUnique, HeldIsReleasable
<1>2. QED
  BY <1>1, IInvHolds, PTL

(* A charge always has its Payment row.                                    *)
THEOREM ChargeRecorded == Spec => []ChargeIsRecorded
<1>1. IInv => ChargeIsRecorded
  BY DEF IInv, PaymentsTraced, ChargeIsRecorded
<1>2. QED
  BY <1>1, IInvHolds, PTL

(***************************************************************************)
(* The refinement.  Four actions map to actions of the promise, the others *)
(* leave its variables alone.                                              *)
(***************************************************************************)

(* The mapped variables change only if payments, gateway or orders do.     *)
LEMMA MappedStutter ==
  ASSUME UNCHANGED <<payments, gateway>>,
         \A o \in Orders : orders'[o].hold = orders[o].hold
  PROVE  UNCHANGED Promise!promiseVars
BY DEF Promise!promiseVars

(* A released row is a Release of an order that was held.                  *)
LEMMA MappedRelease ==
  ASSUME TypeOK, NEW o \in Orders, orders[o].hold # "NOT_HELD",
         orders' = [orders EXCEPT ![o] = ReleasedRow(@)], UNCHANGED <<payments, gateway>>
  PROVE  Promise!Release(o)
<1>1. \A p \in Orders : orders'[p].hold = IF p = o THEN "RELEASED" ELSE orders[p].hold
  BY ReleasedRowTyped DEF TypeOK
<1>2. QED
  BY <1>1 DEF Promise!Release

(* Every step maps to a step of the promise, or to none.                   *)
LEMMA MappedStep ==
  IInv /\ IInv' /\ [Next]_vars => [Promise!PromiseNext]_(Promise!promiseVars)
<1> SUFFICES ASSUME IInv, IInv', [Next]_vars
             PROVE  [Promise!PromiseNext]_(Promise!promiseVars)
  OBVIOUS
<1> USE DEF IInv
<1>1. ASSUME NEW h \in Handlers, NEW o \in Orders, NEW r \in Refs, InitRead(h, o, r)
      PROVE  UNCHANGED Promise!promiseVars
  BY <1>1, MappedStutter DEF InitRead
<1>2. ASSUME NEW h \in Handlers, InitGateway(h)
      PROVE  UNCHANGED Promise!promiseVars
  <2>1. proc[h].ref \in Refs /\ gateway[proc[h].ref] # "success"
    BY <1>2 DEF InitGateway, HandlersSound, Initializing, PaymentsTraced, At
  <2>2. \A r \in Refs : gateway'[r] = "success" <=> gateway[r] = "success"
    BY <1>2, <2>1 DEF InitGateway
  <2>3. QED
    BY <1>2, <2>2 DEF InitGateway, Promise!promiseVars
<1>3. ASSUME NEW h \in Handlers, InitRecord(h)
      PROVE  [Promise!PromiseNext]_(Promise!promiseVars)
  <2>1. PICK r \in Refs, o \in Orders :
          r = proc[h].ref /\ o = proc[h].order /\ payments[r].order = None
    BY <1>3 DEF InitRecord, HandlersSound, Initializing, At
  <2>2. payments' = [payments EXCEPT ![r] = [order |-> o, status |-> "PENDING"]]
    BY <1>3, <2>1 DEF InitRecord
  <2>3. \A s \in Refs : payments'[s].status = "PAID" <=> payments[s].status = "PAID"
    BY <2>1, <2>2 DEF PaymentsTraced
  <2>4. Promise!Bill(r, o)
    BY <1>3, <2>1, <2>2, <2>3 DEF InitRecord, TypeOK, Promise!Bill
  <2>5. QED
    BY <2>4 DEF Promise!PromiseNext
<1>4. ASSUME NEW r \in Refs, CustomerPays(r)
      PROVE  [Promise!PromiseNext]_(Promise!promiseVars)
  <2>1. payments[r].order # None
    BY <1>4 DEF CustomerPays, PaymentsTraced
  <2>2. CASE gateway' = [gateway EXCEPT ![r] = "success"]
    <3>1. Promise!Charge(r)
      BY <1>4, <2>1, <2>2 DEF CustomerPays, TypeOK, Promise!Charge
    <3>2. QED
      BY <3>1 DEF Promise!PromiseNext
  <2>3. CASE gateway' = [gateway EXCEPT ![r] = "failed"]
    <3>1. \A s \in Refs : gateway'[s] = "success" <=> gateway[s] = "success"
      BY <1>4, <2>3 DEF CustomerPays
    <3>2. QED
      BY <1>4, <3>1 DEF CustomerPays, Promise!promiseVars
  <2>4. QED
    BY <1>4, <2>2, <2>3 DEF CustomerPays
<1>5. ASSUME NEW h \in Handlers, SettleWrite(h)
      PROVE  [Promise!PromiseNext]_(Promise!promiseVars)
  <2>1. PICK r \in Refs, o \in Orders :
          /\ r = proc[h].ref /\ o = proc[h].order
          /\ payments[r].order = o /\ gateway[r] = "success"
    BY <1>5 DEF SettleWrite, HandlersSound, Settling, At
  <2>2. payments' = [payments EXCEPT ![r].status = "PAID"] /\ gateway' = gateway
    BY <1>5, <2>1 DEF SettleWrite
  <2>3. \A s \in Refs : /\ payments'[s].order = payments[s].order
                        /\ payments'[s].status = "PAID" <=> s = r \/ payments[s].status = "PAID"
    BY <2>2 DEF TypeOK
  <2>4. \A p \in Orders : orders'[p].hold = IF p = o THEN "HELD" ELSE orders[p].hold
    BY <1>5, <2>1 DEF SettleWrite, TypeOK
  <2>5. Promise!Settle(r)
    BY <2>1, <2>2, <2>3, <2>4 DEF Promise!Settle
  <2>6. QED
    BY <2>5 DEF Promise!PromiseNext
<1>6. ASSUME NEW h \in Handlers, ConfirmWrite(h)
      PROVE  [Promise!PromiseNext]_(Promise!promiseVars)
  <2>1. PICK o \in Orders : o = proc[h].order /\ orders[o].hold # "NOT_HELD"
    BY <1>6 DEF ConfirmWrite, HandlersSound, Confirming, At
  <2>2. Promise!Release(o)
    BY <1>6, <2>1, MappedRelease DEF ConfirmWrite
  <2>3. QED
    BY <2>2 DEF Promise!PromiseNext
<1>7. ASSUME NEW o \in Orders, CronRelease(o)
      PROVE  [Promise!PromiseNext]_(Promise!promiseVars)
  <2>1. Promise!Release(o)
    BY <1>7, MappedRelease DEF CronRelease, BatchSound
  <2>2. QED
    BY <2>1 DEF Promise!PromiseNext
<1>8. ASSUME NEW o \in Orders, NEW s \in OrderStatuses, SetStatus(o, s)
      PROVE  UNCHANGED Promise!promiseVars
  <2>1. \A p \in Orders : orders'[p].hold = orders[p].hold
    BY <1>8 DEF SetStatus
  <2>2. QED
    BY <1>8, <2>1, MappedStutter DEF SetStatus
<1>9. ASSUME NEW h \in Handlers,
             \/ \E r \in Refs : WebhookVerify(h, r)
             \/ \E t \in Tokens : ConfirmRead(h, t)
             \/ SettleRead(h) \/ SettleSkip(h) \/ ConfirmEmit(h) \/ HandlerDies(h)
      PROVE  UNCHANGED Promise!promiseVars
  BY <1>9, MappedStutter
     DEF WebhookVerify, ConfirmRead, SettleRead, SettleSkip, ConfirmEmit,
         HandlerDies
<1>10. CASE CronScan \/ CronEmit \/ CronDies \/ Tick
  BY <1>10, MappedStutter DEF CronScan, CronEmit, CronDies, Tick
<1>11. CASE UNCHANGED vars
  BY <1>11, MappedStutter DEF vars
<1>12. QED
  BY <1>1, <1>2, <1>3, <1>4, <1>5, <1>6, <1>7, <1>8, <1>9, <1>10, <1>11
     DEF Next, Request, HandlerStep, CronStep

(* The code keeps the escrow's promise, whatever its handlers interleave.  *)
THEOREM EscrowKeepsPromise == Spec => KeepsPromise
<1>1. Init => Promise!PromiseInit
  BY DEF Init, NewOrder, NoPayment, Promise!PromiseInit
<1>2. QED
  BY <1>1, MappedStep, IInvHolds, PTL DEF Spec, KeepsPromise,
         Promise!PromiseSpec

=============================================================================

-------------------------- MODULE NotificationsProofs --------------------------
(***************************************************************************)
(* Proofs about Notifications, for any phones, emails and environments,    *)
(* any template files and any finite number of handlers: the type          *)
(* invariant, that a row's event is queued once, and what becomes of a     *)
(* job.                                                                    *)
(***************************************************************************)
EXTENDS Notifications, FiniteSetTheorems, SequenceTheorems, TLAPS

(***************************************************************************)
(* The inductive invariant: that of the rows and their requests, and that  *)
(* of the queues.                                                          *)
(***************************************************************************)
Letters == Emails \union {None}
Requests ==
  [pc : {"create"}, row : Phones, to : Letters]
  \union [pc : {"emit"}, event : {"user.registered", "booking.created"}, row : Rows, to : Letters]

(* A registration holds the form it was sent.                              *)
RowsTyped ==
  /\ users \subseteq Forms
  /\ bookings \in Seq(Statuses) /\ Len(bookings) <= MaxBookings
  /\ proc \in [Handlers -> Requests \union {Idle}]
  /\ \A h \in Handlers : At(h, "create") => [phone |-> proc[h].row, email |-> proc[h].to] \in Forms
  /\ announced \in [Rows -> Nat]
  /\ silent \subseteq Rows
RowsInv == RowsTyped /\ AnnouncedOnce

(* A job in the queue has attempts left and has cost one worker at most;   *)
(* it has sent at most once for each worker it lost, and once more when it *)
(* was handled.                                                            *)
Explained(j) ==
  /\ j.state # "failed" => j.attempts >= 1 /\ j.stalls <= 1
  /\ j.state = "waiting" => j.sent <= j.stalls
  /\ j.sent <= 1 + j.stalls
  /\ j.state = "failed" => ~Handled(j.event) \/ j.stalls = 2
  /\ j.state = "handled" => Handled(j.event)

JobsTyped ==
  /\ nextJob \in Nat
  /\ jobs \subseteq JobType
  /\ \A j, k \in jobs : j.id = k.id => j = k
JobsInv == JobsTyped /\ \A j \in jobs : Explained(j)

IInv == RowsInv /\ JobsInv

(***************************************************************************)
(* Rows and their requests.  What a row owes is settled by its event, by   *)
(* the request that is about to emit it, or by that request's death.       *)
(***************************************************************************)
Known(row) == row \in {u.phone : u \in users} \union DOMAIN bookings
OneIf(p) == IF p THEN 1 ELSE 0

LEMMA OneIfFacts == OneIf(TRUE) = 1 /\ OneIf(FALSE) = 0
BY DEF OneIf

LEMMA IdleFacts == Idle.pc = "idle"
BY DEF Idle

LEMMA RequestFacts ==
  ASSUME RowsTyped, NEW h \in Handlers
  PROVE  /\ At(h, "idle") => proc[h] = Idle
         /\ ~At(h, "idle") => proc[h] \in Requests /\ proc[h].row \in Rows /\ proc[h].to \in Letters
         /\ At(h, "create") => proc[h].row \in Phones
         /\ At(h, "emit") => proc[h].event \in {"user.registered", "booking.created"}
BY DEF RowsTyped, Requests, At, Idle, Rows

LEMMA EmittingFacts ==
  ASSUME NEW row
  PROVE  IsFiniteSet(Emitting(row)) /\ Cardinality(Emitting(row)) \in Nat
<1>1. IsFiniteSet(Emitting(row))
  BY HandlersAssumption, FS_Subset DEF Emitting
<1>2. QED
  BY <1>1, FS_CardinalityType

LEMMA SilentFacts ==
  ASSUME NEW row
  PROVE  Cardinality(silent \intersect {row}) = OneIf(row \in silent)
<1>1. silent \intersect {row} = IF row \in silent THEN {row} ELSE {}
  OBVIOUS
<1>2. Cardinality({row}) = 1
  BY FS_Singleton
<1>3. Cardinality({}) = 0
  BY FS_EmptySet
<1>4. QED
  BY <1>1, <1>2, <1>3 DEF OneIf

(* A row is accounted for when its three debts make one, or none while it  *)
(* is not there.                                                           *)
Accounted(row) ==
  announced[row] + Cardinality(Emitting(row)) + OneIf(row \in silent) = OneIf(Known(row))

LEMMA AccountedFacts == AnnouncedOnce <=> \A row \in Rows : Accounted(row)
BY SilentFacts DEF AnnouncedOnce, Accounted, OneIf, Known

LEMMA AccountedFactsPrimed == AnnouncedOnce' <=> \A row \in Rows : Accounted(row)'
<1>1. (AnnouncedOnce <=> \A row \in Rows : Accounted(row))'
  BY AccountedFacts, PTL
<1>2. QED
  BY <1>1 DEF Rows

(* Four numbers that a step of one handler moves: a step that leaves them  *)
(* alone, one that makes a row known and its request one that emits, one   *)
(* that trades the request for the event, one that trades it for silence.  *)
Unmoved(row) ==
  /\ announced'[row] = announced[row]
  /\ Emitting(row)' = Emitting(row)
  /\ row \in silent' <=> row \in silent
  /\ Known(row)' <=> Known(row)

LEMMA UnmovedRow ==
  ASSUME NEW row, Accounted(row), Unmoved(row)
  PROVE  Accounted(row)'
BY DEF Accounted, Unmoved, OneIf

Becomes(h, row) ==
  /\ h \in Handlers /\ h \notin Emitting(row) /\ Emitting(row)' = Emitting(row) \union {h}
  /\ announced'[row] = announced[row]
  /\ row \in silent' <=> row \in silent
  /\ ~Known(row) /\ Known(row)'

LEMMA BecomesRow ==
  ASSUME RowsTyped, NEW row \in Rows, Accounted(row), NEW h, Becomes(h, row)
  PROVE  Accounted(row)'
<1>1. Cardinality(Emitting(row)') = Cardinality(Emitting(row)) + 1
  BY EmittingFacts, FS_AddElement DEF Becomes
<1>2. /\ Cardinality(Emitting(row)) \in Nat /\ announced[row] \in Nat
  BY EmittingFacts DEF RowsTyped
<1>3. OneIf(Known(row)) = 0 /\ OneIf(Known(row)') = 1 /\ OneIf(row \in silent') = OneIf(row \in silent)
  BY DEF Becomes, OneIf
<1>4. OneIf(row \in silent) \in Nat
  BY DEF OneIf
<1>5. announced[row] + Cardinality(Emitting(row)) + OneIf(row \in silent) = 0
  BY <1>3 DEF Accounted
<1>6. announced'[row] + Cardinality(Emitting(row)') + OneIf(row \in silent') = 1
  BY <1>1, <1>2, <1>3, <1>4, <1>5 DEF Becomes
<1>7. QED
  BY <1>3, <1>6 DEF Accounted

(* What leaves the requests that emit is counted elsewhere.                *)
Settles(h, row) ==
  /\ h \in Emitting(row) /\ Emitting(row)' = Emitting(row) \ {h}
  /\ Known(row)' <=> Known(row)
  /\ \/ announced'[row] = announced[row] + 1 /\ (row \in silent' <=> row \in silent)
     \/ announced'[row] = announced[row] /\ row \in silent'

LEMMA SettlesRow ==
  ASSUME RowsTyped, NEW row \in Rows, Accounted(row), NEW h, Settles(h, row)
  PROVE  Accounted(row)'
<1>1. Cardinality(Emitting(row)') = Cardinality(Emitting(row)) - 1
  BY EmittingFacts, FS_RemoveElement DEF Settles
<1>2. Cardinality(Emitting(row)) \in Nat /\ announced[row] \in Nat
  BY EmittingFacts DEF RowsTyped
<1>3. Cardinality(Emitting(row)) # 0
  BY EmittingFacts, FS_EmptySet DEF Settles
<1>4. OneIf(Known(row)') = OneIf(Known(row)) /\ OneIf(Known(row)) \in {0, 1}
  BY DEF Settles, OneIf
<1>5. row \notin silent
  <2>1. OneIf(row \in silent) = 0
    <3>1. OneIf(row \in silent) \in {0, 1}
      BY DEF OneIf
    <3>2. QED
      BY <1>2, <1>3, <1>4, <3>1 DEF Accounted
  <2>2. QED
    BY <2>1 DEF OneIf
<1>6. OneIf(row \in silent) = 0
  BY <1>5 DEF OneIf
<1>7. CASE announced'[row] = announced[row] + 1 /\ (row \in silent' <=> row \in silent)
  <2>1. OneIf(row \in silent') = 0
    BY <1>5, <1>7 DEF OneIf
  <2>2. QED
    BY <1>1, <1>2, <1>4, <1>6, <1>7, <2>1 DEF Accounted
<1>8. CASE announced'[row] = announced[row] /\ row \in silent'
  <2>1. OneIf(row \in silent') = 1
    BY <1>8 DEF OneIf
  <2>2. QED
    BY <1>1, <1>2, <1>4, <1>6, <1>8, <2>1 DEF Accounted
<1>9. QED
  BY <1>7, <1>8 DEF Settles

(***************************************************************************)
(* The steps of the requests.                                              *)
(***************************************************************************)

(* What a handler's new request is, and that the others keep theirs.       *)
Takes(h, r) ==
  /\ proc'[h] = r
  /\ \A g \in Handlers \ {h} : proc'[g] = proc[g]

LEMMA TakesFacts ==
  ASSUME RowsTyped, NEW h \in Handlers, NEW r, proc' = [proc EXCEPT ![h] = r]
  PROVE  Takes(h, r)
BY DEF RowsTyped, Takes

LEMMA TakesTyped ==
  ASSUME RowsTyped, NEW h \in Handlers, NEW r \in Requests \union {Idle},
         proc' = [proc EXCEPT ![h] = r],
         r.pc = "create" => [phone |-> r.row, email |-> r.to] \in Forms
  PROVE  /\ proc' \in [Handlers -> Requests \union {Idle}]
         /\ \A g \in Handlers : At(g, "create")' => [phone |-> proc'[g].row, email |-> proc'[g].to] \in Forms
BY DEF RowsTyped, At

(* A request's next step moves it in or out of those that emit its row.    *)
LEMMA TakesEmitting ==
  ASSUME NEW h \in Handlers, NEW r, Takes(h, r), NEW row
  PROVE  /\ ~(At(h, "emit") /\ proc[h].row = row) /\ ~(r.pc = "emit" /\ r.row = row)
              => Emitting(row)' = Emitting(row)
         /\ ~(At(h, "emit") /\ proc[h].row = row) /\ r.pc = "emit" /\ r.row = row
              => h \notin Emitting(row) /\ Emitting(row)' = Emitting(row) \union {h}
         /\ At(h, "emit") /\ proc[h].row = row /\ ~(r.pc = "emit" /\ r.row = row)
              => h \in Emitting(row) /\ Emitting(row)' = Emitting(row) \ {h}
BY DEF Takes, Emitting, At

LEMMA FormFacts ==
  ASSUME NEW form \in Forms
  PROVE  /\ form.phone \in Phones /\ form.email \in Letters
         /\ [phone |-> form.phone, email |-> form.email] = form
BY FormsAssumption DEF Letters

LEMMA IdleRequest == Idle \in Requests \union {Idle} /\ Idle.pc # "create" /\ Idle.pc # "emit"
BY DEF Idle

LEMMA RegisterRows ==
  ASSUME RowsInv, NEW h \in Handlers, NEW form \in Forms, Register(h, form)
  PROVE  RowsInv'
<1>1. RowsTyped /\ \A row \in Rows : Accounted(row)
  BY AccountedFacts DEF RowsInv
<1>2. PICK r : r = [pc |-> "create", row |-> form.phone, to |-> form.email]
  OBVIOUS
<1>3. /\ r \in Requests \union {Idle} /\ r.pc = "create"
      /\ [phone |-> r.row, email |-> r.to] \in Forms
  BY <1>2, FormFacts DEF Requests
<1>4. proc' = [proc EXCEPT ![h] = r] /\ UNCHANGED <<users, bookings, announced, silent>>
  BY <1>2 DEF Register
<1>5. Takes(h, r) /\ ~At(h, "emit")
  BY <1>1, <1>4, TakesFacts DEF Register, At
<1>6. \A row \in Rows : Unmoved(row)
  BY <1>3, <1>4, <1>5, TakesEmitting DEF Unmoved, Known
<1>7. \A row \in Rows : Accounted(row)'
  BY <1>1, <1>6, UnmovedRow
<1>8. RowsTyped'
  BY <1>1, <1>3, <1>4, TakesTyped DEF RowsTyped
<1>9. QED
  BY <1>7, <1>8, AccountedFactsPrimed DEF RowsInv

LEMMA CreateUserRows ==
  ASSUME RowsInv, NEW h \in Handlers, CreateUser(h)
  PROVE  RowsInv'
<1>1. RowsTyped /\ \A row \in Rows : Accounted(row)
  BY AccountedFacts DEF RowsInv
<1>2. /\ At(h, "create") /\ ~At(h, "emit") /\ UNCHANGED <<bookings, announced, silent>>
      /\ proc[h].row \in Phones /\ proc[h].to \in Letters
      /\ [phone |-> proc[h].row, email |-> proc[h].to] \in Forms
  BY <1>1, RequestFacts DEF CreateUser, At, RowsTyped
<1>3. CASE Exists(proc[h].row, proc[h].to)
  <2>1. proc' = [proc EXCEPT ![h] = Idle] /\ users' = users
    BY <1>3 DEF CreateUser, Ends
  <2>2. Takes(h, Idle)
    BY <1>1, <2>1, TakesFacts
  <2>3. \A row \in Rows : Unmoved(row)
    BY <1>2, <2>1, <2>2, IdleRequest, TakesEmitting DEF Unmoved, Known
  <2>4. \A row \in Rows : Accounted(row)'
    BY <1>1, <2>3, UnmovedRow
  <2>5. RowsTyped'
    BY <1>1, <1>2, <2>1, IdleRequest, TakesTyped DEF RowsTyped
  <2>6. QED
    BY <2>4, <2>5, AccountedFactsPrimed DEF RowsInv
<1>4. CASE ~Exists(proc[h].row, proc[h].to)
  <2>0. PICK new : new = proc[h].row
    OBVIOUS
  <2>1. PICK r : r = [pc |-> "emit", event |-> "user.registered", row |-> proc[h].row, to |-> proc[h].to]
    OBVIOUS
  <2>2. r \in Requests \union {Idle} /\ r.pc = "emit" /\ r.row = new /\ new \in Rows
    BY <1>2, <2>0, <2>1 DEF Requests, Rows
  <2>3. /\ proc' = [proc EXCEPT ![h] = r]
        /\ users' = users \union {[phone |-> proc[h].row, email |-> proc[h].to]}
    BY <1>4, <2>1 DEF CreateUser
  <2>4. Takes(h, r)
    BY <1>1, <2>3, TakesFacts
  <2>5. ~Known(new)
    <3>1. new \notin {u.phone : u \in users}
      BY <1>4, <2>0 DEF Exists, Holds
    <3>2. DOMAIN bookings \subseteq Nat
      BY <1>1, LenProperties DEF RowsTyped
    <3>3. QED
      BY <1>2, <2>0, <3>1, <3>2, RowsAssumption DEF Known
  <2>6. Known(new)' /\ \A row : row # new => (Known(row)' <=> Known(row))
    BY <1>2, <2>0, <2>3 DEF Known
  <2>7. Becomes(h, new)
    BY <1>2, <2>2, <2>4, <2>5, <2>6, TakesEmitting DEF Becomes
  <2>8. \A row \in Rows \ {new} : Unmoved(row)
    BY <1>2, <2>2, <2>4, <2>6, TakesEmitting DEF Unmoved
  <2>9. \A row \in Rows : Accounted(row)'
    BY <1>1, <2>2, <2>7, <2>8, UnmovedRow, BecomesRow
  <2>10. RowsTyped'
    BY <1>1, <1>2, <2>2, <2>3, TakesTyped DEF RowsTyped
  <2>11. QED
    BY <2>9, <2>10, AccountedFactsPrimed DEF RowsInv
<1>5. QED
  BY <1>3, <1>4

LEMMA CreateBookingRows ==
  ASSUME RowsInv, NEW h \in Handlers, CreateBooking(h)
  PROVE  RowsInv'
<1>1. RowsTyped /\ \A row \in Rows : Accounted(row)
  BY AccountedFacts DEF RowsInv
<1>2. ~At(h, "emit") /\ UNCHANGED <<users, announced, silent>> /\ Len(bookings) < MaxBookings
  BY DEF CreateBooking, At
<1>3. bookings \in Seq(Statuses) /\ Len(bookings) \in Nat /\ DOMAIN bookings = 1 .. Len(bookings)
  BY <1>1, LenProperties DEF RowsTyped
<1>4. PICK new : new = Len(bookings) + 1
  OBVIOUS
<1>5. new \in 1 .. MaxBookings /\ new \in Rows
  BY <1>2, <1>3, <1>4, BoundsAssumption DEF Rows
<1>6. /\ bookings' \in Seq(Statuses) /\ Len(bookings') = new /\ DOMAIN bookings' = 1 .. new
  BY <1>3, <1>4, AppendProperties, LenProperties, RowsAssumption DEF CreateBooking
<1>7. PICK r : r = [pc |-> "emit", event |-> "booking.created", row |-> Len(bookings) + 1, to |-> None]
  OBVIOUS
<1>8. r \in Requests \union {Idle} /\ r.pc = "emit" /\ r.row = new
  BY <1>4, <1>5, <1>7 DEF Requests, Letters
<1>9. proc' = [proc EXCEPT ![h] = r]
  BY <1>7 DEF CreateBooking
<1>10. Takes(h, r)
  BY <1>1, <1>9, TakesFacts
<1>11. ~Known(new)
  <2>1. new \notin DOMAIN bookings
    BY <1>3, <1>4
  <2>2. {u.phone : u \in users} \subseteq Phones
    BY <1>1, FormFacts DEF RowsTyped
  <2>3. QED
    BY <1>5, <2>1, <2>2, RowsAssumption DEF Known
<1>12. Known(new)' /\ \A row : row # new => (Known(row)' <=> Known(row))
  <2>1. DOMAIN bookings' = DOMAIN bookings \union {new}
    BY <1>3, <1>4, <1>6
  <2>2. QED
    BY <1>2, <2>1 DEF Known
<1>13. Becomes(h, new)
  BY <1>2, <1>8, <1>10, <1>11, <1>12, TakesEmitting DEF Becomes
<1>14. \A row \in Rows \ {new} : Unmoved(row)
  BY <1>2, <1>8, <1>10, <1>12, TakesEmitting DEF Unmoved
<1>15. \A row \in Rows : Accounted(row)'
  BY <1>1, <1>5, <1>13, <1>14, UnmovedRow, BecomesRow
<1>16. Len(bookings') <= MaxBookings
  BY <1>5, <1>6
<1>17. RowsTyped'
  BY <1>1, <1>2, <1>6, <1>8, <1>9, <1>16, TakesTyped DEF RowsTyped
<1>18. QED
  BY <1>15, <1>17, AccountedFactsPrimed DEF RowsInv

LEMMA UpdateBookingRows ==
  ASSUME RowsInv, NEW b \in DOMAIN bookings, NEW status \in Statuses, UpdateBookingStatus(b, status)
  PROVE  RowsInv'
<1>1. RowsTyped /\ \A row \in Rows : Accounted(row)
  BY AccountedFacts DEF RowsInv
<1>2. UNCHANGED <<users, proc, announced, silent>>
  BY DEF UpdateBookingStatus
<1>3. bookings' \in Seq(Statuses) /\ Len(bookings') = Len(bookings) /\ DOMAIN bookings' = DOMAIN bookings
  BY <1>1, ExceptSeq DEF RowsTyped, UpdateBookingStatus
<1>4. \A row \in Rows : Unmoved(row)
  BY <1>2, <1>3 DEF Unmoved, Known, Emitting, At
<1>5. \A row \in Rows : Accounted(row)'
  BY <1>1, <1>4, UnmovedRow
<1>6. RowsTyped'
  BY <1>1, <1>2, <1>3 DEF RowsTyped, At
<1>7. QED
  BY <1>5, <1>6, AccountedFactsPrimed DEF RowsInv

LEMMA EmitEventRows ==
  ASSUME RowsInv, NEW h \in Handlers, EmitEvent(h)
  PROVE  RowsInv'
<1>1. RowsTyped /\ \A row \in Rows : Accounted(row)
  BY AccountedFacts DEF RowsInv
<1>2. PICK out : out = proc[h].row
  OBVIOUS
<1>3. At(h, "emit") /\ ~At(h, "idle") /\ UNCHANGED <<users, bookings, silent>>
  BY DEF EmitEvent, At
<1>4. out \in Rows
  BY <1>1, <1>2, <1>3, RequestFacts
<1>5. proc' = [proc EXCEPT ![h] = Idle]
  BY DEF EmitEvent, Ends
<1>6. announced \in [Rows -> Nat] /\ announced' = [announced EXCEPT ![out] = @ + 1]
  BY <1>1, <1>2 DEF EmitEvent, RowsTyped
<1>7. /\ announced' \in [Rows -> Nat] /\ announced'[out] = announced[out] + 1
      /\ \A row \in Rows \ {out} : announced'[row] = announced[row]
  BY <1>4, <1>6
<1>8. Takes(h, Idle)
  BY <1>1, <1>5, TakesFacts
<1>9. Settles(h, out)
  BY <1>2, <1>3, <1>7, <1>8, IdleRequest, TakesEmitting DEF Settles, Known
<1>10. \A row \in Rows \ {out} : Unmoved(row)
  BY <1>2, <1>3, <1>7, <1>8, IdleRequest, TakesEmitting DEF Unmoved, Known
<1>11. \A row \in Rows : Accounted(row)'
  BY <1>1, <1>4, <1>9, <1>10, UnmovedRow, SettlesRow
<1>12. RowsTyped'
  BY <1>1, <1>3, <1>5, <1>7, IdleRequest, TakesTyped DEF RowsTyped
<1>13. QED
  BY <1>11, <1>12, AccountedFactsPrimed DEF RowsInv

LEMMA FailRows ==
  ASSUME RowsInv, NEW h \in Handlers, Fail(h)
  PROVE  RowsInv'
<1>1. RowsTyped /\ \A row \in Rows : Accounted(row)
  BY AccountedFacts DEF RowsInv
<1>2. PICK out : out = proc[h].row
  OBVIOUS
<1>3. ~At(h, "idle") /\ UNCHANGED <<users, bookings, announced>>
  BY DEF Fail
<1>4. out \in Rows
  BY <1>1, <1>2, <1>3, RequestFacts
<1>5. proc' = [proc EXCEPT ![h] = Idle]
  BY DEF Fail, Ends
<1>6. Takes(h, Idle)
  BY <1>1, <1>5, TakesFacts
<1>7. silent' = IF At(h, "emit") THEN silent \union {out} ELSE silent
  BY <1>2 DEF Fail
<1>8. At(h, "emit") => Settles(h, out)
  BY <1>2, <1>3, <1>6, <1>7, IdleRequest, TakesEmitting DEF Settles, Known
<1>9. \A row \in Rows : row # out \/ ~At(h, "emit") => Unmoved(row)
  BY <1>2, <1>3, <1>6, <1>7, IdleRequest, TakesEmitting DEF Unmoved, Known
<1>10. \A row \in Rows : Accounted(row)'
  BY <1>1, <1>4, <1>8, <1>9, UnmovedRow, SettlesRow
<1>11. RowsTyped'
  BY <1>1, <1>3, <1>4, <1>5, <1>7, IdleRequest, TakesTyped DEF RowsTyped
<1>12. QED
  BY <1>10, <1>11, AccountedFactsPrimed DEF RowsInv

(* What the queues do touches no row.                                      *)
LEMMA QuietRows ==
  ASSUME RowsInv, UNCHANGED <<users, bookings, proc, announced, silent>>
  PROVE  RowsInv'
BY DEF RowsInv, RowsTyped, AnnouncedOnce, Emitting, At

(***************************************************************************)
(* What one run of a handler sends.                                        *)
(***************************************************************************)
LEMMA SendFacts ==
  ASSUME NEW email
  PROVE  /\ DOMAIN Send(email) = {1}
         /\ Send(email) = <<"inline">> => email.file \notin Loaded
<1>1. Send(email) \in {<<"dynamic">>, <<"file">>, <<"inline">>}
  BY DEF Send
<1>2. DOMAIN <<"dynamic">> = {1} /\ DOMAIN <<"file">> = {1} /\ DOMAIN <<"inline">> = {1}
  OBVIOUS
<1>3. <<"dynamic">> # <<"inline">> /\ <<"file">> # <<"inline">>
  OBVIOUS
<1>4. Send(email) = <<"inline">> => email.file \notin Loaded
  BY <1>3 DEF Send
<1>5. QED
  BY <1>1, <1>2, <1>4

Events == {"user.registered", "order.created", "post.liked", "booking.created"}

(* A handler makes one call, so one message leaves at most.                *)
LEMMA TakenFacts ==
  ASSUME NEW event, NEW to
  PROVE  Cardinality(Taken(event, to)) \in {0, 1}
<1>1. Taken(event, to) \subseteq {1}
  <2>1. DOMAIN Send(EmailFor(event)) = {1}
    BY SendFacts
  <2>2. QED
    BY <2>1 DEF Taken
<1>2. Taken(event, to) = {} \/ Taken(event, to) = {1}
  BY <1>1
<1>3. QED
  BY <1>2, FS_EmptySet, FS_Singleton

(***************************************************************************)
(* The queues.                                                             *)
(***************************************************************************)
Good(j) == j \in JobType /\ Explained(j)

LEMMA JobFields ==
  ASSUME NEW j \in JobType
  PROVE  /\ j.event \in Events /\ j.state \in {"waiting", "handled", "failed"}
         /\ j.attempts \in 0 .. 3 /\ j.stalls \in 0 .. 2 /\ j.sent \in Nat
BY DEF JobType, Events

(* A new job, and one that takes the place of the same id.                 *)
Adds(j) == jobs' = jobs \union {j} /\ \A k \in jobs : k.id # j.id
Replaces(j, to) == j \in jobs /\ Moves(j, to) /\ to.id = j.id

LEMMA AddsJobs ==
  ASSUME JobsInv, nextJob' \in Nat, NEW j, Good(j), Adds(j)
  PROVE  JobsInv'
<1>1. jobs' \subseteq JobType
  BY DEF JobsInv, JobsTyped, Good, Adds
<1>2. \A i, k \in jobs' : i.id = k.id => i = k
  BY DEF JobsInv, JobsTyped, Adds
<1>3. \A i \in jobs' : Explained(i)
  BY DEF JobsInv, Good, Adds
<1>4. QED
  BY <1>1, <1>2, <1>3 DEF JobsInv, JobsTyped

LEMMA ReplacesJobs ==
  ASSUME JobsInv, nextJob' \in Nat, NEW j, NEW to, Good(to), Replaces(j, to)
  PROVE  JobsInv'
<1>1. jobs' \subseteq JobType
  BY DEF JobsInv, JobsTyped, Good, Replaces, Moves
<1>2. \A i, k \in jobs' : i.id = k.id => i = k
  BY DEF JobsInv, JobsTyped, Replaces, Moves
<1>3. \A i \in jobs' : Explained(i)
  BY DEF JobsInv, Good, Replaces, Moves
<1>4. QED
  BY <1>1, <1>2, <1>3 DEF JobsInv, JobsTyped

LEMMA FewerJobs ==
  ASSUME JobsInv, nextJob' = nextJob, jobs' \subseteq jobs
  PROVE  JobsInv'
<1>1. \A i \in jobs' : Explained(i)
  BY DEF JobsInv
<1>2. QED
  BY <1>1 DEF JobsInv, JobsTyped

LEMMA EmitJobs ==
  ASSUME JobsInv, NEW event \in Events, NEW to \in Letters, Emit(event, to)
  PROVE  JobsInv'
<1>1. CASE RoutingMap(event) = None \/ JobId(event, to) \in {j.id : j \in jobs}
  BY <1>1, FewerJobs DEF Emit
<1>2. CASE ~(RoutingMap(event) = None \/ JobId(event, to) \in {j.id : j \in jobs})
  <2>1. nextJob' = nextJob + 1 /\ jobs' = jobs \union {Job(event, to)} /\ nextJob \in Nat
    BY <1>2 DEF Emit, JobsInv, JobsTyped
  <2>2. PICK j : j = Job(event, to)
    OBVIOUS
  <2>3. Attempts(RoutingMap(event)) \in {2, 3}
    BY DEF Attempts
  <2>4. JobId(event, to) \in {"verification"} \X Emails \union Events \X Nat
    BY <2>1 DEF JobId, Letters
  <2>5. /\ j \in JobType /\ j.id = JobId(event, to)
        /\ j.state = "waiting" /\ j.attempts >= 1 /\ j.stalls = 0 /\ j.sent = 0
    BY <2>2, <2>3, <2>4 DEF Job, JobType, Letters, Events
  <2>6. Good(j)
    BY <2>5 DEF Good, Explained
  <2>7. Adds(j)
    BY <1>2, <2>1, <2>2, <2>5 DEF Adds
  <2>8. QED
    BY <2>1, <2>6, <2>7, AddsJobs
<1>3. QED
  BY <1>1, <1>2

LEMMA HandleJobs ==
  ASSUME JobsInv, NEW j \in jobs, NEW up \in BOOLEAN, Handle(j, up)
  PROVE  JobsInv'
<1>1. /\ j \in JobType /\ Explained(j) /\ nextJob \in Nat
      /\ j.state = "waiting" /\ Handled(j.event) /\ Moves(j, Sent(j, up))
      /\ nextJob' = nextJob
  BY DEF JobsInv, JobsTyped, Handle, QueueOnly
<1>2. PICK to : to = Sent(j, up)
  OBVIOUS
<1>3. PICK c : c = IF up THEN Cardinality(Taken(j.event, j.to)) ELSE 0
  OBVIOUS
<1>4. c \in {0, 1}
  BY <1>3, TakenFacts
<1>5. /\ to.id = j.id /\ to.event = j.event /\ to.state = "handled"
      /\ to.attempts = j.attempts /\ to.stalls = j.stalls /\ to.sent = j.sent + c
  BY <1>1, <1>2, <1>3 DEF Sent, JobType
<1>6. to \in JobType
  <2>1. j.sent + c \in Nat
    BY <1>1, <1>4, JobFields
  <2>2. QED
    BY <1>1, <1>2, <1>3, <2>1 DEF Sent, JobType
<1>7. Explained(to)
  BY <1>1, <1>4, <1>5, JobFields DEF Explained
<1>8. QED
  BY <1>1, <1>2, <1>5, <1>6, <1>7, ReplacesJobs DEF Good, Replaces

LEMMA MissingHandlerJobs ==
  ASSUME JobsInv, NEW j \in jobs, MissingHandler(j)
  PROVE  JobsInv'
<1>1. /\ j \in JobType /\ Explained(j) /\ nextJob \in Nat
      /\ j.state = "waiting" /\ ~Handled(j.event) /\ Moves(j, Retry(j))
      /\ nextJob' = nextJob
  BY DEF JobsInv, JobsTyped, MissingHandler, QueueOnly
<1>2. PICK to : to = Retry(j)
  OBVIOUS
<1>3. /\ to.id = j.id /\ to.event = j.event /\ to.stalls = j.stalls /\ to.sent = j.sent
      /\ to.state = IF j.attempts > 1 THEN "waiting" ELSE "failed"
      /\ to.attempts = j.attempts - 1
  BY <1>1, <1>2 DEF Retry, JobType
<1>4. j.attempts \in 1 .. 3
  BY <1>1, JobFields DEF Explained
<1>5. to \in JobType
  <2>1. j.attempts - 1 \in 0 .. 3
    BY <1>4
  <2>2. QED
    BY <1>1, <1>2, <2>1 DEF Retry, JobType
<1>6. Explained(to)
  <2>1. to.state # "failed" => to.attempts >= 1
    BY <1>3, <1>4
  <2>2. QED
    BY <1>1, <1>3, <2>1, JobFields DEF Explained
<1>7. QED
  BY <1>1, <1>2, <1>3, <1>5, <1>6, ReplacesJobs DEF Good, Replaces

LEMMA StallJobs ==
  ASSUME JobsInv, NEW j \in jobs, Stall(j)
  PROVE  JobsInv'
<1>1. PICK to : to = [j EXCEPT !.state = IF j.stalls = 0 THEN "waiting" ELSE "failed", !.stalls = @ + 1]
  OBVIOUS
<1>2. /\ j \in JobType /\ Explained(j) /\ nextJob \in Nat
      /\ j.state # "failed" /\ Moves(j, to)
      /\ nextJob' = nextJob
  BY <1>1 DEF JobsInv, JobsTyped, Stall, QueueOnly
<1>3. /\ to.id = j.id /\ to.event = j.event /\ to.attempts = j.attempts /\ to.sent = j.sent
      /\ to.state = IF j.stalls = 0 THEN "waiting" ELSE "failed"
      /\ to.stalls = j.stalls + 1
  BY <1>1, <1>2 DEF JobType
<1>4. j.stalls \in 0 .. 1
  BY <1>2, JobFields DEF Explained
<1>5. to \in JobType
  <2>1. j.stalls + 1 \in 0 .. 2
    BY <1>4
  <2>2. QED
    BY <1>1, <1>2, <2>1 DEF JobType
<1>6. Explained(to)
  BY <1>2, <1>3, <1>4, JobFields DEF Explained
<1>7. QED
  BY <1>2, <1>3, <1>5, <1>6, ReplacesJobs DEF Good, Replaces

(***************************************************************************)
(* The theorems.                                                           *)
(***************************************************************************)
LEMMA InitIInv == Init => IInv
<1>1. SUFFICES ASSUME Init PROVE IInv
  OBVIOUS
<1>2. \A row : Emitting(row) = {}
  BY <1>1, IdleFacts DEF Init, Emitting, At
<1>3. \A row : ~Known(row) /\ row \notin silent
  <2>1. DOMAIN bookings = {}
    BY <1>1 DEF Init
  <2>2. QED
    BY <1>1, <2>1 DEF Init, Known
<1>4. \A row \in Rows : Accounted(row)
  <2>1. Cardinality({}) = 0
    BY FS_EmptySet
  <2>2. \A row \in Rows : announced[row] = 0
    BY <1>1 DEF Init, Rows
  <2>3. QED
    BY <1>2, <1>3, <2>1, <2>2 DEF Accounted, OneIf
<1>5. RowsTyped
  BY <1>1, BoundsAssumption, IdleFacts DEF Init, RowsTyped, At, Rows
<1>6. JobsInv
  BY <1>1 DEF Init, JobsInv, JobsTyped
<1>7. QED
  BY <1>4, <1>5, <1>6, AccountedFacts DEF IInv, RowsInv

LEMMA StepIInv == IInv /\ [Next]_vars => IInv'
<1>1. SUFFICES ASSUME RowsInv, JobsInv, [Next]_vars
              PROVE  RowsInv' /\ JobsInv'
  BY DEF IInv
<1>2. UNCHANGED <<jobs, nextJob>> => JobsInv'
  BY <1>1, FewerJobs
<1>3. ASSUME NEW h \in Handlers, NEW form \in Forms, Register(h, form)
      PROVE  RowsInv' /\ JobsInv'
  BY <1>1, <1>2, <1>3, RegisterRows DEF Register
<1>4. ASSUME NEW h \in Handlers, CreateUser(h)
      PROVE  RowsInv' /\ JobsInv'
  BY <1>1, <1>2, <1>4, CreateUserRows DEF CreateUser
<1>5. ASSUME NEW h \in Handlers, CreateBooking(h)
      PROVE  RowsInv' /\ JobsInv'
  BY <1>1, <1>2, <1>5, CreateBookingRows DEF CreateBooking
<1>6. ASSUME NEW h \in Handlers, EmitEvent(h)
      PROVE  RowsInv' /\ JobsInv'
  <2>1. proc[h].event \in Events /\ proc[h].to \in Letters
    BY <1>1, <1>6, RequestFacts DEF RowsInv, EmitEvent, At, Events
  <2>2. JobsInv'
    BY <1>1, <1>6, <2>1, EmitJobs DEF EmitEvent
  <2>3. QED
    BY <1>1, <1>6, <2>2, EmitEventRows
<1>7. ASSUME NEW h \in Handlers, Fail(h)
      PROVE  RowsInv' /\ JobsInv'
  BY <1>1, <1>2, <1>7, FailRows DEF Fail
<1>8. ASSUME NEW b \in DOMAIN bookings, NEW status \in Statuses, UpdateBookingStatus(b, status)
      PROVE  RowsInv' /\ JobsInv'
  BY <1>1, <1>2, <1>8, UpdateBookingRows DEF UpdateBookingStatus
<1>9. ASSUME NEW event \in {"order.created", "post.liked"}, NEW u \in users, EmitOther(event, u)
      PROVE  RowsInv' /\ JobsInv'
  <2>1. event \in Events /\ None \in Letters /\ u.email \in Letters
    BY <1>1, FormFacts DEF Events, Letters, RowsInv, RowsTyped
  <2>2. JobsInv'
    BY <1>1, <1>9, <2>1, EmitJobs DEF EmitOther
  <2>3. QED
    BY <1>1, <1>9, <2>2, QuietRows DEF EmitOther
<1>10. ASSUME NEW j \in jobs, Works(j) \/ Stall(j)
       PROVE  RowsInv' /\ JobsInv'
  <2>1. RowsInv'
    BY <1>1, <1>10, QuietRows DEF Works, Handle, MissingHandler, Complete, Stall, QueueOnly
  <2>2. Complete(j) => JobsInv'
    BY <1>1, FewerJobs DEF Complete, QueueOnly
  <2>3. QED
    BY <1>1, <1>10, <2>1, <2>2, HandleJobs, MissingHandlerJobs, StallJobs DEF Works
<1>11. CASE UNCHANGED vars
  BY <1>1, <1>2, <1>11, QuietRows DEF vars
<1>12. QED
  BY <1>1, <1>3, <1>4, <1>5, <1>6, <1>7, <1>8, <1>9, <1>10, <1>11 DEF Next

(* The invariant holds in every reachable state.                           *)
THEOREM Invariance == Spec => []IInv
BY InitIInv, StepIInv, PTL DEF Spec

(* Every variable keeps its type and the queue has one job of an id, for   *)
(* any number of rows and jobs.                                            *)
THEOREM TypeCorrect == Spec => []TypeOK
<1>1. IInv => TypeOK
  BY RequestFacts DEF IInv, RowsInv, RowsTyped, JobsInv, JobsTyped, TypeOK
<1>2. QED
  BY <1>1, Invariance, PTL

(* The event of a user or a booking is queued once, by the request that    *)
(* made its row: not again by one that raced it and was refused, and never *)
(* once that request has died.                                             *)
THEOREM EventsOnce == Spec => []AnnouncedOnce
<1>1. IInv => AnnouncedOnce
  BY DEF IInv, RowsInv
<1>2. QED
  BY <1>1, Invariance, PTL

(* A job's message leaves at most once for each worker that ran it, in any *)
(* environment and however often its provider was down.                    *)
THEOREM MessagesOnce == Spec => []SentOncePerRun
<1>1. IInv => SentOncePerRun
  BY DEF IInv, JobsInv, Explained, SentOncePerRun
<1>2. QED
  BY <1>1, Invariance, PTL

(* A job that failed has no handler or has cost two workers: sending never *)
(* fails one.                                                              *)
THEOREM FailuresHaveCauses == Spec => []FailuresExplained
<1>1. IInv => FailuresExplained
  BY DEF IInv, JobsInv, Explained, FailuresExplained
<1>2. QED
  BY <1>1, Invariance, PTL

(* No email falls back to inline HTML while its file is there: the files   *)
(* that are loaded include each one an email asks for.                     *)
THEOREM FallbacksHaveCauses == Spec => []FallsBackOnlyWhenMissing
<1>1. FallsBackOnlyWhenMissing
  <2>1. \A email \in AllEmails : email.file \in TemplateFiles
    BY DEF AllEmails, TemplateFiles, Email, VerificationEmail, PasswordResetEmail, WelcomeEmail,
           OrderConfirmationEmail, ShippingUpdateEmail, OrderCancellationEmail,
           VendorApprovalEmail, VendorRejectionEmail
  <2>2. QED
    BY <2>1, SendFacts DEF FallsBackOnlyWhenMissing, Loaded
<1>2. QED
  BY <1>1, PTL

=============================================================================

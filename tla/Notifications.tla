------------------------------ MODULE Notifications ------------------------------
(***************************************************************************)
(* From a row to a message: the registration of users and the booking of   *)
(* services, whose last step emits an event; EventBus, which routes it to  *)
(* a Bull queue; the processors of the queues; EmailService and            *)
(* WhatsAppService, which swallow what goes wrong when they send.          *)
(*                                                                         *)
(* Bull is external: it keeps one job per id, runs a job again when its    *)
(* handler throws (attempts) or its worker dies (once), removes it when it *)
(* completes and keeps it when it failed.  So are SendGrid and Twilio,     *)
(* which refuse what lacks a sender, an address or a body, and may be      *)
(* down.  Prices and dates of a booking are left out, and so are the       *)
(* events of other services but for two.                                   *)
(***************************************************************************)
EXTENDS Config, Integers, Sequences, FiniteSets

CONSTANTS
  Handlers, Phones, Emails,
  None,          \* no address
  Statuses,      \* of bookings, those modelled
  Forms,         \* the phones and emails users register with
  Environments,  \* what process.env may hold
  Disks,         \* what the directory of email templates may hold, per file:
                 \* "missing", "empty" or "written"
  MaxJobs,       \* bound: jobs ever added
  MaxBookings    \* bound: bookings ever made

ASSUME NoneAssumption == None \notin Phones \union Emails
ASSUME HandlersAssumption == IsFiniteSet(Handlers)
(* The rows of two tables are named apart in the histories.                *)
ASSUME RowsAssumption == Phones \intersect Nat = {} /\ "PENDING" \in Statuses
ASSUME FormsAssumption == Forms \subseteq [phone : Phones, email : Emails \union {None}]
ASSUME BoundsAssumption ==
  Environments \subseteq [Keys -> Values] /\ MaxJobs \in Nat /\ MaxBookings \in Nat

VARIABLES
  env, disk,   \* the environment and the template files of the process
  users,       \* table User
  bookings,    \* table Booking: the status of each
  proc,        \* the request each handler serves
  jobs,        \* the two queues
  nextJob,     \* the id of the next job that has none of its own
  announced,   \* history: per row, how often its event was queued
  silent       \* history: rows whose request died before it emitted

vars == <<env, disk, users, bookings, proc, jobs, nextJob, announced, silent>>

Idle == [pc |-> "idle"]
At(h, pc) == proc[h].pc = pc
Ends(h) == proc' = [proc EXCEPT ![h] = Idle]

(***************************************************************************)
(* EventBus and the queues.                                                *)
(***************************************************************************)
RoutingMap(event) ==
  CASE event \in {"user.registered", "user.password_reset_requested", "user.verified",
                  "order.created", "post.liked", "post.deleted"} -> "email"
    [] event \in {"booking.created", "booking.confirmed"} -> "whatsapp"
    [] OTHER -> None

Attempts(queue) == IF queue = "email" THEN 3 ELSE 2

JobId(event, to) ==
  IF event = "user.registered" /\ to # None THEN <<"verification", to>> ELSE <<event, nextJob>>

(* A registration is the only event with an id of its own, and no two have *)
(* the same: its email is unique, and the event follows the row.           *)
(* sent: history, the messages that left; stalls: its workers' deaths.     *)
Job(event, to) ==
  [id |-> JobId(event, to), event |-> event, to |-> to, state |-> "waiting",
   attempts |-> Attempts(RoutingMap(event)), stalls |-> 0, sent |-> 0]

Emit(event, to) ==
  IF RoutingMap(event) = None \/ JobId(event, to) \in {j.id : j \in jobs}
  THEN UNCHANGED <<jobs, nextJob>>
  ELSE /\ nextJob <= MaxJobs
       /\ nextJob' = nextJob + 1
       /\ jobs' = jobs \union {Job(event, to)}

Init ==
  /\ env \in {e \in Environments : Validate(e)}
  /\ disk \in Disks
  /\ users = {} /\ bookings = <<>>
  /\ proc = [h \in Handlers |-> Idle]
  /\ jobs = {} /\ nextJob = 1
  /\ announced = [row \in Phones \union 1 .. MaxBookings |-> 0]
  /\ silent = {}

(***************************************************************************)
(* AuthService.register: look for the phone and the email, insert, emit.   *)
(***************************************************************************)
Holds(u, phone, email) == u.phone = phone \/ (email # None /\ u.email = email)
Exists(phone, email) == \E u \in users : Holds(u, phone, email)

Register(h, form) ==
  /\ At(h, "idle") /\ ~Exists(form.phone, form.email)
  /\ proc' = [proc EXCEPT ![h] = [pc |-> "create", row |-> form.phone, to |-> form.email]]
  /\ UNCHANGED <<env, disk, users, bookings, jobs, nextJob, announced, silent>>

(* The unique keys refuse what another registration inserted meanwhile.    *)
CreateUser_Ignored(h) ==
  LET r == proc[h] IN
  /\ At(h, "create")
  /\ users' = IF Exists(r.row, r.to) THEN users ELSE users \union {[phone |-> r.row, email |-> r.to]}
  /\ proc' = [proc EXCEPT ![h] = [pc |-> "emit", event |-> "user.registered", row |-> r.row, to |-> r.to]]
  /\ UNCHANGED <<env, disk, bookings, jobs, nextJob, announced, silent>>

CreateUser(h) ==
  LET r == proc[h] IN
  /\ At(h, "create")
  /\ IF Exists(r.row, r.to) THEN Ends(h) /\ UNCHANGED users
     ELSE /\ users' = users \union {[phone |-> r.row, email |-> r.to]}
          /\ proc' = [proc EXCEPT ![h] =
               [pc |-> "emit", event |-> "user.registered", row |-> r.row, to |-> r.to]]
  /\ UNCHANGED <<env, disk, bookings, jobs, nextJob, announced, silent>>

(***************************************************************************)
(* BookingService: the event of a booking has no phone to write to.        *)
(***************************************************************************)
CreateBooking(h) ==
  /\ At(h, "idle") /\ Len(bookings) < MaxBookings
  /\ bookings' = Append(bookings, "PENDING")
  /\ proc' = [proc EXCEPT ![h] =
       [pc |-> "emit", event |-> "booking.created", row |-> Len(bookings) + 1, to |-> None]]
  /\ UNCHANGED <<env, disk, users, jobs, nextJob, announced, silent>>

UpdateBookingStatus(b, status) ==
  /\ bookings' = [bookings EXCEPT ![b] = status]
  /\ UNCHANGED <<env, disk, users, proc, jobs, nextJob, announced, silent>>

EmitEvent(h) ==
  /\ At(h, "emit")
  /\ Emit(proc[h].event, proc[h].to)
  /\ announced' = [announced EXCEPT ![proc[h].row] = @ + 1]
  /\ Ends(h)
  /\ UNCHANGED <<env, disk, users, bookings, silent>>

(* The queue refuses the job or the process crashes.                       *)
Fail(h) ==
  /\ ~At(h, "idle")
  /\ silent' = IF At(h, "emit") THEN silent \union {proc[h].row} ELSE silent
  /\ Ends(h)
  /\ UNCHANGED <<env, disk, users, bookings, jobs, nextJob, announced>>

(* A user's order and like emit as well, after their last write; an        *)
(* order's event has the email of its customer.                            *)
EmitOther(event, u) ==
  /\ RoutingMap(event) # None
  /\ Emit(event, IF event = "order.created" THEN u.email ELSE None)
  /\ UNCHANGED <<env, disk, users, bookings, proc, announced, silent>>

(***************************************************************************)
(* EmailService: the template of an email is SendGrid's when its id is     *)
(* configured, else a file's when one was loaded, else inline HTML.        *)
(***************************************************************************)
Email(templateId, file) == [templateId |-> templateId, file |-> file]
VerificationEmail == Email("SENDGRID_VERIFICATION_TEMPLATE_ID", "verification")
PasswordResetEmail == Email("SENDGRID_PASSWORD_RESET_TEMPLATE_ID", "password-reset")
WelcomeEmail == Email("SENDGRID_WELCOME_TEMPLATE_ID", "welcome")
OrderConfirmationEmail == Email("SENDGRID_ORDER_CONFIRMATION_TEMPLATE_ID", "order-confirmation")
ShippingUpdateEmail == Email("SENDGRID_SHIPPING_UPDATE_TEMPLATE_ID", "shipping-update")
OrderCancellationEmail == Email("SENDGRID_ORDER_CANCELLATION_TEMPLATE_ID", "order-cancellation")
VendorApprovalEmail == Email("SENDGRID_VENDOR_APPROVAL_TEMPLATE_ID", "vendor-approval")
VendorRejectionEmail == Email("SENDGRID_VENDOR_REJECTION_TEMPLATE_ID", "vendor-rejection")
AllEmails ==
  {VerificationEmail, PasswordResetEmail, WelcomeEmail, OrderConfirmationEmail,
   ShippingUpdateEmail, OrderCancellationEmail, VendorApprovalEmail, VendorRejectionEmail}

TemplateFiles_Forgetful == {"verification", "password-reset", "order-confirmation"}
TemplateFiles ==
  {"verification", "password-reset", "welcome", "order-confirmation",
   "shipping-update", "order-cancellation", "vendor-approval", "vendor-rejection"}
IsInitialized == Given(env, "SENDGRID_API_KEY")
Loaded == IF IsInitialized THEN {file \in TemplateFiles : disk[file] # "missing"} ELSE {}

(* The calls of sendEmail that sending an email makes.                     *)
Send_FallsThrough(email) ==
  (IF Given(env, email.templateId) THEN <<"dynamic">> ELSE <<>>)
  \o (IF email.file \in Loaded THEN <<"file">> ELSE <<"inline">>)
Send(email) ==
  CASE Given(env, email.templateId) -> <<"dynamic">>
    [] ~Given(env, email.templateId) /\ email.file \in Loaded -> <<"file">>
    [] OTHER -> <<"inline">>

(* SendGrid refuses what has no sender, no address or no body, which is    *)
(* its template's or its html's; an empty file renders to no html.         *)
SendGridTakes(email, to, call) ==
  /\ env["SENDGRID_API_KEY"] = "good" /\ env["SENDGRID_FROM_EMAIL"] = "good" /\ to # None
  /\ call = "dynamic" => env[email.templateId] = "good"
  /\ call = "file" => disk[email.file] = "written"

WhatsAppConfigured == AllGiven(env, Twilio) /\ env["TWILIO_ACCOUNT_SID"] = "good"
TwilioTakes(to) == to # None /\ \A key \in Twilio : env[key] = "good"

(***************************************************************************)
(* The processors: a handler for three of the events of the email queue    *)
(* and one of the other's.                                                 *)
(***************************************************************************)
Handled(event) ==
  event \in {"user.registered", "user.password_reset_requested", "order.created", "booking.created"}

EmailFor(event) ==
  CASE event = "user.registered" -> VerificationEmail
    [] event = "user.password_reset_requested" -> PasswordResetEmail
    [] event = "order.created" -> OrderConfirmationEmail

(* The calls of a handler whose message leaves, when its provider is up.   *)
Taken(event, to) ==
  IF event = "booking.created"
  THEN {n \in {1} : WhatsAppConfigured /\ TwilioTakes(to)}
  ELSE {n \in DOMAIN Send(EmailFor(event)) :
          IsInitialized /\ SendGridTakes(EmailFor(event), to, Send(EmailFor(event))[n])}

Moves(j, to) == jobs' = (jobs \ {j}) \union {to}
QueueOnly == UNCHANGED <<env, disk, users, bookings, proc, nextJob, announced, silent>>

(* An attempt that failed; the job waits for the next or has failed.       *)
Retry_Forever(j) == j
Retry_OnceMore(j) ==
  [j EXCEPT !.state = IF j.attempts > 0 THEN "waiting" ELSE "failed", !.attempts = @ - 1]
Retry(j) ==
  [j EXCEPT !.state = IF j.attempts > 1 THEN "waiting" ELSE "failed", !.attempts = @ - 1]

(* A handler sends and never throws: that the provider refused or is down  *)
(* is logged and swallowed.                                                *)
Sent(j, up) ==
  [j EXCEPT !.state = "handled", !.sent = IF up THEN @ + Cardinality(Taken(j.event, j.to)) ELSE @]

Handle_Throws(j, up) ==
  /\ j.state = "waiting" /\ Handled(j.event)
  /\ Moves(j, IF up THEN Sent(j, up) ELSE Retry(j))
  /\ QueueOnly
Handle(j, up) ==
  /\ j.state = "waiting" /\ Handled(j.event)
  /\ Moves(j, Sent(j, up))
  /\ QueueOnly

(* Bull: missing process handler for job type.                             *)
MissingHandler(j) ==
  /\ j.state = "waiting" /\ ~Handled(j.event)
  /\ Moves(j, Retry(j))
  /\ QueueOnly

Complete(j) ==
  /\ j.state = "handled"
  /\ jobs' = jobs \ {j}
  /\ QueueOnly

(* The worker dies with its job, before it sends or after.                 *)
Stall(j) ==
  /\ j.state # "failed"
  /\ Moves(j, [j EXCEPT !.state = IF j.stalls = 0 THEN "waiting" ELSE "failed", !.stalls = @ + 1])
  /\ QueueOnly

(***************************************************************************)
(* The specification.  A worker always takes the next job and ends it.     *)
(***************************************************************************)
Works(j) == (\E up \in BOOLEAN : Handle(j, up)) \/ MissingHandler(j) \/ Complete(j)

Next ==
  \/ \E h \in Handlers :
       \/ \E form \in Forms : Register(h, form)
       \/ CreateUser(h) \/ CreateBooking(h) \/ EmitEvent(h) \/ Fail(h)
  \/ \E b \in DOMAIN bookings, status \in Statuses : UpdateBookingStatus(b, status)
  \/ \E event \in {"order.created", "post.liked"}, u \in users : EmitOther(event, u)
  \/ \E j \in jobs : Works(j) \/ Stall(j)

Spec == Init /\ [][Next]_vars /\ WF_vars(\E j \in jobs : Works(j))

(***************************************************************************)
(* Properties.                                                             *)
(***************************************************************************)
Rows == Phones \union 1 .. MaxBookings
JobType ==
  [id : {"verification"} \X Emails \union {"user.registered", "order.created", "post.liked", "booking.created"} \X Nat,
   event : {"user.registered", "order.created", "post.liked", "booking.created"},
   to : Emails \union {None}, state : {"waiting", "handled", "failed"},
   attempts : 0 .. 3, stalls : 0 .. 2, sent : Nat]

(* Every variable keeps its type, and the queue has one job of an id.      *)
TypeOK ==
  /\ users \subseteq Forms
  /\ bookings \in Seq(Statuses)
  /\ \A h \in Handlers : ~At(h, "idle") => proc[h].row \in Rows
  /\ jobs \subseteq JobType /\ \A j, k \in jobs : j.id = k.id => j = k
  /\ announced \in [Rows -> Nat]
  /\ silent \subseteq Rows

(* A row's event is queued once, unless its request is about to or died    *)
(* before: a user or booking that stays unannounced is not announced by a  *)
(* request sent again, which is refused or makes another row.              *)
Emitting(row) == {h \in Handlers : At(h, "emit") /\ proc[h].row = row}
AnnouncedOnce ==
  \A row \in Rows :
    announced[row] + Cardinality(Emitting(row)) + Cardinality(silent \intersect {row})
      = IF row \in {u.phone : u \in users} \union DOMAIN bookings THEN 1 ELSE 0

(* A job's message leaves at most once for each worker that ran it: not    *)
(* once per template, and not again because a send went wrong.             *)
SentOncePerRun == \A j \in jobs : j.sent <= 1 + j.stalls

(* What src/README.md:239 says of notifications, that they have retry      *)
(* policies: a message that its provider would take, were it up, has left  *)
(* before its job is done with.  The code drops it when the provider is    *)
(* down, for the send's error is swallowed and the job counts as done.     *)
LostSendsAreRetried ==
  \A j \in jobs : j.state = "handled" /\ Taken(j.event, j.to) # {} => j.sent >= 1

(* A job fails only when nothing handles its event or two workers died     *)
(* with it; that a message could not be sent fails none.                   *)
FailuresExplained == \A j \in jobs : j.state = "failed" => ~Handled(j.event) \/ j.stalls = 2

(* An email falls back to inline HTML only when its file is not there: the *)
(* files loaded are known by the names the emails ask for.  (A file that   *)
(* is there and empty, as seven of the repository's eight are, is used.)   *)
FallsBackOnlyWhenMissing ==
  \A email \in AllEmails : IsInitialized /\ Send(email) = <<"inline">> => disk[email.file] = "missing"

(* The queues drain: over and over, all that is left in them has failed.   *)
QueueDrains == []<>(\A j \in jobs : j.state = "failed")
=============================================================================

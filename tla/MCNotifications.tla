----------------------------- MODULE MCNotifications -----------------------------
EXTENDS Notifications, TLC
CONSTANTS p1, p2, e1, h1, h2
MCPhones == {p1, p2}
MCEmails == {e1}
MCForms ==
  {[phone |-> p1, email |-> e1], [phone |-> p2, email |-> e1], [phone |-> p2, email |-> None]}
MCStatuses == {"PENDING", "CONFIRMED"}
MCHandlers == {h1, h2}
Bare == [key \in Keys |-> IF key \in Required THEN "good" ELSE "unset"]
HalfMail == [Bare EXCEPT !["SENDGRID_API_KEY"] = "good"]
Mail == [HalfMail EXCEPT !["SENDGRID_FROM_EMAIL"] = "good"]
HalfTwilio == [Mail EXCEPT !["TWILIO_ACCOUNT_SID"] = "good"]
(* Three start, one of them with a key for SendGrid and no sender; one     *)
(* lacks a secret, one has a number out of its range and one half of       *)
(* Twilio's variables.                                                     *)
MCEnvironments ==
  {Mail, [HalfMail EXCEPT !["REDIS_PORT"] = "malformed"], HalfTwilio,
   [Bare EXCEPT !["JWT_SECRET"] = "empty"], [Bare EXCEPT !["REDIS_DB"] = "outOfRange"],
   [key \in Keys |-> IF key \in Twilio \union {"SENDGRID_VERIFICATION_TEMPLATE_ID"} THEN "good" ELSE Mail[key]]}
(* The repository's files, of which one is written, save one that is lost. *)
MCDisks ==
  {[file \in {email.file : email \in AllEmails} |->
     CASE file = "verification" -> "written" [] file = "password-reset" -> "missing" [] OTHER -> "empty"]}
=============================================================================

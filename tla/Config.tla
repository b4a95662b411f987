--------------------------------- MODULE Config ---------------------------------
(***************************************************************************)
(* The environment a process starts in: which variables must be there, and *)
(* when EnvironmentService refuses to start (env.validation.ts).  A value  *)
(* is unset, empty, blank (spaces alone), malformed for its key, a number  *)
(* that is out of its range, or good.                                      *)
(***************************************************************************)
Values == {"unset", "empty", "blank", "malformed", "outOfRange", "good"}

Trimmed == {"APP_DOMAIN", "COOKIE_DOMAIN", "ADMIN_EMAIL", "DATABASE_URL"}
Required ==
  Trimmed \union {"NODE_ENV", "PORT", "JWT_SECRET", "REDIS_URL", "PAYSTACK_SECRET_KEY"}

Cloudinary == {"CLOUDINARY_CLOUD_NAME", "CLOUDINARY_API_KEY", "CLOUDINARY_API_SECRET"}
Twilio == {"TWILIO_ACCOUNT_SID", "TWILIO_AUTH_TOKEN", "TWILIO_WHATSAPP_FROM"}
SendGrid ==
  {"SENDGRID_API_KEY", "SENDGRID_FROM_EMAIL", "SENDGRID_FROM_NAME", "FRONTEND_URL",
   "SENDGRID_VERIFICATION_TEMPLATE_ID", "SENDGRID_PASSWORD_RESET_TEMPLATE_ID",
   "SENDGRID_WELCOME_TEMPLATE_ID", "SENDGRID_ORDER_CONFIRMATION_TEMPLATE_ID",
   "SENDGRID_SHIPPING_UPDATE_TEMPLATE_ID", "SENDGRID_ORDER_CANCELLATION_TEMPLATE_ID",
   "SENDGRID_VENDOR_APPROVAL_TEMPLATE_ID", "SENDGRID_VENDOR_REJECTION_TEMPLATE_ID"}
Optional ==
  Cloudinary \union Twilio \union SendGrid
  \union {"JWT_ACCESS_EXPIRES", "JWT_REFRESH_EXPIRES", "LOG_FILE_ENABLED", "LOG_FILE_PATH",
          "REDIS_HOST", "REDIS_PORT", "REDIS_DB", "REDIS_PASSWORD",
          "PAYSTACK_PUBLIC_KEY", "PAYSTACK_CALLBACK_URL"}
Keys == Required \union Optional

(* The keys whose form is checked: an enum, numbers in a range, a URL.     *)
Formed == {"NODE_ENV", "PORT", "REDIS_URL", "REDIS_DB"}

(* What a key holds once it is converted to its type and its @Transform    *)
(* has run: the optional numbers make undefined of what is not a number.   *)
Transformed(key, v) ==
  CASE key \in Trimmed /\ v = "blank" -> "empty"
    [] key \in {"REDIS_PORT", "REDIS_DB"} /\ v \in {"empty", "blank", "malformed"} -> "unset"
    [] key \in Formed /\ v = "blank" -> "malformed"
    [] OTHER -> v

Accepted(key, v) ==
  \/ key \in Optional /\ v = "unset"
  \/ /\ v # "unset"
     /\ key \in Required => v # "empty"
     /\ key \in Formed => v = "good"

Given(env, key) == env[key] \notin {"unset", "empty"}
AllGiven(env, keys) == \A key \in keys : Given(env, key)
AllOrNone(env, keys) == (\E key \in keys : Given(env, key)) => AllGiven(env, keys)

PostValidate(env) == AllOrNone(env, Cloudinary) /\ AllOrNone(env, Twilio)

Validate(raw) ==
  LET env == [key \in Keys |-> Transformed(key, raw[key])] IN
  (\A key \in Keys : Accepted(key, env[key])) /\ PostValidate(env)
=============================================================================

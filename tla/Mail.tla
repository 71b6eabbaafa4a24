-------------------------------- MODULE Mail --------------------------------
(***************************************************************************)
(* The e-mails that tasks send (users/tasks.py).  A letter is handed over  *)
(* in two tasks: one renders a template and queues the other, which talks  *)
(* to the mail server and is retried.                                      *)
(***************************************************************************)
EXTENDS Naturals

CONSTANTS
    Letters,     \* the letters that may be queued, each once
    MaxResends,  \* EMAIL_MAX_RETRIES
    Rendered     \* do settings.BASE_URL and the templates of the letters
                 \* exist: FALSE in the repository

ASSUME MailAssumption ==
    /\ MaxResends \in Nat
    /\ Rendered \in BOOLEAN

VARIABLES
    letter,  \* letter -> the task it is with
    resends  \* letter -> how often its sending was retried

post == <<letter, resends>>

MailTypeOK ==
    /\ letter \in [Letters -> {"none", "rendering", "queued", "sent", "failed"}]
    /\ resends \in [Letters -> 0 .. MaxResends]

MailInit ==
    /\ letter = [l \in Letters |-> "none"]
    /\ resends = [l \in Letters |-> 0]

\* send_..._email.delay(...).
Queue(l) == letter' = [letter EXCEPT ![l] = "rendering"]

\* send_verification_email, send_order_confirmation_email and
\* send_admin_notification_email are not retried.
Render(l) ==
    /\ letter[l] = "rendering"
    /\ letter' = [letter EXCEPT ![l] = IF Rendered THEN "queued" ELSE "failed"]
    /\ UNCHANGED resends

\* Mutated: the retries have no limit; their count starts again.
ResendForEver(l) ==
    /\ resends' = [resends EXCEPT ![l] = (@ + 1) % (MaxResends + 1)]
    /\ UNCHANGED letter

\* self.retry(): once more, or the last error is the task's result.
Resend(l) ==
    IF resends[l] < MaxResends
    THEN /\ resends' = [resends EXCEPT ![l] = @ + 1]
         /\ UNCHANGED letter
    ELSE /\ letter' = [letter EXCEPT ![l] = "failed"]
         /\ UNCHANGED resends

\* send_email_task: the server accepts the letter, or an exception is
\* raised, perhaps after it did.
SendEmail(l) ==
    /\ letter[l] = "queued"
    /\ \/ letter' = [letter EXCEPT ![l] = "sent"] /\ UNCHANGED resends
       \/ Resend(l)

MailNext == \E l \in Letters : Render(l) \/ SendEmail(l)

\* The workers take queued tasks.
MailFairness == \A l \in Letters : WF_post(Render(l) \/ SendEmail(l))

\* A letter that was handed over is sent, or has failed for good.
LettersEnd ==
    \A l \in Letters : letter[l] # "none" ~> letter[l] \in {"sent", "failed"}

============================================================================

------------------------------ MODULE EmailOutbox ------------------------------
(***************************************************************************)
(* The email outbox (worker/src/jobs/email-outbox.ts): passes that may     *)
(* overlap take PENDING rows, mark them SENDING and count the attempt, and *)
(* write the outcome; a row left in SENDING is put back after five         *)
(* minutes.  Whether the attempts are used up is judged on the listed row. *)
(***************************************************************************)
EXTENDS Naturals, FiniteSets

CONSTANTS
    Emails,         \* rows of the outbox
    Mailers,        \* passes that may overlap
    MaxTries,       \* MAX_ATTEMPTS (5)
    MaxDeaths       \* bound: deaths of the worker

ASSUME EmailAssumption == MaxTries \in Nat \ {0} /\ MaxDeaths \in Nat

VARIABLES
    email,      \* row -> [status, tries]
    mailer,     \* pass -> where it is, and the row it works on as listed
    deaths

emailVars == <<email, mailer, deaths>>

EmailStates == {"none", "PENDING", "SENDING", "SENT", "FAILED"}

EmailTypeOK ==
    /\ email \in [Emails -> [status : EmailStates, tries : Nat]]
    /\ mailer \in [Mailers -> [at : {"idle"}] \cup
                              [at : {"listed", "sending"}, row : Emails, tries : 0 .. MaxTries]]
    /\ deaths \in 0 .. MaxDeaths

EmailInit ==
    /\ email = [e \in Emails |-> [status |-> "none", tries |-> 0]]
    /\ mailer = [m \in Mailers |-> [at |-> "idle"]]
    /\ deaths = 0

\* Some part of the system wants a mail sent.
QueueEmail(e) ==
    /\ email[e].status = "none"
    /\ email' = [email EXCEPT ![e].status = "PENDING"]
    /\ UNCHANGED <<mailer, deaths>>

\* Fault: only rows without an attempt are put back; the claim has counted one.
RecoverUntried(e) ==
    /\ email[e].status = "SENDING" /\ email[e].tries = 0
    /\ email' = [email EXCEPT ![e].status = "PENDING"]
    /\ UNCHANGED <<mailer, deaths>>

\* Put back what has been in SENDING for five minutes and has attempts left.
RecoverEmail(e) ==
    /\ email[e].status = "SENDING" /\ email[e].tries < MaxTries
    /\ email' = [email EXCEPT ![e].status = "PENDING"]
    /\ UNCHANGED <<mailer, deaths>>

ListEmail(m, e) ==
    /\ mailer[m].at = "idle"
    /\ email[e].status = "PENDING" /\ email[e].tries < MaxTries
    /\ mailer' = [mailer EXCEPT ![m] = [at |-> "listed", row |-> e, tries |-> email[e].tries]]
    /\ UNCHANGED <<email, deaths>>

\* The row is claimed by its id alone.
ClaimEmail(m) ==
    /\ mailer[m].at = "listed"
    /\ email' = [email EXCEPT ![mailer[m].row] = [status |-> "SENDING", tries |-> @.tries + 1]]
    /\ mailer' = [mailer EXCEPT ![m].at = "sending"]
    /\ UNCHANGED deaths

Outcome(m, status) ==
    /\ mailer[m].at = "sending"
    /\ email' = [email EXCEPT ![mailer[m].row].status = status]
    /\ mailer' = [mailer EXCEPT ![m] = [at |-> "idle"]]
    /\ UNCHANGED deaths

EmailSent(m) == Outcome(m, "SENT")

EmailRefused(m) ==
    /\ mailer[m].at = "sending"
    /\ Outcome(m, IF mailer[m].tries + 1 >= MaxTries THEN "FAILED" ELSE "PENDING")

MailerStops(m) ==
    /\ mailer[m].at # "idle"
    /\ deaths < MaxDeaths /\ deaths' = deaths + 1
    /\ mailer' = [mailer EXCEPT ![m] = [at |-> "idle"]]
    /\ UNCHANGED email

MailerStep(m) ==
    (\E e \in Emails : ListEmail(m, e)) \/ ClaimEmail(m) \/ EmailSent(m) \/ EmailRefused(m)

EmailNext ==
    \/ \E e \in Emails : QueueEmail(e) \/ RecoverEmail(e)
    \/ \E m \in Mailers : MailerStep(m) \/ MailerStops(m)

EmailSpec ==
    /\ EmailInit /\ [][EmailNext]_emailVars
    /\ \A e \in Emails : WF_emailVars(RecoverEmail(e))
    /\ \A m \in Mailers : WF_emailVars(MailerStep(m))

-----------------------------------------------------------------------------
(* Properties.                                                             *)

\* An email with attempts left is taken up until it is SENT, or FAILED, or its attempts are
\* used up, across deaths of the worker: a row that a dead pass left in SENDING is put back.
\* (Its last attempt is not so safe: a worker that dies in it leaves the row SENDING, and
\* two overlapping passes may leave it PENDING, with no attempt left and no pass that looks
\* at it again: see README.)
EmailSettles ==
    \A e \in Emails :
        email[e].status \in {"PENDING", "SENDING"} ~>
            (email[e].status \in {"SENT", "FAILED"} \/ email[e].tries >= MaxTries)

\* An email is given up only when all its attempts have been made, though its fate is
\* decided on the copy that was listed and others may have claimed it meanwhile.
GivenUpWasTried ==
    \A e \in Emails : email[e].status = "FAILED" => email[e].tries >= MaxTries

\* Overlapping passes that have listed an email before any claimed it exceed MAX_ATTEMPTS,
\* by one for each pass but the first and never by more, whoever dies and whatever is recovered.
AttemptsBounded ==
    \A e \in Emails : email[e].tries < MaxTries + Cardinality(Mailers)
=============================================================================

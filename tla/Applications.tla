------------------------------ MODULE Applications ------------------------------
(***************************************************************************)
(* Customer applications: the sign-up that opens one (routes/public.ts),   *)
(* its review by authors (routes/author/customers.ts, the alpha allow list *)
(* of index.ts), the suspension of an account, and the mails all of them   *)
(* leave in the outbox (routes/customer/access.ts resends one).            *)
(*                                                                         *)
(* A review reads the application, reads it again inside a transaction of  *)
(* the database's default isolation (READ COMMITTED), and commits: nothing *)
(* stops two reviews from both passing the second read.                    *)
(***************************************************************************)
EXTENDS Naturals

CONSTANTS
    Customers,      \* people who sign up, one address each
    Reviews,        \* review requests, each of an author
    MaxSuspensions  \* bound: suspensions

ASSUME ApplicationAssumption == MaxSuspensions \in Nat

VARIABLES
    access,         \* customer -> customerAccessStatus, or "none" without an account
    decision,       \* customer -> decision of the application: "none", "open", or the verdict
    mails,          \* rows of EmailOutbox as <<customer, type>>; the dedupe key makes each one unique
    signup,         \* customer -> step of the sign-up request
    review,         \* review request -> where it is, whom it reviews, its verdict
    suspensions

applicationVars == <<access, decision, mails, signup, review, suspensions>>

Verdicts == {"APPROVED", "REJECTED"}

ApplicationTypeOK ==
    /\ access \in [Customers -> {"none", "PENDING_REVIEW", "APPROVED", "REJECTED", "SUSPENDED"}]
    /\ decision \in [Customers -> {"none", "open"} \cup Verdicts]
    /\ mails \subseteq Customers \X ({"IN_REVIEW"} \cup Verdicts)
    /\ signup \in [Customers -> {"none", "user", "application", "done"}]
    /\ review \in [Reviews -> [at : {"idle", "done"}] \cup
                              [at : {"read", "fresh", "allow", "allowAccount"}, of : Customers, verdict : Verdicts]]
    /\ suspensions \in 0 .. MaxSuspensions

ApplicationInit ==
    /\ access = [c \in Customers |-> "none"]
    /\ decision = [c \in Customers |-> "none"]
    /\ mails = {}
    /\ signup = [c \in Customers |-> "none"]
    /\ review = [r \in Reviews |-> [at |-> "idle"]]
    /\ suspensions = 0

-----------------------------------------------------------------------------
(* Sign-up: three writes, one after the other.                             *)

CreateCustomer(c) ==
    /\ signup[c] = "none" /\ access[c] = "none"
    /\ access' = [access EXCEPT ![c] = "PENDING_REVIEW"]
    /\ signup' = [signup EXCEPT ![c] = "user"]
    /\ UNCHANGED <<decision, mails, review, suspensions>>

CreateApplication(c) ==
    /\ signup[c] = "user"
    /\ decision' = [decision EXCEPT ![c] = "open"]
    /\ signup' = [signup EXCEPT ![c] = "application"]
    /\ UNCHANGED <<access, mails, review, suspensions>>

QueueReceived(c) ==
    /\ signup[c] = "application"
    /\ mails' = mails \cup {<<c, "IN_REVIEW">>}
    /\ signup' = [signup EXCEPT ![c] = "done"]
    /\ UNCHANGED <<access, decision, review, suspensions>>

\* The API dies between the writes; a second attempt finds the account and stops there.
SignupStops(c) ==
    /\ signup[c] \in {"user", "application"}
    /\ signup' = [signup EXCEPT ![c] = "done"]
    /\ UNCHANGED <<access, decision, mails, review, suspensions>>

\* POST /resend-review-email: a pending customer with an open application.
ResendReceived(c) ==
    /\ access[c] = "PENDING_REVIEW" /\ decision[c] = "open"
    /\ mails' = mails \cup {<<c, "IN_REVIEW">>}
    /\ UNCHANGED <<access, decision, signup, review, suspensions>>

-----------------------------------------------------------------------------
(* Review.                                                                 *)

ReadApplication(r, c, v) ==
    /\ review[r].at = "idle" /\ decision[c] = "open"
    /\ review' = [review EXCEPT ![r] = [at |-> "read", of |-> c, verdict |-> v]]
    /\ UNCHANGED <<access, decision, mails, signup, suspensions>>

RecheckApplication(r) ==
    /\ review[r].at = "read"
    /\ review' = [review EXCEPT ![r] =
          IF decision[@.of] = "open" THEN [@ EXCEPT !.at = "fresh"] ELSE [at |-> "done"]]
    /\ UNCHANGED <<access, decision, mails, signup, suspensions>>

\* The review's writes, in one transaction: the account, the application and the mail.
Decide(r, c, v) ==
    /\ access' = [access EXCEPT ![c] = v]
    /\ decision' = [decision EXCEPT ![c] = v]
    /\ mails' = mails \cup {<<c, v>>}
    /\ review' = [review EXCEPT ![r] = [at |-> "done"]]
    /\ UNCHANGED <<signup, suspensions>>

\* Fault: the account is updated outside the transaction, and the rest of it rolls back.
CommitAccountOnly(r) ==
    /\ review[r].at = "fresh"
    /\ access' = [access EXCEPT ![review[r].of] = review[r].verdict]
    /\ review' = [review EXCEPT ![r] = [at |-> "done"]]
    /\ UNCHANGED <<decision, mails, signup, suspensions>>

CommitReview(r) ==
    /\ review[r].at = "fresh"
    /\ Decide(r, review[r].of, review[r].verdict)

\* POST /api/admin/alpha/allow: the open application, if there is one, is read before the
\* transaction and is not read again in it.
ReadAllow(r, c) ==
    /\ review[r].at = "idle" /\ access[c] # "none"
    /\ review' = [review EXCEPT ![r] =
          [at |-> IF decision[c] = "open" THEN "allow" ELSE "allowAccount",
           of |-> c, verdict |-> "APPROVED"]]
    /\ UNCHANGED <<access, decision, mails, signup, suspensions>>

CommitAllow(r) ==
    /\ review[r].at = "allow"
    /\ Decide(r, review[r].of, "APPROVED")

CommitAllowAccount(r) ==
    /\ review[r].at = "allowAccount"
    /\ access' = [access EXCEPT ![review[r].of] = "APPROVED"]
    /\ review' = [review EXCEPT ![r] = [at |-> "done"]]
    /\ UNCHANGED <<decision, mails, signup, suspensions>>

-----------------------------------------------------------------------------
(* Suspension: of any account, whatever its status; lifting it approves it. *)

Suspend(c) ==
    /\ access[c] # "none"
    /\ suspensions < MaxSuspensions /\ suspensions' = suspensions + 1
    /\ access' = [access EXCEPT ![c] = "SUSPENDED"]
    /\ UNCHANGED <<decision, mails, signup, review>>

Unsuspend(c) ==
    /\ access[c] = "SUSPENDED"
    /\ access' = [access EXCEPT ![c] = "APPROVED"]
    /\ UNCHANGED <<decision, mails, signup, review, suspensions>>

ApplicationNext ==
    \/ \E c \in Customers :
          CreateCustomer(c) \/ CreateApplication(c) \/ QueueReceived(c) \/ SignupStops(c)
          \/ ResendReceived(c) \/ Suspend(c) \/ Unsuspend(c)
    \/ \E r \in Reviews :
          \/ \E c \in Customers, v \in Verdicts : ReadApplication(r, c, v)
          \/ \E c \in Customers : ReadAllow(r, c)
          \/ RecheckApplication(r) \/ CommitReview(r)
          \/ CommitAllow(r) \/ CommitAllowAccount(r)

ApplicationSpec == ApplicationInit /\ [][ApplicationNext]_applicationVars

-----------------------------------------------------------------------------
(* Properties.                                                             *)

\* However reviews, the allow list and suspensions interleave, a refused account has an
\* application that says so, and a decided application has the mail that tells the customer.
DecisionIsTold ==
    \A c \in Customers :
        /\ access[c] = "REJECTED" => decision[c] = "REJECTED"
        /\ decision[c] \in Verdicts => <<c, decision[c]>> \in mails
=============================================================================

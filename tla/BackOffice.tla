------------------------------- MODULE BackOffice -------------------------------
(***************************************************************************)
(* Webhooks, mails, applications, budgets, event retention and spot prices *)
(* side by side, as in Fleet: they share no variable, and a behaviour is   *)
(* one of the component `desk' names.                                      *)
(***************************************************************************)
EXTENDS WebhookDelivery, EmailOutbox, Applications, BudgetMonitor, EventRetention, SpotPricing

VARIABLE desk

backOfficeVars ==
    <<desk, webhookVars, emailVars, applicationVars, budgetVars, retentionVars, spotVars>>

Desks == {"webhooks", "mails", "applications", "budgets", "retention", "prices"}

BackOfficeTypeOK ==
    /\ desk \in Desks
    /\ WebhookTypeOK /\ EmailTypeOK /\ ApplicationTypeOK
    /\ BudgetTypeOK /\ RetentionTypeOK /\ SpotTypeOK

BackOfficeInit ==
    /\ desk \in Desks
    /\ WebhookInit /\ EmailInit /\ ApplicationInit /\ BudgetInit /\ RetentionInit /\ SpotInit

BackOfficeNext ==
    \/ /\ desk = "webhooks" /\ WebhookNext
       /\ UNCHANGED <<desk, emailVars, applicationVars, budgetVars, retentionVars, spotVars>>
    \/ /\ desk = "mails" /\ EmailNext
       /\ UNCHANGED <<desk, webhookVars, applicationVars, budgetVars, retentionVars, spotVars>>
    \/ /\ desk = "applications" /\ ApplicationNext
       /\ UNCHANGED <<desk, webhookVars, emailVars, budgetVars, retentionVars, spotVars>>
    \/ /\ desk = "budgets" /\ BudgetNext
       /\ UNCHANGED <<desk, webhookVars, emailVars, applicationVars, retentionVars, spotVars>>
    \/ /\ desk = "retention" /\ RetentionNext
       /\ UNCHANGED <<desk, webhookVars, emailVars, applicationVars, budgetVars, spotVars>>
    \/ /\ desk = "prices" /\ SpotNext
       /\ UNCHANGED <<desk, webhookVars, emailVars, applicationVars, budgetVars, retentionVars>>

\* The fairness of each component's specification, for the behaviours that are its own.
BackOfficeFairness ==
    /\ \A d \in Deliveries :
          /\ WF_webhookVars(desk = "webhooks" /\ Inline(d))
          /\ \A s \in Senders : WF_webhookVars(desk = "webhooks" /\ TakeDelivery(s, d))
    /\ \A s \in Senders : WF_webhookVars(desk = "webhooks" /\ Attempt(s))
    /\ \A e \in Emails : WF_emailVars(desk = "mails" /\ RecoverEmail(e))
    /\ \A m \in Mailers : WF_emailVars(desk = "mails" /\ MailerStep(m))
    /\ \A a \in Accounts : WF_budgetVars(desk = "budgets" /\ CooldownEnds(a))
    /\ \A p \in BudgetPasses : WF_budgetVars(desk = "budgets" /\ BudgetStep(p))

BackOfficeSpec == BackOfficeInit /\ [][BackOfficeNext]_backOfficeVars /\ BackOfficeFairness
=============================================================================

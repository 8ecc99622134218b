------------------------------ MODULE MCBilling ------------------------------
(* Small instances of Billing.                                             *)
EXTENDS Billing, TLC

CONSTANTS
    w1,   \* a Celery worker
    r1    \* a call of POST /invoices/{id}/pay

(* A subscription on trial whose client has sent one retry along.          *)
SomeSignups == {[status |-> "trialing", retry |-> 1]}

(* One without a trial and without a count.                                *)
FreshSignups == {[status |-> "active", retry |-> 0]}

================================================================================

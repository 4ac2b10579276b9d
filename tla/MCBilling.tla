------------------------------ MODULE MCBilling ------------------------------
EXTENDS Billing

\* January to April of a common year; the lease ends in the middle of March.
Calendar == <<1, 32, 60, 91, 121>>

=============================================================================

------------------------------ MODULE MCSettled -----------------------------
\* The same small instances, with the history of their tickets.
EXTENDS SettledTickets, MCTickets
=============================================================================

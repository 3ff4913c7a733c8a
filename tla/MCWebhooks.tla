----------------------------- MODULE MCWebhooks -----------------------------
EXTENDS Webhooks

\* Statuses of one request and a deposit, which is webhook 4.
MCRequest == [w \in Hook |-> IF w < 4 THEN 1 ELSE None]
=============================================================================

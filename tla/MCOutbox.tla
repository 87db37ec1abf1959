------------------------------ MODULE MCOutbox ------------------------------
(* Three mails, one of them refused for ever, and a schedule of two steps.    *)
EXTENDS Outbox

CONSTANTS good, good2, bad

MCBackoff == <<1, 2>>

=============================================================================

------------------------------ MODULE MCJanitor ------------------------------
(* Days of two probes; a batch of one day and a chunk of one row, so that one *)
(* pass is seldom enough.                                                    *)
EXTENDS Janitor

MCRawDays    == {1, 2}
MCRollupDays == {1, 2}

=============================================================================

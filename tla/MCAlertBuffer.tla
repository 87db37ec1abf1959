---------------------------- MODULE MCAlertBuffer ----------------------------
(* A site of two devices that share a list, and two devices of no group with *)
(* another list.                                                            *)
EXTENDS AlertBuffer

CONSTANTS d1, d2, lone1, lone2, site

MCGroupOf    == [d \in Devices |-> IF d \in {d1, d2} THEN site ELSE Ungrouped]
MCRecipients == [g \in {site, Ungrouped} |-> IF g = site THEN {"noc"} ELSE {"lab"}]
MCSymmetry   == Permutations({d1, d2}) \cup Permutations({lone1, lone2})

=============================================================================

------------------------------ MODULE MCAuditOutbox ------------------------------
(***************************************************************************)
(* TLC instances of AuditOutbox.                                           *)
(***************************************************************************)
EXTENDS AuditOutbox, TLC

CONSTANTS e1, e2, w1, w2, d1

\* Workers, and events, that differ in nothing but their name.
Symmetry == Permutations(Workers) \cup Permutations(Events)
=================================================================================

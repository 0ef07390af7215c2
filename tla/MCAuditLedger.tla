--------------------------- MODULE MCAuditLedger ---------------------------
(* Two daemon tasks and two of the local UI on the same ledger file.       *)
EXTENDS AuditLedger

CONSTANTS daemon, ui, d1, d2, u1, u2

MCProc == [t \in {d1, d2, u1, u2} |-> IF t \in {u1, u2} THEN ui ELSE daemon]

=============================================================================

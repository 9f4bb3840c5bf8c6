----------------------------- MODULE MCSqlGateway -----------------------------
(* Small instances of SqlGateway for TLC. *)
EXTENDS SqlGateway

\* The cap, and a product that wrapped around.
SomeGarbage == {Cap, -296}
=============================================================================

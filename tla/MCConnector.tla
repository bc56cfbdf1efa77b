----------------------------- MODULE MCConnector -----------------------------
(* Small instances of Connector for TLC.                                    *)
EXTENDS Connector, TLC

=============================================================================

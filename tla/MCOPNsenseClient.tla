-------------------------- MODULE MCOPNsenseClient --------------------------
(***************************************************************************)
(* The instance of OPNsenseClient for TLC.                                 *)
(***************************************************************************)
EXTENDS OPNsenseClient

\* A proxy's page, an empty value of each kind, reported failures.
SomeBodies == {Text, Null, Array(0), Object(<<>>), Object([status |-> "failed"]),
               Object([result |-> "failed"]),
               Object([result |-> "failed", validations |-> "empty"])}
=============================================================================

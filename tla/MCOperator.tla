----------------------------- MODULE MCOperator -----------------------------
(***************************************************************************)
(* Small instances of Operator for TLC.                                    *)
(***************************************************************************)
EXTENDS Operator, TLC

CONSTANTS creds, fw1, fw2

Conn(url) == [url |-> url, secret |-> creds, skip |-> FALSE, ca |-> creds]

\* A connection that stays with its firewall, and one that is moved to another.
OneFirewall == {Conn(fw1)}
TwoFirewalls == {Conn(fw1), Conn(fw2)}

\* One Secret holds the credentials and the certificate.
Good == [keys |-> "accepted", ca |-> "signer"]
GoodContents == {Good}

UUIDSymmetry == Permutations(UUIDs)
=============================================================================

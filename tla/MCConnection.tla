---------------------------- MODULE MCConnection ----------------------------
(***************************************************************************)
(* Small instances of Connection for TLC.                                  *)
(***************************************************************************)
EXTENDS Connection

CONSTANTS k1, creds, ca, fw

Conn(skip, authority) == [url |-> fw, secret |-> creds, skip |-> skip, ca |-> authority]

\* The ways to configure TLS, with a Secret for the authority's certificate.
TwoSpecs == {Conn(FALSE, None), Conn(TRUE, ca)}
AllSpecs == {Conn(skip, a) : skip \in BOOLEAN, a \in {None, ca}}

Data(keys, authority) == [keys |-> keys, ca |-> authority]

\* A connection asks each Secret for one of its two parts.
TwoContents == {Data("accepted", "signer"), Data("incomplete", "invalid")}
AllContents == TwoContents \union {Data("refused", "stranger")}
=============================================================================

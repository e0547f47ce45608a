------------------------------- MODULE MCAlias -------------------------------
(***************************************************************************)
(* Small instances of Alias for TLC.                                       *)
(***************************************************************************)
EXTENDS Alias, TLC

CONSTANTS c1, c2, web, db, good, other, bad, text

Spec1(n, b, d, e) == [name |-> n, content |-> b, desc |-> d, enabled |-> e]

Plain(n) == {Spec1(n, good, None, TRUE), Spec1(n, other, None, TRUE)}

\* Each resource keeps a name of its own; one spec is disabled, one is rejected.
OwnName == [c \in CRs |-> IF c = c1
              THEN Plain(web) \union {Spec1(web, good, None, FALSE), Spec1(web, bad, None, TRUE)}
              ELSE Plain(db)]
LiveSpecs == [c \in CRs |-> {Spec1(web, good, None, TRUE), Spec1(web, bad, None, TRUE)}]
OneEach == [c \in CRs |-> {Spec1(IF c = c1 THEN web ELSE db, good, None, TRUE)}]
OneSpec == [c \in CRs |-> {Spec1(web, good, None, TRUE)}]

\* Specs that violate one of those habits: a name that changes, a description
\* that is removed, two resources that ask for different aliases of one name.
Renamed == [c \in CRs |-> {Spec1(web, good, None, TRUE), Spec1(db, good, None, TRUE)}]
Described == [c \in CRs |-> {Spec1(web, good, text, TRUE), Spec1(web, good, None, TRUE)}]
Rivals == [c \in CRs |-> {Spec1(web, IF c = c1 THEN good ELSE other, None, TRUE)}]

UUIDSymmetry == Permutations(UUIDs)
=============================================================================

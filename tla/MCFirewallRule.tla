--------------------------- MODULE MCFirewallRule ---------------------------
(***************************************************************************)
(* Small instances of FirewallRule for TLC.                                *)
(***************************************************************************)
EXTENDS FirewallRule, TLC

CONSTANTS c1, c2, good, other, bad, s1, s2

BodySet == {good, other, bad}

Spec1(b, e, n) == [body |-> b, enabled |-> e, seq |-> n]

\* Two specs that differ in content, one that is disabled, one that OPNsense
\* rejects, one that pins the sequence.
OneSpec == {Spec1(good, TRUE, None)}
PlainSpecs == OneSpec \union {Spec1(other, TRUE, None)}
OffSpecs == OneSpec \union {Spec1(good, FALSE, None)}
LiveSpecs == OneSpec \union {Spec1(bad, TRUE, None)}
AllSpecs == PlainSpecs \union OffSpecs \union
  {Spec1(bad, TRUE, None), Spec1(good, TRUE, s1)}

\* No resource's phrase occurs in another's suffix.
OwnOnly == {<<c, c>> : c \in CRs}

\* The phrase of c1 ("default/a") occurs in the suffix of c2 ("default/ab").
Overlapping == OwnOnly \union {<<c1, c2>>}

UUIDSymmetry == Permutations(UUIDs)
FullSymmetry == UUIDSymmetry \union Permutations(CRs)
=============================================================================

-------------------------- MODULE ManagedResource --------------------------
(***************************************************************************)
(* What a controller of this operator promises about one kind of resource, *)
(* without saying how: no calls, no copies, no requests in flight.         *)
(*                                                                         *)
(* A resource is guarded by a finalizer before the identifier of an entity *)
(* on the firewall is recorded in its status.  Only a guarded resource is  *)
(* held back when it is deleted, and it is let go only when the entity it  *)
(* recorded last is gone.  An identifier that is recorded and gone never   *)
(* comes back to life.  The controllers' modules implement this            *)
(* specification.                                                          *)
(***************************************************************************)
CONSTANTS
  CRs,    \* resources
  UUIDs,  \* identifiers of entities on the firewall
  None    \* no resource, no identifier

VARIABLES
  object,  \* resource -> [guarded, deleting, uuid], or None
  live     \* identifiers of the entities the firewall still knows or enforces

Init ==
  /\ object = [c \in CRs |-> None]
  /\ live = {}

Exists(c) == object[c] # None
Becomes(c, o) == object' = [object EXCEPT ![c] = o] /\ UNCHANGED live

Declare(c) ==
  /\ ~ Exists(c)
  /\ Becomes(c, [guarded |-> FALSE, deleting |-> FALSE, uuid |-> None])

Guard(c) ==
  /\ Exists(c) /\ ~ object[c].guarded
  /\ Becomes(c, [guarded |-> TRUE, deleting |-> FALSE, uuid |-> None])

Record(c, u) ==
  /\ Exists(c) /\ object[c].guarded /\ ~ object[c].deleting
  /\ Becomes(c, [guarded |-> TRUE, deleting |-> FALSE, uuid |-> u])

Withdraw(c) ==
  /\ Exists(c) /\ ~ object[c].guarded
  /\ Becomes(c, None)

Condemn(c) ==
  /\ Exists(c) /\ object[c].guarded
  /\ Becomes(c, [guarded |-> TRUE, deleting |-> TRUE, uuid |-> object[c].uuid])

Release(c) ==
  /\ Exists(c) /\ object[c].guarded /\ object[c].deleting
  /\ object[c].uuid \notin live
  /\ Becomes(c, None)

\* The firewall, on whoever's behalf: entities vanish, and one may appear under
\* an identifier no resource has recorded.
FirewallChanges ==
  /\ \E new \in SUBSET UUIDs :
       /\ \A u, v \in new : u = v
       /\ \A u \in new, c \in CRs : Exists(c) => object[c].uuid # u
       /\ live' \subseteq live \union new
  /\ UNCHANGED object

Next ==
  \/ \E c \in CRs : \/ Declare(c) \/ Guard(c) \/ Withdraw(c) \/ Condemn(c) \/ Release(c)
                    \/ \E u \in UUIDs : Record(c, u)
  \/ FirewallChanges

Spec == Init /\ [][Next]_<<object, live>>
=============================================================================

-------------------------- MODULE OPNsenseFilter ---------------------------
(***************************************************************************)
(* The firewall-rule half of the OPNsense REST API, as internal/opnsense   *)
(* and docs/opnsense-filter-api-spec.md use it (external code).            *)
(*                                                                         *)
(* addRule, setRule and delRule change the staged configuration; apply     *)
(* copies all of it into the running firewall.  A request whose connection *)
(* breaks may still sit in the firewall's queue and be served later.       *)
(***************************************************************************)
EXTENDS FiniteSets, Integers

CONSTANTS
  CRs,          \* the FirewallRule resources, which own rules by managed suffix
  UUIDs,        \* rule identifiers
  Bodies,       \* every field of a rule but its suffix, enabled, sequence and uuid
  ValidBodies,  \* the bodies OPNsense's validation accepts
  Seqs,         \* rule ordering positions
  Mentions,     \* <<c, d>>: the phrase "ns/name" of c occurs in d's suffix
  MaxLate,      \* bound: requests that wait in the firewall at a time
  None          \* no rule, no owner, sequence left out

VARIABLES
  staged,   \* the configuration model: UUID -> rule or None
  running,  \* the live packet filter
  late      \* requests the client has given up on and the firewall has not served

Rules == [owner: CRs \union {None}, body: Bodies, enabled: BOOLEAN, seq: Seqs]
Payloads == [owner: CRs, body: Bodies, enabled: BOOLEAN, seq: Seqs \union {None}]
Requests == [op: {"create", "update", "delete", "apply"},
             uuid: UUIDs \union {None}, rule: Payloads]

FilterTypeOK ==
  /\ staged \in [UUIDs -> Rules \union {None}]
  /\ running \in [UUIDs -> Rules \union {None}]
  /\ late \subseteq Requests

FilterInit ==
  /\ staged = [u \in UUIDs |-> None]
  /\ running = [u \in UUIDs |-> None]
  /\ late = {}

Present(u) == u # None /\ staged[u] # None
Accepts(p) == p.body \in ValidBodies

----------------------------------------------------------------------------
\* Reads.

\* searchRule is a substring match over descriptions.
SearchHits(c) ==
  {u \in UUIDs : staged[u] # None /\ staged[u].owner # None
                 /\ <<c, staged[u].owner>> \in Mentions}

----------------------------------------------------------------------------
\* Writes.  An omitted sequence is assigned by addRule and kept by setRule.

AddRule(u, p) ==
  /\ Accepts(p)
  /\ staged[u] = None
  /\ \E s \in Seqs :
       /\ p.seq # None => s = p.seq
       /\ staged' = [staged EXCEPT ![u] =
                       [owner |-> p.owner, body |-> p.body,
                        enabled |-> p.enabled, seq |-> s]]
  /\ UNCHANGED running

SetRule(u, p) ==
  /\ Present(u)
  /\ Accepts(p)
  /\ staged' = [staged EXCEPT ![u] =
                  [owner |-> p.owner, body |-> p.body, enabled |-> p.enabled,
                   seq |-> IF p.seq = None THEN @.seq ELSE p.seq]]
  /\ UNCHANGED running

DelRule(u) ==
  /\ Present(u)
  /\ staged' = [staged EXCEPT ![u] = None]
  /\ UNCHANGED running

Apply == running' = staged /\ UNCHANGED staged

\* What serving request r does to the firewall; u is the identifier a created
\* rule receives.
Serve(r, u) ==
  \/ r.op = "create" /\ AddRule(u, r.rule)
  \/ r.op = "update" /\ SetRule(r.uuid, r.rule)
  \/ r.op = "delete" /\ DelRule(r.uuid)
  \/ r.op = "apply" /\ Apply

\* A request that changes nothing: its target is gone or its payload invalid.
Rejected(r) ==
  \/ r.op \in {"create", "update"} /\ ~ Accepts(r.rule)
  \/ r.op \in {"update", "delete"} /\ ~ Present(r.uuid)

ServeLate(r, u) ==
  /\ r \in late
  /\ late' = late \ {r}
  /\ \/ Serve(r, u)
     \/ Rejected(r) /\ UNCHANGED <<staged, running>>

\* A write whose caller sees an error although the outcome is open: the request
\* never arrived, was served and the reply lost, or is still on its way.
LoseCall(r, u) ==
  \/ UNCHANGED <<staged, running, late>>
  \/ Serve(r, u) /\ UNCHANGED late
  \/ /\ Cardinality(late) < MaxLate
     /\ late' = late \union {r}
     /\ UNCHANGED <<staged, running>>

----------------------------------------------------------------------------
\* The firewall's administrator, working in the web interface.

AdminEdits(u, b) ==
  /\ Present(u) /\ b \in ValidBodies /\ staged[u].body # b
  /\ staged' = [staged EXCEPT ![u] = [@ EXCEPT !.body = b]]
  /\ UNCHANGED <<running, late>>

AdminDeletes(u) == DelRule(u) /\ UNCHANGED late

\* The interface's "clone" copies the description, managed suffix included.
AdminClones(u, v) ==
  /\ Present(u) /\ staged[v] = None
  /\ staged' = [staged EXCEPT ![v] = staged[u]]
  /\ UNCHANGED <<running, late>>

\* Rewriting the description drops the managed suffix.
AdminRedescribes(u) ==
  /\ Present(u) /\ staged[u].owner # None
  /\ staged' = [staged EXCEPT ![u] = [@ EXCEPT !.owner = None]]
  /\ UNCHANGED <<running, late>>

AdminApplies == running # staged /\ Apply /\ UNCHANGED late
=============================================================================

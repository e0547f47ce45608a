--------------------------- MODULE OPNsenseAlias ---------------------------
(***************************************************************************)
(* The alias half of the OPNsense REST API, as internal/opnsense and its   *)
(* tests use it (external code).  addItem, setItem and delItem change the  *)
(* staged configuration, reconfigure puts all of it into force.  A name    *)
(* may be taken only once, and a field a request leaves out is kept.       *)
(***************************************************************************)
CONSTANTS
  UUIDs,          \* alias identifiers
  Names,          \* alias names
  Contents,       \* an alias's type and entries
  ValidContents,  \* those OPNsense's validation accepts
  Descs,          \* descriptions other than the empty one
  None            \* no alias; the empty description

VARIABLES
  staged,   \* the configuration model: UUID -> alias or None
  running   \* the aliases in force

Aliases == [name: Names, content: Contents, desc: Descs \union {None},
            enabled: BOOLEAN]

AliasTypeOK ==
  /\ staged \in [UUIDs -> Aliases \union {None}]
  /\ running \in [UUIDs -> Aliases \union {None}]

AliasInit ==
  /\ staged = [u \in UUIDs |-> None]
  /\ running = [u \in UUIDs |-> None]

Present(u) == u # None /\ staged[u] # None

Named(n) == {u \in UUIDs : staged[u] # None /\ staged[u].name = n}

\* encodeAlias: the fields of a request; an empty description is left out.
EncodeAlias(a) ==
  IF a.desc = None THEN [name |-> a.name, content |-> a.content, enabled |-> a.enabled] ELSE a

\* What a request makes of an alias: a field it leaves out is kept.
Merge(old, request) ==
  [f \in DOMAIN old \union DOMAIN request |->
     IF f \in DOMAIN request THEN request[f] ELSE old[f]]

\* u is the alias that is written.
Accepts(request, u) ==
  request.content \in ValidContents /\ Named(request.name) \subseteq {u}

AddItem(u, request) ==
  /\ staged[u] = None
  /\ Accepts(request, u)
  /\ staged' = [staged EXCEPT ![u] = Merge([desc |-> None], request)]
  /\ UNCHANGED running

SetItem(u, request) ==
  /\ Present(u)
  /\ Accepts(request, u)
  /\ staged' = [staged EXCEPT ![u] = Merge(staged[u], request)]
  /\ UNCHANGED running

DelItem(u) ==
  /\ Present(u)
  /\ staged' = [staged EXCEPT ![u] = None]
  /\ UNCHANGED running

Reconfigure == running' = staged /\ UNCHANGED staged

\* The firewall's administrator, working in the web interface.
AdminAdds(u, n, b) ==
  AddItem(u, [name |-> n, content |-> b, enabled |-> TRUE])

AdminEdits(u, b) ==
  /\ Present(u) /\ b \in ValidContents /\ staged[u].content # b
  /\ staged' = [staged EXCEPT ![u] = [@ EXCEPT !.content = b]]
  /\ UNCHANGED running
=============================================================================

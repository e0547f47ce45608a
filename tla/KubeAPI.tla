------------------------------ MODULE KubeAPI ------------------------------
(***************************************************************************)
(* The Kubernetes side of one controller, as the code under src/ relies on *)
(* it (external code: the API server and controller-runtime's informer and *)
(* work queue).                                                            *)
(*                                                                         *)
(* An object's resourceVersion is abstracted by its content: an update is  *)
(* accepted when the stored object still equals the copy it was computed   *)
(* from.  A version that changed and changed back would be refused by the  *)
(* API server; the refusal looks to the controller like a failed call,     *)
(* which every write may be anyway.                                        *)
(***************************************************************************)
EXTENDS Integers

CONSTANTS
  CRs,          \* custom resources of this kind, by namespace/name
  Specs,        \* the specs a user may write
  Statuses,     \* values of the status subresource
  EmptyStatus,  \* the status of an object nobody has reconciled
  MaxGen,       \* bound: no user edits beyond this metadata.generation
  None          \* "no such object"

VARIABLES
  api,    \* what the API server stores for each resource, or None
  cache,  \* the informer's copy, which Get reads and which lags api
  queue   \* resources waiting in the controller's work queue

Objects == [gen: Nat, spec: Specs, deleting: BOOLEAN,
            finalizer: BOOLEAN, status: Statuses]

KubeTypeOK ==
  /\ api \in [CRs -> Objects \union {None}]
  /\ cache \in [CRs -> Objects \union {None}]
  /\ queue \subseteq CRs

KubeInit ==
  /\ api = [c \in CRs |-> None]
  /\ cache = [c \in CRs |-> None]
  /\ queue = {}

----------------------------------------------------------------------------
\* Users of the cluster.

UserCreates(c, s) ==
  /\ api[c] = None
  /\ api' = [api EXCEPT ![c] = [gen |-> 1, spec |-> s, deleting |-> FALSE,
                                finalizer |-> FALSE, status |-> EmptyStatus]]
  /\ UNCHANGED <<cache, queue>>

\* The API server increments metadata.generation when the spec changes.
UserEdits(c, s) ==
  /\ api[c] # None
  /\ api[c].spec # s
  /\ api[c].gen < MaxGen
  /\ api' = [api EXCEPT ![c] = [@ EXCEPT !.spec = s, !.gen = api[c].gen + 1]]
  /\ UNCHANGED <<cache, queue>>

\* With a finalizer present the object is only marked (deletionTimestamp).
UserDeletes(c) ==
  /\ api[c] # None
  /\ ~ api[c].deleting
  /\ api' = [api EXCEPT ![c] =
               IF @.finalizer THEN [@ EXCEPT !.deleting = TRUE] ELSE None]
  /\ UNCHANGED <<cache, queue>>

UserStep == \E c \in CRs : \/ \E s \in Specs : UserCreates(c, s) \/ UserEdits(c, s)
                           \/ UserDeletes(c)

----------------------------------------------------------------------------
\* The informer: a watch event updates the cache and queues the resource; the
\* periodic resync (on by default in controller-runtime) queues it unchanged.

WatchEvent(c) ==
  /\ cache[c] # api[c]
  /\ cache' = [cache EXCEPT ![c] = api[c]]
  /\ queue' = queue \union {c}
  /\ UNCHANGED api

Resync(c) ==
  /\ cache[c] # None
  /\ c \notin queue
  /\ queue' = queue \union {c}
  /\ UNCHANGED <<api, cache>>

\* A new manager process lists every object and queues it.
Relist ==
  /\ cache' = api
  /\ queue' = {c \in CRs : api[c] # None}
  /\ UNCHANGED api

----------------------------------------------------------------------------
\* Writes of a controller.  `copy` is the object the controller read, `new`
\* the one it sends.

Stored(c, copy, new) == api[c] = copy /\ api' = [api EXCEPT ![c] = new]
Conflict(c, copy) == api[c] # copy /\ UNCHANGED api
=============================================================================

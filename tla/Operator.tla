------------------------------ MODULE Operator ------------------------------
(***************************************************************************)
(* The manager process (cmd/main.go): the OPNsenseConnection controller    *)
(* and a controller of one of the two other kinds, each with its own       *)
(* worker, over the same API server, Secrets and firewalls.                *)
(*                                                                         *)
(* The step buildOPNsenseClient of modules FirewallRule and Alias is taken *)
(* apart here, into its reads of a connection, its Secret and its CA, while *)
(* what they take apart, bringing an entity (rule or alias) in line or     *)
(* removing it, is one step.  Both controllers' buildOPNsenseClient and    *)
(* delete paths are the same in this respect.                              *)
(***************************************************************************)
EXTENDS Integers

CONSTANTS
  Connections,      \* OPNsenseConnection resources
  ConnectionSpecs,  \* the specs users write for them
  Resources,        \* FirewallRule or Alias resources
  URLs, SecretNames, SecretContents, FirewallStates, EnvOps,
  UUIDs,            \* identifiers of entities (bound on how many)
  MaxConnGen,       \* bound: no edits of a connection beyond this generation
  MaxGen,           \* bound: no edits of a resource beyond this generation
  None

ASSUME OperatorAssumption ==
  None \notin Connections \union Resources \union UUIDs \union SecretNames

VARIABLES
  conns, connCache, connQueue,  \* the connections
  timer, check,                 \* the connection controller's timers and reconcile
  secrets, firewalls,
  api, cache, queue,            \* the resources; a spec is the connection's name
  work,                         \* the resource controller's reconcile
  remote                        \* UUID -> the firewall it is on and its owner

C == INSTANCE Connection WITH
  CRs <- Connections, Specs <- ConnectionSpecs, MaxGen <- MaxConnGen,
  api <- conns, cache <- connCache, queue <- connQueue, rec <- check

Statuses == [uuid: UUIDs \union {None}, obsGen: Nat,
             ready: {"Unknown", "False", "True"}]
EmptyStatus == [uuid |-> None, obsGen |-> 0, ready |-> "Unknown"]

INSTANCE KubeAPI WITH CRs <- Resources, Specs <- Connections

Entities == [url: URLs, owner: Resources]

\* What module Connection assumes of its constants.
ASSUME OperatorConnectionAssumption == C!ConnectionAssumption /\ C!ConnectionAbsentAssumption

\* The value that stands for an absent object or entity is none of them.
ASSUME OperatorAbsentAssumption == None \notin Objects /\ None \notin Entities

connectionVars == <<conns, connCache, connQueue, timer, check, secrets, firewalls>>
kubeVars == <<api, cache, queue>>
vars == <<connectionVars, kubeVars, work, remote>>

----------------------------------------------------------------------------
\* The resource controller's reconcile: next call, resource, the copy Get
\* returned, the connection it read, the credentials and TLS mode of its client.

Idle == [pc |-> "idle", cr |-> None, obj |-> None, conn |-> None, keys |-> None,
         tls |-> None, status |-> EmptyStatus, failed |-> FALSE]

Busy ==
  [pc: {"getConnection", "getSecret", "buildHTTP", "ensure", "remove",
        "addFinalizer", "removeFinalizer", "setStatus"},
   cr: Resources, obj: Objects, conn: C!Objects \union {None},
   keys: {None, "accepted", "refused"}, tls: {None, "skip", "system", "signer", "stranger"},
   status: Statuses, failed: BOOLEAN]

Return(err) ==
  /\ work' = Idle
  /\ queue' = IF err THEN queue \union {work.cr} ELSE queue
  /\ UNCHANGED cache

\* The reconcile without its client, which the last call does not need.
Begun(pc) == [Idle EXCEPT !.pc = pc, !.cr = work.cr, !.obj = work.obj]

\* Slip: the cause is reported but not returned, so nothing retries.
SetReadyFailedQuietly ==
  work' = [Begun("setStatus") EXCEPT !.status = [work.obj.status EXCEPT !.ready = "False"]]

SetReadyFailed ==
  work' = [Begun("setStatus") EXCEPT
             !.status = [work.obj.status EXCEPT !.ready = "False"], !.failed = TRUE]

Success(u) == [uuid |-> u, obsGen |-> work.obj.gen, ready |-> "True"]

UuidOf(obj) == IF obj = None THEN None ELSE obj.status.uuid

Fresh(u) ==
  /\ remote[u] = None
  /\ u # UuidOf(work.obj)
  /\ \A r \in Resources : u # UuidOf(api[r]) /\ u # UuidOf(cache[r])

Reconcile(r) ==
  LET obj == cache[r]
      Start(pc) == work' = [Idle EXCEPT !.pc = pc, !.cr = r, !.obj = obj]
  IN
  /\ work = Idle
  /\ r \in queue
  /\ queue' = queue \ {r}
  /\ \/ obj = None /\ UNCHANGED work
     \/ /\ obj # None
        /\ \/ obj.deleting /\ ~ obj.finalizer /\ UNCHANGED work
           \/ /\ obj.deleting /\ obj.finalizer /\ obj.status.uuid = None
              /\ Start("removeFinalizer")
           \/ ~ obj.deleting /\ ~ obj.finalizer /\ Start("addFinalizer")
           \/ /\ obj.finalizer
              /\ obj.deleting => obj.status.uuid # None
              /\ Start("getConnection")
  /\ UNCHANGED <<api, cache, connectionVars, remote>>

----------------------------------------------------------------------------
\* buildOPNsenseClient.

\* Slip: a connection that is gone is no reason to hold a deletion back.
GetConnectionOrRelease ==
  LET conn == connCache[work.obj.spec] IN
  /\ work.pc = "getConnection"
  /\ \/ /\ conn # None /\ conn.status.ready = "True"
        /\ work' = [work EXCEPT !.pc = "getSecret", !.conn = conn]
     \/ conn = None /\ work.obj.deleting /\ work' = Begun("removeFinalizer")
     \/ conn = None /\ ~ work.obj.deleting /\ SetReadyFailed
     \/ conn # None /\ conn.status.ready # "True" /\ SetReadyFailed
  /\ UNCHANGED <<connectionVars, kubeVars, remote>>

\* Slip: a connection need not be Ready.
GetConnectionUnready ==
  LET conn == connCache[work.obj.spec] IN
  /\ work.pc = "getConnection"
  /\ \/ conn # None /\ work' = [work EXCEPT !.pc = "getSecret", !.conn = conn]
     \/ conn = None /\ SetReadyFailed
  /\ UNCHANGED <<connectionVars, kubeVars, remote>>

\* Of the connection's Ready condition only the status is looked at.
GetConnection ==
  LET conn == connCache[work.obj.spec] IN
  /\ work.pc = "getConnection"
  /\ \/ /\ conn # None /\ conn.status.ready = "True"
        /\ work' = [work EXCEPT !.pc = "getSecret", !.conn = conn]
     \/ conn = None /\ SetReadyFailed
     \/ conn # None /\ conn.status.ready # "True" /\ SetReadyFailed
  /\ UNCHANGED <<connectionVars, kubeVars, remote>>

GetCredentials ==
  LET spec == work.conn.spec IN
  /\ work.pc = "getSecret"
  /\ \/ /\ C!HasCredentials(spec)
        /\ work' = [work EXCEPT !.pc = "buildHTTP", !.keys = secrets[spec.secret].keys]
     \/ ~ C!HasCredentials(spec) /\ SetReadyFailed
  /\ UNCHANGED <<connectionVars, kubeVars, remote>>

NewClient ==
  LET tls == C!BuildHTTPClient(work.conn.spec) IN
  /\ work.pc = "buildHTTP"
  /\ \/ /\ tls # "broken"
        /\ work' = [work EXCEPT !.tls = tls,
                                !.pc = IF work.obj.deleting THEN "remove" ELSE "ensure"]
     \/ tls = "broken" /\ SetReadyFailed
  /\ UNCHANGED <<connectionVars, kubeVars, remote>>

----------------------------------------------------------------------------
\* The entity, on the firewall the client was built for.

Url == work.conn.spec.url
Answers == C!Answers(Url, work.tls, work.keys)

On(u) == u # None /\ remote[u] # None /\ remote[u].url = Url

\* The recorded entity if the firewall knows it, else the one that is found by
\* suffix or name, else a new one.
Resolved ==
  LET recorded == work.obj.status.uuid
      own == {u \in UUIDs : On(u) /\ remote[u].owner = work.cr}
  IN IF On(recorded) THEN {recorded}
     ELSE IF own # {} THEN own ELSE {u \in UUIDs : Fresh(u)}

Put(u) == remote' = [remote EXCEPT ![u] = [url |-> Url, owner |-> work.cr]]

EnsureEntity ==
  /\ work.pc = "ensure"
  /\ \/ /\ Answers
        /\ \E u \in Resolved :
             /\ Put(u)
             /\ \/ work.obj.status = Success(u) /\ Return(FALSE)
                \/ /\ work.obj.status # Success(u)
                   /\ work' = [Begun("setStatus") EXCEPT !.status = Success(u)]
                   /\ UNCHANGED <<cache, queue>>
     \/ ~ Answers /\ SetReadyFailed /\ UNCHANGED <<cache, queue, remote>>
  /\ UNCHANGED <<connectionVars, api>>

\* An entity the firewall does not know counts as deleted.
RemoveEntity ==
  LET u == work.obj.status.uuid IN
  /\ work.pc = "remove"
  /\ \/ Answers /\ On(u) /\ remote' = [remote EXCEPT ![u] = None]
     \/ Answers /\ ~ On(u) /\ UNCHANGED remote
     \/ ~ Answers /\ UNCHANGED remote
  /\ IF Answers THEN work' = Begun("removeFinalizer") ELSE SetReadyFailed
  /\ UNCHANGED <<connectionVars, kubeVars>>

----------------------------------------------------------------------------
\* Writes to the API server.

Written ==
  CASE work.pc = "addFinalizer" -> [work.obj EXCEPT !.finalizer = TRUE]
    [] work.pc = "removeFinalizer" -> None
    [] work.pc = "setStatus" -> [work.obj EXCEPT !.status = work.status]

Update ==
  /\ work.pc \in {"addFinalizer", "removeFinalizer", "setStatus"}
  /\ \/ Stored(work.cr, work.obj, Written) /\ Return(work.failed)
     \/ Conflict(work.cr, work.obj) /\ Return(TRUE)
  /\ UNCHANGED <<connectionVars, remote>>

----------------------------------------------------------------------------
\* Failures.

\* A call on the way to the entity fails, or one of those on the entity after some
\* of them took effect.
CallFails ==
  /\ work.pc \in {"getConnection", "getSecret", "buildHTTP", "ensure", "remove"}
  /\ \/ UNCHANGED remote
     \/ work.pc = "ensure" /\ Answers /\ \E u \in Resolved : Put(u)
     \/ work.pc = "remove" /\ Answers /\ On(work.obj.status.uuid)
          /\ remote' = [remote EXCEPT ![work.obj.status.uuid] = None]
  /\ SetReadyFailed
  /\ UNCHANGED <<connectionVars, kubeVars>>

UpdateFails ==
  /\ work.pc \in {"addFinalizer", "removeFinalizer", "setStatus"}
  /\ UNCHANGED api \/ Stored(work.cr, work.obj, Written)
  /\ Return(TRUE)
  /\ UNCHANGED <<connectionVars, remote>>

\* The process dies with both workers; a new one starts every controller.
Restart ==
  /\ C!Crash
  /\ work' = Idle
  /\ Relist
  /\ UNCHANGED remote

----------------------------------------------------------------------------
\* The process: the controllers run side by side.

ConnectionCalls == C!Calls /\ UNCHANGED <<kubeVars, work, remote>>

ConnectionReconcile(c) == C!Reconcile(c) /\ UNCHANGED <<kubeVars, work, remote>>

TimerFires(c) == C!TimerFires(c) /\ UNCHANGED <<kubeVars, work, remote>>

ConnectionEnvironment ==
  /\ C!Failures \/ C!EnvStep \/ C!UserOrInformerStep
  /\ UNCHANGED <<kubeVars, work, remote>>

Calls == GetConnection \/ GetCredentials \/ NewClient \/ EnsureEntity \/ RemoveEntity \/ Update

UserOrInformerStep ==
  /\ UserStep \/ \E r \in Resources : WatchEvent(r) \/ Resync(r)
  /\ UNCHANGED <<connectionVars, work, remote>>

Init ==
  /\ C!Init
  /\ KubeInit
  /\ work = Idle
  /\ remote = [u \in UUIDs |-> None]

Next ==
  \/ ConnectionCalls
  \/ \E c \in Connections : ConnectionReconcile(c) \/ TimerFires(c)
  \/ ConnectionEnvironment
  \/ \E r \in Resources : Reconcile(r)
  \/ Calls
  \/ CallFails \/ UpdateFails
  \/ UserOrInformerStep
  \/ Restart

Spec == Init /\ [][Next]_vars

Informer ==
  \/ /\ \E c \in Connections : C!WatchEvent(c)
     /\ UNCHANGED <<timer, check, secrets, firewalls, kubeVars, work, remote>>
  \/ (\E r \in Resources : WatchEvent(r)) /\ UNCHANGED <<connectionVars, work, remote>>

\* Each worker finishes its calls, each queue is served, timers fire, the informer
\* delivers; nothing needs the ten-hour resync, for a resource that is not Ready
\* is retried after its error.
FairSpec ==
  /\ Spec
  /\ WF_vars(ConnectionCalls)
  /\ WF_vars(Calls)
  /\ WF_vars(Informer)
  /\ \A c \in Connections : SF_vars(ConnectionReconcile(c)) /\ WF_vars(TimerFires(c))
  /\ \A r \in Resources : SF_vars(Reconcile(r))

\* From some point on nothing changes but what the controllers do.
QuietNext ==
  \/ ConnectionCalls
  \/ Calls
  \/ Informer
  \/ \E c \in Connections : ConnectionReconcile(c) \/ TimerFires(c)
  \/ \E r \in Resources : Reconcile(r)

Quiet == <>[][QuietNext]_vars

----------------------------------------------------------------------------
\* Properties.

VarTypes ==
  /\ C!VarTypes
  /\ KubeTypeOK
  /\ work \in Busy \union {Idle}
  /\ remote \in [UUIDs -> Entities \union {None}]

\* What the client of a reconcile is made of by the time it makes a call.
ClientComplete ==
  /\ work.pc \in {"getSecret", "buildHTTP", "ensure", "remove"} =>
       work.conn \in C!Objects /\ work.conn.status.ready = "True"
  /\ work.pc \in {"buildHTTP", "ensure", "remove"} => work.keys \in {"accepted", "refused"}
  /\ work.pc \in {"ensure", "remove"} =>
       work.tls \in {"skip", "system", "signer", "stranger"}

\* Every variable has its type, and an entity is reached only with a client built from
\* a connection that was read and reported Ready, both credentials of its Secret and
\* TLS settings that could be built.
TypeOK == VarTypes /\ ClientComplete

\* What the abstract specification sees of an object.
Abstract(obj) ==
  IF obj = None THEN None
  ELSE [guarded |-> obj.finalizer, deleting |-> obj.deleting, uuid |-> obj.status.uuid]

\* As for stored objects: the absent one is none of them.
ASSUME OperatorAbstractAssumption ==
  None \notin [guarded: BOOLEAN, deleting: BOOLEAN, uuid: UUIDs \union {None}]

Live == {u \in UUIDs : remote[u] # None}

Managed == INSTANCE ManagedResource WITH
  CRs <- Resources,
  object <- [r \in Resources |-> Abstract(api[r])],
  live <- Live

\* A resource whose entity was recorded leaves the cluster only when that entity is
\* gone from its firewall, whatever happens meanwhile to its connection, as long as
\* that stays at one firewall, and to the Secrets it takes to reach the firewall.
Implements == Managed!Spec

\* buildOPNsenseClient "validates" the connection and its credentials "and returns
\* a ready-to-use OPNsense client": the connection a client is built for was
\* validated as it is, not as it was before its last edit.
OnlyValidatedUsed ==
  work.pc \in {"ensure", "remove"} => work.conn.status.obsGen = work.conn.gen

\* Once nothing changes any more, a resource whose connection can be used is Ready
\* with its entity on that firewall, or, if it is to be deleted, gone: neither a
\* connection that was deleted and made again nor one that was not Ready for a while
\* leaves it stuck.
Settles ==
  Quiet => \A r \in Resources :
    <>[](LET conn == conns[api[r].spec]
             status == api[r].status
         IN api[r] # None /\ conn # None /\ C!Usable(conn.spec) =>
              /\ ~ api[r].deleting
              /\ status = [uuid |-> status.uuid, obsGen |-> api[r].gen, ready |-> "True"]
              /\ status.uuid # None
              /\ remote[status.uuid] = [url |-> conn.spec.url, owner |-> r])
=============================================================================

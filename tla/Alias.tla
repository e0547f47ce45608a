------------------------------- MODULE Alias -------------------------------
(***************************************************************************)
(* The Alias controller (internal/controller/alias_controller.go) between  *)
(* the Kubernetes API and one OPNsense firewall.                           *)
(*                                                                         *)
(* As in FirewallRule, one worker runs, every call to the API server or to *)
(* OPNsense is a step, and rec is the reconcile in progress.  An alias     *)
(* carries no mark of its owner: it is found again by its name.            *)
(***************************************************************************)
EXTENDS Integers

CONSTANTS
  CRs,            \* Alias resources, by namespace/name
  UUIDs,          \* identifiers OPNsense gives to aliases (bound on how many)
  Names,          \* alias names
  Contents,       \* type and entries of an alias
  ValidContents,  \* those OPNsense's validation accepts
  Descs,          \* descriptions other than the empty one
  SpecsOf,        \* the specs users write for each resource
  AdminOps,       \* what the firewall's administrator does
  MaxGen,         \* bound: no user edits beyond this metadata.generation
  None            \* absent: object, alias, UUID; the empty description

Specs == UNION {SpecsOf[c] : c \in CRs}

ASSUME AliasNoneAssumption == None \notin CRs \union UUIDs \union Descs

\* The specs are closed under what writing an object back does to them.
ASSUME AliasSpecsAssumption ==
  /\ Specs \subseteq [name: Names, content: Contents, desc: Descs \union {None},
                      enabled: BOOLEAN]
  /\ \A c \in CRs, s \in Specs :
       s \in SpecsOf[c] => [s EXCEPT !.enabled = TRUE] \in SpecsOf[c]
  /\ ValidContents \subseteq Contents
  /\ MaxGen \in Nat
  /\ AdminOps \subseteq {"add", "edit", "delete", "apply"}

VARIABLES api, cache, queue, staged, running, rec

Statuses == [uuid: UUIDs \union {None}, obsGen: Nat,
             ready: {"Unknown", "False", "True"}]

EmptyStatus == [uuid |-> None, obsGen |-> 0, ready |-> "Unknown"]

INSTANCE KubeAPI
INSTANCE OPNsenseAlias

\* The value that stands for an absent object or alias is none of them.
ASSUME AliasAbsentAssumption == None \notin Objects /\ None \notin Aliases

kubeVars == <<api, cache, queue>>
aliasVars == <<staged, running>>
vars == <<kubeVars, aliasVars, rec>>

----------------------------------------------------------------------------
\* The reconcile in progress.

ReadCalls == {"getRecorded", "getByName", "getMatch"}
WriteCalls == {"create", "update", "reconfigure", "delete", "reconfigureDeleted"}
KubeCalls == {"addFinalizer", "removeFinalizer", "setStatus"}

Idle == [pc |-> "idle", cr |-> None, obj |-> None, uuid |-> None,
         status |-> EmptyStatus, failed |-> FALSE]

Busy ==
  [pc: {"buildClient"} \union ReadCalls \union WriteCalls \union KubeCalls,
   cr: CRs, obj: Objects, uuid: UUIDs \union {None}, status: Statuses,
   failed: BOOLEAN]

Return(err) ==
  /\ rec' = Idle
  /\ queue' = IF err THEN queue \union {rec.cr} ELSE queue
  /\ UNCHANGED cache

SetReadyFailed ==
  rec' = [rec EXCEPT !.pc = "setStatus", !.failed = TRUE,
                     !.status = [rec.obj.status EXCEPT !.ready = "False"]]

Success(u) == [uuid |-> u, obsGen |-> rec.obj.gen, ready |-> "True"]

SetReadySuccess(u) ==
  rec' = [rec EXCEPT !.pc = "setStatus", !.failed = FALSE, !.status = Success(u)]

\* specToAlias keeps every field.
Desired == EncodeAlias(rec.obj.spec)

\* Slip: the enabled flag is not compared.
AliasNeedsUpdateIfEnabled(spec, existing) ==
  spec.content # existing.content \/ spec.desc # existing.desc

\* The name is not compared.
AliasNeedsUpdate(spec, existing) ==
  \/ spec.enabled # existing.enabled
  \/ spec.content # existing.content
  \/ spec.desc # existing.desc

UuidOf(obj) == IF obj = None THEN None ELSE obj.status.uuid

\* OPNsense hands out random identifiers: a new one is found nowhere.
Fresh(u) ==
  /\ staged[u] = None /\ running[u] = None
  /\ \A c \in CRs : UuidOf(api[c]) # u /\ UuidOf(cache[c]) # u
  /\ u \notin {rec.uuid, UuidOf(rec.obj)}

----------------------------------------------------------------------------
\* Reconcile: dequeue, Get, and the checks before the first remote call.

Reconcile(c) ==
  LET obj == cache[c]
      Start(pc) == rec' = [Idle EXCEPT !.pc = pc, !.cr = c, !.obj = obj]
  IN
  /\ rec = Idle
  /\ c \in queue
  /\ queue' = queue \ {c}
  /\ \/ obj = None /\ UNCHANGED rec
     \/ /\ obj # None
        /\ \/ obj.deleting /\ ~ obj.finalizer /\ UNCHANGED rec
           \/ /\ obj.deleting /\ obj.finalizer /\ obj.status.uuid = None
              /\ Start("removeFinalizer")
           \/ ~ obj.deleting /\ ~ obj.finalizer /\ Start("addFinalizer")
           \/ /\ obj.finalizer
              /\ obj.deleting => obj.status.uuid # None
              /\ Start("buildClient")
  /\ UNCHANGED <<api, cache, aliasVars>>

\* Slip: the recorded UUID is trusted without asking for the alias.
BuildOPNsenseClientTrusting ==
  /\ rec.pc = "buildClient"
  /\ rec' = [rec EXCEPT
       !.uuid = rec.obj.status.uuid,
       !.pc = CASE rec.obj.deleting -> "delete"
                [] ~ rec.obj.deleting /\ rec.obj.status.uuid # None -> "update"
                [] OTHER -> "getByName"]
  /\ UNCHANGED <<kubeVars, aliasVars>>

BuildOPNsenseClient ==
  /\ rec.pc = "buildClient"
  /\ rec' = [rec EXCEPT
       !.uuid = IF rec.obj.deleting THEN rec.obj.status.uuid ELSE None,
       !.pc = CASE rec.obj.deleting -> "delete"
                [] ~ rec.obj.deleting /\ rec.obj.status.uuid # None -> "getRecorded"
                [] OTHER -> "getByName"]
  /\ UNCHANGED <<kubeVars, aliasVars>>

\* Connection missing or not Ready, Secret missing or incomplete, bad TLS data.
BuildClientFails ==
  /\ rec.pc = "buildClient"
  /\ SetReadyFailed
  /\ UNCHANGED <<kubeVars, aliasVars>>

----------------------------------------------------------------------------
\* resolveExternalAlias, then the decision Reconcile takes on what it found.

Found(u) ==
  LET drifted == AliasNeedsUpdate(rec.obj.spec, staged[u])
      reported == rec.obj.status = Success(u)
  IN
  \/ drifted /\ rec' = [rec EXCEPT !.pc = "update", !.uuid = u] /\ UNCHANGED <<cache, queue>>
  \/ ~ drifted /\ reported /\ Return(FALSE)
  \/ ~ drifted /\ ~ reported /\ SetReadySuccess(u) /\ UNCHANGED <<cache, queue>>

GetRecordedAlias ==
  /\ rec.pc = "getRecorded"
  /\ \/ Present(rec.obj.status.uuid) /\ Found(rec.obj.status.uuid)
     \/ /\ ~ Present(rec.obj.status.uuid)
        /\ rec' = [rec EXCEPT !.pc = "getByName"]
        /\ UNCHANGED <<cache, queue>>
  /\ UNCHANGED <<api, aliasVars>>

\* Slip: any alias the firewall knows is taken for the one asked for.
GetAnyAliasUUID ==
  /\ rec.pc = "getByName"
  /\ rec' = [rec EXCEPT !.pc = "create"] \/
     \E u \in UUIDs : Present(u) /\ rec' = [rec EXCEPT !.pc = "getMatch", !.uuid = u]
  /\ UNCHANGED <<kubeVars, aliasVars>>

GetAliasUUIDByName ==
  LET hits == Named(rec.obj.spec.name) IN
  /\ rec.pc = "getByName"
  /\ \/ hits = {} /\ rec' = [rec EXCEPT !.pc = "create"]
     \/ \E u \in hits : rec' = [rec EXCEPT !.pc = "getMatch", !.uuid = u]
  /\ UNCHANGED <<kubeVars, aliasVars>>

GetMatchedAlias ==
  /\ rec.pc = "getMatch"
  /\ \/ Present(rec.uuid) /\ Found(rec.uuid)
     \/ ~ Present(rec.uuid) /\ SetReadyFailed /\ UNCHANGED <<cache, queue>>
  /\ UNCHANGED <<api, aliasVars>>

----------------------------------------------------------------------------
\* Create or update, then reconfigure.

\* Slip: the UUID of the lookup, which found none, is not replaced by the new one.
CreateAliasLookedUp ==
  /\ rec.pc = "create"
  /\ \/ /\ \E u \in UUIDs : Fresh(u) /\ AddItem(u, Desired)
        /\ rec' = [rec EXCEPT !.pc = "reconfigure"]
     \/ ~ Accepts(Desired, None) /\ SetReadyFailed /\ UNCHANGED aliasVars
  /\ UNCHANGED kubeVars

CreateAlias ==
  /\ rec.pc = "create"
  /\ \/ \E u \in UUIDs :
          /\ Fresh(u)
          /\ AddItem(u, Desired)
          /\ rec' = [rec EXCEPT !.pc = "reconfigure", !.uuid = u]
     \/ ~ Accepts(Desired, None) /\ SetReadyFailed /\ UNCHANGED aliasVars
  /\ UNCHANGED kubeVars

UpdateAlias ==
  /\ rec.pc = "update"
  /\ \/ SetItem(rec.uuid, Desired) /\ rec' = [rec EXCEPT !.pc = "reconfigure"]
     \/ /\ ~ Present(rec.uuid) \/ ~ Accepts(Desired, rec.uuid)
        /\ SetReadyFailed
        /\ UNCHANGED aliasVars
  /\ UNCHANGED kubeVars

ReconfigureAliases ==
  /\ rec.pc = "reconfigure"
  /\ Reconfigure
  /\ SetReadySuccess(rec.uuid)
  /\ UNCHANGED kubeVars

\* Slips: an alias already gone is an error, or needs no reconfigure.
DeleteAliasOrFail ==
  /\ rec.pc = "delete"
  /\ \/ DelItem(rec.uuid) /\ rec' = [rec EXCEPT !.pc = "reconfigureDeleted"]
     \/ ~ Present(rec.uuid) /\ SetReadyFailed /\ UNCHANGED aliasVars
  /\ UNCHANGED kubeVars

DeleteAliasUnapplied ==
  /\ rec.pc = "delete"
  /\ \/ DelItem(rec.uuid) /\ rec' = [rec EXCEPT !.pc = "reconfigureDeleted"]
     \/ /\ ~ Present(rec.uuid)
        /\ rec' = [rec EXCEPT !.pc = "removeFinalizer"]
        /\ UNCHANGED aliasVars
  /\ UNCHANGED kubeVars

\* An alias that is already gone counts as deleted.
DeleteAlias ==
  /\ rec.pc = "delete"
  /\ \/ DelItem(rec.uuid)
     \/ ~ Present(rec.uuid) /\ UNCHANGED aliasVars
  /\ rec' = [rec EXCEPT !.pc = "reconfigureDeleted"]
  /\ UNCHANGED kubeVars

ReconfigureDeletion ==
  /\ rec.pc = "reconfigureDeleted"
  /\ Reconfigure
  /\ rec' = [rec EXCEPT !.pc = "removeFinalizer"]
  /\ UNCHANGED kubeVars

----------------------------------------------------------------------------
\* Writes to the API server; the last call of every reconcile that makes one.

\* enabled=false is left out by the typed client and defaulted to true again.
WrittenBack(spec) == [spec EXCEPT !.enabled = TRUE]

WithFinalizer ==
  [rec.obj EXCEPT !.finalizer = TRUE, !.spec = WrittenBack(rec.obj.spec),
                  !.gen = IF rec.obj.spec.enabled THEN rec.obj.gen ELSE rec.obj.gen + 1]
WithStatus == [rec.obj EXCEPT !.status = rec.status]

Update(pc, new, err) ==
  /\ rec.pc = pc
  /\ \/ Stored(rec.cr, rec.obj, new) /\ Return(err)
     \/ Conflict(rec.cr, rec.obj) /\ Return(TRUE)
  /\ UNCHANGED aliasVars

AddFinalizer == Update("addFinalizer", WithFinalizer, FALSE)
RemoveFinalizer == Update("removeFinalizer", None, FALSE)
SetReadyCondition == Update("setStatus", WithStatus, rec.failed)

----------------------------------------------------------------------------
\* Failures.

ReadFails ==
  /\ rec.pc \in ReadCalls
  /\ SetReadyFailed
  /\ UNCHANGED <<kubeVars, aliasVars>>

\* The request did not reach the firewall, or its reply was lost.
WriteFails ==
  /\ rec.pc \in WriteCalls
  /\ \/ UNCHANGED aliasVars
     \/ rec.pc = "create" /\ \E u \in UUIDs : Fresh(u) /\ AddItem(u, Desired)
     \/ rec.pc = "update" /\ SetItem(rec.uuid, Desired)
     \/ rec.pc = "delete" /\ DelItem(rec.uuid)
     \/ rec.pc \in {"reconfigure", "reconfigureDeleted"} /\ Reconfigure
  /\ SetReadyFailed
  /\ UNCHANGED kubeVars

KubeCallFails ==
  /\ rec.pc \in KubeCalls
  /\ \/ UNCHANGED api
     \/ rec.pc = "addFinalizer" /\ Stored(rec.cr, rec.obj, WithFinalizer)
     \/ rec.pc = "removeFinalizer" /\ Stored(rec.cr, rec.obj, None)
     \/ rec.pc = "setStatus" /\ Stored(rec.cr, rec.obj, WithStatus)
  /\ Return(TRUE)
  /\ UNCHANGED aliasVars

Crash ==
  /\ rec' = Idle
  /\ Relist
  /\ UNCHANGED aliasVars

----------------------------------------------------------------------------
\* Everybody else.

AdminStep ==
  /\ \E u \in UUIDs :
       \/ "add" \in AdminOps /\ Fresh(u)
            /\ \E n \in Names, b \in ValidContents : AdminAdds(u, n, b)
       \/ "edit" \in AdminOps /\ \E b \in Contents : AdminEdits(u, b)
       \/ "delete" \in AdminOps /\ DelItem(u)
       \/ "apply" \in AdminOps /\ running # staged /\ Reconfigure
  /\ UNCHANGED <<kubeVars, rec>>

UserOrInformerStep ==
  /\ \E c \in CRs :
       \/ \E s \in SpecsOf[c] : UserCreates(c, s) \/ UserEdits(c, s)
       \/ UserDeletes(c) \/ WatchEvent(c) \/ Resync(c)
  /\ UNCHANGED <<aliasVars, rec>>

Calls ==
  \/ BuildOPNsenseClient \/ GetRecordedAlias \/ GetAliasUUIDByName
  \/ GetMatchedAlias \/ CreateAlias \/ UpdateAlias \/ ReconfigureAliases
  \/ DeleteAlias \/ ReconfigureDeletion
  \/ AddFinalizer \/ RemoveFinalizer \/ SetReadyCondition

Failures ==
  BuildClientFails \/ ReadFails \/ WriteFails \/ KubeCallFails \/ Crash

Init == KubeInit /\ AliasInit /\ rec = Idle

Next ==
  \/ \E c \in CRs : Reconcile(c)
  \/ Calls
  \/ Failures
  \/ UserOrInformerStep
  \/ AdminStep

Spec == Init /\ [][Next]_vars

\* Fairness, for the reasons given in FirewallRule: the worker finishes its calls,
\* the work queue is served in order, the informer delivers and resyncs.
FairSpec ==
  /\ Spec
  /\ WF_vars(Calls)
  /\ \A c \in CRs : /\ SF_vars(Reconcile(c))
                    /\ WF_vars(WatchEvent(c) /\ UNCHANGED <<aliasVars, rec>>)
                    /\ WF_vars(Resync(c) /\ UNCHANGED <<aliasVars, rec>>)

\* From some point on nobody changes anything and no call fails; and a create does
\* not wait for ever for an identifier, for OPNsense does not run out of them.
QuietNext ==
  \/ \E c \in CRs : Reconcile(c)
  \/ Calls
  \/ (\E c \in CRs : WatchEvent(c) \/ Resync(c)) /\ UNCHANGED <<aliasVars, rec>>

Quiet == <>[][QuietNext]_vars /\ []<>(rec.pc = "create" => \E u \in UUIDs : Fresh(u))

----------------------------------------------------------------------------
\* Properties.

VarTypes ==
  /\ KubeTypeOK
  /\ AliasTypeOK
  /\ rec \in Busy \union {Idle}
  /\ \A n \in Names : \A u, v \in Named(n) : u = v

\* Calls whose path ends in an identifier, and the reconfigure after them.
NamingCalls == {"getMatch", "update", "reconfigure", "delete"}

\* What ties a call to the identifier it is about.
IdentifiersKnown ==
  /\ rec.pc \in NamingCalls => rec.uuid # None
  /\ rec.pc = "getRecorded" => rec.obj.status.uuid # None
  /\ rec.status.ready = "True" => rec.status.uuid # None
  /\ \A c \in CRs :
       api[c] # None /\ api[c].status.ready = "True" => api[c].status.uuid # None

\* Every variable has its type, names stay unique in the configuration, and
\* identifiers are there where they are needed: a request to get, change or delete an
\* alias names one, and Ready is reported with the identifier under which a later
\* reconcile finds the alias and a deletion removes it.
TypeOK == VarTypes /\ IdentifiersKnown

ReportsReady(obj) ==
  obj # None /\ obj.status.ready = "True" /\ obj.status.obsGen = obj.gen
    /\ ~ obj.deleting

\* "Alias is in sync with OPNsense" (setReadySuccess): with nobody else writing
\* to the firewall, a resource that reports Ready for its current generation has
\* in the configuration exactly the alias its spec describes.
ReadyIsTruthful ==
  \A c \in CRs : ReportsReady(api[c]) => staged[api[c].status.uuid] = api[c].spec

\* The same of the aliases in force: reconfigure "is required after most
\* create/update/delete operations" (the repository's API guide).
ReadyMeansRunning ==
  \A c \in CRs : ReportsReady(api[c]) => running[api[c].status.uuid] = api[c].spec

\* An alias is changed or removed only by a reconcile of a resource that names it
\* (or by the administrator): neither a recorded UUID whose alias is gone nor a
\* lookup by name leads to the alias of another resource.
OnlyNamedAliasWritten ==
  [][\A u \in UUIDs :
       Present(u) /\ staged'[u] # staged[u] /\ rec' # rec =>
         rec.obj.spec.name = staged[u].name]_vars

\* What the abstract specification sees of an object.
Abstract(obj) ==
  IF obj = None THEN None
  ELSE [guarded |-> obj.finalizer, deleting |-> obj.deleting, uuid |-> obj.status.uuid]

\* As for stored objects: the absent one is none of them.
ASSUME AliasAbstractAssumption ==
  None \notin [guarded: BOOLEAN, deleting: BOOLEAN, uuid: UUIDs \union {None}]

Live == {u \in UUIDs : staged[u] # None \/ running[u] # None}

Managed == INSTANCE ManagedResource WITH
  object <- [c \in CRs |-> Abstract(api[c])],
  live <- Live

\* The abstract specification this controller implements: the finalizer precedes
\* the recorded UUID, a recorded UUID is never forgotten, and a resource leaves the
\* cluster only when that alias is out of the configuration and not in force.
Implements == Managed!Spec

\* Once nothing disturbs it any more, every deletion completes.
DeletionCompletes ==
  Quiet => \A c \in CRs : []<>(api[c] = None \/ ~ api[c].deleting)

\* Once nothing disturbs it any more, every remaining resource with an acceptable
\* spec becomes and stays Ready with its alias in the configuration, whatever
\* failures, crashes and administrators left behind.
Converges ==
  Quiet => \A c \in CRs :
    <>[](api[c] # None /\ ~ api[c].deleting /\ api[c].spec.content \in ValidContents =>
           /\ ReportsReady(api[c])
           /\ staged[api[c].status.uuid] = api[c].spec)
=============================================================================

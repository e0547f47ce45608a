---------------------------- MODULE FirewallRule ----------------------------
(***************************************************************************)
(* The FirewallRule controller (internal/controller/                       *)
(* firewallrule_controller.go) between the Kubernetes API and one OPNsense *)
(* firewall.                                                               *)
(*                                                                         *)
(* The controller runs one worker, so at most one reconcile is in progress.*)
(* Every call it makes to the API server or to OPNsense is a step of its   *)
(* own: users, administrators, watch events and crashes happen between any *)
(* two calls.  rec is the reconcile in progress: the next call (pc), the   *)
(* resource, the copy Get returned, the UUID resolved so far and, before   *)
(* the status update, the status to write and whether an error follows.    *)
(***************************************************************************)
EXTENDS FiniteSets, Integers

CONSTANTS
  CRs,          \* FirewallRule resources, by namespace/name
  UUIDs,        \* identifiers OPNsense gives to rules (bound on how many)
  Bodies,       \* a rule's fields other than managed suffix, enabled and sequence
  ValidBodies,  \* the bodies OPNsense's validation accepts
  Seqs,         \* rule ordering positions
  Specs,        \* the specs users write
  Mentions,     \* <<c, d>>: "ns/name" of c occurs in the managed suffix of d
  AdminOps,     \* what the firewall's administrator does besides
  MaxGen,       \* bound: no user edits beyond this metadata.generation
  MaxLate,      \* bound on requests waiting inside the firewall
  None          \* absent: object, rule, owner, UUID or sequence

ASSUME NoneAssumption ==
  None \notin CRs \union UUIDs \union Bodies \union Seqs

\* The specs are closed under what writing an object back does to them.
ASSUME SpecsAssumption ==
  /\ Specs \subseteq [body: Bodies, enabled: BOOLEAN, seq: Seqs \union {None}]
  /\ \A s \in Specs : [s EXCEPT !.enabled = TRUE] \in Specs

ASSUME BoundsAssumption ==
  /\ MaxGen \in Nat
  /\ MaxLate \in Nat
  /\ ValidBodies \subseteq Bodies

\* A suffix contains its own phrase.
ASSUME MentionsAssumption ==
  Mentions \subseteq CRs \X CRs /\ \A c \in CRs : <<c, c>> \in Mentions

ASSUME AdminOpsAssumption ==
  AdminOps \subseteq {"edit", "delete", "clone", "redescribe", "apply"}

VARIABLES api, cache, queue, staged, running, late, rec

----------------------------------------------------------------------------
\* Status subresource.  Of the Ready condition its status is kept; reason and
\* message are wording.

Statuses == [uuid: UUIDs \union {None}, seq: Seqs \union {None},
             obsGen: Nat, ready: {"Unknown", "False", "True"}]

EmptyStatus == [uuid |-> None, seq |-> None, obsGen |-> 0, ready |-> "Unknown"]

INSTANCE KubeAPI
INSTANCE OPNsenseFilter

\* An absent object is not an object, and an absent rule is not a rule.
ASSUME AbsentAssumption == None \notin Objects /\ None \notin Rules

kubeVars == <<api, cache, queue>>
filterVars == <<staged, running, late>>
vars == <<kubeVars, filterVars, rec>>

----------------------------------------------------------------------------
\* The reconcile in progress.

ReadCalls == {"getRecorded", "search", "getMatch", "getApplied"}
WriteCalls == {"create", "update", "apply", "delete", "applyDelete"}
KubeCalls == {"addFinalizer", "removeFinalizer", "setStatus"}

Idle == [pc |-> "idle", cr |-> None, obj |-> None, uuid |-> None,
         status |-> EmptyStatus, failed |-> FALSE]

Busy ==
  [pc: {"buildClient"} \union ReadCalls \union WriteCalls \union KubeCalls,
   cr: CRs, obj: Objects, uuid: UUIDs \union {None}, status: Statuses,
   failed: BOOLEAN]

\* Return from Reconcile; an error puts the resource back in the queue.
Return(err) ==
  /\ rec' = Idle
  /\ queue' = IF err THEN queue \union {rec.cr} ELSE queue
  /\ UNCHANGED cache

SetReadyFailed ==
  rec' = [rec EXCEPT !.pc = "setStatus", !.failed = TRUE,
                     !.status = [rec.obj.status EXCEPT !.ready = "False"]]

\* Slip: the generation is not recorded.
SuccessGenerationKept(u, s) ==
  [uuid |-> u, seq |-> s, obsGen |-> rec.obj.status.obsGen, ready |-> "True"]

Success(u, s) ==
  [uuid |-> u, seq |-> s, obsGen |-> rec.obj.gen, ready |-> "True"]

SetReadySuccess(u, s) ==
  rec' = [rec EXCEPT !.pc = "setStatus", !.failed = FALSE, !.status = Success(u, s)]

SpecToRule(c, spec) ==
  [owner |-> c, body |-> spec.body, enabled |-> spec.enabled, seq |-> spec.seq]

Desired == SpecToRule(rec.cr, rec.obj.spec)

\* Slip: the sequence is not compared even when the spec pins it.
RuleNeedsUpdateNoSequence(c, spec, existing) ==
  existing.owner # c \/ existing.body # spec.body \/ existing.enabled # spec.enabled

RuleNeedsUpdate(c, spec, existing) ==
  \/ existing.owner # c
  \/ existing.body # spec.body
  \/ existing.enabled # spec.enabled
  \/ spec.seq # None /\ existing.seq # spec.seq

\* Where a rule identifier of resource c may be found.  OPNsense hands out random
\* identifiers: a new one is found nowhere.
UuidOf(obj) == IF obj = None THEN None ELSE obj.status.uuid

Refers(c, u) ==
  \/ UuidOf(api[c]) = u \/ UuidOf(cache[c]) = u
  \/ staged[u] # None /\ staged[u].owner = c
  \/ rec.cr = c /\ u \in {rec.uuid, UuidOf(rec.obj), rec.status.uuid}
  \/ \E r \in late : r.uuid = u /\ r.rule.owner = c

Fresh(u) ==
  /\ staged[u] = None /\ running[u] = None
  /\ \A c \in CRs : ~ Refers(c, u)

----------------------------------------------------------------------------
\* Reconcile: dequeue, Get, and the checks before the first remote call.

Reconcile(c) ==
  LET obj == cache[c]
      Start(pc) == rec' = [Idle EXCEPT !.pc = pc, !.cr = c, !.obj = obj]
      hasUUID == obj.status.uuid # None
  IN
  /\ rec = Idle
  /\ c \in queue
  /\ queue' = queue \ {c}
  /\ \/ obj = None /\ UNCHANGED rec
     \/ /\ obj # None
        /\ \/ obj.deleting /\ ~ obj.finalizer /\ UNCHANGED rec
           \/ obj.deleting /\ obj.finalizer /\ ~ hasUUID /\ Start("removeFinalizer")
           \/ obj.deleting /\ obj.finalizer /\ hasUUID /\ Start("buildClient")
           \/ ~ obj.deleting /\ ~ obj.finalizer /\ Start("addFinalizer")
           \/ ~ obj.deleting /\ obj.finalizer /\ Start("buildClient")
  /\ UNCHANGED <<api, cache, filterVars>>

\* Slip: no search for a rule created earlier.
BuildOPNsenseClientNoSearch ==
  /\ rec.pc = "buildClient"
  /\ rec' = [rec EXCEPT
       !.uuid = IF rec.obj.deleting THEN rec.obj.status.uuid ELSE None,
       !.pc = CASE rec.obj.deleting -> "delete"
                [] ~ rec.obj.deleting /\ rec.obj.status.uuid # None -> "getRecorded"
                [] OTHER -> "create"]
  /\ UNCHANGED <<kubeVars, filterVars>>

BuildOPNsenseClient ==
  /\ rec.pc = "buildClient"
  /\ rec' = [rec EXCEPT
       !.uuid = IF rec.obj.deleting THEN rec.obj.status.uuid ELSE None,
       !.pc = CASE rec.obj.deleting -> "delete"
                [] ~ rec.obj.deleting /\ rec.obj.status.uuid # None -> "getRecorded"
                [] OTHER -> "search"]
  /\ UNCHANGED <<kubeVars, filterVars>>

\* Connection missing or not Ready, Secret missing or incomplete, bad TLS data.
BuildClientFails ==
  /\ rec.pc = "buildClient"
  /\ SetReadyFailed
  /\ UNCHANGED <<kubeVars, filterVars>>

----------------------------------------------------------------------------
\* resolveExternalRule, then the decision Reconcile takes on what it found.

Found(u) ==
  LET existing == staged[u]
      drifted == RuleNeedsUpdate(rec.cr, rec.obj.spec, existing)
      reported == rec.obj.status = Success(u, existing.seq)
  IN
  \/ drifted /\ rec' = [rec EXCEPT !.pc = "update", !.uuid = u] /\ UNCHANGED <<cache, queue>>
  \/ ~ drifted /\ reported /\ Return(FALSE)
  \/ ~ drifted /\ ~ reported /\ SetReadySuccess(u, existing.seq) /\ UNCHANGED <<cache, queue>>

\* Slip: a recorded rule that is gone counts as a lookup failure.
GetRecordedRuleOrFail ==
  /\ rec.pc = "getRecorded"
  /\ \/ Present(rec.obj.status.uuid) /\ Found(rec.obj.status.uuid)
     \/ ~ Present(rec.obj.status.uuid) /\ SetReadyFailed /\ UNCHANGED <<cache, queue>>
  /\ UNCHANGED <<api, filterVars>>

GetRecordedRule ==
  /\ rec.pc = "getRecorded"
  /\ \/ Present(rec.obj.status.uuid) /\ Found(rec.obj.status.uuid)
     \/ /\ ~ Present(rec.obj.status.uuid)
        /\ rec' = [rec EXCEPT !.pc = "search"]
        /\ UNCHANGED <<cache, queue>>
  /\ UNCHANGED <<api, filterVars>>

\* Slip: the search phrase names the operator but not the resource.
SearchAnyManagedRule ==
  LET hits == {u \in UUIDs : staged[u] # None /\ staged[u].owner # None} IN
  /\ rec.pc = "search"
  /\ \/ hits = {} /\ rec' = [rec EXCEPT !.pc = "create"]
     \/ \E u \in hits : hits = {u} /\ rec' = [rec EXCEPT !.pc = "getMatch", !.uuid = u]
     \/ Cardinality(hits) > 1 /\ SetReadyFailed
  /\ UNCHANGED <<kubeVars, filterVars>>

\* Slip: an ambiguous result is returned as an error but not reported.
SearchAmbiguityUnreported ==
  LET hits == SearchHits(rec.cr) IN
  /\ rec.pc = "search"
  /\ \/ hits = {} /\ rec' = [rec EXCEPT !.pc = "create"] /\ UNCHANGED <<cache, queue>>
     \/ \E u \in hits : hits = {u} /\ rec' = [rec EXCEPT !.pc = "getMatch", !.uuid = u]
                        /\ UNCHANGED <<cache, queue>>
     \/ Cardinality(hits) > 1 /\ Return(TRUE)
  /\ UNCHANGED <<api, filterVars>>

\* Slip: one of several hits is taken.
SearchPicksOne ==
  LET hits == SearchHits(rec.cr) IN
  /\ rec.pc = "search"
  /\ \/ hits = {} /\ rec' = [rec EXCEPT !.pc = "create"]
     \/ \E u \in hits : rec' = [rec EXCEPT !.pc = "getMatch", !.uuid = u]
  /\ UNCHANGED <<kubeVars, filterVars>>

SearchRuleByManagedSuffix ==
  LET hits == SearchHits(rec.cr) IN
  /\ rec.pc = "search"
  /\ \/ hits = {} /\ rec' = [rec EXCEPT !.pc = "create"]
     \/ \E u \in hits : hits = {u} /\ rec' = [rec EXCEPT !.pc = "getMatch", !.uuid = u]
     \/ Cardinality(hits) > 1 /\ SetReadyFailed
  /\ UNCHANGED <<kubeVars, filterVars>>

GetMatchedRule ==
  /\ rec.pc = "getMatch"
  /\ \/ Present(rec.uuid) /\ Found(rec.uuid)
     \/ ~ Present(rec.uuid) /\ SetReadyFailed /\ UNCHANGED <<cache, queue>>
  /\ UNCHANGED <<api, filterVars>>

----------------------------------------------------------------------------
\* Create or update, apply, read back.

\* Slip: what follows uses the UUID of the lookup, which found none.
CreateRuleLookedUp ==
  /\ rec.pc = "create"
  /\ \/ \E u \in UUIDs : Fresh(u) /\ AddRule(u, Desired) /\ rec' = [rec EXCEPT !.pc = "apply"]
     \/ ~ Accepts(Desired) /\ SetReadyFailed /\ UNCHANGED <<staged, running>>
  /\ UNCHANGED <<kubeVars, late>>

CreateRule ==
  /\ rec.pc = "create"
  /\ \/ \E u \in UUIDs :
          /\ Fresh(u)
          /\ AddRule(u, Desired)
          /\ rec' = [rec EXCEPT !.pc = "apply", !.uuid = u]
     \/ ~ Accepts(Desired) /\ SetReadyFailed /\ UNCHANGED <<staged, running>>
  /\ UNCHANGED <<kubeVars, late>>

UpdateRule ==
  /\ rec.pc = "update"
  /\ \/ SetRule(rec.uuid, Desired) /\ rec' = [rec EXCEPT !.pc = "apply"]
     \/ /\ ~ Present(rec.uuid) \/ ~ Accepts(Desired)
        /\ SetReadyFailed
        /\ UNCHANGED <<staged, running>>
  /\ UNCHANGED <<kubeVars, late>>

ApplyFirewallRules ==
  /\ rec.pc = "apply"
  /\ Apply
  /\ rec' = [rec EXCEPT !.pc = "getApplied"]
  /\ UNCHANGED <<kubeVars, late>>

GetAppliedRule ==
  /\ rec.pc = "getApplied"
  /\ \/ Present(rec.uuid) /\ SetReadySuccess(rec.uuid, staged[rec.uuid].seq)
     \/ ~ Present(rec.uuid) /\ SetReadyFailed
  /\ UNCHANGED <<kubeVars, filterVars>>

----------------------------------------------------------------------------
\* reconcileDelete: a rule that is already gone counts as deleted.

\* Slips: a rule already gone is an error, or needs no apply.
DeleteRuleOrFail ==
  /\ rec.pc = "delete"
  /\ \/ DelRule(rec.uuid) /\ rec' = [rec EXCEPT !.pc = "applyDelete"]
     \/ ~ Present(rec.uuid) /\ SetReadyFailed /\ UNCHANGED <<staged, running>>
  /\ UNCHANGED <<kubeVars, late>>

DeleteRuleUnapplied ==
  /\ rec.pc = "delete"
  /\ \/ DelRule(rec.uuid) /\ rec' = [rec EXCEPT !.pc = "applyDelete"]
     \/ /\ ~ Present(rec.uuid)
        /\ rec' = [rec EXCEPT !.pc = "removeFinalizer"]
        /\ UNCHANGED <<staged, running>>
  /\ UNCHANGED <<kubeVars, late>>

DeleteRule ==
  /\ rec.pc = "delete"
  /\ \/ DelRule(rec.uuid)
     \/ ~ Present(rec.uuid) /\ UNCHANGED <<staged, running>>
  /\ rec' = [rec EXCEPT !.pc = "applyDelete"]
  /\ UNCHANGED <<kubeVars, late>>

ApplyDeletion ==
  /\ rec.pc = "applyDelete"
  /\ Apply
  /\ rec' = [rec EXCEPT !.pc = "removeFinalizer"]
  /\ UNCHANGED <<kubeVars, late>>

----------------------------------------------------------------------------
\* Writes to the API server; the last call of every reconcile that makes one.

Update(pc, new, err) ==
  /\ rec.pc = pc
  /\ \/ Stored(rec.cr, rec.obj, new) /\ Return(err)
     \/ Conflict(rec.cr, rec.obj) /\ Return(TRUE)
  /\ UNCHANGED filterVars

\* The typed client leaves false booleans out of the object it sends (omitempty),
\* and the API server fills in the default the CRD declares: enabled (and quick)
\* become true.  A spec that changes gets a new generation.
WrittenBack(spec) == [spec EXCEPT !.enabled = TRUE]

WithFinalizer ==
  [rec.obj EXCEPT !.finalizer = TRUE, !.spec = WrittenBack(rec.obj.spec),
                  !.gen = IF rec.obj.spec.enabled THEN rec.obj.gen ELSE rec.obj.gen + 1]
WithStatus == [rec.obj EXCEPT !.status = rec.status]

AddFinalizer == Update("addFinalizer", WithFinalizer, FALSE)

\* The API server drops a deleted object with its last finalizer.
RemoveFinalizer == Update("removeFinalizer", None, FALSE)

SetReadyCondition == Update("setStatus", WithStatus, rec.failed)

----------------------------------------------------------------------------
\* Failures.

ReadFails ==
  /\ rec.pc \in ReadCalls
  /\ SetReadyFailed
  /\ UNCHANGED <<kubeVars, filterVars>>

Request ==
  [op |-> IF rec.pc = "applyDelete" THEN "apply" ELSE rec.pc,
   uuid |-> rec.uuid, rule |-> Desired]

WriteFails ==
  /\ rec.pc \in WriteCalls
  /\ \E u \in UUIDs : (rec.pc = "create" => Fresh(u)) /\ LoseCall(Request, u)
  /\ SetReadyFailed
  /\ UNCHANGED kubeVars

\* The API server is unavailable, or its reply is lost after it stored the object.
KubeCallFails ==
  /\ rec.pc \in KubeCalls
  /\ \/ UNCHANGED api
     \/ rec.pc = "addFinalizer" /\ Stored(rec.cr, rec.obj, WithFinalizer)
     \/ rec.pc = "removeFinalizer" /\ Stored(rec.cr, rec.obj, None)
     \/ rec.pc = "setStatus" /\ Stored(rec.cr, rec.obj, WithStatus)
  /\ Return(TRUE)
  /\ UNCHANGED filterVars

\* The manager dies between two calls and a new one lists the resources.
Crash ==
  /\ rec' = Idle
  /\ Relist
  /\ UNCHANGED filterVars

----------------------------------------------------------------------------
\* Everybody else.

AdminStep ==
  /\ \E u \in UUIDs :
       \/ "edit" \in AdminOps /\ \E b \in Bodies : AdminEdits(u, b)
       \/ "delete" \in AdminOps /\ AdminDeletes(u)
       \/ "clone" \in AdminOps /\ \E v \in UUIDs : Fresh(v) /\ AdminClones(u, v)
       \/ "redescribe" \in AdminOps /\ AdminRedescribes(u)
       \/ "apply" \in AdminOps /\ AdminApplies
  /\ UNCHANGED <<kubeVars, rec>>

LateStep ==
  /\ \E r \in late, u \in UUIDs : (r.op = "create" => Fresh(u)) /\ ServeLate(r, u)
  /\ UNCHANGED <<kubeVars, rec>>

UserOrInformerStep ==
  /\ UserStep \/ \E c \in CRs : WatchEvent(c) \/ Resync(c)
  /\ UNCHANGED <<filterVars, rec>>

Calls ==
  \/ BuildOPNsenseClient \/ GetRecordedRule \/ SearchRuleByManagedSuffix
  \/ GetMatchedRule \/ CreateRule \/ UpdateRule \/ ApplyFirewallRules
  \/ GetAppliedRule \/ DeleteRule \/ ApplyDeletion
  \/ AddFinalizer \/ RemoveFinalizer \/ SetReadyCondition

Failures ==
  BuildClientFails \/ ReadFails \/ WriteFails \/ KubeCallFails \/ Crash

Init == KubeInit /\ FilterInit /\ rec = Idle

Next ==
  \/ \E c \in CRs : Reconcile(c)
  \/ Calls
  \/ Failures
  \/ UserOrInformerStep
  \/ AdminStep
  \/ LateStep

Spec == Init /\ [][Next]_vars

----------------------------------------------------------------------------
\* Fairness.  The worker finishes every call it started (a call that fails is
\* over too); the work queue is first in, first out, and a rate-limited retry is
\* delayed for a bounded time, so a resource that waits for the idle worker again
\* and again is served; the informer delivers what is stored and resyncs.

FairSpec ==
  /\ Spec
  /\ WF_vars(Calls)
  /\ \A c \in CRs : /\ SF_vars(Reconcile(c))
                    /\ WF_vars(WatchEvent(c) /\ UNCHANGED <<filterVars, rec>>)
                    /\ WF_vars(Resync(c) /\ UNCHANGED <<filterVars, rec>>)

\* From some point on nobody changes anything and no call fails; and a create does
\* not wait for ever for an identifier, for OPNsense does not run out of them.
QuietNext ==
  \/ \E c \in CRs : Reconcile(c)
  \/ Calls
  \/ (\E c \in CRs : WatchEvent(c) \/ Resync(c)) /\ UNCHANGED <<filterVars, rec>>
  \/ LateStep

Quiet == <>[][QuietNext]_vars /\ []<>(rec.pc = "create" => \E u \in UUIDs : Fresh(u))

----------------------------------------------------------------------------
\* Properties.

VarTypes == KubeTypeOK /\ FilterTypeOK /\ rec \in Busy \union {Idle}

\* Calls whose path ends in an identifier, and the apply between two of them.
NamingCalls == {"getMatch", "update", "apply", "getApplied", "delete"}

\* What ties a call to the identifier it is about.
IdentifiersKnown ==
  /\ rec.pc \in NamingCalls => rec.uuid # None
  /\ rec.pc = "getRecorded" => rec.obj.status.uuid # None
  /\ \A r \in late : r.op \in {"update", "delete"} => r.uuid # None
  /\ rec.status.ready = "True" => rec.status.uuid # None
  /\ \A c \in CRs :
       api[c] # None /\ api[c].status.ready = "True" => api[c].status.uuid # None

\* Every variable has its type, and identifiers are there where they are needed: a
\* request to get, change or delete a rule, also one still in flight, names a rule
\* (an empty identifier would ask for another endpoint), whether the identifier came
\* from the status, the search or addRule; and Ready is reported with an identifier.
TypeOK == VarTypes /\ IdentifiersKnown

\* What makes that promise an invariant: a recorded UUID implies the finalizer,
\* and the finalizer is dropped only by a reconcile that has seen the rule out of
\* the configuration and of the filter, where nobody can put it back.
DeletionInv ==
  LET u == rec.obj.status.uuid IN
  /\ \A c \in CRs : api[c] # None /\ api[c].status.uuid # None => api[c].finalizer
  /\ rec.pc \notin {"idle", "addFinalizer"} => rec.obj.finalizer
  /\ rec.pc = "buildClient" /\ rec.obj.deleting => u # None
  /\ rec.pc \in {"delete", "applyDelete"} => u # None /\ rec.uuid = u
  /\ rec.pc \in {"applyDelete", "removeFinalizer"} /\ u # None => staged[u] = None
  /\ rec.pc = "removeFinalizer" /\ u # None => running[u] = None

\* reconcileDelete promises that a resource whose status records a UUID leaves
\* the cluster only after that rule has left both the configuration and the
\* running filter, whatever crashed, failed, conflicted or arrived late.
CleanupBeforeRelease ==
  [][\A c \in CRs :
       api[c] # None /\ api'[c] = None /\ UuidOf(api[c]) # None =>
         /\ staged[UuidOf(api[c])] = None
         /\ running[UuidOf(api[c])] = None]_vars

\* Names are unambiguous when no phrase occurs in another resource's suffix.
Unambiguous == \A c, d \in CRs : <<c, d>> \in Mentions => c = d

\* A managed rule is changed or removed only on behalf of the resource its
\* suffix names (or by the administrator), also by requests served late: a stale
\* UUID in a status, a cached copy or a request in flight never reaches the rule
\* of another resource.  This is what the managed suffix is for (specToRule).
OnlyOwnRulesWritten ==
  [][\A u \in UUIDs :
       Present(u) /\ staged[u].owner # None /\ staged'[u] # staged[u] =>
         \/ rec' # rec /\ rec.cr = staged[u].owner
         \/ \E r \in late \ late' : r.rule.owner = staged[u].owner
         \/ UNCHANGED <<rec, late>>]_vars

\* The invariant behind it: whatever an object, a cached copy, a rule's suffix, the
\* reconcile in progress and requests in flight refer to belongs to one resource.
Exclusive ==
  \A u \in UUIDs, c, d \in CRs : Refers(c, u) /\ Refers(d, u) => c = d

\* A retry after a lost reply, a crash or a lost status update finds the rule it
\* created before by its suffix (resolveExternalRule): no resource ever has two
\* rules in the configuration.
AtMostOneManaged ==
  \A u, v \in UUIDs :
    Present(u) /\ Present(v) /\ staged[u].owner # None
      /\ staged[u].owner = staged[v].owner => u = v

Conforms(rule, c, spec) ==
  /\ rule # None
  /\ rule.owner = c /\ rule.body = spec.body /\ rule.enabled = spec.enabled
  /\ spec.seq # None => rule.seq = spec.seq

ReportsReady(obj) ==
  obj # None /\ obj.status.ready = "True" /\ obj.status.obsGen = obj.gen

\* With nobody else writing to the firewall, a resource that reports Ready for
\* its current generation has its rule in the configuration, with the contents
\* of that generation and the sequence the status shows (setReadySuccess: "in
\* sync with OPNsense"), although the reconcile worked on a cached copy and the
\* user may have edited the resource meanwhile.
ReadyIsTruthful ==
  \A c \in CRs :
    ReportsReady(api[c]) /\ ~ api[c].deleting =>
      LET rule == staged[api[c].status.uuid]
      IN Conforms(rule, c, api[c].spec) /\ rule.seq = api[c].status.seq

\* The same of the running filter: what a Ready resource asks for is in force.
\* docs/opnsense-filter-api-spec.md requires an apply after every change.
ReadyMeansRunning ==
  \A c \in CRs :
    ReportsReady(api[c]) /\ ~ api[c].deleting =>
      Conforms(running[api[c].status.uuid], c, api[c].spec)

\* reconcileDelete "cleans up the external OPNsense rule (if it was ever
\* created)": no rule outlives its resource.
NoOrphan ==
  \A c \in CRs :
    api[c] = None /\ cache[c] = None /\ rec.cr # c =>
      \A u \in UUIDs : ~ (Present(u) /\ staged[u].owner = c)

\* The suffix identifies a rule, so two resources never record the same one.
NoSharedRule ==
  \A c, d \in CRs :
    UuidOf(api[c]) # None /\ UuidOf(api[c]) = UuidOf(api[d]) => c = d

\* "FirewallRuleSpec defines the desired state" and is the user's: no step of the
\* controller changes it.
SpecIsTheUsers ==
  [][\A c \in CRs :
       api[c] # None /\ api'[c] # None /\ rec.cr = c /\ rec' = Idle =>
         api'[c].spec = api[c].spec]_vars

\* Once nothing disturbs it any more, every deletion completes.
DeletionCompletes ==
  Quiet => \A c \in CRs : []<>(api[c] = None \/ ~ api[c].deleting)

\* Once nothing disturbs it any more, every remaining resource with an acceptable
\* spec becomes Ready for its current generation with a conforming rule in the
\* configuration, and stays so: retries and resyncs repair whatever failures,
\* crashes and administrators left behind.
Converges ==
  Quiet => \A c \in CRs :
    <>[](api[c] # None /\ ~ api[c].deleting /\ api[c].spec.body \in ValidBodies =>
           /\ ReportsReady(api[c])
           /\ Conforms(staged[api[c].status.uuid], c, api[c].spec))

Several(c) == Cardinality(SearchHits(c)) > 1

Ambiguous(c) ==
  api[c] # None /\ ~ api[c].deleting /\ ~ Present(api[c].status.uuid) /\ Several(c)

\* docs/opnsense-filter-api-spec.md of more than one search hit: "ambiguous; treat
\* as an error (log warning, set Ready=False)".  Suppose nothing disturbs a resource
\* any more from some point on.  If ever, between two reconciles, its recorded rule is
\* gone and several carry its suffix (it was Ready, the administrator cloned its rule
\* twice and deleted the original), then it comes to say so, unless it is deleted or
\* somebody ends the ambiguity; to take up one of the rules is no way out.
AmbiguityReported ==
  Quiet => \A c \in CRs :
    Ambiguous(c) /\ rec.cr # c ~>
      api[c] = None \/ api[c].deleting \/ api[c].status.ready = "False" \/ ~ Several(c)

----------------------------------------------------------------------------
\* The abstract specification this controller implements.

Abstract(obj) ==
  IF obj = None THEN None
  ELSE [guarded |-> obj.finalizer, deleting |-> obj.deleting, uuid |-> obj.status.uuid]

\* As for stored objects: the absent one is none of them.
ASSUME AbstractAssumption ==
  None \notin [guarded: BOOLEAN, deleting: BOOLEAN, uuid: UUIDs \union {None}]

Live == {u \in UUIDs : staged[u] # None \/ running[u] # None}

Managed == INSTANCE ManagedResource WITH
  object <- [c \in CRs |-> Abstract(api[c])],
  live <- Live

\* Whatever crashes, fails, conflicts or arrives late, the controller keeps the
\* promise of ManagedResource: the finalizer is there before a UUID is recorded,
\* a recorded UUID is never forgotten, and a resource is released only when the
\* rule it recorded is out of the configuration and of the running filter.
Implements == Managed!Spec
=============================================================================

------------------------- MODULE FirewallRuleTruth -------------------------
(***************************************************************************)
(* A resource that reports Ready for its current generation has the rule   *)
(* of that generation in the configuration, although every reconcile works *)
(* on a copy that may be stale, as long as nobody else writes rules.       *)
(***************************************************************************)
EXTENDS FirewallRuleOwnership

\* The administrator writes no rules, and no request is served after its caller
\* gave up.
NobodyElseWrites == AdminOps \subseteq {"apply"} /\ MaxLate = 0

----------------------------------------------------------------------------
\* Copies.  An object that was stored as o once and is not any more is past o:
\* it will not become o again, for users create it without a finalizer and with
\* the generation of an edit, and only the controller writes its status.
Past(a, o) ==
  \/ a = None \/ ~ a.finalizer
  \/ a.gen > o.gen
  \/ a.deleting /\ ~ o.deleting
  \/ a.status # o.status

\* The cache lags: what it holds is stored, or past.
LagInv ==
  \A c \in CRs : cache[c] # None /\ cache[c].finalizer =>
                   (api[c] = cache[c] \/ Past(api[c], cache[c]))

\* So does the copy of a reconcile; while it is still stored, the cache holds it.
LinkInv ==
  LET c == rec.cr IN
  /\ rec.pc \notin {"idle", "addFinalizer"} =>
       \/ api[c] = rec.obj /\ cache[c] = rec.obj
       \/ Past(api[c], rec.obj)
  /\ rec.pc = "addFinalizer" /\ (api[c] = None \/ ~ api[c].finalizer) =>
       cache[c] = None \/ ~ cache[c].finalizer

\* No generation is observed before it exists, and nothing is Ready unguarded.
StatusInv ==
  \A c \in CRs : api[c] # None =>
    /\ api[c].status.obsGen <= api[c].gen
    /\ api[c].status.ready = "True" => api[c].finalizer

----------------------------------------------------------------------------
\* Resources that are Ready for their current generation.

Ready(c) == ReportsReady(api[c]) /\ ~ api[c].deleting

\* The rule of the resource, with the sequence the status shows.
Synced(c, spec, status) ==
  /\ status.uuid \in UUIDs
  /\ Conforms(staged[status.uuid], c, spec)
  /\ staged[status.uuid].seq = status.seq

\* A Ready resource has its rule, and the cache knows the spec it is Ready for.
ReadyInv ==
  \A c \in CRs : Ready(c) =>
    /\ Synced(c, api[c].spec, api[c].status)
    /\ cache[c] # None /\ cache[c].spec = api[c].spec /\ ~ cache[c].deleting

\* A reconcile of a Ready resource has nothing to write, and one that wrote a
\* rule or is about to report success has the right rule before it.
WorkInv ==
  /\ rec.pc # "idle" /\ Ready(rec.cr) =>
       /\ rec.obj.spec = api[rec.cr].spec /\ ~ rec.obj.deleting
       /\ rec.pc \notin {"create", "update"}
  /\ rec.pc \in {"apply", "getApplied"} =>
       Conforms(staged[rec.uuid], rec.cr, rec.obj.spec)
  /\ rec.pc = "setStatus" =>
       /\ rec.status.obsGen \in {rec.obj.gen, rec.obj.status.obsGen}
       /\ rec.status.ready = "True" => Synced(rec.cr, rec.obj.spec, rec.status)

CopyInv == LagInv /\ LinkInv /\ StatusInv
TruthInv == CopyInv /\ ReadyInv /\ WorkInv

LEMMA TruthInit == Init => TruthInv
  BY DEF Init, KubeInit, FilterInit, Idle, TruthInv, CopyInv, LagInv, LinkInv, StatusInv,
         ReadyInv, WorkInv, Ready, ReportsReady

----------------------------------------------------------------------------
\* Users and the informer.

\* What a user does to an object: nothing, or it moves on.
LEMMA UserMoves ==
  ASSUME VarTypes, UserStep, NEW c \in CRs
  PROVE  \/ api'[c] = api[c]
         \/ api'[c] = None /\ ~ api[c].finalizer
         \/ /\ api[c] = None
            /\ ~ api'[c].finalizer /\ api'[c].status = EmptyStatus /\ api'[c].gen = 1
         \/ /\ api[c] # None /\ api'[c] # None /\ api'[c].gen = api[c].gen + 1
            /\ api'[c].finalizer = api[c].finalizer /\ api'[c].deleting = api[c].deleting
            /\ api'[c].status = api[c].status
         \/ /\ api[c] # None /\ api'[c] # None /\ ~ api[c].deleting /\ api'[c].deleting
            /\ api'[c].gen = api[c].gen /\ api'[c].finalizer = api[c].finalizer
            /\ api'[c].status = api[c].status
<1>1. api \in [CRs -> Objects \union {None}]
  BY DEF VarTypes, KubeTypeOK
<1>2. ASSUME NEW d \in CRs, NEW s \in Specs, UserCreates(d, s), api'[c] # api[c]
      PROVE  /\ api[c] = None
             /\ ~ api'[c].finalizer /\ api'[c].status = EmptyStatus /\ api'[c].gen = 1
  BY <1>1, <1>2 DEF UserCreates
<1>3. ASSUME NEW d \in CRs, NEW s \in Specs, UserEdits(d, s), api'[c] # api[c]
      PROVE  /\ api[c] # None /\ api'[c] # None /\ api'[c].gen = api[c].gen + 1
             /\ api'[c].finalizer = api[c].finalizer /\ api'[c].deleting = api[c].deleting
             /\ api'[c].status = api[c].status
  <2>1. c = d /\ api[c] \in Objects
    BY <1>1, <1>3 DEF UserEdits
  <2>2. api'[c] = [api[c] EXCEPT !.spec = s, !.gen = api[c].gen + 1]
    BY <1>1, <1>3, <2>1 DEF UserEdits
  <2>3. [api[c] EXCEPT !.spec = s, !.gen = api[c].gen + 1] \in Objects
    BY <2>1, TypeUserObjects
  <2>4. api'[c] # None
    BY <2>2, <2>3, AbsentAssumption
  <2> QED
    BY <1>3, <2>1, <2>2, <2>4 DEF UserEdits, Objects
<1>4. ASSUME NEW d \in CRs, UserDeletes(d), api'[c] # api[c]
      PROVE  \/ api'[c] = None /\ ~ api[c].finalizer
             \/ /\ api[c] # None /\ api'[c] # None /\ ~ api[c].deleting /\ api'[c].deleting
                /\ api'[c].gen = api[c].gen /\ api'[c].finalizer = api[c].finalizer
                /\ api'[c].status = api[c].status
  <2>1. c = d /\ api[c] \in Objects
    BY <1>1, <1>4 DEF UserDeletes
  <2>2. api'[c] = IF api[c].finalizer THEN [api[c] EXCEPT !.deleting = TRUE] ELSE None
    BY <1>1, <1>4, <2>1 DEF UserDeletes
  <2>3. api[c].spec \in Specs
    BY <2>1 DEF Objects
  <2>4. api[c].finalizer => api'[c] # None
    BY <2>1, <2>2, <2>3, TypeUserObjects, AbsentAssumption
  <2> QED
    BY <1>4, <2>1, <2>2, <2>4 DEF UserDeletes, Objects
<1> QED
  BY <1>2, <1>3, <1>4 DEF UserStep

\* Past is for good.
LEMMA UserKeepsPast ==
  ASSUME VarTypes, UserStep, NEW c \in CRs, NEW o \in Objects,
         api[c] = o \/ Past(api[c], o)
  PROVE  api'[c] = api[c] \/ Past(api'[c], o)
<1>1. api[c] # None => api[c] \in Objects
  BY DEF VarTypes, KubeTypeOK
<1>2. api[c] # None => api[c].gen \in Nat
  BY <1>1 DEF Objects
<1>3. o.gen \in Nat
  BY DEF Objects
<1> QED
  BY <1>2, <1>3, UserMoves DEF Past

LEMMA CopyUser ==
  ASSUME VarTypes, CopyInv, UserStep, UNCHANGED rec
  PROVE  CopyInv'
<1>1. UNCHANGED cache
  BY DEF UserStep, UserCreates, UserEdits, UserDeletes
<1>2. LagInv'
  <2> SUFFICES ASSUME NEW c \in CRs, cache[c] # None, cache[c].finalizer
               PROVE  api'[c] = cache[c] \/ Past(api'[c], cache[c])
    BY <1>1 DEF LagInv
  <2>1. cache[c] \in Objects
    BY DEF VarTypes, KubeTypeOK
  <2> QED
    BY <2>1, UserKeepsPast DEF CopyInv, LagInv
<1>3. LinkInv'
  <2>1. CASE rec.pc \notin {"idle", "addFinalizer"}
    <3>1. rec.cr \in CRs /\ rec.obj \in Objects
      BY <2>1, BusyFields
    <3>2. \/ api[rec.cr] = rec.obj /\ cache[rec.cr] = rec.obj
          \/ Past(api[rec.cr], rec.obj)
      BY <2>1 DEF CopyInv, LinkInv
    <3>3. api'[rec.cr] = api[rec.cr] \/ Past(api'[rec.cr], rec.obj)
      BY <3>1, <3>2, UserKeepsPast
    <3> QED
      BY <1>1, <2>1, <3>2, <3>3 DEF LinkInv
  <2>2. CASE rec.pc = "addFinalizer"
    <3>1. rec.cr \in CRs
      BY <2>2, BusyFields
    <3>2. api'[rec.cr] = None \/ ~ api'[rec.cr].finalizer =>
            api[rec.cr] = None \/ ~ api[rec.cr].finalizer
      BY <3>1, UserMoves
    <3> QED
      BY <1>1, <2>2, <3>2 DEF CopyInv, LinkInv
  <2> QED
    BY <2>1, <2>2 DEF LinkInv
<1>4. StatusInv'
  <2> SUFFICES ASSUME NEW c \in CRs, api'[c] # None
               PROVE  /\ api'[c].status.obsGen <= api'[c].gen
                      /\ api'[c].status.ready = "True" => api'[c].finalizer
    BY DEF StatusInv
  <2>1. api[c] # None => /\ api[c].gen \in Nat /\ api[c].status.obsGen \in Nat
                         /\ api[c].status.obsGen <= api[c].gen
                         /\ api[c].status.ready = "True" => api[c].finalizer
    BY DEF CopyInv, StatusInv, VarTypes, KubeTypeOK, Objects, Statuses
  <2> QED
    BY <2>1, UserMoves DEF EmptyStatus
<1> QED
  BY <1>2, <1>3, <1>4 DEF CopyInv

LEMMA CopyInformer ==
  ASSUME VarTypes, CopyInv, UNCHANGED <<api, rec>>, NEW c \in CRs, WatchEvent(c) \/ Resync(c)
  PROVE  CopyInv'
<1>1. ASSUME NEW d \in CRs PROVE cache'[d] = cache[d] \/ cache'[d] = api[d]
  BY DEF WatchEvent, Resync, VarTypes, KubeTypeOK
<1>2. LagInv'
  BY <1>1 DEF CopyInv, LagInv
<1>3. LinkInv'
  BY <1>1, BusyFields DEF CopyInv, LinkInv
<1> QED
  BY <1>2, <1>3 DEF CopyInv, StatusInv

----------------------------------------------------------------------------
\* The controller's own steps and what they copy.

\* A reconcile that has built its client goes on with the same copy, or is over.
GoesOn ==
  /\ rec.pc \notin {"idle", "addFinalizer"} /\ rec'.pc \notin {"idle", "addFinalizer"}
  /\ rec'.cr = rec.cr /\ rec'.obj = rec.obj

LEMMA FoundGoesOn ==
  ASSUME VarTypes, rec.pc \notin {"idle", "addFinalizer"}, NEW u, Found(u)
  PROVE  UNCHANGED cache /\ (rec' = Idle \/ GoesOn)
<1>1. rec \in Busy
  BY BusyFields
<1> QED
  BY <1>1 DEF Found, Return, SetReadySuccess, GoesOn, Busy

LEMMA FailedGoesOn ==
  ASSUME VarTypes, rec.pc \notin {"idle", "addFinalizer"}, SetReadyFailed
  PROVE  GoesOn
  BY BusyFields DEF SetReadyFailed, GoesOn, Busy

RemoteCalls ==
  \/ BuildOPNsenseClient \/ BuildClientFails \/ GetRecordedRule
  \/ SearchRuleByManagedSuffix \/ GetMatchedRule \/ GetAppliedRule \/ ReadFails
  \/ CreateRule \/ UpdateRule \/ ApplyFirewallRules \/ DeleteRule \/ ApplyDeletion
  \/ WriteFails

LEMMA CallGoesOn ==
  ASSUME VarTypes, RemoteCalls
  PROVE  UNCHANGED <<api, cache>> /\ (rec' = Idle \/ GoesOn)
<1> USE DEF ReadCalls, WriteCalls
<1>1. rec.pc \notin {"idle", "addFinalizer"}
  BY DEF RemoteCalls, BuildOPNsenseClient, BuildClientFails, GetRecordedRule,
         SearchRuleByManagedSuffix, GetMatchedRule, GetAppliedRule, ReadFails, CreateRule,
         UpdateRule, ApplyFirewallRules, DeleteRule, ApplyDeletion, WriteFails
<1>2. rec \in Busy
  BY <1>1, BusyFields
<1>3. CASE GetRecordedRule \/ GetMatchedRule
  BY <1>1, <1>2, <1>3, FoundGoesOn, FailedGoesOn
     DEF GetRecordedRule, GetMatchedRule, GoesOn, Busy
<1>4. CASE BuildOPNsenseClient
  BY <1>1, <1>2, <1>4 DEF BuildOPNsenseClient, GoesOn, Busy, kubeVars
<1>5. CASE SearchRuleByManagedSuffix
  BY <1>1, <1>2, <1>5, FailedGoesOn DEF SearchRuleByManagedSuffix, GoesOn, Busy, kubeVars
<1>6. CASE GetAppliedRule
  BY <1>1, <1>2, <1>6, FailedGoesOn
     DEF GetAppliedRule, SetReadySuccess, GoesOn, Busy, kubeVars
<1>7. CASE CreateRule \/ UpdateRule \/ ApplyFirewallRules \/ DeleteRule \/ ApplyDeletion
  BY <1>1, <1>2, <1>7, FailedGoesOn
     DEF CreateRule, UpdateRule, ApplyFirewallRules, DeleteRule, ApplyDeletion, GoesOn, Busy,
         kubeVars
<1>8. CASE BuildClientFails \/ ReadFails \/ WriteFails
  BY <1>1, <1>8, FailedGoesOn DEF BuildClientFails, ReadFails, WriteFails, kubeVars
<1> QED
  BY <1>3, <1>4, <1>5, <1>6, <1>7, <1>8 DEF RemoteCalls

LEMMA CopyCall ==
  ASSUME VarTypes, CopyInv, RemoteCalls
  PROVE  CopyInv'
<1>1. LagInv' /\ StatusInv'
  BY CallGoesOn DEF CopyInv, LagInv, StatusInv
<1>2. LinkInv'
  BY CallGoesOn DEF CopyInv, LinkInv, GoesOn, Idle
<1> QED
  BY <1>1, <1>2 DEF CopyInv

LEMMA CopyReconcile ==
  ASSUME VarTypes, CopyInv, NEW c \in CRs, Reconcile(c)
  PROVE  CopyInv'
<1>1. UNCHANGED <<api, cache>>
  BY DEF Reconcile
<1>2. CASE UNCHANGED rec
  BY <1>1, <1>2 DEF CopyInv, LagInv, LinkInv, StatusInv
<1>3. CASE /\ cache[c] # None
           /\ \E pc \in {"removeFinalizer", "buildClient", "addFinalizer"} :
                /\ rec' = [Idle EXCEPT !.pc = pc, !.cr = c, !.obj = cache[c]]
                /\ cache[c].finalizer <=> pc # "addFinalizer"
  <2>1. PICK pc \in {"removeFinalizer", "buildClient", "addFinalizer"} :
          /\ rec' = [Idle EXCEPT !.pc = pc, !.cr = c, !.obj = cache[c]]
          /\ cache[c].finalizer <=> pc # "addFinalizer"
    BY <1>3
  <2>2. rec'.pc = pc /\ rec'.cr = c /\ rec'.obj = cache[c]
    BY <2>1 DEF Idle
  <2>3. pc # "addFinalizer" => api[c] = cache[c] \/ Past(api[c], cache[c])
    BY <1>3, <2>1 DEF CopyInv, LagInv
  <2>4. LinkInv'
    BY <1>1, <2>1, <2>2, <2>3 DEF LinkInv
  <2> QED
    BY <1>1, <2>4 DEF CopyInv, LagInv, StatusInv
<1> QED
  BY <1>2, <1>3 DEF Reconcile

LEMMA CopyCrash ==
  ASSUME VarTypes, CopyInv, Crash
  PROVE  CopyInv'
  BY DEF Crash, Relist, CopyInv, LagInv, LinkInv, StatusInv, Idle

\* A write of the controller ends the reconcile, and stores nothing or one of these.
ControllerWrites ==
  \/ UNCHANGED api
  \/ rec.pc = "addFinalizer" /\ Stored(rec.cr, rec.obj, WithFinalizer)
  \/ rec.pc = "setStatus" /\ Stored(rec.cr, rec.obj, WithStatus)
  \/ rec.pc = "removeFinalizer" /\ Stored(rec.cr, rec.obj, None)

LEMMA KubeCallWrites ==
  ASSUME AddFinalizer \/ RemoveFinalizer \/ SetReadyCondition \/ KubeCallFails
  PROVE  /\ rec.pc \in KubeCalls /\ rec' = Idle /\ UNCHANGED cache /\ UNCHANGED filterVars
         /\ ControllerWrites
  BY DEF AddFinalizer, RemoveFinalizer, SetReadyCondition, Update, KubeCallFails, Return,
         Conflict, KubeCalls, ControllerWrites

LEMMA WrittenFields ==
  ASSUME VarTypes, rec.pc # "idle"
  PROVE  /\ WithFinalizer.finalizer /\ WithFinalizer.status = rec.obj.status
         /\ WithFinalizer.gen \in {rec.obj.gen, rec.obj.gen + 1}
         /\ WithStatus.finalizer = rec.obj.finalizer /\ WithStatus.status = rec.status
         /\ WithStatus.gen = rec.obj.gen /\ WithStatus.spec = rec.obj.spec
         /\ WithStatus.deleting = rec.obj.deleting
         /\ rec.status = rec.obj.status => WithStatus = rec.obj
         /\ WithFinalizer # None /\ WithStatus # None
<1>1. rec.obj \in Objects
  BY BusyFields
<1>2. WithFinalizer # None /\ WithStatus # None
  BY TypeWritten, AbsentAssumption
<1> QED
  BY <1>1, <1>2 DEF WithFinalizer, WithStatus, Objects

LEMMA CopyKubeCall ==
  ASSUME VarTypes, DeletionInv, PathInv, CopyInv, WorkInv, rec.pc # "idle",
         ControllerWrites, rec' = Idle, UNCHANGED cache
  PROVE  CopyInv'
<1>1. /\ rec.cr \in CRs /\ rec.obj \in Objects
      /\ rec.obj.gen \in Nat /\ rec.obj.status.obsGen \in Nat
  BY BusyFields DEF Objects, Statuses
<1>2. api \in [CRs -> Objects \union {None}]
  BY DEF VarTypes, KubeTypeOK
<1>3. LinkInv'
  BY DEF LinkInv, Idle
<1>4. CASE UNCHANGED api
  BY <1>3, <1>4 DEF CopyInv, LagInv, StatusInv
<1>5. CASE rec.pc = "addFinalizer" /\ Stored(rec.cr, rec.obj, WithFinalizer)
  <2>1. ~ rec.obj.finalizer /\ api[rec.cr] = rec.obj
    BY <1>5 DEF PathInv, Stored
  <2>2. cache[rec.cr] = None \/ ~ cache[rec.cr].finalizer
    BY <1>5, <2>1 DEF CopyInv, LinkInv
  <2>3. LagInv'
    BY <1>1, <1>2, <1>5, <2>2 DEF CopyInv, LagInv, Stored
  <2>4. StatusInv'
    BY <1>1, <1>2, <1>5, WrittenFields, AbsentAssumption DEF CopyInv, StatusInv, Stored
  <2> QED
    BY <1>3, <2>3, <2>4 DEF CopyInv
<1>6. CASE rec.pc = "setStatus" /\ Stored(rec.cr, rec.obj, WithStatus)
  <2>1. rec.obj.finalizer /\ api[rec.cr] = rec.obj
    BY <1>6 DEF DeletionInv, Stored
  <2>2. ~ Past(rec.obj, rec.obj)
    BY <1>1, <2>1, AbsentAssumption DEF Past
  <2>3. cache[rec.cr] = rec.obj
    BY <1>6, <2>1, <2>2 DEF CopyInv, LinkInv
  <2>4. WithStatus = rec.obj \/ Past(WithStatus, rec.obj)
    BY <1>6, WrittenFields DEF Past
  <2>5. LagInv'
    BY <1>1, <1>2, <1>6, <2>3, <2>4 DEF CopyInv, LagInv, Stored
  <2>6. rec.status.obsGen <= rec.obj.gen
    BY <1>1, <1>6, <2>1, AbsentAssumption DEF WorkInv, CopyInv, StatusInv
  <2>7. StatusInv'
    BY <1>1, <1>2, <1>6, <2>1, <2>6, WrittenFields DEF CopyInv, StatusInv, Stored
  <2> QED
    BY <1>3, <2>5, <2>7 DEF CopyInv
<1>7. CASE rec.pc = "removeFinalizer" /\ Stored(rec.cr, rec.obj, None)
  <2>1. LagInv'
    BY <1>1, <1>2, <1>7 DEF CopyInv, LagInv, Stored, Past
  <2>2. StatusInv'
    BY <1>1, <1>2, <1>7 DEF CopyInv, StatusInv, Stored
  <2> QED
    BY <1>3, <2>1, <2>2 DEF CopyInv
<1> QED
  BY <1>4, <1>5, <1>6, <1>7 DEF ControllerWrites

----------------------------------------------------------------------------
\* What is written to the configuration.

\* With nobody else writing, the configuration changes only by the request of the
\* reconcile in progress, whatever its caller learns of the outcome.
LEMMA OnlyRequestsWrite ==
  ASSUME NobodyElseWrites, VarTypes, late = {}, [Next]_vars, staged' # staged
  PROVE  /\ rec.pc \in {"create", "update", "delete"}
         /\ \E v \in UUIDs : (rec.pc = "create" => Fresh(v)) /\ Serve(Request, v)
<1>1. CASE CreateRule \/ UpdateRule \/ DeleteRule
  <2>1. Request.op = rec.pc /\ Request.uuid = rec.uuid /\ Request.rule = Desired
    BY <1>1 DEF Request, CreateRule, UpdateRule, DeleteRule
  <2>2. CASE CreateRule
    BY <1>1, <2>1, <2>2 DEF CreateRule, Serve
  <2>3. CASE UpdateRule \/ DeleteRule
    <3>1. rec.pc \in {"update", "delete"} /\ rec.uuid \in UUIDs
      BY <2>3, BusyFields DEF UpdateRule, DeleteRule, SetRule, DelRule, Present
    <3> QED
      BY <2>1, <2>3, <3>1 DEF UpdateRule, DeleteRule, Serve
  <2> QED
    BY <1>1, <2>2, <2>3
<1>2. CASE WriteFails
  <2>1. PICK v \in UUIDs : (rec.pc = "create" => Fresh(v)) /\ LoseCall(Request, v)
    BY <1>2 DEF WriteFails
  <2>2. Serve(Request, v)
    BY <2>1 DEF LoseCall
  <2>3. rec.pc \in {"create", "update", "delete"}
    BY <1>2, <2>2 DEF WriteFails, WriteCalls, Serve, Apply, Request
  <2> QED
    BY <2>1, <2>2, <2>3
<1>3. CASE AdminStep
  BY <1>3 DEF AdminStep, NobodyElseWrites, AdminApplies, Apply
<1>4. CASE LateStep
  BY <1>4 DEF LateStep
<1> QED
  BY <1>1, <1>2, <1>3, <1>4
     DEF Next, Reconcile, Calls, Failures, Crash, UserOrInformerStep, BuildOPNsenseClient,
         BuildClientFails, GetRecordedRule, SearchRuleByManagedSuffix, GetMatchedRule,
         GetAppliedRule, ReadFails, ApplyFirewallRules, ApplyDeletion, Apply, AddFinalizer,
         RemoveFinalizer, SetReadyCondition, Update, KubeCallFails, vars, filterVars

\* No write reaches the rule of a Ready resource.
LEMMA ReadyRuleKept ==
  ASSUME NobodyElseWrites, VarTypes, late = {}, PathInv, Exclusive, ReadyInv, WorkInv,
         [Next]_vars, NEW c \in CRs, Ready(c)
  PROVE  staged'[api[c].status.uuid] = staged[api[c].status.uuid]
<1>1. PICK u \in UUIDs : u = api[c].status.uuid
  BY DEF ReadyInv, Synced
<1>2. api[c] # None /\ staged[u] # None
  BY <1>1 DEF ReadyInv, Synced, Conforms, Ready, ReportsReady
<1> SUFFICES ASSUME staged'[u] # staged[u] PROVE FALSE
  BY <1>1
<1>3. /\ rec.pc \in {"create", "update", "delete"}
      /\ \E v \in UUIDs : Serve(Request, v)
  BY OnlyRequestsWrite
<1>4. rec.pc # "idle"
  BY <1>3
<1>5. Request \in Requests /\ Request.uuid = rec.uuid
  BY <1>3, <1>4, TypeDesired, BusyFields DEF Request, Requests
<1>6. rec.uuid = u
  BY <1>2, <1>3, <1>5, ServedIsReferred
<1>7. rec.cr = c
  <2>1. Refers(rec.cr, u) /\ rec.cr \in CRs
    BY <1>4, <1>6, RecRefers, BusyFields
  <2>2. Refers(c, u)
    BY <1>1, <1>2 DEF Refers, UuidOf
  <2> QED
    BY <2>1, <2>2 DEF Exclusive
<1>8. ~ rec.obj.deleting /\ rec.pc \notin {"create", "update"}
  BY <1>4, <1>7 DEF WorkInv
<1> QED
  BY <1>3, <1>8 DEF PathInv

----------------------------------------------------------------------------
\* Everything together.

IInv == VarTypes /\ DeletionInv /\ PathInv /\ Exclusive /\ UniqueInv /\ TruthInv

\* The cache gets nothing but what is stored.
LEMMA CacheSteps ==
  ASSUME VarTypes, [Next]_vars, NEW c \in CRs
  PROVE  cache'[c] \in {cache[c], api[c]}
<1>1. CASE Reconcile(c) \/ AdminStep \/ LateStep \/ UNCHANGED vars \/ \E d \in CRs : Reconcile(d)
  BY <1>1 DEF Reconcile, AdminStep, LateStep, vars, kubeVars
<1>2. CASE RemoteCalls
  BY <1>2, CallGoesOn
<1>3. CASE AddFinalizer \/ RemoveFinalizer \/ SetReadyCondition \/ KubeCallFails
  BY <1>3, KubeCallWrites
<1>4. CASE Crash
  BY <1>4 DEF Crash, Relist
<1>5. CASE UserOrInformerStep
  <2>1. cache \in [CRs -> Objects \union {None}]
    BY DEF VarTypes, KubeTypeOK
  <2> QED
    BY <1>5, <2>1
       DEF UserOrInformerStep, UserStep, UserCreates, UserEdits, UserDeletes, WatchEvent, Resync
<1> QED
  BY <1>1, <1>2, <1>3, <1>4, <1>5 DEF Next, Calls, Failures, RemoteCalls

\* Users do not make a resource Ready.
LEMMA UserUnready ==
  ASSUME VarTypes, StatusInv, UserStep, NEW c \in CRs, Ready(c)'
  PROVE  api'[c] = api[c]
<1>1. api[c] # None => api[c].gen \in Nat /\ api[c].status.obsGen \in Nat
  BY DEF VarTypes, KubeTypeOK, Objects, Statuses
<1> QED
  BY <1>1, UserMoves DEF StatusInv, Ready, ReportsReady, EmptyStatus

\* A resource becomes Ready by a status update only.
LEMMA BecomesReady ==
  ASSUME VarTypes, DeletionInv, PathInv, StatusInv, [Next]_vars, NEW c \in CRs, Ready(c)'
  PROVE  \/ api'[c] = api[c]
         \/ c = rec.cr /\ rec.pc = "setStatus" /\ Stored(rec.cr, rec.obj, WithStatus)
<1>1. api \in [CRs -> Objects \union {None}]
  BY DEF VarTypes, KubeTypeOK
<1>2. CASE UserStep
  BY <1>2, UserUnready
<1>3. CASE rec.pc = "addFinalizer" /\ Stored(rec.cr, rec.obj, WithFinalizer)
  <2>1. /\ rec.cr \in CRs /\ api[rec.cr] = rec.obj /\ rec.obj \in Objects
        /\ ~ rec.obj.finalizer
    BY <1>3, BusyFields DEF PathInv, Stored
  <2>2. rec.obj.status.ready # "True"
    BY <2>1, AbsentAssumption DEF StatusInv
  <2>3. api'[rec.cr] = WithFinalizer /\ WithFinalizer.status = rec.obj.status
    BY <1>1, <1>3, <2>1, WrittenFields DEF Stored
  <2> QED
    BY <1>1, <1>3, <2>1, <2>2, <2>3 DEF Ready, ReportsReady, Stored
<1>4. CASE rec.pc = "setStatus" /\ Stored(rec.cr, rec.obj, WithStatus)
  BY <1>1, <1>4 DEF Stored
<1>5. CASE rec.pc = "removeFinalizer" /\ Stored(rec.cr, rec.obj, None)
  BY <1>1, <1>5, BusyFields DEF Ready, ReportsReady, Stored
<1> QED
  BY <1>2, <1>3, <1>4, <1>5, ObjectSteps

LEMMA ReadyNext ==
  ASSUME NobodyElseWrites, IInv, [Next]_vars
  PROVE  ReadyInv'
<1> USE DEF IInv, TruthInv, CopyInv
<1> SUFFICES ASSUME NEW c \in CRs, Ready(c)'
             PROVE  /\ Synced(c, api[c].spec, api[c].status)'
                    /\ cache'[c] # None /\ cache'[c].spec = api'[c].spec
                    /\ ~ cache'[c].deleting
  BY DEF ReadyInv
<1>1. CASE api'[c] = api[c]
  <2>1. Ready(c)
    BY <1>1 DEF Ready, ReportsReady
  <2>2. /\ Synced(c, api[c].spec, api[c].status)
        /\ cache[c] # None /\ cache[c].spec = api[c].spec /\ ~ cache[c].deleting
    BY <2>1 DEF ReadyInv
  <2>3. staged'[api[c].status.uuid] = staged[api[c].status.uuid]
    BY <2>1, ReadyRuleKept DEF UniqueInv
  <2>4. Synced(c, api[c].spec, api[c].status)'
    BY <1>1, <2>2, <2>3 DEF Synced, Conforms
  <2>5. api[c] # None /\ ~ api[c].deleting
    BY <2>1 DEF Ready, ReportsReady
  <2> QED
    BY <1>1, <2>2, <2>4, <2>5, CacheSteps
<1>2. CASE c = rec.cr /\ rec.pc = "setStatus" /\ Stored(rec.cr, rec.obj, WithStatus)
           /\ api'[c] # api[c]
  <2>1. rec.obj \in Objects /\ api[c] = rec.obj /\ api'[c] = WithStatus
    BY <1>2, BusyFields DEF Stored, VarTypes, KubeTypeOK
  <2>2. /\ WithStatus.spec = rec.obj.spec /\ WithStatus.status = rec.status
        /\ WithStatus.deleting = rec.obj.deleting /\ rec.obj.finalizer
    BY <1>2, WrittenFields DEF DeletionInv
  <2>3. rec.status.ready = "True" /\ ~ rec.obj.deleting
    BY <2>1, <2>2 DEF Ready, ReportsReady
  <2>4. Synced(c, rec.obj.spec, rec.status)
    BY <1>2, <2>3 DEF WorkInv
  <2>5. UNCHANGED staged
    BY <1>2, ObjectSteps
  <2>6. Synced(c, api[c].spec, api[c].status)'
    BY <2>1, <2>2, <2>4, <2>5 DEF Synced, Conforms
  <2>7. ~ Past(rec.obj, rec.obj)
    BY <2>1, <2>2, AbsentAssumption DEF Past, Objects
  <2>8. cache[c] = rec.obj
    BY <1>2, <2>1, <2>7 DEF LinkInv
  <2>9. cache'[c] = rec.obj
    BY <2>1, <2>8, CacheSteps
  <2> QED
    BY <2>1, <2>2, <2>3, <2>6, <2>9, AbsentAssumption
<1> QED
  BY <1>1, <1>2, BecomesReady

----------------------------------------------------------------------------
\* The reconcile in progress.

\* A reconcile that is over, or that only goes on to report a failure.
LEMMA WorkReturns ==
  ASSUME rec' = Idle
  PROVE  WorkInv'
  BY DEF WorkInv, Idle

LEMMA WorkGoesOn ==
  ASSUME IInv, UNCHANGED api, rec.pc # "idle", rec'.cr = rec.cr, rec'.obj = rec.obj,
         rec'.pc \notin {"create", "update", "apply", "getApplied", "setStatus"}
  PROVE  WorkInv'
  BY DEF WorkInv, IInv, TruthInv, Ready, ReportsReady

LEMMA WorkFailed ==
  ASSUME IInv, UNCHANGED api, rec.pc # "idle", SetReadyFailed
  PROVE  WorkInv'
<1>1. /\ rec'.pc = "setStatus" /\ rec'.cr = rec.cr /\ rec'.obj = rec.obj
      /\ rec'.status.obsGen = rec.obj.status.obsGen /\ rec'.status.ready = "False"
  BY BusyFields DEF SetReadyFailed, Busy, Statuses, IInv
<1>2. Ready(rec.cr)' => Ready(rec.cr)
  BY <1>1 DEF Ready, ReportsReady
<1> QED
  BY <1>1, <1>2 DEF WorkInv, IInv, TruthInv, Ready, ReportsReady

\* A reconcile that has found the right rule goes on to report it.
LEMMA WorkSuccess ==
  ASSUME IInv, UNCHANGED <<api, staged>>, rec.pc # "idle", NEW u \in UUIDs,
         Conforms(staged[u], rec.cr, rec.obj.spec), SetReadySuccess(u, staged[u].seq)
  PROVE  WorkInv'
<1>1. rec' = [rec EXCEPT !.pc = "setStatus", !.failed = FALSE,
                         !.status = Success(u, staged[u].seq)]
  BY DEF SetReadySuccess
<1>2. rec \in Busy
  BY BusyFields DEF IInv
<1>3. /\ rec'.pc = "setStatus" /\ rec'.cr = rec.cr /\ rec'.obj = rec.obj
      /\ rec'.status = Success(u, staged[u].seq)
  BY <1>1, <1>2 DEF Busy
<1>4. /\ rec'.status.obsGen = rec.obj.gen
      /\ rec'.status.uuid = u /\ rec'.status.seq = staged[u].seq
  BY <1>3 DEF Success
<1>5. Synced(rec.cr, rec.obj.spec, rec.status)'
  BY <1>3, <1>4 DEF Synced, Conforms
<1>6. Ready(rec.cr)' => Ready(rec.cr)
  BY <1>3 DEF Ready, ReportsReady
<1> QED
  BY <1>3, <1>4, <1>5, <1>6 DEF WorkInv, IInv, TruthInv, Ready, ReportsReady

\* The rule a reconcile found is the only one of its resource.
LEMMA OwnRuleFound ==
  ASSUME IInv, rec.pc # "idle", NEW u \in UUIDs, Present(u), Refers(rec.cr, u),
         Ready(rec.cr)
  PROVE  Conforms(staged[u], rec.cr, rec.obj.spec)
<1> USE DEF IInv, TruthInv
<1>1. rec.cr \in CRs
  BY BusyFields
<1>2. PICK v \in UUIDs : v = api[rec.cr].status.uuid
                         /\ Conforms(staged[v], rec.cr, api[rec.cr].spec)
  BY <1>1 DEF ReadyInv, Synced
<1>3. staged[u].owner = rec.cr
  <2>1. staged[u].owner \in CRs
    BY DEF UniqueInv, Present, VarTypes, FilterTypeOK, Rules
  <2>2. Refers(staged[u].owner, u)
    BY DEF Refers, Present
  <2> QED
    BY <1>1, <2>1, <2>2 DEF Exclusive
<1>4. Present(v) /\ staged[v].owner = rec.cr
  BY <1>2, NoneNotUuid DEF Conforms, Present
<1>5. u = v
  BY <1>1, <1>3, <1>4, NoneAssumption DEF UniqueInv, AtMostOneManaged
<1> QED
  BY <1>2, <1>5 DEF WorkInv

LEMMA WorkFound ==
  ASSUME IInv, UNCHANGED <<api, staged>>, rec.pc # "idle", NEW u \in UUIDs, Present(u),
         Refers(rec.cr, u), ~ rec.obj.deleting, Found(u)
  PROVE  WorkInv'
<1>1. rec \in Busy
  BY BusyFields DEF IInv
<1>2. RuleNeedsUpdate(rec.cr, rec.obj.spec, staged[u]) <=>
        ~ Conforms(staged[u], rec.cr, rec.obj.spec)
  BY DEF RuleNeedsUpdate, Conforms, Present
<1>3. CASE RuleNeedsUpdate(rec.cr, rec.obj.spec, staged[u])
           /\ rec' = [rec EXCEPT !.pc = "update", !.uuid = u]
  <2>1. ~ Ready(rec.cr)
    BY <1>2, <1>3, OwnRuleFound
  <2>2. rec'.pc = "update" /\ rec'.cr = rec.cr
    BY <1>1, <1>3 DEF Busy
  <2> QED
    BY <2>1, <2>2 DEF WorkInv, Ready, ReportsReady
<1>4. CASE Return(FALSE)
  BY <1>4, WorkReturns DEF Return
<1>5. CASE ~ RuleNeedsUpdate(rec.cr, rec.obj.spec, staged[u])
           /\ SetReadySuccess(u, staged[u].seq)
  BY <1>2, <1>5, WorkSuccess
<1> QED
  BY <1>3, <1>4, <1>5 DEF Found

LEMMA WorkReconcile ==
  ASSUME IInv, NEW c \in CRs, Reconcile(c)
  PROVE  WorkInv'
<1>1. UNCHANGED api /\ rec = Idle
  BY DEF Reconcile
<1>2. CASE UNCHANGED rec
  BY <1>1, <1>2, WorkReturns
<1>3. CASE \E pc \in {"removeFinalizer", "buildClient", "addFinalizer"} :
             rec' = [Idle EXCEPT !.pc = pc, !.cr = c, !.obj = cache[c]]
  <2>1. /\ rec'.pc \in {"removeFinalizer", "buildClient", "addFinalizer"}
        /\ rec'.cr = c /\ rec'.obj = cache[c]
    BY <1>3 DEF Idle
  <2>2. Ready(c)' => Ready(c)
    BY <1>1 DEF Ready, ReportsReady
  <2> QED
    BY <1>1, <2>1, <2>2 DEF WorkInv, IInv, TruthInv, ReadyInv
<1> QED
  BY <1>2, <1>3 DEF Reconcile

LEMMA WorkResolve ==
  ASSUME IInv,
         \/ BuildOPNsenseClient \/ BuildClientFails \/ GetRecordedRule
         \/ SearchRuleByManagedSuffix \/ GetMatchedRule \/ GetAppliedRule \/ ReadFails
  PROVE  WorkInv'
<1>1. /\ rec.pc \notin {"idle", "addFinalizer"} /\ rec \in Busy /\ VarTypes
      /\ UNCHANGED <<api, staged>>
  BY BusyFields
     DEF IInv, BuildOPNsenseClient, BuildClientFails, GetRecordedRule,
         SearchRuleByManagedSuffix, GetMatchedRule, GetAppliedRule, ReadFails, ReadCalls,
         kubeVars, filterVars
<1>2. CASE BuildClientFails \/ ReadFails \/ SetReadyFailed
  BY <1>1, <1>2, WorkFailed DEF BuildClientFails, ReadFails
<1>3. CASE BuildOPNsenseClient
  BY <1>1, <1>3, WorkGoesOn DEF BuildOPNsenseClient, Busy
<1>4. CASE GetRecordedRule
  <2>1. ~ rec.obj.deleting /\ Refers(rec.cr, rec.obj.status.uuid)
    BY <1>1, <1>4, RecRefers DEF GetRecordedRule, IInv, PathInv
  <2>2. CASE Present(rec.obj.status.uuid) /\ Found(rec.obj.status.uuid)
    BY <1>1, <2>1, <2>2, BusyFields, WorkFound DEF Present
  <2>3. CASE rec' = [rec EXCEPT !.pc = "search"]
    BY <1>1, <2>3, WorkGoesOn DEF Busy
  <2> QED
    BY <1>4, <2>2, <2>3 DEF GetRecordedRule
<1>5. CASE SearchRuleByManagedSuffix
  <2>1. CASE SearchHits(rec.cr) = {} /\ rec' = [rec EXCEPT !.pc = "create"]
    <3>1. rec.cr \in CRs
      BY <1>1, BusyFields
    <3>2. \A u \in UUIDs : Present(u) => staged[u].owner # rec.cr
      BY <1>1, <2>1, <3>1, SearchIsComplete
    <3>3. ~ Ready(rec.cr)
      BY <3>1, <3>2, NoneNotUuid DEF IInv, TruthInv, ReadyInv, Synced, Conforms, Present
    <3>4. rec'.pc = "create" /\ rec'.cr = rec.cr
      BY <1>1, <2>1 DEF Busy
    <3> QED
      BY <1>1, <3>3, <3>4 DEF WorkInv, Ready, ReportsReady
  <2>2. CASE \E u : rec' = [rec EXCEPT !.pc = "getMatch", !.uuid = u]
    BY <1>1, <2>2, WorkGoesOn DEF Busy
  <2> QED
    BY <1>1, <1>2, <1>5, <2>1, <2>2 DEF SearchRuleByManagedSuffix
<1>6. CASE GetMatchedRule
  <2>1. ~ rec.obj.deleting /\ Refers(rec.cr, rec.uuid)
    BY <1>1, <1>6, RecRefers DEF GetMatchedRule, IInv, PathInv
  <2>2. CASE Present(rec.uuid) /\ Found(rec.uuid)
    BY <1>1, <2>1, <2>2, BusyFields, WorkFound DEF Present
  <2> QED
    BY <1>1, <1>2, <1>6, <2>2 DEF GetMatchedRule
<1>7. CASE GetAppliedRule
  <2>1. Conforms(staged[rec.uuid], rec.cr, rec.obj.spec)
    BY <1>7 DEF GetAppliedRule, IInv, TruthInv, WorkInv
  <2>2. CASE Present(rec.uuid) /\ SetReadySuccess(rec.uuid, staged[rec.uuid].seq)
    BY <1>1, <2>1, <2>2, BusyFields, WorkSuccess DEF Present
  <2> QED
    BY <1>1, <1>2, <1>7, <2>2 DEF GetAppliedRule
<1> QED
  BY <1>2, <1>3, <1>4, <1>5, <1>6, <1>7

\* The rule a write stores has the contents of the copy.
LEMMA WrittenConforms ==
  ASSUME VarTypes, rec.pc # "idle", NEW u \in UUIDs,
         AddRule(u, Desired) \/ SetRule(u, Desired)
  PROVE  Conforms(staged'[u], rec.cr, rec.obj.spec)
<1>1. staged \in [UUIDs -> Rules \union {None}]
  BY DEF VarTypes, FilterTypeOK
<1>2. /\ Desired.owner = rec.cr /\ Desired.body = rec.obj.spec.body
      /\ Desired.enabled = rec.obj.spec.enabled /\ Desired.seq = rec.obj.spec.seq
  BY DEF Desired, SpecToRule
<1>3. Desired.owner # None
  BY <1>2, BusyFields, NoneAssumption
<1>4. ASSUME NEW s, staged'[u] = [owner |-> Desired.owner, body |-> Desired.body,
                                  enabled |-> Desired.enabled, seq |-> s],
             s \in Seqs, Desired.seq # None => s = Desired.seq
      PROVE  Conforms(staged'[u], rec.cr, rec.obj.spec)
  <2>1. Desired.body \in Bodies /\ Desired.enabled \in BOOLEAN /\ Desired.owner \in CRs
    BY TypeDesired DEF Payloads
  <2>2. staged'[u] # None
    BY <1>4, <2>1, AbsentAssumption DEF Rules
  <2> QED
    BY <1>2, <1>4, <2>2 DEF Conforms
<1>5. CASE AddRule(u, Desired)
  BY <1>1, <1>4, <1>5 DEF AddRule
<1>6. CASE SetRule(u, Desired)
  <2>1. staged[u].seq \in Seqs /\ (Desired.seq # None => Desired.seq \in Seqs)
    BY <1>1, <1>6, TypeDesired DEF SetRule, Present, Rules, Payloads
  <2> QED
    BY <1>1, <1>4, <1>6, <2>1 DEF SetRule
<1> QED
  BY <1>5, <1>6

LEMMA WorkWrite ==
  ASSUME IInv,
         CreateRule \/ UpdateRule \/ ApplyFirewallRules \/ DeleteRule \/ ApplyDeletion
  PROVE  WorkInv'
<1>1. rec.pc # "idle" /\ rec \in Busy /\ VarTypes /\ UNCHANGED api
  BY BusyFields
     DEF IInv, CreateRule, UpdateRule, ApplyFirewallRules, DeleteRule, ApplyDeletion, kubeVars
<1>2. CASE SetReadyFailed
  BY <1>1, <1>2, WorkFailed
<1>3. ASSUME NEW u \in UUIDs, AddRule(u, Desired) \/ SetRule(u, Desired),
             rec' = [rec EXCEPT !.pc = "apply", !.uuid = u]
      PROVE  WorkInv'
  <2>1. rec'.pc = "apply" /\ rec'.uuid = u /\ rec'.cr = rec.cr /\ rec'.obj = rec.obj
    BY <1>1, <1>3 DEF Busy
  <2>2. Conforms(staged'[u], rec.cr, rec.obj.spec)
    BY <1>1, <1>3, WrittenConforms
  <2>3. Ready(rec.cr)' => Ready(rec.cr)
    BY <1>1, <2>1 DEF Ready, ReportsReady
  <2> QED
    BY <1>1, <2>1, <2>2, <2>3 DEF WorkInv, IInv, TruthInv, Ready, ReportsReady
<1>4. CASE CreateRule
  BY <1>2, <1>3, <1>4 DEF CreateRule
<1>5. CASE UpdateRule
  <2>1. CASE SetRule(rec.uuid, Desired) /\ rec' = [rec EXCEPT !.pc = "apply"]
    <3>1. rec.uuid \in UUIDs
      BY <1>1, <2>1, BusyFields DEF SetRule, Present
    <3>2. rec' = [rec EXCEPT !.pc = "apply", !.uuid = rec.uuid]
      BY <1>1, <2>1 DEF Busy
    <3> QED
      BY <1>3, <2>1, <3>1, <3>2
  <2> QED
    BY <1>2, <1>5, <2>1 DEF UpdateRule
<1>6. CASE ApplyFirewallRules
  <2>1. /\ rec'.pc = "getApplied" /\ rec'.uuid = rec.uuid /\ rec'.cr = rec.cr
        /\ rec'.obj = rec.obj /\ UNCHANGED staged
    BY <1>1, <1>6 DEF ApplyFirewallRules, Apply, Busy
  <2>2. Conforms(staged[rec.uuid], rec.cr, rec.obj.spec)
    BY <1>6 DEF ApplyFirewallRules, IInv, TruthInv, WorkInv
  <2>3. Ready(rec.cr)' => Ready(rec.cr)
    BY <1>1, <2>1 DEF Ready, ReportsReady
  <2> QED
    BY <1>1, <2>1, <2>2, <2>3 DEF WorkInv, IInv, TruthInv, Ready, ReportsReady
<1>7. CASE DeleteRule \/ ApplyDeletion
  BY <1>1, <1>7, WorkGoesOn DEF DeleteRule, ApplyDeletion, Busy
<1> QED
  BY <1>4, <1>5, <1>6, <1>7

\* Steps of everybody else leave the rules the reconcile relies on alone.
LEMMA WorkQuiet ==
  ASSUME NobodyElseWrites, IInv, [Next]_vars,
         UserOrInformerStep \/ AdminStep \/ LateStep \/ UNCHANGED vars
  PROVE  WorkInv'
<1> USE DEF IInv, TruthInv, CopyInv
<1>1. UNCHANGED rec
  BY DEF UserOrInformerStep, AdminStep, LateStep, vars
<1>2. rec.pc \in {"apply", "getApplied", "setStatus"} => UNCHANGED staged
  BY OnlyRequestsWrite DEF UniqueInv
<1>3. rec.pc # "idle" /\ Ready(rec.cr)' => Ready(rec.cr) /\ api'[rec.cr] = api[rec.cr]
  <2> SUFFICES ASSUME rec.pc # "idle", Ready(rec.cr)'
               PROVE  Ready(rec.cr) /\ api'[rec.cr] = api[rec.cr]
    OBVIOUS
  <2>1. rec.cr \in CRs
    BY BusyFields
  <2>2. CASE api'[rec.cr] = api[rec.cr]
    BY <1>1, <2>2 DEF Ready, ReportsReady
  <2>3. CASE UserStep
    BY <1>1, <2>1, <2>2, <2>3, UserUnready
  <2>4. CASE UNCHANGED api
    BY <2>2, <2>4
  <2> QED
    BY <2>3, <2>4
       DEF UserOrInformerStep, WatchEvent, Resync, AdminStep, LateStep, vars, kubeVars
<1>4. ASSUME rec.pc \in {"apply", "getApplied"}
      PROVE  Conforms(staged[rec.uuid], rec.cr, rec.obj.spec)'
  BY <1>1, <1>2, <1>4 DEF WorkInv, Conforms
<1>5. ASSUME rec.pc = "setStatus", rec.status.ready = "True"
      PROVE  Synced(rec.cr, rec.obj.spec, rec.status)'
  BY <1>1, <1>2, <1>5 DEF WorkInv, Synced, Conforms
<1> QED
  BY <1>1, <1>3, <1>4, <1>5 DEF WorkInv

LEMMA WorkNext ==
  ASSUME NobodyElseWrites, IInv, [Next]_vars
  PROVE  WorkInv'
<1>1. CASE \E c \in CRs : Reconcile(c)
  BY <1>1, WorkReconcile
<1>2. CASE AddFinalizer \/ RemoveFinalizer \/ SetReadyCondition \/ KubeCallFails \/ Crash
  BY <1>2, KubeCallWrites, WorkReturns DEF Crash
<1>3. CASE Calls
  BY <1>2, <1>3, WorkResolve, WorkWrite DEF Calls
<1>4. CASE WriteFails
  <2>1. SetReadyFailed /\ UNCHANGED api /\ rec.pc # "idle"
    BY <1>4 DEF WriteFails, WriteCalls, kubeVars
  <2> QED
    BY <2>1, WorkFailed
<1>5. CASE Failures
  BY <1>2, <1>4, <1>5, WorkResolve DEF Failures
<1>6. CASE UserOrInformerStep \/ AdminStep \/ LateStep \/ UNCHANGED vars
  BY <1>6, WorkQuiet DEF UserOrInformerStep, AdminStep, LateStep, vars
<1> QED
  BY <1>1, <1>3, <1>5, <1>6 DEF Next

LEMMA CopyNext ==
  ASSUME IInv, [Next]_vars
  PROVE  CopyInv'
<1> USE DEF IInv, TruthInv
<1>1. CASE \E c \in CRs : Reconcile(c)
  BY <1>1, CopyReconcile
<1>2. CASE RemoteCalls
  BY <1>2, CopyCall
<1>3. CASE AddFinalizer \/ RemoveFinalizer \/ SetReadyCondition \/ KubeCallFails
  BY <1>3, KubeCallWrites, CopyKubeCall DEF KubeCalls
<1>4. CASE Crash
  BY <1>4, CopyCrash
<1>5. CASE UserOrInformerStep
  BY <1>5, CopyUser, CopyInformer DEF UserOrInformerStep, WatchEvent, Resync
<1>6. CASE AdminStep \/ LateStep \/ UNCHANGED vars
  BY <1>6 DEF AdminStep, LateStep, vars, kubeVars, CopyInv, LagInv, LinkInv, StatusInv
<1> QED
  BY <1>1, <1>2, <1>3, <1>4, <1>5, <1>6 DEF Next, Calls, Failures, RemoteCalls

\* As long as nobody else writes rules and names are unambiguous, Ready is the
\* truth, whatever stale copies, lost replies, crashes and conflicting edits the
\* controller meets.
THEOREM ReadyCorrect ==
  ASSUME Unambiguous, NobodyElseWrites
  PROVE  Spec => []ReadyIsTruthful
<1>1. Init => IInv
  BY TypeInit, DeletionInit, PathInit, ExclusiveInit, UniqueInit, TruthInit DEF IInv
<1>2. IInv /\ [Next]_vars => IInv'
  <2> SUFFICES ASSUME IInv, [Next]_vars PROVE IInv'
    OBVIOUS
  <2>1. VarTypes' /\ DeletionInv' /\ PathInv' /\ Exclusive'
    BY TypeNext, DeletionNext, PathNext, ExclusiveNext DEF IInv
  <2>2. UniqueInv'
    BY UniqueNext DEF IInv, NobodyElseWrites, SuffixesLeftAlone
  <2>3. TruthInv'
    BY CopyNext, ReadyNext, WorkNext DEF TruthInv
  <2> QED
    BY <2>1, <2>2, <2>3 DEF IInv
<1>3. IInv => ReadyIsTruthful
  BY DEF IInv, TruthInv, ReadyInv, Ready, Synced, ReadyIsTruthful
<1> QED
  BY <1>1, <1>2, <1>3, PTL DEF Spec
=============================================================================

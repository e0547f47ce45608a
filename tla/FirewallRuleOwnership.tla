----------------------- MODULE FirewallRuleOwnership -----------------------
(***************************************************************************)
(* Theorems about whose a rule is.  With unambiguous names, a resource     *)
(* never touches another one's rule: Exclusive is inductive and every      *)
(* write goes to a rule its author refers to.  And a resource never has    *)
(* two rules in the configuration, as long as OPNsense serves no request   *)
(* after its caller gave up and the administrator leaves managed suffixes  *)
(* alone.                                                                  *)
(***************************************************************************)
EXTENDS FirewallRuleProofs, FiniteSetTheorems

\* A step adds at most one reference, to an identifier nobody referred to.
AddsOnly(d, v) ==
  /\ \A c \in CRs : ~ Refers(c, v)
  /\ \A c \in CRs, u \in UUIDs : Refers(c, u)' => Refers(c, u) \/ (c = d /\ u = v)

AddsNothing == \A c \in CRs, u \in UUIDs : Refers(c, u)' => Refers(c, u)

LEMMA ExclusiveKept ==
  ASSUME Exclusive, AddsNothing \/ \E d \in CRs, v \in UUIDs : AddsOnly(d, v)
  PROVE  Exclusive'
  BY DEF Exclusive, AddsNothing, AddsOnly

LEMMA ExclusiveInit == Init => Exclusive
  BY NoneAssumption
     DEF Init, KubeInit, FilterInit, Idle, EmptyStatus, Exclusive, Refers, UuidOf

\* An identifier that may be absent but is a reference is present.
LEMMA NoneNotUuid == \A u \in UUIDs : u # None
  BY NoneAssumption

LEMMA OwnUser ==
  ASSUME VarTypes, UserOrInformerStep
  PROVE  AddsNothing
<1>1. UNCHANGED <<filterVars, rec>>
  BY DEF UserOrInformerStep
<1>2. ASSUME NEW c \in CRs, NEW u \in UUIDs,
             UuidOf(api'[c]) = u \/ UuidOf(cache'[c]) = u
      PROVE  UuidOf(api[c]) = u \/ UuidOf(cache[c]) = u
  <2>1. ASSUME NEW d \in CRs, NEW s \in Specs, UserCreates(d, s)
        PROVE  UuidOf(api[c]) = u \/ UuidOf(cache[c]) = u
    BY <1>2, <2>1, NoneNotUuid DEF UserCreates, EmptyStatus, UuidOf, VarTypes, KubeTypeOK
  <2>2. ASSUME NEW d \in CRs, NEW s \in Specs, UserEdits(d, s)
        PROVE  UuidOf(api[c]) = u \/ UuidOf(cache[c]) = u
    BY <1>2, <2>2, NoneNotUuid DEF UserEdits, UuidOf, VarTypes, KubeTypeOK, Objects
  <2>3. ASSUME NEW d \in CRs, UserDeletes(d)
        PROVE  UuidOf(api[c]) = u \/ UuidOf(cache[c]) = u
    BY <1>2, <2>3, NoneNotUuid DEF UserDeletes, UuidOf, VarTypes, KubeTypeOK, Objects
  <2>4. ASSUME NEW d \in CRs, WatchEvent(d) \/ Resync(d)
        PROVE  UuidOf(api[c]) = u \/ UuidOf(cache[c]) = u
    BY <1>2, <2>4 DEF WatchEvent, Resync, VarTypes, KubeTypeOK
  <2> QED
    BY <2>1, <2>2, <2>3, <2>4 DEF UserOrInformerStep, UserStep
<1> QED
  BY <1>1, <1>2 DEF AddsNothing, Refers, filterVars, UuidOf

LEMMA OwnReconcile ==
  ASSUME VarTypes, NEW d \in CRs, Reconcile(d)
  PROVE  AddsNothing
<1>1. UNCHANGED <<api, cache, filterVars>>
  BY DEF Reconcile
<1>2. CASE UNCHANGED rec
  BY <1>1, <1>2 DEF AddsNothing, Refers, filterVars, UuidOf
<1>3. CASE \E pc : rec' = [Idle EXCEPT !.pc = pc, !.cr = d, !.obj = cache[d]]
  <2>1. /\ rec'.cr = d /\ rec'.uuid = None
        /\ rec'.obj = cache[d] /\ rec'.status.uuid = None
    BY <1>3 DEF Idle, EmptyStatus
  <2> QED
    BY <1>1, <2>1, NoneNotUuid DEF AddsNothing, Refers, filterVars, UuidOf
<1> QED
  BY <1>2, <1>3 DEF Reconcile

\* A step of the reconcile that leaves objects, cache and firewall alone and takes
\* its identifiers from references it has.
LEMMA OwnGoto ==
  ASSUME VarTypes, UNCHANGED <<api, cache, filterVars>>, rec'.cr = rec.cr,
         rec'.obj = rec.obj,
         \A u \in {rec'.uuid, rec'.status.uuid} \ {None} : Refers(rec.cr, u)
  PROVE  AddsNothing
  BY NoneNotUuid DEF AddsNothing, Refers, filterVars, UuidOf

\* Once a reconcile has returned it refers to nothing.
LEMMA OwnReturn ==
  ASSUME VarTypes, UNCHANGED <<api, cache, filterVars>>, rec' = Idle
  PROVE  AddsNothing
  BY NoneNotUuid DEF AddsNothing, Refers, filterVars, UuidOf, Idle, EmptyStatus

LEMMA RecRefers ==
  ASSUME VarTypes, rec.pc # "idle"
  PROVE  Refers(rec.cr, rec.uuid) /\ Refers(rec.cr, rec.obj.status.uuid)
         /\ Refers(rec.cr, rec.status.uuid)
  BY BusyFields, AbsentAssumption DEF Refers, UuidOf

\* What setReadyFailed leaves of the reconcile.
LEMMA OwnFailedFields ==
  ASSUME VarTypes, rec.pc # "idle", SetReadyFailed
  PROVE  /\ rec'.cr = rec.cr /\ rec'.obj = rec.obj /\ rec'.uuid = rec.uuid
         /\ rec'.status.uuid = rec.obj.status.uuid
  BY BusyFields DEF SetReadyFailed, Busy, Statuses

LEMMA OwnFailed ==
  ASSUME VarTypes, rec.pc # "idle", SetReadyFailed, UNCHANGED <<api, cache, filterVars>>
  PROVE  AddsNothing
  BY OwnFailedFields, OwnGoto, RecRefers

LEMMA OwnSuccess ==
  ASSUME VarTypes, rec.pc # "idle", NEW u, NEW s, SetReadySuccess(u, s), Refers(rec.cr, u),
         UNCHANGED <<api, cache, filterVars>>
  PROVE  AddsNothing
<1>1. /\ rec'.cr = rec.cr /\ rec'.obj = rec.obj /\ rec'.uuid = rec.uuid
      /\ rec'.status.uuid = u
  BY BusyFields DEF SetReadySuccess, Success, Busy
<1> QED
  BY <1>1, OwnGoto, RecRefers

LEMMA OwnUuid ==
  ASSUME VarTypes, rec.pc # "idle", NEW u, NEW pc, UNCHANGED <<api, cache, filterVars>>,
         \/ rec' = [rec EXCEPT !.pc = pc]
         \/ rec' = [rec EXCEPT !.pc = pc, !.uuid = u] /\ (u # None => Refers(rec.cr, u))
  PROVE  AddsNothing
<1>1. /\ rec'.cr = rec.cr /\ rec'.obj = rec.obj /\ rec'.uuid \in {rec.uuid, u}
      /\ rec'.uuid = rec.uuid \/ (u # None => Refers(rec.cr, u))
      /\ rec'.status = rec.status
  BY BusyFields DEF Busy
<1> QED
  BY <1>1, OwnGoto, RecRefers

LEMMA OwnFound ==
  ASSUME VarTypes, rec.pc # "idle", NEW u, Found(u), Refers(rec.cr, u),
         UNCHANGED <<api, filterVars>>
  PROVE  AddsNothing
<1>1. CASE rec' = [rec EXCEPT !.pc = "update", !.uuid = u] /\ UNCHANGED <<cache, queue>>
  BY <1>1, OwnUuid
<1>2. CASE Return(FALSE)
  BY <1>2, OwnReturn DEF Return
<1>3. CASE SetReadySuccess(u, staged[u].seq) /\ UNCHANGED <<cache, queue>>
  BY <1>3, OwnSuccess
<1> QED
  BY <1>1, <1>2, <1>3 DEF Found

\* A search by an unambiguous phrase finds references of the searcher only.
LEMMA OwnResolve ==
  ASSUME Unambiguous, VarTypes,
         \/ BuildOPNsenseClient \/ BuildClientFails \/ GetRecordedRule
         \/ SearchRuleByManagedSuffix \/ GetMatchedRule \/ GetAppliedRule \/ ReadFails
  PROVE  AddsNothing
<1>1. rec.pc # "idle" /\ UNCHANGED <<api, filterVars>>
  BY DEF BuildOPNsenseClient, BuildClientFails, GetRecordedRule, kubeVars,
         SearchRuleByManagedSuffix, GetMatchedRule, GetAppliedRule, ReadFails, ReadCalls
<1>2. CASE UNCHANGED <<api, cache, filterVars>> /\ SetReadyFailed
  BY <1>1, <1>2, OwnFailed
<1>3. CASE BuildOPNsenseClient
  <2>1. PICK u \in {None, rec.obj.status.uuid} :
          \E pc : rec' = [rec EXCEPT !.uuid = u, !.pc = pc]
    BY <1>3 DEF BuildOPNsenseClient
  <2>2. /\ rec'.cr = rec.cr /\ rec'.obj = rec.obj /\ rec'.uuid = u
        /\ rec'.status = rec.status
    BY <1>1, <2>1, BusyFields DEF Busy
  <2> QED
    BY <1>1, <1>3, <2>2, OwnGoto, RecRefers DEF BuildOPNsenseClient, kubeVars
<1>4. CASE GetRecordedRule
  <2>1. CASE Found(rec.obj.status.uuid)
    BY <1>1, <2>1, OwnFound, RecRefers
  <2> QED
    BY <1>1, <1>4, <2>1, OwnUuid DEF GetRecordedRule
<1>5. CASE SearchRuleByManagedSuffix
  <2>1. ASSUME NEW u \in SearchHits(rec.cr) PROVE Refers(rec.cr, u)
    <3>1. staged[u].owner \in CRs /\ staged[u] # None
      BY <2>1 DEF SearchHits, VarTypes, FilterTypeOK, Rules
    <3>2. staged[u].owner = rec.cr
      BY <1>1, <2>1, <3>1, BusyFields DEF SearchHits, Unambiguous
    <3> QED
      BY <3>1, <3>2 DEF Refers
  <2> QED
    BY <1>1, <1>2, <1>5, <2>1, OwnUuid DEF SearchRuleByManagedSuffix, kubeVars
<1>6. CASE GetMatchedRule
  <2>1. CASE Found(rec.uuid)
    BY <1>1, <2>1, OwnFound, RecRefers
  <2> QED
    BY <1>1, <1>2, <1>6, <2>1 DEF GetMatchedRule
<1>7. CASE GetAppliedRule
  BY <1>1, <1>2, <1>7, OwnSuccess, RecRefers DEF GetAppliedRule, kubeVars
<1> QED
  BY <1>1, <1>2, <1>3, <1>4, <1>5, <1>6, <1>7 DEF BuildClientFails, ReadFails, kubeVars

\* What serving a request of c does to the references: an added rule is one of c,
\* an updated one was already.
LEMMA OwnServe ==
  ASSUME VarTypes, NEW r \in Requests, NEW v \in UUIDs, Serve(r, v),
         NEW c \in CRs, NEW u \in UUIDs, staged'[u] # None /\ staged'[u].owner = c
  PROVE  \/ staged[u] # None /\ staged[u].owner = c
         \/ r.op = "create" /\ u = v /\ r.rule.owner = c
         \/ r.uuid = u /\ r.rule.owner = c
<1>1. staged \in [UUIDs -> Rules \union {None}]
  BY DEF VarTypes, FilterTypeOK
<1>2. CASE r.op = "create" /\ AddRule(v, r.rule)
  BY <1>1, <1>2 DEF AddRule
<1>3. CASE SetRule(r.uuid, r.rule)
  BY <1>1, <1>3 DEF SetRule
<1>4. CASE DelRule(r.uuid)
  BY <1>1, <1>4 DEF DelRule
<1>5. CASE Apply
  BY <1>5 DEF Apply
<1> QED
  BY <1>2, <1>3, <1>4, <1>5 DEF Serve

LEMMA OwnLate ==
  ASSUME VarTypes, LateStep
  PROVE  AddsNothing \/ \E d \in CRs, v \in UUIDs : AddsOnly(d, v)
<1>1. PICK r \in late, v \in UUIDs : (r.op = "create" => Fresh(v)) /\ ServeLate(r, v)
  BY DEF LateStep
<1>2. r \in Requests /\ r.rule.owner \in CRs /\ late' \subseteq late
  BY <1>1 DEF VarTypes, FilterTypeOK, Requests, Payloads, ServeLate
<1>3. UNCHANGED <<api, cache, rec>>
  BY DEF LateStep, kubeVars
<1>4. ASSUME NEW c \in CRs, NEW u \in UUIDs, Refers(c, u)'
      PROVE  Refers(c, u) \/ (r.op = "create" /\ u = v /\ r.rule.owner = c)
  <2>1. CASE staged'[u] # None /\ staged'[u].owner = c
    <3>1. CASE Serve(r, v)
      BY <1>2, <2>1, <3>1, OwnServe DEF Refers
    <3> QED
      BY <1>1, <2>1, <3>1 DEF ServeLate, Refers
  <2> QED
    BY <1>2, <1>3, <1>4, <2>1 DEF Refers, UuidOf
<1>5. CASE r.op = "create"
  BY <1>1, <1>2, <1>4, <1>5 DEF AddsOnly, Fresh
<1>6. CASE r.op # "create"
  BY <1>4, <1>6 DEF AddsNothing
<1> QED
  BY <1>5, <1>6

\* The administrator's clone is the only new rule of his; it is a rule of the
\* resource whose suffix he copied.
LEMMA OwnAdmin ==
  ASSUME VarTypes, AdminStep
  PROVE  AddsNothing \/ \E d \in CRs, v \in UUIDs : AddsOnly(d, v)
<1>1. UNCHANGED <<api, cache, rec, late>> /\ staged \in [UUIDs -> Rules \union {None}]
  BY DEF AdminStep, AdminEdits, AdminDeletes, AdminClones, AdminRedescribes,
         AdminApplies, kubeVars, VarTypes, FilterTypeOK
<1>2. CASE \E w, v \in UUIDs : Fresh(v) /\ AdminClones(w, v)
  <2>1. PICK w \in UUIDs, v \in UUIDs : Fresh(v) /\ AdminClones(w, v)
    BY <1>2
  <2>2. \A c \in CRs, u \in UUIDs :
          Refers(c, u)' => Refers(c, u) \/ (c = staged[w].owner /\ u = v)
    BY <1>1, <2>1 DEF AdminClones, Refers, UuidOf
  <2>3. CASE staged[w].owner \in CRs
    BY <2>1, <2>2, <2>3 DEF AddsOnly, Fresh
  <2>4. CASE staged[w].owner \notin CRs
    BY <2>2, <2>4 DEF AddsNothing
  <2> QED
    BY <2>3, <2>4
<1>3. ASSUME NEW w \in UUIDs,
             \/ \E b \in Bodies : AdminEdits(w, b)
             \/ AdminDeletes(w) \/ AdminRedescribes(w) \/ AdminApplies
      PROVE  AddsNothing
  <2>1. \A u \in UUIDs, c \in CRs : staged'[u] # None /\ staged'[u].owner = c =>
                                      staged[u] # None /\ staged[u].owner = c
    <3>1. CASE \E b \in Bodies : AdminEdits(w, b)
      BY <1>1, <3>1 DEF AdminEdits, Present, Rules
    <3>2. CASE AdminDeletes(w)
      BY <1>1, <3>2 DEF AdminDeletes, DelRule
    <3>3. CASE AdminRedescribes(w)
      BY <1>1, <3>3, NoneAssumption DEF AdminRedescribes, Present, Rules
    <3>4. CASE AdminApplies
      BY <3>4 DEF AdminApplies, Apply
    <3> QED
      BY <1>3, <3>1, <3>2, <3>3, <3>4
  <2> QED
    BY <1>1, <2>1 DEF AddsNothing, Refers, UuidOf
<1> QED
  BY <1>2, <1>3 DEF AdminStep

LEMMA OwnKubeCall ==
  ASSUME VarTypes, AddFinalizer \/ RemoveFinalizer \/ SetReadyCondition \/ KubeCallFails
  PROVE  AddsNothing
<1>1. rec.pc # "idle"
  BY DEF AddFinalizer, RemoveFinalizer, SetReadyCondition, Update, KubeCallFails, KubeCalls
<1>2. rec' = Idle /\ UNCHANGED <<cache, filterVars>>
  BY DEF AddFinalizer, RemoveFinalizer, SetReadyCondition, Update, KubeCallFails, Return
<1>3. \/ UNCHANGED api
      \/ api' = [api EXCEPT ![rec.cr] = WithFinalizer]
      \/ api' = [api EXCEPT ![rec.cr] = None]
      \/ api' = [api EXCEPT ![rec.cr] = WithStatus]
  BY DEF AddFinalizer, RemoveFinalizer, SetReadyCondition, Update, KubeCallFails,
         Stored, Conflict
<1>4. /\ UuidOf(WithFinalizer) = rec.obj.status.uuid
      /\ UuidOf(WithStatus) = rec.status.uuid
  BY <1>1, BusyFields, TypeWritten, AbsentAssumption
     DEF WithFinalizer, WithStatus, UuidOf, Objects
<1>5. ASSUME NEW c \in CRs, NEW u \in UUIDs, UuidOf(api'[c]) = u PROVE Refers(c, u)
  <2>1. api \in [CRs -> Objects \union {None}]
    BY DEF VarTypes, KubeTypeOK
  <2>2. CASE api'[c] = api[c]
    BY <1>5, <2>2 DEF Refers, UuidOf
  <2>3. CASE api'[c] # api[c]
    <3>1. c = rec.cr /\ api'[c] \in {WithFinalizer, None, WithStatus}
      BY <1>3, <2>1, <2>3
    <3> QED
      BY <1>1, <1>4, <1>5, <3>1, RecRefers, NoneNotUuid DEF UuidOf
  <2> QED
    BY <2>2, <2>3
<1> QED
  BY <1>2, <1>5, NoneNotUuid DEF AddsNothing, Refers, filterVars, UuidOf, Idle, EmptyStatus

LEMMA OwnWrite ==
  ASSUME VarTypes,
         CreateRule \/ UpdateRule \/ ApplyFirewallRules \/ DeleteRule \/ ApplyDeletion
  PROVE  AddsNothing \/ \E d \in CRs, v \in UUIDs : AddsOnly(d, v)
<1>1. rec.pc # "idle" /\ UNCHANGED <<api, cache, late>>
  BY DEF CreateRule, UpdateRule, ApplyFirewallRules, DeleteRule, ApplyDeletion, kubeVars
<1>2. rec \in Busy /\ rec.cr \in CRs /\ staged \in [UUIDs -> Rules \union {None}]
  BY <1>1, BusyFields DEF VarTypes, FilterTypeOK
<1>3. Desired.owner = rec.cr
  BY DEF Desired, SpecToRule
<1>4. CASE /\ \A u \in UUIDs, c \in CRs : staged'[u] # None /\ staged'[u].owner = c => Refers(c, u)
           /\ rec'.cr = rec.cr /\ rec'.obj = rec.obj /\ rec'.uuid = rec.uuid
           /\ rec'.status.uuid \in {rec.status.uuid, rec.obj.status.uuid}
  BY <1>1, <1>4, RecRefers DEF AddsNothing, Refers, UuidOf
<1>5. CASE \E v \in UUIDs : /\ Fresh(v) /\ AddRule(v, Desired)
                            /\ rec' = [rec EXCEPT !.pc = "apply", !.uuid = v]
  <2>1. PICK v \in UUIDs : /\ Fresh(v) /\ AddRule(v, Desired)
                           /\ rec' = [rec EXCEPT !.pc = "apply", !.uuid = v]
    BY <1>5
  <2>2. /\ rec'.cr = rec.cr /\ rec'.obj = rec.obj /\ rec'.uuid = v
        /\ rec'.status = rec.status
    BY <1>2, <2>1 DEF Busy
  <2>3. \A u \in UUIDs, c \in CRs : staged'[u] # None /\ staged'[u].owner = c =>
          (staged[u] # None /\ staged[u].owner = c) \/ (u = v /\ c = rec.cr)
    BY <1>2, <1>3, <2>1 DEF AddRule
  <2> QED
    BY <1>1, <1>2, <2>1, <2>2, <2>3 DEF AddsOnly, Fresh, Refers, UuidOf
<1>6. \A u \in UUIDs, c \in CRs :
        /\ \/ UNCHANGED <<staged, running>> \/ SetRule(rec.uuid, Desired)
           \/ DelRule(rec.uuid) \/ Apply
        /\ staged'[u] # None /\ staged'[u].owner = c
        => Refers(c, u)
  BY <1>1, <1>2, <1>3, RecRefers DEF Refers, SetRule, DelRule, Apply
<1>7. SetReadyFailed \/ (\E pc : rec' = [rec EXCEPT !.pc = pc]) =>
        /\ rec'.cr = rec.cr /\ rec'.obj = rec.obj /\ rec'.uuid = rec.uuid
        /\ rec'.status.uuid \in {rec.status.uuid, rec.obj.status.uuid}
  BY <1>1, <1>2, OwnFailedFields DEF Busy
<1> QED
  BY <1>4, <1>5, <1>6, <1>7
     DEF CreateRule, UpdateRule, ApplyFirewallRules, DeleteRule, ApplyDeletion

LEMMA OwnWriteFails ==
  ASSUME VarTypes, WriteFails
  PROVE  AddsNothing \/ \E d \in CRs, v \in UUIDs : AddsOnly(d, v)
<1>1. rec.pc # "idle" /\ UNCHANGED <<api, cache>> /\ SetReadyFailed
  BY DEF WriteFails, WriteCalls, kubeVars
<1>2. PICK v \in UUIDs : (rec.pc = "create" => Fresh(v)) /\ LoseCall(Request, v)
  BY DEF WriteFails
<1>3. /\ Request \in Requests /\ Request.uuid = rec.uuid /\ Request.rule.owner = rec.cr
      /\ Request.op = "create" => rec.pc = "create"
  BY <1>1, TypeDesired, BusyFields
     DEF Request, Requests, WriteFails, WriteCalls, Desired, SpecToRule
<1>4. late' \subseteq late \union {Request}
  BY <1>2 DEF LoseCall
<1>5. ASSUME NEW c \in CRs, NEW u \in UUIDs, Refers(c, u)'
      PROVE  Refers(c, u) \/ (rec.pc = "create" /\ u = v /\ c = rec.cr)
  <2>1. CASE staged'[u] # None /\ staged'[u].owner = c
    <3>1. CASE Serve(Request, v)
      BY <1>1, <1>3, <2>1, <3>1, OwnServe, RecRefers DEF Refers
    <3> QED
      BY <1>2, <2>1, <3>1 DEF LoseCall, Refers
  <2>2. CASE \E r \in late' : r.uuid = u /\ r.rule.owner = c
    BY <1>1, <1>3, <1>4, <2>2, RecRefers DEF Refers
  <2> QED
    BY <1>1, <1>5, <2>1, <2>2, OwnFailedFields, RecRefers DEF Refers, UuidOf
<1>6. CASE rec.pc = "create"
  BY <1>1, <1>2, <1>5, <1>6, BusyFields DEF AddsOnly, Fresh
<1>7. CASE rec.pc # "create"
  BY <1>5, <1>7 DEF AddsNothing
<1> QED
  BY <1>6, <1>7

\* With unambiguous names no step makes two resources refer to one rule.
LEMMA ExclusiveNext ==
  ASSUME Unambiguous, VarTypes, Exclusive, [Next]_vars
  PROVE  Exclusive'
<1>1. CASE \E c \in CRs : Reconcile(c)
  BY <1>1, OwnReconcile, ExclusiveKept
<1>2. CASE Calls
  BY <1>2, OwnResolve, OwnWrite, OwnKubeCall, ExclusiveKept DEF Calls
<1>3. CASE Failures
  <2>1. CASE Crash
    <3>1. rec' = Idle /\ cache' = api /\ UNCHANGED <<api, filterVars>>
      BY <2>1 DEF Crash, Relist
    <3> QED
      BY <3>1, NoneNotUuid, ExclusiveKept
         DEF AddsNothing, Refers, filterVars, UuidOf, Idle, EmptyStatus
  <2> QED
    BY <1>3, <2>1, OwnResolve, OwnWriteFails, OwnKubeCall, ExclusiveKept DEF Failures
<1>4. CASE UserOrInformerStep \/ AdminStep \/ LateStep
  BY <1>4, OwnUser, OwnAdmin, OwnLate, ExclusiveKept
<1>5. CASE UNCHANGED vars
  BY <1>5 DEF vars, kubeVars, filterVars, Exclusive, Refers, UuidOf
<1> QED
  BY <1>1, <1>2, <1>3, <1>4, <1>5 DEF Next

----------------------------------------------------------------------------
\* Every write goes to a rule its author refers to, and so does a rule's suffix:
\* with Exclusive, the author is the rule's owner.

LEMMA ServedIsReferred ==
  ASSUME VarTypes, NEW r \in Requests, NEW v \in UUIDs, Serve(r, v),
         NEW u \in UUIDs, staged[u] # None, staged'[u] # staged[u]
  PROVE  r.uuid = u
<1>1. staged \in [UUIDs -> Rules \union {None}]
  BY DEF VarTypes, FilterTypeOK
<1>2. CASE AddRule(v, r.rule)
  BY <1>1, <1>2 DEF AddRule
<1>3. CASE SetRule(r.uuid, r.rule)
  BY <1>1, <1>3 DEF SetRule
<1>4. CASE DelRule(r.uuid)
  BY <1>1, <1>4 DEF DelRule
<1>5. CASE Apply
  BY <1>5 DEF Apply
<1> QED
  BY <1>2, <1>3, <1>4, <1>5 DEF Serve

LEMMA OwnRulesStep ==
  ASSUME VarTypes, Exclusive, [Next]_vars, NEW u \in UUIDs,
         Present(u), staged[u].owner # None, staged'[u] # staged[u]
  PROVE  \/ rec' # rec /\ rec.cr = staged[u].owner
         \/ \E r \in late \ late' : r.rule.owner = staged[u].owner
         \/ UNCHANGED <<rec, late>>
<1>1. staged \in [UUIDs -> Rules \union {None}] /\ staged[u] # None
  BY DEF VarTypes, FilterTypeOK, Present
<1>2. staged[u].owner \in CRs
  BY <1>1 DEF Rules
<1>3. \A c \in CRs : Refers(c, u) => c = staged[u].owner
  BY <1>1, <1>2 DEF Exclusive, Refers
<1>4. CASE UpdateRule \/ DeleteRule \/ CreateRule
  <2>1. rec.pc \in {"update", "delete", "create"} /\ rec \in Busy
    BY <1>4, BusyFields DEF UpdateRule, DeleteRule, CreateRule
  <2>2. rec.uuid = u
    BY <1>1, <1>4
       DEF UpdateRule, DeleteRule, CreateRule, AddRule, SetRule, DelRule
  <2>3. rec'.pc # rec.pc
    BY <1>4, <2>1, FailedFields DEF UpdateRule, DeleteRule, CreateRule, Busy
  <2> QED
    BY <1>3, <2>1, <2>2, <2>3, RecRefers, BusyFields
<1>5. CASE WriteFails
  <2>1. rec.pc # "idle" /\ rec.pc \in WriteCalls /\ rec'.pc = "setStatus"
    BY <1>5, FailedFields DEF WriteFails, WriteCalls
  <2>2. PICK v \in UUIDs : LoseCall(Request, v)
    BY <1>5 DEF WriteFails
  <2>3. Request \in Requests /\ Request.uuid = rec.uuid
    BY <2>1, TypeDesired, BusyFields DEF Request, Requests, WriteCalls
  <2>4. rec.uuid = u
    BY <1>1, <2>2, <2>3, ServedIsReferred DEF LoseCall
  <2> QED
    BY <1>3, <2>1, <2>4, RecRefers, BusyFields DEF WriteCalls
<1>6. CASE LateStep
  <2>1. PICK r \in late, v \in UUIDs : ServeLate(r, v)
    BY <1>6 DEF LateStep
  <2>2. r \in Requests /\ r.rule.owner \in CRs /\ r \in late \ late'
    BY <2>1 DEF VarTypes, FilterTypeOK, Requests, Payloads, ServeLate
  <2>3. r.uuid = u
    BY <1>1, <2>1, <2>2, ServedIsReferred DEF ServeLate
  <2> QED
    BY <1>3, <2>2, <2>3 DEF Refers
<1>7. CASE AdminStep
  BY <1>7 DEF AdminStep, AdminEdits, AdminDeletes, AdminClones, AdminRedescribes,
              AdminApplies
<1>8. CASE UNCHANGED staged
  BY <1>8
<1>9. CASE Calls /\ ~ (UpdateRule \/ DeleteRule \/ CreateRule)
  BY <1>8, <1>9
     DEF Calls, BuildOPNsenseClient, GetRecordedRule, SearchRuleByManagedSuffix,
         GetMatchedRule, ApplyFirewallRules, Apply, GetAppliedRule, ApplyDeletion,
         AddFinalizer, RemoveFinalizer, SetReadyCondition, Update, filterVars
<1> QED
  BY <1>4, <1>5, <1>6, <1>7, <1>8, <1>9
     DEF Next, Reconcile, Failures, BuildClientFails, ReadFails, KubeCallFails, Crash,
         UserOrInformerStep, filterVars, vars

\* With unambiguous names, no two resources ever refer to the same rule, however
\* stale their copies and however late their requests.
THEOREM ExclusiveCorrect ==
  ASSUME Unambiguous
  PROVE  Spec => []Exclusive
<1>1. Init => VarTypes /\ Exclusive
  BY TypeInit, ExclusiveInit
<1>2. VarTypes /\ Exclusive /\ [Next]_vars => VarTypes' /\ Exclusive'
  BY TypeNext, ExclusiveNext
<1> QED
  BY <1>1, <1>2, PTL DEF Spec

\* With unambiguous names, only the resource a rule's suffix names changes or
\* removes that rule; the administrator may.
THEOREM OwnershipCorrect ==
  ASSUME Unambiguous
  PROVE  Spec => OnlyOwnRulesWritten
<1>1. Init => VarTypes /\ Exclusive
  BY TypeInit, ExclusiveInit
<1>2. VarTypes /\ Exclusive /\ [Next]_vars => VarTypes' /\ Exclusive'
  BY TypeNext, ExclusiveNext
<1>3. VarTypes /\ Exclusive /\ [Next]_vars =>
        [\A u \in UUIDs :
           Present(u) /\ staged[u].owner # None /\ staged'[u] # staged[u] =>
             \/ rec' # rec /\ rec.cr = staged[u].owner
             \/ \E r \in late \ late' : r.rule.owner = staged[u].owner
             \/ UNCHANGED <<rec, late>>]_vars
  BY OwnRulesStep
<1> QED
  BY <1>1, <1>2, <1>3, PTL DEF Spec, OnlyOwnRulesWritten

----------------------------------------------------------------------------
SuffixesLeftAlone == AdminOps \intersect {"clone", "redescribe"} = {}

\* The controller creates a rule only after a search that found none, and nobody
\* else creates one in between.
UniqueInv ==
  /\ late = {}
  /\ \A u \in UUIDs : Present(u) => staged[u].owner # None
  /\ AtMostOneManaged
  /\ rec.pc = "create" => \A u \in UUIDs : Present(u) => staged[u].owner # rec.cr

LEMMA UniqueInit == Init => UniqueInv
  BY DEF Init, FilterInit, UniqueInv, AtMostOneManaged, Present, Idle

\* No rule appears and none changes hands.
OwnersKept ==
  \A u \in UUIDs : staged'[u] # None =>
    staged[u] # None /\ staged'[u].owner = staged[u].owner

\* The only rule that appears is one of resource c, which had none.
FirstRule(c) ==
  /\ \A u \in UUIDs : Present(u) => staged[u].owner # c
  /\ c # None
  /\ \E v \in UUIDs :
       /\ staged[v] = None
       /\ staged'[v].owner = c
       /\ \A u \in UUIDs : u # v => staged'[u] = staged[u]

\* What keeps the invariant: no rule appears, or a resource without one gets one
\* and the reconcile moves on.
LEMMA UniqueKept ==
  ASSUME UniqueInv, late' = {},
         \/ OwnersKept
         \/ FirstRule(rec.cr) /\ rec'.pc # "create",
         rec'.pc = "create" =>
           \/ rec.pc = "create" /\ rec'.cr = rec.cr
           \/ \A u \in UUIDs : Present(u) => staged[u].owner # rec'.cr
  PROVE  UniqueInv'
<1>1. CASE OwnersKept
  BY <1>1, NoneNotUuid DEF UniqueInv, AtMostOneManaged, Present, OwnersKept
<1>2. CASE FirstRule(rec.cr) /\ rec'.pc # "create"
  BY <1>2, NoneNotUuid DEF UniqueInv, AtMostOneManaged, Present, FirstRule
<1> QED
  BY <1>1, <1>2

\* A resource's own search phrase finds every rule of that resource.
LEMMA SearchIsComplete ==
  ASSUME VarTypes, NEW c \in CRs, SearchHits(c) = {}
  PROVE  \A u \in UUIDs : Present(u) => staged[u].owner # c
  BY MentionsAssumption, NoneAssumption DEF SearchHits, Present

LEMMA UniqueServe ==
  ASSUME VarTypes, UniqueInv, Exclusive, rec.pc # "idle",
         NEW v \in UUIDs,
         \/ AddRule(v, Desired) /\ rec.pc = "create"
         \/ SetRule(rec.uuid, Desired) \/ DelRule(rec.uuid) \/ Apply
  PROVE  OwnersKept \/ (FirstRule(rec.cr) /\ rec.pc = "create")
<1>1. /\ staged \in [UUIDs -> Rules \union {None}]
      /\ rec.cr \in CRs /\ rec.cr # None /\ Desired.owner = rec.cr
  BY BusyFields, NoneAssumption DEF VarTypes, FilterTypeOK, Desired, SpecToRule
<1>2. CASE AddRule(v, Desired) /\ rec.pc = "create"
  BY <1>1, <1>2 DEF AddRule, UniqueInv, FirstRule
<1>3. CASE SetRule(rec.uuid, Desired)
  <2>1. /\ rec.uuid \in UUIDs /\ staged[rec.uuid] \in Rules /\ staged[rec.uuid] # None
        /\ staged[rec.uuid].owner \in CRs
    BY <1>1, <1>3, BusyFields DEF SetRule, Present, UniqueInv, Rules
  <2>2. staged[rec.uuid].owner = rec.cr
    BY <1>1, <2>1, RecRefers DEF Exclusive, Refers
  <2>3. /\ staged'[rec.uuid].owner = rec.cr
        /\ \A u \in UUIDs : u # rec.uuid => staged'[u] = staged[u]
    BY <1>1, <1>3, <2>1 DEF SetRule
  <2> QED
    BY <2>1, <2>2, <2>3 DEF OwnersKept
<1>4. CASE DelRule(rec.uuid)
  BY <1>1, <1>4 DEF DelRule, OwnersKept
<1>5. CASE Apply
  BY <1>5 DEF Apply, OwnersKept
<1> QED
  BY <1>2, <1>3, <1>4, <1>5

LEMMA UniqueWrite ==
  ASSUME VarTypes, UniqueInv, Exclusive,
         CreateRule \/ UpdateRule \/ ApplyFirewallRules \/ DeleteRule \/ ApplyDeletion
  PROVE  UniqueInv'
<1>1. rec.pc # "idle" /\ UNCHANGED late /\ rec \in Busy
  BY BusyFields DEF CreateRule, UpdateRule, ApplyFirewallRules, DeleteRule, ApplyDeletion
<1>2. rec'.pc # "create"
  BY <1>1, FailedFields
     DEF CreateRule, UpdateRule, ApplyFirewallRules, DeleteRule, ApplyDeletion, Busy
<1>3. OwnersKept \/ FirstRule(rec.cr)
  <2>1. CASE UNCHANGED <<staged, running>>
    BY <2>1 DEF OwnersKept
  <2>2. CASE UNCHANGED staged \/ \E v \in UUIDs :
               \/ AddRule(v, Desired) /\ rec.pc = "create"
               \/ SetRule(rec.uuid, Desired) \/ DelRule(rec.uuid) \/ Apply
    BY <1>1, <2>2, UniqueServe DEF OwnersKept
  <2>3. CASE SetRule(rec.uuid, Desired) \/ DelRule(rec.uuid)
    <3>1. rec.uuid \in UUIDs
      BY <1>1, <2>3, BusyFields DEF SetRule, DelRule, Present
    <3> QED
      BY <1>1, <2>3, <3>1, UniqueServe
  <2>4. CASE Apply
    BY <2>4 DEF Apply, OwnersKept
  <2> QED
    BY <2>1, <2>2, <2>3, <2>4
       DEF CreateRule, UpdateRule, ApplyFirewallRules, DeleteRule, ApplyDeletion
<1> QED
  BY <1>1, <1>2, <1>3, UniqueKept DEF UniqueInv

LEMMA UniqueWriteFails ==
  ASSUME MaxLate = 0, VarTypes, UniqueInv, Exclusive, WriteFails
  PROVE  UniqueInv'
<1>1. rec.pc # "idle" /\ rec'.pc = "setStatus"
  BY FailedFields DEF WriteFails, WriteCalls
<1>2. PICK v \in UUIDs : LoseCall(Request, v)
  BY DEF WriteFails
<1>3. ~ (Cardinality(late) < MaxLate)
  BY FS_EmptySet DEF UniqueInv
<1>4. CASE UNCHANGED <<staged, running, late>>
  BY <1>1, <1>4, UniqueKept DEF UniqueInv, OwnersKept
<1>5. CASE Serve(Request, v) /\ UNCHANGED late
  <2>1. \/ AddRule(v, Desired) /\ rec.pc = "create"
        \/ SetRule(rec.uuid, Desired) \/ DelRule(rec.uuid) \/ Apply
    BY <1>1, <1>5, BusyFields DEF Serve, Request, WriteFails, WriteCalls
  <2> QED
    BY <1>1, <1>5, <2>1, UniqueServe, UniqueKept DEF UniqueInv
<1> QED
  BY <1>2, <1>3, <1>4, <1>5 DEF LoseCall

LEMMA UniqueAdmin ==
  ASSUME SuffixesLeftAlone, VarTypes, UniqueInv, AdminStep
  PROVE  UniqueInv'
<1>1. UNCHANGED rec /\ staged \in [UUIDs -> Rules \union {None}]
  BY DEF AdminStep, VarTypes, FilterTypeOK
<1>2. PICK w \in UUIDs : (\E b \in Bodies : AdminEdits(w, b)) \/ AdminDeletes(w) \/ AdminApplies
  BY DEF AdminStep, SuffixesLeftAlone
<1>3. OwnersKept /\ UNCHANGED late
  <2>1. CASE \E b \in Bodies : AdminEdits(w, b)
    <3>1. PICK b \in Bodies : AdminEdits(w, b)
      BY <2>1
    <3>2. staged[w] \in Rules /\ staged' = [staged EXCEPT ![w] = [staged[w] EXCEPT !.body = b]]
      BY <1>1, <3>1 DEF AdminEdits, Present
    <3>3. staged'[w].owner = staged[w].owner
      BY <1>1, <3>2 DEF Rules
    <3> QED
      BY <1>1, <3>1, <3>2, <3>3 DEF AdminEdits, OwnersKept, Present
  <2>2. CASE AdminDeletes(w)
    BY <1>1, <2>2 DEF AdminDeletes, DelRule, OwnersKept
  <2>3. CASE AdminApplies
    BY <2>3 DEF AdminApplies, Apply, OwnersKept
  <2> QED
    BY <1>2, <2>1, <2>2, <2>3
<1> QED
  BY <1>1, <1>3, UniqueKept DEF UniqueInv

\* Steps that leave the firewall alone: only a search decides to create.
LEMMA UniqueQuiet ==
  ASSUME VarTypes, UniqueInv, UNCHANGED filterVars,
         \/ rec'.pc # "create"
         \/ UNCHANGED rec
         \/ rec.pc # "idle" /\ rec'.cr = rec.cr /\ SearchHits(rec.cr) = {}
  PROVE  UniqueInv'
<1>1. OwnersKept /\ late' = {}
  BY DEF filterVars, OwnersKept, UniqueInv
<1>2. rec'.pc = "create" =>
        \/ rec.pc = "create" /\ rec'.cr = rec.cr
        \/ \A u \in UUIDs : Present(u) => staged[u].owner # rec'.cr
  BY SearchIsComplete, BusyFields
<1> QED
  BY <1>1, <1>2, UniqueKept

LEMMA UniqueResolve ==
  ASSUME VarTypes, UniqueInv,
         \/ BuildOPNsenseClient \/ BuildClientFails \/ GetRecordedRule
         \/ SearchRuleByManagedSuffix \/ GetMatchedRule \/ GetAppliedRule \/ ReadFails
  PROVE  UniqueInv'
<1>1. rec.pc # "idle" /\ rec \in Busy /\ UNCHANGED filterVars
  BY BusyFields
     DEF BuildOPNsenseClient, BuildClientFails, GetRecordedRule,
         SearchRuleByManagedSuffix, GetMatchedRule, GetAppliedRule, ReadFails, ReadCalls
<1>2. CASE rec'.pc # "create"
  BY <1>1, <1>2, UniqueQuiet
<1>3. CASE SetReadyFailed
  BY <1>1, <1>2, <1>3, FailedFields
<1>4. ASSUME NEW u, Found(u) PROVE rec'.pc # "create"
  <2>1. CASE rec' = [rec EXCEPT !.pc = "update", !.uuid = u]
    BY <1>1, <2>1 DEF Busy
  <2>2. CASE Return(FALSE)
    BY <2>2 DEF Return, Idle
  <2>3. CASE SetReadySuccess(u, staged[u].seq)
    BY <1>1, <2>3 DEF SetReadySuccess, Busy
  <2> QED
    BY <1>4, <2>1, <2>2, <2>3 DEF Found
<1>5. CASE BuildOPNsenseClient
  BY <1>1, <1>2, <1>5 DEF BuildOPNsenseClient, Busy
<1>6. CASE GetRecordedRule
  <2>1. CASE rec' = [rec EXCEPT !.pc = "search"]
    BY <1>1, <1>2, <2>1 DEF Busy
  <2> QED
    BY <1>2, <1>4, <1>6, <2>1 DEF GetRecordedRule
<1>7. CASE SearchRuleByManagedSuffix
  <2>1. CASE SearchHits(rec.cr) = {} /\ rec' = [rec EXCEPT !.pc = "create"]
    BY <1>1, <2>1, UniqueQuiet DEF Busy
  <2>2. CASE \E u : rec' = [rec EXCEPT !.pc = "getMatch", !.uuid = u]
    BY <1>1, <1>2, <2>2 DEF Busy
  <2> QED
    BY <1>3, <1>7, <2>1, <2>2 DEF SearchRuleByManagedSuffix
<1>8. CASE GetMatchedRule
  BY <1>2, <1>3, <1>4, <1>8 DEF GetMatchedRule
<1>9. CASE GetAppliedRule
  BY <1>1, <1>2, <1>3, <1>9 DEF GetAppliedRule, SetReadySuccess, Busy
<1> QED
  BY <1>3, <1>5, <1>6, <1>7, <1>8, <1>9 DEF BuildClientFails, ReadFails

LEMMA UniqueNext ==
  ASSUME SuffixesLeftAlone, MaxLate = 0,
         VarTypes, UniqueInv, Exclusive, [Next]_vars
  PROVE  UniqueInv'
<1>1. CASE \E c \in CRs : Reconcile(c)
  <2>1. UNCHANGED filterVars /\ (rec'.pc # "create" \/ UNCHANGED rec)
    BY <1>1 DEF Reconcile, Idle
  <2> QED
    BY <2>1, UniqueQuiet
<1>2. CASE AddFinalizer \/ RemoveFinalizer \/ SetReadyCondition \/ KubeCallFails \/ Crash
  <2>1. UNCHANGED filterVars /\ rec' = Idle
    BY <1>2 DEF AddFinalizer, RemoveFinalizer, SetReadyCondition, Update, KubeCallFails,
                Crash, Return
  <2> QED
    BY <2>1, UniqueQuiet DEF Idle
<1>3. CASE Calls
  BY <1>2, <1>3, UniqueResolve, UniqueWrite DEF Calls
<1>4. CASE Failures
  BY <1>2, <1>4, UniqueResolve, UniqueWriteFails DEF Failures
<1>5. CASE UserOrInformerStep \/ UNCHANGED vars
  BY <1>5, UniqueQuiet DEF UserOrInformerStep, vars
<1>6. CASE AdminStep
  BY <1>6, UniqueAdmin
<1>7. CASE LateStep
  BY <1>7 DEF LateStep, UniqueInv
<1> QED
  BY <1>1, <1>3, <1>4, <1>5, <1>6, <1>7 DEF Next

\* Under these three conditions no failure, lost reply, crash or stale copy makes
\* the controller create a second rule for a resource.
THEOREM UniquenessCorrect ==
  ASSUME Unambiguous, SuffixesLeftAlone, MaxLate = 0
  PROVE  Spec => []AtMostOneManaged
<1>1. Init => VarTypes /\ Exclusive /\ UniqueInv
  BY TypeInit, ExclusiveInit, UniqueInit
<1>2. VarTypes /\ Exclusive /\ UniqueInv /\ [Next]_vars
        => VarTypes' /\ Exclusive' /\ UniqueInv'
  BY TypeNext, ExclusiveNext, UniqueNext
<1>3. UniqueInv => AtMostOneManaged
  BY DEF UniqueInv
<1> QED
  BY <1>1, <1>2, <1>3, PTL DEF Spec
=============================================================================

------------------------- MODULE FirewallRuleProofs -------------------------
(***************************************************************************)
(* Theorems about FirewallRule, for every value of its constants: its      *)
(* variables have their types, a resource leaves the cluster only after    *)
(* its rule, and the controller implements ManagedResource.                *)
(***************************************************************************)
EXTENDS FirewallRule, TLAPS

----------------------------------------------------------------------------
\* Type correctness.

LEMMA EmptyStatusType == EmptyStatus \in Statuses
  BY DEF EmptyStatus, Statuses

\* The parts of the state that a call reads have their types.
LEMMA BusyFields ==
  ASSUME VarTypes, rec.pc # "idle"
  PROVE  /\ rec \in Busy
         /\ rec.cr \in CRs /\ rec.obj \in Objects /\ rec.status \in Statuses
         /\ rec.uuid \in UUIDs \union {None}
         /\ rec.obj.status \in Statuses
         /\ rec.obj.status.uuid \in UUIDs \union {None}
  BY DEF VarTypes, Busy, Idle, Objects, Statuses

LEMMA TypeInit == Init => VarTypes
  BY DEF Init, KubeInit, FilterInit, VarTypes, KubeTypeOK, FilterTypeOK

\* setReadyFailed leaves a well-formed reconcile.
LEMMA TypeFailed ==
  ASSUME VarTypes, rec.pc # "idle", SetReadyFailed
  PROVE  rec' \in Busy
<1>1. [rec.obj.status EXCEPT !.ready = "False"] \in Statuses
  BY BusyFields DEF Statuses
<1> QED
  BY <1>1, BusyFields DEF SetReadyFailed, Busy, KubeCalls

\* setReadySuccess leaves a well-formed reconcile.
LEMMA TypeSuccess ==
  ASSUME VarTypes, rec.pc # "idle", NEW u \in UUIDs, NEW s \in Seqs, SetReadySuccess(u, s)
  PROVE  rec' \in Busy
<1>1. rec.obj.gen \in Nat
  BY BusyFields DEF Objects
<1>2. Success(u, s) \in Statuses
  BY <1>1 DEF Success, Statuses
<1> QED
  BY <1>2, BusyFields DEF SetReadySuccess, Busy, KubeCalls

\* What the controller sends has the type of a rule.
LEMMA TypeDesired ==
  ASSUME VarTypes, rec.pc # "idle"
  PROVE  Desired \in Payloads
<1>1. rec.obj.spec \in [body: Bodies, enabled: BOOLEAN, seq: Seqs \union {None}]
  BY BusyFields, SpecsAssumption DEF Objects
<1> QED
  BY <1>1, BusyFields DEF Desired, SpecToRule, Payloads

\* The firewall's operations keep its types.
LEMMA TypeAddRule ==
  ASSUME FilterTypeOK, NEW u \in UUIDs, NEW p \in Payloads, AddRule(u, p)
  PROVE  /\ staged' \in [UUIDs -> Rules \union {None}]
         /\ running' \in [UUIDs -> Rules \union {None}]
<1> PICK s \in Seqs : staged' = [staged EXCEPT ![u] =
                         [owner |-> p.owner, body |-> p.body,
                          enabled |-> p.enabled, seq |-> s]]
  BY DEF AddRule
<1>1. [owner |-> p.owner, body |-> p.body,
                          enabled |-> p.enabled, seq |-> s] \in Rules
  BY DEF Payloads, Rules
<1> QED
  BY <1>1 DEF FilterTypeOK, AddRule

LEMMA TypeSetRule ==
  ASSUME FilterTypeOK, NEW u \in UUIDs \union {None}, NEW p \in Payloads, SetRule(u, p)
  PROVE  /\ staged' \in [UUIDs -> Rules \union {None}]
         /\ running' \in [UUIDs -> Rules \union {None}]
<1>1. u \in UUIDs /\ staged[u] \in Rules
  BY DEF SetRule, Present, FilterTypeOK
<1>2. [owner |-> p.owner, body |-> p.body, enabled |-> p.enabled,
       seq |-> IF p.seq = None THEN staged[u].seq ELSE p.seq] \in Rules
  BY <1>1 DEF Payloads, Rules
<1> QED
  BY <1>1, <1>2 DEF FilterTypeOK, SetRule

LEMMA TypeDelRule ==
  ASSUME FilterTypeOK, NEW u, DelRule(u)
  PROVE  /\ staged' \in [UUIDs -> Rules \union {None}]
         /\ running' \in [UUIDs -> Rules \union {None}]
  BY DEF FilterTypeOK, DelRule

LEMMA TypeApply ==
  ASSUME FilterTypeOK, Apply
  PROVE  /\ staged' \in [UUIDs -> Rules \union {None}]
         /\ running' \in [UUIDs -> Rules \union {None}]
  BY DEF FilterTypeOK, Apply

LEMMA TypeServe ==
  ASSUME FilterTypeOK, NEW u \in UUIDs, NEW r \in Requests, Serve(r, u)
  PROVE  /\ staged' \in [UUIDs -> Rules \union {None}]
         /\ running' \in [UUIDs -> Rules \union {None}]
<1> r.uuid \in UUIDs \union {None} /\ r.rule \in Payloads
  BY DEF Requests
<1>1. CASE AddRule(u, r.rule)
  BY <1>1, TypeAddRule
<1>2. CASE SetRule(r.uuid, r.rule)
  BY <1>2, TypeSetRule
<1>3. CASE DelRule(r.uuid)
  BY <1>3, TypeDelRule
<1>4. CASE Apply
  BY <1>4, TypeApply
<1> QED
  BY <1>1, <1>2, <1>3, <1>4 DEF Serve

\* The objects users leave behind are objects.
LEMMA TypeUserObjects ==
  ASSUME NEW s \in Specs
  PROVE  /\ [gen |-> 1, spec |-> s, deleting |-> FALSE, finalizer |-> FALSE,
             status |-> EmptyStatus] \in Objects
         /\ \A o \in Objects :
              /\ [o EXCEPT !.spec = s, !.gen = o.gen + 1] \in Objects
              /\ [o EXCEPT !.deleting = TRUE] \in Objects
<1>1. [gen |-> 1, spec |-> s, deleting |-> FALSE, finalizer |-> FALSE,
       status |-> EmptyStatus] \in Objects
  BY EmptyStatusType DEF Objects
<1>2. ASSUME NEW o \in Objects
      PROVE  /\ [o EXCEPT !.spec = s, !.gen = o.gen + 1] \in Objects
             /\ [o EXCEPT !.deleting = TRUE] \in Objects
  <2>1. o.gen + 1 \in Nat
    BY DEF Objects
  <2> QED
    BY <2>1 DEF Objects
<1> QED
  BY <1>1, <1>2

LEMMA TypeUser ==
  ASSUME VarTypes, UserOrInformerStep
  PROVE  VarTypes'
<1>1. ASSUME NEW c \in CRs, NEW s \in Specs, UserCreates(c, s) PROVE KubeTypeOK'
  BY <1>1, TypeUserObjects DEF UserCreates, VarTypes, KubeTypeOK
<1>2. ASSUME NEW c \in CRs, NEW s \in Specs, UserEdits(c, s) PROVE KubeTypeOK'
  BY <1>2, TypeUserObjects DEF UserEdits, VarTypes, KubeTypeOK
<1>3. ASSUME NEW c \in CRs, UserDeletes(c) PROVE KubeTypeOK'
  <2>1. api[c] \in Objects /\ api[c].spec \in Specs
    BY <1>3 DEF UserDeletes, VarTypes, KubeTypeOK, Objects
  <2> QED
    BY <1>3, <2>1, TypeUserObjects DEF UserDeletes, VarTypes, KubeTypeOK
<1>4. ASSUME NEW c \in CRs, WatchEvent(c) \/ Resync(c) PROVE KubeTypeOK'
  BY <1>4 DEF WatchEvent, Resync, VarTypes, KubeTypeOK
<1>5. KubeTypeOK'
  BY <1>1, <1>2, <1>3, <1>4 DEF UserOrInformerStep, UserStep
<1> QED
  BY <1>5 DEF UserOrInformerStep, filterVars, VarTypes, FilterTypeOK, Busy, Idle

LEMMA TypeReconcile ==
  ASSUME VarTypes, NEW c \in CRs, Reconcile(c)
  PROVE  VarTypes'
<1>1. KubeTypeOK' /\ FilterTypeOK'
  BY DEF Reconcile, VarTypes, KubeTypeOK, FilterTypeOK, filterVars
<1>2. ASSUME cache[c] \in Objects,
             NEW pc \in {"buildClient", "addFinalizer", "removeFinalizer"},
             rec' = [Idle EXCEPT !.pc = pc, !.cr = c, !.obj = cache[c]]
      PROVE  rec' \in Busy
  BY <1>2, EmptyStatusType DEF Idle, Busy, KubeCalls
<1>3. rec' \in Busy \union {Idle}
  BY <1>2 DEF Reconcile, VarTypes, KubeTypeOK
<1> QED
  BY <1>1, <1>3 DEF VarTypes

\* The decision on a rule found in the firewall.
LEMMA TypeFound ==
  ASSUME VarTypes, rec.pc # "idle", NEW u \in UUIDs, Present(u), Found(u)
  PROVE  rec' \in Busy \union {Idle} /\ cache' = cache /\ queue' \subseteq CRs
<1>1. staged[u].seq \in Seqs
  BY DEF VarTypes, FilterTypeOK, Present, Rules
<1>2. queue \subseteq CRs
  BY DEF VarTypes, KubeTypeOK
<1>3. CASE rec' = [rec EXCEPT !.pc = "update", !.uuid = u] /\ UNCHANGED <<cache, queue>>
  BY <1>2, <1>3, BusyFields DEF Busy, WriteCalls
<1>4. CASE Return(FALSE)
  BY <1>2, <1>4 DEF Return
<1>5. CASE SetReadySuccess(u, staged[u].seq) /\ UNCHANGED <<cache, queue>>
  BY <1>1, <1>2, <1>5, TypeSuccess
<1> QED
  BY <1>3, <1>4, <1>5 DEF Found

\* A step that sets pc and uuid of the reconcile leaves a well-formed one.
LEMMA TypeGoto ==
  ASSUME VarTypes, rec.pc # "idle", NEW u \in UUIDs \union {None},
         NEW pc \in ReadCalls \union WriteCalls \union KubeCalls,
         rec' = [rec EXCEPT !.pc = pc, !.uuid = u]
  PROVE  rec' \in Busy
  BY BusyFields DEF Busy

LEMMA TypeResolve ==
  ASSUME VarTypes,
         \/ BuildOPNsenseClient \/ BuildClientFails \/ GetRecordedRule
         \/ SearchRuleByManagedSuffix \/ GetMatchedRule \/ GetAppliedRule \/ ReadFails
  PROVE  VarTypes'
<1> USE DEF ReadCalls, WriteCalls, KubeCalls
<1>1. rec.pc # "idle"
  BY DEF BuildOPNsenseClient, BuildClientFails, GetRecordedRule,
         SearchRuleByManagedSuffix, GetMatchedRule, GetAppliedRule, ReadFails
<1>2. CASE UNCHANGED <<kubeVars, filterVars>> /\ rec' \in Busy
  BY <1>2 DEF VarTypes, KubeTypeOK, FilterTypeOK, kubeVars, filterVars
<1>3. CASE UNCHANGED <<kubeVars, filterVars>> /\ SetReadyFailed
  BY <1>1, <1>2, <1>3, TypeFailed
<1>4. CASE BuildOPNsenseClient
  BY <1>1, <1>2, <1>4, BusyFields DEF BuildOPNsenseClient, Busy
<1>5. CASE GetRecordedRule
  <2>1. CASE /\ Present(rec.obj.status.uuid) /\ Found(rec.obj.status.uuid)
             /\ UNCHANGED <<api, filterVars>>
    BY <1>1, <2>1, BusyFields, TypeFound
       DEF Present, VarTypes, KubeTypeOK, FilterTypeOK, filterVars
  <2>2. CASE rec' = [rec EXCEPT !.pc = "search"]
             /\ UNCHANGED <<api, cache, queue, filterVars>>
    BY <1>1, <1>2, <2>2, BusyFields DEF Busy, kubeVars
  <2> QED
    BY <1>5, <2>1, <2>2 DEF GetRecordedRule
<1>6. CASE SearchRuleByManagedSuffix
  <2>1. CASE rec' = [rec EXCEPT !.pc = "create"] /\ UNCHANGED <<kubeVars, filterVars>>
    BY <1>1, <1>2, <2>1, BusyFields DEF Busy
  <2>2. CASE UNCHANGED <<kubeVars, filterVars>>
             /\ \E u \in UUIDs : rec' = [rec EXCEPT !.pc = "getMatch", !.uuid = u]
    BY <1>1, <1>2, <2>2, BusyFields DEF Busy
  <2> QED
    BY <1>3, <1>6, <2>1, <2>2 DEF SearchRuleByManagedSuffix, SearchHits
<1>7. CASE GetMatchedRule
  <2>1. CASE Present(rec.uuid) /\ Found(rec.uuid) /\ UNCHANGED <<api, filterVars>>
    BY <1>1, <2>1, BusyFields, TypeFound
       DEF Present, VarTypes, KubeTypeOK, FilterTypeOK, filterVars
  <2> QED
    BY <1>3, <1>7, <2>1 DEF GetMatchedRule, kubeVars
<1>8. CASE GetAppliedRule
  <2>1. ASSUME Present(rec.uuid) PROVE rec.uuid \in UUIDs /\ staged[rec.uuid].seq \in Seqs
    BY <1>1, <2>1, BusyFields DEF Present, VarTypes, FilterTypeOK, Rules
  <2> QED
    BY <1>1, <1>2, <1>3, <1>8, <2>1, TypeSuccess DEF GetAppliedRule
<1> QED
  BY <1>3, <1>4, <1>5, <1>6, <1>7, <1>8 DEF BuildClientFails, ReadFails

LEMMA TypeWrite ==
  ASSUME VarTypes,
         CreateRule \/ UpdateRule \/ ApplyFirewallRules \/ DeleteRule \/ ApplyDeletion
  PROVE  VarTypes'
<1> USE DEF ReadCalls, WriteCalls, KubeCalls
<1>1. rec.pc # "idle"
  BY DEF CreateRule, UpdateRule, ApplyFirewallRules, DeleteRule, ApplyDeletion
<1>2. UNCHANGED <<kubeVars, late>>
  BY DEF CreateRule, UpdateRule, ApplyFirewallRules, DeleteRule, ApplyDeletion
<1>3. FilterTypeOK
  BY DEF VarTypes
<1>4. /\ staged' \in [UUIDs -> Rules \union {None}]
      /\ running' \in [UUIDs -> Rules \union {None}]
  <2>1. CASE UNCHANGED <<staged, running>>
    BY <1>3, <2>1 DEF FilterTypeOK
  <2>2. CASE \E u \in UUIDs : AddRule(u, Desired)
    BY <1>1, <1>3, <2>2, TypeAddRule, TypeDesired
  <2>3. CASE SetRule(rec.uuid, Desired)
    BY <1>1, <1>3, <2>3, TypeSetRule, TypeDesired, BusyFields
  <2>4. CASE DelRule(rec.uuid)
    BY <1>3, <2>4, TypeDelRule
  <2>5. CASE Apply
    BY <1>3, <2>5, TypeApply
  <2> QED
    BY <2>1, <2>2, <2>3, <2>4, <2>5
       DEF CreateRule, UpdateRule, ApplyFirewallRules, DeleteRule, ApplyDeletion
<1>5. rec' \in Busy
  <2>1. CASE SetReadyFailed
    BY <1>1, <2>1, TypeFailed
  <2>2. CASE \E u \in UUIDs : rec' = [rec EXCEPT !.pc = "apply", !.uuid = u]
    BY <1>1, <2>2, BusyFields DEF Busy
  <2>3. CASE \E pc \in {"apply", "getApplied", "applyDelete", "removeFinalizer"} :
               rec' = [rec EXCEPT !.pc = pc]
    BY <1>1, <2>3, BusyFields DEF Busy
  <2> QED
    BY <2>1, <2>2, <2>3
       DEF CreateRule, UpdateRule, ApplyFirewallRules, DeleteRule, ApplyDeletion
<1> QED
  BY <1>2, <1>4, <1>5 DEF VarTypes, KubeTypeOK, FilterTypeOK, kubeVars

\* The objects the controller writes are objects.
LEMMA TypeWritten ==
  ASSUME VarTypes, rec.pc # "idle"
  PROVE  WithFinalizer \in Objects /\ WithStatus \in Objects
<1>1. WrittenBack(rec.obj.spec) \in Specs
  BY BusyFields, SpecsAssumption DEF WrittenBack, Objects
<1>2. (IF rec.obj.spec.enabled THEN rec.obj.gen ELSE rec.obj.gen + 1) \in Nat
  BY BusyFields DEF Objects
<1>3. WithFinalizer \in Objects
  BY <1>1, <1>2, BusyFields DEF WithFinalizer, Objects
<1> QED
  BY <1>3, BusyFields DEF WithStatus, Objects

LEMMA TypeKubeCall ==
  ASSUME VarTypes, AddFinalizer \/ RemoveFinalizer \/ SetReadyCondition \/ KubeCallFails
  PROVE  VarTypes'
<1>1. rec.pc # "idle"
  BY DEF AddFinalizer, RemoveFinalizer, SetReadyCondition, Update, KubeCallFails, KubeCalls
<1>2. \E err : Return(err)
  BY DEF AddFinalizer, RemoveFinalizer, SetReadyCondition, Update, KubeCallFails
<1>3. \/ UNCHANGED api
      \/ \E new \in Objects \union {None} : api' = [api EXCEPT ![rec.cr] = new]
  BY <1>1, TypeWritten
     DEF AddFinalizer, RemoveFinalizer, SetReadyCondition, Update, KubeCallFails,
         Stored, Conflict
<1>4. KubeTypeOK'
  BY <1>1, <1>2, <1>3, BusyFields DEF Return, VarTypes, KubeTypeOK
<1>5. FilterTypeOK'
  BY DEF AddFinalizer, RemoveFinalizer, SetReadyCondition, Update, KubeCallFails,
         filterVars, VarTypes, FilterTypeOK
<1> QED
  BY <1>2, <1>4, <1>5 DEF Return, VarTypes

LEMMA TypeWriteFails ==
  ASSUME VarTypes, WriteFails
  PROVE  VarTypes'
<1>1. rec.pc # "idle"
  BY DEF WriteFails, WriteCalls
<1>2. Request \in Requests
  BY <1>1, TypeDesired, BusyFields DEF Request, Requests, WriteFails, WriteCalls
<1>3. FilterTypeOK
  BY DEF VarTypes
<1>4. PICK u \in UUIDs : LoseCall(Request, u)
  BY DEF WriteFails
<1>5. FilterTypeOK'
  <2>1. CASE UNCHANGED <<staged, running, late>>
    BY <1>3, <2>1 DEF FilterTypeOK
  <2>2. CASE Serve(Request, u) /\ UNCHANGED late
    BY <1>2, <1>3, <2>2, TypeServe DEF FilterTypeOK
  <2>3. CASE late' = late \union {Request} /\ UNCHANGED <<staged, running>>
    BY <1>2, <1>3, <2>3 DEF FilterTypeOK
  <2> QED
    BY <1>4, <2>1, <2>2, <2>3 DEF LoseCall
<1>6. rec' \in Busy /\ UNCHANGED kubeVars
  BY <1>1, TypeFailed DEF WriteFails
<1> QED
  BY <1>5, <1>6 DEF VarTypes, KubeTypeOK, kubeVars

LEMMA TypeAdmin ==
  ASSUME VarTypes, AdminStep
  PROVE  VarTypes'
<1>1. FilterTypeOK
  BY DEF VarTypes
<1>2. PICK u \in UUIDs :
         \/ \E b \in Bodies : AdminEdits(u, b)
         \/ AdminDeletes(u)
         \/ \E v \in UUIDs : AdminClones(u, v)
         \/ AdminRedescribes(u)
         \/ AdminApplies
  BY DEF AdminStep
<1>3. FilterTypeOK'
  <2>1. ASSUME Present(u) PROVE staged[u] \in Rules
    BY <1>1, <2>1 DEF Present, FilterTypeOK
  <2>2. CASE \E b \in Bodies : AdminEdits(u, b)
    BY <1>1, <2>1, <2>2 DEF AdminEdits, FilterTypeOK, Rules
  <2>3. CASE AdminDeletes(u)
    BY <1>1, <2>3, TypeDelRule DEF AdminDeletes, FilterTypeOK
  <2>4. CASE \E v \in UUIDs : AdminClones(u, v)
    BY <1>1, <2>1, <2>4 DEF AdminClones, FilterTypeOK
  <2>5. CASE AdminRedescribes(u)
    BY <1>1, <2>1, <2>5 DEF AdminRedescribes, FilterTypeOK, Rules
  <2>6. CASE AdminApplies
    BY <1>1, <2>6, TypeApply DEF AdminApplies, FilterTypeOK
  <2> QED
    BY <1>2, <2>2, <2>3, <2>4, <2>5, <2>6
<1> QED
  BY <1>3 DEF AdminStep, kubeVars, VarTypes, KubeTypeOK, Busy, Idle

LEMMA TypeLate ==
  ASSUME VarTypes, LateStep
  PROVE  VarTypes'
<1>1. FilterTypeOK
  BY DEF VarTypes
<1>2. PICK r \in late, u \in UUIDs : ServeLate(r, u)
  BY DEF LateStep
<1>3. r \in Requests
  BY <1>1 DEF FilterTypeOK
<1>4. FilterTypeOK'
  BY <1>1, <1>2, <1>3, TypeServe DEF ServeLate, FilterTypeOK
<1> QED
  BY <1>4 DEF LateStep, kubeVars, VarTypes, KubeTypeOK, Busy, Idle

\* VarTypes is inductive.
LEMMA TypeNext == VarTypes /\ [Next]_vars => VarTypes'
<1> SUFFICES ASSUME VarTypes, [Next]_vars PROVE VarTypes'
  OBVIOUS
<1>1. CASE \E c \in CRs : Reconcile(c)
  BY <1>1, TypeReconcile
<1>2. CASE Calls
  BY <1>2, TypeResolve, TypeWrite, TypeKubeCall DEF Calls
<1>3. CASE Failures
  <2>1. CASE Crash
    BY <2>1 DEF Crash, Relist, filterVars, VarTypes, KubeTypeOK, FilterTypeOK
  <2> QED
    BY <1>3, <2>1, TypeResolve, TypeWriteFails, TypeKubeCall DEF Failures
<1>4. CASE UserOrInformerStep
  BY <1>4, TypeUser
<1>5. CASE AdminStep
  BY <1>5, TypeAdmin
<1>6. CASE LateStep
  BY <1>6, TypeLate
<1>7. CASE UNCHANGED vars
  BY <1>7 DEF vars, kubeVars, filterVars, VarTypes, KubeTypeOK, FilterTypeOK
<1> QED
  BY <1>1, <1>2, <1>3, <1>4, <1>5, <1>6, <1>7 DEF Next

----------------------------------------------------------------------------
\* Cleanup before release.

LEMMA DeletionInit == Init => DeletionInv
  BY DEF Init, KubeInit, FilterInit, DeletionInv, Idle

\* A rule the reconcile's copy refers to and that is gone comes back neither
\* through a request served late nor through the administrator.
LEMMA GoneStaysGone ==
  ASSUME VarTypes, rec.pc # "idle", NEW u \in UUIDs, u = rec.obj.status.uuid,
         staged[u] = None, AdminStep \/ LateStep
  PROVE  staged'[u] = None /\ (running[u] = None => running'[u] = None)
<1>1. ~ Fresh(u)
  BY BusyFields, AbsentAssumption DEF Fresh, Refers, UuidOf
<1>2. staged \in [UUIDs -> Rules \union {None}]
  BY DEF VarTypes, FilterTypeOK
<1>3. CASE AdminStep
  BY <1>1, <1>2, <1>3
     DEF AdminStep, AdminEdits, AdminDeletes, AdminClones, AdminRedescribes, AdminApplies,
         Present, DelRule, Apply
<1>4. CASE LateStep
  <2>1. PICK r \in late, v \in UUIDs : (r.op = "create" => Fresh(v)) /\ ServeLate(r, v)
    BY <1>4 DEF LateStep
  <2>2. CASE r.op = "create" /\ AddRule(v, r.rule)
    BY <1>1, <1>2, <2>1, <2>2 DEF AddRule
  <2>3. CASE SetRule(r.uuid, r.rule)
    BY <1>2, <2>3 DEF SetRule, Present
  <2>4. CASE DelRule(r.uuid)
    BY <1>2, <2>4 DEF DelRule
  <2>5. CASE Apply
    BY <2>5 DEF Apply
  <2> QED
    BY <2>1, <2>2, <2>3, <2>4, <2>5 DEF ServeLate, Serve
<1> QED
  BY <1>3, <1>4

LEMMA DeletionOthers ==
  ASSUME VarTypes, DeletionInv, AdminStep \/ LateStep
  PROVE  DeletionInv'
<1>1. UNCHANGED <<kubeVars, rec>>
  BY DEF AdminStep, LateStep
<1>2. CASE rec.pc \in {"applyDelete", "removeFinalizer"} /\ rec.obj.status.uuid # None
  BY <1>1, <1>2, GoneStaysGone, BusyFields DEF DeletionInv, kubeVars
<1> QED
  BY <1>1, <1>2 DEF DeletionInv, kubeVars

LEMMA DeletionUser ==
  ASSUME VarTypes, DeletionInv, UserOrInformerStep
  PROVE  DeletionInv'
<1>1. UNCHANGED <<filterVars, rec>>
  BY DEF UserOrInformerStep
<1>2. \A c \in CRs : api'[c] # None /\ api'[c].status.uuid # None => api'[c].finalizer
  <2>1. ASSUME NEW c \in CRs, NEW s \in Specs, UserCreates(c, s) PROVE <1>2
    BY <2>1 DEF UserCreates, EmptyStatus, DeletionInv, VarTypes, KubeTypeOK
  <2>2. ASSUME NEW c \in CRs, NEW s \in Specs, UserEdits(c, s) PROVE <1>2
    BY <2>2 DEF UserEdits, DeletionInv, VarTypes, KubeTypeOK, Objects
  <2>3. ASSUME NEW c \in CRs, UserDeletes(c) PROVE <1>2
    BY <2>3 DEF UserDeletes, DeletionInv, VarTypes, KubeTypeOK, Objects
  <2>4. ASSUME UNCHANGED api PROVE <1>2
    BY <2>4 DEF DeletionInv
  <2> QED
    BY <2>1, <2>2, <2>3, <2>4 DEF UserOrInformerStep, UserStep, WatchEvent, Resync
<1> QED
  BY <1>1, <1>2 DEF DeletionInv, filterVars

LEMMA DeletionReconcile ==
  ASSUME VarTypes, DeletionInv, NEW c \in CRs, Reconcile(c)
  PROVE  DeletionInv'
<1>1. UNCHANGED <<api, filterVars>>
  BY DEF Reconcile
<1>2. CASE UNCHANGED rec
  BY <1>1, <1>2 DEF DeletionInv, filterVars
<1>3. ASSUME NEW pc \in {"buildClient", "addFinalizer", "removeFinalizer"},
             rec' = [Idle EXCEPT !.pc = pc, !.cr = c, !.obj = cache[c]],
             pc # "addFinalizer" => cache[c].finalizer,
             pc = "buildClient" /\ cache[c].deleting => cache[c].status.uuid # None,
             pc = "removeFinalizer" => cache[c].status.uuid = None
      PROVE  DeletionInv'
  <2>1. rec'.pc = pc /\ rec'.obj = cache[c]
    BY <1>3 DEF Idle
  <2> QED
    BY <1>1, <1>3, <2>1 DEF DeletionInv
<1> QED
  BY <1>2, <1>3 DEF Reconcile

\* The steps of a reconcile that is not about to drop the finalizer: they keep
\* the copy and leave the deletion path, or go on along it.
LEMMA DeletionLeaves ==
  ASSUME VarTypes, DeletionInv, UNCHANGED api, rec'.obj = rec.obj,
         rec.pc \notin {"idle", "addFinalizer"},
         rec'.pc \notin {"buildClient", "delete", "applyDelete", "removeFinalizer"}
  PROVE  DeletionInv'
  BY DEF DeletionInv

LEMMA DeletionReturns ==
  ASSUME VarTypes, DeletionInv, UNCHANGED api, rec' = Idle
  PROVE  DeletionInv'
  BY DEF DeletionInv, Idle

LEMMA FailedFields ==
  ASSUME VarTypes, rec.pc # "idle", SetReadyFailed
  PROVE  rec'.pc = "setStatus" /\ rec'.obj = rec.obj
  BY BusyFields DEF SetReadyFailed, Busy

LEMMA DeletionResolve ==
  ASSUME VarTypes, DeletionInv,
         \/ BuildOPNsenseClient \/ BuildClientFails \/ GetRecordedRule
         \/ SearchRuleByManagedSuffix \/ GetMatchedRule \/ GetAppliedRule \/ ReadFails
  PROVE  DeletionInv'
<1> USE DEF ReadCalls
<1>1. rec.pc \notin {"idle", "addFinalizer"} /\ UNCHANGED <<api, filterVars>>
  BY DEF BuildOPNsenseClient, BuildClientFails, GetRecordedRule, kubeVars,
         SearchRuleByManagedSuffix, GetMatchedRule, GetAppliedRule, ReadFails
<1>2. rec \in Busy
  BY <1>1, BusyFields
<1>3. CASE SetReadyFailed
  BY <1>1, <1>3, FailedFields, DeletionLeaves
<1>4. CASE rec' = Idle
  BY <1>1, <1>4, DeletionReturns
<1>5. ASSUME NEW u, NEW pc \in {"search", "getMatch", "create", "update"},
             rec' = [rec EXCEPT !.pc = pc] \/ rec' = [rec EXCEPT !.pc = pc, !.uuid = u]
      PROVE  DeletionInv'
  <2>1. rec'.pc = pc /\ rec'.obj = rec.obj
    BY <1>2, <1>5 DEF Busy
  <2> QED
    BY <1>1, <2>1, DeletionLeaves
<1>6. ASSUME NEW u, NEW s, SetReadySuccess(u, s) PROVE DeletionInv'
  <2>1. rec'.pc = "setStatus" /\ rec'.obj = rec.obj
    BY <1>2, <1>6 DEF Busy, SetReadySuccess
  <2> QED
    BY <1>1, <2>1, DeletionLeaves
<1>7. CASE BuildOPNsenseClient
  <2>1. CASE rec.obj.deleting
    <3>1. /\ rec'.pc = "delete" /\ rec'.obj = rec.obj
          /\ rec'.uuid = rec.obj.status.uuid
      BY <1>2, <1>7, <2>1 DEF BuildOPNsenseClient, Busy
    <3> QED
      BY <1>1, <1>7, <2>1, <3>1 DEF BuildOPNsenseClient, DeletionInv, filterVars
  <2>2. CASE ~ rec.obj.deleting
    <3>1. rec'.pc \in {"getRecorded", "search"} /\ rec'.obj = rec.obj
      BY <1>2, <1>7, <2>2 DEF BuildOPNsenseClient, Busy
    <3> QED
      BY <1>1, <3>1, DeletionLeaves
  <2> QED
    BY <2>1, <2>2
<1>8. ASSUME NEW u, Found(u) PROVE DeletionInv'
  BY <1>4, <1>5, <1>8, <1>6 DEF Found, Return
<1>9. CASE GetRecordedRule \/ GetMatchedRule
  BY <1>3, <1>5, <1>8, <1>9 DEF GetRecordedRule, GetMatchedRule
<1>10. CASE SearchRuleByManagedSuffix
  BY <1>3, <1>5, <1>10 DEF SearchRuleByManagedSuffix
<1>11. CASE GetAppliedRule
  BY <1>3, <1>11, <1>6 DEF GetAppliedRule
<1> QED
  BY <1>3, <1>7, <1>9, <1>10, <1>11 DEF BuildClientFails, ReadFails

LEMMA DeletionWrite ==
  ASSUME VarTypes, DeletionInv,
         \/ CreateRule \/ UpdateRule \/ ApplyFirewallRules \/ DeleteRule
         \/ ApplyDeletion \/ WriteFails
  PROVE  DeletionInv'
<1> USE DEF WriteCalls
<1>1. rec.pc \notin {"idle", "addFinalizer"} /\ UNCHANGED api
  BY DEF CreateRule, UpdateRule, ApplyFirewallRules, DeleteRule, ApplyDeletion,
         WriteFails, kubeVars
<1>2. rec \in Busy /\ staged \in [UUIDs -> Rules \union {None}]
  BY <1>1, BusyFields DEF VarTypes, FilterTypeOK
<1>3. CASE SetReadyFailed
  BY <1>1, <1>3, FailedFields, DeletionLeaves
<1>4. CASE \E u : rec' = [rec EXCEPT !.pc = "apply", !.uuid = u]
  BY <1>1, <1>2, <1>4, DeletionLeaves DEF Busy
<1>5. CASE \E pc \in {"apply", "getApplied"} : rec' = [rec EXCEPT !.pc = pc]
  BY <1>1, <1>2, <1>5, DeletionLeaves DEF Busy
<1>6. CASE DeleteRule
  <2>1. rec'.pc = "applyDelete" /\ rec'.obj = rec.obj /\ rec'.uuid = rec.uuid
    BY <1>2, <1>6 DEF DeleteRule, Busy
  <2>2. rec.uuid = rec.obj.status.uuid /\ rec.uuid # None /\ rec.uuid \in UUIDs
    BY <1>1, <1>6, BusyFields DEF DeletionInv, DeleteRule
  <2>3. staged'[rec.uuid] = None
    BY <1>2, <1>6, <2>2 DEF DeleteRule, DelRule, Present
  <2> QED
    BY <1>1, <2>1, <2>2, <2>3 DEF DeletionInv
<1>7. CASE ApplyDeletion
  <2>1. rec'.pc = "removeFinalizer" /\ rec'.obj = rec.obj
    BY <1>2, <1>7 DEF ApplyDeletion, Busy
  <2>2. running' = staged /\ staged' = staged
    BY <1>7 DEF ApplyDeletion, Apply
  <2> QED
    BY <1>1, <1>7, <2>1, <2>2 DEF DeletionInv, ApplyDeletion
<1> QED
  BY <1>3, <1>4, <1>5, <1>6, <1>7
     DEF CreateRule, UpdateRule, ApplyFirewallRules, WriteFails

LEMMA DeletionKubeCall ==
  ASSUME VarTypes, DeletionInv,
         AddFinalizer \/ RemoveFinalizer \/ SetReadyCondition \/ KubeCallFails
  PROVE  DeletionInv'
<1> USE DEF KubeCalls
<1>1. rec.pc \in KubeCalls /\ rec.pc # "idle"
  BY DEF AddFinalizer, RemoveFinalizer, SetReadyCondition, Update, KubeCallFails
<1>2. rec' = Idle
  BY DEF AddFinalizer, RemoveFinalizer, SetReadyCondition, Update, KubeCallFails, Return
<1>3. \/ UNCHANGED api
      \/ rec.pc = "addFinalizer" /\ api' = [api EXCEPT ![rec.cr] = WithFinalizer]
      \/ rec.pc = "removeFinalizer" /\ api' = [api EXCEPT ![rec.cr] = None]
      \/ rec.pc = "setStatus" /\ api' = [api EXCEPT ![rec.cr] = WithStatus]
  BY DEF AddFinalizer, RemoveFinalizer, SetReadyCondition, Update, KubeCallFails,
         Stored, Conflict
<1>4. WithFinalizer.finalizer
  BY <1>1, BusyFields DEF WithFinalizer, Objects
<1>5. rec.pc = "setStatus" => WithStatus.finalizer
  BY <1>1, BusyFields DEF WithStatus, Objects, DeletionInv
<1>6. \A c \in CRs : api'[c] # None /\ api'[c].status.uuid # None => api'[c].finalizer
  BY <1>1, <1>3, <1>4, <1>5, BusyFields DEF DeletionInv, VarTypes, KubeTypeOK
<1> QED
  BY <1>2, <1>6 DEF DeletionInv, Idle

LEMMA DeletionNext == VarTypes /\ DeletionInv /\ [Next]_vars => DeletionInv'
<1> SUFFICES ASSUME VarTypes, DeletionInv, [Next]_vars PROVE DeletionInv'
  OBVIOUS
<1>1. CASE \E c \in CRs : Reconcile(c)
  BY <1>1, DeletionReconcile
<1>2. CASE Calls
  BY <1>2, DeletionResolve, DeletionWrite, DeletionKubeCall DEF Calls
<1>3. CASE Failures
  <2>1. CASE Crash
    BY <2>1, DeletionReturns DEF Crash, Relist
  <2> QED
    BY <1>3, <2>1, DeletionResolve, DeletionWrite, DeletionKubeCall DEF Failures
<1>4. CASE UserOrInformerStep \/ AdminStep \/ LateStep
  BY <1>4, DeletionUser, DeletionOthers
<1>5. CASE UNCHANGED vars
  BY <1>5 DEF vars, kubeVars, filterVars, DeletionInv
<1> QED
  BY <1>1, <1>2, <1>3, <1>4, <1>5 DEF Next

\* A step that removes a resource finds its recorded rule gone.
LEMMA ReleaseStep ==
  ASSUME VarTypes, DeletionInv, [Next]_vars, NEW c \in CRs,
         api[c] # None, api'[c] = None, UuidOf(api[c]) # None
  PROVE  staged[UuidOf(api[c])] = None /\ running[UuidOf(api[c])] = None
<1>1. api \in [CRs -> Objects \union {None}] /\ UuidOf(api[c]) = api[c].status.uuid
  BY DEF VarTypes, KubeTypeOK, UuidOf
<1>2. CASE \E d \in CRs, s \in Specs : UserCreates(d, s) \/ UserEdits(d, s)
  <2>1. PICK d \in CRs, o \in Objects : api' = [api EXCEPT ![d] = o]
    BY <1>1, <1>2, TypeUserObjects DEF UserCreates, UserEdits
  <2> QED
    BY <1>1, <2>1, AbsentAssumption
<1>3. CASE \E d \in CRs : UserDeletes(d)
  <2>1. PICK d \in CRs : UserDeletes(d)
    BY <1>3
  <2>2. d = c
    BY <1>1, <2>1 DEF UserDeletes
  <2>3. api[c] \in Objects /\ api[c].spec \in Specs
    BY <1>1 DEF Objects
  <2>4. api[c].finalizer => api'[c] \in Objects
    BY <1>1, <2>1, <2>2, <2>3, TypeUserObjects DEF UserDeletes
  <2> QED
    BY <1>1, <2>4, AbsentAssumption DEF DeletionInv
<1>4. CASE /\ AddFinalizer \/ RemoveFinalizer \/ SetReadyCondition \/ KubeCallFails
           /\ api' # api
  <2>1. rec.pc # "idle"
    BY <1>4 DEF AddFinalizer, RemoveFinalizer, SetReadyCondition, Update, KubeCallFails,
                KubeCalls
  <2>2. \/ rec.pc = "removeFinalizer" /\ Stored(rec.cr, rec.obj, None)
        \/ Stored(rec.cr, rec.obj, WithFinalizer)
        \/ Stored(rec.cr, rec.obj, WithStatus)
    BY <1>4 DEF AddFinalizer, RemoveFinalizer, SetReadyCondition, Update, KubeCallFails,
                Conflict
  <2>3. rec.pc = "removeFinalizer" /\ api[c] = rec.obj
    BY <1>1, <2>1, <2>2, BusyFields, TypeWritten, AbsentAssumption DEF Stored
  <2> QED
    BY <1>1, <2>3 DEF DeletionInv
<1>5. CASE UNCHANGED api
  BY <1>5
<1> QED
  BY <1>2, <1>3, <1>4, <1>5
     DEF Next, Reconcile, Calls, Failures, Crash, Relist, UserOrInformerStep, UserStep,
         WatchEvent, Resync, AdminStep, LateStep, BuildOPNsenseClient, BuildClientFails,
         GetRecordedRule, SearchRuleByManagedSuffix, GetMatchedRule, GetAppliedRule,
         ReadFails, CreateRule, UpdateRule, ApplyFirewallRules, DeleteRule, ApplyDeletion,
         WriteFails, vars, kubeVars

\* Type correctness and the deletion invariant hold together, so the rule a
\* resource records stays gone from its deletion to the release of the resource.
THEOREM DeletionCorrect == Spec => []DeletionInv
<1>1. Init => VarTypes /\ DeletionInv
  BY TypeInit, DeletionInit
<1>2. VarTypes /\ DeletionInv /\ [Next]_vars => VarTypes' /\ DeletionInv'
  BY TypeNext, DeletionNext
<1> QED
  BY <1>1, <1>2, PTL DEF Spec

\* Whatever fails, crashes, conflicts or arrives late, a resource that records a
\* UUID is removed from the cluster only when that rule is neither configured nor
\* in force.
THEOREM CleanupCorrect == Spec => CleanupBeforeRelease
<1>1. Init => VarTypes /\ DeletionInv
  BY TypeInit, DeletionInit
<1>2. VarTypes /\ DeletionInv /\ [Next]_vars => VarTypes' /\ DeletionInv'
  BY TypeNext, DeletionNext
<1>3. VarTypes /\ DeletionInv /\ [Next]_vars =>
        [\A c \in CRs :
           api[c] # None /\ api'[c] = None /\ UuidOf(api[c]) # None =>
             /\ staged[UuidOf(api[c])] = None
             /\ running[UuidOf(api[c])] = None]_vars
  BY ReleaseStep
<1> QED
  BY <1>1, <1>2, <1>3, PTL DEF Spec, CleanupBeforeRelease

----------------------------------------------------------------------------
\* Identifiers are there where they are needed.  DeletionInv is what knows that the
\* delete path is not taken without one.

WorkIdentified ==
  /\ rec.pc \in NamingCalls => rec.uuid # None
  /\ rec.pc = "getRecorded" => rec.obj.status.uuid # None
  /\ rec.status.ready = "True" => rec.status.uuid # None

LEMMA IdentifiersFailed ==
  ASSUME VarTypes, rec.pc # "idle", SetReadyFailed
  PROVE  WorkIdentified'
<1>1. rec'.pc = "setStatus" /\ rec'.status = [rec.obj.status EXCEPT !.ready = "False"]
  BY BusyFields DEF SetReadyFailed, Busy
<1>2. rec'.status.ready = "False"
  BY <1>1, BusyFields DEF Statuses
<1> QED
  BY <1>1, <1>2 DEF WorkIdentified, NamingCalls

LEMMA IdentifiersSuccess ==
  ASSUME VarTypes, rec.pc # "idle", NEW u, u # None, NEW q, SetReadySuccess(u, q)
  PROVE  WorkIdentified'
<1>1. rec'.pc = "setStatus" /\ rec'.status = Success(u, q)
  BY BusyFields DEF SetReadySuccess, Busy
<1> QED
  BY <1>1 DEF WorkIdentified, NamingCalls, Success

LEMMA IdentifiersReturn ==
  ASSUME rec' = Idle
  PROVE  WorkIdentified'
  BY DEF WorkIdentified, NamingCalls, Idle, EmptyStatus

\* A step to the next call.
LEMMA IdentifiersGoto ==
  ASSUME VarTypes, WorkIdentified, rec.pc # "idle", NEW pc, NEW u,
         rec' = [rec EXCEPT !.pc = pc, !.uuid = u],
         pc \in NamingCalls => u # None,
         pc = "getRecorded" => rec.obj.status.uuid # None
  PROVE  WorkIdentified'
<1>1. rec'.pc = pc /\ rec'.uuid = u /\ rec'.obj = rec.obj /\ rec'.status = rec.status
  BY BusyFields DEF Busy
<1> QED
  BY <1>1 DEF WorkIdentified

LEMMA IdentifiersStay ==
  ASSUME VarTypes, rec.pc # "idle", NEW pc, rec' = [rec EXCEPT !.pc = pc]
  PROVE  rec' = [rec EXCEPT !.pc = pc, !.uuid = rec.uuid]
  BY BusyFields DEF Busy

LEMMA IdentifiersFound ==
  ASSUME VarTypes, WorkIdentified, rec.pc # "idle", NEW u, Present(u), Found(u)
  PROVE  WorkIdentified'
<1>1. u # None
  BY DEF Present
<1>2. CASE rec' = [rec EXCEPT !.pc = "update", !.uuid = u]
  BY <1>1, <1>2, BusyFields DEF Busy, WorkIdentified
<1>3. CASE Return(FALSE)
  BY <1>3, IdentifiersReturn DEF Return
<1>4. CASE SetReadySuccess(u, staged[u].seq)
  BY <1>1, <1>4, IdentifiersSuccess
<1> QED
  BY <1>2, <1>3, <1>4 DEF Found

LEMMA IdentifiersResolve ==
  ASSUME VarTypes, DeletionInv, WorkIdentified,
         \/ BuildOPNsenseClient \/ BuildClientFails \/ GetRecordedRule
         \/ SearchRuleByManagedSuffix \/ GetMatchedRule \/ GetAppliedRule \/ ReadFails
  PROVE  WorkIdentified'
<1>1. rec.pc # "idle"
  BY DEF BuildOPNsenseClient, BuildClientFails, GetRecordedRule, ReadCalls,
         SearchRuleByManagedSuffix, GetMatchedRule, GetAppliedRule, ReadFails
<1>2. CASE SetReadyFailed
  BY <1>1, <1>2, IdentifiersFailed
<1>3. CASE BuildOPNsenseClient
  <2> DEFINE u == IF rec.obj.deleting THEN rec.obj.status.uuid ELSE None
             pc == CASE rec.obj.deleting -> "delete"
                     [] ~ rec.obj.deleting /\ rec.obj.status.uuid # None -> "getRecorded"
                     [] OTHER -> "search"
  <2>1. rec' = [rec EXCEPT !.pc = pc, !.uuid = u]
    BY <1>1, <1>3, BusyFields DEF BuildOPNsenseClient, Busy
  <2>2. rec.obj.deleting => rec.obj.status.uuid # None
    BY <1>3 DEF BuildOPNsenseClient, DeletionInv
  <2>3. pc \in NamingCalls => u # None
    BY <2>2 DEF NamingCalls
  <2>4. pc = "getRecorded" => rec.obj.status.uuid # None
    OBVIOUS
  <2> HIDE DEF u, pc
  <2> QED
    BY <1>1, <2>1, <2>3, <2>4, IdentifiersGoto
<1>4. ASSUME NEW pc \in {"search", "create"}, rec' = [rec EXCEPT !.pc = pc]
      PROVE  WorkIdentified'
  BY <1>1, <1>4, IdentifiersStay, IdentifiersGoto DEF NamingCalls
<1>5. CASE GetRecordedRule \/ GetMatchedRule
  BY <1>1, <1>2, <1>4, <1>5, IdentifiersFound DEF GetRecordedRule, GetMatchedRule
<1>6. CASE SearchRuleByManagedSuffix
  <2>1. ASSUME NEW u \in UUIDs, rec' = [rec EXCEPT !.pc = "getMatch", !.uuid = u]
        PROVE  WorkIdentified'
    BY <1>1, <2>1, NoneAssumption, BusyFields DEF Busy, WorkIdentified
  <2> QED
    BY <1>2, <1>4, <1>6, <2>1 DEF SearchRuleByManagedSuffix, SearchHits
<1>7. CASE GetAppliedRule
  BY <1>1, <1>2, <1>7, IdentifiersSuccess DEF GetAppliedRule, Present
<1> QED
  BY <1>2, <1>3, <1>5, <1>6, <1>7 DEF BuildClientFails, ReadFails

LEMMA IdentifiersWrite ==
  ASSUME VarTypes, WorkIdentified,
         \/ CreateRule \/ UpdateRule \/ ApplyFirewallRules \/ DeleteRule
         \/ ApplyDeletion \/ WriteFails
  PROVE  WorkIdentified'
<1>1. rec.pc # "idle"
  BY DEF CreateRule, UpdateRule, ApplyFirewallRules, DeleteRule, ApplyDeletion,
         WriteFails, WriteCalls
<1>2. CASE SetReadyFailed
  BY <1>1, <1>2, IdentifiersFailed
<1>3. ASSUME NEW u \in UUIDs, rec' = [rec EXCEPT !.pc = "apply", !.uuid = u]
      PROVE  WorkIdentified'
  BY <1>1, <1>3, NoneAssumption, BusyFields DEF Busy, WorkIdentified
<1>4. ASSUME NEW pc \in {"apply", "getApplied", "applyDelete", "removeFinalizer"},
             rec' = [rec EXCEPT !.pc = pc],
             pc \in {"apply", "getApplied"} => rec.pc \in NamingCalls
      PROVE  WorkIdentified'
  BY <1>1, <1>4, IdentifiersStay, IdentifiersGoto DEF NamingCalls, WorkIdentified
<1> QED
  BY <1>2, <1>3, <1>4 DEF CreateRule, UpdateRule, ApplyFirewallRules, DeleteRule,
     ApplyDeletion, WriteFails, NamingCalls

\* What the API server stores.
LEMMA IdentifiersStored ==
  ASSUME VarTypes, IdentifiersKnown, \/ AddFinalizer \/ RemoveFinalizer
         \/ SetReadyCondition \/ KubeCallFails \/ UserOrInformerStep,
         NEW c \in CRs, api'[c] # None, api'[c].status.ready = "True"
  PROVE  api'[c].status.uuid # None
<1>1. /\ api \in [CRs -> Objects \union {None}]
      /\ api[c] # None /\ api[c].status.ready = "True" => api[c].status.uuid # None
      /\ rec.status.ready = "True" => rec.status.uuid # None
  BY DEF VarTypes, KubeTypeOK, IdentifiersKnown
<1>2. CASE UNCHANGED api
  BY <1>1, <1>2
<1>3. CASE UserOrInformerStep
  <2>1. CASE \E d \in CRs, s \in Specs : UserCreates(d, s)
    BY <1>1, <2>1 DEF UserCreates, EmptyStatus
  <2>2. CASE \E d \in CRs, s \in Specs : UserEdits(d, s)
    BY <1>1, <2>2 DEF UserEdits, Objects
  <2>3. CASE \E d \in CRs : UserDeletes(d)
    BY <1>1, <2>3 DEF UserDeletes, Objects
  <2> QED
    BY <1>2, <1>3, <2>1, <2>2, <2>3
       DEF UserOrInformerStep, UserStep, WatchEvent, Resync
<1>4. CASE AddFinalizer \/ RemoveFinalizer \/ SetReadyCondition \/ KubeCallFails
  <2>1. rec.pc # "idle"
    BY <1>4 DEF AddFinalizer, RemoveFinalizer, SetReadyCondition, Update, KubeCallFails,
       KubeCalls
  <2>2. WithFinalizer.status = rec.obj.status /\ WithStatus.status = rec.status
    BY <2>1, BusyFields DEF WithFinalizer, WithStatus, Objects
  <2>3. \/ UNCHANGED api
        \/ /\ api[rec.cr] = rec.obj
           /\ \E new \in {WithFinalizer, WithStatus, None} :
                api' = [api EXCEPT ![rec.cr] = new]
    BY <1>4 DEF AddFinalizer, RemoveFinalizer, SetReadyCondition, Update, KubeCallFails,
       Stored, Conflict
  <2>4. rec.obj # None
    BY <2>1, BusyFields, AbsentAssumption
  <2> QED
    BY <1>1, <1>2, <2>1, <2>2, <2>3, <2>4
<1> QED
  BY <1>3, <1>4

\* A request left behind has the identifier its call had.
LEMMA IdentifiersLate ==
  ASSUME IdentifiersKnown, [Next]_vars, NEW r \in late', r.op \in {"update", "delete"}
  PROVE  r.uuid # None
<1>1. CASE r \in late
  BY <1>1 DEF IdentifiersKnown
<1>2. CASE late' = late \union {Request} /\ WriteFails
  <2>1. r = Request => rec.pc \in {"update", "delete"} /\ r.uuid = rec.uuid
    BY DEF Request
  <2> QED
    BY <1>1, <1>2, <2>1 DEF IdentifiersKnown, NamingCalls
<1>3. CASE late' \subseteq late
  BY <1>1, <1>3
<1>4. Calls \/ BuildClientFails \/ ReadFails \/ KubeCallFails \/ Crash => UNCHANGED late
  BY DEF Calls, BuildOPNsenseClient, BuildClientFails, GetRecordedRule, filterVars,
     SearchRuleByManagedSuffix, GetMatchedRule, GetAppliedRule, ReadFails, CreateRule,
     UpdateRule, ApplyFirewallRules, DeleteRule, ApplyDeletion, AddFinalizer,
     RemoveFinalizer, SetReadyCondition, Update, KubeCallFails, Crash
<1>5. WriteFails => UNCHANGED late \/ late' = late \union {Request}
  BY DEF WriteFails, LoseCall
<1>6. (\E c \in CRs : Reconcile(c)) \/ UserOrInformerStep \/ AdminStep \/ LateStep
        => late' \subseteq late
  BY DEF Reconcile, UserOrInformerStep, AdminStep, AdminEdits, AdminDeletes, AdminClones,
     AdminRedescribes, AdminApplies, LateStep, ServeLate, filterVars
<1> QED
  BY <1>2, <1>3, <1>4, <1>5, <1>6 DEF Next, Failures, vars, filterVars

LEMMA IdentifiersInit == Init => IdentifiersKnown
  BY DEF Init, KubeInit, FilterInit, IdentifiersKnown, NamingCalls, Idle, EmptyStatus

LEMMA IdentifiersNext ==
  ASSUME VarTypes, DeletionInv, IdentifiersKnown, [Next]_vars
  PROVE  IdentifiersKnown'
<1>1. WorkIdentified
  BY DEF WorkIdentified, IdentifiersKnown
<1>2. WorkIdentified'
  <2>1. ASSUME NEW c \in CRs, Reconcile(c) PROVE WorkIdentified'
    <3>1. CASE UNCHANGED rec
      BY <1>1, <3>1 DEF WorkIdentified
    <3>2. CASE /\ rec'.pc \in {"buildClient", "addFinalizer", "removeFinalizer"}
               /\ rec'.status = EmptyStatus
      BY <3>2 DEF WorkIdentified, NamingCalls, EmptyStatus
    <3> QED
      BY <2>1, <3>1, <3>2 DEF Reconcile, Idle
  <2>2. CASE UNCHANGED rec
    BY <1>1, <2>2 DEF WorkIdentified
  <2>3. CASE AddFinalizer \/ RemoveFinalizer \/ SetReadyCondition \/ KubeCallFails \/ Crash
    BY <2>3, IdentifiersReturn
       DEF AddFinalizer, RemoveFinalizer, SetReadyCondition, Update, KubeCallFails, Crash, Return
  <2> QED
    BY <1>1, <2>1, <2>2, <2>3, IdentifiersResolve, IdentifiersWrite
       DEF Next, Calls, Failures, UserOrInformerStep, AdminStep, LateStep, vars
<1>3. ASSUME NEW c \in CRs, api'[c] # None, api'[c].status.ready = "True"
      PROVE  api'[c].status.uuid # None
  <2>1. CASE UNCHANGED api
    BY <1>3, <2>1 DEF IdentifiersKnown
  <2>2. CASE \/ AddFinalizer \/ RemoveFinalizer \/ SetReadyCondition \/ KubeCallFails
             \/ UserOrInformerStep
    BY <1>3, <2>2, IdentifiersStored
  <2>3. \/ UNCHANGED api \/ AddFinalizer \/ RemoveFinalizer \/ SetReadyCondition
        \/ KubeCallFails \/ UserOrInformerStep
    BY DEF Next, Calls, Failures, Reconcile, BuildOPNsenseClient, BuildClientFails,
       GetRecordedRule, SearchRuleByManagedSuffix, GetMatchedRule, GetAppliedRule, ReadFails,
       CreateRule, UpdateRule, ApplyFirewallRules, DeleteRule, ApplyDeletion, WriteFails,
       Crash, Relist, AdminStep, LateStep, vars, kubeVars
  <2> QED
    BY <2>1, <2>2, <2>3
<1>4. \A r \in late' : r.op \in {"update", "delete"} => r.uuid # None
  BY IdentifiersLate
<1> QED
  BY <1>2, <1>3, <1>4 DEF IdentifiersKnown, WorkIdentified

\* Every reachable state of the controller, its API server and the firewall is well
\* formed, and no request about a rule, no request still in flight and no Ready status
\* lacks the identifier it needs, for any resources, identifiers, specs and bounds.
THEOREM TypeCorrect == Spec => []TypeOK
<1>1. Init => VarTypes /\ DeletionInv /\ IdentifiersKnown
  BY TypeInit, DeletionInit, IdentifiersInit
<1>2. VarTypes /\ DeletionInv /\ IdentifiersKnown /\ [Next]_vars
        => VarTypes' /\ DeletionInv' /\ IdentifiersKnown'
  BY TypeNext, DeletionNext, IdentifiersNext
<1>3. VarTypes /\ IdentifiersKnown => TypeOK
  BY DEF TypeOK
<1> QED
  BY <1>1, <1>2, <1>3, PTL DEF Spec

----------------------------------------------------------------------------
\* What the mapping needs to know of a reconcile beside VarTypes and DeletionInv:
\* which paths a marked object may be on, and that only a reconcile of an object
\* that is not marked records another UUID.
PathInv ==
  /\ rec.pc = "addFinalizer" => ~ rec.obj.deleting /\ ~ rec.obj.finalizer
  /\ rec.pc \in {"delete", "applyDelete", "removeFinalizer"} => rec.obj.deleting
  /\ rec.pc \notin {"idle", "buildClient", "delete", "applyDelete", "removeFinalizer",
                    "setStatus"} => ~ rec.obj.deleting
  /\ rec.pc = "setStatus" =>
       \/ rec.status.uuid = rec.obj.status.uuid
       \/ rec.status.uuid \in UUIDs /\ ~ rec.obj.deleting

LEMMA PathInit == Init => PathInv
  BY DEF Init, Idle, PathInv

\* A reconcile that returns is on no path.
LEMMA PathReturns ==
  ASSUME rec' = Idle
  PROVE  PathInv'
  BY DEF PathInv, Idle

\* A failure is reported without touching the recorded UUID.
LEMMA PathFailed ==
  ASSUME VarTypes, rec.pc # "idle", SetReadyFailed
  PROVE  PathInv'
<1>1. rec'.pc = "setStatus" /\ rec'.obj = rec.obj
  BY BusyFields DEF SetReadyFailed, Busy
<1>2. rec'.status.uuid = rec.obj.status.uuid
  BY BusyFields DEF SetReadyFailed, Busy, Statuses
<1> QED
  BY <1>1, <1>2 DEF PathInv

\* Success is reported of objects that are not marked.
LEMMA PathSuccess ==
  ASSUME VarTypes, rec.pc # "idle", ~ rec.obj.deleting,
         NEW u \in UUIDs, NEW s, SetReadySuccess(u, s)
  PROVE  PathInv'
<1>1. rec'.pc = "setStatus" /\ rec'.obj = rec.obj /\ rec'.status.uuid = u
  BY BusyFields DEF SetReadySuccess, Success, Busy
<1> QED
  BY <1>1 DEF PathInv

\* A reconcile of an object that is not marked goes on to any call but those of
\* the other paths.
LEMMA PathGoesOn ==
  ASSUME VarTypes, rec.pc # "idle", ~ rec.obj.deleting, rec'.obj = rec.obj,
         rec'.pc \notin {"addFinalizer", "delete", "applyDelete", "removeFinalizer",
                         "setStatus"}
  PROVE  PathInv'
  BY DEF PathInv

LEMMA PathReconcile ==
  ASSUME VarTypes, PathInv, NEW c \in CRs, Reconcile(c)
  PROVE  PathInv'
<1>1. CASE UNCHANGED rec
  BY <1>1 DEF PathInv
<1>2. CASE /\ cache[c] # None
           /\ \E pc \in {"removeFinalizer", "buildClient", "addFinalizer"} :
                /\ rec' = [Idle EXCEPT !.pc = pc, !.cr = c, !.obj = cache[c]]
                /\ pc = "removeFinalizer" => cache[c].deleting
                /\ pc = "addFinalizer" => ~ cache[c].deleting /\ ~ cache[c].finalizer
  <2>1. PICK pc \in {"removeFinalizer", "buildClient", "addFinalizer"} :
          /\ rec' = [Idle EXCEPT !.pc = pc, !.cr = c, !.obj = cache[c]]
          /\ pc = "removeFinalizer" => cache[c].deleting
          /\ pc = "addFinalizer" => ~ cache[c].deleting /\ ~ cache[c].finalizer
    BY <1>2
  <2>2. rec'.pc = pc /\ rec'.obj = cache[c]
    BY <2>1 DEF Idle
  <2> QED
    BY <2>1, <2>2 DEF PathInv
<1> QED
  BY <1>1, <1>2 DEF Reconcile

\* The decision on a rule that was found.
LEMMA PathFound ==
  ASSUME VarTypes, rec.pc # "idle", ~ rec.obj.deleting, NEW u \in UUIDs, Found(u)
  PROVE  PathInv'
<1>1. CASE rec' = [rec EXCEPT !.pc = "update", !.uuid = u]
  BY <1>1, BusyFields, PathGoesOn DEF Busy
<1>2. CASE Return(FALSE)
  BY <1>2, PathReturns DEF Return
<1>3. CASE SetReadySuccess(u, staged[u].seq)
  BY <1>3, PathSuccess
<1> QED
  BY <1>1, <1>2, <1>3 DEF Found

LEMMA PathResolve ==
  ASSUME VarTypes, PathInv,
         \/ BuildOPNsenseClient \/ BuildClientFails \/ GetRecordedRule
         \/ SearchRuleByManagedSuffix \/ GetMatchedRule \/ GetAppliedRule \/ ReadFails
  PROVE  PathInv'
<1> USE DEF ReadCalls, WriteCalls, KubeCalls
<1>1. rec.pc # "idle"
  BY DEF BuildOPNsenseClient, BuildClientFails, GetRecordedRule,
         SearchRuleByManagedSuffix, GetMatchedRule, GetAppliedRule, ReadFails
<1>2. CASE SetReadyFailed
  BY <1>1, <1>2, PathFailed
<1>3. CASE BuildOPNsenseClient
  <2>1. CASE rec.obj.deleting
    <3>1. rec'.pc = "delete" /\ rec'.obj = rec.obj
      BY <1>1, <1>3, <2>1, BusyFields DEF BuildOPNsenseClient, Busy
    <3> QED
      BY <2>1, <3>1 DEF PathInv
  <2>2. CASE ~ rec.obj.deleting
    <3>1. rec'.pc \in {"getRecorded", "search"} /\ rec'.obj = rec.obj
      BY <1>1, <1>3, <2>2, BusyFields DEF BuildOPNsenseClient, Busy
    <3> QED
      BY <1>1, <2>2, <3>1, PathGoesOn
  <2> QED
    BY <2>1, <2>2
<1>4. CASE GetRecordedRule \/ SearchRuleByManagedSuffix \/ GetMatchedRule \/ GetAppliedRule
  <2>1. ~ rec.obj.deleting
    BY <1>4 DEF PathInv, GetRecordedRule, SearchRuleByManagedSuffix, GetMatchedRule,
                GetAppliedRule
  <2>2. CASE \E u \in UUIDs : Found(u)
    BY <1>1, <2>1, <2>2, PathFound
  <2>3. CASE \E pc \in {"search", "create"} : rec' = [rec EXCEPT !.pc = pc]
    BY <1>1, <2>1, <2>3, BusyFields, PathGoesOn DEF Busy
  <2>4. CASE \E u : rec' = [rec EXCEPT !.pc = "getMatch", !.uuid = u]
    BY <1>1, <2>1, <2>4, BusyFields, PathGoesOn DEF Busy
  <2>5. CASE \E s : \E u \in UUIDs : SetReadySuccess(u, s)
    BY <1>1, <2>1, <2>5, PathSuccess
  <2>6. /\ Present(rec.uuid) => rec.uuid \in UUIDs
        /\ Present(rec.obj.status.uuid) => rec.obj.status.uuid \in UUIDs
    BY <1>1, BusyFields DEF Present
  <2> QED
    BY <1>2, <1>4, <2>2, <2>3, <2>4, <2>5, <2>6
       DEF GetRecordedRule, SearchRuleByManagedSuffix, GetMatchedRule, GetAppliedRule
<1> QED
  BY <1>2, <1>3, <1>4 DEF BuildClientFails, ReadFails

LEMMA PathWrite ==
  ASSUME VarTypes, PathInv,
         \/ CreateRule \/ UpdateRule \/ ApplyFirewallRules \/ DeleteRule
         \/ ApplyDeletion \/ WriteFails
  PROVE  PathInv'
<1> USE DEF WriteCalls
<1>1. rec.pc # "idle"
  BY DEF CreateRule, UpdateRule, ApplyFirewallRules, DeleteRule, ApplyDeletion, WriteFails
<1>2. CASE SetReadyFailed
  BY <1>1, <1>2, PathFailed
<1>3. CASE CreateRule \/ UpdateRule \/ ApplyFirewallRules
  <2>1. ~ rec.obj.deleting
    BY <1>3 DEF PathInv, CreateRule, UpdateRule, ApplyFirewallRules
  <2>2. CASE \E u : rec' = [rec EXCEPT !.pc = "apply", !.uuid = u]
    BY <1>1, <2>1, <2>2, BusyFields, PathGoesOn DEF Busy
  <2>3. CASE \E pc \in {"apply", "getApplied"} : rec' = [rec EXCEPT !.pc = pc]
    BY <1>1, <2>1, <2>3, BusyFields, PathGoesOn DEF Busy
  <2> QED
    BY <1>2, <1>3, <2>2, <2>3 DEF CreateRule, UpdateRule, ApplyFirewallRules
<1>4. CASE DeleteRule \/ ApplyDeletion
  <2>1. rec'.obj = rec.obj /\ rec'.pc \in {"applyDelete", "removeFinalizer"}
    BY <1>1, <1>4, BusyFields DEF DeleteRule, ApplyDeletion, Busy
  <2> QED
    BY <1>4, <2>1 DEF PathInv, DeleteRule, ApplyDeletion
<1> QED
  BY <1>2, <1>3, <1>4 DEF WriteFails

LEMMA PathNext == VarTypes /\ PathInv /\ [Next]_vars => PathInv'
<1> SUFFICES ASSUME VarTypes, PathInv, [Next]_vars PROVE PathInv'
  OBVIOUS
<1>1. CASE \E c \in CRs : Reconcile(c)
  BY <1>1, PathReconcile
<1>2. CASE AddFinalizer \/ RemoveFinalizer \/ SetReadyCondition \/ KubeCallFails \/ Crash
  BY <1>2, PathReturns
     DEF AddFinalizer, RemoveFinalizer, SetReadyCondition, Update, KubeCallFails, Return, Crash
<1>3. CASE UNCHANGED rec
  BY <1>3 DEF PathInv
<1> QED
  BY <1>1, <1>2, <1>3, PathResolve, PathWrite
     DEF Next, Calls, Failures, UserOrInformerStep, AdminStep, LateStep, vars

----------------------------------------------------------------------------
\* The mapping.  Managed sees objects as this function of the stored ones.

Object == [c \in CRs |-> Abstract(api[c])]

\* A write of one object is seen as a write of one object.
LEMMA MappedWrite ==
  ASSUME VarTypes, NEW c \in CRs, NEW o, api' = [api EXCEPT ![c] = o]
  PROVE  Object' = [Object EXCEPT ![c] = Abstract(o)]
<1>1. api \in [CRs -> Objects \union {None}]
  BY DEF VarTypes, KubeTypeOK
<1>2. ASSUME NEW d \in CRs PROVE api'[d] = IF d = c THEN o ELSE api[d]
  BY <1>1
<1>3. Object' = [d \in CRs |-> Abstract(api'[d])]
  BY DEF Object, Abstract
<1>4. ASSUME NEW d \in CRs
      PROVE  Abstract(api'[d]) = IF d = c THEN Abstract(o) ELSE Abstract(api[d])
  BY <1>2, <1>4
<1> QED
  BY <1>3, <1>4 DEF Object

\* What Managed sees of a resource that exists.
LEMMA MappedAbsent ==
  ASSUME VarTypes, NEW c \in CRs, api[c] = None
  PROVE  Object[c] = None
  BY DEF Object, Abstract

LEMMA MappedObject ==
  ASSUME VarTypes, NEW c \in CRs, api[c] # None
  PROVE  /\ Object[c] # None
         /\ Object[c] = [guarded |-> api[c].finalizer, deleting |-> api[c].deleting,
                         uuid |-> api[c].status.uuid]
         /\ Object[c].guarded = api[c].finalizer
         /\ Object[c].deleting = api[c].deleting
         /\ Object[c].uuid = api[c].status.uuid
<1>1. api[c] \in Objects
  BY DEF VarTypes, KubeTypeOK
<1>2. Abstract(api[c]) = [guarded |-> api[c].finalizer, deleting |-> api[c].deleting,
                          uuid |-> api[c].status.uuid]
  BY DEF Abstract
<1>3. Abstract(api[c]) \in [guarded: BOOLEAN, deleting: BOOLEAN, uuid: UUIDs \union {None}]
  BY <1>1, <1>2 DEF Objects, Statuses
<1>4. Object[c] = Abstract(api[c])
  BY DEF Object
<1> QED
  BY <1>2, <1>3, <1>4, AbstractAssumption

----------------------------------------------------------------------------
\* The steps.

\* A step that leaves the objects alone keeps rules known or forgets them; at most
\* one identifier comes to life, and no object has recorded it.
LiveChanges ==
  \/ Live' \subseteq Live
  \/ \E u \in UUIDs : Fresh(u) /\ Live' \subseteq Live \union {u}

\* Serving a request, on time or late.
LEMMA LiveServe ==
  ASSUME VarTypes, NEW r, NEW u \in UUIDs, r.op = "create" => Fresh(u), Serve(r, u)
  PROVE  LiveChanges
<1>1. /\ staged \in [UUIDs -> Rules \union {None}]
      /\ running \in [UUIDs -> Rules \union {None}]
  BY DEF VarTypes, FilterTypeOK
<1>2. CASE r.op = "create" /\ AddRule(u, r.rule)
  BY <1>1, <1>2 DEF AddRule, Live, LiveChanges
<1>3. CASE SetRule(r.uuid, r.rule)
  BY <1>1, <1>3 DEF SetRule, Present, Live, LiveChanges
<1>4. CASE DelRule(r.uuid)
  BY <1>1, <1>4 DEF DelRule, Live, LiveChanges
<1>5. CASE Apply
  BY <1>1, <1>5 DEF Apply, Live, LiveChanges
<1> QED
  BY <1>2, <1>3, <1>4, <1>5 DEF Serve

LEMMA LiveCalls ==
  ASSUME VarTypes, [Next]_vars
  PROVE  LiveChanges
<1>1. /\ staged \in [UUIDs -> Rules \union {None}]
      /\ running \in [UUIDs -> Rules \union {None}]
  BY DEF VarTypes, FilterTypeOK
<1>2. CASE UNCHANGED <<staged, running>>
  BY <1>2 DEF Live, LiveChanges
<1>3. CASE CreateRule \/ UpdateRule \/ ApplyFirewallRules \/ DeleteRule \/ ApplyDeletion
  BY <1>1, <1>2, <1>3
     DEF CreateRule, UpdateRule, ApplyFirewallRules, DeleteRule, ApplyDeletion, AddRule,
         SetRule, DelRule, Apply, Present, Live, LiveChanges
<1>4. CASE WriteFails
  <2>1. PICK u \in UUIDs : (rec.pc = "create" => Fresh(u)) /\ LoseCall(Request, u)
    BY <1>4 DEF WriteFails
  <2>2. Request.op = "create" => Fresh(u)
    BY <2>1 DEF Request
  <2> QED
    BY <1>2, <2>1, <2>2, LiveServe DEF LoseCall
<1>5. CASE AdminStep
  BY <1>1, <1>5
     DEF AdminStep, AdminEdits, AdminDeletes, AdminClones, AdminRedescribes, AdminApplies,
         Present, DelRule, Apply, Live, LiveChanges
<1>6. CASE LateStep
  <2>1. PICK r \in late, u \in UUIDs : (r.op = "create" => Fresh(u)) /\ ServeLate(r, u)
    BY <1>6 DEF LateStep
  <2> QED
    BY <1>2, <2>1, LiveServe DEF ServeLate
<1> QED
  BY <1>2, <1>3, <1>4, <1>5, <1>6
     DEF Next, Reconcile, Calls, Failures, Crash, UserOrInformerStep, BuildOPNsenseClient,
         BuildClientFails, GetRecordedRule, SearchRuleByManagedSuffix, GetMatchedRule,
         GetAppliedRule, ReadFails, AddFinalizer, RemoveFinalizer, SetReadyCondition, Update,
         KubeCallFails, vars, filterVars

\* Seen from Managed, a step that leaves the objects alone is one of the firewall.
LEMMA MappedFirewall ==
  ASSUME VarTypes, [Next]_vars, UNCHANGED api
  PROVE  Managed!FirewallChanges
<1>1. Object' = Object
  BY DEF Object, Abstract
<1>2. CASE Live' \subseteq Live
  <2>1. Live' \subseteq Live \union {} /\ {} \in SUBSET UUIDs
    BY <1>2
  <2> QED
    BY <1>1, <2>1 DEF Managed!FirewallChanges, Object
<1>3. CASE \E u \in UUIDs : Fresh(u) /\ Live' \subseteq Live \union {u}
  <2>1. PICK u \in UUIDs : Fresh(u) /\ Live' \subseteq Live \union {u}
    BY <1>3
  <2>2. ASSUME NEW c \in CRs, api[c] # None PROVE Object[c].uuid # u
    <3>1. UuidOf(api[c]) # u
      BY <2>1 DEF Fresh, Refers
    <3>2. Object[c].uuid = api[c].status.uuid
      BY <2>2, MappedObject
    <3> QED
      BY <2>2, <3>1, <3>2 DEF UuidOf
  <2>3. \A c \in CRs : Object[c] # None => Object[c].uuid # u
    BY <2>2, MappedAbsent
  <2>4. {u} \in SUBSET UUIDs /\ \A v, w \in {u} : v = w
    OBVIOUS
  <2>5. \A v \in {u}, c \in CRs : Managed!Exists(c) => Object[c].uuid # v
    BY <2>3 DEF Managed!Exists, Object
  <2> QED
    BY <1>1, <2>1, <2>4, <2>5 DEF Managed!FirewallChanges, Object
<1> QED
  BY <1>2, <1>3, LiveCalls DEF LiveChanges

\* Users: what they declare, withdraw or condemn; an edit is not seen.
LEMMA MappedUser ==
  ASSUME VarTypes, UserStep, UNCHANGED Live
  PROVE  \/ \E c \in CRs : Managed!Declare(c) \/ Managed!Withdraw(c) \/ Managed!Condemn(c)
         \/ UNCHANGED Object
<1>1. api \in [CRs -> Objects \union {None}]
  BY DEF VarTypes, KubeTypeOK
<1>2. ASSUME NEW c \in CRs, NEW s \in Specs, UserCreates(c, s) PROVE Managed!Declare(c)
  <2> DEFINE new == [gen |-> 1, spec |-> s, deleting |-> FALSE, finalizer |-> FALSE,
                     status |-> EmptyStatus]
  <2>1. api[c] = None /\ api' = [api EXCEPT ![c] = new]
    BY <1>2 DEF UserCreates
  <2>2. new \in Objects
    BY TypeUserObjects
  <2>3. Abstract(new) = [guarded |-> FALSE, deleting |-> FALSE, uuid |-> None]
    BY <2>2, AbsentAssumption DEF Abstract, EmptyStatus
  <2> HIDE DEF new
  <2>4. Object' = [Object EXCEPT ![c] = [guarded |-> FALSE, deleting |-> FALSE, uuid |-> None]]
    BY <2>1, <2>3, MappedWrite
  <2>5. Object[c] = None
    BY <2>1, MappedAbsent
  <2> QED
    BY <2>4, <2>5 DEF Managed!Declare, Managed!Exists, Managed!Becomes, Object
<1>3. ASSUME NEW c \in CRs, NEW s \in Specs, UserEdits(c, s) PROVE UNCHANGED Object
  <2> DEFINE new == [api[c] EXCEPT !.spec = s, !.gen = api[c].gen + 1]
  <2>1. api[c] \in Objects /\ api' = [api EXCEPT ![c] = new]
    BY <1>1, <1>3 DEF UserEdits
  <2>2. new \in Objects
    BY <2>1, TypeUserObjects
  <2>3. /\ new.finalizer = api[c].finalizer /\ new.deleting = api[c].deleting
        /\ new.status = api[c].status
    BY <2>1 DEF Objects
  <2> HIDE DEF new
  <2>4. Abstract(new) = Abstract(api[c])
    BY <2>1, <2>2, <2>3, AbsentAssumption DEF Abstract
  <2> QED
    BY <2>1, <2>4, MappedWrite DEF Object
<1>4. ASSUME NEW c \in CRs, UserDeletes(c)
      PROVE  Managed!Withdraw(c) \/ Managed!Condemn(c)
  <2>1. api[c] \in Objects
    BY <1>1, <1>4 DEF UserDeletes
  <2>2. /\ Object[c] # None
        /\ Object[c] = [guarded |-> api[c].finalizer, deleting |-> api[c].deleting,
                        uuid |-> api[c].status.uuid]
    BY <1>4, MappedObject DEF UserDeletes
  <2>3. CASE ~ api[c].finalizer
    <3>1. Object' = [Object EXCEPT ![c] = None]
      BY <1>4, <2>3, MappedWrite DEF UserDeletes, Abstract
    <3> QED
      BY <2>2, <2>3, <3>1 DEF Managed!Withdraw, Managed!Exists, Managed!Becomes, Object
  <2>4. CASE api[c].finalizer
    <3> DEFINE new == [api[c] EXCEPT !.deleting = TRUE]
    <3>1. api' = [api EXCEPT ![c] = new]
      BY <1>4, <2>4 DEF UserDeletes
    <3>2. api[c].spec \in Specs
      BY <2>1 DEF Objects
    <3>3. new \in Objects
      BY <2>1, <3>2, TypeUserObjects
    <3>4. new.finalizer /\ new.deleting /\ new.status = api[c].status
      BY <2>1, <2>4 DEF Objects
    <3>5. new.finalizer = TRUE /\ new.deleting = TRUE
      BY <3>3, <3>4 DEF Objects
    <3> HIDE DEF new
    <3>6. Abstract(new) = [guarded |-> TRUE, deleting |-> TRUE, uuid |-> Object[c].uuid]
      BY <2>2, <3>3, <3>4, <3>5, AbsentAssumption DEF Abstract
    <3>7. Object' = [Object EXCEPT ![c] =
                       [guarded |-> TRUE, deleting |-> TRUE, uuid |-> Object[c].uuid]]
      BY <3>1, <3>6, MappedWrite
    <3> QED
      BY <2>2, <2>4, <3>7 DEF Managed!Condemn, Managed!Exists, Managed!Becomes, Object
  <2> QED
    BY <2>3, <2>4
<1> QED
  BY <1>2, <1>3, <1>4 DEF UserStep

\* The three writes of the controller.
LEMMA MappedGuard ==
  ASSUME VarTypes, DeletionInv, PathInv, rec.pc = "addFinalizer", UNCHANGED Live,
         Stored(rec.cr, rec.obj, WithFinalizer)
  PROVE  Managed!Guard(rec.cr)
<1>1. rec.pc # "idle" /\ rec.cr \in CRs /\ rec.obj \in Objects
  BY BusyFields
<1>2. /\ api[rec.cr] = rec.obj /\ api[rec.cr] # None
      /\ api' = [api EXCEPT ![rec.cr] = WithFinalizer]
  BY <1>1, AbsentAssumption DEF Stored
<1>3. ~ rec.obj.finalizer /\ ~ rec.obj.deleting /\ rec.obj.status.uuid = None
  BY <1>1, <1>2 DEF PathInv, DeletionInv
<1>4. /\ WithFinalizer \in Objects
      /\ WithFinalizer.finalizer = TRUE /\ WithFinalizer.deleting = rec.obj.deleting
      /\ WithFinalizer.status = rec.obj.status
  BY <1>1, TypeWritten DEF WithFinalizer, Objects
<1>5. WithFinalizer.deleting = FALSE
  BY <1>1, <1>3, <1>4 DEF Objects
<1>6. Abstract(WithFinalizer) = [guarded |-> TRUE, deleting |-> FALSE, uuid |-> None]
  BY <1>3, <1>4, <1>5, AbsentAssumption DEF Abstract
<1>7. Object' = [Object EXCEPT ![rec.cr] = [guarded |-> TRUE, deleting |-> FALSE, uuid |-> None]]
  BY <1>1, <1>2, <1>6, MappedWrite
<1>8. Object[rec.cr] # None /\ ~ Object[rec.cr].guarded
  BY <1>1, <1>2, <1>3, MappedObject
<1> QED
  BY <1>7, <1>8 DEF Managed!Guard, Managed!Exists, Managed!Becomes, Object

LEMMA MappedRecord ==
  ASSUME VarTypes, DeletionInv, PathInv, rec.pc = "setStatus", UNCHANGED Live,
         Stored(rec.cr, rec.obj, WithStatus)
  PROVE  \/ \E u \in UUIDs : Managed!Record(rec.cr, u)
         \/ UNCHANGED Object
<1>1. /\ rec.pc # "idle" /\ rec.cr \in CRs /\ rec.obj \in Objects
      /\ rec.status \in Statuses
  BY BusyFields
<1>2. /\ api[rec.cr] = rec.obj /\ api[rec.cr] # None
      /\ api' = [api EXCEPT ![rec.cr] = WithStatus]
  BY <1>1, AbsentAssumption DEF Stored
<1>3. rec.obj.finalizer = TRUE
  BY <1>1 DEF DeletionInv, Objects
<1>4. /\ WithStatus \in Objects
      /\ WithStatus.finalizer = rec.obj.finalizer /\ WithStatus.deleting = rec.obj.deleting
      /\ WithStatus.status = rec.status
  BY <1>1, TypeWritten DEF WithStatus, Objects
<1>5. Abstract(WithStatus) = [guarded |-> TRUE, deleting |-> rec.obj.deleting,
                              uuid |-> rec.status.uuid]
  BY <1>3, <1>4, AbsentAssumption DEF Abstract
<1>6. Object' = [Object EXCEPT ![rec.cr] =
                   [guarded |-> TRUE, deleting |-> rec.obj.deleting, uuid |-> rec.status.uuid]]
  BY <1>1, <1>2, <1>5, MappedWrite
<1>7. /\ Object[rec.cr] # None
      /\ Object[rec.cr] = [guarded |-> TRUE, deleting |-> rec.obj.deleting,
                           uuid |-> rec.obj.status.uuid]
      /\ Object[rec.cr].guarded = TRUE
      /\ Object[rec.cr].deleting = rec.obj.deleting
  BY <1>1, <1>2, <1>3, MappedObject
<1>8. CASE rec.status.uuid = rec.obj.status.uuid
  BY <1>6, <1>7, <1>8 DEF Object
<1>9. CASE rec.status.uuid \in UUIDs /\ ~ rec.obj.deleting
  <2>1. rec.obj.deleting = FALSE
    BY <1>1, <1>9 DEF Objects
  <2> QED
    BY <1>6, <1>7, <1>9, <2>1
       DEF Managed!Record, Managed!Exists, Managed!Becomes, Object
<1> QED
  BY <1>8, <1>9 DEF PathInv

LEMMA MappedRelease ==
  ASSUME VarTypes, DeletionInv, PathInv, rec.pc = "removeFinalizer", UNCHANGED Live,
         Stored(rec.cr, rec.obj, None)
  PROVE  Managed!Release(rec.cr)
<1>1. rec.pc # "idle" /\ rec.cr \in CRs /\ rec.obj \in Objects
  BY BusyFields
<1>2. /\ api[rec.cr] = rec.obj /\ api[rec.cr] # None
      /\ api' = [api EXCEPT ![rec.cr] = None]
  BY <1>1, AbsentAssumption DEF Stored
<1>3. rec.obj.finalizer /\ rec.obj.deleting /\ rec.obj.status.uuid \notin Live
  BY NoneAssumption DEF DeletionInv, PathInv, Live
<1>4. Object' = [Object EXCEPT ![rec.cr] = None]
  BY <1>1, <1>2, MappedWrite DEF Abstract
<1>5. /\ Object[rec.cr] # None /\ Object[rec.cr].guarded /\ Object[rec.cr].deleting
      /\ Object[rec.cr].uuid \notin Live
  BY <1>1, <1>2, <1>3, MappedObject
<1> QED
  BY <1>4, <1>5 DEF Managed!Release, Managed!Exists, Managed!Becomes, Object

----------------------------------------------------------------------------
\* The refinement.

\* A step that touches the objects is one of a user, or one write of the controller.
LEMMA ObjectSteps ==
  ASSUME [Next]_vars, api' # api
  PROVE  /\ UNCHANGED <<staged, running>>
         /\ \/ UserStep
            \/ rec.pc = "addFinalizer" /\ Stored(rec.cr, rec.obj, WithFinalizer)
            \/ rec.pc = "setStatus" /\ Stored(rec.cr, rec.obj, WithStatus)
            \/ rec.pc = "removeFinalizer" /\ Stored(rec.cr, rec.obj, None)
<1>1. CASE UserOrInformerStep
  BY <1>1 DEF UserOrInformerStep, WatchEvent, Resync, filterVars
<1>2. CASE AddFinalizer \/ RemoveFinalizer \/ SetReadyCondition \/ KubeCallFails
  BY <1>2 DEF AddFinalizer, RemoveFinalizer, SetReadyCondition, Update, KubeCallFails,
              Conflict, filterVars
<1> QED
  BY <1>1, <1>2
     DEF Next, Reconcile, Calls, Failures, Crash, Relist, AdminStep, LateStep,
         BuildOPNsenseClient, BuildClientFails, GetRecordedRule, SearchRuleByManagedSuffix,
         GetMatchedRule, GetAppliedRule, ReadFails, CreateRule, UpdateRule,
         ApplyFirewallRules, DeleteRule, ApplyDeletion, WriteFails, vars, kubeVars

LEMMA MappedInit == Init => Managed!Init
<1> SUFFICES ASSUME Init PROVE Managed!Init
  OBVIOUS
<1>1. [c \in CRs |-> Abstract(api[c])] = [c \in CRs |-> None]
  BY DEF Init, KubeInit, Abstract
<1>2. Live = {}
  BY DEF Init, FilterInit, Live
<1> QED
  BY <1>1, <1>2 DEF Managed!Init

LEMMA MappedNext ==
  ASSUME VarTypes, DeletionInv, PathInv, [Next]_vars
  PROVE  Managed!Next \/ UNCHANGED <<Object, Live>>
<1>1. CASE UNCHANGED api
  BY <1>1, MappedFirewall DEF Managed!Next
<1>2. CASE api' # api
  <2>1. UNCHANGED Live
    BY <1>2, ObjectSteps DEF Live
  <2>2. CASE UserStep
    BY <2>1, <2>2, MappedUser DEF Managed!Next
  <2>3. CASE rec.pc = "addFinalizer" /\ Stored(rec.cr, rec.obj, WithFinalizer)
    BY <2>1, <2>3, MappedGuard, BusyFields DEF Managed!Next
  <2>4. CASE rec.pc = "setStatus" /\ Stored(rec.cr, rec.obj, WithStatus)
    BY <2>1, <2>4, MappedRecord, BusyFields DEF Managed!Next
  <2>5. CASE rec.pc = "removeFinalizer" /\ Stored(rec.cr, rec.obj, None)
    BY <2>1, <2>5, MappedRelease, BusyFields DEF Managed!Next
  <2> QED
    BY <1>2, <2>2, <2>3, <2>4, <2>5, ObjectSteps
<1> QED
  BY <1>1, <1>2

\* Every behaviour of the controller, its users, the administrator and the network,
\* seen through the mapping, is one of ManagedResource: guarded before recorded,
\* recorded for good, released only when the recorded rule is gone.
THEOREM RefinementCorrect == Spec => Implements
<1>1. Init => VarTypes /\ DeletionInv /\ PathInv
  BY TypeInit, DeletionInit, PathInit
<1>2. VarTypes /\ DeletionInv /\ PathInv /\ [Next]_vars =>
        VarTypes' /\ DeletionInv' /\ PathInv'
  BY TypeNext, DeletionNext, PathNext
<1>3. Init => Managed!Init
  BY MappedInit
<1>4. VarTypes /\ DeletionInv /\ PathInv /\ [Next]_vars =>
        [Managed!Next]_<<[c \in CRs |-> Abstract(api[c])], Live>>
  BY MappedNext DEF Object
<1> QED
  BY <1>1, <1>2, <1>3, <1>4, PTL DEF Spec, Implements, Managed!Spec
=============================================================================

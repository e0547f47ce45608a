----------------------------- MODULE AliasTruth -----------------------------
(***************************************************************************)
(* Theorems about Alias for resources that keep their names: an alias is   *)
(* written only for a resource that names it; and, as long as nobody else  *)
(* writes the aliases of a resource and descriptions are not removed, a    *)
(* resource that reports Ready for its current generation has in the       *)
(* configuration exactly the alias it describes, although every reconcile  *)
(* works on a copy that may be stale.                                      *)
(***************************************************************************)
EXTENDS AliasProofs

\* Users do not rename: aliasNeedsUpdate does not compare names.
NamesKept == \A c \in CRs : \A s, t \in SpecsOf[c] : s.name = t.name

\* No two resources ask for the same alias.
NamesApart ==
  \A c, d \in CRs : \A s \in SpecsOf[c], t \in SpecsOf[d] : s.name = t.name => c = d

\* Users do not remove descriptions: encodeAlias leaves an empty one out.
DescriptionsKept ==
  \A c \in CRs : \A s, t \in SpecsOf[c] : s.desc = None => t.desc = None

\* The administrator adds aliases and applies, but leaves existing ones alone.
NobodyElseWrites == AdminOps \subseteq {"add", "apply"}

----------------------------------------------------------------------------
\* Naming.

\* Where an identifier may be recorded, remembered or resolved for resource c.
Refers(c, u) ==
  \/ UuidOf(api[c]) = u \/ UuidOf(cache[c]) = u
  \/ rec.cr = c /\ u \in {rec.uuid, UuidOf(rec.obj)}

\* Copies hold specs of their resource; what a status update reports was resolved
\* or recorded; and an identifier a resource refers to, as long as there is an alias
\* under it, is that of an alias with the resource's name.
NamingInv ==
  /\ \A c \in CRs : /\ api[c] # None => api[c].spec \in SpecsOf[c]
                    /\ cache[c] # None => cache[c].spec \in SpecsOf[c]
  /\ rec.pc # "idle" => rec.obj.spec \in SpecsOf[rec.cr]
  /\ rec.pc = "setStatus" => rec.status.uuid \in {None, rec.uuid, rec.obj.status.uuid}
  /\ \A c \in CRs, u \in UUIDs :
       Refers(c, u) /\ staged[u] # None => \A s \in SpecsOf[c] : staged[u].name = s.name

LEMMA NamingInit == Init => NamingInv
  BY AliasNoneAssumption DEF Init, KubeInit, AliasInit, Idle, NamingInv

\* How far a call to the firewall moves the reconcile: its resource and its copy
\* stay, and it turns to another identifier only when it looked one up by name or
\* created it.
NextUuid ==
  \/ rec'.uuid \in {None, rec.uuid, rec.obj.status.uuid}
  \/ UNCHANGED staged /\ rec'.uuid \in Named(rec.obj.spec.name)
  \/ rec'.uuid \in UUIDs /\ AddItem(rec'.uuid, Desired)

Continues ==
  /\ rec'.cr = rec.cr /\ rec'.obj = rec.obj /\ rec'.pc \notin {"idle", "addFinalizer"}
  /\ NextUuid
  /\ rec'.pc = "setStatus" => rec'.status.uuid \in {None, rec'.uuid, rec.obj.status.uuid}

LEMMA FailedContinues ==
  ASSUME VarTypes, rec.pc # "idle", SetReadyFailed
  PROVE  Continues
<1>1. rec \in Busy
  BY BusyFields
<1>2. /\ rec'.pc = "setStatus" /\ rec'.obj = rec.obj /\ rec'.cr = rec.cr
      /\ rec'.uuid = rec.uuid
  BY <1>1 DEF SetReadyFailed, Busy
<1>3. rec'.status.uuid = rec.obj.status.uuid
  BY BusyFields DEF SetReadyFailed, Busy, Statuses
<1> QED
  BY <1>2, <1>3 DEF Continues, NextUuid

LEMMA SuccessContinues ==
  ASSUME VarTypes, rec.pc # "idle", NEW u \in {rec.uuid, rec.obj.status.uuid},
         SetReadySuccess(u)
  PROVE  Continues
<1>1. rec \in Busy
  BY BusyFields
<1>2. /\ rec'.pc = "setStatus" /\ rec'.obj = rec.obj /\ rec'.cr = rec.cr
      /\ rec'.uuid = rec.uuid /\ rec'.status.uuid = u
  BY <1>1 DEF SetReadySuccess, Success, Busy
<1> QED
  BY <1>2 DEF Continues, NextUuid

LEMMA RemoteContinues ==
  ASSUME VarTypes, RemoteSteps
  PROVE  /\ rec.pc \notin {"idle", "addFinalizer", "setStatus"}
         /\ UNCHANGED <<api, cache>> /\ (rec' = Idle \/ Continues)
<1> USE DEF ReadCalls, WriteCalls
<1>1. rec.pc \notin {"idle", "addFinalizer", "setStatus"}
  BY DEF RemoteSteps, BuildOPNsenseClient, GetRecordedAlias, GetAliasUUIDByName,
         GetMatchedAlias, CreateAlias, UpdateAlias, ReconfigureAliases, DeleteAlias,
         ReconfigureDeletion, BuildClientFails, ReadFails, WriteFails
<1>2. rec \in Busy
  BY <1>1, BusyFields
<1>3. CASE GetRecordedAlias \/ GetMatchedAlias
  <2>1. UNCHANGED api
    BY <1>3 DEF GetRecordedAlias, GetMatchedAlias
  <2>2. ASSUME NEW u \in {rec.uuid, rec.obj.status.uuid}, Found(u)
        PROVE  UNCHANGED cache /\ (rec' = Idle \/ Continues)
    <3>1. UNCHANGED cache
      BY <2>2 DEF Found, Return
    <3>2. CASE rec' = [rec EXCEPT !.pc = "update", !.uuid = u]
      <4>1. /\ rec'.pc = "update" /\ rec'.cr = rec.cr /\ rec'.obj = rec.obj
            /\ rec'.uuid = u
        BY <1>2, <3>2 DEF Busy
      <4> QED
        BY <3>1, <4>1 DEF Continues, NextUuid
    <3> QED
      BY <1>1, <2>2, <3>1, <3>2, SuccessContinues DEF Found, Return
  <2>3. CASE rec' = [rec EXCEPT !.pc = "getByName"] /\ UNCHANGED cache
    BY <1>1, <1>2, <2>1, <2>3 DEF Busy, Continues, NextUuid
  <2> QED
    <3>1. CASE Found(rec.uuid) \/ Found(rec.obj.status.uuid)
      BY <1>1, <2>1, <2>2, <3>1
    <3>2. CASE SetReadyFailed /\ UNCHANGED cache
      BY <1>1, <2>1, <3>2, FailedContinues
    <3> QED
      BY <1>1, <1>3, <2>1, <2>3, <3>1, <3>2 DEF GetRecordedAlias, GetMatchedAlias
<1>4. CASE BuildOPNsenseClient
  BY <1>1, <1>2, <1>4 DEF BuildOPNsenseClient, Busy, Continues, NextUuid, kubeVars
<1>5. CASE GetAliasUUIDByName
  <2>1. CASE rec' = [rec EXCEPT !.pc = "create"]
    BY <1>1, <1>2, <1>5, <2>1 DEF GetAliasUUIDByName, Busy, Continues, NextUuid, kubeVars
  <2>2. CASE \E u \in Named(rec.obj.spec.name) :
               rec' = [rec EXCEPT !.pc = "getMatch", !.uuid = u]
    BY <1>1, <1>2, <1>5, <2>2
       DEF GetAliasUUIDByName, Busy, Continues, NextUuid, kubeVars, aliasVars
  <2> QED
    BY <1>5, <2>1, <2>2 DEF GetAliasUUIDByName
<1>6. CASE CreateAlias \/ UpdateAlias \/ DeleteAlias \/ ReconfigureDeletion
  <2>1. UNCHANGED <<api, cache>>
    BY <1>6 DEF CreateAlias, UpdateAlias, DeleteAlias, ReconfigureDeletion, kubeVars
  <2>2. CASE \E u \in UUIDs : AddItem(u, Desired)
                             /\ rec' = [rec EXCEPT !.pc = "reconfigure", !.uuid = u]
    BY <1>1, <1>2, <2>1, <2>2 DEF Busy, Continues, NextUuid
  <2>3. CASE \E pc \in {"reconfigure", "reconfigureDeleted", "removeFinalizer"} :
               rec' = [rec EXCEPT !.pc = pc]
    BY <1>1, <1>2, <2>1, <2>3 DEF Busy, Continues, NextUuid
  <2> QED
    BY <1>1, <1>6, <2>1, <2>2, <2>3, FailedContinues
       DEF CreateAlias, UpdateAlias, DeleteAlias, ReconfigureDeletion
<1>7. CASE ReconfigureAliases
  BY <1>1, <1>7, SuccessContinues DEF ReconfigureAliases, kubeVars
<1>8. CASE BuildClientFails \/ ReadFails \/ WriteFails
  BY <1>1, <1>8, FailedContinues DEF BuildClientFails, ReadFails, WriteFails, kubeVars
<1> QED
  BY <1>1, <1>3, <1>4, <1>5, <1>6, <1>7, <1>8 DEF RemoteSteps

----------------------------------------------------------------------------
\* What happens to one alias of the configuration.

\* A reconcile about to update, create or delete it, whatever it learns of the outcome.
Updated(u) ==
  /\ RemoteSteps /\ rec.pc = "update" /\ u = rec.uuid /\ staged[u] # None
  /\ staged'[u] = Merge(staged[u], Desired)
Created(u) ==
  /\ RemoteSteps /\ rec.pc = "create" /\ Fresh(u)
  /\ staged'[u] = rec.obj.spec
Deleted(u) ==
  /\ RemoteSteps /\ rec.pc = "delete" /\ u = rec.uuid /\ staged[u] # None
  /\ staged'[u] = None

\* The administrator.
Added(u) ==
  /\ AdminStep /\ Fresh(u)
  /\ staged'[u] # None /\ staged'[u].desc = None
Edited(u) ==
  /\ AdminStep /\ ~ NobodyElseWrites /\ staged[u] # None
  /\ staged'[u] # None => staged'[u].name = staged[u].name

LEMMA RemoteWrites ==
  ASSUME VarTypes, RemoteSteps, NEW u \in UUIDs, staged'[u] # staged[u]
  PROVE  Updated(u) \/ Created(u) \/ Deleted(u)
<1>1. staged \in [UUIDs -> Aliases \union {None}]
  BY DEF VarTypes, AliasTypeOK
<1>2. CASE rec.pc = "create" /\ \E v \in UUIDs : Fresh(v) /\ AddItem(v, Desired)
  <2>1. PICK v \in UUIDs : Fresh(v) /\ AddItem(v, Desired)
    BY <1>2
  <2>2. staged' = [staged EXCEPT ![v] = Merge([desc |-> None], Desired)]
    BY <2>1 DEF AddItem
  <2>3. u = v
    BY <1>1, <2>2
  <2>4. rec.obj.spec \in Aliases
    BY <1>2, BusyFields
  <2>5. staged'[u] = rec.obj.spec
    BY <1>1, <2>2, <2>3, <2>4, MergeNew DEF Desired
  <2> QED
    BY <1>2, <2>1, <2>3, <2>5 DEF Created
<1>3. CASE rec.pc = "update" /\ SetItem(rec.uuid, Desired)
  BY <1>1, <1>3 DEF SetItem, Present, Updated
<1>4. CASE rec.pc = "delete" /\ DelItem(rec.uuid)
  BY <1>1, <1>4 DEF DelItem, Present, Deleted
<1>5. \/ UNCHANGED staged
      \/ rec.pc = "create" /\ \E v \in UUIDs : Fresh(v) /\ AddItem(v, Desired)
      \/ rec.pc = "update" /\ SetItem(rec.uuid, Desired)
      \/ rec.pc = "delete" /\ DelItem(rec.uuid)
  <2>1. CASE UNCHANGED aliasVars \/ Reconfigure
    BY <2>1 DEF aliasVars, Reconfigure
  <2>2. CASE CreateAlias \/ UpdateAlias \/ DeleteAlias
    BY <2>1, <2>2 DEF CreateAlias, UpdateAlias, DeleteAlias
  <2>3. CASE WriteFails
    BY <2>1, <2>3 DEF WriteFails
  <2> QED
    BY <2>1, <2>2, <2>3
       DEF RemoteSteps, BuildOPNsenseClient, GetRecordedAlias, GetAliasUUIDByName,
           GetMatchedAlias, ReconfigureAliases, ReconfigureDeletion, BuildClientFails, ReadFails
<1> QED
  BY <1>2, <1>3, <1>4, <1>5

LEMMA AdminWrites ==
  ASSUME VarTypes, AdminStep, NEW u \in UUIDs, staged'[u] # staged[u]
  PROVE  Added(u) \/ Edited(u)
<1>1. staged \in [UUIDs -> Aliases \union {None}]
  BY DEF VarTypes, AliasTypeOK
<1>2. PICK v \in UUIDs :
        \/ Fresh(v) /\ \E n \in Names, b \in ValidContents : AdminAdds(v, n, b)
        \/ "edit" \in AdminOps /\ \E b \in Contents : AdminEdits(v, b)
        \/ "delete" \in AdminOps /\ DelItem(v)
        \/ Reconfigure
  BY DEF AdminStep
<1>3. ASSUME NEW n \in Names, NEW b \in ValidContents, Fresh(v), AdminAdds(v, n, b)
      PROVE  Added(u)
  <2>1. b \in Contents
    BY AliasSpecsAssumption
  <2> DEFINE a == [name |-> n, content |-> b, desc |-> None, enabled |-> TRUE]
  <2>2. a \in Aliases /\ a.desc = None /\ staged' = [staged EXCEPT ![v] = a]
    BY <1>3, <2>1, AdminAlias DEF AdminAdds, AddItem
  <2> HIDE DEF a
  <2>3. u = v /\ staged'[u] = a
    BY <1>1, <2>2
  <2> QED
    BY <1>3, <2>2, <2>3, AliasAbsentAssumption DEF Added
<1>4. ASSUME NEW b \in Contents, "edit" \in AdminOps, AdminEdits(v, b)
      PROVE  Edited(u)
  <2>1. u = v /\ staged[u] \in Aliases /\ staged'[u] = [staged[u] EXCEPT !.content = b]
    BY <1>1, <1>4 DEF AdminEdits, Present
  <2>2. staged'[u] \in Aliases /\ staged'[u].name = staged[u].name
    BY <2>1 DEF Aliases
  <2> QED
    BY <1>4, <2>1, <2>2, AliasAbsentAssumption DEF Edited, NobodyElseWrites
<1>5. CASE "delete" \in AdminOps /\ DelItem(v)
  BY <1>1, <1>5 DEF DelItem, Present, Edited, NobodyElseWrites
<1> QED
  BY <1>2, <1>3, <1>4, <1>5 DEF Reconfigure

LEMMA StagedChanges ==
  ASSUME VarTypes, [Next]_vars, NEW u \in UUIDs, staged'[u] # staged[u]
  PROVE  Updated(u) \/ Created(u) \/ Deleted(u) \/ Added(u) \/ Edited(u)
<1>1. CASE RemoteSteps
  BY <1>1, RemoteWrites
<1>2. CASE AdminStep
  BY <1>2, AdminWrites
<1> QED
  BY <1>1, <1>2, StepsSplit, ReconcileGoesOn, KubeWrites
     DEF Crash, UserOrInformerStep, vars, aliasVars

\* An alias keeps its name as long as resources keep theirs.
LEMMA NameStays ==
  ASSUME NamesKept, VarTypes, NamingInv, [Next]_vars, NEW u \in UUIDs,
         staged'[u] # None
  PROVE  \/ staged[u] # None /\ staged'[u].name = staged[u].name
         \/ Fresh(u) /\ (Added(u) \/ Created(u))
<1>1. CASE Updated(u)
  <2>1. rec.pc # "idle" /\ rec.cr \in CRs /\ rec.obj.spec \in SpecsOf[rec.cr]
    BY <1>1, BusyFields DEF Updated, NamingInv
  <2>2. staged[u] \in Aliases /\ rec.obj.spec \in Aliases
    BY <1>1, BusyFields DEF Updated, VarTypes, AliasTypeOK
  <2>3. staged'[u].name = rec.obj.spec.name
    BY <1>1, <2>2, MergedAlias DEF Updated, Desired
  <2>4. staged[u].name = rec.obj.spec.name
    BY <1>1, <2>1 DEF Updated, NamingInv, Refers
  <2> QED
    BY <1>1, <2>3, <2>4 DEF Updated
<1> QED
  BY <1>1, StagedChanges DEF Created, Added, Deleted, Edited

----------------------------------------------------------------------------
\* Users and the informer.

\* What a user does to an object: nothing, or it moves on.
LEMMA UserMoves ==
  ASSUME VarTypes, UserSteps, NEW c \in CRs
  PROVE  \/ api'[c] = api[c]
         \/ api'[c] = None /\ ~ api[c].finalizer
         \/ /\ api[c] = None
            /\ ~ api'[c].finalizer /\ api'[c].status = EmptyStatus /\ api'[c].gen = 1
         \/ /\ api[c] # None /\ api'[c] # None /\ api'[c].gen = api[c].gen + 1
            /\ api'[c].finalizer = api[c].finalizer /\ api'[c].deleting = api[c].deleting
            /\ api'[c].status = api[c].status
         \/ /\ api[c] # None /\ api'[c] # None /\ ~ api[c].deleting /\ api'[c].deleting
            /\ api'[c].gen = api[c].gen /\ api'[c].finalizer = api[c].finalizer
            /\ api'[c].status = api[c].status
<1>1. api \in [CRs -> Objects \union {None}]
  BY DEF VarTypes, KubeTypeOK
<1>2. ASSUME NEW d \in CRs, NEW s \in SpecsOf[d], UserCreates(d, s), api'[c] # api[c]
      PROVE  /\ api[c] = None
             /\ ~ api'[c].finalizer /\ api'[c].status = EmptyStatus /\ api'[c].gen = 1
  BY <1>1, <1>2 DEF UserCreates
<1>3. ASSUME NEW d \in CRs, NEW s \in SpecsOf[d], UserEdits(d, s), api'[c] # api[c]
      PROVE  /\ api[c] # None /\ api'[c] # None /\ api'[c].gen = api[c].gen + 1
             /\ api'[c].finalizer = api[c].finalizer /\ api'[c].deleting = api[c].deleting
             /\ api'[c].status = api[c].status
  <2>1. c = d /\ api[c] \in Objects
    BY <1>1, <1>3 DEF UserEdits
  <2>2. api'[c] = [api[c] EXCEPT !.spec = s, !.gen = api[c].gen + 1]
    BY <1>1, <1>3, <2>1 DEF UserEdits
  <2>3. [api[c] EXCEPT !.spec = s, !.gen = api[c].gen + 1] \in Objects
    BY <2>1, TypeUserObjects DEF Specs
  <2>4. api'[c] # None
    BY <2>2, <2>3, AliasAbsentAssumption
  <2> QED
    BY <1>3, <2>1, <2>2, <2>4 DEF UserEdits, Objects
<1>4. ASSUME NEW d \in CRs, UserDeletes(d), api'[c] # api[c]
      PROVE  \/ api'[c] = None /\ ~ api[c].finalizer
             \/ /\ api[c] # None /\ api'[c] # None /\ ~ api[c].deleting /\ api'[c].deleting
                /\ api'[c].gen = api[c].gen /\ api'[c].finalizer = api[c].finalizer
                /\ api'[c].status = api[c].status
  <2>1. c = d /\ api[c] \in Objects
    BY <1>1, <1>4 DEF UserDeletes
  <2>2. api'[c] = IF api[c].finalizer THEN [api[c] EXCEPT !.deleting = TRUE] ELSE None
    BY <1>1, <1>4, <2>1 DEF UserDeletes
  <2>3. api[c].spec \in Specs
    BY <2>1 DEF Objects
  <2>4. api[c].finalizer => api'[c] # None
    BY <2>1, <2>2, <2>3, TypeUserObjects, AliasAbsentAssumption
  <2> QED
    BY <1>4, <2>1, <2>2, <2>4 DEF UserDeletes, Objects
<1> QED
  BY <1>2, <1>3, <1>4 DEF UserSteps

\* What is stored after a user's step is the user's spec for this resource.
LEMMA UserSpecs ==
  ASSUME VarTypes, UserSteps, NEW c \in CRs, api'[c] # None,
         api[c] # None => api[c].spec \in SpecsOf[c]
  PROVE  api'[c].spec \in SpecsOf[c]
<1>1. api \in [CRs -> Objects \union {None}]
  BY DEF VarTypes, KubeTypeOK
<1>2. CASE api'[c] = api[c]
  BY <1>2
<1>3. ASSUME NEW d \in CRs, NEW s \in SpecsOf[d], UserCreates(d, s), api'[c] # api[c]
      PROVE  api'[c].spec \in SpecsOf[c]
  BY <1>1, <1>3 DEF UserCreates
<1>4. ASSUME NEW d \in CRs, NEW s \in SpecsOf[d], UserEdits(d, s), api'[c] # api[c]
      PROVE  api'[c].spec \in SpecsOf[c]
  <2>1. c = d /\ api[c] \in Objects
    BY <1>1, <1>4 DEF UserEdits
  <2>2. api'[c] = [api[c] EXCEPT !.spec = s, !.gen = api[c].gen + 1]
    BY <1>1, <1>4, <2>1 DEF UserEdits
  <2> QED
    BY <2>1, <2>2 DEF Objects
<1>5. ASSUME NEW d \in CRs, UserDeletes(d) PROVE api'[c].spec \in SpecsOf[c]
  BY <1>1, <1>5 DEF UserDeletes, Objects
<1> QED
  BY <1>2, <1>3, <1>4, <1>5 DEF UserSteps

LEMMA UserOrInformer ==
  ASSUME VarTypes, UserOrInformerStep
  PROVE  /\ UNCHANGED <<rec, aliasVars>>
         /\ \/ UserSteps /\ UNCHANGED cache
            \/ /\ UNCHANGED api
               /\ \A c \in CRs : cache'[c] \in {cache[c], api[c]}
<1>1. cache \in [CRs -> Objects \union {None}]
  BY DEF VarTypes, KubeTypeOK
<1>2. PICK c \in CRs :
        \/ \E s \in SpecsOf[c] : UserCreates(c, s) \/ UserEdits(c, s)
        \/ UserDeletes(c) \/ WatchEvent(c) \/ Resync(c)
  BY DEF UserOrInformerStep
<1>3. CASE WatchEvent(c) \/ Resync(c)
  BY <1>1, <1>3 DEF WatchEvent, Resync, UserOrInformerStep
<1>4. CASE \/ \E s \in SpecsOf[c] : UserCreates(c, s) \/ UserEdits(c, s)
           \/ UserDeletes(c)
  BY <1>4 DEF UserCreates, UserEdits, UserDeletes, UserSteps, UserOrInformerStep
<1> QED
  BY <1>2, <1>3, <1>4

\* The cache gets nothing but what is stored.
LEMMA CacheSteps ==
  ASSUME VarTypes, [Next]_vars, NEW c \in CRs
  PROVE  cache'[c] \in {cache[c], api[c]}
<1>1. CASE RemoteSteps
  BY <1>1, RemoteContinues
<1>2. CASE KubeSteps
  BY <1>2, KubeWrites
<1>3. CASE UserOrInformerStep
  BY <1>3, UserOrInformer
<1> QED
  BY <1>1, <1>2, <1>3, StepsSplit DEF Reconcile, Crash, Relist, AdminStep, vars, kubeVars

----------------------------------------------------------------------------
\* Naming is an invariant.

LEMMA NamingSpecs ==
  ASSUME VarTypes, PathInv, NamingInv, [Next]_vars, NEW c \in CRs
  PROVE  /\ api'[c] # None => api'[c].spec \in SpecsOf[c]
         /\ cache'[c] # None => cache'[c].spec \in SpecsOf[c]
<1>1. /\ api \in [CRs -> Objects \union {None}]
      /\ api[c] # None => api[c].spec \in SpecsOf[c]
      /\ cache[c] # None => cache[c].spec \in SpecsOf[c]
  BY DEF VarTypes, KubeTypeOK, NamingInv
<1>2. cache'[c] # None => cache'[c].spec \in SpecsOf[c]
  BY <1>1, CacheSteps
<1>3. CASE api'[c] = api[c]
  BY <1>1, <1>2, <1>3
<1>4. CASE UserSteps
  BY <1>1, <1>2, <1>4, UserSpecs
<1>5. CASE KubeSteps
  <2>1. rec.pc # "idle" /\ rec.cr \in CRs /\ rec.obj.spec \in SpecsOf[rec.cr]
    BY <1>5, KubeWrites, BusyFields DEF NamingInv
  <2>2. WrittenBack(rec.obj.spec) \in SpecsOf[rec.cr]
    BY <2>1, BusyFields, AliasSpecsAssumption DEF WrittenBack
  <2>3. \/ api'[c] = api[c] \/ api'[c] = None
        \/ c = rec.cr /\ api'[c] \in {WithFinalizer, WithStatus}
    BY <1>1, <1>5, KubeWrites DEF Stored
  <2> QED
    BY <1>1, <1>2, <2>1, <2>2, <2>3, WrittenFields
<1> QED
  BY <1>3, <1>4, <1>5, StepsSplit, ReconcileGoesOn, RemoteContinues, UserOrInformer
     DEF Crash, Relist, AdminStep, vars, kubeVars

LEMMA NamingCopy ==
  ASSUME VarTypes, NamingInv, [Next]_vars
  PROVE  /\ rec'.pc # "idle" => rec'.obj.spec \in SpecsOf[rec'.cr]
         /\ rec'.pc = "setStatus" => rec'.status.uuid \in {None, rec'.uuid, rec'.obj.status.uuid}
<1>1. CASE UNCHANGED rec
  BY <1>1 DEF NamingInv
<1>2. CASE rec' = Idle
  BY <1>2 DEF Idle
<1>3. CASE RemoteSteps
  BY <1>2, <1>3, RemoteContinues DEF NamingInv, Continues
<1>4. CASE \E c \in CRs : Reconcile(c)
  BY <1>1, <1>4, ReconcileGoesOn, AliasAbsentAssumption DEF NamingInv
<1> QED
  BY <1>1, <1>2, <1>3, <1>4, StepsSplit, KubeWrites
     DEF Crash, UserOrInformerStep, AdminStep, vars

\* A resource refers to another identifier only when its reconcile has looked it up
\* by name or created it.
LEMMA RefersNext ==
  ASSUME VarTypes, NamingInv, [Next]_vars, NEW c \in CRs, NEW u \in UUIDs, Refers(c, u)'
  PROVE  \/ Refers(c, u)
         \/ /\ rec.pc # "idle" /\ rec.cr = c
            /\ \/ UNCHANGED staged /\ u \in Named(rec.obj.spec.name)
               \/ AddItem(u, Desired)
<1> USE AliasNoneAssumption
<1>1. api \in [CRs -> Objects \union {None}] /\ u # None /\ c # None
  BY DEF VarTypes, KubeTypeOK
<1>2. CASE UuidOf(cache[c])' = u
  BY <1>2, CacheSteps DEF Refers, UuidOf
<1>3. CASE UuidOf(api[c])' = u
  <2>1. CASE api'[c] = api[c]
    BY <1>3, <2>1 DEF Refers, UuidOf
  <2>2. CASE UserSteps
    BY <1>1, <1>3, <2>2, UserMoves DEF Refers, UuidOf, EmptyStatus
  <2>3. CASE KubeSteps
    <3>1. rec.pc # "idle" /\ rec.cr \in CRs /\ rec.obj # None
      BY <2>3, KubeWrites, BusyFields, AliasAbsentAssumption
    <3>2. \/ api'[c] = api[c] \/ api'[c] = None
          \/ c = rec.cr /\ api'[c] = WithFinalizer
          \/ c = rec.cr /\ rec.pc = "setStatus" /\ api'[c] = WithStatus
      BY <1>1, <2>3, KubeWrites DEF Stored
    <3>3. CASE c = rec.cr /\ api'[c] = WithFinalizer
      BY <1>1, <1>3, <3>1, <3>3, WrittenFields DEF Refers, UuidOf
    <3>4. CASE c = rec.cr /\ rec.pc = "setStatus" /\ api'[c] = WithStatus
      BY <1>1, <1>3, <3>1, <3>4, WrittenFields DEF Refers, UuidOf, NamingInv
    <3> QED
      BY <1>1, <1>3, <2>1, <3>2, <3>3, <3>4 DEF UuidOf
  <2> QED
    BY <2>1, <2>2, <2>3, StepsSplit, ReconcileGoesOn, RemoteContinues, UserOrInformer
       DEF Crash, Relist, AdminStep, vars, kubeVars
<1>4. CASE rec'.cr = c /\ u \in {rec'.uuid, UuidOf(rec'.obj)}
  <2>1. CASE UNCHANGED rec
    BY <1>4, <2>1 DEF Refers, UuidOf
  <2>2. CASE RemoteSteps
    <3>1. Continues /\ rec.pc # "idle"
      BY <1>1, <1>4, <2>2, RemoteContinues DEF Idle
    <3>2. rec.obj # None
      BY <3>1, BusyFields, AliasAbsentAssumption
    <3> QED
      BY <1>1, <1>4, <3>1, <3>2 DEF Continues, NextUuid, Refers, UuidOf
  <2>3. CASE \E d \in CRs : Reconcile(d)
    <3>1. PICK d \in CRs : Reconcile(d)
      BY <2>3
    <3>2. CASE rec'.obj = cache[d] /\ rec'.cr = d /\ rec'.uuid = None
      BY <1>1, <1>4, <3>2 DEF Refers
    <3> QED
      BY <2>1, <3>1, <3>2, ReconcileGoesOn
  <2>4. rec' # Idle
    BY <1>1, <1>4 DEF Idle
  <2> QED
    BY <2>1, <2>2, <2>3, <2>4, StepsSplit, KubeWrites
       DEF Crash, UserOrInformerStep, AdminStep, vars
<1> QED
  BY <1>2, <1>3, <1>4 DEF Refers, UuidOf

LEMMA NamingRefs ==
  ASSUME NamesKept, VarTypes, NamingInv, [Next]_vars, NEW c \in CRs, NEW u \in UUIDs,
         Refers(c, u)', staged'[u] # None, NEW s \in SpecsOf[c]
  PROVE  staged'[u].name = s.name
<1>1. CASE Refers(c, u)
  <2>1. ~ Fresh(u)
    BY <1>1 DEF Fresh, Refers
  <2>2. staged[u] # None /\ staged'[u].name = staged[u].name
    BY <2>1, NameStays
  <2> QED
    BY <1>1, <2>2 DEF NamingInv
<1>2. CASE /\ rec.pc # "idle" /\ rec.cr = c
           /\ \/ UNCHANGED staged /\ u \in Named(rec.obj.spec.name)
              \/ AddItem(u, Desired)
  <2>1. rec.obj.spec \in SpecsOf[c] /\ rec.obj.spec \in Aliases
    BY <1>2, BusyFields DEF NamingInv
  <2>2. rec.obj.spec.name = s.name
    BY <2>1 DEF NamesKept
  <2>3. CASE UNCHANGED staged /\ u \in Named(rec.obj.spec.name)
    BY <2>2, <2>3 DEF Named
  <2>4. CASE AddItem(u, Desired)
    <3>1. staged'[u] = Merge([desc |-> None], Desired)
      BY <2>4 DEF AddItem, VarTypes, AliasTypeOK
    <3> QED
      BY <2>1, <2>2, <3>1, MergeNew DEF Desired
  <2> QED
    BY <1>2, <2>3, <2>4
<1> QED
  BY <1>1, <1>2, RefersNext

LEMMA NamingNext ==
  ASSUME NamesKept, VarTypes, PathInv, NamingInv, [Next]_vars
  PROVE  NamingInv'
<1>1. \A c \in CRs : /\ api'[c] # None => api'[c].spec \in SpecsOf[c]
                     /\ cache'[c] # None => cache'[c].spec \in SpecsOf[c]
  BY NamingSpecs
<1>2. \A c \in CRs, u \in UUIDs :
        Refers(c, u)' /\ staged'[u] # None => \A s \in SpecsOf[c] : staged'[u].name = s.name
  BY NamingRefs
<1> QED
  BY <1>1, <1>2, NamingCopy DEF NamingInv

\* A reconcile only writes what carries the name its copy asks for.
LEMMA WritesNamed ==
  ASSUME VarTypes, NamingInv, [Next]_vars, NEW u \in UUIDs, Present(u),
         staged'[u] # staged[u], rec' # rec
  PROVE  rec.obj.spec.name = staged[u].name
<1>1. ~ AdminStep
  BY DEF AdminStep
<1>2. Updated(u) \/ Deleted(u)
  BY <1>1, StagedChanges DEF Created, Added, Edited, Fresh, Present
<1>3. rec.pc # "idle" /\ rec.cr \in CRs /\ rec.obj.spec \in SpecsOf[rec.cr]
  BY <1>2, BusyFields DEF Updated, Deleted, NamingInv
<1>4. Refers(rec.cr, u)
  BY <1>2 DEF Updated, Deleted, Refers
<1> QED
  BY <1>3, <1>4 DEF NamingInv, Present

\* As long as resources keep their names, no alias of another name is changed or
\* removed, whatever the administrator, crashes, lost replies and stale copies do.
THEOREM NamingCorrect ==
  ASSUME NamesKept
  PROVE  Spec => OnlyNamedAliasWritten
<1>1. Init => VarTypes /\ PathInv /\ NamingInv
  BY TypeInit, PathInit, NamingInit
<1>2. VarTypes /\ PathInv /\ NamingInv /\ [Next]_vars => VarTypes' /\ PathInv' /\ NamingInv'
  BY TypeNext, PathNext, NamingNext
<1>3. VarTypes /\ NamingInv /\ [Next]_vars =>
        [\A u \in UUIDs :
           Present(u) /\ staged'[u] # staged[u] /\ rec' # rec =>
             rec.obj.spec.name = staged[u].name]_vars
  BY WritesNamed
<1> QED
  BY <1>1, <1>2, <1>3, PTL DEF Spec, OnlyNamedAliasWritten

----------------------------------------------------------------------------
\* Copies.  An object that was stored as o once and is not any more is past o:
\* it will not become o again, for users create it without a finalizer and with
\* the generation of an edit, and only the controller writes its status.
Past(a, o) ==
  \/ a = None \/ ~ a.finalizer
  \/ a.gen > o.gen
  \/ a.deleting /\ ~ o.deleting
  \/ a.status # o.status

\* The cache lags: what it holds is stored, or past.
LagInv ==
  \A c \in CRs : cache[c] # None /\ cache[c].finalizer =>
                   (api[c] = cache[c] \/ Past(api[c], cache[c]))

\* So does the copy of a reconcile; while it is still stored, the cache holds it.
LinkInv ==
  LET c == rec.cr IN
  /\ rec.pc \notin {"idle", "addFinalizer"} =>
       \/ api[c] = rec.obj /\ cache[c] = rec.obj
       \/ Past(api[c], rec.obj)
  /\ rec.pc = "addFinalizer" /\ (api[c] = None \/ ~ api[c].finalizer) =>
       cache[c] = None \/ ~ cache[c].finalizer

\* No generation is observed before it exists, and nothing is Ready unguarded.
StatusInv ==
  \A c \in CRs : api[c] # None =>
    /\ api[c].status.obsGen <= api[c].gen
    /\ api[c].status.ready = "True" => api[c].finalizer

----------------------------------------------------------------------------
\* Resources that are Ready for their current generation.

Ready(c) == ReportsReady(api[c])

\* The alias described is in the configuration under the identifier recorded.
Synced(spec, status) == status.uuid \in UUIDs /\ staged[status.uuid] = spec

\* A Ready resource has its alias, and the cache knows the spec it is Ready for.
ReadyInv ==
  \A c \in CRs : Ready(c) =>
    /\ Synced(api[c].spec, api[c].status)
    /\ cache[c] # None /\ cache[c].spec = api[c].spec /\ ~ cache[c].deleting

\* Where no spec has a description, no alias of that name has one to be kept.
DescInv ==
  \A c \in CRs, u \in UUIDs : \A s \in SpecsOf[c] :
    staged[u] # None /\ staged[u].name = s.name /\ s.desc = None => staged[u].desc = None

\* A reconcile of a Ready resource has nothing to write, and one that wrote an
\* alias or is about to report success has the right alias before it.
WorkInv ==
  /\ rec.pc # "idle" /\ Ready(rec.cr) =>
       /\ rec.obj.spec = api[rec.cr].spec /\ ~ rec.obj.deleting
       /\ rec.pc \notin {"create", "update"}
  /\ rec.pc = "reconfigure" => staged[rec.uuid] = rec.obj.spec
  /\ rec.pc = "setStatus" =>
       /\ rec.status.obsGen \in {rec.obj.gen, rec.obj.status.obsGen}
       /\ rec.status.ready = "True" => Synced(rec.obj.spec, rec.status)

CopyInv == LagInv /\ LinkInv /\ StatusInv
TruthInv == CopyInv /\ DescInv /\ ReadyInv /\ WorkInv

\* Past is for good.
LEMMA UserKeepsPast ==
  ASSUME VarTypes, UserSteps, NEW c \in CRs, NEW o \in Objects,
         api[c] = o \/ Past(api[c], o)
  PROVE  api'[c] = api[c] \/ Past(api'[c], o)
<1>1. api[c] # None => api[c] \in Objects
  BY DEF VarTypes, KubeTypeOK
<1>2. api[c] # None => api[c].gen \in Nat
  BY <1>1 DEF Objects
<1>3. o.gen \in Nat
  BY DEF Objects
<1> QED
  BY <1>2, <1>3, UserMoves DEF Past

LEMMA CopyUser ==
  ASSUME VarTypes, CopyInv, UserSteps, UNCHANGED <<cache, rec>>
  PROVE  CopyInv'
<1>1. UNCHANGED cache
  OBVIOUS
<1>2. LagInv'
  <2> SUFFICES ASSUME NEW c \in CRs, cache[c] # None, cache[c].finalizer
               PROVE  api'[c] = cache[c] \/ Past(api'[c], cache[c])
    BY <1>1 DEF LagInv
  <2>1. cache[c] \in Objects
    BY DEF VarTypes, KubeTypeOK
  <2> QED
    BY <2>1, UserKeepsPast DEF CopyInv, LagInv
<1>3. LinkInv'
  <2>1. CASE rec.pc \notin {"idle", "addFinalizer"}
    <3>1. rec.cr \in CRs /\ rec.obj \in Objects
      BY <2>1, BusyFields
    <3>2. \/ api[rec.cr] = rec.obj /\ cache[rec.cr] = rec.obj
          \/ Past(api[rec.cr], rec.obj)
      BY <2>1 DEF CopyInv, LinkInv
    <3>3. api'[rec.cr] = api[rec.cr] \/ Past(api'[rec.cr], rec.obj)
      BY <3>1, <3>2, UserKeepsPast
    <3> QED
      BY <1>1, <2>1, <3>2, <3>3 DEF LinkInv
  <2>2. CASE rec.pc = "addFinalizer"
    <3>1. rec.cr \in CRs
      BY <2>2, BusyFields
    <3>2. api'[rec.cr] = None \/ ~ api'[rec.cr].finalizer =>
            api[rec.cr] = None \/ ~ api[rec.cr].finalizer
      BY <3>1, UserMoves
    <3> QED
      BY <1>1, <2>2, <3>2 DEF CopyInv, LinkInv
  <2> QED
    BY <2>1, <2>2 DEF LinkInv
<1>4. StatusInv'
  <2> SUFFICES ASSUME NEW c \in CRs, api'[c] # None
               PROVE  /\ api'[c].status.obsGen <= api'[c].gen
                      /\ api'[c].status.ready = "True" => api'[c].finalizer
    BY DEF StatusInv
  <2>1. api[c] # None => /\ api[c].gen \in Nat /\ api[c].status.obsGen \in Nat
                         /\ api[c].status.obsGen <= api[c].gen
                         /\ api[c].status.ready = "True" => api[c].finalizer
    BY DEF CopyInv, StatusInv, VarTypes, KubeTypeOK, Objects, Statuses
  <2> QED
    BY <2>1, UserMoves DEF EmptyStatus
<1> QED
  BY <1>2, <1>3, <1>4 DEF CopyInv

LEMMA CopyCache ==
  ASSUME VarTypes, CopyInv, UNCHANGED <<api, rec>>,
         \A c \in CRs : cache'[c] \in {cache[c], api[c]}
  PROVE  CopyInv'
<1>1. LagInv'
  BY DEF CopyInv, LagInv
<1>2. LinkInv'
  BY BusyFields DEF CopyInv, LinkInv
<1> QED
  BY <1>1, <1>2 DEF CopyInv, StatusInv

----------------------------------------------------------------------------
\* The controller's own steps and what they copy.

LEMMA CopyRemote ==
  ASSUME VarTypes, CopyInv, RemoteSteps
  PROVE  CopyInv'
<1>1. LagInv' /\ StatusInv'
  BY RemoteContinues DEF CopyInv, LagInv, StatusInv
<1>2. LinkInv'
  BY RemoteContinues DEF CopyInv, LinkInv, Continues, Idle
<1> QED
  BY <1>1, <1>2 DEF CopyInv

LEMMA CopyReconcile ==
  ASSUME VarTypes, CopyInv, NEW c \in CRs, Reconcile(c)
  PROVE  CopyInv'
<1>1. UNCHANGED <<api, cache>>
  BY DEF Reconcile
<1>2. CASE UNCHANGED rec
  BY <1>1, <1>2 DEF CopyInv, LagInv, LinkInv, StatusInv
<1>3. CASE /\ cache[c] \in Objects /\ rec'.obj = cache[c] /\ rec'.cr = c
           /\ rec'.pc = "addFinalizer" => ~ cache[c].finalizer
           /\ rec'.pc # "addFinalizer" => cache[c].finalizer
  <2>1. rec'.pc # "addFinalizer" => api[c] = cache[c] \/ Past(api[c], cache[c])
    BY <1>3, AliasAbsentAssumption DEF CopyInv, LagInv
  <2>2. LinkInv'
    BY <1>1, <1>3, <2>1 DEF LinkInv, Past
  <2> QED
    BY <1>1, <2>2 DEF CopyInv, LagInv, StatusInv
<1> QED
  BY <1>2, <1>3, ReconcileGoesOn

LEMMA CopyCrash ==
  ASSUME VarTypes, CopyInv, Crash
  PROVE  CopyInv'
  BY DEF Crash, Relist, CopyInv, LagInv, LinkInv, StatusInv, Idle

LEMMA WrittenVersion ==
  ASSUME VarTypes, rec.pc # "idle"
  PROVE  /\ WithFinalizer # None /\ WithFinalizer.gen >= rec.obj.gen
         /\ WithStatus # None
         /\ rec.status = rec.obj.status => WithStatus = rec.obj
<1>1. rec.obj \in Objects /\ rec.obj.gen \in Nat
  BY BusyFields DEF Objects
<1>2. WithFinalizer # None /\ WithStatus # None
  BY WrittenFields, AliasAbsentAssumption
<1>3. WithFinalizer.gen >= rec.obj.gen
  BY <1>1 DEF WithFinalizer, Objects
<1>4. rec.status = rec.obj.status => WithStatus = rec.obj
  BY <1>1 DEF WithStatus, Objects
<1> QED
  BY <1>2, <1>3, <1>4

LEMMA CopyKube ==
  ASSUME VarTypes, DeletionInv, PathInv, CopyInv, WorkInv, KubeSteps
  PROVE  CopyInv'
<1>0. rec.pc # "idle" /\ rec' = Idle /\ UNCHANGED cache
  BY KubeWrites
<1>1. /\ rec.cr \in CRs /\ rec.obj \in Objects
      /\ rec.obj.gen \in Nat /\ rec.obj.status.obsGen \in Nat
  BY <1>0, BusyFields DEF Objects, Statuses
<1>2. api \in [CRs -> Objects \union {None}]
  BY DEF VarTypes, KubeTypeOK
<1>3. LinkInv'
  BY <1>0 DEF LinkInv, Idle
<1>4. CASE UNCHANGED api
  BY <1>0, <1>3, <1>4 DEF CopyInv, LagInv, StatusInv
<1>5. CASE rec.pc = "addFinalizer" /\ Stored(rec.cr, rec.obj, WithFinalizer)
  <2>1. ~ rec.obj.finalizer /\ api[rec.cr] = rec.obj
    BY <1>0, <1>5 DEF PathInv, Stored
  <2>2. cache[rec.cr] = None \/ ~ cache[rec.cr].finalizer
    BY <1>0, <1>5, <2>1 DEF CopyInv, LinkInv
  <2>3. LagInv'
    BY <1>0, <1>1, <1>2, <1>5, <2>2 DEF CopyInv, LagInv, Stored
  <2>4. StatusInv'
    <3>1. rec.obj # None /\ rec.obj.status.obsGen <= rec.obj.gen
      BY <1>1, <2>1, AliasAbsentAssumption DEF CopyInv, StatusInv
    <3>2. /\ WithFinalizer.finalizer /\ WithFinalizer.gen \in Nat
          /\ WithFinalizer.status.obsGen <= WithFinalizer.gen
      <4>1. WithFinalizer.gen \in Nat /\ WithFinalizer.finalizer = TRUE
        BY <1>0, WrittenFields DEF Objects
      <4>2. WithFinalizer.status = rec.obj.status /\ WithFinalizer.gen >= rec.obj.gen
        BY <1>0, WrittenFields, WrittenVersion
      <4> QED
        BY <1>1, <3>1, <4>1, <4>2
    <3>3. api' = [api EXCEPT ![rec.cr] = WithFinalizer]
      BY <1>5 DEF Stored
    <3> QED
      BY <1>1, <1>2, <3>2, <3>3 DEF CopyInv, StatusInv
  <2> QED
    BY <1>3, <2>3, <2>4 DEF CopyInv
<1>6. CASE rec.pc = "setStatus" /\ Stored(rec.cr, rec.obj, WithStatus)
  <2>1. rec.obj.finalizer /\ api[rec.cr] = rec.obj
    BY <1>0, <1>6 DEF DeletionInv, Stored
  <2>2. ~ Past(rec.obj, rec.obj)
    BY <1>1, <2>1, AliasAbsentAssumption DEF Past
  <2>3. cache[rec.cr] = rec.obj
    BY <1>0, <1>6, <2>1, <2>2 DEF CopyInv, LinkInv
  <2>4. WithStatus = rec.obj \/ Past(WithStatus, rec.obj)
    BY <1>0, <1>6, WrittenFields, WrittenVersion DEF Past
  <2>5. LagInv'
    BY <1>0, <1>1, <1>2, <1>6, <2>3, <2>4 DEF CopyInv, LagInv, Stored
  <2>6. rec.status.obsGen <= rec.obj.gen
    BY <1>1, <1>6, <2>1, AliasAbsentAssumption DEF WorkInv, CopyInv, StatusInv
  <2>7. StatusInv'
    BY <1>0, <1>1, <1>2, <1>6, <2>1, <2>6, WrittenFields DEF CopyInv, StatusInv, Stored
  <2> QED
    BY <1>3, <2>5, <2>7 DEF CopyInv
<1>7. CASE rec.pc = "removeFinalizer" /\ Stored(rec.cr, rec.obj, None)
  <2>1. LagInv'
    BY <1>0, <1>1, <1>2, <1>7 DEF CopyInv, LagInv, Stored, Past
  <2>2. StatusInv'
    BY <1>0, <1>1, <1>2, <1>7 DEF CopyInv, StatusInv, Stored
  <2> QED
    BY <1>3, <2>1, <2>2 DEF CopyInv
<1> QED
  BY <1>4, <1>5, <1>6, <1>7, KubeWrites

LEMMA CopyNext ==
  ASSUME VarTypes, DeletionInv, PathInv, CopyInv, WorkInv, [Next]_vars
  PROVE  CopyInv'
<1>1. CASE \E c \in CRs : Reconcile(c)
  BY <1>1, CopyReconcile
<1>2. CASE UserOrInformerStep
  BY <1>2, UserOrInformer, CopyUser, CopyCache
<1>3. CASE AdminStep \/ UNCHANGED vars
  BY <1>3 DEF AdminStep, vars, kubeVars, CopyInv, LagInv, LinkInv, StatusInv
<1> QED
  BY <1>1, <1>2, <1>3, StepsSplit, CopyRemote, CopyKube, CopyCrash

----------------------------------------------------------------------------
\* Who becomes Ready.

\* Users do not make a resource Ready.
LEMMA UserUnready ==
  ASSUME VarTypes, StatusInv, UserSteps, NEW c \in CRs, Ready(c)'
  PROVE  api'[c] = api[c]
<1>1. api[c] # None => api[c].gen \in Nat /\ api[c].status.obsGen \in Nat
  BY DEF VarTypes, KubeTypeOK, Objects, Statuses
<1> QED
  BY <1>1, UserMoves DEF StatusInv, Ready, ReportsReady, EmptyStatus

\* A resource becomes Ready by a status update only.
LEMMA BecomesReady ==
  ASSUME VarTypes, DeletionInv, PathInv, StatusInv, [Next]_vars, NEW c \in CRs, Ready(c)'
  PROVE  \/ api'[c] = api[c]
         \/ c = rec.cr /\ rec.pc = "setStatus" /\ Stored(rec.cr, rec.obj, WithStatus)
<1>1. api \in [CRs -> Objects \union {None}]
  BY DEF VarTypes, KubeTypeOK
<1>2. CASE UserSteps
  BY <1>2, UserUnready
<1>3. CASE rec.pc = "addFinalizer" /\ Stored(rec.cr, rec.obj, WithFinalizer)
  <2>1. /\ rec.cr \in CRs /\ api[rec.cr] = rec.obj /\ rec.obj \in Objects
        /\ ~ rec.obj.finalizer
    BY <1>3, BusyFields DEF PathInv, Stored
  <2>2. rec.obj.status.ready # "True"
    BY <2>1, AliasAbsentAssumption DEF StatusInv
  <2>3. api'[rec.cr] = WithFinalizer /\ WithFinalizer.status = rec.obj.status
    BY <1>1, <1>3, <2>1, WrittenFields DEF Stored
  <2> QED
    BY <1>1, <1>3, <2>1, <2>2, <2>3 DEF Ready, ReportsReady, Stored
<1>4. CASE rec.pc = "setStatus" /\ Stored(rec.cr, rec.obj, WithStatus)
  BY <1>1, <1>4 DEF Stored
<1>5. CASE rec.pc = "removeFinalizer" /\ Stored(rec.cr, rec.obj, None)
  BY <1>1, <1>5, BusyFields DEF Ready, ReportsReady, Stored
<1> QED
  BY <1>2, <1>3, <1>4, <1>5, ObjectSteps

----------------------------------------------------------------------------
\* Everything together.

IInv == VarTypes /\ DeletionInv /\ PathInv /\ NamingInv /\ TruthInv

\* Nobody but the reconciles of a resource writes the aliases of its name.
Undisturbed == NamesKept /\ NamesApart /\ DescriptionsKept /\ NobodyElseWrites

\* An alias a reconcile refers to and that a resource describes is its own.
LEMMA OwnAlias ==
  ASSUME NamesApart, VarTypes, NamingInv, rec.pc # "idle", NEW c \in CRs, NEW u \in UUIDs,
         Refers(rec.cr, u), staged[u] # None, NEW s \in SpecsOf[c], staged[u].name = s.name
  PROVE  rec.cr = c
<1>1. rec.cr \in CRs /\ rec.obj.spec \in SpecsOf[rec.cr]
  BY BusyFields DEF NamingInv
<1>2. rec.obj.spec.name = s.name
  BY <1>1 DEF NamingInv
<1> QED
  BY <1>1, <1>2 DEF NamesApart

\* An update and a create leave exactly the alias the copy describes.
LEMMA UpdatedIsDesired ==
  ASSUME VarTypes, NamingInv, DescInv, NEW u \in UUIDs, Updated(u)
  PROVE  staged'[u] = rec.obj.spec
<1>1. rec.pc # "idle" /\ u = rec.uuid /\ staged[u] # None
  BY DEF Updated
<1>2. rec.cr \in CRs /\ rec.obj.spec \in SpecsOf[rec.cr] /\ rec.obj.spec \in Aliases
  BY <1>1, BusyFields DEF NamingInv
<1>3. staged[u] \in Aliases /\ staged[u].name = rec.obj.spec.name
  BY <1>1, <1>2 DEF VarTypes, AliasTypeOK, NamingInv, Refers
<1>4. rec.obj.spec.desc = None => staged[u].desc = None
  BY <1>1, <1>2, <1>3 DEF DescInv
<1>5. rec.obj.spec.desc = None => [rec.obj.spec EXCEPT !.desc = None] = rec.obj.spec
  BY <1>2 DEF Aliases
<1>6. staged'[u] = IF rec.obj.spec.desc = None
                   THEN [rec.obj.spec EXCEPT !.desc = staged[u].desc] ELSE rec.obj.spec
  BY <1>2, <1>3, MergeOld DEF Updated, Desired
<1> QED
  BY <1>4, <1>5, <1>6

LEMMA DescNext ==
  ASSUME Undisturbed, VarTypes, PathInv, NamingInv, DescInv, [Next]_vars
  PROVE  DescInv'
<1> USE DEF Undisturbed
<1> SUFFICES ASSUME NEW c \in CRs, NEW u \in UUIDs, NEW s \in SpecsOf[c],
                    staged'[u] # None, staged'[u].name = s.name, s.desc = None
             PROVE  staged'[u].desc = None
  BY DEF DescInv
<1>1. CASE staged'[u] = staged[u]
  BY <1>1 DEF DescInv
<1>2. CASE Updated(u) \/ Created(u)
  <2>1. staged'[u] = rec.obj.spec
    BY <1>2, UpdatedIsDesired DEF Created
  <2>2. rec.pc # "idle" /\ rec.cr \in CRs /\ rec.obj.spec \in SpecsOf[rec.cr]
    BY <1>2, BusyFields DEF Updated, Created, NamingInv
  <2>3. rec.cr = c
    BY <2>1, <2>2 DEF NamesApart
  <2> QED
    BY <2>1, <2>2, <2>3 DEF DescriptionsKept
<1> QED
  BY <1>1, <1>2, StagedChanges DEF Added, Deleted, Edited

\* No write reaches the alias of a Ready resource.
LEMMA ReadyAliasKept ==
  ASSUME Undisturbed, VarTypes, PathInv, NamingInv, ReadyInv, WorkInv,
         [Next]_vars, NEW c \in CRs, Ready(c)
  PROVE  staged'[api[c].status.uuid] = staged[api[c].status.uuid]
<1> USE DEF Undisturbed
<1>1. PICK u \in UUIDs : u = api[c].status.uuid
  BY DEF ReadyInv, Synced
<1>2. /\ api[c] # None /\ api[c].spec \in SpecsOf[c] /\ api[c].spec \in Aliases
      /\ staged[u] = api[c].spec
  BY <1>1, SpecsAreAliases DEF ReadyInv, Synced, Ready, ReportsReady, NamingInv, Specs
<1>3. staged[u] # None
  BY <1>2, AliasAbsentAssumption
<1> SUFFICES ASSUME staged'[u] # staged[u] PROVE FALSE
  BY <1>1
<1>4. Updated(u) \/ Deleted(u)
  BY <1>3, StagedChanges DEF Created, Added, Edited, Fresh
<1>5. rec.pc \in {"update", "delete"} /\ rec.uuid = u
  BY <1>4 DEF Updated, Deleted
<1>6. rec.cr = c
  BY <1>2, <1>3, <1>5, OwnAlias DEF Refers
<1> QED
  BY <1>5, <1>6 DEF WorkInv, PathInv

LEMMA ReadyNext ==
  ASSUME Undisturbed, IInv, [Next]_vars
  PROVE  ReadyInv'
<1> USE DEF IInv, TruthInv, CopyInv
<1> SUFFICES ASSUME NEW c \in CRs, Ready(c)'
             PROVE  /\ Synced(api[c].spec, api[c].status)'
                    /\ cache'[c] # None /\ cache'[c].spec = api'[c].spec
                    /\ ~ cache'[c].deleting
  BY DEF ReadyInv
<1>1. CASE api'[c] = api[c]
  <2>1. Ready(c)
    BY <1>1 DEF Ready, ReportsReady
  <2>2. /\ Synced(api[c].spec, api[c].status)
        /\ cache[c] # None /\ cache[c].spec = api[c].spec /\ ~ cache[c].deleting
    BY <2>1 DEF ReadyInv
  <2>3. staged'[api[c].status.uuid] = staged[api[c].status.uuid]
    BY <2>1, ReadyAliasKept
  <2>4. Synced(api[c].spec, api[c].status)'
    BY <1>1, <2>2, <2>3 DEF Synced
  <2>5. api[c] # None /\ ~ api[c].deleting
    BY <2>1 DEF Ready, ReportsReady
  <2> QED
    BY <1>1, <2>2, <2>4, <2>5, CacheSteps
<1>2. CASE c = rec.cr /\ rec.pc = "setStatus" /\ Stored(rec.cr, rec.obj, WithStatus)
           /\ api'[c] # api[c]
  <2>1. rec.obj \in Objects /\ api[c] = rec.obj /\ api'[c] = WithStatus
    BY <1>2, BusyFields DEF Stored, VarTypes, KubeTypeOK
  <2>2. /\ WithStatus.spec = rec.obj.spec /\ WithStatus.status = rec.status
        /\ WithStatus.deleting = rec.obj.deleting /\ rec.obj.finalizer
    BY <1>2, WrittenFields DEF DeletionInv
  <2>3. rec.status.ready = "True" /\ ~ rec.obj.deleting
    BY <2>1, <2>2 DEF Ready, ReportsReady
  <2>4. Synced(rec.obj.spec, rec.status)
    BY <1>2, <2>3 DEF WorkInv
  <2>5. UNCHANGED staged
    BY <1>2, ObjectSteps
  <2>6. Synced(api[c].spec, api[c].status)'
    BY <2>1, <2>2, <2>4, <2>5 DEF Synced
  <2>7. ~ Past(rec.obj, rec.obj)
    BY <2>1, <2>2, AliasAbsentAssumption DEF Past, Objects
  <2>8. cache[c] = rec.obj
    BY <1>2, <2>1, <2>7 DEF LinkInv
  <2>9. cache'[c] = rec.obj
    BY <2>1, <2>8, CacheSteps
  <2> QED
    BY <2>1, <2>2, <2>3, <2>6, <2>9, AliasAbsentAssumption
<1> QED
  BY <1>1, <1>2, BecomesReady

----------------------------------------------------------------------------
\* The reconcile in progress.

\* A reconcile that is over, or that goes on before it reports.
LEMMA WorkReturns ==
  ASSUME rec' = Idle
  PROVE  WorkInv'
  BY DEF WorkInv, Idle

LEMMA WorkGoesOn ==
  ASSUME IInv, UNCHANGED api, rec.pc # "idle", rec'.cr = rec.cr, rec'.obj = rec.obj,
         rec'.pc \notin {"create", "update", "reconfigure", "setStatus"}
  PROVE  WorkInv'
  BY DEF WorkInv, IInv, TruthInv, Ready, ReportsReady

LEMMA WorkFailed ==
  ASSUME IInv, UNCHANGED api, rec.pc # "idle", SetReadyFailed
  PROVE  WorkInv'
<1>1. /\ rec'.pc = "setStatus" /\ rec'.cr = rec.cr /\ rec'.obj = rec.obj
      /\ rec'.status.obsGen = rec.obj.status.obsGen /\ rec'.status.ready = "False"
  BY BusyFields DEF SetReadyFailed, Busy, Statuses, IInv
<1>2. Ready(rec.cr)' => Ready(rec.cr)
  BY <1>1 DEF Ready, ReportsReady
<1> QED
  BY <1>1, <1>2 DEF WorkInv, IInv, TruthInv, Ready, ReportsReady

\* A reconcile that has seen or put into force the right alias goes on to report it.
LEMMA WorkSuccess ==
  ASSUME IInv, UNCHANGED <<api, staged>>, rec.pc # "idle", NEW u \in UUIDs,
         staged[u] = rec.obj.spec, SetReadySuccess(u)
  PROVE  WorkInv'
<1>1. /\ rec'.pc = "setStatus" /\ rec'.cr = rec.cr /\ rec'.obj = rec.obj
      /\ rec'.status.obsGen = rec.obj.gen /\ rec'.status.uuid = u
  BY BusyFields DEF SetReadySuccess, Success, Busy, IInv
<1>2. Synced(rec.obj.spec, rec.status)'
  BY <1>1 DEF Synced
<1>3. Ready(rec.cr)' => Ready(rec.cr)
  BY <1>1 DEF Ready, ReportsReady
<1> QED
  BY <1>1, <1>2, <1>3 DEF WorkInv, IInv, TruthInv, Ready, ReportsReady

\* The alias a reconcile of a Ready resource found is the one it is Ready for.
LEMMA ReadyAliasFound ==
  ASSUME IInv, rec.pc # "idle", Ready(rec.cr), NEW u \in UUIDs, Present(u),
         staged[u].name = rec.obj.spec.name
  PROVE  staged[u] = rec.obj.spec
<1> USE DEF IInv, TruthInv
<1>1. rec.cr \in CRs /\ rec.obj.spec \in Aliases
  BY BusyFields
<1>2. PICK v \in UUIDs : staged[v] = rec.obj.spec
  BY <1>1 DEF ReadyInv, Synced, WorkInv
<1>3. rec.obj.spec.name \in Names /\ staged[v] # None
  BY <1>1, <1>2, AliasAbsentAssumption DEF Aliases
<1>4. u \in Named(rec.obj.spec.name) /\ v \in Named(rec.obj.spec.name)
  BY <1>2, <1>3 DEF Named, Present
<1> QED
  BY <1>2, <1>3, <1>4 DEF VarTypes

\* With its name right, an alias that needs no update is exactly the one described.
LEMMA NoDrift ==
  ASSUME NEW spec \in Aliases, NEW existing \in Aliases, spec.name = existing.name
  PROVE  AliasNeedsUpdate(spec, existing) <=> existing # spec
  BY DEF AliasNeedsUpdate, Aliases

LEMMA WorkFound ==
  ASSUME IInv, UNCHANGED <<api, staged>>, rec.pc # "idle", NEW u \in UUIDs, Present(u),
         Refers(rec.cr, u), Found(u)
  PROVE  WorkInv'
<1>1. rec \in Busy /\ rec.cr \in CRs /\ rec.obj.spec \in SpecsOf[rec.cr]
      /\ rec.obj.spec \in Aliases
  BY BusyFields DEF IInv, NamingInv
<1>2. staged[u] \in Aliases /\ staged[u].name = rec.obj.spec.name
  BY <1>1 DEF IInv, VarTypes, AliasTypeOK, NamingInv, Present
<1>3. AliasNeedsUpdate(rec.obj.spec, staged[u]) <=> staged[u] # rec.obj.spec
  BY <1>1, <1>2, NoDrift
<1>4. CASE AliasNeedsUpdate(rec.obj.spec, staged[u])
           /\ rec' = [rec EXCEPT !.pc = "update", !.uuid = u]
  <2>1. ~ Ready(rec.cr)
    BY <1>2, <1>3, <1>4, ReadyAliasFound
  <2>2. rec'.pc = "update" /\ rec'.cr = rec.cr
    BY <1>1, <1>4 DEF Busy
  <2> QED
    BY <2>1, <2>2 DEF WorkInv, Ready, ReportsReady
<1>5. CASE Return(FALSE)
  BY <1>5, WorkReturns DEF Return
<1>6. CASE ~ AliasNeedsUpdate(rec.obj.spec, staged[u]) /\ SetReadySuccess(u)
  BY <1>3, <1>6, WorkSuccess
<1> QED
  BY <1>4, <1>5, <1>6 DEF Found

LEMMA WorkReconcile ==
  ASSUME IInv, NEW c \in CRs, Reconcile(c)
  PROVE  WorkInv'
<1>1. UNCHANGED api /\ rec = Idle
  BY DEF Reconcile
<1>2. CASE UNCHANGED rec
  BY <1>1, <1>2, WorkReturns
<1>3. CASE /\ rec'.pc \in {"removeFinalizer", "buildClient", "addFinalizer"}
           /\ rec'.cr = c /\ rec'.obj = cache[c]
  <2>1. Ready(c)' => Ready(c)
    BY <1>1 DEF Ready, ReportsReady
  <2> QED
    BY <1>1, <1>3, <2>1 DEF WorkInv, IInv, TruthInv, ReadyInv
<1> QED
  BY <1>2, <1>3, ReconcileGoesOn DEF IInv

LEMMA WorkResolve ==
  ASSUME IInv,
         \/ BuildOPNsenseClient \/ BuildClientFails \/ GetRecordedAlias
         \/ GetAliasUUIDByName \/ GetMatchedAlias \/ ReadFails
  PROVE  WorkInv'
<1>1. /\ rec.pc \notin {"idle", "addFinalizer"} /\ rec \in Busy /\ VarTypes
      /\ rec.cr \in CRs /\ rec.obj.spec \in SpecsOf[rec.cr] /\ rec.obj.spec \in Aliases
      /\ UNCHANGED <<api, staged>>
  BY BusyFields
     DEF IInv, NamingInv, BuildOPNsenseClient, BuildClientFails, GetRecordedAlias,
         GetAliasUUIDByName, GetMatchedAlias, ReadFails, ReadCalls, kubeVars, aliasVars
<1>2. CASE BuildClientFails \/ ReadFails \/ SetReadyFailed
  BY <1>1, <1>2, WorkFailed DEF BuildClientFails, ReadFails
<1>3. CASE BuildOPNsenseClient
  BY <1>1, <1>3, WorkGoesOn DEF BuildOPNsenseClient, Busy
<1>4. CASE GetRecordedAlias
  <2>1. CASE Present(rec.obj.status.uuid) /\ Found(rec.obj.status.uuid)
    <3>1. rec.obj.status.uuid \in UUIDs /\ rec.obj # None
      BY <1>1, <2>1, BusyFields, AliasAbsentAssumption DEF Present
    <3>2. Refers(rec.cr, rec.obj.status.uuid)
      BY <3>1 DEF Refers, UuidOf
    <3> QED
      BY <1>1, <2>1, <3>1, <3>2, WorkFound
  <2>2. CASE rec' = [rec EXCEPT !.pc = "getByName"]
    BY <1>1, <2>2, WorkGoesOn DEF Busy
  <2> QED
    BY <1>4, <2>1, <2>2 DEF GetRecordedAlias
<1>5. CASE GetAliasUUIDByName
  <2>1. CASE Named(rec.obj.spec.name) = {} /\ rec' = [rec EXCEPT !.pc = "create"]
    <3>1. ASSUME Ready(rec.cr) PROVE FALSE
      <4>1. PICK v \in UUIDs : staged[v] = rec.obj.spec
        BY <1>1, <3>1 DEF IInv, TruthInv, ReadyInv, Synced, WorkInv
      <4>2. v \in Named(rec.obj.spec.name)
        BY <1>1, <4>1, AliasAbsentAssumption DEF Named
      <4> QED
        BY <2>1, <4>2
    <3>2. rec'.pc = "create" /\ rec'.cr = rec.cr
      BY <1>1, <2>1 DEF Busy
    <3> QED
      BY <1>1, <3>1, <3>2 DEF WorkInv, Ready, ReportsReady
  <2>2. CASE \E u : rec' = [rec EXCEPT !.pc = "getMatch", !.uuid = u]
    BY <1>1, <2>2, WorkGoesOn DEF Busy
  <2> QED
    BY <1>5, <2>1, <2>2 DEF GetAliasUUIDByName
<1>6. CASE GetMatchedAlias
  <2>1. CASE Present(rec.uuid) /\ Found(rec.uuid)
    BY <1>1, <2>1, BusyFields, WorkFound DEF Present, Refers
  <2> QED
    BY <1>2, <1>6, <2>1 DEF GetMatchedAlias
<1> QED
  BY <1>2, <1>3, <1>4, <1>5, <1>6

LEMMA WorkWrite ==
  ASSUME IInv,
         CreateAlias \/ UpdateAlias \/ ReconfigureAliases \/ DeleteAlias \/ ReconfigureDeletion
  PROVE  WorkInv'
<1>1. rec.pc # "idle" /\ rec \in Busy /\ VarTypes /\ UNCHANGED api
  BY BusyFields
     DEF IInv, CreateAlias, UpdateAlias, ReconfigureAliases, DeleteAlias,
         ReconfigureDeletion, kubeVars
<1>2. CASE SetReadyFailed
  BY <1>1, <1>2, WorkFailed
<1>3. ASSUME rec.pc \in {"create", "update"}, rec'.pc = "reconfigure", rec'.cr = rec.cr,
             rec'.obj = rec.obj, staged'[rec'.uuid] = rec.obj.spec
      PROVE  WorkInv'
  <2>1. Ready(rec.cr)' => Ready(rec.cr)
    BY <1>1, <1>3 DEF Ready, ReportsReady
  <2> QED
    BY <1>1, <1>3, <2>1 DEF WorkInv, IInv, TruthInv, Ready, ReportsReady
<1>4. staged \in [UUIDs -> Aliases \union {None}] /\ rec.obj.spec \in Aliases
  BY <1>1, BusyFields DEF VarTypes, AliasTypeOK
<1>5. CASE CreateAlias
  <2>1. ASSUME NEW u \in UUIDs, Fresh(u), AddItem(u, Desired),
               rec' = [rec EXCEPT !.pc = "reconfigure", !.uuid = u]
        PROVE  WorkInv'
    <3>1. rec'.pc = "reconfigure" /\ rec'.cr = rec.cr /\ rec'.obj = rec.obj /\ rec'.uuid = u
      BY <1>1, <2>1 DEF Busy
    <3>2. staged'[u] = rec.obj.spec
      BY <1>4, <2>1, MergeNew DEF AddItem, Desired
    <3> QED
      BY <1>3, <1>5, <3>1, <3>2 DEF CreateAlias
  <2> QED
    BY <1>2, <1>5, <2>1 DEF CreateAlias
<1>6. CASE UpdateAlias
  <2>1. CASE SetItem(rec.uuid, Desired) /\ rec' = [rec EXCEPT !.pc = "reconfigure"]
    <3>1. /\ rec'.pc = "reconfigure" /\ rec'.cr = rec.cr /\ rec'.obj = rec.obj
          /\ rec'.uuid = rec.uuid
      BY <1>1, <2>1 DEF Busy
    <3>2. rec.uuid \in UUIDs
      BY <1>6 DEF UpdateAlias, IInv, PathInv
    <3>3. Updated(rec.uuid)
      BY <1>4, <1>6, <2>1, <3>2 DEF Updated, RemoteSteps, UpdateAlias, SetItem, Present
    <3>4. staged'[rec.uuid] = rec.obj.spec
      BY <1>1, <3>2, <3>3, UpdatedIsDesired DEF IInv, TruthInv
    <3> QED
      BY <1>3, <1>6, <3>1, <3>4 DEF UpdateAlias
  <2> QED
    BY <1>2, <1>6, <2>1 DEF UpdateAlias
<1>7. CASE ReconfigureAliases
  <2>1. /\ rec.uuid \in UUIDs /\ staged[rec.uuid] = rec.obj.spec
        /\ UNCHANGED staged /\ SetReadySuccess(rec.uuid)
    BY <1>7 DEF ReconfigureAliases, Reconfigure, IInv, PathInv, TruthInv, WorkInv
  <2> QED
    BY <1>1, <2>1, WorkSuccess
<1>8. CASE DeleteAlias \/ ReconfigureDeletion
  BY <1>1, <1>8, WorkGoesOn DEF DeleteAlias, ReconfigureDeletion, Busy
<1> QED
  BY <1>5, <1>6, <1>7, <1>8

\* Steps of everybody else leave the alias the reconcile relies on alone.
LEMMA WorkQuiet ==
  ASSUME Undisturbed, IInv, [Next]_vars,
         UserOrInformerStep \/ AdminStep \/ UNCHANGED vars
  PROVE  WorkInv'
<1> USE DEF IInv, TruthInv, CopyInv
<1>1. UNCHANGED rec
  BY DEF UserOrInformerStep, AdminStep, vars
<1>2. ASSUME NEW u \in UUIDs, staged[u] # None PROVE staged'[u] = staged[u]
  <2>1. CASE AdminStep
    BY <1>2, <2>1, AdminWrites DEF Added, Edited, Fresh, Undisturbed
  <2> QED
    BY <2>1 DEF UserOrInformerStep, vars, aliasVars
<1>3. rec.pc # "idle" /\ Ready(rec.cr)' => Ready(rec.cr) /\ api'[rec.cr] = api[rec.cr]
  <2> SUFFICES ASSUME rec.pc # "idle", Ready(rec.cr)'
               PROVE  Ready(rec.cr) /\ api'[rec.cr] = api[rec.cr]
    OBVIOUS
  <2>1. rec.cr \in CRs
    BY BusyFields
  <2>2. CASE api'[rec.cr] = api[rec.cr]
    BY <1>1, <2>2 DEF Ready, ReportsReady
  <2>3. CASE UserSteps
    BY <1>1, <2>1, <2>2, <2>3, UserUnready
  <2>4. CASE UNCHANGED api
    BY <2>2, <2>4
  <2> QED
    BY <2>3, <2>4, UserOrInformer DEF AdminStep, vars, kubeVars
<1>4. rec.pc # "idle" => rec.obj.spec # None
  BY BusyFields, AliasAbsentAssumption
<1>5. ASSUME rec.pc = "reconfigure" PROVE staged'[rec.uuid] = rec.obj.spec
  <2>1. rec.uuid \in UUIDs /\ staged[rec.uuid] = rec.obj.spec
    BY <1>5 DEF WorkInv, PathInv
  <2> QED
    BY <1>2, <1>4, <1>5, <2>1
<1>6. ASSUME rec.pc = "setStatus", rec.status.ready = "True"
      PROVE  Synced(rec.obj.spec, rec.status)'
  <2>1. Synced(rec.obj.spec, rec.status)
    BY <1>6 DEF WorkInv
  <2> QED
    BY <1>1, <1>2, <1>4, <1>6, <2>1 DEF Synced
<1> QED
  BY <1>1, <1>3, <1>5, <1>6 DEF WorkInv

LEMMA WorkNext ==
  ASSUME Undisturbed, IInv, [Next]_vars
  PROVE  WorkInv'
<1>1. CASE \E c \in CRs : Reconcile(c)
  BY <1>1, WorkReconcile
<1>2. CASE KubeSteps \/ Crash
  BY <1>2, KubeWrites, WorkReturns DEF Crash, IInv
<1>3. CASE WriteFails
  <2>1. SetReadyFailed /\ UNCHANGED api /\ rec.pc # "idle"
    BY <1>3 DEF WriteFails, WriteCalls, kubeVars
  <2> QED
    BY <2>1, WorkFailed
<1>4. CASE RemoteSteps
  BY <1>3, <1>4, WorkResolve, WorkWrite DEF RemoteSteps
<1> QED
  BY <1>1, <1>2, <1>4, StepsSplit, WorkQuiet

LEMMA TruthInit == Init => TruthInv
  BY AliasAbsentAssumption
     DEF Init, KubeInit, AliasInit, Idle, TruthInv, CopyInv, LagInv, LinkInv, StatusInv,
         DescInv, ReadyInv, WorkInv, Ready, ReportsReady

\* As long as names and descriptions stay, no two resources claim one name and
\* nobody else writes their aliases, Ready is the truth, whatever stale copies, lost
\* replies, crashes and conflicting edits the controller meets.
THEOREM ReadyCorrect ==
  ASSUME NamesKept, NamesApart, DescriptionsKept, NobodyElseWrites
  PROVE  Spec => []ReadyIsTruthful
<1>1. Init => IInv
  BY TypeInit, DeletionInit, PathInit, NamingInit, TruthInit DEF IInv
<1>2. IInv /\ [Next]_vars => IInv'
  <2> SUFFICES ASSUME IInv, [Next]_vars PROVE IInv'
    OBVIOUS
  <2>1. VarTypes' /\ DeletionInv' /\ PathInv' /\ NamingInv'
    BY TypeNext, DeletionNext, PathNext, NamingNext DEF IInv
  <2>2. CopyInv'
    BY CopyNext DEF IInv, TruthInv
  <2>3. DescInv'
    BY DescNext DEF IInv, TruthInv, Undisturbed
  <2>4. ReadyInv' /\ WorkInv'
    BY ReadyNext, WorkNext DEF Undisturbed
  <2> QED
    BY <2>1, <2>2, <2>3, <2>4 DEF IInv, TruthInv
<1>3. IInv => ReadyIsTruthful
  BY DEF IInv, TruthInv, ReadyInv, Ready, Synced, ReadyIsTruthful
<1> QED
  BY <1>1, <1>2, <1>3, PTL DEF Spec
=============================================================================

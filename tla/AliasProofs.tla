---------------------------- MODULE AliasProofs ----------------------------
(***************************************************************************)
(* Theorems about Alias, for every value of its constants: its variables   *)
(* have their types and alias names stay unique, and the controller        *)
(* implements ManagedResource.                                             *)
(***************************************************************************)
EXTENDS Alias, TLAPS

----------------------------------------------------------------------------
\* Requests.  What a request makes of an alias is an alias.

LEMMA MergeNew ==
  ASSUME NEW a \in Aliases
  PROVE  Merge([desc |-> None], EncodeAlias(a)) = a
<1> DEFINE F == {"name", "content", "desc", "enabled"}
           r == EncodeAlias(a)
<1>1. CASE a.desc = None
  <2>1. r = [name |-> a.name, content |-> a.content, enabled |-> a.enabled]
    BY <1>1 DEF EncodeAlias
  <2>2. DOMAIN r = {"name", "content", "enabled"} /\ DOMAIN [desc |-> None] = {"desc"}
    BY <2>1
  <2>3. DOMAIN [desc |-> None] \union DOMAIN r = F
    BY <2>2
  <2>4. Merge([desc |-> None], r) =
          [f \in F |-> IF f \in DOMAIN r THEN r[f] ELSE [desc |-> None][f]]
    BY <2>3 DEF Merge
  <2> QED
    BY <1>1, <2>1, <2>2, <2>4 DEF Aliases
<1>2. CASE a.desc # None
  <2>1. r = a /\ DOMAIN r = F
    BY <1>2 DEF EncodeAlias, Aliases
  <2>2. Merge([desc |-> None], r) = [f \in F |-> r[f]]
    BY <2>1 DEF Merge
  <2> QED
    BY <1>2, <2>1, <2>2 DEF Aliases
<1> QED
  BY <1>1, <1>2

LEMMA MergeOld ==
  ASSUME NEW a \in Aliases, NEW old \in Aliases
  PROVE  Merge(old, EncodeAlias(a)) = IF a.desc = None THEN [a EXCEPT !.desc = old.desc] ELSE a
<1> DEFINE F == {"name", "content", "desc", "enabled"}
           r == EncodeAlias(a)
<1>1. DOMAIN old = F
  BY DEF Aliases
<1>2. CASE a.desc = None
  <2>1. r = [name |-> a.name, content |-> a.content, enabled |-> a.enabled]
    BY <1>2 DEF EncodeAlias
  <2>2. DOMAIN r = {"name", "content", "enabled"}
    BY <2>1
  <2>3. Merge(old, r) =
          [f \in F |-> IF f \in {"name", "content", "enabled"} THEN r[f] ELSE old[f]]
    BY <1>1, <2>2 DEF Merge
  <2> QED
    BY <1>2, <2>1, <2>3 DEF Aliases
<1>3. CASE a.desc # None
  <2>1. r = a /\ DOMAIN r = F
    BY <1>3 DEF EncodeAlias, Aliases
  <2>2. Merge(old, r) = [f \in F |-> r[f]]
    BY <1>1, <2>1 DEF Merge
  <2> QED
    BY <1>3, <2>1, <2>2 DEF Aliases
<1> QED
  BY <1>2, <1>3

\* A request of a complete alias names it and keeps the type.
LEMMA MergedAlias ==
  ASSUME NEW a \in Aliases, NEW old \in Aliases
  PROVE  /\ EncodeAlias(a).name = a.name /\ EncodeAlias(a).content = a.content
         /\ Merge(old, EncodeAlias(a)) \in Aliases
         /\ Merge(old, EncodeAlias(a)).name = a.name
<1>1. EncodeAlias(a).name = a.name /\ EncodeAlias(a).content = a.content
  BY DEF EncodeAlias
<1>2. [a EXCEPT !.desc = old.desc] \in Aliases /\ [a EXCEPT !.desc = old.desc].name = a.name
  BY DEF Aliases
<1> QED
  BY <1>1, <1>2, MergeOld

\* What the administrator adds is a new alias without a description.
LEMMA AdminAlias ==
  ASSUME NEW n \in Names, NEW b \in Contents
  PROVE  /\ [name |-> n, content |-> b, desc |-> None, enabled |-> TRUE] \in Aliases
         /\ Merge([desc |-> None], [name |-> n, content |-> b, enabled |-> TRUE]) =
              [name |-> n, content |-> b, desc |-> None, enabled |-> TRUE]
<1> DEFINE a == [name |-> n, content |-> b, desc |-> None, enabled |-> TRUE]
<1>1. a \in Aliases
  BY DEF Aliases
<1>2. EncodeAlias(a) = [name |-> n, content |-> b, enabled |-> TRUE]
  BY DEF EncodeAlias
<1> QED
  BY <1>1, <1>2, MergeNew

----------------------------------------------------------------------------
\* Type correctness.

\* Names are unique in the configuration.
UniqueNames == \A n \in Names : \A u, v \in Named(n) : u = v

LEMMA EmptyStatusType == EmptyStatus \in Statuses
  BY DEF EmptyStatus, Statuses

\* A user's spec is an alias.
LEMMA SpecsAreAliases == Specs \subseteq Aliases
  BY AliasSpecsAssumption DEF Aliases

\* The parts of the state that a call reads have their types.
LEMMA BusyFields ==
  ASSUME VarTypes, rec.pc # "idle"
  PROVE  /\ rec \in Busy
         /\ rec.cr \in CRs /\ rec.obj \in Objects /\ rec.status \in Statuses
         /\ rec.uuid \in UUIDs \union {None}
         /\ rec.obj.status \in Statuses
         /\ rec.obj.status.uuid \in UUIDs \union {None}
         /\ rec.obj.spec \in Specs /\ rec.obj.spec \in Aliases
  BY SpecsAreAliases DEF VarTypes, Busy, Idle, Objects, Statuses

LEMMA TypeInit == Init => VarTypes
  BY DEF Init, KubeInit, AliasInit, VarTypes, KubeTypeOK, AliasTypeOK, Named

\* setReadyFailed leaves a well-formed reconcile.
LEMMA TypeFailed ==
  ASSUME VarTypes, rec.pc # "idle", SetReadyFailed
  PROVE  rec' \in Busy
<1>1. [rec.obj.status EXCEPT !.ready = "False"] \in Statuses
  BY BusyFields DEF Statuses
<1> QED
  BY <1>1, BusyFields DEF SetReadyFailed, Busy, KubeCalls

\* setReadySuccess leaves a well-formed reconcile.
LEMMA TypeSuccess ==
  ASSUME VarTypes, rec.pc # "idle", NEW u \in UUIDs, SetReadySuccess(u)
  PROVE  rec' \in Busy
<1>1. rec.obj.gen \in Nat
  BY BusyFields DEF Objects
<1>2. Success(u) \in Statuses
  BY <1>1 DEF Success, Statuses
<1> QED
  BY <1>2, BusyFields DEF SetReadySuccess, Busy, KubeCalls

\* What is staged stays well typed and uniquely named when one alias is written
\* under a name that nobody else has.
StagedOK == AliasTypeOK /\ UniqueNames

LEMMA WriteOne ==
  ASSUME StagedOK, NEW u \in UUIDs, NEW a \in Aliases, Named(a.name) \subseteq {u},
         staged' = [staged EXCEPT ![u] = a], UNCHANGED running
  PROVE  StagedOK'
<1>1. AliasTypeOK'
  BY DEF StagedOK, AliasTypeOK
<1>2. ASSUME NEW v \in UUIDs PROVE staged'[v] = IF v = u THEN a ELSE staged[v]
  BY DEF StagedOK, AliasTypeOK
<1>3. ASSUME NEW n \in Names, NEW v \in Named(n)', NEW w \in Named(n)' PROVE v = w
  <2>1. v \in UUIDs /\ staged'[v] # None /\ staged'[v].name = n
    BY <1>3 DEF Named
  <2>2. w \in UUIDs /\ staged'[w] # None /\ staged'[w].name = n
    BY <1>3 DEF Named
  <2>3. CASE a.name # n
    BY <1>2, <2>1, <2>2, <2>3 DEF StagedOK, UniqueNames, Named
  <2>4. CASE a.name = n
    BY <1>2, <2>1, <2>2, <2>4 DEF Named
  <2> QED
    BY <2>3, <2>4
<1> QED
  BY <1>1, <1>3 DEF StagedOK, UniqueNames

LEMMA TypeAddItem ==
  ASSUME StagedOK, NEW u \in UUIDs, NEW a \in Aliases, AddItem(u, EncodeAlias(a))
  PROVE  StagedOK'
<1>1. EncodeAlias(a).name = a.name /\ Merge([desc |-> None], EncodeAlias(a)) = a
  BY MergedAlias, MergeNew
<1>2. Named(a.name) = {} \/ Named(a.name) \subseteq {u}
  BY <1>1 DEF AddItem, Accepts
<1> QED
  BY <1>1, <1>2, WriteOne DEF AddItem

LEMMA TypeSetItem ==
  ASSUME StagedOK, NEW u \in UUIDs \union {None}, NEW a \in Aliases,
         SetItem(u, EncodeAlias(a))
  PROVE  StagedOK'
<1>1. u \in UUIDs /\ staged[u] \in Aliases
  BY DEF SetItem, Present, StagedOK, AliasTypeOK
<1>2. /\ Merge(staged[u], EncodeAlias(a)) \in Aliases
      /\ Merge(staged[u], EncodeAlias(a)).name = a.name
      /\ EncodeAlias(a).name = a.name
  BY <1>1, MergedAlias
<1> QED
  BY <1>1, <1>2, WriteOne DEF SetItem, Accepts

LEMMA TypeDelItem ==
  ASSUME StagedOK, NEW u, DelItem(u)
  PROVE  StagedOK'
<1>1. AliasTypeOK'
  BY DEF StagedOK, AliasTypeOK, DelItem
<1>2. \A v \in UUIDs : staged'[v] \in {staged[v], None}
  BY DEF StagedOK, AliasTypeOK, DelItem
<1> QED
  BY <1>1, <1>2 DEF StagedOK, UniqueNames, Named

LEMMA TypeReconfigure ==
  ASSUME StagedOK, Reconfigure
  PROVE  StagedOK'
  BY DEF StagedOK, AliasTypeOK, UniqueNames, Named, Reconfigure

LEMMA StagedKept ==
  ASSUME StagedOK, UNCHANGED aliasVars
  PROVE  StagedOK'
  BY DEF StagedOK, AliasTypeOK, UniqueNames, Named, aliasVars

\* VarTypes in parts.
LEMMA TypeParts == VarTypes <=> KubeTypeOK /\ StagedOK /\ rec \in Busy \union {Idle}
  BY DEF VarTypes, StagedOK, UniqueNames

LEMMA TypePartsNext ==
  ASSUME KubeTypeOK', StagedOK', rec' \in Busy \union {Idle}
  PROVE  VarTypes'
  BY DEF VarTypes, StagedOK, UniqueNames, Busy, Idle

\* The objects users leave behind are objects.
LEMMA TypeUserObjects ==
  ASSUME NEW s \in Specs
  PROVE  /\ [gen |-> 1, spec |-> s, deleting |-> FALSE, finalizer |-> FALSE,
             status |-> EmptyStatus] \in Objects
         /\ \A o \in Objects :
              /\ [o EXCEPT !.spec = s, !.gen = o.gen + 1] \in Objects
              /\ [o EXCEPT !.deleting = TRUE] \in Objects
<1>1. [gen |-> 1, spec |-> s, deleting |-> FALSE, finalizer |-> FALSE,
       status |-> EmptyStatus] \in Objects
  BY EmptyStatusType DEF Objects
<1>2. ASSUME NEW o \in Objects
      PROVE  /\ [o EXCEPT !.spec = s, !.gen = o.gen + 1] \in Objects
             /\ [o EXCEPT !.deleting = TRUE] \in Objects
  <2>1. o.gen + 1 \in Nat
    BY DEF Objects
  <2> QED
    BY <2>1 DEF Objects
<1> QED
  BY <1>1, <1>2

LEMMA TypeUser ==
  ASSUME VarTypes, UserOrInformerStep
  PROVE  VarTypes'
<1>1. ASSUME NEW c \in CRs, NEW s \in Specs, UserCreates(c, s) PROVE KubeTypeOK'
  BY <1>1, TypeUserObjects DEF UserCreates, VarTypes, KubeTypeOK
<1>2. ASSUME NEW c \in CRs, NEW s \in Specs, UserEdits(c, s) PROVE KubeTypeOK'
  BY <1>2, TypeUserObjects DEF UserEdits, VarTypes, KubeTypeOK
<1>3. ASSUME NEW c \in CRs, UserDeletes(c) PROVE KubeTypeOK'
  <2>1. api[c] \in Objects /\ api[c].spec \in Specs
    BY <1>3 DEF UserDeletes, VarTypes, KubeTypeOK, Objects
  <2> QED
    BY <1>3, <2>1, TypeUserObjects DEF UserDeletes, VarTypes, KubeTypeOK
<1>4. ASSUME NEW c \in CRs, WatchEvent(c) \/ Resync(c) PROVE KubeTypeOK'
  BY <1>4 DEF WatchEvent, Resync, VarTypes, KubeTypeOK
<1>5. KubeTypeOK'
  BY <1>1, <1>2, <1>3, <1>4 DEF UserOrInformerStep, Specs
<1>6. UNCHANGED <<aliasVars, rec>>
  BY DEF UserOrInformerStep
<1> QED
  BY <1>5, <1>6, TypeParts, StagedKept, TypePartsNext

LEMMA TypeReconcile ==
  ASSUME VarTypes, NEW c \in CRs, Reconcile(c)
  PROVE  VarTypes'
<1>1. KubeTypeOK' /\ UNCHANGED aliasVars
  BY DEF Reconcile, VarTypes, KubeTypeOK
<1>2. ASSUME cache[c] \in Objects,
             NEW pc \in {"buildClient", "addFinalizer", "removeFinalizer"},
             rec' = [Idle EXCEPT !.pc = pc, !.cr = c, !.obj = cache[c]]
      PROVE  rec' \in Busy
  BY <1>2, EmptyStatusType DEF Idle, Busy, KubeCalls
<1>3. rec' \in Busy \union {Idle}
  BY <1>2 DEF Reconcile, VarTypes, KubeTypeOK
<1> QED
  BY <1>1, <1>3, TypeParts, StagedKept, TypePartsNext

\* The decision on an alias found in the firewall.
LEMMA TypeFound ==
  ASSUME VarTypes, rec.pc # "idle", NEW u \in UUIDs, Found(u)
  PROVE  rec' \in Busy \union {Idle} /\ cache' = cache /\ queue' \subseteq CRs
<1>1. queue \subseteq CRs
  BY DEF VarTypes, KubeTypeOK
<1>2. CASE rec' = [rec EXCEPT !.pc = "update", !.uuid = u] /\ UNCHANGED <<cache, queue>>
  BY <1>1, <1>2, BusyFields DEF Busy, WriteCalls
<1>3. CASE Return(FALSE)
  BY <1>1, <1>3 DEF Return
<1>4. CASE SetReadySuccess(u) /\ UNCHANGED <<cache, queue>>
  BY <1>1, <1>4, TypeSuccess
<1> QED
  BY <1>2, <1>3, <1>4 DEF Found

LEMMA TypeResolve ==
  ASSUME VarTypes,
         \/ BuildOPNsenseClient \/ BuildClientFails \/ GetRecordedAlias
         \/ GetAliasUUIDByName \/ GetMatchedAlias \/ ReadFails
  PROVE  VarTypes'
<1> USE DEF ReadCalls, WriteCalls, KubeCalls
<1>1. rec.pc # "idle" /\ UNCHANGED <<api, aliasVars>>
  BY DEF BuildOPNsenseClient, BuildClientFails, GetRecordedAlias, GetAliasUUIDByName,
         GetMatchedAlias, ReadFails, kubeVars
<1>2. CASE UNCHANGED <<cache, queue>> /\ rec' \in Busy
  BY <1>1, <1>2, TypeParts, StagedKept, TypePartsNext DEF KubeTypeOK
<1>3. CASE UNCHANGED <<cache, queue>> /\ SetReadyFailed
  BY <1>1, <1>2, <1>3, TypeFailed
<1>4. CASE BuildOPNsenseClient
  BY <1>1, <1>2, <1>4, BusyFields DEF BuildOPNsenseClient, Busy, kubeVars
<1>5. ASSUME NEW u, Present(u), u \in UUIDs \union {None}, Found(u) PROVE VarTypes'
  <2>1. u \in UUIDs
    BY <1>5 DEF Present
  <2>2. KubeTypeOK' /\ rec' \in Busy \union {Idle}
    BY <1>1, <1>5, <2>1, TypeFound, TypeParts DEF KubeTypeOK
  <2> QED
    BY <1>1, <2>2, TypeParts, StagedKept, TypePartsNext
<1>6. CASE GetRecordedAlias
  <2>1. CASE rec' = [rec EXCEPT !.pc = "getByName"] /\ UNCHANGED <<cache, queue>>
    BY <1>1, <1>2, <2>1, BusyFields DEF Busy
  <2> QED
    BY <1>1, <1>5, <1>6, <2>1, BusyFields DEF GetRecordedAlias
<1>7. CASE GetAliasUUIDByName
  <2>1. UNCHANGED <<cache, queue>>
    BY <1>7 DEF GetAliasUUIDByName, kubeVars
  <2>2. CASE rec' = [rec EXCEPT !.pc = "create"]
    BY <1>1, <1>2, <2>1, <2>2, BusyFields DEF Busy
  <2>3. CASE \E u \in UUIDs : rec' = [rec EXCEPT !.pc = "getMatch", !.uuid = u]
    BY <1>1, <1>2, <2>1, <2>3, BusyFields DEF Busy
  <2> QED
    BY <1>7, <2>2, <2>3 DEF GetAliasUUIDByName, Named
<1>8. CASE GetMatchedAlias
  BY <1>1, <1>3, <1>5, <1>8, BusyFields DEF GetMatchedAlias
<1> QED
  BY <1>3, <1>4, <1>6, <1>7, <1>8 DEF BuildClientFails, ReadFails, kubeVars

\* What a request of the reconcile does to the configuration, whether or not its
\* reply arrives.
LEMMA TypeServed ==
  ASSUME VarTypes, rec.pc # "idle",
         \/ UNCHANGED aliasVars \/ Reconfigure \/ DelItem(rec.uuid)
         \/ SetItem(rec.uuid, Desired)
         \/ \E u \in UUIDs : AddItem(u, Desired)
  PROVE  StagedOK'
<1>1. StagedOK
  BY TypeParts
<1>2. CASE \E u \in UUIDs : AddItem(u, Desired)
  BY <1>1, <1>2, BusyFields, TypeAddItem DEF Desired
<1>3. CASE SetItem(rec.uuid, Desired)
  BY <1>1, <1>3, BusyFields, TypeSetItem DEF Desired
<1> QED
  BY <1>1, <1>2, <1>3, StagedKept, TypeReconfigure, TypeDelItem

LEMMA TypeWrite ==
  ASSUME VarTypes,
         \/ CreateAlias \/ UpdateAlias \/ ReconfigureAliases \/ DeleteAlias
         \/ ReconfigureDeletion \/ WriteFails
  PROVE  VarTypes'
<1> USE DEF ReadCalls, WriteCalls, KubeCalls
<1>1. rec.pc # "idle" /\ UNCHANGED kubeVars
  BY DEF CreateAlias, UpdateAlias, ReconfigureAliases, DeleteAlias, ReconfigureDeletion,
         WriteFails
<1>2. StagedOK'
  BY <1>1, TypeServed
     DEF CreateAlias, UpdateAlias, ReconfigureAliases, DeleteAlias, ReconfigureDeletion,
         WriteFails
<1>3. rec' \in Busy
  <2>1. CASE SetReadyFailed
    BY <1>1, <2>1, TypeFailed
  <2>2. CASE \E u \in UUIDs : rec' = [rec EXCEPT !.pc = "reconfigure", !.uuid = u]
    BY <1>1, <2>2, BusyFields DEF Busy
  <2>3. CASE \E pc \in {"reconfigure", "reconfigureDeleted", "removeFinalizer"} :
               rec' = [rec EXCEPT !.pc = pc]
    BY <1>1, <2>3, BusyFields DEF Busy
  <2>4. CASE ReconfigureAliases
    <3>1. rec.uuid \in UUIDs \union {None} /\ SetReadySuccess(rec.uuid)
      BY <1>1, <2>4, BusyFields DEF ReconfigureAliases
    <3>2. Success(rec.uuid) \in Statuses
      BY <1>1, <3>1, BusyFields DEF Success, Statuses, Objects
    <3> QED
      BY <1>1, <3>1, <3>2, BusyFields DEF SetReadySuccess, Busy
  <2> QED
    BY <2>1, <2>2, <2>3, <2>4
       DEF CreateAlias, UpdateAlias, DeleteAlias, ReconfigureDeletion, WriteFails
<1> QED
  BY <1>1, <1>2, <1>3, TypeParts, TypePartsNext DEF KubeTypeOK, kubeVars

\* The objects the controller writes are objects.
LEMMA TypeWritten ==
  ASSUME VarTypes, rec.pc # "idle"
  PROVE  WithFinalizer \in Objects /\ WithStatus \in Objects
<1>1. WrittenBack(rec.obj.spec) \in Specs
  BY BusyFields, AliasSpecsAssumption DEF WrittenBack, Specs
<1>2. (IF rec.obj.spec.enabled THEN rec.obj.gen ELSE rec.obj.gen + 1) \in Nat
  BY BusyFields DEF Objects
<1>3. WithFinalizer \in Objects
  BY <1>1, <1>2, BusyFields DEF WithFinalizer, Objects
<1> QED
  BY <1>3, BusyFields DEF WithStatus, Objects

LEMMA TypeKubeCall ==
  ASSUME VarTypes, AddFinalizer \/ RemoveFinalizer \/ SetReadyCondition \/ KubeCallFails
  PROVE  VarTypes'
<1>1. rec.pc # "idle"
  BY DEF AddFinalizer, RemoveFinalizer, SetReadyCondition, Update, KubeCallFails, KubeCalls
<1>2. UNCHANGED aliasVars /\ \E err : Return(err)
  BY DEF AddFinalizer, RemoveFinalizer, SetReadyCondition, Update, KubeCallFails
<1>3. \/ UNCHANGED api
      \/ \E new \in Objects \union {None} : api' = [api EXCEPT ![rec.cr] = new]
  BY <1>1, TypeWritten
     DEF AddFinalizer, RemoveFinalizer, SetReadyCondition, Update, KubeCallFails,
         Stored, Conflict
<1>4. KubeTypeOK'
  BY <1>1, <1>2, <1>3, BusyFields DEF Return, VarTypes, KubeTypeOK
<1> QED
  BY <1>2, <1>4, TypeParts, StagedKept, TypePartsNext DEF Return

LEMMA TypeAdmin ==
  ASSUME VarTypes, AdminStep
  PROVE  VarTypes'
<1>1. StagedOK
  BY TypeParts
<1>2. PICK u \in UUIDs :
         \/ \E n \in Names, b \in ValidContents : AdminAdds(u, n, b)
         \/ \E b \in Contents : AdminEdits(u, b)
         \/ DelItem(u)
         \/ Reconfigure
  BY DEF AdminStep
<1>3. ASSUME NEW n \in Names, NEW b \in ValidContents, AdminAdds(u, n, b) PROVE StagedOK'
  <2> DEFINE a == [name |-> n, content |-> b, desc |-> None, enabled |-> TRUE]
  <2>1. b \in Contents
    BY AliasSpecsAssumption
  <2>2. a \in Aliases /\ a.name = n
    BY <2>1, AdminAlias
  <2>3. staged' = [staged EXCEPT ![u] = a] /\ UNCHANGED running /\ Named(n) \subseteq {u}
    BY <1>3, <2>1, AdminAlias DEF AdminAdds, AddItem, Accepts
  <2> HIDE DEF a
  <2> QED
    BY <1>1, <2>2, <2>3, WriteOne
<1>4. ASSUME NEW b \in Contents, AdminEdits(u, b) PROVE StagedOK'
  <2> DEFINE a == [staged[u] EXCEPT !.content = b]
  <2>1. staged[u] \in Aliases
    BY <1>1, <1>4 DEF AdminEdits, Present, StagedOK, AliasTypeOK
  <2>2. a \in Aliases /\ a.name = staged[u].name
    BY <2>1 DEF Aliases
  <2>3. staged' = [staged EXCEPT ![u] = a] /\ UNCHANGED running
    BY <1>1, <1>4 DEF AdminEdits, StagedOK, AliasTypeOK
  <2>4. Named(staged[u].name) \subseteq {u}
    BY <1>1, <1>4, <2>1 DEF StagedOK, UniqueNames, Named, AdminEdits, Present, Aliases
  <2> HIDE DEF a
  <2> QED
    BY <1>1, <2>2, <2>3, <2>4, WriteOne
<1>5. StagedOK'
  BY <1>1, <1>2, <1>3, <1>4, TypeDelItem, TypeReconfigure
<1> QED
  BY <1>5, TypeParts, TypePartsNext DEF AdminStep, kubeVars, KubeTypeOK

\* VarTypes is an inductive invariant.
LEMMA TypeNext == VarTypes /\ [Next]_vars => VarTypes'
<1> SUFFICES ASSUME VarTypes, [Next]_vars PROVE VarTypes'
  OBVIOUS
<1>1. CASE \E c \in CRs : Reconcile(c)
  BY <1>1, TypeReconcile
<1>2. CASE Calls
  BY <1>2, TypeResolve, TypeWrite, TypeKubeCall DEF Calls
<1>3. CASE Failures
  <2>1. CASE Crash
    <3>1. KubeTypeOK' /\ UNCHANGED aliasVars /\ rec' = Idle
      BY <2>1 DEF Crash, Relist, VarTypes, KubeTypeOK
    <3> QED
      BY <3>1, TypeParts, StagedKept, TypePartsNext
  <2> QED
    BY <1>3, <2>1, TypeResolve, TypeWrite, TypeKubeCall DEF Failures
<1>4. CASE UserOrInformerStep
  BY <1>4, TypeUser
<1>5. CASE AdminStep
  BY <1>5, TypeAdmin
<1>6. CASE UNCHANGED vars
  <2>1. KubeTypeOK' /\ UNCHANGED <<aliasVars, rec>>
    BY <1>6 DEF vars, kubeVars, VarTypes, KubeTypeOK
  <2> QED
    BY <2>1, TypeParts, StagedKept, TypePartsNext
<1> QED
  BY <1>1, <1>2, <1>3, <1>4, <1>5, <1>6 DEF Next

----------------------------------------------------------------------------
\* Cleanup before release: a recorded UUID implies the finalizer, and the finalizer
\* is dropped only by a reconcile that has seen the alias out of the configuration
\* and out of force, where nobody can put it back under that identifier.

DeletionInv ==
  LET u == rec.obj.status.uuid IN
  /\ \A c \in CRs : api[c] # None /\ api[c].status.uuid # None => api[c].finalizer
  /\ rec.pc \notin {"idle", "addFinalizer"} => rec.obj.finalizer
  /\ rec.pc = "buildClient" /\ rec.obj.deleting => u # None
  /\ rec.pc \in {"delete", "reconfigureDeleted"} => u # None /\ rec.uuid = u
  /\ rec.pc \in {"reconfigureDeleted", "removeFinalizer"} /\ u # None => staged[u] = None
  /\ rec.pc = "removeFinalizer" /\ u # None => running[u] = None

\* Which calls a reconcile of a marked object may be about to make, that a reconcile
\* about to change an alias has resolved one, and that only a reconcile of an object
\* that is not marked reports another UUID.
PathInv ==
  /\ rec.pc = "addFinalizer" => ~ rec.obj.deleting /\ ~ rec.obj.finalizer
  /\ rec.pc \in {"delete", "reconfigureDeleted", "removeFinalizer"} => rec.obj.deleting
  /\ rec.pc \notin {"idle", "buildClient", "delete", "reconfigureDeleted",
                    "removeFinalizer", "setStatus"} => ~ rec.obj.deleting
  /\ rec.pc \in {"getMatch", "update", "reconfigure"} => rec.uuid \in UUIDs
  /\ rec.pc = "setStatus" =>
       \/ rec.status.uuid = rec.obj.status.uuid
       \/ rec.status.uuid \in UUIDs /\ ~ rec.obj.deleting

\* The steps that leave the objects alone.
RemoteSteps ==
  \/ BuildOPNsenseClient \/ GetRecordedAlias \/ GetAliasUUIDByName \/ GetMatchedAlias
  \/ CreateAlias \/ UpdateAlias \/ ReconfigureAliases \/ DeleteAlias
  \/ ReconfigureDeletion \/ BuildClientFails \/ ReadFails \/ WriteFails

KubeSteps == AddFinalizer \/ RemoveFinalizer \/ SetReadyCondition \/ KubeCallFails

LEMMA StepsSplit ==
  ASSUME [Next]_vars
  PROVE  \/ \E c \in CRs : Reconcile(c)
         \/ RemoteSteps \/ KubeSteps \/ Crash \/ UserOrInformerStep \/ AdminStep
         \/ UNCHANGED vars
  BY DEF Next, Calls, Failures, RemoteSteps, KubeSteps

\* Where a call to the firewall leads: to a reported failure, to a reported success,
\* to the end of the reconcile, or to another call with the same copy.
GoesTo(pc) == rec'.pc = pc /\ rec'.obj = rec.obj

Succeeds ==
  /\ GoesTo("setStatus") /\ ~ rec.obj.deleting
  /\ rec'.status.uuid \in UUIDs

Fails == GoesTo("setStatus") /\ rec'.status.uuid = rec.obj.status.uuid

LEMMA FailedFields ==
  ASSUME VarTypes, rec.pc # "idle", SetReadyFailed
  PROVE  Fails
<1>1. rec'.pc = "setStatus" /\ rec'.obj = rec.obj
  BY BusyFields DEF SetReadyFailed, Busy
<1>2. rec'.status.uuid = rec.obj.status.uuid
  BY BusyFields DEF SetReadyFailed, Busy, Statuses
<1> QED
  BY <1>1, <1>2 DEF Fails, GoesTo

LEMMA SuccessFields ==
  ASSUME VarTypes, rec.pc # "idle", ~ rec.obj.deleting, NEW u \in UUIDs, SetReadySuccess(u)
  PROVE  Succeeds
  BY BusyFields DEF SetReadySuccess, Success, Busy, Succeeds, GoesTo

LEMMA FoundFields ==
  ASSUME VarTypes, rec.pc # "idle", ~ rec.obj.deleting, NEW u \in UUIDs, Found(u)
  PROVE  rec' = Idle \/ Succeeds \/ (GoesTo("update") /\ rec'.uuid = u)
<1>1. CASE rec' = [rec EXCEPT !.pc = "update", !.uuid = u]
  BY <1>1, BusyFields DEF Busy, GoesTo
<1>2. CASE SetReadySuccess(u)
  BY <1>2, SuccessFields
<1> QED
  BY <1>1, <1>2 DEF Found, Return

\* The control flow of the calls to the firewall.
LEMMA RemoteGoesOn ==
  ASSUME VarTypes, PathInv, RemoteSteps
  PROVE  /\ rec.pc \notin {"idle", "addFinalizer", "removeFinalizer", "setStatus"}
         /\ UNCHANGED api
         /\ \/ rec' = Idle
            \/ Fails
            \/ Succeeds
            \/ ~ rec.obj.deleting /\ GoesTo("getRecorded")
            \/ ~ rec.obj.deleting /\ GoesTo("getByName")
            \/ ~ rec.obj.deleting /\ GoesTo("create")
            \/ /\ ~ rec.obj.deleting /\ rec'.uuid \in UUIDs
               /\ GoesTo("getMatch") \/ GoesTo("update") \/ GoesTo("reconfigure")
            \/ /\ BuildOPNsenseClient /\ rec.obj.deleting
               /\ GoesTo("delete") /\ rec'.uuid = rec.obj.status.uuid
            \/ DeleteAlias /\ GoesTo("reconfigureDeleted") /\ rec'.uuid = rec.uuid
            \/ ReconfigureDeletion /\ GoesTo("removeFinalizer")
<1> USE DEF ReadCalls, WriteCalls
<1>1. /\ rec.pc \notin {"idle", "addFinalizer", "removeFinalizer", "setStatus"}
      /\ UNCHANGED api
  BY DEF RemoteSteps, BuildOPNsenseClient, GetRecordedAlias, GetAliasUUIDByName,
         GetMatchedAlias, CreateAlias, UpdateAlias, ReconfigureAliases, DeleteAlias,
         ReconfigureDeletion, BuildClientFails, ReadFails, WriteFails, kubeVars
<1>2. rec \in Busy /\ rec.pc # "idle"
  BY <1>1, BusyFields
<1>3. CASE SetReadyFailed
  BY <1>1, <1>2, <1>3, FailedFields
<1>4. CASE BuildOPNsenseClient
  <2>1. CASE rec.obj.deleting
    <3>1. GoesTo("delete") /\ rec'.uuid = rec.obj.status.uuid
      BY <1>2, <1>4, <2>1 DEF BuildOPNsenseClient, Busy, GoesTo
    <3> QED
      BY <1>1, <1>4, <2>1, <3>1
  <2>2. CASE ~ rec.obj.deleting
    <3>1. GoesTo("getRecorded") \/ GoesTo("getByName")
      BY <1>2, <1>4, <2>2 DEF BuildOPNsenseClient, Busy, GoesTo
    <3> QED
      BY <1>1, <2>2, <3>1
  <2> QED
    BY <2>1, <2>2
<1>5. CASE GetRecordedAlias \/ GetMatchedAlias
  <2>1. ~ rec.obj.deleting
    BY <1>5 DEF PathInv, GetRecordedAlias, GetMatchedAlias
  <2>2. CASE \E u \in UUIDs : Found(u)
    BY <1>1, <1>2, <2>1, <2>2, FoundFields
  <2>3. CASE rec' = [rec EXCEPT !.pc = "getByName"]
    <3>1. GoesTo("getByName")
      BY <1>2, <2>3 DEF Busy, GoesTo
    <3> QED
      BY <1>1, <2>1, <3>1
  <2>4. /\ Present(rec.uuid) => rec.uuid \in UUIDs
        /\ Present(rec.obj.status.uuid) => rec.obj.status.uuid \in UUIDs
    BY <1>2, BusyFields DEF Present
  <2> QED
    BY <1>3, <1>5, <2>2, <2>3, <2>4 DEF GetRecordedAlias, GetMatchedAlias
<1>6. CASE GetAliasUUIDByName \/ CreateAlias
  <2>1. ~ rec.obj.deleting
    BY <1>6 DEF PathInv, GetAliasUUIDByName, CreateAlias
  <2>2. CASE rec' = [rec EXCEPT !.pc = "create"]
    <3>1. GoesTo("create")
      BY <1>2, <2>2 DEF Busy, GoesTo
    <3> QED
      BY <1>1, <2>1, <3>1
  <2>3. ASSUME NEW u \in UUIDs, NEW pc \in {"getMatch", "reconfigure"},
               rec' = [rec EXCEPT !.pc = pc, !.uuid = u]
        PROVE  rec'.uuid \in UUIDs /\ (GoesTo("getMatch") \/ GoesTo("reconfigure"))
    BY <1>2, <2>3 DEF Busy, GoesTo
  <2> QED
    BY <1>1, <1>3, <1>6, <2>1, <2>2, <2>3 DEF GetAliasUUIDByName, CreateAlias, Named
<1>7. CASE UpdateAlias \/ ReconfigureAliases
  <2>1. ~ rec.obj.deleting /\ rec.uuid \in UUIDs
    BY <1>7 DEF PathInv, UpdateAlias, ReconfigureAliases
  <2>2. CASE rec' = [rec EXCEPT !.pc = "reconfigure"]
    <3>1. GoesTo("reconfigure") /\ rec'.uuid = rec.uuid
      BY <1>2, <2>2 DEF Busy, GoesTo
    <3> QED
      BY <1>1, <2>1, <3>1
  <2>3. CASE SetReadySuccess(rec.uuid)
    BY <1>1, <1>2, <2>1, <2>3, SuccessFields
  <2> QED
    BY <1>3, <1>7, <2>2, <2>3 DEF UpdateAlias, ReconfigureAliases
<1>8. CASE DeleteAlias
  <2>1. GoesTo("reconfigureDeleted") /\ rec'.uuid = rec.uuid
    BY <1>2, <1>8 DEF DeleteAlias, Busy, GoesTo
  <2> QED
    BY <1>1, <1>8, <2>1
<1>9. CASE ReconfigureDeletion
  <2>1. GoesTo("removeFinalizer")
    BY <1>2, <1>9 DEF ReconfigureDeletion, Busy, GoesTo
  <2> QED
    BY <1>1, <1>9, <2>1
<1> QED
  BY <1>3, <1>4, <1>5, <1>6, <1>7, <1>8, <1>9
     DEF RemoteSteps, BuildClientFails, ReadFails, WriteFails

\* Where the start of a reconcile leads.
LEMMA ReconcileGoesOn ==
  ASSUME VarTypes, NEW c \in CRs, Reconcile(c)
  PROVE  /\ UNCHANGED <<api, aliasVars>> /\ rec = Idle
         /\ \/ UNCHANGED rec
            \/ /\ cache[c] \in Objects
               /\ rec'.obj = cache[c] /\ rec'.cr = c /\ rec'.uuid = None
               /\ rec'.status = EmptyStatus
               /\ \/ /\ rec'.pc = "removeFinalizer" /\ cache[c].deleting
                     /\ cache[c].finalizer /\ cache[c].status.uuid = None
                  \/ rec'.pc = "addFinalizer" /\ ~ cache[c].deleting /\ ~ cache[c].finalizer
                  \/ /\ rec'.pc = "buildClient" /\ cache[c].finalizer
                     /\ cache[c].deleting => cache[c].status.uuid # None
<1>1. UNCHANGED <<api, aliasVars>> /\ rec = Idle
  BY DEF Reconcile
<1>2. CASE UNCHANGED rec
  BY <1>1, <1>2
<1>3. ASSUME NEW pc, cache[c] # None, rec' = [Idle EXCEPT !.pc = pc, !.cr = c, !.obj = cache[c]]
      PROVE  /\ rec'.obj = cache[c] /\ rec'.cr = c /\ rec'.pc = pc /\ rec'.uuid = None
             /\ rec'.status = EmptyStatus /\ cache[c] \in Objects
  BY <1>3 DEF Idle, VarTypes, KubeTypeOK
<1> QED
  BY <1>1, <1>2, <1>3 DEF Reconcile

LEMMA DeletionInit == Init => DeletionInv
  BY DEF Init, KubeInit, DeletionInv, Idle

LEMMA PathInit == Init => PathInv
  BY DEF Init, Idle, PathInv

\* A reconcile that ended is on no path.
LEMMA PathIdle ==
  ASSUME rec' = Idle
  PROVE  PathInv'
  BY DEF PathInv, Idle

LEMMA DeletionIdle ==
  ASSUME DeletionInv, rec' = Idle,
         \A c \in CRs : api'[c] # None /\ api'[c].status.uuid # None => api'[c].finalizer
  PROVE  DeletionInv'
  BY DEF DeletionInv, Idle

LEMMA PathRemote ==
  ASSUME VarTypes, PathInv, RemoteSteps
  PROVE  PathInv'
<1>1. CASE Fails
  BY <1>1 DEF Fails, GoesTo, PathInv
<1>2. CASE Succeeds
  BY <1>2 DEF Succeeds, GoesTo, PathInv
<1>3. CASE \/ DeleteAlias /\ GoesTo("reconfigureDeleted")
           \/ ReconfigureDeletion /\ GoesTo("removeFinalizer")
  <2>1. rec.obj.deleting
    BY <1>3 DEF DeleteAlias, ReconfigureDeletion, PathInv
  <2> QED
    BY <1>3, <2>1 DEF GoesTo, PathInv
<1>4. CASE BuildOPNsenseClient /\ rec.obj.deleting /\ GoesTo("delete")
  BY <1>4 DEF GoesTo, PathInv
<1>5. CASE /\ ~ rec.obj.deleting
           /\ GoesTo("getRecorded") \/ GoesTo("getByName") \/ GoesTo("create")
  BY <1>5 DEF GoesTo, PathInv
<1>6. CASE /\ ~ rec.obj.deleting /\ rec'.uuid \in UUIDs
           /\ GoesTo("getMatch") \/ GoesTo("update") \/ GoesTo("reconfigure")
  BY <1>6 DEF GoesTo, PathInv
<1>7. CASE rec' = Idle
  BY <1>7, PathIdle
<1> QED
  BY <1>1, <1>2, <1>3, <1>4, <1>5, <1>6, <1>7, RemoteGoesOn

LEMMA PathNext == VarTypes /\ PathInv /\ [Next]_vars => PathInv'
<1> SUFFICES ASSUME VarTypes, PathInv, [Next]_vars PROVE PathInv'
  OBVIOUS
<1>1. CASE \E c \in CRs : Reconcile(c)
  BY <1>1, ReconcileGoesOn DEF PathInv
<1>2. CASE KubeSteps \/ Crash
  BY <1>2, PathIdle
     DEF KubeSteps, AddFinalizer, RemoveFinalizer, SetReadyCondition, Update, KubeCallFails,
         Return, Crash
<1>3. CASE UserOrInformerStep \/ AdminStep \/ UNCHANGED vars
  BY <1>3 DEF UserOrInformerStep, AdminStep, vars, PathInv
<1> QED
  BY <1>1, <1>2, <1>3, StepsSplit, PathRemote

LEMMA DeletionRemote ==
  ASSUME VarTypes, DeletionInv, PathInv, RemoteSteps
  PROVE  DeletionInv'
<1>1. /\ rec.obj.finalizer
      /\ \A c \in CRs : api'[c] # None /\ api'[c].status.uuid # None => api'[c].finalizer
  BY RemoteGoesOn DEF DeletionInv
<1>2. CASE DeleteAlias /\ GoesTo("reconfigureDeleted") /\ rec'.uuid = rec.uuid
  <2>1. rec.uuid = rec.obj.status.uuid /\ rec.uuid # None /\ rec.uuid \in UUIDs
    BY <1>2, BusyFields DEF DeletionInv, DeleteAlias
  <2>2. staged'[rec.uuid] = None
    BY <1>2, <2>1 DEF DeleteAlias, DelItem, Present, VarTypes, AliasTypeOK, aliasVars
  <2> QED
    BY <1>1, <1>2, <2>1, <2>2 DEF GoesTo, DeletionInv
<1>3. CASE ReconfigureDeletion /\ GoesTo("removeFinalizer")
  <2>1. running' = staged /\ staged' = staged
    BY <1>3 DEF ReconfigureDeletion, Reconfigure
  <2> QED
    BY <1>1, <1>3, <2>1 DEF ReconfigureDeletion, GoesTo, DeletionInv
<1>4. CASE BuildOPNsenseClient /\ rec.obj.deleting /\ GoesTo("delete") /\ rec'.uuid = rec.obj.status.uuid
  BY <1>1, <1>4 DEF BuildOPNsenseClient, GoesTo, DeletionInv
<1> QED
  BY <1>1, <1>2, <1>3, <1>4, RemoteGoesOn, DeletionIdle
     DEF Fails, Succeeds, GoesTo, DeletionInv

\* An alias the reconcile's copy refers to and that is gone does not come back
\* through the administrator.
LEMMA DeletionAdmin ==
  ASSUME VarTypes, DeletionInv, AdminStep
  PROVE  DeletionInv'
<1>1. UNCHANGED <<kubeVars, rec>>
  BY DEF AdminStep
<1>2. CASE rec.pc \in {"reconfigureDeleted", "removeFinalizer"} /\ rec.obj.status.uuid # None
  <2>1. rec.obj.status.uuid \in UUIDs /\ ~ Fresh(rec.obj.status.uuid)
    BY <1>2, BusyFields, AliasAbsentAssumption DEF Fresh, UuidOf
  <2>2. /\ staged'[rec.obj.status.uuid] = None
        /\ running[rec.obj.status.uuid] = None => running'[rec.obj.status.uuid] = None
    BY <1>2, <2>1
       DEF DeletionInv, VarTypes, AliasTypeOK, AdminStep, AdminAdds, AddItem, AdminEdits,
           DelItem, Reconfigure, Present
  <2> QED
    BY <1>1, <1>2, <2>2 DEF DeletionInv, kubeVars
<1> QED
  BY <1>1, <1>2 DEF DeletionInv, kubeVars

LEMMA DeletionUser ==
  ASSUME VarTypes, DeletionInv, UserOrInformerStep
  PROVE  DeletionInv'
<1>1. UNCHANGED <<aliasVars, rec>>
  BY DEF UserOrInformerStep
<1>2. \A c \in CRs : api'[c] # None /\ api'[c].status.uuid # None => api'[c].finalizer
  <2>1. ASSUME NEW c \in CRs, NEW s, UserCreates(c, s) PROVE <1>2
    BY <2>1 DEF UserCreates, EmptyStatus, DeletionInv, VarTypes, KubeTypeOK
  <2>2. ASSUME NEW c \in CRs, NEW s, UserEdits(c, s) PROVE <1>2
    BY <2>2 DEF UserEdits, DeletionInv, VarTypes, KubeTypeOK, Objects
  <2>3. ASSUME NEW c \in CRs, UserDeletes(c) PROVE <1>2
    BY <2>3 DEF UserDeletes, DeletionInv, VarTypes, KubeTypeOK, Objects
  <2>4. ASSUME UNCHANGED api PROVE <1>2
    BY <2>4 DEF DeletionInv
  <2> QED
    BY <2>1, <2>2, <2>3, <2>4 DEF UserOrInformerStep, WatchEvent, Resync
<1> QED
  BY <1>1, <1>2 DEF DeletionInv, aliasVars

\* What a write of the controller stores, and that its reconcile is over.
LEMMA KubeWrites ==
  ASSUME VarTypes, KubeSteps
  PROVE  /\ rec.pc \in KubeCalls /\ rec.pc # "idle" /\ rec' = Idle
         /\ UNCHANGED <<cache, aliasVars>>
         /\ \/ UNCHANGED api
            \/ rec.pc = "addFinalizer" /\ Stored(rec.cr, rec.obj, WithFinalizer)
            \/ rec.pc = "removeFinalizer" /\ Stored(rec.cr, rec.obj, None)
            \/ rec.pc = "setStatus" /\ Stored(rec.cr, rec.obj, WithStatus)
  BY DEF KubeSteps, AddFinalizer, RemoveFinalizer, SetReadyCondition, Update, KubeCallFails,
         KubeCalls, Return, Conflict

\* The fields of what the controller writes.
LEMMA WrittenFields ==
  ASSUME VarTypes, rec.pc # "idle"
  PROVE  /\ WithFinalizer \in Objects
         /\ WithFinalizer.finalizer = TRUE /\ WithFinalizer.deleting = rec.obj.deleting
         /\ WithFinalizer.status = rec.obj.status
         /\ WithFinalizer.spec = WrittenBack(rec.obj.spec)
         /\ WithStatus \in Objects
         /\ WithStatus.finalizer = rec.obj.finalizer /\ WithStatus.deleting = rec.obj.deleting
         /\ WithStatus.status = rec.status
         /\ WithStatus.spec = rec.obj.spec /\ WithStatus.gen = rec.obj.gen
  BY TypeWritten, BusyFields DEF WithFinalizer, WithStatus, Objects

LEMMA DeletionKube ==
  ASSUME VarTypes, DeletionInv, KubeSteps
  PROVE  DeletionInv'
<1>1. rec.pc = "setStatus" => WithStatus.finalizer
  BY WrittenFields DEF DeletionInv
<1>2. api \in [CRs -> Objects \union {None}]
  BY DEF VarTypes, KubeTypeOK
<1>3. \A c \in CRs : api'[c] # None /\ api'[c].status.uuid # None => api'[c].finalizer
  BY <1>1, <1>2, KubeWrites, WrittenFields, BusyFields DEF Stored, DeletionInv
<1> QED
  BY <1>3, KubeWrites, DeletionIdle

LEMMA DeletionNext == VarTypes /\ DeletionInv /\ PathInv /\ [Next]_vars => DeletionInv'
<1> SUFFICES ASSUME VarTypes, DeletionInv, PathInv, [Next]_vars PROVE DeletionInv'
  OBVIOUS
<1>1. CASE \E c \in CRs : Reconcile(c)
  BY <1>1, ReconcileGoesOn DEF DeletionInv, aliasVars
<1>2. CASE Crash
  BY <1>2, DeletionIdle DEF Crash, Relist, DeletionInv
<1>3. CASE UNCHANGED vars
  BY <1>3 DEF DeletionInv, vars, kubeVars, aliasVars
<1> QED
  BY <1>1, <1>2, <1>3, StepsSplit, DeletionRemote, DeletionKube, DeletionUser, DeletionAdmin

\* The three invariants hold together: where a deletion is under way the recorded
\* alias is known to be gone as far as the reconcile has come.
LEMMA InvCorrect == Spec => [](VarTypes /\ DeletionInv /\ PathInv)
<1>1. Init => VarTypes /\ DeletionInv /\ PathInv
  BY TypeInit, DeletionInit, PathInit
<1>2. VarTypes /\ DeletionInv /\ PathInv /\ [Next]_vars =>
        (VarTypes /\ DeletionInv /\ PathInv)'
  BY TypeNext, DeletionNext, PathNext
<1> QED
  BY <1>1, <1>2, PTL DEF Spec

----------------------------------------------------------------------------
\* Identifiers are there where they are needed.  That a call names an alias follows
\* from the path that leads to it; what is left is the recorded identifier and Ready.

KnownInv ==
  /\ rec.pc = "getRecorded" => rec.obj.status.uuid # None
  /\ rec.status.ready = "True" => rec.status.uuid # None
  /\ \A c \in CRs :
       api[c] # None /\ api[c].status.ready = "True" => api[c].status.uuid # None

LEMMA KnownEnough ==
  ASSUME DeletionInv, PathInv, KnownInv
  PROVE  IdentifiersKnown
  BY AliasNoneAssumption DEF DeletionInv, PathInv, KnownInv, IdentifiersKnown, NamingCalls

LEMMA KnownInit == Init => KnownInv
  BY DEF Init, KubeInit, KnownInv, Idle, EmptyStatus

LEMMA KnownIdle ==
  ASSUME KnownInv, rec' = Idle,
         \A c \in CRs :
           api'[c] # None /\ api'[c].status.ready = "True" => api'[c].status.uuid # None
  PROVE  KnownInv'
  BY DEF KnownInv, Idle, EmptyStatus

LEMMA KnownRemote ==
  ASSUME VarTypes, PathInv, KnownInv, RemoteSteps
  PROVE  KnownInv'
<1>1. UNCHANGED api /\ rec.pc # "idle"
  BY RemoteGoesOn
<1>2. CASE SetReadyFailed
  <2>1. rec'.pc = "setStatus" /\ rec'.status = [rec.obj.status EXCEPT !.ready = "False"]
    BY <1>1, <1>2, BusyFields DEF SetReadyFailed, Busy
  <2>2. rec'.status.ready = "False"
    BY <1>1, <2>1, BusyFields DEF Statuses
  <2> QED
    BY <1>1, <2>1, <2>2 DEF KnownInv
<1>3. ASSUME NEW u, u # None, SetReadySuccess(u) PROVE KnownInv'
  <2>1. rec'.pc = "setStatus" /\ rec'.status = Success(u)
    BY <1>1, <1>3, BusyFields DEF SetReadySuccess, Busy
  <2> QED
    BY <1>1, <1>3, <2>1 DEF KnownInv, Success
<1>4. ASSUME rec'.pc # "getRecorded", rec'.status = rec.status PROVE KnownInv'
  BY <1>1, <1>4 DEF KnownInv
<1>5. ASSUME NEW pc, pc # "getRecorded", NEW u,
             rec' = [rec EXCEPT !.pc = pc] \/ rec' = [rec EXCEPT !.pc = pc, !.uuid = u]
      PROVE  KnownInv'
  BY <1>1, <1>4, <1>5, BusyFields DEF Busy
<1>6. CASE rec' = Idle
  BY <1>1, <1>6, KnownIdle DEF KnownInv
<1>7. CASE BuildOPNsenseClient
  <2>1. rec'.status = rec.status /\ rec'.obj = rec.obj
    BY <1>1, <1>7, BusyFields DEF BuildOPNsenseClient, Busy
  <2>2. rec'.pc = "getRecorded" => rec.obj.status.uuid # None
    BY <1>1, <1>7, BusyFields DEF BuildOPNsenseClient, Busy
  <2> QED
    BY <1>1, <2>1, <2>2 DEF KnownInv
<1>8. CASE GetRecordedAlias \/ GetMatchedAlias
  <2>1. ASSUME NEW u, Present(u), Found(u) PROVE KnownInv'
    BY <1>3, <1>5, <1>6, <2>1 DEF Found, Present, Return
  <2> QED
    BY <1>2, <1>5, <1>8, <2>1 DEF GetRecordedAlias, GetMatchedAlias
<1>9. CASE ReconfigureAliases
  <2>1. rec.uuid # None
    BY <1>9, AliasNoneAssumption DEF ReconfigureAliases, PathInv
  <2> QED
    BY <1>3, <1>9, <2>1 DEF ReconfigureAliases
<1> QED
  BY <1>2, <1>5, <1>7, <1>8, <1>9
     DEF RemoteSteps, GetAliasUUIDByName, CreateAlias, UpdateAlias, DeleteAlias,
         ReconfigureDeletion, BuildClientFails, ReadFails, WriteFails

LEMMA KnownKube ==
  ASSUME VarTypes, KnownInv, KubeSteps
  PROVE  KnownInv'
<1>1. api \in [CRs -> Objects \union {None}]
  BY DEF VarTypes, KubeTypeOK
<1>2. WithFinalizer.status = rec.obj.status /\ WithStatus.status = rec.status
  BY KubeWrites, BusyFields DEF WithFinalizer, WithStatus, Objects
<1>3. \A c \in CRs :
        api'[c] # None /\ api'[c].status.ready = "True" => api'[c].status.uuid # None
  BY <1>1, <1>2, KubeWrites, BusyFields, AliasAbsentAssumption DEF Stored, KnownInv
<1> QED
  BY <1>3, KubeWrites, KnownIdle

LEMMA KnownUser ==
  ASSUME VarTypes, KnownInv, UserOrInformerStep
  PROVE  KnownInv'
<1>1. api \in [CRs -> Objects \union {None}] /\ UNCHANGED rec
  BY DEF VarTypes, KubeTypeOK, UserOrInformerStep
<1>2. \A c \in CRs :
        api'[c] # None /\ api'[c].status.ready = "True" => api'[c].status.uuid # None
  <2>1. ASSUME NEW c \in CRs, NEW s, UserCreates(c, s) PROVE <1>2
    BY <1>1, <2>1 DEF UserCreates, EmptyStatus, KnownInv
  <2>2. ASSUME NEW c \in CRs, NEW s, UserEdits(c, s) PROVE <1>2
    BY <1>1, <2>2 DEF UserEdits, KnownInv, Objects
  <2>3. ASSUME NEW c \in CRs, UserDeletes(c) PROVE <1>2
    BY <1>1, <2>3 DEF UserDeletes, KnownInv, Objects
  <2>4. ASSUME UNCHANGED api PROVE <1>2
    BY <2>4 DEF KnownInv
  <2> QED
    BY <2>1, <2>2, <2>3, <2>4 DEF UserOrInformerStep, WatchEvent, Resync
<1> QED
  BY <1>1, <1>2 DEF KnownInv

LEMMA KnownNext == VarTypes /\ PathInv /\ KnownInv /\ [Next]_vars => KnownInv'
<1> SUFFICES ASSUME VarTypes, PathInv, KnownInv, [Next]_vars PROVE KnownInv'
  OBVIOUS
<1>1. CASE \E c \in CRs : Reconcile(c)
  BY <1>1, ReconcileGoesOn DEF KnownInv, EmptyStatus
<1>2. CASE Crash
  BY <1>2, KnownIdle DEF Crash, Relist, KnownInv
<1>3. CASE AdminStep \/ UNCHANGED vars
  BY <1>3 DEF KnownInv, AdminStep, vars, kubeVars
<1> QED
  BY <1>1, <1>2, <1>3, StepsSplit, KnownRemote, KnownKube, KnownUser

\* Every reachable state is well formed, no alias name is ever taken twice, and no
\* request about an alias and no Ready status lacks the identifier it needs, for any
\* resources, identifiers, names, specs and bounds.
THEOREM TypeCorrect == Spec => []TypeOK
<1>1. Init => VarTypes /\ DeletionInv /\ PathInv /\ KnownInv
  BY TypeInit, DeletionInit, PathInit, KnownInit
<1>2. VarTypes /\ DeletionInv /\ PathInv /\ KnownInv /\ [Next]_vars
        => VarTypes' /\ DeletionInv' /\ PathInv' /\ KnownInv'
  BY TypeNext, DeletionNext, PathNext, KnownNext
<1>3. VarTypes /\ DeletionInv /\ PathInv /\ KnownInv => TypeOK
  BY KnownEnough DEF TypeOK
<1> QED
  BY <1>1, <1>2, <1>3, PTL DEF Spec

----------------------------------------------------------------------------
\* The mapping.  Managed sees objects as this function of the stored ones.

Object == [c \in CRs |-> Abstract(api[c])]

\* A write of one object is seen as a write of one object.
LEMMA MappedWrite ==
  ASSUME VarTypes, NEW c \in CRs, NEW o, api' = [api EXCEPT ![c] = o]
  PROVE  Object' = [Object EXCEPT ![c] = Abstract(o)]
<1>1. api \in [CRs -> Objects \union {None}]
  BY DEF VarTypes, KubeTypeOK
<1>2. ASSUME NEW d \in CRs PROVE api'[d] = IF d = c THEN o ELSE api[d]
  BY <1>1
<1>3. Object' = [d \in CRs |-> Abstract(api'[d])]
  BY DEF Object, Abstract
<1>4. ASSUME NEW d \in CRs
      PROVE  Abstract(api'[d]) = IF d = c THEN Abstract(o) ELSE Abstract(api[d])
  BY <1>2, <1>4
<1> QED
  BY <1>3, <1>4 DEF Object

\* What Managed sees of a resource that exists.
LEMMA MappedAbsent ==
  ASSUME VarTypes, NEW c \in CRs, api[c] = None
  PROVE  Object[c] = None
  BY DEF Object, Abstract

LEMMA MappedObject ==
  ASSUME VarTypes, NEW c \in CRs, api[c] # None
  PROVE  /\ Object[c] # None
         /\ Object[c] = [guarded |-> api[c].finalizer, deleting |-> api[c].deleting,
                         uuid |-> api[c].status.uuid]
         /\ Object[c].guarded = api[c].finalizer
         /\ Object[c].deleting = api[c].deleting
         /\ Object[c].uuid = api[c].status.uuid
<1>1. api[c] \in Objects
  BY DEF VarTypes, KubeTypeOK
<1>2. Abstract(api[c]) = [guarded |-> api[c].finalizer, deleting |-> api[c].deleting,
                          uuid |-> api[c].status.uuid]
  BY DEF Abstract
<1>3. Abstract(api[c]) \in [guarded: BOOLEAN, deleting: BOOLEAN, uuid: UUIDs \union {None}]
  BY <1>1, <1>2 DEF Objects, Statuses
<1>4. Object[c] = Abstract(api[c])
  BY DEF Object
<1> QED
  BY <1>2, <1>3, <1>4, AliasAbstractAssumption

----------------------------------------------------------------------------
\* The steps.

\* A step that leaves the objects alone keeps aliases known or forgets them; at most
\* one identifier comes to life, and no object has recorded it.
LiveChanges ==
  \/ Live' \subseteq Live
  \/ \E u \in UUIDs : Fresh(u) /\ Live' \subseteq Live \union {u}

LEMMA LiveCalls ==
  ASSUME VarTypes, [Next]_vars
  PROVE  LiveChanges
<1>1. /\ staged \in [UUIDs -> Aliases \union {None}]
      /\ running \in [UUIDs -> Aliases \union {None}]
  BY DEF VarTypes, AliasTypeOK
<1>2. CASE UNCHANGED aliasVars
  BY <1>2 DEF aliasVars, Live, LiveChanges
<1>3. ASSUME NEW u \in UUIDs, NEW r, Fresh(u), AddItem(u, r) PROVE LiveChanges
  <2>1. Live' \subseteq Live \union {u}
    BY <1>1, <1>3 DEF AddItem, Live
  <2> QED
    BY <1>3, <2>1 DEF LiveChanges
<1>4. ASSUME NEW u, NEW r, SetItem(u, r) PROVE LiveChanges
  BY <1>1, <1>4 DEF SetItem, Present, Live, LiveChanges
<1>5. ASSUME NEW u, DelItem(u) PROVE LiveChanges
  BY <1>1, <1>5 DEF DelItem, Live, LiveChanges
<1>6. CASE Reconfigure
  BY <1>6 DEF Reconfigure, Live, LiveChanges
<1>7. ASSUME NEW u, NEW b, AdminEdits(u, b) PROVE LiveChanges
  BY <1>1, <1>7 DEF AdminEdits, Present, Live, LiveChanges
<1>8. CASE RemoteSteps
  BY <1>2, <1>3, <1>4, <1>5, <1>6, <1>8
     DEF RemoteSteps, BuildOPNsenseClient, GetRecordedAlias, GetAliasUUIDByName,
         GetMatchedAlias, CreateAlias, UpdateAlias, ReconfigureAliases, DeleteAlias,
         ReconfigureDeletion, BuildClientFails, ReadFails, WriteFails
<1>9. CASE AdminStep
  BY <1>3, <1>5, <1>6, <1>7, <1>9 DEF AdminStep, AdminAdds
<1> QED
  BY <1>2, <1>8, <1>9, StepsSplit, ReconcileGoesOn, KubeWrites
     DEF Crash, UserOrInformerStep, vars

\* Seen from Managed, a step that leaves the objects alone is one of the firewall.
LEMMA MappedFirewall ==
  ASSUME VarTypes, [Next]_vars, UNCHANGED api
  PROVE  Managed!FirewallChanges
<1>1. Object' = Object
  BY DEF Object, Abstract
<1>2. CASE Live' \subseteq Live
  <2>1. Live' \subseteq Live \union {} /\ {} \in SUBSET UUIDs
    BY <1>2
  <2> QED
    BY <1>1, <2>1 DEF Managed!FirewallChanges, Object
<1>3. CASE \E u \in UUIDs : Fresh(u) /\ Live' \subseteq Live \union {u}
  <2>1. PICK u \in UUIDs : Fresh(u) /\ Live' \subseteq Live \union {u}
    BY <1>3
  <2>2. ASSUME NEW c \in CRs, api[c] # None PROVE Object[c].uuid # u
    <3>1. UuidOf(api[c]) # u
      BY <2>1 DEF Fresh
    <3>2. Object[c].uuid = api[c].status.uuid
      BY <2>2, MappedObject
    <3> QED
      BY <2>2, <3>1, <3>2 DEF UuidOf
  <2>3. \A c \in CRs : Object[c] # None => Object[c].uuid # u
    BY <2>2, MappedAbsent
  <2>4. {u} \in SUBSET UUIDs /\ \A v, w \in {u} : v = w
    OBVIOUS
  <2>5. \A v \in {u}, c \in CRs : Managed!Exists(c) => Object[c].uuid # v
    BY <2>3 DEF Managed!Exists, Object
  <2> QED
    BY <1>1, <2>1, <2>4, <2>5 DEF Managed!FirewallChanges, Object
<1> QED
  BY <1>2, <1>3, LiveCalls DEF LiveChanges

\* What users do.
UserSteps ==
  \/ \E c \in CRs : \E s \in SpecsOf[c] : UserCreates(c, s) \/ UserEdits(c, s)
  \/ \E c \in CRs : UserDeletes(c)

\* Users: what they declare, withdraw or condemn; an edit is not seen.
LEMMA MappedUser ==
  ASSUME VarTypes, UserSteps, UNCHANGED Live
  PROVE  \/ \E c \in CRs : Managed!Declare(c) \/ Managed!Withdraw(c) \/ Managed!Condemn(c)
         \/ UNCHANGED Object
<1>1. api \in [CRs -> Objects \union {None}]
  BY DEF VarTypes, KubeTypeOK
<1>2. ASSUME NEW c \in CRs, NEW s \in Specs, UserCreates(c, s) PROVE Managed!Declare(c)
  <2> DEFINE new == [gen |-> 1, spec |-> s, deleting |-> FALSE, finalizer |-> FALSE,
                     status |-> EmptyStatus]
  <2>1. api[c] = None /\ api' = [api EXCEPT ![c] = new]
    BY <1>2 DEF UserCreates
  <2>2. new \in Objects
    BY TypeUserObjects
  <2>3. Abstract(new) = [guarded |-> FALSE, deleting |-> FALSE, uuid |-> None]
    BY <2>2, AliasAbsentAssumption DEF Abstract, EmptyStatus
  <2> HIDE DEF new
  <2>4. Object' = [Object EXCEPT ![c] = [guarded |-> FALSE, deleting |-> FALSE, uuid |-> None]]
    BY <2>1, <2>3, MappedWrite
  <2>5. Object[c] = None
    BY <2>1, MappedAbsent
  <2> QED
    BY <2>4, <2>5 DEF Managed!Declare, Managed!Exists, Managed!Becomes, Object
<1>3. ASSUME NEW c \in CRs, NEW s \in Specs, UserEdits(c, s) PROVE UNCHANGED Object
  <2> DEFINE new == [api[c] EXCEPT !.spec = s, !.gen = api[c].gen + 1]
  <2>1. api[c] \in Objects /\ api' = [api EXCEPT ![c] = new]
    BY <1>1, <1>3 DEF UserEdits
  <2>2. new \in Objects
    BY <2>1, TypeUserObjects
  <2>3. /\ new.finalizer = api[c].finalizer /\ new.deleting = api[c].deleting
        /\ new.status = api[c].status
    BY <2>1 DEF Objects
  <2> HIDE DEF new
  <2>4. Abstract(new) = Abstract(api[c])
    BY <2>1, <2>2, <2>3, AliasAbsentAssumption DEF Abstract
  <2> QED
    BY <2>1, <2>4, MappedWrite DEF Object
<1>4. ASSUME NEW c \in CRs, UserDeletes(c)
      PROVE  Managed!Withdraw(c) \/ Managed!Condemn(c)
  <2>1. api[c] \in Objects
    BY <1>1, <1>4 DEF UserDeletes
  <2>2. /\ Object[c] # None
        /\ Object[c] = [guarded |-> api[c].finalizer, deleting |-> api[c].deleting,
                        uuid |-> api[c].status.uuid]
    BY <1>4, MappedObject DEF UserDeletes
  <2>3. CASE ~ api[c].finalizer
    <3>1. Object' = [Object EXCEPT ![c] = None]
      BY <1>4, <2>3, MappedWrite DEF UserDeletes, Abstract
    <3> QED
      BY <2>2, <2>3, <3>1 DEF Managed!Withdraw, Managed!Exists, Managed!Becomes, Object
  <2>4. CASE api[c].finalizer
    <3> DEFINE new == [api[c] EXCEPT !.deleting = TRUE]
    <3>1. api' = [api EXCEPT ![c] = new]
      BY <1>4, <2>4 DEF UserDeletes
    <3>2. api[c].spec \in Specs
      BY <2>1 DEF Objects
    <3>3. new \in Objects
      BY <2>1, <3>2, TypeUserObjects
    <3>4. new.finalizer /\ new.deleting /\ new.status = api[c].status
      BY <2>1, <2>4 DEF Objects
    <3>5. new.finalizer = TRUE /\ new.deleting = TRUE
      BY <3>3, <3>4 DEF Objects
    <3> HIDE DEF new
    <3>6. Abstract(new) = [guarded |-> TRUE, deleting |-> TRUE, uuid |-> Object[c].uuid]
      BY <2>2, <3>3, <3>4, <3>5, AliasAbsentAssumption DEF Abstract
    <3>7. Object' = [Object EXCEPT ![c] =
                       [guarded |-> TRUE, deleting |-> TRUE, uuid |-> Object[c].uuid]]
      BY <3>1, <3>6, MappedWrite
    <3> QED
      BY <2>2, <2>4, <3>7 DEF Managed!Condemn, Managed!Exists, Managed!Becomes, Object
  <2> QED
    BY <2>3, <2>4
<1> QED
  BY <1>2, <1>3, <1>4 DEF UserSteps, Specs

\* The three writes of the controller.
LEMMA MappedGuard ==
  ASSUME VarTypes, DeletionInv, PathInv, rec.pc = "addFinalizer", UNCHANGED Live,
         Stored(rec.cr, rec.obj, WithFinalizer)
  PROVE  Managed!Guard(rec.cr)
<1>1. rec.pc # "idle" /\ rec.cr \in CRs /\ rec.obj \in Objects
  BY BusyFields
<1>2. /\ api[rec.cr] = rec.obj /\ api[rec.cr] # None
      /\ api' = [api EXCEPT ![rec.cr] = WithFinalizer]
  BY <1>1, AliasAbsentAssumption DEF Stored
<1>3. ~ rec.obj.finalizer /\ ~ rec.obj.deleting /\ rec.obj.status.uuid = None
  BY <1>1, <1>2 DEF PathInv, DeletionInv
<1>4. /\ WithFinalizer \in Objects
      /\ WithFinalizer.finalizer = TRUE /\ WithFinalizer.deleting = rec.obj.deleting
      /\ WithFinalizer.status = rec.obj.status
  BY <1>1, WrittenFields
<1>5. WithFinalizer.deleting = FALSE
  BY <1>1, <1>3, <1>4 DEF Objects
<1>6. Abstract(WithFinalizer) = [guarded |-> TRUE, deleting |-> FALSE, uuid |-> None]
  BY <1>3, <1>4, <1>5, AliasAbsentAssumption DEF Abstract
<1>7. Object' = [Object EXCEPT ![rec.cr] = [guarded |-> TRUE, deleting |-> FALSE, uuid |-> None]]
  BY <1>1, <1>2, <1>6, MappedWrite
<1>8. Object[rec.cr] # None /\ ~ Object[rec.cr].guarded
  BY <1>1, <1>2, <1>3, MappedObject
<1> QED
  BY <1>7, <1>8 DEF Managed!Guard, Managed!Exists, Managed!Becomes, Object

LEMMA MappedRecord ==
  ASSUME VarTypes, DeletionInv, PathInv, rec.pc = "setStatus", UNCHANGED Live,
         Stored(rec.cr, rec.obj, WithStatus)
  PROVE  \/ \E u \in UUIDs : Managed!Record(rec.cr, u)
         \/ UNCHANGED Object
<1>1. /\ rec.pc # "idle" /\ rec.cr \in CRs /\ rec.obj \in Objects
      /\ rec.status \in Statuses
  BY BusyFields
<1>2. /\ api[rec.cr] = rec.obj /\ api[rec.cr] # None
      /\ api' = [api EXCEPT ![rec.cr] = WithStatus]
  BY <1>1, AliasAbsentAssumption DEF Stored
<1>3. rec.obj.finalizer = TRUE
  BY <1>1 DEF DeletionInv, Objects
<1>4. /\ WithStatus \in Objects
      /\ WithStatus.finalizer = rec.obj.finalizer /\ WithStatus.deleting = rec.obj.deleting
      /\ WithStatus.status = rec.status
  BY <1>1, WrittenFields
<1>5. Abstract(WithStatus) = [guarded |-> TRUE, deleting |-> rec.obj.deleting,
                              uuid |-> rec.status.uuid]
  BY <1>3, <1>4, AliasAbsentAssumption DEF Abstract
<1>6. Object' = [Object EXCEPT ![rec.cr] =
                   [guarded |-> TRUE, deleting |-> rec.obj.deleting, uuid |-> rec.status.uuid]]
  BY <1>1, <1>2, <1>5, MappedWrite
<1>7. /\ Object[rec.cr] # None
      /\ Object[rec.cr] = [guarded |-> TRUE, deleting |-> rec.obj.deleting,
                           uuid |-> rec.obj.status.uuid]
      /\ Object[rec.cr].guarded = TRUE
      /\ Object[rec.cr].deleting = rec.obj.deleting
  BY <1>1, <1>2, <1>3, MappedObject
<1>8. CASE rec.status.uuid = rec.obj.status.uuid
  BY <1>6, <1>7, <1>8 DEF Object
<1>9. CASE rec.status.uuid \in UUIDs /\ ~ rec.obj.deleting
  <2>1. rec.obj.deleting = FALSE
    BY <1>1, <1>9 DEF Objects
  <2> QED
    BY <1>6, <1>7, <1>9, <2>1
       DEF Managed!Record, Managed!Exists, Managed!Becomes, Object
<1> QED
  BY <1>8, <1>9 DEF PathInv

LEMMA MappedRelease ==
  ASSUME VarTypes, DeletionInv, PathInv, rec.pc = "removeFinalizer", UNCHANGED Live,
         Stored(rec.cr, rec.obj, None)
  PROVE  Managed!Release(rec.cr)
<1>1. rec.pc # "idle" /\ rec.cr \in CRs /\ rec.obj \in Objects
  BY BusyFields
<1>2. /\ api[rec.cr] = rec.obj /\ api[rec.cr] # None
      /\ api' = [api EXCEPT ![rec.cr] = None]
  BY <1>1, AliasAbsentAssumption DEF Stored
<1>3. rec.obj.finalizer /\ rec.obj.deleting /\ rec.obj.status.uuid \notin Live
  BY AliasNoneAssumption DEF DeletionInv, PathInv, Live
<1>4. Object' = [Object EXCEPT ![rec.cr] = None]
  BY <1>1, <1>2, MappedWrite DEF Abstract
<1>5. /\ Object[rec.cr] # None /\ Object[rec.cr].guarded /\ Object[rec.cr].deleting
      /\ Object[rec.cr].uuid \notin Live
  BY <1>1, <1>2, <1>3, MappedObject
<1> QED
  BY <1>4, <1>5 DEF Managed!Release, Managed!Exists, Managed!Becomes, Object

----------------------------------------------------------------------------
\* The refinement.

\* A step that touches the objects is one of a user, or one write of the controller.
LEMMA ObjectSteps ==
  ASSUME VarTypes, PathInv, [Next]_vars, api' # api
  PROVE  /\ UNCHANGED <<staged, running>>
         /\ \/ UserSteps
            \/ rec.pc = "addFinalizer" /\ Stored(rec.cr, rec.obj, WithFinalizer)
            \/ rec.pc = "setStatus" /\ Stored(rec.cr, rec.obj, WithStatus)
            \/ rec.pc = "removeFinalizer" /\ Stored(rec.cr, rec.obj, None)
<1>1. CASE UserOrInformerStep
  BY <1>1 DEF UserOrInformerStep, UserSteps, WatchEvent, Resync, aliasVars
<1>2. CASE KubeSteps
  BY <1>2, KubeWrites DEF aliasVars
<1> QED
  BY <1>1, <1>2, StepsSplit, ReconcileGoesOn, RemoteGoesOn
     DEF Crash, Relist, AdminStep, vars, kubeVars

LEMMA MappedInit == Init => Managed!Init
<1> SUFFICES ASSUME Init PROVE Managed!Init
  OBVIOUS
<1>1. [c \in CRs |-> Abstract(api[c])] = [c \in CRs |-> None]
  BY DEF Init, KubeInit, Abstract
<1>2. Live = {}
  BY DEF Init, AliasInit, Live
<1> QED
  BY <1>1, <1>2 DEF Managed!Init

LEMMA MappedNext ==
  ASSUME VarTypes, DeletionInv, PathInv, [Next]_vars
  PROVE  Managed!Next \/ UNCHANGED <<Object, Live>>
<1>1. CASE UNCHANGED api
  BY <1>1, MappedFirewall DEF Managed!Next
<1>2. CASE api' # api
  <2>1. UNCHANGED Live
    BY <1>2, ObjectSteps DEF Live
  <2>2. CASE UserSteps
    BY <2>1, <2>2, MappedUser DEF Managed!Next
  <2>3. CASE rec.pc = "addFinalizer" /\ Stored(rec.cr, rec.obj, WithFinalizer)
    BY <2>1, <2>3, MappedGuard, BusyFields DEF Managed!Next
  <2>4. CASE rec.pc = "setStatus" /\ Stored(rec.cr, rec.obj, WithStatus)
    BY <2>1, <2>4, MappedRecord, BusyFields DEF Managed!Next
  <2>5. CASE rec.pc = "removeFinalizer" /\ Stored(rec.cr, rec.obj, None)
    BY <2>1, <2>5, MappedRelease, BusyFields DEF Managed!Next
  <2> QED
    BY <1>2, <2>2, <2>3, <2>4, <2>5, ObjectSteps
<1> QED
  BY <1>1, <1>2

\* Every behaviour of the controller, its users and the administrator, seen through
\* the mapping, is one of ManagedResource: guarded before recorded, recorded for good,
\* released only when the recorded alias is gone.
THEOREM RefinementCorrect == Spec => Implements
<1>1. Init => VarTypes /\ DeletionInv /\ PathInv
  BY TypeInit, DeletionInit, PathInit
<1>2. VarTypes /\ DeletionInv /\ PathInv /\ [Next]_vars =>
        VarTypes' /\ DeletionInv' /\ PathInv'
  BY TypeNext, DeletionNext, PathNext
<1>3. Init => Managed!Init
  BY MappedInit
<1>4. VarTypes /\ DeletionInv /\ PathInv /\ [Next]_vars =>
        [Managed!Next]_<<[c \in CRs |-> Abstract(api[c])], Live>>
  BY MappedNext DEF Object
<1> QED
  BY <1>1, <1>2, <1>3, <1>4, PTL DEF Spec, Implements, Managed!Spec
=============================================================================

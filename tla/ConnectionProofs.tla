-------------------------- MODULE ConnectionProofs --------------------------
(***************************************************************************)
(* Theorems about Connection, for every value of its constants: its        *)
(* variables have their types; a connection is never merely marked for     *)
(* deletion, for nothing gives it a finalizer; and every call uses what an *)
(* earlier call of the same reconcile has read.                            *)
(***************************************************************************)
EXTENDS Connection, TLAPS

----------------------------------------------------------------------------
\* A deleted connection is gone at once.
Unheld == \A c \in CRs : api[c] # None => ~ api[c].finalizer /\ ~ api[c].deleting

TypeInv == VarTypes /\ Unheld

LEMMA TypeInit == Init => TypeInv
  BY DEF Init, KubeInit, VarTypes, KubeTypeOK, TypeInv, Unheld

LEMMA BusyFields ==
  ASSUME VarTypes, rec.pc # "idle"
  PROVE  rec \in Busy /\ rec.cr \in CRs /\ rec.obj \in Objects /\ rec.obj.spec \in Specs
  BY DEF VarTypes, Busy, Idle, Objects

\* The outcome of a step to be reported leaves a well-formed reconcile.
LEMMA TypeReport ==
  ASSUME VarTypes, rec.pc # "idle", NEW value \in {"True", "False"}, SetReady(value)
  PROVE  rec' \in Busy
  BY BusyFields DEF SetReady, Busy, Idle

\* Steps that leave the objects alone.
LEMMA TypeCall ==
  ASSUME TypeInv, UNCHANGED <<kubeVars, timer, envVars>>, rec' \in Busy \union {Idle}
  PROVE  TypeInv'
  BY DEF TypeInv, VarTypes, KubeTypeOK, Unheld, kubeVars, envVars

\* What is read of the Secrets.
LEMMA CredentialsRead ==
  ASSUME VarTypes, NEW spec \in Specs, HasCredentials(spec)
  PROVE  secrets[spec.secret].keys \in {"accepted", "refused"}
<1>1. spec.secret \in SecretNames /\ spec.secret # None
  BY ConnectionAssumption
<1>2. secrets[spec.secret] \in Secrets
  BY <1>1, ConnectionAssumption DEF VarTypes, HasCredentials, SecretOf
<1> QED
  BY <1>2 DEF HasCredentials, Secrets

LEMMA TLSRead ==
  ASSUME VarTypes, NEW spec \in Specs
  PROVE  BuildHTTPClient(spec) \in {"skip", "system", "signer", "stranger", "broken"}
<1>1. spec.ca \in SecretNames \union {None} /\ spec.skip \in BOOLEAN
  BY ConnectionAssumption
<1>2. CASE spec.ca # None /\ HasCA(spec)
  <2>1. secrets[spec.ca] \in Secrets /\ secrets[spec.ca].ca # "invalid"
    BY <1>1, <1>2, ConnectionAssumption DEF VarTypes, HasCA, SecretOf
  <2> QED
    BY <1>2, <2>1 DEF BuildHTTPClient, Secrets
<1> QED
  BY <1>1, <1>2 DEF BuildHTTPClient

LEMMA TypeRemote ==
  ASSUME TypeInv, GetSecret \/ ConfigureTLS \/ CheckConnectivity \/ CheckFails
  PROVE  TypeInv'
<1>1. VarTypes /\ rec.pc # "idle" /\ UNCHANGED <<kubeVars, timer, envVars>>
  BY DEF TypeInv, GetSecret, ConfigureTLS, CheckConnectivity, CheckFails
<1>2. rec \in Busy /\ rec.obj.spec \in Specs
  BY <1>1, BusyFields
<1>3. CASE \E value \in {"True", "False"} : SetReady(value)
  BY <1>1, <1>3, TypeReport, TypeCall
<1>4. CASE GetSecret /\ HasCredentials(rec.obj.spec)
  <2>1. secrets[rec.obj.spec.secret].keys \in {"accepted", "refused"}
    BY <1>1, <1>2, <1>4, CredentialsRead
  <2>2. rec' = [rec EXCEPT !.pc = "buildHTTP", !.keys = secrets[rec.obj.spec.secret].keys]
        \/ SetReady("False")
    BY <1>4 DEF GetSecret
  <2>3. [rec EXCEPT !.pc = "buildHTTP", !.keys = secrets[rec.obj.spec.secret].keys] \in Busy
    BY <1>2, <2>1 DEF Busy
  <2> QED
    BY <1>1, <1>3, <2>2, <2>3, TypeCall
<1>5. CASE ConfigureTLS /\ BuildHTTPClient(rec.obj.spec) # "broken"
  <2>1. BuildHTTPClient(rec.obj.spec) \in {"skip", "system", "signer", "stranger"}
    BY <1>1, <1>2, <1>5, TLSRead
  <2>2. rec' = [rec EXCEPT !.pc = "check", !.tls = BuildHTTPClient(rec.obj.spec)]
    BY <1>5 DEF ConfigureTLS
  <2>3. rec' \in Busy
    BY <1>2, <2>1, <2>2 DEF Busy
  <2> QED
    BY <1>1, <2>3, TypeCall
<1> QED
  BY <1>3, <1>4, <1>5 DEF GetSecret, ConfigureTLS, CheckConnectivity, CheckFails

\* The status update keeps the rest of the copy.
LEMMA TypeWritten ==
  ASSUME VarTypes, rec.pc # "idle"
  PROVE  /\ WithStatus \in Objects
         /\ WithStatus.finalizer = rec.obj.finalizer
         /\ WithStatus.deleting = rec.obj.deleting
<1>1. [obsGen |-> rec.obj.gen, ready |-> rec.ready] \in Statuses
  BY BusyFields DEF Busy, Objects, Statuses
<1> QED
  BY <1>1, BusyFields DEF WithStatus, Objects

LEMMA TypeUpdate ==
  ASSUME TypeInv, SetReadyCondition \/ StatusUpdateFails \/ GetSecretFails
  PROVE  TypeInv'
<1>1. /\ rec.pc # "idle" /\ rec' = Idle /\ queue' \subseteq queue \union {rec.cr}
      /\ timer' \subseteq timer \union {rec.cr} /\ UNCHANGED <<cache, envVars>>
  BY DEF SetReadyCondition, StatusUpdateFails, GetSecretFails, Return
<1>2. VarTypes /\ rec.cr \in CRs
  BY <1>1, BusyFields DEF TypeInv
<1>3. UNCHANGED api \/ Stored(rec.cr, rec.obj, WithStatus)
  BY DEF SetReadyCondition, StatusUpdateFails, GetSecretFails, Conflict
<1>4. api' \in [CRs -> Objects \union {None}] /\ Unheld'
  <2>1. api \in [CRs -> Objects \union {None}] /\ Unheld
    BY DEF TypeInv, VarTypes, KubeTypeOK
  <2>2. CASE UNCHANGED api
    BY <2>1, <2>2 DEF Unheld
  <2>3. CASE Stored(rec.cr, rec.obj, WithStatus)
    <3>1. api[rec.cr] = rec.obj /\ rec.obj # None
      BY <1>1, <1>2, <2>3, BusyFields, ConnectionAbsentAssumption DEF Stored
    <3> QED
      BY <1>1, <1>2, <2>1, <2>3, <3>1, TypeWritten DEF Stored, Unheld
  <2> QED
    BY <1>3, <2>2, <2>3
<1>5. VarTypes'
  BY <1>1, <1>2, <1>4 DEF TypeInv, VarTypes, KubeTypeOK, Unheld, envVars
<1> QED
  BY <1>4, <1>5 DEF TypeInv

LEMMA TypeReconcile ==
  ASSUME TypeInv, NEW c \in CRs, Reconcile(c) \/ TimerFires(c)
  PROVE  TypeInv'
<1>1. rec' \in Busy \union {Idle}
  <2>1. CASE UNCHANGED rec
    BY <2>1 DEF TypeInv, VarTypes
  <2>2. CASE cache[c] # None /\ rec' = [Idle EXCEPT !.pc = "getSecret", !.cr = c, !.obj = cache[c]]
    <3>1. cache[c] \in Objects
      BY <2>2 DEF TypeInv, VarTypes, KubeTypeOK
    <3> QED
      BY <2>2, <3>1 DEF Idle, Busy
  <2> QED
    BY <2>1, <2>2 DEF Reconcile, TimerFires
<1>2. queue' \subseteq CRs /\ timer' \subseteq CRs /\ UNCHANGED <<api, cache, envVars>>
  BY DEF Reconcile, TimerFires, TypeInv, VarTypes, KubeTypeOK
<1> QED
  BY <1>1, <1>2 DEF TypeInv, VarTypes, KubeTypeOK, Unheld, envVars

LEMMA TypeUser ==
  ASSUME TypeInv, UserOrInformerStep
  PROVE  TypeInv'
<1>1. api \in [CRs -> Objects \union {None}] /\ Unheld /\ KubeTypeOK
  BY DEF TypeInv, VarTypes, KubeTypeOK
<1>2. ASSUME NEW c \in CRs, NEW s \in Specs, UserCreates(c, s) \/ UserEdits(c, s)
      PROVE  KubeTypeOK' /\ Unheld'
  <2>1. CASE UserCreates(c, s)
    <3> DEFINE o == [gen |-> 1, spec |-> s, deleting |-> FALSE, finalizer |-> FALSE,
                     status |-> EmptyStatus]
    <3>1. o \in Objects /\ ~ o.finalizer /\ ~ o.deleting
      BY DEF Objects, EmptyStatus, Statuses
    <3>2. api' = [api EXCEPT ![c] = o] /\ UNCHANGED <<cache, queue>>
      BY <2>1 DEF UserCreates
    <3> HIDE DEF o
    <3> QED
      BY <1>1, <3>1, <3>2 DEF KubeTypeOK, Unheld
  <2>2. CASE UserEdits(c, s)
    <3> DEFINE o == [api[c] EXCEPT !.spec = s, !.gen = api[c].gen + 1]
    <3>1. api[c] \in Objects /\ ~ api[c].finalizer /\ ~ api[c].deleting
      BY <1>1, <2>2 DEF UserEdits, Unheld
    <3>2. api[c].gen + 1 \in Nat
      BY <3>1 DEF Objects
    <3>3. o \in Objects /\ ~ o.finalizer /\ ~ o.deleting
      BY <3>1, <3>2 DEF Objects
    <3>4. api' = [api EXCEPT ![c] = o] /\ UNCHANGED <<cache, queue>>
      BY <1>1, <2>2 DEF UserEdits
    <3> HIDE DEF o
    <3> QED
      BY <1>1, <3>3, <3>4 DEF KubeTypeOK, Unheld
  <2> QED
    BY <1>2, <2>1, <2>2
<1>3. ASSUME NEW c \in CRs, UserDeletes(c) PROVE KubeTypeOK' /\ Unheld'
  <2>1. api' = [api EXCEPT ![c] = None] /\ UNCHANGED <<cache, queue>>
    BY <1>1, <1>3 DEF UserDeletes, Unheld
  <2> QED
    BY <1>1, <2>1 DEF KubeTypeOK, Unheld
<1>4. ASSUME NEW c \in CRs, WatchEvent(c) \/ Resync(c) PROVE KubeTypeOK' /\ Unheld'
  BY <1>1, <1>4 DEF WatchEvent, Resync, KubeTypeOK, Unheld
<1>5. KubeTypeOK' /\ Unheld'
  BY <1>2, <1>3, <1>4 DEF UserOrInformerStep, UserStep
<1> QED
  BY <1>5 DEF UserOrInformerStep, TypeInv, VarTypes, Unheld, envVars

LEMMA TypeNext == TypeInv /\ [Next]_connectionVars => TypeInv'
<1> SUFFICES ASSUME TypeInv, [Next]_connectionVars PROVE TypeInv'
  OBVIOUS
<1>1. CASE Crash
  BY <1>1 DEF Crash, Relist, TypeInv, VarTypes, KubeTypeOK, Unheld, envVars
<1>2. CASE EnvStep
  <2>1. UNCHANGED <<kubeVars, timer, rec>>
    BY <1>2 DEF EnvStep
  <2>2. /\ secrets' \in [SecretNames -> SecretContents \union {None}]
        /\ firewalls' \in [URLs -> FirewallStates]
    BY <1>2 DEF EnvStep, TypeInv, VarTypes
  <2> QED
    BY <2>1, <2>2 DEF TypeInv, VarTypes, KubeTypeOK, Unheld, kubeVars
<1>3. CASE UNCHANGED connectionVars
  BY <1>3 DEF connectionVars, kubeVars, envVars, TypeInv, VarTypes, KubeTypeOK, Unheld
<1> QED
  BY <1>1, <1>2, <1>3, TypeRemote, TypeUpdate, TypeReconcile, TypeUser
     DEF Next, Calls, Failures

----------------------------------------------------------------------------
\* What a reconcile has read, and what a written status says.

RecReads ==
  /\ rec.pc \in {"buildHTTP", "check"} => rec.keys \in {"accepted", "refused"}
  /\ rec.pc = "check" => rec.tls \in {"skip", "system", "signer", "stranger"}
  /\ rec.pc = "setStatus" => rec.ready \in {"True", "False"}

StatusReads == \A c \in CRs : api[c] # None => api[c].status.obsGen <= api[c].gen

LEMMA ReadsSplit == ReadsComplete <=> RecReads /\ StatusReads
  BY DEF ReadsComplete, RecReads, StatusReads

LEMMA ReadsInit == Init => ReadsComplete
  BY DEF Init, KubeInit, ReadsComplete, Idle

\* A step of the reconcile to be reported, or its last one.
LEMMA ReadsEnd ==
  ASSUME rec' = Idle \/ \E value \in {"True", "False"} : SetReady(value)
  PROVE  RecReads'
<1>1. CASE rec' = Idle
  BY <1>1 DEF Idle, RecReads
<1>2. ASSUME NEW value \in {"True", "False"}, SetReady(value) PROVE RecReads'
  <2>1. rec'.pc = "setStatus" /\ rec'.ready = value
    BY <1>2 DEF SetReady, Idle
  <2> QED
    BY <2>1 DEF RecReads
<1> QED
  BY <1>1, <1>2

LEMMA ReadsRemote ==
  ASSUME TypeInv, RecReads, GetSecret \/ ConfigureTLS \/ CheckConnectivity \/ CheckFails
  PROVE  RecReads'
<1>1. VarTypes /\ rec \in Busy /\ rec.obj.spec \in Specs
  BY BusyFields DEF TypeInv, GetSecret, ConfigureTLS, CheckConnectivity, CheckFails
<1>2. CASE \E value \in {"True", "False"} : SetReady(value)
  BY <1>2, ReadsEnd
<1>3. CASE GetSecret /\ HasCredentials(rec.obj.spec)
  <2>1. secrets[rec.obj.spec.secret].keys \in {"accepted", "refused"}
    BY <1>1, <1>3, CredentialsRead
  <2>2. \/ rec' = [rec EXCEPT !.pc = "buildHTTP", !.keys = secrets[rec.obj.spec.secret].keys]
        \/ SetReady("False")
    BY <1>3 DEF GetSecret
  <2> QED
    BY <1>1, <1>2, <2>1, <2>2 DEF Busy, RecReads
<1>4. CASE ConfigureTLS /\ BuildHTTPClient(rec.obj.spec) # "broken"
  <2>1. BuildHTTPClient(rec.obj.spec) \in {"skip", "system", "signer", "stranger"}
    BY <1>1, <1>4, TLSRead
  <2>2. rec' = [rec EXCEPT !.pc = "check", !.tls = BuildHTTPClient(rec.obj.spec)]
        /\ rec.pc = "buildHTTP"
    BY <1>4 DEF ConfigureTLS
  <2> QED
    BY <1>1, <2>1, <2>2 DEF Busy, RecReads
<1> QED
  BY <1>2, <1>3, <1>4 DEF GetSecret, ConfigureTLS, CheckConnectivity, CheckFails

LEMMA ReadsRec == TypeInv /\ RecReads /\ [Next]_connectionVars => RecReads'
<1> SUFFICES ASSUME TypeInv, RecReads, [Next]_connectionVars PROVE RecReads'
  OBVIOUS
<1>1. CASE GetSecret \/ ConfigureTLS \/ CheckConnectivity \/ CheckFails
  BY <1>1, ReadsRemote
<1>2. CASE SetReadyCondition \/ StatusUpdateFails \/ GetSecretFails \/ Crash
  BY <1>2, ReadsEnd
     DEF SetReadyCondition, StatusUpdateFails, GetSecretFails, Crash, Return
<1>3. CASE UNCHANGED rec
  BY <1>3 DEF RecReads
<1>4. CASE \E c \in CRs : Reconcile(c)
  <2>1. UNCHANGED rec \/ rec'.pc = "getSecret"
    BY <1>4 DEF Reconcile, Idle
  <2> QED
    BY <1>3, <2>1 DEF RecReads
<1> QED
  BY <1>1, <1>2, <1>3, <1>4
     DEF Next, Calls, Failures, TimerFires, UserOrInformerStep, EnvStep, connectionVars

\* The status that is written is of the generation that is stored.
LEMMA ReadsStored ==
  ASSUME TypeInv, StatusReads, rec.pc # "idle", Stored(rec.cr, rec.obj, WithStatus)
  PROVE  StatusReads'
<1>1. /\ rec.obj \in Objects /\ rec.cr \in CRs
      /\ api \in [CRs -> Objects \union {None}]
  BY BusyFields DEF TypeInv, VarTypes, KubeTypeOK
<1>2. WithStatus.status.obsGen = rec.obj.gen /\ WithStatus.gen = rec.obj.gen
  BY <1>1 DEF WithStatus, Objects
<1>3. rec.obj.gen <= rec.obj.gen
  BY <1>1 DEF Objects
<1>4. api' = [api EXCEPT ![rec.cr] = WithStatus]
  BY DEF Stored
<1> QED
  BY <1>1, <1>2, <1>3, <1>4 DEF StatusReads

LEMMA ReadsUser ==
  ASSUME TypeInv, StatusReads, UserStep
  PROVE  StatusReads'
<1>1. api \in [CRs -> Objects \union {None}]
  BY DEF TypeInv, VarTypes, KubeTypeOK
<1>2. ASSUME NEW c \in CRs, NEW s \in Specs, UserCreates(c, s) PROVE StatusReads'
  <2> DEFINE o == [gen |-> 1, spec |-> s, deleting |-> FALSE, finalizer |-> FALSE,
                   status |-> EmptyStatus]
  <2>1. o.status.obsGen <= o.gen
    BY DEF EmptyStatus
  <2>2. api' = [api EXCEPT ![c] = o]
    BY <1>2 DEF UserCreates
  <2> HIDE DEF o
  <2> QED
    BY <1>1, <2>1, <2>2 DEF StatusReads
<1>3. ASSUME NEW c \in CRs, NEW s \in Specs, UserEdits(c, s) PROVE StatusReads'
  <2> DEFINE o == [api[c] EXCEPT !.spec = s, !.gen = api[c].gen + 1]
  <2>1. api[c] # None /\ api[c] \in Objects
    BY <1>1, <1>3 DEF UserEdits
  <2>2. api[c].gen \in Nat /\ api[c].status.obsGen \in Nat
    BY <2>1 DEF Objects, Statuses
  <2>3. o.status = api[c].status /\ o.gen = api[c].gen + 1
    BY <2>1 DEF Objects
  <2>4. api[c].status.obsGen <= api[c].gen
    BY <2>1 DEF StatusReads
  <2>5. o.status.obsGen <= o.gen
    BY <2>2, <2>3, <2>4
  <2>6. api' = [api EXCEPT ![c] = o]
    BY <1>1, <1>3 DEF UserEdits
  <2> HIDE DEF o
  <2> QED
    BY <1>1, <2>5, <2>6 DEF StatusReads
<1>4. ASSUME NEW c \in CRs, UserDeletes(c) PROVE StatusReads'
  <2>1. api' = [api EXCEPT ![c] = None]
    BY <1>1, <1>4 DEF UserDeletes, TypeInv, Unheld
  <2> QED
    BY <1>1, <2>1 DEF StatusReads
<1> QED
  BY <1>2, <1>3, <1>4 DEF UserStep

LEMMA ReadsStatus == TypeInv /\ StatusReads /\ [Next]_connectionVars => StatusReads'
<1> SUFFICES ASSUME TypeInv, StatusReads, [Next]_connectionVars PROVE StatusReads'
  OBVIOUS
<1>1. CASE UNCHANGED api
  BY <1>1 DEF StatusReads
<1>2. CASE rec.pc # "idle" /\ Stored(rec.cr, rec.obj, WithStatus)
  BY <1>2, ReadsStored
<1>3. CASE UserStep
  BY <1>3, ReadsUser
<1>4. CASE SetReadyCondition \/ StatusUpdateFails
  BY <1>1, <1>2, <1>4 DEF SetReadyCondition, StatusUpdateFails, Conflict
<1>5. CASE UserOrInformerStep
  BY <1>1, <1>3, <1>5 DEF UserOrInformerStep, WatchEvent, Resync
<1> QED
  BY <1>1, <1>4, <1>5
     DEF Next, Calls, Failures, GetSecret, ConfigureTLS, CheckConnectivity, CheckFails,
         GetSecretFails, Crash, Relist, EnvStep, Reconcile, TimerFires, connectionVars,
         kubeVars

LEMMA ReadsNext == TypeInv /\ ReadsComplete /\ [Next]_connectionVars => ReadsComplete'
<1> SUFFICES ASSUME TypeInv, ReadsComplete, [Next]_connectionVars PROVE ReadsComplete'
  OBVIOUS
<1>1. RecReads' /\ StatusReads'
  BY ReadsSplit, ReadsRec, ReadsStatus
<1> QED
  BY <1>1 DEF ReadsComplete, RecReads, StatusReads

\* No call is made without what it uses, no status speaks of a spec that is still to be
\* written, every variable has its type, and no connection is held back when it is
\* deleted, for any connections, Secrets, firewalls and bounds.
THEOREM TypeCorrect == Spec => []TypeOK
<1>1. TypeInv => VarTypes
  BY DEF TypeInv
<1>2. TypeInv /\ ReadsComplete /\ [Next]_connectionVars => ReadsComplete'
  BY ReadsNext
<1> QED
  BY <1>1, <1>2, ReadsInit, TypeInit, TypeNext, PTL DEF Spec, TypeOK
=============================================================================

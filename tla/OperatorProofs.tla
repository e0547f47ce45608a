--------------------------- MODULE OperatorProofs ---------------------------
(***************************************************************************)
(* Theorems about Operator, for every value of its constants: its          *)
(* variables have their types, and, as long as no connection is moved to   *)
(* another firewall, it implements ManagedResource whatever happens to the *)
(* connections, their Secrets and the process.                             *)
(***************************************************************************)
EXTENDS Operator, TLAPS

----------------------------------------------------------------------------
\* The connections.  (What a theorem of module Connection says of an instance the
\* provers cannot use; these are the lemmas of ConnectionProofs for this one.)

\* A deleted connection is gone at once.
Unheld ==
  \A c \in Connections : conns[c] # None => ~ conns[c].finalizer /\ ~ conns[c].deleting

ConnInv == C!VarTypes /\ Unheld

LEMMA ConnInit == C!Init => ConnInv
  BY DEF C!Init, C!KubeInit, C!VarTypes, C!KubeTypeOK, ConnInv, Unheld

LEMMA ConnBusyFields ==
  ASSUME C!VarTypes, check.pc # "idle"
  PROVE  /\ check \in C!Busy /\ check.cr \in Connections
         /\ check.obj \in C!Objects /\ check.obj.spec \in ConnectionSpecs
  BY DEF C!VarTypes, C!Busy, C!Idle, C!Objects

\* The outcome of a step to be reported leaves a well-formed reconcile.
LEMMA ConnReport ==
  ASSUME C!VarTypes, check.pc # "idle", NEW value \in {"True", "False"}, C!SetReady(value)
  PROVE  check' \in C!Busy
  BY ConnBusyFields DEF C!SetReady, C!Busy, C!Idle

\* Steps that leave the objects alone.
LEMMA ConnCall ==
  ASSUME ConnInv, UNCHANGED <<C!kubeVars, timer, C!envVars>>,
         check' \in C!Busy \union {C!Idle}
  PROVE  ConnInv'
  BY DEF ConnInv, C!VarTypes, C!KubeTypeOK, Unheld, C!kubeVars, C!envVars

\* What is read of the Secrets.
LEMMA ConnCredentialsRead ==
  ASSUME C!VarTypes, NEW spec \in ConnectionSpecs, C!HasCredentials(spec)
  PROVE  secrets[spec.secret].keys \in {"accepted", "refused"}
<1>1. spec.secret \in SecretNames /\ spec.secret # None
  BY OperatorConnectionAssumption DEF C!ConnectionAssumption
<1>2. secrets[spec.secret] \in C!Secrets
  BY <1>1, OperatorConnectionAssumption
     DEF C!ConnectionAssumption, C!VarTypes, C!HasCredentials, C!SecretOf
<1> QED
  BY <1>2 DEF C!HasCredentials, C!Secrets

LEMMA ConnTLSRead ==
  ASSUME C!VarTypes, NEW spec \in ConnectionSpecs
  PROVE  C!BuildHTTPClient(spec) \in {"skip", "system", "signer", "stranger", "broken"}
<1>1. spec.ca \in SecretNames \union {None} /\ spec.skip \in BOOLEAN
  BY OperatorConnectionAssumption DEF C!ConnectionAssumption
<1>2. CASE spec.ca # None /\ C!HasCA(spec)
  <2>1. secrets[spec.ca] \in C!Secrets /\ secrets[spec.ca].ca # "invalid"
    BY <1>1, <1>2, OperatorConnectionAssumption
       DEF C!ConnectionAssumption, C!VarTypes, C!HasCA, C!SecretOf
  <2> QED
    BY <1>2, <2>1 DEF C!BuildHTTPClient, C!Secrets
<1> QED
  BY <1>1, <1>2 DEF C!BuildHTTPClient

LEMMA ConnRemote ==
  ASSUME ConnInv, C!GetSecret \/ C!ConfigureTLS \/ C!CheckConnectivity \/ C!CheckFails
  PROVE  ConnInv'
<1>1. C!VarTypes /\ check.pc # "idle" /\ UNCHANGED <<C!kubeVars, timer, C!envVars>>
  BY DEF ConnInv, C!GetSecret, C!ConfigureTLS, C!CheckConnectivity, C!CheckFails
<1>2. check \in C!Busy /\ check.obj.spec \in ConnectionSpecs
  BY <1>1, ConnBusyFields
<1>3. CASE \E value \in {"True", "False"} : C!SetReady(value)
  BY <1>1, <1>3, ConnReport, ConnCall
<1>4. CASE C!GetSecret /\ C!HasCredentials(check.obj.spec)
  <2>1. secrets[check.obj.spec.secret].keys \in {"accepted", "refused"}
    BY <1>1, <1>2, <1>4, ConnCredentialsRead
  <2>2. \/ check' = [check EXCEPT !.pc = "buildHTTP",
                                  !.keys = secrets[check.obj.spec.secret].keys]
        \/ C!SetReady("False")
    BY <1>4 DEF C!GetSecret
  <2>3. [check EXCEPT !.pc = "buildHTTP", !.keys = secrets[check.obj.spec.secret].keys]
          \in C!Busy
    BY <1>2, <2>1 DEF C!Busy
  <2> QED
    BY <1>1, <1>3, <2>2, <2>3, ConnCall
<1>5. CASE C!ConfigureTLS /\ C!BuildHTTPClient(check.obj.spec) # "broken"
  <2>1. C!BuildHTTPClient(check.obj.spec) \in {"skip", "system", "signer", "stranger"}
    BY <1>1, <1>2, <1>5, ConnTLSRead
  <2>2. check' = [check EXCEPT !.pc = "check", !.tls = C!BuildHTTPClient(check.obj.spec)]
    BY <1>5 DEF C!ConfigureTLS
  <2>3. check' \in C!Busy
    BY <1>2, <2>1, <2>2 DEF C!Busy
  <2> QED
    BY <1>1, <2>3, ConnCall
<1> QED
  BY <1>3, <1>4, <1>5 DEF C!GetSecret, C!ConfigureTLS, C!CheckConnectivity, C!CheckFails

\* The status update keeps the rest of the copy.
LEMMA ConnWritten ==
  ASSUME C!VarTypes, check.pc # "idle"
  PROVE  /\ C!WithStatus \in C!Objects
         /\ C!WithStatus.finalizer = check.obj.finalizer
         /\ C!WithStatus.deleting = check.obj.deleting
<1>1. [obsGen |-> check.obj.gen, ready |-> check.ready] \in C!Statuses
  BY ConnBusyFields DEF C!Busy, C!Objects, C!Statuses
<1> QED
  BY <1>1, ConnBusyFields DEF C!WithStatus, C!Objects

LEMMA ConnUpdate ==
  ASSUME ConnInv, C!SetReadyCondition \/ C!StatusUpdateFails \/ C!GetSecretFails
  PROVE  ConnInv'
<1>1. /\ check.pc # "idle" /\ check' = C!Idle
      /\ connQueue' \subseteq connQueue \union {check.cr}
      /\ timer' \subseteq timer \union {check.cr} /\ UNCHANGED <<connCache, C!envVars>>
  BY DEF C!SetReadyCondition, C!StatusUpdateFails, C!GetSecretFails, C!Return
<1>2. C!VarTypes /\ check.cr \in Connections
  BY <1>1, ConnBusyFields DEF ConnInv
<1>3. UNCHANGED conns \/ C!Stored(check.cr, check.obj, C!WithStatus)
  BY DEF C!SetReadyCondition, C!StatusUpdateFails, C!GetSecretFails, C!Conflict
<1>4. conns' \in [Connections -> C!Objects \union {None}] /\ Unheld'
  <2>1. conns \in [Connections -> C!Objects \union {None}] /\ Unheld
    BY DEF ConnInv, C!VarTypes, C!KubeTypeOK
  <2>2. CASE UNCHANGED conns
    BY <2>1, <2>2 DEF Unheld
  <2>3. CASE C!Stored(check.cr, check.obj, C!WithStatus)
    <3>1. conns[check.cr] = check.obj /\ check.obj # None
      BY <1>1, <1>2, <2>3, ConnBusyFields, OperatorConnectionAssumption
         DEF C!ConnectionAbsentAssumption, C!Stored
    <3> QED
      BY <1>1, <1>2, <2>1, <2>3, <3>1, ConnWritten DEF C!Stored, Unheld
  <2> QED
    BY <1>3, <2>2, <2>3
<1>5. C!VarTypes'
  BY <1>1, <1>2, <1>4 DEF ConnInv, C!VarTypes, C!KubeTypeOK, Unheld, C!envVars
<1> QED
  BY <1>4, <1>5 DEF ConnInv

LEMMA ConnReconcile ==
  ASSUME ConnInv, NEW c \in Connections, C!Reconcile(c) \/ C!TimerFires(c)
  PROVE  ConnInv'
<1>1. check' \in C!Busy \union {C!Idle}
  <2>1. CASE UNCHANGED check
    BY <2>1 DEF ConnInv, C!VarTypes
  <2>2. CASE /\ connCache[c] # None
             /\ check' = [C!Idle EXCEPT !.pc = "getSecret", !.cr = c, !.obj = connCache[c]]
    <3>1. connCache[c] \in C!Objects
      BY <2>2 DEF ConnInv, C!VarTypes, C!KubeTypeOK
    <3> QED
      BY <2>2, <3>1 DEF C!Idle, C!Busy
  <2> QED
    BY <2>1, <2>2 DEF C!Reconcile, C!TimerFires
<1>2. /\ connQueue' \subseteq Connections /\ timer' \subseteq Connections
      /\ UNCHANGED <<conns, connCache, C!envVars>>
  BY DEF C!Reconcile, C!TimerFires, ConnInv, C!VarTypes, C!KubeTypeOK
<1> QED
  BY <1>1, <1>2 DEF ConnInv, C!VarTypes, C!KubeTypeOK, Unheld, C!envVars

LEMMA ConnUser ==
  ASSUME ConnInv, C!UserOrInformerStep
  PROVE  ConnInv'
<1>1. conns \in [Connections -> C!Objects \union {None}] /\ Unheld /\ C!KubeTypeOK
  BY DEF ConnInv, C!VarTypes, C!KubeTypeOK
<1>2. ASSUME NEW c \in Connections, NEW s \in ConnectionSpecs,
             C!UserCreates(c, s) \/ C!UserEdits(c, s)
      PROVE  C!KubeTypeOK' /\ Unheld'
  <2>1. CASE C!UserCreates(c, s)
    <3> DEFINE o == [gen |-> 1, spec |-> s, deleting |-> FALSE, finalizer |-> FALSE,
                     status |-> C!EmptyStatus]
    <3>1. o \in C!Objects /\ ~ o.finalizer /\ ~ o.deleting
      BY DEF C!Objects, C!EmptyStatus, C!Statuses
    <3>2. conns' = [conns EXCEPT ![c] = o] /\ UNCHANGED <<connCache, connQueue>>
      BY <2>1 DEF C!UserCreates
    <3> HIDE DEF o
    <3> QED
      BY <1>1, <3>1, <3>2 DEF C!KubeTypeOK, Unheld
  <2>2. CASE C!UserEdits(c, s)
    <3> DEFINE o == [conns[c] EXCEPT !.spec = s, !.gen = conns[c].gen + 1]
    <3>1. conns[c] \in C!Objects /\ ~ conns[c].finalizer /\ ~ conns[c].deleting
      BY <1>1, <2>2 DEF C!UserEdits, Unheld
    <3>2. conns[c].gen + 1 \in Nat
      BY <3>1 DEF C!Objects
    <3>3. o \in C!Objects /\ ~ o.finalizer /\ ~ o.deleting
      BY <3>1, <3>2 DEF C!Objects
    <3>4. conns' = [conns EXCEPT ![c] = o] /\ UNCHANGED <<connCache, connQueue>>
      BY <1>1, <2>2 DEF C!UserEdits
    <3> HIDE DEF o
    <3> QED
      BY <1>1, <3>3, <3>4 DEF C!KubeTypeOK, Unheld
  <2> QED
    BY <1>2, <2>1, <2>2
<1>3. ASSUME NEW c \in Connections, C!UserDeletes(c) PROVE C!KubeTypeOK' /\ Unheld'
  <2>1. conns' = [conns EXCEPT ![c] = None] /\ UNCHANGED <<connCache, connQueue>>
    BY <1>1, <1>3 DEF C!UserDeletes, Unheld
  <2> QED
    BY <1>1, <2>1 DEF C!KubeTypeOK, Unheld
<1>4. ASSUME NEW c \in Connections, C!WatchEvent(c) \/ C!Resync(c)
      PROVE  C!KubeTypeOK' /\ Unheld'
  BY <1>1, <1>4 DEF C!WatchEvent, C!Resync, C!KubeTypeOK, Unheld
<1>5. C!KubeTypeOK' /\ Unheld'
  BY <1>2, <1>3, <1>4 DEF C!UserOrInformerStep, C!UserStep
<1> QED
  BY <1>5 DEF C!UserOrInformerStep, ConnInv, C!VarTypes, Unheld, C!envVars

LEMMA ConnNext == ConnInv /\ [C!Next]_(C!connectionVars) => ConnInv'
<1> SUFFICES ASSUME ConnInv, [C!Next]_(C!connectionVars) PROVE ConnInv'
  OBVIOUS
<1>1. CASE C!Crash
  BY <1>1 DEF C!Crash, C!Relist, ConnInv, C!VarTypes, C!KubeTypeOK, Unheld, C!envVars
<1>2. CASE C!EnvStep
  <2>1. UNCHANGED <<C!kubeVars, timer, check>>
    BY <1>2 DEF C!EnvStep
  <2>2. /\ secrets' \in [SecretNames -> SecretContents \union {None}]
        /\ firewalls' \in [URLs -> FirewallStates]
    BY <1>2 DEF C!EnvStep, ConnInv, C!VarTypes
  <2> QED
    BY <2>1, <2>2 DEF ConnInv, C!VarTypes, C!KubeTypeOK, Unheld, C!kubeVars
<1>3. CASE UNCHANGED C!connectionVars
  BY <1>3
     DEF C!connectionVars, C!kubeVars, C!envVars, ConnInv, C!VarTypes, C!KubeTypeOK, Unheld
<1> QED
  BY <1>1, <1>2, <1>3, ConnRemote, ConnUpdate, ConnReconcile, ConnUser
     DEF C!Next, C!Calls, C!Failures

\* The connections do not depend on who uses them.
LEMMA ConnKept == ConnInv /\ [Next]_vars => ConnInv'
<1> SUFFICES ASSUME ConnInv, [Next]_vars PROVE ConnInv'
  OBVIOUS
<1>1. CASE \/ ConnectionCalls \/ ConnectionEnvironment \/ Restart
           \/ \E c \in Connections : ConnectionReconcile(c) \/ TimerFires(c)
  <2>1. C!Next
    BY <1>1 DEF ConnectionCalls, ConnectionEnvironment, Restart, ConnectionReconcile,
                TimerFires, C!Next
  <2> QED
    BY <2>1, ConnNext
<1>2. CASE UNCHANGED connectionVars
  <2>1. UNCHANGED C!connectionVars
    BY <1>2 DEF connectionVars, C!connectionVars, C!kubeVars, C!envVars
  <2> QED
    BY <2>1, ConnNext
<1> QED
  BY <1>1, <1>2
     DEF Next, Calls, GetConnection, GetCredentials, NewClient, EnsureEntity, RemoveEntity,
         Update, CallFails, UpdateFails, UserOrInformerStep, Reconcile, vars

----------------------------------------------------------------------------
\* Type correctness.  A reconcile that has begun to build its client has read a
\* connection.

ClientInv ==
  work.pc \in {"getSecret", "buildHTTP", "ensure", "remove"} => work.conn \in C!Objects

TypeInv ==
  /\ ConnInv /\ KubeTypeOK
  /\ work \in Busy \union {Idle} /\ ClientInv
  /\ remote \in [UUIDs -> Entities \union {None}]

LEMMA TypeInit == Init => TypeInv
  BY ConnInit DEF Init, KubeInit, TypeInv, KubeTypeOK, ClientInv, Idle

\* The parts of the state that a call reads have their types.
LEMMA BusyFields ==
  ASSUME TypeInv, work.pc # "idle"
  PROVE  /\ work \in Busy /\ work.cr \in Resources
         /\ work.obj \in Objects /\ work.obj.spec \in Connections
         /\ work.obj.gen \in Nat /\ work.obj.status \in Statuses
         /\ work.obj.status.uuid \in UUIDs \union {None}
         /\ work.status \in Statuses
<1>1. work \in Busy
  BY DEF TypeInv, Idle
<1> QED
  BY <1>1 DEF Busy, Objects, Statuses

\* So have those of the connection it uses.
LEMMA ClientFields ==
  ASSUME TypeInv, work.pc \in {"getSecret", "buildHTTP", "ensure", "remove"}
  PROVE  /\ work.conn \in C!Objects /\ work.conn.spec \in ConnectionSpecs
         /\ Url \in URLs
<1>1. work.conn \in C!Objects /\ work.conn.spec \in ConnectionSpecs
  BY DEF TypeInv, ClientInv, C!Objects
<1> QED
  BY <1>1, OperatorConnectionAssumption DEF C!ConnectionAssumption, Url

\* The reconcile goes on with the next call, for the same copy.
GoesTo(pc) ==
  /\ work' \in Busy /\ work'.pc = pc /\ work'.cr = work.cr /\ work'.obj = work.obj

\* A reconcile that drops its client.
LEMMA BegunFields ==
  ASSUME TypeInv, work.pc # "idle", NEW pc \in {"removeFinalizer", "setStatus"},
         NEW st \in Statuses, NEW b \in BOOLEAN,
         work' = [Begun(pc) EXCEPT !.status = st, !.failed = b]
  PROVE  GoesTo(pc) /\ work'.status = st
<1> DEFINE w == [pc |-> pc, cr |-> work.cr, obj |-> work.obj, conn |-> None, keys |-> None,
                 tls |-> None, status |-> st, failed |-> b]
<1>1. work' = w
  BY DEF Begun, Idle
<1>2. work.cr \in Resources /\ work.obj \in Objects
  BY BusyFields
<1>3. w \in Busy
  BY <1>2 DEF Busy
<1>4. w.pc = pc /\ w.cr = work.cr /\ w.obj = work.obj /\ w.status = st
  OBVIOUS
<1> HIDE DEF w
<1> QED
  BY <1>1, <1>3, <1>4 DEF GoesTo

\* setReadyFailed reports what the copy says of the entity.
LEMMA FailedFields ==
  ASSUME TypeInv, work.pc # "idle", SetReadyFailed
  PROVE  GoesTo("setStatus") /\ work'.status.uuid = work.obj.status.uuid
<1> DEFINE st == [work.obj.status EXCEPT !.ready = "False"]
<1>1. st \in Statuses /\ st.uuid = work.obj.status.uuid
  BY BusyFields DEF Statuses
<1>2. work' = [Begun("setStatus") EXCEPT !.status = st, !.failed = TRUE]
  BY DEF SetReadyFailed
<1> HIDE DEF st
<1> QED
  BY <1>1, <1>2, BegunFields

LEMMA ReleaseFields ==
  ASSUME TypeInv, work.pc # "idle", work' = Begun("removeFinalizer")
  PROVE  GoesTo("removeFinalizer")
<1> DEFINE w == [pc |-> "removeFinalizer", cr |-> work.cr, obj |-> work.obj, conn |-> None,
                 keys |-> None, tls |-> None, status |-> EmptyStatus, failed |-> FALSE]
<1>1. work' = w
  BY DEF Begun, Idle
<1>2. EmptyStatus \in Statuses /\ work.cr \in Resources /\ work.obj \in Objects
  BY BusyFields DEF EmptyStatus, Statuses
<1>3. w \in Busy
  BY <1>2 DEF Busy
<1>4. w.pc = "removeFinalizer" /\ w.cr = work.cr /\ w.obj = work.obj
  OBVIOUS
<1> HIDE DEF w
<1> QED
  BY <1>1, <1>3, <1>4 DEF GoesTo

LEMMA SuccessFields ==
  ASSUME TypeInv, work.pc # "idle", NEW u \in UUIDs,
         work' = [Begun("setStatus") EXCEPT !.status = Success(u)]
  PROVE  GoesTo("setStatus") /\ work'.status.uuid = u
<1>1. Success(u) \in Statuses /\ Success(u).uuid = u
  BY BusyFields DEF Success, Statuses
<1>2. Begun("setStatus").failed = FALSE
  BY DEF Begun, Idle
<1>3. work' = [Begun("setStatus") EXCEPT !.status = Success(u), !.failed = FALSE]
  BY <1>2 DEF Begun, Idle
<1> QED
  BY <1>1, <1>3, BegunFields

----------------------------------------------------------------------------
\* The calls of a reconcile up to the entity.

RemoteSteps ==
  \/ GetConnection \/ GetCredentials \/ NewClient
  \/ EnsureEntity \/ RemoveEntity \/ CallFails

KubeSteps == Update \/ UpdateFails

ConnectionSteps ==
  \/ ConnectionCalls \/ ConnectionEnvironment
  \/ \E c \in Connections : ConnectionReconcile(c) \/ TimerFires(c)

LEMMA StepsSplit ==
  ASSUME [Next]_vars
  PROVE  \/ ConnectionSteps \/ UserOrInformerStep \/ Restart \/ UNCHANGED vars
         \/ \E r \in Resources : Reconcile(r)
         \/ RemoteSteps \/ KubeSteps
  BY DEF Next, Calls, RemoteSteps, KubeSteps, ConnectionSteps

Fails == GoesTo("setStatus") /\ work'.status.uuid = work.obj.status.uuid

\* The reconcile keeps its connection.
KeepsTo(pc) == GoesTo(pc) /\ work'.conn = work.conn

LEMMA ConnectionRead ==
  ASSUME TypeInv, GetConnection
  PROVE  \/ Fails
         \/ GoesTo("getSecret") /\ work'.conn \in C!Objects
<1> DEFINE conn == connCache[work.obj.spec]
           w == [work EXCEPT !.pc = "getSecret", !.conn = conn]
<1>1. work.pc # "idle" /\ connCache \in [Connections -> C!Objects \union {None}]
  BY DEF GetConnection, TypeInv, ConnInv, C!VarTypes, C!KubeTypeOK
<1>2. CASE SetReadyFailed
  BY <1>1, <1>2, FailedFields DEF Fails
<1>3. CASE conn # None /\ work' = w
  <2>1. conn \in C!Objects /\ work \in Busy
    BY <1>1, <1>3, BusyFields
  <2>2. /\ w \in Busy /\ w.pc = "getSecret" /\ w.cr = work.cr /\ w.obj = work.obj
        /\ w.conn = conn
    BY <2>1 DEF Busy
  <2> HIDE DEF w, conn
  <2> QED
    BY <1>3, <2>1, <2>2 DEF GoesTo
<1> QED
  BY <1>2, <1>3 DEF GetConnection

LEMMA CredentialsRead ==
  ASSUME TypeInv, GetCredentials
  PROVE  Fails \/ KeepsTo("buildHTTP")
<1>1. work.pc \in {"getSecret"} /\ work.pc # "idle" /\ C!VarTypes
  BY DEF GetCredentials, TypeInv, ConnInv
<1>2. CASE SetReadyFailed
  BY <1>1, <1>2, FailedFields DEF Fails
<1>3. CASE C!HasCredentials(work.conn.spec)
  <2> DEFINE w == [work EXCEPT !.pc = "buildHTTP",
                                !.keys = secrets[work.conn.spec.secret].keys]
  <2>1. work \in Busy /\ work.conn.spec \in ConnectionSpecs
    BY <1>1, BusyFields, ClientFields
  <2>2. secrets[work.conn.spec.secret].keys \in {"accepted", "refused"}
    BY <1>1, <1>3, <2>1, ConnCredentialsRead
  <2>3. /\ w \in Busy /\ w.pc = "buildHTTP" /\ w.cr = work.cr /\ w.obj = work.obj
        /\ w.conn = work.conn
    BY <2>1, <2>2 DEF Busy
  <2>4. work' = w
    BY <1>3 DEF GetCredentials
  <2> HIDE DEF w
  <2> QED
    BY <2>3, <2>4 DEF KeepsTo, GoesTo
<1> QED
  BY <1>2, <1>3 DEF GetCredentials

LEMMA ClientBuilt ==
  ASSUME TypeInv, NewClient
  PROVE  \/ Fails
         \/ work.obj.deleting /\ KeepsTo("remove")
         \/ ~ work.obj.deleting /\ KeepsTo("ensure")
<1> DEFINE tls == C!BuildHTTPClient(work.conn.spec)
           pc == IF work.obj.deleting THEN "remove" ELSE "ensure"
           w == [work EXCEPT !.tls = tls, !.pc = pc]
<1>1. work.pc \in {"buildHTTP"} /\ work.pc # "idle" /\ C!VarTypes
  BY DEF NewClient, TypeInv, ConnInv
<1>2. CASE SetReadyFailed
  BY <1>1, <1>2, FailedFields DEF Fails
<1>3. CASE tls # "broken" /\ work' = w
  <2>1. work \in Busy /\ work.conn.spec \in ConnectionSpecs
    BY <1>1, BusyFields, ClientFields
  <2>2. tls \in {"skip", "system", "signer", "stranger"} /\ pc \in {"remove", "ensure"}
    BY <1>1, <1>3, <2>1, ConnTLSRead
  <2>3. pc = IF work.obj.deleting THEN "remove" ELSE "ensure"
    OBVIOUS
  <2> HIDE DEF tls, pc
  <2>4. w \in Busy /\ w.pc = pc /\ w.cr = work.cr /\ w.obj = work.obj /\ w.conn = work.conn
    BY <2>1, <2>2 DEF Busy
  <2> HIDE DEF w
  <2>5. KeepsTo(pc)
    BY <1>3, <2>4 DEF KeepsTo, GoesTo
  <2> QED
    BY <2>3, <2>5
<1> QED
  BY <1>2, <1>3 DEF NewClient

\* The entity to bring in line is one the firewall knows, or a new one.
LEMMA ResolvedKnown ==
  ASSUME TypeInv, work.pc # "idle", NEW u \in Resolved
  PROVE  u \in UUIDs /\ (remote[u] # None \/ Fresh(u))
  BY BusyFields, OperatorAssumption DEF Resolved, On

LEMMA EntityEnsured ==
  ASSUME TypeInv, EnsureEntity
  PROVE  \/ work' = Idle
         \/ Fails
         \/ GoesTo("setStatus") /\ work'.status.uuid \in UUIDs
<1>1. work.pc # "idle"
  BY DEF EnsureEntity
<1>2. CASE SetReadyFailed
  BY <1>1, <1>2, FailedFields DEF Fails
<1>3. ASSUME NEW u \in Resolved, work' = [Begun("setStatus") EXCEPT !.status = Success(u)]
      PROVE  GoesTo("setStatus") /\ work'.status.uuid \in UUIDs
  BY <1>1, <1>3, ResolvedKnown, SuccessFields
<1> QED
  BY <1>2, <1>3 DEF EnsureEntity, Return

LEMMA EntityRemoved ==
  ASSUME TypeInv, RemoveEntity
  PROVE  Fails \/ (Answers /\ GoesTo("removeFinalizer"))
<1>1. work.pc # "idle"
  BY DEF RemoveEntity
<1> QED
  BY <1>1, FailedFields, ReleaseFields DEF RemoveEntity, Fails

\* The control flow of the calls on the way to the entity and on it.
LEMMA RemoteGoesOn ==
  ASSUME TypeInv, RemoteSteps
  PROVE  /\ work.pc \notin {"idle", "addFinalizer", "removeFinalizer", "setStatus"}
         /\ UNCHANGED <<connectionVars, kubeVars>>
         /\ \/ work' = Idle
            \/ Fails
            \/ GoesTo("getSecret") /\ work'.conn \in C!Objects
            \/ work.pc = "getSecret" /\ KeepsTo("buildHTTP")
            \/ work.pc = "buildHTTP" /\ work.obj.deleting /\ KeepsTo("remove")
            \/ work.pc = "buildHTTP" /\ ~ work.obj.deleting /\ KeepsTo("ensure")
            \/ /\ work.pc = "ensure" /\ GoesTo("setStatus")
               /\ work'.status.uuid \in UUIDs
            \/ RemoveEntity /\ Answers /\ GoesTo("removeFinalizer")
<1>1. work.pc \notin {"idle", "addFinalizer", "removeFinalizer", "setStatus"}
  BY DEF RemoteSteps, GetConnection, GetCredentials, NewClient, EnsureEntity, RemoveEntity,
         CallFails
<1>2. UNCHANGED <<connectionVars, kubeVars>>
  BY DEF RemoteSteps, GetConnection, GetCredentials, NewClient, EnsureEntity, RemoveEntity,
         CallFails, Return, kubeVars
<1>3. CASE GetConnection
  BY <1>1, <1>2, <1>3, ConnectionRead
<1>4. CASE GetCredentials
  BY <1>1, <1>2, <1>4, CredentialsRead DEF GetCredentials
<1>5. CASE NewClient
  BY <1>1, <1>2, <1>5, ClientBuilt DEF NewClient
<1>6. CASE EnsureEntity
  BY <1>1, <1>2, <1>6, EntityEnsured DEF EnsureEntity
<1>7. CASE RemoveEntity
  BY <1>1, <1>2, <1>7, EntityRemoved
<1>8. CASE CallFails
  BY <1>1, <1>2, <1>8, FailedFields DEF CallFails, Fails
<1> QED
  BY <1>3, <1>4, <1>5, <1>6, <1>7, <1>8 DEF RemoteSteps

----------------------------------------------------------------------------
\* The entities.  Each is on the firewall of some connection.

PlaceInv ==
  \A u \in UUIDs : remote[u] # None => \E s \in ConnectionSpecs : remote[u].url = s.url

\* What a call does to the entities, whether or not it succeeds.
LEMMA RemoteWrites ==
  ASSUME RemoteSteps
  PROVE  \/ UNCHANGED remote
         \/ work.pc = "ensure" /\ \E u \in Resolved : Put(u)
         \/ /\ work.pc = "remove" /\ On(work.obj.status.uuid)
            /\ remote' = [remote EXCEPT ![work.obj.status.uuid] = None]
  BY DEF RemoteSteps, GetConnection, GetCredentials, NewClient, EnsureEntity, RemoveEntity,
         CallFails

LEMMA TypeRemote ==
  ASSUME TypeInv, RemoteSteps
  PROVE  /\ remote' \in [UUIDs -> Entities \union {None}]
         /\ PlaceInv => PlaceInv'
<1>1. remote \in [UUIDs -> Entities \union {None}]
  BY DEF TypeInv
<1>2. CASE UNCHANGED remote
  BY <1>1, <1>2 DEF PlaceInv
<1>3. ASSUME work.pc = "ensure", NEW u \in Resolved, Put(u)
      PROVE  /\ remote' \in [UUIDs -> Entities \union {None}]
             /\ PlaceInv => PlaceInv'
  <2> DEFINE e == [url |-> Url, owner |-> work.cr]
  <2>1. work.pc # "idle" /\ work.cr \in Resources /\ Url \in URLs
    BY <1>3, BusyFields, ClientFields
  <2>2. e \in Entities /\ e.url = work.conn.spec.url /\ work.conn.spec \in ConnectionSpecs
    BY <1>3, <2>1, ClientFields DEF Entities, Url
  <2>3. remote' = [remote EXCEPT ![u] = e] /\ u \in UUIDs
    BY <1>3, <2>1, ResolvedKnown DEF Put
  <2> HIDE DEF e
  <2> QED
    BY <1>1, <2>2, <2>3 DEF PlaceInv
<1>4. CASE remote' = [remote EXCEPT ![work.obj.status.uuid] = None]
  BY <1>1, <1>4 DEF PlaceInv
<1> QED
  BY <1>2, <1>3, <1>4, RemoteWrites

----------------------------------------------------------------------------
\* Type correctness, continued.

\* A reconcile starts with the copy in the cache, for the first call it makes.
LEMMA ReconcileGoesOn ==
  ASSUME TypeInv, NEW r \in Resources, Reconcile(r)
  PROVE  /\ work = Idle
         /\ UNCHANGED <<api, cache, connectionVars, remote>> /\ queue' \subseteq queue
         /\ \/ UNCHANGED work
            \/ /\ work' \in Busy /\ work'.obj = cache[r]
               /\ \/ /\ work'.pc = "removeFinalizer" /\ cache[r].deleting
                     /\ cache[r].finalizer /\ cache[r].status.uuid = None
                  \/ /\ work'.pc = "addFinalizer"
                     /\ ~ cache[r].deleting /\ ~ cache[r].finalizer
                  \/ work'.pc = "getConnection" /\ cache[r].finalizer
<1> DEFINE obj == cache[r]
           Started(pc) == work' = [Idle EXCEPT !.pc = pc, !.cr = r, !.obj = obj]
<1>1. /\ work = Idle
      /\ UNCHANGED <<api, cache, connectionVars, remote>> /\ queue' \subseteq queue
  BY DEF Reconcile
<1>2. ASSUME NEW pc \in {"addFinalizer", "removeFinalizer", "getConnection"}, obj # None,
             Started(pc)
      PROVE  work' \in Busy /\ work'.obj = obj /\ work'.pc = pc
  <2> DEFINE w == [pc |-> pc, cr |-> r, obj |-> obj, conn |-> None, keys |-> None,
                   tls |-> None, status |-> EmptyStatus, failed |-> FALSE]
  <2>1. obj \in Objects
    BY <1>2 DEF TypeInv, KubeTypeOK
  <2>2. EmptyStatus \in Statuses
    BY DEF EmptyStatus, Statuses
  <2>3. work' = w
    BY <1>2 DEF Idle
  <2> HIDE DEF obj
  <2>4. w \in Busy /\ w.obj = obj /\ w.pc = pc
    BY <2>1, <2>2 DEF Busy
  <2> HIDE DEF w
  <2> QED
    BY <2>3, <2>4
<1>3. \/ UNCHANGED work
      \/ /\ obj # None /\ Started("removeFinalizer")
         /\ obj.deleting /\ obj.finalizer /\ obj.status.uuid = None
      \/ obj # None /\ Started("addFinalizer") /\ ~ obj.deleting /\ ~ obj.finalizer
      \/ obj # None /\ Started("getConnection") /\ obj.finalizer
  BY DEF Reconcile
<1> HIDE DEF obj, Started
<1>4. \/ UNCHANGED work
      \/ /\ work' \in Busy /\ work'.obj = obj
         /\ \/ /\ work'.pc = "removeFinalizer" /\ obj.deleting
               /\ obj.finalizer /\ obj.status.uuid = None
            \/ work'.pc = "addFinalizer" /\ ~ obj.deleting /\ ~ obj.finalizer
            \/ work'.pc = "getConnection" /\ obj.finalizer
  BY <1>2, <1>3
<1> QED
  BY <1>1, <1>4 DEF obj

\* What a write of the controller stores, and that its reconcile is over.
LEMMA KubeWrites ==
  ASSUME KubeSteps
  PROVE  /\ work.pc \in {"addFinalizer", "removeFinalizer", "setStatus"} /\ work.pc # "idle"
         /\ work' = Idle /\ queue' \subseteq queue \union {work.cr}
         /\ UNCHANGED <<cache, connectionVars, remote>>
         /\ UNCHANGED api \/ Stored(work.cr, work.obj, Written)
  BY DEF KubeSteps, Update, UpdateFails, Return, Conflict

\* The objects the controller writes are objects, and what becomes of their fields.
LEMMA WrittenFields ==
  ASSUME TypeInv, work.pc \in {"addFinalizer", "setStatus"}
  PROVE  /\ Written \in Objects
         /\ Written.deleting = work.obj.deleting
         /\ Written.finalizer =
              IF work.pc = "addFinalizer" THEN TRUE ELSE work.obj.finalizer
         /\ Written.status =
              IF work.pc = "addFinalizer" THEN work.obj.status ELSE work.status
<1>1. work.pc # "idle" /\ work.obj \in Objects /\ work.status \in Statuses
  BY BusyFields
<1>2. CASE work.pc = "addFinalizer"
  <2>1. Written = [work.obj EXCEPT !.finalizer = TRUE]
    BY <1>2 DEF Written
  <2> QED
    BY <1>1, <1>2, <2>1 DEF Objects
<1>3. CASE work.pc = "setStatus"
  <2>1. Written = [work.obj EXCEPT !.status = work.status]
    BY <1>3 DEF Written
  <2> QED
    BY <1>1, <1>3, <2>1 DEF Objects
<1> QED
  BY <1>2, <1>3

LEMMA WrittenNone == work.pc = "removeFinalizer" => Written = None
  BY DEF Written

LEMMA TypeKube ==
  ASSUME TypeInv, KubeSteps
  PROVE  KubeTypeOK'
<1>1. KubeTypeOK /\ work.cr \in Resources
  BY KubeWrites, BusyFields DEF TypeInv
<1>2. Written \in Objects \union {None}
  BY KubeWrites, WrittenFields, WrittenNone
<1> QED
  BY <1>1, <1>2, KubeWrites DEF KubeTypeOK, Stored

\* The objects users leave behind are objects.
LEMMA TypeUserObjects ==
  ASSUME NEW s \in Connections
  PROVE  /\ [gen |-> 1, spec |-> s, deleting |-> FALSE, finalizer |-> FALSE,
             status |-> EmptyStatus] \in Objects
         /\ \A o \in Objects :
              /\ [o EXCEPT !.spec = s, !.gen = o.gen + 1] \in Objects
              /\ [o EXCEPT !.deleting = TRUE] \in Objects
<1>1. EmptyStatus \in Statuses
  BY DEF EmptyStatus, Statuses
<1>2. [gen |-> 1, spec |-> s, deleting |-> FALSE, finalizer |-> FALSE,
       status |-> EmptyStatus] \in Objects
  BY <1>1 DEF Objects
<1>3. ASSUME NEW o \in Objects
      PROVE  /\ [o EXCEPT !.spec = s, !.gen = o.gen + 1] \in Objects
             /\ [o EXCEPT !.deleting = TRUE] \in Objects
  <2>1. o.gen + 1 \in Nat
    BY DEF Objects
  <2> QED
    BY <2>1 DEF Objects
<1> QED
  BY <1>2, <1>3

LEMMA TypeUser ==
  ASSUME TypeInv, UserOrInformerStep
  PROVE  KubeTypeOK'
<1> USE DEF TypeInv, KubeTypeOK
<1>1. ASSUME NEW r \in Resources, NEW s \in Connections, UserCreates(r, s) PROVE KubeTypeOK'
  BY <1>1, TypeUserObjects DEF UserCreates
<1>2. ASSUME NEW r \in Resources, NEW s \in Connections, UserEdits(r, s) PROVE KubeTypeOK'
  BY <1>2, TypeUserObjects DEF UserEdits
<1>3. ASSUME NEW r \in Resources, UserDeletes(r) PROVE KubeTypeOK'
  <2>1. api[r] \in Objects /\ api[r].spec \in Connections
    BY <1>3 DEF UserDeletes, Objects
  <2> QED
    BY <1>3, <2>1, TypeUserObjects DEF UserDeletes
<1>4. ASSUME NEW r \in Resources, WatchEvent(r) \/ Resync(r) PROVE KubeTypeOK'
  BY <1>4 DEF WatchEvent, Resync
<1> QED
  BY <1>1, <1>2, <1>3, <1>4 DEF UserOrInformerStep, UserStep

\* The parts of TypeInv, one step later.
LEMMA TypeParts ==
  ASSUME ConnInv', KubeTypeOK', work' \in Busy \union {Idle}, ClientInv',
         remote' \in [UUIDs -> Entities \union {None}]
  PROVE  TypeInv'
  BY DEF TypeInv, Busy, Idle

LEMMA ClientIdle ==
  ASSUME work' = Idle
  PROVE  work' \in Busy \union {Idle} /\ ClientInv'
  BY DEF ClientInv, Idle

LEMMA ClientRemote ==
  ASSUME TypeInv, RemoteSteps
  PROVE  work' \in Busy \union {Idle} /\ ClientInv'
<1>1. CASE work' = Idle
  BY <1>1, ClientIdle
<1>2. CASE Fails \/ GoesTo("setStatus") \/ GoesTo("removeFinalizer")
  BY <1>2 DEF Fails, GoesTo, ClientInv
<1>3. CASE GoesTo("getSecret") /\ work'.conn \in C!Objects
  BY <1>3 DEF GoesTo, ClientInv
<1>4. CASE /\ work.pc \in {"getSecret", "buildHTTP"}
           /\ KeepsTo("buildHTTP") \/ KeepsTo("remove") \/ KeepsTo("ensure")
  BY <1>4, ClientFields DEF KeepsTo, GoesTo, ClientInv
<1> QED
  BY <1>1, <1>2, <1>3, <1>4, RemoteGoesOn

\* TypeInv is an inductive invariant.
LEMMA TypeNext == TypeInv /\ [Next]_vars => TypeInv'
<1> SUFFICES ASSUME TypeInv, [Next]_vars PROVE TypeInv'
  OBVIOUS
<1>1. ConnInv'
  BY ConnKept DEF TypeInv
<1>2. CASE ConnectionSteps \/ UNCHANGED vars
  <2>1. UNCHANGED <<kubeVars, work, remote>>
    BY <1>2
       DEF ConnectionSteps, ConnectionCalls, ConnectionEnvironment, ConnectionReconcile,
           TimerFires, vars
  <2> QED
    BY <1>1, <2>1 DEF kubeVars, TypeInv, KubeTypeOK, ClientInv
<1>3. CASE Restart
  BY <1>1, <1>3, ClientIdle, TypeParts DEF Restart, Relist, TypeInv, KubeTypeOK
<1>4. CASE \E r \in Resources : Reconcile(r)
  <2>1. /\ UNCHANGED <<api, cache, remote>> /\ queue' \subseteq queue
        /\ work' \in Busy \union {Idle} /\ ClientInv'
    BY <1>4, ReconcileGoesOn DEF ClientInv, TypeInv
  <2> QED
    BY <1>1, <2>1, TypeParts DEF TypeInv, KubeTypeOK
<1>5. CASE RemoteSteps
  <2>1. KubeTypeOK'
    BY <1>5, RemoteGoesOn DEF kubeVars, TypeInv, KubeTypeOK
  <2> QED
    BY <1>1, <1>5, <2>1, ClientRemote, TypeRemote, TypeParts
<1>6. CASE KubeSteps
  BY <1>1, <1>6, KubeWrites, TypeKube, ClientIdle, TypeParts DEF TypeInv
<1>7. CASE UserOrInformerStep
  <2>1. UNCHANGED <<work, remote>>
    BY <1>7 DEF UserOrInformerStep
  <2> QED
    BY <1>1, <1>7, <2>1, TypeUser, TypeParts DEF TypeInv, ClientInv
<1> QED
  BY <1>2, <1>3, <1>4, <1>5, <1>6, <1>7, StepsSplit

\* What is read for a client stays with it.
ClientReads ==
  /\ work.pc \in {"getSecret", "buildHTTP", "ensure", "remove"} =>
       work.conn.status.ready = "True"
  /\ work.pc \in {"buildHTTP", "ensure", "remove"} => work.keys \in {"accepted", "refused"}
  /\ work.pc \in {"ensure", "remove"} =>
       work.tls \in {"skip", "system", "signer", "stranger"}

LEMMA ReadsInit == Init => ClientReads
  BY DEF Init, Idle, ClientReads

\* A reconcile without a client, or before it has one.
LEMMA ReadsNothing ==
  ASSUME work'.pc \in {"idle", "getConnection", "addFinalizer", "removeFinalizer",
                       "setStatus"}
  PROVE  ClientReads'
  BY DEF ClientReads

LEMMA ReadsReported ==
  ASSUME SetReadyFailed
  PROVE  ClientReads'
<1>1. work'.pc = "setStatus"
  BY DEF SetReadyFailed, Begun, Idle
<1> QED
  BY <1>1, ReadsNothing

LEMMA ReadsClient ==
  ASSUME TypeInv, ClientReads, GetConnection \/ GetCredentials \/ NewClient
  PROVE  ClientReads'
<1>1. work \in Busy /\ C!VarTypes
  BY BusyFields DEF TypeInv, ConnInv, GetConnection, GetCredentials, NewClient
<1>2. CASE SetReadyFailed
  BY <1>2, ReadsReported
<1>3. CASE GetConnection /\ ~ SetReadyFailed
  <2>1. /\ work' = [work EXCEPT !.pc = "getSecret", !.conn = connCache[work.obj.spec]]
        /\ connCache[work.obj.spec].status.ready = "True"
    BY <1>3 DEF GetConnection
  <2>2. work'.pc = "getSecret" /\ work'.conn = connCache[work.obj.spec]
    BY <1>1, <2>1 DEF Busy
  <2> QED
    BY <2>1, <2>2 DEF ClientReads
<1>4. CASE GetCredentials /\ ~ SetReadyFailed
  <2> DEFINE keys == secrets[work.conn.spec.secret].keys
  <2>1. /\ work' = [work EXCEPT !.pc = "buildHTTP", !.keys = keys]
        /\ work.pc = "getSecret" /\ C!HasCredentials(work.conn.spec)
    BY <1>4 DEF GetCredentials
  <2>2. keys \in {"accepted", "refused"}
    BY <1>1, <2>1, ClientFields, ConnCredentialsRead
  <2>3. work'.pc = "buildHTTP" /\ work'.conn = work.conn /\ work'.keys = keys
    BY <1>1, <2>1 DEF Busy
  <2> HIDE DEF keys
  <2> QED
    BY <2>1, <2>2, <2>3 DEF ClientReads
<1>5. CASE NewClient /\ ~ SetReadyFailed
  <2> DEFINE tls == C!BuildHTTPClient(work.conn.spec)
             pc == IF work.obj.deleting THEN "remove" ELSE "ensure"
  <2>1. /\ work' = [work EXCEPT !.tls = tls, !.pc = pc]
        /\ work.pc = "buildHTTP" /\ tls # "broken"
    BY <1>5 DEF NewClient
  <2>2. tls \in {"skip", "system", "signer", "stranger"} /\ pc \in {"remove", "ensure"}
    BY <1>1, <2>1, ClientFields, ConnTLSRead
  <2> HIDE DEF tls, pc
  <2>3. /\ work'.pc = pc /\ work'.conn = work.conn /\ work'.keys = work.keys
        /\ work'.tls = tls
    BY <1>1, <2>1 DEF Busy
  <2> QED
    BY <2>1, <2>2, <2>3 DEF ClientReads
<1> QED
  BY <1>2, <1>3, <1>4, <1>5

LEMMA ReadsNext == TypeInv /\ ClientReads /\ [Next]_vars => ClientReads'
<1> SUFFICES ASSUME TypeInv, ClientReads, [Next]_vars PROVE ClientReads'
  OBVIOUS
<1>1. CASE UNCHANGED work
  BY <1>1 DEF ClientReads
<1>2. CASE ConnectionSteps \/ UserOrInformerStep \/ UNCHANGED vars
  BY <1>1, <1>2
     DEF ConnectionSteps, ConnectionCalls, ConnectionEnvironment, ConnectionReconcile,
         TimerFires, UserOrInformerStep, vars
<1>3. CASE Restart \/ KubeSteps
  <2>1. work'.pc = "idle"
    BY <1>3, KubeWrites DEF Restart, Idle
  <2> QED
    BY <2>1, ReadsNothing
<1>4. CASE \E r \in Resources : Reconcile(r)
  <2>1. UNCHANGED work \/ work'.pc \in {"getConnection", "addFinalizer", "removeFinalizer"}
    BY <1>4, ReconcileGoesOn
  <2> QED
    BY <1>1, <2>1, ReadsNothing
<1>5. CASE GetConnection \/ GetCredentials \/ NewClient
  BY <1>5, ReadsClient
<1>6. CASE EnsureEntity \/ RemoveEntity
  <2>1. work'.pc \in {"idle", "setStatus", "removeFinalizer"}
    BY <1>6, EntityEnsured, EntityRemoved DEF Fails, GoesTo, Idle
  <2> QED
    BY <2>1, ReadsNothing
<1>7. CASE CallFails
  BY <1>7, ReadsReported DEF CallFails
<1> QED
  BY <1>2, <1>3, <1>4, <1>5, <1>6, <1>7, StepsSplit DEF RemoteSteps

\* An entity is reached only with a client made of a connection that was read and
\* reported Ready, complete credentials and usable TLS settings, and every variable has
\* its type: in any order of the two workers' steps, however the connections and the
\* Secrets change in between, for any number of them.
THEOREM TypeCorrect == Spec => []TypeOK
<1>1. Spec => [](TypeInv /\ ClientReads)
  BY TypeInit, TypeNext, ReadsInit, ReadsNext, PTL DEF Spec
<1>2. TypeInv /\ ClientReads => TypeOK
  BY DEF TypeInv, ClientInv, ClientReads, TypeOK, VarTypes, ClientComplete, ConnInv
<1> QED
  BY <1>1, <1>2, PTL

----------------------------------------------------------------------------
\* Cleanup before release: a recorded UUID implies the finalizer, and the finalizer
\* is dropped only by a reconcile that has seen the entity gone.
DeletionInv ==
  /\ \A r \in Resources : api[r] # None /\ api[r].status.uuid # None => api[r].finalizer
  /\ work.pc \notin {"idle", "addFinalizer"} => work.obj.finalizer
  /\ work.pc = "removeFinalizer" /\ work.obj.status.uuid # None =>
       remote[work.obj.status.uuid] = None

\* Which calls a reconcile of a marked object may be about to make, and that only a
\* reconcile of an object that is not marked reports another UUID.
PathInv ==
  /\ work.pc = "addFinalizer" => ~ work.obj.deleting /\ ~ work.obj.finalizer
  /\ work.pc \in {"remove", "removeFinalizer"} => work.obj.deleting
  /\ work.pc = "ensure" => ~ work.obj.deleting
  /\ work.pc = "setStatus" =>
       \/ work.status.uuid = work.obj.status.uuid
       \/ work.status.uuid \in UUIDs /\ ~ work.obj.deleting

IInv == TypeInv /\ PlaceInv /\ DeletionInv /\ PathInv

\* No connection can be moved to another firewall.  (Any spec may be given to any
\* connection, so two URLs would be enough to move one.)
SameFirewall == \A s, t \in ConnectionSpecs : s.url = t.url

\* Then the firewall a client is built for knows every entity there is.
LEMMA KnownThere ==
  ASSUME SameFirewall, TypeInv, PlaceInv, work.pc \in {"ensure", "remove"},
         NEW u \in UUIDs, remote[u] # None
  PROVE  On(u)
  BY ClientFields, OperatorAssumption DEF SameFirewall, PlaceInv, On, Url

LEMMA InvInit == Init => IInv
<1> SUFFICES ASSUME Init PROVE IInv
  OBVIOUS
<1>1. TypeInv
  BY TypeInit
<1> QED
  BY <1>1 DEF Init, KubeInit, Idle, IInv, PlaceInv, DeletionInv, PathInv

LEMMA PlaceNext ==
  ASSUME TypeInv, PlaceInv, [Next]_vars
  PROVE  PlaceInv'
<1>1. CASE UNCHANGED remote
  BY <1>1 DEF PlaceInv
<1> QED
  BY <1>1, StepsSplit, TypeRemote, ReconcileGoesOn, KubeWrites
     DEF ConnectionSteps, ConnectionCalls, ConnectionEnvironment, ConnectionReconcile,
         TimerFires, UserOrInformerStep, Restart, vars

\* A reconcile that ended is on no path.
LEMMA PathIdle ==
  ASSUME work' = Idle
  PROVE  PathInv'
  BY DEF PathInv, Idle

LEMMA DeletionIdle ==
  ASSUME work' = Idle,
         \A r \in Resources :
           api'[r] # None /\ api'[r].status.uuid # None => api'[r].finalizer
  PROVE  DeletionInv'
  BY DEF DeletionInv, Idle

\* Steps that leave the resources, the reconcile and the entities alone.
LEMMA OthersKeep ==
  ASSUME ConnectionSteps \/ UNCHANGED vars
  PROVE  UNCHANGED <<kubeVars, work, remote>>
  BY DEF ConnectionSteps, ConnectionCalls, ConnectionEnvironment, ConnectionReconcile,
         TimerFires, vars

LEMMA PathNext ==
  ASSUME TypeInv, PathInv, [Next]_vars
  PROVE  PathInv'
<1>1. CASE UNCHANGED work
  BY <1>1 DEF PathInv
<1>2. CASE work' = Idle
  BY <1>2, PathIdle
<1>3. CASE RemoteSteps
  <2>1. CASE Fails
    BY <2>1 DEF Fails, GoesTo, PathInv
  <2>2. CASE GoesTo("getSecret") \/ KeepsTo("buildHTTP")
    BY <2>2 DEF KeepsTo, GoesTo, PathInv
  <2>3. CASE work.obj.deleting /\ KeepsTo("remove")
    BY <2>3 DEF KeepsTo, GoesTo, PathInv
  <2>4. CASE ~ work.obj.deleting /\ KeepsTo("ensure")
    BY <2>4 DEF KeepsTo, GoesTo, PathInv
  <2>5. CASE /\ work.pc = "ensure" /\ GoesTo("setStatus")
             /\ work'.status.uuid \in UUIDs
    BY <2>5 DEF GoesTo, PathInv
  <2>6. CASE RemoveEntity /\ GoesTo("removeFinalizer")
    BY <2>6 DEF RemoveEntity, GoesTo, PathInv
  <2> QED
    BY <1>2, <1>3, <2>1, <2>2, <2>3, <2>4, <2>5, <2>6, RemoteGoesOn
<1>4. CASE \E r \in Resources : Reconcile(r)
  BY <1>1, <1>4, ReconcileGoesOn DEF PathInv
<1> QED
  BY <1>1, <1>2, <1>3, <1>4, StepsSplit, OthersKeep, KubeWrites
     DEF UserOrInformerStep, Restart

LEMMA DeletionRemote ==
  ASSUME SameFirewall, TypeInv, PlaceInv, DeletionInv, PathInv, RemoteSteps
  PROVE  DeletionInv'
<1>1. /\ work.obj.finalizer
      /\ \A r \in Resources :
           api'[r] # None /\ api'[r].status.uuid # None => api'[r].finalizer
  BY RemoteGoesOn DEF DeletionInv, kubeVars
<1>2. CASE work' = Idle
  BY <1>1, <1>2, DeletionIdle
<1>3. CASE RemoveEntity /\ Answers /\ GoesTo("removeFinalizer")
  <2> DEFINE u == work.obj.status.uuid
  <2>1. work.pc = "remove" /\ work.pc # "idle" /\ u \in UUIDs \union {None}
    BY <1>3, BusyFields DEF RemoveEntity
  <2>2. CASE u # None
    <3>1. u \in UUIDs /\ remote \in [UUIDs -> Entities \union {None}]
      BY <2>1, <2>2 DEF TypeInv
    <3>2. \/ On(u) /\ remote' = [remote EXCEPT ![u] = None]
          \/ ~ On(u) /\ UNCHANGED remote
      BY <1>3 DEF RemoveEntity
    <3>3. remote'[u] = None
      BY <2>1, <3>1, <3>2, KnownThere
    <3> QED
      BY <1>1, <1>3, <3>3 DEF GoesTo, DeletionInv
  <2>3. CASE u = None
    BY <1>1, <1>3, <2>3 DEF GoesTo, DeletionInv
  <2> QED
    BY <2>2, <2>3
<1>4. CASE \/ GoesTo("setStatus") \/ GoesTo("getSecret")
           \/ KeepsTo("buildHTTP") \/ KeepsTo("remove") \/ KeepsTo("ensure")
  BY <1>1, <1>4 DEF KeepsTo, GoesTo, DeletionInv
<1> QED
  BY <1>2, <1>3, <1>4, RemoteGoesOn DEF Fails

LEMMA DeletionUser ==
  ASSUME TypeInv, DeletionInv, UserOrInformerStep
  PROVE  DeletionInv'
<1>1. UNCHANGED <<work, remote>>
  BY DEF UserOrInformerStep
<1>2. \A r \in Resources : api'[r] # None /\ api'[r].status.uuid # None => api'[r].finalizer
  <2>1. ASSUME NEW r \in Resources, NEW s, UserCreates(r, s) PROVE <1>2
    BY <2>1 DEF UserCreates, EmptyStatus, DeletionInv, TypeInv, KubeTypeOK
  <2>2. ASSUME NEW r \in Resources, NEW s, UserEdits(r, s) PROVE <1>2
    BY <2>2 DEF UserEdits, DeletionInv, TypeInv, KubeTypeOK, Objects
  <2>3. ASSUME NEW r \in Resources, UserDeletes(r) PROVE <1>2
    BY <2>3 DEF UserDeletes, DeletionInv, TypeInv, KubeTypeOK, Objects
  <2>4. ASSUME UNCHANGED api PROVE <1>2
    BY <2>4 DEF DeletionInv
  <2> QED
    BY <2>1, <2>2, <2>3, <2>4 DEF UserOrInformerStep, UserStep, WatchEvent, Resync
<1> QED
  BY <1>1, <1>2 DEF DeletionInv

LEMMA DeletionKube ==
  ASSUME TypeInv, DeletionInv, KubeSteps
  PROVE  DeletionInv'
<1>1. work.pc = "setStatus" => work.obj.finalizer
  BY DEF DeletionInv
<1>2. work.pc \in {"addFinalizer", "setStatus"} => Written.finalizer
  BY <1>1, WrittenFields
<1>3. api \in [Resources -> Objects \union {None}] /\ work.cr \in Resources
  BY KubeWrites, BusyFields DEF TypeInv, KubeTypeOK
<1>4. Written = None \/ Written.finalizer
  BY <1>2, WrittenNone, KubeWrites
<1>5. \A r \in Resources : api'[r] # None /\ api'[r].status.uuid # None => api'[r].finalizer
  BY <1>3, <1>4, KubeWrites DEF Stored, DeletionInv
<1> QED
  BY <1>5, KubeWrites, DeletionIdle

LEMMA DeletionNext ==
  ASSUME SameFirewall, TypeInv, PlaceInv, DeletionInv, PathInv, [Next]_vars
  PROVE  DeletionInv'
<1>1. CASE \E r \in Resources : Reconcile(r)
  BY <1>1, ReconcileGoesOn DEF DeletionInv
<1>2. CASE Restart
  BY <1>2, DeletionIdle DEF Restart, Relist, DeletionInv
<1>3. CASE ConnectionSteps \/ UNCHANGED vars
  BY <1>3, OthersKeep DEF DeletionInv, kubeVars
<1> QED
  BY <1>1, <1>2, <1>3, StepsSplit, DeletionRemote, DeletionKube, DeletionUser

LEMMA InvNext == SameFirewall /\ IInv /\ [Next]_vars => IInv'
  BY TypeNext, PlaceNext, DeletionNext, PathNext DEF IInv

----------------------------------------------------------------------------
\* The mapping.  Managed sees objects as this function of the stored ones.

Object == [r \in Resources |-> Abstract(api[r])]

\* A write of one object is seen as a write of one object.
LEMMA MappedWrite ==
  ASSUME TypeInv, NEW r \in Resources, NEW o, api' = [api EXCEPT ![r] = o]
  PROVE  Object' = [Object EXCEPT ![r] = Abstract(o)]
<1>1. api \in [Resources -> Objects \union {None}]
  BY DEF TypeInv, KubeTypeOK
<1>2. ASSUME NEW d \in Resources PROVE api'[d] = IF d = r THEN o ELSE api[d]
  BY <1>1
<1>3. Object' = [d \in Resources |-> Abstract(api'[d])]
  BY DEF Object, Abstract
<1>4. ASSUME NEW d \in Resources
      PROVE  Abstract(api'[d]) = IF d = r THEN Abstract(o) ELSE Abstract(api[d])
  BY <1>2, <1>4
<1> QED
  BY <1>3, <1>4 DEF Object

\* What Managed sees of a resource that exists.
LEMMA MappedAbsent ==
  ASSUME TypeInv, NEW r \in Resources, api[r] = None
  PROVE  Object[r] = None
  BY DEF Object, Abstract

LEMMA MappedObject ==
  ASSUME TypeInv, NEW r \in Resources, api[r] # None
  PROVE  /\ Object[r] # None
         /\ Object[r] = [guarded |-> api[r].finalizer, deleting |-> api[r].deleting,
                         uuid |-> api[r].status.uuid]
         /\ Object[r].guarded = api[r].finalizer
         /\ Object[r].deleting = api[r].deleting
         /\ Object[r].uuid = api[r].status.uuid
<1>1. api[r] \in Objects
  BY DEF TypeInv, KubeTypeOK
<1>2. Abstract(api[r]) = [guarded |-> api[r].finalizer, deleting |-> api[r].deleting,
                          uuid |-> api[r].status.uuid]
  BY DEF Abstract
<1>3. Abstract(api[r]) \in [guarded: BOOLEAN, deleting: BOOLEAN, uuid: UUIDs \union {None}]
  BY <1>1, <1>2 DEF Objects, Statuses
<1>4. Object[r] = Abstract(api[r])
  BY DEF Object
<1> QED
  BY <1>2, <1>3, <1>4, OperatorAbstractAssumption

----------------------------------------------------------------------------
\* The steps.

\* A step that leaves the objects alone keeps entities known or forgets them; at most
\* one identifier comes to life, and no object has recorded it.
LiveChanges ==
  \/ Live' \subseteq Live
  \/ \E u \in UUIDs : Fresh(u) /\ Live' \subseteq Live \union {u}

LEMMA LiveCalls ==
  ASSUME TypeInv, [Next]_vars
  PROVE  LiveChanges
<1>1. remote \in [UUIDs -> Entities \union {None}]
  BY DEF TypeInv
<1>2. CASE UNCHANGED remote
  BY <1>2 DEF Live, LiveChanges
<1>3. ASSUME work.pc = "ensure", NEW u \in Resolved, Put(u) PROVE LiveChanges
  <2>1. u \in UUIDs /\ (remote[u] # None \/ Fresh(u))
    BY <1>3, ResolvedKnown
  <2>2. Live' \subseteq Live \union {u}
    BY <1>1, <1>3, <2>1 DEF Put, Live
  <2>3. CASE remote[u] # None
    BY <2>1, <2>2, <2>3 DEF Live, LiveChanges
  <2>4. CASE Fresh(u)
    BY <2>1, <2>2, <2>4 DEF LiveChanges
  <2> QED
    BY <2>1, <2>3, <2>4
<1>4. CASE remote' = [remote EXCEPT ![work.obj.status.uuid] = None]
  BY <1>1, <1>4 DEF Live, LiveChanges
<1> QED
  BY <1>2, <1>3, <1>4, StepsSplit, RemoteWrites, ReconcileGoesOn, KubeWrites, OthersKeep
     DEF UserOrInformerStep, Restart

\* Seen from Managed, a step that leaves the objects alone is one of the firewall.
LEMMA MappedFirewall ==
  ASSUME TypeInv, [Next]_vars, UNCHANGED api
  PROVE  Managed!FirewallChanges
<1>1. Object' = Object
  BY DEF Object, Abstract
<1>2. CASE Live' \subseteq Live
  <2>1. Live' \subseteq Live \union {} /\ {} \in SUBSET UUIDs
    BY <1>2
  <2> QED
    BY <1>1, <2>1 DEF Managed!FirewallChanges, Object
<1>3. CASE \E u \in UUIDs : Fresh(u) /\ Live' \subseteq Live \union {u}
  <2>1. PICK u \in UUIDs : Fresh(u) /\ Live' \subseteq Live \union {u}
    BY <1>3
  <2>2. ASSUME NEW r \in Resources, api[r] # None PROVE Object[r].uuid # u
    <3>1. UuidOf(api[r]) # u
      BY <2>1 DEF Fresh
    <3>2. Object[r].uuid = api[r].status.uuid
      BY <2>2, MappedObject
    <3> QED
      BY <2>2, <3>1, <3>2 DEF UuidOf
  <2>3. \A r \in Resources : Object[r] # None => Object[r].uuid # u
    BY <2>2, MappedAbsent
  <2>4. {u} \in SUBSET UUIDs /\ \A v, w \in {u} : v = w
    OBVIOUS
  <2>5. \A v \in {u}, r \in Resources : Managed!Exists(r) => Object[r].uuid # v
    BY <2>3 DEF Managed!Exists, Object
  <2> QED
    BY <1>1, <2>1, <2>4, <2>5 DEF Managed!FirewallChanges, Object
<1> QED
  BY <1>2, <1>3, LiveCalls DEF LiveChanges

\* What users do.
UserSteps ==
  \/ \E r \in Resources : \E s \in Connections : UserCreates(r, s) \/ UserEdits(r, s)
  \/ \E r \in Resources : UserDeletes(r)

\* Users: what they declare, withdraw or condemn; an edit is not seen.
LEMMA MappedUser ==
  ASSUME TypeInv, UserSteps, UNCHANGED Live
  PROVE  \/ \E r \in Resources :
              Managed!Declare(r) \/ Managed!Withdraw(r) \/ Managed!Condemn(r)
         \/ UNCHANGED Object
<1>1. api \in [Resources -> Objects \union {None}]
  BY DEF TypeInv, KubeTypeOK
<1>2. ASSUME NEW r \in Resources, NEW s \in Connections, UserCreates(r, s)
      PROVE  Managed!Declare(r)
  <2> DEFINE new == [gen |-> 1, spec |-> s, deleting |-> FALSE, finalizer |-> FALSE,
                     status |-> EmptyStatus]
  <2>1. api[r] = None /\ api' = [api EXCEPT ![r] = new]
    BY <1>2 DEF UserCreates
  <2>2. new \in Objects
    BY TypeUserObjects
  <2>3. Abstract(new) = [guarded |-> FALSE, deleting |-> FALSE, uuid |-> None]
    BY <2>2, OperatorAbsentAssumption DEF Abstract, EmptyStatus
  <2> HIDE DEF new
  <2>4. Object' = [Object EXCEPT
                     ![r] = [guarded |-> FALSE, deleting |-> FALSE, uuid |-> None]]
    BY <2>1, <2>3, MappedWrite
  <2>5. Object[r] = None
    BY <2>1, MappedAbsent
  <2> QED
    BY <2>4, <2>5 DEF Managed!Declare, Managed!Exists, Managed!Becomes, Object
<1>3. ASSUME NEW r \in Resources, NEW s \in Connections, UserEdits(r, s)
      PROVE  UNCHANGED Object
  <2> DEFINE new == [api[r] EXCEPT !.spec = s, !.gen = api[r].gen + 1]
  <2>1. api[r] \in Objects /\ api' = [api EXCEPT ![r] = new]
    BY <1>1, <1>3 DEF UserEdits
  <2>2. new \in Objects
    BY <2>1, TypeUserObjects
  <2>3. /\ new.finalizer = api[r].finalizer /\ new.deleting = api[r].deleting
        /\ new.status = api[r].status
    BY <2>1 DEF Objects
  <2> HIDE DEF new
  <2>4. Abstract(new) = Abstract(api[r])
    BY <2>1, <2>2, <2>3, OperatorAbsentAssumption DEF Abstract
  <2> QED
    BY <2>1, <2>4, MappedWrite DEF Object
<1>4. ASSUME NEW r \in Resources, UserDeletes(r)
      PROVE  Managed!Withdraw(r) \/ Managed!Condemn(r)
  <2>1. api[r] \in Objects
    BY <1>1, <1>4 DEF UserDeletes
  <2>2. /\ Object[r] # None
        /\ Object[r] = [guarded |-> api[r].finalizer, deleting |-> api[r].deleting,
                        uuid |-> api[r].status.uuid]
    BY <1>4, MappedObject DEF UserDeletes
  <2>3. CASE ~ api[r].finalizer
    <3>1. Object' = [Object EXCEPT ![r] = None]
      BY <1>4, <2>3, MappedWrite DEF UserDeletes, Abstract
    <3> QED
      BY <2>2, <2>3, <3>1 DEF Managed!Withdraw, Managed!Exists, Managed!Becomes, Object
  <2>4. CASE api[r].finalizer
    <3> DEFINE new == [api[r] EXCEPT !.deleting = TRUE]
    <3>1. api' = [api EXCEPT ![r] = new]
      BY <1>4, <2>4 DEF UserDeletes
    <3>2. api[r].spec \in Connections
      BY <2>1 DEF Objects
    <3>3. new \in Objects
      BY <2>1, <3>2, TypeUserObjects
    <3>4. new.finalizer /\ new.deleting /\ new.status = api[r].status
      BY <2>1, <2>4 DEF Objects
    <3>5. new.finalizer = TRUE /\ new.deleting = TRUE
      BY <3>3, <3>4 DEF Objects
    <3> HIDE DEF new
    <3>6. Abstract(new) = [guarded |-> TRUE, deleting |-> TRUE, uuid |-> Object[r].uuid]
      BY <2>2, <3>3, <3>4, <3>5, OperatorAbsentAssumption DEF Abstract
    <3>7. Object' = [Object EXCEPT ![r] =
                       [guarded |-> TRUE, deleting |-> TRUE, uuid |-> Object[r].uuid]]
      BY <3>1, <3>6, MappedWrite
    <3> QED
      BY <2>2, <2>4, <3>7 DEF Managed!Condemn, Managed!Exists, Managed!Becomes, Object
  <2> QED
    BY <2>3, <2>4
<1> QED
  BY <1>2, <1>3, <1>4 DEF UserSteps

\* The three writes of the controller.
LEMMA MappedGuard ==
  ASSUME IInv, work.pc = "addFinalizer", UNCHANGED Live, Stored(work.cr, work.obj, Written)
  PROVE  Managed!Guard(work.cr)
<1> USE DEF IInv
<1>1. work.pc # "idle" /\ work.cr \in Resources /\ work.obj \in Objects
  BY BusyFields
<1>2. /\ api[work.cr] = work.obj /\ api[work.cr] # None
      /\ api' = [api EXCEPT ![work.cr] = Written]
  BY <1>1, OperatorAbsentAssumption DEF Stored
<1>3. ~ work.obj.finalizer /\ ~ work.obj.deleting /\ work.obj.status.uuid = None
  BY <1>1, <1>2 DEF PathInv, DeletionInv
<1>4. /\ Written \in Objects
      /\ Written.finalizer = TRUE /\ Written.deleting = work.obj.deleting
      /\ Written.status = work.obj.status
  BY <1>1, WrittenFields
<1>5. Written.deleting = FALSE
  BY <1>1, <1>3, <1>4 DEF Objects
<1>6. Abstract(Written) = [guarded |-> TRUE, deleting |-> FALSE, uuid |-> None]
  BY <1>3, <1>4, <1>5, OperatorAbsentAssumption DEF Abstract
<1>7. Object' = [Object EXCEPT ![work.cr] =
                   [guarded |-> TRUE, deleting |-> FALSE, uuid |-> None]]
  BY <1>1, <1>2, <1>6, MappedWrite
<1>8. Object[work.cr] # None /\ ~ Object[work.cr].guarded
  BY <1>1, <1>2, <1>3, MappedObject
<1> QED
  BY <1>7, <1>8 DEF Managed!Guard, Managed!Exists, Managed!Becomes, Object

LEMMA MappedRecord ==
  ASSUME IInv, work.pc = "setStatus", UNCHANGED Live, Stored(work.cr, work.obj, Written)
  PROVE  \/ \E u \in UUIDs : Managed!Record(work.cr, u)
         \/ UNCHANGED Object
<1> USE DEF IInv
<1>1. /\ work.pc # "idle" /\ work.cr \in Resources /\ work.obj \in Objects
      /\ work.status \in Statuses
  BY BusyFields
<1>2. /\ api[work.cr] = work.obj /\ api[work.cr] # None
      /\ api' = [api EXCEPT ![work.cr] = Written]
  BY <1>1, OperatorAbsentAssumption DEF Stored
<1>3. work.obj.finalizer = TRUE
  BY <1>1 DEF DeletionInv, Objects
<1>4. /\ Written \in Objects
      /\ Written.finalizer = work.obj.finalizer /\ Written.deleting = work.obj.deleting
      /\ Written.status = work.status
  BY <1>1, WrittenFields
<1>5. Abstract(Written) = [guarded |-> TRUE, deleting |-> work.obj.deleting,
                           uuid |-> work.status.uuid]
  BY <1>3, <1>4, OperatorAbsentAssumption DEF Abstract
<1>6. Object' = [Object EXCEPT ![work.cr] =
                   [guarded |-> TRUE, deleting |-> work.obj.deleting,
                    uuid |-> work.status.uuid]]
  BY <1>1, <1>2, <1>5, MappedWrite
<1>7. /\ Object[work.cr] # None
      /\ Object[work.cr] = [guarded |-> TRUE, deleting |-> work.obj.deleting,
                            uuid |-> work.obj.status.uuid]
      /\ Object[work.cr].guarded = TRUE
      /\ Object[work.cr].deleting = work.obj.deleting
  BY <1>1, <1>2, <1>3, MappedObject
<1>8. CASE work.status.uuid = work.obj.status.uuid
  BY <1>6, <1>7, <1>8 DEF Object
<1>9. CASE work.status.uuid \in UUIDs /\ ~ work.obj.deleting
  <2>1. work.obj.deleting = FALSE
    BY <1>1, <1>9 DEF Objects
  <2> QED
    BY <1>6, <1>7, <1>9, <2>1
       DEF Managed!Record, Managed!Exists, Managed!Becomes, Object
<1> QED
  BY <1>8, <1>9 DEF PathInv

LEMMA MappedRelease ==
  ASSUME IInv, work.pc = "removeFinalizer", UNCHANGED Live,
         Stored(work.cr, work.obj, Written)
  PROVE  Managed!Release(work.cr)
<1> USE DEF IInv
<1>1. work.pc # "idle" /\ work.cr \in Resources /\ work.obj \in Objects
  BY BusyFields
<1>2. /\ api[work.cr] = work.obj /\ api[work.cr] # None
      /\ api' = [api EXCEPT ![work.cr] = None]
  BY <1>1, WrittenNone, OperatorAbsentAssumption DEF Stored
<1>3. work.obj.finalizer /\ work.obj.deleting /\ work.obj.status.uuid \notin Live
  BY OperatorAssumption DEF DeletionInv, PathInv, Live
<1>4. Object' = [Object EXCEPT ![work.cr] = None]
  BY <1>1, <1>2, MappedWrite DEF Abstract
<1>5. /\ Object[work.cr] # None /\ Object[work.cr].guarded /\ Object[work.cr].deleting
      /\ Object[work.cr].uuid \notin Live
  BY <1>1, <1>2, <1>3, MappedObject
<1> QED
  BY <1>4, <1>5 DEF Managed!Release, Managed!Exists, Managed!Becomes, Object

----------------------------------------------------------------------------
\* The refinement.

\* A step that touches the objects is one of a user, or one write of the controller.
LEMMA ObjectSteps ==
  ASSUME TypeInv, [Next]_vars, api' # api
  PROVE  /\ UNCHANGED remote
         /\ \/ UserSteps
            \/ /\ work.pc \in {"addFinalizer", "setStatus", "removeFinalizer"}
               /\ Stored(work.cr, work.obj, Written)
<1>1. CASE UserOrInformerStep
  BY <1>1 DEF UserOrInformerStep, UserStep, UserSteps, WatchEvent, Resync
<1>2. CASE KubeSteps
  BY <1>2, KubeWrites
<1> QED
  BY <1>1, <1>2, StepsSplit, ReconcileGoesOn, RemoteGoesOn, OthersKeep
     DEF Restart, Relist, kubeVars

LEMMA MappedInit == Init => Managed!Init
<1> SUFFICES ASSUME Init PROVE Managed!Init
  OBVIOUS
<1>1. [r \in Resources |-> Abstract(api[r])] = [r \in Resources |-> None]
  BY DEF Init, KubeInit, Abstract
<1>2. Live = {}
  BY DEF Init, Live
<1> QED
  BY <1>1, <1>2 DEF Managed!Init

LEMMA MappedNext ==
  ASSUME IInv, [Next]_vars
  PROVE  Managed!Next \/ UNCHANGED <<Object, Live>>
<1>1. TypeInv
  BY DEF IInv
<1>2. CASE UNCHANGED api
  BY <1>1, <1>2, MappedFirewall DEF Managed!Next
<1>3. CASE api' # api
  <2>1. UNCHANGED Live
    BY <1>1, <1>3, ObjectSteps DEF Live
  <2>2. CASE UserSteps
    BY <1>1, <2>1, <2>2, MappedUser DEF Managed!Next
  <2>3. CASE work.pc = "addFinalizer" /\ Stored(work.cr, work.obj, Written)
    BY <1>1, <2>1, <2>3, MappedGuard, BusyFields DEF Managed!Next
  <2>4. CASE work.pc = "setStatus" /\ Stored(work.cr, work.obj, Written)
    BY <1>1, <2>1, <2>4, MappedRecord, BusyFields DEF Managed!Next
  <2>5. CASE work.pc = "removeFinalizer" /\ Stored(work.cr, work.obj, Written)
    BY <1>1, <2>1, <2>5, MappedRelease, BusyFields DEF Managed!Next
  <2> QED
    BY <1>1, <1>3, <2>2, <2>3, <2>4, <2>5, ObjectSteps
<1> QED
  BY <1>2, <1>3

\* As long as no connection can be moved to another firewall, every behaviour of the
\* process and its surroundings, seen through the mapping, is one of ManagedResource:
\* a resource leaves the cluster only when its recorded entity is gone from the
\* firewall, whatever the connections and Secrets do meanwhile.
THEOREM RefinementCorrect == ASSUME SameFirewall PROVE Spec => Implements
<1>1. Init => IInv
  BY InvInit
<1>2. IInv /\ [Next]_vars => IInv'
  BY InvNext
<1>3. Init => Managed!Init
  BY MappedInit
<1>4. IInv /\ [Next]_vars =>
        [Managed!Next]_<<[r \in Resources |-> Abstract(api[r])], Live>>
  BY MappedNext DEF Object
<1> QED
  BY <1>1, <1>2, <1>3, <1>4, PTL DEF Spec, Implements, Managed!Spec
=============================================================================

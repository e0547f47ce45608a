----------------------------- MODULE Connection -----------------------------
(***************************************************************************)
(* The OPNsenseConnection controller (internal/controller/                 *)
(* opnsenseconnection_controller.go and http_client.go): it checks the     *)
(* Secrets a connection refers to and whether its firewall answers, and    *)
(* reports the result in the Ready condition.                              *)
(*                                                                         *)
(* It watches connections only.  A change of a Secret or of the firewall   *)
(* is noticed by the check it repeats five minutes after a success, or by  *)
(* the retry after a failure.                                              *)
(***************************************************************************)
EXTENDS Integers

CONSTANTS
  CRs,             \* OPNsenseConnection resources, by name
  URLs,            \* firewalls
  SecretNames,     \* Secrets, by namespace/name
  SecretContents,  \* what a Secret may hold
  FirewallStates,  \* what a firewall may look like
  Specs,           \* the specs users write
  EnvOps,          \* what changes besides the connections themselves
  MaxGen,          \* bound: no user edits beyond this metadata.generation
  None             \* absent: object, Secret, reference

\* apiKey and apiSecret: accepted by the firewall, refused by it, or not both
\* there.  ca.crt: the authority that signed the firewall's certificate, another
\* one, or no certificate at all.
Secrets == [keys: {"accepted", "refused", "incomplete"},
            ca: {"signer", "stranger", "invalid"}]

\* A firewall is unreachable or presents a certificate that a public authority or
\* a private one signed.
Firewalls == {"down", "public", "private"}

ASSUME ConnectionAssumption ==
  /\ Specs \subseteq [url: URLs, secret: SecretNames, skip: BOOLEAN,
                      ca: SecretNames \union {None}]
  /\ SecretContents \subseteq Secrets /\ FirewallStates \subseteq Firewalls
  /\ None \notin CRs \union SecretNames \union Secrets
  /\ EnvOps \subseteq {"secrets", "firewalls"}
  /\ MaxGen \in Nat

VARIABLES
  api, cache, queue,
  timer,      \* connections whose next check is scheduled (RequeueAfter)
  rec,        \* the reconcile in progress
  secrets,    \* the informer's copies of the Secrets
  firewalls   \* the state of each firewall

Statuses == [obsGen: Nat, ready: {"Unknown", "False", "True"}]
EmptyStatus == [obsGen |-> 0, ready |-> "Unknown"]

INSTANCE KubeAPI

\* The value that stands for an absent object is none of them.
ASSUME ConnectionAbsentAssumption == None \notin Objects

kubeVars == <<api, cache, queue>>
envVars == <<secrets, firewalls>>
connectionVars == <<kubeVars, timer, rec, envVars>>

----------------------------------------------------------------------------
\* The client both this controller and its consumers build from a spec.

SecretOf(name) == IF name = None THEN None ELSE secrets[name]

\* Slip: that there is a Secret is enough.
HasCredentialsSecret(spec) == SecretOf(spec.secret) # None

HasCredentials(spec) ==
  SecretOf(spec.secret) # None /\ secrets[spec.secret].keys # "incomplete"

HasCA(spec) == SecretOf(spec.ca) # None /\ secrets[spec.ca].ca # "invalid"

\* Slip: without a usable custom CA the client does what it would do without any.
BuildHTTPClientAnyway(spec) ==
  CASE HasCA(spec) -> secrets[spec.ca].ca
    [] ~ HasCA(spec) /\ spec.skip -> "skip"
    [] ~ HasCA(spec) /\ ~ spec.skip -> "system"

\* What the client verifies certificates against; "broken" stands for the error.
BuildHTTPClient(spec) ==
  CASE spec.ca # None -> IF HasCA(spec) THEN secrets[spec.ca].ca ELSE "broken"
    [] spec.ca = None /\ spec.skip -> "skip"
    [] spec.ca = None /\ ~ spec.skip -> "system"

\* Whether the firewall answers a request with a 2xx status.
Answers(url, tls, keys) ==
  /\ firewalls[url] # "down"
  /\ \/ tls = "skip"
     \/ tls = "system" /\ firewalls[url] = "public"
     \/ tls = "signer" /\ firewalls[url] = "private"
  /\ keys = "accepted"

----------------------------------------------------------------------------
\* The reconcile in progress: next call, connection, the copy Get returned,
\* credentials and TLS mode read so far, the outcome to report.

Idle == [pc |-> "idle", cr |-> None, obj |-> None, keys |-> None, tls |-> None,
         ready |-> "Unknown"]

Busy ==
  [pc: {"getSecret", "buildHTTP", "check", "setStatus"}, cr: CRs, obj: Objects,
   keys: {None, "accepted", "refused"}, tls: {None, "skip", "system", "signer", "stranger"},
   ready: {"Unknown", "False", "True"}]

\* What was read is not needed for the status update.
SetReady(value) ==
  rec' = [Idle EXCEPT !.pc = "setStatus", !.cr = rec.cr, !.obj = rec.obj, !.ready = value]

Return(err) ==
  /\ rec' = Idle
  /\ queue' = IF err THEN queue \union {rec.cr} ELSE queue
  /\ UNCHANGED cache

Reconcile(c) ==
  /\ rec = Idle
  /\ c \in queue
  /\ queue' = queue \ {c}
  /\ \/ cache[c] = None /\ UNCHANGED rec
     \/ cache[c] # None /\ rec' = [Idle EXCEPT !.pc = "getSecret", !.cr = c, !.obj = cache[c]]
  /\ UNCHANGED <<api, cache, timer, envVars>>

GetSecret ==
  LET spec == rec.obj.spec IN
  /\ rec.pc = "getSecret"
  /\ \/ /\ HasCredentials(spec)
        /\ rec' = [rec EXCEPT !.pc = "buildHTTP", !.keys = secrets[spec.secret].keys]
     \/ ~ HasCredentials(spec) /\ SetReady("False")
  /\ UNCHANGED <<kubeVars, timer, envVars>>

ConfigureTLS ==
  LET tls == BuildHTTPClient(rec.obj.spec) IN
  /\ rec.pc = "buildHTTP"
  /\ \/ tls # "broken" /\ rec' = [rec EXCEPT !.pc = "check", !.tls = tls]
     \/ tls = "broken" /\ SetReady("False")
  /\ UNCHANGED <<kubeVars, timer, envVars>>

CheckConnectivity ==
  /\ rec.pc = "check"
  /\ SetReady(IF Answers(rec.obj.spec.url, rec.tls, rec.keys) THEN "True" ELSE "False")
  /\ UNCHANGED <<kubeVars, timer, envVars>>

WithStatus ==
  [rec.obj EXCEPT !.status = [obsGen |-> rec.obj.gen, ready |-> rec.ready]]

\* Slip: the result carries no RequeueAfter.
SetReadyConditionOnce ==
  /\ rec.pc = "setStatus"
  /\ \/ Stored(rec.cr, rec.obj, WithStatus) /\ Return(rec.ready = "False")
     \/ Conflict(rec.cr, rec.obj) /\ Return(TRUE)
  /\ UNCHANGED <<timer, envVars>>

\* The status update.  After a success the next check is scheduled; an error,
\* also one of the update itself, queues the connection again instead.
SetReadyCondition ==
  /\ rec.pc = "setStatus"
  /\ \/ /\ Stored(rec.cr, rec.obj, WithStatus)
        /\ Return(rec.ready = "False")
        /\ timer' = IF rec.ready = "True" THEN timer \union {rec.cr} ELSE timer
     \/ /\ Conflict(rec.cr, rec.obj)
        /\ Return(TRUE)
        /\ UNCHANGED timer
  /\ UNCHANGED envVars

TimerFires(c) ==
  /\ c \in timer
  /\ timer' = timer \ {c}
  /\ queue' = queue \union {c}
  /\ UNCHANGED <<api, cache, rec, envVars>>

----------------------------------------------------------------------------
\* Failures.

\* Only a Secret that does not exist is reported; any other error is returned as
\* it is.
GetSecretFails ==
  /\ rec.pc = "getSecret"
  /\ Return(TRUE)
  /\ UNCHANGED <<api, timer, envVars>>

CheckFails ==
  /\ rec.pc \in {"buildHTTP", "check"}
  /\ SetReady("False")
  /\ UNCHANGED <<kubeVars, timer, envVars>>

StatusUpdateFails ==
  /\ rec.pc = "setStatus"
  /\ UNCHANGED api \/ Stored(rec.cr, rec.obj, WithStatus)
  /\ Return(TRUE)
  /\ UNCHANGED <<timer, envVars>>

Crash ==
  /\ rec' = Idle
  /\ timer' = {}
  /\ Relist
  /\ UNCHANGED envVars

----------------------------------------------------------------------------
\* Everybody else.

EnvStep ==
  /\ \/ /\ "secrets" \in EnvOps
        /\ \E s \in SecretNames, x \in SecretContents \union {None} :
             secrets[s] # x /\ secrets' = [secrets EXCEPT ![s] = x]
        /\ UNCHANGED firewalls
     \/ /\ "firewalls" \in EnvOps
        /\ \E u \in URLs, x \in FirewallStates :
             firewalls[u] # x /\ firewalls' = [firewalls EXCEPT ![u] = x]
        /\ UNCHANGED secrets
  /\ UNCHANGED <<kubeVars, timer, rec>>

UserOrInformerStep ==
  /\ UserStep \/ \E c \in CRs : WatchEvent(c) \/ Resync(c)
  /\ UNCHANGED <<timer, rec, envVars>>

Calls == GetSecret \/ ConfigureTLS \/ CheckConnectivity \/ SetReadyCondition
Failures == GetSecretFails \/ CheckFails \/ StatusUpdateFails

\* Secrets and firewalls were there before the operator.
Init ==
  /\ KubeInit
  /\ timer = {}
  /\ rec = Idle
  /\ secrets \in [SecretNames -> SecretContents \union {None}]
  /\ firewalls \in [URLs -> FirewallStates]

Next ==
  \/ \E c \in CRs : Reconcile(c) \/ TimerFires(c)
  \/ Calls
  \/ Failures
  \/ Crash
  \/ UserOrInformerStep
  \/ EnvStep

Spec == Init /\ [][Next]_connectionVars

\* Fairness, as in FirewallRule, but without the resync (by default every ten
\* hours): the timer alone has to do.
FairSpec ==
  /\ Spec
  /\ WF_connectionVars(Calls)
  /\ \A c \in CRs : /\ SF_connectionVars(Reconcile(c))
                    /\ WF_connectionVars(TimerFires(c))
                    /\ WF_connectionVars(WatchEvent(c) /\ UNCHANGED <<timer, rec, envVars>>)

\* From some point on nothing changes but what the controller does.
QuietNext ==
  \/ \E c \in CRs : Reconcile(c) \/ TimerFires(c)
  \/ Calls
  \/ (\E c \in CRs : WatchEvent(c) \/ Resync(c)) /\ UNCHANGED <<timer, rec, envVars>>

Quiet == <>[][QuietNext]_connectionVars

----------------------------------------------------------------------------
\* Properties.

VarTypes ==
  /\ KubeTypeOK
  /\ \A c \in CRs : api[c] # None => ~ api[c].deleting
  /\ timer \subseteq CRs
  /\ rec \in Busy \union {Idle}
  /\ secrets \in [SecretNames -> SecretContents \union {None}]
  /\ firewalls \in [URLs -> FirewallStates]

\* What a reconcile has read by the time it makes a call, and what a status that was
\* written says.
ReadsComplete ==
  /\ rec.pc \in {"buildHTTP", "check"} => rec.keys \in {"accepted", "refused"}
  /\ rec.pc = "check" => rec.tls \in {"skip", "system", "signer", "stranger"}
  /\ rec.pc = "setStatus" => rec.ready \in {"True", "False"}
  /\ \A c \in CRs : api[c] # None => api[c].status.obsGen <= api[c].gen

\* Every variable has its type, a connection has no finalizer and so is never merely
\* marked for deletion, and what is used was read: the firewall is asked only with
\* both credentials and with TLS settings that could be built, a status update
\* reports an outcome, and no status speaks of a spec nobody has written yet.
TypeOK == VarTypes /\ ReadsComplete

\* What the types document: both keys in the credentials Secret, a certificate
\* verified against the custom CA if there is one ("caSecretRef takes
\* precedence"), not at all with insecureSkipVerify, else in the standard way.
Usable(spec) ==
  /\ SecretOf(spec.secret) # None /\ secrets[spec.secret].keys = "accepted"
  /\ spec.ca # None => SecretOf(spec.ca) # None
  /\ \/ spec.ca # None /\ secrets[spec.ca].ca = "signer" /\ firewalls[spec.url] = "private"
     \/ spec.ca = None /\ spec.skip /\ firewalls[spec.url] # "down"
     \/ spec.ca = None /\ ~ spec.skip /\ firewalls[spec.url] = "public"

\* "Ready ... is True when the connection has been validated successfully": once
\* nothing changes any more, every connection's condition tells, for its current
\* generation, whether it is usable as documented, also when the last change was
\* one of a Secret or of the firewall, which nothing watches, and although the
\* checks before it worked on stale copies of the connection.
ReadyTracks ==
  Quiet => \A c \in CRs :
    <>[](api[c] # None =>
           api[c].status = [obsGen |-> api[c].gen,
                            ready |-> IF Usable(api[c].spec) THEN "True" ELSE "False"])
=============================================================================

# TLA+ specification of opnsense-operator

The operator keeps custom resources of a Kubernetes cluster and the
configuration of an OPNsense firewall in agreement. It has no transaction across
the two sides, reads its own side from a lagging cache, can stop between any two
calls, and shares the firewall with an administrator. These modules state what
it nevertheless promises, check it with TLC on small instances and, for the most
important promises, prove it with TLAPS for all instances. Paths below are
relative to the repository.

## 1. Inventory

| component | state it keeps | operations | interacts with |
|---|---|---|---|
| FirewallRule controller, `internal/controller/firewallrule_controller.go` | none of its own between reconciles; finalizer, `status.uuid`, `status.sequence`, `status.observedGeneration` and the Ready condition on the resource | `Reconcile`, `reconcileDelete`, `resolveExternalRule`, `setReady*` | informer cache (reads), API server (writes), OPNsense client, OPNsenseConnection and Secret (reads) |
| Alias controller, `alias_controller.go` | the same, without sequence | as above; `resolveExternalAlias` looks up by alias name | as above; aliases of the firewall |
| OPNsenseConnection controller, `opnsenseconnection_controller.go` | Ready condition | check connectivity, requeue after 5 minutes | Secret, firewall |
| HTTP client construction, `http_client.go` | none | choose TLS settings | CA Secret |
| OPNsense client, `internal/opnsense/client.go` | none | one method per endpoint; classifies response bodies, the HTTP status being always 200 | firewall |
| API types, `api/v1alpha1` | spec and status of three kinds, defaults, omitted fields | | |
| Manager, `cmd/main.go` | work queues, informers | start three controllers, one worker each | API server |
| Kubernetes API server (external) | objects with resourceVersion, generation, finalizers | create, update, status update, delete, watch | |
| OPNsense (external), `docs/opnsense-filter-api-spec.md` | staged configuration, running filter | add, set, delete, get, search, apply | administrator |

What is hard: every remote call may fail, may be served although its caller sees
an error, or may be served later; the process may die between two calls; the
object a reconcile works on is a cached copy, and its last write is refused when
the stored object has moved on; OPNsense stages a change and puts it in force
only on apply; rules are identified by a random UUID recorded in the status
afterwards, and by a text suffix in the description, searched for as a
substring; users delete, recreate and edit resources and the administrator edits
the firewall at any time.

What makes each component correct:

- **rule and alias controllers**: a resource is released only after its external
  object is gone; a retry never duplicates; a resource never writes what belongs
  to another; Ready tells the truth; everything converges when left in peace.
- **connection controller**: Ready reflects the credentials, the CA and the URL in
  force, within the check period.
- **client**: each response the API documents is classified as its caller needs
  (done, not found, rejected, error), and no other response passes for one of them.
- **HTTP client construction**: a custom CA wins over `insecureSkipVerify`, and
  no failure yields a client with weaker verification.

`PROJECT.json` lists the hazards line by line with the property that covers each.

## 2. Plan

Done, in this order:

1. `KubeAPI`, `OPNsenseFilter`, `FirewallRule`: the busiest controller with both
   sides of the system, and the first proofs.
2. `ManagedResource`: what a controller promises about a resource, without its
   calls; `FirewallRule`, `Alias` and `Operator` implement it under a refinement
   mapping.
3. `OPNsenseAlias` and `Alias`: same life cycle, identity by name.
4. `Connection`: credentials, TLS settings, the periodic check.
5. `Operator`: the connection controller beside a resource controller, over
   connections, Secrets and firewalls that change.
6. `OPNsenseClient`: what each method makes of each reply.
7. Theorems for every safety property and every refinement that a passing run checks,
   first for `FirewallRule`, then for `Alias`, `OPNsenseClient`, `Connection` and `Operator`.

Left: late requests for aliases; two managers during a change of leader; theorems about
what the connection controller reports, which so far is a liveness property only.

## 3. Modules

### KubeAPI (external side)

`api` is what the API server stores, `cache` the informer's copy that `Get` reads,
`queue` the work queue. Users create, edit and delete (`UserCreates`,
`UserEdits`, `UserDeletes`); a deletion only marks an object that has a
finalizer. `WatchEvent` refreshes the cache and queues the resource; `Resync`
queues an unchanged one; `Relist` is the start of a new process. `Stored` and
`Conflict` are optimistic concurrency: resourceVersion is abstracted to "the
stored object still equals the copy".

### OPNsenseFilter (external side)

`staged` and `running` map rule identifiers to rules; `late` holds requests whose
caller has given up. A rule is its owner (the resource its managed suffix names,
or none), a body (all other fields as one value), `enabled` and the sequence.
`LoseCall` is a write that returns an error while its outcome is open: it never
arrived, was served, or is still on its way. The administrator edits, deletes,
clones (the suffix is copied along), rewrites descriptions (the suffix is lost)
and applies. `Mentions` holds `<<c, d>>` when the search phrase `ns/name` of `c`
occurs in the suffix of `d`.

### FirewallRule

The controller has one worker (controller-runtime's default; `SetupWithManager`
sets no option), so one reconcile is in progress at a time: `rec` holds its next
call, the resource, the copy `Get` returned, the UUID resolved, and the status to
be written. Each remote call is one action, and everybody else may act between
two calls.

| action | code |
|---|---|
| `Reconcile(c)` | dequeue, `Get`, the branches up to the first remote call, in `Reconcile` and `reconcileDelete` |
| `BuildOPNsenseClient`, `BuildClientFails` | `buildOPNsenseClient`: reads only, so success or failure |
| `GetRecordedRule`, `SearchRuleByManagedSuffix`, `GetMatchedRule` | `resolveExternalRule`, each with the decision that follows (`Found`: update, nothing to do, or report Ready) |
| `CreateRule`, `UpdateRule`, `ApplyFirewallRules`, `GetAppliedRule` | the two write paths of `Reconcile` |
| `DeleteRule`, `ApplyDeletion`, `RemoveFinalizer` | `reconcileDelete` |
| `AddFinalizer` | `Update` after `controllerutil.AddFinalizer` |
| `SetReadyCondition` | the status update that ends `setReadyFailed` and `setReadySuccess`; the former then returns its cause, which requeues |
| `ReadFails`, `WriteFails`, `KubeCallFails`, `Crash` | an error from each kind of call (a reply may be lost after the effect), and the death of the process |

`WrittenBack` deserves a word. The typed client sends an object without its false
booleans (`omitempty`), and the CRD default for `enabled` (and `quick`) is true,
so the update that adds the finalizer enables a disabled rule. The API server
counts that as a change of the spec: the generation grows.

Definitions commented as *slips* are variants of an action with a plausible
mistake. The specification does not use them: each shows, put in place of the
right definition, that a property would notice the mistake.

`TypeOK` says, besides the types, what ties calls and reports to identifiers
(`IdentifiersKnown`): a request to get, change or delete a rule names one, also when it
is served late, for the code builds its path by appending the identifier, and an empty
one would reach another endpoint; and a resource that reports Ready has recorded one.
The `TypeOK` of `Alias` says the same of aliases.

### ManagedResource

The abstract specification. A resource is guarded by a finalizer before the
identifier of an entity on the firewall is recorded; a guarded resource is only
marked when its user deletes it, and is let go when the entity it recorded last
is neither in the configuration nor in force; an identifier that is recorded and
gone never comes back. It has no calls, no copies and no requests in flight, and
says nothing of when a resource is guarded, recorded or let go.

The mapping, `Managed` in each of the three modules: `object` is what the API
server stores, reduced to finalizer, deletion mark and recorded UUID; `live` is
the set of identifiers in the configuration or in force. Most steps of the
controllers are stutters under it; reading, comparing, writing a rule another
time, failing, crashing and everything the cache does.

### OPNsenseAlias and Alias

`OPNsenseAlias` is the alias half of the API: staged aliases and aliases in force,
names that may be taken only once, requests that leave a field out
(`EncodeAlias`, `Merge`), and an administrator who adds, edits, deletes and
applies. `Alias` has the structure of `FirewallRule`, one action per call:

| action | code in `alias_controller.go` |
|---|---|
| `Reconcile(c)` | dequeue, `Get`, the branches up to the first remote call |
| `GetRecordedAlias`, `GetAliasUUIDByName`, `GetMatchedAlias` | `resolveExternalAlias`, with the decision that follows (`Found`) |
| `CreateAlias`, `UpdateAlias`, `ReconfigureAliases` | the write paths of `Reconcile`; nothing is read back after them |
| `DeleteAlias`, `ReconfigureDeletion`, `RemoveFinalizer` | the deletion path of `Reconcile` |
| `AddFinalizer`, `SetReadyCondition`, failures, `Crash` | as in `FirewallRule` |

The specs a user may write for a resource are a constant per resource
(`SpecsOf`), so that runs can say whether names change or collide. Type and
entries are one value. A write whose reply is lost has been served or not; a
write served after its caller gave up is modelled for rules only.

### Connection

`secrets` and `firewalls` are the world the controller asks: a Secret has keys
that the firewall accepts, refuses, or that are incomplete, and a certificate
that signed the firewall's, another one, or none; one Secret may serve as both
credentials and CA. A firewall is down or has a publicly or privately signed
certificate. `GetSecret`, `ConfigureTLS` (`buildHTTPClient`),
`CheckConnectivity` and `SetReadyCondition` are the calls of `Reconcile`, `timer` holds
the connections whose `RequeueAfter` is running; it is lost with the process.
`GetSecretFails` is the one error that is returned without a status update.
Secrets are read through an informer, so `secrets` is the informer's copy; how far it
lags behind the API server makes no difference to a controller that watches
none of them. A connection has no finalizer.

`BuildHTTPClient` follows the order of the code's tests; `Usable` restates what
`opnsenseconnection_types.go` documents, and `ReadyTracks` compares the two
through the whole controller: when Secrets and firewalls are quiet, the condition
ends up being what `Usable` says of the current spec. `TypeOK` says what the calls before
the last one have to leave behind (`ReadsComplete`): the firewall is asked only with both
credentials and with TLS settings that could be built.

### Operator

Two controllers of the process side by side: `C == INSTANCE Connection`, and one for
resources, rules or aliases alike, each with its own worker, cache and queue. What
`FirewallRule` and `Alias` do in one step, `buildOPNsenseClient`, is here
`GetConnection`, `GetCredentials` and `NewClient`, reading the same connections, Secrets and
firewalls that users and the connection controller change. What they take
apart, the calls that bring an entity in line or remove it, is here one step
(`EnsureEntity`, `RemoveEntity`), which may fail halfway (`CallFails`). `remote` says on
which firewall an entity is. A resource's spec is the connection it refers to.
`Restart` ends both workers. The `TypeOK` of `Operator` says what a client is made of when
an entity is reached (`ClientComplete`): a connection that was read and reported Ready,
both credentials and TLS settings that could be built.

### OPNsenseClient

A reply is a class of HTTP status and a JSON value; each method of `client.go`
turns it into an outcome (`Created`, `Updated`, `DeletedRule`, `Searched`, ...) and `DoJSON`
dispatches. `Documented` is what OPNsense answers in each situation, according
to the repository's documentation and client tests; `Disturbed` is an answer of somebody else,
such as a proxy, before or after OPNsense carried the request out. `Promised` is the
outcome on which the other modules build.

### MC modules

`MCFirewallRule`, `MCAlias`, `MCConnection`, `MCOperator`, `MCOPNsenseClient`: values for TLC, that is
the specs, the suffix relation, contents of Secrets, reply bodies and symmetry sets.

### Proof modules

The theorems, section 6. `FirewallRuleProofs` (types, deletion, refinement) is extended by
`FirewallRuleOwnership` (whose a rule is, and that it is the only one), and that by
`FirewallRuleTruth` (Ready). `AliasProofs` and `AliasTruth` do the same for aliases. The
others, `ConnectionProofs`, `OPNsenseClientProofs` and `OperatorProofs`, stand alone;
`OperatorProofs` states the lemmas of `ConnectionProofs` once more for its instance of
`Connection`, because the provers cannot look into a theorem that comes with an instance.

## 4. Runs

Each run fixes the constants so that the case it asks about does happen. Deadlock
is checked in every passing run. State counts are distinct states.

| run | instance | question | states |
|---|---|---|---|
| `admin` | FirewallRule, 1 resource, 3 identifiers, an administrator who clones, deletes and redescribes | `Implements`: a resource is released only when its recorded rule is gone; `AmbiguityReported`: a resource that was Ready, has lost its rule and matches several clones adopts none of them and ends up saying that it is not Ready | 1.1 M |
| `ready` | FirewallRule, 1 resource, 2 identifiers, all five specs, 2 sequences, 2 user edits | `ReadyIsTruthful`: Ready for the current generation means the configuration holds that generation, with the sequence shown | 1.8 M |
| `pair` | FirewallRule, 2 resources with unambiguous names, 2 identifiers, an administrator who deletes, 1 late request | `TypeOK`: requests and Ready name a rule; `DeletionInv`, `CleanupBeforeRelease`: released only when the recorded rule is gone from configuration and filter; `Exclusive`, `OnlyOwnRulesWritten`: neither writes the other's rule, also when an update or a deletion arrives after its resource has moved on | 3.1 M |
| `live` | FirewallRule, 1 resource, 3 identifiers, accepted and rejected specs, 1 user edit, an administrator who edits, deletes and applies | `AtMostOneManaged`: retries do not duplicate; `DeletionCompletes`, `Converges` after edits, rejected specs, drift and rules removed by hand | 498 k |
| `alias_own` | Alias, 1 resource, 4 specs of one name, 2 user edits, 2 identifiers, an administrator who adds | `TypeOK`; `ReadyIsTruthful`: the configuration holds exactly the alias described | 2.2 M |
| `alias_live` | Alias, 1 resource, 3 identifiers, accepted and rejected specs, 1 user edit, an administrator who edits, deletes and applies | `Implements`, `DeletionCompletes`, `Converges` | 484 k |
| `connection_live` | Connection, the four ways to configure TLS, two Secrets with accepted, refused, incomplete or no credentials and a right, wrong, invalid or no CA, a firewall that is down or has either kind of certificate | `TypeOK`: the firewall is asked only with what was read; `ReadyTracks`: the condition ends up telling whether the connection is usable, and no TLS failure makes the client verify less | 881 k |
| `operator_secrets` | Operator, 1 connection, 1 resource, 2 identifiers; the Secret comes and goes | `TypeOK`: what a client is made of; `Implements` across both controllers | 751 k |
| `operator_settle` | Operator, 1 connection, 1 resource, both deleted and recreated at will | `Settles`: nothing stays stuck, without any resync | 381 k |
| `client_replies` | OPNsenseClient, every method, every situation, seven undocumented bodies | `DocumentedUnderstood`, `SuccessMeansServed` | 43 k |
| `running`, `orphan` | FirewallRule, smallest instance that shows it | one violated property each, section 7 | |

Bounds. `MaxGen` limits user edits: one edit suffices for a copy to be stale, two
for a stale copy of an already edited object. Deleting and creating a resource is
not limited. `MaxLate` 1 lets a request arrive after any number of later ones.
The number of identifiers limits how many rules the firewall knows at once: an
identifier that nothing refers to is used again (`Fresh`), which stands for a new
random one. In the safety runs, running out of identifiers only cuts behaviours
off. In the liveness runs it would block the controller, so `Quiet` assumes that
a create does not wait for ever for one, and the runs have enough of them for the
cases they are about: in `live` and `alias_live` a copy, the running filter and
a new rule may each hold one. In `admin` three are needed: the recorded one, which is
no longer in the configuration, and two for the clones that match in its place.
Permuting identifiers, and resources with unambiguous names, is symmetric and is
used in the safety runs only.

What a run leaves out, and where it is instead: `ready` has no administrator and
no late requests, for with them the status may of course lag what somebody else
did. `pair` assumes unambiguous names (the configuration `overlap` of section 7
shows what happens otherwise). `AtMostOneManaged` is asked in `live`, which has no late
requests: a late `addRule` served after the retry's own search creates a second rule,
which no client could prevent with this API. `live` has no clones; a resource that
matches several rules is the subject of `admin`, which in turn has no late requests and
leaves `Implements` under them to the theorem. `alias_own` and `operator_secrets` keep
the names and the firewall; section 7 lists the configurations in which they change.
No alias is gone from under its resource in `alias_own`, and there is one resource: that
a lookup by name never ends at an alias of another name (`OnlyNamedAliasWritten`) is
checked by the configuration `MCAlias_pair`, two resources with a name each and an
administrator who adds and deletes (2.7 M states), and proved. `connection_live`
replaces connections but does not edit them: `MCConnection_edits` checks `ReadyTracks`
with one edit between two ways to configure TLS and half as many contents of Secrets
(577 k). Both take as long as the runs, and no run depends on them.
`operator_settle` leaves the Secret alone, which `operator_secrets` does not; that a
connection follows its Secrets is `ReadyTracks`.

## 5. Fairness

`FairSpec` assumes:

- weak fairness of `Calls`: a call that was started ends. Failing is a way to
  end, and takes the step as well. (The HTTP clients have no timeout: a firewall
  that accepts a connection and stays silent for ever is outside this
  assumption.)
- strong fairness of `Reconcile(c)` per resource: the worker is idle again and
  again, the work queue is first in first out, and the rate limiter's backoff is
  bounded, so a queued resource is served.
- weak fairness of `WatchEvent(c)` and `Resync(c)`: informers deliver and resync
  (every ten hours by default in controller-runtime). The resync is what repairs
  drift: nothing else tells the controller that somebody edited the firewall.

`Alias` assumes the same. `Connection` and `Operator` do without the resync, and
have weak fairness of `TimerFires(c)` instead: the timer of a requeue elapses. That is
enough there, because a failed reconcile is retried after its error and a
successful check of a connection is repeated. Retries after an error are part of
`Return`: the request is put back, and served by fairness of `Reconcile`.

No fairness is assumed of users, administrators, failures or late requests. All
liveness properties are conditional on `Quiet`: from some point on only the
controller, the informer and late requests act, and a create does not wait for
ever for an identifier, because OPNsense does not run out of random ones. Without
it a user, an administrator or a failing network can keep any controller from
converging.

## 6. Proofs

Every invariant, every action property and every refinement that a passing run
checks is also a theorem, and so is `OnlyNamedAliasWritten`. Each holds for any sets of resources, identifiers, specs and
any bounds.

| module | theorem | states | assuming |
|---|---|---|---|
| `FirewallRuleProofs` | `TypeCorrect` | `Spec => []TypeOK` | |
| | `DeletionCorrect` | `Spec => []DeletionInv` | |
| | `CleanupCorrect` | `Spec => CleanupBeforeRelease` | |
| | `RefinementCorrect` | `Spec => Implements` | |
| `FirewallRuleOwnership` | `ExclusiveCorrect` | `Spec => []Exclusive` | `Unambiguous` |
| | `OwnershipCorrect` | `Spec => OnlyOwnRulesWritten` | `Unambiguous` |
| | `UniquenessCorrect` | `Spec => []AtMostOneManaged` | `Unambiguous`, `SuffixesLeftAlone`, `MaxLate = 0` |
| `FirewallRuleTruth` | `ReadyCorrect` | `Spec => []ReadyIsTruthful` | `Unambiguous`, `NobodyElseWrites` |
| `AliasProofs` | `TypeCorrect` | `Spec => []TypeOK` | |
| | `RefinementCorrect` | `Spec => Implements` | |
| `AliasTruth` | `NamingCorrect` | `Spec => OnlyNamedAliasWritten` | `NamesKept` |
| | `ReadyCorrect` | `Spec => []ReadyIsTruthful` | `NamesKept`, `NamesApart`, `DescriptionsKept`, `NobodyElseWrites` |
| `ConnectionProofs` | `TypeCorrect` | `Spec => []TypeOK` | |
| `OPNsenseClientProofs` | `DocumentedCorrect` | `Spec => []DocumentedUnderstood` | |
| | `SuccessCorrect` | `Spec => []SuccessMeansServed` | |
| `OperatorProofs` | `TypeCorrect` | `Spec => []TypeOK` | |
| | `RefinementCorrect` | `Spec => Implements` | `SameFirewall` |

The modules assume of their constants that the absent value is none of the other
values. `FirewallRule` and `Alias` also assume that specs are closed under `WrittenBack`,
`FirewallRule` that a suffix contains its own phrase, `OPNsenseClient` that nobody but
OPNsense confirms a write in OPNsense's words (`DisturbancesAssumption`; no code could
tell such an answer from a true one).

The hypotheses in the last column are needed; section 7 lists what happens without
each of them where it is not obvious.

- `Unambiguous`: no search phrase occurs in the suffix of another resource
  (`MCFirewallRule_overlap` otherwise). `SuffixesLeftAlone`: the administrator neither
  clones rules nor rewrites descriptions.
- `NobodyElseWrites`, for rules: the administrator may apply but writes no rules, and no
  request is served late; for aliases: the administrator adds and applies, but leaves
  existing aliases alone.
- `NamesKept`, `NamesApart`, `DescriptionsKept`: users do not rename an alias, do not
  ask for one alias twice, do not remove a description (`MCAlias_renamed`, `_rivals` and
  `_described` otherwise).
- `SameFirewall`: all connections have one URL (`MCOperator_moved` otherwise). In
  `Operator` any spec may be given to any connection, so two URLs are enough to
  move one.

- **Identifiers** (`TypeCorrect` for rules and aliases). An identifier enters a reconcile from
  the copy, where the code tests that it is there, from a lookup that found something,
  or from a write that gave it out; the later calls keep it, and a request that goes
  late takes it along. A failure report keeps the identifier of the copy and is not Ready.
- **Cleanup.** `CleanupBeforeRelease` is about one step, and needs to know what the
  steps before have done. `DeletionInv` carries that: a recorded UUID implies the
  finalizer (so only the controller can release the object); a reconcile past
  the finalizer check works on a copy that has one; between `DeleteRule` and
  `RemoveFinalizer` the recorded rule stays absent from the configuration, since
  an identifier referred to is never given out again and nobody recreates a
  rule under it, late requests included; after `ApplyDeletion` it is absent from
  the filter. `RemoveFinalizer` succeeds only if the stored object is still the
  copy, so the UUID it knew is the recorded one. `VarTypes /\ DeletionInv` is
  inductive.
- **Ownership.** `Exclusive` says that the stored status, the cached copy, the
  suffix in the configuration, the reconcile in progress and the requests in
  flight agree on whose identifier it is. With `VarTypes` it is inductive when
  search phrases are unambiguous: new references come from an existing one of the
  same resource, or from a fresh identifier. A write then reaches a rule
  whose suffix, if any, names the writer.
- **Uniqueness.** A rule is created only when the reconcile has just found none by
  suffix, and `UniqueInv` carries that through to the `create` call: no rule of
  this resource appears between the search and the creation, because only this
  worker creates rules of it (no late requests), and nobody clones or renames one.
  The search is complete: a resource's own phrase occurs in its own suffix.

- **Refinement.** Under the mapping only four kinds of steps touch an object of
  `ManagedResource`: users, and the three writes of the controller. `PathInv` says
  what the steps before such a write have established about the copy: a finalizer
  is added to a copy that has none and is not to be deleted; only a copy that is
  to be deleted is on the way to its release; and a status update records another
  identifier only for a copy that is not. Since a write succeeds only if
  the stored object is still the copy, `DeletionInv` and `PathInv` make
  each write a step of the abstract specification. Changes of the firewall map to
  `FirewallChanges`, for an identifier that is recorded and gone is referred to, hence
  not fresh (`LiveCalls`). Everything else is a stutter.
- **Truth.** `ReadyIsTruthful` relates the stored object to the configuration,
  while the reconcile sees an old copy of the one and an old answer about the
  other. `CopyInv` handles the copies: an object that is stored no more will never
  be stored again as it was (`Past`: its generation grew, it was marked, its status was
  written, or it was created anew without a finalizer), so a copy is either what
  is stored, and then also what the cache holds, or good for no write. `ReadyInv` adds
  to the property that the cache knows the spec for which a resource is Ready;
  hence a new reconcile does not start from an older one. `WorkInv` carries the
  answers: from the write to the status update the rule conforms to the copy, and
  a reconcile of a Ready resource never comes to write at all, because the rule it
  finds is the only one (uniqueness) and conforms. A rule is changed only by the reconcile
  in progress, for its own resource (ownership). The conjunction of all
  invariants of this section, `IInv`, is inductive.
- **Aliases.** That names in the configuration are unique is part of `VarTypes`: what a
  request is merged to is an alias of the name it asks for (`MergeNew`, `MergeOld`), and
  OPNsense refuses a name that is taken (`WriteOne`). Deletion and refinement go as for
  rules, with one difference: an alias that is absent from the configuration stays so although
  the administrator adds aliases, because a new one gets a fresh identifier, and an
  identifier that a copy refers to is not fresh (`DeletionAdmin`).
- **Naming** (`NamingInv`): as long as names are kept, whatever identifier the status, the
  cache or the reconcile refers to is that of an alias of the resource's name, or of none.
  The lookup by name establishes it, an identifier given out is fresh, and no write changes
  the name an alias has.
- **Truth for aliases** (`TruthInv`): the argument is that for rules, with uniqueness by name in
  place of the suffix search. A description that is left out of a request keeps the
  old one; under `DescriptionsKept` that is the one asked for.
- **The client.** `ReplyInv` says that a reply that decodes as a success is one to a
  request that was carried out, and that the outcome is the decoded reply.
  `UnderstoodReply` goes through the methods, the shapes of a reply
  and the situations; `NoFalseSuccess` shows that no other body is decoded as a success.
- **Connections and the process.** A connection has no finalizer (`Unheld`), so its
  deletion never leaves a marked object. What a call uses was read by an earlier call of
  the same reconcile (`RecReads`), and a status is written only over the object it was
  computed from, so it never speaks of a generation to come (`StatusReads`). In `Operator`,
  `ClientInv` and `ClientReads` say that a reconcile that builds or uses a client has read
  a Ready connection, and then complete credentials and usable TLS settings; `PlaceInv`
  that every entity is on the firewall of some connection spec. With `SameFirewall` the client therefore
  reaches every recorded entity (`KnownThere`), so the answer "not found" means gone; then
  `DeletionInv` and `PathInv` carry the refinement as in the other controllers. What the
  connection controller, its timers, users and Secrets do is a stutter (`OthersKeep`); the
  restart of the process too.

The inductive invariants (`IInv` in `FirewallRuleTruth`, `OperatorProofs` and `AliasTruth`)
were checked with TLC on the instances of `ready`, `operator_secrets` and `alias_own` before
they were proved.

Model-checked only: the liveness properties `DeletionCompletes`, `Converges`,
`AmbiguityReported`, `ReadyTracks` and `Settles` (fairness and ENABLED are beyond the
prover). The violations are counterexamples and need no proof.

## 7. Where the code and its documentation disagree

1. **Ready but not in force** (`running`). The create or the update succeeds, the
   apply fails or the process dies; the retry reads the staged rule, finds no
   difference and reports "FirewallRule is in sync with OPNsense" without
   applying. The documentation requires an apply after every change
   (`docs/opnsense-filter-api-spec.md:220`). `ReadyIsTruthful`, which is about the
   configuration, does hold.
2. **Orphaned rule** (`orphan`). The UUID is recorded by the last call of a
   reconcile. A resource deleted before that (failed apply, lost reply, conflict,
   crash) is released without a search, and its rule stays.

Further configurations show disagreements of the same kind; TLC finds each of
these properties violated:

| configuration | property | what it shows |
|---|---|---|
| `MCFirewallRule_overlap` | `NoSharedRule` | the search phrase `default/a` also matches `[opnsense-operator:default/ab]`; a single hit is adopted, rewritten and eventually deleted |
| `MCFirewallRule_off` | `SpecIsTheUsers` | `enabled: false` becomes true when the finalizer is added, and a rule created as disabled is switched on |
| `MCAlias_unapplied` | `ReadyMeansRunning` | as 1, for aliases (`alias_controller.go:136`) |
| `MCAlias_renamed` | `ReadyIsTruthful` | `aliasNeedsUpdate` does not compare names: after `spec.name` changed the alias keeps its old one and the resource is Ready |
| `MCAlias_described` | `ReadyIsTruthful` | a description that is removed is left out of the request (`omitempty`) and stays on the firewall |
| `MCAlias_rivals` | `ReadyIsTruthful` | two resources with one alias name overwrite each other and are both Ready |
| `MCOperator_moved` | `Implements` | after the connection moved to another firewall the entity stays on the old one and the resource is released |
| `MCOperator_unvalidated` | `OnlyValidatedUsed` | the Ready condition of a connection is used without comparing its generation |
| `MCOPNsenseClient_errors` | `AbsentMeansAbsent` | a failure in the body of a search reply has no rows and is taken for no hits |

## 8. Not modelled

- Reason, message and observedGeneration of the condition (wording; the status's
  own observedGeneration is modelled). One effect of the wording is on timing: a
  failure whose message differs each time changes the object, and its watch event
  queues it at once, whatever the backoff. In the models a retry may always be at once.
- The text of descriptions and suffixes; hand-made rules or user descriptions that
  contain another resource's phrase; the 255 character limit. The fields of a rule
  other than suffix, `enabled` and sequence are one value, likewise type and
  entries of an alias.
- Requests for aliases served after their caller gave up (for rules they are); an
  administrator who renames an alias.
- The controllers of rules and aliases at once: they share nothing but the
  connections, and `Apply` and `Reconfigure` publish different things.
- Leader election and two managers at once, more than one worker per controller.
- The transports that `buildHTTPClient` makes for each reconcile and nobody closes;
  timeouts, which the HTTP clients do not have.
- An informer that skips back in time, finalizers of other controllers, users who
  remove the finalizer by hand, the generation increment on deletion.
- Flags, metrics, probes and TLS options of `cmd/main.go`: start-up configuration.
- Generated code, manifests, charts, CI and test code: no behaviour of their own.

## 9. Running

    tlasany FirewallRule.tla
    tlc -workers 2 -config MCFirewallRule_admin.cfg MCFirewallRule
    tlapm FirewallRuleTruth.tla
    tlapm OperatorProofs.tla

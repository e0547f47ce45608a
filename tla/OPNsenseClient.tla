--------------------------- MODULE OPNsenseClient ---------------------------
(***************************************************************************)
(* What the methods of internal/opnsense/client.go make of a reply.        *)
(*                                                                         *)
(* The other modules let a call end in an outcome: done, found, absent,    *)
(* many, invalid, or an error.  Here a reply is an HTTP status class and a *)
(* JSON value, and each method turns it into an outcome as its code does.  *)
(* OPNsense answers as documented; something between the two may answer in *)
(* its place, whether or not the request was served.                       *)
(***************************************************************************)
EXTENDS Integers

CONSTANT Disturbances  \* bodies of answers that are not OPNsense's

RuleMethods == {"GetRule", "SearchRuleByManagedSuffix", "CreateRule", "UpdateRule",
                "DeleteRule", "ApplyFirewallRules"}
AliasMethods == {"GetAlias", "GetAliasUUIDByName", "CreateAlias", "UpdateAlias",
                 "DeleteAlias", "ReconfigureAliases"}
Methods == RuleMethods \union AliasMethods \union {"CheckConnectivity"}
Writes == {"CreateRule", "UpdateRule", "DeleteRule", "ApplyFirewallRules",
           "CreateAlias", "UpdateAlias", "DeleteAlias", "ReconfigureAliases"}

\* A body is text that is no JSON, null, an array (its length) or an object.
Text == [json |-> "text"]
Null == [json |-> "null"]
Array(n) == [json |-> "array", length |-> n]
Object(fields) == [json |-> "object", fields |-> fields]

VARIABLES
  pc,        \* idle, sent, replied or done
  method,    \* the call in progress
  world,     \* what the firewall has and would say to the payload
  served,    \* whether the request reached OPNsense and was carried out
  reply,     \* [code, body]
  outcome    \* what the caller sees

vars == <<pc, method, world, served, reply, outcome>>

\* hits counts the rules that match the search phrase.
Worlds == [present: BOOLEAN, valid: BOOLEAN, hits: 0..2]

----------------------------------------------------------------------------
\* Decoding.  json.Unmarshal into a struct takes objects and null; what an object
\* does not have is left empty.

Decodes(body) == body.json \in {"object", "null"}

Has(body, key) == body.json = "object" /\ key \in DOMAIN body.fields
Field(body, key) == IF Has(body, key) THEN body.fields[key] ELSE ""

\* Nobody but OPNsense confirms a write in OPNsense's words.
ASSUME DisturbancesAssumption ==
  \A body \in Disturbances :
    /\ Field(body, "result") \notin {"saved", "deleted"}
    /\ Field(body, "status") \notin {"ok", "OK", "OK\n\n"}

\* resultResponse.resultError
ResultError(body, expected) ==
  CASE Field(body, "result") = "failed" -> "invalid"
    [] Field(body, "result") = expected -> "done"
    [] OTHER -> "error"

\* strings.TrimSpace on the statuses that occur.
TrimSpace(s) == IF s = "OK\n\n" THEN "OK" ELSE s

\* CreateRule and CreateAlias
Created(body) ==
  IF ResultError(body, "saved") = "done" /\ Field(body, "uuid") = "" THEN "error"
  ELSE ResultError(body, "saved")

\* Slip: a failure without validations is taken for a rejected payload.
UpdatedOrInvalid(body) == ResultError(body, "saved")

\* UpdateRule and UpdateAlias: a failure without any validations is an unknown UUID.
Updated(body) ==
  IF Field(body, "result") = "failed" /\ Field(body, "validations") \in {"", "empty"}
  THEN "absent"
  ELSE ResultError(body, "saved")

\* Slip: whatever is neither "not found" nor "failed" counts as deleted.
DeletedUnlessFailed(body) ==
  CASE Field(body, "result") = "not found" -> "absent"
    [] Field(body, "result") = "failed" -> "error"
    [] OTHER -> "done"

DeletedRule(body) ==
  CASE Field(body, "result") = "not found" -> "absent"
    [] Field(body, "result") = "deleted" -> "done"
    [] OTHER -> "error"

DeletedAlias(body) ==
  IF Field(body, "result") = "not found" THEN "absent" ELSE ResultError(body, "deleted")

Applied(body) == IF TrimSpace(Field(body, "status")) = "OK" THEN "done" ELSE "error"
Reconfigured(body) == IF Field(body, "status") = "ok" THEN "done" ELSE "error"

\* Rows that are not there are no rows.
Searched(body) ==
  LET rows == IF Has(body, "rows") THEN body.fields.rows ELSE 0
  IN CASE rows = 0 -> "absent" [] rows = 1 -> "found" [] OTHER -> "many"

GotRule(body) == IF Field(body, "rule") = "" THEN "error" ELSE "found"

GotAliasUUID(body) == IF Field(body, "uuid") = "" THEN "error" ELSE "found"

\* The export lists aliases by UUID; an empty list means there is none.
GotAlias(body) ==
  CASE Field(body, "aliases") = "empty" -> "absent"
    [] Field(body, "aliases") = "requested" -> "found"
    [] OTHER -> "error"

Decoded(m, body) ==
  IF body.json = "array" /\ (m = "GetRule" \/ (m = "GetAliasUUIDByName" /\ body.length = 0))
  THEN "absent"
  ELSE IF ~ Decodes(body)
  THEN "error"
  ELSE CASE m \in {"CreateRule", "CreateAlias"} -> Created(body)
         [] m \in {"UpdateRule", "UpdateAlias"} -> Updated(body)
         [] m = "DeleteRule" -> DeletedRule(body)
         [] m = "DeleteAlias" -> DeletedAlias(body)
         [] m = "ApplyFirewallRules" -> Applied(body)
         [] m = "ReconfigureAliases" -> Reconfigured(body)
         [] m = "SearchRuleByManagedSuffix" -> Searched(body)
         [] m = "GetRule" -> GotRule(body)
         [] m = "GetAlias" -> GotAlias(body)
         [] m = "GetAliasUUIDByName" -> GotAliasUUID(body)
         [] m = "CheckConnectivity" -> "done"

----------------------------------------------------------------------------
\* OPNsense, as documented (external).

Failed == Object([result |-> "failed"])
Invalid == Object([result |-> "failed", validations |-> "messages"])
Result(r) == Object([result |-> r])

Documented(m, w) ==
  CASE m = "GetRule" -> IF w.present THEN Object([rule |-> "model"]) ELSE Array(0)
    [] m = "SearchRuleByManagedSuffix" -> Object([rows |-> w.hits])
    [] m \in {"CreateRule", "CreateAlias"} ->
         IF w.valid THEN Object([result |-> "saved", uuid |-> "new"]) ELSE Invalid
    [] m \in {"UpdateRule", "UpdateAlias"} ->
         IF ~ w.present THEN Failed ELSE IF w.valid THEN Result("saved") ELSE Invalid
    [] m \in {"DeleteRule", "DeleteAlias"} ->
         Result(IF w.present THEN "deleted" ELSE "not found")
    [] m = "ApplyFirewallRules" -> Object([status |-> "OK\n\n"])
    [] m = "ReconfigureAliases" -> Object([status |-> "ok"])
    [] m = "GetAliasUUIDByName" -> IF w.present THEN Object([uuid |-> "known"]) ELSE Array(0)
    [] m = "GetAlias" -> Object([aliases |-> IF w.present THEN "requested" ELSE "empty"])
    [] m = "CheckConnectivity" -> Object([metadata |-> "system"])

\* The outcome the modules of the controllers give to a call that is served.
Promised(m, w) ==
  CASE m \in {"GetRule", "GetAlias", "GetAliasUUIDByName"} ->
         IF w.present THEN "found" ELSE "absent"
    [] m = "SearchRuleByManagedSuffix" ->
         CASE w.hits = 0 -> "absent" [] w.hits = 1 -> "found" [] OTHER -> "many"
    [] m \in {"CreateRule", "CreateAlias"} -> IF w.valid THEN "done" ELSE "invalid"
    [] m \in {"UpdateRule", "UpdateAlias"} ->
         IF ~ w.present THEN "absent" ELSE IF w.valid THEN "done" ELSE "invalid"
    [] m \in {"DeleteRule", "DeleteAlias"} -> IF w.present THEN "done" ELSE "absent"
    [] m \in {"ApplyFirewallRules", "ReconfigureAliases", "CheckConnectivity"} -> "done"

----------------------------------------------------------------------------
Init ==
  /\ pc = "idle"
  /\ method = "CheckConnectivity"
  /\ world = [present |-> FALSE, valid |-> FALSE, hits |-> 0]
  /\ served = FALSE
  /\ reply = [code |-> "none", body |-> Null]
  /\ outcome = "none"

Send(m, w) ==
  /\ pc = "idle"
  /\ pc' = "sent"
  /\ method' = m
  /\ world' = w
  /\ UNCHANGED <<served, reply, outcome>>

Answered(code, body, done) ==
  /\ pc = "sent"
  /\ pc' = "replied"
  /\ reply' = [code |-> code, body |-> body]
  /\ served' = done
  /\ UNCHANGED <<method, world, outcome>>

OPNsenseAnswers ==
  Answered("2xx", Documented(method, world), Promised(method, world) = "done")

\* 401 for bad credentials; nothing is carried out.
OPNsenseRefuses == Answered("4xx", Object([status |-> "failed"]), FALSE)

\* No connection, a broken one, or somebody else's answer, before or after
\* OPNsense carried the request out.
Disturbed ==
  \E done \in {FALSE, Promised(method, world) = "done"} :
    \/ Answered("none", Null, done)
    \/ \E code \in {"2xx", "5xx"}, body \in Disturbances : Answered(code, body, done)

\* doJSON: any status outside 2xx is an error, whatever the body says.
DoJSON ==
  /\ pc = "replied"
  /\ pc' = "done"
  /\ outcome' = IF reply.code = "2xx" THEN Decoded(method, reply.body) ELSE "error"
  /\ UNCHANGED <<method, world, served, reply>>

NextCall == pc = "done" /\ pc' = "idle" /\ UNCHANGED <<method, world, served, reply, outcome>>

Next ==
  \/ \E m \in Methods, w \in Worlds : Send(m, w)
  \/ OPNsenseAnswers \/ OPNsenseRefuses \/ Disturbed
  \/ DoJSON
  \/ NextCall

Spec == Init /\ [][Next]_vars

----------------------------------------------------------------------------
\* Properties.

\* Every documented reply is given the meaning the controllers rely on, although
\* OPNsense words the same event differently from endpoint to endpoint: nothing
\* there is [] or an empty export or "not found" or a failure without reasons.
DocumentedUnderstood ==
  pc = "done" /\ reply = [code |-> "2xx", body |-> Documented(method, world)] =>
    outcome = Promised(method, world)

\* A write is reported as done only if OPNsense carried it out: no answer of
\* anybody else, no empty one and no failure passes for a success, so a recorded
\* UUID and Ready rest on something that happened.  (A finalizer is also removed
\* after a deletion that was answered with "not found", of which this says nothing.)
SuccessMeansServed ==
  pc = "done" /\ method \in Writes /\ outcome = "done" => served

\* docs/opnsense-filter-api-spec.md: "HTTP status is always 200 for all outcomes",
\* so "detect errors entirely from the response body": a search that did not
\* return rows is not taken for a search that found none.
AbsentMeansAbsent ==
  pc = "done" /\ outcome = "absent" /\ method = "SearchRuleByManagedSuffix" =>
    world.hits = 0
=============================================================================

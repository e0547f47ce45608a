------------------------ MODULE OPNsenseClientProofs ------------------------
(***************************************************************************)
(* Theorems about OPNsenseClient, whatever may answer in OPNsense's place  *)
(* as long as it does not confirm writes in OPNsense's words: documented   *)
(* replies are understood, and a write is done if the caller is told so.   *)
(***************************************************************************)
EXTENDS OPNsenseClient, TLAPS

----------------------------------------------------------------------------
\* Decoding.

\* What OPNsense says is what the callers are told.
LEMMA UnderstoodReply ==
  ASSUME NEW m \in Methods, NEW w \in Worlds
  PROVE  Decoded(m, Documented(m, w)) = Promised(m, w)
<1> USE DEF Decoded, Decodes, Documented, Promised, Object, Array, Field, Has, Worlds
<1>1. CASE m \in {"GetRule", "GetAlias", "GetAliasUUIDByName", "CheckConnectivity"}
  BY <1>1 DEF GotRule, GotAlias, GotAliasUUID
<1>2. CASE m = "SearchRuleByManagedSuffix"
  BY <1>2 DEF Searched
<1>3. CASE m \in {"CreateRule", "CreateAlias"}
  BY <1>3 DEF Created, ResultError, Invalid
<1>4. CASE m \in {"UpdateRule", "UpdateAlias"}
  BY <1>4 DEF Updated, ResultError, Invalid, Failed, Result
<1>5. CASE m = "DeleteRule"
  BY <1>5 DEF DeletedRule, Result
<1>6. CASE m = "DeleteAlias"
  BY <1>6 DEF DeletedAlias, ResultError, Result
<1>7. CASE m \in {"ApplyFirewallRules", "ReconfigureAliases"}
  BY <1>7 DEF Applied, TrimSpace, Reconfigured
<1> QED
  BY <1>1, <1>2, <1>3, <1>4, <1>5, <1>6, <1>7 DEF Methods, RuleMethods, AliasMethods

\* No other body passes for the confirmation of a write.
LEMMA NoFalseSuccess ==
  ASSUME NEW m \in Writes, NEW body \in Disturbances
  PROVE  Decoded(m, body) # "done"
<1>1. /\ Field(body, "result") # "saved" /\ Field(body, "result") # "deleted"
      /\ Field(body, "status") \notin {"ok", "OK", "OK\n\n"}
  BY DisturbancesAssumption
<1>2. /\ ResultError(body, "saved") # "done" /\ ResultError(body, "deleted") # "done"
  BY <1>1 DEF ResultError
<1>3. /\ Created(body) # "done" /\ Updated(body) # "done"
      /\ DeletedRule(body) # "done" /\ DeletedAlias(body) # "done"
  BY <1>1, <1>2 DEF Created, Updated, DeletedRule, DeletedAlias
<1>4. Applied(body) # "done" /\ Reconfigured(body) # "done"
  BY <1>1 DEF Applied, Reconfigured, TrimSpace
<1> QED
  BY <1>3, <1>4 DEF Decoded, Writes

----------------------------------------------------------------------------
\* A call.

\* A reply that will be taken for the success of a write confirms one that was
\* served, and the caller is told what the reply decodes to.
ReplyInv ==
  /\ method \in Methods /\ world \in Worlds
  /\ pc \in {"replied", "done"} /\ reply.code = "2xx" /\ method \in Writes
       /\ Decoded(method, reply.body) = "done" => served
  /\ pc = "done" =>
       outcome = IF reply.code = "2xx" THEN Decoded(method, reply.body) ELSE "error"

LEMMA ReplyInit == Init => ReplyInv
  BY DEF Init, ReplyInv, Methods, Worlds

LEMMA ReplyNext == ReplyInv /\ [Next]_vars => ReplyInv'
<1> SUFFICES ASSUME ReplyInv, [Next]_vars PROVE ReplyInv'
  OBVIOUS
<1>1. ASSUME NEW m \in Methods, NEW w \in Worlds, Send(m, w) PROVE ReplyInv'
  BY <1>1 DEF Send, ReplyInv
<1>2. ASSUME NEW code, NEW body, NEW done, Answered(code, body, done),
             code = "2xx" /\ method \in Writes /\ Decoded(method, body) = "done" => done
      PROVE  ReplyInv'
  <2>1. reply'.code = code /\ reply'.body = body /\ pc' = "replied" /\ served' = done
        /\ UNCHANGED <<method, world>>
    BY <1>2 DEF Answered
  <2> QED
    BY <1>2, <2>1 DEF ReplyInv
<1>3. CASE OPNsenseAnswers
  <2>1. Decoded(method, Documented(method, world)) = Promised(method, world)
    BY UnderstoodReply DEF ReplyInv
  <2> QED
    BY <1>2, <1>3, <2>1 DEF OPNsenseAnswers
<1>4. CASE OPNsenseRefuses
  BY <1>2, <1>4 DEF OPNsenseRefuses
<1>5. CASE Disturbed
  BY <1>2, <1>5, NoFalseSuccess DEF Disturbed
<1>6. CASE DoJSON
  BY <1>6 DEF DoJSON, ReplyInv
<1>7. CASE NextCall \/ UNCHANGED vars
  BY <1>7 DEF NextCall, vars, ReplyInv
<1> QED
  BY <1>1, <1>3, <1>4, <1>5, <1>6, <1>7 DEF Next

\* Every documented reply gets the meaning the controllers rely on.
THEOREM DocumentedCorrect == Spec => []DocumentedUnderstood
<1>1. ReplyInv => DocumentedUnderstood
  BY UnderstoodReply DEF ReplyInv, DocumentedUnderstood
<1> QED
  BY <1>1, ReplyInit, ReplyNext, PTL DEF Spec

\* A write is reported as done only if OPNsense carried it out.
THEOREM SuccessCorrect == Spec => []SuccessMeansServed
<1>1. ReplyInv => SuccessMeansServed
  BY DEF ReplyInv, SuccessMeansServed
<1> QED
  BY <1>1, ReplyInit, ReplyNext, PTL DEF Spec
=============================================================================

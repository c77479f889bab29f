---------------------------- MODULE AdminRequests ----------------------------
(***************************************************************************)
(* The path of a request through the admin server (adminapi/server.go,     *)
(* cas.go): the generated wrapper parses the parameters, then the          *)
(* middlewares run from the outside in, the handler answers, and they      *)
(* finish from the inside out.  The audit record is written on the way     *)
(* out, the per-app lock is held from the If-Match check until the way     *)
(* out.  AdminApi models the handlers; here a handler changes the app's    *)
(* version or not, and succeeds or answers with an error of its own (500). *)
(*                                                                         *)
(* One app.  A request is what the layers look at: whether its method      *)
(* mutates, whether casApplies, whether the path is public, whether the    *)
(* parameters parse, whether the token is right, and its If-Match.         *)
(***************************************************************************)
EXTENDS Integers, Sequences

CONSTANTS
  ApiRequests,  \* requests
  ApiVersions,  \* bound on the app's resource version
  ApiDeaths     \* bound: the daemon ends

ASSUME RequestsAssumption == ApiVersions \in Nat \ {0} /\ ApiDeaths \in Nat

VARIABLES
  api,       \* each request: where it is and how it was answered
  apiLock,   \* AppLock(id)
  version,   \* the app's resource version
  trail,     \* history: the audit records, <<request, status>>
  changed,   \* history: the requests that changed something
  apiDeaths

requestVars == <<api, apiLock, version, trail, changed, apiDeaths>>

NoOne == 0
Kinds == [mutating : BOOLEAN, cas : BOOLEAN, public : BOOLEAN, parses : BOOLEAN, token : BOOLEAN,
          match : 0 .. ApiVersions]
\* Only mutating methods are subject to If-Match; the public path is a GET.
Requests == {k \in Kinds : (k.cas => k.mutating) /\ (k.public => ~k.mutating) /\ (k.match > 0 => k.cas)}
NewRequest == [pc |-> "new", kind |-> CHOOSE k \in Requests : TRUE, layer |-> 0, status |-> 0]

\* The requests, the lock and the version have their types.
RequestsTypeOK ==
  /\ apiLock \in ApiRequests \cup {NoOne}
  /\ version \in 1 .. ApiVersions
  /\ \A r \in ApiRequests : /\ api[r].pc \in {"new", "in", "out", "done", "cut"}
                            /\ api[r].kind \in Requests
                            /\ api[r].status \in {0, 200, 400, 401, 412, 500}

\* faulty: the order of the slice, which the generated router reverses
Middlewares_SliceOrder == <<"cas", "auth", "audit", "handler">>

\* From the outside in.
Middlewares == <<"audit", "auth", "cas", "handler">>

Move(r, pc, layer, status) ==
  api' = [api EXCEPT ![r] = [pc |-> pc, kind |-> @.kind, layer |-> layer, status |-> status]]
Answer(r, status) == Move(r, "out", api[r].layer - 1, status)
Inward(r) == Move(r, "in", api[r].layer + 1, api[r].status)
At(r, pc, name) == api[r].pc = pc /\ api[r].layer > 0 /\ Middlewares[api[r].layer] = name

checkBearer(k) == k.token

\* The wrapper: parameters that do not parse never reach the middlewares.
Arrives(r, k) ==
  /\ api[r].pc = "new"
  /\ k.parses
  /\ api' = [api EXCEPT ![r] = [pc |-> "in", kind |-> k, layer |-> 1, status |-> 0]]
  /\ UNCHANGED <<apiLock, version, trail, changed, apiDeaths>>

emitAuditOnEarlyError(r, k, status) ==
  trail' = IF k.mutating THEN Append(trail, <<r, status>>) ELSE trail

handleParamError(r, k) ==
  LET status == IF checkBearer(k) THEN 400 ELSE 401
  IN  /\ api[r].pc = "new"
      /\ ~k.parses
      /\ emitAuditOnEarlyError(r, k, status)
      /\ api' = [api EXCEPT ![r] = [pc |-> "done", kind |-> k, layer |-> 0, status |-> status]]
      /\ UNCHANGED <<apiLock, version, changed, apiDeaths>>

auditMiddleware(r) ==
  /\ At(r, "in", "audit")
  /\ Inward(r)
  /\ UNCHANGED <<apiLock, version, trail, changed, apiDeaths>>

authMiddleware(r) ==
  /\ At(r, "in", "auth")
  /\ IF api[r].kind.public \/ checkBearer(api[r].kind) THEN Inward(r) ELSE Answer(r, 401)
  /\ UNCHANGED <<apiLock, version, trail, changed, apiDeaths>>

\* The lock is taken before If-Match is looked at, also without If-Match.
casMiddleware(r) ==
  LET k == api[r].kind
  IN  /\ At(r, "in", "cas")
      /\ k.cas => apiLock = NoOne
      /\ apiLock' = IF k.cas THEN r ELSE apiLock
      /\ IF k.cas /\ k.match # 0 /\ k.match # version
         THEN \* the answer unwinds through this layer, which holds the lock
              Move(r, "out", api[r].layer, 412)
         ELSE Inward(r)
      /\ UNCHANGED <<version, trail, changed, apiDeaths>>

Handler(r) ==
  /\ At(r, "in", "handler")
  /\ \/ /\ ~api[r].kind.mutating
        /\ Answer(r, 200)
        /\ UNCHANGED <<version, changed>>
     \/ /\ api[r].kind.mutating
        /\ version < ApiVersions
        /\ version' = version + 1
        /\ changed' = changed \cup {r}
        /\ \E status \in {200, 500} : Answer(r, status)
     \/ Answer(r, 500) /\ UNCHANGED <<version, changed>>
  /\ UNCHANGED <<apiLock, trail, apiDeaths>>

\* On the way out: the deferred unlock, the audit record, nothing for auth.
Unwind(r) ==
  /\ api[r].pc = "out"
  /\ api[r].layer > 0
  /\ apiLock' = IF At(r, "out", "cas") /\ apiLock = r THEN NoOne ELSE apiLock
  /\ trail' = IF At(r, "out", "audit") /\ api[r].kind.mutating
              THEN Append(trail, <<r, api[r].status>>) ELSE trail
  /\ Move(r, "out", api[r].layer - 1, api[r].status)
  /\ UNCHANGED <<version, changed, apiDeaths>>

Finished(r) ==
  /\ api[r].pc = "out"
  /\ api[r].layer = 0
  /\ Move(r, "done", 0, api[r].status)
  /\ UNCHANGED <<apiLock, version, trail, changed, apiDeaths>>

\* The daemon ends: requests under way are cut off.
ServerDies ==
  /\ apiDeaths < ApiDeaths
  /\ apiDeaths' = apiDeaths + 1
  /\ api' = [r \in ApiRequests |-> IF api[r].pc \in {"in", "out"} THEN [api[r] EXCEPT !.pc = "cut"] ELSE api[r]]
  /\ apiLock' = NoOne
  /\ UNCHANGED <<version, trail, changed>>

RequestsInit ==
  /\ api = [r \in ApiRequests |-> NewRequest]
  /\ apiLock = NoOne
  /\ version = 1
  /\ trail = <<>>
  /\ changed = {}
  /\ apiDeaths = 0

RequestsNext ==
  \/ \E r \in ApiRequests :
       \/ \E k \in Requests : Arrives(r, k) \/ handleParamError(r, k)
       \/ auditMiddleware(r) \/ authMiddleware(r) \/ casMiddleware(r) \/ Handler(r)
       \/ Unwind(r) \/ Finished(r)
  \/ ServerDies

RequestsSpec == RequestsInit /\ [][RequestsNext]_requestVars

(***************************************************************************)
(* "Audit wraps the whole stack so it observes the final status": a        *)
(* mutating request that has been dealt with has exactly one record, with  *)
(* the status it was answered with, whichever layer answered it; and       *)
(* whatever was changed was changed by a request with the right token that *)
(* has its record, is still under way, or was cut off.                     *)
(***************************************************************************)
RequestsAreAudited ==
  \A r \in ApiRequests :
    LET records == {n \in DOMAIN trail : trail[n][1] = r}
    IN  /\ api[r].pc = "done" =>
             IF api[r].kind.mutating
             THEN \E n \in records : records = {n} /\ trail[n][2] = api[r].status
             ELSE records = {}
        /\ r \in changed =>
             /\ api[r].kind.token
             /\ api[r].status \notin {400, 401, 412}
             /\ records # {} \/ api[r].pc \in {"out", "cut"}
=============================================================================

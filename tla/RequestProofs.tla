--------------------------- MODULE RequestProofs ----------------------------
(***************************************************************************)
(* Proofs about requests to the daemon, for every number of them at a      *)
(* time: what the middleware makes of a request (AdminRequests), and what  *)
(* a GET of an app reports of its conditions (AppConditions).              *)
(*                                                                         *)
(* RequestsInv ties each request to its record in the audit trail and to   *)
(* what entitled it to a change. ConditionsInv ties the anchor of the      *)
(* deadline and the tracked times to the observations made so far.         *)
(***************************************************************************)
EXTENDS AdminRequests, AppConditions, TLAPS

-----------------------------------------------------------------------------
(* AdminRequests *)

\* The statuses of an answer (0 is none yet), and the ones the middleware answers
\* in the place of the handler.
Statuses == {0, 200, 400, 401, 412, 500}
Refusals == {400, 401, 412}

\* A request on its way through the middleware.
RequestRecord ==
  [pc : {"new", "in", "out", "done", "cut"}, kind : Requests, layer : 0 .. 4,
   status : Statuses]

\* The trail has no record of request r.
NoRecord(r) == \A n \in DOMAIN trail : trail[n][1] # r

\* The trail has one record of request r, with status s.
OneRecord(r, s) ==
  \E n \in DOMAIN trail : /\ trail[n][1] = r /\ trail[n][2] = s
                          /\ \A m \in DOMAIN trail : trail[m][1] = r => m = n

\* A request that has passed the audit layer on its way out has its record, and
\* before that none.
Recorded(r, x) ==
  IF x.pc = "done" \/ (x.pc = "out" /\ x.layer = 0)
  THEN IF x.kind.mutating THEN OneRecord(r, x.status) ELSE NoRecord(r)
  ELSE x.pc # "cut" => NoRecord(r)

\* Whoever got past the auth layer may, and who changed something did.
Entitled(r, x) ==
  /\ x.pc = "in" => x.layer > 0 /\ r \notin changed
  /\ x.pc = "in" /\ x.layer > 2 => x.kind.public \/ x.kind.token
  /\ x.pc = "new" => r \notin changed
  /\ r \in changed => x.kind.mutating /\ x.kind.token /\ x.status \notin Refusals

\* The inductive invariant of AdminRequests.
RequestsInv ==
  /\ api \in [ApiRequests -> RequestRecord]
  /\ apiLock \in ApiRequests \cup {NoOne}
  /\ version \in 1 .. ApiVersions
  /\ trail \in Seq(ApiRequests \X Statuses)
  /\ \A r \in ApiRequests : Recorded(r, api[r]) /\ Entitled(r, api[r])

\* A new record is of the request that it names and of no other.
LEMMA RecordAdded ==
  ASSUME RequestsInv, NEW r \in ApiRequests, NEW s \in Statuses,
         trail' = Append(trail, <<r, s>>)
  PROVE  /\ trail' \in Seq(ApiRequests \X Statuses)
         /\ NoRecord(r) => OneRecord(r, s)'
         /\ \A q \in ApiRequests \ {r} : NoRecord(q) => NoRecord(q)'
         /\ \A q \in ApiRequests \ {r} : \A t : OneRecord(q, t) => OneRecord(q, t)'
<1> DEFINE n == Len(trail)
           S == ApiRequests \X Statuses
<1>1. trail \in Seq(S) /\ <<r, s>> \in S
  BY DEF RequestsInv
<1>2. /\ n \in Nat /\ DOMAIN trail = 1 .. n /\ DOMAIN trail' = 1 .. (n + 1)
      /\ trail' \in Seq(S)
      /\ trail'[n + 1] = <<r, s>>
      /\ \A k \in 1 .. n : trail'[k] = trail[k]
  <2> HIDE DEF S
  <2> QED BY <1>1
<1>3. trail'[n + 1][1] = r /\ trail'[n + 1][2] = s
  BY <1>2
<1>4. \A k \in 1 .. (n + 1) : k \in 1 .. n \/ k = n + 1
  BY <1>2
<1>5. NoRecord(r) => OneRecord(r, s)'
  BY <1>2, <1>3, <1>4 DEF NoRecord, OneRecord
<1>6. ASSUME NEW q \in ApiRequests \ {r}, NoRecord(q)
      PROVE  NoRecord(q)'
  BY <1>2, <1>3, <1>4, <1>6 DEF NoRecord
<1>7. ASSUME NEW q \in ApiRequests \ {r}, NEW t, OneRecord(q, t)
      PROVE  OneRecord(q, t)'
  BY <1>2, <1>3, <1>4, <1>7 DEF OneRecord
<1> QED
  BY <1>2, <1>5, <1>6, <1>7

\* A step of request r leaves the others as they are.
LEMMA RequestMoves ==
  ASSUME RequestsInv, NEW r \in ApiRequests,
         api' \in [ApiRequests -> RequestRecord], \A q \in ApiRequests : q # r => api'[q] = api[q],
         apiLock' \in ApiRequests \cup {NoOne}, version' \in 1 .. ApiVersions,
         changed' = changed \/ changed' = changed \cup {r}, Entitled(r, api[r])', Recorded(r, api[r])',
         trail' = trail \/ \E s \in Statuses : trail' = Append(trail, <<r, s>>)
  PROVE  RequestsInv'
<1>2. trail' \in Seq(ApiRequests \X Statuses)
  BY RecordAdded DEF RequestsInv
<1>3. ASSUME NEW q \in ApiRequests, q # r
      PROVE  (Recorded(q, api[q]) /\ Entitled(q, api[q]))'
  <2>1. Recorded(q, api[q]) /\ Entitled(q, api[q]) /\ api'[q] = api[q]
    BY <1>3, Zenon DEF RequestsInv
  <2>0. q \in changed' <=> q \in changed
    BY <1>3
  <2>2. Entitled(q, api[q])'
    BY <2>0, <2>1 DEF Entitled
  <2>3. (NoRecord(q) => NoRecord(q)') /\ \A t : OneRecord(q, t) => OneRecord(q, t)'
    <3>1. CASE trail' = trail
      <4>1. NoRecord(q) => NoRecord(q)'
        BY <3>1, Zenon DEF NoRecord
      <4>2. ASSUME NEW t, OneRecord(q, t)
            PROVE  OneRecord(q, t)'
        BY <3>1, <4>2, Zenon DEF OneRecord
      <4> QED BY <4>1, <4>2, Zenon
    <3>2. CASE \E s \in Statuses : trail' = Append(trail, <<r, s>>)
      <4>1. q \in ApiRequests \ {r}
        BY <1>3
      <4>2. PICK s \in Statuses : trail' = Append(trail, <<r, s>>)
        BY <3>2, Zenon
      <4> QED BY <4>1, <4>2, RecordAdded
    <3> QED BY <3>1, <3>2
  <2>4. Recorded(q, api[q])'
    BY <2>1, <2>3, Zenon DEF Recorded
  <2> QED BY <2>2, <2>4
<1>4. \A q \in ApiRequests : (Recorded(q, api[q]) /\ Entitled(q, api[q]))'
  BY <1>3, Zenon
<1> QED
  BY <1>2, <1>4, Zenon DEF RequestsInv

\* Where the layers are, from the outside in.
LEMMA LayerNumbers ==
  ASSUME NEW r \in ApiRequests, api[r] \in RequestRecord
  PROVE  /\ \A pc : At(r, pc, "audit") <=> api[r].pc = pc /\ api[r].layer = 1
         /\ \A pc : At(r, pc, "auth") <=> api[r].pc = pc /\ api[r].layer = 2
         /\ \A pc : At(r, pc, "cas") <=> api[r].pc = pc /\ api[r].layer = 3
         /\ \A pc : At(r, pc, "handler") <=> api[r].pc = pc /\ api[r].layer = 4
<1>1. api[r].layer \in 0 .. 4
  BY DEF RequestRecord
<1>2. Middlewares[1] = "audit" /\ Middlewares[2] = "auth" /\ Middlewares[3] = "cas" /\ Middlewares[4] = "handler"
  BY DEF Middlewares
<1>3. api[r].layer = 0 \/ api[r].layer = 1 \/ api[r].layer = 2 \/ api[r].layer = 3 \/ api[r].layer = 4
  BY <1>1
<1> QED
  BY <1>2, <1>3 DEF At

\* A request starts: with the record that the wrapper writes, or on its way in.
LEMMA RequestStarts_Inv ==
  ASSUME RequestsInv, NEW r \in ApiRequests, NEW k \in Requests, Arrives(r, k) \/ handleParamError(r, k)
  PROVE  RequestsInv'
<1>0. api \in [ApiRequests -> RequestRecord] /\ Recorded(r, api[r]) /\ Entitled(r, api[r]) /\ api[r].pc = "new"
  BY DEF RequestsInv, Arrives, handleParamError
<1>1. NoRecord(r) /\ r \notin changed
  BY <1>0, Zenon DEF Recorded, Entitled
<1>2. CASE Arrives(r, k)
  <2> DEFINE x == [pc |-> "in", kind |-> k, layer |-> 1, status |-> 0]
  <2>1. x \in RequestRecord /\ x.pc = "in" /\ x.layer = 1
    BY DEF RequestRecord, Statuses
  <2>2. api' = [api EXCEPT ![r] = x] /\ UNCHANGED <<apiLock, version, trail, changed>>
    BY <1>2, Zenon DEF Arrives
  <2> HIDE DEF x
  <2>3. api' \in [ApiRequests -> RequestRecord] /\ api'[r] = x /\ \A q \in ApiRequests : q # r => api'[q] = api[q]
    BY <1>0, <2>1, <2>2
  <2>4. Entitled(r, api[r])'
    BY <1>1, <2>1, <2>2, <2>3 DEF Entitled
  <2>5. Recorded(r, api[r])'
    BY <1>1, <2>1, <2>2, <2>3, SMTT(60) DEF Recorded, NoRecord
  <2> QED BY <2>2, <2>3, <2>4, <2>5, RequestMoves DEF RequestsInv
<1>3. CASE handleParamError(r, k)
  <2> DEFINE s == IF checkBearer(k) THEN 400 ELSE 401
             x == [pc |-> "done", kind |-> k, layer |-> 0, status |-> s]
  <2>0. s \in {400, 401}
    OBVIOUS
  <2>1. x \in RequestRecord /\ x.pc = "done" /\ x.status = s /\ x.kind = k
    BY DEF RequestRecord, Statuses
  <2>2. /\ api' = [api EXCEPT ![r] = x] /\ UNCHANGED <<apiLock, version, changed>>
        /\ trail' = IF k.mutating THEN Append(trail, <<r, s>>) ELSE trail
    BY <1>3, Zenon DEF handleParamError, emitAuditOnEarlyError
  <2> HIDE DEF x, s
  <2>3. api' \in [ApiRequests -> RequestRecord] /\ api'[r] = x /\ \A q \in ApiRequests : q # r => api'[q] = api[q]
    BY <1>0, <2>1, <2>2, Zenon
  <2>4. Entitled(r, api[r])'
    BY <1>1, <2>1, <2>2, <2>3 DEF Entitled
  <2>5. Recorded(r, api[r])'
    <3>1. CASE k.mutating
      <4>1. trail' = Append(trail, <<r, s>>) /\ s \in Statuses
        BY <2>0, <2>2, <3>1 DEF Statuses
      <4>2. OneRecord(r, s)'
        BY <1>1, <4>1, RecordAdded
      <4> QED BY <2>1, <2>3, <3>1, <4>2, Zenon DEF Recorded
    <3>2. CASE ~k.mutating
      <4>1. NoRecord(r)'
        BY <1>1, <2>2, <3>2 DEF NoRecord
      <4> QED BY <2>1, <2>3, <3>2, <4>1, Zenon DEF Recorded
    <3> QED BY <3>1, <3>2
  <2>6. trail' = trail \/ \E t \in Statuses : trail' = Append(trail, <<r, t>>)
    BY <2>0, <2>2 DEF Statuses
  <2> QED BY <2>2, <2>3, <2>4, <2>5, <2>6, RequestMoves DEF RequestsInv
<1> QED
  BY <1>2, <1>3

\* The layers have moved request r: to pc p at layer l, with status s.
Moved(r, p, l, s) ==
  /\ api'[r].pc = p /\ api'[r].layer = l /\ api'[r].status = s /\ api'[r].kind = api[r].kind
  /\ api' \in [ApiRequests -> RequestRecord]
  /\ \A q \in ApiRequests : q # r => api'[q] = api[q]

\* What a step of one layer does to the request.
LEMMA LayerFields ==
  ASSUME RequestsInv, NEW r \in ApiRequests, NEW p \in {"in", "out", "done"}, NEW l \in 0 .. 4,
         NEW s \in Statuses, Move(r, p, l, s)
  PROVE  Moved(r, p, l, s)
<1>1. api \in [ApiRequests -> RequestRecord] /\ api[r].kind \in Requests
  BY DEF RequestsInv, RequestRecord
<1> DEFINE x == [pc |-> p, kind |-> api[r].kind, layer |-> l, status |-> s]
<1>2. api' = [api EXCEPT ![r] = x]
  BY Zenon DEF Move
<1>3. x \in RequestRecord /\ x.pc = p /\ x.layer = l /\ x.status = s /\ x.kind = api[r].kind
  BY <1>1 DEF RequestRecord
<1> HIDE DEF x
<1> QED
  BY <1>1, <1>2, <1>3 DEF Moved

\* A request on its way in goes one layer further, or is answered.
LEMMA GoesIn_Inv ==
  ASSUME RequestsInv, NEW r \in ApiRequests, api[r].pc = "in",
         NEW p \in {"in", "out"}, NEW l \in 1 .. 4, NEW s \in Statuses, Moved(r, p, l, s),
         apiLock' \in ApiRequests \cup {NoOne}, version' \in 1 .. ApiVersions, trail' = trail,
         p = "in" /\ l > 2 => api[r].kind.public \/ api[r].kind.token,
         changed' = changed \/ /\ changed' = changed \cup {r} /\ p = "out"
                               /\ api[r].kind.mutating /\ api[r].kind.token /\ s \notin Refusals
  PROVE  RequestsInv'
<1>0. Recorded(r, api[r]) /\ Entitled(r, api[r])
  BY Zenon DEF RequestsInv
<1>1. NoRecord(r) /\ r \notin changed
  BY <1>0, Zenon DEF Recorded, Entitled
<1>4. Entitled(r, api[r])'
  BY <1>1 DEF Entitled, Moved, Statuses, Refusals
<1>5. Recorded(r, api[r])'
  <2>1. NoRecord(r)'
    <3>1. trail' = trail
      OBVIOUS
    <3> QED BY <1>1, <3>1, Zenon DEF NoRecord
  <2>2. api'[r].layer # 0 /\ api'[r].pc # "done"
    BY DEF Moved
  <2> QED BY <2>1, <2>2, Zenon DEF Recorded
<1> QED
  BY <1>4, <1>5, RequestMoves DEF Moved

\* A layer that passes the request on or answers it keeps the invariant.
LEMMA Layers_Inv ==
  ASSUME RequestsInv, NEW r \in ApiRequests,
         auditMiddleware(r) \/ authMiddleware(r) \/ casMiddleware(r) \/ Handler(r)
  PROVE  RequestsInv'
<1>0. /\ api[r] \in RequestRecord /\ api[r].layer \in 0 .. 4 /\ api[r].status \in Statuses
      /\ apiLock \in ApiRequests \cup {NoOne} /\ version \in 1 .. ApiVersions /\ api[r].kind \in Requests
      /\ Entitled(r, api[r])
  BY DEF RequestsInv, RequestRecord
<1>1. CASE auditMiddleware(r)
  <2>1. api[r].pc = "in" /\ api[r].layer = 1 /\ UNCHANGED <<apiLock, version, trail, changed>> /\ Inward(r)
    BY <1>0, <1>1, LayerNumbers DEF auditMiddleware
  <2>2. Move(r, "in", 2, api[r].status)
    BY <2>1 DEF Inward
  <2>3. Moved(r, "in", 2, api[r].status)
    BY <1>0, <2>1, <2>2, LayerFields
  <2> QED BY <1>0, <2>1, <2>3, GoesIn_Inv
<1>2. CASE authMiddleware(r)
  <2>1. /\ api[r].pc = "in" /\ api[r].layer = 2 /\ UNCHANGED <<apiLock, version, trail, changed>>
        /\ IF api[r].kind.public \/ api[r].kind.token THEN Inward(r) ELSE Answer(r, 401)
    BY <1>0, <1>2, LayerNumbers DEF authMiddleware, checkBearer
  <2>2. CASE Inward(r) /\ (api[r].kind.public \/ api[r].kind.token)
    <3>1. Move(r, "in", 3, api[r].status)
      BY <2>1, <2>2 DEF Inward
    <3>2. Moved(r, "in", 3, api[r].status)
      BY <1>0, <2>1, <3>1, LayerFields, SMTT(60)
    <3> QED BY <1>0, <2>1, <2>2, <3>2, GoesIn_Inv, SMTT(60)
  <2>3. CASE Answer(r, 401)
    <3>1. Move(r, "out", 1, 401)
      BY <2>1, <2>3 DEF Answer
    <3>2. Moved(r, "out", 1, 401)
      BY <1>0, <2>1, <3>1, LayerFields DEF Statuses
    <3> QED BY <1>0, <2>1, <3>2, GoesIn_Inv DEF Statuses, Refusals
  <2> QED BY <2>1, <2>2, <2>3
<1>3. CASE casMiddleware(r)
  <2>1. /\ api[r].pc = "in" /\ api[r].layer = 3 /\ UNCHANGED <<version, trail, changed>>
        /\ apiLock' \in ApiRequests \cup {NoOne}
        /\ Inward(r) \/ Move(r, "out", 3, 412)
    BY <1>0, <1>3, LayerNumbers DEF casMiddleware
  <2>0. api[r].kind.public \/ api[r].kind.token
    BY <1>0, <2>1, SMTT(60) DEF Entitled
  <2>2. CASE Inward(r)
    <3>1. Move(r, "in", 4, api[r].status)
      BY <2>1, <2>2 DEF Inward
    <3>2. Moved(r, "in", 4, api[r].status)
      BY <1>0, <2>1, <3>1, LayerFields, SMTT(60)
    <3> QED BY <1>0, <2>0, <2>1, <3>2, GoesIn_Inv, SMTT(60)
  <2>3. CASE Move(r, "out", 3, 412)
    <3>2. Moved(r, "out", 3, 412)
      BY <1>0, <2>1, <2>3, LayerFields, SMTT(60) DEF Statuses
    <3> QED BY <1>0, <2>1, <3>2, GoesIn_Inv DEF Statuses, Refusals
  <2> QED BY <2>1, <2>2, <2>3, ZenonT(60)
<1>4. CASE Handler(r)
  <2>1. /\ api[r].pc = "in" /\ api[r].layer = 4 /\ UNCHANGED <<apiLock, trail>>
        /\ \/ Answer(r, 200) /\ UNCHANGED <<version, changed>>
           \/ /\ api[r].kind.mutating /\ version < ApiVersions /\ version' = version + 1
              /\ changed' = changed \cup {r} /\ \E status \in {200, 500} : Answer(r, status)
           \/ Answer(r, 500) /\ UNCHANGED <<version, changed>>
    BY <1>0, <1>4, LayerNumbers, SMTT(60) DEF Handler
  <2>2. ASSUME NEW s \in {200, 500}, Answer(r, s)
        PROVE  Moved(r, "out", 3, s)
    <3>1. Move(r, "out", 3, s)
      BY <2>1, <2>2 DEF Answer
    <3> QED BY <1>0, <2>1, <3>1, LayerFields DEF Statuses
  <2>3. api[r].kind.mutating => api[r].kind.token
    <3>1. api[r].kind.public \/ api[r].kind.token
      BY <1>0, <2>1, SMTT(60) DEF Entitled
    <3> QED BY <1>0, <3>1, Zenon DEF Requests
  <2>4. version' \in 1 .. ApiVersions
    BY <1>0, <2>1, RequestsAssumption
  <2>5. PICK s \in {200, 500} : Answer(r, s)
    BY <2>1
  <2>6. changed' = changed \/ (changed' = changed \cup {r} /\ api[r].kind.mutating)
    BY <2>1
  <2>7. apiLock' \in ApiRequests \cup {NoOne} /\ trail' = trail
    BY <1>0, <2>1
  <2> QED BY <2>1, <2>2, <2>3, <2>4, <2>5, <2>6, <2>7, GoesIn_Inv, SMTT(60) DEF Statuses, Refusals
<1> QED
  BY <1>1, <1>2, <1>3, <1>4

\* On the way out the audit layer writes the record of a mutating request.
LEMMA Unwind_Inv ==
  ASSUME RequestsInv, NEW r \in ApiRequests, Unwind(r) \/ Finished(r)
  PROVE  RequestsInv'
<1>0. /\ api[r] \in RequestRecord /\ api[r].layer \in 0 .. 4 /\ api[r].status \in Statuses
      /\ apiLock \in ApiRequests \cup {NoOne} /\ version \in 1 .. ApiVersions
      /\ Entitled(r, api[r]) /\ Recorded(r, api[r])
  BY ZenonT(60) DEF RequestsInv, RequestRecord
<1>1. CASE Finished(r)
  <2>1. /\ api[r].pc = "out" /\ api[r].layer = 0 /\ Move(r, "done", 0, api[r].status)
        /\ UNCHANGED <<apiLock, version, trail, changed>>
    BY <1>1, Zenon DEF Finished
  <2>2. Moved(r, "done", 0, api[r].status)
    BY <1>0, <2>1, LayerFields, ZenonT(60)
  <2>3. Entitled(r, api[r])'
    BY <1>0, <2>1, <2>2 DEF Entitled, Moved
  <2>4. Recorded(r, api[r])'
    <3>1. (NoRecord(r) => NoRecord(r)') /\ \A s : OneRecord(r, s) => OneRecord(r, s)'
      BY <2>1, Zenon DEF NoRecord, OneRecord
    <3>2. IF api[r].kind.mutating THEN OneRecord(r, api[r].status) ELSE NoRecord(r)
      BY <1>0, <2>1, Zenon DEF Recorded
    <3>3. api'[r].pc = "done" /\ api'[r].kind = api[r].kind /\ api'[r].status = api[r].status
      BY <2>2, Zenon DEF Moved
    <3> QED BY <3>1, <3>2, <3>3, Zenon DEF Recorded
  <2> QED BY <1>0, <2>1, <2>2, <2>3, <2>4, RequestMoves DEF Moved
<1>2. CASE Unwind(r)
  <2>1. /\ api[r].pc = "out" /\ api[r].layer > 0 /\ Move(r, "out", api[r].layer - 1, api[r].status)
        /\ UNCHANGED <<version, changed>> /\ apiLock' \in ApiRequests \cup {NoOne}
        /\ trail' = IF api[r].layer = 1 /\ api[r].kind.mutating
                    THEN Append(trail, <<r, api[r].status>>) ELSE trail
    BY <1>0, <1>2, LayerNumbers, ZenonT(60) DEF Unwind
  <2>2. Moved(r, "out", api[r].layer - 1, api[r].status)
    BY <1>0, <2>1, LayerFields, SMTT(60)
  <2>3. NoRecord(r)
    BY <1>0, <2>1, SMTT(60) DEF Recorded
  <2>4. Entitled(r, api[r])'
    BY <1>0, <2>1, <2>2, Zenon DEF Entitled, Moved
  <2>5. Recorded(r, api[r])'
    <3>1. CASE api[r].layer = 1 /\ api[r].kind.mutating
      <4>1. trail' = Append(trail, <<r, api[r].status>>)
        BY <2>1, <3>1
      <4>2. PICK s \in Statuses : s = api[r].status
        BY <1>0
      <4>3. OneRecord(r, s)'
        BY <2>3, <4>1, <4>2, RecordAdded
      <4>4. /\ api'[r].pc = "out" /\ api'[r].layer = 0 /\ api'[r].kind.mutating /\ api'[r].status = s
        BY <1>0, <2>2, <3>1, <4>2 DEF Moved
      <4> QED BY <4>3, <4>4, ZenonT(60) DEF Recorded
    <3>2. CASE ~(api[r].layer = 1 /\ api[r].kind.mutating)
      <4>1. NoRecord(r)'
        BY <2>1, <2>3, <3>2, Zenon DEF NoRecord
      <4>2. api'[r].pc = "out" /\ (api'[r].layer = 0 => ~api'[r].kind.mutating)
        BY <1>0, <2>2, <3>2, SMTT(60) DEF Moved
      <4> QED BY <4>1, <4>2, Zenon DEF Recorded
    <3> QED BY <3>1, <3>2
  <2>6. trail' = trail \/ \E s \in Statuses : trail' = Append(trail, <<r, s>>)
    BY <1>0, <2>1
  <2>7. api' \in [ApiRequests -> RequestRecord] /\ \A q \in ApiRequests : q # r => api'[q] = api[q]
    BY <2>2, Zenon DEF Moved
  <2>8. version' \in 1 .. ApiVersions /\ changed' = changed
    BY <1>0, <2>1
  <2>9. apiLock' \in ApiRequests \cup {NoOne}
    BY <2>1
  <2> QED BY <2>4, <2>5, <2>6, <2>7, <2>8, <2>9, RequestMoves, Zenon
<1> QED
  BY <1>1, <1>2

\* The daemon ends: what was under way is cut off, and claims nothing any more.
LEMMA ServerDies_Inv ==
  ASSUME RequestsInv, ServerDies
  PROVE  RequestsInv'
<1>0. api \in [ApiRequests -> RequestRecord] /\ UNCHANGED <<version, trail, changed>> /\ apiLock' = NoOne
  BY DEF RequestsInv, ServerDies
<1>1. ASSUME NEW y \in RequestRecord
      PROVE  LET z == [y EXCEPT !.pc = "cut"]
             IN  z \in RequestRecord /\ z.pc = "cut" /\ z.kind = y.kind /\ z.status = y.status
  BY DEF RequestRecord
<1>2. ASSUME NEW r \in ApiRequests
      PROVE  /\ api'[r] \in RequestRecord
             /\ api'[r] = api[r] \/ /\ api'[r].pc = "cut" /\ api'[r].kind = api[r].kind
                                    /\ api'[r].status = api[r].status
  BY <1>0, <1>1 DEF ServerDies
<1>3. api' \in [ApiRequests -> RequestRecord]
  BY <1>2, Zenon DEF ServerDies
<1>4. ASSUME NEW r \in ApiRequests
      PROVE  (Recorded(r, api[r]) /\ Entitled(r, api[r]))'
  <2>1. Recorded(r, api[r]) /\ Entitled(r, api[r])
    BY Zenon DEF RequestsInv
  <2>2. CASE api'[r] = api[r]
    <3>1. Recorded(r, api[r])'
      <4>1. (NoRecord(r) => NoRecord(r)') /\ \A t : OneRecord(r, t) => OneRecord(r, t)'
        <5>1. trail' = trail
          BY <1>0, Zenon
        <5> QED BY <5>1, Zenon DEF NoRecord, OneRecord
      <4> QED BY <2>1, <2>2, <4>1, Zenon DEF Recorded
    <3>2. Entitled(r, api[r])'
      BY <1>0, <2>1, <2>2, ZenonT(60) DEF Entitled
    <3> QED BY <3>1, <3>2
  <2>3. CASE api'[r].pc = "cut" /\ api'[r].kind = api[r].kind /\ api'[r].status = api[r].status
    BY <1>0, <2>1, <2>3, Zenon DEF Recorded, Entitled
  <2> QED BY <1>2, <2>2, <2>3, Zenon
<1> QED
  BY <1>0, <1>3, <1>4 DEF RequestsInv

\* The invariant holds before the first request.
LEMMA RequestsInit_Inv == RequestsInit => RequestsInv
<1> SUFFICES ASSUME RequestsInit
             PROVE  RequestsInv
  OBVIOUS
<1>1. \E k : k \in Requests
  <2> DEFINE k == [mutating |-> FALSE, cas |-> FALSE, public |-> FALSE, parses |-> FALSE, token |-> FALSE,
                   match |-> 0]
  <2>1. k \in Kinds /\ k.cas = FALSE /\ k.public = FALSE /\ k.match = 0
    BY RequestsAssumption DEF Kinds
  <2> HIDE DEF k
  <2> QED BY <2>1 DEF Requests
<1>2. NewRequest.kind \in Requests
  BY <1>1 DEF NewRequest
<1>3. NewRequest \in RequestRecord /\ NewRequest.pc = "new"
  BY <1>2 DEF NewRequest, RequestRecord, Statuses
<1>4. ASSUME NEW r \in ApiRequests
      PROVE  Recorded(r, api[r]) /\ Entitled(r, api[r])
  <2>1. api[r] = NewRequest /\ trail = <<>> /\ changed = {}
    BY DEF RequestsInit
  <2> QED BY <1>3, <2>1 DEF Recorded, Entitled, NoRecord
<1> QED
  BY <1>3, <1>4, RequestsAssumption DEF RequestsInit, RequestsInv

\* Every step of AdminRequests keeps the invariant.
LEMMA RequestsStep_Inv == RequestsInv /\ [RequestsNext]_requestVars => RequestsInv'
<1> SUFFICES ASSUME RequestsInv, [RequestsNext]_requestVars
             PROVE  RequestsInv'
  BY ZenonT(60)
<1>1. CASE UNCHANGED requestVars
  BY <1>1 DEF requestVars, RequestsInv, Recorded, Entitled, NoRecord, OneRecord
<1> QED
  BY <1>1, RequestStarts_Inv, Layers_Inv, Unwind_Inv, ServerDies_Inv, Zenon DEF RequestsNext

\* The audit trail is complete and tells the truth: a mutating request that was
\* answered has one record, with the status it was answered with, and what was
\* changed was changed with the right token.
THEOREM AnsweredIsAudited == RequestsSpec => [](RequestsTypeOK /\ RequestsAreAudited)
<1>1. RequestsInv => RequestsTypeOK
  BY DEF RequestsInv, RequestsTypeOK, RequestRecord, Statuses
<1>2. ASSUME RequestsInv
      PROVE  RequestsAreAudited
  <2> SUFFICES ASSUME NEW r \in ApiRequests
               PROVE  LET records == {n \in DOMAIN trail : trail[n][1] = r}
                      IN  /\ api[r].pc = "done" =>
                               IF api[r].kind.mutating
                               THEN \E n \in records : records = {n} /\ trail[n][2] = api[r].status
                               ELSE records = {}
                          /\ r \in changed =>
                               /\ api[r].kind.token
                               /\ api[r].status \notin Refusals
                               /\ records # {} \/ api[r].pc \in {"out", "cut"}
    BY DEF RequestsAreAudited, Refusals
  <2> DEFINE records == {n \in DOMAIN trail : trail[n][1] = r}
  <2>1. Recorded(r, api[r]) /\ Entitled(r, api[r]) /\ api[r].pc \in {"new", "in", "out", "done", "cut"}
    BY <1>2 DEF RequestsInv, RequestRecord
  <2>2. NoRecord(r) => records = {}
    BY DEF NoRecord
  <2>3. ASSUME NEW s, OneRecord(r, s)
        PROVE  \E n \in records : records = {n} /\ trail[n][2] = s
    BY <2>3, Zenon DEF OneRecord
  <2> HIDE DEF records
  <2>4. api[r].pc = "done" => IF api[r].kind.mutating
                              THEN \E n \in records : records = {n} /\ trail[n][2] = api[r].status
                              ELSE records = {}
    BY <2>1, <2>2, <2>3, Zenon DEF Recorded
  <2>5. r \in changed => api[r].kind.token /\ api[r].status \notin Refusals /\ api[r].kind.mutating
                         /\ api[r].pc \in {"out", "done", "cut"}
    BY <2>1 DEF Entitled
  <2> QED BY <2>4, <2>5 DEF records
<1> QED
  BY <1>1, <1>2, RequestsInit_Inv, RequestsStep_Inv, PTL DEF RequestsSpec

-----------------------------------------------------------------------------
(* AppConditions *)

\* The values of a condition, what is observed of the app, what the daemon tracks
\* of a condition, an answer, and a GET in progress.
Values == {"True", "False", "Unknown"}
Observation == [now : 0 .. CondClock, progressing : BOOLEAN, late : BOOLEAN]
Tracked == [status : Values \cup {"none"}, ltt : -1 .. CondClock]
CondAnswer == [now : 0 .. CondClock, conds : [Types -> Tracked]]
CondGetRecord == [pc : {"idle", "status", "timeout", "times"}, drift : BOOLEAN, now : 0 .. CondClock,
         conds : [Types -> Values \cup {"none"}]]

\* Progress has been observed from k to n of q, and not before k.
Stretch(q, k, n) == (\A j \in k .. n : q[j].progressing) /\ (k = 1 \/ ~q[k - 1].progressing)

\* The n-th observation is late exactly when its stretch began too long before it.
LateRight(q, n) ==
  q[n].late <=> \E k \in 1 .. n - 1 : Stretch(q, k, n) /\ q[n].now - q[k].now > ProgressingTimeout

\* The n-th answer dates its condition t from the answer since which it has its value.
DatedRight(q, n, t) ==
  \E k \in 1 .. n :
    /\ \A j \in k .. n : q[j].conds[t].status = q[n].conds[t].status
    /\ k = 1 \/ q[k - 1].conds[t].status # q[n].conds[t].status
    /\ q[n].conds[t].ltt = q[k].now

\* The anchor is the time of the observation that began the stretch still going on.
Anchored ==
  IF anchor = Unset THEN Len(passed) = 0 \/ ~passed[Len(passed)].progressing
  ELSE \E k \in 1 .. Len(passed) : Stretch(passed, k, Len(passed)) /\ passed[k].now = anchor

\* The tracker holds the last answer.
TrackerCurrent == tracked = IF Len(reported) = 0 THEN Unseen ELSE reported[Len(reported)].conds

\* The inductive invariant of AppConditions.
ConditionsInv ==
  /\ condGet \in [CondGets -> CondGetRecord]
  /\ \A g \in CondGets : condGet[g].pc \in {"timeout", "times"} => condGet[g].conds \in [Types -> Values]
  /\ anchor \in -1 .. CondClock
  /\ tracked \in [Types -> Tracked]
  /\ passed \in Seq(Observation)
  /\ reported \in Seq(CondAnswer)
  /\ Anchored
  /\ TrackerCurrent
  /\ \A n \in 1 .. Len(passed) : LateRight(passed, n)
  /\ \A n \in 1 .. Len(reported), t \in Types : DatedRight(reported, n, t)

\* The invariant gives the types, and that conditions follow observations.
LEMMA ConditionsInvProperty == ConditionsInv => ConditionsTypeOK /\ ConditionsFollowObservations
<1> SUFFICES ASSUME ConditionsInv
             PROVE  ConditionsTypeOK /\ ConditionsFollowObservations
  OBVIOUS
<1>1. ConditionsTypeOK
  BY Zenon DEF ConditionsInv, ConditionsTypeOK, CondGetRecord, Tracked, Values
<1>2. DOMAIN passed = 1 .. Len(passed) /\ DOMAIN reported = 1 .. Len(reported)
  BY DEF ConditionsInv
<1>3. \A n \in DOMAIN passed : LateRight(passed, n)
  BY <1>2, Zenon DEF ConditionsInv
<1>4. \A n \in DOMAIN reported, t \in Types : DatedRight(reported, n, t)
  BY <1>2, Zenon DEF ConditionsInv
<1>5. ASSUME NEW n \in DOMAIN passed
      PROVE  passed[n].late <=> \E k \in 1 .. n - 1 :
               /\ \A j \in k .. n : passed[j].progressing
               /\ k = 1 \/ ~passed[k - 1].progressing
               /\ passed[n].now - passed[k].now > ProgressingTimeout
  BY <1>3, Zenon DEF LateRight, Stretch
<1> QED BY <1>1, <1>4, <1>5, Zenon DEF ConditionsFollowObservations, DatedRight

\* The invariant holds before the first GET.
LEMMA ConditionsInvInit == ConditionsInit => ConditionsInv
<1> SUFFICES ASSUME ConditionsInit
             PROVE  ConditionsInv
  OBVIOUS
<1> USE ConditionsAssumption DEF ConditionsInit
<1>1. condGet \in [CondGets -> CondGetRecord] /\ \A g \in CondGets : condGet[g].pc = "idle"
  BY DEF CondGetRecord, NoGet, Types
<1>2. tracked \in [Types -> Tracked] /\ anchor \in -1 .. CondClock
  BY DEF Unseen, Unset, Tracked
<1>3. Anchored /\ TrackerCurrent
  BY DEF Anchored, TrackerCurrent
<1>4. passed \in Seq(Observation) /\ reported \in Seq(CondAnswer) /\ Len(passed) = 0 /\ Len(reported) = 0
  OBVIOUS
<1> QED BY <1>1, <1>2, <1>3, <1>4 DEF ConditionsInv

\* What is known of a sequence of observations says nothing about later ones.
LEMMA LateRightKept ==
  ASSUME NEW q \in Seq(Observation), NEW x \in Observation, NEW n \in 1 .. Len(q), LateRight(q, n)
  PROVE  LateRight(Append(q, x), n)
<1> DEFINE r == Append(q, x)
<1>1. Len(q) \in Nat /\ \A k \in 1 .. Len(q) : r[k] = q[k]
  OBVIOUS
<1> HIDE DEF r
<1>2. ASSUME NEW k \in 1 .. n - 1
      PROVE  r[k] = q[k] /\ (Stretch(r, k, n) <=> Stretch(q, k, n))
  <2>1. \A j \in k .. n : r[j] = q[j]
    BY <1>1
  <2>2. r[k] = q[k] /\ (k = 1 \/ r[k - 1] = q[k - 1])
    BY <1>1
  <2> QED BY <2>1, <2>2, Zenon DEF Stretch
<1>3. r[n] = q[n]
  BY <1>1
<1> QED BY <1>2, <1>3, Zenon DEF LateRight, r

\* Another answer leaves the dates of the earlier ones right.
LEMMA DatedRightKept ==
  ASSUME NEW q \in Seq(CondAnswer), NEW x \in CondAnswer, NEW n \in 1 .. Len(q), NEW t, DatedRight(q, n, t)
  PROVE  DatedRight(Append(q, x), n, t)
<1> DEFINE r == Append(q, x)
<1>1. Len(q) \in Nat /\ \A k \in 1 .. Len(q) : r[k] = q[k]
  OBVIOUS
<1> HIDE DEF r
<1>2. PICK k \in 1 .. n :
        /\ \A j \in k .. n : q[j].conds[t].status = q[n].conds[t].status
        /\ k = 1 \/ q[k - 1].conds[t].status # q[n].conds[t].status
        /\ q[n].conds[t].ltt = q[k].now
  BY Zenon DEF DatedRight
<1>3. /\ \A j \in k .. n : r[j] = q[j]
      /\ r[k] = q[k] /\ r[n] = q[n] /\ (k = 1 \/ r[k - 1] = q[k - 1])
  BY <1>1
<1> QED BY <1>2, <1>3, Zenon DEF DatedRight, r

\* The values an observation gives the conditions.
LEMMA ConditionValues ==
  ASSUME NEW s, NEW b \in BOOLEAN
  PROVE  computeAppConditions(s, b) \in [Types -> Values]
BY DEF computeAppConditions, Types, Values, Truth

\* A GET that arrives keeps the invariant.
LEMMA GetAppKeeps == ASSUME ConditionsInv, NEW g \in CondGets, GetApp(g) PROVE ConditionsInv'
<1> USE DEF ConditionsInv
<1>1. PICK behind \in BOOLEAN : condGet' = [condGet EXCEPT ![g].pc = "status", ![g].drift = behind]
  BY Zenon DEF GetApp
<1>2. condGet' \in [CondGets -> CondGetRecord]
  BY <1>1, ZenonT(60) DEF CondGetRecord
<1>3. \A h \in CondGets : h # g => condGet'[h] = condGet[h]
  BY <1>1
<1>4. condGet'[g].pc = "status"
  BY <1>1 DEF CondGetRecord
<1>5. \A h \in CondGets : condGet'[h].pc \in {"timeout", "times"} => condGet'[h].conds \in [Types -> Values]
  BY <1>3, <1>4
<1> QED BY <1>2, <1>5 DEF GetApp, Anchored, TrackerCurrent

\* appToEnvelope observes the app, and keeps the invariant.
LEMMA AppToEnvelopeKeeps == ASSUME ConditionsInv, NEW g \in CondGets, appToEnvelope(g) PROVE ConditionsInv'
<1> USE DEF ConditionsInv
<1>1. PICK s \in CondStatuses, now \in 0 .. CondClock :
        condGet' = [condGet EXCEPT ![g] = [pc |-> "timeout", drift |-> FALSE, now |-> now,
                                           conds |-> computeAppConditions(s, condGet[g].drift)]]
  BY Zenon DEF appToEnvelope
<1>2. computeAppConditions(s, condGet[g].drift) \in [Types -> Values]
  BY ConditionValues, Zenon DEF CondGetRecord
<1> DEFINE c == computeAppConditions(s, condGet[g].drift)
<1> HIDE DEF c
<1>3. c \in [Types -> Values \cup {"none"}] /\ c \in [Types -> Values]
  BY <1>2 DEF c
<1>4. condGet' = [condGet EXCEPT ![g] = [pc |-> "timeout", drift |-> FALSE, now |-> now, conds |-> c]]
  BY <1>1 DEF c
<1>5. condGet' \in [CondGets -> CondGetRecord]
  BY <1>3, <1>4 DEF CondGetRecord
<1>6. \A h \in CondGets : h # g => condGet'[h] = condGet[h]
  BY <1>4
<1>7. condGet'[g].conds = c
  BY <1>4, Zenon
<1>8. \A h \in CondGets : condGet'[h].pc \in {"timeout", "times"} => condGet'[h].conds \in [Types -> Values]
  BY <1>3, <1>6, <1>7
<1> QED BY <1>5, <1>8, Zenon DEF appToEnvelope, Anchored, TrackerCurrent

\* forget drops the tracked times of the app, and keeps the invariant.
LEMMA ForgetKeeps == ASSUME ConditionsInv, forget PROVE ConditionsInv'
<1> USE ConditionsAssumption DEF ConditionsInv, forget
<1>1. tracked' \in [Types -> Tracked] /\ anchor' \in -1 .. CondClock
  BY SMTT(60) DEF Unseen, Unset, Tracked
<1>2. passed' \in Seq(Observation) /\ reported' \in Seq(CondAnswer) /\ Len(passed') = 0 /\ Len(reported') = 0
  OBVIOUS
<1>3. Anchored' /\ TrackerCurrent'
  BY <1>2 DEF Anchored, TrackerCurrent
<1> QED BY <1>1, <1>2, <1>3, SMTT(60)

\* Of the observations that may begin the stretch that reaches n, there is one.
LEMMA StretchUnique ==
  ASSUME NEW q \in Seq(Observation), NEW n \in Nat, NEW j \in 1 .. n, NEW k \in 1 .. n,
         Stretch(q, j, n), Stretch(q, k, n)
  PROVE  j = k
<1>1. ASSUME NEW a \in 1 .. n, NEW b \in 1 .. n, Stretch(q, a, n), Stretch(q, b, n)
      PROVE  ~(a < b)
  <2> SUFFICES ASSUME a < b
               PROVE  FALSE
    OBVIOUS
  <2>1. b # 1 /\ b - 1 \in a .. n
    BY SMTT(60)
  <2> QED BY <1>1, <2>1 DEF Stretch
<1> QED BY <1>1

\* applyProgressingTimeout anchors the deadline, and keeps the invariant.
LEMMA ApplyProgressingTimeoutKeeps ==
  ASSUME ConditionsInv, NEW g \in CondGets, applyProgressingTimeout(g) PROVE ConditionsInv'
<1> USE DEF ConditionsInv
<1> DEFINE c == condGet[g].conds
           now == condGet[g].now
           progressing == c.Progressing = "True"
           late == progressing /\ anchor # Unset /\ now - anchor > ProgressingTimeout
           x == [now |-> now, progressing |-> progressing, late |-> late]
           d == IF late THEN [c EXCEPT !.Progressing = "False", !.Degraded = "True"] ELSE c
           L == Len(passed)
<1>1. /\ anchor' = anchorAfter(progressing, now)
      /\ condGet' = [condGet EXCEPT ![g] = [pc |-> "times", drift |-> FALSE, now |-> now, conds |-> d]]
      /\ passed' = Append(passed, x)
      /\ UNCHANGED <<tracked, condReads, condStops, reported>>
      /\ condGet[g].pc = "timeout"
  BY Zenon DEF applyProgressingTimeout
<1>2. c \in [Types -> Values] /\ now \in 0 .. CondClock
  BY <1>1, Zenon DEF CondGetRecord
<1>3. d \in [Types -> Values]
  BY <1>2, ZenonT(60) DEF Types, Values
<1>4. x \in Observation /\ x.now = now /\ x.progressing = progressing /\ x.late = late
  BY <1>2, Zenon DEF Observation
<1> HIDE DEF c, d, x, now, progressing, late
<1>5. progressing \in BOOLEAN /\ late \in BOOLEAN
  BY DEF progressing, late
<1>6. condGet' \in [CondGets -> CondGetRecord]
  <2>1. d \in [Types -> Values \cup {"none"}]
    BY <1>3, Zenon
  <2> QED BY <1>1, <1>2, <2>1 DEF CondGetRecord
<1>7. \A h \in CondGets : condGet'[h].pc \in {"timeout", "times"} => condGet'[h].conds \in [Types -> Values]
  <2>1. \A h \in CondGets : h # g => condGet'[h] = condGet[h]
    BY <1>1, Zenon
  <2>2. condGet'[g].conds = d
    BY <1>1, ZenonT(60) DEF CondGetRecord
  <2> QED BY <1>3, <2>1, <2>2, Zenon
<1>8. /\ L \in Nat /\ passed' \in Seq(Observation) /\ Len(passed') = L + 1 /\ passed'[L + 1] = x
      /\ \A k \in 1 .. L : passed'[k] = passed[k]
  BY <1>1, <1>4, SMTT(60)
<1>9. anchor' \in -1 .. CondClock
  <2>1. anchor' \in {Unset, now, anchor}
    BY <1>1, Zenon DEF anchorAfter
  <2> QED BY <1>2, <2>1, ConditionsAssumption DEF Unset
<1>10. now # Unset
  BY <1>2 DEF Unset
<1> HIDE DEF L
<1>11. ASSUME NEW k \in 1 .. L
       PROVE  Stretch(passed', k, L + 1) <=> Stretch(passed, k, L) /\ progressing
  <2>1. passed'[k] = passed[k] /\ (k = 1 \/ passed'[k - 1] = passed[k - 1])
    <3>1. k = 1 \/ k - 1 \in 1 .. L
      BY <1>8
    <3> QED BY <1>8, <3>1, Zenon
  <2>2. \A j \in k .. L : passed'[j] = passed[j] /\ j \in k .. (L + 1)
    BY <1>8
  <2>3. \A j \in k .. (L + 1) : j \in k .. L \/ j = L + 1
    BY <1>8
  <2>4. L + 1 \in k .. (L + 1)
    BY <1>8, SMTT(60)
  <2>5. passed'[L + 1].progressing = progressing
    BY <1>4, <1>8
  <2>6. Stretch(passed', k, L + 1) => Stretch(passed, k, L) /\ progressing
    BY <1>5, <2>1, <2>2, <2>4, <2>5, Zenon DEF Stretch
  <2>7. Stretch(passed, k, L) /\ progressing => Stretch(passed', k, L + 1)
    BY <1>5, <2>1, <2>2, <2>3, <2>5, Zenon DEF Stretch
  <2> QED BY <2>6, <2>7, Zenon
<1>12. ASSUME anchor = Unset
       PROVE  \A k \in 1 .. L : ~Stretch(passed, k, L)
  <2> SUFFICES ASSUME NEW k \in 1 .. L
               PROVE  ~Stretch(passed, k, L)
    BY Zenon
  <2>1. L \in k .. L /\ L # 0
    BY <1>8
  <2>2. ~passed[L].progressing
    BY <1>12, <2>1, Zenon DEF Anchored, L
  <2> QED BY <2>1, <2>2, Zenon DEF Stretch
<1>13. LateRight(passed', L + 1)
  <2>1. /\ (passed'[L + 1].late <=> late) /\ passed'[L + 1].now = now /\ 1 .. ((L + 1) - 1) = 1 .. L
    BY <1>4, <1>8
  <2>2. CASE anchor = Unset
    <3>1. ~late
      BY <2>2 DEF late
    <3>2. \A k \in 1 .. L : ~Stretch(passed', k, L + 1)
      BY <1>11, <1>12, <2>2, Zenon
    <3>3. \A k \in 1 .. ((L + 1) - 1) : ~Stretch(passed', k, L + 1)
      BY <2>1, <3>2, Zenon
    <3> QED BY <2>1, <3>1, <3>3, Zenon DEF LateRight
  <2>3. CASE anchor # Unset
    <3>1. PICK a \in 1 .. L : Stretch(passed, a, L) /\ passed[a].now = anchor
      BY <2>3, Zenon DEF Anchored, L
    <3>2. \A k \in 1 .. L : Stretch(passed, k, L) => k = a
      BY <1>8, <3>1, StretchUnique, Zenon
    <3>3. passed'[a].now = anchor
      BY <1>8, <3>1, Zenon
    <3>4. ASSUME late
          PROVE  Stretch(passed', a, L + 1) /\ now - passed'[a].now > ProgressingTimeout
      BY <1>11, <3>1, <3>3, <3>4, Zenon DEF late
    <3>5. ASSUME NEW k \in 1 .. L, Stretch(passed', k, L + 1), now - passed'[k].now > ProgressingTimeout
          PROVE  late
      <4>1. k = a /\ progressing
        BY <1>11, <3>2, <3>5, Zenon
      <4> QED BY <2>3, <3>3, <3>5, <4>1, Zenon DEF late
    <3>6. late <=> \E k \in 1 .. L : Stretch(passed', k, L + 1) /\ now - passed'[k].now > ProgressingTimeout
      BY <3>4, <3>5, Zenon
    <3>7. late <=> \E k \in 1 .. ((L + 1) - 1) : Stretch(passed', k, L + 1) /\ passed'[L + 1].now - passed'[k].now > ProgressingTimeout
      BY <2>1, <3>6, Zenon
    <3> QED BY <2>1, <3>7, Zenon DEF LateRight
  <2> QED BY <2>2, <2>3, Zenon
<1>14. \A n \in 1 .. (L + 1) : LateRight(passed', n)
  <2>1. \A n \in 1 .. L : LateRight(passed', n)
    BY <1>1, <1>4, LateRightKept, Zenon DEF L
  <2>2. \A n \in 1 .. (L + 1) : n \in 1 .. L \/ n = L + 1
    BY <1>8
  <2> QED BY <1>13, <2>1, <2>2, Zenon
<1>15. Anchored'
  <2>1. passed'[L + 1].progressing = progressing /\ passed'[L + 1].now = now
    BY <1>4, <1>8, Zenon
  <2>2. CASE ~progressing
    BY <1>1, <1>8, <2>1, <2>2, Zenon DEF anchorAfter, Anchored
  <2>3. CASE progressing /\ anchor # Unset
    <3>1. PICK a \in 1 .. L : Stretch(passed, a, L) /\ passed[a].now = anchor
      BY <2>3, ZenonT(60) DEF Anchored, L
    <3>2. a \in 1 .. (L + 1) /\ Stretch(passed', a, L + 1) /\ passed'[a].now = anchor
      BY <1>8, <1>11, <2>3, <3>1, SMTT(60)
    <3>3. anchor' = anchor
      BY <1>1, <2>3, Zenon DEF anchorAfter
    <3> QED BY <1>8, <2>3, <3>2, <3>3, Zenon DEF Anchored
  <2>4. CASE progressing /\ anchor = Unset
    <3>1. anchor' = now
      BY <1>1, <2>4, Zenon DEF anchorAfter
    <3>2. L = 0 \/ ~passed[L].progressing
      BY <2>4, ZenonT(60) DEF Anchored, L
    <3>3. L + 1 \in 1 .. (L + 1) /\ \A j \in (L + 1) .. (L + 1) : j = L + 1
      BY <1>8, SMTT(60)
    <3>4. L + 1 = 1 \/ ~passed'[(L + 1) - 1].progressing
      BY <1>8, <3>2, SMTT(60)
    <3>5. Stretch(passed', L + 1, L + 1)
      <4>1. \A j \in (L + 1) .. (L + 1) : passed'[j].progressing
        BY <2>1, <2>4, <3>3, Zenon
      <4> QED BY <3>4, <4>1, Zenon DEF Stretch
    <3> QED BY <1>8, <1>10, <2>1, <3>1, <3>3, <3>5, Zenon DEF Anchored
  <2> QED BY <2>2, <2>3, <2>4
<1>16. TrackerCurrent'
  BY <1>1, Zenon DEF TrackerCurrent
<1>17. \A n \in 1 .. Len(reported'), t \in Types : DatedRight(reported', n, t)
  BY <1>1, Zenon
<1> QED BY <1>1, <1>6, <1>7, <1>8, <1>9, <1>14, <1>15, <1>16, <1>17, Zenon

\* r is s with e added at its end, a sequence over S.
Appended(S, s, e, r) ==
  /\ Len(s) \in Nat /\ r \in Seq(S) /\ Len(r) = Len(s) + 1
  /\ r[Len(s) + 1] = e /\ \A k \in 1 .. Len(s) : r[k] = s[k]

\* Append keeps the elements in place and adds one at the end.
LEMMA AppendedLast ==
  ASSUME NEW S, NEW s \in Seq(S), NEW e \in S
  PROVE  Appended(S, s, e, Append(s, e))
BY DEF Appended

\* applyTransitionTimes dates the conditions of the answer, and keeps the invariant.
LEMMA ApplyTransitionTimesKeeps ==
  ASSUME ConditionsInv, NEW g \in CondGets, applyTransitionTimes(g) PROVE ConditionsInv'
<1> USE DEF ConditionsInv
<1> DEFINE c == condGet[g].conds
           now == condGet[g].now
           seen == [t \in Types |-> IF tracked[t].status = c[t] THEN tracked[t] ELSE [status |-> c[t], ltt |-> now]]
           x == [now |-> now, conds |-> seen]
           L == Len(reported)
<1>1. /\ tracked' = seen /\ reported' = Append(reported, x) /\ condGet' = [condGet EXCEPT ![g] = NoGet]
      /\ UNCHANGED <<anchor, condReads, condStops, passed>>
      /\ condGet[g].pc = "times"
  BY Zenon DEF applyTransitionTimes
<1>2. c \in [Types -> Values] /\ now \in 0 .. CondClock
  BY <1>1, ZenonT(60) DEF CondGetRecord
<1>3. \A t \in Types : /\ seen[t] \in Tracked /\ seen[t].status = c[t]
                       /\ seen[t] = IF tracked[t].status = c[t] THEN tracked[t] ELSE [status |-> c[t], ltt |-> now]
  <2> TAKE t \in Types
  <2>1. c[t] \in Values /\ now \in -1 .. CondClock /\ tracked[t] \in Tracked
    BY <1>2
  <2>2. seen[t] = IF tracked[t].status = c[t] THEN tracked[t] ELSE [status |-> c[t], ltt |-> now]
    BY Zenon
  <2> HIDE DEF c, now, seen, ConditionsInv
  <2>3. CASE tracked[t].status = c[t]
    <3>1. seen[t] = tracked[t]
      BY <2>2, <2>3, Zenon
    <3> QED BY <2>1, <2>2, <2>3, <3>1, SMT
  <2>4. CASE tracked[t].status # c[t]
    <3> DEFINE y == [status |-> c[t], ltt |-> now]
    <3>1. seen[t] = y
      BY <2>2, <2>4, Zenon
    <3>2. y \in Tracked /\ y.status = c[t]
      BY <2>1, Zenon DEF Tracked
    <3> HIDE DEF y
    <3> QED BY <2>2, <3>1, <3>2, SMT
  <2> QED BY <2>3, <2>4, Zenon
<1>4. seen \in [Types -> Tracked]
  BY <1>3, Zenon
<1>5. x \in CondAnswer /\ x.now = now /\ x.conds = seen
  BY <1>2, <1>4, ZenonT(60) DEF CondAnswer
<1> HIDE DEF c, now, seen, x, L
<1>6. /\ L \in Nat /\ reported' \in Seq(CondAnswer) /\ Len(reported') = L + 1 /\ reported'[L + 1] = x
      /\ \A k \in 1 .. L : reported'[k] = reported[k]
  <2>1. reported \in Seq(CondAnswer)
    OBVIOUS
  <2> HIDE DEF ConditionsInv
  <2>2. Appended(CondAnswer, reported, x, Append(reported, x))
    BY <1>5, <2>1, AppendedLast, Zenon
  <2> QED BY <1>1, <2>2, Zenon DEF L, Appended
<1>7. condGet' \in [CondGets -> CondGetRecord] /\ \A h \in CondGets : condGet'[h] = condGet[h] \/ condGet'[h].pc = "idle"
  <2>1. NoGet \in CondGetRecord /\ NoGet.pc = "idle"
    BY ConditionsAssumption, SMTT(60) DEF CondGetRecord, NoGet
  <2> QED BY <1>1, <2>1, Zenon
<1>8. TrackerCurrent'
  <2>1. Len(reported') # 0
    BY <1>6
  <2> QED BY <1>1, <1>5, <1>6, <2>1, Zenon DEF TrackerCurrent
<1>9. ASSUME NEW t \in Types
      PROVE  DatedRight(reported', L + 1, t)
  <2>1. reported'[L + 1].conds[t].status = c[t] /\ c[t] # "none"
    BY <1>2, <1>3, <1>5, <1>6, Zenon DEF Values
  <2>2. CASE tracked[t].status # c[t]
    <3>1. reported'[L + 1].conds[t].ltt = now /\ reported'[L + 1].now = now
      <4>1. seen[t] = [status |-> c[t], ltt |-> now]
        BY <1>3, <2>2, Zenon
      <4>2. seen[t].ltt = now
        BY <4>1, SMTT(60)
      <4> QED BY <1>5, <1>6, <4>2, Zenon
    <3>2. L + 1 \in 1 .. (L + 1) /\ \A j \in (L + 1) .. (L + 1) : j = L + 1
      BY <1>6, SMTT(60)
    <3>3. L + 1 = 1 \/ reported'[(L + 1) - 1].conds[t].status # c[t]
      <4> SUFFICES ASSUME L # 0
                   PROVE  reported'[(L + 1) - 1].conds[t].status # c[t]
        BY <1>6
      <4>1. reported'[(L + 1) - 1] = reported[L] /\ tracked = reported[L].conds
        BY <1>6 DEF TrackerCurrent, L
      <4> QED BY <2>2, <4>1, Zenon
    <3>4. \A j \in (L + 1) .. (L + 1) : reported'[j].conds[t].status = reported'[L + 1].conds[t].status
      BY <3>2, Zenon
    <3>5. L + 1 = 1 \/ reported'[(L + 1) - 1].conds[t].status # reported'[L + 1].conds[t].status
      BY <2>1, <3>3, Zenon
    <3>6. reported'[L + 1].conds[t].ltt = reported'[L + 1].now
      BY <3>1, Zenon
    <3> QED BY <3>2, <3>4, <3>5, <3>6, Zenon DEF DatedRight
  <2>3. CASE tracked[t].status = c[t]
    <3>1. L # 0 /\ tracked = reported[L].conds /\ L \in 1 .. L
      <4>1. Unseen[t].status = "none"
        BY DEF Unseen
      <4> QED BY <1>6, <2>1, <2>3, <4>1, SMTT(60) DEF TrackerCurrent, L
    <3>2. reported[L].conds[t].status = c[t] /\ reported'[L + 1].conds[t] = reported[L].conds[t]
      BY <1>3, <1>5, <1>6, <2>3, <3>1, Zenon
    <3>3. PICK k \in 1 .. L :
            /\ \A j \in k .. L : reported[j].conds[t].status = reported[L].conds[t].status
            /\ k = 1 \/ reported[k - 1].conds[t].status # reported[L].conds[t].status
            /\ reported[L].conds[t].ltt = reported[k].now
      <4>1. DatedRight(reported, L, t)
        BY <3>1, ZenonT(60) DEF L
      <4> QED BY <4>1, Zenon DEF DatedRight
    <3>4. /\ k \in 1 .. (L + 1) /\ reported'[k] = reported[k]
          /\ k = 1 \/ reported'[k - 1] = reported[k - 1]
      BY <1>6
    <3>5. \A j \in k .. (L + 1) : j = L + 1 \/ (j \in k .. L /\ reported'[j] = reported[j])
      BY <1>6
    <3>6. \A j \in k .. (L + 1) : reported'[j].conds[t].status = reported'[L + 1].conds[t].status
      BY <3>2, <3>3, <3>5, Zenon
    <3>7. /\ k = 1 \/ reported'[k - 1].conds[t].status # reported'[L + 1].conds[t].status
          /\ reported'[L + 1].conds[t].ltt = reported'[k].now
      BY <3>2, <3>3, <3>4, Zenon
    <3> QED BY <3>4, <3>6, <3>7, ZenonT(60) DEF DatedRight
  <2> QED BY <2>2, <2>3
<1>10. \A n \in 1 .. (L + 1), t \in Types : DatedRight(reported', n, t)
  <2>1. \A n \in 1 .. L, t \in Types : DatedRight(reported', n, t)
    BY <1>1, <1>5, DatedRightKept, SMTT(60) DEF L
  <2>2. \A n \in 1 .. (L + 1) : n \in 1 .. L \/ n = L + 1
    BY <1>6, SMTT(60)
  <2> QED BY <1>9, <2>1, <2>2, Zenon
<1>11. Anchored'
  BY <1>1 DEF Anchored
<1> QED BY <1>1, <1>4, <1>6, <1>7, <1>8, <1>10, <1>11, ZenonT(60)

\* Every step of AppConditions keeps the invariant.
LEMMA ConditionsInvStep == ConditionsInv /\ [ConditionsNext]_conditionVars => ConditionsInv'
<1> SUFFICES ASSUME ConditionsInv, [ConditionsNext]_conditionVars
             PROVE  ConditionsInv'
  OBVIOUS
<1>1. CASE ConditionsNext
  BY ZenonT(60), <1>1, GetAppKeeps, AppToEnvelopeKeeps, ApplyProgressingTimeoutKeeps, ApplyTransitionTimesKeeps, ForgetKeeps,
     Zenon DEF ConditionsNext
<1>2. CASE UNCHANGED conditionVars
  BY <1>2 DEF conditionVars, ConditionsInv, Anchored, TrackerCurrent
<1> QED BY <1>1, <1>2

(***************************************************************************)
(* However many requests overlap, whatever the clock reads and whenever    *)
(* the app is stopped: the conditions GET reports follow from the          *)
(* observations alone.                                                     *)
(***************************************************************************)
THEOREM ConditionsAreObserved == ConditionsSpec => [](ConditionsTypeOK /\ ConditionsFollowObservations)
<1>1. ConditionsSpec => []ConditionsInv
  BY ConditionsInvInit, ConditionsInvStep, PTL DEF ConditionsSpec
<1> QED
  BY <1>1, ConditionsInvProperty, PTL
=============================================================================

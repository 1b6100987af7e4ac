---------------------------- MODULE Session_proofs ----------------------------
(***************************************************************************)
(* For any requests, cubes and sessions: fields are answered from the      *)
(* manifests of their own request, and calls that race on a session are    *)
(* those of one running request that has several `cube` fields.            *)
(***************************************************************************)
EXTENDS Session, TLAPS

\* A session is held by one request, and a held session is not in the pool.
HeldByOne ==
    \A r \in Requests : rpc[r] = "exec" =>
        /\ session[r] \in Sessions \ pool
        /\ \A q \in Requests : rpc[q] = "exec" /\ session[q] = session[r] => q = r

\* The resolvers of a field run while its request does, first that of the cube.
InTurn ==
    \A f \in Fields :
        /\ rpc[Request(f)] = "new" => cpc[f] = "fetch"
        /\ rpc[Request(f)] = "answered" => Ended(f)
        /\ lpc[f] # "wait" => cpc[f] = "resolved"

\* A request that has resolved a cube finds a document of its own in its session.
DocumentIsOwn ==
    \A f \in Fields :
        rpc[Request(f)] = "exec" /\ cpc[f] = "resolved" => Document(f) \in Own(Request(f))

IInv == TypeOK /\ HeldByOne /\ InTurn /\ DocumentIsOwn /\ AnswersAreOwn

LEMMA FieldParts ==
    ASSUME NEW f \in Fields
    PROVE  /\ Request(f) \in Requests /\ Cube(f) \in Cubes /\ Cube(f) \in Own(Request(f))
           /\ f = <<Request(f), f[2]>> /\ f[2] \in 1 .. Len(Asks[Request(f)])
<1>1. PICK r \in Requests : f \in {r} \X DOMAIN Asks[r]
  BY DEF Fields
<1>2. Asks[r] \in Seq(Cubes)
  BY AsksAssumption
<1>3. f = <<r, f[2]>> /\ f[1] = r /\ f[2] \in 1 .. Len(Asks[r])
  BY <1>1, <1>2
<1>4. Asks[r][f[2]] \in Cubes
  BY <1>2, <1>3
<1>5. Cube(f) \in Own(Request(f))
  BY DEF Own
<1> QED
  BY <1>3, <1>4, <1>5 DEF Request, Cube

LEMMA OwnCubes == \A r \in Requests : Own(r) \subseteq Cubes
  BY FieldParts DEF Own

LEMMA InitIInv == Init => IInv
  BY FieldParts, NoneAssumption
  DEF Init, IInv, TypeOK, HeldByOne, InTurn, DocumentIsOwn, AnswersAreOwn, Ended

LEMMA StepIInv == ASSUME IInv, [Next]_vars PROVE IInv'
<1>. USE FieldParts, NoneAssumption
     DEF IInv, TypeOK, HeldByOne, InTurn, DocumentIsOwn, AnswersAreOwn
<1>1. ASSUME NEW r \in Requests, Get(r) PROVE IInv'
  <2>. PICK s \in Sessions \ Held :
            /\ session' = [session EXCEPT ![r] = s]
            /\ pool' = pool \ {s}
            /\ document' = IF s \in pool THEN document ELSE New(s)
    BY <1>1 DEF Get
  <2>1. /\ rpc[r] = "new" /\ rpc' = [rpc EXCEPT ![r] = "exec"]
        /\ UNCHANGED <<cpc, lpc, answer, plan, server>>
    BY <1>1 DEF Get, resolver
  <2>2. \A q \in Requests : rpc[q] = "exec" => session[q] # s
    BY DEF Held
  <2>3. TypeOK'
    BY <2>1 DEF New
  <2>4. HeldByOne'
    BY <2>1, <2>2
  <2>5. InTurn'
    BY <2>1 DEF Ended
  <2>6. DocumentIsOwn'
    <3>. SUFFICES ASSUME NEW f \in Fields, rpc'[Request(f)] = "exec", cpc'[f] = "resolved"
                  PROVE  document'[session'[Request(f)]] \in Own(Request(f))
      BY DEF Document
    <3>1. Request(f) # r /\ rpc[Request(f)] = "exec" /\ session[Request(f)] # s
      BY <2>1, <2>2
    <3>. QED  BY <2>1, <3>1 DEF New, Document
  <2>7. AnswersAreOwn'
    BY <2>1
  <2>. QED  BY <2>3, <2>4, <2>5, <2>6, <2>7
<1>2. ASSUME NEW r \in Requests, Put(r) PROVE IInv'
  <2>1. /\ rpc[r] = "exec" /\ rpc' = [rpc EXCEPT ![r] = "answered"]
        /\ pool' = pool \cup {session[r]}
        /\ \A f \in Fields : Request(f) = r => Ended(f)
        /\ UNCHANGED <<session, document, cpc, lpc, answer, plan, server>>
    BY <1>2 DEF Put, resolver
  <2>2. TypeOK' /\ HeldByOne'
    BY <2>1
  <2>3. InTurn' /\ DocumentIsOwn' /\ AnswersAreOwn'
    BY <2>1 DEF Ended, Document
  <2>. QED  BY <2>2, <2>3
<1>3. ASSUME Evict PROVE IInv'
  BY <1>3 DEF Evict, resolver, Ended, Document
<1>4. ASSUME Crash PROVE IInv'
  BY <1>4 DEF Crash, request, resolver, Ended, Document
<1>5. ASSUME NEW f \in Fields, GetManifest(f) PROVE IInv'
  BY <1>5 DEF GetManifest, Running, request, Ended, Document
<1>6. ASSUME NEW f \in Fields, InitWithManifest(f) PROVE IInv'
  <2>1. /\ rpc[Request(f)] = "exec" /\ cpc[f] = "init"
        /\ cpc' = [cpc EXCEPT ![f] = IF InitThrows(Cube(f)) THEN "failed" ELSE "resolved"]
        /\ document' = SessionInit(session[Request(f)], Cube(f))
        /\ UNCHANGED <<rpc, session, pool, lpc, answer, plan, server>>
    BY <1>6 DEF InitWithManifest, Running, request
  <2>2. TypeOK' /\ HeldByOne'
    BY <2>1 DEF SessionInit
  <2>3. InTurn' /\ AnswersAreOwn'
    BY <2>1 DEF Ended
  <2>4. DocumentIsOwn'
    <3>. SUFFICES ASSUME NEW g \in Fields, rpc[Request(g)] = "exec", cpc'[g] = "resolved"
                  PROVE  document'[session[Request(g)]] \in Own(Request(g))
      BY <2>1 DEF Document
    <3>1. CASE session[Request(g)] = session[Request(f)] /\ ~InitThrows(Cube(f))
      <4>1. Request(g) = Request(f)
        BY <2>1, <3>1
      <4>. QED  BY <2>1, <3>1, <4>1 DEF SessionInit
    <3>2. CASE ~(session[Request(g)] = session[Request(f)] /\ ~InitThrows(Cube(f)))
      <4>1. g # f
        BY <2>1, <3>2
      <4>2. cpc[g] = "resolved"
        BY <2>1, <4>1
      <4>3. document'[session[Request(g)]] = document[session[Request(g)]]
        BY <2>1, <3>2 DEF SessionInit
      <4>. QED  BY <4>2, <4>3 DEF Document
    <3>. QED  BY <3>1, <3>2
  <2>. QED  BY <2>2, <2>3, <2>4
<1>7. ASSUME NEW f \in Fields, Lookup(f) PROVE IInv'
  BY <1>7 DEF Lookup, request, Ended, Document
<1>8. ASSUME NEW f \in Fields, QueryManifest(f) PROVE IInv'
  <2>. PICK d \in Found(f) : answer' = [answer EXCEPT ![f] = d]
    BY <1>8 DEF QueryManifest
  <2>1. /\ lpc[f] = "read" /\ lpc' = [lpc EXCEPT ![f] = "done"]
        /\ UNCHANGED <<rpc, session, pool, document, cpc, plan, server>>
    BY <1>8 DEF QueryManifest, request
  <2>2. rpc[Request(f)] = "exec" /\ cpc[f] = "resolved"
    BY <2>1 DEF Ended
  <2>3. d \in Own(Request(f))
    <3>1. CASE d = Document(f)
      BY <2>2, <3>1
    <3>2. ASSUME NEW g \in Writing(session[Request(f)]), d = Cube(g)
          PROVE  d \in Own(Request(f))
      <4>1. g \in Fields /\ cpc[g] = "init" /\ session[Request(g)] = session[Request(f)]
        BY DEF Writing, Uses
      <4>2. rpc[Request(g)] = "exec"
        BY <4>1 DEF Ended
      <4>. QED  BY <2>2, <3>2, <4>1, <4>2
    <3>. QED  BY <3>1, <3>2 DEF Found
  <2>4. d \in Cubes
    BY <2>3, FieldParts, OwnCubes
  <2>5. TypeOK' /\ HeldByOne'
    BY <2>1, <2>4
  <2>6. InTurn' /\ DocumentIsOwn'
    BY <2>1 DEF Ended, Document
  <2>7. AnswersAreOwn'
    BY <2>1, <2>3
  <2>. QED  BY <2>5, <2>6, <2>7
<1>9. ASSUME NEW f \in Fields, PlanQuery(f) PROVE IInv'
  BY <1>9 DEF PlanQuery, Planned, Running, request, Ended, Document
<1>10. CASE UNCHANGED vars
  BY <1>10 DEF vars, request, resolver, Ended, Document
<1>. QED
  BY <1>1, <1>2, <1>3, <1>4, <1>5, <1>6, <1>7, <1>8, <1>9, <1>10 DEF Next, Resolve

THEOREM Invariance == Spec => []IInv
  BY InitIInv, StepIInv, PTL DEF Spec

\* Every variable of the resolvers keeps its type; in particular a request that runs has
\* a session (execQuery, graphql.go 517).
THEOREM TypeCorrect == Spec => []TypeOK
<1>1. IInv => TypeOK
  BY DEF IInv
<1>. QED  BY <1>1, Invariance, PTL

\* A field is answered from a manifest of its own request and planned for its own cube,
\* whatever pooled session it got and however the resolvers interleave.
THEOREM AnswersOwn == Spec => []AnswersAreOwn
<1>1. IInv => AnswersAreOwn
  BY DEF IInv
<1>. QED  BY <1>1, Invariance, PTL

\* Calls that race on a session are those of one request, which is running and has several
\* `cube` fields, whatever the pool does and however the resolvers interleave.
THEOREM RacesOwn == Spec => []RacesStayInRequest
<1>1. ASSUME IInv PROVE RacesStayInRequest
  <2>. USE <1>1 DEF IInv
  <2>1. ASSUME NEW s \in Sessions, NEW f \in Writing(s) \cup Reading(s)
        PROVE  f \in Fields /\ session[Request(f)] = s /\ rpc[Request(f)] = "exec"
    BY <2>1, FieldParts DEF Writing, Reading, Uses, InTurn, TypeOK, Ended
  <2>2. ASSUME NEW s \in Sessions, s \in pool PROVE Writing(s) \cup Reading(s) = {}
    BY <2>1, <2>2, FieldParts DEF HeldByOne
  <2>3. ASSUME NEW s \in Sessions, Racing(s) # {}
        PROVE  \E r \in Requests : /\ rpc[r] = "exec" /\ Len(Asks[r]) > 1
                                   /\ \A f \in Racing(s) : Request(f) = r
    <3>1. PICK f \in Writing(s) \cup Reading(s) : Writing(s) \ {f} # {}
      BY <2>3 DEF Racing
    <3>2. PICK g \in Writing(s) : g # f
      BY <3>1
    <3>3. \A h \in Writing(s) \cup Reading(s) : Request(h) = Request(f)
      BY <2>1, FieldParts DEF HeldByOne
    <3>4. f \in Fields /\ g \in Fields /\ Request(f) \in Requests /\ Request(g) = Request(f)
      BY <2>1, <3>2, <3>3, FieldParts
    <3>5. f[2] # g[2]
      <4>1. f = <<Request(f), f[2]>> /\ g = <<Request(g), g[2]>>
        BY <3>4, FieldParts
      <4>. QED  BY <3>2, <3>4, <4>1
    <3>6. f[2] \in 1 .. Len(Asks[Request(f)]) /\ g[2] \in 1 .. Len(Asks[Request(f)])
      BY <3>4, FieldParts
    <3>7. Len(Asks[Request(f)]) > 1
      <4>1. Len(Asks[Request(f)]) \in Nat
        BY <3>4, AsksAssumption
      <4>. QED  BY <3>5, <3>6, <4>1
    <3>. QED  BY <2>1, <3>3, <3>4, <3>7 DEF Racing
  <2>. QED  BY <2>2, <2>3 DEF RacesStayInRequest
<1>. QED  BY <1>1, Invariance, PTL
=============================================================================

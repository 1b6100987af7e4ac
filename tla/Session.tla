------------------------------- MODULE Session -------------------------------
(***************************************************************************)
(* The GraphQL resolvers of the query server and the C++ session they      *)
(* share (api/api/graphql.go, query.go, query.cpp, session in plan.cpp).   *)
(*                                                                         *)
(* A request takes a session from the pool, and gives it back when all its *)
(* resolvers have returned.  Every `cube` field of the document, aliases   *)
(* of one cube among them, is resolved in a goroutine of its own: it reads *)
(* the manifest from storage and initialises the session with it.  When    *)
(* that is done, the fields of the cube are resolved, each in its          *)
(* goroutine again: one that looks up the manifest (linenumbers and the    *)
(* like) asks the session, whatever it was last initialised with; one that *)
(* promises a process sends the manifest along, and is planned without the *)
(* state of the session.                                                   *)
(*                                                                         *)
(* Nothing is locked.  session::init() that runs beside another call on    *)
(* the same session is a data race: the server may crash, and a lookup may *)
(* find the old document or the new one.                                   *)
(***************************************************************************)
EXTENDS Integers, Sequences

CONSTANTS
    Requests,   \* HTTP requests
    Cubes,
    Asks,       \* [Requests -> the ids of the `cube` fields of the document]
    Broken,     \* cubes whose manifest is not one: init fails
    Sessions,   \* sessions that are in use or pooled at one time
    None

ASSUME AsksAssumption ==
    /\ Asks \in [Requests -> Seq(Cubes)]
    /\ Broken \subseteq Cubes
ASSUME NoneAssumption ==
    /\ None \notin Cubes \cup Sessions
    /\ Cubes \cap {None, "wait", "null"} = {}

\* A `cube` field of a document, and its request and cube.  Fields with one id are several
\* (aliases), each with a resolver of its own.
Fields     == UNION {{r} \X DOMAIN Asks[r] : r \in Requests}
Request(f) == f[1]
Cube(f)    == Asks[f[1]][f[2]]
Own(r)     == {Cube(f) : f \in {g \in Fields : Request(g) = r}}

VARIABLES
    rpc,       \* where a request is
    session,   \* the session in its query context
    pool,      \* sessions in the pool
    document,  \* the manifest a session was last initialised with
    cpc,       \* where the resolver of a `cube` is
    lpc,       \* where the resolver of a manifest field of it is
    answer,    \* what that field found: the cube whose manifest was read
    plan,      \* the cube that the promised process of the field reads
    server

request  == <<rpc, session, pool>>
resolver == <<cpc, lpc, answer, plan>>
vars     == <<request, document, resolver, server>>

TypeOK ==
    /\ rpc \in [Requests -> {"new", "exec", "answered"}]
    /\ session \in [Requests -> Sessions \cup {None}]
    /\ pool \subseteq Sessions
    /\ document \in [Sessions -> Cubes \cup {None}]
    /\ cpc \in [Fields -> {"fetch", "init", "resolved", "failed"}]
    /\ lpc \in [Fields -> {"wait", "read", "done"}]
    /\ answer \in [Fields -> Cubes \cup {None}]
    /\ plan \in [Fields -> Cubes \cup {None, "wait", "null"}]
    /\ server \in {"up", "down"}

Init ==
    /\ rpc = [r \in Requests |-> "new"] /\ session = [r \in Requests |-> None]
    /\ pool = {} /\ document = [s \in Sessions |-> None]
    /\ cpc = [f \in Fields |-> "fetch"]
    /\ lpc = [f \in Fields |-> "wait"] /\ answer = [f \in Fields |-> None]
    /\ plan = [f \in Fields |-> "wait"]
    /\ server = "up"

Running(f)  == server = "up" /\ rpc[Request(f)] = "exec"
Held        == {session[r] : r \in {q \in Requests : rpc[q] = "exec"}}
Document(f) == document[session[Request(f)]]

\* session_new(): a session without a document.
New(s) == [document EXCEPT ![s] = None]

\* session_init(): an exception becomes an error.
InitThrows(c) == c \in Broken

\* session::init(): what is not a manifest throws before anything is assigned.
SessionInit(s, c) == IF InitThrows(c) THEN document ELSE [document EXCEPT ![s] = c]

\* Calls in progress on a session: those that will write its document, and those that
\* read it.
Uses(f, s) == session[Request(f)] = s
Writing(s) == {f \in Fields : Uses(f, s) /\ cpc[f] = "init" /\ ~InitThrows(Cube(f))}
Reading(s) == {f \in Fields : Uses(f, s) /\ lpc[f] = "read"}
Racing(s)  == {f \in Writing(s) \cup Reading(s) : Writing(s) \ {f} # {}}

\* session::query_manifest() looks in the document, or in one that is being written.
Found(f) == {Document(f)} \cup {Cube(g) : g \in Writing(session[Request(f)])}

\* session_plan_query(): the message of basicQuery() carries the manifest of its cube,
\* and plan_query() reads nothing else; any exception becomes an error.
Planned(f) == {Cube(f), "null"}
-----------------------------------------------------------------------------
\* Mutant: the pool makes no new sessions.
GetPooledOnly(r) ==
    /\ server = "up" /\ rpc[r] = "new"
    /\ rpc' = [rpc EXCEPT ![r] = "exec"]
    /\ session' = [session EXCEPT ![r] = IF pool = {} THEN None ELSE CHOOSE s \in pool : TRUE]
    /\ pool' = pool \ {session'[r]}
    /\ UNCHANGED <<document, resolver, server>>

\* queryEngine.Get(): a pooled session, which keeps its document, or a new one.
Get(r) ==
    /\ server = "up" /\ rpc[r] = "new"
    /\ \E s \in Sessions \ Held :
          /\ session' = [session EXCEPT ![r] = s]
          /\ pool' = pool \ {s}
          /\ document' = IF s \in pool THEN document ELSE New(s)
    /\ rpc' = [rpc EXCEPT ![r] = "exec"]
    /\ UNCHANGED <<resolver, server>>

\* The garbage collector of Go empties the pool.
Evict ==
    /\ server = "up" /\ pool # {}
    /\ pool' = {}
    /\ UNCHANGED <<rpc, session, document, resolver, server>>

Ended(f) ==
    \/ cpc[f] = "failed"
    \/ cpc[f] = "resolved" /\ lpc[f] = "done" /\ plan[f] # "wait"

\* Mutant: the session is given back when the cubes are resolved.
PutEarly(r) ==
    /\ server = "up" /\ rpc[r] = "exec"
    /\ \A f \in Fields : Request(f) = r => cpc[f] \in {"failed", "resolved"}
    /\ rpc' = [rpc EXCEPT ![r] = "answered"]
    /\ pool' = pool \cup {session[r]}
    /\ UNCHANGED <<session, document, resolver, server>>

\* schema.Exec() waits for every resolver; then the deferred Put, and the answer.
Put(r) ==
    /\ server = "up" /\ rpc[r] = "exec"
    /\ \A f \in Fields : Request(f) = r => Ended(f)
    /\ rpc' = [rpc EXCEPT ![r] = "answered"]
    /\ pool' = pool \cup {session[r]}
    /\ UNCHANGED <<session, document, resolver, server>>
-----------------------------------------------------------------------------
\* Cube(): the manifest is read from storage, or cannot be.
GetManifest(f) ==
    /\ Running(f) /\ cpc[f] = "fetch"
    /\ \E next \in {"init", "failed"} : cpc' = [cpc EXCEPT ![f] = next]
    /\ UNCHANGED <<request, document, lpc, answer, plan, server>>

\* Cube(): InitWithManifest() returns, and the fields of the cube may be resolved.
InitWithManifest(f) ==
    /\ Running(f) /\ cpc[f] = "init"
    /\ cpc' = [cpc EXCEPT ![f] = IF InitThrows(Cube(f)) THEN "failed" ELSE "resolved"]
    /\ document' = SessionInit(session[Request(f)], Cube(f))
    /\ UNCHANGED <<request, lpc, answer, plan, server>>

\* Mutant: the fields of a cube do not wait for InitWithManifest().
LookupTooSoon(f) ==
    /\ Running(f) /\ cpc[f] \in {"init", "resolved"} /\ lpc[f] = "wait"
    /\ lpc' = [lpc EXCEPT ![f] = "read"]
    /\ UNCHANGED <<request, document, cpc, answer, plan, server>>

\* basicManifestQuery() calls into the session ...
Lookup(f) ==
    /\ server = "up" /\ cpc[f] = "resolved" /\ lpc[f] = "wait"
    /\ lpc' = [lpc EXCEPT ![f] = "read"]
    /\ UNCHANGED <<request, document, cpc, answer, plan, server>>

\* ... which answers.
QueryManifest(f) ==
    /\ server = "up" /\ lpc[f] = "read"
    /\ \E d \in Found(f) : answer' = [answer EXCEPT ![f] = d]
    /\ lpc' = [lpc EXCEPT ![f] = "done"]
    /\ UNCHANGED <<request, document, cpc, plan, server>>

\* basicQuery(): an error of the planner is a null promise.
PlanQuery(f) ==
    /\ Running(f) /\ cpc[f] = "resolved" /\ plan[f] = "wait"
    /\ \E p \in Planned(f) : plan' = [plan EXCEPT ![f] = p]
    /\ UNCHANGED <<request, document, cpc, lpc, answer, server>>

\* The race of an init() with another call may end the server.
Crash ==
    /\ server = "up" /\ \E s \in Sessions : Racing(s) # {}
    /\ server' = "down"
    /\ UNCHANGED <<request, document, resolver>>

Resolve(f) ==
    \/ GetManifest(f) \/ InitWithManifest(f)
    \/ Lookup(f) \/ QueryManifest(f)
    \/ PlanQuery(f)

Next ==
    \/ \E r \in Requests : Get(r) \/ Put(r)
    \/ \E f \in Fields : Resolve(f)
    \/ Evict
    \/ Crash

Spec == Init /\ [][Next]_vars
-----------------------------------------------------------------------------
\* Whatever the pooled session was used for before, and whatever the other resolvers of
\* the document do to it, a field is answered from a manifest that its own request has
\* read, hence from its own when the request has one cube; and a process is always
\* planned for the cube of its field ("Key misses return an empty document", query.go
\* 132: a session with no document would be silently null).
AnswersAreOwn ==
    \A f \in Fields :
        /\ lpc[f] = "done" => answer[f] \in Own(Request(f))
        /\ plan[f] \in {"wait", "null", Cube(f)}

\* A session is used by one request at a time, from the first call of its resolvers to the
\* last, and it is idle in the pool: calls that race on it are those of one request that is
\* running, and one whose document has several `cube` fields, be they for one cube or for
\* several ("to make sure they get put back in the pool", graphql.go 514-516; init and
\* query_manifest, plan.cpp 577-623).
RacesStayInRequest ==
    \A s \in Sessions :
        /\ s \in pool => Writing(s) \cup Reading(s) = {}
        /\ Racing(s) # {} =>
              \E r \in Requests : /\ rpc[r] = "exec" /\ Len(Asks[r]) > 1
                                  /\ \A f \in Racing(s) : Request(f) = r
=============================================================================

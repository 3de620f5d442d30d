----------------------------- MODULE HttpReads -----------------------------
(***************************************************************************)
(* The HTTP readers of keys and operators (http/keys, http/sr-modules-keys,*)
(* http/sr-modules-operators, http/sr-modules-operators-keys) beside the   *)
(* keys job that commits one snapshot after another.                       *)
(*                                                                         *)
(* A snapshot is a committed round of the keys job: modules, keys, meta.   *)
(* Snapshot 0 is the empty database. A handler is several awaits: it reads *)
(* modules and meta, then the rows of one module after another, either by  *)
(* a query each or as a stream of rows. REPEATABLE READ fixes the snapshot *)
(* at the first query of the transaction. A row is named by its module, the*)
(* snapshot it was read from and its place in the query's result.          *)
(***************************************************************************)
EXTENDS Naturals

CONSTANTS Clients,        \* each sends one request after another
          Modules,        \* all staking modules there will ever be
          Served,         \* the endpoints the clients ask
          MaxSnapshot,    \* bound: the keys job commits this often
          ModulesAt(_),   \* modules of a snapshot
          RowCount(_,_,_) \* rows an endpoint's query finds in a snapshot for a module

VARIABLES head,    \* the last committed snapshot
          req,     \* the request of each client
          cache    \* response cache, by URL

vars == <<head, req, cache>>

Snapshots == 0..MaxSnapshot
NoModule == "none"

(***************************************************************************)
(* Endpoints, and what sets them apart.                                    *)
(***************************************************************************)
\* GET /v1/keys
ListKeys == {"keys"}
\* GET /v1/modules/:id/keys
ModuleKeys == {"moduleKeys"}
\* GET /v1/modules/:id/operators/keys
OperatorsKeys == {"operatorsKeys"}
\* GET /v2/modules/operators/keys: the stream is sent before anything is read
RepliesFirst == {"v2"}
\* GET /v1/keys/:pubkey
ByPubkey == {"pubkey"}
\* POST /v1/keys/find
ByPubkeys == {"findKeys"}
\* POST /v1/modules/:id/keys/find
ModuleKeysByPubkeys == {"findModuleKeys"}
\* GET /v1/operators
AllOperators == {"operators"}
\* GET /v1/modules/:id/operators and .../operators/:index
ModuleOperators == {"moduleOperators", "moduleOperator"}
\* GET /v1/modules/keys: no transaction around the handler
Grouped == {"grouped"}

Streamed == ListKeys \cup ModuleKeys \cup OperatorsKeys \cup RepliesFirst
OneModule == ModuleKeys \cup OperatorsKeys \cup ModuleKeysByPubkeys \cup ModuleOperators
EmptyIsNotFound == ByPubkey \cup {"moduleOperator"}

\* The interceptor caches GET; the streams are marked @SkipCache.
Cached == ByPubkey \cup AllOperators \cup ModuleOperators \cup Grouped

Endpoints == Streamed \cup OneModule \cup Cached \cup ByPubkeys

\* ?moduleAddresses of /v1/keys and :module_id choose modules; the rest ask all.
AskedBy(e) ==
    CASE e \in ListKeys  -> SUBSET Modules
      [] e \in OneModule -> {{m} : m \in Modules}
      [] OTHER           -> {Modules}

Urls == {u \in Served \X SUBSET Modules : u[2] \in AskedBy(u[1])}

ASSUME ReadsAssumption ==
    /\ MaxSnapshot \in Nat
    /\ NoModule \notin Modules
    /\ Served \subseteq Endpoints
    /\ \A s \in Snapshots : ModulesAt(s) \subseteq Modules
    /\ ModulesAt(0) = {}
    /\ \A e \in Endpoints, s \in Snapshots, m \in Modules : RowCount(e, s, m) \in Nat

\* Along the rounds of the keys job modules are only added (KeysUpdate: a
\* shorter list ends the process instead of being stored).
ASSUME ModulesStay ==
    \A s, t \in Snapshots : s <= t => ModulesAt(s) \subseteq ModulesAt(t)

Rows(e, s, m) == {[module |-> m, of |-> s, index |-> i] : i \in 1..RowCount(e, s, m)}

\* The modules a request is about, and all it should be answered, at snapshot s.
Targets(asked, s) == asked \cap ModulesAt(s)
Full(e, asked, s) == UNION {Rows(e, s, m) : m \in Targets(asked, s)}

(***************************************************************************)
(* A request.                                                              *)
(***************************************************************************)
Row == [module : Modules, of : Snapshots, index : Nat \ {0}]
\* "none" until it has ended; "ok" a whole body; "broken" a body that was cut
\* after the status 200; the rest are statuses 425, 404 and 500.
Outcomes == {"none", "ok", "broken", "tooEarly", "notFound", "error"}

Request ==
    [pc       : {"begin", "operators", "read", "ended"},
     endpoint : Served,
     asked    : SUBSET Modules,
     view     : Snapshots,       \* snapshot of modules and meta: the reply's elBlockSnapshot
     left     : SUBSET Modules,  \* modules not read completely
     now      : Modules \cup {NoModule},  \* whose stream is open
     sent     : Nat,             \* rows of it written so far
     body     : SUBSET Row,
     outcome  : Outcomes,
     stuck    : BOOLEAN,         \* the database has stopped answering
     arrived  : Snapshots,       \* history: the head when it came
     failed   : BOOLEAN]         \* history: a query, a stream or the process failed

NoRequest == [pc |-> "idle"]

\* What the cache keeps of a reply.
Reply == [outcome : Outcomes, view : Snapshots, body : SUBSET Row]
NoEntry == [outcome |-> "none", view |-> 0, body |-> {}]
ReplyOf(q) == [outcome |-> q.outcome, view |-> q.view, body |-> q.body]

TypeOK ==
    /\ head \in Snapshots
    /\ req \in [Clients -> Request \cup {NoRequest}]
    /\ cache \in [Urls -> Reply]

Init ==
    /\ head = 0
    /\ req = [c \in Clients |-> NoRequest]
    /\ cache = [u \in Urls |-> NoEntry]

Active(c) == req[c].pc \in {"begin", "operators", "read"}
Reading(c) == req[c].pc = "read" /\ ~req[c].stuck
Url(q) == <<q.endpoint, q.asked>>

\* Mutant of Seen: the controller has no transaction, only the service it calls.
SeenAfterService(q) == head

\* The snapshot a query sees: that of the transaction, or whatever is committed.
Seen(q) == IF q.endpoint \in Grouped THEN head ELSE q.view

\* The request of c goes on as q, and nothing else changes.
GoesOn(c, q) ==
    /\ req' = [req EXCEPT ![c] = q]
    /\ UNCHANGED <<head, cache>>

Ended(q, outcome) == [q EXCEPT !.pc = "ended", !.outcome = outcome]

\* How a request ends that cannot be answered: a status as long as none was
\* sent, a stream destroyed without its closing bracket after that.
StatusSent(q) ==
    \/ q.endpoint \in RepliesFirst
    \/ q.endpoint \in Streamed /\ q.pc = "read"

\* Mutant of Cut: the catch ends the stream instead of destroying it.
CutWithEnd(q, status) == Ended(q, IF StatusSent(q) THEN "ok" ELSE status)

Cut(q, status) ==
    Ended(q, IF StatusSent(q) THEN "broken" ELSE status)

----------------------------------------------------------------------------
(***************************************************************************)
(* The keys job commits a round.                                           *)
(***************************************************************************)
CommitSnapshot ==
    /\ head < MaxSnapshot
    /\ head' = head + 1
    /\ UNCHANGED <<req, cache>>

(***************************************************************************)
(* The client sends a request; the interceptor looks into the cache first. *)
(***************************************************************************)
NewRequest(e, asked) ==
    [pc |-> "begin", endpoint |-> e, asked |-> asked, view |-> 0, left |-> {},
     now |-> NoModule, sent |-> 0, body |-> {}, outcome |-> "none", stuck |-> FALSE,
     arrived |-> head, failed |-> FALSE]

Arrive(c) ==
    /\ ~Active(c)
    /\ \E u \in Urls :
         LET q == NewRequest(u[1], u[2])
         IN  \/ /\ cache[u] = NoEntry
                /\ GoesOn(c, q)
             \/ /\ cache[u] # NoEntry
                /\ GoesOn(c, [Ended(q, cache[u].outcome) EXCEPT !.view = cache[u].view,
                                                               !.body = cache[u].body])

(***************************************************************************)
(* getStakingModulesAndMeta, getStakingModuleAndMeta: modules and meta in  *)
(* one REPEATABLE READ transaction, which is part of the handler's own if  *)
(* there is one. Modules are looked at before meta.                        *)
(***************************************************************************)
ModuleUnknown(q) == q.endpoint \in OneModule /\ Targets(q.asked, head) = {}

MetaIsNull == head = 0

AfterMeta(q) == IF q.endpoint \in OperatorsKeys THEN "operators" ELSE "read"

Refusal(q) == IF ModuleUnknown(q) THEN "notFound" ELSE "tooEarly"

Refuse(c) ==
    /\ req[c].pc = "begin"
    /\ ~req[c].stuck
    /\ ModuleUnknown(req[c]) \/ MetaIsNull
    /\ GoesOn(c, Cut([req[c] EXCEPT !.view = head], Refusal(req[c])))

Open(c) ==
    /\ req[c].pc = "begin"
    /\ ~req[c].stuck
    /\ ~ModuleUnknown(req[c])
    /\ ~MetaIsNull
    /\ GoesOn(c, [req[c] EXCEPT !.pc = AfterMeta(req[c]), !.view = head,
                                !.left = Targets(req[c].asked, head)])

(***************************************************************************)
(* GET /v1/modules/:id/operators/keys awaits the operators before it sends *)
(* the stream: a plain query without idle timer, inside the transaction.   *)
(* (The operators themselves are not among the rows; v2 streams them.)     *)
(***************************************************************************)
FindOperators(c) ==
    /\ req[c].pc = "operators"
    /\ ~req[c].stuck
    /\ GoesOn(c, [req[c] EXCEPT !.pc = "read"])

(***************************************************************************)
(* One query for the rows of a module.                                     *)
(***************************************************************************)
ReadModule(c) ==
    /\ Reading(c)
    /\ req[c].endpoint \notin Streamed
    /\ \E m \in req[c].left :
         GoesOn(c, [req[c] EXCEPT !.left = @ \ {m},
                                  !.body = @ \cup Rows(req[c].endpoint, Seen(req[c]), m)])

(***************************************************************************)
(* The stream of a module's rows is opened by the first next() on its      *)
(* generator, each row is written to the reply, the next module follows.   *)
(* Opening it and the closing bracket wait for nothing.                    *)
(***************************************************************************)
OpenStream(c) ==
    /\ req[c].pc = "read"
    /\ req[c].endpoint \in Streamed
    /\ req[c].now = NoModule
    /\ \E m \in req[c].left : GoesOn(c, [req[c] EXCEPT !.now = m, !.sent = 0])

\* Mutant of StreamedRow: the first row of a stream is row 0.
StreamedRowFromZero(q) == [module |-> q.now, of |-> Seen(q), index |-> q.sent]

StreamedRow(q) == [module |-> q.now, of |-> Seen(q), index |-> q.sent + 1]

WriteRow(c) ==
    /\ Reading(c)
    /\ req[c].now # NoModule
    /\ req[c].sent < RowCount(req[c].endpoint, Seen(req[c]), req[c].now)
    /\ GoesOn(c, [req[c] EXCEPT !.sent = @ + 1, !.body = @ \cup {StreamedRow(req[c])}])

CloseStream(c) ==
    /\ Reading(c)
    /\ req[c].now # NoModule
    /\ req[c].sent = RowCount(req[c].endpoint, Seen(req[c]), req[c].now)
    /\ GoesOn(c, [req[c] EXCEPT !.left = @ \ {req[c].now}, !.now = NoModule])

(***************************************************************************)
(* Everything is read: the stream gets its closing bracket, or the         *)
(* transaction commits and the handler returns. What a GET handler returns *)
(* is cached, what it throws is not.                                       *)
(***************************************************************************)
AllRead(c) ==
    /\ req[c].pc = "read"
    /\ req[c].left = {}
    /\ req[c].endpoint \in Streamed \/ ~req[c].stuck

FoundNothing(q) == q.endpoint \in EmptyIsNotFound /\ q.body = {}

\* Mutant of Finish: the meta is read when everything else was.
FinishMetaLast(c) ==
    /\ AllRead(c)
    /\ ~FoundNothing(req[c])
    /\ GoesOn(c, [Ended(req[c], "ok") EXCEPT !.view = head])

Finish(c) ==
    /\ AllRead(c)
    /\ ~FoundNothing(req[c])
    /\ req' = [req EXCEPT ![c] = Ended(@, "ok")]
    /\ cache' = IF req[c].endpoint \in Cached
                THEN [cache EXCEPT ![Url(req[c])] = ReplyOf(Ended(req[c], "ok"))]
                ELSE cache
    /\ UNCHANGED head

FinishEmpty(c) ==
    /\ AllRead(c)
    /\ FoundNothing(req[c])
    /\ GoesOn(c, Ended(req[c], "notFound"))

(***************************************************************************)
(* Failures.                                                               *)
(***************************************************************************)
\* A query throws: the handler's catch destroys the stream; without a stream
\* the exception becomes status 500.
QueryFails(c) ==
    /\ Active(c)
    /\ GoesOn(c, Cut([req[c] EXCEPT !.failed = TRUE], "error"))

\* The database stops answering; it may go on later.
Stall(c) ==
    /\ Active(c)
    /\ ~req[c].stuck
    /\ GoesOn(c, [req[c] EXCEPT !.stuck = TRUE])

GoOn(c) ==
    /\ Active(c)
    /\ req[c].stuck
    /\ GoesOn(c, [req[c] EXCEPT !.stuck = FALSE])

\* Mutant of StreamTimeout: the timer is cleared by the first row and not set again.
StreamTimeoutOnce(c) ==
    /\ Active(c)
    /\ req[c].now # NoModule
    /\ req[c].sent = 0
    /\ GoesOn(c, Cut([req[c] EXCEPT !.failed = TRUE], "error"))

\* addTimeoutToStream: no row for STREAM_TIMEOUT destroys the stream with an
\* error, which the for await of the handler throws. Only streams have it. How
\* long a row takes is the database's affair, so it may be due at any row.
StreamTimeout(c) ==
    /\ Active(c)
    /\ req[c].now # NoModule
    /\ GoesOn(c, Cut([req[c] EXCEPT !.failed = TRUE], "error"))

\* GLOBAL_CACHE_TTL is over.
Expire ==
    /\ \E u \in Urls : cache[u] # NoEntry /\ cache' = [cache EXCEPT ![u] = NoEntry]
    /\ UNCHANGED <<head, req>>

\* The process exits (see Watchdog) and starts again: connections break, the
\* cache was in its memory.
Restart ==
    /\ \E c \in Clients : Active(c)
    /\ req' = [c \in Clients |->
                 IF Active(c) THEN Cut([req[c] EXCEPT !.failed = TRUE], "error") ELSE req[c]]
    /\ cache' = [u \in Urls |-> NoEntry]
    /\ UNCHANGED head

----------------------------------------------------------------------------
\* The handler of c makes a step of its own.
Handle(c) ==
    \/ Refuse(c) \/ Open(c) \/ FindOperators(c)
    \/ ReadModule(c) \/ OpenStream(c) \/ WriteRow(c) \/ CloseStream(c)
    \/ Finish(c) \/ FinishEmpty(c)

Next ==
    \/ CommitSnapshot
    \/ Expire
    \/ Restart
    \/ \E c \in Clients :
         Arrive(c) \/ Handle(c) \/ QueryFails(c) \/ Stall(c) \/ GoOn(c) \/ StreamTimeout(c)

Spec == Init /\ [][Next]_vars

\* Handlers whose database answers go on, and idle timers of streams are due.
FairSpec == Spec /\ \A c \in Clients : WF_vars(Handle(c)) /\ WF_vars(StreamTimeout(c))

----------------------------------------------------------------------------
(***************************************************************************)
(* Properties.                                                             *)
(***************************************************************************)
Complete(c) == req[c].pc = "ended" /\ req[c].outcome = "ok"

\* A reply that looks whole is whole: every row of every module it is about, at
\* the snapshot named by its elBlockSnapshot; and unless it came from the cache
\* that snapshot is not older than the request. (transactional in the controllers
\* of streams and in the services of the other handlers; destroy on errors.)
CompleteRepliesAreSnapshots ==
    \A c \in Clients :
        Complete(c) /\ req[c].endpoint \notin Grouped =>
            /\ req[c].body = Full(req[c].endpoint, req[c].asked, req[c].view)
            /\ req[c].view \in 1..head
            /\ req[c].endpoint \notin Cached => req[c].arrived <= req[c].view

\* Every row written to a stream, whether the stream ends well or is cut, belongs
\* to the snapshot whose block was announced before the rows.
StreamedRowsBelongToMeta ==
    \A c \in Clients :
        req[c].pc \in {"read", "ended"} /\ req[c].endpoint \in Streamed =>
            req[c].body \subseteq Full(req[c].endpoint, req[c].asked, req[c].view)

\* GET /v1/modules/keys reads each module at a moment of its own: each module's
\* keys are whole and not older than the block the reply names.
GroupedKeysNotOlder ==
    \A c \in Clients :
        Complete(c) /\ req[c].endpoint \in Grouped =>
            /\ req[c].view \in 1..head
            /\ \A m \in Targets(req[c].asked, req[c].view) :
                 \E s \in req[c].view..head :
                    {row \in req[c].body : row.module = m} = Rows(req[c].endpoint, s, m)

\* Once the database was filled no request is told that it came too early, and a
\* module that is stored is never unknown, whatever was answered, and cached, before.
ReadyIsServed ==
    \A c \in Clients :
        req[c].pc = "ended" /\ req[c].arrived >= 1 =>
            /\ req[c].outcome # "tooEarly"
            /\ req[c].outcome = "notFound" /\ req[c].endpoint \notin EmptyIsNotFound =>
                 Targets(req[c].asked, req[c].arrived) = {}

\* A stream that was announced always comes to an end, also when the database
\* stops answering in the middle: the idle timer of the rows cuts it. The queries
\* before the status 200 have no timer, so nothing is said of a request that has
\* not come so far.
StreamsEnd ==
    \A c \in Clients :
        (req[c].pc = "read" /\ req[c].endpoint \in Streamed) ~> (req[c].pc = "ended")

=============================================================================

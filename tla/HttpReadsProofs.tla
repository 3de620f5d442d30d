-------------------------- MODULE HttpReadsProofs --------------------------
(***************************************************************************)
(* Theorems about HttpReads for all clients, modules, snapshots and rows.  *)
(*                                                                         *)
(* The invariant follows a request: until it has read anything it knows    *)
(* nothing; while it reads, its body is exactly the rows of the modules it *)
(* has left behind and of the stream it is in, all at the snapshot fixed   *)
(* with the meta; what it returned, and what the cache kept of it, is then *)
(* the whole of that snapshot.                                             *)
(***************************************************************************)
EXTENDS HttpReads, TLAPS

USE ReadsAssumption DEF Snapshots

----------------------------------------------------------------------------
\* Rows of the modules a request has read completely, and of its open stream.
DoneRows(e, asked, s, left) == UNION {Rows(e, s, m) : m \in Targets(asked, s) \ left}
OpenRows(q) ==
    IF q.now = NoModule THEN {}
    ELSE {[module |-> q.now, of |-> q.view, index |-> i] : i \in 1..q.sent}

\* The rows of one module, at one snapshot not older than s.
RowsOf(body, m) == {row \in body : row.module = m}
WholeSince(e, s, h, body, m) == \E t \in s..h : RowsOf(body, m) = Rows(e, t, m)

ReadingInv(q, h) ==
    /\ q.view \in 1..h
    /\ q.arrived <= q.view
    /\ q.left \subseteq Targets(q.asked, q.view)
    /\ q.now # NoModule =>
         /\ q.endpoint \in Streamed
         /\ q.now \in q.left
         /\ q.sent <= RowCount(q.endpoint, q.view, q.now)
    /\ q.endpoint \notin Grouped =>
         q.body = DoneRows(q.endpoint, q.asked, q.view, q.left) \cup OpenRows(q)
    /\ q.endpoint \in Grouped =>
         /\ \A m \in q.left : RowsOf(q.body, m) = {}
         /\ \A m \in Targets(q.asked, q.view) \ q.left :
              WholeSince(q.endpoint, q.view, h, q.body, m)

\* A reply to endpoint e about the modules asked, taken by the time h is the head.
ReplyInv(e, asked, view, body, h) ==
    /\ view \in 1..h
    /\ e \notin Grouped => body = Full(e, asked, view)
    /\ e \in Grouped =>
         \A m \in Targets(asked, view) : WholeSince(e, view, h, body, m)

EndedInv(q, h) ==
    /\ q.outcome = "ok" =>
         /\ ReplyInv(q.endpoint, q.asked, q.view, q.body, h)
         /\ q.endpoint \notin Cached => q.arrived <= q.view
    /\ q.endpoint \in Streamed => q.body \subseteq Full(q.endpoint, q.asked, q.view)
    /\ q.arrived >= 1 =>
         /\ q.outcome # "tooEarly"
         /\ q.outcome = "notFound" /\ q.endpoint \notin EmptyIsNotFound =>
              Targets(q.asked, q.arrived) = {}

RequestInv(q, h) ==
    /\ q \in Request
    /\ q.arrived <= h
    /\ q.pc = "begin" => q.now = NoModule /\ q.body = {} /\ q.left = {}
    /\ q.pc \in {"operators", "read"} => ReadingInv(q, h)
    /\ q.pc = "ended" => EndedInv(q, h)

EntryInv(u, h) ==
    cache[u] # NoEntry =>
        /\ cache[u].outcome = "ok"
        /\ u[1] \in Cached
        /\ ReplyInv(u[1], u[2], cache[u].view, cache[u].body, h)

IInv ==
    /\ TypeOK
    /\ \A c \in Clients : req[c] # NoRequest => RequestInv(req[c], head)
    /\ \A u \in Urls : EntryInv(u, head)

----------------------------------------------------------------------------
\* What the constants are.
LEMMA Kinds ==
    /\ MaxSnapshot \in Nat
    /\ NoModule \notin Modules
    /\ Served \subseteq Endpoints
    /\ RepliesFirst \subseteq Streamed
    /\ Streamed \cap Cached = {}
    /\ Streamed \cap Grouped = {}
    /\ Streamed \cap EmptyIsNotFound = {}
    /\ \A s \in Snapshots : ModulesAt(s) \subseteq Modules
    /\ \A e \in Endpoints, s \in Snapshots, m \in Modules : RowCount(e, s, m) \in Nat
BY DEF Streamed, ListKeys, ModuleKeys, OperatorsKeys, RepliesFirst, Cached, ByPubkey,
       AllOperators, ModuleOperators, Grouped, EmptyIsNotFound

LEMMA RowsType ==
    ASSUME NEW e \in Endpoints, NEW s \in Snapshots, NEW m \in Modules
    PROVE  /\ Rows(e, s, m) \subseteq Row
           /\ \A row \in Rows(e, s, m) : row.module = m
BY Kinds DEF Rows, Row

LEMMA FullType ==
    ASSUME NEW e \in Endpoints, NEW s \in Snapshots, NEW asked \in SUBSET Modules
    PROVE  /\ Targets(asked, s) \subseteq Modules
           /\ Full(e, asked, s) \subseteq Row
BY RowsType DEF Full, Targets

\* Another module is done.
LEMMA DoneRowsStep ==
    ASSUME NEW e, NEW asked, NEW s, NEW left, NEW m \in left, left \subseteq Targets(asked, s)
    PROVE  DoneRows(e, asked, s, left \ {m}) = DoneRows(e, asked, s, left) \cup Rows(e, s, m)
<1>1. Targets(asked, s) \ (left \ {m}) = (Targets(asked, s) \ left) \cup {m}
  OBVIOUS
<1> QED
  BY <1>1 DEF DoneRows

LEMMA DoneRowsEnds ==
    ASSUME NEW e, NEW asked, NEW s
    PROVE  /\ DoneRows(e, asked, s, Targets(asked, s)) = {}
           /\ DoneRows(e, asked, s, {}) = Full(e, asked, s)
BY DEF DoneRows, Full

LEMMA DoneRowsInFull ==
    ASSUME NEW e, NEW asked, NEW s, NEW left
    PROVE  DoneRows(e, asked, s, left) \subseteq Full(e, asked, s)
BY DEF DoneRows, Full

\* The head moves on: what a request knows stays true.
LEMMA Later ==
    ASSUME NEW h \in Snapshots, h < MaxSnapshot, NEW q, RequestInv(q, h)
    PROVE  RequestInv(q, h + 1)
<1> USE Kinds
<1>1. /\ q \in Request
      /\ q.arrived \in Nat /\ q.view \in Nat
      /\ h \in Nat
  BY DEF RequestInv, Request
<1>2. \A e, m, v, body : v \in Nat /\ WholeSince(e, v, h, body, m)
                            => WholeSince(e, v, h + 1, body, m)
  BY <1>1 DEF WholeSince
<1>3. ReadingInv(q, h) => ReadingInv(q, h + 1)
  BY <1>1, <1>2 DEF ReadingInv
<1>4. EndedInv(q, h) => EndedInv(q, h + 1)
  BY <1>1, <1>2 DEF EndedInv, ReplyInv
<1> QED
  BY <1>1, <1>3, <1>4 DEF RequestInv

\* The same for what the cache holds.
LEMMA ReplyLater ==
    ASSUME NEW h \in Nat, NEW e, NEW asked, NEW view \in Nat, NEW body,
           ReplyInv(e, asked, view, body, h)
    PROVE  ReplyInv(e, asked, view, body, h + 1)
BY DEF ReplyInv, WholeSince

\* A request that is under way is a record of a request.
LEMMA ActiveRequest ==
    ASSUME IInv, NEW c \in Clients, req[c].pc # "idle"
    PROVE  /\ req[c] \in Request
           /\ RequestInv(req[c], head)
           /\ req[c].endpoint \in Endpoints
           /\ req[c].asked \subseteq Modules
<1>1. req[c] \in Request \cup {NoRequest}
  BY DEF IInv, TypeOK
<1>2. req[c] # NoRequest
  BY DEF NoRequest
<1> QED
  BY <1>1, <1>2, Kinds DEF IInv, Request

\* A step that only changes one request keeps everything if it keeps that request.
LEMMA GoesOnKeeps ==
    ASSUME IInv, NEW c \in Clients, NEW q, RequestInv(q, head), GoesOn(c, q)
    PROVE  IInv'
<1>1. req' = [req EXCEPT ![c] = q] /\ head' = head /\ cache' = cache
  BY DEF GoesOn
<1>2. q \in Request
  BY DEF RequestInv
<1>3. TypeOK'
  BY <1>1, <1>2 DEF IInv, TypeOK
<1>4. \A d \in Clients : req'[d] = IF d = c THEN q ELSE req[d]
  BY <1>1 DEF IInv, TypeOK
<1>5. \A d \in Clients : req'[d] # NoRequest => RequestInv(req'[d], head')
  BY <1>1, <1>4 DEF IInv
<1>6. \A u \in Urls : EntryInv(u, head)'
  BY <1>1 DEF IInv, EntryInv
<1> QED
  BY <1>3, <1>5, <1>6 DEF IInv

----------------------------------------------------------------------------
\* A request arrives, and is answered from the cache or goes on to the handler.
LEMMA ArriveKeeps ==
    ASSUME IInv, NEW c \in Clients, Arrive(c)
    PROVE  IInv'
<1> USE Kinds
<1>1. head \in Snapshots /\ head \in Nat /\ cache \in [Urls -> Reply]
  BY DEF IInv, TypeOK
<1> PICK u \in Urls :
      LET q == NewRequest(u[1], u[2])
      IN  \/ /\ cache[u] = NoEntry
             /\ GoesOn(c, q)
          \/ /\ cache[u] # NoEntry
             /\ GoesOn(c, [Ended(q, cache[u].outcome) EXCEPT !.view = cache[u].view,
                                                            !.body = cache[u].body])
  BY DEF Arrive
<1> DEFINE q == NewRequest(u[1], u[2])
           r == [Ended(q, cache[u].outcome) EXCEPT !.view = cache[u].view,
                                                   !.body = cache[u].body]
<1>2. u[1] \in Served /\ u[2] \in SUBSET Modules
  BY DEF Urls
<1>3. CASE GoesOn(c, q)
  <2>1. q \in Request /\ q.pc = "begin" /\ q.arrived = head /\ q.now = NoModule
        /\ q.body = {} /\ q.left = {}
    BY <1>1, <1>2 DEF NewRequest, Request, Outcomes
  <2>2. RequestInv(q, head)
    BY <2>1, <1>1 DEF RequestInv
  <2> QED
    BY <1>3, <2>2, GoesOnKeeps
<1>4. CASE cache[u] # NoEntry /\ GoesOn(c, r)
  <2>1. cache[u] \in Reply
    BY <1>1
  <2>2. /\ cache[u].outcome = "ok"
        /\ u[1] \in Cached
        /\ ReplyInv(u[1], u[2], cache[u].view, cache[u].body, head)
    BY <1>4 DEF IInv, EntryInv
  <2>3. /\ r \in Request
        /\ r.pc = "ended" /\ r.arrived = head /\ r.outcome = "ok"
        /\ r.endpoint = u[1] /\ r.asked = u[2]
        /\ r.view = cache[u].view /\ r.body = cache[u].body
    BY <1>1, <1>2, <2>1, <2>2 DEF NewRequest, Ended, Request, Reply, Outcomes
  <2>4. EndedInv(r, head)
    BY <2>2, <2>3 DEF EndedInv
  <2>5. RequestInv(r, head)
    BY <1>1, <2>3, <2>4 DEF RequestInv
  <2> QED
    BY <1>4, <2>5, GoesOnKeeps
<1> QED
  BY <1>3, <1>4

\* A request that cannot be answered: what was written to its stream stays a part
\* of the snapshot, and its status says what is true of it.
LEMMA CutKeeps ==
    ASSUME NEW h \in Snapshots, NEW q, RequestInv(q, h),
           q.pc \in {"begin", "operators", "read"},
           NEW v \in Snapshots, q.pc # "begin" => v = q.view,
           NEW f \in BOOLEAN,
           NEW status \in {"error", "tooEarly", "notFound"},
           status = "tooEarly" => q.arrived = 0,
           status = "notFound" => Targets(q.asked, q.arrived) = {}
    PROVE  RequestInv(Cut([q EXCEPT !.view = v, !.failed = f], status), h)
<1> USE Kinds
<1> DEFINE r == Cut([q EXCEPT !.view = v, !.failed = f], status)
<1>1. q \in Request /\ q.arrived <= h
  BY DEF RequestInv
<1>2. /\ r \in Request
      /\ r.pc = "ended" /\ r.outcome \in {"broken", status}
      /\ r.endpoint = q.endpoint /\ r.asked = q.asked
      /\ r.view = v /\ r.body = q.body /\ r.arrived = q.arrived
  BY <1>1 DEF Cut, Ended, Request, Outcomes
<1>3. q.endpoint \in Streamed => q.body \subseteq Full(q.endpoint, q.asked, v)
  <2>1. CASE q.pc = "begin"
    BY <2>1 DEF RequestInv
  <2>2. CASE q.pc \in {"operators", "read"} /\ q.endpoint \in Streamed
    <3>1. ReadingInv(q, h) /\ v = q.view
      BY <2>2 DEF RequestInv
    <3>2. q.body = DoneRows(q.endpoint, q.asked, q.view, q.left) \cup OpenRows(q)
      BY <2>2, <3>1 DEF ReadingInv
    <3>3. OpenRows(q) \subseteq Full(q.endpoint, q.asked, q.view)
      <4>1. CASE q.now = NoModule
        BY <4>1 DEF OpenRows
      <4>2. CASE q.now # NoModule
        <5>1. /\ q.now \in Targets(q.asked, q.view)
              /\ q.sent \in Nat
              /\ RowCount(q.endpoint, q.view, q.now) \in Nat
              /\ q.sent <= RowCount(q.endpoint, q.view, q.now)
          BY <1>1, <3>1, <4>2 DEF ReadingInv, Request
        <5>2. 1..q.sent \subseteq 1..RowCount(q.endpoint, q.view, q.now)
          BY <5>1
        <5>3. OpenRows(q) \subseteq Rows(q.endpoint, q.view, q.now)
          BY <4>2, <5>2 DEF OpenRows, Rows
        <5> QED
          BY <5>1, <5>3 DEF Full
      <4> QED
        BY <4>1, <4>2
    <3> QED
      BY <3>1, <3>2, <3>3, DoneRowsInFull
  <2> QED
    BY <2>1, <2>2
<1>4. EndedInv(r, h)
  BY <1>1, <1>2, <1>3 DEF EndedInv, Request
<1> QED
  BY <1>1, <1>2, <1>4 DEF RequestInv

LEMMA RefuseKeeps ==
    ASSUME IInv, NEW c \in Clients, Refuse(c)
    PROVE  IInv'
<1> USE Kinds
<1> DEFINE q == req[c]
           r == Cut([q EXCEPT !.view = head], Refusal(q))
<1>1. q.pc = "begin" /\ GoesOn(c, r) /\ (ModuleUnknown(q) \/ MetaIsNull)
  BY DEF Refuse
<1>2. q \in Request /\ RequestInv(q, head) /\ head \in Snapshots
  BY <1>1, ActiveRequest DEF IInv, TypeOK
<1>3. q.arrived \in Snapshots /\ q.arrived <= head
  BY <1>2 DEF RequestInv, Request
<1>4. Refusal(q) = "tooEarly" => q.arrived = 0
  BY <1>1, <1>3 DEF Refusal, MetaIsNull
<1>5. Refusal(q) = "notFound" => Targets(q.asked, q.arrived) = {}
  BY <1>2, <1>3, ModulesStay DEF Refusal, ModuleUnknown, Targets
<1>6. r = Cut([q EXCEPT !.view = head, !.failed = q.failed], Refusal(q))
  BY <1>2 DEF Request
<1>7. RequestInv(r, head)
  BY <1>1, <1>2, <1>4, <1>5, <1>6, CutKeeps DEF Refusal, Request
<1> QED
  BY <1>1, <1>7, GoesOnKeeps

LEMMA FailureKeeps ==
    ASSUME IInv, NEW c \in Clients, QueryFails(c) \/ StreamTimeout(c)
    PROVE  IInv'
<1> DEFINE q == req[c]
           r == Cut([q EXCEPT !.failed = TRUE], "error")
<1>1. q.pc \in {"begin", "operators", "read"} /\ GoesOn(c, r)
  BY DEF QueryFails, StreamTimeout, Active
<1>2. q \in Request /\ RequestInv(q, head) /\ head \in Snapshots
  BY <1>1, ActiveRequest DEF IInv, TypeOK
<1>3. r = Cut([q EXCEPT !.view = q.view, !.failed = TRUE], "error") /\ q.view \in Snapshots
  BY <1>2 DEF Request
<1>4. RequestInv(r, head)
  BY <1>1, <1>2, <1>3, CutKeeps
<1> QED
  BY <1>1, <1>4, GoesOnKeeps

LEMMA StallKeeps ==
    ASSUME IInv, NEW c \in Clients, Stall(c) \/ GoOn(c)
    PROVE  IInv'
<1> DEFINE q == req[c]
<1>1. PICK b \in BOOLEAN : q.pc \in {"begin", "operators", "read"} /\ GoesOn(c, [q EXCEPT !.stuck = b])
  BY DEF Stall, GoOn, Active
<1> DEFINE r == [q EXCEPT !.stuck = b]
<1>2. q \in Request /\ RequestInv(q, head)
  BY <1>1, ActiveRequest
<1>3. /\ r \in Request
      /\ r.pc = q.pc /\ r.endpoint = q.endpoint /\ r.asked = q.asked /\ r.view = q.view
      /\ r.left = q.left /\ r.now = q.now /\ r.sent = q.sent /\ r.body = q.body
      /\ r.arrived = q.arrived
  BY <1>2 DEF Request
<1>4. ReadingInv(q, head) => ReadingInv(r, head)
  BY <1>3 DEF ReadingInv, OpenRows
<1>5. RequestInv(r, head)
  BY <1>1, <1>2, <1>3, <1>4 DEF RequestInv
<1> QED
  BY <1>1, <1>5, GoesOnKeeps

----------------------------------------------------------------------------
\* The steps of the handler.
LEMMA OpenKeeps ==
    ASSUME IInv, NEW c \in Clients, Open(c)
    PROVE  IInv'
<1> USE Kinds
<1> DEFINE q == req[c]
           r == [q EXCEPT !.pc = AfterMeta(q), !.view = head, !.left = Targets(q.asked, head)]
<1>1. q.pc = "begin" /\ head # 0 /\ GoesOn(c, r)
  BY DEF Open, MetaIsNull
<1>2. /\ q \in Request /\ RequestInv(q, head) /\ head \in Snapshots
      /\ q.asked \in SUBSET Modules
  BY <1>1, ActiveRequest DEF IInv, TypeOK
<1>3. q.arrived <= head /\ q.now = NoModule /\ q.body = {}
  BY <1>1, <1>2 DEF RequestInv
<1>4. Targets(q.asked, head) \subseteq Modules
  BY <1>2 DEF Targets
<1>5. /\ r \in Request
      /\ r.pc \in {"operators", "read"} /\ r.view = head /\ r.left = Targets(q.asked, head)
      /\ r.endpoint = q.endpoint /\ r.asked = q.asked /\ r.now = NoModule /\ r.body = {}
      /\ r.arrived = q.arrived
  BY <1>2, <1>3, <1>4 DEF AfterMeta, Request
<1>6. ReadingInv(r, head)
  <2>1. DoneRows(r.endpoint, r.asked, r.view, r.left) = {} /\ OpenRows(r) = {}
    BY <1>5, DoneRowsEnds DEF OpenRows
  <2>2. head \in 1..head
    BY <1>1, <1>2
  <2>3. \A m : RowsOf(r.body, m) = {}
    BY <1>5 DEF RowsOf
  <2> QED
    BY <1>2, <1>3, <1>5, <2>1, <2>2, <2>3 DEF ReadingInv
<1>7. RequestInv(r, head)
  BY <1>2, <1>3, <1>5, <1>6 DEF RequestInv
<1> QED
  BY <1>1, <1>7, GoesOnKeeps

\* The operators that are sent before the stream change nothing it is about.
LEMMA FindOperatorsKeeps ==
    ASSUME IInv, NEW c \in Clients, FindOperators(c)
    PROVE  IInv'
<1> DEFINE q == req[c]
           r == [q EXCEPT !.pc = "read"]
<1>1. q.pc = "operators" /\ GoesOn(c, r)
  BY DEF FindOperators
<1>2. q \in Request /\ RequestInv(q, head)
  BY <1>1, ActiveRequest
<1>3. /\ r \in Request
      /\ r.pc = "read" /\ r.endpoint = q.endpoint /\ r.asked = q.asked /\ r.view = q.view
      /\ r.left = q.left /\ r.now = q.now /\ r.sent = q.sent /\ r.body = q.body
      /\ r.arrived = q.arrived
  BY <1>2 DEF Request
<1>4. ReadingInv(r, head)
  BY <1>1, <1>2, <1>3 DEF RequestInv, ReadingInv, OpenRows
<1>5. RequestInv(r, head)
  BY <1>2, <1>3, <1>4 DEF RequestInv
<1> QED
  BY <1>1, <1>5, GoesOnKeeps

\* What a reading request knows, with the facts every step below needs.
LEMMA ReadingRequest ==
    ASSUME IInv, NEW c \in Clients, req[c].pc = "read"
    PROVE  /\ req[c] \in Request
           /\ RequestInv(req[c], head)
           /\ ReadingInv(req[c], head)
           /\ head \in Snapshots
           /\ Seen(req[c]) \in Snapshots
           /\ Seen(req[c]) \in req[c].view..head
           /\ req[c].endpoint \notin Grouped => Seen(req[c]) = req[c].view
           /\ req[c].endpoint \in Endpoints
           /\ req[c].asked \in SUBSET Modules
           /\ Targets(req[c].asked, req[c].view) \subseteq Modules
<1> USE Kinds
<1>1. /\ req[c] \in Request /\ RequestInv(req[c], head) /\ req[c].endpoint \in Endpoints
      /\ req[c].asked \in SUBSET Modules /\ head \in Snapshots
  BY ActiveRequest DEF IInv, TypeOK
<1>2. ReadingInv(req[c], head)
  BY <1>1 DEF RequestInv
<1>3. req[c].view \in 1..head /\ req[c].view \in Snapshots
  BY <1>1, <1>2 DEF ReadingInv, Request
<1> QED
  BY <1>1, <1>2, <1>3 DEF Seen, Targets

LEMMA ReadModuleKeeps ==
    ASSUME IInv, NEW c \in Clients, ReadModule(c)
    PROVE  IInv'
<1> USE Kinds
<1> DEFINE q == req[c]
           e == q.endpoint
           t == Seen(q)
<1>1. q.pc = "read" /\ e \notin Streamed
  BY DEF ReadModule, Reading
<1> PICK m \in q.left :
      GoesOn(c, [q EXCEPT !.left = @ \ {m}, !.body = @ \cup Rows(e, t, m)])
  BY DEF ReadModule
<1> DEFINE r == [q EXCEPT !.left = @ \ {m}, !.body = @ \cup Rows(e, t, m)]
<1>2. /\ q \in Request /\ RequestInv(q, head) /\ ReadingInv(q, head)
      /\ head \in Snapshots /\ t \in Snapshots /\ t \in q.view..head
      /\ e \notin Grouped => t = q.view
      /\ e \in Endpoints
      /\ Targets(q.asked, q.view) \subseteq Modules
  BY <1>1, ReadingRequest
<1>3. /\ q.left \subseteq Targets(q.asked, q.view) /\ m \in Modules /\ q.now = NoModule
      /\ q.view \in 1..head /\ q.arrived <= q.view
  BY <1>1, <1>2 DEF ReadingInv
<1>4. Rows(e, t, m) \subseteq Row /\ \A row \in Rows(e, t, m) : row.module = m
  BY <1>2, <1>3, RowsType
<1>5. /\ r \in Request
      /\ r.pc = "read" /\ r.view = q.view /\ r.left = q.left \ {m}
      /\ r.endpoint = e /\ r.asked = q.asked /\ r.now = NoModule
      /\ r.body = q.body \cup Rows(e, t, m) /\ r.arrived = q.arrived
  BY <1>1, <1>2, <1>3, <1>4 DEF Request
<1>6. e \notin Grouped =>
        r.body = DoneRows(r.endpoint, r.asked, r.view, r.left) \cup OpenRows(r)
  <2> SUFFICES ASSUME e \notin Grouped
               PROVE  r.body = DoneRows(e, q.asked, q.view, q.left \ {m}) \cup OpenRows(r)
    BY <1>5
  <2>1. OpenRows(r) = {} /\ OpenRows(q) = {}
    BY <1>3, <1>5 DEF OpenRows
  <2>2. q.body = DoneRows(e, q.asked, q.view, q.left)
    BY <1>2, <2>1 DEF ReadingInv
  <2> QED
    BY <1>2, <1>3, <1>5, <2>1, <2>2, DoneRowsStep
<1>7. e \in Grouped =>
        /\ \A n \in r.left : RowsOf(r.body, n) = {}
        /\ \A n \in Targets(r.asked, r.view) \ r.left :
             WholeSince(r.endpoint, r.view, head, r.body, n)
  <2> SUFFICES ASSUME e \in Grouped
               PROVE  /\ \A n \in q.left \ {m} : RowsOf(r.body, n) = {}
                      /\ \A n \in Targets(q.asked, q.view) \ (q.left \ {m}) :
                           WholeSince(e, q.view, head, r.body, n)
    BY <1>5
  <2>1. \A n : n # m => RowsOf(r.body, n) = RowsOf(q.body, n)
    BY <1>4, <1>5 DEF RowsOf
  <2>2. RowsOf(q.body, m) = {}
    BY <1>2 DEF ReadingInv
  <2>3. RowsOf(r.body, m) = Rows(e, t, m)
    BY <1>4, <1>5, <2>2 DEF RowsOf
  <2>4. WholeSince(e, q.view, head, r.body, m)
    BY <1>2, <2>3 DEF WholeSince
  <2> QED
    BY <1>2, <2>1, <2>4 DEF ReadingInv, WholeSince
<1>8. ReadingInv(r, head)
  BY <1>3, <1>5, <1>6, <1>7 DEF ReadingInv
<1>9. RequestInv(r, head)
  BY <1>2, <1>5, <1>8 DEF RequestInv
<1> QED
  BY <1>9, GoesOnKeeps

LEMMA OpenStreamKeeps ==
    ASSUME IInv, NEW c \in Clients, OpenStream(c)
    PROVE  IInv'
<1> USE Kinds
<1> DEFINE q == req[c]
<1>1. q.pc = "read" /\ q.endpoint \in Streamed /\ q.now = NoModule
  BY DEF OpenStream
<1> PICK m \in q.left : GoesOn(c, [q EXCEPT !.now = m, !.sent = 0])
  BY DEF OpenStream
<1> DEFINE r == [q EXCEPT !.now = m, !.sent = 0]
<1>2. /\ q \in Request /\ RequestInv(q, head) /\ ReadingInv(q, head)
      /\ q.endpoint \in Endpoints /\ head \in Snapshots
  BY <1>1, ReadingRequest
<1>3. m \in Modules /\ q.view \in Snapshots
  BY <1>2 DEF Request
<1>4. /\ r \in Request
      /\ r.pc = "read" /\ r.view = q.view /\ r.left = q.left
      /\ r.endpoint = q.endpoint /\ r.asked = q.asked /\ r.now = m /\ r.sent = 0
      /\ r.body = q.body /\ r.arrived = q.arrived
  BY <1>1, <1>2, <1>3 DEF Request
<1>5. OpenRows(r) = {} /\ OpenRows(q) = {}
  BY <1>1, <1>4 DEF OpenRows
<1>6. 0 <= RowCount(q.endpoint, q.view, m)
  BY <1>2, <1>3
<1>7. ReadingInv(r, head)
  BY <1>1, <1>2, <1>4, <1>5, <1>6 DEF ReadingInv
<1>8. RequestInv(r, head)
  BY <1>2, <1>4, <1>7 DEF RequestInv
<1> QED
  BY <1>8, GoesOnKeeps

LEMMA WriteRowKeeps ==
    ASSUME IInv, NEW c \in Clients, WriteRow(c)
    PROVE  IInv'
<1> USE Kinds
<1> DEFINE q == req[c]
           row == StreamedRow(q)
           r == [q EXCEPT !.sent = @ + 1, !.body = @ \cup {row}]
<1>1. /\ q.pc = "read" /\ q.now # NoModule
      /\ q.sent < RowCount(q.endpoint, Seen(q), q.now)
      /\ GoesOn(c, r)
  BY DEF WriteRow, Reading
<1>2. /\ q \in Request /\ RequestInv(q, head) /\ ReadingInv(q, head)
      /\ head \in Snapshots /\ q.endpoint \in Endpoints
      /\ q.endpoint \notin Grouped => Seen(q) = q.view
  BY <1>1, ReadingRequest
<1>3. /\ q.endpoint \in Streamed /\ q.endpoint \notin Grouped
      /\ Seen(q) = q.view /\ q.view \in Snapshots
      /\ q.now \in Modules /\ q.sent \in Nat
  BY <1>1, <1>2 DEF ReadingInv, Request
<1>4. row = [module |-> q.now, of |-> q.view, index |-> q.sent + 1] /\ row \in Row
  BY <1>3 DEF StreamedRow, Row
<1>5. /\ r \in Request
      /\ r.pc = "read" /\ r.view = q.view /\ r.left = q.left
      /\ r.endpoint = q.endpoint /\ r.asked = q.asked /\ r.now = q.now
      /\ r.sent = q.sent + 1 /\ r.body = q.body \cup {row} /\ r.arrived = q.arrived
  <2> HIDE DEF row
  <2>1. q.sent + 1 \in Nat /\ q.body \cup {row} \in SUBSET Row
    BY <1>2, <1>3, <1>4 DEF Request
  <2> QED
    BY <1>1, <1>2, <2>1 DEF Request
<1>6. OpenRows(r) = OpenRows(q) \cup {row}
  <2>1. 1..(q.sent + 1) = (1..q.sent) \cup {q.sent + 1}
    BY <1>3
  <2> QED
    BY <1>1, <1>4, <1>5, <2>1 DEF OpenRows
<1>7. q.sent + 1 <= RowCount(q.endpoint, q.view, q.now)
  BY <1>1, <1>2, <1>3
<1>8. ReadingInv(r, head)
  BY <1>2, <1>3, <1>5, <1>6, <1>7 DEF ReadingInv
<1>9. RequestInv(r, head)
  BY <1>2, <1>5, <1>8 DEF RequestInv
<1> QED
  BY <1>1, <1>9, GoesOnKeeps

LEMMA CloseStreamKeeps ==
    ASSUME IInv, NEW c \in Clients, CloseStream(c)
    PROVE  IInv'
<1> USE Kinds
<1> DEFINE q == req[c]
           m == q.now
           r == [q EXCEPT !.left = @ \ {m}, !.now = NoModule]
<1>1. /\ q.pc = "read" /\ m # NoModule
      /\ q.sent = RowCount(q.endpoint, Seen(q), m)
      /\ GoesOn(c, r)
  BY DEF CloseStream, Reading
<1>2. /\ q \in Request /\ RequestInv(q, head) /\ ReadingInv(q, head)
      /\ head \in Snapshots /\ q.endpoint \in Endpoints
      /\ q.endpoint \notin Grouped => Seen(q) = q.view
  BY <1>1, ReadingRequest
<1>3. /\ q.endpoint \in Streamed /\ q.endpoint \notin Grouped
      /\ m \in q.left /\ q.left \subseteq Targets(q.asked, q.view)
  BY <1>1, <1>2 DEF ReadingInv
<1>4. /\ r \in Request
      /\ r.pc = "read" /\ r.view = q.view /\ r.left = q.left \ {m}
      /\ r.endpoint = q.endpoint /\ r.asked = q.asked /\ r.now = NoModule
      /\ r.body = q.body /\ r.arrived = q.arrived
  BY <1>1, <1>2 DEF Request
<1>5. OpenRows(r) = {} /\ OpenRows(q) = Rows(q.endpoint, q.view, m)
  BY <1>1, <1>2, <1>3, <1>4 DEF OpenRows, Rows
<1>6. r.body = DoneRows(r.endpoint, r.asked, r.view, r.left) \cup OpenRows(r)
  <2>1. q.body = DoneRows(q.endpoint, q.asked, q.view, q.left) \cup Rows(q.endpoint, q.view, m)
    BY <1>2, <1>3, <1>5 DEF ReadingInv
  <2>2. DoneRows(q.endpoint, q.asked, q.view, q.left \ {m})
          = DoneRows(q.endpoint, q.asked, q.view, q.left) \cup Rows(q.endpoint, q.view, m)
    <3>1. Targets(q.asked, q.view) \ (q.left \ {m})
            = (Targets(q.asked, q.view) \ q.left) \cup {m}
      BY <1>3
    <3> QED
      BY <3>1 DEF DoneRows
  <2> QED
    BY <1>4, <1>5, <2>1, <2>2
<1>7. ReadingInv(r, head)
  BY <1>2, <1>3, <1>4, <1>6 DEF ReadingInv
<1>8. RequestInv(r, head)
  BY <1>2, <1>4, <1>7 DEF RequestInv
<1> QED
  BY <1>1, <1>8, GoesOnKeeps

LEMMA FinishKeeps ==
    ASSUME IInv, NEW c \in Clients, Finish(c)
    PROVE  IInv'
<1> USE Kinds
<1> DEFINE q == req[c]
           r == Ended(q, "ok")
           u == Url(q)
<1>1. /\ q.pc = "read" /\ q.left = {} /\ head' = head
      /\ req' = [req EXCEPT ![c] = r]
      /\ cache' = IF q.endpoint \in Cached THEN [cache EXCEPT ![u] = ReplyOf(r)] ELSE cache
  BY DEF Finish, AllRead
<1>2. /\ q \in Request /\ RequestInv(q, head) /\ ReadingInv(q, head)
      /\ head \in Snapshots /\ q.endpoint \in Endpoints
  BY <1>1, ReadingRequest
<1>3. /\ r \in Request /\ r.pc = "ended" /\ r.outcome = "ok"
      /\ r.endpoint = q.endpoint /\ r.asked = q.asked
      /\ r.view = q.view /\ r.body = q.body /\ r.arrived = q.arrived
  BY <1>2 DEF Ended, Request, Outcomes
<1>4. q.now = NoModule /\ OpenRows(q) = {}
  BY <1>1, <1>2 DEF ReadingInv, OpenRows
<1>5. ReplyInv(q.endpoint, q.asked, q.view, q.body, head)
  BY <1>1, <1>2, <1>4, DoneRowsEnds DEF ReadingInv, ReplyInv
<1>6. q.endpoint \in Streamed => q.body = Full(q.endpoint, q.asked, q.view)
  BY <1>5 DEF ReplyInv
<1>7. EndedInv(r, head)
  BY <1>2, <1>3, <1>5, <1>6 DEF EndedInv, ReadingInv
<1>8. RequestInv(r, head)
  BY <1>2, <1>3, <1>7 DEF RequestInv
<1>9. /\ ReplyOf(r) \in Reply
      /\ ReplyOf(r).outcome = "ok" /\ ReplyOf(r).view = q.view /\ ReplyOf(r).body = q.body
  BY <1>3 DEF ReplyOf, Reply, Request
<1>10. u[1] = q.endpoint /\ u[2] = q.asked
  BY DEF Url
<1>11. TypeOK'
  BY <1>1, <1>3, <1>9 DEF IInv, TypeOK
<1>12. \A d \in Clients : req'[d] # NoRequest => RequestInv(req'[d], head')
  <2>1. \A d \in Clients : req'[d] = IF d = c THEN r ELSE req[d]
    BY <1>1 DEF IInv, TypeOK
  <2> QED
    BY <1>1, <1>8, <2>1 DEF IInv
<1>13. \A w \in Urls : EntryInv(w, head)'
  <2> SUFFICES ASSUME NEW w \in Urls PROVE EntryInv(w, head)'
    OBVIOUS
  <2>1. CASE q.endpoint \in Cached /\ w = u
    <3>1. cache'[w] = ReplyOf(r)
      BY <1>1, <2>1 DEF IInv, TypeOK
    <3> QED
      BY <1>1, <1>5, <1>9, <1>10, <2>1, <3>1 DEF EntryInv
  <2>2. CASE ~(q.endpoint \in Cached /\ w = u)
    <3>1. cache'[w] = cache[w]
      BY <1>1, <2>2 DEF IInv, TypeOK
    <3> QED
      BY <1>1, <3>1 DEF IInv, EntryInv
  <2> QED
    BY <2>1, <2>2
<1> QED
  BY <1>11, <1>12, <1>13 DEF IInv

LEMMA FinishEmptyKeeps ==
    ASSUME IInv, NEW c \in Clients, FinishEmpty(c)
    PROVE  IInv'
<1> USE Kinds
<1> DEFINE q == req[c]
           r == Ended(q, "notFound")
<1>1. q.pc = "read" /\ q.endpoint \in EmptyIsNotFound /\ GoesOn(c, r)
  BY DEF FinishEmpty, AllRead, FoundNothing
<1>2. q \in Request /\ RequestInv(q, head)
  BY <1>1, ReadingRequest
<1>3. /\ r \in Request /\ r.pc = "ended" /\ r.outcome = "notFound"
      /\ r.endpoint = q.endpoint /\ r.arrived = q.arrived
  BY <1>2 DEF Ended, Request, Outcomes
<1>4. EndedInv(r, head)
  BY <1>1, <1>3 DEF EndedInv
<1>5. RequestInv(r, head)
  BY <1>2, <1>3, <1>4 DEF RequestInv
<1> QED
  BY <1>1, <1>5, GoesOnKeeps

----------------------------------------------------------------------------
\* The keys job, the cache's time to live and a restart.
LEMMA CommitKeeps ==
    ASSUME IInv, CommitSnapshot
    PROVE  IInv'
<1> USE Kinds
<1>1. /\ head \in Snapshots /\ head < MaxSnapshot
      /\ head' = head + 1 /\ req' = req /\ cache' = cache
  BY DEF CommitSnapshot, IInv, TypeOK
<1>2. TypeOK'
  BY <1>1 DEF IInv, TypeOK
<1>3. \A d \in Clients : req'[d] # NoRequest => RequestInv(req'[d], head')
  BY <1>1, Later DEF IInv
<1>4. \A u \in Urls : EntryInv(u, head)'
  <2> SUFFICES ASSUME NEW u \in Urls, cache[u] # NoEntry
               PROVE  EntryInv(u, head)'
    BY <1>1 DEF EntryInv
  <2>1. EntryInv(u, head) /\ cache[u] \in Reply
    BY DEF IInv, TypeOK
  <2>2. ReplyInv(u[1], u[2], cache[u].view, cache[u].body, head + 1)
    BY <1>1, <2>1, ReplyLater DEF EntryInv, Reply
  <2> QED
    BY <1>1, <2>1, <2>2 DEF EntryInv
<1> QED
  BY <1>2, <1>3, <1>4 DEF IInv

LEMMA NoEntryType == NoEntry \in Reply
BY Kinds DEF NoEntry, Reply, Outcomes

LEMMA ExpireKeeps ==
    ASSUME IInv, Expire
    PROVE  IInv'
<1>1. PICK u \in Urls : cache' = [cache EXCEPT ![u] = NoEntry]
  BY DEF Expire
<1>2. head' = head /\ req' = req
  BY DEF Expire
<1>3. \A w \in Urls : cache'[w] \in {NoEntry, cache[w]}
  BY <1>1 DEF IInv, TypeOK
<1>4. TypeOK'
  BY <1>1, <1>2, NoEntryType DEF IInv, TypeOK
<1>5. \A w \in Urls : EntryInv(w, head)'
  BY <1>2, <1>3 DEF IInv, EntryInv
<1>6. \A d \in Clients : req'[d] # NoRequest => RequestInv(req'[d], head')
  BY <1>2 DEF IInv
<1> QED
  BY <1>4, <1>5, <1>6 DEF IInv

LEMMA RestartKeeps ==
    ASSUME IInv, Restart
    PROVE  IInv'
<1> DEFINE Broken(c) == Cut([req[c] EXCEPT !.failed = TRUE], "error")
<1>1. /\ head' = head
      /\ req' = [c \in Clients |-> IF Active(c) THEN Broken(c) ELSE req[c]]
      /\ cache' = [u \in Urls |-> NoEntry]
  BY DEF Restart
<1>2. \A c \in Clients : Active(c) => RequestInv(Broken(c), head)
  <2> SUFFICES ASSUME NEW c \in Clients, req[c].pc \in {"begin", "operators", "read"}
               PROVE  RequestInv(Broken(c), head)
    BY DEF Active
  <2>1. req[c] \in Request /\ RequestInv(req[c], head) /\ head \in Snapshots
    BY ActiveRequest DEF IInv, TypeOK
  <2>2. /\ Broken(c) = Cut([req[c] EXCEPT !.view = req[c].view, !.failed = TRUE], "error")
        /\ req[c].view \in Snapshots
    BY <2>1 DEF Request
  <2> QED
    BY <2>1, <2>2, CutKeeps
<1>3. \A c \in Clients : Active(c) => Broken(c) \in Request
  BY <1>2 DEF RequestInv
<1> HIDE DEF Broken
<1>4. TypeOK'
  BY <1>1, <1>3, NoEntryType DEF IInv, TypeOK
<1>5. \A c \in Clients : req'[c] # NoRequest => RequestInv(req'[c], head')
  BY <1>1, <1>2 DEF IInv
<1>6. \A u \in Urls : EntryInv(u, head)'
  BY <1>1 DEF EntryInv
<1> QED
  BY <1>4, <1>5, <1>6 DEF IInv

----------------------------------------------------------------------------
LEMMA InitHolds == ASSUME Init PROVE IInv
<1>1. TypeOK
  BY Kinds, NoEntryType DEF Init, TypeOK
<1> QED
  BY <1>1 DEF Init, IInv, EntryInv

LEMMA NextKeeps == ASSUME IInv, [Next]_vars PROVE IInv'
<1>1. CASE CommitSnapshot
  BY <1>1, CommitKeeps
<1>2. CASE Expire
  BY <1>2, ExpireKeeps
<1>3. CASE Restart
  BY <1>3, RestartKeeps
<1>4. ASSUME NEW c \in Clients, Arrive(c) PROVE IInv'
  BY <1>4, ArriveKeeps
<1>5. ASSUME NEW c \in Clients, Handle(c) PROVE IInv'
  BY <1>5, RefuseKeeps, OpenKeeps, FindOperatorsKeeps, ReadModuleKeeps, OpenStreamKeeps, WriteRowKeeps,
     CloseStreamKeeps, FinishKeeps, FinishEmptyKeeps DEF Handle
<1>6. ASSUME NEW c \in Clients,
             QueryFails(c) \/ Stall(c) \/ GoOn(c) \/ StreamTimeout(c)
      PROVE  IInv'
  BY <1>6, FailureKeeps, StallKeeps
<1>7. CASE UNCHANGED vars
  <2>1. head' = head /\ req' = req /\ cache' = cache
    BY <1>7 DEF vars
  <2> QED
    BY <2>1 DEF IInv, TypeOK, EntryInv
<1> QED
  BY <1>1, <1>2, <1>3, <1>4, <1>5, <1>6, <1>7 DEF Next

LEMMA Invariant == Spec => []IInv
BY InitHolds, NextKeeps, PTL DEF Spec

\* Every state of the readers is well typed, for every number of clients,
\* modules, snapshots and rows (the records of http handlers under way).
THEOREM HttpReadsTypeCorrect == Spec => []TypeOK
<1>1. IInv => TypeOK
  BY DEF IInv
<1> QED
  BY <1>1, Invariant, PTL

\* What an ended request knows.
LEMMA EndedRequest ==
    ASSUME IInv, NEW c \in Clients, req[c].pc = "ended"
    PROVE  EndedInv(req[c], head)
BY ActiveRequest DEF RequestInv

\* A reply that looks whole is the whole of the snapshot it names, whatever the
\* keys job commits meanwhile (controllers and services that open the transaction).
THEOREM RepliesAreSnapshots == Spec => []CompleteRepliesAreSnapshots
<1>1. IInv => CompleteRepliesAreSnapshots
  BY EndedRequest DEF CompleteRepliesAreSnapshots, Complete, EndedInv, ReplyInv
<1> QED
  BY <1>1, Invariant, PTL

\* Rows of a stream belong to the snapshot announced before them, also in a
\* stream that is cut (jsonStream.destroy in the controllers).
THEOREM StreamsKeepTheirSnapshot == Spec => []StreamedRowsBelongToMeta
<1>1. ASSUME IInv, NEW c \in Clients, req[c].pc = "read", req[c].endpoint \in Streamed
      PROVE  req[c].body \subseteq Full(req[c].endpoint, req[c].asked, req[c].view)
  <2> DEFINE q == req[c]
             r == Cut([q EXCEPT !.view = q.view, !.failed = q.failed], "error")
  <2>1. q \in Request /\ RequestInv(q, head) /\ head \in Snapshots
    BY <1>1, ReadingRequest
  <2>2. q.view \in Snapshots /\ q.failed \in BOOLEAN
    BY <2>1 DEF Request
  <2>3. RequestInv(r, head)
    BY <1>1, <2>1, <2>2, CutKeeps
  <2>4. r.pc = "ended" /\ r.body = q.body /\ r.endpoint = q.endpoint
        /\ r.asked = q.asked /\ r.view = q.view
    BY <2>1 DEF Cut, Ended, Request
  <2> QED
    BY <1>1, <2>3, <2>4 DEF RequestInv, EndedInv
<1>2. IInv => StreamedRowsBelongToMeta
  BY <1>1, EndedRequest DEF StreamedRowsBelongToMeta, EndedInv
<1> QED
  BY <1>2, Invariant, PTL

\* The endpoint that reads outside a transaction still gives each module whole,
\* and not older than its meta (getGroupedByModuleKeys).
THEOREM GroupedKeysAreNotOlder == Spec => []GroupedKeysNotOlder
<1>1. ASSUME IInv, NEW c \in Clients, req[c].pc = "ended", req[c].outcome = "ok",
             req[c].endpoint \in Grouped
      PROVE  /\ req[c].view \in 1..head
             /\ \A m \in Targets(req[c].asked, req[c].view) :
                  \E s \in req[c].view..head :
                    {row \in req[c].body : row.module = m} = Rows(req[c].endpoint, s, m)
  BY <1>1, EndedRequest DEF EndedInv, ReplyInv, WholeSince, RowsOf
<1>2. IInv => GroupedKeysNotOlder
  BY <1>1 DEF GroupedKeysNotOlder, Complete
<1> QED
  BY <1>2, Invariant, PTL

\* Once the database was filled nobody is told that it came too early, nor that a
\* stored module is unknown (the response cache holds replies, never refusals).
THEOREM ReadyMeansServed == Spec => []ReadyIsServed
<1>1. IInv => ReadyIsServed
  BY EndedRequest DEF ReadyIsServed, EndedInv
<1> QED
  BY <1>1, Invariant, PTL

=============================================================================

------------------------- MODULE DocumentVaultProofs -------------------------
(***************************************************************************)
(* Proofs about DocumentVault for any number of documents, overlapping     *)
(* requests, uploads, days and failures.                                   *)
(*                                                                         *)
(* A request is told by its method and the call it makes next: what is     *)
(* left of its calls follows from these.  The invariant says what each     *)
(* request in the middle of its calls still owes to the tables, for every  *)
(* document that no request overwrote with an outdated row: who is to      *)
(* enter a file that was put, delete one that was given up or insert an    *)
(* alert; and, whatever was overwritten, by how much the counter may lag.  *)
(***************************************************************************)
EXTENDS DocumentVault, FiniteSetTheorems, TLAPS

(***************************************************************************)
(* What a request is in the middle of                                      *)
(***************************************************************************)

\* The call that comes after c, as far as the method has one.
Following(method, c) ==
    CASE c = "insert"       -> "increment"
      [] c = "increment"    -> "announce"
      [] c = "putObject"    -> "update"
      [] c = "update"       -> IF method = "renew" THEN "cancel" ELSE "end"
      [] c = "softDelete"   -> "cancel"
      [] c = "cancel"       -> IF method = "renew" THEN "announce" ELSE "deleteObject"
      [] c = "deleteObject" -> IF method = "delete" THEN "decrement" ELSE "update"
      [] OTHER              -> "end"

\* The calls a method consists of.
Own(method) ==
    CASE method = "create"     -> {"insert", "increment", "announce"}
      [] method = "upload"     -> {"putObject", "update"}
      [] method = "deleteFile" -> {"deleteObject", "update"}
      [] method = "edit"       -> {"update"}
      [] method = "renew"      -> {"update", "cancel", "announce"}
      [] method = "delete"     -> {"softDelete", "cancel", "deleteObject", "decrement"}

\* todo is what is left of a method's calls from some call on.
Chain(method, todo) ==
    /\ todo \in Seq(Call) /\ todo # <<>>
    /\ todo[1] \in Own(method)
    /\ \A i \in 2 .. Len(todo) : todo[i] = Following(method, todo[i - 1])
    /\ Following(method, todo[Len(todo)]) = "end"

\* The keys given out for a document once n of them were.
Keys(d, n) == {<<d, i>> : i \in 1 .. n}

Form(x, n) ==
    /\ x \in RequestState
    /\ x.todo # <<>> =>
         /\ x.target \in Document
         /\ Chain(x.method, x.todo)
         /\ x.copy.status = "active"
         /\ x.read.status = IF x.method = "create" THEN "absent" ELSE "active"
         /\ x.read.file \in Keys(x.target, n) \union {None}
         /\ x.method \in {"create", "deleteFile"} => x.copy.file = None
         /\ x.method \in {"edit", "renew"} => x.copy.file = x.read.file
         /\ x.method = "upload" /\ x.todo[1] = "update" =>
              x.copy.file \in Keys(x.target, n)
         /\ x.left # {} => x.todo[1] = "announce" /\ x.copy.expiry # None

\* The next call of x is c, in a request of this method.
In(x, method, c) == x.todo # <<>> /\ x.method = method /\ x.todo[1] = c

-----------------------------------------------------------------------------
(* The invariant                                                           *)

Rows ==
    \A d \in Document :
        /\ doc[d].file \in Keys(d, uploads) \union {None}
        /\ doc[d].status = "absent" =>
             /\ doc[d].file = None
             /\ \A o \in Offset : alert[<<d, o>>].status = "absent"

\* A document about to be inserted is nobody else's business; every other
\* request is about a document that exists.
Fresh ==
    \A q \in Request : req[q].todo # <<>> =>
        IF req[q].todo[1] = "insert"
        THEN /\ doc[req[q].target].status = "absent"
             /\ \A p \in Request \ {q} :
                  req[p].todo # <<>> => req[p].target # req[q].target
        ELSE doc[req[q].target].status # "absent"

Uploading == {p \in Request : "putObject" \in CallsIn(req[p].todo)}
Room == uploads + Cardinality(Uploading) <= MaxUploads

Base == /\ TypeOK
        /\ \A q \in Request : Form(req[q], uploads)
        /\ Rows /\ Fresh /\ Room

\* The object an upload has put and not yet entered in the row is known to
\* nobody else, and stays.
Private ==
    \A q \in Request : In(req[q], "upload", "update") =>
        /\ req[q].copy.file \in store
        /\ \A d \in Document : doc[d].file # req[q].copy.file
        /\ \A p \in Request :
             /\ req[p].todo # <<>> => req[p].read.file # req[q].copy.file
             /\ p # q /\ In(req[p], "upload", "update") =>
                  req[p].copy.file # req[q].copy.file

\* Between the two halves of DeleteDocumentFile and of DeleteDocument.
HalfDone ==
    \A q \in Request :
        /\ In(req[q], "deleteFile", "update") => req[q].read.file \notin store
        /\ /\ req[q].todo # <<>> /\ req[q].method = "delete"
           /\ req[q].todo[1] # "softDelete" /\ req[q].target \notin stale
           => doc[req[q].target].status = "archived"

\* The link of d leads nowhere: a request is about to remove it, or failed to.
Broken(d) == doc[d].status = "active" /\ doc[d].file # None /\ doc[d].file \notin store
Owed(d) ==
    \/ <<d, "update">> \in missed
    \/ \E q \in Request : In(req[q], "deleteFile", "update") /\ req[q].target = d

LinkBroken == \A d \in Document \ stale : Broken(d) => Owed(d)

\* x has put f and not yet entered it, or is about to delete it.
Handles(x, f) ==
    /\ x.todo # <<>> /\ x.target = f[1]
    /\ \/ In(x, "upload", "update") /\ x.copy.file = f
       \/ x.method = "delete" /\ x.todo[1] \in {"cancel", "deleteObject"} /\ x.read.file = f

\* Why the object f is still there.
Explained(f) ==
    \/ f[1] \in stale \/ f \in replaced
    \/ <<f[1], "update">> \in missed \/ <<f[1], "deleteObject">> \in missed
    \/ doc[f[1]].status = "active" /\ doc[f[1]].file = f
    \/ \E q \in Request : Handles(req[q], f)

Kept == \A f \in store : Explained(f)

\* x has written the dates of its copy, and announces or will announce them.
Announces(x) ==
    /\ x.todo # <<>>
    /\ \/ x.todo[1] \in {"increment", "announce"}
       \/ In(x, "renew", "cancel")

\* While a document keeps its first dates, whoever announces it announces these.
Dates ==
    \A d \in Document \ (stale \union renewed) :
        /\ \A o \in Offset :
             alert[<<d, o>>].status # "absent" =>
               alert[<<d, o>>] = [status |-> "scheduled", at |-> doc[d].expiry - o]
        /\ \A q \in Request : Announces(req[q]) /\ req[q].target = d =>
             req[q].copy.expiry = doc[d].expiry /\ req[q].copy.offsets = doc[d].offsets

\* The create is about to announce the offset o of d.
WillAnnounce(x, d, o) ==
    /\ x.todo # <<>> /\ x.method = "create" /\ x.target = d
    /\ \/ x.todo[1] = "increment"
       \/ x.todo[1] = "announce" /\ o \in x.left

Alerts ==
    \A d \in Document \ (stale \union renewed) :
        doc[d].status = "active" /\ <<d, "announce">> \notin missed =>
          \A o \in doc[d].offsets :
            doc[d].expiry # None /\ doc[d].expiry - o > today =>
              \/ alert[<<d, o>>].status # "absent"
              \/ \E q \in Request : WillAnnounce(req[q], d, o)

Active == {d \in Document : doc[d].status = "active"}
Uncounted == {q \in Request : In(req[q], "create", "increment")}
Undiscounted ==
    {q \in Request : /\ req[q].todo # <<>> /\ req[q].method = "delete"
                     /\ req[q].todo[1] # "softDelete"}

\* What the counter and the late writes leave for the documents of the model.
Covered == (usage + slips) - InitialUsage

\* It lags behind these by at most what requests in progress will add, and
\* leaves room for what they will subtract.
Counted ==
    /\ IsFiniteSet(Active)
    /\ usage # NoRow => InitialUsage \in Nat
    /\ /\ usage # NoRow
       /\ \A d \in Document : <<d, "increment">> \notin missed
       => Covered + Cardinality(Uncounted) >= Cardinality(Active) + Cardinality(Undiscounted)

-----------------------------------------------------------------------------
(* The calls of a request                                                  *)

LEMMA CallsTable ==
    ASSUME NEW method \in Operation
    PROVE  /\ Chain(method, Calls[method])
           /\ Calls[method][1] \in {"insert", "putObject", "deleteObject",
                                    "update", "softDelete"}
           /\ method = "create" <=> Calls[method][1] = "insert"
           /\ method = "upload" <=> Calls[method][1] = "putObject"
           /\ method = "delete" <=> Calls[method][1] = "softDelete"
           /\ method = "deleteFile" <=> Calls[method][1] = "deleteObject"
<1>1. method \in {"create", "upload", "deleteFile", "edit", "renew", "delete"}
  BY DEF Operation, Calls
<1> USE DEF Calls, Chain, Following, Own, Call
<1>2. CASE method = "create"
  BY <1>2
<1>3. CASE method = "upload"
  BY <1>3
<1>4. CASE method = "deleteFile"
  BY <1>4
<1>5. CASE method = "edit"
  BY <1>5
<1>6. CASE method = "renew"
  BY <1>6
<1>7. CASE method = "delete"
  BY <1>7
<1>8. QED
  BY <1>1, <1>2, <1>3, <1>4, <1>5, <1>6, <1>7

\* After its first call come those that follow it, or none.
LEMMA ChainGoesOn ==
    ASSUME NEW method \in Operation, NEW todo, Chain(method, todo)
    PROVE  /\ Tail(todo) \in Seq(Call)
           /\ Tail(todo) = <<>> <=> Following(method, todo[1]) = "end"
           /\ Tail(todo) # <<>> => /\ Chain(method, Tail(todo))
                                   /\ Tail(todo)[1] = Following(method, todo[1])
           /\ todo[1] \in CallsIn(todo)
           /\ Tail(todo) # <<>> => Following(method, todo[1]) \in CallsIn(todo)
<1> DEFINE rest == Tail(todo)
<1>1. todo \in Seq(Call) /\ Len(todo) \in Nat \ {0} /\ 1 \in DOMAIN todo
  BY DEF Chain
<1>2. /\ rest \in Seq(Call)
      /\ Len(rest) = Len(todo) - 1
      /\ \A i \in 1 .. Len(rest) : rest[i] = todo[i + 1]
  BY <1>1
<1> HIDE DEF rest
<1>3. rest = <<>> <=> Len(todo) = 1
  BY <1>1, <1>2
<1>4. Len(todo) = 1 => Following(method, todo[1]) = "end"
  BY DEF Chain
<1>5. ASSUME Len(todo) # 1
      PROVE  /\ rest[1] = Following(method, todo[1]) /\ rest[1] # "end"
             /\ rest[1] \in CallsIn(todo)
             /\ Chain(method, rest)
  <2>1. 1 \in 1 .. Len(rest) /\ 2 \in 2 .. Len(todo) /\ rest[1] = todo[2]
        /\ 2 \in DOMAIN todo /\ rest # <<>>
    BY <1>1, <1>2, <1>3, <1>5
  <2>2. rest[1] = Following(method, todo[1])
    BY <2>1 DEF Chain
  <2>3. rest[1] \in Call /\ rest[1] # "end"
    BY <1>2, <2>1 DEF Call
  <2>4. ASSUME NEW i \in 2 .. Len(rest)
        PROVE  rest[i] = Following(method, rest[i - 1])
    <3>1. i \in 1 .. Len(rest) /\ i - 1 \in 1 .. Len(rest)
          /\ i + 1 \in 2 .. Len(todo) /\ (i + 1) - 1 = i /\ (i - 1) + 1 = i
      BY <1>1, <1>2
    <3>2. rest[i] = todo[i + 1]
      BY <1>2, <3>1
    <3>3. rest[i - 1] = todo[(i - 1) + 1]
      BY <1>2, <3>1
    <3>4. todo[i + 1] = Following(method, todo[(i + 1) - 1])
      BY <3>1 DEF Chain
    <3>5. QED
      BY <3>1, <3>2, <3>3, <3>4
  <2>5. rest[Len(rest)] = todo[Len(todo)]
    <3>1. Len(rest) \in 1 .. Len(rest) /\ Len(rest) + 1 = Len(todo)
      BY <1>1, <1>2, <2>1
    <3>2. QED
      BY <1>2, <3>1
  <2>6. rest[1] \in Own(method)
    BY <2>2, <2>3 DEF Chain, Following, Own, Operation, Calls
  <2>7. Chain(method, rest)
    BY <1>2, <2>1, <2>4, <2>5, <2>6 DEF Chain
  <2>8. rest[1] \in CallsIn(todo)
    BY <2>1 DEF CallsIn
  <2>9. QED
    BY <2>2, <2>3, <2>7, <2>8
<1>6. todo[1] \in CallsIn(todo)
  BY <1>1 DEF CallsIn
<1>7. QED
  BY <1>2, <1>3, <1>4, <1>5, <1>6 DEF rest

-----------------------------------------------------------------------------
(* What a step does to the requests                                        *)

\* No request but q changes.
Others(q) ==
    /\ req' \in [Request -> RequestState]
    /\ \A p \in Request \ {q} : req'[p] = req[p]

\* The request x, having made a call, goes on as y with copy in its hands.
Goes(x, y, copy) ==
    LET next == Following(x.method, x.todo[1]) IN
    \/ /\ y = NoRequest
       /\ \/ next = "end"
          \/ next = "announce" /\ Due(copy) = {}
    \/ /\ y.todo # <<>> /\ y.method = x.method /\ y.target = x.target
       /\ y.read = x.read /\ y.copy = copy
       /\ Chain(y.method, y.todo)
       /\ \/ y.todo[1] = next
          \/ next = "deleteObject" /\ x.read.file = None /\ y.todo[1] = "decrement"
       /\ y.left = IF y.todo[1] = "announce" THEN Due(copy) ELSE {}

LEMMA NoRequestForm ==
    /\ NoRequest \in RequestState /\ NoRequest.todo = <<>>
    /\ \A n : Form(NoRequest, n)
<1>1. NoRequest \in RequestState /\ NoRequest.todo = <<>>
  BY DEF NoRequest, RequestState, Operation, Calls, Row, NoDocument
<1>2. QED
  BY <1>1 DEF Form

LEMMA Stops ==
    ASSUME Base, NEW q \in Request, req' = [req EXCEPT ![q] = NoRequest]
    PROVE  Others(q) /\ req'[q] = NoRequest
BY NoRequestForm DEF Base, TypeOK, Others

\* What q has at hand when it makes the call c.
LEMMA AtCall ==
    ASSUME Base, NEW q \in Request, NEW c, Makes(q, c)
    PROVE  /\ req[q] \in RequestState /\ req[q].todo # <<>>
           /\ req[q].todo[1] = c /\ c \in Own(req[q].method)
           /\ req[q].method \in Operation
           /\ req[q].target \in Document
           /\ req[q].copy \in Row /\ req[q].read \in Row
           /\ c = "insert" => req[q].method = "create"
           /\ c = "increment" => req[q].method = "create"
           /\ c = "announce" => req[q].method \in {"create", "renew"}
           /\ c = "putObject" => req[q].method = "upload"
           /\ c = "update" => req[q].method \in {"upload", "deleteFile", "edit", "renew"}
           /\ c = "deleteObject" => req[q].method \in {"deleteFile", "delete"}
           /\ c = "cancel" => req[q].method \in {"renew", "delete"}
           /\ c = "softDelete" => req[q].method = "delete"
           /\ c = "decrement" => req[q].method = "delete"
<1>1. Form(req[q], uploads) /\ req[q].todo # <<>>
  BY DEF Base, Makes, Idle
<1>2. /\ req[q] \in RequestState /\ req[q].todo \in Seq(Call)
      /\ Chain(req[q].method, req[q].todo) /\ req[q].target \in Document
  BY <1>1 DEF Form, Chain
<1>3. req[q].todo[1] = c
  BY <1>1, <1>2 DEF Makes
<1>4. c \in Own(req[q].method)
  BY <1>2, <1>3 DEF Chain
<1>5. req[q].method \in Operation /\ req[q].copy \in Row /\ req[q].read \in Row
  BY <1>2 DEF RequestState
<1>6. QED
  BY <1>1, <1>2, <1>3, <1>4, <1>5 DEF Own, Operation, Calls

LEMMA Continues ==
    ASSUME Base, NEW q \in Request, req[q].todo # <<>>, NEW copy \in Row,
           Continue(q, copy)
    PROVE  Others(q) /\ Goes(req[q], req'[q], copy)
<1> DEFINE x == req[q]
           rest == Tail(x.todo)
           todo == IF rest # <<>> /\ Needless(q, Head(rest), copy)
                   THEN Tail(rest) ELSE rest
           left == IF Head(todo) = "announce" THEN Due(copy) ELSE {}
           y == IF todo = <<>> THEN NoRequest
                ELSE [x EXCEPT !.todo = todo, !.copy = copy, !.left = left]
           next == Following(x.method, x.todo[1])
<1>1. Form(x, uploads) /\ x \in RequestState /\ Chain(x.method, x.todo)
      /\ x.method \in Operation
  BY DEF Base, Form, RequestState
<1>2. req' = [req EXCEPT ![q] = y]
  BY DEF Continue
<1>3. req \in [Request -> RequestState]
  BY DEF Base, TypeOK
<1>4. /\ rest \in Seq(Call)
      /\ rest = <<>> <=> next = "end"
      /\ rest # <<>> => Chain(x.method, rest) /\ rest[1] = next
  BY <1>1, ChainGoesOn
<1> HIDE DEF rest, next
<1>5. \/ /\ todo = <<>>
         /\ next = "end" \/ (next = "announce" /\ Due(copy) = {})
      \/ /\ todo # <<>> /\ todo \in Seq(Call) /\ Chain(x.method, todo)
         /\ \/ todo[1] = next
            \/ next = "deleteObject" /\ x.read.file = None /\ todo[1] = "decrement"
  <2>1. CASE rest = <<>>
    BY <2>1, <1>4
  <2>2. CASE rest # <<>> /\ ~Needless(q, Head(rest), copy)
    BY <2>2, <1>4
  <2>3. CASE rest # <<>> /\ Needless(q, Head(rest), copy)
    <3>1. todo = Tail(rest) /\ Head(rest) = next
      BY <2>3, <1>4
    <3>2. /\ Tail(rest) \in Seq(Call)
          /\ Tail(rest) = <<>> <=> Following(x.method, next) = "end"
          /\ Tail(rest) # <<>> => /\ Chain(x.method, Tail(rest))
                                  /\ Tail(rest)[1] = Following(x.method, next)
      BY <1>1, <1>4, <2>3, ChainGoesOn
    <3>3. \/ next = "announce" /\ Due(copy) = {}
          \/ next = "deleteObject" /\ x.read.file = None
      BY <3>1, <2>3 DEF Needless
    <3>4. next = "deleteObject" => x.method = "delete"
      <4>1. next = "deleteObject" => x.todo[1] = "cancel" /\ x.method # "renew"
        BY DEF next, Following
      <4>2. x.todo[1] \in Own(x.method)
        BY <1>1 DEF Chain
      <4>3. QED
        BY <4>1, <4>2, <1>1 DEF Own, Operation, Calls
    <3>5. /\ next = "announce" => Following(x.method, next) = "end"
          /\ next = "deleteObject" => Following(x.method, next) = "decrement"
      BY <3>4 DEF Following
    <3>6. QED
      BY <3>1, <3>2, <3>3, <3>5
  <2>4. QED
    BY <2>1, <2>2, <2>3
<1> HIDE DEF todo
<1>6. CASE todo = <<>>
  <2>1. y = NoRequest
    BY <1>6
  <2>2. QED
    BY <1>2, <1>5, <1>6, <2>1, Stops DEF Goes, next
<1>7. CASE todo # <<>>
  <2>1. left \in SUBSET Offset /\ left = IF todo[1] = "announce" THEN Due(copy) ELSE {}
    <3>1. Due(copy) \subseteq Offset
      BY DEF Due, Row
    <3>2. Head(todo) = todo[1]
      BY <1>5, <1>7
    <3>3. QED
      BY <3>1, <3>2
  <2> HIDE DEF left
  <2>2. y = [x EXCEPT !.todo = todo, !.copy = copy, !.left = left]
    BY <1>7
  <2> HIDE DEF y
  <2>3. /\ y \in RequestState
        /\ y.todo = todo /\ y.copy = copy /\ y.left = left
        /\ y.method = x.method /\ y.target = x.target /\ y.read = x.read
    BY <1>1, <1>5, <1>7, <2>1, <2>2 DEF RequestState
  <2>4. Others(q) /\ req'[q] = y
    BY <1>2, <1>3, <2>3 DEF Others
  <2>5. QED
    BY <1>5, <1>7, <2>1, <2>3, <2>4 DEF Goes, next
<1>8. QED
  BY <1>6, <1>7

\* An object is put by the first call of a request or by none.
LEMMA PutFirst ==
    ASSUME NEW method \in Operation, NEW todo, Chain(method, todo)
    PROVE  "putObject" \in CallsIn(todo) <=> todo[1] = "putObject"
<1>1. todo \in Seq(Call) /\ Len(todo) \in Nat \ {0} /\ 1 \in DOMAIN todo
  BY DEF Chain
<1>2. ASSUME NEW i \in DOMAIN todo, todo[i] = "putObject" PROVE i = 1
  <2>1. i # 1 => i \in 2 .. Len(todo)
    BY <1>1
  <2>2. i # 1 => todo[i] = Following(method, todo[i - 1])
    BY <2>1 DEF Chain
  <2>3. QED
    BY <1>2, <2>2 DEF Following
<1>3. QED
  BY <1>1, <1>2 DEF CallsIn

\* Going on leaves a request well formed, whatever else is uploaded.
LEMMA GoesForm ==
    ASSUME NEW x, NEW n \in Nat, Form(x, n), x.todo # <<>>,
           NEW m \in Nat, n <= m,
           NEW y \in RequestState, NEW copy \in Row, Goes(x, y, copy),
           copy.status = "active",
           x.method \in {"create", "deleteFile"} => copy.file = None,
           x.method \in {"edit", "renew"} => copy.file = x.read.file,
           x.todo[1] = "putObject" => copy.file \in Keys(x.target, m)
    PROVE  /\ Form(y, m)
           /\ y.todo # <<>> =>
                /\ y.target = x.target /\ y.read = x.read /\ y.method = x.method
                /\ y.todo[1] \notin {"insert", "putObject", "softDelete"}
                /\ "putObject" \notin CallsIn(y.todo)
<1>1. CASE y.todo = <<>>
  BY <1>1 DEF Form
<1>2. CASE y.todo # <<>>
  <2>1. /\ y.method = x.method /\ y.target = x.target
        /\ y.read = x.read /\ y.copy = copy /\ Chain(y.method, y.todo)
        /\ y.todo[1] \in {Following(x.method, x.todo[1]), "decrement"}
    BY <1>2, NoRequestForm DEF Goes
  <2>2. y.todo[1] \notin {"insert", "putObject", "softDelete"}
    BY <2>1 DEF Following
  <2>3. Chain(x.method, x.todo) /\ x.method \in Operation
    BY DEF Form, RequestState
  <2>4. "putObject" \notin CallsIn(y.todo)
    BY <2>1, <2>2, <2>3, PutFirst
  <2>5. x.method = "upload" /\ y.todo[1] = "update" => x.todo[1] = "putObject"
    BY <2>1, <2>3 DEF Following, Chain, Own
  <2>6. Keys(x.target, n) \subseteq Keys(x.target, m)
    BY DEF Keys
  <2>7. y.left # {} => y.todo[1] = "announce" /\ y.copy.expiry # None
    BY <1>2, <2>1, NoRequestForm DEF Goes, Due
  <2>8. QED
    BY <1>2, <2>1, <2>2, <2>4, <2>5, <2>6, <2>7 DEF Form
<1>3. QED
  BY <1>1, <1>2

\* The request q ends or goes on, and no document but its own changes.
LEMMA RequestsOK ==
    ASSUME Base, NEW q \in Request, req[q].todo # <<>>, Others(q),
           uploads' \in Nat, uploads <= uploads', Form(req'[q], uploads'),
           req'[q].todo # <<>> =>
             /\ req'[q].target = req[q].target /\ req'[q].todo[1] # "insert"
             /\ doc'[req[q].target].status # "absent",
           \A p \in Request \ {q} :
             req[p].todo # <<>> /\ req[p].target = req[q].target =>
               (doc[req[q].target].status # "absent" =>
                  doc'[req[q].target].status # "absent"),
           \A d \in Document \ {req[q].target} : doc'[d] = doc[d]
    PROVE  (\A p \in Request : Form(req'[p], uploads')) /\ Fresh'
<1>1. \A p \in Request : Form(req'[p], uploads')
  <2>1. ASSUME NEW p \in Request \ {q} PROVE Form(req[p], uploads')
    <3>1. Form(req[p], uploads) /\ uploads \in Nat
      BY DEF Base, TypeOK
    <3>2. \A d : Keys(d, uploads) \subseteq Keys(d, uploads')
      BY <3>1 DEF Keys
    <3>3. QED
      BY <3>1, <3>2 DEF Form
  <2>2. QED
    BY <2>1 DEF Others
<1>2. req[q].target \in Document
  BY DEF Base, Form
<1>3. Fresh'
  <2> SUFFICES ASSUME NEW p \in Request, req'[p].todo # <<>>
               PROVE  IF req'[p].todo[1] = "insert"
                      THEN /\ doc'[req'[p].target].status = "absent"
                           /\ \A o \in Request \ {p} :
                                req'[o].todo # <<>> => req'[o].target # req'[p].target
                      ELSE doc'[req'[p].target].status # "absent"
    BY DEF Fresh
  <2>1. CASE p = q
    BY <2>1
  <2>2. CASE p # q
    <3>1. req'[p] = req[p] /\ req[p].target \in Document
      BY <2>2 DEF Others, Base, Form
    <3>2. CASE req[p].todo[1] = "insert"
      <4>1. /\ doc[req[p].target].status = "absent"
            /\ \A o \in Request \ {p} :
                 req[o].todo # <<>> => req[o].target # req[p].target
        BY <2>2, <3>1, <3>2 DEF Base, Fresh
      <4>2. req[p].target # req[q].target
        BY <2>2, <4>1
      <4>3. doc'[req[p].target] = doc[req[p].target]
        BY <3>1, <4>2
      <4>4. \A o \in Request \ {p} :
              req'[o].todo # <<>> => req'[o].target # req[p].target
        BY <4>1, <4>2 DEF Others
      <4>5. QED
        BY <3>1, <3>2, <4>1, <4>3, <4>4
    <3>3. CASE req[p].todo[1] # "insert"
      <4>1. doc[req[p].target].status # "absent"
        BY <2>2, <3>1, <3>3 DEF Base, Fresh
      <4>2. QED
        BY <2>2, <3>1, <3>3, <4>1
    <3>4. QED
      BY <3>2, <3>3
  <2>3. QED
    BY <2>1, <2>2
<1>4. QED
  BY <1>1, <1>3

\* No request is about to put an object that was not before.
LEMMA RoomKept ==
    ASSUME Base, NEW q \in Request, Others(q), uploads' = uploads,
           "putObject" \in CallsIn(req'[q].todo) => q \in Uploading
    PROVE  Room'
<1>1. IsFiniteSet(Uploading) /\ Uploading' \subseteq Uploading
  <2>1. Uploading \subseteq Request
    BY DEF Uploading
  <2>2. Uploading' \subseteq Uploading
    BY DEF Uploading, Others
  <2>3. QED
    BY <2>1, <2>2, FS_Subset, PlacesAssumption
<1>2. IsFiniteSet(Uploading') /\ Cardinality(Uploading') <= Cardinality(Uploading)
  BY <1>1, FS_Subset
<1>3. Cardinality(Uploading') \in Nat /\ Cardinality(Uploading) \in Nat
  BY <1>1, <1>2, FS_CardinalityType
<1>4. QED
  BY <1>2, <1>3, BoundsAssumption DEF Base, TypeOK, Room

-----------------------------------------------------------------------------
(* Types, and who works on what                                            *)

LEMMA InitBase == Init => Base
<1> SUFFICES ASSUME Init PROVE Base
  OBVIOUS
<1>1. \A q \in Request : req[q] = NoRequest
  BY DEF Init
<1>2. \A q \in Request : Form(req[q], uploads)
  BY <1>1, NoRequestForm
<1>3. req \in [Request -> RequestState]
  BY NoRequestForm DEF Init
<1>4. Rows /\ Fresh
  BY <1>1, NoRequestForm DEF Init, Rows, Fresh, NoDocument
<1>5. Uploading = {}
  BY <1>1, NoRequestForm DEF Uploading, NoRequest, CallsIn
<1>6. Room
  BY <1>5, FS_EmptySet, BoundsAssumption DEF Room, Init
<1>7. NoDocument \in Row
  BY DEF NoDocument, Row
<1>8. [status |-> "absent", at |-> 0] \in Alert
  BY DEF Alert
<1>9. TypeOK
  BY <1>3, <1>7, <1>8, NoneAssumption, BoundsAssumption DEF Init, TypeOK
<1>10. QED
  BY <1>2, <1>4, <1>6, <1>9 DEF Base

\* A new request finds an active document or has the fresh one to itself.
LEMMA BeginBase ==
    ASSUME Base, NEW q \in Request, NEW d \in Document,
           NEW method \in Operation, NEW before \in Row,
           NEW after \in Row, after.status = "active",
           \/ /\ method = "create" /\ doc[d].status = "absent" /\ ~Busy(d)
              /\ before = NoDocument /\ after.file = None
           \/ /\ method # "create" /\ Found(d) /\ before = doc[d]
              /\ method = "deleteFile" => after.file = None
              /\ method # "deleteFile" => after.file = doc[d].file
              /\ method = "upload" => uploads + Cardinality(Uploading) < MaxUploads,
           Begin(q, d, method, before, after)
    PROVE  /\ Base' /\ Others(q) /\ Idle(q)
           /\ UNCHANGED <<tables, ghosts>>
           /\ req'[q] = [todo |-> Calls[method], method |-> method, target |-> d,
                         read |-> before, copy |-> after, left |-> {}]
           /\ Calls[method] # <<>> /\ Calls[method][1] \in Own(method)
<1> DEFINE x == [todo |-> Calls[method], method |-> method, target |-> d,
                 read |-> before, copy |-> after, left |-> {}]
<1>1. /\ req \in [Request -> RequestState] /\ doc \in [Document -> Row]
      /\ req' = [req EXCEPT ![q] = x]
      /\ UNCHANGED <<tables, ghosts>> /\ Idle(q)
  BY DEF Base, TypeOK, Begin
<1>2. /\ Chain(method, Calls[method]) /\ Calls[method] \in Seq(Call)
      /\ Calls[method] # <<>> /\ Calls[method][1] \in Own(method)
  BY CallsTable DEF Chain
<1>3. x \in RequestState
  BY <1>2 DEF RequestState
<1>4. Others(q) /\ req'[q] = x
  BY <1>1, <1>3 DEF Others
<1>5. method # "create" => before.status = "active" /\ before.file \in Keys(d, uploads) \union {None}
  BY <1>1 DEF Found, Row, Base, Rows
<1>6. method = "create" => before.status = "absent" /\ before.file = None
  BY DEF NoDocument, Found
<1>7. Form(x, uploads)
  BY <1>2, <1>3, <1>5, <1>6, CallsTable DEF Form
<1>8. /\ doc' = doc /\ uploads' = uploads /\ store' = store /\ alert' = alert
      /\ usage' = usage /\ today' = today /\ UNCHANGED ghosts
  BY <1>1 DEF tables
<1>9. \A p \in Request : Form(req'[p], uploads')
  BY <1>4, <1>7, <1>8 DEF Base, Others
<1>10. x.target = d /\ x.todo = Calls[method]
  OBVIOUS
<1>11. Calls[method][1] = "insert" <=> method = "create"
  BY CallsTable
<1> HIDE DEF x
<1>12. Fresh'
  <2> SUFFICES ASSUME NEW p \in Request, req'[p].todo # <<>>
               PROVE  IF req'[p].todo[1] = "insert"
                      THEN /\ doc[req'[p].target].status = "absent"
                           /\ \A o \in Request \ {p} :
                                req'[o].todo # <<>> => req'[o].target # req'[p].target
                      ELSE doc[req'[p].target].status # "absent"
    BY <1>8 DEF Fresh
  <2>1. CASE p = q
    <3>1. CASE method = "create"
      BY <2>1, <3>1, <1>4, <1>10, <1>11 DEF Busy, Idle, Others, Found
    <3>2. CASE method # "create"
      BY <2>1, <3>2, <1>4, <1>10, <1>11 DEF Found
    <3>3. QED
      BY <3>1, <3>2
  <2>2. CASE p # q
    <3>1. req'[p] = req[p] /\ req[p].todo # <<>>
      BY <2>2, <1>4 DEF Others
    <3>2. req[p].todo[1] = "insert" => req[p].target # d
      BY <3>1 DEF Base, Fresh, Busy, Idle, Found
    <3>3. QED
      BY <2>2, <3>1, <3>2, <1>4, <1>10 DEF Base, Fresh, Others
  <2>3. QED
    BY <2>1, <2>2
<1>13. Room'
  <2>1. CASE method # "upload"
    <3>1. "putObject" \notin CallsIn(req'[q].todo)
      BY <2>1, <1>2, <1>4, <1>10, CallsTable, PutFirst
    <3>2. QED
      BY <3>1, <1>4, <1>8, RoomKept
  <2>2. CASE method = "upload"
    <3>1. Uploading' \subseteq Uploading \union {q} /\ Uploading \subseteq Request
      BY <1>4 DEF Uploading, Others
    <3>2. IsFiniteSet(Uploading)
      BY <3>1, FS_Subset, PlacesAssumption
    <3>3. /\ IsFiniteSet(Uploading \union {q})
          /\ Cardinality(Uploading \union {q}) <= Cardinality(Uploading) + 1
          /\ Cardinality(Uploading) \in Nat
      <4>1. /\ IsFiniteSet(Uploading \union {q})
            /\ Cardinality(Uploading \union {q}) =
                 IF q \in Uploading THEN Cardinality(Uploading) ELSE Cardinality(Uploading) + 1
        BY <3>2, FS_AddElement
      <4>2. Cardinality(Uploading) \in Nat
        BY <3>2, FS_CardinalityType
      <4>3. QED
        BY <4>1, <4>2
    <3>4. /\ IsFiniteSet(Uploading') /\ Cardinality(Uploading') \in Nat
          /\ Cardinality(Uploading') <= Cardinality(Uploading \union {q})
      BY <3>1, <3>3, FS_Subset, FS_CardinalityType
    <3>5. Cardinality(Uploading \union {q}) \in Nat
      BY <3>3, FS_CardinalityType
    <3>6. uploads + Cardinality(Uploading) < MaxUploads
      BY <2>2
    <3>7. uploads \in Nat /\ MaxUploads \in Nat
      BY BoundsAssumption DEF Base, TypeOK
    <3>8. QED
      BY <1>8, <3>3, <3>4, <3>5, <3>6, <3>7 DEF Room
  <2>3. QED
    BY <2>1, <2>2
<1>14. TypeOK' /\ Rows'
  BY <1>4, <1>8 DEF Base, TypeOK, Rows, Others, ghosts
<1>15. QED
  BY <1>1, <1>2, <1>4, <1>9, <1>12, <1>13, <1>14 DEF Base, x

\* A new request has done nothing yet.
Begins(q, d) ==
    /\ Idle(q) /\ Others(q)
    /\ UNCHANGED <<tables, ghosts>>
    /\ req'[q].todo # <<>> /\ req'[q].target = d
    /\ req'[q].read.file \in {doc[d].file, None}
    /\ req'[q].todo[1] \in {"insert", "putObject", "deleteObject", "update", "softDelete"}
    /\ req'[q].method = "upload" => req'[q].todo[1] = "putObject"
    /\ req'[q].method = "delete" => req'[q].todo[1] = "softDelete"
    /\ req'[q].method = "deleteFile" => req'[q].todo[1] = "deleteObject"

LEMMA BeginStep ==
    ASSUME Base, NEW q \in Request, NEW d \in Document,
           NEW method \in Operation, NEW before \in Row,
           NEW after \in Row, after.status = "active",
           \/ /\ method = "create" /\ doc[d].status = "absent" /\ ~Busy(d)
              /\ before = NoDocument /\ after.file = None
           \/ /\ method # "create" /\ Found(d) /\ before = doc[d]
              /\ method = "deleteFile" => after.file = None
              /\ method # "deleteFile" => after.file = doc[d].file
              /\ method = "upload" => uploads + Cardinality(Uploading) < MaxUploads,
           Begin(q, d, method, before, after)
    PROVE  Base' /\ Begins(q, d)
<1> DEFINE x == [todo |-> Calls[method], method |-> method, target |-> d,
                 read |-> before, copy |-> after, left |-> {}]
<1>1. /\ Base' /\ Others(q) /\ Idle(q) /\ UNCHANGED <<tables, ghosts>>
      /\ req'[q] = x /\ Calls[method] # <<>>
  BY BeginBase
<1>2. /\ x.todo = Calls[method] /\ x.method = method /\ x.target = d
      /\ x.read.file \in {doc[d].file, None}
  BY DEF NoDocument
<1> HIDE DEF x
<1>3. QED
  BY <1>1, <1>2, CallsTable DEF Begins

LEMMA HandleBase ==
    ASSUME Base, NEW q \in Request, NEW d \in Document, Handle(q, d)
    PROVE  Base' /\ Begins(q, d)
<1>1. doc[d] \in Row
  BY DEF Base, TypeOK
<1>2. Found(d) => doc[d].status = "active"
  BY <1>1 DEF Found, Row
<1>3. CASE CreateDocument(q, d)
  <2>1. PICK expiry \in Date \union {None}, offsets \in SUBSET Offset \ {{}} :
          Begin(q, d, "create", NoDocument,
                [status |-> "active", file |-> None,
                 expiry |-> expiry, offsets |-> offsets])
    BY <1>3, Zenon DEF CreateDocument
  <2> DEFINE row == [status |-> "active", file |-> None,
                     expiry |-> expiry, offsets |-> offsets]
  <2>2. /\ row \in Row /\ row.status = "active" /\ row.file = None
        /\ NoDocument \in Row /\ "create" \in Operation
    BY DEF Row, NoDocument, Operation, Calls
  <2>3. doc[d].status = "absent" /\ ~Busy(d)
    BY <1>3 DEF CreateDocument
  <2> HIDE DEF row
  <2>4. Begin(q, d, "create", NoDocument, row)
    BY <2>1 DEF row
  <2>5. QED
    BY <2>2, <2>3, <2>4, BeginStep
<1>4. CASE UploadDocumentFile(q, d)
  <2>1. /\ Found(d) /\ Begin(q, d, "upload", doc[d], doc[d])
        /\ uploads + Cardinality(Uploading) < MaxUploads
    BY <1>4 DEF UploadDocumentFile, Uploading, CallsIn
  <2>2. "upload" \in Operation
    BY DEF Operation, Calls
  <2>3. QED
    BY <1>1, <1>2, <2>1, <2>2, BeginStep
<1>5. CASE DeleteDocumentFile(q, d)
  <2> DEFINE row == [doc[d] EXCEPT !.file = None]
  <2>1. /\ row \in Row /\ row.status = doc[d].status /\ row.file = None
        /\ "deleteFile" \in Operation
    BY <1>1 DEF Row, Operation, Calls
  <2>2. Found(d) /\ Begin(q, d, "deleteFile", doc[d], row)
    BY <1>5 DEF DeleteDocumentFile, Cleared
  <2> HIDE DEF row
  <2>3. QED
    BY <1>1, <1>2, <2>1, <2>2, BeginStep
<1>6. CASE EditDocument(q, d)
  <2>1. PICK offsets \in SUBSET Offset :
          Begin(q, d, "edit", doc[d], [doc[d] EXCEPT !.offsets = offsets])
    BY <1>6, Zenon DEF EditDocument
  <2> DEFINE row == [doc[d] EXCEPT !.offsets = offsets]
  <2>2. /\ row \in Row /\ row.status = doc[d].status /\ row.file = doc[d].file
        /\ "edit" \in Operation
    BY <1>1 DEF Row, Operation, Calls
  <2>3. Found(d)
    BY <1>6 DEF EditDocument
  <2> HIDE DEF row
  <2>4. Begin(q, d, "edit", doc[d], row)
    BY <2>1 DEF row
  <2>5. QED
    BY <1>1, <1>2, <2>2, <2>3, <2>4, BeginStep
<1>7. CASE RenewDocument(q, d)
  <2>1. PICK expiry \in Date \union {doc[d].expiry} :
          \E offsets \in SUBSET Offset :
            Begin(q, d, "renew", doc[d],
                  [doc[d] EXCEPT !.expiry = expiry, !.offsets = offsets])
    BY <1>7, Zenon DEF RenewDocument
  <2>2. PICK offsets \in SUBSET Offset :
          Begin(q, d, "renew", doc[d],
                [doc[d] EXCEPT !.expiry = expiry, !.offsets = offsets])
    BY <2>1, Zenon
  <2> DEFINE row == [doc[d] EXCEPT !.expiry = expiry, !.offsets = offsets]
  <2>3. /\ row \in Row /\ row.status = doc[d].status /\ row.file = doc[d].file
        /\ "renew" \in Operation
    BY <1>1 DEF Row, Operation, Calls
  <2>4. Found(d)
    BY <1>7 DEF RenewDocument
  <2> HIDE DEF row
  <2>5. Begin(q, d, "renew", doc[d], row)
    BY <2>2 DEF row
  <2>6. QED
    BY <1>1, <1>2, <2>3, <2>4, <2>5, BeginStep
<1>8. CASE DeleteDocument(q, d)
  <2>1. "delete" \in Operation
    BY DEF Operation, Calls
  <2>2. QED
    BY <1>1, <1>2, <1>8, <2>1, BeginStep DEF DeleteDocument
<1>9. QED
  BY <1>3, <1>4, <1>5, <1>6, <1>7, <1>8 DEF Handle

\* q makes its call, which changes at most its own document, and goes on.
LEMMA CallStep ==
    ASSUME Base, NEW q \in Request, NEW c, Makes(q, c),
           NEW copy \in Row, Continue(q, copy), copy.status = "active",
           uploads' \in Nat, uploads <= uploads',
           c # "putObject" => copy.file = req[q].copy.file,
           c = "putObject" => copy.file \in Keys(req[q].target, uploads'),
           \A d \in Document \ {req[q].target} : doc'[d] = doc[d],
           doc'[req[q].target].status # "absent"
    PROVE  /\ (\A p \in Request : Form(req'[p], uploads')) /\ Fresh'
           /\ Others(q) /\ Goes(req[q], req'[q], copy)
           /\ "putObject" \notin CallsIn(req'[q].todo)
           /\ req' \in [Request -> RequestState]
<1>1. Others(q) /\ Goes(req[q], req'[q], copy)
  BY AtCall, Continues
<1>2. /\ req'[q] \in RequestState /\ uploads \in Nat
      /\ Form(req[q], uploads) /\ req[q].todo # <<>>
      /\ req[q].todo[1] = c
  BY <1>1, AtCall DEF Others, Base, TypeOK
<1>3. /\ req[q].method \in {"create", "deleteFile"} => copy.file = None
      /\ req[q].method \in {"edit", "renew"} => copy.file = req[q].read.file
  BY <1>2, AtCall DEF Form
<1>4. /\ Form(req'[q], uploads')
      /\ req'[q].todo # <<>> =>
           /\ req'[q].target = req[q].target
           /\ req'[q].todo[1] \notin {"insert", "putObject", "softDelete"}
           /\ "putObject" \notin CallsIn(req'[q].todo)
  BY <1>1, <1>2, <1>3, GoesForm
<1>5. req'[q].todo = <<>> => "putObject" \notin CallsIn(req'[q].todo)
  BY DEF CallsIn
<1>6. QED
  BY <1>1, <1>2, <1>4, <1>5, RequestsOK DEF Others

\* q is at hand with its copy, and what it is about exists.
LEMMA OwnRow ==
    ASSUME Base, NEW q \in Request, NEW c, Makes(q, c)
    PROVE  /\ req[q].copy \in Row /\ req[q].copy.status = "active"
           /\ req[q].target \in Document
           /\ c # "insert" => doc[req[q].target].status # "absent"
           /\ uploads \in Nat
           /\ req[q].read.file \in Keys(req[q].target, uploads) \union {None}
           /\ c = "update" => req[q].copy.file \in Keys(req[q].target, uploads) \union {None}
           /\ c = "insert" => req[q].copy.file = None
<1>1. Form(req[q], uploads) /\ req[q].todo # <<>> /\ req[q].todo[1] = c
  BY AtCall DEF Base
<1>2. QED
  BY <1>1, AtCall DEF Base, Form, Fresh, TypeOK

LEMMA LateWriteType ==
    ASSUME NEW q, slips \in 0 .. MaxSlips, NoteLateWrite(q)
    PROVE  slips' \in 0 .. MaxSlips
BY BoundsAssumption DEF NoteLateWrite

LEMMA CallBase ==
    ASSUME Base, NEW q \in Request, MakeCall(q), ~Makes(q, "announce")
    PROVE  Base'
<1>1. CASE Insert(q)
  <2>1. /\ Makes(q, "insert") /\ Continue(q, req[q].copy)
        /\ doc' = [doc EXCEPT ![req[q].target] = req[q].copy]
        /\ UNCHANGED <<store, alert, usage, today, uploads, ghosts>>
    BY <1>1 DEF Insert
  <2>2. doc' \in [Document -> Row] /\ doc'[req[q].target] = req[q].copy
        /\ \A d \in Document \ {req[q].target} : doc'[d] = doc[d]
    BY <2>1, OwnRow DEF Base, TypeOK
  <2>3. /\ (\A p \in Request : Form(req'[p], uploads')) /\ Fresh'
        /\ Others(q) /\ "putObject" \notin CallsIn(req'[q].todo)
        /\ req' \in [Request -> RequestState]
    BY <2>1, <2>2, OwnRow, CallStep
  <2>4. Room'
    BY <2>1, <2>3, RoomKept
  <2>5. Rows'
    BY <2>1, <2>2, OwnRow DEF Base, Rows
  <2>6. QED
    BY <2>1, <2>2, <2>3, <2>4, <2>5 DEF Base, TypeOK, ghosts
<1>2. CASE Increment(q) \/ Decrement(q) \/ DeleteObject(q)
  <2>1. PICK c \in Call : Makes(q, c) /\ c \notin {"putObject", "insert"}
    BY <1>2 DEF Increment, Decrement, DeleteObject, Call
  <2>2. /\ Continue(q, req[q].copy)
        /\ UNCHANGED <<doc, alert, today, uploads, ghosts>>
        /\ store' \subseteq File /\ usage' \in Nat \union {NoRow}
    BY <1>2 DEF Increment, Decrement, DeleteObject, Decremented, Base, TypeOK
  <2>3. /\ (\A p \in Request : Form(req'[p], uploads')) /\ Fresh'
        /\ Others(q) /\ "putObject" \notin CallsIn(req'[q].todo)
        /\ req' \in [Request -> RequestState]
    BY <2>1, <2>2, OwnRow, CallStep
  <2>4. Room'
    BY <2>2, <2>3, RoomKept
  <2>5. QED
    BY <2>2, <2>3, <2>4 DEF Base, TypeOK, Rows, ghosts
<1>3. CASE PutObject(q)
  <2> DEFINE key == <<req[q].target, uploads + 1>>
             copy == [req[q].copy EXCEPT !.file = key]
  <2>1. /\ Makes(q, "putObject") /\ Continue(q, copy)
        /\ uploads' = uploads + 1 /\ store' = store \union {key}
        /\ UNCHANGED <<doc, alert, usage, today, ghosts>>
    BY <1>3 DEF PutObject
  <2>2. q \in Uploading
    <3>1. /\ req[q].todo # <<>> /\ req[q].todo[1] = "putObject"
          /\ Chain(req[q].method, req[q].todo) /\ req[q].method \in Operation
      BY <2>1, AtCall DEF Base, Form
    <3>2. QED
      BY <3>1, PutFirst DEF Uploading
  <2>3. uploads \in Nat /\ Uploading \subseteq Request /\ IsFiniteSet(Uploading)
    BY PlacesAssumption, FS_Subset DEF Uploading, Base, TypeOK
  <2>4. /\ IsFiniteSet(Uploading \ {q})
        /\ Cardinality(Uploading \ {q}) = Cardinality(Uploading) - 1
        /\ Cardinality(Uploading) \in Nat
        /\ Cardinality(Uploading \ {q}) \in Nat
    <3>1. /\ IsFiniteSet(Uploading \ {q})
          /\ Cardinality(Uploading \ {q}) =
               IF q \in Uploading THEN Cardinality(Uploading) - 1 ELSE Cardinality(Uploading)
      BY <2>3, FS_RemoveElement
    <3>2. Cardinality(Uploading) \in Nat /\ Cardinality(Uploading \ {q}) \in Nat
      BY <2>3, <3>1, FS_CardinalityType
    <3>3. QED
      BY <2>2, <3>1, <3>2
  <2>5. uploads' \in 1 .. MaxUploads
    BY <2>1, <2>3, <2>4, BoundsAssumption DEF Base, Room
  <2>6. key \in File /\ key \in Keys(req[q].target, uploads')
    BY <2>1, <2>3, <2>5, AtCall DEF File, Keys
  <2>7. copy \in Row /\ copy.status = "active" /\ copy.file = key
    BY <2>1, <2>6, OwnRow DEF Row
  <2> HIDE DEF key, copy
  <2>8. /\ (\A p \in Request : Form(req'[p], uploads')) /\ Fresh'
        /\ Others(q) /\ "putObject" \notin CallsIn(req'[q].todo)
        /\ req' \in [Request -> RequestState]
    BY <2>1, <2>3, <2>5, <2>6, <2>7, OwnRow, CallStep
  <2>9. Room'
    <3>1. Uploading' \subseteq Uploading \ {q}
      BY <2>8 DEF Uploading, Others
    <3>2. IsFiniteSet(Uploading') /\ Cardinality(Uploading') <= Cardinality(Uploading \ {q})
      BY <2>4, <3>1, FS_Subset
    <3>3. Cardinality(Uploading') \in Nat
      BY <3>2, FS_CardinalityType
    <3>4. QED
      BY <2>1, <2>3, <2>4, <3>2, <3>3, BoundsAssumption DEF Base, Room
  <2>10. Rows'
    <3>1. \A d : Keys(d, uploads) \subseteq Keys(d, uploads')
      BY <2>1, <2>3 DEF Keys
    <3>2. QED
      BY <2>1, <3>1 DEF Base, Rows
  <2>11. TypeOK'
    BY <2>1, <2>5, <2>6, <2>8 DEF Base, TypeOK, ghosts
  <2>12. QED
    BY <2>8, <2>9, <2>10, <2>11 DEF Base
<1>4. CASE Update(q)
  <2>1. /\ Makes(q, "update") /\ Continue(q, req[q].copy) /\ NoteStaleness(q)
        /\ doc' = [doc EXCEPT ![req[q].target] = req[q].copy]
        /\ replaced' \subseteq replaced \union ({req[q].read.file} \ {None})
        /\ renewed' \subseteq renewed \union {req[q].target}
        /\ UNCHANGED <<store, alert, usage, today, uploads, missed, failures>>
    BY <1>4 DEF Update
  <2>2. doc' \in [Document -> Row] /\ doc'[req[q].target] = req[q].copy
        /\ \A d \in Document \ {req[q].target} : doc'[d] = doc[d]
    BY <2>1, OwnRow DEF Base, TypeOK
  <2>3. /\ (\A p \in Request : Form(req'[p], uploads')) /\ Fresh'
        /\ Others(q) /\ "putObject" \notin CallsIn(req'[q].todo)
        /\ req' \in [Request -> RequestState]
    BY <2>1, <2>2, OwnRow, CallStep
  <2>4. Room'
    BY <2>1, <2>3, RoomKept
  <2>5. Rows'
    BY <2>1, <2>2, OwnRow DEF Base, Rows
  <2>6. stale' \subseteq Document /\ renewed' \subseteq Document
    BY <2>1, OwnRow DEF NoteStaleness, Base, TypeOK
  <2>7. replaced' \subseteq File
    BY <2>1, AtCall DEF Base, TypeOK, Row
  <2>8. slips' \in 0 .. MaxSlips
    BY <1>4, LateWriteType DEF Update, Base, TypeOK
  <2>9. QED
    BY <2>1, <2>2, <2>3, <2>4, <2>5, <2>6, <2>7, <2>8 DEF Base, TypeOK
<1>5. CASE CancelAlerts(q)
  <2>1. /\ Makes(q, "cancel") /\ Continue(q, req[q].copy)
        /\ UNCHANGED <<doc, store, usage, today, uploads, ghosts>>
    BY <1>5 DEF CancelAlerts
  <2>2. alert' = alert
    BY <1>5, NoneAssumption DEF CancelAlerts, FindAllByUser, Base, TypeOK
  <2>3. /\ (\A p \in Request : Form(req'[p], uploads')) /\ Fresh'
        /\ Others(q) /\ "putObject" \notin CallsIn(req'[q].todo)
        /\ req' \in [Request -> RequestState]
    BY <2>1, OwnRow, CallStep
  <2>4. Room'
    BY <2>1, <2>3, RoomKept
  <2>5. QED
    BY <2>1, <2>2, <2>3, <2>4 DEF Base, TypeOK, Rows, ghosts
<1>6. CASE SoftDelete(q)
  <2> DEFINE row == [doc[req[q].target] EXCEPT !.status = "archived"]
  <2>1. /\ Makes(q, "softDelete") /\ Continue(q, req[q].copy) /\ NoteStaleness(q)
        /\ doc' = [doc EXCEPT ![req[q].target].status = "archived"]
        /\ UNCHANGED <<store, alert, usage, today, uploads,
                       missed, replaced, renewed, failures>>
    BY <1>6 DEF SoftDelete
  <2>2. /\ doc[req[q].target] \in Row
        /\ doc' = [doc EXCEPT ![req[q].target] = row]
    BY <2>1, OwnRow DEF Base, TypeOK
  <2>3. row \in Row /\ row.status = "archived" /\ row.file = doc[req[q].target].file
    BY <2>2 DEF Row
  <2> HIDE DEF row
  <2>4. /\ doc' \in [Document -> Row] /\ doc'[req[q].target] = row
        /\ \A d \in Document \ {req[q].target} : doc'[d] = doc[d]
    BY <2>1, <2>2, <2>3, OwnRow DEF Base, TypeOK
  <2>5. /\ (\A p \in Request : Form(req'[p], uploads')) /\ Fresh'
        /\ Others(q) /\ "putObject" \notin CallsIn(req'[q].todo)
        /\ req' \in [Request -> RequestState]
    BY <2>1, <2>3, <2>4, OwnRow, CallStep
  <2>6. Room'
    BY <2>1, <2>5, RoomKept
  <2>7. Rows'
    BY <2>1, <2>3, <2>4, OwnRow DEF Base, Rows
  <2>8. stale' \subseteq Document
    BY <2>1, OwnRow DEF NoteStaleness, Base, TypeOK
  <2>9. slips' \in 0 .. MaxSlips
    BY <1>6, LateWriteType DEF SoftDelete, Base, TypeOK
  <2>10. QED
    BY <2>1, <2>4, <2>5, <2>6, <2>7, <2>8, <2>9 DEF Base, TypeOK
<1>7. CASE Announce(q)
  BY <1>7 DEF Announce
<1>8. QED
  BY <1>1, <1>2, <1>3, <1>4, <1>5, <1>6, <1>7 DEF MakeCall

\* q has one alert less to insert.
Shortens(x, y, left) ==
    \/ y = NoRequest /\ left = {}
    \/ /\ y.todo = x.todo /\ y.method = x.method /\ y.target = x.target
       /\ y.read = x.read /\ y.copy = x.copy /\ y.left = left

LEMMA RemainingStep ==
    ASSUME Base, NEW q \in Request, req[q].todo # <<>>,
           NEW o \in req[q].left, Remaining(q, req[q].left \ {o}),
           UNCHANGED <<doc, uploads>>
    PROVE  /\ (\A p \in Request : Form(req'[p], uploads')) /\ Fresh' /\ Room'
           /\ Others(q) /\ Shortens(req[q], req'[q], req[q].left \ {o})
           /\ req' \in [Request -> RequestState]
<1> DEFINE left == req[q].left \ {o}
           y == IF left = {} THEN NoRequest ELSE [req[q] EXCEPT !.left = left]
<1>1. /\ req \in [Request -> RequestState] /\ req[q] \in RequestState
      /\ Form(req[q], uploads) /\ uploads \in Nat
  BY DEF Base, TypeOK
<1>2. req' = [req EXCEPT ![q] = y]
  BY DEF Remaining
<1>3. /\ y \in RequestState
      /\ Shortens(req[q], y, left)
  BY <1>1, NoRequestForm DEF RequestState, Shortens
<1>4. Form(y, uploads)
  BY <1>1, <1>3, NoRequestForm DEF Form, Shortens
<1> HIDE DEF y
<1>5. Others(q) /\ req'[q] = y /\ req' \in [Request -> RequestState]
  BY <1>1, <1>2, <1>3 DEF Others
<1>6. \A p \in Request : Form(req'[p], uploads')
  BY <1>4, <1>5 DEF Others, Base
<1>7. Fresh'
  <2>1. \A p \in Request : \/ req'[p].todo = <<>>
                           \/ /\ req'[p].todo = req[p].todo
                              /\ req'[p].target = req[p].target
    BY <1>3, <1>5, NoRequestForm DEF Others, Shortens
  <2> SUFFICES ASSUME NEW p \in Request, req'[p].todo # <<>>
               PROVE  IF req[p].todo[1] = "insert"
                      THEN /\ doc[req[p].target].status = "absent"
                           /\ \A p2 \in Request \ {p} :
                                req'[p2].todo # <<>> => req'[p2].target # req[p].target
                      ELSE doc[req[p].target].status # "absent"
    BY <2>1 DEF Fresh
  <2>2. req[p].todo # <<>>
    BY <2>1
  <2>3. QED
    BY <2>1, <2>2 DEF Base, Fresh
<1>8. Room'
  <2>1. "putObject" \in CallsIn(req'[q].todo) => q \in Uploading
    BY <1>3, <1>5, NoRequestForm DEF Uploading, Shortens, CallsIn
  <2>2. QED
    BY <1>5, <2>1, RoomKept
<1>9. QED
  BY <1>3, <1>5, <1>6, <1>7, <1>8

LEMMA AnnounceBase ==
    ASSUME Base, NEW q \in Request, Announce(q)
    PROVE  Base'
<1>1. PICK o \in req[q].left :
        /\ alert' = IF alert[<<req[q].target, o>>].status # "absent" THEN alert
                    ELSE [alert EXCEPT ![<<req[q].target, o>>] =
                            [status |-> "scheduled", at |-> req[q].copy.expiry - o]]
        /\ Remaining(q, req[q].left \ {o})
  BY Zenon DEF Announce
<1>2. /\ Makes(q, "announce")
      /\ UNCHANGED <<doc, store, usage, today, uploads, ghosts>>
  BY DEF Announce
<1>3. /\ (\A p \in Request : Form(req'[p], uploads')) /\ Fresh' /\ Room'
      /\ req' \in [Request -> RequestState]
  BY <1>1, <1>2, AtCall, RemainingStep
<1>4. /\ req[q].target \in Document /\ o \in Offset
      /\ req[q].copy \in Row /\ doc[req[q].target].status # "absent"
      /\ req[q].copy.expiry # None
  BY <1>2, AtCall, OwnRow DEF RequestState, Base, Form
<1> DEFINE k == <<req[q].target, o>>
           a == [status |-> "scheduled", at |-> req[q].copy.expiry - o]
<1>5. alert' \in [Document \X Offset -> Alert]
  <2>1. k \in Document \X Offset /\ alert \in [Document \X Offset -> Alert]
    BY <1>4 DEF Base, TypeOK
  <2>2. a \in Alert
    <3>1. req[q].copy.expiry \in Date
      BY <1>4 DEF Row
    <3>2. req[q].copy.expiry \in Int /\ o \in Int
      BY <1>4, <3>1, DateAssumption
    <3>3. QED
      BY <3>2 DEF Alert
  <2>3. QED
    BY <1>1, <2>1, <2>2
<1>6. Rows'
  <2>1. \A e \in Document, i \in Offset :
          <<e, i>> # k => alert'[<<e, i>>] = alert[<<e, i>>]
    BY <1>1 DEF Base, TypeOK
  <2>2. QED
    BY <1>2, <1>4, <2>1 DEF Base, Rows
<1>7. QED
  BY <1>2, <1>3, <1>5, <1>6 DEF Base, TypeOK, ghosts

\* What the calls a failure cuts off leave in missed.
LEMMA MissedType ==
    ASSUME Base, NEW q \in Request
    PROVE  /\ CallsIn(req[q].todo) \subseteq Call
           /\ Missed(q, CallsIn(req[q].todo)) \subseteq (Document \union {None}) \X Call
<1>1. req[q].todo \in Seq(Call) /\ req[q].target \in Document \union {None}
  BY DEF Base, Form, RequestState
<1>2. CallsIn(req[q].todo) \subseteq Call
  BY <1>1 DEF CallsIn
<1>3. QED
  BY <1>1, <1>2 DEF Missed

\* q fails or goes on with nothing changed but what was put.
LEMMA FailBase ==
    ASSUME Base, NEW q \in Request, req[q].todo # <<>>,
           UNCHANGED <<doc, alert, usage, today, stale, slips, replaced, renewed>>,
           uploads' \in 0 .. MaxUploads, store' \subseteq File,
           failures' \in 0 .. MaxFailures,
           missed' \subseteq (Document \union {None}) \X Call,
           \/ /\ uploads' = uploads
              /\ \/ End(q)
                 \/ \E c : /\ Makes(q, c) /\ c \notin {"putObject", "insert"}
                           /\ Continue(q, req[q].copy)
                 \/ \E o \in req[q].left : Remaining(q, req[q].left \ {o})
           \/ Makes(q, "putObject") /\ uploads' = uploads + 1 /\ End(q)
    PROVE  Base'
<1>1. uploads \in Nat /\ uploads' \in Nat /\ uploads <= uploads'
      /\ \A d : Keys(d, uploads) \subseteq Keys(d, uploads')
  BY BoundsAssumption DEF Base, TypeOK, Keys
<1>2. Rows'
  BY <1>1 DEF Base, Rows
<1>3. CASE End(q)
  <2>1. Others(q) /\ req'[q] = NoRequest
    BY <1>3, Stops DEF End
  <2>2. (\A p \in Request : Form(req'[p], uploads')) /\ Fresh'
    BY <1>1, <2>1, NoRequestForm, RequestsOK
  <2>3. "putObject" \notin CallsIn(req'[q].todo)
    BY <2>1, NoRequestForm DEF CallsIn
  <2>4. CASE uploads' = uploads
    BY <1>2, <2>1, <2>2, <2>3, <2>4, RoomKept DEF Base, TypeOK, Others
  <2>5. CASE Makes(q, "putObject") /\ uploads' = uploads + 1
    <3>1. q \in Uploading
      <4>1. /\ req[q].todo # <<>> /\ req[q].todo[1] = "putObject"
            /\ Chain(req[q].method, req[q].todo) /\ req[q].method \in Operation
        BY <2>5, AtCall DEF Base, Form
      <4>2. QED
        BY <4>1, PutFirst DEF Uploading
    <3>2. Uploading \subseteq Request /\ IsFiniteSet(Uploading)
      BY PlacesAssumption, FS_Subset DEF Uploading
    <3>3. /\ IsFiniteSet(Uploading \ {q})
          /\ Cardinality(Uploading \ {q}) =
               IF q \in Uploading THEN Cardinality(Uploading) - 1 ELSE Cardinality(Uploading)
      BY <3>2, FS_RemoveElement
    <3>4. Cardinality(Uploading) \in Nat /\ Cardinality(Uploading \ {q}) \in Nat
      BY <3>2, <3>3, FS_CardinalityType
    <3>5. Uploading' \subseteq Uploading \ {q}
      BY <2>1, <2>3 DEF Uploading, Others
    <3>6. IsFiniteSet(Uploading') /\ Cardinality(Uploading') <= Cardinality(Uploading \ {q})
      BY <3>3, <3>5, FS_Subset
    <3>7. Cardinality(Uploading') \in Nat
      BY <3>6, FS_CardinalityType
    <3>8. Room'
      BY <1>1, <2>5, <3>1, <3>3, <3>4, <3>6, <3>7, BoundsAssumption DEF Base, Room
    <3>9. QED
      BY <1>2, <2>1, <2>2, <3>8 DEF Base, TypeOK, Others
  <2>6. uploads' = uploads \/ (Makes(q, "putObject") /\ uploads' = uploads + 1)
    OBVIOUS
  <2>7. QED
    BY <2>4, <2>5, <2>6
<1>4. ASSUME NEW c, Makes(q, c), c \notin {"putObject", "insert"},
             Continue(q, req[q].copy), uploads' = uploads
      PROVE  Base'
  <2>1. doc'[req[q].target].status # "absent"
    BY <1>4, OwnRow
  <2>2. Others(q) /\ Goes(req[q], req'[q], req[q].copy)
    BY <1>4, AtCall, Continues
  <2>3. /\ Form(req'[q], uploads')
        /\ req'[q].todo # <<>> =>
             /\ req'[q].target = req[q].target
             /\ req'[q].todo[1] # "insert" /\ "putObject" \notin CallsIn(req'[q].todo)
    <3>1. /\ Form(req[q], uploads) /\ req'[q] \in RequestState
          /\ req[q].copy \in Row /\ req[q].copy.status = "active"
          /\ req[q].todo[1] # "putObject"
          /\ req[q].method \in {"create", "deleteFile"} => req[q].copy.file = None
          /\ req[q].method \in {"edit", "renew"} => req[q].copy.file = req[q].read.file
      BY <1>4, <2>2, AtCall DEF Others, Base, Form
    <3>2. QED
      BY <1>1, <1>4, <2>2, <3>1, GoesForm
  <2>4. (\A p \in Request : Form(req'[p], uploads')) /\ Fresh'
    BY <1>1, <1>4, <2>1, <2>2, <2>3, RequestsOK
  <2>5. "putObject" \notin CallsIn(req'[q].todo)
    BY <2>3 DEF CallsIn
  <2>6. QED
    BY <1>2, <1>4, <2>2, <2>4, <2>5, RoomKept DEF Base, TypeOK, Others
<1>5. ASSUME NEW o \in req[q].left, Remaining(q, req[q].left \ {o}), uploads' = uploads
      PROVE  Base'
  <2>1. /\ (\A p \in Request : Form(req'[p], uploads')) /\ Fresh' /\ Room'
        /\ req' \in [Request -> RequestState]
    BY <1>5, RemainingStep
  <2>2. QED
    BY <1>2, <1>5, <2>1 DEF Base, TypeOK
<1>6. QED
  BY <1>3, <1>4, <1>5

LEMMA CallFailsBase ==
    ASSUME Base, NEW q \in Request, CallFails(q)
    PROVE  Base'
<1> DEFINE calls == req[q].todo
           c == Head(calls)
<1>1. /\ calls # <<>> /\ Fail
      /\ UNCHANGED <<tables, stale, slips, replaced, renewed>>
      /\ Makes(q, c)
  BY DEF CallFails, Idle, Makes
<1>2. req[q].target \in Document /\ c \in Call /\ req[q].todo[1] = c
  BY <1>1, AtCall DEF RequestState
<1>3. /\ failures' \in 0 .. MaxFailures
      /\ uploads' = uploads /\ uploads' \in 0 .. MaxUploads
      /\ store' \subseteq File
      /\ UNCHANGED <<doc, alert, usage, today, stale, slips, replaced, renewed>>
  BY <1>1, BoundsAssumption DEF Base, TypeOK, Fail, tables
<1>4. missed' \subseteq (Document \union {None}) \X Call
  <2>1. \/ missed' = missed \union {<<req[q].target, c>>}
        \/ missed' = missed \union Missed(q, CallsIn(calls))
    BY DEF CallFails
  <2>2. QED
    BY <1>2, <2>1, MissedType DEF Base, TypeOK
<1>5. \/ End(q)
      \/ c \in Ignored(req[q].method) /\ Continue(q, req[q].copy)
      \/ \E o \in req[q].left : Remaining(q, req[q].left \ {o})
  BY Zenon DEF CallFails
<1>6. c \in Ignored(req[q].method) => c \notin {"putObject", "insert"}
  BY DEF Ignored
<1> HIDE DEF calls, c
<1>7. \/ End(q)
      \/ \E cc : /\ Makes(q, cc) /\ cc \notin {"putObject", "insert"}
                 /\ Continue(q, req[q].copy)
      \/ \E o \in req[q].left : Remaining(q, req[q].left \ {o})
  BY <1>1, <1>5, <1>6
<1>8. req[q].todo # <<>>
  BY <1>1 DEF calls
<1>9. QED
  BY <1>3, <1>4, <1>7, <1>8, FailBase

LEMMA AnswerLostBase ==
    ASSUME Base, NEW q \in Request, AnswerLost(q)
    PROVE  Base'
<1>1. /\ req[q].todo # <<>> /\ Fail
      /\ UNCHANGED <<doc, alert, usage, today, stale, slips, replaced, renewed>>
  BY DEF AnswerLost, Idle
<1>2. failures' \in 0 .. MaxFailures
  BY <1>1, BoundsAssumption DEF Base, TypeOK, Fail
<1>3. req[q].target \in Document /\ CallsIn(req[q].todo) \subseteq Call
  BY <1>1, MissedType DEF Base, Form
<1>4. missed' \subseteq (Document \union {None}) \X Call
  BY <1>3 DEF AnswerLost, Base, TypeOK, Call
<1>5. CASE /\ Makes(q, "putObject") /\ uploads' = uploads + 1
           /\ store' = store \union {<<req[q].target, uploads + 1>>} /\ End(q)
  <2>1. q \in Uploading
    <3>1. /\ req[q].todo # <<>> /\ req[q].todo[1] = "putObject"
          /\ Chain(req[q].method, req[q].todo) /\ req[q].method \in Operation
      BY <1>5, AtCall DEF Base, Form
    <3>2. QED
      BY <3>1, PutFirst DEF Uploading
  <2>2. Uploading \subseteq Request /\ IsFiniteSet(Uploading)
    BY PlacesAssumption, FS_Subset DEF Uploading
  <2>3. Cardinality(Uploading) \in Nat /\ Cardinality(Uploading) # 0
    BY <2>1, <2>2, FS_CardinalityType, FS_EmptySet
  <2>4. uploads' \in 1 .. MaxUploads
    BY <1>5, <2>3, BoundsAssumption DEF Base, TypeOK, Room
  <2>5. store' \subseteq File
    BY <1>3, <1>5, <2>4 DEF Base, TypeOK, File
  <2>6. QED
    BY <1>1, <1>2, <1>4, <1>5, <2>4, <2>5, FailBase
<1>6. CASE /\ Makes(q, "deleteObject") /\ store' = store \ {req[q].read.file}
           /\ uploads' = uploads
           /\ Continue(q, req[q].copy) \/ End(q)
  BY <1>1, <1>2, <1>4, <1>6, FailBase DEF Base, TypeOK
<1>7. QED
  BY <1>5, <1>6 DEF AnswerLost

LEMMA CrashBase == Base /\ Crash => Base'
<1> SUFFICES ASSUME Base, Crash PROVE Base'
  OBVIOUS
<1>1. /\ failures' \in 0 .. MaxFailures
      /\ UNCHANGED <<tables, stale, slips, replaced, renewed>>
  BY BoundsAssumption DEF Crash, Fail, Base, TypeOK
<1>2. missed' \subseteq (Document \union {None}) \X Call
  BY MissedType DEF Crash, Base, TypeOK
<1>3. /\ req' \in [Request -> RequestState]
      /\ \A q \in Request : req'[q] = NoRequest
  BY NoRequestForm DEF Crash
<1>4. \A q \in Request : Form(req'[q], uploads')
  BY <1>3, NoRequestForm
<1>5. Fresh'
  BY <1>3, NoRequestForm DEF Fresh
<1>6. Uploading' = {}
  BY <1>3, NoRequestForm DEF Uploading, CallsIn
<1>7. Room'
  BY <1>1, <1>6, FS_EmptySet, BoundsAssumption DEF Room, tables, Base, TypeOK
<1>8. QED
  BY <1>1, <1>2, <1>3, <1>4, <1>5, <1>7 DEF Base, TypeOK, Rows, tables

LEMMA DayBase == Base /\ NextDay => Base'
<1> SUFFICES ASSUME Base, NextDay PROVE Base'
  OBVIOUS
<1>1. today' \in 0 .. MaxDay /\ UNCHANGED <<doc, store, alert, usage, uploads, req, ghosts>>
  BY BoundsAssumption DEF NextDay, Base, TypeOK
<1>2. TypeOK'
  BY <1>1 DEF Base, TypeOK, ghosts
<1>3. Rows' /\ Fresh' /\ Room' /\ \A q \in Request : Form(req'[q], uploads')
  BY <1>1 DEF Base, Rows, Fresh, Room, Uploading
<1>4. QED
  BY <1>2, <1>3 DEF Base

LEMMA NextBase == Base /\ [Next]_vars => Base'
<1> SUFFICES ASSUME Base, [Next]_vars PROVE Base'
  OBVIOUS
<1>1. CASE UNCHANGED vars
  BY <1>1 DEF vars, tables, ghosts, Base, TypeOK, Rows, Fresh, Room, Uploading
<1>2. ASSUME NEW q \in Request, MakeCall(q)
      PROVE  Base'
  <2>1. CASE Makes(q, "announce")
    BY <1>2, <2>1, AnnounceBase DEF MakeCall, Makes, Insert, Increment, PutObject,
       DeleteObject, Update, CancelAlerts, SoftDelete, Decrement
  <2>2. QED
    BY <1>2, <2>1, CallBase
<1>3. CASE Next
  BY <1>2, <1>3, HandleBase, CallFailsBase, AnswerLostBase, CrashBase, DayBase DEF Next
<1>4. QED
  BY <1>1, <1>3

\* Every variable keeps its type: no more objects are put than the bound
\* allows for, an alert is only ever inserted for a document with an expiry
\* date, and the usage counter stays a natural number.
THEOREM TypeCorrect == Spec => []TypeOK
<1>1. Base => TypeOK
  BY DEF Base
<1>2. QED
  BY InitBase, NextBase, <1>1, PTL DEF Spec

-----------------------------------------------------------------------------
(* Which call comes next, and which ones a failure cuts off                *)

\* The request x has made its call c and goes on as y.
Moves(x, c, y, copy) ==
    /\ \/ y = NoRequest
       \/ /\ y.todo # <<>> /\ y.method = x.method /\ y.target = x.target
          /\ y.read = x.read /\ y.copy = copy
    /\ c = "insert" => In(y, "create", "increment")
    /\ c = "increment" =>
         \/ y = NoRequest /\ Due(copy) = {}
         \/ In(y, "create", "announce") /\ y.left = Due(copy)
    /\ c = "putObject" => In(y, "upload", "update")
    /\ c = "update" =>
         IF x.method = "renew" THEN In(y, "renew", "cancel") ELSE y = NoRequest
    /\ c = "softDelete" => In(y, "delete", "cancel")
    /\ c = "cancel" /\ x.method = "renew" => y = NoRequest \/ In(y, "renew", "announce")
    /\ c = "cancel" /\ x.method = "delete" =>
         \/ In(y, "delete", "deleteObject")
         \/ x.read.file = None /\ In(y, "delete", "decrement")
    /\ c = "deleteObject" =>
         IF x.method = "delete" THEN In(y, "delete", "decrement")
         ELSE In(y, "deleteFile", "update")
    /\ c = "decrement" => y = NoRequest

LEMMA GoesTo ==
    ASSUME NEW x, NEW n, Form(x, n), x.todo # <<>>,
           NEW y, NEW copy, Goes(x, y, copy)
    PROVE  Moves(x, x.todo[1], y, copy)
<1>1. /\ x.method \in {"create", "upload", "deleteFile", "edit", "renew", "delete"}
      /\ x.todo[1] \in Own(x.method)
  BY DEF Form, RequestState, Operation, Calls, Chain
<1>2. \/ y = NoRequest
      \/ /\ y.todo # <<>> /\ y.method = x.method /\ y.target = x.target
         /\ y.read = x.read /\ y.copy = copy
  BY DEF Goes
<1> DEFINE c == x.todo[1]
           next == Following(x.method, c)
<1>3. /\ c \in {"insert", "increment", "announce", "putObject", "update",
               "deleteObject", "cancel", "softDelete", "decrement"}
      /\ c \in {"insert", "increment"} => x.method = "create"
      /\ c = "putObject" => x.method = "upload"
      /\ c = "deleteObject" /\ x.method # "delete" => x.method = "deleteFile"
      /\ c = "softDelete" => x.method = "delete"
      /\ c = "cancel" => x.method \in {"renew", "delete"}
  BY <1>1 DEF Own
<1>4. /\ c = "insert" => next = "increment"
      /\ c = "increment" => next = "announce"
      /\ c = "putObject" => next = "update"
      /\ c = "update" => next = IF x.method = "renew" THEN "cancel" ELSE "end"
      /\ c = "softDelete" => next = "cancel"
      /\ c = "cancel" => next = IF x.method = "renew" THEN "announce" ELSE "deleteObject"
      /\ c = "deleteObject" => next = IF x.method = "delete" THEN "decrement" ELSE "update"
      /\ c = "decrement" => next = "end"
  BY DEF Following
<1>5. \/ y = NoRequest /\ (next = "end" \/ (next = "announce" /\ Due(copy) = {}))
      \/ /\ y.todo # <<>> /\ y.method = x.method
         /\ y.todo[1] = "announce" => y.left = Due(copy)
         /\ \/ y.todo[1] = next
            \/ next = "deleteObject" /\ x.read.file = None /\ y.todo[1] = "decrement"
         /\ y.todo[1] # "end"
  <2>1. Chain(x.method, y.todo) => y.todo[1] # "end"
    BY <1>1 DEF Chain, Own
  <2> HIDE DEF c
  <2>2. QED
    BY <2>1 DEF Goes, c
<1> HIDE DEF next, c
<1>6. c = "insert" => In(y, "create", "increment")
  BY <1>3, <1>4, <1>5 DEF In
<1>7. c = "increment" =>
        \/ y = NoRequest /\ Due(copy) = {}
        \/ In(y, "create", "announce") /\ y.left = Due(copy)
  BY <1>3, <1>4, <1>5 DEF In
<1>8. c = "putObject" => In(y, "upload", "update")
  BY <1>3, <1>4, <1>5 DEF In
<1>9. c = "update" =>
        IF x.method = "renew" THEN In(y, "renew", "cancel") ELSE y = NoRequest
  BY <1>3, <1>4, <1>5 DEF In
<1>10. c = "softDelete" => In(y, "delete", "cancel")
  BY <1>3, <1>4, <1>5 DEF In
<1>11. /\ c = "cancel" /\ x.method = "renew" =>
            y = NoRequest \/ In(y, "renew", "announce")
       /\ c = "cancel" /\ x.method = "delete" =>
            \/ In(y, "delete", "deleteObject")
            \/ x.read.file = None /\ In(y, "delete", "decrement")
  BY <1>3, <1>4, <1>5 DEF In
<1>12. c = "deleteObject" =>
         IF x.method = "delete" THEN In(y, "delete", "decrement")
         ELSE In(y, "deleteFile", "update")
  BY <1>3, <1>4, <1>5 DEF In
<1>13. c = "decrement" => y = NoRequest
  BY <1>3, <1>4, <1>5 DEF In
<1>14. QED
  BY <1>2, <1>6, <1>7, <1>8, <1>9, <1>10, <1>11, <1>12, <1>13 DEF c, Moves

\* What a request that is cut short in the middle of its calls will be found
\* to have missed.
LEMMA EndMisses ==
    ASSUME Base, NEW q \in Request
    PROVE  LET m == Missed(q, CallsIn(req[q].todo))
               d == req[q].target IN
           /\ In(req[q], "upload", "update") => <<d, "update">> \in m
           /\ In(req[q], "deleteFile", "update") => <<d, "update">> \in m
           /\ /\ req[q].todo # <<>> /\ req[q].method = "delete"
              /\ req[q].todo[1] \in {"cancel", "deleteObject"}
              => <<d, "deleteObject">> \in m
           /\ In(req[q], "create", "increment") =>
                <<d, "increment">> \in m /\ <<d, "announce">> \in m
           /\ In(req[q], "create", "announce") => <<d, "announce">> \in m
<1> DEFINE x == req[q]
<1>1. CASE x.todo = <<>>
  BY <1>1 DEF In
<1>2. CASE x.todo # <<>>
  <2>1. /\ Chain(x.method, x.todo) /\ x.method \in Operation
    BY <1>2 DEF Base, Form, RequestState
  <2>2. /\ x.todo[1] \in CallsIn(x.todo)
        /\ Following(x.method, x.todo[1]) # "end" =>
             Following(x.method, x.todo[1]) \in CallsIn(x.todo)
    BY <2>1, ChainGoesOn
  <2>3. x.todo[1] # Calls[x.method][1] =>
          \A c \in CallsIn(x.todo) :
            <<x.target, c>> \in Missed(q, CallsIn(x.todo))
    BY DEF Missed
  <2>4. /\ x.method = "create" => Calls[x.method][1] = "insert"
        /\ x.method = "upload" => Calls[x.method][1] = "putObject"
        /\ x.method = "delete" => Calls[x.method][1] = "softDelete"
        /\ x.method = "deleteFile" => Calls[x.method][1] = "deleteObject"
    BY <2>1, CallsTable
  <2> HIDE DEF x
  <2>5. ASSUME In(x, "upload", "update") \/ In(x, "deleteFile", "update")
        PROVE  <<x.target, "update">> \in Missed(q, CallsIn(x.todo))
    BY <2>2, <2>3, <2>4, <2>5 DEF In
  <2>6. ASSUME x.method = "delete", x.todo[1] \in {"cancel", "deleteObject"}
        PROVE  <<x.target, "deleteObject">> \in Missed(q, CallsIn(x.todo))
    BY <2>2, <2>3, <2>4, <2>6 DEF Following
  <2>7. ASSUME In(x, "create", "increment")
        PROVE  /\ <<x.target, "increment">> \in Missed(q, CallsIn(x.todo))
               /\ <<x.target, "announce">> \in Missed(q, CallsIn(x.todo))
    BY <2>2, <2>3, <2>4, <2>7 DEF In, Following
  <2>8. ASSUME In(x, "create", "announce")
        PROVE  <<x.target, "announce">> \in Missed(q, CallsIn(x.todo))
    BY <2>2, <2>3, <2>4, <2>8 DEF In
  <2>9. QED
    BY <2>5, <2>6, <2>7, <2>8 DEF x
<1>3. QED
  BY <1>1, <1>2

LEMMA AfterCall ==
    ASSUME Base, NEW q \in Request, NEW c, Makes(q, c),
           NEW copy \in Row, Continue(q, copy)
    PROVE  Others(q) /\ Moves(req[q], c, req'[q], copy)
<1>1. /\ Others(q) /\ Goes(req[q], req'[q], copy)
      /\ req[q].todo # <<>> /\ req[q].todo[1] = c
      /\ Form(req[q], uploads)
  BY AtCall, Continues DEF Base
<1>2. QED
  BY <1>1, GoesTo

\* A failed call of q: the request ends, or ignores the error.
Fails(q) ==
    /\ UNCHANGED <<tables, stale, slips, replaced, renewed>>
    /\ req[q].todo # <<>> /\ Others(q)
    /\ \/ /\ req'[q] = NoRequest
          /\ missed' = missed \union Missed(q, CallsIn(req[q].todo))
       \/ \E c \in {"increment", "cancel", "decrement", "deleteObject"} :
            /\ Makes(q, c) /\ Moves(req[q], c, req'[q], req[q].copy)
            /\ c = "deleteObject" => req[q].method = "delete"
            /\ missed' = missed \union {<<req[q].target, c>>}
       \/ /\ Makes(q, "announce")
          /\ \E o \in req[q].left : Shortens(req[q], req'[q], req[q].left \ {o})
          /\ missed' = missed \union {<<req[q].target, "announce">>}

LEMMA FailsStep ==
    ASSUME Base, NEW q \in Request, CallFails(q)
    PROVE  Fails(q)
<1> DEFINE c == Head(req[q].todo)
<1>1. /\ req[q].todo # <<>> /\ Makes(q, c)
      /\ UNCHANGED <<tables, stale, slips, replaced, renewed>>
  BY DEF CallFails, Idle, Makes
<1>2. c = req[q].todo[1] /\ req[q].copy \in Row /\ Form(req[q], uploads)
  BY <1>1, AtCall DEF Base
<1> HIDE DEF c
<1>3. CASE End(q) /\ missed' = missed \union Missed(q, CallsIn(req[q].todo))
  BY <1>1, <1>3, Stops DEF Fails, End
<1>4. CASE /\ c \in Ignored(req[q].method)
           /\ c # "announce" /\ Continue(q, req[q].copy)
           /\ missed' = missed \union {<<req[q].target, c>>}
  <2>1. Others(q) /\ Moves(req[q], c, req'[q], req[q].copy)
    BY <1>1, <1>2, <1>4, AfterCall
  <2>2. /\ c \in {"increment", "cancel", "decrement", "deleteObject"}
        /\ c = "deleteObject" => req[q].method = "delete"
    BY <1>4 DEF Ignored
  <2>3. QED
    BY <1>1, <1>4, <2>1, <2>2 DEF Fails
<1>5. ASSUME NEW o \in req[q].left, Remaining(q, req[q].left \ {o}),
             missed' = missed \union {<<req[q].target, c>>}
      PROVE  Fails(q)
  <2>1. c = "announce"
    BY <1>1, <1>2, <1>5 DEF Form
  <2>2. Others(q) /\ Shortens(req[q], req'[q], req[q].left \ {o})
    BY <1>1, <1>5, RemainingStep DEF tables
  <2>3. QED
    BY <1>1, <1>5, <2>1, <2>2 DEF Fails
<1>6. QED
  BY <1>3, <1>4, <1>5, Zenon DEF CallFails, c

\* The object store did it, and the request saw an error.
Loses(q) ==
    /\ UNCHANGED <<doc, alert, usage, today, stale, slips, replaced, renewed>>
    /\ req[q].todo # <<>> /\ Others(q)
    /\ missed \subseteq missed'
    /\ \/ /\ Makes(q, "putObject") /\ req'[q] = NoRequest
          /\ uploads' = uploads + 1
          /\ store' = store \union {<<req[q].target, uploads + 1>>}
          /\ <<req[q].target, "update">> \in missed'
       \/ /\ Makes(q, "deleteObject") /\ uploads' = uploads
          /\ store' = store \ {req[q].read.file}
          /\ \/ /\ req[q].method = "delete"
                /\ Moves(req[q], "deleteObject", req'[q], req[q].copy)
             \/ /\ req[q].method = "deleteFile" /\ req'[q] = NoRequest
                /\ <<req[q].target, "update">> \in missed'

LEMMA LosesStep ==
    ASSUME Base, NEW q \in Request, AnswerLost(q)
    PROVE  Loses(q)
<1>1. /\ req[q].todo # <<>>
      /\ UNCHANGED <<doc, alert, usage, today, stale, slips, replaced, renewed>>
      /\ missed \subseteq missed'
  BY DEF AnswerLost, Idle
<1>2. req[q].copy \in Row /\ Form(req[q], uploads) /\ req[q].method \in Operation
  BY <1>1 DEF Base, Form, RequestState
<1>3. Chain(req[q].method, req[q].todo)
  BY <1>1, <1>2 DEF Form
<1>4. req[q].method # "delete" =>
        \A c \in CallsIn(req[q].todo) : <<req[q].target, c>> \in missed'
  BY DEF AnswerLost
<1>5. CASE /\ Makes(q, "putObject") /\ uploads' = uploads + 1
           /\ store' = store \union {<<req[q].target, uploads + 1>>} /\ End(q)
  <2>1. /\ req[q].todo[1] = "putObject" /\ req[q].method = "upload"
    BY <1>5, AtCall
  <2>2. "update" \in CallsIn(req[q].todo)
    BY <1>2, <1>3, <2>1, ChainGoesOn DEF Following
  <2>3. Others(q) /\ req'[q] = NoRequest
    BY <1>5, Stops DEF End
  <2>4. <<req[q].target, "update">> \in missed'
    BY <1>4, <2>1, <2>2
  <2>5. QED
    BY <1>1, <1>5, <2>3, <2>4 DEF Loses
<1>6. CASE /\ Makes(q, "deleteObject") /\ store' = store \ {req[q].read.file}
           /\ uploads' = uploads
           /\ IF req[q].method = "delete" THEN Continue(q, req[q].copy) ELSE End(q)
  <2>1. /\ req[q].todo[1] = "deleteObject" /\ req[q].method \in {"deleteFile", "delete"}
    BY <1>6, AtCall
  <2>2. CASE req[q].method = "delete"
    <3>1. Others(q) /\ Moves(req[q], "deleteObject", req'[q], req[q].copy)
      BY <1>2, <1>6, <2>2, AfterCall
    <3>2. QED
      BY <1>1, <1>6, <2>2, <3>1 DEF Loses
  <2>3. CASE req[q].method = "deleteFile"
    <3>1. Others(q) /\ req'[q] = NoRequest
      BY <1>6, <2>3, Stops DEF End
    <3>2. "update" \in CallsIn(req[q].todo)
      BY <1>2, <1>3, <2>1, <2>3, ChainGoesOn DEF Following
    <3>3. <<req[q].target, "update">> \in missed'
      BY <1>4, <2>3, <3>2
    <3>4. QED
      BY <1>1, <1>6, <2>3, <3>1, <3>3 DEF Loses
  <2>4. QED
    BY <2>1, <2>2, <2>3
<1>7. QED
  BY <1>5, <1>6 DEF AnswerLost

-----------------------------------------------------------------------------
(* A file between the object store and its row                             *)

\* A row or a request that has read one names f, or f is no file.
Known(f) ==
    \/ f = None
    \/ \E d \in Document : doc[d].file = f
    \/ \E p \in Request : req[p].todo # <<>> /\ req[p].read.file = f

LEMMA PendingUnknown ==
    ASSUME Base, Private, NEW q \in Request, In(req[q], "upload", "update")
    PROVE  ~Known(req[q].copy.file)
<1>1. req[q].copy.file \in Keys(req[q].target, uploads) /\ req[q].target \in Document
      /\ uploads \in Nat
  BY DEF Base, TypeOK, Form, In
<1>2. req[q].copy.file # None
  BY <1>1, NoneAssumption DEF Keys
<1>3. QED
  BY <1>2 DEF Private, Known

LEMMA PrivateKept ==
    ASSUME Base, Private, NEW q \in Request, Others(q),
           req'[q].todo # <<>> =>
             ~In(req'[q], "upload", "update") /\ Known(req'[q].read.file),
           \A d \in Document :
             \/ Known(doc'[d].file)
             \/ In(req[q], "upload", "update") /\ doc'[d].file = req[q].copy.file,
           \A f \in store : f \in store' \/ Known(f)
    PROVE  Private'
<1> SUFFICES ASSUME NEW o \in Request, In(req'[o], "upload", "update")
             PROVE  /\ req'[o].copy.file \in store'
                    /\ \A d \in Document : doc'[d].file # req'[o].copy.file
                    /\ \A p \in Request :
                         /\ req'[p].todo # <<>> => req'[p].read.file # req'[o].copy.file
                         /\ p # o /\ In(req'[p], "upload", "update") =>
                              req'[p].copy.file # req'[o].copy.file
  BY DEF Private
<1>1. o # q /\ req'[o] = req[o]
  BY DEF Others, In
<1>2. ~Known(req[o].copy.file)
  BY <1>1, PendingUnknown
<1>3. req[o].copy.file \in store
  BY <1>1 DEF Private
<1>4. \A d \in Document : doc'[d].file # req[o].copy.file
  BY <1>1, <1>2 DEF Private
<1>5. ASSUME NEW p \in Request
      PROVE  /\ req'[p].todo # <<>> => req'[p].read.file # req[o].copy.file
             /\ p # o /\ In(req'[p], "upload", "update") =>
                  req'[p].copy.file # req[o].copy.file
  <2>1. CASE p = q
    BY <1>2, <2>1 DEF In
  <2>2. CASE p # q
    BY <1>1, <2>2 DEF Others, Private
  <2>3. QED
    BY <2>1, <2>2
<1>6. QED
  BY <1>1, <1>2, <1>3, <1>4, <1>5

LEMMA PutPrivate ==
    ASSUME Base, Private, NEW q \in Request, PutObject(q)
    PROVE  Private'
<1> DEFINE key == <<req[q].target, uploads + 1>>
           copy == [req[q].copy EXCEPT !.file = key]
<1>1. /\ Makes(q, "putObject") /\ Continue(q, copy)
      /\ store' = store \union {key} /\ doc' = doc
  BY DEF PutObject
<1>2. /\ req[q].copy \in Row /\ req[q].target \in Document
      /\ uploads \in Nat /\ req[q].todo # <<>>
  BY <1>1, AtCall DEF Base, TypeOK
<1>3. copy.file = key
  BY <1>2 DEF Row
<1>4. uploads + 1 \in 1 .. MaxUploads
  <2>1. uploads' \in 0 .. MaxUploads /\ uploads' = uploads + 1
    BY CallBase, <1>1 DEF MakeCall, PutObject, Base, TypeOK, Makes
  <2>2. QED
    BY <1>2, <2>1
<1>5. copy \in Row
  <2>1. key \in File
    BY <1>2, <1>4 DEF File
  <2>2. QED
    BY <1>2, <2>1 DEF Row
<1>6. /\ \A d, e : key \notin Keys(d, uploads)
      /\ key # None
  BY <1>2, NoneAssumption DEF Keys
<1> HIDE DEF key, copy
<1>7. Others(q) /\ Moves(req[q], "putObject", req'[q], copy)
  BY <1>1, <1>5, AfterCall
<1>8. /\ In(req'[q], "upload", "update") /\ req'[q].copy = copy
      /\ req'[q].read = req[q].read
  BY <1>7, NoRequestForm DEF Moves, In
<1>9. ~Known(key)
  <2>1. \A d \in Document : doc[d].file \in Keys(d, uploads) \union {None}
    BY DEF Base, Rows
  <2>2. \A p \in Request : req[p].todo # <<>> =>
          req[p].read.file \in Keys(req[p].target, uploads) \union {None}
    BY DEF Base, Form
  <2>3. QED
    BY <1>6, <2>1, <2>2 DEF Known
<1>10. \A p \in Request : In(req[p], "upload", "update") => req[p].copy.file # key
  BY <1>6 DEF Base, Form, In
<1> SUFFICES ASSUME NEW o \in Request, In(req'[o], "upload", "update")
             PROVE  /\ req'[o].copy.file \in store'
                    /\ \A d \in Document : doc'[d].file # req'[o].copy.file
                    /\ \A p \in Request :
                         /\ req'[p].todo # <<>> => req'[p].read.file # req'[o].copy.file
                         /\ p # o /\ In(req'[p], "upload", "update") =>
                              req'[p].copy.file # req'[o].copy.file
  BY DEF Private
<1>11. CASE o = q
  <2>1. \A p \in Request : req'[p].todo # <<>> => req'[p].read.file # key
    BY <1>2, <1>7, <1>8, <1>9 DEF Known, Others
  <2>2. \A d \in Document : doc'[d].file # key
    BY <1>1, <1>9 DEF Known
  <2>3. QED
    BY <1>1, <1>3, <1>7, <1>8, <1>10, <1>11, <2>1, <2>2 DEF Others
<1>12. CASE o # q
  <2>1. req'[o] = req[o] /\ In(req[o], "upload", "update")
    BY <1>7, <1>12 DEF Others
  <2>2. ~Known(req[o].copy.file) /\ req[o].copy.file \in store /\ req[o].copy.file # key
    BY <1>10, <2>1, PendingUnknown DEF Private
  <2>3. \A p \in Request : req'[p].todo # <<>> => req'[p].read.file # req[o].copy.file
    BY <1>2, <1>7, <1>8, <2>2 DEF Known, Others
  <2>4. QED
    BY <1>1, <1>3, <1>7, <1>8, <2>1, <2>2, <2>3 DEF Others, Private, Known
<1>13. QED
  BY <1>11, <1>12

LEMMA CallPrivate ==
    ASSUME Base, Private, NEW q \in Request, MakeCall(q)
    PROVE  Private'
<1>1. \A d \in Document : Known(doc[d].file)
  BY DEF Known
<1>2. /\ Known(None)
      /\ req[q].todo # <<>> => Known(req[q].read.file)
  BY DEF Known
<1>3. ASSUME NEW c, Makes(q, c), c # "putObject", Moves(req[q], c, req'[q], req[q].copy)
      PROVE  req'[q].todo # <<>> =>
               ~In(req'[q], "upload", "update") /\ Known(req'[q].read.file)
  <2>1. /\ req[q].todo # <<>>
        /\ req[q].method = "upload" => c = "update"
    BY <1>3, AtCall DEF Own
  <2>2. CASE req'[q] = NoRequest
    BY <2>2, NoRequestForm
  <2>3. CASE req[q].method = "upload"
    BY <1>3, <2>1, <2>3, NoRequestForm DEF Moves
  <2>4. CASE req[q].method # "upload"
    BY <1>2, <1>3, <2>1, <2>4, NoRequestForm DEF Moves, In
  <2>5. QED
    BY <2>3, <2>4
<1>4. ASSUME NEW c, Makes(q, c), Continue(q, req[q].copy)
      PROVE  Others(q) /\ Moves(req[q], c, req'[q], req[q].copy)
  BY <1>4, AtCall, AfterCall
<1>5. CASE Insert(q)
  <2>1. /\ Makes(q, "insert") /\ Continue(q, req[q].copy) /\ store' = store
        /\ doc' = [doc EXCEPT ![req[q].target] = req[q].copy]
    BY <1>5 DEF Insert
  <2>2. \A d \in Document : doc'[d] = doc[d] \/ doc'[d] = req[q].copy
    BY <2>1 DEF Base, TypeOK
  <2>3. req[q].copy.file = None
    BY <2>1, OwnRow
  <2>4. \A d \in Document : Known(doc'[d].file)
    BY <1>1, <1>2, <2>2, <2>3
  <2>5. QED
    BY <1>3, <1>4, <2>1, <2>4, PrivateKept
<1>6. CASE Update(q)
  <2>1. /\ Makes(q, "update") /\ Continue(q, req[q].copy) /\ store' = store
        /\ doc' = [doc EXCEPT ![req[q].target] = req[q].copy]
    BY <1>6 DEF Update
  <2>2. \A d \in Document : doc'[d] = doc[d] \/ doc'[d] = req[q].copy
    BY <2>1 DEF Base, TypeOK
  <2>3. \/ In(req[q], "upload", "update")
        \/ req[q].copy.file \in {None, req[q].read.file}
    BY <2>1, AtCall DEF Base, Form, In
  <2>4. req[q].todo # <<>>
    BY <2>1, AtCall
  <2>5. \A d \in Document :
          \/ Known(doc'[d].file)
          \/ In(req[q], "upload", "update") /\ doc'[d].file = req[q].copy.file
    BY <1>1, <1>2, <2>2, <2>3, <2>4
  <2>6. QED
    BY <1>3, <1>4, <2>1, <2>5, PrivateKept
<1>7. CASE SoftDelete(q)
  <2>1. /\ Makes(q, "softDelete") /\ Continue(q, req[q].copy) /\ store' = store
        /\ doc' = [doc EXCEPT ![req[q].target].status = "archived"]
    BY <1>7 DEF SoftDelete
  <2>2. \A d \in Document : doc'[d].file = doc[d].file
    BY <2>1 DEF Base, TypeOK, Row
  <2>3. \A d \in Document : Known(doc'[d].file)
    BY <1>1, <2>2
  <2>4. QED
    BY <1>3, <1>4, <2>1, <2>3, PrivateKept
<1>8. CASE DeleteObject(q)
  <2>1. /\ Makes(q, "deleteObject") /\ Continue(q, req[q].copy)
        /\ store' = store \ {req[q].read.file} /\ doc' = doc
    BY <1>8 DEF DeleteObject
  <2>2. req[q].todo # <<>>
    BY <2>1, AtCall
  <2>3. QED
    BY <1>1, <1>2, <1>3, <1>4, <2>1, <2>2, PrivateKept
<1>9. CASE Increment(q) \/ CancelAlerts(q) \/ Decrement(q)
  <2>1. /\ doc' = doc /\ store' = store /\ Continue(q, req[q].copy)
        /\ \E c \in {"increment", "cancel", "decrement"} : Makes(q, c)
    BY <1>9 DEF Increment, CancelAlerts, Decrement
  <2>2. QED
    BY <1>1, <1>3, <1>4, <2>1, PrivateKept
<1>10. CASE Announce(q)
  <2>1. PICK o \in req[q].left : Remaining(q, req[q].left \ {o})
    BY <1>10, Zenon DEF Announce
  <2>2. Makes(q, "announce") /\ doc' = doc /\ store' = store /\ uploads' = uploads
    BY <1>10 DEF Announce
  <2>3. Others(q) /\ Shortens(req[q], req'[q], req[q].left \ {o})
    BY <2>1, <2>2, AtCall, RemainingStep
  <2>4. req[q].todo # <<>> /\ req[q].todo[1] = "announce"
    BY <2>2, AtCall
  <2>5. req'[q].todo # <<>> =>
          ~In(req'[q], "upload", "update") /\ Known(req'[q].read.file)
    BY <1>2, <2>3, <2>4, NoRequestForm DEF Shortens, In
  <2>6. QED
    BY <1>1, <2>2, <2>3, <2>5, PrivateKept
<1>11. CASE PutObject(q)
  BY <1>11, PutPrivate
<1>12. QED
  BY <1>5, <1>6, <1>7, <1>8, <1>9, <1>10, <1>11 DEF MakeCall

LEMMA FailurePrivate ==
    ASSUME Base, Private, NEW q \in Request, Fails(q) \/ Loses(q)
    PROVE  Private'
<1>1. /\ doc' = doc /\ req[q].todo # <<>> /\ Others(q)
      /\ \A d \in Document : Known(doc[d].file)
      /\ Known(req[q].read.file)
  BY DEF Fails, Loses, tables, Known
<1>2. \A f \in store : f \in store' \/ Known(f)
  BY <1>1 DEF Fails, Loses, tables
<1>3. \/ req'[q] = NoRequest
      \/ /\ req'[q].read = req[q].read /\ req'[q].method = req[q].method
         /\ req'[q].method # "upload"
  <2>1. \A c : Makes(q, c) /\ c \in {"increment", "cancel", "decrement", "deleteObject", "announce"}
                 => req[q].method # "upload"
    BY AtCall
  <2>2. QED
    BY <2>1 DEF Fails, Loses, Moves, Shortens
<1>4. req'[q].todo # <<>> => ~In(req'[q], "upload", "update") /\ Known(req'[q].read.file)
  BY <1>1, <1>3, NoRequestForm DEF In
<1>5. QED
  BY <1>1, <1>2, <1>4, PrivateKept

LEMMA BeginPrivate ==
    ASSUME Base, Private, NEW q \in Request, NEW d \in Document, Begins(q, d)
    PROVE  Private'
<1>1. Known(req'[q].read.file) /\ \A e \in Document : Known(doc[e].file)
  BY DEF Begins, Known
<1>2. Others(q) /\ doc' = doc /\ store' = store /\ ~In(req'[q], "upload", "update")
  BY DEF Begins, tables, In
<1>3. QED
  BY <1>1, <1>2, PrivateKept

\* What a call does to the row: nobody inserts a document that exists, and
\* one that is changed by an outdated request is stale from then on.
LEMMA CallRow ==
    ASSUME Base, NEW q \in Request, MakeCall(q)
    PROVE  LET d == req[q].target IN
           /\ d \in Document /\ req[q].todo # <<>>
           /\ \A e \in Document \ {d} :
                doc'[e] = doc[e] /\ (e \in stale <=> e \in stale')
           /\ stale \subseteq stale' /\ missed' = missed /\ today' = today
           /\ \/ /\ Makes(q, "insert") /\ doc[d].status = "absent"
                 /\ doc'[d] = req[q].copy
              \/ /\ Makes(q, "update") /\ doc'[d] = req[q].copy
                 /\ doc[d] # req[q].read => d \in stale'
              \/ /\ Makes(q, "softDelete")
                 /\ doc'[d] = [doc[d] EXCEPT !.status = "archived"]
                 /\ doc[d] # req[q].read => d \in stale'
              \/ /\ doc'[d] = doc[d]
                 /\ ~Makes(q, "insert") /\ ~Makes(q, "update") /\ ~Makes(q, "softDelete")
<1>1. /\ doc \in [Document -> Row]
      /\ \A c : Makes(q, c) => req[q].target \in Document /\ req[q].todo # <<>>
  BY AtCall DEF Base, TypeOK
<1>2. CASE Insert(q)
  <2>1. doc[req[q].target].status = "absent"
    BY <1>2, AtCall DEF Insert, Base, Fresh
  <2>2. QED
    BY <1>1, <1>2, <2>1 DEF Insert, ghosts
<1>3. CASE Update(q)
  BY <1>1, <1>3 DEF Update, NoteStaleness
<1>4. CASE SoftDelete(q)
  <2>1. doc' = [doc EXCEPT ![req[q].target].status = "archived"]
        /\ Makes(q, "softDelete") /\ NoteStaleness(q)
        /\ missed' = missed /\ today' = today
    BY <1>4 DEF SoftDelete
  <2>2. doc' = [doc EXCEPT ![req[q].target] =
                  [doc[req[q].target] EXCEPT !.status = "archived"]]
    BY <2>1, Zenon
  <2>3. QED
    BY <1>1, <2>1, <2>2 DEF NoteStaleness
<1>5. CASE \/ Increment(q) \/ PutObject(q) \/ DeleteObject(q) \/ Announce(q)
           \/ CancelAlerts(q) \/ Decrement(q)
  <2>1. /\ UNCHANGED <<doc, stale, missed, today>>
        /\ \E c \in {"increment", "putObject", "deleteObject", "announce",
                     "cancel", "decrement"} : Makes(q, c)
    BY <1>5 DEF Increment, PutObject, DeleteObject, Announce, CancelAlerts,
                Decrement, ghosts
  <2>2. QED
    BY <1>1, <2>1 DEF Makes
<1>6. QED
  BY <1>2, <1>3, <1>4, <1>5 DEF MakeCall

\* A request has read an active row, unless it creates the document.
LEMMA ReadActive ==
    ASSUME Base, NEW q \in Request, NEW c, Makes(q, c), c \in {"update", "softDelete"}
    PROVE  req[q].read.status = "active" /\ req[q].method # "create"
BY AtCall DEF Base, Form

LEMMA HalfDoneKept ==
    ASSUME Base, Base', HalfDone, NEW q \in Request, Others(q),
           stale \subseteq stale',
           \A f \in store' : f \in store \/ \E d : f = <<d, uploads + 1>>,
           In(req'[q], "deleteFile", "update") => req'[q].read.file \notin store',
           \A d \in Document \ stale' :
             doc[d].status = "archived" => doc'[d].status = "archived",
           /\ req'[q].todo # <<>> /\ req'[q].method = "delete"
           /\ req'[q].todo[1] # "softDelete" /\ req'[q].target \notin stale'
           => \/ doc'[req'[q].target].status = "archived"
              \/ /\ req[q].todo # <<>> /\ req[q].method = "delete"
                 /\ req[q].todo[1] # "softDelete" /\ req[q].target = req'[q].target
    PROVE  HalfDone'
<1> SUFFICES ASSUME NEW p \in Request
             PROVE  /\ In(req'[p], "deleteFile", "update") => req'[p].read.file \notin store'
                    /\ /\ req'[p].todo # <<>> /\ req'[p].method = "delete"
                       /\ req'[p].todo[1] # "softDelete" /\ req'[p].target \notin stale'
                       => doc'[req'[p].target].status = "archived"
  BY DEF HalfDone
<1>1. ASSUME In(req[p], "deleteFile", "update"), p # q
      PROVE  req[p].read.file \notin store'
  <2>1. req[p].read.file \in Keys(req[p].target, uploads) \union {None}
        /\ uploads \in Nat /\ store' \subseteq File
    BY <1>1 DEF Base, TypeOK, Form, In
  <2>2. \A d : req[p].read.file # <<d, uploads + 1>> \/ req[p].read.file = None
    BY <2>1 DEF Keys
  <2>3. None \notin store'
    BY <2>1, NoneAssumption, BoundsAssumption DEF File
  <2>4. req[p].read.file \notin store
    BY <1>1 DEF HalfDone
  <2>5. QED
    BY <2>2, <2>3, <2>4
<1>2. ASSUME NEW o \in Request, req[o].todo # <<>>, req[o].method = "delete",
             req[o].todo[1] # "softDelete", req[o].target \notin stale'
      PROVE  doc'[req[o].target].status = "archived"
  <2>1. req[o].target \in Document /\ req[o].target \notin stale
    BY <1>2 DEF Base, Form
  <2>2. QED
    BY <1>2, <2>1 DEF HalfDone
<1>3. CASE p # q
  BY <1>1, <1>2, <1>3 DEF Others
<1>4. CASE p = q
  BY <1>2, <1>4
<1>5. QED
  BY <1>3, <1>4

LEMMA ArchivedForGood ==
    ASSUME Base, NEW q \in Request, MakeCall(q), NEW d \in Document \ stale',
           doc[d].status = "archived"
    PROVE  doc'[d].status = "archived"
<1>1. doc[d] \in Row
  BY DEF Base, TypeOK
<1>2. CASE d # req[q].target
  BY <1>2, CallRow
<1>3. CASE d = req[q].target
  <2>1. \A c \in {"update", "softDelete"} : Makes(q, c) => req[q].read.status = "active"
    BY ReadActive
  <2>2. QED
    BY <1>1, <1>3, <2>1, CallRow DEF Row
<1>4. QED
  BY <1>2, <1>3

\* A write to a document that is no longer active is a late one.
OnSlips(q, c) ==
    slips' = IF c \in {"update", "softDelete"} /\ doc[req[q].target].status # "active"
             THEN slips + 1 ELSE slips

\* Everything else the call c of q does.
Effect(q, c) ==
    LET x == req[q]
        y == req'[q]
        key == <<x.target, uploads + 1>> IN
    /\ Others(q) /\ OnSlips(q, c) /\ UNCHANGED <<missed, today>>
    /\ CASE c = "putObject" ->
              /\ uploads' = uploads + 1 /\ store' = store \union {key}
              /\ Moves(x, c, y, [x.copy EXCEPT !.file = key])
              /\ UNCHANGED <<alert, usage, replaced, renewed>>
         [] c = "announce" ->
              /\ \E o \in x.left :
                   /\ alert' = IF alert[<<x.target, o>>].status # "absent" THEN alert
                               ELSE [alert EXCEPT ![<<x.target, o>>] =
                                       [status |-> "scheduled", at |-> x.copy.expiry - o]]
                   /\ Shortens(x, y, x.left \ {o})
              /\ UNCHANGED <<store, uploads, usage, replaced, renewed>>
         [] OTHER ->
              /\ Moves(x, c, y, x.copy)
              /\ UNCHANGED <<alert, uploads>>
              /\ store' = IF c = "deleteObject" THEN store \ {x.read.file} ELSE store
              /\ usage' = IF usage = NoRow \/ c \notin {"increment", "decrement"} THEN usage
                          ELSE IF c = "increment" THEN usage + 1 ELSE Decremented(usage)
              /\ replaced' = IF c = "update" /\ x.method = "upload" /\ x.read.file # None
                             THEN replaced \union {x.read.file} ELSE replaced
              /\ renewed' = IF /\ c = "update"
                               /\ <<x.copy.expiry, x.copy.offsets>> # <<x.read.expiry, x.read.offsets>>
                            THEN renewed \union {x.target} ELSE renewed

LEMMA CallEffect ==
    ASSUME Base, NEW q \in Request, MakeCall(q)
    PROVE  \E c \in Call : Makes(q, c) /\ Effect(q, c)
<1>1. ASSUME NEW c, Makes(q, c), Continue(q, req[q].copy)
      PROVE  Others(q) /\ Moves(req[q], c, req'[q], req[q].copy)
  BY <1>1, AtCall, AfterCall
<1>2. CASE Insert(q)
  BY <1>1, <1>2 DEF Insert, Effect, OnSlips, Call, ghosts
<1>3. CASE Increment(q)
  BY <1>1, <1>3 DEF Increment, Effect, OnSlips, Call, ghosts
<1>4. CASE PutObject(q)
  <2> DEFINE key == <<req[q].target, uploads + 1>>
             copy == [req[q].copy EXCEPT !.file = key]
  <2>1. /\ Makes(q, "putObject") /\ Continue(q, copy)
        /\ uploads' = uploads + 1 /\ store' = store \union {key}
        /\ UNCHANGED <<doc, alert, usage, today, ghosts>>
    BY <1>4 DEF PutObject
  <2>2. copy \in Row
    <3>1. uploads' \in 0 .. MaxUploads /\ uploads \in Nat
      BY <1>4, <2>1, CallBase DEF MakeCall, Makes, Base, TypeOK
    <3>2. uploads + 1 \in 1 .. MaxUploads
      BY <2>1, <3>1
    <3>3. key \in File /\ req[q].copy \in Row
      BY <2>1, <3>2, AtCall DEF File
    <3>4. QED
      BY <3>3 DEF Row
  <2>3. Others(q) /\ Moves(req[q], "putObject", req'[q], copy)
    BY <2>1, <2>2, AfterCall
  <2>4. QED
    BY <2>1, <2>3 DEF Effect, OnSlips, Call, ghosts
<1>5. CASE DeleteObject(q)
  BY <1>1, <1>5 DEF DeleteObject, Effect, OnSlips, Call, ghosts
<1>6. CASE Update(q)
  BY <1>1, <1>6 DEF Update, NoteLateWrite, Effect, OnSlips, Call
<1>7. CASE Announce(q)
  <2>1. PICK o \in req[q].left :
          /\ alert' = IF alert[<<req[q].target, o>>].status # "absent" THEN alert
                      ELSE [alert EXCEPT ![<<req[q].target, o>>] =
                              [status |-> "scheduled", at |-> req[q].copy.expiry - o]]
          /\ Remaining(q, req[q].left \ {o})
    BY <1>7, Zenon DEF Announce
  <2>2. /\ Makes(q, "announce")
        /\ UNCHANGED <<doc, store, usage, today, uploads, ghosts>>
    BY <1>7 DEF Announce
  <2>3. Others(q) /\ Shortens(req[q], req'[q], req[q].left \ {o})
    BY <2>1, <2>2, AtCall, RemainingStep
  <2>4. QED
    BY <2>1, <2>2, <2>3 DEF Effect, OnSlips, Call, ghosts
<1>8. CASE CancelAlerts(q)
  <2>1. alert' = alert
    BY <1>8, NoneAssumption DEF CancelAlerts, FindAllByUser, Base, TypeOK
  <2>2. QED
    BY <1>1, <1>8, <2>1 DEF CancelAlerts, Effect, OnSlips, Call, ghosts
<1>9. CASE SoftDelete(q)
  BY <1>1, <1>9 DEF SoftDelete, NoteLateWrite, Effect, OnSlips, Call
<1>10. CASE Decrement(q)
  BY <1>1, <1>10 DEF Decrement, Effect, OnSlips, Call, ghosts
<1>11. QED
  BY <1>2, <1>3, <1>4, <1>5, <1>6, <1>7, <1>8, <1>9, <1>10 DEF MakeCall

\* What the request that made the call c is in the middle of now.
LEMMA EffectRequest ==
    ASSUME Base, NEW q \in Request, NEW c \in Call, Makes(q, c), Effect(q, c)
    PROVE  LET x == req[q]
               y == req'[q] IN
           /\ x.todo # <<>> /\ x.todo[1] = c /\ x.target \in Document
           /\ y.todo # <<>> =>
                y.method = x.method /\ y.target = x.target /\ y.read = x.read
           /\ In(y, "deleteFile", "update") => c = "deleteObject"
           /\ In(y, "upload", "update") <=> c = "putObject"
           /\ y.todo # <<>> => y.todo[1] # "softDelete"
<1>1. /\ req[q].todo # <<>> /\ req[q].todo[1] = c /\ req[q].target \in Document
      /\ c = "announce" => req[q].method \in {"create", "renew"}
      /\ c \in {"insert", "increment"} => req[q].method = "create"
      /\ c = "deleteObject" => req[q].method \in {"deleteFile", "delete"}
      /\ c = "cancel" => req[q].method \in {"renew", "delete"}
  BY AtCall
<1>2. CASE c = "putObject"
  BY <1>1, <1>2, NoRequestForm DEF Effect, Moves, In
<1>3. CASE c = "announce"
  BY <1>1, <1>3, NoRequestForm DEF Effect, Shortens, In
<1>4. CASE c \notin {"putObject", "announce"}
  <2>1. Moves(req[q], c, req'[q], req[q].copy)
    BY <1>4 DEF Effect
  <2>2. c \in {"insert", "increment", "update", "deleteObject", "cancel",
               "softDelete", "decrement"}
    BY <1>4 DEF Call
  <2>3. QED
    BY <1>1, <2>1, <2>2, NoRequestForm DEF Moves, In
<1>5. QED
  BY <1>2, <1>3, <1>4

LEMMA CallHalfDone ==
    ASSUME Base, HalfDone, NEW q \in Request, MakeCall(q), Base'
    PROVE  HalfDone'
<1>1. PICK c \in Call : Makes(q, c) /\ Effect(q, c)
  BY CallEffect
<1>2. Others(q)
  BY <1>1 DEF Effect
<1>3. \A f \in store' : f \in store \/ \E d : f = <<d, uploads + 1>>
  BY <1>1 DEF Effect
<1>4. In(req'[q], "deleteFile", "update") => req'[q].read.file \notin store'
  BY <1>1, EffectRequest DEF Effect, In
<1>5. \A d \in Document \ stale' :
        doc[d].status = "archived" => doc'[d].status = "archived"
  BY ArchivedForGood
<1>6. Makes(q, "softDelete") => doc'[req[q].target].status = "archived"
  <2>1. doc[req[q].target] \in Row
    BY CallRow DEF Base, TypeOK
  <2>2. QED
    BY <2>1, CallRow DEF Makes, Row
<1>7. req'[q].todo # <<>> /\ req'[q].method = "delete" =>
        \/ doc'[req'[q].target].status = "archived"
        \/ /\ req[q].todo # <<>> /\ req[q].method = "delete"
           /\ req[q].todo[1] # "softDelete" /\ req[q].target = req'[q].target
  BY <1>1, <1>6, EffectRequest
<1>8. stale \subseteq stale'
  BY CallRow
<1>9. QED
  BY <1>2, <1>3, <1>4, <1>5, <1>7, <1>8, HalfDoneKept

LEMMA FailureHalfDone ==
    ASSUME Base, HalfDone, NEW q \in Request, Fails(q) \/ Loses(q), Base'
    PROVE  HalfDone'
<1>1. /\ doc' = doc /\ stale' = stale /\ req[q].todo # <<>> /\ Others(q)
  BY DEF Fails, Loses, tables
<1>2. \A f \in store' : f \in store \/ \E d : f = <<d, uploads + 1>>
  BY DEF Fails, Loses, tables
<1>3. \A c : Makes(q, c) => /\ req[q].todo[1] = c
                            /\ c \in {"increment", "announce"} => req[q].method # "deleteFile"
                            /\ c \in {"cancel", "decrement"} => req[q].method # "deleteFile"
  BY AtCall
<1>4. \/ req'[q] = NoRequest
      \/ /\ req'[q].read = req[q].read /\ req'[q].method = req[q].method
         /\ req'[q].target = req[q].target
         /\ req'[q].method # "deleteFile"
         /\ req[q].todo[1] # "softDelete"
  BY <1>3 DEF Fails, Loses, Moves, Shortens
<1>5. ~In(req'[q], "deleteFile", "update")
  BY <1>4, NoRequestForm DEF In
<1>6. req'[q].todo # <<>> /\ req'[q].method = "delete" =>
        /\ req[q].todo # <<>> /\ req[q].method = "delete"
        /\ req[q].todo[1] # "softDelete" /\ req[q].target = req'[q].target
  BY <1>1, <1>4, NoRequestForm
<1>7. QED
  BY <1>1, <1>2, <1>5, <1>6, HalfDoneKept

LEMMA BeginHalfDone ==
    ASSUME Base, HalfDone, NEW q \in Request, NEW d \in Document, Begins(q, d), Base'
    PROVE  HalfDone'
<1>1. /\ Others(q) /\ doc' = doc /\ store' = store /\ stale' = stale
      /\ ~In(req'[q], "deleteFile", "update")
      /\ req'[q].method = "delete" => req'[q].todo[1] = "softDelete"
  BY DEF Begins, tables, ghosts, In
<1>2. QED
  BY <1>1, HalfDoneKept

\* A step of q leaves d's debt as it is, unless q was to pay it.
LEMMA OwedKept ==
    ASSUME NEW q \in Request, Others(q), missed \subseteq missed', NEW d, Owed(d),
           In(req[q], "deleteFile", "update") /\ req[q].target = d =>
             <<d, "update">> \in missed'
    PROVE  Owed(d)'
<1>1. CASE <<d, "update">> \in missed
  BY <1>1 DEF Owed
<1>2. CASE \E p \in Request : In(req[p], "deleteFile", "update") /\ req[p].target = d
  <2>1. PICK p \in Request : In(req[p], "deleteFile", "update") /\ req[p].target = d
    BY <1>2
  <2>2. CASE p = q
    BY <2>1, <2>2 DEF Owed
  <2>3. CASE p # q
    BY <2>1, <2>3 DEF Owed, Others
  <2>4. QED
    BY <2>2, <2>3
<1>3. QED
  BY <1>1, <1>2 DEF Owed

\* Only the two deletes take an object away, and only one of their document.
LEMMA DeletesOwn ==
    ASSUME Base, HalfDone, NEW q \in Request, Makes(q, "deleteObject"),
           NEW d \in Document \ stale, doc[d].status = "active",
           doc[d].file = req[q].read.file, doc[d].file # None
    PROVE  d = req[q].target /\ req[q].method = "deleteFile"
<1>1. /\ req[q].todo # <<>> /\ req[q].todo[1] = "deleteObject"
      /\ req[q].method \in {"deleteFile", "delete"}
  BY AtCall
<1>2. /\ req[q].read.file \in Keys(req[q].target, uploads)
      /\ doc[d].file \in Keys(d, uploads)
  BY <1>1 DEF Base, Form, Rows
<1>3. d = req[q].target
  BY <1>2 DEF Keys
<1>4. req[q].method # "delete"
  BY <1>1, <1>3 DEF HalfDone
<1>5. QED
  BY <1>1, <1>3, <1>4

LEMMA CallLinks ==
    ASSUME Base, Private, HalfDone, LinkBroken, NEW q \in Request, MakeCall(q)
    PROVE  LinkBroken'
<1> SUFFICES ASSUME NEW d \in Document \ stale', Broken(d)'
             PROVE  Owed(d)'
  BY DEF LinkBroken
<1>1. PICK c \in Call : Makes(q, c) /\ Effect(q, c)
  BY CallEffect
<1>2. /\ Others(q) /\ missed' = missed /\ stale \subseteq stale'
      /\ req[q].todo # <<>> /\ req[q].todo[1] = c /\ req[q].target \in Document
      /\ Form(req[q], uploads)
  BY <1>1, CallRow, EffectRequest DEF Effect, Base
<1>3. d \notin stale
  BY <1>2
<1>4. ASSUME Broken(d), c # "update" \/ req[q].target # d
      PROVE  Owed(d)'
  <2>1. Owed(d)
    BY <1>3, <1>4 DEF LinkBroken
  <2>2. QED
    BY <1>2, <1>4, <2>1, OwedKept DEF In
<1>5. CASE doc'[d] = doc[d] /\ (c # "update" \/ req[q].target # d)
  <2>1. CASE doc[d].file \notin store
    BY <1>4, <1>5, <2>1 DEF Broken
  <2>2. CASE doc[d].file \in store
    <3>1. c = "deleteObject" /\ doc[d].file = req[q].read.file
      BY <1>1, <1>5, <2>2 DEF Effect, Broken
    <3>2. d = req[q].target /\ req[q].method = "deleteFile"
      BY <1>1, <1>3, <1>5, <3>1, DeletesOwn DEF Broken
    <3>3. In(req'[q], "deleteFile", "update") /\ req'[q].target = d
      BY <1>1, <3>1, <3>2, NoRequestForm DEF Effect, Moves, In
    <3>4. QED
      BY <3>3 DEF Owed
  <2>3. QED
    BY <2>1, <2>2
<1>6. CASE d = req[q].target /\ c = "update"
  <2>1. /\ doc'[d] = req[q].copy /\ doc[d] = req[q].read /\ store' = store
    BY <1>1, <1>2, <1>6, CallRow DEF Makes, Effect
  <2>2. req[q].method \in {"upload", "deleteFile", "edit", "renew"}
        /\ req[q].read.status = "active"
    BY <1>1, <1>6, AtCall, ReadActive
  <2>3. CASE req[q].method = "upload"
    BY <1>2, <1>6, <2>1, <2>3 DEF Private, In, Broken
  <2>4. CASE req[q].method = "deleteFile"
    BY <1>2, <2>1, <2>4 DEF Form, Broken
  <2>5. CASE req[q].method \in {"edit", "renew"}
    <3>1. req[q].copy.file = req[q].read.file
      BY <1>2, <2>5 DEF Form
    <3>2. Broken(d)
      BY <2>1, <2>2, <3>1 DEF Broken
    <3>3. Owed(d)
      BY <1>3, <3>2 DEF LinkBroken
    <3>4. QED
      BY <1>2, <2>5, <3>3, OwedKept DEF In
  <2>6. QED
    BY <2>2, <2>3, <2>4, <2>5
<1>7. CASE d = req[q].target /\ c \in {"insert", "softDelete"}
  <2>1. doc[d] \in Row /\ (c = "insert" => req[q].copy.file = None)
    BY <1>1, OwnRow DEF Base, TypeOK
  <2>2. QED
    BY <1>1, <1>2, <1>7, <2>1, CallRow DEF Makes, Broken, Row
<1>8. QED
  BY <1>1, <1>2, <1>5, <1>6, <1>7, CallRow DEF Makes

LEMMA FailureLinks ==
    ASSUME Base, HalfDone, LinkBroken, NEW q \in Request, Fails(q) \/ Loses(q)
    PROVE  LinkBroken'
<1> SUFFICES ASSUME NEW d \in Document \ stale', Broken(d)'
             PROVE  Owed(d)'
  BY DEF LinkBroken
<1>1. /\ doc' = doc /\ stale' = stale /\ req[q].todo # <<>> /\ Others(q)
      /\ missed \subseteq missed'
  BY DEF Fails, Loses, tables
<1>2. In(req[q], "deleteFile", "update") => <<req[q].target, "update">> \in missed'
  <2>1. In(req[q], "deleteFile", "update") =>
          \A c : Makes(q, c) => c = "update"
    BY AtCall DEF In
  <2>2. QED
    BY <2>1, EndMisses DEF Fails, Loses
<1>3. CASE Broken(d)
  BY <1>1, <1>2, <1>3, OwedKept DEF LinkBroken
<1>4. CASE ~Broken(d)
  <2>1. /\ Makes(q, "deleteObject") /\ doc[d].file = req[q].read.file
        /\ doc[d].file # None /\ doc[d].status = "active"
    BY <1>1, <1>4 DEF Fails, Loses, Broken, tables
  <2>2. d = req[q].target /\ req[q].method = "deleteFile"
    BY <1>1, <2>1, DeletesOwn
  <2>3. <<d, "update">> \in missed'
    <3>1. Loses(q)
      BY <1>1, <1>4 DEF Fails, Broken, tables
    <3>2. \A c : Makes(q, c) => c = "deleteObject"
      BY <2>1 DEF Makes
    <3>3. QED
      BY <2>2, <3>1, <3>2 DEF Loses
  <2>4. QED
    BY <2>3 DEF Owed
<1>5. QED
  BY <1>3, <1>4

LEMMA BeginLinks ==
    ASSUME LinkBroken, NEW q \in Request, NEW d \in Document, Begins(q, d)
    PROVE  LinkBroken'
<1> SUFFICES ASSUME NEW e \in Document \ stale', Broken(e)'
             PROVE  Owed(e)'
  BY DEF LinkBroken
<1>1. Broken(e) /\ e \notin stale /\ Others(q) /\ missed' = missed /\ Idle(q)
  BY DEF Begins, tables, ghosts, Broken
<1>2. QED
  BY <1>1, OwedKept DEF LinkBroken, Idle, In

-----------------------------------------------------------------------------
(* Why an object is still there                                            *)

LEMMA StoredIsFile ==
    ASSUME Base, NEW f \in store
    PROVE  f # None /\ f[1] \in Document
BY NoneAssumption, BoundsAssumption DEF Base, TypeOK, File

\* A step of q that is not about the object f leaves the reason for it.
LEMMA HandledByOther ==
    ASSUME NEW q \in Request, Others(q), NEW f,
           NEW p \in Request, Handles(req[p], f), p # q
    PROVE  \E o \in Request : Handles(req'[o], f)
BY DEF Others

LEMMA CallKept ==
    ASSUME Base, HalfDone, Kept, NEW q \in Request, MakeCall(q)
    PROVE  Kept'
<1> SUFFICES ASSUME NEW f \in store', f[1] \notin stale'
             PROVE  Explained(f)'
  BY DEF Kept, Explained
<1> DEFINE d == f[1]
           x == req[q]
           y == req'[q]
<1>1. PICK c \in Call : Makes(q, c) /\ Effect(q, c)
  BY CallEffect
<1>2. /\ Others(q) /\ missed' = missed /\ stale \subseteq stale'
      /\ x.todo # <<>> /\ x.todo[1] = c /\ x.target \in Document
      /\ Form(x, uploads)
      /\ y.todo # <<>> => y.method = x.method /\ y.target = x.target /\ y.read = x.read
  BY <1>1, CallRow, EffectRequest DEF Effect, Base
<1>3. replaced \subseteq replaced'
  BY <1>1 DEF Effect
<1>4. CASE f \notin store
  <2>1. /\ c = "putObject" /\ f = <<x.target, uploads + 1>>
        /\ Moves(x, c, y, [x.copy EXCEPT !.file = f])
    BY <1>1, <1>4 DEF Effect
  <2>2. x.copy \in Row
    BY <1>1, AtCall
  <2>3. In(y, "upload", "update") /\ y.copy.file = f
    BY <2>1, <2>2, NoRequestForm DEF Moves, In, Row
  <2>4. Handles(y, f)
    BY <1>2, <2>1, <2>3 DEF Handles, In
  <2>5. QED
    BY <2>4 DEF Explained
<1>5. CASE f \in store
  <2>1. Explained(f) /\ f # None /\ d \in Document
    BY <1>5, StoredIsFile DEF Kept
  <2>2. CASE f[1] \in stale \/ f \in replaced
             \/ <<f[1], "update">> \in missed \/ <<f[1], "deleteObject">> \in missed
    BY <1>2, <1>3, <2>2 DEF Explained
  <2>3. CASE doc[d].status = "active" /\ doc[d].file = f
    <3>1. CASE doc'[d] = doc[d]
      BY <2>3, <3>1 DEF Explained
    <3>2. CASE doc'[d] # doc[d]
      <4>1. /\ d = x.target /\ c \in {"update", "softDelete"} /\ doc[d] = x.read
            /\ c = "update" => doc'[d] = x.copy
        BY <1>1, <1>2, <2>1, <2>3, <3>2, CallRow DEF Makes
      <4>2. CASE c = "softDelete"
        <5>1. Moves(x, c, y, x.copy)
          BY <1>1, <4>2 DEF Effect
        <5>2. In(y, "delete", "cancel")
          BY <4>2, <5>1 DEF Moves
        <5>3. Handles(y, f)
          BY <1>2, <2>3, <4>1, <5>2 DEF Handles, In
        <5>4. QED
          BY <5>3 DEF Explained
      <4>3. CASE c = "update"
        <5>1. x.method \in {"upload", "deleteFile", "edit", "renew"}
          BY <1>1, <4>3, AtCall
        <5>2. CASE x.method = "upload"
          BY <1>1, <2>1, <2>3, <4>1, <4>3, <5>2 DEF Effect, Explained
        <5>3. CASE x.method = "deleteFile"
          BY <1>2, <1>5, <2>3, <4>1, <4>3, <5>3 DEF HalfDone, In
        <5>4. CASE x.method \in {"edit", "renew"}
          BY <1>2, <2>3, <4>1, <4>3, <5>4 DEF Form, Explained
        <5>5. QED
          BY <5>1, <5>2, <5>3, <5>4
      <4>4. QED
        BY <4>1, <4>2, <4>3
    <3>3. QED
      BY <3>1, <3>2
  <2>4. ASSUME NEW p \in Request, Handles(req[p], f)
        PROVE  Explained(f)'
    <3>1. CASE p # q
      BY <1>2, <2>4, <3>1, HandledByOther DEF Explained
    <3>2. CASE p = q /\ In(x, "upload", "update") /\ x.copy.file = f
      <4>1. c = "update" /\ x.target = d /\ x.copy.status = "active"
        BY <1>2, <2>4, <3>2 DEF In, Handles, Form
      <4>2. doc'[d] = x.copy
        BY <1>1, <1>2, <4>1, CallRow DEF Makes
      <4>3. QED
        BY <3>2, <4>1, <4>2 DEF Explained
    <3>3. CASE p = q /\ x.method = "delete" /\ x.read.file = f
               /\ c \in {"cancel", "deleteObject"}
      <4>1. c = "deleteObject" => f \notin store'
        BY <1>1, <3>3 DEF Effect
      <4>2. c = "cancel" => In(y, "delete", "deleteObject")
        BY <1>1, <2>1, <3>3 DEF Effect, Moves
      <4>3. Handles(y, f)
        BY <1>2, <2>4, <3>3, <4>1, <4>2 DEF Handles, In
      <4>4. QED
        BY <4>3 DEF Explained
    <3>4. QED
      BY <1>2, <2>4, <3>1, <3>2, <3>3 DEF Handles
  <2>5. QED
    BY <2>1, <2>2, <2>3, <2>4 DEF Explained
<1>6. QED
  BY <1>4, <1>5

LEMMA FailureKept ==
    ASSUME Base, Kept, NEW q \in Request, Fails(q) \/ Loses(q)
    PROVE  Kept'
<1> SUFFICES ASSUME NEW f \in store'
             PROVE  Explained(f)'
  BY DEF Kept
<1> DEFINE x == req[q]
           y == req'[q]
<1>1. /\ UNCHANGED <<doc, stale, replaced>> /\ missed \subseteq missed'
      /\ x.todo # <<>> /\ Others(q)
  BY DEF Fails, Loses, tables
<1>2. \A c : Makes(q, c) => x.todo[1] = c /\ c \in Own(x.method)
  BY AtCall
<1>3. CASE f \notin store
  <2>1. /\ f = <<x.target, uploads + 1>> /\ <<x.target, "update">> \in missed'
    BY <1>3 DEF Fails, Loses, tables
  <2>2. QED
    BY <2>1 DEF Explained
<1>4. ASSUME f \in store, NEW p \in Request, Handles(req[p], f)
      PROVE  Explained(f)'
  <2>1. f # None
    BY <1>4, StoredIsFile
  <2>2. CASE p # q
    BY <1>1, <1>4, <2>2, HandledByOther DEF Explained
  <2>3. CASE p = q
    <3>1. \/ In(x, "upload", "update")
          \/ x.method = "delete" /\ x.todo[1] \in {"cancel", "deleteObject"} /\ x.read.file = f
      BY <1>4, <2>3 DEF Handles
    <3>2. f[1] = x.target
      BY <1>4, <2>3 DEF Handles
    <3>3. CASE y = NoRequest /\ missed' = missed \union Missed(q, CallsIn(x.todo))
      <4>1. <<f[1], "update">> \in missed' \/ <<f[1], "deleteObject">> \in missed'
        BY <1>1, <3>1, <3>2, <3>3, EndMisses
      <4>2. QED
        BY <4>1 DEF Explained
    <3>4. ASSUME NEW c \in {"increment", "cancel", "decrement", "deleteObject"},
                 Makes(q, c), Moves(x, c, y, x.copy),
                 missed' = missed \union {<<x.target, c>>}
          PROVE  Explained(f)'
      <4>1. x.method = "delete" /\ x.read.file = f /\ c \in {"cancel", "deleteObject"}
        BY <1>2, <3>1, <3>4 DEF In
      <4>2. CASE c = "deleteObject"
        BY <3>2, <3>4, <4>2 DEF Explained
      <4>3. CASE c = "cancel"
        <5>1. In(y, "delete", "deleteObject") /\ y.target = x.target /\ y.read = x.read
          BY <2>1, <3>4, <4>1, <4>3, NoRequestForm DEF Moves, In
        <5>2. Handles(y, f)
          BY <3>2, <4>1, <5>1 DEF Handles, In
        <5>3. QED
          BY <5>2 DEF Explained
      <4>4. QED
        BY <4>1, <4>2, <4>3
    <3>5. ~Makes(q, "announce")
      BY <1>2, <3>1 DEF In
    <3>6. CASE Loses(q)
      <4>1. ~Makes(q, "putObject")
        BY <1>2, <3>1 DEF In
      <4>2. \/ x.method = "delete" /\ x.read.file = f /\ store' = store \ {f}
            \/ <<x.target, "update">> \in missed'
        BY <1>2, <3>1, <3>6, <4>1 DEF Loses, In
      <4>3. QED
        BY <3>2, <4>2 DEF Explained
    <3>7. QED
      BY <3>3, <3>4, <3>5, <3>6 DEF Fails
  <2>4. QED
    BY <2>2, <2>3
<1>5. QED
  BY <1>1, <1>3, <1>4 DEF Kept, Explained

LEMMA BeginKept ==
    ASSUME Kept, NEW q \in Request, NEW d \in Document, Begins(q, d)
    PROVE  Kept'
<1>1. /\ UNCHANGED <<doc, store, stale, replaced, missed>> /\ Others(q) /\ Idle(q)
  BY DEF Begins, tables, ghosts
<1>2. \A f, p : Handles(req[p], f) => p # q
  BY <1>1 DEF Handles, Idle
<1>3. \A f : (\E p \in Request : Handles(req[p], f)) =>
               \E p \in Request : Handles(req'[p], f)
  BY <1>1, <1>2, HandledByOther
<1>4. QED
  BY <1>1, <1>3 DEF Kept, Explained

-----------------------------------------------------------------------------
(* Alerts                                                                  *)

LEMMA AlertType ==
    ASSUME Base, NEW d \in Document, NEW o \in Offset
    PROVE  /\ <<d, o>> \in DOMAIN alert /\ alert[<<d, o>>] \in Alert
           /\ doc[d] \in Row
BY DEF Base, TypeOK

\* A request that announces dates has just written them, or announced them
\* before this step.
LEMMA EffectAnnounces ==
    ASSUME Base, NEW q \in Request, NEW c \in Call, Makes(q, c), Effect(q, c),
           Announces(req'[q])
    PROVE  /\ req'[q].copy = req[q].copy /\ req'[q].target = req[q].target
           /\ c \in {"insert", "update"} \/ Announces(req[q])
<1> DEFINE x == req[q]
           y == req'[q]
<1>1. /\ x.todo # <<>> /\ x.todo[1] = c
      /\ c = "deleteObject" => x.method \in {"deleteFile", "delete"}
      /\ c = "cancel" => x.method \in {"renew", "delete"}
  BY AtCall
<1>2. y # NoRequest /\ y.todo # <<>>
  BY NoRequestForm DEF Announces
<1>3. CASE c = "putObject"
  BY <1>2, <1>3, EffectRequest DEF Announces, In
<1>4. CASE c = "announce"
  BY <1>1, <1>2, <1>4 DEF Effect, Shortens, Announces
<1>5. CASE c \notin {"putObject", "announce"}
  <2>1. Moves(x, c, y, x.copy)
    BY <1>5 DEF Effect
  <2>2. y.copy = x.copy /\ y.target = x.target
    BY <1>2, <2>1 DEF Moves
  <2>3. CASE c \in {"softDelete", "decrement", "deleteObject"}
    BY <1>1, <1>2, <2>1, <2>3 DEF Moves, Announces, In
  <2>4. CASE c = "cancel"
    BY <1>1, <1>2, <2>1, <2>2, <2>4 DEF Moves, Announces, In
  <2>5. CASE c \in {"insert", "update", "increment"}
    BY <1>1, <2>2, <2>5 DEF Announces
  <2>6. QED
    BY <1>5, <2>3, <2>4, <2>5 DEF Call
<1>6. QED
  BY <1>3, <1>4, <1>5

\* What a call does to the dates of a document that nobody renews.
LEMMA CallDatesOnly ==
    ASSUME Base, NEW q \in Request, MakeCall(q),
           NEW d \in Document \ (stale' \union renewed')
    PROVE  /\ d \notin stale \union renewed
           /\ \/ doc'[d].expiry = doc[d].expiry /\ doc'[d].offsets = doc[d].offsets
              \/ /\ Makes(q, "insert") /\ req[q].target = d
                 /\ doc[d].status = "absent" /\ doc'[d] = req[q].copy
<1>1. PICK c \in Call : Makes(q, c) /\ Effect(q, c)
  BY CallEffect
<1>2. renewed \subseteq renewed' /\ stale \subseteq stale'
  BY <1>1, CallRow DEF Effect
<1>3. doc[d] \in Row
  BY DEF Base, TypeOK
<1>4. CASE doc'[d] = doc[d] \/ Makes(q, "insert") \/ Makes(q, "softDelete")
  <2>1. CASE doc'[d] = doc[d]
    BY <1>2, <2>1
  <2>2. CASE doc'[d] # doc[d]
    <3>1. d = req[q].target
      BY <2>2, CallRow
    <3>2. \/ Makes(q, "insert") /\ doc[d].status = "absent" /\ doc'[d] = req[q].copy
          \/ doc'[d] = [doc[d] EXCEPT !.status = "archived"]
      BY <1>4, <2>2, <3>1, CallRow DEF Makes
    <3>3. QED
      BY <1>2, <1>3, <3>1, <3>2 DEF Row
  <2>3. QED
    BY <2>1, <2>2
<1>5. CASE doc'[d] # doc[d] /\ Makes(q, "update")
  <2>1. d = req[q].target /\ doc'[d] = req[q].copy /\ doc[d] = req[q].read
    BY <1>5, CallRow DEF Makes
  <2>2. c = "update"
    BY <1>1, <1>5 DEF Makes
  <2>3. <<req[q].copy.expiry, req[q].copy.offsets>> = <<req[q].read.expiry, req[q].read.offsets>>
    BY <1>1, <2>1, <2>2 DEF Effect
  <2>4. QED
    BY <1>2, <2>1, <2>3
<1>6. \/ doc'[d] = doc[d] \/ Makes(q, "insert") \/ Makes(q, "softDelete")
      \/ doc'[d] # doc[d] /\ Makes(q, "update")
  <2>1. d # req[q].target => doc'[d] = doc[d]
    BY CallRow
  <2>2. QED
    BY <2>1, CallRow
<1>7. QED
  BY <1>4, <1>5, <1>6

LEMMA CallDates ==
    ASSUME Base, Dates, NEW q \in Request, MakeCall(q)
    PROVE  Dates'
<1> SUFFICES ASSUME NEW d \in Document \ (stale' \union renewed')
             PROVE  /\ \A o \in Offset :
                         alert'[<<d, o>>].status # "absent" =>
                           alert'[<<d, o>>] = [status |-> "scheduled", at |-> doc'[d].expiry - o]
                    /\ \A p \in Request : Announces(req'[p]) /\ req'[p].target = d =>
                         req'[p].copy.expiry = doc'[d].expiry
                         /\ req'[p].copy.offsets = doc'[d].offsets
  BY DEF Dates
<1>1. PICK c \in Call : Makes(q, c) /\ Effect(q, c)
  BY CallEffect
<1>2. /\ Others(q) /\ req[q].todo # <<>> /\ req[q].todo[1] = c
      /\ req[q].target \in Document
  BY <1>1, EffectRequest DEF Effect
<1>3. /\ d \notin stale \union renewed
      /\ \/ doc'[d].expiry = doc[d].expiry /\ doc'[d].offsets = doc[d].offsets
         \/ /\ Makes(q, "insert") /\ req[q].target = d
            /\ doc[d].status = "absent" /\ doc'[d] = req[q].copy
  BY CallDatesOnly
<1>4. /\ \A o \in Offset :
           alert[<<d, o>>].status # "absent" =>
             alert[<<d, o>>] = [status |-> "scheduled", at |-> doc[d].expiry - o]
      /\ \A p \in Request : Announces(req[p]) /\ req[p].target = d =>
           req[p].copy.expiry = doc[d].expiry /\ req[p].copy.offsets = doc[d].offsets
  BY <1>3 DEF Dates
<1>5. ASSUME NEW o \in Offset, alert'[<<d, o>>].status # "absent"
      PROVE  alert'[<<d, o>>] = [status |-> "scheduled", at |-> doc'[d].expiry - o]
  <2>1. CASE alert'[<<d, o>>] = alert[<<d, o>>]
    <3>1. doc[d].status # "absent"
      BY <1>5, <2>1 DEF Base, Rows
    <3>2. QED
      BY <1>3, <1>4, <1>5, <2>1, <3>1
  <2>2. CASE alert'[<<d, o>>] # alert[<<d, o>>]
    <3>1. c = "announce"
      BY <1>1, <2>2 DEF Effect
    <3>2. PICK b \in req[q].left :
            alert' = IF alert[<<req[q].target, b>>].status # "absent" THEN alert
                     ELSE [alert EXCEPT ![<<req[q].target, b>>] =
                             [status |-> "scheduled", at |-> req[q].copy.expiry - b]]
      BY <1>1, <3>1, Zenon DEF Effect
    <3>3. /\ req[q].target = d /\ b = o
          /\ alert'[<<d, o>>] = [status |-> "scheduled", at |-> req[q].copy.expiry - o]
      BY <2>2, <3>2, AlertType
    <3>4. Announces(req[q])
      BY <1>2, <3>1 DEF Announces
    <3>5. ~Makes(q, "insert")
      BY <1>1, <3>1 DEF Makes
    <3>6. QED
      BY <1>3, <1>4, <3>3, <3>4, <3>5
  <2>3. QED
    BY <2>1, <2>2
<1>6. ASSUME NEW p \in Request, Announces(req'[p]), req'[p].target = d
      PROVE  req'[p].copy.expiry = doc'[d].expiry /\ req'[p].copy.offsets = doc'[d].offsets
  <2>1. CASE p # q
    <3>1. req'[p] = req[p] /\ req[p].todo # <<>>
      BY <1>2, <1>6, <2>1 DEF Others, Announces
    <3>2. ~(Makes(q, "insert") /\ req[q].target = d)
      BY <1>2, <1>6, <2>1, <3>1, AtCall DEF Base, Fresh
    <3>3. QED
      BY <1>3, <1>4, <1>6, <3>1, <3>2
  <2>2. CASE p = q
    <3>1. /\ req'[q].copy = req[q].copy /\ req[q].target = d
          /\ c \in {"insert", "update"} \/ Announces(req[q])
      BY <1>1, <1>6, <2>2, EffectAnnounces
    <3>2. CASE c \in {"insert", "update"}
      BY <1>1, <2>2, <3>1, <3>2, CallRow DEF Makes
    <3>3. CASE Announces(req[q]) /\ c \notin {"insert", "update"}
      BY <1>1, <1>3, <1>4, <2>2, <3>1, <3>3 DEF Makes
    <3>4. QED
      BY <3>1, <3>2, <3>3
  <2>3. QED
    BY <2>1, <2>2
<1>7. QED
  BY <1>5, <1>6

LEMMA FailureDates ==
    ASSUME Base, Dates, NEW q \in Request, Fails(q) \/ Loses(q)
    PROVE  Dates'
<1>1. /\ UNCHANGED <<doc, alert, stale, renewed>> /\ req[q].todo # <<>> /\ Others(q)
  BY DEF Fails, Loses, tables
<1>2. \A c : Makes(q, c) =>
        /\ req[q].todo[1] = c
        /\ c = "cancel" => req[q].method \in {"renew", "delete"}
  BY AtCall
<1>3. Announces(req'[q]) =>
        /\ Announces(req[q]) /\ req'[q].target = req[q].target
        /\ req'[q].copy = req[q].copy
  <2> SUFFICES ASSUME Announces(req'[q]) PROVE /\ Announces(req[q])
                 /\ req'[q].target = req[q].target /\ req'[q].copy = req[q].copy
    OBVIOUS
  <2>1. req'[q] # NoRequest /\ req'[q].todo # <<>>
    BY NoRequestForm DEF Announces
  <2>2. CASE Loses(q)
    BY <2>1, <2>2, <1>2 DEF Loses, Moves, Announces, In
  <2>3. ASSUME NEW c \in {"increment", "cancel", "decrement", "deleteObject"},
               Makes(q, c), Moves(req[q], c, req'[q], req[q].copy),
               c = "deleteObject" => req[q].method = "delete"
        PROVE  /\ Announces(req[q]) /\ req'[q].target = req[q].target
               /\ req'[q].copy = req[q].copy
    <3>1. req[q].todo[1] = c /\ (c = "cancel" => req[q].method \in {"renew", "delete"})
      BY <1>2, <2>3
    <3>2. CASE c \in {"decrement", "deleteObject"}
      BY <2>1, <2>3, <3>2 DEF Moves, Announces, In
    <3>3. CASE c \in {"increment", "cancel"}
      BY <1>1, <2>1, <2>3, <3>1, <3>3 DEF Moves, Announces, In
    <3>4. QED
      BY <3>2, <3>3
  <2>4. CASE \E o \in req[q].left : Shortens(req[q], req'[q], req[q].left \ {o})
    BY <2>1, <2>4 DEF Shortens, Announces, In
  <2>5. QED
    BY <2>1, <2>2, <2>3, <2>4 DEF Fails
<1>4. QED
  BY <1>1, <1>3 DEF Dates, Others

LEMMA BeginDates ==
    ASSUME Dates, NEW q \in Request, NEW d \in Document, Begins(q, d)
    PROVE  Dates'
<1>1. /\ UNCHANGED <<doc, alert, stale, renewed>> /\ Others(q)
      /\ ~Announces(req'[q])
  BY DEF Begins, tables, ghosts, Announces, In
<1>2. QED
  BY <1>1 DEF Dates, Others

\* The create of d will still insert this alert after its step, has just
\* inserted it, or has missed it.
LEMMA AlertPromised ==
    ASSUME Base, Dates, NEW q \in Request,
           NEW d \in Document \ (stale \union renewed), NEW o \in doc[d].offsets,
           doc[d].expiry # None, doc[d].expiry - o > today,
           NEW p \in Request, WillAnnounce(req[p], d, o), Others(q),
           WillAnnounce(req[q], d, o) =>
             \/ alert'[<<d, o>>].status # "absent"
             \/ Moves(req[q], "increment", req'[q], req[q].copy) /\ Makes(q, "increment")
             \/ WillAnnounce(req'[q], d, o)
    PROVE  \/ alert'[<<d, o>>].status # "absent"
           \/ \E r \in Request : WillAnnounce(req'[r], d, o)
<1>1. CASE p # q
  BY <1>1 DEF Others
<1>2. CASE /\ p = q /\ Moves(req[q], "increment", req'[q], req[q].copy)
           /\ Makes(q, "increment")
  <2>1. Announces(req[q]) /\ req[q].target = d
    BY <1>2, AtCall DEF WillAnnounce, Announces
  <2>2. req[q].copy.expiry = doc[d].expiry /\ req[q].copy.offsets = doc[d].offsets
    BY <2>1 DEF Dates
  <2>3. o \in Due(req[q].copy)
    BY <2>2 DEF Due
  <2>4. In(req'[q], "create", "announce") /\ req'[q].left = Due(req[q].copy)
    BY <1>2, <2>3 DEF Moves
  <2>5. req'[q].target = d
    BY <1>2, <2>1, <2>4, NoRequestForm DEF Moves, In
  <2>6. WillAnnounce(req'[q], d, o)
    BY <2>3, <2>4, <2>5 DEF WillAnnounce, In
  <2>7. QED
    BY <2>6
<1>3. QED
  BY <1>1, <1>2

LEMMA CallAlerts ==
    ASSUME Base, Dates, Alerts, NEW q \in Request, MakeCall(q)
    PROVE  Alerts'
<1> SUFFICES ASSUME NEW d \in Document \ (stale' \union renewed'),
                    doc'[d].status = "active", <<d, "announce">> \notin missed',
                    NEW o \in doc'[d].offsets,
                    doc'[d].expiry # None, doc'[d].expiry - o > today'
             PROVE  \/ alert'[<<d, o>>].status # "absent"
                    \/ \E r \in Request : WillAnnounce(req'[r], d, o)
  BY DEF Alerts
<1>1. PICK c \in Call : Makes(q, c) /\ Effect(q, c)
  BY CallEffect
<1>2. /\ Others(q) /\ req[q].todo # <<>> /\ req[q].todo[1] = c
      /\ req[q].target \in Document /\ missed' = missed /\ today' = today
      /\ req[q].method # "create" => c \notin {"insert", "increment"}
      /\ c = "update" => req[q].method # "create"
  BY <1>1, EffectRequest, AtCall DEF Effect
<1>3. /\ d \notin stale \union renewed
      /\ \/ doc'[d].expiry = doc[d].expiry /\ doc'[d].offsets = doc[d].offsets
         \/ /\ Makes(q, "insert") /\ req[q].target = d
            /\ doc[d].status = "absent" /\ doc'[d] = req[q].copy
  BY CallDatesOnly
<1>4. CASE Makes(q, "insert") /\ req[q].target = d
  <2>1. c = "insert" /\ Moves(req[q], c, req'[q], req[q].copy)
    BY <1>1, <1>4 DEF Makes, Effect
  <2>2. In(req'[q], "create", "increment") /\ req'[q].target = d
    BY <1>4, <2>1, NoRequestForm DEF Moves, In
  <2>3. WillAnnounce(req'[q], d, o)
    BY <2>2 DEF WillAnnounce, In
  <2>4. QED
    BY <2>3
<1>5. CASE ~(Makes(q, "insert") /\ req[q].target = d)
  <2>1. doc'[d].expiry = doc[d].expiry /\ doc'[d].offsets = doc[d].offsets
    BY <1>3, <1>5
  <2>2. doc[d].status = "active"
    <3>1. doc[d] \in Row /\ (Makes(q, "update") => req[q].read.status = "active")
      BY ReadActive DEF Base, TypeOK
    <3>2. d # req[q].target => doc'[d] = doc[d]
      BY CallRow
    <3>3. CASE d # req[q].target
      BY <3>2, <3>3
    <3>4. CASE d = req[q].target
      BY <1>5, <3>1, <3>4, CallRow DEF Row
    <3>5. QED
      BY <3>3, <3>4
  <2>3. \/ alert[<<d, o>>].status # "absent"
        \/ \E r \in Request : WillAnnounce(req[r], d, o)
    BY <1>2, <1>3, <2>1, <2>2 DEF Alerts
  <2>4. o \in Offset
    BY <2>1 DEF Base, TypeOK, Row
  <2>5. CASE alert[<<d, o>>].status # "absent"
    <3>1. CASE c = "announce"
      <4>1. PICK b \in req[q].left :
              alert' = IF alert[<<req[q].target, b>>].status # "absent" THEN alert
                       ELSE [alert EXCEPT ![<<req[q].target, b>>] =
                               [status |-> "scheduled", at |-> req[q].copy.expiry - b]]
        BY <1>1, <3>1, Zenon DEF Effect
      <4>2. QED
        BY <2>4, <2>5, <4>1, AlertType
    <3>2. CASE c # "announce"
      BY <1>1, <2>5, <3>2 DEF Effect
    <3>3. QED
      BY <3>1, <3>2
  <2>6. ASSUME NEW p \in Request, WillAnnounce(req[p], d, o)
        PROVE  \/ alert'[<<d, o>>].status # "absent"
               \/ \E r \in Request : WillAnnounce(req'[r], d, o)
    <3>1. ASSUME WillAnnounce(req[q], d, o)
          PROVE  \/ alert'[<<d, o>>].status # "absent"
                 \/ Moves(req[q], "increment", req'[q], req[q].copy) /\ Makes(q, "increment")
                 \/ WillAnnounce(req'[q], d, o)
      <4>1. c \in {"increment", "announce"}
        BY <1>2, <3>1 DEF WillAnnounce
      <4>2. CASE c = "increment"
        BY <1>1, <4>2 DEF Effect
      <4>3. CASE c = "announce"
        <5>1. PICK b \in req[q].left :
                /\ alert' = IF alert[<<req[q].target, b>>].status # "absent" THEN alert
                            ELSE [alert EXCEPT ![<<req[q].target, b>>] =
                                    [status |-> "scheduled", at |-> req[q].copy.expiry - b]]
                /\ Shortens(req[q], req'[q], req[q].left \ {b})
          BY <1>1, <4>3, Zenon DEF Effect
        <5>2. req[q].target = d /\ o \in req[q].left
          BY <1>2, <3>1, <4>3 DEF WillAnnounce
        <5>3. CASE b = o
          BY <2>4, <5>1, <5>2, <5>3, AlertType
        <5>4. CASE b # o
          BY <1>2, <3>1, <4>3, <5>1, <5>2, <5>4 DEF Shortens, WillAnnounce
        <5>5. QED
          BY <5>3, <5>4
      <4>4. QED
        BY <4>1, <4>2, <4>3
    <3>2. o \in doc[d].offsets /\ doc[d].expiry # None /\ doc[d].expiry - o > today
      BY <1>2, <2>1
    <3>3. QED
      BY <1>2, <1>3, <2>6, <3>1, <3>2, AlertPromised
  <2>7. QED
    BY <2>3, <2>5, <2>6
<1>6. QED
  BY <1>4, <1>5

LEMMA FailureAlerts ==
    ASSUME Base, Dates, Alerts, NEW q \in Request, Fails(q) \/ Loses(q)
    PROVE  Alerts'
<1>1. /\ UNCHANGED <<doc, alert, stale, renewed, today>> /\ Others(q)
      /\ missed \subseteq missed' /\ req[q].todo # <<>>
  BY DEF Fails, Loses, tables
<1> SUFFICES ASSUME NEW d \in Document \ (stale \union renewed),
                    doc[d].status = "active", <<d, "announce">> \notin missed',
                    NEW o \in doc[d].offsets,
                    doc[d].expiry # None, doc[d].expiry - o > today
             PROVE  \/ alert'[<<d, o>>].status # "absent"
                    \/ \E r \in Request : WillAnnounce(req'[r], d, o)
  BY <1>1 DEF Alerts
<1>2. ASSUME WillAnnounce(req[q], d, o)
      PROVE  \/ Moves(req[q], "increment", req'[q], req[q].copy) /\ Makes(q, "increment")
             \/ WillAnnounce(req'[q], d, o)
  <2>1. /\ req[q].method = "create" /\ req[q].target = d
        /\ req[q].todo[1] \in {"increment", "announce"}
    BY <1>2 DEF WillAnnounce
  <2>2. \A c : Makes(q, c) => req[q].todo[1] = c
    BY AtCall
  <2>3. ~Loses(q)
    BY <2>1, <2>2 DEF Loses
  <2>4. <<d, "announce">> \in Missed(q, CallsIn(req[q].todo))
    BY <1>1, <2>1, EndMisses DEF In
  <2>5. QED
    BY <1>1, <2>1, <2>2, <2>3, <2>4 DEF Fails
<1>3. \/ alert[<<d, o>>].status # "absent"
      \/ \E r \in Request : WillAnnounce(req[r], d, o)
  BY <1>1 DEF Alerts
<1>4. QED
  BY <1>1, <1>2, <1>3, AlertPromised

LEMMA BeginAlerts ==
    ASSUME Alerts, NEW q \in Request, NEW d \in Document, Begins(q, d)
    PROVE  Alerts'
<1>1. /\ UNCHANGED <<doc, alert, stale, renewed, today, missed>> /\ Others(q)
      /\ req[q].todo = <<>>
  BY DEF Begins, tables, ghosts, Idle
<1>2. \A e, o : (\E r \in Request : WillAnnounce(req[r], e, o)) =>
                  \E r \in Request : WillAnnounce(req'[r], e, o)
  BY <1>1 DEF WillAnnounce, Others
<1>3. QED
  BY <1>1, <1>2 DEF Alerts

-----------------------------------------------------------------------------
(* The usage counter                                                       *)

One(b) == IF b THEN 1 ELSE 0

\* A set that gains or loses at most the element e.
LEMMA SizeButOne ==
    ASSUME NEW S, NEW T, NEW e, IsFiniteSet(S), S \ {e} = T \ {e}
    PROVE  /\ IsFiniteSet(T) /\ Cardinality(S) \in Nat /\ Cardinality(T) \in Nat
           /\ Cardinality(T) + One(e \in S) = Cardinality(S) + One(e \in T)
<1> DEFINE R == S \ {e}
<1>1. IsFiniteSet(R)
  BY FS_Subset
<1>2. Cardinality(R) \in Nat
  BY <1>1, FS_CardinalityType
<1>3. /\ S = IF e \in S THEN R \union {e} ELSE R
      /\ T = IF e \in T THEN R \union {e} ELSE R
  OBVIOUS
<1>4. e \notin R
  OBVIOUS
<1> HIDE DEF R
<1>5. /\ IsFiniteSet(R \union {e})
      /\ Cardinality(R \union {e}) = Cardinality(R) + 1
  BY <1>1, <1>4, FS_AddElement
<1>6. IsFiniteSet(T) /\ Cardinality(T) = Cardinality(R) + One(e \in T)
  <2>1. CASE e \in T
    <3>1. T = R \union {e}
      BY <1>3, <2>1
    <3>2. QED
      BY <1>5, <2>1, <3>1 DEF One
  <2>2. CASE e \notin T
    <3>1. T = R
      BY <1>3, <2>2
    <3>2. QED
      BY <1>1, <1>2, <2>2, <3>1 DEF One
  <2>3. QED
    BY <2>1, <2>2
<1>7. Cardinality(S) = Cardinality(R) + One(e \in S)
  <2>1. CASE e \in S
    <3>1. S = R \union {e}
      BY <1>3, <2>1
    <3>2. QED
      BY <1>5, <2>1, <3>1 DEF One
  <2>2. CASE e \notin S
    <3>1. S = R
      BY <1>3, <2>2
    <3>2. QED
      BY <1>2, <2>2, <3>1 DEF One
  <2>3. QED
    BY <2>1, <2>2
<1>8. One(e \in S) \in {0, 1} /\ One(e \in T) \in {0, 1}
  BY DEF One
<1>9. QED
  BY <1>2, <1>6, <1>7, <1>8

LEMMA FinitePlaces ==
    IsFiniteSet(Uncounted) /\ IsFiniteSet(Undiscounted)
BY PlacesAssumption, FS_Subset DEF Uncounted, Undiscounted

\* The change that one step of q makes to each side of the comparison.
Balanced(q, d) ==
    /\ usage # NoRow
    /\ \A e \in Document : <<e, "increment">> \notin missed
    /\ Covered' + One(q \in Uncounted') + One(d \in Active) + One(q \in Undiscounted)
         >= Covered + One(q \in Uncounted) + One(d \in Active') + One(q \in Undiscounted')

\* What one step adds to, and takes from, both sides.
Shift(q, d) ==
    /\ Cardinality(Uncounted') + One(q \in Uncounted)
         = Cardinality(Uncounted) + One(q \in Uncounted')
    /\ Cardinality(Active') + One(d \in Active) = Cardinality(Active) + One(d \in Active')
    /\ Cardinality(Undiscounted') + One(q \in Undiscounted)
         = Cardinality(Undiscounted) + One(q \in Undiscounted')

LEMMA Rebalanced ==
    ASSUME NEW q, NEW d, Shift(q, d), Covered \in Int, Covered' \in Int,
           Cardinality(Uncounted) \in Nat, Cardinality(Uncounted') \in Nat,
           Cardinality(Active) \in Nat, Cardinality(Active') \in Nat,
           Cardinality(Undiscounted) \in Nat, Cardinality(Undiscounted') \in Nat,
           Covered + Cardinality(Uncounted) >= Cardinality(Active) + Cardinality(Undiscounted),
           Covered' + One(q \in Uncounted') + One(d \in Active) + One(q \in Undiscounted)
             >= Covered + One(q \in Uncounted) + One(d \in Active') + One(q \in Undiscounted')
    PROVE  Covered' + Cardinality(Uncounted') >= Cardinality(Active') + Cardinality(Undiscounted')
<1> DEFINE n == Covered                   m == Covered'
           u == Cardinality(Uncounted)    v == Cardinality(Uncounted')
           a == Cardinality(Active)        b == Cardinality(Active')
           s == Cardinality(Undiscounted) t == Cardinality(Undiscounted')
           fu == One(q \in Uncounted)     fv == One(q \in Uncounted')
           fa == One(d \in Active)         fb == One(d \in Active')
           fs == One(q \in Undiscounted)  ft == One(q \in Undiscounted')
<1>1. \A p : One(p) \in Int
  BY DEF One
<1>2. /\ n \in Int /\ m \in Int /\ u \in Int /\ v \in Int /\ a \in Int
      /\ b \in Int /\ s \in Int /\ t \in Int
      /\ n + u >= a + s /\ m + fv + fa + fs >= n + fu + fb + ft
  OBVIOUS
<1>3. /\ fu \in Int /\ fv \in Int /\ fa \in Int /\ fb \in Int /\ fs \in Int
      /\ ft \in Int
  BY <1>1
<1>4. b + fa = a + fb /\ v + fu = u + fv /\ t + fs = s + ft
  BY DEF Shift
<1> HIDE DEF n, m, u, v, a, b, s, t, fu, fv, fa, fb, fs, ft
<1>5. m + v >= b + t
  BY <1>2, <1>3, <1>4
<1>6. QED
  BY <1>5 DEF m, v, b, t

LEMMA CoveredType ==
    /\ Base /\ Counted /\ usage # NoRow => Covered \in Int
    /\ /\ Base /\ Base' /\ Counted /\ usage' # NoRow /\ (usage' # NoRow => usage # NoRow)
       => Covered \in Int /\ Covered' \in Int
<1>1. \A n \in Nat, m \in Nat, i \in Nat : (n + m) - i \in Int
  OBVIOUS
<1>2. ASSUME Base, Counted, usage # NoRow
      PROVE  usage \in Nat /\ slips \in Nat /\ InitialUsage \in Nat
  <2>1. usage \in Nat /\ slips \in 0 .. MaxSlips
    BY <1>2 DEF Base, TypeOK
  <2>2. InitialUsage \in Nat
    BY <1>2 DEF Counted
  <2>3. \A n \in 0 .. MaxSlips : n \in Nat
    BY BoundsAssumption
  <2>4. QED
    BY <2>1, <2>2, <2>3
<1>3. ASSUME Base', usage' # NoRow
      PROVE  usage' \in Nat /\ slips' \in Nat
  <2>1. usage' \in Nat /\ slips' \in 0 .. MaxSlips
    BY <1>3 DEF Base, TypeOK
  <2>2. \A n \in 0 .. MaxSlips : n \in Nat
    BY BoundsAssumption
  <2>3. QED
    BY <2>1, <2>2
<1>4. Covered = (usage + slips) - InitialUsage /\ Covered' = (usage' + slips') - InitialUsage
  BY DEF Covered
<1>5. QED
  BY <1>1, <1>2, <1>3, <1>4, Zenon

LEMMA CountedKept ==
    ASSUME Base, Base', Counted, NEW q \in Request, Others(q), NEW d \in Document,
           usage' # NoRow => usage # NoRow,
           \A e \in Document \ {d} : doc'[e] = doc[e],
           /\ usage' # NoRow
           /\ \A e \in Document : <<e, "increment">> \notin missed'
           => Balanced(q, d)
    PROVE  Counted'
<1>1. /\ Active \ {d} = Active' \ {d}
      /\ Uncounted \ {q} = Uncounted' \ {q}
      /\ Undiscounted \ {q} = Undiscounted' \ {q}
  BY DEF Others, Active, Uncounted, Undiscounted
<1>2. IsFiniteSet(Active)
  BY DEF Counted
<1>3. /\ IsFiniteSet(Active') /\ Cardinality(Active) \in Nat /\ Cardinality(Active') \in Nat
      /\ Cardinality(Active') + One(d \in Active) = Cardinality(Active) + One(d \in Active')
  BY <1>1, <1>2, SizeButOne
<1>4. /\ Cardinality(Uncounted) \in Nat /\ Cardinality(Uncounted') \in Nat
      /\ Cardinality(Uncounted') + One(q \in Uncounted)
           = Cardinality(Uncounted) + One(q \in Uncounted')
  BY <1>1, FinitePlaces, SizeButOne
<1>5. /\ Cardinality(Undiscounted) \in Nat /\ Cardinality(Undiscounted') \in Nat
      /\ Cardinality(Undiscounted') + One(q \in Undiscounted)
           = Cardinality(Undiscounted) + One(q \in Undiscounted')
  BY <1>1, FinitePlaces, SizeButOne
<1>6. ASSUME usage' # NoRow,
             \A e \in Document : <<e, "increment">> \notin missed'
      PROVE  Covered' + Cardinality(Uncounted')
               >= Cardinality(Active') + Cardinality(Undiscounted')
  <2>1. Balanced(q, d)
    BY <1>6
  <2>2. Covered \in Int /\ Covered' \in Int
    BY <1>6, CoveredType
  <2>3. Covered + Cardinality(Uncounted) >= Cardinality(Active) + Cardinality(Undiscounted)
    BY <2>1 DEF Counted, Balanced
  <2>4. Covered' + One(q \in Uncounted') + One(d \in Active) + One(q \in Undiscounted)
          >= Covered + One(q \in Uncounted) + One(d \in Active') + One(q \in Undiscounted')
    BY <2>1 DEF Balanced
  <2>5. Shift(q, d)
    BY <1>3, <1>4, <1>5 DEF Shift
  <2>6. QED
    BY <1>3, <1>4, <1>5, <2>2, <2>3, <2>4, <2>5, Rebalanced
<1>7. usage' # NoRow => InitialUsage \in Nat
  BY DEF Counted
<1>8. QED
  BY <1>3, <1>6, <1>7 DEF Counted

LEMMA CallCounted ==
    ASSUME Base, Base', Counted, NEW q \in Request, MakeCall(q)
    PROVE  Counted'
<1> DEFINE d == req[q].target
           x == req[q]
           y == req'[q]
<1>1. PICK c \in Call : Makes(q, c) /\ Effect(q, c)
  BY CallEffect
<1>2. /\ Others(q) /\ missed' = missed /\ OnSlips(q, c)
      /\ x.todo # <<>> /\ x.todo[1] = c /\ d \in Document
      /\ \A e \in Document \ {d} : doc'[e] = doc[e]
      /\ doc[d] \in Row /\ x.copy.status = "active"
  <2>1. x.todo # <<>> /\ x.todo[1] = c /\ d \in Document
    BY <1>1, EffectRequest
  <2>2. Others(q) /\ missed' = missed /\ OnSlips(q, c)
    BY <1>1 DEF Effect
  <2>3. doc[d] \in Row /\ x.copy.status = "active"
    BY <2>1 DEF Base, TypeOK, Form
  <2>4. \A e \in Document \ {d} : doc'[e] = doc[e]
    BY CallRow
  <2>5. QED
    BY <2>1, <2>2, <2>3, <2>4
<1>3. /\ \A b : One(b) \in {0, 1}
      /\ usage' # NoRow => usage # NoRow
      /\ usage \in Nat \union {NoRow} /\ usage' \in Nat \union {NoRow}
  BY <1>1 DEF One, Effect, Base, TypeOK
<1>4. ASSUME usage' # NoRow,
             \A e \in Document : <<e, "increment">> \notin missed'
      PROVE  Balanced(q, d)
  <2>1. /\ usage # NoRow /\ usage \in Nat /\ usage' \in Nat
        /\ \A e \in Document : <<e, "increment">> \notin missed
    BY <1>2, <1>3, <1>4
  <2> DEFINE Rise == One(q \in Uncounted') - One(q \in Uncounted)
             More == One(d \in Active') - One(d \in Active)
             Due2 == One(q \in Undiscounted') - One(q \in Undiscounted)
  <2>2. Rise = IF c = "insert" THEN 1 ELSE IF c = "increment" THEN -1 ELSE 0
    <3>1. q \in Uncounted <=> c = "increment"
      BY <1>1, <1>2, AtCall DEF Uncounted, In
    <3>2. q \in Uncounted' <=> c = "insert"
      <4>1. CASE c = "putObject"
        BY <1>1, <4>1, NoRequestForm, EffectRequest DEF Effect, Uncounted, In
      <4>2. CASE c = "announce"
        BY <1>1, <1>2, <4>2, NoRequestForm DEF Effect, Shortens, Uncounted, In
      <4>3. CASE c \notin {"putObject", "announce"}
        <5>1. Moves(x, c, y, x.copy)
          BY <1>1, <4>3 DEF Effect
        <5>2. c \in {"insert", "increment", "update", "softDelete", "cancel",
                     "deleteObject", "decrement"}
          BY <4>3 DEF Call
        <5>3. c = "cancel" => x.method \in {"renew", "delete"}
          BY <1>1, AtCall
        <5>4. CASE c \in {"insert", "increment", "update", "softDelete"}
          BY <5>1, <5>4, NoRequestForm DEF Moves, Uncounted, In
        <5>5. CASE c \in {"cancel", "deleteObject", "decrement"}
          BY <5>1, <5>3, <5>5, NoRequestForm DEF Moves, Uncounted, In
        <5>6. QED
          BY <5>2, <5>4, <5>5
      <4>4. QED
        BY <4>1, <4>2, <4>3
    <3>3. QED
      BY <3>1, <3>2 DEF One
  <2> DEFINE Late == IF c \in {"update", "softDelete"} /\ d \notin Active THEN 1 ELSE 0
  <2>3. More = Late + IF c = "insert" THEN 1 ELSE IF c = "softDelete" THEN -1 ELSE 0
    <3>1. CASE c = "insert"
      <4>1. doc[d].status = "absent" /\ doc'[d] = x.copy
        BY <1>1, <3>1, CallRow DEF Makes
      <4>2. d \notin Active /\ d \in Active'
        BY <1>2, <4>1 DEF Active
      <4>3. QED
        BY <3>1, <4>2 DEF One
    <3>2. CASE c = "update"
      <4>1. doc'[d] = x.copy
        BY <1>1, <3>2, CallRow DEF Makes
      <4>2. d \in Active'
        BY <1>2, <4>1 DEF Active
      <4>3. QED
        BY <3>2, <4>2 DEF One
    <3>3. CASE c = "softDelete"
      <4>1. doc'[d] = [doc[d] EXCEPT !.status = "archived"]
        BY <1>1, <3>3, CallRow DEF Makes
      <4>2. d \notin Active'
        BY <1>2, <4>1 DEF Active, Row
      <4>3. QED
        BY <3>3, <4>2 DEF One
    <3>4. CASE c \notin {"insert", "update", "softDelete"}
      <4>1. doc'[d] = doc[d]
        BY <1>1, <3>4, CallRow DEF Makes
      <4>2. d \in Active' <=> d \in Active
        BY <4>1 DEF Active
      <4>3. QED
        BY <3>4, <4>2 DEF One
    <3>5. QED
      BY <3>1, <3>2, <3>3, <3>4
  <2>4. Due2 = IF c = "softDelete" THEN 1 ELSE IF c = "decrement" THEN -1 ELSE 0
    <3>1. q \in Undiscounted <=> x.method = "delete" /\ c # "softDelete"
      BY <1>2 DEF Undiscounted
    <3>2. q \in Undiscounted' <=> x.method = "delete" /\ c # "decrement"
      <4>1. y.todo # <<>> => y.method = x.method /\ y.todo[1] # "softDelete"
        BY <1>1, EffectRequest
      <4>2. q \in Undiscounted' <=> x.method = "delete" /\ y.todo # <<>>
        BY <4>1 DEF Undiscounted
      <4>3. x.method = "delete" => c \in {"softDelete", "cancel", "deleteObject", "decrement"}
        BY <1>1, AtCall DEF Own
      <4>4. ASSUME x.method = "delete" PROVE y.todo # <<>> <=> c # "decrement"
        <5>1. Moves(x, c, y, x.copy)
          BY <1>1, <4>3, <4>4 DEF Effect
        <5>2. QED
          BY <4>3, <4>4, <5>1, NoRequestForm DEF Moves, In
      <4>5. QED
        BY <4>2, <4>4
    <3>3. c \in {"softDelete", "decrement"} => x.method = "delete"
      BY <1>1, AtCall
    <3>4. QED
      BY <3>1, <3>2, <3>3 DEF One
  <2>5. usage' = IF c = "increment" THEN usage + 1
                 ELSE IF c = "decrement" THEN Decremented(usage) ELSE usage
    BY <1>1, <2>1 DEF Effect
  <2>6. Covered' + Rise >= Covered + More + Due2
    <3>1. slips' = slips + Late
      <4>1. doc[d].status # "active" <=> d \notin Active
        BY <1>2 DEF Active
      <4>2. slips' = IF c \in {"update", "softDelete"} /\ d \notin Active
                     THEN slips + 1 ELSE slips
        BY <1>2, <4>1, Zenon DEF OnSlips
      <4>3. slips \in Int
        BY BoundsAssumption DEF Base, TypeOK
      <4>4. QED
        BY <4>2, <4>3
    <3>2. Late \in {0, 1}
      OBVIOUS
    <3>3. slips \in Nat
      <4>1. slips \in 0 .. MaxSlips
        BY DEF Base, TypeOK
      <4>2. QED
        BY <4>1, BoundsAssumption
    <3>4. InitialUsage \in Nat
      BY <2>1 DEF Counted
    <3> HIDE DEF Rise, More, Due2, Late
    <3>5. QED
      BY <2>1, <2>2, <2>3, <2>4, <2>5, <3>1, <3>2, <3>3, <3>4 DEF Covered, Decremented
  <2>7. /\ One(q \in Uncounted) \in Int /\ One(q \in Uncounted') \in Int
        /\ One(d \in Active) \in Int /\ One(d \in Active') \in Int
        /\ One(q \in Undiscounted) \in Int /\ One(q \in Undiscounted') \in Int
    BY DEF One
  <2>8. Covered' + One(q \in Uncounted') + One(d \in Active) + One(q \in Undiscounted)
          >= Covered + One(q \in Uncounted) + One(d \in Active') + One(q \in Undiscounted')
    <3>1. Covered \in Int /\ Covered' \in Int
      BY <2>1, <1>4, CoveredType
    <3>2. QED
      BY <2>6, <2>7, <3>1
  <2>9. QED
    BY <2>1, <2>8 DEF Balanced
<1>5. QED
  BY <1>2, <1>3, <1>4, CountedKept

LEMMA FailureCounted ==
    ASSUME Base, Base', Counted, NEW q \in Request, Fails(q) \/ Loses(q)
    PROVE  Counted'
<1> DEFINE d == req[q].target
           x == req[q]
           y == req'[q]
<1>1. /\ UNCHANGED <<doc, usage, slips>> /\ missed \subseteq missed'
      /\ x.todo # <<>> /\ Others(q)
  BY DEF Fails, Loses, tables
<1>2. d \in Document
  BY <1>1 DEF Base, Form
<1>3. \A c : Makes(q, c) =>
        /\ x.todo[1] = c
        /\ c = "increment" => x.method = "create"
        /\ c \in {"cancel", "decrement", "deleteObject", "putObject", "announce"} =>
             c # "increment"
  BY AtCall
<1>4. ASSUME q \in Uncounted
      PROVE  <<d, "increment">> \in missed'
  <2>1. In(x, "create", "increment")
    BY <1>4 DEF Uncounted
  <2>2. <<d, "increment">> \in Missed(q, CallsIn(x.todo))
    BY <2>1, EndMisses
  <2>3. \A c : Makes(q, c) => c = "increment"
    BY <1>3, <2>1 DEF In
  <2>4. QED
    BY <2>2, <2>3 DEF Fails, Loses
<1>5. q \in Undiscounted' => q \in Undiscounted
  <2>1. ASSUME y.todo # <<>>
        PROVE  /\ y.method = x.method
               /\ x.todo[1] # "softDelete"
    <3>1. y # NoRequest
      BY <2>1, NoRequestForm
    <3>2. QED
      BY <1>3, <3>1 DEF Fails, Loses, Moves, Shortens
  <2>2. QED
    BY <1>1, <2>1 DEF Undiscounted
<1>6. ASSUME usage' # NoRow,
             \A e \in Document : <<e, "increment">> \notin missed'
      PROVE  Balanced(q, d)
  <2>1. /\ usage # NoRow /\ Covered \in Int /\ Covered' = Covered
        /\ \A e \in Document : <<e, "increment">> \notin missed
    BY <1>1, <1>6, CoveredType DEF Covered
  <2>2. q \notin Uncounted
    BY <1>2, <1>4, <1>6
  <2>3. d \in Active' <=> d \in Active
    BY <1>1 DEF Active
  <2>4. /\ One(q \in Uncounted) = 0 /\ One(q \in Uncounted') \in {0, 1}
        /\ One(d \in Active') = One(d \in Active) /\ One(d \in Active) \in {0, 1}
        /\ One(q \in Undiscounted) \in {0, 1} /\ One(q \in Undiscounted') \in {0, 1}
        /\ One(q \in Undiscounted') <= One(q \in Undiscounted)
    BY <1>5, <2>2, <2>3 DEF One
  <2>5. Covered' + One(q \in Uncounted') + One(d \in Active) + One(q \in Undiscounted)
          >= Covered + One(q \in Uncounted) + One(d \in Active') + One(q \in Undiscounted')
    BY <1>1, <2>1, <2>4
  <2>6. QED
    BY <2>1, <2>5 DEF Balanced
<1>7. QED
  BY <1>1, <1>2, <1>6, CountedKept

LEMMA BeginCounted ==
    ASSUME Base, Counted, NEW q \in Request, NEW d \in Document, Begins(q, d)
    PROVE  Counted'
<1>1. /\ UNCHANGED <<doc, usage, slips, missed>> /\ Others(q) /\ req[q].todo = <<>>
      /\ ~In(req'[q], "create", "increment")
      /\ req'[q].method = "delete" => req'[q].todo[1] = "softDelete"
  BY DEF Begins, tables, ghosts, Idle, In
<1>2. Active' = Active /\ Uncounted' = Uncounted /\ Undiscounted' = Undiscounted
  BY <1>1 DEF Active, Uncounted, Undiscounted, Others, In
<1>3. QED
  BY <1>1, <1>2 DEF Counted, Covered

-----------------------------------------------------------------------------
(* The inductive invariant                                                 *)

Inv == /\ Base
       /\ Private /\ HalfDone /\ LinkBroken /\ Kept
       /\ Dates /\ Alerts /\ Counted

LEMMA InitInv == Init => Inv
<1> SUFFICES ASSUME Init PROVE Inv
  OBVIOUS
<1>1. Base
  BY InitBase
<1>2. /\ \A q \in Request : req[q].todo = <<>>
      /\ \A d \in Document : doc[d].status = "absent"
      /\ \A d \in Document, o \in Offset : alert[<<d, o>>].status = "absent"
      /\ store = {} /\ usage = InitialUsage /\ slips = 0
  BY NoRequestForm, BoundsAssumption DEF Init, NoDocument
<1>3. Private /\ HalfDone
  BY <1>2 DEF Private, HalfDone, In
<1>4. LinkBroken /\ Kept
  BY <1>2 DEF LinkBroken, Broken, Kept
<1>5. Dates /\ Alerts
  BY <1>2 DEF Dates, Alerts, Announces
<1>6. Counted
  <2>1. Active = {} /\ Uncounted = {} /\ Undiscounted = {}
    BY <1>2 DEF Active, Uncounted, Undiscounted, In
  <2>2. IsFiniteSet({}) /\ Cardinality({}) = 0
    BY FS_EmptySet
  <2>3. QED
    BY <1>2, <2>1, <2>2, BoundsAssumption DEF Counted, Covered
<1>7. QED
  BY <1>1, <1>3, <1>4, <1>5, <1>6 DEF Inv

\* A crash ends every request, and counts as missed what each of them owed.
LEMMA CrashInv == Inv /\ Crash => Inv'
<1> SUFFICES ASSUME Inv, Crash PROVE Inv'
  OBVIOUS
<1>1. /\ Base /\ Private /\ HalfDone /\ LinkBroken /\ Kept
      /\ Dates /\ Alerts /\ Counted
  BY DEF Inv
<1>2. Base'
  BY <1>1, CrashBase
<1>3. /\ UNCHANGED <<doc, store, alert, usage, today, stale, slips, replaced, renewed>>
      /\ \A q \in Request : req'[q].todo = <<>>
      /\ missed \subseteq missed'
      /\ \A q \in Request : Missed(q, CallsIn(req[q].todo)) \subseteq missed'
  BY NoRequestForm DEF Crash, tables
<1>4. Private' /\ HalfDone' /\ Dates'
  BY <1>1, <1>3 DEF Private, HalfDone, Dates, In, Announces
<1>5. LinkBroken'
  <2> SUFFICES ASSUME NEW d \in Document \ stale, Broken(d)
               PROVE  Owed(d)'
    BY <1>3 DEF LinkBroken, Broken
  <2>1. Owed(d)
    BY <1>1 DEF LinkBroken
  <2>2. ASSUME NEW q \in Request, In(req[q], "deleteFile", "update"), req[q].target = d
        PROVE  <<d, "update">> \in missed'
    BY <1>1, <1>3, <2>2, EndMisses
  <2>3. QED
    BY <1>3, <2>1, <2>2 DEF Owed
<1>6. Kept'
  <2> SUFFICES ASSUME NEW f \in store
               PROVE  Explained(f)'
    BY <1>3 DEF Kept
  <2>1. Explained(f)
    BY <1>1 DEF Kept
  <2>2. ASSUME NEW q \in Request, Handles(req[q], f)
        PROVE  <<f[1], "update">> \in missed' \/ <<f[1], "deleteObject">> \in missed'
    BY <1>1, <1>3, <2>2, EndMisses DEF Handles
  <2>3. QED
    BY <1>3, <2>1, <2>2 DEF Explained
<1>7. Alerts'
  <2> SUFFICES ASSUME NEW d \in Document \ (stale \union renewed),
                      doc[d].status = "active", <<d, "announce">> \notin missed',
                      NEW o \in doc[d].offsets,
                      doc[d].expiry # None, doc[d].expiry - o > today
               PROVE  alert[<<d, o>>].status # "absent"
    BY <1>3 DEF Alerts
  <2>1. \/ alert[<<d, o>>].status # "absent"
        \/ \E q \in Request : WillAnnounce(req[q], d, o)
    BY <1>1, <1>3 DEF Alerts
  <2>2. ASSUME NEW q \in Request, WillAnnounce(req[q], d, o)
        PROVE  <<d, "announce">> \in missed'
    <3>1. /\ req[q].target = d
          /\ In(req[q], "create", "increment") \/ In(req[q], "create", "announce")
      BY <2>2 DEF WillAnnounce, In
    <3>2. QED
      BY <1>1, <1>3, <3>1, EndMisses
  <2>3. QED
    BY <2>1, <2>2
<1>8. Counted'
  <2>1. Active' = Active /\ Uncounted' = {} /\ Undiscounted' = {}
    BY <1>3 DEF Active, Uncounted, Undiscounted, In
  <2>2. ASSUME usage # NoRow,
               \A d \in Document : <<d, "increment">> \notin missed'
        PROVE  Covered >= Cardinality(Active)
    <3>1. Uncounted = {}
      <4>1. ASSUME NEW q \in Uncounted PROVE FALSE
        <5>1. q \in Request /\ In(req[q], "create", "increment") /\ req[q].target \in Document
          BY <1>1, <4>1 DEF Uncounted, Base, Form, In
        <5>2. <<req[q].target, "increment">> \in missed'
          BY <1>1, <1>3, <5>1, EndMisses
        <5>3. QED
          BY <2>2, <5>1, <5>2
      <4>2. QED
        BY <4>1
    <3>2. /\ Cardinality(Active) \in Nat /\ Cardinality(Undiscounted) \in Nat
          /\ Cardinality(Uncounted) = 0 /\ Covered \in Int
      BY <1>1, <2>2, <3>1, FinitePlaces, FS_CardinalityType, FS_EmptySet, CoveredType
         DEF Counted, Base, TypeOK
    <3>3. Covered + Cardinality(Uncounted) >= Cardinality(Active) + Cardinality(Undiscounted)
      BY <1>1, <1>3, <2>2 DEF Counted
    <3>4. QED
      BY <3>2, <3>3
  <2>3. /\ IsFiniteSet(Active) /\ Cardinality({}) = 0
        /\ Cardinality(Active) \in Nat
        /\ usage # NoRow => Covered \in Int /\ InitialUsage \in Nat
        /\ Covered' = Covered
    BY <1>1, <1>3, FS_CardinalityType, FS_EmptySet, CoveredType DEF Counted, Covered
  <2>4. QED
    BY <1>3, <2>1, <2>2, <2>3 DEF Counted
<1>9. QED
  BY <1>2, <1>4, <1>5, <1>6, <1>7, <1>8 DEF Inv

\* The day matters to the alerts only: fewer of them are still ahead.
LEMMA DayInv == Inv /\ NextDay => Inv'
<1> SUFFICES ASSUME Inv, NextDay PROVE Inv'
  OBVIOUS
<1>1. /\ UNCHANGED <<doc, store, alert, usage, uploads, req, stale, slips, missed,
                    replaced, renewed>>
      /\ today' = today + 1
  BY DEF NextDay, ghosts
<1>2. Base'
  BY DayBase DEF Inv
<1>3. Private' /\ HalfDone' /\ LinkBroken' /\ Kept'
  BY <1>1 DEF Inv, Private, HalfDone, LinkBroken, Broken, Owed, Kept, Explained
<1>4. Dates' /\ Counted'
  BY <1>1 DEF Inv, Dates, Counted, Covered, Active, Uncounted, Undiscounted
<1>5. Alerts'
  <2> SUFFICES ASSUME NEW d \in Document \ (stale \union renewed),
                      doc[d].status = "active", <<d, "announce">> \notin missed,
                      NEW o \in doc[d].offsets,
                      doc[d].expiry # None, doc[d].expiry - o > today'
               PROVE  \/ alert[<<d, o>>].status # "absent"
                      \/ \E q \in Request : WillAnnounce(req[q], d, o)
    BY <1>1 DEF Alerts
  <2>1. doc[d].expiry \in Int /\ o \in Int /\ today \in Int
    <3>1. doc[d] \in Row /\ today \in 0 .. MaxDay
      BY DEF Inv, Base, TypeOK
    <3>2. doc[d].expiry \in Date \union {None} /\ o \in Offset
      BY <3>1 DEF Row
    <3>3. doc[d].expiry \in Date
      BY <3>2
    <3>4. Date \subseteq Int /\ Offset \subseteq Int
      BY DateAssumption
    <3> HIDE DEF Inv
    <3>5. doc[d].expiry \in Int /\ o \in Int
      BY <3>2, <3>3, <3>4, Zenon
    <3>6. today \in Int
      BY <3>1
    <3>7. QED
      BY <3>5, <3>6
  <2>2. doc[d].expiry - o > today
    BY <1>1, <2>1
  <2>3. QED
    BY <2>2 DEF Inv, Alerts
<1>6. QED
  BY <1>2, <1>3, <1>4, <1>5 DEF Inv

LEMMA BeginInv ==
    ASSUME Inv, NEW q \in Request, NEW d \in Document, Handle(q, d)
    PROVE  Inv'
<1>1. Base' /\ Begins(q, d)
  BY HandleBase DEF Inv
<1>2. QED
  BY <1>1, BeginPrivate, BeginHalfDone, BeginLinks, BeginKept, BeginDates,
     BeginAlerts, BeginCounted DEF Inv

LEMMA CallInv ==
    ASSUME Inv, NEW q \in Request, MakeCall(q)
    PROVE  Inv'
<1>1. Base'
  BY NextBase DEF Inv, Next
<1>2. QED
  BY <1>1, CallPrivate, CallHalfDone, CallLinks, CallKept, CallDates,
     CallAlerts, CallCounted DEF Inv

LEMMA FailureInv ==
    ASSUME Inv, NEW q \in Request, CallFails(q) \/ AnswerLost(q)
    PROVE  Inv'
<1>1. Base'
  BY CallFailsBase, AnswerLostBase DEF Inv
<1>2. Fails(q) \/ Loses(q)
  BY FailsStep, LosesStep DEF Inv
<1>3. QED
  BY <1>1, <1>2, FailurePrivate, FailureHalfDone, FailureLinks, FailureKept,
     FailureDates, FailureAlerts, FailureCounted DEF Inv

LEMMA StutterInv == Inv /\ UNCHANGED vars => Inv'
<1> SUFFICES ASSUME Inv, UNCHANGED vars PROVE Inv'
  OBVIOUS
<1>1. UNCHANGED <<doc, store, alert, usage, today, uploads, req, stale, slips, missed,
                  replaced, renewed, failures>>
  BY DEF vars, tables, ghosts
<1>2. Base'
  BY NextBase DEF Inv
<1>3. Private' /\ HalfDone' /\ LinkBroken' /\ Kept'
  BY <1>1 DEF Inv, Private, HalfDone, LinkBroken, Broken, Owed, Kept, Explained
<1>4. Dates' /\ Alerts' /\ Counted'
  BY <1>1 DEF Inv, Dates, Alerts, Counted, Covered, Active, Uncounted, Undiscounted
<1>5. QED
  BY <1>2, <1>3, <1>4 DEF Inv

\* Every step of every request, a crash and a new day keep what each request
\* owes to the tables and what the tables already say consistent.
THEOREM Inductive == Spec => []Inv
<1>1. Init => Inv
  BY InitInv
<1>2. Inv /\ [Next]_vars => Inv'
  BY BeginInv, CallInv, FailureInv, CrashInv, DayInv, StutterInv DEF Next
<1>3. QED
  BY <1>1, <1>2, PTL DEF Spec

\* However many uploads, deletions and edits overlap, a document no request
\* overwrote with an outdated row names no file that is gone: only
\* DeleteDocumentFile breaks a link, and it mends it or is recorded as having
\* missed its update.
THEOREM FilesAvailable == Spec => []FileAvailable
<1>1. Inv => FileAvailable
  <2> SUFFICES ASSUME Inv, NEW d \in Document, Settled(d, {"update"}), Broken(d)
               PROVE  FALSE
    BY DEF FileAvailable, Broken
  <2>1. Owed(d)
    BY DEF Inv, LinkBroken, Settled
  <2>2. QED
    BY <2>1 DEF Owed, Settled, Busy, Idle, In
<1>2. QED
  BY <1>1, Inductive, PTL

\* No object is left in the bucket that nothing names, but for the files an
\* upload replaced: whoever put it enters it in its row, and whoever deletes
\* the document deletes it, or is recorded as having missed that call.
THEOREM NoUnexplainedOrphan == Spec => []OrphansExplained
<1>1. Inv => OrphansExplained
  <2> SUFFICES ASSUME Inv, NEW f \in store, Settled(f[1], {"update", "deleteObject"})
               PROVE  \/ f \in replaced
                      \/ doc[f[1]].status = "active" /\ doc[f[1]].file = f
    BY DEF OrphansExplained
  <2>1. Explained(f)
    BY DEF Inv, Kept
  <2>2. \A q \in Request : ~Handles(req[q], f)
    BY DEF Handles, Settled, Busy, Idle
  <2>3. QED
    BY <2>1, <2>2 DEF Explained, Settled
<1>2. QED
  BY <1>1, Inductive, PTL

\* The alerts of a document that keeps its first dates are all inserted, on
\* the right days, by the request that created it, whatever else goes on.
THEOREM FirstAnnounced == Spec => []FirstDatesAnnounced
<1>1. Inv => FirstDatesAnnounced
  <2> SUFFICES ASSUME Inv, NEW d \in Document, doc[d].status = "active",
                      d \notin renewed, Settled(d, {"announce"}),
                      NEW o \in doc[d].offsets, doc[d].expiry # None,
                      doc[d].expiry - o > today
               PROVE  alert[<<d, o>>] = [status |-> "scheduled", at |-> doc[d].expiry - o]
    BY DEF FirstDatesAnnounced, Announced
  <2>1. /\ d \notin stale \union renewed /\ <<d, "announce">> \notin missed
        /\ ~\E q \in Request : WillAnnounce(req[q], d, o)
    BY DEF Settled, Busy, Idle, WillAnnounce
  <2>2. alert[<<d, o>>].status # "absent"
    BY <2>1 DEF Inv, Alerts
  <2>3. doc[d] \in Row
    BY DEF Inv, Base, TypeOK
  <2>4. o \in Offset
    BY <2>3 DEF Row
  <2>5. QED
    BY <2>1, <2>2, <2>4 DEF Inv, Dates
<1>2. QED
  BY <1>1, Inductive, PTL

\* The counter the plan limit is checked against falls behind the documents a
\* user has by no more than the late writes: each create counts after it
\* inserts, each delete subtracts after it archives, GREATEST(..., 0) only ever
\* adds, and a delete or an update of a document that is already deleted costs
\* one each.
THEOREM CounterShortfall == Spec => []UsageShortfall
<1>1. Inv => UsageShortfall
  <2> SUFFICES ASSUME Inv, usage # NoRow,
                      \A d \in Document : ~Busy(d) /\ <<d, "increment">> \notin missed
               PROVE  usage + slips >= InitialUsage + Cardinality(Active)
    BY DEF UsageShortfall, Active
  <2>1. \A q \in Request : req[q].todo = <<>>
    BY DEF Inv, Base, Form, Busy, Idle
  <2>2. Uncounted = {} /\ Undiscounted = {}
    BY <2>1 DEF Uncounted, Undiscounted, In
  <2>3. IsFiniteSet(Active) /\ InitialUsage \in Nat
    BY DEF Inv, Counted
  <2>4. usage \in Nat /\ slips \in Nat
    BY BoundsAssumption DEF Inv, Base, TypeOK
  <2>5. Cardinality(Active) \in Nat /\ Cardinality({}) = 0
    BY <2>3, FS_CardinalityType, FS_EmptySet
  <2>6. Covered + Cardinality(Uncounted) >= Cardinality(Active) + Cardinality(Undiscounted)
    BY DEF Inv, Counted
  <2>7. QED
    BY <2>2, <2>3, <2>4, <2>5, <2>6 DEF Covered
<1>2. QED
  BY <1>1, Inductive, PTL
=============================================================================

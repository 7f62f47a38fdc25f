---------------------------- MODULE DocumentVault ----------------------------
(***************************************************************************)
(* The document service (internal/application/document): how API requests  *)
(* that run at the same time change a user's documents, the files in the   *)
(* object store, the alerts that announce an expiry date and the user's    *)
(* usage counter.                                                          *)
(*                                                                         *)
(* The row of a document is in PostgreSQL and its file in MinIO.  A request *)
(* reads the row, works on its own copy and calls one repository or the    *)
(* object store after another without a transaction: the calls of          *)
(* different requests interleave, each may fail, the answer of the object  *)
(* store may be lost, and the API process may die between two calls.       *)
(* Requests are those of the user who owns the documents: one of another   *)
(* user ends at ownershipCheck and changes nothing.                        *)
(*                                                                         *)
(* Title, notes, category and family member are not told apart.  Dates are *)
(* days; NotificationDelivery delivers the alerts.                         *)
(*                                                                         *)
(* Definitions named Wrong... are slips the code could have made; each is  *)
(* used in the place of the definition after it to see a property fail.    *)
(***************************************************************************)
EXTENDS Integers, Sequences, FiniteSets

CONSTANTS
    Document,         \* document ids
    Request,          \* places for requests in progress at the same time
    Date,             \* expiry dates a user may enter
    Offset,           \* days before the expiry date a user may ask for
    None,             \* no document, no file, no expiry date
    User, NoUser,     \* the user id of every request, the user id ""
    NoRow,            \* the user has no usage_limits row
    InitialUsage,     \* what a usage_limits row counts from the start, one for
                      \* each other document of the user, or NoRow
    Limit,            \* document_limit of the user's plan, < 0: unlimited
    MaxDay,           \* bound: days that pass
    MaxUploads,       \* bound: uploads in a behaviour
    MaxSlips,         \* bound: late writes in a behaviour
    MaxFailures       \* bound: failed calls, lost answers and crashes

ASSUME PlacesAssumption == IsFiniteSet(Request)
ASSUME DateAssumption == Date \subseteq Int /\ Offset \subseteq Int
ASSUME NoneAssumption ==
    /\ None \notin Document \union Date /\ None \notin Document \X Nat
    /\ NoRow \notin Int /\ NoUser # User
ASSUME BoundsAssumption ==
    /\ InitialUsage \in Nat \union {NoRow}
    /\ Limit \in Int
    /\ MaxDay \in Nat /\ MaxUploads \in Nat
    /\ MaxSlips \in Nat /\ MaxFailures \in Nat

VARIABLES
    doc,       \* doc[d], the documents row
    store,     \* keys of the objects in the bucket
    alert,     \* alert[<<d, o>>], the notifications row with that key
    usage,     \* usage_limits.documents_used, or NoRow
    today,     \* the current day
    uploads,   \* object keys given out so far
    req,       \* req[q], the request in progress at place q
    stale,     \* documents changed on the strength of an outdated row
    slips,     \* late writes: updates and deletes of a document already deleted
    missed,    \* <<d, c>>: call c about d was due and was never answered
    replaced,  \* files an upload put another file in the place of
    renewed,   \* documents whose expiry date or offsets were changed
    failures   \* failed calls, lost answers and crashes so far

tables == <<doc, store, alert, usage, today, uploads>>
ghosts == <<stale, slips, missed, replaced, renewed, failures>>
vars   == <<tables, req, ghosts>>

\* documents/{user}/{document}/{uuid}: a key names its document.
File == Document \X (1 .. MaxUploads)
Row  == [status : {"absent", "active", "archived"}, file : File \union {None},
         expiry : Date \union {None}, offsets : SUBSET Offset]
Alert == [status : {"absent", "scheduled", "canceled"}, at : Int]

NoDocument == [status |-> "absent", file |-> None, expiry |-> None, offsets |-> {}]

\* A create that does not count.
WrongCalls ==
    [create     |-> <<"insert", "announce">>,
     upload     |-> <<"putObject", "update">>,
     deleteFile |-> <<"deleteObject", "update">>,
     edit       |-> <<"update">>,
     renew      |-> <<"update", "cancel", "announce">>,
     delete     |-> <<"softDelete", "cancel", "deleteObject", "decrement">>]

\* The calls of each method after its first read.  "edit" and "renew" are
\* UpdateDocument without and with expiryChanged.
Calls ==
    [create     |-> <<"insert", "increment", "announce">>,
     upload     |-> <<"putObject", "update">>,
     deleteFile |-> <<"deleteObject", "update">>,
     edit       |-> <<"update">>,
     renew      |-> <<"update", "cancel", "announce">>,
     delete     |-> <<"softDelete", "cancel", "deleteObject", "decrement">>]
Operation == DOMAIN Calls
Call == {"insert", "increment", "announce", "putObject", "update",
         "deleteObject", "cancel", "softDelete", "decrement"}

RequestState ==
    [todo   : Seq(Call),                    \* the calls it has yet to make
     method : Operation,
     target : Document \union {None},
     read   : Row,                          \* the row as the request read it
     copy   : Row,                          \* the row it is going to write
     left   : SUBSET Offset]                \* the alerts it has yet to insert
NoRequest == [todo |-> <<>>, method |-> "edit", target |-> None,
              read |-> NoDocument, copy |-> NoDocument, left |-> {}]

\* The calls whose error the method ignores.
Ignored(method) ==
    {"increment", "announce", "cancel", "decrement"}
      \union (IF method = "delete" THEN {"deleteObject"} ELSE {})

Idle(q) == req[q].todo = <<>>
Busy(d) == \E q \in Request : ~Idle(q) /\ req[q].target = d

\* No code inserts a usage_limits row: a user has one, made by hand, from the
\* start or never.
Init ==
    /\ doc = [d \in Document |-> NoDocument]
    /\ store = {}
    /\ alert = [k \in Document \X Offset |-> [status |-> "absent", at |-> 0]]
    /\ usage = InitialUsage
    /\ today = 0 /\ uploads = 0
    /\ req = [q \in Request |-> NoRequest]
    /\ stale = {} /\ missed = {} /\ replaced = {} /\ renewed = {}
    /\ slips = 0 /\ failures = 0

-----------------------------------------------------------------------------
(* The beginning of a request                                              *)

Begin(q, d, method, before, after) ==
    /\ Idle(q)
    /\ req' = [req EXCEPT ![q] =
                 [todo |-> Calls[method], method |-> method, target |-> d,
                  read |-> before, copy |-> after, left |-> {}]]
    /\ UNCHANGED <<tables, ghosts>>

IsWithinLimit == usage # NoRow /\ Limit >= 0 => usage < Limit

\* Without offsets in the request the service takes 30, 7 and 1.
CreateDocument(q, d) ==
    /\ doc[d].status = "absent" /\ ~Busy(d)        \* uuid.NewString()
    /\ IsWithinLimit
    /\ \E expiry \in Date \union {None}, offsets \in SUBSET Offset \ {{}} :
        Begin(q, d, "create", NoDocument,
              [status |-> "active", file |-> None,
               expiry |-> expiry, offsets |-> offsets])

Found(d) == doc[d].status \notin {"absent", "archived"}

UploadDocumentFile(q, d) ==
    /\ Found(d)
    /\ uploads + Cardinality({p \in Request : "putObject" \in
                                {req[p].todo[i] : i \in DOMAIN req[p].todo}})
         < MaxUploads                                           \* the bound
    /\ Begin(q, d, "upload", doc[d], doc[d])

\* Some fields are cleared, file_url is not.
WrongCleared(row) == row

Cleared(row) == [row EXCEPT !.file = None]

DeleteDocumentFile(q, d) ==
    /\ Found(d)
    /\ doc[d].file # None
    /\ Begin(q, d, "deleteFile", doc[d], Cleared(doc[d]))

\* Offsets alone change the alerts only of a document with an expiry date.
EditDocument(q, d) ==
    /\ Found(d)
    /\ \E offsets \in SUBSET Offset :
        /\ doc[d].expiry = None \/ offsets = doc[d].offsets
        /\ Begin(q, d, "edit", doc[d], [doc[d] EXCEPT !.offsets = offsets])

RenewDocument(q, d) ==
    /\ Found(d)
    /\ \E expiry \in Date \union {doc[d].expiry}, offsets \in SUBSET Offset :
        /\ expiry # None
        /\ Begin(q, d, "renew", doc[d],
                 [doc[d] EXCEPT !.expiry = expiry, !.offsets = offsets])

DeleteDocument(q, d) ==
    Found(d) /\ Begin(q, d, "delete", doc[d], doc[d])

-----------------------------------------------------------------------------
(* The calls                                                               *)

\* Request q makes its next call, c.
Makes(q, c) == ~Idle(q) /\ Head(req[q].todo) = c

\* The offsets that were reached already.
WrongDue(row) == {o \in row.offsets : row.expiry # None /\ row.expiry - o <= today}

\* createExpiryNotifications skips what is not after now.
Due(row) == {o \in row.offsets : row.expiry # None /\ row.expiry - o > today}

\* The test for an attached file the wrong way round.
WrongNeedless(q, c, copy) ==
    \/ c = "announce" /\ Due(copy) = {}
    \/ c = "deleteObject" /\ req[q].read.file # None

\* A call that a request has no cause for.
Needless(q, c, copy) ==
    \/ c = "announce" /\ Due(copy) = {}
    \/ c = "deleteObject" /\ req[q].read.file = None

\* q, having made its call, goes on with its next one, or ends.  The time of
\* createExpiryNotifications is the moment it begins.
Continue(q, copy) ==
    LET rest == Tail(req[q].todo)
        todo == IF rest # <<>> /\ Needless(q, Head(rest), copy)
                THEN Tail(rest) ELSE rest IN
    req' = [req EXCEPT ![q] = IF todo = <<>> THEN NoRequest
                              ELSE [@ EXCEPT !.todo = todo, !.copy = copy,
                                      !.left = IF Head(todo) = "announce"
                                               THEN Due(copy) ELSE {}]]
End(q) == req' = [req EXCEPT ![q] = NoRequest]

\* q goes on inserting alerts, its last call, or ends.
Remaining(q, left) ==
    req' = [req EXCEPT ![q] = IF left = {} THEN NoRequest
                              ELSE [@ EXCEPT !.left = left]]

\* q changes its document, which may no longer be what q has read.
NoteStaleness(q) ==
    LET d == req[q].target IN
    stale' = IF doc[d] = req[q].read THEN stale ELSE stale \union {d}

\* q writes to a document that another request may have deleted since.
NoteLateWrite(q) ==
    IF doc[req[q].target].status = "active" THEN UNCHANGED slips
    ELSE slips < MaxSlips /\ slips' = slips + 1

Insert(q) ==
    /\ Makes(q, "insert")
    /\ doc' = [doc EXCEPT ![req[q].target] = req[q].copy]
    /\ Continue(q, req[q].copy)
    /\ UNCHANGED <<store, alert, usage, today, uploads, ghosts>>

Increment(q) ==
    /\ Makes(q, "increment")
    /\ usage' = IF usage = NoRow THEN NoRow ELSE usage + 1
    /\ Continue(q, req[q].copy)
    /\ UNCHANGED <<doc, store, alert, today, uploads, ghosts>>

\* MinIOStore.Upload, under a key nobody else has.
PutObject(q) ==
    LET key == <<req[q].target, uploads + 1>> IN
    /\ Makes(q, "putObject")
    /\ uploads' = uploads + 1
    /\ store' = store \union {key}
    /\ Continue(q, [req[q].copy EXCEPT !.file = key])
    /\ UNCHANGED <<doc, alert, usage, today, ghosts>>

\* The file that DeleteDocumentFile and DeleteDocument have read of.
DeleteObject(q) ==
    /\ Makes(q, "deleteObject")
    /\ store' = store \ {req[q].read.file}
    /\ Continue(q, req[q].copy)
    /\ UNCHANGED <<doc, alert, usage, today, uploads, ghosts>>

\* The whole row is overwritten: its status, its file and its dates.
Update(q) ==
    LET d == req[q].target
        before == req[q].read
        after  == req[q].copy IN
    /\ Makes(q, "update")
    /\ doc' = [doc EXCEPT ![d] = after]
    /\ NoteStaleness(q) /\ NoteLateWrite(q)
    /\ replaced' = IF req[q].method = "upload" /\ before.file # None
                   THEN replaced \union {before.file} ELSE replaced
    /\ renewed' = IF <<after.expiry, after.offsets>> # <<before.expiry, before.offsets>>
                  THEN renewed \union {d} ELSE renewed
    /\ Continue(q, after)
    /\ UNCHANGED <<store, alert, usage, today, uploads, missed, failures>>

\* The unique index on idempotency_key rejects a second alert for an offset,
\* and the error is dropped.  The order of the offsets is the user's.
Announce(q) ==
    /\ Makes(q, "announce")
    /\ \E o \in req[q].left :
        LET k == <<req[q].target, o>>
            left == req[q].left \ {o} IN
        /\ alert' = IF alert[k].status # "absent" THEN alert
                    ELSE [alert EXCEPT ![k] =
                            [status |-> "scheduled", at |-> req[q].copy.expiry - o]]
        /\ Remaining(q, left)
    /\ UNCHANGED <<doc, store, usage, today, uploads, ghosts>>

FindAllByUser(user) ==
    {k \in Document \X Offset : alert[k].status = "scheduled" /\ user = User}

\* cancelExpiryNotifications searches among the notifications of user "",
\* which is not even a UUID: the query fails and there is nothing to cancel.
CancelAlerts(q) ==
    /\ Makes(q, "cancel")
    /\ alert' = [k \in Document \X Offset |->
                  IF k \in FindAllByUser(NoUser) /\ k[1] = req[q].target
                  THEN [alert[k] EXCEPT !.status = "canceled"] ELSE alert[k]]
    /\ Continue(q, req[q].copy)
    /\ UNCHANGED <<doc, store, usage, today, uploads, ghosts>>

SoftDelete(q) ==
    /\ Makes(q, "softDelete")
    /\ doc' = [doc EXCEPT ![req[q].target].status = "archived"]
    /\ NoteStaleness(q) /\ NoteLateWrite(q)
    /\ Continue(q, req[q].copy)
    /\ UNCHANGED <<store, alert, usage, today, uploads,
                   missed, replaced, renewed, failures>>

\* Without GREATEST(..., 0).
WrongDecremented(n) == n - 1

Decremented(n) == IF n > 0 THEN n - 1 ELSE 0

Decrement(q) ==
    /\ Makes(q, "decrement")
    /\ usage' = IF usage = NoRow THEN NoRow ELSE Decremented(usage)
    /\ Continue(q, req[q].copy)
    /\ UNCHANGED <<doc, store, alert, today, uploads, ghosts>>

\* A request that is cut short before its first change leaves no trace; later
\* on, the calls it had yet to make are missed.
Missed(q, calls) ==
    IF req[q].todo = Calls[req[q].method] THEN {}
    ELSE {<<req[q].target, c>> : c \in calls}
CallsIn(calls) == {calls[i] : i \in DOMAIN calls}

Fail == failures < MaxFailures /\ failures' = failures + 1

\* The next call of q fails and changes nothing; the method returns the error
\* or, where it ignores it, goes on.
CallFails(q) ==
    LET calls == req[q].todo IN
    /\ ~Idle(q)
    /\ Fail
    /\ \/ /\ Head(calls) \in Ignored(req[q].method)
          /\ \/ Head(calls) # "announce" /\ Continue(q, req[q].copy)
             \/ \E o \in req[q].left : Remaining(q, req[q].left \ {o})
          /\ missed' = missed \union {<<req[q].target, Head(calls)>>}
       \/ /\ Head(calls) \notin Ignored(req[q].method)
          /\ End(q)
          /\ missed' = missed \union Missed(q, CallsIn(calls))
    /\ UNCHANGED <<tables, stale, slips, replaced, renewed>>

\* The object store does what it is asked to, but the answer is lost: the
\* method sees an error.
AnswerLost(q) ==
    LET lost == IF req[q].method = "delete" THEN {"deleteObject"}
                ELSE CallsIn(req[q].todo) IN
    /\ ~Idle(q)
    /\ Fail
    /\ \/ /\ Makes(q, "putObject")
          /\ uploads' = uploads + 1
          /\ store' = store \union {<<req[q].target, uploads + 1>>}
          /\ End(q)
       \/ /\ Makes(q, "deleteObject")
          /\ store' = store \ {req[q].read.file}
          /\ uploads' = uploads
          /\ IF req[q].method = "delete" THEN Continue(q, req[q].copy) ELSE End(q)
    /\ missed' = missed \union {<<req[q].target, c>> : c \in lost}
    /\ UNCHANGED <<doc, alert, usage, today, stale, slips, replaced, renewed>>

\* The API process dies, and with it every request in progress.
Crash ==
    /\ \E q \in Request : ~Idle(q)
    /\ Fail
    /\ missed' = missed \union
                   UNION {Missed(q, CallsIn(req[q].todo)) : q \in Request}
    /\ req' = [q \in Request |-> NoRequest]
    /\ UNCHANGED <<tables, stale, slips, replaced, renewed>>

NextDay ==
    /\ today < MaxDay
    /\ today' = today + 1
    /\ UNCHANGED <<doc, store, alert, usage, uploads, req, ghosts>>

-----------------------------------------------------------------------------
Handle(q, d) ==
    \/ CreateDocument(q, d) \/ UploadDocumentFile(q, d)
    \/ DeleteDocumentFile(q, d) \/ EditDocument(q, d)
    \/ RenewDocument(q, d) \/ DeleteDocument(q, d)

MakeCall(q) ==
    \/ Insert(q) \/ Increment(q) \/ PutObject(q) \/ DeleteObject(q)
    \/ Update(q) \/ Announce(q) \/ CancelAlerts(q)
    \/ SoftDelete(q) \/ Decrement(q)

Next ==
    \/ \E q \in Request : \/ \E d \in Document : Handle(q, d)
                          \/ MakeCall(q)
                          \/ CallFails(q)
                          \/ AnswerLost(q)
    \/ Crash
    \/ NextDay

Spec == Init /\ [][Next]_vars

-----------------------------------------------------------------------------
(* Properties                                                              *)

TypeOK ==
    /\ doc \in [Document -> Row]
    /\ store \subseteq File
    /\ alert \in [Document \X Offset -> Alert]
    /\ usage \in Nat \union {NoRow}
    /\ today \in 0 .. MaxDay /\ uploads \in 0 .. MaxUploads
    /\ req \in [Request -> RequestState]
    /\ stale \subseteq Document /\ renewed \subseteq Document
    /\ slips \in 0 .. MaxSlips
    /\ missed \subseteq (Document \union {None}) \X Call
    /\ replaced \subseteq File
    /\ failures \in 0 .. MaxFailures

\* No request about d is in progress, none acted on an outdated row, and none
\* missed one of these calls.
Settled(d, calls) ==
    ~Busy(d) /\ d \notin stale /\ \A c \in calls : <<d, c>> \notin missed

\* A file a document names can be downloaded.  Only two things leave a
\* document with a link to nothing: a DeleteDocumentFile whose update never
\* came after the object was gone, and a request that overlapped.
FileAvailable ==
    \A d \in Document :
        doc[d].status = "active" /\ doc[d].file # None /\ Settled(d, {"update"})
        => doc[d].file \in store

\* Every object in the bucket is the file of a document, but for the files an
\* upload replaced, which nothing ever deletes, and those of documents with a
\* request that overlapped or that missed its update or its delete.
OrphansExplained ==
    \A f \in store :
        Settled(f[1], {"update", "deleteObject"}) =>
          \/ f \in replaced
          \/ doc[f[1]].status = "active" /\ doc[f[1]].file = f

Announced(d) ==
    \A o \in doc[d].offsets :
        doc[d].expiry # None /\ doc[d].expiry - o > today =>
          alert[<<d, o>>] = [status |-> "scheduled", at |-> doc[d].expiry - o]

\* As long as a document keeps its first dates, every offset that is still
\* ahead has its alert, on the right day, however uploads and edits overlap.
FirstDatesAnnounced ==
    \A d \in Document :
        /\ doc[d].status = "active" /\ d \notin renewed
        /\ Settled(d, {"announce"})
        => Announced(d)

\* When nothing is in progress and no increment was lost, the counter that the
\* plan limit is checked against falls short of the documents the user has by at
\* most one for every late write: of two overlapping deletes of one document
\* both decrement, at the cost of the user's other documents, and an update
\* that overlaps a delete brings back a document no longer counted.
UsageShortfall ==
    /\ usage # NoRow
    /\ \A d \in Document : ~Busy(d) /\ <<d, "increment">> \notin missed
    => usage + slips
         >= InitialUsage + Cardinality({d \in Document : doc[d].status = "active"})

\* service.go says of UpdateDocument: "When expiry_date changes, all
\* previously-scheduled expiry notifications are canceled and new ones are
\* created for the updated date."  Refuted by document_renewal: the old alert
\* stays, and its key keeps the new one out.
AlertsFollowExpiry ==
    \A d \in Document :
        doc[d].status = "active" /\ Settled(d, Call) => Announced(d)
=============================================================================

------------------------ MODULE SubscriptionsProofs ------------------------
(***************************************************************************)
(* What the subscription service promises, for any number of               *)
(* subscriptions, requests and failures: the first billing date is         *)
(* announced, and there are not many more of them than the limit.          *)
(*                                                                         *)
(* The first rests on who knows the date: as long as nobody gives a        *)
(* subscription another one, every request about it has read, and is to    *)
(* announce, the date in the row.  The second joins two accounts: that of  *)
(* LimitCheck bounds the counter, and that of the ledger says how far the  *)
(* counter falls behind the rows.                                          *)
(***************************************************************************)
EXTENDS Subscriptions, FiniteSetTheorems, TLAPS

LimitOn == INSTANCE LimitCheckProofs WITH
    Limit <- SubscriptionLimit, counted <- subscriptionsUsed,
    admitted <- Cardinality(Uncounted), crowd <- subCrowd

\* What a request may still have to do.
IIA == <<"insert", "countSub", "announce">>
IA  == <<"countSub", "announce">>
A   == <<"announce">>
U   == <<"updateSub">>
UCA == <<"updateSub", "cancel", "announce">>
CA  == <<"cancel", "announce">>
UC  == <<"updateSub", "cancel">>
C   == <<"cancel">>
SCD == <<"softDelete", "cancel", "uncountSub">>
CD  == <<"cancel", "uncountSub">>
D   == <<"uncountSub">>

Own == [target : Subscription, read : SubRow \union {NoSub}, copy : SubRow]

Work(method, todos) == [method : {method}, todo : todos, wrote : BOOLEAN, own : Own]

SubReqs ==
    Work("createSubscription", {IIA, IA, A}) \union Work("editSubscription", {U})
    \union Work("rebillSubscription", {UCA, CA, A}) \union Work("archiveSubscription", {UC, C})
    \union Work("deleteSubscription", {SCD, CD, D})

\* A request that is to insert, that is to count, that has nothing left but to
\* announce what the row has, and the creation among them.
Inserts(r)   == r.todo = IIA
Early(r)     == r.todo \in {IIA, IA}
Announces(r) == r.todo \in {IA, CA, A}
Promises(r)  == r.todo \in {IA, A} /\ r.method = "createSubscription"

ReqsTyped == req \in [Request -> {NoRequest} \union SubReqs]

TablesTyped ==
    /\ sub \in [Subscription -> SubRow \union {NoSub}]
    /\ alert \in [Subscription -> Date \union {NoDay}]
    /\ subscriptionsUsed \in Nat /\ day \in 0 .. LastDay
    /\ redated \subseteq Subscription /\ subCrowd \in Nat /\ subSlips \in Nat

TypeInv == ReqsTyped /\ TablesTyped

About(q, s) == req[q] \in SubReqs /\ req[q].own.target = s

\* Nobody else works on a subscription that is still to be inserted, and a
\* request that may have changed something knows it.
FreshInv ==
    \A q \in Request : \A s \in Subscription :
        About(q, s) /\ Inserts(req[q]) =>
          sub[s] = NoSub /\ \A p \in Request : About(p, s) => p = q

RowInv ==
    \A q \in Request : \A s \in Subscription :
        About(q, s) /\ ~Inserts(req[q]) => sub[s] # NoSub /\ (Promises(req[q]) => req[q].wrote)

\* The date of a subscription that was given no other one is what every request
\* has read, what is to be announced, and what was announced.
DateInv ==
    \A s \in Subscription \ redated :
        /\ alert[s] = NoDay \/ (sub[s] # NoSub /\ alert[s] = sub[s].next)
        /\ \A q \in Request : About(q, s) =>
             /\ Announces(req[q]) => req[q].own.copy.next = sub[s].next
             /\ req[q].method # "createSubscription" => req[q].own.read.next = sub[s].next

Announced(s)  == alert[s] = sub[s].next
Promised(s)   == \E q \in Request : About(q, s) /\ Promises(req[q])
Concerned(s)  == s \notin redated /\ sub[s] # NoSub /\ sub[s].next > day

PromiseInv ==
    "announce" \in Watched \ cut =>
      \A s \in Subscription : Concerned(s) => Announced(s) \/ Promised(s)

SubInv == TypeInv /\ FreshInv /\ RowInv /\ DateInv /\ PromiseInv

-----------------------------------------------------------------------------
(* Rows and requests                                                       *)

LEMMA RowFacts ==
    /\ NoSub \notin SubRow /\ NoSub.status = "absent" /\ NoSub.next = 0
    /\ \A row \in SubRow : row.status # "absent" /\ row.next \in Date
    /\ \A s \in Subscription : TypeInv => (sub[s] = NoSub <=> sub[s].status = "absent")
<1>1. NoSub.status = "absent" /\ NoSub.next = 0
  BY DEF NoSub
<1>2. \A row \in SubRow : row.status # "absent" /\ row.next \in Date
  BY DEF SubRow
<1>3. \A s \in Subscription : TypeInv => sub[s] \in SubRow \union {NoSub}
  BY DEF TypeInv, TablesTyped
<1>4. QED
  BY <1>1, <1>2, <1>3

LEMMA DateFacts == Date \subseteq Nat /\ NoDay \notin Date
<1>1. \A c \in Cycle, d \in 0 .. LastDay : CalculateNextBillingAt(c, d) \in Nat
  BY SubscriptionsAssumption DEF CalculateNextBillingAt
<1>2. BillingDate \subseteq Nat
  BY SubscriptionsAssumption
<1> DEFINE Computed == {CalculateNextBillingAt(c, d) : c \in Cycle, d \in 0 .. LastDay}
<1>3. ASSUME NEW x \in Computed
      PROVE  x \in Nat
  BY <1>1
<1>4. Date \subseteq Nat
  <2>1. Date = BillingDate \union Computed
    BY DEF Date
  <2> HIDE DEF Computed
  <2>2. QED
    BY <1>2, <1>3, <2>1
<1>5. NoDay \notin Nat
  BY SMT DEF NoDay
<1>6. QED
  BY <1>4, <1>5

LEMMA TodoFacts ==
    /\ Head(IIA) = "insert" /\ Tail(IIA) = IA /\ Len(IIA) = 3
    /\ Head(IA) = "countSub" /\ Tail(IA) = A /\ Len(IA) = 2
    /\ Head(A) = "announce" /\ Len(A) = 1
    /\ Head(U) = "updateSub" /\ Len(U) = 1
    /\ Head(UCA) = "updateSub" /\ Tail(UCA) = CA /\ Len(UCA) = 3
    /\ Head(CA) = "cancel" /\ Tail(CA) = A /\ Len(CA) = 2
    /\ Head(UC) = "updateSub" /\ Tail(UC) = C /\ Len(UC) = 2
    /\ Head(C) = "cancel" /\ Len(C) = 1
    /\ Head(SCD) = "softDelete" /\ Tail(SCD) = CD /\ Len(SCD) = 3
    /\ Head(CD) = "cancel" /\ Tail(CD) = D /\ Len(CD) = 2
    /\ Head(D) = "uncountSub" /\ Len(D) = 1
  BY DEF IIA, IA, A, U, UCA, CA, UC, C, SCD, CD, D

Todos == {IIA, IA, A, U, UCA, CA, UC, C, SCD, CD, D}

LEMMA Distinct ==
    /\ Len(<<>>) = 0
    /\ \A t \in Todos : t # <<>>
    /\ IIA # IA /\ IIA # A /\ IIA # CA /\ IA # A /\ CA # A /\ IA # CA
    /\ \A t \in Todos : /\ Head(t) = "insert" <=> t = IIA
                        /\ Head(t) = "countSub" <=> t = IA
                        /\ Head(t) = "announce" <=> t = A
                        /\ Head(t) = "updateSub" <=> t \in {U, UCA, UC}
                        /\ Head(t) = "cancel" <=> t \in {CA, C, CD}
                        /\ Head(t) = "softDelete" <=> t = SCD
                        /\ Head(t) = "uncountSub" <=> t = D
<1>1. Len(<<>>) = 0
  OBVIOUS
<1>2. \A t \in Todos : Len(t) \in {1, 2, 3}
  BY TodoFacts DEF Todos
<1>3. QED
  BY <1>1, <1>2, TodoFacts DEF Todos

LEMMA NoRequestFacts ==
    /\ NoRequest \notin SubReqs /\ NoRequest.method = "none" /\ NoRequest.todo = <<>>
  BY DEF NoRequest, SubReqs, Work

LEMMA KindFacts ==
    ASSUME NEW r \in SubReqs
    PROVE  /\ r.todo \in Todos /\ r.own \in Own /\ r.wrote \in BOOLEAN /\ r.method \in SubMethod
           /\ Early(r) => r.method = "createSubscription"
           /\ Inserts(r) => r.method = "createSubscription"
           /\ r.method = "createSubscription" => r.todo \in {IIA, IA, A}
           /\ r.own.target \in Subscription
<1>1. r.own \in Own /\ r.wrote \in BOOLEAN
  BY DEF SubReqs, Work
<1>2. \/ r.todo \in {IIA, IA, A} /\ r.method = "createSubscription"
      \/ r.todo = U /\ r.method = "editSubscription"
      \/ r.todo \in {UCA, CA, A} /\ r.method = "rebillSubscription"
      \/ r.todo \in {UC, C} /\ r.method = "archiveSubscription"
      \/ r.todo \in {SCD, CD, D} /\ r.method = "deleteSubscription"
  BY DEF SubReqs, Work
<1>4. {IIA, IA} \intersect {U, UCA, CA, A, UC, C, SCD, CD, D} = {}
  BY TodoFacts
<1>5. r.todo \in Todos /\ r.method \in SubMethod
  BY <1>2 DEF Todos, SubMethod
<1>6. (Early(r) \/ Inserts(r)) => r.method = "createSubscription"
  BY <1>2, <1>4 DEF Early, Inserts
<1>7. r.own.target \in Subscription
  BY <1>1 DEF Own
<1>8. QED
  BY <1>1, <1>2, <1>5, <1>6, <1>7

\* A request that makes its call goes on with the rest, or ends.
LEMMA AdvancedFacts ==
    ASSUME NEW q \in Request, req[q] \in SubReqs
    PROVE  LET r == req[q]
               n == Advanced(q, r.own) IN
           /\ n \in {NoRequest} \union SubReqs
           /\ n = NoRequest <=> Len(r.todo) = 1
           /\ n # NoRequest => /\ n.own = r.own /\ n.method = r.method /\ n.wrote
                               /\ n.todo = Tail(r.todo)
<1> DEFINE r == req[q]
           n == Advanced(q, r.own)
<1>1. CASE Len(r.todo) = 1
  BY <1>1 DEF Advanced
<1>2. ASSUME Len(r.todo) # 1, NEW m, NEW todos, r \in Work(m, todos), Tail(r.todo) \in todos
      PROVE  /\ n \in Work(m, todos) /\ n.own = r.own /\ n.method = r.method /\ n.wrote
             /\ n.todo = Tail(r.todo)
  <2>1. n = [r EXCEPT !.todo = Tail(r.todo), !.wrote = TRUE, !.own = r.own]
    BY <1>2, Zenon DEF Advanced
  <2>2. PICK x \in Work(m, todos) : x = r
    BY <1>2
  <2>3. PICK t \in todos : Tail(r.todo) = t
    BY <1>2
  <2> DEFINE y == [x EXCEPT !.todo = t, !.wrote = TRUE, !.own = x.own]
  <2>4. y \in Work(m, todos)
    BY DEF Work
  <2>5. y.own = x.own /\ y.method = x.method /\ y.wrote /\ y.todo = t
    BY DEF Work
  <2>6. n = y
    BY <2>1, <2>2, <2>3
  <2> HIDE DEF n, y, r
  <2>7. QED
    BY <2>2, <2>3, <2>4, <2>5, <2>6
<1>3. \/ r \in Work("createSubscription", {IIA, IA, A}) \/ r \in Work("editSubscription", {U})
      \/ r \in Work("rebillSubscription", {UCA, CA, A}) \/ r \in Work("archiveSubscription", {UC, C})
      \/ r \in Work("deleteSubscription", {SCD, CD, D})
  BY DEF SubReqs
<1>4. ASSUME Len(r.todo) # 1
      PROVE  /\ n \in SubReqs /\ n.own = r.own /\ n.method = r.method /\ n.wrote
             /\ n.todo = Tail(r.todo)
  <2> HIDE DEF n
  <2>1. CASE r \in Work("createSubscription", {IIA, IA, A})
    <3>1. r.todo \in {IIA, IA, A}
      BY <2>1 DEF Work
    <3>2. QED
      BY <1>2, <1>4, <2>1, <3>1, TodoFacts DEF SubReqs
  <2>2. CASE r \in Work("editSubscription", {U})
    <3>1. r.todo = U
      BY <2>2 DEF Work
    <3>2. QED
      BY <1>4, <3>1, TodoFacts
  <2>3. CASE r \in Work("rebillSubscription", {UCA, CA, A})
    <3>1. r.todo \in {UCA, CA, A}
      BY <2>3 DEF Work
    <3>2. QED
      BY <1>2, <1>4, <2>3, <3>1, TodoFacts DEF SubReqs
  <2>4. CASE r \in Work("archiveSubscription", {UC, C})
    <3>1. r.todo \in {UC, C}
      BY <2>4 DEF Work
    <3>2. QED
      BY <1>2, <1>4, <2>4, <3>1, TodoFacts DEF SubReqs
  <2>5. CASE r \in Work("deleteSubscription", {SCD, CD, D})
    <3>1. r.todo \in {SCD, CD, D}
      BY <2>5 DEF Work
    <3>2. QED
      BY <1>2, <1>4, <2>5, <3>1, TodoFacts DEF SubReqs
  <2>6. QED
    BY <1>3, <2>1, <2>2, <2>3, <2>4, <2>5
<1>5. QED
  BY <1>1, <1>4, NoRequestFacts

\* What a call says of the request that makes it.
LEMMA CallFacts ==
    ASSUME ReqsTyped, NEW q \in Request
    PROVE  /\ Idle(q) <=> req[q] = NoRequest
           /\ ~Idle(q) => req[q] \in SubReqs
           /\ Makes(q, "insert") => req[q].todo = IIA
           /\ Makes(q, "countSub") => req[q].todo = IA
           /\ Makes(q, "announce") => req[q].todo = A
           /\ Makes(q, "updateSub") => req[q].todo \in {U, UCA, UC}
           /\ Makes(q, "cancel") => req[q].todo \in {CA, C, CD}
           /\ Makes(q, "softDelete") => req[q].todo = SCD
           /\ Makes(q, "uncountSub") => req[q].todo = D
           /\ q \in Doing(SubMethod) <=> req[q] \in SubReqs
           /\ q \in Uncounted <=> Early(req[q])
<1>1. req[q] = NoRequest \/ req[q] \in SubReqs
  BY DEF ReqsTyped
<1>2. CASE req[q] = NoRequest
  <2>1. <<>> \notin Todos /\ "none" \notin SubMethod
    BY Distinct DEF SubMethod
  <2>2. Idle(q) /\ ~Early(req[q]) /\ q \notin CreatingSub /\ q \notin Doing(SubMethod)
    BY <1>2, <2>1, NoRequestFacts DEF Idle, Early, Todos, CreatingSub, Doing
  <2>3. QED
    BY <1>2, <2>2, NoRequestFacts DEF Makes, Uncounted
<1>3. CASE req[q] \in SubReqs
  <2>1. req[q].todo \in Todos /\ req[q].method \in SubMethod
    BY <1>3, KindFacts
  <2>2. ~Idle(q) /\ q \in Doing(SubMethod)
    BY <2>1, Distinct DEF Idle, Doing
  <2>3. Early(req[q]) => q \in CreatingSub
    BY <1>3, KindFacts DEF CreatingSub, Doing
  <2>4. q \in Uncounted <=> Early(req[q])
    BY <2>1, <2>2, <2>3, Distinct DEF Uncounted, Makes, Early
  <2>5. QED
    BY <1>3, <2>1, <2>2, <2>4, Distinct, NoRequestFacts DEF Makes
<1>4. QED
  BY <1>1, <1>2, <1>3

LEMMA EarlyFacts ==
    ASSUME NEW r \in {NoRequest} \union SubReqs
    PROVE  Early(r) <=> /\ r.method = "createSubscription" /\ r.todo # <<>>
                        /\ Head(r.todo) = "insert" \/ Head(r.todo) = "countSub"
<1>1. CASE r = NoRequest
  BY <1>1, NoRequestFacts, Distinct DEF Early, Todos
<1>2. CASE r \in SubReqs
  <2>1. r.todo \in Todos /\ (Early(r) => r.method = "createSubscription")
    BY <1>2, KindFacts
  <2>2. QED
    BY <2>1, Distinct DEF Early
<1>3. QED
  BY <1>1, <1>2

LEMMA UncountedFacts ==
    /\ ReqsTyped => Uncounted = {p \in Request : Early(req[p])}
    /\ ReqsTyped' => Uncounted' = {p \in Request : Early(req'[p])}
<1>1. ReqsTyped => \A p \in Request : req[p] \in {NoRequest} \union SubReqs
  BY DEF ReqsTyped
<1>2. ReqsTyped' => \A p \in Request : req'[p] \in {NoRequest} \union SubReqs
  BY DEF ReqsTyped
<1>3. QED
  BY <1>1, <1>2, EarlyFacts DEF Uncounted, CreatingSub, Doing, Makes, Idle

-----------------------------------------------------------------------------
(* What a step does to the requests                                        *)

\* Request p has ended, stays as it is, or has gone on.
Later(p) ==
    \/ req'[p] = NoRequest
    \/ req'[p] = req[p]
    \/ /\ req[p] \in SubReqs /\ req'[p] \in SubReqs
       /\ req'[p].own = req[p].own /\ req'[p].method = req[p].method /\ req'[p].wrote
       /\ ~Inserts(req'[p]) /\ (Promises(req[p]) => Promises(req'[p]))

LEMMA MoveFacts ==
    ASSUME ReqsTyped, NEW q \in Request, req[q] \in SubReqs,
           req' = [req EXCEPT ![q] = Advanced(q, req[q].own)]
    PROVE  /\ ReqsTyped' /\ \A p \in Request : Later(p)
           /\ \A p \in Request : p # q => req'[p] = req[p]
           /\ req'[q] = NoRequest <=> req[q].todo \in {A, U, C, D}
           /\ req'[q] \in SubReqs => /\ req'[q].own = req[q].own
                                     /\ req'[q].method = req[q].method /\ req'[q].wrote
                                     /\ req'[q].todo = Tail(req[q].todo)
<1> DEFINE n == Advanced(q, req[q].own)
<1>1. req'[q] = n /\ \A p \in Request : p # q => req'[p] = req[p]
  BY Zenon DEF ReqsTyped
<1>2. /\ n \in {NoRequest} \union SubReqs
      /\ n = NoRequest <=> Len(req[q].todo) = 1
      /\ n # NoRequest => /\ n.own = req[q].own /\ n.method = req[q].method /\ n.wrote
                          /\ n.todo = Tail(req[q].todo)
  BY AdvancedFacts
<1> HIDE DEF n
<1>3. req' \in [Request -> {NoRequest} \union SubReqs]
  <2>1. req \in [Request -> {NoRequest} \union SubReqs] /\ req' = [req EXCEPT ![q] = n]
    BY Zenon DEF ReqsTyped, n
  <2>2. QED
    BY <1>2, <2>1
<1>4. req[q].todo \in Todos
  BY KindFacts
<1>5. Len(req[q].todo) = 1 <=> req[q].todo \in {A, U, C, D}
  BY <1>4, TodoFacts DEF Todos
<1>6. ASSUME n # NoRequest
      PROVE  ~Inserts(n) /\ (Promises(req[q]) => Promises(n))
  <2>1. n.todo \in {IA, A, CA, C, CD, D} /\ (req[q].todo \in {IA, A} => n.todo = A)
    BY <1>2, <1>4, <1>6, TodoFacts DEF Todos
  <2>2. IIA \notin {IA, A, CA, C, CD, D}
    BY TodoFacts
  <2>3. QED
    BY <1>2, <1>6, <2>1, <2>2 DEF Inserts, Promises
<1>7. Later(q)
  BY <1>1, <1>2, <1>6 DEF Later
<1>8. QED
  BY <1>1, <1>2, <1>3, <1>5, <1>7, NoRequestFacts DEF ReqsTyped, Later

LEMMA EndFacts ==
    ASSUME ReqsTyped, NEW q \in Request, req' = [req EXCEPT ![q] = NoRequest]
    PROVE  /\ ReqsTyped' /\ \A p \in Request : Later(p)
           /\ \A p \in Request : p # q => req'[p] = req[p]
           /\ req'[q] = NoRequest
  BY Zenon DEF ReqsTyped, Later

\* Whoever is about a subscription was about it before.
LEMMA LaterFacts ==
    ASSUME ReqsTyped, \A p \in Request : Later(p)
    PROVE  \A p \in Request : \A s \in Subscription : About(p, s)' =>
             /\ About(p, s) /\ req'[p].own = req[p].own /\ req'[p].method = req[p].method
             /\ Inserts(req'[p]) => Inserts(req[p])
             /\ req[p].wrote => req'[p].wrote
  BY NoRequestFacts DEF Later, About

LEMMA FreshKept ==
    ASSUME ReqsTyped, FreshInv, \A p \in Request : Later(p),
           \A p \in Request : \A s \in Subscription :
               About(p, s) /\ Inserts(req[p]) /\ req'[p] = req[p] => sub'[s] = sub[s]
    PROVE  FreshInv'
<1>1. ASSUME NEW q \in Request, NEW s \in Subscription, About(q, s)', Inserts(req'[q])
      PROVE  sub'[s] = NoSub /\ \A p \in Request : About(p, s)' => p = q
  <2>1. About(q, s) /\ Inserts(req[q]) /\ \A p \in Request : About(p, s)' => About(p, s)
    BY <1>1, LaterFacts
  <2>2. sub[s] = NoSub /\ \A p \in Request : About(p, s) => p = q
    BY <2>1 DEF FreshInv
  <2>3. req'[q] = req[q]
    BY <1>1, NoRequestFacts DEF Later, About
  <2>4. QED
    BY <2>1, <2>2, <2>3
<1>2. QED
  BY <1>1 DEF FreshInv

LEMMA RowKept ==
    ASSUME ReqsTyped, RowInv, \A p \in Request : Later(p),
           \A s \in Subscription : sub[s] # NoSub => sub'[s] # NoSub,
           \A p \in Request : \A s \in Subscription :
               About(p, s) /\ Inserts(req[p]) /\ req'[p] \notin {NoRequest, req[p]} => sub'[s] # NoSub
    PROVE  RowInv'
<1>1. ASSUME NEW q \in Request, NEW s \in Subscription, About(q, s)', ~Inserts(req'[q])
      PROVE  sub'[s] # NoSub /\ (Promises(req'[q]) => req'[q].wrote)
  <2>1. About(q, s) /\ req'[q] # NoRequest
    BY <1>1, LaterFacts, NoRequestFacts DEF About
  <2>2. CASE Inserts(req[q])
    BY <1>1, <2>1, <2>2 DEF Later
  <2>3. CASE ~Inserts(req[q])
    <3>1. sub[s] # NoSub /\ (Promises(req[q]) => req[q].wrote)
      BY <2>1, <2>3 DEF RowInv
    <3>2. QED
      BY <2>1, <3>1 DEF Later
  <2>4. QED
    BY <2>2, <2>3
<1>2. QED
  BY <1>1 DEF RowInv

LEMMA DateKept ==
    ASSUME ReqsTyped, DateInv, \A p \in Request : Later(p), redated \subseteq redated',
           \A s \in Subscription \ redated' :
               alert'[s] = NoDay \/ (sub'[s] # NoSub /\ alert'[s] = sub'[s].next),
           \A s \in Subscription \ redated' :
               sub'[s].next = sub[s].next
               \/ \A p \in Request : About(p, s) => req[p].method = "createSubscription"
                                                    /\ ~Announces(req[p]),
           \A p \in Request : \A s \in Subscription \ redated' :
               About(p, s)' /\ Announces(req'[p]) /\ ~Announces(req[p])
               => req[p].own.copy.next = sub'[s].next
    PROVE  DateInv'
<1>1. ASSUME NEW s \in Subscription \ redated', NEW q \in Request, About(q, s)'
      PROVE  /\ Announces(req'[q]) => req'[q].own.copy.next = sub'[s].next
             /\ req'[q].method # "createSubscription" => req'[q].own.read.next = sub'[s].next
  <2>1. /\ About(q, s) /\ req'[q].own = req[q].own /\ req'[q].method = req[q].method
    BY <1>1, LaterFacts
  <2>2. /\ Announces(req[q]) => req[q].own.copy.next = sub[s].next
        /\ req[q].method # "createSubscription" => req[q].own.read.next = sub[s].next
    BY <2>1 DEF DateInv
  <2>3. QED
    BY <1>1, <2>1, <2>2
<1>2. QED
  BY <1>1 DEF DateInv

\* A promise is kept by the request that made it, or by what is announced.
LEMMA PromiseKept ==
    ASSUME PromiseInv, "announce" \in cut => "announce" \in cut',
           "announce" \in Watched \ cut' =>
             \A s \in Subscription : Concerned(s)' =>
               \/ Announced(s)' \/ Promised(s)'
               \/ /\ Concerned(s) /\ (Announced(s) => Announced(s)')
                  /\ Promised(s) => Promised(s)' \/ Announced(s)'
    PROVE  PromiseInv'
  BY DEF PromiseInv

LEMMA PromisedKept ==
    ASSUME NEW s \in Subscription, Promised(s), \A p \in Request : Later(p),
           \A p \in Request : About(p, s) /\ Promises(req[p]) => req'[p] # NoRequest
    PROVE  Promised(s)'
<1>1. PICK p \in Request : About(p, s) /\ Promises(req[p])
  BY DEF Promised
<1>2. About(p, s)' /\ Promises(req'[p])
  BY <1>1 DEF Later, About
<1>3. QED
  BY <1>2 DEF Promised

-----------------------------------------------------------------------------
(* Requests that begin                                                     *)

\* A new request is about a subscription that nobody else is to insert; it
\* knows the row as it is, and is not yet to announce anything.
Begins(q, r) ==
    /\ Idle(q) /\ req' = [req EXCEPT ![q] = r] /\ cut' = cut
    /\ r \in SubReqs /\ r.own.read = sub[r.own.target]
    /\ UNCHANGED <<sub, alert, subscriptionsUsed, day, redated, subSlips>>
    /\ \/ Inserts(r) /\ sub[r.own.target] = NoSub /\ ~AboutSub(r.own.target)
       \/ /\ ~Early(r) /\ ~Announces(r) /\ r.method # "createSubscription"
          /\ sub[r.own.target] # NoSub

LEMMA AboutFacts ==
    ASSUME ReqsTyped, NEW s, ~AboutSub(s), NEW q \in Request
    PROVE  ~About(q, s)
  BY CallFacts DEF AboutSub, About, Doing

LEMMA BeginKept ==
    ASSUME SubInv, NEW q \in Request, NEW r, Begins(q, r), subCrowd' \in Nat
    PROVE  /\ SubInv'
           /\ Uncounted' = IF Inserts(r) THEN Uncounted \union {q} ELSE Uncounted
           /\ q \notin Uncounted
<1> DEFINE t == r.own.target
<1>1. /\ ReqsTyped /\ TablesTyped /\ req[q] = NoRequest
      /\ r \in SubReqs /\ t \in Subscription
      /\ UNCHANGED <<sub, alert, subscriptionsUsed, day, redated, subSlips, cut>>
  BY CallFacts, KindFacts DEF SubInv, TypeInv, Begins
<1>2. req'[q] = r /\ \A p \in Request : p # q => req'[p] = req[p]
  BY <1>1 DEF Begins, ReqsTyped
<1>3. ReqsTyped'
  BY <1>1 DEF Begins, ReqsTyped
<1>4. TablesTyped'
  BY <1>1 DEF TablesTyped
<1>5. /\ \A s \in Subscription : About(q, s)' <=> s = t
      /\ \A p \in Request : p # q => \A s \in Subscription : About(p, s)' <=> About(p, s)
      /\ \A s \in Subscription : ~About(q, s)
  BY <1>1, <1>2, NoRequestFacts DEF About
<1>6. Inserts(r) => sub[t] = NoSub /\ \A p \in Request : ~About(p, t)
  BY <1>1, AboutFacts DEF Begins, Inserts, Early
<1>7. ~Inserts(r) => /\ sub[t] # NoSub /\ r.method # "createSubscription"
                     /\ ~Announces(r) /\ ~Promises(r)
  BY DEF Begins, Inserts, Early, Promises
<1>8. Inserts(r) => r.method = "createSubscription" /\ ~Announces(r) /\ ~Promises(r)
  BY <1>1, KindFacts, Distinct DEF Inserts, Announces, Promises
<1> HIDE DEF t
<1>9. FreshInv'
  <2>1. ASSUME NEW p \in Request, NEW s \in Subscription, About(p, s)', Inserts(req'[p])
        PROVE  sub'[s] = NoSub /\ \A o \in Request : About(o, s)' => o = p
    <3>1. CASE p = q
      BY <1>1, <1>2, <1>5, <1>6, <2>1, <3>1
    <3>2. CASE p # q
      <4>1. sub[s] = NoSub /\ \A o \in Request : About(o, s) => o = p
        BY <1>2, <1>5, <2>1, <3>2 DEF SubInv, FreshInv
      <4>2. s # t
        BY <1>5, <1>6, <1>7, <2>1, <3>2, <4>1
      <4>3. QED
        BY <1>1, <1>5, <4>1, <4>2
    <3>3. QED
      BY <3>1, <3>2
  <2>2. QED
    BY <2>1 DEF FreshInv
<1>10. RowInv'
  <2>1. ASSUME NEW p \in Request, NEW s \in Subscription, About(p, s)', ~Inserts(req'[p])
        PROVE  sub'[s] # NoSub /\ (Promises(req'[p]) => req'[p].wrote)
    <3>1. CASE p = q
      BY <1>1, <1>2, <1>5, <1>7, <2>1, <3>1
    <3>2. CASE p # q
      BY <1>1, <1>2, <1>5, <2>1, <3>2 DEF SubInv, RowInv
    <3>3. QED
      BY <3>1, <3>2
  <2>2. QED
    BY <2>1 DEF RowInv
<1>11. DateInv'
  <2>1. ASSUME NEW s \in Subscription \ redated', NEW p \in Request, About(p, s)'
        PROVE  /\ Announces(req'[p]) => req'[p].own.copy.next = sub'[s].next
               /\ req'[p].method # "createSubscription" => req'[p].own.read.next = sub'[s].next
    <3>1. CASE p = q
      <4>1. r.own.read = sub[s] /\ ~Announces(r)
        BY <1>5, <1>7, <1>8, <2>1, <3>1 DEF Begins, t
      <4>2. QED
        BY <1>1, <1>2, <3>1, <4>1
    <3>2. CASE p # q
      BY <1>1, <1>2, <1>5, <2>1, <3>2 DEF SubInv, DateInv
    <3>3. QED
      BY <3>1, <3>2
  <2>2. QED
    BY <1>1, <2>1 DEF SubInv, DateInv
<1>12. PromiseInv'
  <2>1. \A s \in Subscription : Promised(s) => Promised(s)'
    <3>1. ASSUME NEW s \in Subscription, NEW p \in Request, About(p, s), Promises(req[p])
          PROVE  Promised(s)'
      BY <1>2, <1>5, <3>1 DEF Promised
    <3>2. QED
      BY <3>1 DEF Promised
  <2>2. QED
    BY <1>1, <2>1, PromiseKept DEF SubInv, Concerned, Announced
<1>13. ~Inserts(r) => ~Early(r)
  BY DEF Begins
<1>14. Uncounted' = {p \in Request : Early(req'[p])} /\ Uncounted = {p \in Request : Early(req[p])}
  BY <1>1, <1>3, UncountedFacts
<1>15. /\ Inserts(r) => Early(r)
       /\ ~Early(req[q])
  BY <1>1, NoRequestFacts, Distinct DEF Inserts, Early, Todos
<1>16. QED
  BY <1>2, <1>3, <1>4, <1>9, <1>10, <1>11, <1>12, <1>13, <1>14, <1>15 DEF SubInv, TypeInv

LEMMA BeginsOnSub ==
    ASSUME TypeInv, NEW q \in Request, NEW s \in Subscription, NEW m, NEW todos, NEW calls \in todos,
           NEW copy \in SubRow, BeginOnSub(q, m, calls, s, copy),
           Work(m, todos) \subseteq SubReqs,
           \/ calls = IIA /\ sub[s] = NoSub /\ ~AboutSub(s)
           \/ calls \notin {IIA, IA, A, CA} /\ m # "createSubscription" /\ sub[s] # NoSub
    PROVE  \E r : Begins(q, r) /\ (Inserts(r) <=> calls = IIA)
<1> DEFINE r == [method |-> m, todo |-> calls, wrote |-> FALSE,
                 own |-> [target |-> s, read |-> sub[s], copy |-> copy]]
<1>1. sub[s] \in SubRow \union {NoSub}
  BY DEF TypeInv, TablesTyped
<1>2. r \in SubReqs
  <2>1. r \in Work(m, todos)
    BY <1>1 DEF Work, Own
  <2>2. QED
    BY <2>1
<1>3. /\ r.todo = calls /\ r.method = m /\ r.own.target = s /\ r.own.read = sub[s]
  OBVIOUS
<1>4. Idle(q) /\ req' = [req EXCEPT ![q] = r] /\ cut' = cut
      /\ UNCHANGED <<sub, alert, subscriptionsUsed, day, redated, subSlips>>
  BY DEF BeginOnSub, Begin, subTables
<1> HIDE DEF r
<1>5. Begins(q, r) /\ (Inserts(r) <=> calls = IIA)
  BY <1>2, <1>3, <1>4 DEF Begins, Inserts, Early, Announces
<1>6. QED
  BY <1>5

LEMMA WorkFacts ==
    /\ Work("createSubscription", {IIA, IA, A}) \subseteq SubReqs
    /\ Work("editSubscription", {U}) \subseteq SubReqs
    /\ Work("rebillSubscription", {UCA, CA, A}) \subseteq SubReqs
    /\ Work("archiveSubscription", {UC, C}) \subseteq SubReqs
    /\ Work("deleteSubscription", {SCD, CD, D}) \subseteq SubReqs
  BY DEF SubReqs

LEMMA CreatesSub ==
    ASSUME SubInv, NEW q \in Request, CreateSubscription(q)
    PROVE  /\ SubInv' /\ Uncounted' = Uncounted \union {q} /\ q \notin Uncounted
           /\ UNCHANGED subscriptionsUsed
<1>1. PICK s \in Subscription, cycle \in Cycle :
        \E next \in BillingDate \union {CalculateNextBillingAt(cycle, day)} :
          /\ sub[s].status = "absent" /\ ~AboutSub(s)
          /\ BeginOnSub(q, "createSubscription", CreateCalls, s,
                        [status |-> "active", next |-> next])
  BY Zenon DEF CreateSubscription
<1>2. PICK next \in BillingDate \union {CalculateNextBillingAt(cycle, day)} :
          /\ sub[s].status = "absent" /\ ~AboutSub(s)
          /\ BeginOnSub(q, "createSubscription", IIA, s, [status |-> "active", next |-> next])
  BY <1>1, Zenon DEF CreateCalls, IIA
<1>3. next \in Date
  <2>1. day \in 0 .. LastDay
    BY DEF SubInv, TypeInv, TablesTyped
  <2>2. QED
    BY <2>1 DEF Date
<1>4. [status |-> "active", next |-> next] \in SubRow
  BY <1>3 DEF SubRow
<1>5. TypeInv /\ sub[s] = NoSub
  BY <1>2, RowFacts DEF SubInv
<1>6. PICK r : Begins(q, r) /\ Inserts(r)
  BY <1>2, <1>4, <1>5, WorkFacts, BeginsOnSub
<1>7. subCrowd' \in Nat
  <2>1. subCrowd \in Nat
    BY <1>5 DEF TypeInv, TablesTyped
  <2>2. IsFiniteSet(Uncounted)
    BY RequestsAssumption, FS_Subset DEF Uncounted, CreatingSub, Doing
  <2>3. Cardinality(Uncounted) \in Nat
    BY <2>2, FS_CardinalityType
  <2>4. QED
    BY <2>1, <2>3 DEF CreateSubscription
<1>8. QED
  BY <1>6, <1>7, BeginKept DEF Begins

LEMMA ReadsSub ==
    ASSUME SubInv, NEW q \in Request,
           EditSubscription(q) \/ RebillSubscription(q) \/ ArchiveSubscription(q) \/ DeleteSubscription(q)
    PROVE  SubInv' /\ Uncounted' = Uncounted /\ UNCHANGED <<subscriptionsUsed, subCrowd>>
<1>1. TypeInv /\ UNCHANGED subCrowd /\ subCrowd \in Nat
  BY DEF SubInv, TypeInv, TablesTyped, EditSubscription, RebillSubscription,
         ArchiveSubscription, DeleteSubscription
<1>2. ASSUME NEW s \in Subscription, SubFound(s)
      PROVE  sub[s] # NoSub /\ sub[s] \in SubRow
             /\ [sub[s] EXCEPT !.status = "archived"] \in SubRow
             /\ \A next \in BillingDate : [sub[s] EXCEPT !.next = next] \in SubRow
  <2>1. sub[s] # NoSub /\ sub[s] \in SubRow
    BY <1>1, <1>2, RowFacts DEF TypeInv, TablesTyped, SubFound
  <2>2. BillingDate \subseteq Date
    BY DEF Date
  <2>3. PICK row \in SubRow : row = sub[s]
    BY <2>1
  <2>4. [row EXCEPT !.status = "archived"] \in SubRow
        /\ \A next \in BillingDate : [row EXCEPT !.next = next] \in SubRow
    BY <2>2 DEF SubRow
  <2>5. QED
    BY <2>1, <2>3, <2>4
<1>3. U # IIA /\ U # IA /\ U # A /\ U # CA /\ UCA # IIA /\ UCA # IA /\ UCA # A /\ UCA # CA
      /\ UC # IIA /\ UC # IA /\ UC # A /\ UC # CA /\ SCD # IIA /\ SCD # IA /\ SCD # A /\ SCD # CA
  BY TodoFacts
<1>4. ASSUME EditSubscription(q)
      PROVE  \E r : Begins(q, r) /\ ~Inserts(r)
  <2>1. PICK s \in Subscription : SubFound(s) /\ BeginOnSub(q, "editSubscription", U, s, sub[s])
    BY <1>4, Zenon DEF EditSubscription, U
  <2>2. QED
    BY <1>1, <1>2, <1>3, <2>1, WorkFacts, BeginsOnSub
<1>5. ASSUME RebillSubscription(q)
      PROVE  \E r : Begins(q, r) /\ ~Inserts(r)
  <2>1. PICK s \in Subscription, next \in BillingDate :
          SubFound(s) /\ BeginOnSub(q, "rebillSubscription", UCA, s, [sub[s] EXCEPT !.next = next])
    BY <1>5, Zenon DEF RebillSubscription, UCA
  <2> DEFINE copy == [sub[s] EXCEPT !.next = next]
  <2>2. copy \in SubRow /\ BeginOnSub(q, "rebillSubscription", UCA, s, copy) /\ sub[s] # NoSub
    BY <1>2, <2>1, Zenon
  <2> HIDE DEF copy
  <2>3. QED
    BY <1>1, <1>3, <2>2, WorkFacts, BeginsOnSub
<1>6. ASSUME ArchiveSubscription(q)
      PROVE  \E r : Begins(q, r) /\ ~Inserts(r)
  <2>1. PICK s \in Subscription :
          SubFound(s) /\ BeginOnSub(q, "archiveSubscription", UC, s, [sub[s] EXCEPT !.status = "archived"])
    BY <1>6, Zenon DEF ArchiveSubscription, UC
  <2> DEFINE copy == [sub[s] EXCEPT !.status = "archived"]
  <2>2. copy \in SubRow /\ BeginOnSub(q, "archiveSubscription", UC, s, copy) /\ sub[s] # NoSub
    BY <1>2, <2>1, Zenon
  <2> HIDE DEF copy
  <2>3. QED
    BY <1>1, <1>3, <2>2, WorkFacts, BeginsOnSub
<1>7. ASSUME DeleteSubscription(q)
      PROVE  \E r : Begins(q, r) /\ ~Inserts(r)
  <2>1. PICK s \in Subscription : SubFound(s) /\ BeginOnSub(q, "deleteSubscription", SCD, s, sub[s])
    BY <1>7, Zenon DEF DeleteSubscription, SCD
  <2>2. QED
    BY <1>1, <1>2, <1>3, <2>1, WorkFacts, BeginsOnSub
<1>8. PICK r : Begins(q, r) /\ ~Inserts(r)
  BY <1>4, <1>5, <1>6, <1>7
<1>9. QED
  BY <1>1, <1>8, BeginKept DEF Begins

-----------------------------------------------------------------------------
(* Calls                                                                   *)

\* What holds whenever request q makes a call.
LEMMA CallBasics ==
    ASSUME SubInv, NEW q \in Request, ~Idle(q), Continue(q)
    PROVE  /\ ReqsTyped /\ ReqsTyped' /\ cut' = cut /\ \A p \in Request : Later(p)
           /\ req[q] \in SubReqs /\ req[q].todo \in Todos
           /\ \A p \in Request : p # q => req'[p] = req[p]
           /\ req'[q] = NoRequest <=> req[q].todo \in {A, U, C, D}
           /\ req'[q] \in SubReqs => /\ req'[q].own = req[q].own
                                     /\ req'[q].method = req[q].method /\ req'[q].wrote
                                     /\ req'[q].todo = Tail(req[q].todo)
           /\ req[q].own.target \in Subscription /\ req[q].own.copy \in SubRow
           /\ About(q, req[q].own.target)
<1>1. ReqsTyped /\ req[q] \in SubReqs
  BY CallFacts DEF SubInv, TypeInv
<1>2. req[q].own.target \in Subscription /\ req[q].own.copy \in SubRow /\ req[q].todo \in Todos
  BY <1>1, KindFacts DEF Own
<1>3. req' = [req EXCEPT ![q] = Advanced(q, req[q].own)] /\ cut' = cut
  BY Zenon DEF Continue, GoOn
<1>4. QED
  BY <1>1, <1>2, <1>3, MoveFacts, Zenon DEF About

\* A call that changes neither a row nor an alert, and that announces nothing.
LEMMA RowsStay ==
    ASSUME SubInv, ReqsTyped', TablesTyped', \A p \in Request : Later(p),
           UNCHANGED <<sub, alert, redated>>, day' >= day,
           \A p \in Request : Inserts(req[p]) => req'[p] \in {NoRequest, req[p]},
           \A p \in Request : Announces(req'[p]) => Announces(req[p]),
           "announce" \in cut => "announce" \in cut',
           "announce" \in Watched \ cut' =>
             \A p \in Request : Promises(req[p]) /\ req'[p] = NoRequest => req[p] = NoRequest
    PROVE  SubInv'
<1>1. ReqsTyped
  BY DEF SubInv, TypeInv
<1>2. FreshInv'
  BY <1>1, FreshKept DEF SubInv
<1>3. RowInv'
  BY <1>1, RowKept DEF SubInv
<1>4. DateInv'
  <2>1. \A s \in Subscription \ redated' :
            alert'[s] = NoDay \/ (sub'[s] # NoSub /\ alert'[s] = sub'[s].next)
    BY DEF SubInv, DateInv
  <2>2. \A s \in Subscription \ redated' : sub'[s].next = sub[s].next
    OBVIOUS
  <2>3. QED
    BY <1>1, <2>1, <2>2, DateKept DEF SubInv
<1>5. PromiseInv'
  <2>1. ASSUME "announce" \in Watched \ cut', NEW s \in Subscription, Promised(s)
        PROVE  Promised(s)'
    BY <2>1, PromisedKept, NoRequestFacts DEF About
  <2>2. \A s \in Subscription : Concerned(s)' => Concerned(s) /\ (Announced(s) => Announced(s)')
    <3>1. ASSUME NEW s \in Subscription, Concerned(s)'
          PROVE  Concerned(s) /\ (Announced(s) => Announced(s)')
      <4>1. sub[s] \in SubRow /\ day \in Nat /\ day' \in Nat
        BY <3>1, SubscriptionsAssumption DEF SubInv, TypeInv, TablesTyped, Concerned
      <4>2. sub[s].next \in Nat
        BY <4>1, RowFacts, DateFacts
      <4>3. QED
        BY <3>1, <4>1, <4>2 DEF Concerned, Announced
    <3>2. QED
      BY <3>1
  <2>3. QED
    BY <2>1, <2>2, PromiseKept DEF SubInv
<1>6. QED
  BY <1>2, <1>3, <1>4, <1>5 DEF SubInv, TypeInv

LEMMA InsertsSub ==
    ASSUME SubInv, NEW q \in Request, InsertSub(q)
    PROVE  SubInv' /\ Uncounted' = Uncounted /\ UNCHANGED <<subscriptionsUsed, subCrowd>>
<1>0. PICK s \in Subscription, row \in SubRow : s = req[q].own.target /\ row = req[q].own.copy
  BY CallBasics DEF InsertSub, Makes
<1>1. /\ ReqsTyped /\ ReqsTyped' /\ cut' = cut /\ \A p \in Request : Later(p)
      /\ req[q] \in SubReqs /\ About(q, s)
      /\ \A p \in Request : p # q => req'[p] = req[p]
  BY <1>0, CallBasics DEF InsertSub, Makes
<1>2. req[q].todo = IIA
  BY <1>1, CallFacts DEF InsertSub
<1>3. /\ req'[q] \in SubReqs /\ req'[q].own = req[q].own
      /\ req'[q].method = "createSubscription" /\ req'[q].todo = IA
  <2>1. req'[q] # NoRequest
    BY <1>2, CallBasics, TodoFacts DEF InsertSub, Makes
  <2>2. req'[q] \in SubReqs
    BY <1>1, <2>1 DEF ReqsTyped
  <2>3. req[q].method = "createSubscription"
    BY <1>1, <1>2, KindFacts DEF Inserts
  <2>4. QED
    BY <1>2, <2>2, <2>3, CallBasics, TodoFacts DEF InsertSub, Makes
<1>4. /\ UNCHANGED <<alert, subscriptionsUsed, day, redated, subCrowd, subSlips>>
      /\ sub' = [sub EXCEPT ![s] = row]
  BY <1>0 DEF InsertSub, subGhosts
<1>5. TablesTyped /\ sub \in [Subscription -> SubRow \union {NoSub}]
  BY DEF SubInv, TypeInv, TablesTyped
<1>6. /\ sub' \in [Subscription -> SubRow \union {NoSub}] /\ sub'[s] = row /\ row # NoSub
      /\ \A t \in Subscription : t # s => sub'[t] = sub[t]
  BY <1>1, <1>4, <1>5, RowFacts
<1>7. TablesTyped'
  BY <1>4, <1>5, <1>6 DEF TablesTyped
<1>8. sub[s] = NoSub /\ \A p \in Request : About(p, s) => p = q
  BY <1>1, <1>2 DEF SubInv, FreshInv, Inserts
<1>9. \A p \in Request : About(p, s)' => p = q
  BY <1>1, <1>8, LaterFacts
<1>10. FreshInv'
  <2>1. \A p \in Request : \A t \in Subscription :
            About(p, t) /\ Inserts(req[p]) /\ req'[p] = req[p] => sub'[t] = sub[t]
    <3>1. ~(Inserts(req[q]) /\ req'[q] = req[q])
      BY <1>2, <1>3, Distinct DEF Inserts
    <3>2. QED
      BY <1>6, <1>8, <3>1
  <2>2. QED
    BY <1>1, <2>1, FreshKept DEF SubInv
<1>11. RowInv'
  <2>1. \A p \in Request : \A t \in Subscription :
            About(p, t) /\ Inserts(req[p]) /\ req'[p] \notin {NoRequest, req[p]} => sub'[t] # NoSub
    <3>1. \A p \in Request : req'[p] \notin {NoRequest, req[p]} => p = q
      BY <1>1
    <3>2. \A t \in Subscription : About(q, t) => t = s
      BY <1>0 DEF About
    <3>3. QED
      BY <1>6, <3>1, <3>2
  <2>2. \A t \in Subscription : sub[t] # NoSub => sub'[t] # NoSub
    BY <1>6
  <2>3. QED
    BY <1>1, <2>1, <2>2, RowKept DEF SubInv
<1>12. DateInv'
  <2>1. \A t \in Subscription \ redated' :
            alert'[t] = NoDay \/ (sub'[t] # NoSub /\ alert'[t] = sub'[t].next)
    BY <1>4, <1>6, <1>8 DEF SubInv, DateInv
  <2>2. \A t \in Subscription \ redated' :
            sub'[t].next = sub[t].next
            \/ \A p \in Request : About(p, t) => req[p].method = "createSubscription"
                                                 /\ ~Announces(req[p])
    <3>1. req[q].method = "createSubscription" /\ ~Announces(req[q])
      BY <1>1, <1>2, KindFacts, Distinct DEF Inserts, Announces
    <3>2. QED
      BY <1>6, <1>8, <3>1
  <2>3. \A p \in Request : \A t \in Subscription \ redated' :
            About(p, t)' /\ Announces(req'[p]) /\ ~Announces(req[p])
            => req[p].own.copy.next = sub'[t].next
    <3>1. \A t \in Subscription : About(q, t)' => t = s
      BY <1>0, <1>3 DEF About
    <3>2. QED
      BY <1>0, <1>1, <1>6, <3>1
  <2>4. QED
    BY <1>1, <1>4, <2>1, <2>2, <2>3, DateKept DEF SubInv
<1>13. PromiseInv'
  <2>1. Promised(s)'
    BY <1>0, <1>3 DEF Promised, About, Promises
  <2>2. ASSUME NEW t \in Subscription, Promised(t)
        PROVE  Promised(t)'
    <3>1. \A p \in Request : About(p, t) /\ Promises(req[p]) => req'[p] # NoRequest
      <4>1. ~Promises(req[q])
        BY <1>2, Distinct DEF Promises
      <4>2. QED
        BY <1>1, <4>1, NoRequestFacts DEF About
    <3>2. QED
      BY <1>1, <2>2, <3>1, PromisedKept
  <2>3. \A t \in Subscription : t # s =>
            /\ Concerned(t)' => Concerned(t)
            /\ Announced(t) => Announced(t)'
    BY <1>4, <1>6 DEF Concerned, Announced
  <2>4. QED
    BY <1>1, <2>1, <2>2, <2>3, PromiseKept DEF SubInv
<1>14. Uncounted' = Uncounted
  <2>1. Early(req[q]) /\ Early(req'[q])
    BY <1>2, <1>3 DEF Early
  <2>2. \A p \in Request : Early(req'[p]) <=> Early(req[p])
    BY <1>1, <2>1
  <2>3. QED
    BY <1>1, <2>2, UncountedFacts
<1>15. QED
  BY <1>1, <1>4, <1>7, <1>10, <1>11, <1>12, <1>13, <1>14 DEF SubInv, TypeInv

\* A call that changes no row and no alert.
LEMMA QuietCall ==
    ASSUME SubInv, NEW q \in Request, ~Idle(q), Continue(q), TablesTyped',
           req[q].todo \in {IA, CA, C, CD, D}, UNCHANGED <<sub, alert, day, redated>>
    PROVE  SubInv' /\ Uncounted' = Uncounted \ {q}
<1>1. /\ ReqsTyped /\ ReqsTyped' /\ cut' = cut /\ \A p \in Request : Later(p)
      /\ req[q] \in SubReqs /\ \A p \in Request : p # q => req'[p] = req[p]
      /\ req'[q] = NoRequest <=> req[q].todo \in {A, U, C, D}
      /\ req'[q] \in SubReqs => req'[q].todo = Tail(req[q].todo)
  BY CallBasics
<1>2. req'[q] = NoRequest \/ (req'[q] \in SubReqs /\ req'[q].todo = Tail(req[q].todo))
  BY <1>1 DEF ReqsTyped
<1>3. /\ req'[q].todo \in {<<>>, A, D}
      /\ req'[q].todo = A => req[q].todo \in {IA, CA}
      /\ req'[q] = NoRequest => req[q].todo \in {C, D}
  <2>1. CASE req'[q] = NoRequest
    <3>1. A \notin {IA, CA, C, CD, D} /\ U \notin {IA, CA, C, CD, D} /\ A # <<>>
      BY TodoFacts, Distinct DEF Todos
    <3>2. QED
      BY <1>1, <2>1, <3>1, NoRequestFacts
  <2>2. CASE req'[q] # NoRequest
    <3>1. req[q].todo \notin {C, D} /\ req'[q].todo = Tail(req[q].todo)
      BY <1>1, <1>2, <2>2
    <3>2. A # D
      BY TodoFacts
    <3>3. QED
      BY <2>2, <3>1, <3>2, TodoFacts
  <2>3. QED
    BY <2>1, <2>2
<1>4. /\ ~Inserts(req[q]) /\ ~Early(req'[q])
      /\ Announces(req'[q]) => Announces(req[q])
      /\ Promises(req[q]) => req'[q] # NoRequest
  <2>1. IIA \notin {IA, CA, C, CD, D} /\ {IIA, IA} \intersect {<<>>, A, D} = {}
        /\ {IA, CA, A} \intersect {<<>>, D} = {} /\ {IA, A} \intersect {C, D} = {}
    BY TodoFacts, Distinct DEF Todos
  <2>2. QED
    BY <1>3, <2>1 DEF Inserts, Early, Announces, Promises
<1>5. SubInv'
  <2>1. \A p \in Request : Inserts(req[p]) => req'[p] \in {NoRequest, req[p]}
    BY <1>1, <1>4
  <2>2. \A p \in Request : Announces(req'[p]) => Announces(req[p])
    BY <1>1, <1>4
  <2>3. \A p \in Request : Promises(req[p]) /\ req'[p] = NoRequest => req[p] = NoRequest
    BY <1>1, <1>4
  <2>4. day' >= day
    BY SubscriptionsAssumption DEF SubInv, TypeInv, TablesTyped
  <2>5. QED
    BY <1>1, <2>1, <2>2, <2>3, <2>4, RowsStay
<1>6. Uncounted' = Uncounted \ {q}
  BY <1>1, <1>4, UncountedFacts
<1>7. QED
  BY <1>5, <1>6

LEMMA IncrementsSubs ==
    ASSUME SubInv, NEW q \in Request, IncrementSubs(q)
    PROVE  /\ SubInv' /\ q \in Uncounted /\ Uncounted' = Uncounted \ {q}
           /\ subscriptionsUsed' = subscriptionsUsed + 1 /\ subCrowd' = subCrowd
<1>1. /\ ~Idle(q) /\ Continue(q) /\ Makes(q, "countSub")
      /\ UNCHANGED <<sub, alert, day, redated, subCrowd, subSlips>>
      /\ subscriptionsUsed' = subscriptionsUsed + 1
  BY DEF IncrementSubs, Makes, subGhosts
<1>2. req[q].todo = IA /\ q \in Uncounted
  BY <1>1, CallFacts DEF SubInv, TypeInv, Early
<1>3. TablesTyped'
  BY <1>1 DEF SubInv, TypeInv, TablesTyped
<1>4. QED
  BY <1>1, <1>2, <1>3, QuietCall

LEMMA CancelsBilling ==
    ASSUME SubInv, NEW q \in Request, CancelBilling(q)
    PROVE  SubInv' /\ Uncounted' = Uncounted /\ UNCHANGED <<subscriptionsUsed, subCrowd>>
<1>1. /\ ~Idle(q) /\ Continue(q) /\ Makes(q, "cancel")
      /\ UNCHANGED <<sub, subscriptionsUsed, day, redated, subCrowd, subSlips>>
  BY DEF CancelBilling, Makes, subGhosts
<1>2. alert' = alert
  <2>1. FoundAlerts(NoUser) = {}
    BY SubscriptionsAssumption DEF FoundAlerts
  <2>2. alert' = [s \in Subscription |-> alert[s]]
    BY <2>1 DEF CancelBilling
  <2>3. QED
    BY <2>2 DEF SubInv, TypeInv, TablesTyped
<1>3. req[q].todo \in {CA, C, CD} /\ q \notin Uncounted
  <2>1. req[q].todo \in {CA, C, CD} /\ (q \in Uncounted <=> Early(req[q]))
    BY <1>1, CallFacts DEF SubInv, TypeInv
  <2>2. {CA, C, CD} \intersect {IIA, IA} = {}
    BY TodoFacts
  <2>3. QED
    BY <2>1, <2>2 DEF Early
<1>4. TablesTyped'
  BY <1>1, <1>2 DEF SubInv, TypeInv, TablesTyped
<1>5. SubInv' /\ Uncounted' = Uncounted \ {q}
  BY <1>1, <1>2, <1>3, <1>4, QuietCall
<1>6. QED
  BY <1>1, <1>3, <1>5

LEMMA DecrementsSubs ==
    ASSUME SubInv, NEW q \in Request, DecrementSubs(q)
    PROVE  /\ SubInv' /\ Uncounted' = Uncounted /\ subCrowd' = subCrowd
           /\ subscriptionsUsed' = Decremented(subscriptionsUsed)
<1>1. /\ ~Idle(q) /\ Continue(q) /\ Makes(q, "uncountSub")
      /\ UNCHANGED <<sub, alert, day, redated, subCrowd, subSlips>>
      /\ subscriptionsUsed' = Decremented(subscriptionsUsed)
  BY DEF DecrementSubs, Makes, subGhosts
<1>2. req[q].todo = D /\ q \notin Uncounted
  <2>1. req[q].todo = D /\ (q \in Uncounted <=> Early(req[q]))
    BY <1>1, CallFacts DEF SubInv, TypeInv
  <2>2. D \notin {IIA, IA}
    BY TodoFacts
  <2>3. QED
    BY <2>1, <2>2 DEF Early
<1>3. TablesTyped'
  BY <1>1 DEF SubInv, TypeInv, TablesTyped, Decremented
<1>4. SubInv' /\ Uncounted' = Uncounted \ {q}
  BY <1>1, <1>2, <1>3, QuietCall
<1>5. QED
  BY <1>1, <1>2, <1>4

\* The announcement is the last call, and announces what was promised.
LEMMA AnnouncesBilling ==
    ASSUME SubInv, NEW q \in Request, AnnounceBilling(q)
    PROVE  SubInv' /\ Uncounted' = Uncounted /\ UNCHANGED <<subscriptionsUsed, subCrowd>>
<1>0. PICK s \in Subscription, row \in SubRow : s = req[q].own.target /\ row = req[q].own.copy
  BY CallBasics DEF AnnounceBilling, Makes
<1>1. /\ ReqsTyped /\ ReqsTyped' /\ cut' = cut /\ \A p \in Request : Later(p)
      /\ req[q] \in SubReqs /\ About(q, s)
      /\ \A p \in Request : p # q => req'[p] = req[p]
      /\ req'[q] = NoRequest <=> req[q].todo \in {A, U, C, D}
  BY <1>0, CallBasics DEF AnnounceBilling, Makes
<1>2. req[q].todo = A /\ req'[q] = NoRequest
  BY <1>1, CallFacts DEF AnnounceBilling
<1>3. /\ UNCHANGED <<sub, subscriptionsUsed, day, redated, subCrowd, subSlips>>
      /\ alert' = IF row.next > day /\ alert[s] = NoDay THEN [alert EXCEPT ![s] = row.next] ELSE alert
  BY <1>0 DEF AnnounceBilling, Ahead, subGhosts
<1>4. row.next \in Date /\ alert \in [Subscription -> Date \union {NoDay}]
  BY RowFacts DEF SubInv, TypeInv, TablesTyped
<1>5. /\ alert' \in [Subscription -> Date \union {NoDay}]
      /\ \A t \in Subscription : t # s => alert'[t] = alert[t]
      /\ alert'[s] = IF row.next > day /\ alert[s] = NoDay THEN row.next ELSE alert[s]
  BY <1>3, <1>4
<1>6. TablesTyped'
  BY <1>3, <1>5 DEF SubInv, TypeInv, TablesTyped
<1>7. ~Inserts(req[q]) /\ ~Early(req[q]) /\ Announces(req[q])
  BY <1>2, Distinct DEF Inserts, Early, Announces
<1>8. sub[s] # NoSub /\ (s \notin redated => row.next = sub[s].next)
  BY <1>0, <1>1, <1>7 DEF SubInv, RowInv, DateInv
<1>9. ~Announces(NoRequest) /\ ~Early(NoRequest)
  BY NoRequestFacts, Distinct DEF Announces, Early, Todos
<1>10. FreshInv'
  BY <1>1, <1>3, FreshKept DEF SubInv
<1>11. RowInv'
  <2>1. \A p \in Request : req'[p] \in {NoRequest, req[p]}
    BY <1>1, <1>2
  <2>2. QED
    BY <1>1, <1>3, <2>1, RowKept DEF SubInv
<1>12. DateInv'
  <2>1. \A t \in Subscription \ redated' :
            alert'[t] = NoDay \/ (sub'[t] # NoSub /\ alert'[t] = sub'[t].next)
    BY <1>3, <1>5, <1>8 DEF SubInv, DateInv
  <2>2. \A p \in Request : Announces(req'[p]) => Announces(req[p])
    BY <1>1, <1>2, <1>9
  <2>3. QED
    BY <1>1, <1>3, <2>1, <2>2, DateKept DEF SubInv
<1>13. PromiseInv'
  <2>1. Concerned(s)' => Announced(s)'
    BY <1>3, <1>5, <1>8 DEF SubInv, DateInv, Concerned, Announced
  <2>2. ASSUME NEW t \in Subscription, t # s, Promised(t)
        PROVE  Promised(t)'
    <3>1. \A p \in Request : About(p, t) => p # q
      BY <1>0, <2>2 DEF About
    <3>2. \A p \in Request : About(p, t) /\ Promises(req[p]) => req'[p] # NoRequest
      BY <1>1, <3>1, NoRequestFacts DEF About
    <3>3. QED
      BY <1>1, <2>2, <3>2, PromisedKept
  <2>3. \A t \in Subscription : t # s =>
            /\ Concerned(t)' => Concerned(t)
            /\ Announced(t) => Announced(t)'
    BY <1>3, <1>5 DEF Concerned, Announced
  <2>4. QED
    BY <1>1, <2>1, <2>2, <2>3, PromiseKept DEF SubInv
<1>14. Uncounted' = Uncounted
  <2>1. \A p \in Request : Early(req'[p]) <=> Early(req[p])
    BY <1>1, <1>2, <1>7, <1>9
  <2>2. QED
    BY <1>1, <2>1, UncountedFacts
<1>15. QED
  BY <1>1, <1>3, <1>6, <1>10, <1>11, <1>12, <1>13, <1>14 DEF SubInv, TypeInv

\* A row that is there is overwritten; its date changes for a redated one only.
LEMMA RowWritten ==
    ASSUME SubInv, NEW q \in Request, ~Idle(q), Continue(q), TablesTyped',
           req[q].todo \in {U, UCA, UC, SCD},
           NEW s \in Subscription, s = req[q].own.target, NEW row \in SubRow,
           sub' = [sub EXCEPT ![s] = row], UNCHANGED <<alert, day>>,
           redated \subseteq redated',
           s \notin redated' => row.next = sub[s].next
                                /\ (req[q].todo = UCA => req[q].own.copy.next = row.next)
    PROVE  SubInv' /\ Uncounted' = Uncounted
<1>1. /\ ReqsTyped /\ ReqsTyped' /\ cut' = cut /\ \A p \in Request : Later(p)
      /\ req[q] \in SubReqs /\ About(q, s)
      /\ \A p \in Request : p # q => req'[p] = req[p]
      /\ req'[q] \in SubReqs => /\ req'[q].own = req[q].own
                                /\ req'[q].todo = Tail(req[q].todo)
  BY CallBasics
<1>2. /\ ~Inserts(req[q]) /\ ~Early(req[q]) /\ ~Promises(req[q])
      /\ ~Early(req'[q]) /\ (Announces(req'[q]) => req[q].todo = UCA /\ req'[q] \in SubReqs)
  <2>1. {U, UCA, UC, SCD} \intersect {IIA, IA, A} = {}
    BY TodoFacts
  <2>2. ~Announces(NoRequest) /\ ~Early(NoRequest)
    BY NoRequestFacts, Distinct DEF Announces, Early, Todos
  <2>3. ASSUME req'[q] \in SubReqs
        PROVE  ~Early(req'[q]) /\ (Announces(req'[q]) => req[q].todo = UCA)
    <3>1. req'[q].todo = Tail(req[q].todo)
      BY <1>1, <2>3
    <3>2. req[q].todo # U
      <4>1. req'[q] # NoRequest
        BY <2>3, NoRequestFacts
      <4>2. QED
        BY <4>1, CallBasics
    <3>3. {CA, C, CD} \intersect {IIA, IA} = {} /\ {C, CD} \intersect {IA, CA, A} = {}
      BY TodoFacts
    <3>4. QED
      BY <3>1, <3>2, <3>3, TodoFacts DEF Early, Announces
  <2>4. QED
    BY <1>1, <2>1, <2>2, <2>3 DEF Inserts, Early, Promises, ReqsTyped
<1>3. sub[s] # NoSub /\ sub \in [Subscription -> SubRow \union {NoSub}]
  BY <1>1, <1>2 DEF SubInv, RowInv, TypeInv, TablesTyped
<1>4. /\ sub'[s] = row /\ row # NoSub
      /\ \A t \in Subscription : t # s => sub'[t] = sub[t]
  BY <1>3, RowFacts
<1>5. FreshInv'
  <2>1. \A p \in Request : About(p, s) => ~Inserts(req[p])
    BY <1>3 DEF SubInv, FreshInv
  <2>2. \A p \in Request : \A t \in Subscription :
            About(p, t) /\ Inserts(req[p]) /\ req'[p] = req[p] => sub'[t] = sub[t]
    BY <1>4, <2>1
  <2>3. QED
    BY <1>1, <2>2, FreshKept DEF SubInv
<1>6. RowInv'
  <2>1. \A p \in Request : Inserts(req[p]) => req'[p] = req[p]
    BY <1>1, <1>2
  <2>2. \A t \in Subscription : sub[t] # NoSub => sub'[t] # NoSub
    BY <1>4
  <2>3. QED
    BY <1>1, <2>1, <2>2, RowKept DEF SubInv
<1>7. \A t \in Subscription \ redated' : sub'[t].next = sub[t].next
  BY <1>4
<1>8. DateInv'
  <2>1. \A t \in Subscription \ redated' :
            alert'[t] = NoDay \/ (sub'[t] # NoSub /\ alert'[t] = sub'[t].next)
    BY <1>4, <1>7 DEF SubInv, DateInv
  <2>2. \A p \in Request : \A t \in Subscription \ redated' :
            About(p, t)' /\ Announces(req'[p]) /\ ~Announces(req[p])
            => req[p].own.copy.next = sub'[t].next
    <3>1. \A t \in Subscription : About(q, t)' => t = s
      BY <1>1 DEF About
    <3>2. QED
      BY <1>1, <1>2, <1>4, <3>1
  <2>3. QED
    BY <1>1, <1>7, <2>1, <2>2, DateKept DEF SubInv
<1>9. PromiseInv'
  <2>1. ASSUME NEW t \in Subscription, Promised(t)
        PROVE  Promised(t)'
    <3>1. \A p \in Request : About(p, t) /\ Promises(req[p]) => req'[p] # NoRequest
      BY <1>1, <1>2, NoRequestFacts DEF About
    <3>2. QED
      BY <1>1, <2>1, <3>1, PromisedKept
  <2>2. \A t \in Subscription : Concerned(t)' =>
            Concerned(t) /\ (Announced(t) => Announced(t)')
    BY <1>3, <1>4, <1>7 DEF Concerned, Announced
  <2>3. QED
    BY <1>1, <2>1, <2>2, PromiseKept DEF SubInv
<1>10. Uncounted' = Uncounted
  <2>1. \A p \in Request : Early(req'[p]) <=> Early(req[p])
    BY <1>1, <1>2
  <2>2. QED
    BY <1>1, <2>1, UncountedFacts
<1>11. QED
  BY <1>1, <1>5, <1>6, <1>8, <1>9, <1>10 DEF SubInv, TypeInv

LEMMA UpdatesSub ==
    ASSUME SubInv, NEW q \in Request, UpdateSub(q)
    PROVE  SubInv' /\ Uncounted' = Uncounted /\ UNCHANGED <<subscriptionsUsed, subCrowd>>
<1>1. ~Idle(q) /\ Continue(q) /\ Makes(q, "updateSub")
  BY DEF UpdateSub, Makes
<1>2. PICK s \in Subscription, row \in SubRow :
        s = req[q].own.target /\ row = req[q].own.copy /\ About(q, s)
  BY <1>1, CallBasics
<1>3. req[q].todo \in {U, UCA, UC}
  BY <1>1, CallFacts DEF SubInv, TypeInv
<1>4. /\ sub' = [sub EXCEPT ![s] = row]
      /\ UNCHANGED <<alert, subscriptionsUsed, day, subCrowd>>
      /\ redated' = IF row.next = req[q].own.read.next THEN redated ELSE redated \union {s}
  BY <1>2 DEF UpdateSub
<1>5. TablesTyped'
  <2>1. subSlips' \in Nat
    BY DEF UpdateSub, NoteLateSub, SubInv, TypeInv, TablesTyped
  <2>2. QED
    BY <1>4, <2>1 DEF SubInv, TypeInv, TablesTyped
<1>6. req[q].method # "createSubscription"
  <2>1. {U, UCA, UC} \intersect {IIA, IA, A} = {}
    BY TodoFacts
  <2>2. req[q] \in SubReqs
    BY <1>1, CallBasics
  <2>3. QED
    BY <1>3, <2>1, <2>2, KindFacts
<1>7. redated \subseteq redated' /\ (s \notin redated' => row.next = sub[s].next)
  BY <1>2, <1>4, <1>6 DEF SubInv, DateInv
<1>8. SubInv' /\ Uncounted' = Uncounted
  BY <1>1, <1>2, <1>3, <1>4, <1>5, <1>7, RowWritten
<1>9. QED
  BY <1>4, <1>8

LEMMA SoftDeletesSub ==
    ASSUME SubInv, NEW q \in Request, SoftDeleteSub(q)
    PROVE  SubInv' /\ Uncounted' = Uncounted /\ UNCHANGED <<subscriptionsUsed, subCrowd>>
<1>1. ~Idle(q) /\ Continue(q) /\ Makes(q, "softDelete")
  BY DEF SoftDeleteSub, Makes
<1>2. PICK s \in Subscription : s = req[q].own.target /\ About(q, s)
  BY <1>1, CallBasics
<1>3. req[q].todo = SCD
  BY <1>1, CallFacts DEF SubInv, TypeInv
<1>4. SCD # IIA /\ SCD # UCA
  BY TodoFacts
<1>5. sub[s] \in SubRow
  BY <1>2, <1>3, <1>4 DEF SubInv, RowInv, TypeInv, TablesTyped, Inserts
<1>6. PICK old \in SubRow : old = sub[s]
  BY <1>5
<1> DEFINE row == [old EXCEPT !.status = "canceled"]
<1>7. row \in SubRow /\ row.next = sub[s].next
  BY <1>6 DEF SubRow
<1>8. sub' = [sub EXCEPT ![s] = row]
  BY <1>2, <1>6, Zenon DEF SoftDeleteSub
<1>9. /\ UNCHANGED <<alert, subscriptionsUsed, day, redated, subCrowd>>
  BY <1>2 DEF SoftDeleteSub
<1> HIDE DEF row
<1>10. TablesTyped'
  <2>1. subSlips' \in Nat
    BY DEF SoftDeleteSub, NoteLateSub, SubInv, TypeInv, TablesTyped
  <2>2. QED
    BY <1>7, <1>8, <1>9, <2>1 DEF SubInv, TypeInv, TablesTyped
<1>11. SubInv' /\ Uncounted' = Uncounted
  BY <1>1, <1>2, <1>3, <1>4, <1>7, <1>8, <1>9, <1>10, RowWritten
<1>12. QED
  BY <1>9, <1>11

-----------------------------------------------------------------------------
(* Days, failures and crashes                                              *)

LEMMA DayPasses ==
    ASSUME SubInv, Midnight
    PROVE  SubInv' /\ Uncounted' = Uncounted /\ UNCHANGED <<subscriptionsUsed, subCrowd>>
<1>1. /\ UNCHANGED <<req, cut, sub, alert, subscriptionsUsed, redated, subCrowd, subSlips>>
      /\ day < LastDay /\ day' = day + 1 /\ day \in 0 .. LastDay
  BY DEF Midnight, requestVars, subGhosts, SubInv, TypeInv, TablesTyped
<1>2. ReqsTyped' /\ (\A p \in Request : Later(p)) /\ Uncounted' = Uncounted
  BY <1>1 DEF SubInv, TypeInv, ReqsTyped, Later, Uncounted, CreatingSub, Doing, Makes, Idle
<1>3. day' \in 0 .. LastDay /\ day' >= day
  BY <1>1, SubscriptionsAssumption
<1>4. TablesTyped'
  BY <1>1, <1>3 DEF SubInv, TypeInv, TablesTyped
<1>5. SubInv'
  BY <1>1, <1>2, <1>3, <1>4, RowsStay
<1>6. QED
  BY <1>1, <1>2, <1>5

Ignored == {"countSub", "announce", "cancel", "uncountSub"}

\* A request that has promised an announcement still has it to make.
LEMMA OwesFacts ==
    ASSUME SubInv, "announce" \in Watched, NEW q \in Request, Promises(req[q]), req[q] \in SubReqs
    PROVE  "announce" \in Lost(q)
<1>1. req[q].wrote
  <2>1. req[q].own.target \in Subscription /\ ~Inserts(req[q])
    BY KindFacts, Distinct DEF Promises, Inserts
  <2>2. QED
    BY <2>1 DEF SubInv, RowInv, About
<1>2. \E i \in DOMAIN req[q].todo : req[q].todo[i] = "announce"
  <2>1. 2 \in DOMAIN IA /\ IA[2] = "announce" /\ 1 \in DOMAIN A /\ A[1] = "announce"
    BY DEF IA, A
  <2>2. QED
    BY <2>1 DEF Promises
<1>3. QED
  BY <1>1, <1>2 DEF Lost

LEMMA LostCounts ==
    ASSUME TablesTyped, NEW qs \in SUBSET Request, LoseCounts(qs)
    PROVE  /\ UNCHANGED <<sub, alert, subscriptionsUsed, day, redated, subCrowd>>
           /\ TablesTyped'
<1>1. UNCHANGED <<sub, alert, subscriptionsUsed, day, redated, subCrowd>>
  BY DEF LoseCounts, subTables
<1>2. IsFiniteSet({q \in qs : Makes(q, "countSub")})
  BY RequestsAssumption, FS_Subset
<1>3. Cardinality({q \in qs : Makes(q, "countSub")}) \in Nat
  BY <1>2, FS_CardinalityType
<1>4. subSlips' \in Nat
  BY <1>3 DEF LoseCounts, TablesTyped
<1>5. QED
  BY <1>1, <1>4 DEF TablesTyped

LEMMA RequestFails ==
    ASSUME SubInv, NEW q \in Request, CallFails(q, Ignored), LoseCounts({q})
    PROVE  SubInv' /\ Uncounted' \subseteq Uncounted
<1>1. /\ ReqsTyped /\ TablesTyped /\ req[q] \in SubReqs /\ req[q].todo \in Todos
      /\ UNCHANGED <<sub, alert, subscriptionsUsed, day, redated, subCrowd>>
  BY CallFacts, KindFacts, LostCounts DEF SubInv, TypeInv, CallFails
<1>2. TablesTyped' /\ day' >= day
  BY <1>1, LostCounts, SubscriptionsAssumption DEF TablesTyped
<1>3. CASE Head(req[q].todo) \in Ignored
  <2>1. /\ req' = [req EXCEPT ![q] = Advanced(q, req[q].own)]
        /\ cut' = cut \union ({Head(req[q].todo)} \intersect Watched)
    BY <1>3, Zenon DEF CallFails
  <2>2. /\ ReqsTyped' /\ \A p \in Request : Later(p)
        /\ \A p \in Request : p # q => req'[p] = req[p]
        /\ req'[q] = NoRequest <=> req[q].todo \in {A, U, C, D}
        /\ req'[q] \in SubReqs => req'[q].todo = Tail(req[q].todo)
    BY <1>1, <2>1, MoveFacts
  <2>3. req[q].todo \in {IA, A, CA, C, CD, D}
    BY <1>1, <1>3, Distinct DEF Ignored, Todos
  <2>4. req'[q].todo \in {<<>>, A, D} /\ (req'[q].todo = A => req[q].todo \in {IA, CA})
    <3>1. CASE req'[q] = NoRequest
      BY <3>1, NoRequestFacts, Distinct DEF Todos
    <3>2. CASE req'[q] # NoRequest
      <4>1. req'[q].todo = Tail(req[q].todo) /\ req[q].todo \notin {A, C, D}
        BY <2>2, <3>2 DEF ReqsTyped
      <4>2. A # D
        BY TodoFacts
      <4>3. QED
        BY <2>3, <4>1, <4>2, TodoFacts
    <3>3. QED
      BY <3>1, <3>2
  <2>5. /\ ~Inserts(req[q]) /\ ~Early(req'[q])
        /\ Announces(req'[q]) => Announces(req[q])
    <3>1. IIA \notin {IA, A, CA, C, CD, D} /\ {IIA, IA} \intersect {<<>>, A, D} = {}
          /\ {IA, CA, A} \intersect {<<>>, D} = {}
      BY TodoFacts, Distinct DEF Todos
    <3>2. QED
      BY <2>3, <2>4, <3>1 DEF Inserts, Early, Announces
  <2>6. "announce" \in Watched \ cut' /\ Promises(req[q]) => req'[q] # NoRequest
    <3>1. req[q].todo = A /\ "announce" \in Watched => "announce" \in cut'
      BY <2>1, TodoFacts
    <3>2. IA \notin {A, U, C, D}
      BY TodoFacts
    <3>3. QED
      BY <2>2, <3>1, <3>2 DEF Promises
  <2>7. SubInv'
    <3>1. \A p \in Request : Inserts(req[p]) => req'[p] \in {NoRequest, req[p]}
      BY <2>2, <2>5
    <3>2. \A p \in Request : Announces(req'[p]) => Announces(req[p])
      BY <2>2, <2>5
    <3>3. "announce" \in Watched \ cut' =>
            \A p \in Request : Promises(req[p]) /\ req'[p] = NoRequest => req[p] = NoRequest
      BY <2>2, <2>6
    <3>4. QED
      BY <1>1, <1>2, <2>1, <2>2, <3>1, <3>2, <3>3, RowsStay
  <2>8. Uncounted' \subseteq Uncounted
    BY <1>1, <2>2, <2>5, UncountedFacts
  <2>9. QED
    BY <2>7, <2>8
<1>4. CASE Head(req[q].todo) \notin Ignored
  <2>1. req' = [req EXCEPT ![q] = NoRequest] /\ cut' = cut \union Lost(q)
    BY <1>4, Zenon DEF CallFails
  <2>2. /\ ReqsTyped' /\ \A p \in Request : Later(p)
        /\ \A p \in Request : p # q => req'[p] = req[p]
        /\ req'[q] = NoRequest
    BY <1>1, <2>1, EndFacts
  <2>3. ~Announces(NoRequest) /\ ~Early(NoRequest)
    BY NoRequestFacts, Distinct DEF Announces, Early, Todos
  <2>4. ~Promises(req[q])
    BY <1>4, TodoFacts DEF Ignored, Promises
  <2>5. SubInv'
    <3>1. \A p \in Request : Inserts(req[p]) => req'[p] \in {NoRequest, req[p]}
      BY <2>2
    <3>2. \A p \in Request : Announces(req'[p]) => Announces(req[p])
      BY <2>2, <2>3
    <3>3. \A p \in Request : Promises(req[p]) /\ req'[p] = NoRequest => req[p] = NoRequest
      BY <2>2, <2>4
    <3>4. QED
      BY <1>1, <1>2, <2>1, <2>2, <3>1, <3>2, <3>3, RowsStay
  <2>6. Uncounted' \subseteq Uncounted
    BY <1>1, <2>2, <2>3, UncountedFacts
  <2>7. QED
    BY <2>5, <2>6
<1>5. QED
  BY <1>3, <1>4

LEMMA ProcessDies ==
    ASSUME SubInv, Crash, LoseCounts(Request)
    PROVE  SubInv' /\ Uncounted' \subseteq Uncounted
<1>1. /\ ReqsTyped /\ TablesTyped
      /\ UNCHANGED <<sub, alert, subscriptionsUsed, day, redated, subCrowd>>
      /\ req' = [p \in Request |-> NoRequest] /\ cut' = cut \union UNION {Lost(p) : p \in Request}
  BY LostCounts DEF SubInv, TypeInv, Crash
<1>2. TablesTyped' /\ day' >= day
  BY <1>1, LostCounts, SubscriptionsAssumption DEF TablesTyped
<1>3. ReqsTyped' /\ (\A p \in Request : req'[p] = NoRequest) /\ \A p \in Request : Later(p)
  BY <1>1 DEF ReqsTyped, Later
<1>4. ~Announces(NoRequest) /\ ~Early(NoRequest) /\ ~Promises(NoRequest)
  BY NoRequestFacts, Distinct DEF Announces, Early, Promises, Todos
<1>5. ASSUME NEW p \in Request, Promises(req[p]), "announce" \in Watched
      PROVE  "announce" \in cut'
  <2>1. req[p] \in SubReqs
    BY <1>1, <1>4, <1>5 DEF ReqsTyped
  <2>2. "announce" \in Lost(p)
    BY <1>5, <2>1, OwesFacts
  <2>3. QED
    BY <1>1, <2>2
<1>6. SubInv'
  <2>1. \A p \in Request : Announces(req'[p]) => Announces(req[p])
    BY <1>3, <1>4
  <2>2. "announce" \in Watched \ cut' => \A p \in Request : ~Promises(req[p])
    BY <1>5
  <2>3. QED
    BY <1>1, <1>2, <1>3, <2>1, <2>2, RowsStay
<1>7. Uncounted' \subseteq Uncounted
  BY <1>1, <1>3, <1>4, UncountedFacts
<1>8. QED
  BY <1>6, <1>7

-----------------------------------------------------------------------------
(* The behaviours                                                          *)

LEMMA SubscriptionsBegin ==
    ASSUME RequestsInit, SubscriptionsInit
    PROVE  SubInv /\ Uncounted = {} /\ subscriptionsUsed = 0 /\ subCrowd = 0
<1>1. \A q \in Request : req[q] = NoRequest
  BY DEF RequestsInit
<1>2. ReqsTyped
  BY DEF RequestsInit, ReqsTyped
<1>3. TablesTyped
  BY SubscriptionsAssumption DEF SubscriptionsInit, TablesTyped
<1>4. \A q \in Request : \A s : ~About(q, s)
  BY <1>1, NoRequestFacts DEF About
<1>5. FreshInv /\ RowInv /\ DateInv
  BY <1>4 DEF FreshInv, RowInv, DateInv, SubscriptionsInit
<1>6. PromiseInv
  BY DEF PromiseInv, Concerned, SubscriptionsInit
<1>7. Uncounted = {}
  BY <1>1, NoRequestFacts DEF Uncounted, CreatingSub, Doing
<1>8. QED
  BY <1>2, <1>3, <1>5, <1>6, <1>7 DEF SubInv, TypeInv, SubscriptionsInit

LEMMA SubscriptionsStutter ==
    ASSUME SubInv, UNCHANGED <<requestVars, subVars>>
    PROVE  SubInv' /\ Uncounted' = Uncounted /\ UNCHANGED <<subscriptionsUsed, subCrowd>>
<1>1. UNCHANGED <<req, cut, sub, alert, subscriptionsUsed, day, redated, subCrowd, subSlips>>
  BY DEF requestVars, subVars, subTables, subGhosts
<1>2. ReqsTyped' /\ (\A p \in Request : Later(p)) /\ Uncounted' = Uncounted
  BY <1>1 DEF SubInv, TypeInv, ReqsTyped, Later, Uncounted, CreatingSub, Doing, Makes, Idle
<1>3. TablesTyped' /\ day' >= day
  BY <1>1, SubscriptionsAssumption DEF SubInv, TypeInv, TablesTyped
<1>4. SubInv'
  BY <1>1, <1>2, <1>3, RowsStay
<1>5. QED
  BY <1>1, <1>2, <1>4

\* What a step does: it admits a request, counts one, lets some end uncounted,
\* takes one off the counter, or none of these.
Admits(q) == CreateSubscription(q)
Counts(q) == IncrementSubs(q)
Frees(q)  == DecrementSubs(q)
Keeps(q)  == \/ EditSubscription(q) \/ RebillSubscription(q) \/ ArchiveSubscription(q)
             \/ DeleteSubscription(q) \/ InsertSub(q) \/ AnnounceBilling(q) \/ UpdateSub(q)
             \/ CancelBilling(q) \/ SoftDeleteSub(q)
Fails(q) == CallFails(q, Ignored) /\ LoseCounts({q})
Dies     == Crash /\ LoseCounts(Request)

LEMMA StepKinds ==
    ASSUME [SubscriptionsNext]_<<requestVars, subVars>>
    PROVE  \/ \E q \in Request : Admits(q) \/ Counts(q) \/ Frees(q) \/ Keeps(q) \/ Fails(q)
           \/ Dies \/ Midnight \/ UNCHANGED <<requestVars, subVars>>
  BY Zenon DEF SubscriptionsNext, Admits, Counts, Frees, Keeps, Fails, Dies, Ignored

LEMMA KeepsFacts ==
    ASSUME SubInv, (\E q \in Request : Keeps(q)) \/ Midnight \/ UNCHANGED <<requestVars, subVars>>
    PROVE  SubInv' /\ Uncounted' = Uncounted /\ UNCHANGED <<subscriptionsUsed, subCrowd>>
<1>1. ASSUME NEW q \in Request, Keeps(q)
      PROVE  SubInv' /\ Uncounted' = Uncounted /\ UNCHANGED <<subscriptionsUsed, subCrowd>>
  <2>1. CASE EditSubscription(q) \/ RebillSubscription(q) \/ ArchiveSubscription(q)
             \/ DeleteSubscription(q)
    BY <2>1, ReadsSub
  <2>2. CASE InsertSub(q)
    BY <2>2, InsertsSub
  <2>3. CASE AnnounceBilling(q)
    BY <2>3, AnnouncesBilling
  <2>4. CASE UpdateSub(q)
    BY <2>4, UpdatesSub
  <2>5. CASE CancelBilling(q)
    BY <2>5, CancelsBilling
  <2>6. CASE SoftDeleteSub(q)
    BY <2>6, SoftDeletesSub
  <2>7. QED
    BY <1>1, <2>1, <2>2, <2>3, <2>4, <2>5, <2>6 DEF Keeps
<1>2. QED
  BY <1>1, DayPasses, SubscriptionsStutter

LEMMA SubscriptionsStep ==
    ASSUME SubInv, [SubscriptionsNext]_<<requestVars, subVars>>
    PROVE  SubInv'
<1>1. ASSUME NEW q \in Request, Admits(q) \/ Counts(q) \/ Frees(q)
      PROVE  SubInv'
  BY <1>1, CreatesSub, IncrementsSubs, DecrementsSubs DEF Admits, Counts, Frees
<1>2. CASE (\E q \in Request : Fails(q)) \/ Dies
  BY <1>2, RequestFails, ProcessDies DEF Fails, Dies
<1>3. QED
  BY <1>1, <1>2, StepKinds, KeepsFacts

LEMMA LimitStep ==
    ASSUME SubInv, SubInv', [SubscriptionsNext]_<<requestVars, subVars>>
    PROVE  [LimitOn!LimitNext]_LimitOn!limitVars
<1> DEFINE admitted == Cardinality(Uncounted)
<1>1. /\ IsFiniteSet(Uncounted) /\ admitted \in Nat
      /\ IsFiniteSet(Uncounted') /\ admitted' \in Nat
      /\ subscriptionsUsed \in Nat
  <2>1. Uncounted \subseteq Request /\ Uncounted' \subseteq Request
    BY DEF Uncounted, CreatingSub, Doing
  <2>2. IsFiniteSet(Uncounted) /\ IsFiniteSet(Uncounted')
    BY <2>1, RequestsAssumption, FS_Subset
  <2>3. QED
    BY <2>2, FS_CardinalityType DEF SubInv, TypeInv, TablesTyped
<1>2. ASSUME NEW q \in Request, Admits(q)
      PROVE  LimitOn!Admit
  <2>1. Uncounted' = Uncounted \union {q} /\ q \notin Uncounted /\ UNCHANGED subscriptionsUsed
    BY <1>2, CreatesSub DEF Admits
  <2>2. admitted' = admitted + 1
    BY <1>1, <2>1, FS_AddElement
  <2>3. subscriptionsUsed < SubscriptionLimit
    BY <1>2 DEF Admits, CreateSubscription, SubWithinLimit
  <2>4. subCrowd' = IF admitted' > subCrowd THEN admitted' ELSE subCrowd
    BY <1>2, <2>2 DEF Admits, CreateSubscription
  <2>5. QED
    BY <2>1, <2>2, <2>3, <2>4 DEF LimitOn!Admit
<1>3. ASSUME NEW q \in Request, Counts(q)
      PROVE  LimitOn!Count
  <2>1. /\ q \in Uncounted /\ Uncounted' = Uncounted \ {q}
        /\ subscriptionsUsed' = subscriptionsUsed + 1 /\ subCrowd' = subCrowd
    BY <1>3, IncrementsSubs DEF Counts
  <2>2. admitted' = admitted - 1
    BY <1>1, <2>1, FS_RemoveElement
  <2>3. admitted > 0
    BY <1>1, <2>2
  <2>4. QED
    BY <2>1, <2>2, <2>3 DEF LimitOn!Count
<1>4. ASSUME Uncounted' = Uncounted, UNCHANGED <<subscriptionsUsed, subCrowd>>
      PROVE  UNCHANGED LimitOn!limitVars
  BY <1>4 DEF LimitOn!limitVars
<1>5. ASSUME NEW q \in Request, Frees(q)
      PROVE  LimitOn!Release \/ UNCHANGED LimitOn!limitVars
  <2>1. /\ Uncounted' = Uncounted /\ subCrowd' = subCrowd
        /\ subscriptionsUsed' = Decremented(subscriptionsUsed)
    BY <1>5, DecrementsSubs DEF Frees
  <2>2. CASE subscriptionsUsed > 0
    BY <2>1, <2>2 DEF LimitOn!Release, Decremented
  <2>3. CASE ~(subscriptionsUsed > 0)
    BY <1>1, <1>4, <2>1, <2>3 DEF Decremented
  <2>4. QED
    BY <2>2, <2>3
<1>6. ASSUME (\E q \in Request : Fails(q)) \/ Dies
      PROVE  LimitOn!GiveUp \/ UNCHANGED LimitOn!limitVars
  <2>1. Uncounted' \subseteq Uncounted
    BY <1>6, RequestFails, ProcessDies DEF Fails, Dies
  <2>2. UNCHANGED <<subscriptionsUsed, subCrowd>>
    BY <1>6 DEF Fails, Dies, LoseCounts, subTables
  <2>3. CASE Uncounted' = Uncounted
    BY <1>4, <2>2, <2>3
  <2>4. CASE Uncounted' # Uncounted
    <3>1. Cardinality(Uncounted') <= Cardinality(Uncounted)
          /\ Cardinality(Uncounted) # Cardinality(Uncounted')
      BY <1>1, <2>1, <2>4, FS_Subset
    <3>2. admitted' \in 0 .. admitted - 1
      BY <1>1, <3>1
    <3>3. QED
      BY <2>2, <3>2 DEF LimitOn!GiveUp
  <2>5. QED
    BY <2>3, <2>4
<1>7. QED
  BY <1>2, <1>3, <1>4, <1>5, <1>6, StepKinds, KeepsFacts DEF LimitOn!LimitNext

-----------------------------------------------------------------------------
(* The ledger: how far the counter falls behind the rows                   *)

LiveSubs == {s \in Subscription : SubFound(s)}

\* Creations whose row is there and is not counted yet, and deletes that have
\* yet to take theirs off the counter.
AtCount      == {q \in Request : req[q].todo = IA}
Undiscounted == {q \in Request : req[q].todo \in {CD, D}}

LedgerInv ==
    Cardinality(LiveSubs) + Cardinality(Undiscounted)
        <= subscriptionsUsed + Cardinality(AtCount) + subSlips

One(b) == IF b THEN 1 ELSE 0

\* The part that one request and one subscription have in the ledger.
Holds(s)  == One(SubFound(s))
Owes(q)   == One(req[q].todo \in {CD, D})
Brings(q) == One(req[q].todo = IA)

OneStep(q, s) ==
    /\ \A p \in Request : p # q => req'[p] = req[p]
    /\ \A t \in Subscription : t # s => sub'[t] = sub[t]

Shift(q, s) ==
    Holds(s)' + Owes(q)' + subscriptionsUsed + Brings(q) + subSlips
        <= Holds(s) + Owes(q) + subscriptionsUsed' + Brings(q)' + subSlips'

LEMMA Balances ==
    ASSUME NEW S, NEW T, NEW e, IsFiniteSet(S), IsFiniteSet(T), S \ {e} = T \ {e}
    PROVE  /\ Cardinality(S) \in Nat /\ Cardinality(T) \in Nat
           /\ Cardinality(T) + One(e \in S) = Cardinality(S) + One(e \in T)
<1> DEFINE R == S \ {e}
<1>1. IsFiniteSet(R)
  BY FS_Subset
<1>2. Cardinality(R) \in Nat
  BY <1>1, FS_CardinalityType
<1>3. /\ S = IF e \in S THEN R \union {e} ELSE R
      /\ T = IF e \in T THEN R \union {e} ELSE R
  OBVIOUS
<1>4. e \notin R
  OBVIOUS
<1> HIDE DEF R
<1>5. Cardinality(R \union {e}) = Cardinality(R) + 1
  BY <1>1, <1>4, FS_AddElement
<1>6. Cardinality(S) = Cardinality(R) + One(e \in S)
  BY <1>2, <1>3, <1>5 DEF One
<1>7. Cardinality(T) = Cardinality(R) + One(e \in T)
  BY <1>2, <1>3, <1>5 DEF One
<1>8. One(e \in S) \in Nat /\ One(e \in T) \in Nat
  BY DEF One
<1>9. QED
  BY <1>2, <1>6, <1>7, <1>8

LEMMA LedgerFinite ==
    /\ IsFiniteSet(LiveSubs) /\ IsFiniteSet(Undiscounted) /\ IsFiniteSet(AtCount)
    /\ IsFiniteSet(LiveSubs') /\ IsFiniteSet(Undiscounted') /\ IsFiniteSet(AtCount')
<1>1. /\ LiveSubs \subseteq Subscription /\ Undiscounted \subseteq Request /\ AtCount \subseteq Request
      /\ LiveSubs' \subseteq Subscription /\ Undiscounted' \subseteq Request /\ AtCount' \subseteq Request
  BY DEF LiveSubs, Undiscounted, AtCount
<1>2. QED
  BY <1>1, SubscriptionsAssumption, RequestsAssumption, FS_Subset

\* Six sizes, and the parts of one request and one subscription in them.
LEMMA Sums ==
    ASSUME NEW l \in Nat, NEW u \in Nat, NEW c \in Nat, NEW l1 \in Nat, NEW u1 \in Nat, NEW c1 \in Nat,
           NEW n \in Nat, NEW n1 \in Nat, NEW k \in Nat, NEW k1 \in Nat,
           NEW h \in Nat, NEW h1 \in Nat, NEW o \in Nat, NEW o1 \in Nat, NEW a \in Nat, NEW a1 \in Nat,
           l1 + h = l + h1, u1 + o = u + o1, c1 + a = c + a1,
           h1 + o1 + n + a + k <= h + o + n1 + a1 + k1,
           l + u <= n + c + k
    PROVE  l1 + u1 <= n1 + c1 + k1
  OBVIOUS

LEMMA LedgerShift ==
    ASSUME TypeInv, TypeInv', LedgerInv, NEW q \in Request, NEW s \in Subscription,
           OneStep(q, s), Shift(q, s)
    PROVE  LedgerInv'
<1>1. /\ LiveSubs \ {s} = LiveSubs' \ {s}
      /\ Undiscounted \ {q} = Undiscounted' \ {q}
      /\ AtCount \ {q} = AtCount' \ {q}
  BY DEF OneStep, LiveSubs, SubFound, Undiscounted, AtCount
<1>2. /\ Holds(s) = One(s \in LiveSubs) /\ Holds(s)' = One(s \in LiveSubs')
      /\ Owes(q) = One(q \in Undiscounted) /\ Owes(q)' = One(q \in Undiscounted')
      /\ Brings(q) = One(q \in AtCount) /\ Brings(q)' = One(q \in AtCount')
  BY DEF Holds, Owes, Brings, LiveSubs, Undiscounted, AtCount, SubFound, One
<1>3. /\ Holds(s) \in Nat /\ Holds(s)' \in Nat /\ Owes(q) \in Nat /\ Owes(q)' \in Nat
      /\ Brings(q) \in Nat /\ Brings(q)' \in Nat
  BY DEF Holds, Owes, Brings, One
<1>4. /\ subscriptionsUsed \in Nat /\ subscriptionsUsed' \in Nat
      /\ subSlips \in Nat /\ subSlips' \in Nat
  BY DEF TypeInv, TablesTyped
<1> HIDE DEF Holds, Owes, Brings, LiveSubs, Undiscounted, AtCount
<1>5. /\ Cardinality(LiveSubs) \in Nat /\ Cardinality(LiveSubs') \in Nat
      /\ Cardinality(LiveSubs') + Holds(s) = Cardinality(LiveSubs) + Holds(s)'
  BY <1>1, <1>2, LedgerFinite, Balances
<1>6. /\ Cardinality(Undiscounted) \in Nat /\ Cardinality(Undiscounted') \in Nat
      /\ Cardinality(Undiscounted') + Owes(q) = Cardinality(Undiscounted) + Owes(q)'
  BY <1>1, <1>2, LedgerFinite, Balances
<1>7. /\ Cardinality(AtCount) \in Nat /\ Cardinality(AtCount') \in Nat
      /\ Cardinality(AtCount') + Brings(q) = Cardinality(AtCount) + Brings(q)'
  BY <1>1, <1>2, LedgerFinite, Balances
<1>8. QED
  BY <1>3, <1>4, <1>5, <1>6, <1>7, Sums DEF LedgerInv, Shift

\* What is left to do says what a request has in the ledger.
LEMMA TodoWeighs ==
    /\ \A t \in {<<>>, IIA, A, U, UCA, CA, UC, C, SCD} : t # IA /\ t # CD /\ t # D
    /\ IA # CD /\ IA # D /\ CD # D
    /\ IA \notin {A, U, C, D} /\ CD \notin {A, U, C, D}
<1>1. Head(IA) = "countSub" /\ Head(CD) = "cancel" /\ Head(D) = "uncountSub"
      /\ Len(IA) = 2 /\ Len(CD) = 2 /\ Len(D) = 1
  BY TodoFacts
<1>2. <<>> # IA /\ <<>> # CD /\ <<>> # D
  BY Distinct DEF Todos
<1>3. CA # CD
  <2>1. Tail(CA) = A /\ Tail(CD) = D /\ A # D
    BY TodoFacts
  <2>2. QED
    BY <2>1
<1>4. /\ \A t \in {IIA, A, U, UCA, UC, C, SCD} : t # CD
      /\ \A t \in {IIA, A, U, UCA, CA, UC, C, SCD} : t # IA /\ t # D
      /\ IA # CD /\ IA # D /\ CD # D
  BY <1>1, TodoFacts
<1>5. QED
  BY <1>2, <1>3, <1>4

\* A request that makes its call, or whose failure is ignored.
LEMMA AfterCall ==
    ASSUME ReqsTyped, NEW q \in Request, ~Idle(q),
           req' = [req EXCEPT ![q] = Advanced(q, req[q].own)]
    PROVE  /\ \A p \in Request : p # q => req'[p] = req[p]
           /\ req'[q].todo = IF req[q].todo \in {A, U, C, D} THEN <<>> ELSE Tail(req[q].todo)
           /\ req[q].todo \in Todos /\ req[q].own.target \in Subscription
<1>1. req[q] \in SubReqs
  BY CallFacts
<1>2. /\ ReqsTyped'
      /\ \A p \in Request : p # q => req'[p] = req[p]
      /\ req'[q] = NoRequest <=> req[q].todo \in {A, U, C, D}
      /\ req'[q] \in SubReqs => req'[q].todo = Tail(req[q].todo)
  BY <1>1, MoveFacts
<1>3. req[q].todo \in Todos /\ req[q].own.target \in Subscription
  BY <1>1, KindFacts
<1>4. QED
  BY <1>2, <1>3, NoRequestFacts DEF ReqsTyped

\* A call that changes neither the rows nor the counter.
LEMMA SameBooks ==
    ASSUME TypeInv, TypeInv', LedgerInv, NEW q \in Request, NEW s \in Subscription,
           \A p \in Request : p # q => req'[p] = req[p],
           UNCHANGED <<sub, subscriptionsUsed, subSlips>>,
           req'[q].todo = IA <=> req[q].todo = IA,
           req'[q].todo \in {CD, D} => req[q].todo \in {CD, D}
    PROVE  LedgerInv'
<1>1. OneStep(q, s) /\ Holds(s)' = Holds(s)
  BY DEF OneStep, Holds, SubFound
<1>2. Brings(q)' = Brings(q) /\ Owes(q)' \in Nat /\ Owes(q) \in Nat /\ Owes(q)' <= Owes(q)
      /\ Brings(q) \in Nat /\ Holds(s) \in Nat
  BY DEF Brings, Owes, Holds, One
<1>3. subscriptionsUsed \in Nat /\ subSlips \in Nat
  BY DEF TypeInv, TablesTyped
<1>4. Shift(q, s)
  BY <1>1, <1>2, <1>3 DEF Shift
<1>5. QED
  BY <1>1, <1>4, LedgerShift

LEMMA TargetFacts ==
    ASSUME TypeInv, NEW q \in Request, ~Idle(q)
    PROVE  \E s \in Subscription : s = req[q].own.target
  BY CallFacts, KindFacts DEF TypeInv

LEMMA BeginBooks ==
    ASSUME TypeInv, TypeInv', LedgerInv, NEW q \in Request, NEW s \in Subscription, NEW m,
           NEW calls \in {IIA, U, UCA, UC, SCD}, NEW copy, BeginOnSub(q, m, calls, s, copy)
    PROVE  LedgerInv'
<1> DEFINE r == [method |-> m, todo |-> calls, wrote |-> FALSE,
                 own |-> [target |-> s, read |-> sub[s], copy |-> copy]]
<1>1. /\ req[q].todo = <<>> /\ req' = [req EXCEPT ![q] = r]
      /\ UNCHANGED <<sub, subscriptionsUsed, subSlips>>
  BY DEF BeginOnSub, Begin, Idle, subTables
<1>2. r.todo = calls
  OBVIOUS
<1> HIDE DEF r
<1>3. req'[q] = r /\ \A p \in Request : p # q => req'[p] = req[p]
  BY <1>1 DEF TypeInv, ReqsTyped
<1>4. req'[q].todo = calls
  BY <1>2, <1>3
<1>5. /\ req'[q].todo # IA /\ req[q].todo # IA /\ req'[q].todo \notin {CD, D}
  BY <1>1, <1>4, TodoWeighs
<1>6. QED
  BY <1>1, <1>3, <1>5, SameBooks

LEMMA AdmitsBooks ==
    ASSUME TypeInv, TypeInv', LedgerInv, NEW q \in Request,
           \/ CreateSubscription(q) \/ EditSubscription(q) \/ RebillSubscription(q)
           \/ ArchiveSubscription(q) \/ DeleteSubscription(q)
    PROVE  LedgerInv'
<1> DEFINE Begun == \E s \in Subscription : \E m : \E calls \in {IIA, U, UCA, UC, SCD} : \E copy :
                      BeginOnSub(q, m, calls, s, copy)
<1>1. CreateSubscription(q) => Begun
  BY Zenon DEF CreateSubscription, CreateCalls, IIA
<1>2. EditSubscription(q) => Begun
  BY Zenon DEF EditSubscription, U
<1>3. RebillSubscription(q) => Begun
  BY Zenon DEF RebillSubscription, UCA
<1>4. ArchiveSubscription(q) => Begun
  BY Zenon DEF ArchiveSubscription, UC
<1>5. DeleteSubscription(q) => Begun
  BY Zenon DEF DeleteSubscription, SCD
<1>6. Begun
  BY <1>1, <1>2, <1>3, <1>4, <1>5
<1>7. QED
  BY <1>6, BeginBooks, Zenon

LEMMA InsertBooks ==
    ASSUME TypeInv, TypeInv', LedgerInv, NEW q \in Request, InsertSub(q)
    PROVE  LedgerInv'
<1>0. PICK s \in Subscription : s = req[q].own.target
  BY TargetFacts DEF InsertSub, Makes
<1>1. /\ ~Idle(q) /\ req' = [req EXCEPT ![q] = Advanced(q, req[q].own)]
      /\ UNCHANGED <<subscriptionsUsed, subSlips>>
      /\ sub' = [sub EXCEPT ![s] = req[q].own.copy]
  BY <1>0, Zenon DEF InsertSub, Makes, Continue, GoOn, subGhosts
<1>2. req[q].todo = IIA
  BY CallFacts DEF InsertSub, TypeInv
<1>3. /\ \A p \in Request : p # q => req'[p] = req[p]
      /\ req'[q].todo = IF req[q].todo \in {A, U, C, D} THEN <<>> ELSE Tail(req[q].todo)
      /\ s \in Subscription
  BY <1>0, <1>1, AfterCall DEF TypeInv
<1>4. req'[q].todo = IA
  BY <1>2, <1>3, TodoFacts
<1>5. OneStep(q, s)
  BY <1>1, <1>3 DEF OneStep, TypeInv, TablesTyped
<1>6. Brings(q) = 0 /\ Brings(q)' = 1 /\ Owes(q) = 0 /\ Owes(q)' = 0
  BY <1>2, <1>4, TodoWeighs DEF Brings, Owes, One
<1>7. Holds(s) \in {0, 1} /\ Holds(s)' \in {0, 1}
  BY DEF Holds, One
<1>8. subscriptionsUsed \in Nat /\ subSlips \in Nat
  BY DEF TypeInv, TablesTyped
<1>9. Shift(q, s)
  BY <1>1, <1>6, <1>7, <1>8 DEF Shift
<1>10. QED
  BY <1>3, <1>5, <1>9, LedgerShift

\* An update or a delete: it writes one row, and notes when that was deleted.
LEMMA WriteBooks ==
    ASSUME TypeInv, TypeInv', LedgerInv, NEW q \in Request, UpdateSub(q) \/ SoftDeleteSub(q)
    PROVE  LedgerInv'
<1>0. PICK s \in Subscription : s = req[q].own.target
  BY TargetFacts DEF UpdateSub, SoftDeleteSub, Makes
<1>1. /\ ~Idle(q) /\ req' = [req EXCEPT ![q] = Advanced(q, req[q].own)]
      /\ UNCHANGED subscriptionsUsed
      /\ IF SubFound(s) THEN UNCHANGED subSlips ELSE subSlips' = subSlips + 1
  BY <1>0, Zenon DEF UpdateSub, SoftDeleteSub, NoteLateSub, Makes, Continue, GoOn
<1>2. /\ UpdateSub(q) => req[q].todo \in {U, UCA, UC}
      /\ SoftDeleteSub(q) => req[q].todo = SCD
  BY CallFacts DEF UpdateSub, SoftDeleteSub, TypeInv
<1>3. /\ \A p \in Request : p # q => req'[p] = req[p]
      /\ req'[q].todo = IF req[q].todo \in {A, U, C, D} THEN <<>> ELSE Tail(req[q].todo)
      /\ s \in Subscription
  BY <1>0, <1>1, AfterCall DEF TypeInv
<1>4. /\ UpdateSub(q) => req'[q].todo \in {<<>>, CA, C}
      /\ SoftDeleteSub(q) => req'[q].todo = CD
  <2>1. UCA \notin {A, U, C, D} /\ UC \notin {A, U, C, D} /\ SCD \notin {A, U, C, D}
    BY TodoFacts
  <2>2. QED
    BY <1>2, <1>3, <2>1, TodoFacts
<1>5. /\ UpdateSub(q) => sub' = [sub EXCEPT ![s] = req[q].own.copy]
      /\ SoftDeleteSub(q) => sub' = [sub EXCEPT ![s].status = "canceled"]
  BY <1>0, Zenon DEF UpdateSub, SoftDeleteSub
<1>6. OneStep(q, s) /\ (SoftDeleteSub(q) => ~SubFound(s)')
  <2>1. sub \in [Subscription -> SubRow \union {NoSub}]
    BY DEF TypeInv, TablesTyped
  <2>2. \A t \in Subscription : t # s => sub'[t] = sub[t]
    BY <1>5, <2>1
  <2>3. SoftDeleteSub(q) => ~SubFound(s)'
    <3>1. PICK old \in SubRow \union {NoSub} : old = sub[s]
      BY <1>3, <2>1
    <3>2. [old EXCEPT !.status = "canceled"].status = "canceled"
      BY DEF SubRow, NoSub
    <3>3. SoftDeleteSub(q) => sub'[s] = [old EXCEPT !.status = "canceled"]
      BY <1>3, <1>5, <2>1, <3>1
    <3>4. SoftDeleteSub(q) => sub'[s].status = "canceled"
      BY <3>2, <3>3
    <3>5. QED
      BY <3>4 DEF SubFound
  <2>4. QED
    BY <1>3, <2>2, <2>3 DEF OneStep
<1>7. /\ Brings(q) = 0 /\ Brings(q)' = 0 /\ Owes(q) = 0
      /\ Owes(q)' = IF SoftDeleteSub(q) THEN 1 ELSE 0
  <2>1. ASSUME UpdateSub(q)
        PROVE  ~SoftDeleteSub(q)
    <3>1. SCD \notin {U, UCA, UC}
      BY TodoFacts
    <3>2. QED
      BY <1>2, <2>1, <3>1
  <2>2. /\ req[q].todo # IA /\ req'[q].todo # IA /\ req[q].todo \notin {CD, D}
        /\ req'[q].todo \in {CD, D} <=> SoftDeleteSub(q)
    BY <1>2, <1>4, <2>1, TodoWeighs
  <2>3. QED
    BY <2>2 DEF Brings, Owes, One
<1>8. /\ Holds(s) = IF SubFound(s) THEN 1 ELSE 0
      /\ Holds(s)' \in {0, 1} /\ (SoftDeleteSub(q) => Holds(s)' = 0)
  BY <1>6 DEF Holds, One
<1>9. subscriptionsUsed \in Nat /\ subSlips \in Nat
  BY DEF TypeInv, TablesTyped
<1>10. Shift(q, s)
  <2>1. CASE SoftDeleteSub(q)
    BY <1>1, <1>7, <1>8, <1>9, <2>1 DEF Shift
  <2>2. CASE ~SoftDeleteSub(q)
    BY <1>1, <1>7, <1>8, <1>9, <2>2 DEF Shift
  <2>3. QED
    BY <2>1, <2>2
<1>11. QED
  BY <1>3, <1>6, <1>10, LedgerShift

\* The calls that change no row: an Increment, a Decrement and those between.
LEMMA CountBooks ==
    ASSUME TypeInv, TypeInv', LedgerInv, NEW q \in Request, IncrementSubs(q)
    PROVE  LedgerInv'
<1>0. PICK s \in Subscription : s = req[q].own.target
  BY TargetFacts DEF IncrementSubs, Makes
<1>1. /\ ~Idle(q) /\ req' = [req EXCEPT ![q] = Advanced(q, req[q].own)]
      /\ UNCHANGED <<sub, subSlips>> /\ subscriptionsUsed' = subscriptionsUsed + 1
  BY Zenon DEF IncrementSubs, Makes, Continue, GoOn, subGhosts
<1>2. req[q].todo = IA
  BY CallFacts DEF IncrementSubs, TypeInv
<1>3. /\ \A p \in Request : p # q => req'[p] = req[p]
      /\ req'[q].todo = IF req[q].todo \in {A, U, C, D} THEN <<>> ELSE Tail(req[q].todo)
      /\ s \in Subscription
  BY <1>0, <1>1, AfterCall DEF TypeInv
<1>4. req'[q].todo = A
  BY <1>2, <1>3, TodoFacts, TodoWeighs
<1>5. Brings(q) = 1 /\ Brings(q)' = 0 /\ Owes(q) = 0 /\ Owes(q)' = 0
  BY <1>2, <1>4, TodoWeighs DEF Brings, Owes, One
<1>6. OneStep(q, s) /\ Holds(s)' = Holds(s) /\ Holds(s) \in Nat
  BY <1>1, <1>3 DEF OneStep, Holds, SubFound, One
<1>7. subscriptionsUsed \in Nat /\ subSlips \in Nat
  BY DEF TypeInv, TablesTyped
<1>8. Shift(q, s)
  BY <1>1, <1>5, <1>6, <1>7 DEF Shift
<1>9. QED
  BY <1>3, <1>6, <1>8, LedgerShift

LEMMA UncountBooks ==
    ASSUME TypeInv, TypeInv', LedgerInv, NEW q \in Request, DecrementSubs(q)
    PROVE  LedgerInv'
<1>0. PICK s \in Subscription : s = req[q].own.target
  BY TargetFacts DEF DecrementSubs, Makes
<1>1. /\ ~Idle(q) /\ req' = [req EXCEPT ![q] = Advanced(q, req[q].own)]
      /\ UNCHANGED <<sub, subSlips>>
      /\ subscriptionsUsed' = IF subscriptionsUsed > 0 THEN subscriptionsUsed - 1 ELSE 0
  BY Zenon DEF DecrementSubs, Makes, Continue, GoOn, subGhosts, Decremented
<1>2. req[q].todo = D
  BY CallFacts DEF DecrementSubs, TypeInv
<1>3. /\ \A p \in Request : p # q => req'[p] = req[p]
      /\ req'[q].todo = IF req[q].todo \in {A, U, C, D} THEN <<>> ELSE Tail(req[q].todo)
      /\ s \in Subscription
  BY <1>0, <1>1, AfterCall DEF TypeInv
<1>4. req'[q].todo = <<>>
  BY <1>2, <1>3
<1>5. Brings(q) = 0 /\ Brings(q)' = 0 /\ Owes(q) = 1 /\ Owes(q)' = 0
  BY <1>2, <1>4, TodoWeighs DEF Brings, Owes, One
<1>6. OneStep(q, s) /\ Holds(s)' = Holds(s) /\ Holds(s) \in Nat
  BY <1>1, <1>3 DEF OneStep, Holds, SubFound, One
<1>7. subscriptionsUsed \in Nat /\ subSlips \in Nat
  BY DEF TypeInv, TablesTyped
<1>8. Shift(q, s)
  BY <1>1, <1>5, <1>6, <1>7 DEF Shift
<1>9. QED
  BY <1>3, <1>6, <1>8, LedgerShift

LEMMA OtherBooks ==
    ASSUME SubInv, TypeInv', LedgerInv, NEW q \in Request, AnnounceBilling(q) \/ CancelBilling(q)
    PROVE  LedgerInv'
<1>0. PICK s \in Subscription : s = req[q].own.target
  BY TargetFacts DEF AnnounceBilling, CancelBilling, Makes, SubInv
<1>1. /\ ~Idle(q) /\ req' = [req EXCEPT ![q] = Advanced(q, req[q].own)]
      /\ UNCHANGED <<sub, subSlips, subscriptionsUsed>>
  BY Zenon DEF AnnounceBilling, CancelBilling, Makes, Continue, GoOn, subGhosts
<1>2. req[q].todo \in {A, CA, C, CD}
  BY CallFacts DEF AnnounceBilling, CancelBilling, SubInv, TypeInv
<1>3. /\ \A p \in Request : p # q => req'[p] = req[p]
      /\ req'[q].todo = IF req[q].todo \in {A, U, C, D} THEN <<>> ELSE Tail(req[q].todo)
      /\ s \in Subscription
  BY <1>0, <1>1, AfterCall DEF SubInv, TypeInv
<1>4. /\ req'[q].todo = IA <=> req[q].todo = IA
      /\ req'[q].todo \in {CD, D} => req[q].todo \in {CD, D}
  <2>1. req'[q].todo \in {<<>>, A, D} /\ (req'[q].todo = D => req[q].todo = CD)
    <3>1. Tail(CA) = A /\ Tail(CD) = D /\ A # D /\ D # <<>>
      BY TodoFacts, TodoWeighs
    <3>2. QED
      BY <1>2, <1>3, <3>1
  <2>2. QED
    BY <1>2, <2>1, TodoWeighs
<1>5. TypeInv
  BY DEF SubInv
<1>6. QED
  BY <1>1, <1>3, <1>4, <1>5, SameBooks

\* A failed call.  Of the ignored ones an Increment leaves a row uncounted.
LEMMA FailBooks ==
    ASSUME TypeInv, TypeInv', LedgerInv, NEW q \in Request, Fails(q)
    PROVE  LedgerInv'
<1>0. PICK s \in Subscription : s = req[q].own.target
  BY TargetFacts DEF Fails, CallFails
<1> DEFINE lost == {p \in {q} : Makes(p, "countSub")}
<1>1. ~Idle(q) /\ UNCHANGED <<sub, subscriptionsUsed>> /\ subSlips' = subSlips + Cardinality(lost)
  BY DEF Fails, CallFails, LoseCounts, subTables
<1>2. req[q] \in SubReqs /\ req[q].todo \in Todos /\ s \in Subscription
  BY <1>1, CallFacts, KindFacts DEF TypeInv
<1>3. Makes(q, "countSub") <=> req[q].todo = IA
  BY <1>1, <1>2, Distinct DEF Makes
<1>4. lost = IF req[q].todo = IA THEN {q} ELSE {}
  BY <1>3
<1>5. Cardinality({q}) = 1 /\ Cardinality({}) = 0
  BY FS_Singleton, FS_EmptySet
<1> HIDE DEF lost
<1>6. Cardinality(lost) = Brings(q)
  BY <1>4, <1>5 DEF Brings, One
<1>7. /\ \A p \in Request : p # q => req'[p] = req[p]
      /\ req'[q].todo # IA /\ (req'[q].todo \in {CD, D} => req[q].todo \in {CD, D})
  <2>1. CASE Head(req[q].todo) \in Ignored
    <3>1. req' = [req EXCEPT ![q] = Advanced(q, req[q].own)]
      BY <2>1, Zenon DEF Fails, CallFails
    <3>2. /\ \A p \in Request : p # q => req'[p] = req[p]
          /\ req'[q].todo = IF req[q].todo \in {A, U, C, D} THEN <<>> ELSE Tail(req[q].todo)
      BY <1>1, <3>1, AfterCall DEF TypeInv
    <3>3. req[q].todo \in {IA, A, CA, C, CD, D}
      BY <1>2, <2>1, Distinct DEF Ignored, Todos
    <3>4. req'[q].todo \in {<<>>, A, D} /\ (req'[q].todo = D => req[q].todo = CD)
      <4>1. Tail(IA) = A /\ Tail(CA) = A /\ Tail(CD) = D /\ A # D /\ D # <<>>
        BY TodoFacts, TodoWeighs
      <4>2. QED
        BY <3>2, <3>3, <4>1
    <3>5. QED
      BY <3>2, <3>4, TodoWeighs
  <2>2. CASE Head(req[q].todo) \notin Ignored
    <3>1. req' = [req EXCEPT ![q] = NoRequest]
      BY <2>2, Zenon DEF Fails, CallFails
    <3>2. (\A p \in Request : p # q => req'[p] = req[p]) /\ req'[q].todo = <<>>
      BY <3>1, EndFacts, NoRequestFacts DEF TypeInv
    <3>3. QED
      BY <3>2, TodoWeighs
  <2>3. QED
    BY <2>1, <2>2
<1>8. /\ Brings(q)' = 0 /\ Brings(q) \in Nat /\ Owes(q)' <= Owes(q) /\ Owes(q) \in Nat /\ Owes(q)' \in Nat
  BY <1>7 DEF Brings, Owes, One
<1>9. OneStep(q, s) /\ Holds(s)' = Holds(s) /\ Holds(s) \in Nat
  BY <1>1, <1>7 DEF OneStep, Holds, SubFound, One
<1>10. subscriptionsUsed \in Nat /\ subSlips \in Nat
  BY DEF TypeInv, TablesTyped
<1>11. Shift(q, s)
  BY <1>1, <1>6, <1>8, <1>9, <1>10 DEF Shift
<1>12. QED
  BY <1>2, <1>7, <1>9, <1>11, LedgerShift

LEMMA CrashBooks ==
    ASSUME TypeInv, TypeInv', LedgerInv, Dies
    PROVE  LedgerInv'
<1> DEFINE lost == {p \in Request : Makes(p, "countSub")}
<1>1. /\ UNCHANGED <<sub, subscriptionsUsed>> /\ subSlips' = subSlips + Cardinality(lost)
      /\ req' = [p \in Request |-> NoRequest]
  BY DEF Dies, Crash, LoseCounts, subTables
<1>2. lost = AtCount
  <2>1. ASSUME NEW p \in Request
        PROVE  Makes(p, "countSub") <=> req[p].todo = IA
    <3>1. CASE Idle(p)
      BY <3>1, TodoWeighs DEF Idle, Makes
    <3>2. CASE ~Idle(p)
      <4>1. req[p].todo \in Todos
        BY <3>2, CallFacts, KindFacts DEF TypeInv
      <4>2. QED
        BY <3>2, <4>1, Distinct DEF Makes
    <3>3. QED
      BY <3>1, <3>2
  <2>2. QED
    BY <2>1 DEF AtCount
<1> HIDE DEF lost
<1>3. \A p \in Request : req'[p].todo = <<>>
  BY <1>1, NoRequestFacts
<1>4. AtCount' = {} /\ Undiscounted' = {} /\ LiveSubs' = LiveSubs
  BY <1>1, <1>3, TodoWeighs DEF AtCount, Undiscounted, LiveSubs, SubFound
<1>5. Cardinality({}) = 0
  BY FS_EmptySet
<1>6. /\ Cardinality(LiveSubs) \in Nat /\ Cardinality(Undiscounted) \in Nat
      /\ Cardinality(AtCount) \in Nat
  BY LedgerFinite, FS_CardinalityType
<1>7. subscriptionsUsed \in Nat /\ subSlips \in Nat
  BY DEF TypeInv, TablesTyped
<1> HIDE DEF AtCount, Undiscounted, LiveSubs
<1>8. /\ Cardinality(LiveSubs') = Cardinality(LiveSubs)
      /\ Cardinality(Undiscounted') = 0 /\ Cardinality(AtCount') = 0
      /\ subSlips' = subSlips + Cardinality(AtCount) /\ subscriptionsUsed' = subscriptionsUsed
  BY <1>1, <1>2, <1>4, <1>5
<1>9. QED
  BY <1>6, <1>7, <1>8 DEF LedgerInv

LEMMA LedgerStep ==
    ASSUME SubInv, SubInv', LedgerInv, [SubscriptionsNext]_<<requestVars, subVars>>
    PROVE  LedgerInv'
<1>1. TypeInv /\ TypeInv'
  BY DEF SubInv
<1>2. ASSUME NEW q \in Request, Admits(q) \/ Counts(q) \/ Frees(q) \/ Keeps(q) \/ Fails(q)
      PROVE  LedgerInv'
  BY <1>1, <1>2, AdmitsBooks, CountBooks, UncountBooks, InsertBooks, WriteBooks, OtherBooks,
     FailBooks DEF Admits, Counts, Frees, Keeps
<1>3. ASSUME Midnight \/ UNCHANGED <<requestVars, subVars>>
      PROVE  LedgerInv'
  <2>1. UNCHANGED <<req, sub, subscriptionsUsed, subSlips>>
    BY <1>3 DEF Midnight, requestVars, subVars, subTables, subGhosts
  <2>2. LiveSubs' = LiveSubs /\ AtCount' = AtCount /\ Undiscounted' = Undiscounted
    BY <2>1 DEF LiveSubs, SubFound, AtCount, Undiscounted
  <2>3. QED
    BY <2>1, <2>2 DEF LedgerInv
<1>4. QED
  BY <1>1, <1>2, <1>3, CrashBooks, StepKinds

LEMMA LedgerBegins == RequestsInit /\ SubscriptionsInit => LedgerInv
<1>1. ASSUME RequestsInit, SubscriptionsInit
      PROVE  LedgerInv
  <2>1. (\A q \in Request : req[q].todo = <<>>) /\ (\A s \in Subscription : ~SubFound(s))
    BY <1>1, NoRequestFacts DEF RequestsInit, SubscriptionsInit, SubFound, NoSub
  <2>2. LiveSubs = {} /\ AtCount = {} /\ Undiscounted = {}
    BY <2>1, TodoWeighs DEF LiveSubs, AtCount, Undiscounted
  <2>3. subscriptionsUsed = 0 /\ subSlips = 0 /\ Cardinality({}) = 0
    BY <1>1, FS_EmptySet DEF SubscriptionsInit
  <2>4. QED
    BY <2>2, <2>3 DEF LedgerInv
<1>2. QED
  BY <1>1

\* The counter bounds what is counted, and the ledger what is not.
LEMMA LimitFollows ==
    SubInv /\ LimitOn!LimitInv /\ LedgerInv => SubscriptionsLimited
<1> SUFFICES ASSUME SubInv, LimitOn!LimitInv, LedgerInv
             PROVE  SubscriptionsLimited
  OBVIOUS
<1> DEFINE live == Cardinality(LiveSubs)
           counting == Cardinality(AtCount)
           waiting == Cardinality(Uncounted)
           owed == Cardinality(Undiscounted)
<1>1. live \in Nat /\ counting \in Nat /\ owed \in Nat
  BY LedgerFinite, FS_CardinalityType
<1>2. waiting \in Nat /\ counting <= waiting
  <2>1. AtCount \subseteq Uncounted /\ Uncounted \subseteq Request
    BY UncountedFacts DEF AtCount, Early, SubInv, TypeInv
  <2>2. IsFiniteSet(Uncounted)
    BY <2>1, RequestsAssumption, FS_Subset
  <2>3. QED
    BY <2>1, <2>2, FS_Subset, FS_CardinalityType
<1>3. subscriptionsUsed \in Nat /\ subSlips \in Nat /\ subCrowd \in Nat /\ SubscriptionLimit \in Nat
  BY SubscriptionsAssumption DEF SubInv, TypeInv, TablesTyped
<1>4. \/ subscriptionsUsed + waiting <= SubscriptionLimit - 1 + subCrowd
      \/ subscriptionsUsed + waiting = 0
  BY DEF LimitOn!LimitInv, LimitOn!Bounded
<1>5. live + owed <= subscriptionsUsed + counting + subSlips
  BY DEF LedgerInv
<1> HIDE DEF live, counting, waiting, owed
<1>6. live <= SubscriptionLimit + subSlips + (IF subCrowd > 1 THEN subCrowd - 1 ELSE 0)
  <2>1. CASE subCrowd > 1
    BY <1>1, <1>2, <1>3, <1>4, <1>5, <2>1
  <2>2. CASE ~(subCrowd > 1)
    BY <1>1, <1>2, <1>3, <1>4, <1>5, <2>2
  <2>3. QED
    BY <2>1, <2>2
<1>7. QED
  BY <1>6 DEF SubscriptionsLimited, LiveSubs, live

LEMMA SubscriptionsTyping == SubInv => SubscriptionsTypeOK
<1>1. Todos \subseteq Seq(SubCall)
  BY DEF Todos, SubCall, IIA, IA, A, U, UCA, CA, UC, C, SCD, CD, D
<1>2. ASSUME NEW r \in SubReqs
      PROVE  r \in [method : SubMethod, todo : Seq(SubCall), wrote : BOOLEAN, own : Own]
  <2>1. r.todo \in Seq(SubCall) /\ r.method \in SubMethod
    BY <1>1, KindFacts
  <2>2. QED
    BY <2>1 DEF SubReqs, Work
<1>3. SubReqs \union {NoRequest} \subseteq RequestOf(SubMethod, SubCall, Own)
  BY <1>2 DEF RequestOf
<1>4. SubInv => req \in [Request -> RequestOf(SubMethod, SubCall, Own)]
  BY <1>3 DEF SubInv, TypeInv, ReqsTyped
<1>5. QED
  BY <1>4 DEF SubInv, TypeInv, TablesTyped, SubscriptionsTypeOK, Own

\* However requests to the subscription service overlap, fail and die, they and
\* the tables keep their types: the counter never becomes negative.
THEOREM SubscriptionsTypes == SubscriptionsSpec => []SubscriptionsTypeOK
<1>1. RequestsInit /\ SubscriptionsInit => SubInv
  BY SubscriptionsBegin
<1>2. SubInv /\ [SubscriptionsNext]_<<requestVars, subVars>> => SubInv'
  BY SubscriptionsStep
<1>3. SubInv => SubscriptionsTypeOK
  BY SubscriptionsTyping
<1>4. QED
  BY <1>1, <1>2, <1>3, PTL DEF SubscriptionsSpec

\* As long as a subscription keeps its first date, that date is announced: by
\* the create itself, whose announcement nobody else prevents
\* (CreateSubscription, UpdateSubscription, ArchiveSubscription and
\* DeleteSubscription, which share one notification key).  The announcement
\* is watched, so that one whose failure was ignored is known of.
THEOREM FirstBilling ==
    ASSUME "announce" \in Watched
    PROVE  SubscriptionsSpec => []FirstBillingAnnounced
<1>1. RequestsInit /\ SubscriptionsInit => SubInv
  BY SubscriptionsBegin
<1>2. SubInv /\ [SubscriptionsNext]_<<requestVars, subVars>> => SubInv'
  BY SubscriptionsStep
<1>3. SubInv => FirstBillingAnnounced
  <2>1. ASSUME SubInv, NEW s \in Subscription, SubFound(s), ~AboutSub(s), s \notin redated,
               "announce" \notin cut, Ahead(sub[s].next)
        PROVE  alert[s] = sub[s].next
    <3>1. Concerned(s)
      BY <2>1, RowFacts DEF SubInv, SubFound, Concerned, Ahead
    <3>2. ~Promised(s)
      BY <2>1, AboutFacts DEF Promised, SubInv, TypeInv
    <3>3. QED
      BY <2>1, <3>1, <3>2 DEF SubInv, PromiseInv, Announced
  <2>2. QED
    BY <2>1 DEF FirstBillingAnnounced
<1>4. QED
  BY <1>1, <1>2, <1>3, PTL DEF SubscriptionsSpec

\* The plan limit is exceeded by at most one subscription for each creation that
\* overlaps another one, for each row that was never counted, and for each write
\* to a subscription that was deleted already (CreateSubscription and
\* DeleteSubscription with CheckLimit, Increment and Decrement of the usage
\* limits, UpdateSubscription and ArchiveSubscription).
THEOREM SubscriptionsLimit == SubscriptionsSpec => []SubscriptionsLimited
<1> DEFINE IInv == SubInv /\ LimitOn!LimitInv /\ LedgerInv
<1>1. RequestsInit /\ SubscriptionsInit => IInv
  <2>1. ASSUME RequestsInit, SubscriptionsInit
        PROVE  SubInv /\ LimitOn!LimitInv
    <3>1. SubInv /\ Uncounted = {} /\ subscriptionsUsed = 0 /\ subCrowd = 0
      BY <2>1, SubscriptionsBegin
    <3>2. Cardinality(Uncounted) = 0
      BY <3>1, FS_EmptySet
    <3>3. QED
      BY <3>1, <3>2 DEF LimitOn!LimitInv, LimitOn!LimitTypeOK, LimitOn!Bounded
  <2>2. QED
    BY <2>1, LedgerBegins
<1>2. IInv /\ [SubscriptionsNext]_<<requestVars, subVars>> => IInv'
  <2>1. ASSUME IInv, [SubscriptionsNext]_<<requestVars, subVars>>
        PROVE  IInv'
    <3>1. SubInv'
      BY <2>1, SubscriptionsStep
    <3>2. [LimitOn!LimitNext]_LimitOn!limitVars
      BY <2>1, <3>1, LimitStep
    <3>3. LimitOn!LimitInv'
      BY <2>1, <3>2, SubscriptionsAssumption, LimitOn!LimitStep
    <3>4. LedgerInv'
      BY <2>1, <3>1, LedgerStep
    <3>5. QED
      BY <3>1, <3>3, <3>4
  <2>2. QED
    BY <2>1
<1>3. IInv => SubscriptionsLimited
  BY LimitFollows
<1>4. QED
  BY <1>1, <1>2, <1>3, PTL DEF SubscriptionsSpec
=============================================================================

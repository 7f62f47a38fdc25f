------------------------ MODULE RefreshTokensProofs ------------------------
(***************************************************************************)
(* What holds of a user's refresh tokens and sessions for any number of    *)
(* tokens, families, requests and failures.                                *)
(***************************************************************************)
EXTENDS RefreshTokens, FiniteSetTheorems, TLAPS

\* What a request may still have to do, named by the first call and the method.
IssueBoth    == <<"createToken", "createSession">>
IssueSession == <<"createSession">>
RefreshAll   == <<"revoke", "findUser", "createToken", "createSession">>
RefreshRest  == <<"findUser", "createToken", "createSession">>
EndFamily    == <<"revokeFamily">>
EndToken     == <<"revoke", "deleteSession">>
EndSession   == <<"deleteSession">>
OutAll       == <<"revokeAll", "deleteAll">>
OutSessions  == <<"deleteAll">>
OutTokens    == <<"revokeAll">>
DeleteAll    == <<"softDelete", "revokeAll", "deleteAll">>

Todos == {IssueBoth, IssueSession, RefreshAll, RefreshRest, EndFamily, EndToken,
          EndSession, OutAll, OutSessions, OutTokens, DeleteAll}

Owns   == [old : Token \union {NoId}, found : {"absent", "live", "revoked"},
           new : Token \union {NoId}, family : Chain \union {NoChain}]
Shapes == [method : TokenMethod, todo : Todos, wrote : BOOLEAN, own : Owns]

\* How far a method may be.
Stage(r) ==
    \/ r.method = "login" /\ r.todo = IssueBoth /\ ~r.wrote
    \/ r.method = "login" /\ r.todo = IssueSession /\ r.wrote
    \/ r.method = "refresh" /\ r.todo = RefreshAll /\ ~r.wrote
    \/ r.method = "refresh" /\ r.todo \in {RefreshRest, IssueBoth, IssueSession} /\ r.wrote
    \/ r.method = "reuse" /\ r.todo = EndFamily /\ ~r.wrote
    \/ r.method = "revokeSession" /\ r.todo = EndToken /\ ~r.wrote
    \/ r.method = "revokeSession" /\ r.todo = EndSession /\ r.wrote
    \/ r.method = "logoutAll" /\ r.todo = OutAll /\ ~r.wrote
    \/ r.method = "logoutAll" /\ r.todo = OutSessions /\ r.wrote
    \/ r.method = "changePassword" /\ r.todo = OutTokens /\ ~r.wrote
    \/ r.method = "deleteAccount" /\ r.todo = DeleteAll /\ ~r.wrote
    \/ r.method = "deleteAccount" /\ r.todo \in {OutAll, OutSessions} /\ r.wrote

Issues(r) == r.method \in {"login", "refresh"}

\* What a method has read.
Knows(r) ==
    /\ Issues(r) => r.own.new \in Token /\ r.own.family \in Chain
    /\ r.method \in {"refresh", "reuse", "revokeSession"} =>
         r.own.old \in Token /\ r.own.family \in Chain
    /\ r.method = "refresh" => r.own.found = "live"

Requested == {r \in Shapes : Stage(r) /\ Knows(r)}

-----------------------------------------------------------------------------
(* The invariant                                                           *)

TypeInv ==
    /\ req \in [Request -> {NoRequest} \union Requested]
    /\ token \in [Token -> TokenRow \union {NoToken}]
    /\ sessions \subseteq {t \in Token : token[t] # NoToken}
    /\ account \in {"active", "deleted"}
    /\ forks \in [Chain -> Nat] /\ failures \in Nat

\* The token to be issued is not there before it is inserted, and no other
\* request is about to issue it.
NewInv ==
    /\ \A q \in Request : Issues(req[q]) =>
         (token[req[q].own.new] = NoToken <=> req[q].todo # IssueSession)
    /\ \A p, q \in Request :
         Issues(req[p]) /\ Issues(req[q]) /\ req[p].own.new = req[q].own.new => p = q

\* The token that was found is there, in the family of the request, and it is
\* revoked when its session is to be deleted.
OldInv ==
    \A q \in Request : req[q].method \in {"refresh", "reuse", "revokeSession"} =>
        /\ token[req[q].own.old] # NoToken
        /\ token[req[q].own.old].family = req[q].own.family
        /\ req[q].todo = EndSession => token[req[q].own.old].status = "revoked"

\* A sign-in that has not inserted its token has its family for itself.
ChainInv ==
    \A q \in Request : req[q].method = "login" /\ req[q].todo = IssueBoth =>
        /\ InFamily(req[q].own.family) = {}
        /\ \A p \in Request : Issues(req[p]) /\ req[p].own.family = req[q].own.family => p = q

AllSwept == \A t \in Token : token[t].status = "live" => t \in swept

\* Once a sign-out has revoked the tokens, the live ones are newer.
SweepInv ==
    "revokeAll" \notin cut =>
        /\ (\E q \in Request : req[q].todo = OutSessions) => AllSwept
        /\ account = "deleted" =>
             AllSwept \/ \E q \in Request : req[q].method = "deleteAccount" /\ req[q].todo = OutAll

\* A live token is listed, or about to be.
ListInv ==
    {"createSession", "revokeAll"} \intersect cut = {} =>
        \A t \in Token : token[t].status = "live" /\ t \notin swept =>
            \/ t \in sessions
            \/ \E q \in Request : Issues(req[q]) /\ req[q].todo = IssueSession /\ req[q].own.new = t

BaseInv == TypeInv /\ NewInv /\ OldInv /\ ChainInv

-----------------------------------------------------------------------------
(* Requests and rows                                                       *)

LEMMA TodoFacts ==
    /\ Head(IssueBoth) = "createToken" /\ Head(IssueSession) = "createSession"
    /\ Head(RefreshAll) = "revoke" /\ Head(RefreshRest) = "findUser"
    /\ Head(EndFamily) = "revokeFamily" /\ Head(EndToken) = "revoke"
    /\ Head(EndSession) = "deleteSession" /\ Head(OutAll) = "revokeAll"
    /\ Head(OutSessions) = "deleteAll" /\ Head(OutTokens) = "revokeAll"
    /\ Head(DeleteAll) = "softDelete"
    /\ Len(IssueBoth) = 2 /\ Len(IssueSession) = 1 /\ Len(RefreshAll) = 4
    /\ Len(RefreshRest) = 3 /\ Len(EndFamily) = 1 /\ Len(EndToken) = 2
    /\ Len(EndSession) = 1 /\ Len(OutAll) = 2 /\ Len(OutSessions) = 1
    /\ Len(OutTokens) = 1 /\ Len(DeleteAll) = 3
    /\ Tail(IssueBoth) = IssueSession /\ Tail(RefreshAll) = RefreshRest
    /\ Tail(RefreshRest) = IssueBoth /\ Tail(EndToken) = EndSession
    /\ Tail(OutAll) = OutSessions /\ Tail(DeleteAll) = OutAll
<1>1. /\ Head(IssueBoth) = "createToken" /\ Head(IssueSession) = "createSession"
      /\ Head(RefreshAll) = "revoke" /\ Head(RefreshRest) = "findUser"
      /\ Head(EndFamily) = "revokeFamily" /\ Head(EndToken) = "revoke"
  BY DEF IssueBoth, IssueSession, RefreshAll, RefreshRest, EndFamily, EndToken
<1>2. /\ Head(EndSession) = "deleteSession" /\ Head(OutAll) = "revokeAll"
      /\ Head(OutSessions) = "deleteAll" /\ Head(OutTokens) = "revokeAll"
      /\ Head(DeleteAll) = "softDelete"
  BY DEF EndSession, OutAll, OutSessions, OutTokens, DeleteAll
<1>3. /\ Len(IssueBoth) = 2 /\ Len(IssueSession) = 1 /\ Len(RefreshAll) = 4
      /\ Len(RefreshRest) = 3 /\ Len(EndFamily) = 1 /\ Len(EndToken) = 2
  BY DEF IssueBoth, IssueSession, RefreshAll, RefreshRest, EndFamily, EndToken
<1>4. /\ Len(EndSession) = 1 /\ Len(OutAll) = 2 /\ Len(OutSessions) = 1
      /\ Len(OutTokens) = 1 /\ Len(DeleteAll) = 3
  BY DEF EndSession, OutAll, OutSessions, OutTokens, DeleteAll
<1>5. /\ Tail(IssueBoth) = IssueSession /\ Tail(RefreshAll) = RefreshRest
      /\ Tail(RefreshRest) = IssueBoth
  BY DEF IssueBoth, IssueSession, RefreshAll, RefreshRest
<1>6. /\ Tail(EndToken) = EndSession
      /\ Tail(OutAll) = OutSessions /\ Tail(DeleteAll) = OutAll
  BY DEF EndToken, EndSession, OutAll, OutSessions, DeleteAll
<1>7. QED
  BY <1>1, <1>2, <1>3, <1>4, <1>5, <1>6

\* Two of them differ in the first call or in the number of calls.
LEMMA TodosDiffer ==
    /\ \A t \in Todos : t # <<>>
    /\ IssueSession \notin {IssueBoth, RefreshAll, RefreshRest, EndFamily, EndToken, EndSession,
                            OutAll, OutSessions, OutTokens, DeleteAll}
    /\ IssueBoth \notin {RefreshAll, RefreshRest, EndFamily, EndToken, EndSession,
                         OutAll, OutSessions, OutTokens, DeleteAll}
    /\ RefreshAll \notin {RefreshRest, EndFamily, EndToken, EndSession,
                          OutAll, OutSessions, OutTokens, DeleteAll}
    /\ RefreshRest \notin {EndFamily, EndToken, EndSession,
                           OutAll, OutSessions, OutTokens, DeleteAll}
    /\ EndFamily \notin {EndToken, EndSession, OutAll, OutSessions, OutTokens, DeleteAll}
    /\ EndToken \notin {EndSession, OutAll, OutSessions, OutTokens, DeleteAll}
    /\ EndSession \notin {OutAll, OutSessions, OutTokens, DeleteAll}
    /\ OutAll \notin {OutSessions, OutTokens, DeleteAll}
    /\ OutSessions \notin {OutTokens, DeleteAll} /\ OutTokens # DeleteAll
<1>1. \A t \in Todos : t # <<>>
  BY DEF Todos, IssueBoth, IssueSession, RefreshAll, RefreshRest, EndFamily, EndToken,
         EndSession, OutAll, OutSessions, OutTokens, DeleteAll
<1>2. IssueSession \notin {IssueBoth, RefreshAll, RefreshRest, EndFamily, EndToken,
                           EndSession, OutAll, OutSessions, OutTokens, DeleteAll}
  BY TodoFacts
<1>3. IssueBoth \notin {RefreshAll, RefreshRest, EndFamily, EndToken, EndSession,
                        OutAll, OutSessions, OutTokens, DeleteAll}
  BY TodoFacts
<1>4. RefreshAll \notin {RefreshRest, EndFamily, EndToken, EndSession, OutAll,
                         OutSessions, OutTokens, DeleteAll}
  BY TodoFacts
<1>5. RefreshRest \notin {EndFamily, EndToken, EndSession, OutAll, OutSessions,
                          OutTokens, DeleteAll}
  BY TodoFacts
<1>6. EndFamily \notin {EndToken, EndSession, OutAll, OutSessions, OutTokens, DeleteAll}
  BY TodoFacts
<1>7. EndToken \notin {EndSession, OutAll, OutSessions, OutTokens, DeleteAll}
  BY TodoFacts
<1>8. EndSession \notin {OutAll, OutSessions, OutTokens, DeleteAll}
  BY TodoFacts
<1>9. OutAll \notin {OutSessions, OutTokens, DeleteAll}
  <2>1. Len(OutAll) = 2 /\ Len(OutSessions) = 1 /\ Len(OutTokens) = 1 /\ Len(DeleteAll) = 3
    BY TodoFacts
  <2>2. QED
    BY <2>1
<1>10. OutSessions \notin {OutTokens, DeleteAll}
  BY TodoFacts
<1>11. OutTokens \notin {DeleteAll}
  BY TodoFacts
<1>12. QED
  BY <1>1, <1>2, <1>3, <1>4, <1>5, <1>6, <1>7, <1>8, <1>9, <1>10, <1>11

LEMMA NoRequestFacts ==
    /\ NoRequest.method = "none" /\ NoRequest.todo = <<>> /\ ~NoRequest.wrote
    /\ NoRequest \notin Requested /\ ~Issues(NoRequest)
  BY DEF NoRequest, Requested, Shapes, TokenMethod, Issues

LEMMA RowFacts ==
    /\ NoToken \notin TokenRow /\ NoToken.status = "absent" /\ NoToken.family = NoChain
    /\ \A row \in TokenRow : row.status \in {"live", "revoked"} /\ row.family \in Chain
    /\ \A row \in TokenRow : [row EXCEPT !.status = "revoked"] \in TokenRow
    /\ \A row \in TokenRow : [row EXCEPT !.status = "revoked"].family = row.family
    /\ \A row \in TokenRow : [row EXCEPT !.status = "revoked"].status = "revoked"
    /\ \A f \in Chain : [status |-> "live", family |-> f] \in TokenRow
  BY DEF NoToken, TokenRow

\* The fields of a request in progress.
LEMMA RequestFacts ==
    ASSUME TypeInv, NEW q \in Request
    PROVE  /\ Idle(q) <=> req[q] = NoRequest
           /\ ~Idle(q) => req[q] \in Requested
           /\ req[q] \in Requested =>
                /\ req[q].method \in TokenMethod /\ req[q].todo \in Todos
                /\ req[q].wrote \in BOOLEAN /\ req[q].own \in Owns
                /\ Stage(req[q]) /\ Knows(req[q])
           /\ req[q].method \in TokenMethod => req[q] \in Requested
           /\ Issues(req[q]) => req[q].own.new \in Token /\ req[q].own.family \in Chain
<1>1. req[q] \in {NoRequest} \union Requested
  BY DEF TypeInv
<1>2. req[q] \in Requested =>
        /\ req[q].method \in TokenMethod /\ req[q].todo \in Todos
        /\ req[q].wrote \in BOOLEAN /\ req[q].own \in Owns
        /\ Stage(req[q]) /\ Knows(req[q])
  BY DEF Requested, Shapes
<1>3. req[q] \in Requested => req[q].todo # <<>>
  BY <1>2, TodosDiffer
<1>4. NoRequest.method \notin TokenMethod
  BY NoRequestFacts DEF TokenMethod
<1>5. QED
  BY <1>1, <1>2, <1>3, <1>4, NoRequestFacts DEF Idle, Knows

\* Which request makes which call.
LEMMA CallFacts ==
    ASSUME TypeInv, NEW q \in Request
    PROVE  /\ Makes(q, "revoke") =>
                \/ req[q].method = "refresh" /\ req[q].todo = RefreshAll /\ ~req[q].wrote
                \/ req[q].method = "revokeSession" /\ req[q].todo = EndToken
           /\ Makes(q, "findUser") =>
                req[q].method = "refresh" /\ req[q].todo = RefreshRest /\ req[q].wrote
           /\ Makes(q, "createToken") =>
                /\ req[q].todo = IssueBoth
                /\ req[q].method = "login" \/ (req[q].method = "refresh" /\ req[q].wrote)
           /\ Makes(q, "createSession") =>
                Issues(req[q]) /\ req[q].todo = IssueSession /\ req[q].wrote
           /\ Makes(q, "revokeFamily") => req[q].method = "reuse" /\ req[q].todo = EndFamily
           /\ Makes(q, "deleteSession") =>
                req[q].method = "revokeSession" /\ req[q].todo = EndSession
           /\ Makes(q, "revokeAll") =>
                \/ req[q].method \in {"logoutAll", "deleteAccount"} /\ req[q].todo = OutAll
                \/ req[q].method = "changePassword" /\ req[q].todo = OutTokens
           /\ Makes(q, "deleteAll") =>
                /\ req[q].method \in {"logoutAll", "deleteAccount"}
                /\ req[q].todo = OutSessions /\ req[q].wrote
           /\ Makes(q, "softDelete") =>
                req[q].method = "deleteAccount" /\ req[q].todo = DeleteAll
<1>1. \A c : Makes(q, c) => Stage(req[q]) /\ Head(req[q].todo) = c
  BY RequestFacts DEF Makes
<1>2. Makes(q, "revoke") => req[q].todo \in {RefreshAll, EndToken}
  BY <1>1, TodoFacts DEF Stage
<1>3. Makes(q, "findUser") => req[q].todo = RefreshRest
  BY <1>1, TodoFacts DEF Stage
<1>4. Makes(q, "createToken") => req[q].todo = IssueBoth
  BY <1>1, TodoFacts DEF Stage
<1>5. Makes(q, "createSession") => req[q].todo = IssueSession
  BY <1>1, TodoFacts DEF Stage
<1>6. Makes(q, "revokeFamily") => req[q].todo = EndFamily
  BY <1>1, TodoFacts DEF Stage
<1>7. Makes(q, "deleteSession") => req[q].todo = EndSession
  BY <1>1, TodoFacts DEF Stage
<1>8. Makes(q, "revokeAll") => req[q].todo \in {OutAll, OutTokens}
  BY <1>1, TodoFacts DEF Stage
<1>9. Makes(q, "deleteAll") => req[q].todo = OutSessions
  BY <1>1, TodoFacts DEF Stage
<1>10. Makes(q, "softDelete") => req[q].todo = DeleteAll
  BY <1>1, TodoFacts DEF Stage
<1>11. Stage(req[q]) /\ req[q].todo = RefreshAll => req[q].method = "refresh" /\ ~req[q].wrote
  BY TodosDiffer DEF Stage
<1>12. Stage(req[q]) /\ req[q].todo = RefreshRest => req[q].method = "refresh" /\ req[q].wrote
  BY TodosDiffer DEF Stage
<1>13. Stage(req[q]) /\ req[q].todo = IssueBoth =>
        req[q].method = "login" \/ (req[q].method = "refresh" /\ req[q].wrote)
  BY TodosDiffer DEF Stage
<1>14. Stage(req[q]) /\ req[q].todo = IssueSession => Issues(req[q]) /\ req[q].wrote
  BY TodosDiffer DEF Stage, Issues
<1>15. Stage(req[q]) /\ req[q].todo = EndFamily => req[q].method = "reuse"
  BY TodosDiffer DEF Stage
<1>16. Stage(req[q]) /\ req[q].todo \in {EndToken, EndSession} => req[q].method = "revokeSession"
  BY TodosDiffer DEF Stage
<1>17. Stage(req[q]) /\ req[q].todo = OutAll => req[q].method \in {"logoutAll", "deleteAccount"}
  BY TodosDiffer DEF Stage
<1>18. Stage(req[q]) /\ req[q].todo = OutSessions =>
        req[q].method \in {"logoutAll", "deleteAccount"} /\ req[q].wrote
  BY TodosDiffer DEF Stage
<1>19. Stage(req[q]) /\ req[q].todo = OutTokens => req[q].method = "changePassword"
  BY TodosDiffer DEF Stage
<1>20. Stage(req[q]) /\ req[q].todo = DeleteAll => req[q].method = "deleteAccount"
  BY TodosDiffer DEF Stage
<1>21. /\ Makes(q, "revoke") =>
            \/ req[q].method = "refresh" /\ req[q].todo = RefreshAll /\ ~req[q].wrote
            \/ req[q].method = "revokeSession" /\ req[q].todo = EndToken
       /\ Makes(q, "deleteSession") =>
            req[q].method = "revokeSession" /\ req[q].todo = EndSession
  BY <1>1, <1>2, <1>7, <1>11, <1>16
<1>22. QED
  BY <1>1, <1>3, <1>4, <1>5, <1>6, <1>8, <1>9, <1>10, <1>12, <1>13, <1>14, <1>15,
     <1>17, <1>18, <1>19, <1>20, <1>21

\* What remains of a request that goes on.
LEMMA AdvancedFacts ==
    ASSUME TypeInv, NEW q \in Request, ~Idle(q)
    PROVE  LET next == Advanced(q, req[q].own) IN
           /\ next \in {NoRequest} \union Requested
           /\ Len(req[q].todo) = 1 => next = NoRequest
           /\ Len(req[q].todo) # 1 =>
                /\ next.method = req[q].method /\ next.own = req[q].own /\ next.wrote
                /\ next.todo = Tail(req[q].todo)
<1> DEFINE next == Advanced(q, req[q].own)
<1>1. CASE Len(req[q].todo) = 1
  BY <1>1 DEF Advanced
<1>2. CASE Len(req[q].todo) # 1
  <2>1. next = [req[q] EXCEPT !.todo = Tail(req[q].todo), !.wrote = TRUE, !.own = req[q].own]
    BY <1>2, Zenon DEF Advanced
  <2>2. req[q] \in Requested
    BY RequestFacts
  <2>3. PICK r \in Shapes : r = req[q] /\ Stage(r) /\ Knows(r)
    BY <2>2 DEF Requested
  <2>4. Tail(r.todo) \in Todos
    BY <1>2, <2>3, TodoFacts DEF Stage, Todos
  <2> DEFINE n == [r EXCEPT !.todo = Tail(r.todo), !.wrote = TRUE, !.own = r.own]
  <2>5. /\ n \in Shapes /\ n.method = r.method /\ n.own = r.own /\ n.wrote
        /\ n.todo = Tail(r.todo)
    BY <2>4 DEF Shapes
  <2>6. next = n
    BY <2>1, <2>3
  <2> HIDE DEF n, next
  <2>7. Knows(n)
    BY <2>3, <2>5 DEF Knows, Issues
  <2>8. Stage(n)
    <3>1. r.todo \in {RefreshAll, RefreshRest, IssueBoth, EndToken, OutAll, DeleteAll}
      BY <1>2, <2>3, TodoFacts DEF Stage
    <3>2. QED
      BY <2>3, <2>5, <3>1, TodoFacts, TodosDiffer DEF Stage
  <2>9. n \in Requested
    BY <2>5, <2>7, <2>8 DEF Requested
  <2>10. QED
    BY <1>2, <2>3, <2>5, <2>6, <2>9 DEF next
<1>3. QED
  BY <1>1, <1>2

ReqsTyped == req \in [Request -> {NoRequest} \union Requested]

LEMMA ContinueFacts ==
    ASSUME TypeInv, NEW q \in Request, ~Idle(q), Continue(q)
    PROVE  /\ ReqsTyped' /\ UNCHANGED <<cut, failures>>
           /\ \A p \in Request : p # q => req'[p] = req[p]
           /\ Len(req[q].todo) = 1 => req'[q] = NoRequest
           /\ Len(req[q].todo) # 1 =>
                /\ req'[q].method = req[q].method /\ req'[q].own = req[q].own /\ req'[q].wrote
                /\ req'[q].todo = Tail(req[q].todo)
<1> DEFINE next == Advanced(q, req[q].own)
<1>1. req' = [req EXCEPT ![q] = next] /\ UNCHANGED <<cut, failures>>
  BY DEF Continue, GoOn
<1>2. /\ next \in {NoRequest} \union Requested
      /\ Len(req[q].todo) = 1 => next = NoRequest
      /\ Len(req[q].todo) # 1 =>
           /\ next.method = req[q].method /\ next.own = req[q].own /\ next.wrote
           /\ next.todo = Tail(req[q].todo)
  BY AdvancedFacts
<1> HIDE DEF next
<1>3. req \in [Request -> {NoRequest} \union Requested]
  BY DEF TypeInv
<1>4. ReqsTyped' /\ req'[q] = next /\ \A p \in Request : p # q => req'[p] = req[p]
  BY <1>1, <1>2, <1>3 DEF ReqsTyped
<1>5. QED
  BY <1>1, <1>2, <1>4

\* A request that a failure met ends, or deletes an account all the same.
Failed(p) ==
    /\ \/ req'[p] = NoRequest
       \/ /\ req[p].method = "deleteAccount" /\ req[p].todo = OutAll
          /\ req'[p].method = req[p].method /\ req'[p].own = req[p].own
          /\ req'[p].todo = OutSessions
    /\ req[p].method = "deleteAccount" /\ req[p].todo = OutAll =>
         {"revokeAll"} \intersect Watched \subseteq cut'
    /\ req[p].todo = IssueSession => {"createSession"} \intersect Watched \subseteq cut'

LEMMA LostFacts ==
    ASSUME TypeInv, NEW p \in Request
    PROVE  /\ req[p].method = "deleteAccount" /\ req[p].todo = OutAll =>
                {"revokeAll"} \intersect Watched \subseteq Lost(p)
           /\ req[p].todo = IssueSession => {"createSession"} \intersect Watched \subseteq Lost(p)
<1>1. ASSUME NEW todo, req[p].todo = todo, req[p].wrote
      PROVE  Lost(p) = {todo[i] : i \in DOMAIN todo} \intersect Watched
  BY <1>1 DEF Lost
<1>2. "revokeAll" \in {OutAll[i] : i \in DOMAIN OutAll}
  <2>1. 1 \in DOMAIN OutAll /\ OutAll[1] = "revokeAll"
    BY DEF OutAll
  <2>2. QED
    BY <2>1
<1>3. "createSession" \in {IssueSession[i] : i \in DOMAIN IssueSession}
  <2>1. 1 \in DOMAIN IssueSession /\ IssueSession[1] = "createSession"
    BY DEF IssueSession
  <2>2. QED
    BY <2>1
<1>4. req[p].todo \in Todos => Stage(req[p])
  BY RequestFacts, NoRequestFacts, TodosDiffer
<1>5. /\ req[p].method = "deleteAccount" /\ req[p].todo = OutAll => req[p].wrote
      /\ req[p].todo = IssueSession => req[p].wrote
  BY <1>4, TodosDiffer DEF Stage, Todos
<1>6. QED
  BY <1>1, <1>2, <1>3, <1>5

LEMMA FailureFacts ==
    ASSUME TypeInv, (\E q \in Request : CallFails(q, Ignored(q))) \/ Crash
    PROVE  /\ ReqsTyped' /\ failures' = failures + 1 /\ cut \subseteq cut'
           /\ \A p \in Request : req'[p] = req[p] \/ Failed(p)
<1> DEFINE Goal == /\ ReqsTyped' /\ failures' = failures + 1 /\ cut \subseteq cut'
                   /\ \A p \in Request : req'[p] = req[p] \/ Failed(p)
<1>1. req \in [Request -> {NoRequest} \union Requested]
  BY DEF TypeInv
<1>2. ASSUME Crash PROVE Goal
  <2>1. /\ req' = [p \in Request |-> NoRequest] /\ failures' = failures + 1
        /\ cut' = cut \union UNION {Lost(p) : p \in Request}
    BY <1>2 DEF Crash
  <2>2. \A p \in Request : Lost(p) \subseteq cut'
    BY <2>1
  <2>3. QED
    BY <2>1, <2>2, LostFacts DEF ReqsTyped, Failed
<1>3. ASSUME NEW q \in Request, CallFails(q, Ignored(q)), Head(req[q].todo) \notin Ignored(q)
      PROVE  Goal
  <2>1. /\ req' = [req EXCEPT ![q] = NoRequest] /\ cut' = cut \union Lost(q)
        /\ failures' = failures + 1
    BY <1>3, Zenon DEF CallFails
  <2>2. ReqsTyped' /\ req'[q] = NoRequest /\ \A p \in Request : p # q => req'[p] = req[p]
    BY <1>1, <2>1 DEF ReqsTyped
  <2>3. Failed(q)
    BY <2>1, <2>2, LostFacts DEF Failed
  <2>4. QED
    BY <2>1, <2>2, <2>3
<1>4. ASSUME NEW q \in Request, CallFails(q, Ignored(q)), Head(req[q].todo) \in Ignored(q)
      PROVE  Goal
  <2>1. /\ req' = [req EXCEPT ![q] = Advanced(q, req[q].own)] /\ failures' = failures + 1
        /\ cut' = cut \union ({Head(req[q].todo)} \intersect Watched)
        /\ ~Idle(q)
    BY <1>4, Zenon DEF CallFails
  <2> DEFINE next == Advanced(q, req[q].own)
  <2>2. /\ next \in {NoRequest} \union Requested
        /\ Len(req[q].todo) = 1 => next = NoRequest
        /\ Len(req[q].todo) # 1 =>
             /\ next.method = req[q].method /\ next.own = req[q].own
             /\ next.todo = Tail(req[q].todo)
    BY <2>1, AdvancedFacts
  <2>3. req' = [req EXCEPT ![q] = next]
    BY <2>1
  <2> HIDE DEF next
  <2>4. ReqsTyped' /\ req'[q] = next /\ \A p \in Request : p # q => req'[p] = req[p]
    BY <1>1, <2>2, <2>3 DEF ReqsTyped
  <2>5. \/ req[q].todo \in {EndFamily, IssueSession, OutSessions}
        \/ req[q].method = "deleteAccount" /\ req[q].todo = OutAll
    <3>1. Stage(req[q])
      BY <2>1, RequestFacts
    <3>2. QED
      BY <1>4, <3>1, TodoFacts DEF Stage, Ignored
  <2>6. Failed(q)
    <3>1. CASE req[q].todo \in {EndFamily, OutSessions}
      BY <2>2, <2>4, <3>1, TodoFacts, TodosDiffer DEF Failed
    <3>2. CASE req[q].todo = IssueSession
      BY <2>1, <2>2, <2>4, <3>2, TodoFacts, TodosDiffer DEF Failed
    <3>3. CASE req[q].method = "deleteAccount" /\ req[q].todo = OutAll
      BY <2>1, <2>2, <2>4, <3>3, TodoFacts, TodosDiffer DEF Failed
    <3>4. QED
      BY <2>5, <3>1, <3>2, <3>3
  <2>7. QED
    BY <2>1, <2>4, <2>6
<1>5. QED
  BY <1>2, <1>3, <1>4

-----------------------------------------------------------------------------
(* What steps leave as it is                                               *)

\* Place p holds nothing new: its request is over, or it is the same request,
\* and has not got past the insert of a token.
Keeps(p) ==
    \/ req'[p] = NoRequest
    \/ /\ req'[p].method = req[p].method /\ req'[p].own = req[p].own
       /\ Issues(req[p]) => (req'[p].todo = IssueSession <=> req[p].todo = IssueSession)

\* A row stays as it is, or is revoked.
RowKept(t) ==
    \/ token'[t] = token[t]
    \/ /\ token[t] \in TokenRow /\ token'[t] \in TokenRow
       /\ token'[t].status = "revoked" /\ token'[t].family = token[t].family

LEMMA KeptRows ==
    ASSUME TypeInv, TokensAssumption, NEW t \in Token, RowKept(t)
    PROVE  /\ token'[t] = NoToken <=> token[t] = NoToken
           /\ token'[t].family = token[t].family
           /\ token'[t].status = "live" => token[t].status = "live"
           /\ token[t].status = "revoked" => token'[t].status = "revoked"
  BY RowFacts DEF RowKept, TypeInv

LEMMA RevokedRows ==
    ASSUME TypeInv, NEW T \in SUBSET Token, token' = Revoked(T)
    PROVE  /\ token' \in [Token -> TokenRow \union {NoToken}]
           /\ \A t \in Token : RowKept(t)
           /\ \A t \in T : token'[t].status # "live"
<1>1. token \in [Token -> TokenRow \union {NoToken}]
  BY DEF TypeInv
<1>2. token' = [t \in Token |-> IF t \in T /\ token[t] # NoToken
                                THEN [token[t] EXCEPT !.status = "revoked"] ELSE token[t]]
  BY DEF Revoked
<1>3. ASSUME NEW t \in Token
      PROVE  /\ token'[t] \in TokenRow \union {NoToken} /\ RowKept(t)
             /\ t \in T => token'[t].status # "live"
  <2>1. token[t] \in TokenRow \union {NoToken}
    BY <1>1
  <2>2. CASE t \in T /\ token[t] # NoToken
    <3> DEFINE row == [token[t] EXCEPT !.status = "revoked"]
    <3>1. token'[t] = row
      BY <1>2, <2>2
    <3>2. row \in TokenRow /\ row.family = token[t].family /\ row.status = "revoked"
      BY <2>1, <2>2, RowFacts
    <3> HIDE DEF row
    <3>3. QED
      BY <2>1, <2>2, <3>1, <3>2 DEF RowKept
  <2>3. CASE ~(t \in T /\ token[t] # NoToken)
    <3>1. token'[t] = token[t]
      BY <1>2, <2>3
    <3>2. QED
      BY <2>1, <2>3, <3>1, RowFacts DEF RowKept
  <2>4. QED
    BY <2>2, <2>3
<1>4. QED
  BY <1>2, <1>3

\* A request that goes on, other than by the insert of a token.
LEMMA GoesOnKeeps ==
    ASSUME TypeInv, NEW q \in Request, ~Idle(q), Continue(q), req[q].todo # IssueBoth
    PROVE  \A p \in Request : Keeps(p)
<1>1. /\ \A p \in Request : p # q => req'[p] = req[p]
      /\ Len(req[q].todo) = 1 => req'[q] = NoRequest
      /\ Len(req[q].todo) # 1 =>
           /\ req'[q].method = req[q].method /\ req'[q].own = req[q].own
           /\ req'[q].todo = Tail(req[q].todo)
  BY ContinueFacts
<1>2. req[q].todo \in Todos
  BY RequestFacts
<1>3. Tail(req[q].todo) = IssueSession => req[q].todo \in {IssueBoth} \/ Len(req[q].todo) = 1
  <2>1. CASE req[q].todo \in {RefreshAll, RefreshRest, EndToken, OutAll, DeleteAll}
    BY <2>1, TodoFacts, TodosDiffer
  <2>2. CASE req[q].todo \in {IssueBoth, IssueSession, EndFamily, EndSession, OutSessions,
                              OutTokens}
    BY <2>2, TodoFacts
  <2>3. QED
    BY <1>2, <2>1, <2>2 DEF Todos
<1>4. Len(req[q].todo) # 1 => req[q].todo # IssueSession
  BY TodoFacts
<1>5. Keeps(q)
  BY <1>1, <1>3, <1>4 DEF Keeps
<1>6. QED
  BY <1>1, <1>5 DEF Keeps

LEMMA FailureKeeps ==
    ASSUME TypeInv, NEW p \in Request, req'[p] = req[p] \/ Failed(p)
    PROVE  Keeps(p)
  BY DEF Failed, Keeps, Issues

\* Requests that go on and rows that are revoked keep what is known of them.
LEMMA KeptInv ==
    ASSUME TypeInv, TypeInv', TokensAssumption, NewInv, OldInv, ChainInv,
           \A p \in Request : Keeps(p), \A t \in Token : RowKept(t),
           \A p \in Request : req'[p].method = "revokeSession" /\ req'[p].todo = EndSession =>
             req[p].todo = EndSession \/ token'[req[p].own.old].status = "revoked"
    PROVE  NewInv' /\ OldInv' /\ ChainInv'
<1>1. \A p \in Request : Issues(req[p]) => req[p].own.new \in Token /\ req[p].own.family \in Chain
  BY RequestFacts
<1>2. \A p \in Request : req[p].method \in {"refresh", "reuse", "revokeSession"} =>
        req[p].own.old \in Token
  BY RequestFacts DEF TokenMethod, Knows
<1>3. \A t \in Token :
        /\ token'[t] = NoToken <=> token[t] = NoToken
        /\ token'[t].family = token[t].family
        /\ token[t].status = "revoked" => token'[t].status = "revoked"
  BY KeptRows
<1>4. \A p \in Request : req'[p].method # "none" =>
        /\ req'[p].method = req[p].method /\ req'[p].own = req[p].own
        /\ Issues(req[p]) => (req'[p].todo = IssueSession <=> req[p].todo = IssueSession)
  BY NoRequestFacts DEF Keeps
<1>5. \A p \in Request : Issues(req'[p]) => Issues(req[p]) /\ req'[p].own = req[p].own
  BY <1>4 DEF Issues
<1>6. NewInv'
  BY <1>1, <1>3, <1>4, <1>5 DEF NewInv, Issues
<1>7. OldInv'
  <2> SUFFICES ASSUME NEW p \in Request, req'[p].method \in {"refresh", "reuse", "revokeSession"}
               PROVE  /\ token'[req'[p].own.old] # NoToken
                      /\ token'[req'[p].own.old].family = req'[p].own.family
                      /\ req'[p].todo = EndSession => token'[req'[p].own.old].status = "revoked"
    BY DEF OldInv
  <2>1. req'[p].method = req[p].method /\ req'[p].own = req[p].own
    BY <1>4
  <2>2. /\ token[req[p].own.old] # NoToken
        /\ token[req[p].own.old].family = req[p].own.family
        /\ req[p].todo = EndSession => token[req[p].own.old].status = "revoked"
    BY <2>1 DEF OldInv
  <2>3. req[p].own.old \in Token
    BY <1>2, <2>1
  <2>4. req'[p].todo = EndSession => req'[p].method = "revokeSession"
    <3>1. Stage(req'[p])
      <4>1. req'[p] \in {NoRequest} \union Requested
        BY DEF TypeInv
      <4>2. QED
        BY <4>1, NoRequestFacts DEF Requested
    <3>2. QED
      BY <3>1, TodosDiffer DEF Stage
  <2>5. QED
    BY <1>3, <2>1, <2>2, <2>3, <2>4
<1>8. ChainInv'
  <2> SUFFICES ASSUME NEW q \in Request, req'[q].method = "login", req'[q].todo = IssueBoth
               PROVE  /\ \A t \in Token : token'[t].family # req'[q].own.family
                      /\ \A p \in Request : Issues(req'[p]) /\ req'[p].own.family = req'[q].own.family
                           => p = q
    BY DEF ChainInv, InFamily
  <2>1. req[q].method = "login" /\ req'[q].own = req[q].own /\ req[q].todo # IssueSession
    BY <1>4, TodosDiffer DEF Issues
  <2>2. req[q].todo = IssueBoth
    <3>1. Stage(req[q])
      BY <2>1, RequestFacts DEF TokenMethod
    <3>2. QED
      BY <2>1, <3>1 DEF Stage
  <2>3. /\ InFamily(req[q].own.family) = {}
        /\ \A p \in Request : Issues(req[p]) /\ req[p].own.family = req[q].own.family => p = q
    BY <2>1, <2>2 DEF ChainInv
  <2>4. \A t \in Token : token'[t].family # req[q].own.family
    BY <1>3, <2>3 DEF InFamily
  <2>5. QED
    BY <1>5, <2>1, <2>3, <2>4
<1>9. QED
  BY <1>6, <1>7, <1>8

-----------------------------------------------------------------------------
(* Requests that begin                                                     *)

\* Request q begins, and nothing else changes.
Starts(q) ==
    /\ req[q] = NoRequest /\ req'[q] \in Requested /\ ~req'[q].wrote
    /\ \A p \in Request : p # q => req'[p] = req[p]
    /\ UNCHANGED <<cut, failures, tokenVars>>

LEMMA StartKeeps ==
    ASSUME BaseInv, NEW q \in Request, NEW r \in Requested, Idle(q), ~r.wrote,
           req' = [req EXCEPT ![q] = r], UNCHANGED <<cut, failures, tokenVars>>,
           Issues(r) => /\ token[r.own.new] = NoToken /\ r.todo # IssueSession
                        /\ \A p \in Request : Issues(req[p]) => req[p].own.new # r.own.new,
           r.method \in {"refresh", "reuse", "revokeSession"} =>
             /\ token[r.own.old] # NoToken /\ token[r.own.old].family = r.own.family
             /\ r.todo # EndSession,
           r.method = "login" =>
             /\ InFamily(r.own.family) = {}
             /\ \A p \in Request : Issues(req[p]) => req[p].own.family # r.own.family
    PROVE  BaseInv' /\ Starts(q)
<1> USE DEF BaseInv
<1>1. UNCHANGED <<token, sessions, account, forks>>
  BY DEF tokenVars, tokenTables, tokenGhosts
<1>2. req[q] = NoRequest
  BY RequestFacts
<1>3. req \in [Request -> {NoRequest} \union Requested]
  BY DEF TypeInv
<1>4. /\ ReqsTyped' /\ req'[q] = r
      /\ \A p \in Request : p # q => req'[p] = req[p]
  BY <1>3 DEF ReqsTyped
<1>5. Starts(q)
  BY <1>2, <1>4 DEF Starts
<1>6. TypeInv'
  BY <1>1, <1>4 DEF TypeInv, ReqsTyped
<1>7. NewInv'
  BY <1>1, <1>4 DEF NewInv
<1>8. OldInv'
  BY <1>1, <1>4 DEF OldInv
<1>9. ChainInv'
  <2>1. r.method = "refresh" => r.own.old \in Token /\ Knows(r)
    BY DEF Requested, Knows
  <2>2. \A p \in Request : p # q /\ req[p].method = "login" /\ req[p].todo = IssueBoth /\ Issues(r)
          => req[p].own.family # r.own.family
    <3>1. CASE r.method = "refresh"
      BY <2>1, <3>1 DEF ChainInv, InFamily
    <3>2. CASE r.method = "login"
      BY <3>2 DEF Issues
    <3>3. QED
      BY <3>1, <3>2 DEF Issues
  <2>3. \A f : InFamily(f)' = InFamily(f)
    BY <1>1 DEF InFamily
  <2> SUFFICES ASSUME NEW s \in Request, req'[s].method = "login", req'[s].todo = IssueBoth
               PROVE  /\ InFamily(req'[s].own.family) = {}
                      /\ \A p \in Request : Issues(req'[p]) /\ req'[p].own.family = req'[s].own.family
                           => p = s
    BY <1>1 DEF ChainInv, InFamily
  <2>4. CASE s = q
    BY <1>4, <2>4
  <2>5. CASE s # q
    BY <1>4, <2>2, <2>5 DEF ChainInv
  <2>6. QED
    BY <2>4, <2>5
<1>10. QED
  BY <1>5, <1>6, <1>7, <1>8, <1>9

\* The record of a request that begins.
Begun(m, calls, old, found, new, family) ==
    [method |-> m, todo |-> calls, wrote |-> FALSE,
     own |-> [old |-> old, found |-> found, new |-> new, family |-> family]]

LEMMA BegunFacts ==
    ASSUME NEW m \in TokenMethod, NEW calls \in Todos, NEW old \in Token \union {NoId},
           NEW found \in {"absent", "live", "revoked"}, NEW new \in Token \union {NoId},
           NEW family \in Chain \union {NoChain},
           Stage(Begun(m, calls, old, found, new, family)),
           Knows(Begun(m, calls, old, found, new, family))
    PROVE  LET r == Begun(m, calls, old, found, new, family) IN
           /\ r \in Requested /\ r.method = m /\ r.todo = calls /\ ~r.wrote
           /\ r.own.old = old /\ r.own.found = found /\ r.own.new = new /\ r.own.family = family
<1> DEFINE own == [old |-> old, found |-> found, new |-> new, family |-> family]
<1>1. /\ own \in Owns /\ own.old = old /\ own.found = found /\ own.new = new
      /\ own.family = family
  BY DEF Owns
<1> DEFINE r == Begun(m, calls, old, found, new, family)
<1>2. r = [method |-> m, todo |-> calls, wrote |-> FALSE, own |-> own]
  BY DEF Begun
<1> HIDE DEF own
<1>3. r \in Shapes /\ r.method = m /\ r.todo = calls /\ ~r.wrote /\ r.own = own
  BY <1>1, <1>2 DEF Shapes
<1> HIDE DEF r
<1>4. r \in Requested
  BY <1>3 DEF Requested, r
<1>5. QED
  BY <1>1, <1>3, <1>4 DEF r

\* Which calls the methods make.
LEMMA MethodCalls ==
    /\ IssueCalls = IssueBoth /\ RefreshCalls = RefreshAll
    /\ <<"revokeFamily">> = EndFamily /\ <<"revoke", "deleteSession">> = EndToken
    /\ LogoutAllCalls = OutAll /\ <<"revokeAll">> = OutTokens /\ DeleteCalls = DeleteAll
  BY DEF IssueCalls, IssueBoth, RefreshCalls, RefreshAll, EndFamily, EndToken, LogoutAllCalls,
         OutAll, OutTokens, DeleteCalls, DeleteAll

LEMMA BeginFacts ==
    ASSUME TypeInv, TokensAssumption, NEW q \in Request, NEW m, NEW calls,
           NEW old \in Token \union {NoId}, NEW new, NEW family,
           BeginOnToken(q, m, calls, old, new, family)
    PROVE  \E found \in {"absent", "live", "revoked"} :
             /\ old = NoId => found = "absent"
             /\ old # NoId => found = token[old].status
             /\ req' = [req EXCEPT ![q] = Begun(m, calls, old, found, new, family)]
             /\ Idle(q) /\ UNCHANGED <<cut, failures, tokenVars>>
<1> DEFINE found == IF old = NoId THEN "absent" ELSE token[old].status
<1>1. found \in {"absent", "live", "revoked"}
  <2>1. CASE old = NoId
    BY <2>1
  <2>2. CASE old # NoId
    BY <2>2, RowFacts DEF TypeInv
  <2>3. QED
    BY <2>1, <2>2
<1>2. /\ Begin(q, m, calls, [old |-> old, found |-> found, new |-> new, family |-> family])
      /\ UNCHANGED tokenVars
  BY Zenon DEF BeginOnToken
<1>3. (old = NoId => found = "absent") /\ (old # NoId => found = token[old].status)
  OBVIOUS
<1> HIDE DEF found
<1>4. /\ req' = [req EXCEPT ![q] = Begun(m, calls, old, found, new, family)]
      /\ Idle(q) /\ UNCHANGED <<cut, failures, tokenVars>>
  BY <1>2, Zenon DEF Begin, Begun
<1>5. QED
  BY <1>1, <1>3, <1>4, Zenon

LEMMA LoginStarts ==
    ASSUME BaseInv, TokensAssumption, NEW q \in Request, Login(q)
    PROVE  BaseInv' /\ Starts(q) /\ req'[q].todo = IssueBoth /\ req'[q].method = "login"
           /\ ~Started(req'[q].own.family)
<1>1. PICK t \in NewTokens : \E f \in Chain :
        ~Started(f) /\ BeginOnToken(q, "login", IssueBoth, NoId, t, f)
  BY MethodCalls, Zenon DEF Login
<1>2. PICK f \in Chain : ~Started(f) /\ BeginOnToken(q, "login", IssueBoth, NoId, t, f)
  BY <1>1, Zenon
<1>3. t \in Token /\ token[t] = NoToken /\ ~Using(t)
  BY DEF NewTokens
<1>4. PICK found \in {"absent", "live", "revoked"} :
        /\ NoId = NoId => found = "absent"
        /\ NoId # NoId => found = token[NoId].status
        /\ req' = [req EXCEPT ![q] = Begun("login", IssueBoth, NoId, found, t, f)]
        /\ Idle(q) /\ UNCHANGED <<cut, failures, tokenVars>>
  <2>1. TypeInv /\ NoId \in Token \union {NoId}
    BY DEF BaseInv
  <2>2. QED
    BY <1>2, <2>1, BeginFacts, Zenon
<1> DEFINE r == Begun("login", IssueBoth, NoId, found, t, f)
<1>5. Stage(r) /\ Knows(r)
  BY <1>3 DEF Begun, Stage, Knows, Issues
<1>6. /\ r \in Requested /\ r.method = "login" /\ r.todo = IssueBoth /\ ~r.wrote
      /\ r.own.new = t /\ r.own.family = f
  <2>1. "login" \in TokenMethod /\ IssueBoth \in Todos
    BY DEF TokenMethod, Todos
  <2>2. NoId \in Token \union {NoId} /\ t \in Token \union {NoId} /\ f \in Chain \union {NoChain}
    BY <1>3
  <2>3. r \in Requested
    BY <1>5, <2>1, <2>2, BegunFacts
  <2>4. QED
    BY <2>3 DEF Begun
<1>7. req' = [req EXCEPT ![q] = r]
  BY <1>4
<1> HIDE DEF r
<1>8. \A p \in Request : Issues(req[p]) => req[p].own.new # t /\ req[p].own.family # f
  BY <1>2, <1>3 DEF Using, Started, Doing, Issues, TokenMethod
<1>9. InFamily(f) = {}
  BY <1>2 DEF Started, InFamily
<1>10. IssueBoth # IssueSession
  BY TodosDiffer
<1>11. BaseInv' /\ Starts(q)
  BY <1>3, <1>4, <1>6, <1>7, <1>8, <1>9, <1>10, StartKeeps
<1>12. req'[q] = r
  BY <1>7 DEF BaseInv, TypeInv
<1>13. QED
  BY <1>2, <1>6, <1>11, <1>12

LEMMA RefreshStarts ==
    ASSUME BaseInv, TokensAssumption, NEW q \in Request, RefreshToken(q)
    PROVE  BaseInv' /\ Starts(q) /\ req'[q].todo = RefreshAll /\ req'[q].method = "refresh"
           /\ Started(req'[q].own.family)
<1>1. PICK t \in Token : \E new \in NewTokens :
        Reusable(t) /\ BeginOnToken(q, "refresh", RefreshAll, t, new, token[t].family)
  BY MethodCalls, Zenon DEF RefreshToken
<1>2. PICK new \in NewTokens :
        Reusable(t) /\ BeginOnToken(q, "refresh", RefreshAll, t, new, token[t].family)
  BY <1>1, Zenon
<1>3. new \in Token /\ token[new] = NoToken /\ ~Using(new)
  BY DEF NewTokens
<1> DEFINE f == token[t].family
<1>4. token[t] # NoToken /\ f \in Chain /\ token[t].status = "live" /\ t # NoId
  BY <1>2, RowFacts DEF Reusable, BaseInv, TypeInv, TokensAssumption
<1>5. PICK found \in {"absent", "live", "revoked"} :
        /\ t = NoId => found = "absent"
        /\ t # NoId => found = token[t].status
        /\ req' = [req EXCEPT ![q] = Begun("refresh", RefreshAll, t, found, new, f)]
        /\ Idle(q) /\ UNCHANGED <<cut, failures, tokenVars>>
  <2>1. TypeInv /\ t \in Token \union {NoId}
    BY DEF BaseInv
  <2>2. QED
    BY <1>2, <2>1, BeginFacts, Zenon
<1> DEFINE r == Begun("refresh", RefreshAll, t, found, new, f)
<1>6. Stage(r) /\ Knows(r)
  <2>1. found = "live" /\ t \in Token
    BY <1>4, <1>5
  <2>2. /\ r.method = "refresh" /\ r.todo = RefreshAll /\ ~r.wrote
        /\ r.own.new = new /\ r.own.family = f /\ r.own.old = t /\ r.own.found = "live"
    BY <2>1 DEF Begun
  <2> HIDE DEF r
  <2>3. Stage(r)
    BY <2>2 DEF Stage
  <2>4. Knows(r)
    BY <1>3, <1>4, <2>1, <2>2 DEF Knows
  <2>5. QED
    BY <2>3, <2>4
<1>7. /\ r \in Requested /\ r.method = "refresh" /\ r.todo = RefreshAll /\ ~r.wrote
      /\ r.own.new = new /\ r.own.family = f /\ r.own.old = t
  <2>1. "refresh" \in TokenMethod /\ RefreshAll \in Todos
    BY DEF TokenMethod, Todos
  <2>2. t \in Token \union {NoId} /\ new \in Token \union {NoId} /\ f \in Chain \union {NoChain}
    BY <1>3, <1>4
  <2> HIDE DEF f
  <2>3. r \in Requested
    BY <1>6, <2>1, <2>2, BegunFacts
  <2>4. QED
    BY <2>3 DEF Begun
<1>8. req' = [req EXCEPT ![q] = r]
  BY <1>5
<1> HIDE DEF r
<1>9. \A p \in Request : Issues(req[p]) => req[p].own.new # new
  BY <1>3 DEF Using, Doing, Issues, TokenMethod
<1>10. RefreshAll # IssueSession /\ RefreshAll # EndSession
  BY TodosDiffer
<1>11. BaseInv' /\ Starts(q)
  BY <1>3, <1>4, <1>5, <1>7, <1>8, <1>9, <1>10, StartKeeps
<1>12. req'[q] = r
  BY <1>8 DEF BaseInv, TypeInv
<1>13. QED
  BY <1>7, <1>11, <1>12 DEF Started

\* The other methods issue no token.
LEMMA PlainStarts ==
    ASSUME BaseInv, TokensAssumption, NEW q \in Request, NEW m \in TokenMethod,
           NEW calls \in Todos, NEW old \in Token \union {NoId}, NEW f \in Chain \union {NoChain},
           BeginOnToken(q, m, calls, old, NoId, f),
           \/ m = "reuse" /\ calls = EndFamily
           \/ m = "revokeSession" /\ calls = EndToken
           \/ m = "logoutAll" /\ calls = OutAll
           \/ m = "changePassword" /\ calls = OutTokens
           \/ m = "deleteAccount" /\ calls = DeleteAll,
           m \in {"reuse", "revokeSession"} =>
             old \in Token /\ token[old] # NoToken /\ token[old].family = f
    PROVE  BaseInv' /\ Starts(q) /\ req'[q].own.family = f /\ ~Issues(req'[q])
<1>1. TypeInv
  BY DEF BaseInv
<1>2. PICK found \in {"absent", "live", "revoked"} :
        /\ old = NoId => found = "absent"
        /\ old # NoId => found = token[old].status
        /\ req' = [req EXCEPT ![q] = Begun(m, calls, old, found, NoId, f)]
        /\ Idle(q) /\ UNCHANGED <<cut, failures, tokenVars>>
  BY <1>1, BeginFacts, Zenon
<1> DEFINE r == Begun(m, calls, old, found, NoId, f)
<1>3. r.method = m /\ r.todo = calls /\ ~r.wrote /\ r.own.old = old /\ r.own.family = f
  BY DEF Begun
<1>4. m \in {"reuse", "revokeSession"} => f \in Chain
  BY <1>1, RowFacts DEF TypeInv
<1>5. Stage(r)
  BY <1>3 DEF Stage
<1>6. Knows(r)
  BY <1>3, <1>4 DEF Knows, Issues
<1>7. r \in Requested
  BY <1>5, <1>6, BegunFacts
<1>8. req' = [req EXCEPT ![q] = r]
  BY <1>2
<1> HIDE DEF r
<1>9. ~Issues(r) /\ calls # EndSession
  BY <1>3, TodosDiffer DEF Issues
<1>10. BaseInv' /\ Starts(q)
  BY <1>2, <1>3, <1>7, <1>8, <1>9, StartKeeps DEF Issues
<1>11. req'[q] = r
  BY <1>1, <1>8 DEF TypeInv
<1>12. QED
  BY <1>3, <1>9, <1>10, <1>11

LEMMA OthersStart ==
    ASSUME BaseInv, TokensAssumption, NEW q \in Request,
           \/ ReuseToken(q) \/ RevokeSession(q)
           \/ LogoutAllSessions(q) \/ ChangePassword(q) \/ SoftDeleteUser(q)
    PROVE  /\ BaseInv' /\ Starts(q) /\ ~Issues(req'[q])
           /\ req'[q].own.family \in Chain => Started(req'[q].own.family)
<1> DEFINE Goal == /\ BaseInv' /\ Starts(q) /\ ~Issues(req'[q])
                   /\ req'[q].own.family \in Chain => Started(req'[q].own.family)
<1>1. {EndFamily, EndToken, OutAll, OutTokens, DeleteAll} \subseteq Todos
  BY DEF Todos
<1>2. ASSUME ReuseToken(q) PROVE Goal
  <2>1. PICK t \in Token :
          token[t].status = "revoked" /\ BeginOnToken(q, "reuse", EndFamily, t, NoId, token[t].family)
    BY <1>2, MethodCalls, Zenon DEF ReuseToken
  <2>2. token[t] # NoToken /\ token[t].family \in Chain
    BY <2>1, RowFacts DEF BaseInv, TypeInv
  <2>3. QED
    BY <1>1, <2>1, <2>2, PlainStarts DEF TokenMethod, Started
<1>3. ASSUME RevokeSession(q) PROVE Goal
  <2>1. PICK t \in sessions : BeginOnToken(q, "revokeSession", EndToken, t, NoId, token[t].family)
    BY <1>3, MethodCalls, Zenon DEF RevokeSession
  <2>2. t \in Token /\ token[t] # NoToken /\ token[t].family \in Chain
    BY RowFacts DEF BaseInv, TypeInv
  <2>3. QED
    BY <1>1, <2>1, <2>2, PlainStarts DEF TokenMethod, Started
<1>4. ASSUME LogoutAllSessions(q) PROVE Goal
  <2>1. BeginOnToken(q, "logoutAll", OutAll, NoId, NoId, NoChain)
    BY <1>4, MethodCalls, Zenon DEF LogoutAllSessions, BeginForUser
  <2>2. QED
    BY <1>1, <2>1, PlainStarts DEF TokenMethod, TokensAssumption
<1>5. ASSUME ChangePassword(q) PROVE Goal
  <2>1. BeginOnToken(q, "changePassword", OutTokens, NoId, NoId, NoChain)
    BY <1>5, MethodCalls, Zenon DEF ChangePassword, BeginForUser
  <2>2. QED
    BY <1>1, <2>1, PlainStarts DEF TokenMethod, TokensAssumption
<1>6. ASSUME SoftDeleteUser(q) PROVE Goal
  <2>1. BeginOnToken(q, "deleteAccount", DeleteAll, NoId, NoId, NoChain)
    BY <1>6, MethodCalls, Zenon DEF SoftDeleteUser, BeginForUser
  <2>2. QED
    BY <1>1, <2>1, PlainStarts DEF TokenMethod, TokensAssumption
<1>7. QED
  BY <1>2, <1>3, <1>4, <1>5, <1>6

-----------------------------------------------------------------------------
(* Calls                                                                   *)

\* What the insert of a token changes.
Inserts(q) ==
    LET new == req[q].own.new
        f   == req[q].own.family IN
    /\ Issues(req[q]) /\ req[q].todo = IssueBoth
    /\ req'[q].method = req[q].method /\ req'[q].own = req[q].own
    /\ req'[q].todo = IssueSession
    /\ \A p \in Request : p # q => req'[p] = req[p]
    /\ new \in Token /\ token[new] = NoToken /\ f \in Chain
    /\ token'[new] \in TokenRow /\ token'[new].family = f /\ token'[new].status = "live"
    /\ \A t \in Token : t # new => token'[t] = token[t]
    /\ swept' = IF SigningOut \/ account = "deleted" THEN swept \union {new} ELSE swept
    /\ UNCHANGED <<sessions, account, forks, ended, cut, failures>>

LEMMA InsertFacts ==
    ASSUME BaseInv, NEW q \in Request, CreateToken(q)
    PROVE  BaseInv' /\ Inserts(q)
<1> USE DEF BaseInv
<1> DEFINE new == req[q].own.new
           f   == req[q].own.family
           row == [status |-> "live", family |-> f]
<1>1. /\ ~Idle(q) /\ Makes(q, "createToken") /\ Continue(q)
      /\ token' = [token EXCEPT ![new] = row]
      /\ swept' = IF SigningOut \/ account = "deleted" THEN swept \union {new} ELSE swept
      /\ UNCHANGED <<sessions, account, forks, ended>>
  BY Zenon DEF CreateToken, Makes
<1>2. req[q].todo = IssueBoth /\ Issues(req[q])
  BY <1>1, CallFacts DEF Issues
<1>3. new \in Token /\ f \in Chain
  BY <1>2, RequestFacts
<1>4. token[new] = NoToken
  BY <1>2, TodosDiffer DEF NewInv
<1>5. row \in TokenRow /\ row.family = f /\ row.status = "live"
  BY <1>3 DEF TokenRow
<1> HIDE DEF row
<1>6. /\ ReqsTyped' /\ UNCHANGED <<cut, failures>>
      /\ \A p \in Request : p # q => req'[p] = req[p]
      /\ req'[q].method = req[q].method /\ req'[q].own = req[q].own
      /\ req'[q].todo = IssueSession
  <2>1. Len(req[q].todo) # 1 /\ Tail(req[q].todo) = IssueSession
    BY <1>2, TodoFacts
  <2>2. TypeInv /\ ~Idle(q) /\ Continue(q)
    BY <1>1
  <2>3. QED
    BY <2>1, <2>2, ContinueFacts
<1>7. /\ token'[new] = row /\ \A t \in Token : t # new => token'[t] = token[t]
      /\ token' \in [Token -> TokenRow \union {NoToken}]
  BY <1>1, <1>3, <1>5 DEF TypeInv
<1>8. TypeInv'
  BY <1>1, <1>6, <1>7, <1>5, RowFacts DEF TypeInv, ReqsTyped
<1>9. Inserts(q)
  BY <1>1, <1>2, <1>3, <1>4, <1>5, <1>6, <1>7 DEF Inserts
<1>10. \A p \in Request : Issues(req[p]) => req[p].own.new \in Token
  BY RequestFacts
<1>11. NewInv'
  BY <1>2, <1>3, <1>4, <1>5, <1>6, <1>7, <1>10, RowFacts DEF NewInv, Issues
<1>12. OldInv'
  <2>1. \A p \in Request : req[p].method \in {"refresh", "reuse", "revokeSession"} =>
          req[p].own.old \in Token /\ req[p].own.old # new
    BY <1>4, RequestFacts DEF OldInv, TokenMethod, Knows
  <2>2. IssueSession # EndSession
    BY TodosDiffer
  <2>3. QED
    BY <1>6, <1>7, <2>1, <2>2 DEF OldInv
<1>13. ChainInv'
  <2>1. \A p \in Request : req'[p].method = "login" /\ req'[p].todo = IssueBoth =>
          p # q /\ req'[p] = req[p] /\ req[p].own.family # f
    BY <1>2, <1>6, TodosDiffer DEF ChainInv
  <2>2. QED
    BY <1>5, <1>6, <1>7, <2>1 DEF ChainInv, InFamily, Issues
<1>14. QED
  BY <1>8, <1>9, <1>11, <1>12, <1>13

\* What every other call leaves as it is.
Kept ==
    /\ \A p \in Request : Keeps(p)
    /\ \A t \in Token : RowKept(t)
    /\ UNCHANGED <<swept, cut, failures>>

LEMMA SameRows ==
    ASSUME UNCHANGED token
    PROVE  \A t \in Token : RowKept(t)
  BY DEF RowKept

\* A call that revokes no token of its own.
LEMMA CallKeeps ==
    ASSUME BaseInv, TokensAssumption, NEW q \in Request, ~Idle(q), Continue(q),
           req[q].todo \notin {IssueBoth, EndToken},
           token' \in [Token -> TokenRow \union {NoToken}], \A t \in Token : RowKept(t),
           sessions' \subseteq {t \in Token : token[t] # NoToken},
           account' \in {"active", "deleted"}, forks' \in [Chain -> Nat]
    PROVE  BaseInv' /\ \A p \in Request : Keeps(p)
<1>1. /\ ReqsTyped' /\ UNCHANGED <<cut, failures>> /\ \A p \in Request : p # q => req'[p] = req[p]
      /\ Len(req[q].todo) = 1 => req'[q] = NoRequest
      /\ Len(req[q].todo) # 1 => req'[q].todo = Tail(req[q].todo)
  BY ContinueFacts DEF BaseInv
<1>2. \A p \in Request : Keeps(p)
  BY GoesOnKeeps DEF BaseInv
<1>3. \A t \in Token : token'[t] = NoToken <=> token[t] = NoToken
  BY KeptRows DEF BaseInv
<1>4. TypeInv'
  BY <1>1, <1>3 DEF BaseInv, TypeInv, ReqsTyped
<1>5. Len(req[q].todo) # 1 => Tail(req[q].todo) # EndSession
  <2>1. req[q].todo \in Todos
    BY RequestFacts DEF BaseInv
  <2>2. CASE req[q].todo \in {RefreshAll, RefreshRest, OutAll, DeleteAll}
    BY <2>2, TodoFacts, TodosDiffer
  <2>3. CASE req[q].todo \in {IssueSession, EndFamily, EndSession, OutSessions, OutTokens}
    BY <2>3, TodoFacts
  <2>4. QED
    BY <2>1, <2>2, <2>3 DEF Todos
<1>6. \A p \in Request : req'[p].method = "revokeSession" /\ req'[p].todo = EndSession =>
        req[p].todo = EndSession \/ token'[req[p].own.old].status = "revoked"
  BY <1>1, <1>5, NoRequestFacts
<1>7. NewInv' /\ OldInv' /\ ChainInv'
  BY <1>2, <1>4, <1>6, KeptInv DEF BaseInv
<1>8. QED
  BY <1>2, <1>4, <1>7 DEF BaseInv

LEMMA RevokeKeeps ==
    ASSUME BaseInv, TokensAssumption, NEW q \in Request, Revoke(q)
    PROVE  BaseInv' /\ Kept
<1> USE DEF BaseInv
<1> DEFINE own == req[q].own
<1>1. /\ ~Idle(q) /\ Makes(q, "revoke") /\ Continue(q) /\ token' = Revoked({own.old})
      /\ forks' = IF req[q].method = "refresh" /\ token[own.old].status = "revoked"
                  THEN [forks EXCEPT ![own.family] = @ + 1] ELSE forks
      /\ UNCHANGED <<sessions, account, swept>>
  BY Zenon DEF Revoke, Makes
<1>2. /\ req[q].todo \in {RefreshAll, EndToken}
      /\ req[q].method \in {"refresh", "revokeSession"}
  BY <1>1, CallFacts
<1>3. own.old \in Token /\ own.family \in Chain
  BY <1>2, RequestFacts DEF TokenMethod, Knows
<1>4. /\ token' \in [Token -> TokenRow \union {NoToken}] /\ \A t \in Token : RowKept(t)
      /\ token'[own.old].status # "live"
  BY <1>1, <1>3, RevokedRows
<1>5. forks' \in [Chain -> Nat]
  BY <1>1, <1>3 DEF TypeInv
<1>6. UNCHANGED <<cut, failures>>
  BY <1>1, ContinueFacts
<1>7. CASE req[q].todo # EndToken
  <2>1. req[q].todo \notin {IssueBoth, EndToken}
    BY <1>2, <1>7, TodosDiffer
  <2>2. QED
    BY <1>1, <1>4, <1>5, <1>6, <2>1, CallKeeps DEF TypeInv, Kept
<1>8. CASE req[q].todo = EndToken
  <2>1. /\ ReqsTyped' /\ \A p \in Request : p # q => req'[p] = req[p]
    BY <1>1, ContinueFacts
  <2>2. req[q].todo # IssueBoth
    BY <1>8, TodosDiffer
  <2>3. \A p \in Request : Keeps(p)
    BY <1>1, <2>2, GoesOnKeeps
  <2>4. \A t \in Token : token'[t] = NoToken <=> token[t] = NoToken
    BY <1>4, KeptRows
  <2>5. TypeInv'
    BY <1>1, <1>4, <1>5, <1>6, <2>1, <2>4 DEF TypeInv, ReqsTyped
  <2>6. token[own.old] # NoToken
    BY <1>2 DEF OldInv
  <2>7. token'[own.old].status = "revoked"
    BY <1>3, <1>4, <2>4, <2>6, RowFacts
  <2>8. \A p \in Request : req'[p].method = "revokeSession" /\ req'[p].todo = EndSession =>
          req[p].todo = EndSession \/ token'[req[p].own.old].status = "revoked"
    BY <2>1, <2>7
  <2>9. NewInv' /\ OldInv' /\ ChainInv'
    BY <1>4, <2>3, <2>5, <2>8, KeptInv
  <2>10. QED
    BY <1>1, <1>4, <1>6, <2>3, <2>5, <2>9 DEF Kept
<1>9. QED
  BY <1>7, <1>8

LEMMA FindUserKeeps ==
    ASSUME BaseInv, TokensAssumption, NEW q \in Request, FindUser(q)
    PROVE  BaseInv' /\ Kept
<1> USE DEF BaseInv
<1>1. /\ Makes(q, "findUser") /\ ~Idle(q) /\ UNCHANGED tokenVars
      /\ Continue(q) \/ (req' = [req EXCEPT ![q] = NoRequest] /\ UNCHANGED <<cut, failures>>)
  BY Zenon DEF FindUser, Makes
<1>2. UNCHANGED <<token, sessions, account, forks, swept>>
  BY <1>1 DEF tokenVars, tokenTables, tokenGhosts
<1>3. req[q].todo = RefreshRest /\ RefreshRest \notin {IssueBoth, EndToken}
  BY <1>1, CallFacts, TodosDiffer
<1>4. \A t \in Token : RowKept(t)
  BY <1>2 DEF RowKept
<1>5. CASE Continue(q)
  <2>1. UNCHANGED <<cut, failures>>
    BY <1>1, <1>5, ContinueFacts
  <2>2. BaseInv' /\ \A p \in Request : Keeps(p)
    BY <1>1, <1>2, <1>3, <1>4, <1>5, CallKeeps DEF TypeInv
  <2>3. QED
    BY <1>2, <1>4, <2>1, <2>2 DEF Kept
<1>6. CASE req' = [req EXCEPT ![q] = NoRequest] /\ UNCHANGED <<cut, failures>>
  <2>1. /\ ReqsTyped' /\ req'[q] = NoRequest
        /\ \A p \in Request : p # q => req'[p] = req[p]
    BY <1>6 DEF TypeInv, ReqsTyped
  <2>2. \A p \in Request : Keeps(p)
    BY <2>1 DEF Keeps
  <2>3. TypeInv'
    BY <1>2, <1>6, <2>1 DEF TypeInv, ReqsTyped
  <2>4. \A p \in Request : req'[p].method = "revokeSession" /\ req'[p].todo = EndSession =>
          req[p].todo = EndSession \/ token'[req[p].own.old].status = "revoked"
    BY <2>1, NoRequestFacts
  <2>5. NewInv' /\ OldInv' /\ ChainInv'
    BY <1>4, <2>2, <2>3, <2>4, KeptInv
  <2>6. QED
    BY <1>2, <1>4, <1>6, <2>2, <2>3, <2>5 DEF Kept
<1>7. QED
  BY <1>1, <1>5, <1>6

LEMMA OtherCallsKeep ==
    ASSUME BaseInv, TokensAssumption, NEW q \in Request,
           \/ CreateSession(q) \/ RevokeFamily(q) \/ RevokeAllForUser(q)
           \/ DeleteSession(q) \/ DeleteAllForUser(q) \/ SoftDelete(q)
    PROVE  BaseInv' /\ Kept
<1> USE DEF BaseInv
<1>1. ~Idle(q) /\ Continue(q) /\ UNCHANGED <<forks, swept>>
  BY DEF CreateSession, RevokeFamily, RevokeAllForUser, DeleteSession, DeleteAllForUser,
         SoftDelete, Makes, tokenGhosts
<1>2. req[q].todo \in {IssueSession, EndFamily, OutAll, OutTokens, EndSession, OutSessions, DeleteAll}
  BY CallFacts DEF CreateSession, RevokeFamily, RevokeAllForUser, DeleteSession, DeleteAllForUser,
                   SoftDelete
<1>3. req[q].todo \notin {IssueBoth, EndToken}
  BY <1>2, TodosDiffer
<1>4. token' \in [Token -> TokenRow \union {NoToken}] /\ \A t \in Token : RowKept(t)
  <2>1. ASSUME NEW T \in SUBSET Token, token' = Revoked(T)
        PROVE  token' \in [Token -> TokenRow \union {NoToken}] /\ \A t \in Token : RowKept(t)
    BY <2>1, RevokedRows
  <2>2. CASE RevokeFamily(q) \/ RevokeAllForUser(q)
    <3>1. InFamily(req[q].own.family) \in SUBSET Token /\ Token \in SUBSET Token
      BY DEF InFamily
    <3>2. QED
      BY <2>1, <2>2, <3>1 DEF RevokeFamily, RevokeAllForUser
  <2>3. CASE CreateSession(q) \/ DeleteSession(q) \/ DeleteAllForUser(q) \/ SoftDelete(q)
    BY <2>3, SameRows DEF CreateSession, DeleteSession, DeleteAllForUser, SoftDelete, TypeInv
  <2>4. QED
    BY <2>2, <2>3
<1>5. account' \in {"active", "deleted"}
  BY DEF CreateSession, RevokeFamily, RevokeAllForUser, DeleteSession, DeleteAllForUser,
         SoftDelete, TypeInv
<1>6. sessions' \subseteq {t \in Token : token[t] # NoToken}
  <2>1. CASE CreateSession(q)
    <3>1. Issues(req[q]) /\ req[q].todo = IssueSession
      BY <2>1, CallFacts DEF CreateSession
    <3>2. req[q].own.new \in Token /\ token[req[q].own.new] # NoToken
      BY <3>1, RequestFacts DEF NewInv
    <3>3. QED
      BY <2>1, <3>2 DEF CreateSession, TypeInv
  <2>2. CASE RevokeFamily(q) \/ RevokeAllForUser(q) \/ DeleteSession(q) \/ DeleteAllForUser(q)
             \/ SoftDelete(q)
    BY <2>2 DEF RevokeFamily, RevokeAllForUser, DeleteSession, DeleteAllForUser, SoftDelete, TypeInv
  <2>3. QED
    BY <2>1, <2>2
<1>7. UNCHANGED <<cut, failures>>
  BY <1>1, ContinueFacts
<1>8. BaseInv' /\ \A p \in Request : Keeps(p)
  BY <1>1, <1>3, <1>4, <1>5, <1>6, CallKeeps DEF TypeInv
<1>9. QED
  BY <1>1, <1>4, <1>7, <1>8 DEF Kept

\* A failed call, and the end of the process.
Fails == (\E q \in Request : CallFails(q, Ignored(q)) /\ UNCHANGED tokenVars)
         \/ (Crash /\ UNCHANGED tokenVars)

LEMMA FailureStep ==
    ASSUME BaseInv, TokensAssumption, Fails
    PROVE  /\ BaseInv' /\ failures' = failures + 1 /\ cut \subseteq cut'
           /\ \A p \in Request : req'[p] = req[p] \/ Failed(p)
           /\ \A p \in Request : Keeps(p)
           /\ UNCHANGED <<token, sessions, account, forks, ended, swept>>
<1> USE DEF BaseInv
<1>1. UNCHANGED <<token, sessions, account, forks, ended, swept>>
  BY DEF Fails, tokenVars, tokenTables, tokenGhosts
<1>2. /\ ReqsTyped' /\ failures' = failures + 1 /\ cut \subseteq cut'
      /\ \A p \in Request : req'[p] = req[p] \/ Failed(p)
  BY FailureFacts DEF Fails
<1>3. \A p \in Request : Keeps(p)
  BY <1>2, FailureKeeps
<1>4. \A t \in Token : RowKept(t)
  BY <1>1 DEF RowKept
<1>5. TypeInv'
  BY <1>1, <1>2 DEF TypeInv, ReqsTyped
<1>6. \A p \in Request : req'[p].method = "revokeSession" /\ req'[p].todo = EndSession =>
        req[p].todo = EndSession \/ token'[req[p].own.old].status = "revoked"
  BY <1>2, NoRequestFacts DEF Failed
<1>7. NewInv' /\ OldInv' /\ ChainInv'
  BY <1>3, <1>4, <1>5, <1>6, KeptInv
<1>8. QED
  BY <1>1, <1>2, <1>3, <1>5, <1>7

-----------------------------------------------------------------------------
(* The invariant of rows and requests                                      *)

LEMMA BaseInit == RequestsInit /\ TokensInit => BaseInv
<1> SUFFICES ASSUME RequestsInit, TokensInit PROVE BaseInv
  OBVIOUS
<1>1. \A q \in Request : req[q] = NoRequest
  BY DEF RequestsInit
<1>2. TypeInv
  BY DEF RequestsInit, TokensInit, TypeInv
<1>3. NewInv /\ OldInv /\ ChainInv
  BY <1>1, NoRequestFacts DEF NewInv, OldInv, ChainInv
<1>4. QED
  BY <1>2, <1>3 DEF BaseInv

vars == <<requestVars, tokenVars>>

LEMMA BaseStep ==
    ASSUME BaseInv, TokensAssumption, [TokensNext]_vars
    PROVE  BaseInv'
<1>1. CASE UNCHANGED vars
  <2>1. UNCHANGED <<req, cut, failures, token, sessions, account, forks, ended, swept>>
    BY <1>1 DEF vars, requestVars, tokenVars, tokenTables, tokenGhosts
  <2>2. QED
    BY <2>1 DEF BaseInv, TypeInv, NewInv, OldInv, ChainInv, InFamily
<1>2. CASE Fails
  BY <1>2, FailureStep
<1>3. ASSUME NEW q \in Request,
             \/ Login(q) \/ RefreshToken(q) \/ ReuseToken(q) \/ RevokeSession(q)
             \/ LogoutAllSessions(q) \/ ChangePassword(q) \/ SoftDeleteUser(q)
      PROVE  BaseInv'
  BY <1>3, LoginStarts, RefreshStarts, OthersStart
<1>4. ASSUME NEW q \in Request,
             \/ Revoke(q) \/ FindUser(q) \/ CreateToken(q) \/ CreateSession(q) \/ RevokeFamily(q)
             \/ RevokeAllForUser(q) \/ DeleteSession(q) \/ DeleteAllForUser(q) \/ SoftDelete(q)
      PROVE  BaseInv'
  BY <1>4, InsertFacts, RevokeKeeps, FindUserKeeps, OtherCallsKeep
<1>5. QED
  BY <1>1, <1>2, <1>3, <1>4 DEF TokensNext, Fails

-----------------------------------------------------------------------------
(* Families that ended                                                     *)

Unanswered(f) ==
    /\ InFamily(f) # {} /\ Heads(f) = {}
    /\ \A q \in Doing({"refresh"}) : req[q].own.family = f => req[q].own.found # "live"

StaysEnded ==
    \A f \in Chain : Unanswered(f) =>
        {t \in Token : token'[t].family = f /\ token'[t].status = "live"} = {}

LEMMA KeptStaysEnded ==
    ASSUME BaseInv, TokensAssumption, \A t \in Token : RowKept(t)
    PROVE  StaysEnded
<1>1. \A t \in Token : /\ token'[t].family = token[t].family
                       /\ token'[t].status = "live" => token[t].status = "live"
  BY KeptRows DEF BaseInv
<1>2. QED
  BY <1>1 DEF StaysEnded, Unanswered, Heads, InFamily

LEMMA InsertStaysEnded ==
    ASSUME BaseInv, NEW q \in Request, Inserts(q)
    PROVE  StaysEnded
<1> SUFFICES ASSUME NEW f \in Chain, Unanswered(f),
                    NEW t \in Token, token'[t].family = f, token'[t].status = "live"
             PROVE  FALSE
  BY DEF StaysEnded
<1>1. t = req[q].own.new
  BY DEF Inserts, Unanswered, Heads, InFamily
<1>2. Issues(req[q]) /\ req[q].todo = IssueBoth /\ req[q].own.family = f
  BY <1>1 DEF Inserts
<1>3. CASE req[q].method = "login"
  BY <1>2, <1>3 DEF BaseInv, ChainInv, Unanswered
<1>4. CASE req[q].method = "refresh"
  <2>1. req[q].own.found = "live"
    BY <1>4, RequestFacts DEF BaseInv, TokenMethod, Knows
  <2>2. QED
    BY <1>2, <1>4, <2>1 DEF Unanswered, Doing
<1>5. QED
  BY <1>2, <1>3, <1>4 DEF Issues

LEMMA StartRows ==
    ASSUME NEW q \in Request, Starts(q)
    PROVE  \A t \in Token : RowKept(t)
  BY DEF Starts, tokenVars, tokenTables, RowKept

LEMMA StepStaysEnded ==
    ASSUME BaseInv, TokensAssumption, [TokensNext]_vars
    PROVE  StaysEnded
<1>1. CASE UNCHANGED vars
  BY <1>1, SameRows, KeptStaysEnded DEF vars, tokenVars, tokenTables
<1>2. CASE Fails
  BY <1>2, FailureStep, SameRows, KeptStaysEnded
<1>3. ASSUME NEW q \in Request,
             \/ Login(q) \/ RefreshToken(q) \/ ReuseToken(q) \/ RevokeSession(q)
             \/ LogoutAllSessions(q) \/ ChangePassword(q) \/ SoftDeleteUser(q)
      PROVE  StaysEnded
  BY <1>3, LoginStarts, RefreshStarts, OthersStart, StartRows, KeptStaysEnded
<1>4. ASSUME NEW q \in Request, CreateToken(q) PROVE StaysEnded
  BY <1>4, InsertFacts, InsertStaysEnded
<1>5. ASSUME NEW q \in Request,
             \/ Revoke(q) \/ FindUser(q) \/ CreateSession(q) \/ RevokeFamily(q)
             \/ RevokeAllForUser(q) \/ DeleteSession(q) \/ DeleteAllForUser(q) \/ SoftDelete(q)
      PROVE  StaysEnded
  BY <1>5, RevokeKeeps, FindUserKeeps, OtherCallsKeep, KeptStaysEnded DEF Kept
<1>6. QED
  BY <1>1, <1>2, <1>3, <1>4, <1>5 DEF TokensNext, Fails

-----------------------------------------------------------------------------
(* Signing out, and the list of sessions                                   *)

\* Request q is the only one that goes on, by one call or to its end.
Moves(q) ==
    /\ \A p \in Request : p # q => req'[p] = req[p]
    /\ \/ req'[q] = NoRequest
       \/ /\ req'[q].method = req[q].method /\ req'[q].own = req[q].own
          /\ req'[q].todo = Tail(req[q].todo)

LEMMA ContinueMoves ==
    ASSUME TypeInv, NEW q \in Request, ~Idle(q), Continue(q)
    PROVE  Moves(q) /\ UNCHANGED <<cut, failures>> /\ (Len(req[q].todo) = 1 => req'[q] = NoRequest)
  BY ContinueFacts DEF Moves

\* Only a sign-out that revokes the tokens comes to where it deletes the sessions.
LEMMA MovesToSessions ==
    ASSUME TypeInv, NEW q \in Request, ~Idle(q), Moves(q),
           Len(req[q].todo) = 1 => req'[q] = NoRequest, req'[q].todo = OutSessions
    PROVE  req[q].todo = OutAll
<1>1. NoRequest.todo # OutSessions
  BY NoRequestFacts, TodosDiffer DEF Todos
<1>2. Len(req[q].todo) # 1 /\ Tail(req[q].todo) = OutSessions
  BY <1>1 DEF Moves
<1>3. req[q].todo \in Todos
  BY RequestFacts
<1>4. CASE req[q].todo \in {IssueBoth, RefreshAll, RefreshRest, EndToken, DeleteAll}
  BY <1>2, <1>4, TodoFacts, TodosDiffer
<1>5. CASE req[q].todo \in {IssueSession, EndFamily, EndSession, OutSessions, OutTokens}
  BY <1>2, <1>5, TodoFacts
<1>6. QED
  BY <1>3, <1>4, <1>5 DEF Todos

LEMMA SweptStays ==
    ASSUME TypeInv, TokensAssumption, \A t \in Token : RowKept(t), swept' = swept, AllSwept
    PROVE  AllSwept'
<1>1. \A t \in Token : token'[t].status = "live" => token[t].status = "live"
  BY KeptRows
<1>2. QED
  BY <1>1 DEF AllSwept

LEMMA InsertSweeps ==
    ASSUME BaseInv, SweepInv, NEW q \in Request, Inserts(q)
    PROVE  SweepInv'
<1> SUFFICES ASSUME "revokeAll" \notin cut
             PROVE  /\ (\E p \in Request : req'[p].todo = OutSessions) => AllSwept'
                    /\ account' = "deleted" =>
                         AllSwept' \/ \E p \in Request : req'[p].method = "deleteAccount"
                                                         /\ req'[p].todo = OutAll
  BY DEF SweepInv, Inserts
<1>1. AllSwept /\ (SigningOut \/ account = "deleted") => AllSwept'
  BY DEF Inserts, AllSwept
<1>2. \A p \in Request : req'[p].todo = OutSessions => req[p].todo = OutSessions /\ SigningOut
  <2>1. \A p \in Request : req'[p].todo = OutSessions => req[p].todo = OutSessions
    BY TodosDiffer DEF Inserts
  <2>2. ASSUME NEW p \in Request, req[p].todo = OutSessions
        PROVE  req[p].method \in {"logoutAll", "deleteAccount"} /\ req[p].wrote
    <3>1. Stage(req[p])
      BY <2>2, NoRequestFacts, RequestFacts, TodosDiffer DEF BaseInv, TypeInv, Todos
    <3>2. QED
      BY <2>2, <3>1, TodosDiffer DEF Stage
  <2>3. QED
    BY <2>1, <2>2 DEF SigningOut, Doing
<1>3. \A p \in Request : req[p].method = "deleteAccount" => req'[p] = req[p]
  BY DEF Inserts, Issues
<1>4. account' = account
  BY DEF Inserts
<1>5. QED
  BY <1>1, <1>2, <1>3, <1>4 DEF SweepInv

LEMMA StartSweeps ==
    ASSUME BaseInv, TokensAssumption, SweepInv, NEW q \in Request, Starts(q)
    PROVE  SweepInv'
<1>1. UNCHANGED <<token, account, swept, cut>>
  BY DEF Starts, tokenVars, tokenTables, tokenGhosts
<1>2. AllSwept' <=> AllSwept
  BY <1>1 DEF AllSwept
<1>3. req'[q].todo # OutSessions
  <2>1. Stage(req'[q]) /\ ~req'[q].wrote
    BY DEF Starts, Requested
  <2>2. QED
    BY <2>1, TodosDiffer DEF Stage
<1>4. req[q].method # "deleteAccount" /\ \A p \in Request : p # q => req'[p] = req[p]
  BY NoRequestFacts DEF Starts
<1>5. QED
  BY <1>1, <1>2, <1>3, <1>4 DEF SweepInv

LEMMA CallSweeps ==
    ASSUME BaseInv, TokensAssumption, SweepInv, NEW q \in Request,
           \/ Revoke(q) \/ FindUser(q) \/ CreateSession(q) \/ RevokeFamily(q)
           \/ RevokeAllForUser(q) \/ DeleteSession(q) \/ DeleteAllForUser(q) \/ SoftDelete(q)
    PROVE  SweepInv'
<1>1. Kept
  BY RevokeKeeps, FindUserKeeps, OtherCallsKeep
<1>2. TypeInv
  BY DEF BaseInv
<1>3. ~Idle(q)
  BY DEF Revoke, FindUser, CreateSession, RevokeFamily, RevokeAllForUser, DeleteSession,
         DeleteAllForUser, SoftDelete, Makes
<1>4. Moves(q) /\ (Len(req[q].todo) = 1 => req'[q] = NoRequest)
  <2>1. CASE Continue(q)
    BY <1>2, <1>3, <2>1, ContinueMoves
  <2>2. CASE req' = [req EXCEPT ![q] = NoRequest]
    BY <1>2, <2>2 DEF TypeInv, Moves
  <2>3. QED
    BY <2>1, <2>2 DEF Revoke, FindUser, CreateSession, RevokeFamily, RevokeAllForUser,
                      DeleteSession, DeleteAllForUser, SoftDelete
<1>5. AllSwept => AllSwept'
  BY <1>1, <1>2, SweptStays DEF Kept
<1>6. req[q].todo = OutAll => AllSwept'
  <2>1. req[q].todo = OutAll => RevokeAllForUser(q)
    BY <1>2, CallFacts, TodosDiffer
       DEF Revoke, FindUser, CreateSession, RevokeFamily, DeleteSession, DeleteAllForUser, SoftDelete
  <2>2. RevokeAllForUser(q) => \A t \in Token : token'[t].status # "live"
    BY <1>2, RevokedRows DEF RevokeAllForUser
  <2>3. QED
    BY <2>1, <2>2 DEF AllSwept
<1>7. \A p \in Request : req'[p].todo = OutSessions => req[p].todo = OutSessions \/ req[q].todo = OutAll
  BY <1>2, <1>3, <1>4, MovesToSessions DEF Moves
<1>8. account' = "deleted" =>
        \/ account = "deleted"
        \/ req'[q].method = "deleteAccount" /\ req'[q].todo = OutAll
  <2>1. ASSUME SoftDelete(q)
        PROVE  req'[q].method = "deleteAccount" /\ req'[q].todo = OutAll
    <3>1. req[q].method = "deleteAccount" /\ req[q].todo = DeleteAll /\ Continue(q)
      BY <1>2, <2>1, CallFacts DEF SoftDelete
    <3>2. Len(req[q].todo) # 1 /\ Tail(req[q].todo) = OutAll
      BY <3>1, TodoFacts
    <3>3. QED
      BY <1>2, <1>3, <3>1, <3>2, ContinueFacts
  <2>2. QED
    BY <2>1 DEF Revoke, FindUser, CreateSession, RevokeFamily, RevokeAllForUser, DeleteSession,
                DeleteAllForUser, tokenVars, tokenTables
<1>9. \A p \in Request : p # q => req'[p] = req[p]
  BY <1>4 DEF Moves
<1>10. QED
  BY <1>1, <1>5, <1>6, <1>7, <1>8, <1>9 DEF SweepInv, Kept

LEMMA FailureSweeps ==
    ASSUME BaseInv, TokensAssumption, "revokeAll" \in Watched, SweepInv, Fails
    PROVE  SweepInv'
<1>1. /\ cut \subseteq cut' /\ \A p \in Request : req'[p] = req[p] \/ Failed(p)
      /\ UNCHANGED <<token, account, swept>>
  BY FailureStep
<1>2. AllSwept' <=> AllSwept
  BY <1>1 DEF AllSwept
<1>3. \A p \in Request : "revokeAll" \notin cut' /\ req'[p].todo = OutSessions
        => req[p].todo = OutSessions
  BY <1>1, NoRequestFacts, TodosDiffer DEF Failed, Todos
<1>4. \A p \in Request : /\ "revokeAll" \notin cut'
                         /\ req[p].method = "deleteAccount" /\ req[p].todo = OutAll
        => req'[p] = req[p]
  BY <1>1 DEF Failed
<1>5. QED
  BY <1>1, <1>2, <1>3, <1>4 DEF SweepInv

\* A session of t is about to be inserted.
Listing(t) == \E q \in Request : Issues(req[q]) /\ req[q].todo = IssueSession /\ req[q].own.new = t

LEMMA InsertLists ==
    ASSUME BaseInv, ListInv, NEW q \in Request, Inserts(q)
    PROVE  ListInv'
<1> SUFFICES ASSUME {"createSession", "revokeAll"} \intersect cut = {},
                    NEW t \in Token, token'[t].status = "live", t \notin swept'
             PROVE  t \in sessions' \/ Listing(t)'
  BY DEF ListInv, Listing, Inserts
<1>1. CASE t = req[q].own.new
  BY <1>1 DEF Inserts, Listing, Issues
<1>2. CASE t # req[q].own.new
  <2>1. token[t].status = "live" /\ t \notin swept
    BY <1>2 DEF Inserts
  <2>2. t \in sessions \/ Listing(t)
    BY <2>1 DEF ListInv, Listing
  <2>3. Listing(t) => Listing(t)'
    BY TodosDiffer DEF Listing, Inserts
  <2>4. QED
    BY <2>2, <2>3 DEF Inserts
<1>3. QED
  BY <1>1, <1>2

LEMMA StartLists ==
    ASSUME BaseInv, ListInv, NEW q \in Request, Starts(q)
    PROVE  ListInv'
<1>1. UNCHANGED <<token, sessions, swept, cut>>
  BY DEF Starts, tokenVars, tokenTables, tokenGhosts
<1>2. \A t : Listing(t) => Listing(t)'
  BY NoRequestFacts DEF Listing, Starts
<1>3. QED
  BY <1>1, <1>2 DEF ListInv, Listing

LEMMA FailureLists ==
    ASSUME BaseInv, TokensAssumption, "createSession" \in Watched, ListInv, Fails
    PROVE  ListInv'
<1>1. /\ cut \subseteq cut' /\ \A p \in Request : req'[p] = req[p] \/ Failed(p)
      /\ UNCHANGED <<token, sessions, swept>>
  BY FailureStep
<1>2. \A p \in Request : "createSession" \notin cut' /\ req[p].todo = IssueSession => req'[p] = req[p]
  BY <1>1 DEF Failed
<1>3. "createSession" \notin cut' => \A t : Listing(t) => Listing(t)'
  BY <1>2 DEF Listing
<1>4. QED
  BY <1>1, <1>3 DEF ListInv, Listing

LEMMA CallLists ==
    ASSUME BaseInv, TokensAssumption, SweepInv, ListInv, NEW q \in Request,
           \/ Revoke(q) \/ FindUser(q) \/ CreateSession(q) \/ RevokeFamily(q)
           \/ RevokeAllForUser(q) \/ DeleteSession(q) \/ DeleteAllForUser(q) \/ SoftDelete(q)
    PROVE  ListInv'
<1>1. Kept
  BY RevokeKeeps, FindUserKeeps, OtherCallsKeep
<1>2. TypeInv
  BY DEF BaseInv
<1> SUFFICES ASSUME {"createSession", "revokeAll"} \intersect cut = {},
                    NEW t \in Token, token'[t].status = "live", t \notin swept
             PROVE  t \in sessions' \/ Listing(t)'
  BY <1>1 DEF ListInv, Listing, Kept
<1>3. token[t].status = "live" /\ RowKept(t)
  BY <1>1, <1>2, KeptRows DEF Kept
<1>4. t \in sessions \/ Listing(t)
  BY <1>3 DEF ListInv, Listing
<1>5. CASE t \in sessions
  <2>1. CASE DeleteSession(q)
    <3>1. req[q].method = "revokeSession" /\ req[q].todo = EndSession
      BY <1>2, <2>1, CallFacts DEF DeleteSession
    <3>2. token[req[q].own.old].status = "revoked"
      BY <3>1 DEF BaseInv, OldInv
    <3>3. QED
      BY <1>3, <1>5, <2>1, <3>2 DEF DeleteSession
  <2>2. CASE DeleteAllForUser(q)
    <3>1. req[q].todo = OutSessions
      BY <1>2, <2>2, CallFacts DEF DeleteAllForUser
    <3>2. AllSwept
      BY <3>1 DEF SweepInv
    <3>3. QED
      BY <1>3, <3>2 DEF AllSwept
  <2>3. CASE \/ Revoke(q) \/ FindUser(q) \/ CreateSession(q) \/ RevokeFamily(q)
             \/ RevokeAllForUser(q) \/ SoftDelete(q)
    BY <1>5, <2>3 DEF Revoke, FindUser, CreateSession, RevokeFamily, RevokeAllForUser, SoftDelete,
                      tokenVars, tokenTables
  <2>4. QED
    BY <2>1, <2>2, <2>3
<1>6. ASSUME NEW p \in Request, Issues(req[p]), req[p].todo = IssueSession, req[p].own.new = t
      PROVE  t \in sessions' \/ Listing(t)'
  <2>1. CASE p # q
    <3>1. req'[p] = req[p]
      <4>1. CASE Continue(q) /\ ~Idle(q)
        BY <1>2, <2>1, <4>1, ContinueFacts
      <4>2. CASE req' = [req EXCEPT ![q] = NoRequest]
        BY <1>2, <2>1, <4>2 DEF TypeInv
      <4>3. QED
        BY <4>1, <4>2
           DEF Revoke, FindUser, CreateSession, RevokeFamily, RevokeAllForUser, DeleteSession,
               DeleteAllForUser, SoftDelete, Makes
    <3>2. QED
      BY <1>6, <3>1 DEF Listing
  <2>2. CASE p = q
    <3>1. CreateSession(q)
      BY <1>2, <1>6, <2>2, CallFacts, TodosDiffer
         DEF Revoke, FindUser, RevokeFamily, RevokeAllForUser, DeleteSession, DeleteAllForUser,
             SoftDelete
    <3>2. QED
      BY <1>6, <2>2, <3>1 DEF CreateSession
  <2>3. QED
    BY <2>1, <2>2
<1>7. QED
  BY <1>4, <1>5, <1>6 DEF Listing

LEMMA SweepStep ==
    ASSUME BaseInv, TokensAssumption, "revokeAll" \in Watched, SweepInv, [TokensNext]_vars
    PROVE  SweepInv'
<1>1. CASE UNCHANGED vars
  <2>1. UNCHANGED <<req, cut, token, account, swept>>
    BY <1>1 DEF vars, requestVars, tokenVars, tokenTables, tokenGhosts
  <2>2. QED
    BY <2>1 DEF SweepInv, AllSwept
<1>2. CASE Fails
  BY <1>2, FailureSweeps
<1>3. ASSUME NEW q \in Request,
             \/ Login(q) \/ RefreshToken(q) \/ ReuseToken(q) \/ RevokeSession(q)
             \/ LogoutAllSessions(q) \/ ChangePassword(q) \/ SoftDeleteUser(q)
      PROVE  SweepInv'
  BY <1>3, LoginStarts, RefreshStarts, OthersStart, StartSweeps
<1>4. ASSUME NEW q \in Request, CreateToken(q) PROVE SweepInv'
  BY <1>4, InsertFacts, InsertSweeps
<1>5. ASSUME NEW q \in Request,
             \/ Revoke(q) \/ FindUser(q) \/ CreateSession(q) \/ RevokeFamily(q)
             \/ RevokeAllForUser(q) \/ DeleteSession(q) \/ DeleteAllForUser(q) \/ SoftDelete(q)
      PROVE  SweepInv'
  BY <1>5, CallSweeps
<1>6. QED
  BY <1>1, <1>2, <1>3, <1>4, <1>5 DEF TokensNext, Fails

LEMMA ListStep ==
    ASSUME BaseInv, TokensAssumption, "createSession" \in Watched, SweepInv, ListInv,
           [TokensNext]_vars
    PROVE  ListInv'
<1>1. CASE UNCHANGED vars
  <2>1. UNCHANGED <<req, cut, token, sessions, swept>>
    BY <1>1 DEF vars, requestVars, tokenVars, tokenTables, tokenGhosts
  <2>2. QED
    BY <2>1 DEF ListInv
<1>2. CASE Fails
  BY <1>2, FailureLists
<1>3. ASSUME NEW q \in Request,
             \/ Login(q) \/ RefreshToken(q) \/ ReuseToken(q) \/ RevokeSession(q)
             \/ LogoutAllSessions(q) \/ ChangePassword(q) \/ SoftDeleteUser(q)
      PROVE  ListInv'
  BY <1>3, LoginStarts, RefreshStarts, OthersStart, StartLists
<1>4. ASSUME NEW q \in Request, CreateToken(q) PROVE ListInv'
  BY <1>4, InsertFacts, InsertLists
<1>5. ASSUME NEW q \in Request,
             \/ Revoke(q) \/ FindUser(q) \/ CreateSession(q) \/ RevokeFamily(q)
             \/ RevokeAllForUser(q) \/ DeleteSession(q) \/ DeleteAllForUser(q) \/ SoftDelete(q)
      PROVE  ListInv'
  BY <1>5, CallLists
<1>6. QED
  BY <1>1, <1>2, <1>3, <1>4, <1>5 DEF TokensNext, Fails

-----------------------------------------------------------------------------
(* The tokens a family can go on with                                      *)

HeadOk(f) ==
    /\ Cardinality(Heads(f)) + Cardinality(OnTheWay(f)) <= 1 + forks[f]
    /\ Started(f) /\ f \notin ended /\ account = "active" /\ failures = 0
         => Cardinality(Heads(f)) + Cardinality(OnTheWay(f)) >= 1

HeadInv == \A f \in Chain : HeadOk(f)

LEMMA FewerCount ==
    ASSUME NEW H, NEW W, IsFiniteSet(H), IsFiniteSet(W), NEW H2 \in SUBSET H, NEW W2 \in SUBSET W
    PROVE  /\ Cardinality(H) \in Nat /\ Cardinality(W) \in Nat
           /\ Cardinality(H2) \in Nat /\ Cardinality(W2) \in Nat
           /\ Cardinality(H2) + Cardinality(W2) <= Cardinality(H) + Cardinality(W)
<1>1. /\ Cardinality(H) \in Nat /\ Cardinality(W) \in Nat
      /\ Cardinality(H2) \in Nat /\ Cardinality(W2) \in Nat
  BY FS_Subset, FS_CardinalityType
<1>2. Cardinality(H2) <= Cardinality(H) /\ Cardinality(W2) <= Cardinality(W)
  BY FS_Subset
<1>3. QED
  BY <1>1, <1>2

LEMMA HeadsFinite ==
    ASSUME TokensAssumption, RequestsAssumption, NEW f \in Chain
    PROVE  IsFiniteSet(Heads(f)) /\ IsFiniteSet(OnTheWay(f))
<1>1. Heads(f) \subseteq Token /\ OnTheWay(f) \subseteq Request
  BY DEF Heads, InFamily, OnTheWay, Doing
<1>2. QED
  BY <1>1, FS_Subset DEF TokensAssumption, RequestsAssumption

\* Family f gets no token, and loses none unless it ends.
Shrinks(f) ==
    /\ Heads(f)' \subseteq Heads(f) /\ OnTheWay(f)' \subseteq OnTheWay(f)
    /\ \/ Heads(f)' = Heads(f) /\ OnTheWay(f)' = OnTheWay(f)
       \/ f \in ended' \/ account' # "active" \/ failures' # 0
    /\ Started(f)' => Started(f)

\* What ended stays so.
Ends ==
    /\ ended \subseteq ended' /\ failures' \in {failures, failures + 1}
    /\ account' = "active" => account = "active"

LEMMA ShrinkKeeps ==
    ASSUME TypeInv, TokensAssumption, RequestsAssumption, Ends,
           NEW f \in Chain, HeadOk(f), Shrinks(f), forks'[f] = forks[f]
    PROVE  HeadOk(f)'
<1> DEFINE H == Heads(f)  W == OnTheWay(f)  H2 == Heads(f)'  W2 == OnTheWay(f)'
<1>1. IsFiniteSet(H) /\ IsFiniteSet(W) /\ H2 \in SUBSET H /\ W2 \in SUBSET W
  BY HeadsFinite DEF Shrinks
<1>2. forks[f] \in Nat /\ failures \in Nat
  BY DEF TypeInv
<1>3. \/ H2 = H /\ W2 = W
      \/ f \in ended' \/ account' # "active" \/ failures' # 0
  BY DEF Shrinks
<1>4. /\ Cardinality(H) + Cardinality(W) <= 1 + forks[f]
      /\ Started(f) /\ f \notin ended /\ account = "active" /\ failures = 0
           => Cardinality(H) + Cardinality(W) >= 1
  BY DEF HeadOk
<1> SUFFICES /\ Cardinality(H2) + Cardinality(W2) <= 1 + forks'[f]
             /\ Started(f)' /\ f \notin ended' /\ account' = "active" /\ failures' = 0
                  => Cardinality(H2) + Cardinality(W2) >= 1
  BY DEF HeadOk
<1> HIDE DEF H, W, H2, W2
<1>5. /\ Cardinality(H) \in Nat /\ Cardinality(W) \in Nat
      /\ Cardinality(H2) \in Nat /\ Cardinality(W2) \in Nat
      /\ Cardinality(H2) + Cardinality(W2) <= Cardinality(H) + Cardinality(W)
  BY <1>1, FewerCount
<1>6. Cardinality(H2) + Cardinality(W2) <= 1 + forks'[f]
  BY <1>2, <1>4, <1>5
<1>7. ASSUME Started(f)', f \notin ended', account' = "active", failures' = 0
      PROVE  Cardinality(H2) + Cardinality(W2) >= 1
  <2>1. Started(f) /\ f \notin ended /\ account = "active" /\ failures = 0
    BY <1>2, <1>7 DEF Ends, Shrinks
  <2>2. H2 = H /\ W2 = W
    BY <1>3, <1>7
  <2>3. QED
    BY <1>4, <2>1, <2>2
<1>8. QED
  BY <1>6, <1>7

LEMMA KeptHeads ==
    ASSUME BaseInv, TokensAssumption, TypeInv', \A t \in Token : RowKept(t),
           \A p \in Request : Keeps(p), NEW f \in Chain
    PROVE  /\ Heads(f)' \subseteq Heads(f) /\ (Started(f)' => Started(f))
           /\ \A p \in OnTheWay(f)' :
                /\ Issues(req[p]) /\ req[p].own.family = f /\ token[req[p].own.new] = NoToken
                /\ req'[p].method = req[p].method
<1>1. \A t \in Token : /\ token'[t].family = token[t].family
                       /\ token'[t].status = "live" => token[t].status = "live"
                       /\ token'[t] = NoToken <=> token[t] = NoToken
  BY KeptRows DEF BaseInv
<1>2. \A p \in Request : req'[p].method # "none" =>
        req'[p].method = req[p].method /\ req'[p].own = req[p].own
  BY NoRequestFacts DEF Keeps
<1>3. Heads(f)' \subseteq Heads(f)
  BY <1>1 DEF Heads, InFamily
<1>4. Started(f)' => Started(f)
  BY <1>1, <1>2 DEF Started, Doing, TokenMethod
<1>5. ASSUME NEW p \in OnTheWay(f)'
      PROVE  /\ Issues(req[p]) /\ req[p].own.family = f /\ token[req[p].own.new] = NoToken
             /\ req'[p].method = req[p].method
  <2>1. p \in Request /\ req'[p].method \in {"login", "refresh"} /\ req'[p].own.family = f
        /\ token'[req'[p].own.new] = NoToken
    BY DEF OnTheWay, Doing
  <2>2. Issues(req[p]) /\ req'[p].own = req[p].own /\ req'[p].method = req[p].method
    BY <1>2, <2>1 DEF Issues
  <2>3. req[p].own.new \in Token
    BY <2>1, <2>2, RequestFacts DEF BaseInv
  <2>4. QED
    BY <1>1, <2>1, <2>2, <2>3
<1>6. QED
  BY <1>3, <1>4, <1>5

\* The requests that have revoked the token they found.
LEMMA WroteFacts ==
    ASSUME TypeInv, NEW p \in Request, req[p].method = "refresh"
    PROVE  /\ req[p].wrote <=> req[p].todo # RefreshAll
           /\ req[p].todo \in {RefreshAll, RefreshRest, IssueBoth, IssueSession}
<1>1. Stage(req[p])
  BY RequestFacts DEF TokenMethod
<1>2. req[p].todo \in {RefreshAll, RefreshRest, IssueBoth, IssueSession}
  BY <1>1 DEF Stage
<1>3. req[p].todo = RefreshAll => ~req[p].wrote
  BY <1>1, TodosDiffer DEF Stage
<1>4. req[p].todo # RefreshAll => req[p].wrote
  BY <1>1 DEF Stage
<1>5. QED
  BY <1>2, <1>3, <1>4

LEMMA WayFacts ==
    ASSUME TypeInv, NewInv, NEW f \in Chain, NEW p \in Request
    PROVE  p \in OnTheWay(f) <=>
             /\ Issues(req[p]) /\ req[p].own.family = f
             /\ req[p].todo \notin {RefreshAll, IssueSession}
<1>1. Issues(req[p]) => (token[req[p].own.new] = NoToken <=> req[p].todo # IssueSession)
  BY DEF NewInv
<1>2. req[p].method = "login" => req[p].todo # RefreshAll
  <2>1. ASSUME req[p].method = "login" PROVE Stage(req[p])
    BY <2>1, RequestFacts DEF TokenMethod
  <2>2. QED
    BY <2>1, TodosDiffer DEF Stage
<1>3. req[p].method = "refresh" => (req[p].wrote <=> req[p].todo # RefreshAll)
  BY WroteFacts
<1>4. p \in OnTheWay(f) <=>
        /\ Issues(req[p]) /\ req[p].own.family = f /\ token[req[p].own.new] = NoToken
        /\ req[p].wrote \/ req[p].method = "login"
  BY DEF OnTheWay, Doing, Issues
<1>5. CASE req[p].method = "login"
  BY <1>1, <1>2, <1>4, <1>5
<1>6. CASE req[p].method = "refresh"
  BY <1>1, <1>3, <1>4, <1>6
<1>7. QED
  BY <1>4, <1>5, <1>6 DEF Issues

\* Which requests have the next token of a family on its way.
WayInv ==
    \A f \in Chain, p \in Request :
        p \in OnTheWay(f) <=> /\ Issues(req[p]) /\ req[p].own.family = f
                              /\ req[p].todo \notin {RefreshAll, IssueSession}

LEMMA WayHolds == TypeInv /\ NewInv => WayInv
  BY WayFacts DEF WayInv

LEMMA WayBoth ==
    ASSUME BaseInv, BaseInv'
    PROVE  WayInv /\ WayInv'
<1>1. TypeInv /\ NewInv /\ TypeInv' /\ NewInv'
  BY DEF BaseInv
<1>2. QED
  BY <1>1, WayHolds, PTL

\* A call that neither revokes the token of a refresh nor inserts one.
LEMMA MovesOnWay ==
    ASSUME BaseInv, BaseInv', NEW q \in Request, ~Idle(q), Moves(q),
           Len(req[q].todo) = 1 => req'[q] = NoRequest,
           req[q].todo \notin {RefreshAll, IssueBoth}, NEW f \in Chain
    PROVE  /\ OnTheWay(f)' \subseteq OnTheWay(f)
           /\ Continue(q) => OnTheWay(f)' = OnTheWay(f)
<1>1. WayInv /\ WayInv'
  BY WayBoth
<1>2. OnTheWay(f) \subseteq Request /\ OnTheWay(f)' \subseteq Request
  BY DEF OnTheWay, Doing
<1>3. Issues(req[q]) => req[q].todo \in {RefreshRest, IssueSession}
  <2>1. Issues(req[q]) => Stage(req[q])
    BY RequestFacts DEF BaseInv, Issues, TokenMethod
  <2>2. QED
    BY <2>1 DEF Stage, Issues
<1>4. ~Issues(NoRequest)
  BY NoRequestFacts
<1>5. \A p \in OnTheWay(f)' : p \in OnTheWay(f)
  <2> SUFFICES ASSUME NEW p \in OnTheWay(f)'
               PROVE  p \in OnTheWay(f)
    OBVIOUS
  <2>1. p \in Request /\ Issues(req'[p]) /\ req'[p].own.family = f
        /\ req'[p].todo \notin {RefreshAll, IssueSession}
    BY <1>1, <1>2 DEF WayInv
  <2>2. CASE p # q
    BY <1>1, <2>1, <2>2 DEF WayInv, Moves
  <2>3. CASE p = q
    <3>1. req'[q].method = req[q].method /\ req'[q].own = req[q].own /\ Len(req[q].todo) # 1
      BY <1>4, <2>1, <2>3 DEF Moves
    <3>2. Issues(req[q])
      BY <2>1, <2>3, <3>1 DEF Issues
    <3>3. req[q].todo = RefreshRest
      BY <1>3, <3>1, <3>2, TodoFacts
    <3>4. QED
      BY <1>1, <2>1, <2>3, <3>1, <3>2, <3>3, TodosDiffer DEF WayInv
  <2>4. QED
    BY <2>2, <2>3
<1>6. ASSUME Continue(q), NEW p \in OnTheWay(f)
      PROVE  p \in OnTheWay(f)'
  <2>1. p \in Request /\ Issues(req[p]) /\ req[p].own.family = f
        /\ req[p].todo \notin {RefreshAll, IssueSession}
    BY <1>1, <1>2 DEF WayInv
  <2>2. CASE p # q
    BY <1>1, <2>1, <2>2 DEF WayInv, Moves
  <2>3. CASE p = q
    <3>1. req[q].todo = RefreshRest
      BY <1>3, <2>1, <2>3
    <3>2. Len(req[q].todo) # 1 /\ Tail(req[q].todo) = IssueBoth
      BY <3>1, TodoFacts
    <3>3. /\ req'[q].method = req[q].method /\ req'[q].own = req[q].own
          /\ req'[q].todo = IssueBoth
      BY <1>6, <3>2, ContinueFacts DEF BaseInv
    <3>4. IssueBoth \notin {RefreshAll, IssueSession} /\ Issues(req'[q])
      BY <2>1, <2>3, <3>3, TodosDiffer DEF Issues
    <3>5. QED
      BY <1>1, <2>1, <2>3, <3>3, <3>4 DEF WayInv
  <2>4. QED
    BY <2>2, <2>3
<1>7. QED
  BY <1>5, <1>6

\* A row of another family stays as it is.
LEMMA RevokedElsewhere ==
    ASSUME NEW T \in SUBSET Token, NEW f \in Chain, token' = Revoked(T), \A t \in T : token[t].family # f,
           \A t \in Token : RowKept(t)
    PROVE  Heads(f)' = Heads(f)
<1>1. \A t \in Token \ T : token'[t] = token[t]
  BY DEF Revoked
<1>2. \A t \in T : token'[t].family # f
  BY DEF RowKept
<1>3. QED
  BY <1>1, <1>2 DEF Heads, InFamily

LEMMA CallHeads ==
    ASSUME BaseInv, TokensAssumption, NEW q \in Request, NEW f \in Chain,
           \/ FindUser(q) \/ CreateSession(q) \/ RevokeFamily(q)
           \/ RevokeAllForUser(q) \/ DeleteSession(q) \/ DeleteAllForUser(q) \/ SoftDelete(q)
           \/ Revoke(q) /\ req[q].method # "refresh"
    PROVE  Shrinks(f) /\ Ends /\ forks'[f] = forks[f]
<1>1. Kept /\ BaseInv'
  BY RevokeKeeps, FindUserKeeps, OtherCallsKeep
<1>2. TypeInv /\ TypeInv'
  BY <1>1 DEF BaseInv
<1>3. Heads(f)' \subseteq Heads(f) /\ (Started(f)' => Started(f))
  BY <1>1, <1>2, KeptHeads DEF Kept
<1>4. ~Idle(q) /\ (Continue(q) \/ (FindUser(q) /\ account # "active" /\ req' = [req EXCEPT ![q] = NoRequest]))
  BY DEF Revoke, FindUser, CreateSession, RevokeFamily, RevokeAllForUser, DeleteSession,
         DeleteAllForUser, SoftDelete, Makes
<1>5. Moves(q) /\ (Len(req[q].todo) = 1 => req'[q] = NoRequest)
  <2>1. CASE Continue(q)
    BY <1>2, <1>4, <2>1, ContinueMoves
  <2>2. CASE req' = [req EXCEPT ![q] = NoRequest]
    BY <1>2, <2>2 DEF TypeInv, Moves
  <2>3. QED
    BY <1>4, <2>1, <2>2
<1>6. req[q].todo \notin {RefreshAll, IssueBoth}
  BY <1>2, CallFacts, TodosDiffer
     DEF Revoke, FindUser, CreateSession, RevokeFamily, RevokeAllForUser, DeleteSession,
         DeleteAllForUser, SoftDelete
<1>7. OnTheWay(f)' \subseteq OnTheWay(f) /\ (Continue(q) => OnTheWay(f)' = OnTheWay(f))
  BY <1>1, <1>4, <1>5, <1>6, MovesOnWay
<1>8. Ends /\ forks'[f] = forks[f]
  BY <1>1 DEF Ends, Kept, Revoke, FindUser, CreateSession, RevokeFamily, RevokeAllForUser,
              DeleteSession, DeleteAllForUser, SoftDelete, tokenVars, tokenTables, tokenGhosts
<1>9. Heads(f)' = Heads(f) \/ f \in ended'
  <2>1. CASE RevokeAllForUser(q)
    <3>1. CASE f \in Families(Token)
      BY <2>1, <3>1 DEF RevokeAllForUser
    <3>2. CASE f \notin Families(Token)
      <4>1. \A t \in Token : token[t].family # f
        BY <3>2 DEF Families, TokensAssumption
      <4>2. QED
        BY <1>3, <4>1 DEF Heads, InFamily
    <3>3. QED
      BY <3>1, <3>2
  <2>2. CASE RevokeFamily(q)
    <3>1. CASE f = req[q].own.family
      BY <2>2, <3>1 DEF RevokeFamily
    <3>2. CASE f # req[q].own.family
      <4>1. InFamily(req[q].own.family) \in SUBSET Token
            /\ \A t \in InFamily(req[q].own.family) : token[t].family # f
        BY <3>2 DEF InFamily
      <4>2. QED
        BY <1>1, <2>2, <4>1, RevokedElsewhere DEF RevokeFamily, Kept
    <3>3. QED
      BY <3>1, <3>2
  <2>3. CASE Revoke(q) /\ req[q].method # "refresh"
    <3>1. CASE f = req[q].own.family
      BY <2>3, <3>1 DEF Revoke
    <3>2. CASE f # req[q].own.family
      <4>1. req[q].method = "revokeSession"
        BY <1>2, <2>3, CallFacts DEF Revoke
      <4>2. req[q].own.old \in Token /\ token[req[q].own.old].family = req[q].own.family
        BY <1>2, <4>1, RequestFacts DEF TokenMethod, Knows, BaseInv, OldInv
      <4>3. QED
        BY <1>1, <2>3, <3>2, <4>2, RevokedElsewhere DEF Revoke, Kept
    <3>3. QED
      BY <3>1, <3>2
  <2>4. CASE FindUser(q) \/ CreateSession(q) \/ DeleteSession(q) \/ DeleteAllForUser(q) \/ SoftDelete(q)
    <3>1. UNCHANGED token
      BY <2>4 DEF FindUser, CreateSession, DeleteSession, DeleteAllForUser, SoftDelete, tokenVars,
                  tokenTables
    <3>2. QED
      BY <3>1 DEF Heads, InFamily
  <2>5. QED
    BY <2>1, <2>2, <2>3, <2>4
<1>10. Continue(q) \/ account' # "active"
  BY <1>4 DEF FindUser, tokenVars, tokenTables
<1>11. QED
  BY <1>3, <1>7, <1>8, <1>9, <1>10 DEF Shrinks

\* A refresh that revokes its token: from here on the next one is on its way.
LEMMA RefreshHeads ==
    ASSUME BaseInv, TokensAssumption, RequestsAssumption, NEW q \in Request, Revoke(q),
           req[q].method = "refresh", NEW f \in Chain, HeadOk(f)
    PROVE  HeadOk(f)'
<1> DEFINE own == req[q].own
<1>1. BaseInv' /\ Kept
  BY RevokeKeeps
<1>2. WayInv /\ WayInv'
  BY <1>1, WayBoth
<1>3. /\ ~Idle(q) /\ Continue(q) /\ token' = Revoked({own.old})
      /\ forks' = IF token[own.old].status = "revoked"
                  THEN [forks EXCEPT ![own.family] = @ + 1] ELSE forks
      /\ UNCHANGED <<ended, account>>
  BY Zenon DEF Revoke, Makes
<1>4. TypeInv /\ TypeInv'
  BY <1>1 DEF BaseInv
<1>5. req[q].todo = RefreshAll
  <2>1. Makes(q, "revoke")
    BY DEF Revoke
  <2>2. QED
    BY <1>4, <2>1, CallFacts
<1>6. /\ own.old \in Token /\ token[own.old] # NoToken /\ token[own.old].family = own.family
      /\ own.family \in Chain
  BY <1>4, RequestFacts DEF BaseInv, OldInv, TokenMethod, Knows
<1>7. /\ \A p \in Request : p # q => req'[p] = req[p]
      /\ req'[q].method = "refresh" /\ req'[q].own = own /\ req'[q].todo = RefreshRest
  <2>1. Len(req[q].todo) # 1 /\ Tail(req[q].todo) = RefreshRest
    BY <1>5, TodoFacts
  <2>2. QED
    BY <1>3, <1>4, <2>1, ContinueFacts
<1>8. \A t \in Token : RowKept(t)
  BY <1>1 DEF Kept
<1>9. Started(f)' => Started(f)
  BY <1>1, <1>4, <1>8, KeptHeads DEF Kept
<1>10. RefreshRest \notin {RefreshAll, IssueSession}
  BY TodosDiffer
<1>11. OnTheWay(f) \subseteq Request /\ OnTheWay(f)' \subseteq Request
  BY DEF OnTheWay, Doing
<1>12. CASE f # own.family
  <2>1. Heads(f)' = Heads(f)
    BY <1>3, <1>6, <1>8, <1>12, RevokedElsewhere
  <2>2. OnTheWay(f)' = OnTheWay(f)
    <3>1. \A p \in Request : p \in OnTheWay(f)' <=> p \in OnTheWay(f)
      BY <1>2, <1>7, <1>12 DEF WayInv
    <3>2. QED
      BY <1>11, <3>1
  <2>3. forks'[f] = forks[f]
    BY <1>3, <1>6, <1>12 DEF BaseInv, TypeInv
  <2>4. Shrinks(f) /\ Ends
    BY <1>1, <1>3, <1>9, <2>1, <2>2 DEF Shrinks, Ends, Kept
  <2>5. QED
    BY <1>4, <2>3, <2>4, ShrinkKeeps
<1>13. CASE f = own.family
  <2> DEFINE H == Heads(f)  W == OnTheWay(f)
  <2>1. q \notin W /\ OnTheWay(f)' = W \union {q}
    <3>1. q \notin W
      BY <1>2, <1>5 DEF WayInv
    <3>2. \A p \in Request : p \in OnTheWay(f)' <=> p \in W \union {q}
      BY <1>2, <1>7, <1>10, <1>13 DEF WayInv, Issues
    <3>3. QED
      BY <1>11, <3>1, <3>2
  <2>2. Heads(f)' = H \ {own.old}
    <3>1. token'[own.old].status # "live"
      BY <1>3, <1>4, <1>6, RevokedRows
    <3>2. \A t \in Token : t # own.old => token'[t] = token[t]
      BY <1>3 DEF Revoked
    <3>3. QED
      BY <3>1, <3>2 DEF Heads, InFamily
  <2>3. IsFiniteSet(H) /\ IsFiniteSet(W)
    BY HeadsFinite
  <2>4. forks[f] \in Nat /\ failures \in Nat /\ failures' = failures
    BY <1>1 DEF BaseInv, TypeInv, Kept
  <2>5. own.old \in H \/ (own.old \notin H /\ token[own.old].status = "revoked")
    BY <1>6, <1>13, RowFacts DEF BaseInv, TypeInv, Heads, InFamily
  <2>6. forks'[f] = IF token[own.old].status = "revoked" THEN forks[f] + 1 ELSE forks[f]
    BY <1>3, <1>6, <1>13 DEF BaseInv, TypeInv
  <2>7. own.old \in H => token[own.old].status # "revoked"
    BY DEF Heads
  <2>8. /\ Cardinality(H) + Cardinality(W) <= 1 + forks[f]
        /\ Started(f) /\ f \notin ended /\ account = "active" /\ failures = 0
             => Cardinality(H) + Cardinality(W) >= 1
    BY DEF HeadOk
  <2> HIDE DEF H, W
  <2>9. /\ Cardinality(H) \in Nat /\ Cardinality(W) \in Nat
        /\ own.old \in H => Cardinality(H \ {own.old}) + Cardinality(W \union {q})
                              = Cardinality(H) + Cardinality(W)
        /\ own.old \notin H => Cardinality(H \ {own.old}) + Cardinality(W \union {q})
                              = Cardinality(H) + Cardinality(W) + 1
    <3>1. Cardinality(H) \in Nat /\ Cardinality(W) \in Nat
      BY <2>3, FS_CardinalityType
    <3>2. Cardinality(W \union {q}) = Cardinality(W) + 1
      BY <2>1, <2>3, FS_AddElement
    <3>3. own.old \in H => Cardinality(H \ {own.old}) = Cardinality(H) - 1
      BY <2>3, FS_RemoveElement
    <3>4. own.old \notin H => Cardinality(H \ {own.old}) = Cardinality(H)
      <4>1. own.old \notin H => H \ {own.old} = H
        OBVIOUS
      <4>2. QED
        BY <4>1
    <3> DEFINE h == Cardinality(H)  w == Cardinality(W)
               h2 == Cardinality(H \ {own.old})  w2 == Cardinality(W \union {q})
    <3> HIDE DEF h, w, h2, w2
    <3>5. /\ h \in Nat /\ w \in Nat /\ w2 = w + 1
          /\ own.old \in H => h2 = h - 1
          /\ own.old \notin H => h2 = h
      BY <3>1, <3>2, <3>3, <3>4 DEF h, w, h2, w2
    <3>6. (own.old \in H => h2 + w2 = h + w) /\ (own.old \notin H => h2 + w2 = h + w + 1)
      BY <3>5
    <3>7. QED
      BY <3>5, <3>6 DEF h, w, h2, w2
  <2>10. Cardinality(H \ {own.old}) + Cardinality(W \union {q}) <= 1 + forks'[f]
    BY <2>4, <2>5, <2>6, <2>7, <2>8, <2>9
  <2>11. Cardinality(H \ {own.old}) + Cardinality(W \union {q}) >= Cardinality(H) + Cardinality(W)
    BY <2>5, <2>9
  <2>12. /\ Cardinality(Heads(f)') + Cardinality(OnTheWay(f)') <= 1 + forks'[f]
         /\ Cardinality(Heads(f)') + Cardinality(OnTheWay(f)') >= Cardinality(H) + Cardinality(W)
    BY <2>1, <2>2, <2>10, <2>11
  <2>13. Started(f)' /\ f \notin ended' /\ account' = "active" /\ failures' = 0
           => Cardinality(Heads(f)') + Cardinality(OnTheWay(f)') >= 1
    <3>1. Cardinality(Heads(f)') + Cardinality(OnTheWay(f)') \in Nat
      BY <2>1, <2>2, <2>5, <2>9
    <3>2. QED
      BY <1>3, <1>9, <2>4, <2>8, <2>9, <2>12, <3>1
  <2>14. QED
    BY <2>12, <2>13 DEF HeadOk
<1>14. QED
  BY <1>12, <1>13

\* An insert: the token that was on its way is there.
LEMMA InsertHeads ==
    ASSUME BaseInv, BaseInv', TokensAssumption, RequestsAssumption, NEW q \in Request, Inserts(q),
           NEW f \in Chain, HeadOk(f)
    PROVE  HeadOk(f)'
<1> DEFINE new == req[q].own.new
<1>1. WayInv /\ WayInv' /\ TypeInv /\ TypeInv'
  BY WayBoth DEF BaseInv
<1>2. /\ Issues(req[q]) /\ req[q].todo = IssueBoth /\ IssueBoth \notin {RefreshAll, IssueSession}
      /\ req'[q].todo = IssueSession
      /\ \A p \in Request : p # q => req'[p] = req[p]
      /\ new \in Token /\ token[new] = NoToken
      /\ token'[new].family = req[q].own.family /\ token'[new].status = "live"
      /\ \A t \in Token : t # new => token'[t] = token[t]
      /\ UNCHANGED <<account, forks, ended, failures>>
  BY TodosDiffer DEF Inserts
<1>3. OnTheWay(f) \subseteq Request /\ OnTheWay(f)' \subseteq Request
  BY DEF OnTheWay, Doing
<1>4. NoToken.family # f
  BY RowFacts DEF TokensAssumption
<1>5. Started(f)' => Started(f)
  <2>1. \A t \in Token : token'[t].family = f => token[t].family = f \/ req[q].own.family = f
    BY <1>2
  <2>2. \A p \in Request : req'[p].method = req[p].method /\ req'[p].own = req[p].own
    BY DEF Inserts
  <2>3. q \in Doing(TokenMethod)
    BY <1>2 DEF Doing, Issues, TokenMethod
  <2>4. QED
    BY <2>1, <2>2, <2>3 DEF Started, Doing
<1>6. CASE f # req[q].own.family
  <2>1. Heads(f)' = Heads(f)
    BY <1>2, <1>4, <1>6 DEF Heads, InFamily
  <2>2. OnTheWay(f)' = OnTheWay(f)
    <3>1. \A p \in Request : p \in OnTheWay(f)' <=> p \in OnTheWay(f)
      BY <1>1, <1>2, <1>6 DEF WayInv
    <3>2. QED
      BY <1>3, <3>1
  <2>3. Shrinks(f) /\ Ends /\ forks'[f] = forks[f]
    BY <1>2, <1>5, <2>1, <2>2 DEF Shrinks, Ends
  <2>4. QED
    BY <1>1, <2>3, ShrinkKeeps
<1>7. CASE f = req[q].own.family
  <2> DEFINE H == Heads(f)  W == OnTheWay(f)
  <2>1. q \in W /\ OnTheWay(f)' = W \ {q}
    <3>1. q \in W
      BY <1>1, <1>2, <1>7 DEF WayInv
    <3>2. \A p \in Request : p \in OnTheWay(f)' <=> p \in W \ {q}
      BY <1>1, <1>2, <1>7 DEF WayInv
    <3>3. QED
      BY <1>3, <3>1, <3>2
  <2>2. new \notin H /\ Heads(f)' = H \union {new}
    <3>1. new \notin H
      BY <1>2, <1>4 DEF Heads, InFamily
    <3>2. QED
      BY <1>2, <1>7, <3>1 DEF Heads, InFamily
  <2>3. IsFiniteSet(H) /\ IsFiniteSet(W)
    BY HeadsFinite
  <2>4. /\ Cardinality(H) + Cardinality(W) <= 1 + forks[f]
        /\ Started(f) /\ f \notin ended /\ account = "active" /\ failures = 0
             => Cardinality(H) + Cardinality(W) >= 1
    BY DEF HeadOk
  <2> HIDE DEF H, W
  <2>5. Cardinality(H \union {new}) + Cardinality(W \ {q}) = Cardinality(H) + Cardinality(W)
    <3>1. Cardinality(H) \in Nat /\ Cardinality(W) \in Nat
      BY <2>3, FS_CardinalityType
    <3>2. Cardinality(H \union {new}) = Cardinality(H) + 1
      BY <2>2, <2>3, FS_AddElement
    <3>3. Cardinality(W \ {q}) = Cardinality(W) - 1
      BY <2>1, <2>3, FS_RemoveElement
    <3> DEFINE h == Cardinality(H)  w == Cardinality(W)
               h2 == Cardinality(H \union {new})  w2 == Cardinality(W \ {q})
    <3> HIDE DEF h, w, h2, w2
    <3>4. h \in Nat /\ w \in Nat /\ h2 = h + 1 /\ w2 = w - 1
      BY <3>1, <3>2, <3>3 DEF h, w, h2, w2
    <3>5. h2 + w2 = h + w
      BY <3>4
    <3>6. QED
      BY <3>5 DEF h, w, h2, w2
  <2>6. Cardinality(Heads(f)') + Cardinality(OnTheWay(f)') = Cardinality(H) + Cardinality(W)
    BY <2>1, <2>2, <2>5
  <2>7. QED
    BY <1>2, <1>5, <2>4, <2>6 DEF HeadOk
<1>8. QED
  BY <1>6, <1>7

\* A request that begins; a sign-in has the first token of its family on the way.
LEMMA StartHeads ==
    ASSUME BaseInv, BaseInv', TokensAssumption, RequestsAssumption, NEW q \in Request, Starts(q),
           Issues(req'[q]) =>
             \/ req'[q].method = "login" /\ req'[q].todo = IssueBoth
                /\ ~Started(req'[q].own.family)
             \/ req'[q].todo = RefreshAll /\ Started(req'[q].own.family),
           ~Issues(req'[q]) /\ req'[q].own.family \in Chain => Started(req'[q].own.family),
           NEW f \in Chain, HeadOk(f)
    PROVE  HeadOk(f)'
<1>1. WayInv /\ WayInv' /\ TypeInv
  BY WayBoth DEF BaseInv
<1>2. /\ \A p \in Request : p # q => req'[p] = req[p]
      /\ UNCHANGED <<token, account, forks, ended, failures>>
      /\ ~Issues(req[q])
  BY NoRequestFacts DEF Starts, tokenVars, tokenTables, tokenGhosts
<1>3. OnTheWay(f) \subseteq Request /\ OnTheWay(f)' \subseteq Request
  BY DEF OnTheWay, Doing
<1>4. Heads(f)' = Heads(f)
  BY <1>2 DEF Heads, InFamily
<1>5. q \notin OnTheWay(f)
  BY <1>1, <1>2 DEF WayInv
<1>6. \A p \in Request : p # q => (p \in OnTheWay(f)' <=> p \in OnTheWay(f))
  BY <1>1, <1>2 DEF WayInv
<1>7. CASE Started(f) \/ req'[q].own.family # f
  <2>1. q \notin OnTheWay(f)'
    <3>1. Issues(req'[q]) /\ req'[q].own.family = f => req'[q].todo = RefreshAll
      BY <1>7
    <3>2. QED
      BY <1>1, <3>1 DEF WayInv
  <2>2. OnTheWay(f)' = OnTheWay(f)
    BY <1>3, <1>5, <1>6, <2>1
  <2>3. Started(f)' => Started(f)
    BY <1>2, <1>7 DEF Started, Doing
  <2>4. Shrinks(f) /\ Ends /\ forks'[f] = forks[f]
    BY <1>2, <1>4, <2>2, <2>3 DEF Shrinks, Ends
  <2>5. QED
    BY <1>1, <2>4, ShrinkKeeps
<1>8. CASE ~Started(f) /\ req'[q].own.family = f
  <2>1. Issues(req'[q]) /\ req'[q].todo = IssueBoth
    BY <1>8
  <2>2. q \in OnTheWay(f)'
    BY <1>1, <1>8, <2>1, TodosDiffer DEF WayInv
  <2>3. Heads(f) = {}
    BY <1>8 DEF Started, Heads, InFamily
  <2>4. OnTheWay(f) = {}
    BY <1>8 DEF Started, OnTheWay, Doing, TokenMethod
  <2>5. OnTheWay(f)' = {q}
    BY <1>3, <1>6, <2>2, <2>4
  <2>6. Cardinality(Heads(f)') = 0 /\ Cardinality(OnTheWay(f)') = 1
    BY <1>4, <2>3, <2>5, FS_EmptySet, FS_Singleton
  <2>7. forks'[f] \in Nat
    BY <1>1, <1>2 DEF TypeInv
  <2>8. QED
    BY <2>6, <2>7 DEF HeadOk
<1>9. QED
  BY <1>7, <1>8

LEMMA FailureHeads ==
    ASSUME BaseInv, TokensAssumption, RequestsAssumption, Fails, NEW f \in Chain, HeadOk(f)
    PROVE  HeadOk(f)'
<1>1. /\ BaseInv' /\ failures' = failures + 1
      /\ \A p \in Request : req'[p] = req[p] \/ Failed(p)
      /\ \A p \in Request : Keeps(p)
      /\ UNCHANGED <<token, account, forks, ended>>
  BY FailureStep
<1>2. TypeInv /\ TypeInv' /\ WayInv /\ WayInv'
  BY <1>1, WayBoth DEF BaseInv
<1>3. Heads(f)' \subseteq Heads(f) /\ (Started(f)' => Started(f))
  BY <1>1, <1>2, SameRows, KeptHeads
<1>4. OnTheWay(f)' \subseteq OnTheWay(f)
  <2>1. \A p \in Request : Issues(req'[p]) => req'[p] = req[p]
    BY <1>1, NoRequestFacts DEF Failed, Issues
  <2>2. OnTheWay(f)' \subseteq Request
    BY DEF OnTheWay, Doing
  <2>3. QED
    BY <1>2, <2>1, <2>2 DEF WayInv
<1>5. failures' # 0
  BY <1>1 DEF BaseInv, TypeInv
<1>6. Shrinks(f) /\ Ends /\ forks'[f] = forks[f]
  BY <1>1, <1>3, <1>4, <1>5 DEF Shrinks, Ends
<1>7. QED
  BY <1>2, <1>6, ShrinkKeeps

LEMMA HeadStep ==
    ASSUME BaseInv, TokensAssumption, RequestsAssumption, HeadInv, [TokensNext]_vars
    PROVE  HeadInv'
<1> SUFFICES ASSUME NEW f \in Chain, HeadOk(f) PROVE HeadOk(f)'
  BY DEF HeadInv
<1>1. CASE UNCHANGED vars
  <2>1. UNCHANGED <<req, cut, failures, token, sessions, account, forks, ended, swept>>
    BY <1>1 DEF vars, requestVars, tokenVars, tokenTables, tokenGhosts
  <2>2. Heads(f)' = Heads(f) /\ OnTheWay(f)' = OnTheWay(f) /\ (Started(f)' <=> Started(f))
    BY <2>1 DEF Heads, InFamily, OnTheWay, Doing, Started
  <2>3. QED
    BY <2>1, <2>2 DEF HeadOk
<1>2. CASE Fails
  BY <1>2, FailureHeads
<1>3. ASSUME NEW q \in Request, Login(q) \/ RefreshToken(q)
      PROVE  HeadOk(f)'
  <2>1. BaseInv' /\ Starts(q) /\ Issues(req'[q])
    BY <1>3, LoginStarts, RefreshStarts DEF Issues
  <2>2. \/ req'[q].method = "login" /\ req'[q].todo = IssueBoth /\ ~Started(req'[q].own.family)
        \/ req'[q].todo = RefreshAll /\ Started(req'[q].own.family)
    BY <1>3, LoginStarts, RefreshStarts
  <2>3. QED
    BY <2>1, <2>2, StartHeads
<1>4. ASSUME NEW q \in Request,
             \/ ReuseToken(q) \/ RevokeSession(q)
             \/ LogoutAllSessions(q) \/ ChangePassword(q) \/ SoftDeleteUser(q)
      PROVE  HeadOk(f)'
  <2>1. BaseInv' /\ Starts(q) /\ ~Issues(req'[q])
        /\ (req'[q].own.family \in Chain => Started(req'[q].own.family))
    BY <1>4, OthersStart
  <2>2. QED
    BY <2>1, StartHeads
<1>5. ASSUME NEW q \in Request, CreateToken(q) PROVE HeadOk(f)'
  BY <1>5, InsertFacts, InsertHeads
<1>6. ASSUME NEW q \in Request, Revoke(q), req[q].method = "refresh" PROVE HeadOk(f)'
  BY <1>6, RefreshHeads
<1>7. ASSUME NEW q \in Request,
             \/ FindUser(q) \/ CreateSession(q) \/ RevokeFamily(q)
             \/ RevokeAllForUser(q) \/ DeleteSession(q) \/ DeleteAllForUser(q) \/ SoftDelete(q)
             \/ Revoke(q) /\ req[q].method # "refresh"
      PROVE  HeadOk(f)'
  <2>1. Shrinks(f) /\ Ends /\ forks'[f] = forks[f]
    BY <1>7, CallHeads
  <2>2. QED
    BY <2>1, ShrinkKeeps DEF BaseInv
<1>8. QED
  BY <1>1, <1>2, <1>3, <1>4, <1>5, <1>6, <1>7 DEF TokensNext, Fails

-----------------------------------------------------------------------------
(* Theorems                                                                *)

LEMMA BaseHolds == TokensSpec => []BaseInv
<1>1. RequestsInit /\ TokensInit => BaseInv
  BY BaseInit
<1>2. BaseInv /\ [TokensNext]_vars => BaseInv'
  BY BaseStep, TokensAssumption
<1>3. QED
  BY <1>1, <1>2, PTL DEF TokensSpec, vars

GhostTypes == ended \subseteq Chain \union {NoChain} /\ swept \subseteq Token

LEMMA GhostStep ==
    ASSUME BaseInv, TokensAssumption, GhostTypes, [TokensNext]_vars
    PROVE  GhostTypes'
<1>1. CASE UNCHANGED vars \/ Fails
  BY <1>1 DEF vars, Fails, tokenVars, tokenGhosts, GhostTypes
<1>2. ASSUME NEW q \in Request, CreateToken(q) PROVE GhostTypes'
  <2>1. Inserts(q)
    BY <1>2, InsertFacts
  <2>2. QED
    BY <2>1 DEF Inserts, GhostTypes
<1>3. ASSUME NEW q \in Request, Revoke(q) \/ RevokeFamily(q) PROVE GhostTypes'
  <2>1. req[q].method \in {"refresh", "reuse", "revokeSession"}
    BY <1>3, CallFacts DEF Revoke, RevokeFamily, BaseInv
  <2>2. req[q].own.family \in Chain
    BY <2>1, RequestFacts DEF BaseInv, TokenMethod, Knows
  <2>3. QED
    BY <1>3, <2>2 DEF Revoke, RevokeFamily, GhostTypes
<1>4. ASSUME NEW q \in Request, RevokeAllForUser(q) PROVE GhostTypes'
  <2>1. \A t \in Token : token[t].family \in Chain \union {NoChain}
    BY RowFacts DEF BaseInv, TypeInv
  <2>2. QED
    BY <1>4, <2>1 DEF RevokeAllForUser, Families, GhostTypes
<1>5. ASSUME NEW q \in Request,
             \/ Login(q) \/ RefreshToken(q) \/ ReuseToken(q) \/ RevokeSession(q)
             \/ LogoutAllSessions(q) \/ ChangePassword(q) \/ SoftDeleteUser(q)
      PROVE  GhostTypes'
  <2>1. Starts(q)
    BY <1>5, LoginStarts, RefreshStarts, OthersStart
  <2>2. QED
    BY <2>1 DEF Starts, tokenVars, tokenGhosts, GhostTypes
<1>6. ASSUME NEW q \in Request,
             \/ FindUser(q) \/ CreateSession(q) \/ DeleteSession(q) \/ DeleteAllForUser(q)
             \/ SoftDelete(q)
      PROVE  GhostTypes'
  BY <1>6 DEF FindUser, CreateSession, DeleteSession, DeleteAllForUser, SoftDelete, tokenVars,
              tokenGhosts, GhostTypes
<1>7. QED
  BY <1>1, <1>2, <1>3, <1>4, <1>5, <1>6 DEF TokensNext, Fails

LEMMA TokensTyped == BaseInv /\ GhostTypes => TokensTypeOK
<1>1. Requested \subseteq RequestOf(TokenMethod, TokenCall, Owns)
  <2>1. Todos \subseteq Seq(TokenCall)
    BY DEF Todos, IssueBoth, IssueSession, RefreshAll, RefreshRest, EndFamily, EndToken,
           EndSession, OutAll, OutSessions, OutTokens, DeleteAll, TokenCall
  <2>2. QED
    BY <2>1 DEF Requested, Shapes, RequestOf
<1>2. NoRequest \in RequestOf(TokenMethod, TokenCall, Owns)
  BY DEF RequestOf
<1>3. QED
  BY <1>1, <1>2 DEF BaseInv, TypeInv, GhostTypes, TokensTypeOK, Owns

\* The types of the refresh tokens, the sessions and the requests that issue,
\* replace and revoke them (internal/application/identity/service.go).
THEOREM TokensTypes == TokensSpec => []TokensTypeOK
<1>1. RequestsInit /\ TokensInit => GhostTypes
  BY DEF TokensInit, GhostTypes
<1>2. BaseInv /\ GhostTypes /\ [TokensNext]_vars => GhostTypes'
  BY GhostStep, TokensAssumption
<1>3. QED
  BY <1>1, <1>2, TokensTyped, BaseHolds, PTL DEF TokensSpec, vars

\* A family of refresh tokens has one token to go on with, whatever sign-ins,
\* refreshes, sign-outs and failures overlap (IssueTokenPair, RefreshToken in
\* internal/application/identity/service.go); refreshes that follow each other
\* from one token make one more each.
THEOREM OneHead == TokensSpec => []OneHeadPerFamily
<1>1. RequestsInit /\ TokensInit => HeadInv
  <2> SUFFICES ASSUME RequestsInit, TokensInit, NEW f \in Chain PROVE HeadOk(f)
    BY DEF HeadInv
  <2>1. Heads(f) = {}
    BY DEF TokensInit, Heads, InFamily, NoToken
  <2>2. OnTheWay(f) = {}
    BY NoRequestFacts DEF RequestsInit, OnTheWay, Doing
  <2>3. ~Started(f)
    <3>1. \A t \in Token : token[t].family # f
      BY TokensAssumption DEF TokensInit, NoToken
    <3>2. \A q \in Request : req[q].method = "none"
      BY NoRequestFacts DEF RequestsInit
    <3>3. QED
      BY <3>1, <3>2 DEF Started, Doing, TokenMethod
  <2>4. forks[f] = 0
    BY DEF TokensInit
  <2>5. QED
    BY <2>1, <2>2, <2>3, <2>4, FS_EmptySet DEF HeadOk
<1>2. BaseInv /\ HeadInv /\ [TokensNext]_vars => HeadInv'
  BY HeadStep, TokensAssumption, RequestsAssumption
<1>3. HeadInv => OneHeadPerFamily
  BY DEF HeadInv, HeadOk, OneHeadPerFamily
<1>4. QED
  BY <1>1, <1>2, <1>3, BaseHolds, PTL DEF TokensSpec, vars

\* A family that was revoked gets no further token, unless from a refresh that
\* had found its token before (the reuse branch of RefreshToken).
THEOREM FamiliesStayEnded == TokensSpec => EndedFamilyStays
<1>1. BaseInv /\ [TokensNext]_vars => StaysEnded
  BY StepStaysEnded, TokensAssumption
<1>2. StaysEnded =>
        \A f \in Chain :
            /\ InFamily(f) # {} /\ Heads(f) = {}
            /\ \A q \in Doing({"refresh"}) : req[q].own.family = f => req[q].own.found # "live"
            => {t \in Token : token'[t].family = f /\ token'[t].status = "live"} = {}
  BY DEF StaysEnded, Unanswered
<1>3. QED
  BY <1>1, <1>2, BaseHolds, PTL DEF TokensSpec, vars, EndedFamilyStays

LEMMA SweepHolds ==
    ASSUME "revokeAll" \in Watched
    PROVE  TokensSpec => []SweepInv
<1>1. RequestsInit /\ TokensInit => SweepInv
  <2> SUFFICES ASSUME RequestsInit, TokensInit PROVE SweepInv
    OBVIOUS
  <2>1. account = "active" /\ \A q \in Request : req[q].todo # OutSessions
    BY NoRequestFacts, TodosDiffer DEF RequestsInit, TokensInit, Todos
  <2>2. QED
    BY <2>1 DEF SweepInv
<1>2. BaseInv /\ SweepInv /\ [TokensNext]_vars => SweepInv'
  BY SweepStep, TokensAssumption
<1>3. QED
  BY <1>1, <1>2, BaseHolds, PTL DEF TokensSpec, vars

\* Deleting an account ends every session but those started by requests that had
\* found it active, and a failed revocation is known of (SoftDeleteUser).
THEOREM DeletedOut ==
    ASSUME "revokeAll" \in Watched
    PROVE  TokensSpec => []DeletedSignsOut
<1>1. SweepInv => DeletedSignsOut
  BY DEF SweepInv, AllSwept, DeletedSignsOut, Doing
<1>2. QED
  BY <1>1, SweepHolds, PTL

\* Every live token has a session the user sees and can end, or is about to get
\* it (CreateSession, whose error the code ignores, is the only way to lose it).
THEOREM LiveListed ==
    ASSUME "createSession" \in Watched, "revokeAll" \in Watched
    PROVE  TokensSpec => []LiveTokenListed
<1>1. RequestsInit /\ TokensInit => ListInv
  BY DEF TokensInit, ListInv, NoToken
<1>2. BaseInv /\ SweepInv /\ ListInv /\ [TokensNext]_vars => ListInv'
  BY ListStep, TokensAssumption
<1>3. ListInv => LiveTokenListed
  BY DEF ListInv, LiveTokenListed, Using, Doing, Issues, TokenMethod
<1>4. QED
  BY <1>1, <1>2, <1>3, BaseHolds, SweepHolds, PTL DEF TokensSpec, vars
=============================================================================

--------------------------- MODULE ServicesProofs ---------------------------
(***************************************************************************)
(* What the services beside reminders, documents and subscriptions         *)
(* promise, for any number of requests, rows and failures: the family,     *)
(* the chat and the goals, page-wise lists, the timeline and the reports.  *)
(* Each section names the inductive invariant of its service, has a lemma  *)
(* for each action, and ends in the theorems.                              *)
(***************************************************************************)
EXTENDS Services, SubscriptionsProofs, SequenceTheorems

-----------------------------------------------------------------------------
(* The family: writes of different fields add up, deleted members stay away*)

Given == [f \in Field |-> "given"]
Sets  == UNION {[named -> Value] : named \in SUBSET Field}

\* What a request has to do: one call.
ToAdd       == <<"insert">>
ToOverwrite == <<"update">>
ToDelete    == <<"delete">>

MemberInserts == [method : {"createMember"}, todo : {ToAdd}, wrote : {FALSE},
                  own : [target : Member, read : {NoMember}, set : {Given}]]
MemberUpdates == [method : {"updateMember"}, todo : {ToOverwrite}, wrote : {FALSE},
                  own : [target : Member, read : MemberRow, set : Sets]]
MemberDeletes == [method : {"deleteMember"}, todo : {ToDelete}, wrote : {FALSE},
                  own : [target : Member, read : MemberRow, set : {<<>>}]]
MemberReqs == MemberInserts \union MemberUpdates \union MemberDeletes

MembersTyped ==
    /\ req \in [Request -> {NoRequest} \union MemberReqs]
    /\ member \in [Member -> MemberRow \union {NoMember}]
    /\ asked \in [Member -> MemberRow \union {NoMember, Deleted}]
    /\ clobbered \subseteq Member /\ memberCrowd \in Nat

\* The id of a member to be inserted is nobody else's.
NewMembers ==
    /\ \A q \in Request : req[q] \in MemberInserts => asked[req[q].own.target] = NoMember
    /\ \A p, q \in Request :
         req[p] \in MemberInserts /\ req[q] \in MemberInserts
         /\ req[p].own.target = req[q].own.target => p = q

\* A member that was never asked for is not there, and nobody has read it.
AskedInv ==
    /\ \A m \in Member : asked[m] = NoMember => member[m] = NoMember
    /\ \A q \in Request :
         req[q] \in MemberUpdates \union MemberDeletes => asked[req[q].own.target] # NoMember

FamilyInv == MembersTyped /\ NewMembers /\ AskedInv /\ LastWriteStands /\ IsFiniteSet(Members)

-----------------------------------------------------------------------------
(* Rows and requests                                                       *)

LEMMA MemberRowFacts ==
    /\ NoMember \notin MemberRow /\ Deleted \notin MemberRow /\ NoMember # Deleted
    /\ Given \in MemberRow
<1>1. "name" \in Field
  BY DEF Field
<1>2. NoMember["name"] = "absent" /\ Deleted["name"] = "deleted"
  BY <1>1 DEF NoMember, Deleted
<1>3. \A row \in MemberRow : row["name"] \in {"given"} \union Value
  BY <1>1 DEF MemberRow
<1>4. QED
  BY <1>2, <1>3, FamilyAssumption DEF Given, MemberRow

LEMMA OverFacts ==
    ASSUME NEW row \in MemberRow, NEW set \in Sets
    PROVE  Over(row, set) \in MemberRow
<1>1. PICK named \in SUBSET Field : set \in [named -> Value]
  BY DEF Sets
<1>2. \A f \in Field : (IF f \in DOMAIN set THEN set[f] ELSE row[f]) \in {"given"} \union Value
  BY <1>1 DEF MemberRow
<1>3. QED
  BY <1>2 DEF Over, MemberRow

LEMMA NoMemberRequest ==
    NoRequest.method = "none" /\ NoRequest.todo = <<>> /\ NoRequest \notin MemberReqs
  BY DEF NoRequest, MemberReqs, MemberInserts, MemberUpdates, MemberDeletes

LEMMA MemberTodos ==
    /\ ToAdd # ToOverwrite /\ ToAdd # ToDelete /\ ToOverwrite # ToDelete
    /\ ToAdd # <<>> /\ ToOverwrite # <<>> /\ ToDelete # <<>>
    /\ Head(ToAdd) = "insert" /\ Head(ToOverwrite) = "update" /\ Head(ToDelete) = "delete"
    /\ Len(ToAdd) = 1 /\ Len(ToOverwrite) = 1 /\ Len(ToDelete) = 1
  BY DEF ToAdd, ToOverwrite, ToDelete

LEMMA MemberKinds ==
    ASSUME MembersTyped, NEW q \in Request
    PROVE  /\ Idle(q) => req[q] = NoRequest
           /\ ~Idle(q) => req[q] \in MemberReqs /\ Len(req[q].todo) = 1
           /\ Makes(q, "insert") => req[q] \in MemberInserts
           /\ Makes(q, "update") => req[q] \in MemberUpdates
           /\ Makes(q, "delete") => req[q] \in MemberDeletes
           /\ q \in Creating <=> req[q] \in MemberInserts
<1>1. req[q] \in {NoRequest} \union MemberReqs
  BY DEF MembersTyped
<1>2. req[q] = NoRequest => Idle(q) /\ req[q].method = "none" /\ req[q] \notin MemberInserts
  BY NoMemberRequest DEF Idle, MemberReqs
<1>3. req[q] \in MemberInserts => req[q].todo = ToAdd /\ req[q].method = "createMember"
  BY DEF MemberInserts
<1>4. req[q] \in MemberUpdates => req[q].todo = ToOverwrite /\ req[q].method = "updateMember"
  BY DEF MemberUpdates
<1>5. req[q] \in MemberDeletes => req[q].todo = ToDelete /\ req[q].method = "deleteMember"
  BY DEF MemberDeletes
<1>6. QED
  BY <1>1, <1>2, <1>3, <1>4, <1>5, MemberTodos DEF Idle, Makes, Creating, Doing, MemberReqs

\* A request that has made its only call is over.
LEMMA OverWith ==
    ASSUME MembersTyped, NEW q \in Request, ~Idle(q), Continue(q)
    PROVE  req' = [req EXCEPT ![q] = NoRequest]
  BY MemberKinds, Zenon DEF Continue, GoOn, Advanced

-----------------------------------------------------------------------------
(* What a step does to the requests                                        *)

MemberReqsTyped == req \in [Request -> {NoRequest} \union MemberReqs]
ReadAsked == \A q \in Request :
                 req[q] \in MemberUpdates \union MemberDeletes => asked[req[q].own.target] # NoMember

\* Requests that end take nothing from those that go on.
LEMMA FewerReqs ==
    ASSUME FamilyInv,
           req' \in [Request -> {NoRequest} \union MemberReqs],
           \A p \in Request : req'[p] = req[p] \/ req'[p] = NoRequest,
           \A m \in Member : asked[m] # NoMember => asked'[m] # NoMember,
           \A p \in Request :
               req'[p] \in MemberInserts => asked'[req'[p].own.target] = asked[req'[p].own.target]
    PROVE  NewMembers' /\ ReadAsked'
<1>1. \A p \in Request : req'[p] \in MemberReqs => req'[p] = req[p]
  BY NoMemberRequest
<1>2. \A p \in Request : req'[p] \in MemberUpdates \union MemberDeletes => req'[p].own.target \in Member
  BY DEF MemberUpdates, MemberDeletes
<1>3. NewMembers'
  BY <1>1 DEF FamilyInv, NewMembers, MemberReqs
<1>4. ReadAsked'
  BY <1>1, <1>2 DEF FamilyInv, AskedInv, ReadAsked, MemberReqs
<1>5. QED
  BY <1>3, <1>4

\* A request that ends leaves the others as they are.
LEMMA MemberRequestEnds ==
    ASSUME FamilyInv, NEW q \in Request, req' = [req EXCEPT ![q] = NoRequest]
    PROVE  /\ MemberReqsTyped'
           /\ \A p \in Request : req'[p] = req[p] \/ req'[p] = NoRequest
           /\ \A p \in Request : req'[p] \in MemberInserts => p # q /\ req'[p] = req[p]
           /\ Creating' = Creating \ {q}
<1>1. req \in [Request -> {NoRequest} \union MemberReqs]
  BY DEF FamilyInv, MembersTyped
<1>2. req' \in [Request -> {NoRequest} \union MemberReqs] /\ req'[q] = NoRequest
      /\ \A p \in Request : p # q => req'[p] = req[p]
  BY <1>1
<1>3. NoRequest \notin MemberInserts /\ NoRequest.method # "createMember"
  BY NoMemberRequest DEF MemberReqs
<1>4. Creating' = Creating \ {q}
  BY <1>2, <1>3 DEF Creating, Doing
<1>5. QED
  BY <1>2, <1>3, <1>4 DEF MemberReqsTyped

\* The rows stay when no call is made.
LEMMA MembersStay ==
    ASSUME FamilyInv, UNCHANGED <<member, asked, clobbered>>, memberCrowd' \in Nat,
           MemberReqsTyped', NewMembers', ReadAsked'
    PROVE  FamilyInv'
<1>1. MembersTyped'
  BY DEF FamilyInv, MembersTyped, MemberReqsTyped
<1>2. AskedInv'
  BY DEF FamilyInv, AskedInv, ReadAsked
<1>3. Members' = Members /\ LastWriteStands'
  BY DEF FamilyInv, Members, LastWriteStands
<1>4. QED
  BY <1>1, <1>2, <1>3 DEF FamilyInv

\* A new request that inserts nothing, or a member of which nobody knows.
LEMMA BeginFacts ==
    ASSUME FamilyInv, NEW q \in Request, Idle(q), NEW r \in MemberReqs,
           req' = [req EXCEPT ![q] = r], UNCHANGED asked,
           r \in MemberInserts => r.own.target \in NewIds,
           r \notin MemberInserts => asked[r.own.target] # NoMember
    PROVE  /\ MemberReqsTyped' /\ NewMembers' /\ ReadAsked'
           /\ Creating' = IF r \in MemberInserts THEN Creating \union {q} ELSE Creating
           /\ q \notin Creating
<1>1. req \in [Request -> {NoRequest} \union MemberReqs] /\ MembersTyped
  BY DEF FamilyInv, MembersTyped
<1>2. req' \in [Request -> {NoRequest} \union MemberReqs] /\ req'[q] = r
      /\ \A p \in Request : p # q => req'[p] = req[p]
  BY <1>1
<1>3. req[q] = NoRequest /\ q \notin Creating
  BY <1>1, MemberKinds, NoMemberRequest DEF Creating, Doing
<1>4. r \in MemberInserts <=> r.method = "createMember"
  BY DEF MemberReqs, MemberInserts, MemberUpdates, MemberDeletes
<1>5. MemberInserts \intersect (MemberUpdates \union MemberDeletes) = {}
  BY DEF MemberInserts, MemberUpdates, MemberDeletes
<1>6. \A p \in Request : req[p] \in MemberInserts => p \in Creating
  BY <1>1, MemberKinds
<1>7. r \in MemberInserts => /\ asked[r.own.target] = NoMember
                       /\ \A p \in Request : req[p] \in MemberInserts => req[p].own.target # r.own.target
  BY <1>6 DEF NewIds
<1>8. NewMembers'
  BY <1>2, <1>7 DEF FamilyInv, NewMembers
<1>9. ReadAsked'
  BY <1>2, <1>5 DEF FamilyInv, AskedInv, ReadAsked
<1>10. Creating' = IF r \in MemberInserts THEN Creating \union {q} ELSE Creating
  BY <1>2, <1>3, <1>4 DEF Creating, Doing
<1>11. QED
  BY <1>2, <1>3, <1>8, <1>9, <1>10 DEF MemberReqsTyped

-----------------------------------------------------------------------------
(* One lemma for each action                                               *)

LEMMA CreatesMember ==
    ASSUME FamilyInv, NEW q \in Request, CreateMember(q)
    PROVE  /\ FamilyInv'
           /\ Creating' = Creating \union {q} /\ q \notin Creating /\ Members' = Members
<1>1. PICK m \in NewIds : BeginOnMember(q, "createMember", "insert", m, Given)
  BY Zenon DEF CreateMember, Given
<1>2. m \in Member /\ asked[m] = NoMember /\ member[m] = NoMember
  BY DEF NewIds, FamilyInv, AskedInv
<1> DEFINE r == [method |-> "createMember", todo |-> ToAdd, wrote |-> FALSE,
                 own |-> [target |-> m, read |-> NoMember, set |-> Given]]
<1>3. Idle(q) /\ req' = [req EXCEPT ![q] = r] /\ UNCHANGED <<member, asked, clobbered>>
  BY <1>1, <1>2 DEF BeginOnMember, Begin, ToAdd
<1>4. r \in MemberInserts /\ r \in MemberReqs /\ r.own.target = m
  BY <1>2 DEF MemberInserts, MemberReqs
<1> HIDE DEF r
<1>5. /\ MemberReqsTyped' /\ NewMembers' /\ ReadAsked'
      /\ Creating' = Creating \union {q} /\ q \notin Creating
  BY <1>3, <1>4, BeginFacts
<1>6. memberCrowd' \in Nat
  <2>1. IsFiniteSet(Creating)
    BY RequestsAssumption, FS_Subset DEF Creating, Doing
  <2>2. Cardinality(Creating) + 1 \in Nat /\ memberCrowd \in Nat
    BY <2>1, FS_CardinalityType DEF FamilyInv, MembersTyped
  <2>3. QED
    BY <2>2 DEF CreateMember
<1>7. QED
  BY <1>3, <1>5, <1>6, MembersStay DEF Members

LEMMA ReadsMember ==
    ASSUME FamilyInv, NEW q \in Request, UpdateMember(q) \/ DeleteMember(q)
    PROVE  FamilyInv' /\ Creating' = Creating /\ Members' = Members /\ UNCHANGED memberCrowd
<1>1. PICK r \in MemberUpdates \union MemberDeletes :
        /\ Idle(q) /\ req' = [req EXCEPT ![q] = r]
        /\ r.own.target \in Members
        /\ UNCHANGED <<member, asked, clobbered, memberCrowd>>
  <2>1. ASSUME UpdateMember(q)
        PROVE  \E r \in MemberUpdates : /\ Idle(q) /\ req' = [req EXCEPT ![q] = r]
                                  /\ r.own.target \in Members
                                  /\ UNCHANGED <<member, asked, clobbered, memberCrowd>>
    <3>a. PICK m \in Members, named \in SUBSET Field \ {{}} :
            \E set \in [named -> Value] : BeginOnMember(q, "updateMember", "update", m, set)
      BY <2>1, Zenon DEF UpdateMember
    <3>1. PICK set \in [named -> Value] : BeginOnMember(q, "updateMember", "update", m, set)
      BY <3>a, Zenon
    <3> DEFINE r == [method |-> "updateMember", todo |-> ToOverwrite, wrote |-> FALSE,
                     own |-> [target |-> m, read |-> member[m], set |-> set]]
    <3>2. set \in Sets
      BY DEF Sets
    <3>3. m \in Member /\ member[m] \in MemberRow
      BY DEF Members, FamilyInv, MembersTyped
    <3>4. r \in MemberUpdates /\ r.own.target \in Members
      BY <3>2, <3>3 DEF MemberUpdates
    <3>5. Idle(q) /\ req' = [req EXCEPT ![q] = r]
      BY <3>1 DEF BeginOnMember, Begin, ToOverwrite
    <3>6. UNCHANGED <<member, asked, clobbered, memberCrowd>>
      BY <2>1, <3>1 DEF BeginOnMember, UpdateMember
    <3> HIDE DEF r
    <3>7. QED
      BY <3>4, <3>5, <3>6
  <2>2. ASSUME DeleteMember(q)
        PROVE  \E r \in MemberDeletes : /\ Idle(q) /\ req' = [req EXCEPT ![q] = r]
                                  /\ r.own.target \in Members
                                  /\ UNCHANGED <<member, asked, clobbered, memberCrowd>>
    <3>1. PICK m \in Members : BeginOnMember(q, "deleteMember", "delete", m, <<>>)
      BY <2>2, Zenon DEF DeleteMember
    <3> DEFINE r == [method |-> "deleteMember", todo |-> ToDelete, wrote |-> FALSE,
                     own |-> [target |-> m, read |-> member[m], set |-> <<>>]]
    <3>2. m \in Member /\ member[m] \in MemberRow
      BY DEF Members, FamilyInv, MembersTyped
    <3>3. r \in MemberDeletes /\ r.own.target \in Members
      BY <3>2 DEF MemberDeletes
    <3>4. Idle(q) /\ req' = [req EXCEPT ![q] = r]
      BY <3>1 DEF BeginOnMember, Begin, ToDelete
    <3>5. UNCHANGED <<member, asked, clobbered, memberCrowd>>
      BY <2>2, <3>1 DEF BeginOnMember, DeleteMember
    <3> HIDE DEF r
    <3>6. QED
      BY <3>3, <3>4, <3>5
  <2>3. QED
    BY <2>1, <2>2
<1>2. r \in MemberReqs /\ r \notin MemberInserts
  BY DEF MemberReqs, MemberInserts, MemberUpdates, MemberDeletes
<1>3. asked[r.own.target] # NoMember
  <2>1. r.own.target \in Member /\ member[r.own.target] # NoMember
    BY <1>1 DEF Members
  <2>2. QED
    BY <2>1 DEF FamilyInv, AskedInv
<1>4. MemberReqsTyped' /\ NewMembers' /\ ReadAsked' /\ Creating' = Creating
  BY <1>1, <1>2, <1>3, BeginFacts
<1>5. memberCrowd' \in Nat
  BY <1>1 DEF FamilyInv, MembersTyped
<1>6. QED
  BY <1>1, <1>4, <1>5, MembersStay DEF Members

LEMMA InsertsMember ==
    ASSUME FamilyInv, NEW q \in Request, InsertMember(q)
    PROVE  /\ FamilyInv' /\ UNCHANGED memberCrowd
           /\ q \in Creating /\ Creating' = Creating \ {q}
           /\ \E m \in Member \ Members : Members' = Members \union {m}
<1>1. MembersTyped /\ ~Idle(q) /\ Makes(q, "insert")
  BY DEF FamilyInv, InsertMember, Makes
<1>2. req[q] \in MemberInserts /\ q \in Creating
  BY <1>1, MemberKinds
<1>3. PICK m \in Member : req[q].own.target = m /\ req[q].own.set = Given
  BY <1>2 DEF MemberInserts
<1>4. asked[m] = NoMember /\ member[m] = NoMember
  BY <1>2, <1>3 DEF FamilyInv, NewMembers, AskedInv
<1>5. /\ member' = [member EXCEPT ![m] = Given] /\ asked' = [asked EXCEPT ![m] = Given]
      /\ UNCHANGED <<clobbered, memberCrowd>>
  BY <1>3 DEF InsertMember
<1>6. /\ member'[m] = Given /\ asked'[m] = Given
      /\ \A n \in Member : n # m => member'[n] = member[n] /\ asked'[n] = asked[n]
      /\ member' \in [Member -> MemberRow \union {NoMember}]
      /\ asked' \in [Member -> MemberRow \union {NoMember, Deleted}]
  BY <1>1, <1>5, MemberRowFacts DEF MembersTyped
<1>7. req' = [req EXCEPT ![q] = NoRequest]
  BY <1>1, OverWith, Zenon DEF InsertMember
<1>8. /\ MemberReqsTyped' /\ Creating' = Creating \ {q}
      /\ \A p \in Request : req'[p] = req[p] \/ req'[p] = NoRequest
      /\ \A p \in Request : req'[p] \in MemberInserts => p # q /\ req'[p] = req[p]
  BY <1>7, MemberRequestEnds
<1>9. \A p \in Request : req'[p] \in MemberInserts => req'[p].own.target \in Member \ {m}
  <2>1. \A p \in Request : req'[p] \in MemberInserts => req'[p].own.target \in Member
    BY DEF MemberInserts
  <2>2. \A p \in Request : req'[p] \in MemberInserts => req'[p].own.target # m
    BY <1>2, <1>3, <1>8 DEF FamilyInv, NewMembers
  <2>3. QED
    BY <2>1, <2>2
<1>10. NewMembers' /\ ReadAsked'
  BY <1>6, <1>8, <1>9, MemberRowFacts, FewerReqs DEF MemberReqsTyped
<1>11. Members' = Members \union {m} /\ m \notin Members
  BY <1>4, <1>6, MemberRowFacts DEF Members
<1>12. IsFiniteSet(Members')
  BY <1>11, FS_AddElement DEF FamilyInv
<1>13. AskedInv' /\ LastWriteStands'
  BY <1>5, <1>6, <1>10, MemberRowFacts DEF FamilyInv, AskedInv, ReadAsked, LastWriteStands
<1>14. MembersTyped'
  BY <1>1, <1>5, <1>6, <1>8 DEF MembersTyped, MemberReqsTyped
<1>15. QED
  BY <1>2, <1>5, <1>8, <1>10, <1>11, <1>12, <1>13, <1>14 DEF FamilyInv

LEMMA WritesMember ==
    ASSUME FamilyInv, NEW q \in Request, WriteMember(q)
    PROVE  FamilyInv' /\ Creating' = Creating /\ Members' = Members /\ UNCHANGED memberCrowd
<1>1. MembersTyped /\ ~Idle(q) /\ Makes(q, "update")
  BY DEF FamilyInv, WriteMember, Makes
<1>2. req[q] \in MemberUpdates /\ q \notin Creating
  <2>1. req[q] \in MemberUpdates
    BY <1>1, MemberKinds
  <2>2. req[q] \notin MemberInserts
    BY <2>1 DEF MemberUpdates, MemberInserts
  <2>3. QED
    BY <1>1, <2>1, <2>2, MemberKinds
<1>3. PICK m \in Member, read \in MemberRow, set \in Sets :
        req[q].own.target = m /\ req[q].own.read = read /\ req[q].own.set = set
  BY <1>2 DEF MemberUpdates
<1>4. asked[m] # NoMember
  BY <1>2, <1>3 DEF FamilyInv, AskedInv
<1>5. /\ member' = [member EXCEPT ![m] = Updated(member[m], Over(read, set))]
      /\ asked' = [asked EXCEPT ![m] = IF asked[m] = Deleted THEN asked[m] ELSE Over(asked[m], set)]
      /\ clobbered' = IF member[m] = read THEN clobbered ELSE clobbered \union {m}
      /\ UNCHANGED memberCrowd
  BY <1>3 DEF WriteMember
<1> DEFINE row == Updated(member[m], Over(read, set))
           ask == IF asked[m] = Deleted THEN asked[m] ELSE Over(asked[m], set)
<1>6. /\ row \in MemberRow \union {NoMember} /\ (row = NoMember <=> member[m] = NoMember)
      /\ ask \in MemberRow \union {Deleted} /\ ask # NoMember
      /\ ask = Deleted => asked[m] = Deleted
      /\ asked[m] # Deleted /\ member[m] = asked[m] /\ member[m] = read => row = ask
  <2>1. Over(read, set) \in MemberRow
    BY <1>3, OverFacts
  <2>2. asked[m] # Deleted => asked[m] \in MemberRow
    BY <1>1, <1>4 DEF MembersTyped
  <2>3. asked[m] # Deleted => Over(asked[m], set) \in MemberRow
    BY <2>2, <1>3, OverFacts
  <2>4. QED
    BY <1>4, <2>1, <2>3, MemberRowFacts DEF Updated
<1>7. /\ member'[m] = row /\ asked'[m] = ask
      /\ \A n \in Member : n # m => member'[n] = member[n] /\ asked'[n] = asked[n]
      /\ member' \in [Member -> MemberRow \union {NoMember}]
      /\ asked' \in [Member -> MemberRow \union {NoMember, Deleted}]
      /\ clobbered' \subseteq Member
  <2> HIDE DEF row, ask
  <2>1. /\ member \in [Member -> MemberRow \union {NoMember}] /\ clobbered \subseteq Member
        /\ asked \in [Member -> MemberRow \union {NoMember, Deleted}]
    BY <1>1 DEF MembersTyped
  <2>2. member' = [member EXCEPT ![m] = row] /\ asked' = [asked EXCEPT ![m] = ask]
    BY <1>5 DEF row, ask
  <2>3. QED
    BY <1>5, <1>6, <2>1, <2>2
<1>8. req' = [req EXCEPT ![q] = NoRequest]
  BY <1>1, OverWith, Zenon DEF WriteMember
<1>9. /\ MemberReqsTyped' /\ Creating' = Creating \ {q}
      /\ \A p \in Request : req'[p] = req[p] \/ req'[p] = NoRequest
      /\ \A p \in Request : req'[p] \in MemberInserts => p # q /\ req'[p] = req[p]
  BY <1>8, MemberRequestEnds
<1> HIDE DEF row, ask
<1>10. \A p \in Request : req'[p] \in MemberInserts => asked'[req'[p].own.target] = asked[req'[p].own.target]
  <2>1. \A p \in Request : req'[p] \in MemberInserts => req'[p].own.target \in Member
    BY DEF MemberInserts
  <2>2. \A p \in Request : req'[p] \in MemberInserts => req'[p].own.target # m
    BY <1>4, <1>9 DEF FamilyInv, NewMembers
  <2>3. QED
    BY <1>7, <2>1, <2>2
<1>11. \A n \in Member : asked[n] # NoMember => asked'[n] # NoMember
  BY <1>6, <1>7
<1>12. NewMembers' /\ ReadAsked'
  BY <1>9, <1>10, <1>11, FewerReqs DEF MemberReqsTyped
<1>13. Members' = Members
  BY <1>6, <1>7 DEF Members
<1>14. LastWriteStands'
  BY <1>5, <1>6, <1>7 DEF FamilyInv, LastWriteStands
<1>15. AskedInv'
  BY <1>6, <1>7, <1>12 DEF FamilyInv, AskedInv, ReadAsked
<1>16. MembersTyped'
  BY <1>1, <1>5, <1>7, <1>9 DEF MembersTyped, MemberReqsTyped
<1>17. QED
  BY <1>2, <1>5, <1>9, <1>12, <1>13, <1>14, <1>15, <1>16 DEF FamilyInv

LEMMA RemovesMember ==
    ASSUME FamilyInv, NEW q \in Request, RemoveMember(q)
    PROVE  /\ FamilyInv' /\ Creating' = Creating /\ UNCHANGED memberCrowd
           /\ \/ Members' = Members
              \/ \E m \in Members : Members' = Members \ {m}
<1>1. MembersTyped /\ ~Idle(q) /\ Makes(q, "delete")
  BY DEF FamilyInv, RemoveMember, Makes
<1>2. req[q] \in MemberDeletes /\ q \notin Creating
  <2>1. req[q] \in MemberDeletes
    BY <1>1, MemberKinds
  <2>2. req[q] \notin MemberInserts
    BY <2>1 DEF MemberDeletes, MemberInserts
  <2>3. QED
    BY <1>1, <2>1, <2>2, MemberKinds
<1>3. PICK m \in Member : req[q].own.target = m
  BY <1>2 DEF MemberDeletes
<1>4. asked[m] # NoMember
  BY <1>2, <1>3 DEF FamilyInv, AskedInv
<1>5. /\ member' = [member EXCEPT ![m] = NoMember] /\ asked' = [asked EXCEPT ![m] = Deleted]
      /\ UNCHANGED <<clobbered, memberCrowd>>
  BY <1>3 DEF RemoveMember
<1>6. /\ member'[m] = NoMember /\ asked'[m] = Deleted
      /\ \A n \in Member : n # m => member'[n] = member[n] /\ asked'[n] = asked[n]
      /\ member' \in [Member -> MemberRow \union {NoMember}]
      /\ asked' \in [Member -> MemberRow \union {NoMember, Deleted}]
  BY <1>1, <1>5 DEF MembersTyped
<1>7. req' = [req EXCEPT ![q] = NoRequest]
  BY <1>1, OverWith, Zenon DEF RemoveMember
<1>8. /\ MemberReqsTyped' /\ Creating' = Creating \ {q}
      /\ \A p \in Request : req'[p] = req[p] \/ req'[p] = NoRequest
      /\ \A p \in Request : req'[p] \in MemberInserts => p # q /\ req'[p] = req[p]
  BY <1>7, MemberRequestEnds
<1>9. \A p \in Request : req'[p] \in MemberInserts => asked'[req'[p].own.target] = asked[req'[p].own.target]
  <2>1. \A p \in Request : req'[p] \in MemberInserts => req'[p].own.target \in Member
    BY DEF MemberInserts
  <2>2. \A p \in Request : req'[p] \in MemberInserts => req'[p].own.target # m
    BY <1>4, <1>8 DEF FamilyInv, NewMembers
  <2>3. QED
    BY <1>6, <2>1, <2>2
<1>10. \A n \in Member : asked[n] # NoMember => asked'[n] # NoMember
  BY <1>6, MemberRowFacts
<1>11. NewMembers' /\ ReadAsked'
  BY <1>8, <1>9, <1>10, FewerReqs DEF MemberReqsTyped
<1>12. Members' = Members \ {m}
  BY <1>6 DEF Members
<1>13. IsFiniteSet(Members')
  BY <1>12, FS_Subset DEF FamilyInv
<1>14. LastWriteStands' /\ AskedInv'
  BY <1>5, <1>6, <1>11, MemberRowFacts DEF FamilyInv, LastWriteStands, AskedInv, ReadAsked
<1>15. MembersTyped'
  BY <1>1, <1>5, <1>6, <1>8 DEF MembersTyped, MemberReqsTyped
<1>16. QED
  BY <1>2, <1>5, <1>8, <1>11, <1>12, <1>13, <1>14, <1>15 DEF FamilyInv

\* A failed call, or a crash.
LEMMA RequestsEnd ==
    ASSUME FamilyInv, UNCHANGED familyVars, (\E q \in Request : CallFails(q, {})) \/ Crash
    PROVE  FamilyInv' /\ Creating' \subseteq Creating
<1>1. \/ req' = [p \in Request |-> NoRequest]
      \/ \E q \in Request : req' = [req EXCEPT ![q] = NoRequest]
  BY Zenon DEF CallFails, Crash
<1>2. req \in [Request -> {NoRequest} \union MemberReqs]
  BY DEF FamilyInv, MembersTyped
<1>3. MemberReqsTyped' /\ \A p \in Request : req'[p] = req[p] \/ req'[p] = NoRequest
  <2>1. ASSUME req' = [p \in Request |-> NoRequest]
        PROVE  MemberReqsTyped' /\ \A p \in Request : req'[p] = req[p] \/ req'[p] = NoRequest
    BY <2>1 DEF MemberReqsTyped
  <2>2. ASSUME NEW q \in Request, req' = [req EXCEPT ![q] = NoRequest]
        PROVE  MemberReqsTyped' /\ \A p \in Request : req'[p] = req[p] \/ req'[p] = NoRequest
    BY <2>2, MemberRequestEnds
  <2>3. QED
    BY <1>1, <2>1, <2>2
<1>4. UNCHANGED <<member, asked, clobbered, memberCrowd>>
  BY DEF familyVars
<1>5. NewMembers' /\ ReadAsked'
  BY <1>3, <1>4, FewerReqs DEF MemberReqsTyped
<1>6. memberCrowd' \in Nat
  BY <1>4 DEF FamilyInv, MembersTyped
<1>7. Creating' \subseteq Creating
  BY <1>3, NoMemberRequest DEF Creating, Doing
<1>8. QED
  BY <1>3, <1>4, <1>5, <1>6, <1>7, MembersStay

-----------------------------------------------------------------------------
(* The behaviours                                                          *)

LEMMA FamilyBegins ==
    ASSUME RequestsInit, FamilyInit
    PROVE  FamilyInv /\ Creating = {} /\ Members = {} /\ memberCrowd = 0
<1>1. MembersTyped
  BY DEF RequestsInit, FamilyInit, MembersTyped
<1>2. NewMembers /\ AskedInv /\ Creating = {}
  BY NoMemberRequest
     DEF RequestsInit, FamilyInit, NewMembers, AskedInv, MemberReqs, Creating, Doing
<1>3. Members = {} /\ LastWriteStands
  BY MemberRowFacts DEF FamilyInit, Members, LastWriteStands
<1>4. QED
  BY <1>1, <1>2, <1>3, FS_EmptySet DEF FamilyInv, FamilyInit

LEMMA FamilyStutters ==
    ASSUME FamilyInv, UNCHANGED <<requestVars, familyVars>>
    PROVE  FamilyInv' /\ Creating' = Creating /\ Members' = Members /\ UNCHANGED memberCrowd
<1>1. UNCHANGED <<req, member, asked, clobbered, memberCrowd>>
  BY DEF requestVars, familyVars
<1>2. MembersTyped' /\ NewMembers' /\ AskedInv'
  BY <1>1 DEF FamilyInv, MembersTyped, NewMembers, AskedInv
<1>3. Members' = Members /\ LastWriteStands' /\ Creating' = Creating
  BY <1>1 DEF FamilyInv, Members, LastWriteStands, Creating, Doing
<1>4. QED
  BY <1>1, <1>2, <1>3 DEF FamilyInv

LEMMA FamilyStep ==
    ASSUME FamilyInv, [FamilyNext]_<<requestVars, familyVars>>
    PROVE  FamilyInv'
<1>1. ASSUME NEW q \in Request,
             \/ CreateMember(q) \/ UpdateMember(q) \/ DeleteMember(q)
             \/ InsertMember(q) \/ WriteMember(q) \/ RemoveMember(q)
      PROVE  FamilyInv'
  BY <1>1, CreatesMember, ReadsMember, InsertsMember, WritesMember, RemovesMember
<1>2. CASE UNCHANGED familyVars /\ ((\E q \in Request : CallFails(q, {})) \/ Crash)
  BY <1>2, RequestsEnd
<1>3. CASE UNCHANGED <<requestVars, familyVars>>
  BY <1>3, FamilyStutters
<1>4. QED
  BY <1>1, <1>2, <1>3, Zenon DEF FamilyNext

\* How many there are.
LEMMA CountFacts ==
    ASSUME FamilyInv
    PROVE  /\ IsFiniteSet(Members) /\ Cardinality(Members) \in Nat
           /\ IsFiniteSet(Creating) /\ Cardinality(Creating) \in Nat
<1>1. IsFiniteSet(Creating)
  BY RequestsAssumption, FS_Subset DEF Creating, Doing
<1>2. QED
  BY <1>1, FS_CardinalityType DEF FamilyInv

LEMMA CrowdStep ==
    ASSUME FamilyInv, FamilyInv', [FamilyNext]_<<requestVars, familyVars>>
    PROVE  [MemberLimit!LimitNext]_MemberLimit!limitVars
<1> DEFINE counted  == Cardinality(Members)
           admitted == Cardinality(Creating)
<1>1. counted \in Nat /\ admitted \in Nat /\ IsFiniteSet(Members) /\ IsFiniteSet(Creating)
  BY CountFacts
<1>2. counted' \in Nat /\ admitted' \in Nat
  <2>1. IsFiniteSet(Members')
    BY DEF FamilyInv
  <2>2. IsFiniteSet(Creating')
    BY RequestsAssumption, FS_Subset DEF Creating, Doing
  <2>3. QED
    BY <2>1, <2>2, FS_CardinalityType
<1>3. ASSUME NEW q \in Request, CreateMember(q)
      PROVE  MemberLimit!Admit
  <2>1. Creating' = Creating \union {q} /\ q \notin Creating /\ Members' = Members
    BY <1>3, CreatesMember
  <2>2. admitted' = admitted + 1
    BY <1>1, <2>1, FS_AddElement
  <2>3. counted < MaxMembers /\ counted' = counted
    BY <1>3, <2>1 DEF CreateMember, RoomForMember
  <2>4. memberCrowd' = IF admitted' > memberCrowd THEN admitted' ELSE memberCrowd
    BY <1>3, <2>2 DEF CreateMember
  <2>5. QED
    BY <2>2, <2>3, <2>4 DEF MemberLimit!Admit
<1>4. ASSUME Members' = Members, Creating' = Creating, UNCHANGED memberCrowd
      PROVE  UNCHANGED MemberLimit!limitVars
  BY <1>4 DEF MemberLimit!limitVars
<1>5. ASSUME NEW q \in Request, UpdateMember(q) \/ DeleteMember(q) \/ WriteMember(q)
      PROVE  UNCHANGED MemberLimit!limitVars
  BY <1>4, <1>5, ReadsMember, WritesMember
<1>6. ASSUME NEW q \in Request, InsertMember(q)
      PROVE  MemberLimit!Count
  <2>1. q \in Creating /\ Creating' = Creating \ {q} /\ memberCrowd' = memberCrowd
    BY <1>6, InsertsMember
  <2>2. PICK m \in Member \ Members : Members' = Members \union {m}
    BY <1>6, InsertsMember
  <2>3. counted' = counted + 1
    BY <1>1, <2>2, FS_AddElement
  <2>4. admitted' = admitted - 1
    BY <1>1, <2>1, FS_RemoveElement
  <2>5. admitted > 0
    BY <1>1, <1>2, <2>4
  <2>6. QED
    BY <2>1, <2>3, <2>4, <2>5 DEF MemberLimit!Count
<1>7. ASSUME NEW q \in Request, RemoveMember(q)
      PROVE  MemberLimit!Release \/ UNCHANGED MemberLimit!limitVars
  <2>1. Creating' = Creating /\ memberCrowd' = memberCrowd
    BY <1>7, RemovesMember
  <2>2. CASE Members' = Members
    BY <1>4, <2>1, <2>2
  <2>3. ASSUME NEW m \in Members, Members' = Members \ {m}
        PROVE  MemberLimit!Release
    <3>1. counted' = counted - 1
      BY <1>1, <2>3, FS_RemoveElement
    <3>2. counted > 0
      BY <1>1, <1>2, <3>1
    <3>3. QED
      BY <2>1, <3>1, <3>2 DEF MemberLimit!Release
  <2>4. QED
    BY <1>7, <2>2, <2>3, RemovesMember
<1>8. ASSUME UNCHANGED familyVars, (\E q \in Request : CallFails(q, {})) \/ Crash
      PROVE  MemberLimit!GiveUp \/ UNCHANGED MemberLimit!limitVars
  <2>1. Creating' \subseteq Creating
    BY <1>8, RequestsEnd
  <2>2. Members' = Members /\ UNCHANGED memberCrowd
    BY <1>8 DEF familyVars, Members
  <2>3. CASE Creating' = Creating
    BY <1>4, <2>2, <2>3
  <2>4. CASE Creating' # Creating
    <3>1. Cardinality(Creating') <= Cardinality(Creating)
          /\ Cardinality(Creating) # Cardinality(Creating')
      BY <1>1, <2>1, <2>4, FS_Subset
    <3>2. admitted' \in 0 .. admitted - 1
      BY <1>1, <1>2, <3>1
    <3>3. QED
      BY <2>2, <3>2 DEF MemberLimit!GiveUp
  <2>5. QED
    BY <2>3, <2>4
<1>9. CASE UNCHANGED <<requestVars, familyVars>>
  BY <1>4, <1>9, FamilyStutters
<1>10. CASE FamilyNext
  <2>1. \/ \E q \in Request : CreateMember(q)
        \/ \E q \in Request : UpdateMember(q) \/ DeleteMember(q) \/ WriteMember(q)
        \/ \E q \in Request : InsertMember(q)
        \/ \E q \in Request : RemoveMember(q)
        \/ UNCHANGED familyVars /\ ((\E q \in Request : CallFails(q, {})) \/ Crash)
    BY <1>10, Zenon DEF FamilyNext
  <2>2. QED
    BY <2>1, <1>3, <1>5, <1>6, <1>7, <1>8 DEF MemberLimit!LimitNext
<1>11. QED
  BY <1>9, <1>10

\* What an update does not name it leaves alone unless another write came in
\* between, and no update brings a deleted member back (UpdateMember and
\* DeleteMember of the family service).
THEOREM LastWrites == FamilySpec => []LastWriteStands
<1>1. RequestsInit /\ FamilyInit => FamilyInv
  BY FamilyBegins
<1>2. FamilyInv /\ [FamilyNext]_<<requestVars, familyVars>> => FamilyInv'
  BY FamilyStep
<1>3. FamilyInv => LastWriteStands
  BY DEF FamilyInv
<1>4. QED
  BY <1>1, <1>2, <1>3, PTL DEF FamilySpec

\* The limit of members is a LimitCheck (CreateMember and CountByUserID).
THEOREM MembersLimit == FamilySpec => MembersLimited
<1>1. RequestsInit /\ FamilyInit => FamilyInv /\ MemberLimit!LimitInit
  BY FamilyBegins, FS_EmptySet DEF MemberLimit!LimitInit
<1>2. FamilyInv /\ [FamilyNext]_<<requestVars, familyVars>>
      => FamilyInv' /\ [MemberLimit!LimitNext]_MemberLimit!limitVars
  BY FamilyStep, CrowdStep
<1>3. QED
  BY <1>1, <1>2, PTL DEF FamilySpec, MembersLimited, MemberLimit!LimitSpec

-----------------------------------------------------------------------------
(* The chat: turns are paired, and counted within the quota                *)

\* What a request to the chat service may still have to do.
ToAsk   == <<"storeQuestion", "storeReply", "increment">>
ToReply == <<"storeReply", "increment">>
ToCount == <<"increment">>
ToErase == <<"deleteAll">>

Turn     == [turn : 1 .. MaxTurns, month : Month]
Asking   == [method : {"sendMessage"}, todo : {ToAsk},   wrote : {FALSE}, own : Turn]
Replying == [method : {"sendMessage"}, todo : {ToReply}, wrote : {TRUE},  own : Turn]
Counting == [method : {"sendMessage"}, todo : {ToCount}, wrote : {TRUE},  own : Turn]
Erasing  == [method : {"deleteAll"},   todo : {ToErase}, wrote : {FALSE}, own : {<<>>}]
Sends    == Asking \union Replying \union Counting
ChatReqs == Sends \union Erasing

ChatReqsTyped == req \in [Request -> {NoRequest} \union ChatReqs]

ChatTablesTyped ==
    /\ messages \subseteq (1 .. MaxTurns) \X {"user", "assistant"}
    /\ messagesUsed \in [Month -> Nat \union {NoUsage}]
    /\ month \in Month /\ turns \in 0 .. MaxTurns /\ torn \subseteq 1 .. MaxTurns
    /\ answered \in [Month -> Nat] /\ chatCrowd \in [Month -> Nat]

\* A request that is to reply has stored its question.
ReplyInv ==
    \A q \in Request : req[q] \in Replying /\ req[q].own.turn \notin torn =>
        <<req[q].own.turn, "user">> \in messages

\* A question without a reply is one that a request is to reply to.
PairInv ==
    \A t \in (1 .. MaxTurns) \ torn :
        /\ <<t, "assistant">> \in messages => <<t, "user">> \in messages
        /\ <<t, "user">> \in messages /\ "storeReply" \in Watched \ cut =>
             \/ <<t, "assistant">> \in messages
             \/ \E q \in Request : req[q] \in Replying /\ req[q].own.turn = t

\* A month in which a request was admitted has a row to be counted in.
UsageInv ==
    \A q \in Request : req[q] \in Sends => messagesUsed[req[q].own.month] # NoUsage

Pending(m) == {q \in Sending(m) : Makes(q, "increment")}

TallyInv ==
    "increment" \in Watched \ cut =>
      \A m \in Month : answered[m] = Used(m) + Cardinality(Pending(m))

ChatInv == ChatReqsTyped /\ ChatTablesTyped /\ ReplyInv /\ PairInv /\ UsageInv /\ TallyInv

-----------------------------------------------------------------------------
(* Requests                                                                *)

LEMMA ChatTodos ==
    /\ Head(ToAsk) = "storeQuestion" /\ Tail(ToAsk) = ToReply /\ Len(ToAsk) = 3
    /\ Head(ToReply) = "storeReply" /\ Tail(ToReply) = ToCount /\ Len(ToReply) = 2
    /\ Head(ToCount) = "increment" /\ Len(ToCount) = 1
    /\ Head(ToErase) = "deleteAll" /\ Len(ToErase) = 1
    /\ ToAsk # <<>> /\ ToReply # <<>> /\ ToCount # <<>> /\ ToErase # <<>>
  BY DEF ToAsk, ToReply, ToCount, ToErase

LEMMA ChatKinds ==
    ASSUME NEW r \in {NoRequest} \union ChatReqs
    PROVE  /\ r.todo = <<>> <=> r = NoRequest
           /\ r.method = "sendMessage" <=> r \in Sends
           /\ r.method = "deleteAll" <=> r \in Erasing
           /\ r.todo # <<>> /\ Head(r.todo) = "storeQuestion" <=> r \in Asking
           /\ r.todo # <<>> /\ Head(r.todo) = "storeReply" <=> r \in Replying
           /\ r.todo # <<>> /\ Head(r.todo) = "increment" <=> r \in Counting
           /\ r.todo # <<>> /\ Head(r.todo) = "deleteAll" <=> r \in Erasing
<1>1. NoRequest.todo = <<>> /\ NoRequest.method = "none"
  BY DEF NoRequest
<1>2. r = NoRequest => r \notin ChatReqs
  BY <1>1, ChatTodos DEF ChatReqs, Sends, Asking, Replying, Counting, Erasing
<1>3. r \in Asking => r.todo = ToAsk /\ r.method = "sendMessage"
  BY DEF Asking
<1>4. r \in Replying => r.todo = ToReply /\ r.method = "sendMessage"
  BY DEF Replying
<1>5. r \in Counting => r.todo = ToCount /\ r.method = "sendMessage"
  BY DEF Counting
<1>6. r \in Erasing => r.todo = ToErase /\ r.method = "deleteAll"
  BY DEF Erasing
<1>7. QED
  BY <1>1, <1>2, <1>3, <1>4, <1>5, <1>6, ChatTodos DEF ChatReqs, Sends

LEMMA NoChatRequest == NoRequest \notin ChatReqs /\ NoRequest \notin Sends /\ NoRequest \notin Replying
  BY ChatKinds, ChatTodos DEF NoRequest, ChatReqs, Sends, Asking, Replying, Counting, Erasing

LEMMA SendFacts ==
    ASSUME NEW r \in Sends
    PROVE  r.own \in Turn /\ r.own.turn \in 1 .. MaxTurns /\ r.own.month \in Month
  BY DEF Sends, Asking, Replying, Counting, Turn

\* A request that makes its call goes on with the rest, or ends.
LEMMA ChatAdvances ==
    ASSUME NEW q \in Request, req[q] \in ChatReqs
    PROVE  LET n == Advanced(q, req[q].own) IN
           /\ req[q] \in Asking => n \in Replying /\ n.own = req[q].own
           /\ req[q] \in Replying => n \in Counting /\ n.own = req[q].own
           /\ req[q] \in Counting \union Erasing => n = NoRequest
<1> DEFINE r == req[q]
           n == Advanced(q, r.own)
<1>0. ASSUME NEW todo, NEW rest, NEW wrote \in BOOLEAN,
             Len(todo) # 1, Tail(todo) = rest,
             r \in [method : {"sendMessage"}, todo : {todo}, wrote : {wrote}, own : Turn]
      PROVE  /\ n \in [method : {"sendMessage"}, todo : {rest}, wrote : {TRUE}, own : Turn]
             /\ n.own = r.own
  <2>1. PICK x \in [method : {"sendMessage"}, todo : {todo}, wrote : {wrote}, own : Turn] : x = r
    BY <1>0
  <2>2. Len(r.todo) # 1 /\ Tail(r.todo) = rest
    BY <1>0, <2>1
  <2>3. n = [r EXCEPT !.todo = Tail(r.todo), !.wrote = TRUE, !.own = r.own]
    BY <2>2, Zenon DEF Advanced
  <2>4. PICK t \in {rest} : Tail(r.todo) = t
    BY <2>2
  <2> DEFINE y == [x EXCEPT !.todo = t, !.wrote = TRUE, !.own = x.own]
  <2>5. n = y
    BY <2>1, <2>3, <2>4
  <2>6. /\ y \in [method : {"sendMessage"}, todo : {rest}, wrote : {TRUE}, own : Turn]
        /\ y.own = x.own
    OBVIOUS
  <2> HIDE DEF n, y, r
  <2>7. QED
    BY <2>1, <2>5, <2>6
<1> HIDE DEF n, r
<1>a. Len(ToAsk) # 1 /\ Len(ToReply) # 1
  BY ChatTodos
<1>1. ASSUME r \in Asking
      PROVE  n \in Replying /\ n.own = r.own
  <2>1. r \in [method : {"sendMessage"}, todo : {ToAsk}, wrote : {FALSE}, own : Turn]
    BY <1>1 DEF Asking
  <2>2. /\ n \in [method : {"sendMessage"}, todo : {ToReply}, wrote : {TRUE}, own : Turn]
        /\ n.own = r.own
    BY <1>0, <1>a, <2>1, ChatTodos
  <2>3. QED
    BY <2>2 DEF Replying
<1>2. ASSUME r \in Replying
      PROVE  n \in Counting /\ n.own = r.own
  <2>1. r \in [method : {"sendMessage"}, todo : {ToReply}, wrote : {TRUE}, own : Turn]
    BY <1>2 DEF Replying
  <2>2. /\ n \in [method : {"sendMessage"}, todo : {ToCount}, wrote : {TRUE}, own : Turn]
        /\ n.own = r.own
    BY <1>0, <1>a, <2>1, ChatTodos
  <2>3. QED
    BY <2>2 DEF Counting
<1>3. ASSUME r \in Counting \union Erasing
      PROVE  n = NoRequest
  <2>1. r.todo = ToCount \/ r.todo = ToErase
    BY <1>3 DEF Counting, Erasing
  <2>2. QED
    BY <2>1, ChatTodos DEF Advanced, n, r
<1>4. QED
  BY <1>1, <1>2, <1>3 DEF n, r

\* Request q becomes r, and with it changes who is sending and who is to count.
Becomes(q, r) ==
    /\ ChatReqsTyped' /\ req'[q] = r
    /\ \A p \in Request : p # q => req'[p] = req[p]
    /\ \A m \in Month :
         /\ r \in Sends /\ r.own.month = m => Sending(m)' = Sending(m) \union {q}
         /\ r \notin Sends \/ r.own.month # m => Sending(m)' = Sending(m) \ {q}
         /\ r \in Counting /\ r.own.month = m => Pending(m)' = Pending(m) \union {q}
         /\ r \notin Counting \/ r.own.month # m => Pending(m)' = Pending(m) \ {q}

LEMMA ChatMoves ==
    ASSUME ChatReqsTyped, NEW q \in Request, NEW r \in {NoRequest} \union ChatReqs,
           req' = [req EXCEPT ![q] = r]
    PROVE  Becomes(q, r)
<1>1. ChatReqsTyped' /\ req'[q] = r /\ \A p \in Request : p # q => req'[p] = req[p]
  BY DEF ChatReqsTyped
<1>2. r.method = "sendMessage" <=> r \in Sends
  BY ChatKinds
<1>3. r.todo # <<>> /\ Head(r.todo) = "increment" <=> r \in Counting
  BY ChatKinds
<1>4. ASSUME NEW m \in Month
      PROVE  /\ r \in Sends /\ r.own.month = m => Sending(m)' = Sending(m) \union {q}
             /\ r \notin Sends \/ r.own.month # m => Sending(m)' = Sending(m) \ {q}
             /\ r \in Counting /\ r.own.month = m => Pending(m)' = Pending(m) \union {q}
             /\ r \notin Counting \/ r.own.month # m => Pending(m)' = Pending(m) \ {q}
  <2>1. \A p \in Request : p \in Sending(m)' <=>
          IF p = q THEN r \in Sends /\ r.own.month = m ELSE p \in Sending(m)
    BY <1>1, <1>2 DEF Sending, Doing
  <2>2. \A p \in Request : p \in Pending(m)' <=>
          IF p = q THEN r \in Counting /\ r.own.month = m ELSE p \in Pending(m)
    <3>1. r \in Counting => r \in Sends
      BY DEF Sends
    <3>2. QED
      BY <1>1, <1>3, <2>1, <3>1 DEF Pending, Makes, Idle
  <2>3. Sending(m)' \subseteq Request /\ Sending(m) \subseteq Request
    BY DEF Sending, Doing
  <2>4. Pending(m)' \subseteq Request /\ Pending(m) \subseteq Request
    BY <2>3 DEF Pending
  <2>5. /\ r \in Sends /\ r.own.month = m => Sending(m)' = Sending(m) \union {q}
        /\ r \notin Sends \/ r.own.month # m => Sending(m)' = Sending(m) \ {q}
    BY <2>1, <2>3
  <2>6. /\ r \in Counting /\ r.own.month = m => Pending(m)' = Pending(m) \union {q}
        /\ r \notin Counting \/ r.own.month # m => Pending(m)' = Pending(m) \ {q}
    BY <2>2, <2>4
  <2>7. QED
    BY <2>5, <2>6
<1>5. QED
  BY <1>1, <1>4 DEF Becomes

LEMMA ChatCounts ==
    /\ \A m \in Month : /\ IsFiniteSet(Sending(m)) /\ Cardinality(Sending(m)) \in Nat
                        /\ IsFiniteSet(Pending(m)) /\ Cardinality(Pending(m)) \in Nat
    /\ \A m \in Month : /\ IsFiniteSet(Sending(m)') /\ Cardinality(Sending(m)') \in Nat
                        /\ IsFiniteSet(Pending(m)') /\ Cardinality(Pending(m)') \in Nat
<1>1. ASSUME NEW m \in Month
      PROVE  /\ IsFiniteSet(Sending(m)) /\ IsFiniteSet(Pending(m))
             /\ IsFiniteSet(Sending(m)') /\ IsFiniteSet(Pending(m)')
  <2>1. Sending(m) \subseteq Request /\ Sending(m)' \subseteq Request
    BY DEF Sending, Doing
  <2>2. Pending(m) \subseteq Request /\ Pending(m)' \subseteq Request
    BY <2>1 DEF Pending
  <2>3. QED
    BY <2>1, <2>2, RequestsAssumption, FS_Subset
<1>2. QED
  BY <1>1, FS_CardinalityType

-----------------------------------------------------------------------------
(* One lemma for each action                                               *)

LEMMA RowGot ==
    ASSUME ChatTablesTyped, GetOrCreate
    PROVE  /\ messagesUsed' \in [Month -> Nat \union {NoUsage}]
           /\ \A m \in Month : Used(m)' = Used(m)
           /\ \A m \in Month : messagesUsed[m] # NoUsage => messagesUsed'[m] # NoUsage
           /\ messagesUsed'[month] # NoUsage
<1>1. month \in Month /\ messagesUsed \in [Month -> Nat \union {NoUsage}] /\ NoUsage \notin Nat
  BY DEF ChatTablesTyped, NoUsage
<1>2. Used(month) \in Nat
  BY <1>1 DEF Used
<1>3. /\ messagesUsed' \in [Month -> Nat \union {NoUsage}] /\ messagesUsed'[month] = Used(month)
      /\ \A m \in Month : m # month => messagesUsed'[m] = messagesUsed[m]
  BY <1>1, <1>2 DEF GetOrCreate
<1>4. ASSUME NEW m \in Month
      PROVE  Used(m)' = Used(m)
  <2>1. CASE m = month
    BY <1>1, <1>2, <1>3, <2>1 DEF Used
  <2>2. CASE m # month
    BY <1>3, <2>2 DEF Used
  <2>3. QED
    BY <2>1, <2>2
<1>5. Used(month) # NoUsage
  BY <1>1, <1>2
<1>6. QED
  BY <1>1, <1>3, <1>4, <1>5

\* The messages, and what is counted, stay.
LEMMA ChatKept ==
    ASSUME ChatInv, ChatReqsTyped', ChatTablesTyped',
           UNCHANGED <<messages, answered, torn>>, cut \subseteq cut',
           \A m \in Month : Used(m)' = Used(m) /\ (messagesUsed[m] # NoUsage => messagesUsed'[m] # NoUsage),
           \A p \in Request :
             /\ req'[p] # req[p] =>
                  /\ req'[p] \notin Replying \union Counting
                  /\ req'[p] \in Sends => messagesUsed'[req'[p].own.month] # NoUsage
                  /\ req[p] \in Replying /\ "storeReply" \in Watched => "storeReply" \in cut'
                  /\ req[p] \in Counting /\ "increment" \in Watched => "increment" \in cut'
    PROVE  ChatInv'
<1>1. ReplyInv'
  BY DEF ChatInv, ReplyInv
<1>2. PairInv'
  <2>1. ASSUME NEW t \in (1 .. MaxTurns) \ torn, <<t, "user">> \in messages,
               "storeReply" \in Watched \ cut', <<t, "assistant">> \notin messages
        PROVE  \E q \in Request : req'[q] \in Replying /\ req'[q].own.turn = t
    <3>1. PICK q \in Request : req[q] \in Replying /\ req[q].own.turn = t
      BY <2>1 DEF ChatInv, PairInv
    <3>2. req'[q] = req[q]
      BY <2>1, <3>1
    <3>3. QED
      BY <3>1, <3>2
  <2>2. QED
    BY <2>1 DEF ChatInv, PairInv
<1>3. UsageInv'
  <2>1. ASSUME NEW q \in Request, req'[q] \in Sends, req'[q] = req[q]
        PROVE  messagesUsed'[req'[q].own.month] # NoUsage
    <3>1. req[q].own.month \in Month
      BY <2>1, SendFacts
    <3>2. QED
      BY <2>1, <3>1 DEF ChatInv, UsageInv
  <2>2. QED
    BY <2>1 DEF UsageInv
<1>4. ASSUME "increment" \in Watched \ cut', NEW m \in Month
      PROVE  answered'[m] = Used(m)' + Cardinality(Pending(m)')
  <2>1. \A p \in Request : req[p] \in {NoRequest} \union ChatReqs /\ req'[p] \in {NoRequest} \union ChatReqs
    BY DEF ChatInv, ChatReqsTyped
  <2>2. \A p \in Request : req[p] \in Counting <=> req'[p] \in Counting
    BY <1>4
  <2>3. \A p \in Request : req[p] \in Counting => req'[p] = req[p]
    BY <1>4
  <2>4. \A p \in Request : p \in Pending(m) <=> req[p] \in Counting /\ req[p].own.month = m
    <3>1. Counting \subseteq Sends
      BY DEF Sends
    <3>2. QED
      BY <2>1, <3>1, ChatKinds DEF Pending, Sending, Doing, Makes, Idle
  <2>5. \A p \in Request : p \in Pending(m)' <=> req'[p] \in Counting /\ req'[p].own.month = m
    <3>1. Counting \subseteq Sends
      BY DEF Sends
    <3>2. QED
      BY <2>1, <3>1, ChatKinds DEF Pending, Sending, Doing, Makes, Idle
  <2>6. Pending(m)' = Pending(m)
    <3>1. Pending(m) \subseteq Request /\ Pending(m)' \subseteq Request
      BY DEF Pending, Sending, Doing
    <3>2. QED
      BY <2>2, <2>3, <2>4, <2>5, <3>1
  <2>7. QED
    BY <1>4, <2>6 DEF ChatInv, TallyInv
<1>5. TallyInv'
  BY <1>4 DEF TallyInv
<1>6. QED
  BY <1>1, <1>2, <1>3, <1>5 DEF ChatInv

LEMMA GetsUsage ==
    ASSUME ChatInv, GetUsage
    PROVE  ChatInv' /\ \A m \in Month : UNCHANGED <<Used(m), Sending(m), chatCrowd>>
<1>1. UNCHANGED <<req, cut, messages, month, turns, answered, torn, chatCrowd>>
  BY DEF GetUsage, requestVars, chatGhosts
<1>2. ChatTablesTyped' /\ ChatReqsTyped'
  BY <1>1, RowGot DEF GetUsage, ChatInv, ChatTablesTyped, ChatReqsTyped
<1>3. \A m \in Month : Used(m)' = Used(m) /\ (messagesUsed[m] # NoUsage => messagesUsed'[m] # NoUsage)
  BY RowGot DEF GetUsage, ChatInv
<1>4. ChatInv'
  BY <1>1, <1>2, <1>3, ChatKept
<1>5. \A m \in Month : Sending(m)' = Sending(m)
  BY <1>1 DEF Sending, Doing
<1>6. QED
  BY <1>1, <1>3, <1>4, <1>5

LEMMA SendsMessage ==
    ASSUME ChatInv, NEW q \in Request, SendMessage(q)
    PROVE  /\ ChatInv'
           /\ \A m \in Month : Used(m)' = Used(m)
           /\ \/ (\A m \in Month : Sending(m)' = Sending(m)) /\ UNCHANGED chatCrowd
              \/ /\ \A m \in Month : Sending(m)' = IF m = month THEN Sending(m) \union {q} ELSE Sending(m)
                 /\ q \notin Sending(month) /\ WithinQuota(Used(month))
                 /\ chatCrowd' = [chatCrowd EXCEPT ![month] =
                       IF Cardinality(Sending(month)) + 1 > chatCrowd[month]
                       THEN Cardinality(Sending(month)) + 1 ELSE chatCrowd[month]]
<1>1. /\ Idle(q) /\ turns < MaxTurns /\ GetOrCreate
      /\ UNCHANGED <<messages, month, answered, torn>>
  BY DEF SendMessage
<1>2. /\ messagesUsed' \in [Month -> Nat \union {NoUsage}]
      /\ messagesUsed'[month] # NoUsage
      /\ \A m \in Month : Used(m)' = Used(m) /\ (messagesUsed[m] # NoUsage => messagesUsed'[m] # NoUsage)
  BY <1>1, RowGot DEF ChatInv
<1>3. ChatTablesTyped /\ ChatReqsTyped /\ req[q] = NoRequest
  BY <1>1, ChatKinds DEF ChatInv, ChatReqsTyped, Idle
<1>4. CASE ~WithinQuota(Used(month))
  <2>1. UNCHANGED <<req, cut, turns, chatCrowd>>
    BY <1>4 DEF SendMessage, requestVars
  <2>2. ChatTablesTyped' /\ ChatReqsTyped'
    BY <1>1, <1>2, <1>3, <2>1 DEF ChatTablesTyped, ChatReqsTyped
  <2>3. ChatInv'
    BY <1>1, <1>2, <2>1, <2>2, ChatKept
  <2>4. \A m \in Month : Sending(m)' = Sending(m)
    BY <2>1 DEF Sending, Doing
  <2>5. QED
    BY <1>2, <2>1, <2>3, <2>4
<1>5. CASE WithinQuota(Used(month))
  <2> DEFINE begun == [method |-> "sendMessage", todo |-> SendMessageCalls, wrote |-> FALSE,
                       own |-> [turn |-> turns + 1, month |-> month]]
             crowd == IF Cardinality(Sending(month)) + 1 > chatCrowd[month]
                    THEN Cardinality(Sending(month)) + 1 ELSE chatCrowd[month]
  <2>1. /\ req' = [req EXCEPT ![q] = begun] /\ cut' = cut /\ turns' = turns + 1
        /\ chatCrowd' = [chatCrowd EXCEPT ![month] = crowd]
    BY <1>5, Zenon DEF SendMessage, Begin
  <2>2. turns + 1 \in 1 .. MaxTurns /\ month \in Month
    BY <1>1, <1>3, ChatAssumption DEF ChatTablesTyped
  <2>0. begun \in Asking /\ begun.own.month = month
    BY <2>2 DEF Asking, Turn, ToAsk, SendMessageCalls
  <2>3. PICK r \in Asking : r = begun /\ r.own.month = month
    BY <2>0
  <2>4. crowd \in Nat
    <3>1. chatCrowd[month] \in Nat
      BY <1>3, <2>2 DEF ChatTablesTyped
    <3>2. Cardinality(Sending(month)) + 1 \in Nat
      BY <2>2, ChatCounts
    <3>3. QED
      BY <3>1, <3>2
  <2> HIDE DEF begun, crowd
  <2>5. ChatTablesTyped'
    <3>1. chatCrowd' \in [Month -> Nat]
      BY <1>3, <2>1, <2>2, <2>4 DEF ChatTablesTyped
    <3>2. turns' \in 0 .. MaxTurns
      BY <2>1, <2>2
    <3>3. QED
      BY <1>1, <1>2, <1>3, <3>1, <3>2 DEF ChatTablesTyped
  <2>6. r \in Sends /\ r \in ChatReqs /\ r \notin Replying /\ r \notin Counting
    <3>1. r \in Sends /\ r \in ChatReqs
      BY <2>3 DEF Sends, ChatReqs
    <3>2. QED
      BY <2>3, <3>1, ChatKinds, ChatTodos DEF Asking, Replying, Counting
  <2>7. /\ ChatReqsTyped' /\ req'[q] = r /\ \A p \in Request : p # q => req'[p] = req[p]
        /\ \A m \in Month :
             /\ r.own.month = m => Sending(m)' = Sending(m) \union {q}
             /\ r.own.month # m => Sending(m)' = Sending(m) \ {q}
    <3>1. req' = [req EXCEPT ![q] = r]
      BY <2>1, <2>3
    <3>2. r \in {NoRequest} \union ChatReqs
      BY <2>6
    <3>3. ChatReqsTyped
      BY <1>3
    <3>4. Becomes(q, r)
      BY <3>1, <3>2, <3>3, ChatMoves, Zenon
    <3>5. QED
      BY <2>6, <3>4 DEF Becomes
  <2>8. NoRequest \notin Replying /\ NoRequest \notin Counting /\ NoRequest \notin Sends
    BY NoChatRequest DEF Sends
  <2>9. ChatInv'
    BY <1>1, <1>2, <1>3, <2>1, <2>3, <2>5, <2>6, <2>7, <2>8, ChatKept
  <2>10. \A m \in Month : q \notin Sending(m)
    BY <1>3, ChatKinds, NoChatRequest DEF Sending, Doing
  <2>11. \A m \in Month : Sending(m)' = IF m = month THEN Sending(m) \union {q} ELSE Sending(m)
    <3>1. ASSUME NEW m \in Month
          PROVE  Sending(m)' = IF m = month THEN Sending(m) \union {q} ELSE Sending(m)
      <4>1. Sending(m)' = IF m = month THEN Sending(m) \union {q} ELSE Sending(m) \ {q}
        BY <2>3, <2>7
      <4>2. Sending(m) \ {q} = Sending(m)
        BY <2>10
      <4>3. QED
        BY <4>1, <4>2
    <3>2. QED
      BY <3>1
  <2>12. QED
    BY <1>2, <1>5, <2>1, <2>2, <2>9, <2>10, <2>11 DEF crowd
<1>6. QED
  BY <1>4, <1>5

\* The calls of a message: each leaves the request with the next one to make.
LEMMA StoresQuestion ==
    ASSUME ChatInv, NEW q \in Request, StoreQuestion(q)
    PROVE  ChatInv' /\ \A m \in Month : UNCHANGED <<Used(m), Sending(m), chatCrowd>>
<1>1. /\ Makes(q, "storeQuestion") /\ cut' = cut
      /\ UNCHANGED <<messagesUsed, month, turns, answered, torn, chatCrowd>>
  BY DEF StoreQuestion, chatGhosts, Continue, GoOn
<1>2. ChatReqsTyped /\ ChatTablesTyped /\ req[q] \in {NoRequest} \union ChatReqs
  BY DEF ChatInv, ChatReqsTyped
<1>3. req[q] \in Asking /\ req[q] \in Sends /\ req[q] \in ChatReqs
  BY <1>1, <1>2, ChatKinds DEF Makes, Idle, Sends, ChatReqs
<1>4. PICK r \in Replying : r = Advanced(q, req[q].own) /\ r.own = req[q].own
  BY <1>3, ChatAdvances
<1>5. PICK t \in 1 .. MaxTurns : req[q].own.turn = t
  BY <1>3, SendFacts
<1>6. messages' = messages \union {<<t, "user">>}
  BY <1>5 DEF StoreQuestion
<1>7. r \in Sends /\ r \in ChatReqs /\ r \notin Counting
  <2>1. r \in Sends /\ r \in ChatReqs
    BY DEF Sends, ChatReqs
  <2>2. QED
    BY <2>1, ChatKinds, ChatTodos DEF Replying, Counting
<1>8. Becomes(q, r)
  <2>1. req' = [req EXCEPT ![q] = r]
    BY <1>4, Zenon DEF StoreQuestion, Continue, GoOn
  <2>2. r \in {NoRequest} \union ChatReqs
    BY <1>7
  <2>3. QED
    BY <1>2, <2>1, <2>2, ChatMoves, Zenon
<1>9. ChatTablesTyped' /\ ChatReqsTyped'
  BY <1>1, <1>2, <1>6, <1>8 DEF ChatTablesTyped, Becomes
<1>10. ReplyInv'
  BY <1>1, <1>4, <1>5, <1>6, <1>8 DEF ChatInv, ReplyInv, Becomes
<1>11. PairInv'
  <2>1. ASSUME NEW u \in (1 .. MaxTurns) \ torn
        PROVE  /\ <<u, "assistant">> \in messages' => <<u, "user">> \in messages'
               /\ <<u, "user">> \in messages' /\ "storeReply" \in Watched \ cut =>
                    \/ <<u, "assistant">> \in messages'
                    \/ \E p \in Request : req'[p] \in Replying /\ req'[p].own.turn = u
    <3>1. <<u, "assistant">> \in messages' => <<u, "user">> \in messages'
      BY <1>6, <2>1 DEF ChatInv, PairInv
    <3>2. CASE u = t
      BY <1>4, <1>5, <1>8, <3>1, <3>2 DEF Becomes
    <3>3. ASSUME u # t, <<u, "user">> \in messages', "storeReply" \in Watched \ cut,
                 <<u, "assistant">> \notin messages'
          PROVE  \E p \in Request : req'[p] \in Replying /\ req'[p].own.turn = u
      <4>1. <<u, "user">> \in messages /\ <<u, "assistant">> \notin messages
        BY <1>6, <3>3
      <4>2. PICK p \in Request : req[p] \in Replying /\ req[p].own.turn = u
        BY <2>1, <3>3, <4>1 DEF ChatInv, PairInv
      <4>3. p # q
        BY <1>5, <3>3, <4>2
      <4>4. QED
        BY <1>8, <4>2, <4>3 DEF Becomes
    <3>4. QED
      BY <3>1, <3>2, <3>3
  <2>2. QED
    BY <1>1, <2>1 DEF PairInv
<1>12. \A m \in Month : Used(m)' = Used(m) /\ Sending(m)' = Sending(m) /\ Pending(m)' = Pending(m)
  <2>1. ASSUME NEW m \in Month
        PROVE  Used(m)' = Used(m) /\ Sending(m)' = Sending(m) /\ Pending(m)' = Pending(m)
    <3>1. Used(m)' = Used(m)
      BY <1>1 DEF Used
    <3>2. q \notin Pending(m) /\ (q \in Sending(m) <=> r.own.month = m)
      BY <1>1, <1>2, <1>3, <1>4, ChatKinds DEF Pending, Makes, Sending, Doing
    <3>3. Sending(m)' = Sending(m)
      BY <1>7, <1>8, <3>2 DEF Becomes
    <3>4. Pending(m)' = Pending(m)
      BY <1>7, <1>8, <3>2 DEF Becomes
    <3>5. QED
      BY <3>1, <3>3, <3>4
  <2>2. QED
    BY <2>1
<1>13. UsageInv'
  BY <1>1, <1>3, <1>4, <1>8 DEF ChatInv, UsageInv, Becomes
<1>14. TallyInv'
  <2>1. ASSUME "increment" \in Watched \ cut, NEW m \in Month
        PROVE  answered'[m] = Used(m)' + Cardinality(Pending(m)')
    BY <1>1, <1>12, <2>1 DEF ChatInv, TallyInv
  <2>2. QED
    BY <1>1, <2>1 DEF TallyInv
<1>15. QED
  BY <1>1, <1>9, <1>10, <1>11, <1>12, <1>13, <1>14 DEF ChatInv

LEMMA StoresReply ==
    ASSUME ChatInv, NEW q \in Request, StoreReply(q)
    PROVE  ChatInv' /\ \A m \in Month : UNCHANGED <<Used(m), Sending(m), chatCrowd>>
<1>1. /\ Makes(q, "storeReply") /\ cut' = cut
      /\ UNCHANGED <<messagesUsed, month, turns, torn, chatCrowd>>
  BY DEF StoreReply, Continue, GoOn
<1>2. ChatReqsTyped /\ ChatTablesTyped /\ req[q] \in {NoRequest} \union ChatReqs
  BY DEF ChatInv, ChatReqsTyped
<1>3. req[q] \in Replying /\ req[q] \in Sends /\ req[q] \in ChatReqs
  BY <1>1, <1>2, ChatKinds DEF Makes, Idle, Sends, ChatReqs
<1>4. PICK r \in Counting : r = Advanced(q, req[q].own) /\ r.own = req[q].own
  BY <1>3, ChatAdvances
<1>5. PICK t \in 1 .. MaxTurns : req[q].own.turn = t
  BY <1>3, SendFacts
<1>a. PICK n \in Month : req[q].own.month = n
  BY <1>3, SendFacts
<1>6. messages' = messages \union {<<t, "assistant">>} /\ answered' = [answered EXCEPT ![n] = answered[n] + 1]
  BY <1>5, <1>a DEF StoreReply
<1>7. r \in Sends /\ r \in ChatReqs /\ r \notin Replying
  <2>1. r \in Sends /\ r \in ChatReqs
    BY DEF Sends, ChatReqs
  <2>2. QED
    BY <2>1, ChatKinds, ChatTodos DEF Replying, Counting
<1>8. Becomes(q, r)
  <2>1. req' = [req EXCEPT ![q] = r]
    BY <1>4, Zenon DEF StoreReply, Continue, GoOn
  <2>2. r \in {NoRequest} \union ChatReqs
    BY <1>7
  <2>3. QED
    BY <1>2, <2>1, <2>2, ChatMoves, Zenon
<1>b. answered[n] \in Nat /\ answered' \in [Month -> Nat] /\ answered'[n] = answered[n] + 1
      /\ \A m \in Month : m # n => answered'[m] = answered[m]
  <2>1. answered \in [Month -> Nat] /\ answered[n] \in Nat /\ answered[n] + 1 \in Nat
    BY <1>2 DEF ChatTablesTyped
  <2>2. QED
    BY <1>6, <2>1
<1>9. ChatTablesTyped' /\ ChatReqsTyped'
  BY <1>1, <1>2, <1>6, <1>8, <1>b DEF ChatTablesTyped, Becomes
<1>10. ReplyInv'
  BY <1>1, <1>6, <1>7, <1>8 DEF ChatInv, ReplyInv, Becomes
<1>11. PairInv'
  <2>1. ASSUME NEW u \in (1 .. MaxTurns) \ torn
        PROVE  /\ <<u, "assistant">> \in messages' => <<u, "user">> \in messages'
               /\ <<u, "user">> \in messages' /\ "storeReply" \in Watched \ cut =>
                    \/ <<u, "assistant">> \in messages'
                    \/ \E p \in Request : req'[p] \in Replying /\ req'[p].own.turn = u
    <3>1. <<u, "assistant">> \in messages' => <<u, "user">> \in messages'
      <4>1. CASE u = t
        BY <1>3, <1>5, <1>6, <2>1, <4>1 DEF ChatInv, ReplyInv
      <4>2. CASE u # t
        BY <1>6, <2>1, <4>2 DEF ChatInv, PairInv
      <4>3. QED
        BY <4>1, <4>2
    <3>3. ASSUME <<u, "user">> \in messages', "storeReply" \in Watched \ cut,
                 <<u, "assistant">> \notin messages'
          PROVE  \E p \in Request : req'[p] \in Replying /\ req'[p].own.turn = u
      <4>1. <<u, "user">> \in messages /\ <<u, "assistant">> \notin messages /\ u # t
        BY <1>6, <3>3
      <4>2. PICK p \in Request : req[p] \in Replying /\ req[p].own.turn = u
        BY <2>1, <3>3, <4>1 DEF ChatInv, PairInv
      <4>3. p # q
        BY <1>5, <4>1, <4>2
      <4>4. QED
        BY <1>8, <4>2, <4>3 DEF Becomes
    <3>4. QED
      BY <3>1, <3>3
  <2>2. QED
    BY <1>1, <2>1 DEF PairInv
<1>12. \A m \in Month :
         /\ Used(m)' = Used(m) /\ Sending(m)' = Sending(m) /\ q \notin Pending(m)
         /\ m = n => Pending(m)' = Pending(m) \union {q}
         /\ m # n => Pending(m)' = Pending(m)
  <2>1. ASSUME NEW m \in Month
        PROVE  /\ Used(m)' = Used(m) /\ Sending(m)' = Sending(m) /\ q \notin Pending(m)
               /\ m = n => Pending(m)' = Pending(m) \union {q}
               /\ m # n => Pending(m)' = Pending(m)
    <3>1. Used(m)' = Used(m)
      BY <1>1 DEF Used
    <3>2. q \notin Pending(m) /\ (q \in Sending(m) <=> r.own.month = m)
      BY <1>1, <1>2, <1>3, <1>4, ChatKinds DEF Pending, Makes, Sending, Doing
    <3>3. Sending(m)' = Sending(m)
      BY <1>7, <1>8, <3>2 DEF Becomes
    <3>4. /\ m = n => Pending(m)' = Pending(m) \union {q}
          /\ m # n => Pending(m)' = Pending(m)
      BY <1>4, <1>8, <1>a, <3>2 DEF Becomes
    <3>5. QED
      BY <3>1, <3>2, <3>3, <3>4
  <2>2. QED
    BY <2>1
<1>13. UsageInv'
  BY <1>1, <1>3, <1>4, <1>8 DEF ChatInv, UsageInv, Becomes
<1>14. TallyInv'
  <2>1. ASSUME "increment" \in Watched \ cut, NEW m \in Month
        PROVE  answered'[m] = Used(m)' + Cardinality(Pending(m)')
    <3>1. answered[m] = Used(m) + Cardinality(Pending(m))
      BY <2>1 DEF ChatInv, TallyInv
    <3>2. m # n => Cardinality(Pending(m)') = Cardinality(Pending(m))
      BY <1>12
    <3>3. m = n => Cardinality(Pending(m)') = Cardinality(Pending(m)) + 1
      <4>1. ASSUME m = n
            PROVE  Cardinality(Pending(m)') = Cardinality(Pending(m)) + 1
        <5>1. Pending(m)' = Pending(m) \union {q} /\ q \notin Pending(m) /\ IsFiniteSet(Pending(m))
          BY <1>12, <4>1, ChatCounts
        <5>2. QED
          BY <5>1, FS_AddElement
      <4>2. QED
        BY <4>1
    <3>4. Used(m) \in Nat /\ Cardinality(Pending(m)) \in Nat /\ Used(m)' = Used(m)
      <4>1. Used(m) \in Nat
        BY <1>2 DEF ChatTablesTyped, Used
      <4>2. QED
        BY <1>12, <4>1, ChatCounts
    <3>5. QED
      BY <1>b, <3>1, <3>2, <3>3, <3>4
  <2>2. QED
    BY <1>1, <2>1 DEF TallyInv
<1>15. QED
  BY <1>1, <1>9, <1>10, <1>11, <1>12, <1>13, <1>14 DEF ChatInv

LEMMA CountsReply ==
    ASSUME ChatInv, NEW q \in Request, IncrementMessages(q)
    PROVE  /\ ChatInv' /\ UNCHANGED chatCrowd
           /\ \E n \in Month :
                /\ q \in Sending(n) /\ Sending(n)' = Sending(n) \ {q} /\ Used(n)' = Used(n) + 1
                /\ \A m \in Month : m # n => UNCHANGED <<Used(m), Sending(m)>>
<1>1. /\ Makes(q, "increment") /\ cut' = cut
      /\ UNCHANGED <<messages, month, turns, answered, torn, chatCrowd>>
  BY DEF IncrementMessages, chatGhosts, Continue, GoOn
<1>2. ChatReqsTyped /\ ChatTablesTyped /\ req[q] \in {NoRequest} \union ChatReqs
  BY DEF ChatInv, ChatReqsTyped
<1>3. req[q] \in Counting /\ req[q] \in Sends /\ req[q] \in ChatReqs
  BY <1>1, <1>2, ChatKinds DEF Makes, Idle, Sends, ChatReqs
<1>4. PICK n \in Month : req[q].own.month = n
  BY <1>3, SendFacts
<1>5. NoUsage \notin Nat /\ messagesUsed[n] \in Nat
  <2>1. NoUsage \notin Nat
    BY SMT DEF NoUsage
  <2>2. messagesUsed[n] # NoUsage
    BY <1>3, <1>4 DEF ChatInv, UsageInv
  <2>3. QED
    BY <1>2, <2>1, <2>2 DEF ChatTablesTyped
<1>6. messagesUsed' = [messagesUsed EXCEPT ![n] = messagesUsed[n] + 1]
  <2>1. messagesUsed' = [messagesUsed EXCEPT ![n] =
            IF messagesUsed[n] = NoUsage THEN messagesUsed[n] ELSE messagesUsed[n] + 1]
    BY <1>4 DEF IncrementMessages, CountedIn
  <2>2. messagesUsed[n] # NoUsage
    BY <1>5
  <2>3. QED
    BY <2>1, <2>2
<1>7. /\ messagesUsed' \in [Month -> Nat \union {NoUsage}] /\ messagesUsed'[n] = messagesUsed[n] + 1
      /\ \A m \in Month : m # n => messagesUsed'[m] = messagesUsed[m]
  <2>1. messagesUsed \in [Month -> Nat \union {NoUsage}] /\ messagesUsed[n] + 1 \in Nat
    BY <1>2, <1>5 DEF ChatTablesTyped
  <2>2. QED
    BY <1>6, <2>1
<1>8. Becomes(q, NoRequest)
  <2>1. req' = [req EXCEPT ![q] = NoRequest]
    BY <1>3, ChatAdvances, Zenon DEF IncrementMessages, Continue, GoOn
  <2>2. NoRequest \in {NoRequest} \union ChatReqs
    OBVIOUS
  <2>3. QED
    BY <1>2, <2>1, <2>2, ChatMoves, Zenon
<1>9. ChatTablesTyped' /\ ChatReqsTyped'
  BY <1>1, <1>2, <1>7, <1>8 DEF ChatTablesTyped, Becomes
<1>10. /\ Used(n)' = Used(n) + 1 /\ Used(n) \in Nat
       /\ \A m \in Month : m # n => Used(m)' = Used(m)
  <2>1. messagesUsed[n] # NoUsage /\ messagesUsed'[n] # NoUsage
    BY <1>5, <1>7
  <2>2. QED
    BY <1>5, <1>7, <2>1 DEF Used
<1>11. NoRequest \notin Sends /\ NoRequest \notin Replying /\ NoRequest \notin Counting
  BY NoChatRequest DEF Sends
<1>12. \A m \in Month :
         /\ Sending(m)' = Sending(m) \ {q} /\ Pending(m)' = Pending(m) \ {q}
         /\ q \in Sending(m) <=> m = n
         /\ q \in Pending(m) <=> m = n
  <2>1. \A m \in Month : (q \in Sending(m) <=> m = n) /\ (q \in Pending(m) <=> m = n)
    BY <1>1, <1>2, <1>3, <1>4, ChatKinds DEF Pending, Sending, Doing
  <2>2. QED
    BY <1>8, <1>11, <2>1 DEF Becomes
<1>13. ReplyInv' /\ PairInv'
  <2>1. req[q] \notin Replying
    BY <1>3, ChatTodos DEF Counting, Replying
  <2>2. \A p \in Request : req'[p] \in Replying <=> req[p] \in Replying
    BY <1>8, <1>11, <2>1 DEF Becomes
  <2>3. \A p \in Request : req[p] \in Replying => req'[p] = req[p]
    BY <1>8, <2>1 DEF Becomes
  <2>4. ReplyInv'
    BY <1>1, <2>2, <2>3 DEF ChatInv, ReplyInv
  <2>5. PairInv'
    BY <1>1, <2>2, <2>3 DEF ChatInv, PairInv
  <2>6. QED
    BY <2>4, <2>5
<1>14. UsageInv'
  <2>1. ASSUME NEW p \in Request, req'[p] \in Sends
        PROVE  messagesUsed'[req'[p].own.month] # NoUsage
    <3>1. p # q /\ req'[p] = req[p]
      BY <1>8, <1>11, <2>1 DEF Becomes
    <3>2. PICK m \in Month : req[p].own.month = m
      BY <2>1, <3>1, SendFacts
    <3>3. messagesUsed[m] # NoUsage
      BY <2>1, <3>1, <3>2 DEF ChatInv, UsageInv
    <3>4. messagesUsed'[m] # NoUsage
      BY <1>5, <1>7, <3>3
    <3>5. QED
      BY <3>1, <3>2, <3>4
  <2>2. QED
    BY <2>1 DEF UsageInv
<1>15. TallyInv'
  <2>1. ASSUME "increment" \in Watched \ cut, NEW m \in Month
        PROVE  answered'[m] = Used(m)' + Cardinality(Pending(m)')
    <3>1. answered[m] = Used(m) + Cardinality(Pending(m))
      BY <2>1 DEF ChatInv, TallyInv
    <3>2. CASE m # n
      <4>1. Pending(m)' = Pending(m)
        BY <1>12, <3>2
      <4>2. QED
        BY <1>1, <1>10, <3>1, <3>2, <4>1
    <3>3. CASE m = n
      <4>1. Pending(m)' = Pending(m) \ {q} /\ q \in Pending(m) /\ IsFiniteSet(Pending(m))
        BY <1>12, <3>3, ChatCounts
      <4>2. Cardinality(Pending(m)') = Cardinality(Pending(m)) - 1
        BY <4>1, FS_RemoveElement
      <4>3. Cardinality(Pending(m)) \in Nat /\ Cardinality(Pending(m)') \in Nat
        BY ChatCounts
      <4>4. QED
        BY <1>1, <1>10, <3>1, <3>3, <4>2, <4>3
    <3>4. QED
      BY <3>2, <3>3
  <2>2. QED
    BY <1>1, <2>1 DEF TallyInv
<1>16. ChatInv'
  BY <1>9, <1>13, <1>14, <1>15 DEF ChatInv
<1>17. \A m \in Month : m # n => Used(m)' = Used(m) /\ Sending(m)' = Sending(m)
  BY <1>10, <1>12
<1>18. QED
  BY <1>1, <1>10, <1>12, <1>16, <1>17

LEMMA AsksToErase ==
    ASSUME ChatInv, NEW q \in Request, DeleteAllMessages(q)
    PROVE  ChatInv' /\ \A m \in Month : UNCHANGED <<Used(m), Sending(m), chatCrowd>>
<1> DEFINE r == [method |-> "deleteAll", todo |-> <<"deleteAll">>, wrote |-> FALSE, own |-> <<>>]
<1>1. /\ Idle(q) /\ cut' = cut /\ req' = [req EXCEPT ![q] = r]
      /\ UNCHANGED <<messages, messagesUsed, month, turns, answered, torn, chatCrowd>>
  BY DEF DeleteAllMessages, Begin, chatVars, chatTables, chatGhosts
<1>2. ChatReqsTyped /\ ChatTablesTyped /\ req[q] \in {NoRequest} \union ChatReqs
  BY DEF ChatInv, ChatReqsTyped
<1>3. req[q] = NoRequest
  BY <1>1, <1>2, ChatKinds DEF Idle
<1>4. r \in Erasing /\ r \in {NoRequest} \union ChatReqs
  BY DEF Erasing, ToErase, ChatReqs
<1> HIDE DEF r
<1>5. r \notin Sends /\ r \notin Replying /\ r \notin Counting
  <2>1. r.method = "deleteAll"
    BY <1>4 DEF Erasing
  <2>2. r \notin Sends
    BY <2>1 DEF Sends, Asking, Replying, Counting
  <2>3. QED
    BY <2>2 DEF Sends
<1>6. Becomes(q, r)
  BY <1>1, <1>2, <1>4, ChatMoves, Zenon
<1>7. ChatReqsTyped' /\ ChatTablesTyped'
  BY <1>1, <1>2, <1>6 DEF Becomes, ChatTablesTyped
<1>8. \A m \in Month : Used(m)' = Used(m) /\ Sending(m)' = Sending(m)
  <2>1. \A m \in Month : q \notin Sending(m)
    BY <1>3, ChatKinds, NoChatRequest DEF Sending, Doing
  <2>2. \A m \in Month : Sending(m)' = Sending(m)
    BY <1>5, <1>6, <2>1 DEF Becomes
  <2>3. \A m \in Month : Used(m)' = Used(m)
    BY <1>1 DEF Used
  <2>4. QED
    BY <2>2, <2>3
<1>9. ChatInv'
  <2>1. req[q] \notin Replying /\ req[q] \notin Counting
    BY <1>3, NoChatRequest DEF Sends
  <2>2. \A p \in Request : req'[p] # req[p] => p = q /\ req'[p] = r
    BY <1>6 DEF Becomes
  <2>3. QED
    BY <1>1, <1>5, <1>7, <1>8, <2>1, <2>2, ChatKept
<1>10. QED
  BY <1>1, <1>8, <1>9

LEMMA ErasesMessages ==
    ASSUME ChatInv, NEW q \in Request, DeleteAllByUser(q)
    PROVE  ChatInv' /\ \A m \in Month : UNCHANGED <<Used(m), Sending(m), chatCrowd>>
<1>1. /\ Makes(q, "deleteAll") /\ cut' = cut /\ messages' = {}
      /\ torn' = torn \union {req[p].own.turn : p \in Doing({"sendMessage"})}
      /\ UNCHANGED <<messagesUsed, month, turns, answered, chatCrowd>>
  BY DEF DeleteAllByUser, Continue, GoOn
<1>2. ChatReqsTyped /\ ChatTablesTyped /\ req[q] \in {NoRequest} \union ChatReqs
  BY DEF ChatInv, ChatReqsTyped
<1>3. req[q] \in Erasing /\ req[q] \in ChatReqs
  BY <1>1, <1>2, ChatKinds DEF Makes, Idle, ChatReqs
<1>4. Becomes(q, NoRequest)
  <2>1. req' = [req EXCEPT ![q] = NoRequest]
    BY <1>3, ChatAdvances, Zenon DEF DeleteAllByUser, Continue, GoOn
  <2>2. NoRequest \in {NoRequest} \union ChatReqs
    OBVIOUS
  <2>3. QED
    BY <1>2, <2>1, <2>2, ChatMoves, Zenon
<1>5. req[q] \notin Sends /\ NoRequest \notin Sends /\ Replying \subseteq Sends /\ Counting \subseteq Sends
  <2>1. req[q] \notin Sends
    BY <1>3 DEF Erasing, Sends, Asking, Replying, Counting
  <2>2. QED
    BY <2>1, NoChatRequest DEF Sends
<1>6. \A p \in Request : req'[p] \in Sends => req[p] \in Sends /\ req'[p] = req[p]
  BY <1>4, <1>5 DEF Becomes
<1>7. \A p \in Request : req[p] \in Sends => p \in Doing({"sendMessage"}) /\ req[p].own.turn \in torn'
  <2>1. \A p \in Request : req[p] \in Sends => p \in Doing({"sendMessage"})
    BY <1>2, ChatKinds DEF Doing, ChatReqsTyped
  <2>2. QED
    BY <1>1, <2>1
<1>8. torn' \subseteq 1 .. MaxTurns
  <2>1. \A p \in Doing({"sendMessage"}) : req[p] \in Sends
    BY <1>2, ChatKinds DEF Doing, ChatReqsTyped
  <2>2. \A p \in Doing({"sendMessage"}) : req[p].own.turn \in 1 .. MaxTurns
    BY <2>1, SendFacts
  <2>3. QED
    BY <1>1, <1>2, <2>2 DEF ChatTablesTyped
<1>9. ChatTablesTyped' /\ ChatReqsTyped'
  BY <1>1, <1>2, <1>4, <1>8 DEF ChatTablesTyped, Becomes
<1>10. ReplyInv' /\ PairInv'
  BY <1>1, <1>5, <1>6, <1>7 DEF ReplyInv, PairInv
<1>11. UsageInv'
  BY <1>1, <1>6 DEF ChatInv, UsageInv
<1>12. \A m \in Month : Used(m)' = Used(m) /\ Sending(m)' = Sending(m) /\ Pending(m)' = Pending(m)
  <2>1. \A m \in Month : q \notin Sending(m) /\ q \notin Pending(m)
    BY <1>2, <1>5, ChatKinds DEF Pending, Sending, Doing
  <2>2. NoRequest \notin Counting
    BY <1>5
  <2>3. \A m \in Month : Sending(m)' = Sending(m) /\ Pending(m)' = Pending(m)
    BY <1>4, <1>5, <2>1, <2>2 DEF Becomes
  <2>4. \A m \in Month : Used(m)' = Used(m)
    BY <1>1 DEF Used
  <2>5. QED
    BY <2>3, <2>4
<1>13. TallyInv'
  <2>1. ASSUME "increment" \in Watched \ cut, NEW m \in Month
        PROVE  answered'[m] = Used(m)' + Cardinality(Pending(m)')
    BY <1>1, <1>12, <2>1 DEF ChatInv, TallyInv
  <2>2. QED
    BY <1>1, <2>1 DEF TallyInv
<1>14. QED
  BY <1>1, <1>9, <1>10, <1>11, <1>12, <1>13 DEF ChatInv

LEMMA MonthPasses ==
    ASSUME ChatInv, NextMonth
    PROVE  ChatInv' /\ \A m \in Month : UNCHANGED <<Used(m), Sending(m), chatCrowd>>
<1>1. /\ UNCHANGED <<req, cut, messages, messagesUsed, turns, answered, torn, chatCrowd>>
      /\ month < MaxMonth /\ month' = month + 1
  BY DEF NextMonth, requestVars, chatGhosts
<1>2. month' \in Month
  BY <1>1, ChatAssumption DEF ChatInv, ChatTablesTyped, Month
<1>3. ChatReqsTyped' /\ ChatTablesTyped'
  BY <1>1, <1>2 DEF ChatInv, ChatReqsTyped, ChatTablesTyped
<1>4. \A m \in Month : Used(m)' = Used(m) /\ Sending(m)' = Sending(m)
  BY <1>1 DEF Used, Sending, Doing
<1>5. ChatInv'
  BY <1>1, <1>3, <1>4, ChatKept
<1>6. QED
  BY <1>1, <1>4, <1>5

\* A failed call, or a crash.  What a request had still to do is lost, the
\* increment also when its failure is ignored.
LEMMA ChatEnds ==
    ASSUME ChatInv, UNCHANGED chatVars, (\E q \in Request : CallFails(q, {"increment"})) \/ Crash
    PROVE  ChatInv' /\ \A m \in Month : Used(m)' = Used(m) /\ Sending(m)' \subseteq Sending(m)
<1>1. UNCHANGED <<messages, messagesUsed, month, turns, answered, torn, chatCrowd>>
  BY DEF chatVars, chatTables, chatGhosts
<1>2. ChatReqsTyped /\ ChatTablesTyped /\ \A p \in Request : req[p] \in {NoRequest} \union ChatReqs
  BY DEF ChatInv, ChatReqsTyped
<1>3. ASSUME NEW p \in Request
      PROVE  /\ req[p] \in Replying /\ "storeReply" \in Watched => "storeReply" \in Lost(p)
             /\ req[p] \in Counting /\ "increment" \in Watched => "increment" \in Lost(p)
  <2>1. ASSUME req[p] \in Replying
        PROVE  "storeReply" \in {req[p].todo[i] : i \in DOMAIN req[p].todo} /\ req[p].wrote = TRUE
    <3>1. req[p].todo = ToReply /\ req[p].wrote = TRUE
      BY <2>1 DEF Replying
    <3>2. 1 \in DOMAIN ToReply /\ ToReply[1] = "storeReply"
      BY DEF ToReply
    <3>3. QED
      BY <3>1, <3>2
  <2>2. ASSUME req[p] \in Counting
        PROVE  "increment" \in {req[p].todo[i] : i \in DOMAIN req[p].todo} /\ req[p].wrote = TRUE
    <3>1. req[p].todo = ToCount /\ req[p].wrote = TRUE
      BY <2>2 DEF Counting
    <3>2. 1 \in DOMAIN ToCount /\ ToCount[1] = "increment"
      BY DEF ToCount
    <3>3. QED
      BY <3>1, <3>2
  <2>3. QED
    BY <2>1, <2>2 DEF Lost
<1>4. /\ ChatReqsTyped' /\ cut \subseteq cut'
      /\ \A p \in Request : req'[p] # req[p] =>
           /\ req'[p] = NoRequest
           /\ req[p] \in Replying /\ "storeReply" \in Watched => "storeReply" \in cut'
           /\ req[p] \in Counting /\ "increment" \in Watched => "increment" \in cut'
  <2>1. ASSUME NEW q \in Request, CallFails(q, {"increment"})
        PROVE  /\ ChatReqsTyped' /\ cut \subseteq cut'
               /\ \A p \in Request : req'[p] # req[p] =>
                    /\ req'[p] = NoRequest
                    /\ req[p] \in Replying /\ "storeReply" \in Watched => "storeReply" \in cut'
                    /\ req[p] \in Counting /\ "increment" \in Watched => "increment" \in cut'
    <3>1. ~Idle(q)
      BY <2>1 DEF CallFails
    <3>2. req[q] \in ChatReqs
      BY <1>2, <3>1, ChatKinds, NoChatRequest DEF Idle
    <3>3. Head(req[q].todo) = "increment" <=> req[q] \in Counting
      BY <1>2, <3>1, ChatKinds DEF Idle
    <3>4. req' = [req EXCEPT ![q] = NoRequest]
      <4>1. CASE req[q] \in Counting
        <5>1. Head(req[q].todo) \in {"increment"} /\ Advanced(q, req[q].own) = NoRequest
          BY <3>2, <3>3, <4>1, ChatAdvances
        <5>2. req' = [req EXCEPT ![q] = Advanced(q, req[q].own)]
          BY <2>1, <5>1, Zenon DEF CallFails
        <5>3. QED
          BY <5>1, <5>2, Zenon
      <4>2. CASE req[q] \notin Counting
        <5>1. Head(req[q].todo) \notin {"increment"}
          BY <3>3, <4>2
        <5>2. QED
          BY <2>1, <5>1, Zenon DEF CallFails
      <4>3. QED
        BY <4>1, <4>2
    <3>5. /\ req[q] \in Counting => cut' = cut \union ({"increment"} \intersect Watched)
          /\ req[q] \notin Counting => cut' = cut \union Lost(q)
      <4>1. CASE req[q] \in Counting
        <5>1. Head(req[q].todo) = "increment"
          BY <3>3, <4>1
        <5>2. Head(req[q].todo) \in {"increment"}
          BY <5>1
        <5>3. cut' = cut \union ({Head(req[q].todo)} \intersect Watched)
          BY <2>1, <5>2, Zenon DEF CallFails
        <5>4. QED
          BY <4>1, <5>1, <5>3
      <4>2. CASE req[q] \notin Counting
        <5>1. Head(req[q].todo) \notin {"increment"}
          BY <3>3, <4>2
        <5>2. cut' = cut \union Lost(q)
          BY <2>1, <5>1, Zenon DEF CallFails
        <5>3. QED
          BY <4>2, <5>2
      <4>3. QED
        BY <4>1, <4>2
    <3>6. /\ ChatReqsTyped' /\ req'[q] = NoRequest /\ \A p \in Request : p # q => req'[p] = req[p]
      BY <1>2, <3>4 DEF ChatReqsTyped
    <3>7. /\ req[q] \in Replying /\ "storeReply" \in Watched => "storeReply" \in cut'
          /\ req[q] \in Counting /\ "increment" \in Watched => "increment" \in cut'
      <4>1. req[q] \in Replying => req[q] \notin Counting
        BY ChatTodos DEF Replying, Counting
      <4>2. QED
        BY <1>3, <3>5, <4>1
    <3>8. QED
      BY <3>5, <3>6, <3>7
  <2>2. ASSUME Crash
        PROVE  /\ ChatReqsTyped' /\ cut \subseteq cut'
               /\ \A p \in Request : req'[p] # req[p] =>
                    /\ req'[p] = NoRequest
                    /\ req[p] \in Replying /\ "storeReply" \in Watched => "storeReply" \in cut'
                    /\ req[p] \in Counting /\ "increment" \in Watched => "increment" \in cut'
    <3>1. req' = [p \in Request |-> NoRequest] /\ cut' = cut \union UNION {Lost(p) : p \in Request}
      BY <2>2 DEF Crash
    <3>2. ChatReqsTyped' /\ \A p \in Request : req'[p] = NoRequest
      BY <3>1 DEF ChatReqsTyped
    <3>3. cut \subseteq cut' /\ \A p \in Request : Lost(p) \subseteq cut'
      BY <3>1
    <3>4. QED
      BY <1>3, <3>2, <3>3
  <2>3. QED
    BY <2>1, <2>2
<1>5. ChatTablesTyped'
  BY <1>1, <1>2 DEF ChatTablesTyped
<1>6. \A m \in Month : Used(m)' = Used(m)
  BY <1>1 DEF Used
<1>7. NoRequest \notin Sends /\ NoRequest \notin Replying /\ NoRequest \notin Counting
  BY NoChatRequest DEF Sends
<1>8. ChatInv'
  BY <1>1, <1>4, <1>5, <1>6, <1>7, ChatKept
<1>9. \A m \in Month : Sending(m)' \subseteq Sending(m)
  <2>1. \A p \in Request : req'[p].method = "sendMessage" => req'[p] = req[p]
    BY <1>4 DEF NoRequest
  <2>2. QED
    BY <2>1 DEF Sending, Doing
<1>10. QED
  BY <1>6, <1>8, <1>9

-----------------------------------------------------------------------------
(* The behaviours                                                          *)

LEMMA ChatBegins ==
    ASSUME RequestsInit, ChatInit
    PROVE  ChatInv /\ \A m \in Month : Used(m) = 0 /\ Sending(m) = {} /\ chatCrowd[m] = 0
<1>1. /\ req = [q \in Request |-> NoRequest] /\ \A q \in Request : req[q] = NoRequest
      /\ messages = {} /\ messagesUsed = [m \in Month |-> NoUsage] /\ month = 0 /\ turns = 0
      /\ torn = {} /\ answered = [m \in Month |-> 0] /\ chatCrowd = [m \in Month |-> 0]
  BY DEF RequestsInit, ChatInit
<1>2. ChatReqsTyped /\ ChatTablesTyped
  BY <1>1, ChatAssumption DEF ChatReqsTyped, ChatTablesTyped, Month
<1>3. \A m \in Month : Used(m) = 0 /\ chatCrowd[m] = 0
  BY <1>1 DEF Used
<1>4. \A m \in Month : Sending(m) = {} /\ Pending(m) = {}
  BY <1>1 DEF Pending, Sending, Doing, NoRequest
<1>5. ReplyInv /\ PairInv /\ UsageInv
  BY <1>1, NoChatRequest DEF ReplyInv, PairInv, UsageInv
<1>6. TallyInv
  BY <1>1, <1>3, <1>4, FS_EmptySet DEF TallyInv
<1>7. QED
  BY <1>2, <1>3, <1>4, <1>5, <1>6 DEF ChatInv

LEMMA ChatStutters ==
    ASSUME ChatInv, UNCHANGED <<requestVars, chatVars>>
    PROVE  ChatInv' /\ \A m \in Month : UNCHANGED <<Used(m), Sending(m), chatCrowd>>
<1>1. UNCHANGED <<req, cut, messages, messagesUsed, month, turns, answered, torn, chatCrowd>>
  BY DEF requestVars, chatVars, chatTables, chatGhosts
<1>2. ChatReqsTyped' /\ ChatTablesTyped'
  BY <1>1 DEF ChatInv, ChatReqsTyped, ChatTablesTyped
<1>3. \A m \in Month : Used(m)' = Used(m) /\ Sending(m)' = Sending(m)
  BY <1>1 DEF Used, Sending, Doing
<1>4. ChatInv'
  BY <1>1, <1>2, <1>3, ChatKept
<1>5. QED
  BY <1>1, <1>3, <1>4

\* Steps that admit nobody, count nothing and end no request.
Chats(q) == StoreQuestion(q) \/ StoreReply(q) \/ DeleteAllMessages(q) \/ DeleteAllByUser(q)
ChatKeeps ==
    \/ \E q \in Request : Chats(q)
    \/ GetUsage \/ NextMonth \/ UNCHANGED <<requestVars, chatVars>>
ChatStops == UNCHANGED chatVars /\ ((\E q \in Request : CallFails(q, {"increment"})) \/ Crash)

LEMMA ChatKeepsFacts ==
    ASSUME ChatInv, ChatKeeps
    PROVE  ChatInv' /\ \A m \in Month : UNCHANGED <<Used(m), Sending(m), chatCrowd>>
  BY StoresQuestion, StoresReply, AsksToErase, ErasesMessages, GetsUsage, MonthPasses, ChatStutters
     DEF ChatKeeps, Chats

LEMMA ChatSteps ==
    ASSUME [ChatNext]_<<requestVars, chatVars>>
    PROVE  \/ \E q \in Request : SendMessage(q) \/ IncrementMessages(q)
           \/ ChatKeeps \/ ChatStops
  BY Zenon DEF ChatNext, ChatKeeps, Chats, ChatStops

LEMMA ChatStep ==
    ASSUME ChatInv, [ChatNext]_<<requestVars, chatVars>>
    PROVE  ChatInv'
<1>1. ASSUME NEW q \in Request, SendMessage(q) \/ IncrementMessages(q)
      PROVE  ChatInv'
  BY <1>1, SendsMessage, CountsReply
<1>2. CASE ChatKeeps
  BY <1>2, ChatKeepsFacts
<1>3. CASE ChatStops
  BY <1>3, ChatEnds DEF ChatStops
<1>4. QED
  BY <1>1, <1>2, <1>3, ChatSteps

\* What a step is for the limit of a month.
LEMMA QuotaStep ==
    ASSUME ChatInv, ChatInv', [ChatNext]_<<requestVars, chatVars>>, NEW m \in Month
    PROVE  [QuotaOf(m)!LimitNext]_(QuotaOf(m)!limitVars)
<1> DEFINE admitted == Cardinality(Sending(m))
<1>1. /\ IsFiniteSet(Sending(m)) /\ admitted \in Nat
      /\ IsFiniteSet(Sending(m)') /\ admitted' \in Nat
      /\ Used(m) \in Nat /\ chatCrowd \in [Month -> Nat]
  BY ChatCounts DEF ChatInv, ChatTablesTyped, Used
<1>2. ASSUME UNCHANGED <<Used(m), Sending(m), chatCrowd>>
      PROVE  UNCHANGED QuotaOf(m)!limitVars
  BY <1>2 DEF QuotaOf!limitVars
<1>3. ASSUME NEW q \in Request, SendMessage(q)
      PROVE  QuotaOf(m)!Admit \/ UNCHANGED QuotaOf(m)!limitVars
  <2>1. CASE Sending(m)' = Sending(m) /\ UNCHANGED chatCrowd
    BY <1>2, <1>3, <2>1, SendsMessage
  <2>2. ASSUME Sending(m)' = IF m = month THEN Sending(m) \union {q} ELSE Sending(m),
               q \notin Sending(month), WithinQuota(Used(month)),
               chatCrowd' = [chatCrowd EXCEPT ![month] =
                       IF Cardinality(Sending(month)) + 1 > chatCrowd[month]
                       THEN Cardinality(Sending(month)) + 1 ELSE chatCrowd[month]]
        PROVE  QuotaOf(m)!Admit \/ UNCHANGED QuotaOf(m)!limitVars
    <3>1. Used(m)' = Used(m)
      BY <1>3, SendsMessage
    <3>2. CASE m # month
      <4>1. Sending(m)' = Sending(m) /\ chatCrowd'[m] = chatCrowd[m]
        BY <1>1, <2>2, <3>2
      <4>2. QED
        BY <3>1, <4>1 DEF QuotaOf!limitVars
    <3>3. CASE m = month
      <4>1. Sending(m)' = Sending(m) \union {q} /\ q \notin Sending(m) /\ Used(m) < Quota
        BY <2>2, <3>3 DEF WithinQuota
      <4>2. admitted' = admitted + 1
        BY <1>1, <4>1, FS_AddElement
      <4>3. chatCrowd'[m] = IF admitted' > chatCrowd[m] THEN admitted' ELSE chatCrowd[m]
        BY <1>1, <2>2, <3>3, <4>2
      <4>4. QED
        BY <3>1, <4>1, <4>2, <4>3 DEF QuotaOf!Admit
    <3>4. QED
      BY <3>2, <3>3
  <2>3. QED
    BY <1>3, <2>1, <2>2, SendsMessage
<1>4. ASSUME NEW q \in Request, IncrementMessages(q)
      PROVE  QuotaOf(m)!Count \/ UNCHANGED QuotaOf(m)!limitVars
  <2>1. chatCrowd' = chatCrowd
    BY <1>4, CountsReply
  <2>2. PICK n \in Month :
          /\ q \in Sending(n) /\ Sending(n)' = Sending(n) \ {q} /\ Used(n)' = Used(n) + 1
          /\ \A k \in Month : k # n => UNCHANGED <<Used(k), Sending(k)>>
    BY <1>4, CountsReply
  <2>3. CASE m # n
    BY <1>2, <2>1, <2>2, <2>3
  <2>4. CASE m = n
    <3>1. q \in Sending(m) /\ Sending(m)' = Sending(m) \ {q} /\ Used(m)' = Used(m) + 1
      BY <2>2, <2>4
    <3>2. admitted' = admitted - 1
      BY <1>1, <3>1, FS_RemoveElement
    <3>3. admitted > 0
      BY <1>1, <3>2
    <3>4. QED
      BY <2>1, <3>1, <3>2, <3>3 DEF QuotaOf!Count
  <2>5. QED
    BY <2>3, <2>4
<1>5. ASSUME ChatStops
      PROVE  QuotaOf(m)!GiveUp \/ UNCHANGED QuotaOf(m)!limitVars
  <2>1. Used(m)' = Used(m) /\ Sending(m)' \subseteq Sending(m)
    BY <1>5, ChatEnds DEF ChatStops
  <2>2. chatCrowd' = chatCrowd
    BY <1>5 DEF ChatStops, chatVars, chatGhosts
  <2>3. CASE Sending(m)' = Sending(m)
    BY <1>2, <2>1, <2>2, <2>3
  <2>4. CASE Sending(m)' # Sending(m)
    <3>1. Cardinality(Sending(m)') <= Cardinality(Sending(m))
          /\ Cardinality(Sending(m)) # Cardinality(Sending(m)')
      BY <1>1, <2>1, <2>4, FS_Subset
    <3>2. admitted' \in 0 .. admitted - 1
      BY <1>1, <3>1
    <3>3. QED
      BY <2>1, <2>2, <3>2 DEF QuotaOf!GiveUp
  <2>5. QED
    BY <2>3, <2>4
<1>6. CASE ChatKeeps
  BY <1>2, <1>6, ChatKeepsFacts
<1>7. QED
  BY <1>3, <1>4, <1>5, <1>6, ChatSteps DEF QuotaOf!LimitNext

\* A reply follows its question, and a question has its reply unless the history
\* was deleted meanwhile or the request was cut short before the reply
\* (SendMessage and DeleteAllMessages), whose call is watched for that.
THEOREM TurnsArePaired ==
    ASSUME "storeReply" \in Watched
    PROVE  ChatSpec => []TurnsPaired
<1>1. RequestsInit /\ ChatInit => ChatInv
  BY ChatBegins
<1>2. ChatInv /\ [ChatNext]_<<requestVars, chatVars>> => ChatInv'
  BY ChatStep
<1>3. ChatInv => TurnsPaired
  <2>1. ASSUME ChatInv, NEW t \in (1 .. turns) \ torn
        PROVE  /\ <<t, "assistant">> \in messages => <<t, "user">> \in messages
               /\ <<t, "user">> \in messages /\ "storeReply" \notin cut
                  /\ (\A q \in Doing({"sendMessage"}) : req[q].own.turn # t)
                  => <<t, "assistant">> \in messages
    <3>1. t \in (1 .. MaxTurns) \ torn
      BY <2>1, ChatAssumption DEF ChatInv, ChatTablesTyped
    <3>2. \A q \in Request : req[q] \in Replying => q \in Doing({"sendMessage"})
      BY DEF Doing, Replying
    <3>3. QED
      BY <2>1, <3>1, <3>2 DEF ChatInv, PairInv
  <2>2. QED
    BY <2>1 DEF TurnsPaired
<1>4. QED
  BY <1>1, <1>2, <1>3, PTL DEF ChatSpec

\* The counter of every month is the number of replies stored in it, but for
\* those about to be counted, as long as no increment was lost (SendMessage,
\* which ignores that error, and IncrementMessages, which needs the row).
THEOREM RepliesAreCounted ==
    ASSUME "increment" \in Watched
    PROVE  ChatSpec => []RepliesCounted
<1>1. RequestsInit /\ ChatInit => ChatInv
  BY ChatBegins
<1>2. ChatInv /\ [ChatNext]_<<requestVars, chatVars>> => ChatInv'
  BY ChatStep
<1>3. ChatInv => RepliesCounted
  BY DEF ChatInv, TallyInv, RepliesCounted, Pending
<1>4. QED
  BY <1>1, <1>2, <1>3, PTL DEF ChatSpec

\* In every month the quota is a LimitCheck (GetOrCreate and the comparison in
\* SendMessage): it is exceeded by at most one for each message sent meanwhile.
THEOREM QuotaHolds == ChatSpec => ChatQuota
<1> DEFINE Limits == \A m \in Month : QuotaOf(m)!LimitInit
           Step   == \A m \in Month : [QuotaOf(m)!LimitNext]_(QuotaOf(m)!limitVars)
<1>1. RequestsInit /\ ChatInit => ChatInv /\ Limits
  BY ChatBegins, FS_EmptySet DEF QuotaOf!LimitInit
<1>2. ChatInv /\ [ChatNext]_<<requestVars, chatVars>> => ChatInv'
  BY ChatStep
<1>3. ChatInv /\ ChatInv' /\ [ChatNext]_<<requestVars, chatVars>> => [Step]_<<requestVars, chatVars>>
  <2>1. ASSUME ChatInv, ChatInv', [ChatNext]_<<requestVars, chatVars>>
        PROVE  Step
    BY <2>1, QuotaStep
  <2> HIDE DEF Step
  <2>2. QED
    BY <2>1
<1>4. ChatSpec => Limits /\ [][Step]_<<requestVars, chatVars>>
  <2> HIDE DEF Step, Limits
  <2>1. QED
    BY <1>1, <1>2, <1>3, PTL DEF ChatSpec
<1>5. QED
  BY <1>4 DEF ChatQuota

LEMMA ChatTyping == ChatInv => ChatTypeOK
<1> SUFFICES ASSUME ChatInv PROVE ChatTypeOK
  OBVIOUS
<1>1. {ToAsk, ToReply, ToCount, ToErase} \subseteq Seq(ChatCall)
  BY DEF ToAsk, ToReply, ToCount, ToErase, ChatCall
<1>2. ChatReqs \union {NoRequest}
        \subseteq RequestOf(ChatMethod, ChatCall, {<<>>} \union [turn : 1 .. MaxTurns, month : Month])
  BY <1>1 DEF RequestOf, ChatReqs, Sends, Asking, Replying, Counting, Erasing, Turn, ChatMethod
<1>3. req \in [Request -> RequestOf(ChatMethod, ChatCall,
                 {<<>>} \union [turn : 1 .. MaxTurns, month : Month])]
  BY <1>2 DEF ChatInv, ChatReqsTyped
<1>4. QED
  BY <1>3 DEF ChatInv, ChatTablesTyped, ChatTypeOK

-----------------------------------------------------------------------------
(* The goals: completed exactly when nothing remains                       *)

\* What a request to the goal service may still have to do.
ToInsert    == <<"insert">>
ToRewrite   == <<"update">>
ToRecord    == <<"updateProgress">>
ToRecordAll == <<"updateProgress", "update">>
ToArchive   == <<"softDelete">>

\* The rows it has read, and those it is to write.
GoalOwn  == [target : Goal, read : GoalRow \union {NoGoal}, copy : GoalRow]
Creation == {o \in GoalOwn : o.copy.status = "active" /\ o.copy.current = 0}
Edit     == {o \in GoalOwn : o.copy.status = o.read.status /\ o.copy.current = o.read.current}
Progress == {o \in GoalOwn :
               /\ o.copy.target = o.read.target
               /\ o.read.status = "completed" \/ Meets(o.copy) <=> o.copy.status = "completed"}
Full     == {o \in Progress : o.copy.status = "completed"}

Creates    == [method : {"createGoal"}, todo : {ToInsert}, wrote : {FALSE}, own : Creation]
Edits      == [method : {"updateGoal"}, todo : {ToRewrite}, wrote : {FALSE}, own : Edit]
Records    == [method : {"updateProgress"}, todo : {ToRecord}, wrote : {FALSE}, own : Progress \ Full]
RecordsAll == [method : {"updateProgress"}, todo : {ToRecordAll}, wrote : {FALSE}, own : Full]
Completes  == [method : {"updateProgress"}, todo : {ToRewrite}, wrote : {TRUE}, own : Full]
Archives   == [method : {"deleteGoal"}, todo : {ToArchive}, wrote : {FALSE}, own : GoalOwn]
GoalReqs   == Creates \union Edits \union Records \union RecordsAll \union Completes \union Archives

GoalReqsTyped == req \in [Request -> {NoRequest} \union GoalReqs]

GoalTablesTyped ==
    /\ goal \in [Goal -> GoalRow \union {NoGoal}]
    /\ overtaken \subseteq Goal /\ retargeted \subseteq Goal /\ lowered \subseteq Goal

\* A row that a request is to write is there.
GoalThere ==
    \A q \in Request : req[q] \in GoalReqs \ Creates => goal[req[q].own.target] # NoGoal

Owed(g) == \E q \in Request : req[q] \in Completes /\ req[q].own.target = g

\* A goal that is met but active is one that a request is to complete.
HonestInv ==
    "update" \in Watched \ cut =>
      \A g \in Goal \ (overtaken \union retargeted) :
        /\ goal[g].status = "active" /\ Meets(goal[g]) => Owed(g)
        /\ goal[g].status = "completed" => Meets(goal[g]) \/ g \in lowered

GoalInv == GoalReqsTyped /\ GoalTablesTyped /\ GoalThere /\ HonestInv

-----------------------------------------------------------------------------
(* Rows and requests                                                       *)

LEMMA GoalRows ==
    /\ NoGoal \notin GoalRow /\ NoGoal.status = "absent"
    /\ \A row \in GoalRow : /\ row.status # "absent" /\ row.target \in Nat \ {0} /\ row.current \in Nat
                            /\ row.status \in {"active", "completed", "archived"}
<1>1. NoGoal.status = "absent"
  BY DEF NoGoal
<1>2. \A row \in GoalRow : /\ row.status \in {"active", "completed", "archived"}
                           /\ row.target \in Target /\ row.current \in {0} \union Amount
  BY DEF GoalRow
<1>3. ASSUME NEW row \in GoalRow
      PROVE  row.status # "absent" /\ row.target \in Nat \ {0} /\ row.current \in Nat
  <2>1. {0} \union Amount \subseteq Nat /\ Target \subseteq Nat \ {0}
    BY GoalsAssumption
  <2>2. QED
    BY <1>2, <2>1
<1>4. NoGoal \notin GoalRow
  BY <1>1, <1>3
<1>5. QED
  BY <1>1, <1>2, <1>3, <1>4

LEMMA TwoCalls ==
    ASSUME NEW x, NEW y
    PROVE  <<x>> \o <<y>> = <<x, y>> /\ <<x>> \o <<>> = <<x>>
<1> DEFINE s == <<x>>
           t == <<y>>
           both == <<x, y>>
<1>1. s \in Seq({x, y}) /\ Len(s) = 1 /\ s[1] = x
  OBVIOUS
<1>2. t \in Seq({x, y}) /\ Len(t) = 1 /\ t[1] = y
  OBVIOUS
<1>3. both \in Seq({x, y}) /\ Len(both) = 2 /\ both[1] = x /\ both[2] = y
  OBVIOUS
<1> HIDE DEF s, t, both
<1>a. /\ s \o t \in Seq({x, y}) /\ Len(s \o t) = Len(s) + Len(t)
      /\ \A i \in 1 .. Len(s) + Len(t) : (s \o t)[i] = IF i <= Len(s) THEN s[i] ELSE t[i - Len(s)]
  BY <1>1, <1>2, ConcatProperties, Zenon
<1>4. /\ s \o t \in Seq({x, y}) /\ Len(s \o t) = 2
      /\ \A i \in 1 .. 2 : (s \o t)[i] = IF i <= 1 THEN s[i] ELSE t[i - 1]
  BY <1>1, <1>2, <1>a
<1>5. ASSUME NEW i \in 1 .. 2
      PROVE  (s \o t)[i] = both[i]
  <2>1. i = 1 \/ i = 2
    OBVIOUS
  <2>2. CASE i = 1
    BY <1>1, <1>3, <1>4, <2>2
  <2>3. CASE i = 2
    BY <1>2, <1>3, <1>4, <2>3
  <2>4. QED
    BY <2>1, <2>2, <2>3
<1>6. s \o t = both
  BY <1>3, <1>4, <1>5, SeqEqual
<1>7. s \o <<>> = s
  BY <1>1, ConcatEmptySeq
<1>8. QED
  BY <1>6, <1>7 DEF s, t, both

LEMMA GoalTodos ==
    /\ Head(ToInsert) = "insert" /\ Len(ToInsert) = 1
    /\ Head(ToRewrite) = "update" /\ Len(ToRewrite) = 1
    /\ Head(ToRecord) = "updateProgress" /\ Len(ToRecord) = 1
    /\ Head(ToRecordAll) = "updateProgress" /\ Len(ToRecordAll) = 2 /\ Tail(ToRecordAll) = ToRewrite
    /\ Head(ToArchive) = "softDelete" /\ Len(ToArchive) = 1
    /\ \A t \in {ToInsert, ToRewrite, ToRecord, ToRecordAll, ToArchive} : t # <<>>
  BY DEF ToInsert, ToRewrite, ToRecord, ToRecordAll, ToArchive

LEMMA GoalKinds ==
    ASSUME NEW r \in {NoRequest} \union GoalReqs
    PROVE  /\ r.todo = <<>> <=> r = NoRequest
           /\ r.todo # <<>> /\ Head(r.todo) = "insert" <=> r \in Creates
           /\ r.todo # <<>> /\ Head(r.todo) = "update" <=> r \in Edits \union Completes
           /\ r.todo # <<>> /\ Head(r.todo) = "updateProgress" <=> r \in Records \union RecordsAll
           /\ r.todo # <<>> /\ Head(r.todo) = "softDelete" <=> r \in Archives
           /\ r.method \in GoalMethod <=> r \in GoalReqs
           /\ r \in GoalReqs => r.own \in GoalOwn
<1>1. NoRequest.todo = <<>> /\ NoRequest.method = "none"
  BY DEF NoRequest
<1>2. r \in Creates => r.todo = ToInsert /\ r.method = "createGoal" /\ r.own \in GoalOwn
  BY DEF Creates, Creation
<1>3. r \in Edits => r.todo = ToRewrite /\ r.method = "updateGoal" /\ r.own \in GoalOwn
  BY DEF Edits, Edit
<1>4. r \in Records => r.todo = ToRecord /\ r.method = "updateProgress" /\ r.own \in GoalOwn
  BY DEF Records, Progress
<1>5. r \in RecordsAll => r.todo = ToRecordAll /\ r.method = "updateProgress" /\ r.own \in GoalOwn
  BY DEF RecordsAll, Full, Progress
<1>6. r \in Completes => r.todo = ToRewrite /\ r.method = "updateProgress" /\ r.own \in GoalOwn
  BY DEF Completes, Full, Progress
<1>7. r \in Archives => r.todo = ToArchive /\ r.method = "deleteGoal" /\ r.own \in GoalOwn
  BY DEF Archives
<1>8. QED
  BY <1>1, <1>2, <1>3, <1>4, <1>5, <1>6, <1>7, GoalTodos DEF GoalReqs, GoalMethod

LEMMA NoGoalRequest == NoRequest \notin GoalReqs /\ NoRequest \notin Completes /\ NoRequest.todo = <<>>
<1>1. NoRequest.method = "none" /\ NoRequest.todo = <<>>
  BY DEF NoRequest
<1>2. QED
  BY <1>1 DEF GoalReqs, Creates, Edits, Records, RecordsAll, Completes, Archives

\* A request that is to write more goes on, and every other one ends.
LEMMA GoalAdvances ==
    ASSUME NEW q \in Request, req[q] \in GoalReqs
    PROVE  LET n == Advanced(q, req[q].own) IN
           /\ req[q] \in RecordsAll => n \in Completes /\ n.own = req[q].own
           /\ req[q] \notin RecordsAll => n = NoRequest
<1> DEFINE r == req[q]
           n == Advanced(q, r.own)
<1>1. ASSUME r \in RecordsAll
      PROVE  n \in Completes /\ n.own = r.own
  <2>1. PICK x \in RecordsAll : x = r
    BY <1>1
  <2>2. x.todo = ToRecordAll
    BY DEF RecordsAll
  <2>3. Len(r.todo) # 1 /\ Tail(r.todo) = ToRewrite
    BY <2>1, <2>2, GoalTodos
  <2>4. n = [r EXCEPT !.todo = Tail(r.todo), !.wrote = TRUE, !.own = r.own]
    BY <2>3, Zenon DEF Advanced
  <2>5. PICK t \in {ToRewrite} : Tail(r.todo) = t
    BY <2>3
  <2> DEFINE y == [x EXCEPT !.todo = t, !.wrote = TRUE, !.own = x.own]
  <2>6. n = y
    BY <2>1, <2>4, <2>5
  <2>7. y \in Completes /\ y.own = x.own
    BY DEF RecordsAll, Completes
  <2> HIDE DEF n, y, r
  <2>8. QED
    BY <2>1, <2>6, <2>7
<1>2. ASSUME r \notin RecordsAll
      PROVE  n = NoRequest
  <2>1. r.todo \in {ToInsert, ToRewrite, ToRecord, ToArchive}
    BY <1>2 DEF GoalReqs, Creates, Edits, Records, Completes, Archives
  <2>2. Len(r.todo) = 1
    BY <2>1, GoalTodos
  <2>3. QED
    BY <2>2, Zenon DEF Advanced
<1>3. QED
  BY <1>1, <1>2

\* A step of q: it makes its call and goes on, begins, or ends.
LEMMA GoalMoves ==
    ASSUME GoalReqsTyped, NEW q \in Request, NEW r \in {NoRequest} \union GoalReqs,
           req' = [req EXCEPT ![q] = r]
    PROVE  GoalReqsTyped' /\ req'[q] = r /\ \A p \in Request : p # q => req'[p] = req[p]
  BY DEF GoalReqsTyped

\* Nothing but requests changes: one begins, or some end.
LEMMA GoalsKept ==
    ASSUME GoalInv, GoalReqsTyped', UNCHANGED goalVars, cut \subseteq cut',
           \A p \in Request : req'[p] # req[p] =>
             /\ req'[p] \in GoalReqs \ Creates => goal[req'[p].own.target] # NoGoal
             /\ req[p] \in Completes /\ "update" \in Watched => "update" \in cut'
    PROVE  GoalInv'
<1>1. UNCHANGED <<goal, overtaken, retargeted, lowered>>
  BY DEF goalVars
<1>2. GoalTablesTyped' /\ GoalThere'
  BY <1>1 DEF GoalInv, GoalTablesTyped, GoalThere
<1>3. HonestInv'
  <2>1. ASSUME "update" \in Watched \ cut', NEW g \in Goal, Owed(g)
        PROVE  Owed(g)'
    BY <2>1 DEF Owed
  <2>2. QED
    BY <1>1, <2>1 DEF GoalInv, HonestInv
<1>4. QED
  BY <1>2, <1>3 DEF GoalInv

LEMMA BeginsGoal ==
    ASSUME GoalInv, NEW q \in Request, NEW r \in GoalReqs, Idle(q), req' = [req EXCEPT ![q] = r],
           cut' = cut, UNCHANGED goalVars,
           r \notin Creates => goal[r.own.target] # NoGoal
    PROVE  GoalInv'
<1>1. GoalReqsTyped /\ r \in {NoRequest} \union GoalReqs /\ req[q] \in {NoRequest} \union GoalReqs
  BY DEF GoalInv, GoalReqsTyped
<1>2. req[q] = NoRequest
  BY <1>1, GoalKinds DEF Idle
<1>3. GoalReqsTyped' /\ req'[q] = r /\ \A p \in Request : p # q => req'[p] = req[p]
  BY <1>1, GoalMoves, Zenon
<1>4. QED
  BY <1>2, <1>3, NoGoalRequest, GoalsKept

\* A user may begin anything at any time.
LEMMA AsksForGoal ==
    ASSUME GoalInv, NEW q \in Request,
           CreateGoal(q) \/ UpdateGoal(q) \/ UpdateProgress(q) \/ DeleteGoal(q)
    PROVE  GoalInv'
<1>1. \A g \in Goal : goal[g] \in GoalRow \union {NoGoal}
  BY DEF GoalInv, GoalTablesTyped
<1>2. \A g \in Goal : GoalFound(g) => /\ goal[g] \in GoalRow /\ goal[g] # NoGoal
                                     /\ goal[g].status \in {"active", "completed"}
  BY <1>1, GoalRows DEF GoalFound
<1>3. ASSUME CreateGoal(q)
      PROVE  GoalInv'
  <2>1. PICK g \in Goal, target \in Target :
          /\ goal[g].status = "absent"
          /\ BeginOnGoal(q, "createGoal", <<"insert">>, g,
                         [status |-> "active", target |-> target, current |-> 0])
    BY <1>3, Zenon DEF CreateGoal
  <2>2. PICK row \in GoalRow \union {NoGoal} : row = goal[g]
    BY <1>1
  <2> DEFINE r == [method |-> "createGoal", todo |-> ToInsert, wrote |-> FALSE,
                   own |-> [target |-> g, read |-> row,
                            copy |-> [status |-> "active", target |-> target, current |-> 0]]]
  <2>3. Idle(q) /\ req' = [req EXCEPT ![q] = r] /\ cut' = cut /\ UNCHANGED goalVars
    BY <2>1, <2>2 DEF BeginOnGoal, Begin, ToInsert
  <2>4. r \in Creates
    BY <2>2 DEF Creates, Creation, GoalOwn, GoalRow
  <2> HIDE DEF r
  <2>5. r \in GoalReqs
    BY <2>4 DEF GoalReqs
  <2>6. QED
    BY <2>3, <2>4, <2>5, BeginsGoal, Zenon
<1>4. ASSUME UpdateGoal(q)
      PROVE  GoalInv'
  <2>1. PICK g \in Goal : GoalFound(g) /\ \E target \in Target :
          BeginOnGoal(q, "updateGoal", <<"update">>, g, [goal[g] EXCEPT !.target = target])
    BY <1>4, Zenon DEF UpdateGoal
  <2>2. PICK target \in Target :
          BeginOnGoal(q, "updateGoal", <<"update">>, g, [goal[g] EXCEPT !.target = target])
    BY <2>1, Zenon
  <2>3. PICK row \in GoalRow : row = goal[g]
    BY <1>2, <2>1
  <2> DEFINE copy == [row EXCEPT !.target = target]
             r == [method |-> "updateGoal", todo |-> ToRewrite, wrote |-> FALSE,
                   own |-> [target |-> g, read |-> row, copy |-> copy]]
  <2>4. Idle(q) /\ req' = [req EXCEPT ![q] = r] /\ cut' = cut /\ UNCHANGED goalVars
    BY <2>2, <2>3 DEF BeginOnGoal, Begin, ToRewrite
  <2>5. copy \in GoalRow /\ copy.status = row.status /\ copy.current = row.current
    BY DEF GoalRow
  <2> HIDE DEF copy
  <2>6. r \in Edits /\ r.own.target = g
    BY <2>5 DEF Edits, Edit, GoalOwn
  <2> HIDE DEF r
  <2>7. r \in GoalReqs /\ goal[r.own.target] # NoGoal
    BY <1>2, <2>1, <2>6 DEF GoalReqs
  <2>8. QED
    BY <2>4, <2>7, BeginsGoal, Zenon
<1>5. ASSUME UpdateProgress(q)
      PROVE  GoalInv'
  <2>1. PICK g \in Goal : GoalFound(g) /\ \E amount \in Amount :
          LET row  == [goal[g] EXCEPT !.current = amount]
              copy == IF Meets(row) THEN [row EXCEPT !.status = "completed"] ELSE row IN
          BeginOnGoal(q, "updateProgress",
            <<"updateProgress">> \o (IF copy.status = "completed" THEN <<"update">> ELSE <<>>),
            g, copy)
    BY <1>5, Zenon DEF UpdateProgress
  <2>2. PICK row \in GoalRow : row = goal[g] /\ row.status \in {"active", "completed"}
    BY <1>2, <2>1
  <2>3. PICK amount \in Amount :
          LET new  == [row EXCEPT !.current = amount]
              copy == IF Meets(new) THEN [new EXCEPT !.status = "completed"] ELSE new IN
          BeginOnGoal(q, "updateProgress",
            <<"updateProgress">> \o (IF copy.status = "completed" THEN <<"update">> ELSE <<>>),
            g, copy)
    BY <2>1, <2>2, Zenon
  <2> DEFINE new  == [row EXCEPT !.current = amount]
             copy == IF Meets(new) THEN [new EXCEPT !.status = "completed"] ELSE new
             todo == IF copy.status = "completed" THEN ToRecordAll ELSE ToRecord
             r == [method |-> "updateProgress", todo |-> todo, wrote |-> FALSE,
                   own |-> [target |-> g, read |-> row, copy |-> copy]]
  <2>4. /\ copy \in GoalRow /\ copy.target = row.target
        /\ row.status = "completed" \/ Meets(copy) <=> copy.status = "completed"
    <3>1. new \in GoalRow /\ new.status = row.status /\ new.target = row.target /\ new.current = amount
      BY DEF GoalRow
    <3> HIDE DEF new
    <3>2. CASE Meets(new)
      <4>1. /\ [new EXCEPT !.status = "completed"] \in GoalRow
            /\ [new EXCEPT !.status = "completed"].status = "completed"
            /\ [new EXCEPT !.status = "completed"].target = new.target
            /\ [new EXCEPT !.status = "completed"].current = new.current
        BY <3>1 DEF GoalRow
      <4>2. copy = [new EXCEPT !.status = "completed"]
        BY <3>2, Zenon
      <4> HIDE DEF copy
      <4>3. QED
        BY <3>1, <3>2, <4>1, <4>2 DEF Meets
    <3>3. CASE ~Meets(new)
      <4>1. copy = new
        BY <3>3, Zenon
      <4> HIDE DEF copy
      <4>2. QED
        BY <2>2, <3>1, <3>3, <4>1
    <3>4. QED
      BY <3>2, <3>3
  <2>5. Idle(q) /\ req' = [req EXCEPT ![q] = r] /\ cut' = cut /\ UNCHANGED goalVars
    <3>1. BeginOnGoal(q, "updateProgress",
            <<"updateProgress">> \o (IF copy.status = "completed" THEN <<"update">> ELSE <<>>),
            g, copy)
      BY <2>3, Zenon
    <3>2. <<"updateProgress">> \o (IF copy.status = "completed" THEN <<"update">> ELSE <<>>) = todo
      <4> HIDE DEF copy
      <4>1. /\ <<"updateProgress">> \o <<"update">> = <<"updateProgress", "update">>
            /\ <<"updateProgress">> \o <<>> = <<"updateProgress">>
        BY TwoCalls
      <4>2. QED
        BY <4>1, Zenon DEF ToRecord, ToRecordAll
    <3> HIDE DEF copy, todo
    <3>3. QED
      BY <2>2, <3>1, <3>2 DEF BeginOnGoal, Begin
  <2> HIDE DEF copy
  <2>6. r \in Records \union RecordsAll /\ r.own.target = g
    <3> DEFINE own == [target |-> g, read |-> row, copy |-> copy]
    <3>1. own \in Progress /\ own.copy = copy
      BY <2>4 DEF Progress, GoalOwn
    <3>2. own \in Full <=> copy.status = "completed"
      BY <3>1 DEF Full
    <3> HIDE DEF own
    <3>3. r = [method |-> "updateProgress", todo |-> todo, wrote |-> FALSE, own |-> own]
      BY DEF own
    <3>4. r \in Records \union RecordsAll
      <4>1. CASE copy.status = "completed"
        BY <3>1, <3>2, <3>3, <4>1 DEF RecordsAll
      <4>2. CASE copy.status # "completed"
        BY <3>1, <3>2, <3>3, <4>2 DEF Records
      <4>3. QED
        BY <4>1, <4>2
    <3>5. QED
      BY <3>4
  <2> HIDE DEF r
  <2>7. r \in GoalReqs /\ goal[r.own.target] # NoGoal
    BY <1>2, <2>1, <2>6 DEF GoalReqs
  <2>8. QED
    BY <2>5, <2>7, BeginsGoal, Zenon
<1>6. ASSUME DeleteGoal(q)
      PROVE  GoalInv'
  <2>1. PICK g \in Goal : GoalFound(g) /\ BeginOnGoal(q, "deleteGoal", <<"softDelete">>, g, goal[g])
    BY <1>6, Zenon DEF DeleteGoal
  <2>2. PICK row \in GoalRow : row = goal[g]
    BY <1>2, <2>1
  <2> DEFINE r == [method |-> "deleteGoal", todo |-> ToArchive, wrote |-> FALSE,
                   own |-> [target |-> g, read |-> row, copy |-> row]]
  <2>3. Idle(q) /\ req' = [req EXCEPT ![q] = r] /\ cut' = cut /\ UNCHANGED goalVars
    BY <2>1, <2>2 DEF BeginOnGoal, Begin, ToArchive
  <2>4. r \in Archives /\ r.own.target = g
    BY DEF Archives, GoalOwn
  <2> HIDE DEF r
  <2>5. r \in GoalReqs /\ goal[r.own.target] # NoGoal
    BY <1>2, <2>1, <2>4 DEF GoalReqs
  <2>6. QED
    BY <2>3, <2>5, BeginsGoal, Zenon
<1>7. QED
  BY <1>3, <1>4, <1>5, <1>6

\* A call that leaves one goal changed.
LEMMA GoalWritten ==
    ASSUME GoalInv, NEW g \in Goal, GoalReqsTyped', cut' = cut,
           goal'[g] \in GoalRow, \A h \in Goal : h # g => goal'[h] = goal[h],
           goal' \in [Goal -> GoalRow \union {NoGoal}],
           overtaken' \in {overtaken, overtaken \union {g}},
           \A h \in Goal : h # g => /\ h \in retargeted' <=> h \in retargeted
                                    /\ h \in lowered' <=> h \in lowered,
           retargeted' \subseteq Goal, lowered' \subseteq Goal,
           \A p \in Request :
             /\ req'[p] \in GoalReqs \ Creates => req[p] \in GoalReqs /\ req'[p].own = req[p].own
             /\ req[p] \in Creates /\ req'[p] \notin Creates => req'[p] = NoRequest
             /\ req[p] \in Completes /\ req[p].own.target # g => req'[p] = req[p],
           "update" \in Watched \ cut /\ g \notin overtaken' \union retargeted' =>
             /\ goal'[g].status = "active" /\ Meets(goal'[g]) => Owed(g)'
             /\ goal'[g].status = "completed" => Meets(goal'[g]) \/ g \in lowered'
    PROVE  GoalInv'
<1>1. GoalTablesTyped'
  BY DEF GoalInv, GoalTablesTyped
<1>2. GoalThere'
  <2>1. ASSUME NEW p \in Request, req'[p] \in GoalReqs \ Creates
        PROVE  goal'[req'[p].own.target] # NoGoal
    <3>1. req[p] \in GoalReqs \ Creates /\ req'[p].own = req[p].own
      BY <2>1, NoGoalRequest
    <3>2. PICK h \in Goal : req[p].own.target = h
      <4>1. req[p].own \in GoalOwn
        BY <3>1, GoalKinds
      <4>2. QED
        BY <4>1 DEF GoalOwn
    <3>3. goal[h] # NoGoal
      BY <3>1, <3>2 DEF GoalInv, GoalThere
    <3>4. goal'[h] # NoGoal
      BY <3>3, GoalRows
    <3>5. QED
      BY <3>1, <3>2, <3>4
  <2>2. QED
    BY <2>1 DEF GoalThere
<1>3. HonestInv'
  <2>1. ASSUME "update" \in Watched \ cut, NEW h \in Goal, h # g, h \notin overtaken' \union retargeted'
        PROVE  /\ goal'[h].status = "active" /\ Meets(goal'[h]) => Owed(h)'
               /\ goal'[h].status = "completed" => Meets(goal'[h]) \/ h \in lowered'
    <3>1. h \notin overtaken \union retargeted /\ goal'[h] = goal[h]
      BY <2>1
    <3>2. ASSUME Owed(h)
          PROVE  Owed(h)'
      <4>1. PICK p \in Request : req[p] \in Completes /\ req[p].own.target = h
        BY <3>2 DEF Owed
      <4>2. req'[p] = req[p]
        BY <2>1, <4>1
      <4>3. QED
        BY <4>1, <4>2 DEF Owed
    <3>3. /\ goal[h].status = "active" /\ Meets(goal[h]) => Owed(h)
          /\ goal[h].status = "completed" => Meets(goal[h]) \/ h \in lowered
      BY <2>1, <3>1 DEF GoalInv, HonestInv
    <3>4. QED
      BY <2>1, <3>1, <3>2, <3>3
  <2>2. QED
    BY <2>1 DEF HonestInv
<1>4. QED
  BY <1>1, <1>2, <1>3 DEF GoalInv

\* A request that has made its only call is over.
LEMMA GoalOver ==
    ASSUME GoalReqsTyped, NEW q \in Request, req[q] \in GoalReqs \ RecordsAll, Continue(q)
    PROVE  /\ GoalReqsTyped' /\ req'[q] = NoRequest /\ cut' = cut
           /\ \A p \in Request : p # q => req'[p] = req[p]
<1>1. req' = [req EXCEPT ![q] = NoRequest] /\ cut' = cut
  BY GoalAdvances, Zenon DEF Continue, GoOn
<1>2. QED
  BY <1>1, GoalMoves, Zenon

LEMMA InsertsGoal ==
    ASSUME GoalInv, NEW q \in Request, InsertGoal(q)
    PROVE  GoalInv'
<1>1. GoalReqsTyped /\ GoalTablesTyped /\ req[q] \in {NoRequest} \union GoalReqs
  BY DEF GoalInv, GoalReqsTyped
<1>2. req[q] \in Creates /\ req[q] \in GoalReqs \ RecordsAll
  <2>1. req[q] \in Creates
    BY <1>1, GoalKinds DEF InsertGoal, Makes, Idle
  <2>2. QED
    BY <2>1 DEF GoalReqs, Creates, RecordsAll
<1>3. PICK g \in Goal, row \in GoalRow :
        req[q].own.target = g /\ req[q].own.copy = row /\ row.status = "active" /\ row.current = 0
  BY <1>2 DEF Creates, Creation, GoalOwn
<1>4. goal' = [goal EXCEPT ![g] = row] /\ UNCHANGED <<overtaken, retargeted, lowered>>
  BY <1>3 DEF InsertGoal
<1>5. /\ goal'[g] = row /\ goal' \in [Goal -> GoalRow \union {NoGoal}]
      /\ \A h \in Goal : h # g => goal'[h] = goal[h]
  BY <1>1, <1>4 DEF GoalTablesTyped
<1>6. /\ GoalReqsTyped' /\ req'[q] = NoRequest /\ cut' = cut
      /\ \A p \in Request : p # q => req'[p] = req[p]
  BY <1>1, <1>2, GoalOver DEF InsertGoal
<1>7. ~Meets(row)
  <2>1. row.target \in Nat \ {0}
    BY GoalRows
  <2>2. QED
    BY <1>3, <2>1 DEF Meets
<1>8. \A p \in Request :
        /\ req'[p] \in GoalReqs \ Creates => req[p] \in GoalReqs /\ req'[p].own = req[p].own
        /\ req[p] \in Creates /\ req'[p] \notin Creates => req'[p] = NoRequest
        /\ req[p] \in Completes /\ req[p].own.target # g => req'[p] = req[p]
  <2>1. req[q] \notin Completes
    BY <1>2 DEF Creates, Completes
  <2>2. QED
    BY <1>6, <2>1, NoGoalRequest
<1>9. goal'[g].status # "completed"
  BY <1>3, <1>5
<1>10. QED
  BY <1>1, <1>4, <1>5, <1>6, <1>7, <1>8, <1>9, GoalWritten DEF GoalTablesTyped

\* What is told of a request that found another row than the one it has read.
LEMMA OvertakenFacts ==
    ASSUME NEW q \in Request, NEW g, req[q].own.target = g, NoteOvertaken(q)
    PROVE  /\ overtaken' \in {overtaken, overtaken \union {g}}
           /\ g \notin overtaken' => goal[g] = Expected(q)
  BY DEF NoteOvertaken

LEMMA ArchivesGoal ==
    ASSUME GoalInv, NEW q \in Request, SoftDeleteGoal(q)
    PROVE  GoalInv'
<1>1. GoalReqsTyped /\ GoalTablesTyped /\ req[q] \in {NoRequest} \union GoalReqs
  BY DEF GoalInv, GoalReqsTyped
<1>2. req[q] \in Archives /\ req[q] \in GoalReqs \ RecordsAll /\ req[q] \notin Creates
  <2>1. req[q] \in Archives
    BY <1>1, GoalKinds DEF SoftDeleteGoal, Makes, Idle
  <2>2. QED
    BY <2>1 DEF GoalReqs, Creates, Archives, RecordsAll
<1>3. PICK g \in Goal : req[q].own.target = g
  BY <1>2 DEF Archives, GoalOwn
<1>4. PICK row \in GoalRow : row = goal[g]
  <2>1. goal[g] # NoGoal
    BY <1>2, <1>3 DEF GoalInv, GoalThere
  <2>2. QED
    BY <1>1, <2>1 DEF GoalTablesTyped
<1> DEFINE new == [row EXCEPT !.status = "archived"]
<1>5. goal' = [goal EXCEPT ![g] = new] /\ UNCHANGED <<retargeted, lowered>>
  BY <1>3, <1>4 DEF SoftDeleteGoal
<1>6. new \in GoalRow /\ new.status = "archived"
  BY DEF GoalRow
<1> HIDE DEF new
<1>7. /\ goal'[g] = new /\ goal' \in [Goal -> GoalRow \union {NoGoal}]
      /\ \A h \in Goal : h # g => goal'[h] = goal[h]
  BY <1>1, <1>5, <1>6 DEF GoalTablesTyped
<1>8. /\ GoalReqsTyped' /\ req'[q] = NoRequest /\ cut' = cut
      /\ \A p \in Request : p # q => req'[p] = req[p]
  BY <1>1, <1>2, GoalOver DEF SoftDeleteGoal
<1>9. overtaken' \in {overtaken, overtaken \union {g}}
  BY <1>3, OvertakenFacts DEF SoftDeleteGoal
<1>10. \A p \in Request :
        /\ req'[p] \in GoalReqs \ Creates => req[p] \in GoalReqs /\ req'[p].own = req[p].own
        /\ req[p] \in Creates /\ req'[p] \notin Creates => req'[p] = NoRequest
        /\ req[p] \in Completes /\ req[p].own.target # g => req'[p] = req[p]
  <2>1. req[q] \notin Completes
    BY <1>2 DEF Archives, Completes
  <2>2. QED
    BY <1>2, <1>8, <2>1, NoGoalRequest
<1>11. goal'[g].status # "completed" /\ goal'[g].status # "active" /\ goal'[g] \in GoalRow
  BY <1>6, <1>7
<1>12. QED
  BY <1>1, <1>5, <1>7, <1>8, <1>9, <1>10, <1>11, GoalWritten DEF GoalTablesTyped

LEMMA RewritesGoal ==
    ASSUME GoalInv, NEW q \in Request, UpdateGoalRow(q)
    PROVE  GoalInv'
<1>1. GoalReqsTyped /\ GoalTablesTyped /\ req[q] \in {NoRequest} \union GoalReqs
  BY DEF GoalInv, GoalReqsTyped
<1>2. /\ req[q] \in Edits \union Completes
      /\ req[q] \in GoalReqs \ RecordsAll /\ req[q] \notin Creates
  <2>1. req[q] \in Edits \union Completes
    BY <1>1, GoalKinds DEF UpdateGoalRow, Makes, Idle
  <2>2. ToRewrite # ToRecordAll /\ ToRewrite # ToInsert
    BY GoalTodos
  <2>3. QED
    BY <2>1, <2>2 DEF GoalReqs, Edits, Completes, Creates, RecordsAll
<1>3. PICK g \in Goal, read \in GoalRow \union {NoGoal}, copy \in GoalRow :
        req[q].own.target = g /\ req[q].own.read = read /\ req[q].own.copy = copy
  <2>1. req[q].own \in GoalOwn
    BY <1>2, GoalKinds
  <2>2. QED
    BY <2>1 DEF GoalOwn
<1>4. /\ goal' = [goal EXCEPT ![g] = copy] /\ lowered' = lowered
      /\ retargeted' = IF copy.target = read.target THEN retargeted ELSE retargeted \union {g}
  BY <1>3 DEF UpdateGoalRow
<1>5. /\ goal'[g] = copy /\ goal' \in [Goal -> GoalRow \union {NoGoal}]
      /\ \A h \in Goal : h # g => goal'[h] = goal[h]
  BY <1>1, <1>4 DEF GoalTablesTyped
<1>6. /\ GoalReqsTyped' /\ req'[q] = NoRequest /\ cut' = cut
      /\ \A p \in Request : p # q => req'[p] = req[p]
  BY <1>1, <1>2, GoalOver DEF UpdateGoalRow
<1>7. /\ overtaken' \in {overtaken, overtaken \union {g}}
      /\ g \notin overtaken' => goal[g] = Expected(q)
  BY <1>3, OvertakenFacts DEF UpdateGoalRow
<1>8. \A p \in Request :
        /\ req'[p] \in GoalReqs \ Creates => req[p] \in GoalReqs /\ req'[p].own = req[p].own
        /\ req[p] \in Creates /\ req'[p] \notin Creates => req'[p] = NoRequest
        /\ req[p] \in Completes /\ req[p].own.target # g => req'[p] = req[p]
  BY <1>2, <1>3, <1>6, NoGoalRequest
<1>9. ASSUME "update" \in Watched \ cut, g \notin overtaken' \union retargeted'
      PROVE  /\ goal'[g].status = "active" /\ Meets(goal'[g]) => Owed(g)'
             /\ goal'[g].status = "completed" => Meets(goal'[g]) \/ g \in lowered'
  <2>1. /\ g \notin overtaken \union retargeted /\ goal[g] = Expected(q) /\ copy.target = read.target
    BY <1>4, <1>7, <1>9
  <2>2. /\ goal[g].status = "active" /\ Meets(goal[g]) => Owed(g)
        /\ goal[g].status = "completed" => Meets(goal[g]) \/ g \in lowered
    BY <1>9, <2>1 DEF GoalInv, HonestInv
  <2>3. CASE req[q] \in Edits
    <3>1. copy.status = read.status /\ copy.current = read.current
      BY <1>3, <2>3 DEF Edits, Edit
    <3>2. goal[g] = read
      <4>1. req[q].wrote = FALSE
        BY <2>3 DEF Edits
      <4>2. QED
        BY <1>3, <2>1, <4>1 DEF Expected
    <3>3. ASSUME Owed(g)
          PROVE  Owed(g)'
      <4>1. PICK p \in Request : req[p] \in Completes /\ req[p].own.target = g
        BY <3>3 DEF Owed
      <4>2. req[q] \notin Completes
        BY <2>3 DEF Edits, Completes
      <4>3. QED
        BY <1>6, <4>1, <4>2 DEF Owed
    <3>4. Meets(copy) <=> Meets(goal[g])
      BY <2>1, <3>1, <3>2 DEF Meets
    <3>5. QED
      BY <1>4, <1>5, <2>2, <3>1, <3>2, <3>3, <3>4
  <2>4. CASE req[q] \in Completes
    <3>1. /\ copy.status = "completed"
          /\ read.status = "completed" \/ Meets(copy)
      BY <1>3, <2>4 DEF Completes, Full, Progress
    <3>2. goal[g] = [read EXCEPT !.current = copy.current]
      <4>1. req[q].wrote = TRUE
        BY <2>4 DEF Completes
      <4>2. QED
        BY <1>3, <2>1, <4>1 DEF Expected
    <3>3. ASSUME read.status = "completed", ~Meets(copy)
          PROVE  g \in lowered
      <4>1. read \in GoalRow
        BY <3>3, GoalRows
      <4>2. /\ goal[g].status = read.status /\ goal[g].target = read.target
            /\ goal[g].current = copy.current
        BY <3>2, <4>1 DEF GoalRow
      <4>3. ~Meets(goal[g])
        BY <2>1, <3>3, <4>2 DEF Meets
      <4>4. QED
        BY <2>2, <3>3, <4>2, <4>3
    <3>4. QED
      BY <1>4, <1>5, <3>1, <3>3
  <2>5. QED
    BY <1>2, <2>3, <2>4
<1>10. retargeted' \subseteq Goal /\ lowered' \subseteq Goal
       /\ \A h \in Goal : h # g =>
            (h \in retargeted' <=> h \in retargeted) /\ (h \in lowered' <=> h \in lowered)
  BY <1>1, <1>4 DEF GoalTablesTyped
<1>11. goal'[g] \in GoalRow
  BY <1>5
<1>12. QED
  BY <1>5, <1>6, <1>7, <1>8, <1>9, <1>10, <1>11, GoalWritten

LEMMA RecordsGoal ==
    ASSUME GoalInv, NEW q \in Request, WriteProgress(q)
    PROVE  GoalInv'
<1>1. GoalReqsTyped /\ GoalTablesTyped /\ req[q] \in {NoRequest} \union GoalReqs
  BY DEF GoalInv, GoalReqsTyped
<1>2. /\ req[q] \in Records \union RecordsAll
      /\ req[q] \in GoalReqs \ Creates /\ req[q] \notin Completes
  <2>1. req[q] \in Records \union RecordsAll
    BY <1>1, GoalKinds DEF WriteProgress, Makes, Idle
  <2>2. ToRecord # ToInsert /\ ToRecordAll # ToInsert /\ ToRecord # ToRewrite /\ ToRecordAll # ToRewrite
    BY GoalTodos
  <2>3. QED
    BY <2>1, <2>2 DEF GoalReqs, Records, RecordsAll, Completes, Creates
<1>3. PICK g \in Goal, read \in GoalRow \union {NoGoal}, copy \in GoalRow :
        /\ req[q].own.target = g /\ req[q].own.read = read /\ req[q].own.copy = copy
        /\ copy.target = read.target
        /\ read.status = "completed" \/ Meets(copy) <=> copy.status = "completed"
        /\ req[q] \in RecordsAll <=> copy.status = "completed"
  <2>1. req[q].own \in Progress
    BY <1>2 DEF Records, RecordsAll, Full
  <2>2. req[q] \in RecordsAll <=> req[q].own.copy.status = "completed"
    BY <1>2, <2>1 DEF Records, RecordsAll, Full
  <2>3. QED
    BY <2>1, <2>2 DEF Progress, GoalOwn
<1>4. PICK row \in GoalRow : row = goal[g]
  <2>1. goal[g] # NoGoal
    BY <1>2, <1>3 DEF GoalInv, GoalThere
  <2>2. QED
    BY <1>1, <2>1 DEF GoalTablesTyped
<1> DEFINE new == [row EXCEPT !.current = copy.current]
<1>5. /\ goal' = [goal EXCEPT ![g] = new]
      /\ retargeted' = retargeted \ {g}
      /\ lowered' = IF copy.current < copy.target THEN lowered \union {g} ELSE lowered \ {g}
  BY <1>3, <1>4 DEF WriteProgress
<1>6. new \in GoalRow /\ new.status = row.status /\ new.target = row.target /\ new.current = copy.current
  BY DEF GoalRow
<1> HIDE DEF new
<1>7. /\ goal'[g] = new /\ goal' \in [Goal -> GoalRow \union {NoGoal}]
      /\ \A h \in Goal : h # g => goal'[h] = goal[h]
  BY <1>1, <1>5, <1>6 DEF GoalTablesTyped
<1>8. PICK r \in {NoRequest} \union GoalReqs :
        /\ r = Advanced(q, req[q].own)
        /\ req[q] \in RecordsAll => r \in Completes /\ r.own = req[q].own
        /\ req[q] \notin RecordsAll => r = NoRequest
  BY <1>2, GoalAdvances DEF GoalReqs
<1>9. /\ GoalReqsTyped' /\ req'[q] = r /\ cut' = cut
      /\ \A p \in Request : p # q => req'[p] = req[p]
  <2>1. req' = [req EXCEPT ![q] = r] /\ cut' = cut
    BY <1>8, Zenon DEF WriteProgress, Continue, GoOn
  <2>2. QED
    BY <1>1, <2>1, GoalMoves, Zenon
<1>10. /\ overtaken' \in {overtaken, overtaken \union {g}}
       /\ g \notin overtaken' => goal[g] = Expected(q)
  BY <1>3, OvertakenFacts DEF WriteProgress
<1>11. \A p \in Request :
        /\ req'[p] \in GoalReqs \ Creates => req[p] \in GoalReqs /\ req'[p].own = req[p].own
        /\ req[p] \in Creates /\ req'[p] \notin Creates => req'[p] = NoRequest
        /\ req[p] \in Completes /\ req[p].own.target # g => req'[p] = req[p]
  BY <1>2, <1>8, <1>9, NoGoalRequest
<1>12. ASSUME g \notin overtaken'
       PROVE  /\ goal'[g].status = "active" /\ Meets(goal'[g]) => Owed(g)'
              /\ goal'[g].status = "completed" => Meets(goal'[g]) \/ g \in lowered'
  <2>1. goal[g] = read
    <3>1. req[q].wrote = FALSE
      BY <1>2 DEF Records, RecordsAll
    <3>2. QED
      BY <1>3, <1>10, <1>12, <3>1 DEF Expected
  <2>2. Meets(new) <=> Meets(copy)
    BY <1>3, <1>4, <1>6, <2>1 DEF Meets
  <2>3. ASSUME new.status = "active", Meets(new)
        PROVE  Owed(g)'
    <3>1. r \in Completes /\ r.own.target = g
      BY <1>3, <1>8, <2>2, <2>3
    <3>2. QED
      BY <1>9, <3>1 DEF Owed
  <2>4. ASSUME ~Meets(new)
        PROVE  g \in lowered'
    <3>1. copy.current \in Nat /\ copy.target \in Nat
      BY GoalRows
    <3>2. copy.current < copy.target
      BY <2>2, <2>4, <3>1 DEF Meets
    <3>3. QED
      BY <1>5, <3>2
  <2>5. QED
    BY <1>7, <2>3, <2>4
<1>13. retargeted' \subseteq Goal /\ lowered' \subseteq Goal
       /\ \A h \in Goal : h # g =>
            (h \in retargeted' <=> h \in retargeted) /\ (h \in lowered' <=> h \in lowered)
  BY <1>1, <1>5 DEF GoalTablesTyped
<1>14. goal'[g] \in GoalRow
  BY <1>6, <1>7
<1>15. QED
  BY <1>7, <1>9, <1>10, <1>11, <1>12, <1>13, <1>14, GoalWritten

\* A failed call, or a crash.
LEMMA GoalRequestsEnd ==
    ASSUME GoalInv, UNCHANGED goalVars, (\E q \in Request : CallFails(q, {})) \/ Crash
    PROVE  GoalInv'
<1>1. GoalReqsTyped /\ \A p \in Request : req[p] \in {NoRequest} \union GoalReqs
  BY DEF GoalInv, GoalReqsTyped
<1>2. ASSUME NEW p \in Request, req[p] \in Completes, "update" \in Watched
      PROVE  "update" \in Lost(p)
  <2>1. req[p].todo = ToRewrite /\ req[p].wrote = TRUE
    BY <1>2 DEF Completes
  <2>2. 1 \in DOMAIN ToRewrite /\ ToRewrite[1] = "update"
    BY DEF ToRewrite
  <2>3. "update" \in {req[p].todo[i] : i \in DOMAIN req[p].todo}
    BY <2>1, <2>2
  <2>4. QED
    BY <1>2, <2>1, <2>3 DEF Lost
<1>3. ASSUME NEW q \in Request, CallFails(q, {})
      PROVE  GoalInv'
  <2>1. req' = [req EXCEPT ![q] = NoRequest] /\ cut' = cut \union Lost(q)
    BY <1>3, Zenon DEF CallFails
  <2>2. GoalReqsTyped' /\ req'[q] = NoRequest /\ \A p \in Request : p # q => req'[p] = req[p]
    BY <1>1, <2>1, GoalMoves, Zenon
  <2>3. QED
    BY <1>2, <2>1, <2>2, NoGoalRequest, GoalsKept
<1>4. ASSUME Crash
      PROVE  GoalInv'
  <2>1. req' = [q \in Request |-> NoRequest] /\ cut' = cut \union UNION {Lost(q) : q \in Request}
    BY <1>4 DEF Crash
  <2>2. GoalReqsTyped' /\ \A p \in Request : req'[p] = NoRequest
    BY <2>1 DEF GoalReqsTyped
  <2>3. cut \subseteq cut' /\ \A p \in Request : Lost(p) \subseteq cut'
    BY <2>1
  <2>4. QED
    BY <1>2, <2>2, <2>3, NoGoalRequest, GoalsKept
<1>5. QED
  BY <1>3, <1>4

-----------------------------------------------------------------------------
(* The behaviours                                                          *)

LEMMA GoalsBegin ==
    ASSUME RequestsInit, GoalsInit
    PROVE  GoalInv
<1>1. /\ req = [q \in Request |-> NoRequest] /\ \A q \in Request : req[q] = NoRequest
      /\ goal = [g \in Goal |-> NoGoal] /\ \A g \in Goal : goal[g] = NoGoal
      /\ overtaken = {} /\ retargeted = {} /\ lowered = {}
  BY DEF RequestsInit, GoalsInit
<1>2. GoalReqsTyped /\ GoalTablesTyped
  BY <1>1 DEF GoalReqsTyped, GoalTablesTyped
<1>3. GoalThere
  BY <1>1, NoGoalRequest DEF GoalThere
<1>4. HonestInv
  BY <1>1, GoalRows DEF HonestInv
<1>5. QED
  BY <1>2, <1>3, <1>4 DEF GoalInv

LEMMA GoalsStep ==
    ASSUME GoalInv, [GoalsNext]_<<requestVars, goalVars>>
    PROVE  GoalInv'
<1>1. ASSUME NEW q \in Request,
             \/ CreateGoal(q) \/ UpdateGoal(q) \/ UpdateProgress(q) \/ DeleteGoal(q)
             \/ InsertGoal(q) \/ UpdateGoalRow(q) \/ WriteProgress(q) \/ SoftDeleteGoal(q)
      PROVE  GoalInv'
  BY <1>1, AsksForGoal, InsertsGoal, RewritesGoal, RecordsGoal, ArchivesGoal
<1>2. CASE UNCHANGED goalVars /\ ((\E q \in Request : CallFails(q, {})) \/ Crash)
  BY <1>2, GoalRequestsEnd
<1>3. CASE UNCHANGED <<requestVars, goalVars>>
  <2>1. UNCHANGED <<req, cut>> /\ UNCHANGED goalVars
    BY <1>3 DEF requestVars
  <2>2. GoalReqsTyped'
    BY <2>1 DEF GoalInv, GoalReqsTyped
  <2>3. QED
    BY <2>1, <2>2, GoalsKept
<1>4. QED
  BY <1>1, <1>2, <1>3, Zenon DEF GoalsNext

\* A goal nobody is at work on is active while something is missing and
\* completed when nothing is (UpdateProgress and its two writes), unless an older
\* row was written over it, its target was moved, or less was reported again.
\* The second write is watched, so that one that was never made is known of.
THEOREM GoalsHonest ==
    ASSUME "update" \in Watched
    PROVE  GoalsSpec => []CompletionHonest
<1>1. RequestsInit /\ GoalsInit => GoalInv
  BY GoalsBegin
<1>2. GoalInv /\ [GoalsNext]_<<requestVars, goalVars>> => GoalInv'
  BY GoalsStep
<1>3. GoalInv => CompletionHonest
  <2>1. ASSUME GoalInv, NEW g \in Goal, GoalSettled(g)
        PROVE  /\ goal[g].status = "active" => GoalRemaining(goal[g]) > 0
               /\ goal[g].status = "completed" => GoalRemaining(goal[g]) = 0 \/ g \in lowered
    <3>1. ~Owed(g)
      <4>1. \A q \in Request : req[q] \in Completes => q \in Doing(GoalMethod)
        BY DEF Completes, Doing, GoalMethod
      <4>2. QED
        BY <2>1, <4>1 DEF GoalSettled, AboutGoal, Owed
    <3>2. PICK row \in GoalRow \union {NoGoal} : row = goal[g]
      BY <2>1 DEF GoalInv, GoalTablesTyped
    <3>3. /\ row.status = "active" => ~Meets(row)
          /\ row.status = "completed" => Meets(row) \/ g \in lowered
      BY <2>1, <3>1, <3>2 DEF GoalInv, HonestInv, GoalSettled
    <3>4. row.status \in {"active", "completed"} => row.target \in Nat /\ row.current \in Nat
      BY GoalRows
    <3>5. /\ row.status = "active" => GoalRemaining(row) > 0
          /\ row.status = "completed" => GoalRemaining(row) = 0 \/ g \in lowered
      BY <3>3, <3>4 DEF GoalRemaining, Meets
    <3>6. QED
      BY <3>2, <3>5
  <2>2. QED
    BY <2>1 DEF CompletionHonest
<1>4. QED
  BY <1>1, <1>2, <1>3, PTL DEF GoalsSpec

LEMMA GoalsTyping == GoalInv => GoalsTypeOK
<1> SUFFICES ASSUME GoalInv PROVE GoalsTypeOK
  OBVIOUS
<1>1. {ToInsert, ToRewrite, ToRecord, ToRecordAll, ToArchive} \subseteq Seq(GoalCall)
  BY DEF ToInsert, ToRewrite, ToRecord, ToRecordAll, ToArchive, GoalCall
<1>2. GoalReqs \union {NoRequest} \subseteq RequestOf(GoalMethod, GoalCall, GoalOwn)
  BY <1>1 DEF RequestOf, GoalReqs, Creates, Edits, Records, RecordsAll, Completes, Archives,
              Creation, Edit, Progress, Full, GoalMethod
<1>3. req \in [Request -> RequestOf(GoalMethod, GoalCall, GoalOwn)]
  BY <1>2 DEF GoalInv, GoalReqsTyped
<1>4. QED
  BY <1>3 DEF GoalInv, GoalTablesTyped, GoalsTypeOK, GoalOwn

-----------------------------------------------------------------------------
(* Pages                                                                   *)

\* The rows before r.
AheadIn(rows, at, r) == {x \in rows : at[x] < at[r]}

LEMMA AheadCounts ==
    ASSUME NEW rows, IsFiniteSet(rows), NEW at, NEW r
    PROVE  /\ AheadIn(rows, at, r) \in SUBSET rows /\ IsFiniteSet(AheadIn(rows, at, r))
           /\ Cardinality(AheadIn(rows, at, r)) \in Nat
<1>1. AheadIn(rows, at, r) \in SUBSET rows
  BY DEF AheadIn
<1>2. IsFiniteSet(AheadIn(rows, at, r))
  BY <1>1, FS_Subset
<1>3. QED
  BY <1>1, <1>2, FS_CardinalityType

\* A set of rows with r and all before it is larger than r's place, and a set
\* of rows before r is not.
LEMMA PlaceBounds ==
    ASSUME NEW rows, IsFiniteSet(rows), NEW at, NEW r, NEW S \in SUBSET rows
    PROVE  /\ r \in S /\ AheadIn(rows, at, r) \subseteq S \ {r}
                => Cardinality(AheadIn(rows, at, r)) < Cardinality(S)
           /\ S \subseteq AheadIn(rows, at, r)
                => Cardinality(S) <= Cardinality(AheadIn(rows, at, r))
<1>1. /\ IsFiniteSet(S) /\ IsFiniteSet(AheadIn(rows, at, r))
      /\ Cardinality(AheadIn(rows, at, r)) \in Nat
  BY AheadCounts, FS_Subset
<1>2. Cardinality(S) \in Nat
  BY <1>1, FS_CardinalityType
<1>3. ASSUME r \in S, AheadIn(rows, at, r) \subseteq S \ {r}
      PROVE  Cardinality(AheadIn(rows, at, r)) < Cardinality(S)
  <2>1. IsFiniteSet(S \ {r}) /\ Cardinality(S \ {r}) = Cardinality(S) - 1
    BY <1>1, <1>3, FS_RemoveElement
  <2>2. Cardinality(AheadIn(rows, at, r)) <= Cardinality(S \ {r})
    BY <1>3, <2>1, FS_Subset
  <2>3. QED
    BY <1>1, <1>2, <2>1, <2>2
<1>4. ASSUME S \subseteq AheadIn(rows, at, r)
      PROVE  Cardinality(S) <= Cardinality(AheadIn(rows, at, r))
  BY <1>1, <1>4, FS_Subset
<1>5. QED
  BY <1>3, <1>4

\* A row that no other is equal to is among the first rows if its place is.
LEMMA InFront ==
    ASSUME NEW rows, IsFiniteSet(rows), NEW at, \A x \in rows : at[x] \in Nat,
           NEW r \in rows, \A x \in rows \ {r} : at[x] # at[r],
           NEW S \in SUBSET rows, \A x \in S, y \in rows \ S : at[x] <= at[y]
    PROVE  r \in S <=> Cardinality(AheadIn(rows, at, r)) < Cardinality(S)
<1>1. Cardinality(AheadIn(rows, at, r)) \in Nat
  BY AheadCounts
<1>2. IsFiniteSet(S)
  BY FS_Subset
<1>3. Cardinality(S) \in Nat
  BY <1>2, FS_CardinalityType
<1>4. ASSUME r \in S
      PROVE  Cardinality(AheadIn(rows, at, r)) < Cardinality(S)
  <2>1. AheadIn(rows, at, r) \subseteq S \ {r}
    BY <1>4 DEF AheadIn
  <2>2. QED
    BY <1>4, <2>1, PlaceBounds
<1>5. ASSUME r \notin S
      PROVE  Cardinality(S) <= Cardinality(AheadIn(rows, at, r))
  <2>1. S \subseteq AheadIn(rows, at, r)
    BY <1>5 DEF AheadIn
  <2>2. QED
    BY <2>1, PlaceBounds
<1>6. QED
  BY <1>1, <1>3, <1>4, <1>5

\* Such a row is on a page if its place is.
LEMMA OnPage ==
    ASSUME NEW rows, IsFiniteSet(rows), NEW at, \A x \in rows : at[x] \in Nat,
           NEW r \in rows, \A x \in rows \ {r} : at[x] # at[r],
           NEW offset \in Nat, NEW size \in Nat \ {0},
           NEW P \in SUBSET rows, MayReturn(P, rows, at, offset, size)
    PROVE  r \in P <=> /\ offset <= Cardinality(AheadIn(rows, at, r))
                       /\ Cardinality(AheadIn(rows, at, r)) < offset + size
<1> DEFINE place == Cardinality(AheadIn(rows, at, r))
           all   == Cardinality(rows)
<1>1. place \in Nat
  BY AheadCounts
<1>2. all \in Nat
  BY FS_CardinalityType
<1>3. place < all
  <2>1. AheadIn(rows, at, r) \subseteq rows \ {r}
    BY DEF AheadIn
  <2>2. QED
    BY <2>1, PlaceBounds
<1>4. CASE all - offset <= 0
  <2>1. P = {}
    BY <1>4 DEF MayReturn
  <2>2. QED
    BY <1>1, <1>2, <1>3, <1>4, <2>1
<1>5. CASE ~ (all - offset <= 0)
  <2>1. Cardinality(P) = (IF all - offset < size THEN all - offset ELSE size)
    BY <1>5 DEF MayReturn
  <2>2. PICK B \in SUBSET (rows \ P) : Cardinality(B) = offset /\ Ordered(B, P, rows, at)
    BY <1>5 DEF MayReturn
  <2>3. IsFiniteSet(B) /\ IsFiniteSet(P) /\ B \in SUBSET rows /\ B \intersect P = {}
    BY FS_Subset
  <2>4. Cardinality(B \union P) = Cardinality(B) + Cardinality(P)
    <3>1. Cardinality(B \union P)
            = Cardinality(B) + Cardinality(P) - Cardinality(B \intersect P)
      BY <2>3, FS_Union
    <3>2. Cardinality(B \intersect P) = 0
      BY <2>3, FS_EmptySet
    <3>3. Cardinality(B) \in Nat /\ Cardinality(P) \in Nat
      BY <2>3, FS_CardinalityType
    <3>4. QED
      BY <3>1, <3>2, <3>3
  <2>5. r \in B <=> place < Cardinality(B)
    <3>1. \A x \in B, y \in rows \ B : at[x] <= at[y]
      BY <2>2, <2>3 DEF Ordered
    <3>2. QED
      BY <2>3, <3>1, InFront
  <2>6. r \in B \union P <=> place < Cardinality(B \union P)
    <3>1. \A x \in B \union P, y \in rows \ (B \union P) : at[x] <= at[y]
      BY <2>2 DEF Ordered
    <3>2. B \union P \in SUBSET rows
      BY <2>3
    <3>3. QED
      BY <3>1, <3>2, InFront
  <2>7. r \in P <=> place < offset + Cardinality(P) /\ ~ (place < offset)
    BY <2>2, <2>3, <2>4, <2>5, <2>6
  <2> HIDE DEF place, all
  <2>8. place < offset + Cardinality(P) <=> place < offset + size
    BY <1>1, <1>2, <1>3, <1>5, <2>1
  <2>9. QED
    BY <1>1, <2>7, <2>8 DEF place
<1>6. QED
  BY <1>4, <1>5

\* The rows before a page, before the one after it, and before the last one.
LEMMA Offsets ==
    ASSUME NEW p \in Nat \ {0}, NEW size \in Nat \ {0}, NEW n \in Nat
    PROVE  /\ PageOffset(p, size) \in Nat
           /\ PageOffset(1, size) = 0
           /\ PageOffset(p + 1, size) = PageOffset(p, size) + size
           /\ ~ (p < TotalPages(n, size)) => n <= PageOffset(p + 1, size)
<1>1. PageOffset(1, size) = 0 /\ PageOffset(p + 1, size) = PageOffset(p, size) + size
  BY DEF PageOffset
<1>2. PageOffset(p, size) \in Nat
  BY DEF PageOffset
<1>3. ASSUME ~ (p < TotalPages(n, size))
      PROVE  n <= PageOffset(p + 1, size)
  <2>1. PICK t \in Int : t = (n + size - 1) \div size
    OBVIOUS
  <2>2. n + size - 1 < (t + 1) * size
    BY <2>1
  <2>3. t <= p
    BY <1>3, <2>1 DEF TotalPages
  <2>4. (t + 1) * size <= (p + 1) * size
    BY <2>3
  <2>5. QED
    BY <2>2, <2>4 DEF PageOffset
<1>4. QED
  BY <1>1, <1>2, <1>3

-----------------------------------------------------------------------------
(* Reading a list page by page                                             *)

\* The rows before r, and the rows before the page that is read next.
RowsAhead(r) == AheadIn(Listed, key, r)
Place(r)     == Cardinality(RowsAhead(r))
NextOffset   == PageOffset(page, perPage)

\* What holds of a row whose place is its own and did not move: the client has
\* seen it if it has read as far, it is among the rows counted, and the client
\* does not stop before it.
PlaceFacts(r) ==
    /\ seen[r] = (IF Place(r) < NextOffset THEN 1 ELSE 0)
    /\ total # NotCounted => Place(r) < total
    /\ ~reading => Place(r) < NextOffset
PlaceInv  == \A r \in Listed : ~Disturbed(r) => PlaceFacts(r)
PagingInv == PagingTypeOK /\ PlaceInv

LEMMA ListFinite == IsFiniteSet(Listed) /\ Cardinality(Listed) \in Nat
<1>1. Listed \in SUBSET Line
  BY DEF Listed
<1>2. IsFiniteSet(Listed)
  BY <1>1, PagingAssumption, FS_Subset
<1>3. QED
  BY <1>2, FS_CardinalityType

LEMMA AheadFacts ==
    ASSUME NEW r
    PROVE  RowsAhead(r) \in SUBSET Listed /\ Place(r) \in Nat
BY ListFinite, AheadCounts DEF RowsAhead, Place

LEMMA PageSizes == \A raw \in Int : PerPageParam(raw) \in 1 .. 3
BY DEF PerPageParam, DefaultPerPage, MaxPerPage

LEMMA PagingNumbers ==
    ASSUME PagingTypeOK
    PROVE  /\ perPage \in 1 .. 3 /\ page \in Nat \ {0} /\ NextOffset \in Nat
           /\ \A r \in Line : key[r] \in Nat /\ seen[r] \in Nat
<1>1. perPage \in 1 .. 3 /\ page \in Nat \ {0}
  BY DEF PagingTypeOK, MaxPerPage
<1>2. NextOffset \in Nat
  BY <1>1, Offsets DEF NextOffset
<1>3. Key \union {NotListed} \subseteq Nat
  BY PagingAssumption DEF NotListed
<1>4. key \in [Line -> Key \union {NotListed}] /\ seen \in [Line -> Nat]
  BY DEF PagingTypeOK
<1>5. QED
  BY <1>1, <1>2, <1>3, <1>4

LEMMA PagingBegins == PagingInit => PagingInv
<1> SUFFICES ASSUME PagingInit PROVE PagingInv
  OBVIOUS
<1>1. PICK k \in [Line -> Key \union {NotListed}], raw \in RawPerPage :
        PagingStarts(k, PerPageParam(raw))
  BY DEF PagingInit
<1>2. PerPageParam(raw) \in 1 .. 3
  BY PageSizes, PagingAssumption
<1>3. PagingTypeOK
  BY <1>1, <1>2 DEF PagingStarts, PagingTypeOK, MaxPerPage
<1>4. page = 1 /\ NextOffset = 0
  <2>1. page = 1 /\ perPage = PerPageParam(raw)
    BY <1>1 DEF PagingStarts
  <2>2. QED
    BY <2>1, <1>2 DEF NextOffset, PageOffset
<1>5. ASSUME NEW r \in Listed
      PROVE  PlaceFacts(r)
  <2>1. seen[r] = 0 /\ total = NotCounted /\ reading
    BY <1>1 DEF PagingStarts, Listed
  <2>2. ~ (Place(r) < NextOffset)
    BY <1>4, AheadFacts
  <2>3. QED
    BY <2>1, <2>2 DEF PlaceFacts
<1>6. QED
  BY <1>3, <1>5 DEF PagingInv, PlaceInv

LEMMA CountsRows ==
    ASSUME PagingInv, CountRows
    PROVE  PagingInv'
<1> USE DEF CountRows
<1>1. Cardinality(Listed) \in Nat
  BY ListFinite
<1>2. PagingTypeOK'
  BY <1>1 DEF PagingInv, PagingTypeOK
<1>3. /\ Listed' = Listed /\ NextOffset' = NextOffset
      /\ \A r : (Disturbed(r)' <=> Disturbed(r)) /\ Place(r)' = Place(r)
  BY DEF Listed, NextOffset, PageOffset, Disturbed, Place, RowsAhead, AheadIn
<1>4. ASSUME NEW r \in Listed, ~Disturbed(r)
      PROVE  PlaceFacts(r)'
  <2>1. PlaceFacts(r)
    BY <1>4 DEF PagingInv, PlaceInv
  <2>2. RowsAhead(r) \subseteq Listed \ {r}
    <3>1. ~ (key[r] < key[r])
      BY PagingNumbers DEF PagingInv, Listed
    <3>2. QED
      BY <3>1 DEF RowsAhead, AheadIn
  <2>3. Place(r) < Cardinality(Listed)
    BY <1>4, <2>2, ListFinite, PlaceBounds DEF Place, RowsAhead
  <2>4. QED
    BY <1>3, <2>1, <2>3 DEF PlaceFacts
<1>5. QED
  BY <1>2, <1>3, <1>4 DEF PagingInv, PlaceInv

\* What the next page does to a row whose place is its own.
LEMMA PageSeen ==
    ASSUME PagingTypeOK, NEW r \in Listed, ~Disturbed(r), PlaceFacts(r),
           NEW P \in SUBSET Listed,
           MayReturn(P, Listed, key, PageOffset(page, perPage), perPage)
    PROVE  (IF r \in P THEN seen[r] + 1 ELSE seen[r])
             = (IF Place(r) < NextOffset + perPage THEN 1 ELSE 0)
<1>1. /\ perPage \in Nat \ {0} /\ NextOffset \in Nat /\ Place(r) \in Nat
      /\ IsFiniteSet(Listed)
  BY PagingNumbers, ListFinite, AheadFacts
<1>2. \A x \in Listed : key[x] \in Nat
  BY PagingNumbers DEF Listed
<1>3. \A x \in Listed \ {r} : key[x] # key[r]
  BY DEF Disturbed, Listed
<1>4. r \in P <=> NextOffset <= Place(r) /\ Place(r) < NextOffset + perPage
  BY <1>1, <1>2, <1>3, OnPage DEF NextOffset, Place, RowsAhead
<1>5. seen[r] = (IF Place(r) < NextOffset THEN 1 ELSE 0)
  BY DEF PlaceFacts
<1>6. QED
  BY <1>1, <1>4, <1>5

LEMMA FetchesPage ==
    ASSUME PagingInv, FetchPage
    PROVE  PagingInv'
<1>1. PICK P \in SUBSET Listed :
        /\ MayReturn(P, Listed, key, PageOffset(page, perPage), perPage)
        /\ seen' = [r \in Line |-> IF r \in P THEN seen[r] + 1 ELSE seen[r]]
  BY DEF FetchPage
<1>2. /\ total # NotCounted /\ reading' = (page < TotalPages(total, perPage))
      /\ page' = page + 1 /\ total' = NotCounted
      /\ key' = key /\ perPage' = perPage /\ changes' = changes
  BY DEF FetchPage
<1>3. PagingTypeOK /\ perPage \in 1 .. 3 /\ page \in Nat \ {0} /\ total \in Nat
  BY <1>2, PagingNumbers DEF PagingInv, PagingTypeOK
<1>4. PagingTypeOK'
  <2>1. seen' \in [Line -> Nat]
    BY <1>1, <1>3 DEF PagingTypeOK
  <2>2. page' \in Nat \ {0} /\ reading' \in BOOLEAN
    BY <1>2, <1>3
  <2>3. QED
    BY <1>2, <1>3, <2>1, <2>2 DEF PagingTypeOK
<1>5. NextOffset' = NextOffset + perPage
      /\ (~reading' => total <= NextOffset')
      /\ NextOffset' \in Nat
  <2>1. /\ PageOffset(page, perPage) \in Nat
        /\ PageOffset(page + 1, perPage) = PageOffset(page, perPage) + perPage
        /\ ~ (page < TotalPages(total, perPage)) => total <= PageOffset(page + 1, perPage)
    BY <1>3, Offsets
  <2>2. NextOffset' = PageOffset(page + 1, perPage)
    BY <1>2 DEF NextOffset, PageOffset
  <2>3. NextOffset' = NextOffset + perPage
    BY <2>1, <2>2 DEF NextOffset
  <2>4. NextOffset' \in Nat
    BY <1>3, <2>1, <2>3 DEF NextOffset
  <2>5. ~reading' => total <= NextOffset'
    BY <1>2, <2>1, <2>2, Zenon
  <2>6. QED
    BY <2>3, <2>4, <2>5
<1>6. /\ Listed' = Listed
      /\ \A r : (Disturbed(r)' <=> Disturbed(r)) /\ Place(r)' = Place(r)
  BY <1>2 DEF Listed, Disturbed, Place, RowsAhead, AheadIn
<1>7. ASSUME NEW r \in Listed, ~Disturbed(r)
      PROVE  PlaceFacts(r)'
  <2>1. PlaceFacts(r)
    BY <1>7 DEF PagingInv, PlaceInv
  <2>2. seen'[r] = (IF r \in P THEN seen[r] + 1 ELSE seen[r])
    BY <1>1 DEF Listed
  <2>3. seen'[r] = (IF Place(r) < NextOffset + perPage THEN 1 ELSE 0)
    BY <1>1, <1>3, <1>7, <2>1, <2>2, PageSeen
  <2>4. ~reading' => Place(r) < NextOffset'
    BY <1>2, <1>3, <1>5, <2>1, AheadFacts DEF PlaceFacts
  <2>5. QED
    BY <1>2, <1>5, <1>6, <2>3, <2>4 DEF PlaceFacts
<1>8. QED
  BY <1>4, <1>6, <1>7 DEF PagingInv, PlaceInv

LEMMA ChangesRow ==
    ASSUME PagingInv, ChangeRow
    PROVE  PagingInv'
<1>1. PICK x \in Line, k \in Key \union {NotListed} :
        /\ key' = [key EXCEPT ![x] = k]
        /\ changes' = changes \union {<<x, key[x], k>>}
  BY DEF ChangeRow
<1>2. /\ perPage' = perPage /\ page' = page /\ total' = total
      /\ reading' = reading /\ seen' = seen
  BY DEF ChangeRow
<1>3. PagingTypeOK'
  <2>1. key[x] \in Key \union {NotListed}
    BY DEF PagingInv, PagingTypeOK
  <2>2. key' \in [Line -> Key \union {NotListed}]
    BY <1>1 DEF PagingInv, PagingTypeOK
  <2>3. QED
    BY <1>1, <1>2, <2>1, <2>2 DEF PagingInv, PagingTypeOK
<1>4. /\ \A y \in Line : key[y] \in Nat /\ key'[y] \in Nat
      /\ \A y \in Line \ {x} : key'[y] = key[y]
      /\ key'[x] = k
  <2>1. \A y \in Line : key[y] \in Nat /\ key'[y] \in Nat
    <3>1. Key \union {NotListed} \subseteq Nat
      BY PagingAssumption DEF NotListed
    <3>2. /\ key \in [Line -> Key \union {NotListed}]
          /\ key' \in [Line -> Key \union {NotListed}]
      BY <1>3 DEF PagingInv, PagingTypeOK
    <3>3. QED
      BY <3>1, <3>2
  <2>2. QED
    BY <2>1, <1>1 DEF PagingInv, PagingTypeOK
<1>5. ASSUME NEW r \in Listed', ~Disturbed(r)'
      PROVE  PlaceFacts(r)'
  <2>1. r \in Line /\ key'[r] # NotListed
    BY DEF Listed
  <2>2. \A y \in Line \ {r} : key'[y] # key'[r]
    BY <1>5 DEF Disturbed
  <2>3. \A c \in changes' : \A n \in {c[2], c[3]} : ~ (n # NotListed /\ n <= key'[r])
    BY <1>5 DEF Disturbed
  <2>4. ~ (key[x] # NotListed /\ key[x] <= key'[r]) /\ ~ (k # NotListed /\ k <= key'[r])
    <3>1. <<x, key[x], k>> \in changes'
      BY <1>1
    <3>2. \A n \in {<<x, key[x], k>>[2], <<x, key[x], k>>[3]} :
            ~ (n # NotListed /\ n <= key'[r])
      BY <2>3, <3>1, Zenon
    <3>3. QED
      BY <3>2
  <2>5. x # r
    BY <1>4, <2>1, <2>4
  <2>6. key'[r] = key[r] /\ r \in Listed
    BY <1>4, <2>1, <2>5 DEF Listed
  <2>7. \A c \in changes : \A n \in {c[2], c[3]} : ~ (n # NotListed /\ n <= key[r])
    BY <1>1, <2>3, <2>6
  <2>8. \A y \in Line \ {r} : key[y] # key[r]
    BY <1>4, <2>1, <2>2, <2>4, <2>6
  <2>9. ~Disturbed(r)
    BY <2>7, <2>8 DEF Disturbed
  <2>10. RowsAhead(r)' = RowsAhead(r)
    <3>1. \A y \in Line : y \in RowsAhead(r)' <=> key'[y] # NotListed /\ key'[y] < key[r]
      BY <2>6 DEF RowsAhead, AheadIn, Listed
    <3>2. \A y \in Line : y \in RowsAhead(r) <=> key[y] # NotListed /\ key[y] < key[r]
      BY DEF RowsAhead, AheadIn, Listed
    <3>3. ~ (key[x] # NotListed /\ key[x] < key[r]) /\ ~ (k # NotListed /\ k < key[r])
      BY <1>4, <2>1, <2>4, <2>6
    <3>4. \A y \in Line : y \in RowsAhead(r)' <=> y \in RowsAhead(r)
      BY <1>4, <3>1, <3>2, <3>3
    <3>5. RowsAhead(r) \subseteq Line /\ RowsAhead(r)' \subseteq Line
      BY DEF RowsAhead, AheadIn, Listed
    <3>6. QED
      BY <3>4, <3>5
  <2>11. Place(r)' = Place(r) /\ NextOffset' = NextOffset
    BY <1>2, <2>10 DEF Place, NextOffset, PageOffset
  <2>12. PlaceFacts(r)
    BY <2>6, <2>9 DEF PagingInv, PlaceInv
  <2>13. QED
    BY <1>2, <2>11, <2>12 DEF PlaceFacts
<1>6. QED
  BY <1>3, <1>5 DEF PagingInv, PlaceInv

LEMMA PagingStep ==
    ASSUME PagingInv, [PagingNext]_pagingVars
    PROVE  PagingInv'
<1>1. CASE PagingNext
  BY <1>1, CountsRows, FetchesPage, ChangesRow DEF PagingNext
<1>2. CASE UNCHANGED pagingVars
  <2>1. PagingTypeOK'
    BY <1>2 DEF pagingVars, PagingInv, PagingTypeOK
  <2>2. PlaceInv'
    BY <1>2 DEF pagingVars, PagingInv, PlaceInv, PlaceFacts, Listed, Disturbed, Place,
                RowsAhead, AheadIn, NextOffset, PageOffset
  <2>3. QED
    BY <2>1, <2>2 DEF PagingInv
<1>3. QED
  BY <1>1, <1>2

\* A client that reads all pages of a list (the FindAllByUser of the
\* repositories, with perPageParam and totalPages) sees every row with a key of
\* its own exactly once, whatever changes behind the row meanwhile.
THEOREM PagesCover == PagingSpec => []EveryRowOnce
<1>1. PagingInv => EveryRowOnce
  <2> SUFFICES ASSUME PagingInv, NEW r \in Listed, ~reading, ~Disturbed(r)
               PROVE  seen[r] = 1
    BY DEF EveryRowOnce
  <2>1. PlaceFacts(r)
    BY DEF PagingInv, PlaceInv
  <2>2. QED
    BY <2>1 DEF PlaceFacts
<1>2. PagingInv /\ [PagingNext]_pagingVars => PagingInv'
  BY PagingStep
<1>3. QED
  BY <1>1, <1>2, PagingBegins, PTL DEF PagingSpec

-----------------------------------------------------------------------------
(* Sums over sets                                                          *)

\* The sum of the values of g over S, and one element of a set.
TotalOf(g, S) == MapThenSumSet(LAMBDA x : g[x], S)
First(S)      == CHOOSE x \in S : TRUE

\* f adds the values of g up over each subset of S, one element after another.
Adds(f, g, S) ==
    f = [s \in SUBSET S |-> IF s = {} THEN 0 ELSE g[First(s)] + f[s \ {First(s)}]]
Adder(g, S) == CHOOSE f : Adds(f, g, S)

LEMMA FirstFacts ==
    ASSUME NEW S, S # {}
    PROVE  First(S) \in S
BY DEF First

LEMMA TotalIsAdder ==
    ASSUME NEW g, NEW S
    PROVE  TotalOf(g, S) = Adder(g, S)[S]
BY DEF TotalOf, MapThenSumSet, MapThenFoldSet, Adder, Adds, First

\* Of a set of finite sets one is smallest.
LEMMA SmallestSet ==
    ASSUME NEW S, IsFiniteSet(S), NEW Bad \in SUBSET (SUBSET S), Bad # {}
    PROVE  \E T \in Bad : \A Z \in SUBSET T : Z # T => Z \notin Bad
<1>1. IsWellFoundedOn(StrictSubsetOrdering(S), SUBSET S)
  BY FS_StrictSubsetOrderingWellFounded, FS_FiniteSubsetsOfFinite
<1>2. PICK T \in Bad : \A Z \in Bad : ~ (<<Z, T>> \in StrictSubsetOrdering(S))
  BY <1>1, WFMin
<1>3. ASSUME NEW Z \in SUBSET T, Z # T, Z \in Bad
      PROVE  FALSE
  <2>1. <<Z, T>> \in (SUBSET S) \X (SUBSET S)
    OBVIOUS
  <2>2. <<Z, T>> \in StrictSubsetOrdering(S)
    BY <2>1, <1>3 DEF StrictSubsetOrdering
  <2>3. QED
    BY <1>2, <1>3, <2>2
<1>4. QED
  BY <1>3

LEMMA AddsFacts ==
    ASSUME NEW f, NEW g, NEW S, Adds(f, g, S), NEW s \in SUBSET S
    PROVE  f[s] = (IF s = {} THEN 0 ELSE g[First(s)] + f[s \ {First(s)}])
BY DEF Adds

\* Two functions that add the same values up agree wherever both are defined.
LEMMA AddersAgree ==
    ASSUME NEW g, NEW S, NEW T, NEW f, NEW h, IsFiniteSet(S), T \subseteq S,
           Adds(f, g, S), Adds(h, g, T)
    PROVE  \A s \in SUBSET T : f[s] = h[s]
<1> DEFINE Bad == {s \in SUBSET T : f[s] # h[s]}
<1>1. SUFFICES ASSUME Bad # {} PROVE FALSE
  OBVIOUS
<1>2. PICK s \in Bad : \A u \in SUBSET s : u # s => u \notin Bad
  <2>1. Bad \in SUBSET (SUBSET S)
    OBVIOUS
  <2> HIDE DEF Bad
  <2>2. QED
    BY <1>1, <2>1, SmallestSet
<1>3. s \in SUBSET T /\ s \in SUBSET S /\ f[s] # h[s]
  OBVIOUS
<1>4. s # {}
  BY <1>3, AddsFacts
<1>5. s \ {First(s)} \in SUBSET s /\ s \ {First(s)} # s /\ s \ {First(s)} \in SUBSET T
  BY <1>3, <1>4, FirstFacts
<1>6. f[s \ {First(s)}] = h[s \ {First(s)}]
  BY <1>2, <1>5
<1>7. QED
  BY <1>3, <1>4, <1>6, AddsFacts

LEMMA AdderExists ==
    ASSUME NEW g, NEW S, IsFiniteSet(S)
    PROVE  Adds(Adder(g, S), g, S)
<1> DEFINE Bad == {T \in SUBSET S : ~ Adds(Adder(g, T), g, T)}
<1>1. SUFFICES ASSUME Bad # {} PROVE FALSE
  OBVIOUS
<1>2. PICK T \in Bad : \A Z \in SUBSET T : Z # T => Z \notin Bad
  <2>1. Bad \in SUBSET (SUBSET S)
    OBVIOUS
  <2> HIDE DEF Bad
  <2>2. QED
    BY <1>1, <2>1, SmallestSet
<1>3. \A Z \in SUBSET T : Z # T => Adds(Adder(g, Z), g, Z)
  BY <1>2
<1> DEFINE rest(s) == s \ {First(s)}
           f == [s \in SUBSET T |-> IF s = {} THEN 0 ELSE g[First(s)] + Adder(g, rest(s))[rest(s)]]
<1>4. ASSUME NEW s \in SUBSET T, s # {}
      PROVE  rest(s) \in SUBSET T /\ rest(s) # T /\ f[rest(s)] = Adder(g, rest(s))[rest(s)]
  <2>1. rest(s) \in SUBSET T /\ rest(s) # T
    BY <1>4, FirstFacts
  <2>2. PICK u \in SUBSET T : u = rest(s)
    BY <2>1
  <2>3. Adds(Adder(g, u), g, u) /\ u # T
    BY <1>3, <2>1, <2>2
  <2>4. CASE u = {}
    BY <2>3, <2>4, AddsFacts, <2>2, <2>1
  <2>5. CASE u # {}
    <3>1. f[u] = g[First(u)] + Adder(g, rest(u))[rest(u)]
      BY <2>5
    <3>2. Adder(g, u)[u] = g[First(u)] + Adder(g, u)[rest(u)]
      BY <2>3, <2>5, AddsFacts
    <3>3. rest(u) \in SUBSET u /\ rest(u) \in SUBSET T /\ rest(u) # T
      BY <2>1, <2>2
    <3>4. Adds(Adder(g, rest(u)), g, rest(u))
      BY <1>3, <3>3
    <3>5. IsFiniteSet(u)
      BY FS_Subset
    <3>6. Adder(g, u)[rest(u)] = Adder(g, rest(u))[rest(u)]
      BY <2>3, <3>3, <3>4, <3>5, AddersAgree
    <3>7. QED
      BY <2>1, <2>2, <3>1, <3>2, <3>6
  <2>6. QED
    BY <2>4, <2>5
<1>5. Adds(f, g, T)
  <2>1. \A s \in SUBSET T : f[s] = (IF s = {} THEN 0 ELSE g[First(s)] + f[rest(s)])
    BY <1>4
  <2>2. f = [s \in SUBSET T |-> f[s]]
    OBVIOUS
  <2> HIDE DEF f
  <2>3. QED
    BY <2>1, <2>2 DEF Adds
<1>6. Adds(Adder(g, T), g, T)
  <2> HIDE DEF f
  <2>1. QED
    BY <1>5 DEF Adder
<1>7. QED
  BY <1>6

\* What a sum is made of.
LEMMA TotalFacts ==
    ASSUME NEW g, NEW S, IsFiniteSet(S)
    PROVE  /\ TotalOf(g, {}) = 0
           /\ S # {} => TotalOf(g, S) = g[First(S)] + TotalOf(g, S \ {First(S)})
<1>1. TotalOf(g, {}) = 0
  <2>1. Adds(Adder(g, {}), g, {})
    BY AdderExists, FS_EmptySet
  <2>2. Adder(g, {})[{}] = 0
    BY <2>1, AddsFacts
  <2>3. QED
    BY <2>2, TotalIsAdder
<1>2. ASSUME S # {}
      PROVE  TotalOf(g, S) = g[First(S)] + TotalOf(g, S \ {First(S)})
  <2>1. PICK R \in SUBSET S : R = S \ {First(S)}
    OBVIOUS
  <2>2. IsFiniteSet(R)
    BY FS_Subset
  <2>3. Adds(Adder(g, S), g, S) /\ Adds(Adder(g, R), g, R)
    BY <2>2, AdderExists
  <2>4. Adder(g, S)[S] = g[First(S)] + Adder(g, S)[R]
    BY <1>2, <2>1, <2>3, AddsFacts
  <2>5. R \in SUBSET R
    OBVIOUS
  <2>6. Adder(g, S)[R] = Adder(g, R)[R]
    BY <2>3, <2>5, AddersAgree
  <2>7. QED
    BY <2>1, <2>4, <2>6, TotalIsAdder
<1>3. QED
  BY <1>1, <1>2

LEMMA TotalNumber ==
    ASSUME NEW g, NEW S, IsFiniteSet(S), \A x \in S : g[x] \in Nat
    PROVE  TotalOf(g, S) \in Nat
<1> DEFINE Bad == {T \in SUBSET S : TotalOf(g, T) \notin Nat}
<1>1. SUFFICES ASSUME Bad # {} PROVE FALSE
  OBVIOUS
<1>2. PICK T \in Bad : \A Z \in SUBSET T : Z # T => Z \notin Bad
  <2>1. Bad \in SUBSET (SUBSET S)
    OBVIOUS
  <2> HIDE DEF Bad
  <2>2. QED
    BY <1>1, <2>1, SmallestSet
<1>3. T \in SUBSET S /\ TotalOf(g, T) \notin Nat /\ IsFiniteSet(T)
  BY FS_Subset
<1>4. T # {}
  <2>1. TotalOf(g, {}) = 0
    BY TotalFacts, FS_EmptySet
  <2>2. QED
    BY <1>3, <2>1
<1>5. First(T) \in T
  BY <1>4, FirstFacts
<1>6. PICK R \in SUBSET T : R = T \ {First(T)}
  OBVIOUS
<1>7. TotalOf(g, R) \in Nat
  BY <1>2, <1>3, <1>5, <1>6
<1>8. g[First(T)] \in Nat
  BY <1>3, <1>5
<1>9. TotalOf(g, T) = g[First(T)] + TotalOf(g, R)
  BY <1>3, <1>4, <1>6, TotalFacts
<1>10. QED
  BY <1>3, <1>7, <1>8, <1>9

\* It does not matter which element is added last.
LEMMA TotalOfRest ==
    ASSUME NEW g, NEW S, IsFiniteSet(S), \A x \in S : g[x] \in Nat, NEW y \in S
    PROVE  TotalOf(g, S) = g[y] + TotalOf(g, S \ {y})
<1> DEFINE Bad == {T \in SUBSET S : \E x \in T : TotalOf(g, T) # g[x] + TotalOf(g, T \ {x})}
<1>1. SUFFICES ASSUME Bad # {} PROVE FALSE
  <2>1. S \notin Bad
    BY <1>1
  <2>2. QED
    BY <2>1
<1>2. PICK T \in Bad : \A Z \in SUBSET T : Z # T => Z \notin Bad
  <2>1. Bad \in SUBSET (SUBSET S)
    OBVIOUS
  <2> HIDE DEF Bad
  <2>2. QED
    BY <1>1, <2>1, SmallestSet
<1>3. PICK x \in T : TotalOf(g, T) # g[x] + TotalOf(g, T \ {x})
  OBVIOUS
<1>4. T \in SUBSET S /\ IsFiniteSet(T) /\ T # {} /\ First(T) \in T
  BY <1>3, FirstFacts, FS_Subset
<1>5. PICK c \in T : c = First(T)
  BY <1>4
<1>6. TotalOf(g, T) = g[c] + TotalOf(g, T \ {c})
  BY <1>4, <1>5, TotalFacts
<1>7. x # c
  BY <1>3, <1>6
<1>8. PICK R \in SUBSET T : R = (T \ {c}) \ {x}
  OBVIOUS
<1>9. TotalOf(g, T \ {c}) = g[x] + TotalOf(g, R)
  <2>1. T \ {c} \notin Bad /\ T \ {c} \in SUBSET S /\ x \in T \ {c}
    BY <1>2, <1>7
  <2>2. QED
    BY <2>1, <1>8
<1>10. TotalOf(g, T \ {x}) = g[c] + TotalOf(g, R)
  <2>1. T \ {x} \notin Bad /\ T \ {x} \in SUBSET S /\ c \in T \ {x}
    BY <1>2, <1>7
  <2>2. (T \ {x}) \ {c} = R
    BY <1>8
  <2>3. QED
    BY <2>1, <2>2
<1>11. g[x] \in Nat /\ g[c] \in Nat /\ TotalOf(g, R) \in Nat
  <2>1. IsFiniteSet(R) /\ R \in SUBSET S
    BY <1>4, FS_Subset
  <2>2. TotalOf(g, R) \in Nat
    BY <2>1, TotalNumber
  <2>3. QED
    BY <1>4, <2>2
<1>12. QED
  BY <1>3, <1>6, <1>9, <1>10, <1>11

LEMMA TotalOfUnion ==
    ASSUME NEW g, NEW S, NEW T, IsFiniteSet(S), IsFiniteSet(T), S \intersect T = {},
           \A x \in S \union T : g[x] \in Nat
    PROVE  TotalOf(g, S \union T) = TotalOf(g, S) + TotalOf(g, T)
<1> DEFINE Bad == {V \in SUBSET T : TotalOf(g, S \union V) # TotalOf(g, S) + TotalOf(g, V)}
<1>1. SUFFICES ASSUME Bad # {} PROVE FALSE
  OBVIOUS
<1>2. PICK V \in Bad : \A Z \in SUBSET V : Z # V => Z \notin Bad
  <2>1. Bad \in SUBSET (SUBSET T)
    OBVIOUS
  <2> HIDE DEF Bad
  <2>2. QED
    BY <1>1, <2>1, SmallestSet
<1>3. V \in SUBSET T /\ TotalOf(g, S \union V) # TotalOf(g, S) + TotalOf(g, V)
      /\ IsFiniteSet(V) /\ TotalOf(g, S) \in Nat
  BY FS_Subset, TotalNumber
<1>4. V # {}
  <2>1. TotalOf(g, {}) = 0
    BY TotalFacts, FS_EmptySet
  <2>2. S \union {} = S
    OBVIOUS
  <2>3. QED
    BY <1>3, <2>1, <2>2
<1>5. PICK c \in V : TRUE
  BY <1>4
<1>6. PICK R \in SUBSET V : R = V \ {c} /\ R # V
  <2>1. V \ {c} \in SUBSET V /\ V \ {c} # V
    BY <1>5
  <2> HIDE DEF Bad
  <2>2. QED
    BY <2>1
<1>7. TotalOf(g, S \union R) = TotalOf(g, S) + TotalOf(g, R)
  BY <1>2, <1>6
<1>8. TotalOf(g, V) = g[c] + TotalOf(g, R)
  BY <1>3, <1>6, TotalOfRest
<1>9. TotalOf(g, S \union V) = g[c] + TotalOf(g, S \union R)
  <2>1. PICK W \in SUBSET (S \union T) : W = S \union V
    OBVIOUS
  <2>2. IsFiniteSet(W) /\ c \in W /\ \A x \in W : g[x] \in Nat
    BY <1>3, <2>1, FS_Union
  <2>3. W \ {c} = S \union R
    BY <1>6, <2>1
  <2>4. QED
    BY <2>1, <2>2, <2>3, TotalOfRest
<1>10. g[c] \in Nat /\ TotalOf(g, R) \in Nat
  <2>1. IsFiniteSet(R)
    BY <1>3, FS_Subset
  <2>2. TotalOf(g, R) \in Nat
    BY <2>1, TotalNumber
  <2>3. QED
    BY <2>2
<1>11. QED
  BY <1>3, <1>7, <1>8, <1>9, <1>10

\* The sets part[k] split S, and h[k] is the sum of g over part[k].
Splits(g, h, K, part, S) ==
    /\ IsFiniteSet(K) /\ IsFiniteSet(S) /\ \A x \in S : g[x] \in Nat
    /\ \A k \in K : part[k] \in SUBSET S /\ h[k] = TotalOf(g, part[k])
    /\ \A j \in K, k \in K : j # k => part[j] \intersect part[k] = {}
    /\ \A x \in S : \E k \in K : x \in part[k]

\* The sums of disjoint sets add up to the sum of their union.
LEMMA TotalOfParts ==
    ASSUME NEW g, NEW h, NEW K, NEW part, NEW S, Splits(g, h, K, part, S)
    PROVE  TotalOf(h, K) = TotalOf(g, S)
<1> USE DEF Splits
<1> DEFINE all(L) == UNION {part[k] : k \in L}
           Bad    == {L \in SUBSET K : TotalOf(h, L) # TotalOf(g, all(L))}
<1>1. SUFFICES ASSUME Bad # {} PROVE FALSE
  <2>1. all(K) = S
    OBVIOUS
  <2>2. K \notin Bad
    BY <1>1
  <2>3. QED
    BY <2>1, <2>2
<1>2. PICK L \in Bad : \A Z \in SUBSET L : Z # L => Z \notin Bad
  <2>1. Bad \in SUBSET (SUBSET K)
    OBVIOUS
  <2> HIDE DEF Bad
  <2>2. QED
    BY <1>1, <2>1, SmallestSet
<1>3. L \in SUBSET K /\ TotalOf(h, L) # TotalOf(g, all(L)) /\ IsFiniteSet(L)
  BY FS_Subset
<1>4. L # {}
  <2>1. TotalOf(h, {}) = 0 /\ TotalOf(g, {}) = 0
    BY TotalFacts, FS_EmptySet
  <2>2. all({}) = {}
    OBVIOUS
  <2>3. QED
    BY <1>3, <2>1, <2>2
<1>5. PICK c \in L : TRUE
  BY <1>4
<1>6. PICK M \in SUBSET L : M = L \ {c} /\ M # L
  <2>1. L \ {c} \in SUBSET L /\ L \ {c} # L
    BY <1>5
  <2> HIDE DEF Bad
  <2>2. QED
    BY <2>1
<1>7. TotalOf(h, M) = TotalOf(g, all(M))
  BY <1>2, <1>3, <1>6
<1>8. \A k \in L : h[k] \in Nat
  <2>1. ASSUME NEW k \in L
        PROVE  h[k] \in Nat
    <3>1. part[k] \in SUBSET S /\ h[k] = TotalOf(g, part[k])
      BY <1>3
    <3>2. IsFiniteSet(part[k]) /\ \A x \in part[k] : g[x] \in Nat
      BY <3>1, FS_Subset
    <3>3. QED
      BY <3>1, <3>2, TotalNumber
  <2>2. QED
    BY <2>1
<1>9. TotalOf(h, L) = h[c] + TotalOf(h, M)
  BY <1>3, <1>6, <1>8, TotalOfRest
<1>10. PICK Y \in SUBSET S, P \in SUBSET S : Y = all(M) /\ P = part[c] /\ P \intersect Y = {}
  <2>1. all(M) \in SUBSET S /\ part[c] \in SUBSET S
    BY <1>3, <1>6
  <2>2. part[c] \intersect all(M) = {}
    BY <1>3, <1>6
  <2> HIDE DEF all
  <2>3. QED
    BY <2>1, <2>2
<1>11. all(L) = P \union Y
  BY <1>6, <1>10
<1>12. IsFiniteSet(Y) /\ IsFiniteSet(P) /\ \A x \in P \union Y : g[x] \in Nat
  BY FS_Subset
<1>13. TotalOf(g, P \union Y) = TotalOf(g, P) + TotalOf(g, Y)
  BY <1>10, <1>12, TotalOfUnion
<1>14. h[c] = TotalOf(g, P)
  BY <1>3, <1>10
<1>15. QED
  <2> HIDE DEF all
  <2>1. QED
    BY <1>3, <1>7, <1>9, <1>10, <1>11, <1>13, <1>14

-----------------------------------------------------------------------------
(* The timeline and the history                                            *)

\* The entities due before i, of those that are not due before s.
Before(s, i) == AheadIn({x \in OfKind("entity") : s <= item[x].due}, DueAt, i)
Spot(s, i)   == Cardinality(Before(s, i))

\* The look before, the one in progress, and the page in progress.
TimesInv ==
    /\ looked <= now /\ now <= looked + Span
    /\ looked <= since /\ since <= now
    /\ from # NotAsked => since <= from /\ from <= now

\* What the user was shown at the last look, and what is new since.
ShownInv ==
    /\ \A i \in OfKind("entity") :
         item[i].due <= looked + Span /\ i \notin fresh => i \in shown
    /\ \A i \in OfKind("notification") :
         item[i].due <= looked /\ i \notin fresh => i \in shown

\* What the look in progress has shown of the history.
HistoryInv ==
    Looking => \A i \in OfKind("notification") \ moved :
                 since - Span <= item[i].due /\ item[i].due <= since => i \in shown

\* What holds of an item whose place did not move: the user has seen it if it was
\* on a page before this one, it is among the items counted, and neither it nor
\* anything before it is overdue.
KeptFacts(i) ==
    /\ i \in shown \/ PageOffset(pageNo, PageSize) <= Spot(since, i)
    /\ from # NotAsked =>
         /\ \A x \in OfKind("entity") :
              since <= item[x].due /\ item[x].due <= item[i].due => from <= item[x].due
         /\ Spot(since, i) < count
KeptInv ==
    Looking => \A i \in OfKind("entity") \ moved :
                 since <= item[i].due /\ item[i].due <= since + Span => KeptFacts(i)

TimelineInv == TimelineTypeOK /\ TimesInv /\ ShownInv /\ HistoryInv /\ KeptInv

LEMMA RowsHaveDates ==
    \A row \in ItemRows : row.due \in Nat
<1>1. NoItem.due \in Nat
  BY DEF NoItem, ItemRow
<1>2. ASSUME NEW row \in [kind : {"entity", "notification"}, due : Instant] PROVE row.due \in Nat
  <2>1. row.due \in Instant
    OBVIOUS
  <2>2. QED
    BY <2>1, TimelineAssumption
<1>3. QED
  BY <1>1, <1>2 DEF ItemRows

LEMMA TimelineNumbers ==
    ASSUME TimelineTypeOK
    PROVE  /\ now \in Nat /\ looked \in Nat /\ since \in Nat /\ Span \in Nat
           /\ from # NotAsked => from \in Nat
           /\ \A i \in Item : item[i].due \in Nat /\ DueAt[i] = item[i].due
           /\ Instant \subseteq Nat /\ NotAsked \notin Nat
<1>1. \A row \in ItemRows : row.due \in Nat
  BY RowsHaveDates
<1>2. QED
  BY <1>1, TimelineAssumption DEF TimelineTypeOK, DueAt, NotAsked

LEMMA KindItems == ASSUME NEW k PROVE OfKind(k) \subseteq Item
BY DEF OfKind

LEMMA RowsFinite ==
    ASSUME NEW s
    PROVE  IsFiniteSet(TimelineItems(s)) /\ Cardinality(TimelineItems(s)) \in Nat
<1>1. TimelineItems(s) \in SUBSET Item
  BY DEF TimelineItems, OfKind
<1>2. IsFiniteSet(TimelineItems(s))
  BY <1>1, TimelineAssumption, FS_Subset
<1>3. QED
  BY <1>2, FS_CardinalityType

LEMMA SpotNumber == ASSUME NEW s, NEW i PROVE Spot(s, i) \in Nat
<1>1. {x \in OfKind("entity") : s <= item[x].due} \in SUBSET Item
  BY DEF OfKind
<1>2. IsFiniteSet({x \in OfKind("entity") : s <= item[x].due})
  BY <1>1, TimelineAssumption, FS_Subset
<1>3. QED
  BY <1>2, AheadCounts DEF Spot, Before

\* The place of an item in the range of a page, if nothing before it is overdue.
LEMMA PlaceOnPage ==
    ASSUME TimelineTypeOK, NEW i \in OfKind("entity"), NEW s \in Nat, NEW start \in Nat,
           s <= start, s <= item[i].due, item[i].due <= s + Span,
           \A x \in OfKind("entity") :
             s <= item[x].due /\ item[x].due <= item[i].due => start <= item[x].due
    PROVE  /\ i \in TimelineItems(start)
           /\ AheadIn(TimelineItems(start), DueAt, i) = Before(s, i)
           /\ Spot(s, i) < Cardinality(TimelineItems(start))
<1>1. /\ Span \in Nat /\ OfKind("entity") \subseteq Item
      /\ \A x \in Item : item[x].due \in Nat /\ DueAt[x] = item[x].due
  BY TimelineNumbers, KindItems
<1>2. i \in TimelineItems(start)
  BY <1>1 DEF TimelineItems, Between
<1>3. \A x : x \in AheadIn(TimelineItems(start), DueAt, i) <=> x \in Before(s, i)
  <2>1. \A x : x \in AheadIn(TimelineItems(start), DueAt, i)
                 <=> x \in OfKind("entity") /\ start <= item[x].due
                     /\ item[x].due <= start + Span /\ item[x].due < item[i].due
    BY <1>1 DEF AheadIn, TimelineItems, Between
  <2>2. \A x : x \in Before(s, i)
                 <=> x \in OfKind("entity") /\ s <= item[x].due /\ item[x].due < item[i].due
    BY <1>1 DEF AheadIn, Before
  <2>3. \A x \in OfKind("entity") :
          start <= item[x].due /\ item[x].due <= start + Span /\ item[x].due < item[i].due
            <=> s <= item[x].due /\ item[x].due < item[i].due
    BY <1>1
  <2>4. QED
    BY <2>1, <2>2, <2>3
<1>4. AheadIn(TimelineItems(start), DueAt, i) = Before(s, i)
  <2>1. AheadIn(TimelineItems(start), DueAt, i) \subseteq TimelineItems(start)
    BY DEF AheadIn
  <2>2. QED
    BY <1>3
<1>5. Spot(s, i) < Cardinality(TimelineItems(start))
  <2>1. AheadIn(TimelineItems(start), DueAt, i) \subseteq TimelineItems(start) \ {i}
    BY <1>1, <1>2 DEF AheadIn
  <2>2. QED
    BY <1>2, <1>4, <2>1, RowsFinite, PlaceBounds DEF Spot
<1>6. QED
  BY <1>2, <1>4, <1>5

LEMMA TimelineBegins == TimelineInit => TimelineInv
<1> SUFFICES ASSUME TimelineInit PROVE TimelineInv
  OBVIOUS
<1>1. TimelineTypeOK
  BY DEF TimelineInit, TimelineStart, TimelineTypeOK
<1>2. /\ looked = now /\ since = now /\ fresh = Item /\ ~Looking /\ from = NotAsked
  BY DEF TimelineInit, TimelineStart, Looking
<1>3. TimesInv
  BY <1>1, <1>2, TimelineNumbers DEF TimesInv
<1>4. ShownInv
  BY <1>2, KindItems DEF ShownInv
<1>5. QED
  BY <1>1, <1>2, <1>3, <1>4 DEF TimelineInv, HistoryInv, KeptInv

LEMMA AsksPage ==
    ASSUME TimelineInv, AskPage
    PROVE  TimelineInv'
<1>1. /\ from = NotAsked /\ from' = now /\ count' = Cardinality(TimelineItems(now))
      /\ since' = (IF Looking THEN since ELSE now)
      /\ shown' = (IF Looking THEN shown ELSE shown \union History)
      /\ moved' = (IF Looking THEN moved \union Overtaken(since) ELSE moved)
      /\ item' = item /\ now' = now /\ looked' = looked /\ fresh' = fresh /\ pageNo' = pageNo
  BY DEF AskPage
<1>2. /\ now \in Nat /\ looked \in Nat /\ since \in Nat /\ since' \in Nat /\ Span \in Nat
      /\ \A i \in Item : item[i].due \in Nat
      /\ NotAsked \notin Nat
  BY <1>1, TimelineNumbers DEF TimelineInv
<1>3. TimelineTypeOK'
  <2>1. count' \in Nat
    BY <1>1, RowsFinite
  <2>2. History \subseteq Item /\ Overtaken(since) \subseteq Item
    BY DEF History, ExportNotifications, Overtaken, OfKind
  <2>3. QED
    BY <1>1, <2>1, <2>2 DEF TimelineInv, TimelineTypeOK
<1>4. TimesInv' /\ since' <= now
  BY <1>1, <1>2 DEF TimelineInv, TimesInv
<1>5. OfKind("entity")' = OfKind("entity") /\ OfKind("notification")' = OfKind("notification")
      /\ DueAt' = DueAt
  BY <1>1 DEF OfKind, DueAt
<1>6. ShownInv'
  BY <1>1, <1>5 DEF TimelineInv, ShownInv
<1>7. Looking'
  BY <1>1, <1>2 DEF Looking
<1>8. HistoryInv'
  <2> SUFFICES ASSUME NEW i \in OfKind("notification") \ moved',
                      since' - Span <= item[i].due, item[i].due <= since'
               PROVE  i \in shown'
    BY <1>1, <1>5 DEF HistoryInv
  <2>1. CASE Looking
    BY <1>1, <2>1 DEF TimelineInv, HistoryInv
  <2>2. CASE ~Looking
    <3>1. i \in History
      BY <1>1, <2>2 DEF History, ExportNotifications, HistoryRange, Between
    <3>2. QED
      BY <1>1, <2>2, <3>1
  <2>3. QED
    BY <2>1, <2>2
<1>9. KeptInv'
  <2> SUFFICES ASSUME NEW i \in OfKind("entity") \ moved',
                      since' <= item[i].due, item[i].due <= since' + Span
               PROVE  KeptFacts(i)'
    BY <1>1, <1>5 DEF KeptInv
  <2>1. PICK s \in Nat : s = since'
    BY <1>2
  <2>2. Spot(since, i)' = Spot(s, i)
    BY <1>1, <1>5, <2>1 DEF Spot, Before
  <2>3. \A x \in OfKind("entity") :
          s <= item[x].due /\ item[x].due <= item[i].due => now <= item[x].due
    <3>1. CASE Looking
      <4>1. i \in Item /\ i \notin Overtaken(since) /\ s = since
        BY <1>1, <2>1, <3>1, KindItems
      <4>2. \A x \in OfKind("entity") : ~ (since <= item[x].due /\ item[x].due < now
                                            /\ item[x].due <= item[i].due)
        BY <4>1 DEF Overtaken
      <4>3. \A x \in OfKind("entity") : item[x].due \in Nat
        BY <1>2, KindItems
      <4>4. QED
        BY <1>2, <4>1, <4>2, <4>3
    <3>2. CASE ~Looking
      BY <1>1, <2>1, <3>2
    <3>3. QED
      BY <3>1, <3>2
  <2>4. Spot(s, i) < Cardinality(TimelineItems(now))
    BY <1>2, <1>4, <2>1, <2>3, PlaceOnPage DEF TimelineInv
  <2>5. i \in shown' \/ PageOffset(pageNo, PageSize) <= Spot(s, i)
    <3>1. CASE Looking
      <4>1. s = since /\ i \in OfKind("entity") \ moved
        BY <1>1, <2>1, <3>1
      <4>2. KeptFacts(i)
        BY <2>1, <3>1, <4>1 DEF TimelineInv, KeptInv
      <4>3. QED
        BY <1>1, <3>1, <4>1, <4>2 DEF KeptFacts
    <3>2. CASE ~Looking
      <4>1. pageNo = 1
        BY <3>2 DEF Looking, TimelineInv, TimelineTypeOK
      <4>2. PageOffset(pageNo, PageSize) = 0
        BY <4>1, TimelineAssumption, Offsets
      <4>3. QED
        BY <4>2, SpotNumber
    <3>3. QED
      BY <3>1, <3>2
  <2>6. QED
    BY <1>1, <1>5, <2>1, <2>2, <2>3, <2>4, <2>5 DEF KeptFacts, PageOffset
<1>10. QED
  BY <1>3, <1>4, <1>6, <1>8, <1>9 DEF TimelineInv

\* What a page does to an item whose place did not move.
LEMMA PageShows ==
    ASSUME TimelineInv, from # NotAsked, NEW P \in SUBSET TimelineItems(from),
           MayReturn(P, TimelineItems(from), DueAt, PageOffset(pageNo, PageSize), PageSize),
           NEW i \in OfKind("entity"), i \notin moved, i \notin Tied(TimelineItems(from)),
           since <= item[i].due, item[i].due <= since + Span
    PROVE  /\ i \in shown \union P \/ PageOffset(pageNo + 1, PageSize) <= Spot(since, i)
           /\ ~ (pageNo < TotalPages(count, PageSize)) => i \in shown \union P
<1> DEFINE rows   == TimelineItems(from)
           offset == PageOffset(pageNo, PageSize)
<1>1. /\ since \in Nat /\ from \in Nat /\ since <= from /\ Looking
      /\ \A x \in Item : item[x].due \in Nat /\ DueAt[x] = item[x].due
  BY TimelineNumbers DEF TimelineInv, TimesInv, Looking
<1>2. KeptFacts(i)
  BY <1>1 DEF TimelineInv, KeptInv
<1>3. i \in rows /\ AheadIn(rows, DueAt, i) = Before(since, i)
  BY <1>1, <1>2, PlaceOnPage DEF TimelineInv, KeptFacts
<1>4. /\ IsFiniteSet(rows) /\ rows \subseteq Item
      /\ \A x \in rows : DueAt[x] \in Nat
  BY <1>1, RowsFinite DEF TimelineItems, OfKind
<1>5. \A x \in rows \ {i} : DueAt[x] # DueAt[i]
  BY <1>1, <1>3, <1>4 DEF Tied
<1>6. /\ offset \in Nat /\ PageSize \in Nat \ {0}
      /\ PageOffset(pageNo + 1, PageSize) = offset + PageSize
      /\ ~ (pageNo < TotalPages(count, PageSize)) => count <= offset + PageSize
  <2>1. pageNo \in Nat \ {0} /\ count \in Nat /\ PageSize \in Nat \ {0}
    BY TimelineAssumption DEF TimelineInv, TimelineTypeOK
  <2>2. QED
    BY <2>1, Offsets
<1>7. i \in P <=> offset <= Spot(since, i) /\ Spot(since, i) < offset + PageSize
  <2> HIDE DEF rows, offset
  <2>1. P \in SUBSET rows /\ MayReturn(P, rows, DueAt, offset, PageSize)
    BY DEF rows, offset
  <2>2. QED
    BY <1>3, <1>4, <1>5, <1>6, <2>1, OnPage DEF Spot
<1>8. Spot(since, i) \in Nat /\ Spot(since, i) < count /\ count \in Nat
  BY <1>2, SpotNumber DEF KeptFacts, TimelineInv, TimelineTypeOK
<1>9. i \in shown \/ offset <= Spot(since, i)
  BY <1>2 DEF KeptFacts
<1> HIDE DEF rows, offset
<1>10. QED
  BY <1>6, <1>7, <1>8, <1>9

LEMMA SelectsPage ==
    ASSUME TimelineInv, SelectPage
    PROVE  TimelineInv'
<1>1. PICK P \in SUBSET TimelineItems(from) :
        /\ MayReturn(P, TimelineItems(from), DueAt, PageOffset(pageNo, PageSize), PageSize)
        /\ shown' = shown \union P
        /\ IF pageNo < TotalPages(count, PageSize)
           THEN /\ pageNo' = pageNo + 1 /\ moved' = moved \union Tied(TimelineItems(from))
                /\ looked' = looked /\ fresh' = fresh
           ELSE /\ pageNo' = 1 /\ moved' = {} /\ looked' = since
                /\ fresh' = ({i \in fresh : item[i].due < since}
                               \union (moved \union Tied(TimelineItems(from)))) \ shown'
  BY DEF SelectPage
<1>2. /\ from # NotAsked /\ from' = NotAsked /\ count' = 0
      /\ item' = item /\ now' = now /\ since' = since
  BY DEF SelectPage
<1>3. /\ now \in Nat /\ looked \in Nat /\ since \in Nat /\ Span \in Nat /\ Looking
      /\ \A i \in Item : item[i].due \in Nat
  BY <1>2, TimelineNumbers DEF TimelineInv, Looking
<1>4. TimesInv /\ TimesInv'
  BY <1>1, <1>2, <1>3 DEF TimelineInv, TimesInv
<1>5. P \subseteq Item /\ Tied(TimelineItems(from)) \subseteq Item
  BY DEF TimelineItems, OfKind, Tied
<1>6. OfKind("entity")' = OfKind("entity") /\ OfKind("notification")' = OfKind("notification")
      /\ DueAt' = DueAt
  BY <1>2 DEF OfKind, DueAt
<1>7. \A i \in OfKind("entity") :
        /\ i \notin moved /\ i \notin Tied(TimelineItems(from))
        /\ since <= item[i].due /\ item[i].due <= since + Span
        => /\ i \in shown' \/ PageOffset(pageNo + 1, PageSize) <= Spot(since, i)
           /\ ~ (pageNo < TotalPages(count, PageSize)) => i \in shown'
  BY <1>1, <1>2, PageShows
<1>8. CASE pageNo < TotalPages(count, PageSize)
  <2>1. /\ pageNo' = pageNo + 1 /\ moved' = moved \union Tied(TimelineItems(from))
        /\ looked' = looked /\ fresh' = fresh
    BY <1>1, <1>8
  <2>2. TimelineTypeOK'
    BY <1>1, <1>2, <1>5, <2>1 DEF TimelineInv, TimelineTypeOK
  <2>3. ShownInv'
    BY <1>1, <1>2, <1>6, <2>1 DEF TimelineInv, ShownInv
  <2>4. HistoryInv'
    BY <1>1, <1>2, <1>3, <1>6, <2>1 DEF TimelineInv, HistoryInv
  <2>5. KeptInv'
    <3> SUFFICES ASSUME NEW i \in OfKind("entity") \ moved',
                        since <= item[i].due, item[i].due <= since + Span
                 PROVE  KeptFacts(i)'
      BY <1>2, <1>6 DEF KeptInv
    <3>1. i \in shown' \/ PageOffset(pageNo + 1, PageSize) <= Spot(since, i)
      BY <1>7, <2>1
    <3>2. Spot(since, i)' = Spot(since, i)
      BY <1>2, <1>6 DEF Spot, Before
    <3>3. QED
      BY <1>2, <2>1, <3>1, <3>2 DEF KeptFacts, PageOffset
  <2>6. QED
    BY <1>4, <2>2, <2>3, <2>4, <2>5 DEF TimelineInv
<1>9. CASE ~ (pageNo < TotalPages(count, PageSize))
  <2>1. /\ pageNo' = 1 /\ moved' = {} /\ looked' = since
        /\ fresh' = ({i \in fresh : item[i].due < since}
                       \union (moved \union Tied(TimelineItems(from)))) \ shown'
    BY <1>1, <1>9
  <2>2. TimelineTypeOK'
    BY <1>1, <1>2, <1>5, <2>1 DEF TimelineInv, TimelineTypeOK
  <2>3. ~Looking'
    BY <1>2, <2>1 DEF Looking
  <2>4. \A i : i \notin fresh' => \/ i \in shown'
                                  \/ /\ i \notin moved /\ i \notin Tied(TimelineItems(from))
                                     /\ i \notin fresh \/ ~ (item[i].due < since)
    BY <2>1
  <2>5. ASSUME NEW i \in OfKind("entity"), item[i].due <= since + Span, i \notin fresh'
        PROVE  i \in shown'
    <3>1. item[i].due \in Nat
      BY <1>3, KindItems
    <3>2. CASE item[i].due < since
      <4>1. item[i].due <= looked + Span
        BY <1>3, <1>4, <3>1, <3>2 DEF TimesInv
      <4>2. i \in shown' \/ i \notin fresh
        BY <2>4, <2>5, <3>2
      <4>3. QED
        BY <1>1, <4>1, <4>2 DEF TimelineInv, ShownInv
    <3>3. CASE ~ (item[i].due < since)
      <4>1. since <= item[i].due
        BY <1>3, <3>1, <3>3
      <4>2. QED
        BY <1>7, <1>9, <2>4, <2>5, <4>1
    <3>4. QED
      BY <3>2, <3>3
  <2>6. ASSUME NEW i \in OfKind("notification"), item[i].due <= since, i \notin fresh'
        PROVE  i \in shown'
    <3>1. item[i].due \in Nat
      BY <1>3, KindItems
    <3>2. CASE item[i].due <= looked /\ item[i].due < since
      <4>1. i \in shown' \/ i \notin fresh
        BY <2>4, <2>6, <3>2
      <4>2. QED
        BY <1>1, <3>2, <4>1 DEF TimelineInv, ShownInv
    <3>3. CASE ~ (item[i].due <= looked /\ item[i].due < since)
      <4>1. since - Span <= item[i].due
        BY <1>3, <1>4, <2>6, <3>1, <3>3 DEF TimesInv
      <4>2. i \in shown' \/ i \notin moved
        BY <2>4, <2>6
      <4>3. QED
        BY <1>1, <1>3, <2>6, <4>1, <4>2 DEF TimelineInv, HistoryInv
    <3>4. QED
      BY <3>2, <3>3
  <2>7. ShownInv'
    BY <1>2, <1>6, <2>1, <2>5, <2>6 DEF ShownInv
  <2>8. QED
    BY <1>4, <2>2, <2>3, <2>7 DEF TimelineInv, HistoryInv, KeptInv
<1>10. QED
  BY <1>8, <1>9

LEMMA TimeGoesOn ==
    ASSUME TimelineInv, TimePasses
    PROVE  TimelineInv'
<1>1. TimelineTypeOK'
  BY DEF TimelineInv, TimelineTypeOK, TimePasses
<1>2. now' \in Nat /\ now \in Nat /\ looked \in Nat /\ since \in Nat /\ (from # NotAsked => from \in Nat)
  BY <1>1, TimelineNumbers DEF TimelineInv, TimelineTypeOK
<1>3. /\ UNCHANGED <<item, looked, shown, fresh, since, pageNo, from, count, moved>>
      /\ now < now' /\ now' <= looked + Span
  BY DEF TimePasses
<1>4. TimesInv'
  BY <1>2, <1>3 DEF TimelineInv, TimesInv
<1>5. /\ OfKind("entity")' = OfKind("entity") /\ OfKind("notification")' = OfKind("notification")
      /\ (Looking' <=> Looking) /\ \A i : KeptFacts(i)' <=> KeptFacts(i)
  BY <1>3 DEF OfKind, Looking, KeptFacts, Spot, Before, AheadIn, DueAt, PageOffset
<1>6. ShownInv' /\ HistoryInv' /\ KeptInv'
  BY <1>3, <1>5 DEF TimelineInv, ShownInv, HistoryInv, KeptInv
<1>7. QED
  BY <1>1, <1>4, <1>6 DEF TimelineInv

LEMMA ItemChanges ==
    ASSUME TimelineInv, NEW x \in Item, ChangeItem(x)
    PROVE  TimelineInv'
<1>1. TimelineTypeOK'
  BY DEF TimelineInv, TimelineTypeOK, ChangeItem, AtOrBehind
<1>2. /\ shown' = shown \ {x} /\ fresh' = fresh \union {x}
      /\ moved' = (IF Looking THEN moved \union {x} \union AtOrBehind(x) ELSE moved)
      /\ UNCHANGED <<now, looked, since, pageNo, from, count>>
  BY DEF ChangeItem
<1>3. \A j \in Item \ {x} : item'[j] = item[j]
  BY DEF ChangeItem, TimelineInv, TimelineTypeOK
<1>4. \A k, j : j \in OfKind(k)' /\ j # x => j \in OfKind(k) /\ item'[j] = item[j]
  BY <1>3 DEF OfKind
<1>5. TimesInv' /\ (Looking' <=> Looking)
  BY <1>2 DEF TimelineInv, TimesInv, Looking
<1>6. ShownInv'
  BY <1>2, <1>4 DEF TimelineInv, ShownInv
<1>7. HistoryInv'
  BY <1>2, <1>4, <1>5 DEF TimelineInv, HistoryInv
<1>8. KeptInv'
  <2> SUFFICES ASSUME Looking, NEW i \in OfKind("entity")', i \notin moved',
                      since <= item'[i].due, item'[i].due <= since + Span
               PROVE  KeptFacts(i)'
    BY <1>2, <1>5 DEF KeptInv
  <2>1. /\ i # x /\ i \in OfKind("entity") /\ item'[i] = item[i] /\ i \notin moved
        /\ i \in Item /\ i \notin AtOrBehind(x)
    BY <1>2, <1>4, KindItems
  <2>2. KeptFacts(i)
    BY <2>1 DEF TimelineInv, KeptInv
  <2>3. /\ ~ (item[x].kind = "entity" /\ item[x].due <= item[i].due)
        /\ ~ (item'[x].kind = "entity" /\ item'[x].due <= item[i].due)
    BY <2>1 DEF AtOrBehind
  <2>4. \A y : /\ y \in OfKind("entity")' /\ item'[y].due <= item[i].due
               <=> y \in OfKind("entity") /\ item[y].due <= item[i].due
    <3>1. \A y \in Item \ {x} : /\ y \in OfKind("entity")' <=> y \in OfKind("entity")
                                /\ item'[y] = item[y]
      BY <1>3 DEF OfKind
    <3>2. \A y : (y \in OfKind("entity") => y \in Item) /\ (y \in OfKind("entity")' => y \in Item)
      BY DEF OfKind
    <3>3. /\ ~ (x \in OfKind("entity") /\ item[x].due <= item[i].due)
          /\ ~ (x \in OfKind("entity")' /\ item'[x].due <= item[i].due)
      BY <2>3 DEF OfKind
    <3>4. QED
      BY <3>1, <3>2, <3>3
  <2>5. \A y : y \in OfKind("entity") /\ item[y].due <= item[i].due => item'[y] = item[y]
    <3>1. ~ (x \in OfKind("entity") /\ item[x].due <= item[i].due)
      BY <2>3 DEF OfKind
    <3>2. QED
      BY <1>3, <3>1, KindItems
  <2>6. Before(since, i)' = Before(since, i)
    <3>1. /\ \A y \in Item : item[y].due \in Nat /\ DueAt[y] = item[y].due
          /\ \A y \in Item : item'[y].due \in Nat /\ DueAt'[y] = item'[y].due
      <4>1. \A row \in ItemRows : row.due \in Nat
        BY RowsHaveDates
      <4>2. QED
        BY <1>1, <4>1 DEF TimelineInv, TimelineTypeOK, DueAt
    <3>2. \A y : y \in Before(since, i) <=> y \in OfKind("entity") /\ since <= item[y].due
                                             /\ item[y].due < item[i].due
      BY <2>1, <3>1, KindItems DEF Before, AheadIn
    <3>3. \A y : y \in Before(since, i)' <=> y \in OfKind("entity")' /\ since <= item'[y].due
                                              /\ item'[y].due < item[i].due
      <4>1. OfKind("entity")' \subseteq Item
        BY DEF OfKind
      <4>2. QED
        BY <1>2, <2>1, <3>1, <4>1 DEF Before, AheadIn
    <3>4. \A y : (y \in OfKind("entity") => item[y].due \in Nat)
                 /\ (y \in OfKind("entity")' => item'[y].due \in Nat) /\ item[i].due \in Nat
      BY <2>1, <3>1 DEF OfKind
    <3>5. \A y : y \in Before(since, i)' <=> y \in Before(since, i)
      BY <2>4, <2>5, <3>2, <3>3, <3>4
    <3>6. Before(since, i) \subseteq Item /\ Before(since, i)' \subseteq Item
      BY DEF Before, AheadIn, OfKind
    <3>7. QED
      BY <3>5, <3>6
  <2>7. Spot(since, i)' = Spot(since, i) /\ PageOffset(pageNo, PageSize)' = PageOffset(pageNo, PageSize)
    BY <1>2, <2>6 DEF Spot, PageOffset
  <2>8. i \in shown' \/ PageOffset(pageNo, PageSize)' <= Spot(since, i)'
    BY <1>2, <2>1, <2>2, <2>7 DEF KeptFacts
  <2>9. from' # NotAsked =>
          /\ \A y \in OfKind("entity")' :
               since <= item'[y].due /\ item'[y].due <= item[i].due => from <= item'[y].due
          /\ Spot(since, i)' < count
    BY <1>2, <2>2, <2>4, <2>5, <2>7 DEF KeptFacts
  <2>10. QED
    BY <1>2, <2>1, <2>8, <2>9 DEF KeptFacts
<1>9. QED
  BY <1>1, <1>5, <1>6, <1>7, <1>8 DEF TimelineInv

LEMMA TimelineStep ==
    ASSUME TimelineInv, [TimelineNext]_timelineVars
    PROVE  TimelineInv'
<1>1. CASE TimelineNext
  BY <1>1, AsksPage, SelectsPage, TimeGoesOn, ItemChanges DEF TimelineNext
<1>2. CASE UNCHANGED timelineVars
  <2>1. TimelineTypeOK' /\ TimesInv' /\ ShownInv' /\ HistoryInv'
    BY <1>2 DEF timelineVars, TimelineInv, TimelineTypeOK, TimesInv, ShownInv, HistoryInv, OfKind,
                Looking
  <2>2. /\ OfKind("entity")' = OfKind("entity")
        /\ (Looking' <=> Looking) /\ \A i : KeptFacts(i)' <=> KeptFacts(i)
    BY <1>2 DEF timelineVars, OfKind, Looking, KeptFacts, Spot, Before, AheadIn, DueAt, PageOffset
  <2>3. KeptInv'
    BY <1>2, <2>2 DEF timelineVars, TimelineInv, KeptInv
  <2>4. QED
    BY <2>1, <2>3 DEF TimelineInv
<1>3. QED
  BY <1>1, <1>2

\* Who looks once a week at the "7d" range of the timeline (GetTimelineByRange),
\* page by page, each page with a range and a count of its own, and at the history
\* (ExportNotifications) is shown every item before it is due, and what became of
\* every notification, but for those whose date is newer than that or whose place
\* in the pages moved while they were read.
THEOREM NothingIsMissed == TimelineSpec => []NothingSlipsBy
<1>1. TimelineInv => NothingSlipsBy
  <2> SUFFICES ASSUME TimelineInv PROVE NothingSlipsBy
    OBVIOUS
  <2>1. now \in Nat /\ looked \in Nat /\ Span \in Nat /\ \A i \in Item : item[i].due \in Nat
    BY TimelineNumbers DEF TimelineInv
  <2>2. \A i \in OfKind("entity") : item[i].due <= now => item[i].due <= looked + Span
    BY <2>1, KindItems DEF TimelineInv, TimesInv
  <2>3. QED
    BY <2>2 DEF TimelineInv, ShownInv, NothingSlipsBy
<1>2. TimelineInv /\ [TimelineNext]_timelineVars => TimelineInv'
  BY TimelineStep
<1>3. QED
  BY <1>1, <1>2, TimelineBegins, PTL DEF TimelineSpec

-----------------------------------------------------------------------------
(* The sums of a month                                                     *)

\* The price of each bill, and the sums that SumOf makes of them.
PriceOf      == [i \in Bill |-> bill[i].price]
PricesAdded(f, S) ==
    f = [s \in SUBSET S |-> IF s = {} THEN 0 ELSE bill[First(s)].price + f[s \ {First(s)}]]
PriceAdder(S) == CHOOSE f : PricesAdded(f, S)

LEMMA PriceFacts ==
    ASSUME NEW row \in BillRows
    PROVE  row.price \in Nat /\ row.due \in Nat
<1>1. NoBill.price \in Nat /\ NoBill.due \in Nat
  BY DEF NoBill
<1>2. ASSUME NEW r \in [due : DueDate, category : Category, price : Price]
      PROVE  r.price \in Nat /\ r.due \in Nat
  <2>1. r.price \in Price /\ r.due \in DueDate
    OBVIOUS
  <2>2. QED
    BY <2>1, ReportsAssumption
<1>3. QED
  BY <1>1, <1>2 DEF BillRows

LEMMA SumIsTotal ==
    ASSUME NEW S \in SUBSET Bill
    PROVE  SumOf(S) = TotalOf(PriceOf, S)
<1>1. SumOf(S) = PriceAdder(S)[S]
  BY DEF SumOf, MapThenSumSet, MapThenFoldSet, PriceAdder, PricesAdded, First
<1>2. ASSUME NEW f
      PROVE  PricesAdded(f, S) <=> Adds(f, PriceOf, S)
  <2>1. \A s \in SUBSET S : s # {} => PriceOf[First(s)] = bill[First(s)].price
    BY FirstFacts DEF PriceOf
  <2>2. [s \in SUBSET S |-> IF s = {} THEN 0 ELSE bill[First(s)].price + f[s \ {First(s)}]]
      = [s \in SUBSET S |-> IF s = {} THEN 0 ELSE PriceOf[First(s)] + f[s \ {First(s)}]]
    BY <2>1
  <2>3. QED
    BY <2>2 DEF PricesAdded, Adds
<1>3. IsFiniteSet(S)
  BY ReportsAssumption, FS_Subset
<1>4. Adds(Adder(PriceOf, S), PriceOf, S)
  BY <1>3, AdderExists
<1>5. PricesAdded(PriceAdder(S), S)
  <2>1. \E f : PricesAdded(f, S)
    BY <1>2, <1>4
  <2>2. QED
    BY <2>1 DEF PriceAdder
<1>6. Adds(PriceAdder(S), PriceOf, S)
  BY <1>2, <1>5
<1>7. S \in SUBSET S
  OBVIOUS
<1>8. PriceAdder(S)[S] = Adder(PriceOf, S)[S]
  BY <1>3, <1>4, <1>6, <1>7, AddersAgree
<1>9. QED
  BY <1>1, <1>8, TotalIsAdder

\* The weeks of a month: a day of the month is in one of them, and no other is.
LEMMA WeekFacts ==
    ASSUME NEW a \in Nat, NEW b \in Nat, a < b, b <= a + 62,
           NEW weeks, weeks = BuildWeeks([from |-> a, to |-> b])
    PROVE  /\ IsFiniteSet(weeks)
           /\ \A w \in weeks, t \in Nat : InPeriod(t, w) => a <= t /\ t < b
           /\ \A t \in Nat : a <= t /\ t < b => \E w \in weeks : InPeriod(t, w)
           /\ \A w \in weeks, v \in weeks, t \in Nat : InPeriod(t, w) /\ InPeriod(t, v) => w = v
<1> DEFINE p      == [from |-> a, to |-> b]
           start(k) == a + 14 * k
           week(k)  == [from |-> start(k), to |-> WeekEnd(p, start(k))]
<1>1. \A k \in 0 .. 4 : start(k) \in Nat /\ a + Days(7 * k) = start(k)
  BY DEF Days
<1>2. weeks = {week(k) : k \in {n \in 0 .. 4 : start(n) < b}}
  <2>1. p.from = a /\ p.to = b
    OBVIOUS
  <2>2. \A w : w \in weeks <=> \E k \in 0 .. 4 : w = week(k) /\ start(k) < b
    BY <1>1, <2>1 DEF BuildWeeks
  <2>3. \A w : w \in {week(k) : k \in {n \in 0 .. 4 : start(n) < b}}
                 <=> \E k \in 0 .. 4 : w = week(k) /\ start(k) < b
    OBVIOUS
  <2> HIDE DEF week, start
  <2>4. QED
    BY <2>2, <2>3
<1>3. \A k \in 0 .. 4, t \in Nat :
        InPeriod(t, week(k)) <=> start(k) <= t /\ t < start(k) + 14 /\ t < b
  BY <1>1 DEF InPeriod, WeekEnd, Days
<1>4. IsFiniteSet(weeks)
  <2> DEFINE T == {n \in 0 .. 4 : start(n) < b}
             f == [k \in T |-> week(k)]
  <2>1. IsFiniteSet(T)
    <3>1. T \in SUBSET (0 .. 4)
      OBVIOUS
    <3> HIDE DEF T
    <3>2. 0 \in Int /\ 4 \in Int
      OBVIOUS
    <3>3. IsFiniteSet(0 .. 4)
      BY <3>2, FS_Interval, Zenon
    <3>4. QED
      BY <3>1, <3>3, FS_Subset
  <2>2. f \in Surjection(T, weeks)
    <3> HIDE DEF T, week
    <3>1. weeks = {week(k) : k \in T}
      BY <1>2 DEF T
    <3>2. QED
      BY <3>1 DEF Surjection
  <2> HIDE DEF f, T
  <2>3. QED
    BY <2>1, <2>2, FS_Surjection
<1>5. ASSUME NEW w \in weeks, NEW t \in Nat, InPeriod(t, w)
      PROVE  a <= t /\ t < b
  <2>1. PICK k \in 0 .. 4 : w = week(k)
    BY <1>2
  <2>2. start(k) <= t /\ t < b
    <3> HIDE DEF week, start
    <3>1. QED
      BY <1>3, <1>5, <2>1
  <2>3. QED
    BY <2>2
<1>6. ASSUME NEW t \in Nat, a <= t, t < b
      PROVE  \E w \in weeks : InPeriod(t, w)
  <2>1. \E k \in 0 .. 4 : start(k) <= t /\ t < start(k) + 14
    <3>1. start(0) = a /\ start(1) = a + 14 /\ start(2) = a + 28 /\ start(3) = a + 42
          /\ start(4) = a + 56
      OBVIOUS
    <3>2. 0 \in 0 .. 4 /\ 1 \in 0 .. 4 /\ 2 \in 0 .. 4 /\ 3 \in 0 .. 4 /\ 4 \in 0 .. 4
      OBVIOUS
    <3> HIDE DEF start
    <3>3. \/ start(0) <= t /\ t < start(0) + 14
          \/ start(1) <= t /\ t < start(1) + 14
          \/ start(2) <= t /\ t < start(2) + 14
          \/ start(3) <= t /\ t < start(3) + 14
          \/ start(4) <= t /\ t < start(4) + 14
      BY <1>6, <3>1
    <3>4. QED
      BY <3>2, <3>3
  <2>2. PICK k \in 0 .. 4 : start(k) <= t /\ t < start(k) + 14
    BY <2>1
  <2>3. start(k) < b
    BY <1>6, <2>2
  <2> HIDE DEF week, start
  <2>4. week(k) \in weeks
    BY <1>2, <2>3
  <2>5. QED
    BY <1>3, <1>6, <2>2, <2>4
<1>7. ASSUME NEW w \in weeks, NEW v \in weeks, NEW t \in Nat, InPeriod(t, w), InPeriod(t, v)
      PROVE  w = v
  <2>1. PICK k \in 0 .. 4 : w = week(k)
    BY <1>2
  <2>2. PICK n \in 0 .. 4 : v = week(n)
    BY <1>2
  <2>3. start(k) <= t /\ t < start(k) + 14 /\ start(n) <= t /\ t < start(n) + 14
    <3> HIDE DEF week, start
    <3>1. QED
      BY <1>3, <1>7, <2>1, <2>2
  <2>4. k = n
    BY <2>3
  <2>5. QED
    BY <2>1, <2>2, <2>4
<1>8. QED
  BY <1>4, <1>5, <1>6, <1>7

LEMMA MonthFacts ==
    ASSUME NEW m \in 1 .. Len(MonthStart) - 1
    PROVE  \E a \in Nat, b \in Nat :
             a < b /\ b <= a + 62 /\ ParsePeriod(m) = [from |-> a, to |-> b]
<1>1. Len(MonthStart) \in Nat
  BY ReportsAssumption
<1>2. m + 1 \in 2 .. Len(MonthStart) /\ (m + 1) - 1 = m
  BY <1>1
<1>3. MonthStart[m] \in Nat /\ MonthStart[m + 1] \in Nat
  BY <1>1, <1>2, ReportsAssumption
<1>4. MonthStart[m] < MonthStart[m + 1] /\ MonthStart[m + 1] <= MonthStart[m] + 62
  BY <1>2, ReportsAssumption
<1>5. QED
  BY <1>3, <1>4 DEF ParsePeriod

LEMMA BillFacts ==
    ASSUME ReportsTypeOK
    PROVE  /\ Active \in SUBSET Bill /\ IsFiniteSet(Active)
           /\ \A i \in Bill : bill[i].due \in Nat /\ PriceOf[i] \in Nat
<1>1. Active \in SUBSET Bill
  BY DEF Active
<1>2. \A i \in Bill : bill[i].due \in Nat /\ PriceOf[i] \in Nat
  BY PriceFacts DEF PriceOf, ReportsTypeOK
<1>3. QED
  BY <1>1, <1>2, ReportsAssumption, FS_Subset

LEMMA BillsInFacts ==
    ASSUME ReportsTypeOK, NEW B \in SUBSET Bill, NEW p
    PROVE  BillsIn(B, p) \in SUBSET Bill /\ IsFiniteSet(BillsIn(B, p))
<1>1. BillsIn(B, p) \in SUBSET Bill
  BY DEF BillsIn
<1>2. QED
  BY <1>1, ReportsAssumption, FS_Subset

LEMMA TrendTotal ==
    ASSUME ReportsTypeOK, NEW B \in SUBSET Bill, NEW m \in 1 .. Len(MonthStart) - 1
    PROVE  TotalOf(SpendingTrend(B, m), DOMAIN SpendingTrend(B, m)) = TotalExpenses(B, m)
<1>1. PICK a \in Nat, b \in Nat :
        a < b /\ b <= a + 62 /\ ParsePeriod(m) = [from |-> a, to |-> b]
  BY MonthFacts
<1>2. PICK weeks : weeks = BuildWeeks([from |-> a, to |-> b])
  OBVIOUS
<1>3. /\ IsFiniteSet(weeks)
      /\ \A w \in weeks, t \in Nat : InPeriod(t, w) => a <= t /\ t < b
      /\ \A t \in Nat : a <= t /\ t < b => \E w \in weeks : InPeriod(t, w)
      /\ \A w \in weeks, v \in weeks, t \in Nat : InPeriod(t, w) /\ InPeriod(t, v) => w = v
  BY <1>1, <1>2, WeekFacts
<1> DEFINE of(w) == {i \in BillsIn(B, w) :
                       \A v \in weeks : InPeriod(bill[i].due, v) => w.from <= v.from}
<1>4. SpendingTrend(B, m) = [w \in weeks |-> SumOf(of(w))]
  BY <1>1, <1>2 DEF SpendingTrend
<1>5. PICK S \in SUBSET Bill : S = BillsIn(B, ParsePeriod(m))
  BY BillsInFacts
<1>6. \A i : i \in S <=> i \in B /\ a <= bill[i].due /\ bill[i].due < b
  BY <1>1, <1>5 DEF BillsIn, InPeriod
<1>7. \A i \in B : i \in Bill /\ bill[i].due \in Nat
  BY BillFacts
<1>8. \A w \in weeks : w.from \in Int
  <2>1. \A k \in 0 .. 4 : a + Days(7 * k) \in Int
    BY DEF Days
  <2>2. QED
    BY <1>2, <2>1 DEF BuildWeeks
<1>9. ASSUME NEW w \in weeks
      PROVE  /\ of(w) \in SUBSET S
             /\ \A i \in B : i \in of(w) <=> InPeriod(bill[i].due, w)
  <2>1. \A i \in B : InPeriod(bill[i].due, w) =>
          \A v \in weeks : InPeriod(bill[i].due, v) => w.from <= v.from
    BY <1>3, <1>7, <1>8
  <2>2. \A i : i \in BillsIn(B, w) <=> i \in B /\ InPeriod(bill[i].due, w)
    BY DEF BillsIn
  <2>3. \A i \in B : i \in of(w) <=> InPeriod(bill[i].due, w)
    BY <2>1, <2>2
  <2>4. \A i \in of(w) : i \in B /\ InPeriod(bill[i].due, w)
    BY <2>2
  <2>5. QED
    BY <1>3, <1>6, <1>7, <2>3, <2>4
<1>10. PICK part : part = [w \in weeks |-> of(w)]
  OBVIOUS
<1>11. PICK h : h = [w \in weeks |-> SumOf(of(w))]
  OBVIOUS
<1>12. PICK g : g = PriceOf
  OBVIOUS
<1>13. \A w \in weeks : part[w] \in SUBSET S /\ h[w] = TotalOf(g, part[w])
  <2>1. ASSUME NEW w \in weeks
        PROVE  part[w] \in SUBSET S /\ h[w] = TotalOf(g, part[w])
    <3>1. part[w] = of(w) /\ h[w] = SumOf(of(w)) /\ of(w) \in SUBSET S
      BY <1>9, <1>10, <1>11
    <3> HIDE DEF of
    <3>2. of(w) \in SUBSET Bill
      BY <3>1
    <3>3. SumOf(of(w)) = TotalOf(PriceOf, of(w))
      BY <3>2, SumIsTotal
    <3>4. QED
      BY <1>12, <3>1, <3>3
  <2>2. QED
    BY <2>1
<1>14. \A w \in weeks, v \in weeks : w # v => part[w] \intersect part[v] = {}
  <2>1. ASSUME NEW w \in weeks, NEW v \in weeks, NEW i, i \in part[w], i \in part[v]
        PROVE  w = v
    <3>1. i \in of(w) /\ i \in of(v)
      BY <1>10, <2>1
    <3>2. i \in S
      BY <1>9, <3>1
    <3>3. i \in B /\ bill[i].due \in Nat
      BY <1>6, <1>7, <3>2
    <3>4. InPeriod(bill[i].due, w) /\ InPeriod(bill[i].due, v)
      BY <1>9, <3>1, <3>3
    <3>5. QED
      BY <1>3, <3>3, <3>4
  <2>2. QED
    BY <2>1
<1>15. \A i \in S : \E w \in weeks : i \in part[w]
  <2>1. ASSUME NEW i \in S
        PROVE  \E w \in weeks : i \in part[w]
    <3>1. i \in B /\ bill[i].due \in Nat /\ a <= bill[i].due /\ bill[i].due < b
      BY <1>6, <1>7
    <3>2. PICK w \in weeks : InPeriod(bill[i].due, w)
      BY <1>3, <3>1
    <3>3. i \in of(w)
      BY <1>9, <3>1, <3>2
    <3>4. QED
      BY <1>10, <3>3
  <2>2. QED
    BY <2>1
<1>16. IsFiniteSet(S) /\ \A i \in S : g[i] \in Nat
  BY <1>5, <1>12, BillFacts, ReportsAssumption, FS_Subset
<1>17. TotalOf(h, weeks) = TotalOf(g, S)
  <2>1. Splits(g, h, weeks, part, S)
    BY <1>3, <1>13, <1>14, <1>15, <1>16 DEF Splits
  <2>2. QED
    BY <2>1, TotalOfParts
<1>18. TotalExpenses(B, m) = TotalOf(g, S)
  BY <1>5, <1>12, SumIsTotal DEF TotalExpenses
<1>19. QED
  BY <1>4, <1>11, <1>17, <1>18

LEMMA CategoryTotal ==
    ASSUME ReportsTypeOK, NEW B \in SUBSET Bill, NEW m \in 1 .. Len(MonthStart) - 1
    PROVE  TotalOf(SpendingByCategory(B, m), DOMAIN SpendingByCategory(B, m)) = TotalExpenses(B, m)
<1>1. PICK S \in SUBSET Bill : S = BillsIn(B, ParsePeriod(m))
  BY BillsInFacts
<1> DEFINE shows(i) == DisplayCategory(bill[i].category)
           of(c)    == {i \in S : shows(i) = c}
<1>2. PICK cats : cats = {shows(i) : i \in S}
  OBVIOUS
<1>3. IsFiniteSet(cats)
  <2>1. cats \in SUBSET ({"Household"} \union {"Utilities"} \union {"Others"})
    BY <1>2 DEF DisplayCategory
  <2>2. IsFiniteSet({"Household"} \union {"Utilities"} \union {"Others"})
    BY FS_Singleton, FS_Union
  <2>3. QED
    BY <2>1, <2>2, FS_Subset
<1>4. SpendingByCategory(B, m) = [c \in cats |-> SumOf(of(c))]
  BY <1>1, <1>2 DEF SpendingByCategory
<1>5. PICK part : part = [c \in cats |-> of(c)]
  OBVIOUS
<1>6. PICK h : h = [c \in cats |-> SumOf(of(c))]
  OBVIOUS
<1>7. PICK g : g = PriceOf
  OBVIOUS
<1>8. \A c \in cats : part[c] \in SUBSET S /\ h[c] = TotalOf(g, part[c])
  <2>1. ASSUME NEW c \in cats
        PROVE  part[c] \in SUBSET S /\ h[c] = TotalOf(g, part[c])
    <3>1. part[c] = of(c) /\ h[c] = SumOf(of(c)) /\ of(c) \in SUBSET S
      BY <1>5, <1>6
    <3> HIDE DEF of
    <3>2. of(c) \in SUBSET Bill
      BY <3>1
    <3>3. SumOf(of(c)) = TotalOf(PriceOf, of(c))
      BY <3>2, SumIsTotal
    <3>4. QED
      BY <1>7, <3>1, <3>3
  <2>2. QED
    BY <2>1
<1>9. \A c \in cats, d \in cats : c # d => part[c] \intersect part[d] = {}
  BY <1>5
<1>10. \A i \in S : \E c \in cats : i \in part[c]
  BY <1>2, <1>5
<1>11. IsFiniteSet(S) /\ \A i \in S : g[i] \in Nat
  BY <1>1, <1>7, BillFacts, ReportsAssumption, FS_Subset
<1>12. TotalOf(h, cats) = TotalOf(g, S)
  <2>1. Splits(g, h, cats, part, S)
    BY <1>3, <1>8, <1>9, <1>10, <1>11 DEF Splits
  <2>2. QED
    BY <2>1, TotalOfParts
<1>13. TotalExpenses(B, m) = TotalOf(g, S)
  BY <1>1, <1>7, SumIsTotal DEF TotalExpenses
<1>14. QED
  BY <1>4, <1>6, <1>12, <1>13

-----------------------------------------------------------------------------
(* The reports                                                             *)

ReportInv == ReportsTypeOK

LEMMA ReportsBegin == ReportsInit => ReportInv
BY DEF ReportsInit, ReportsStart, ReportInv, ReportsTypeOK

LEMMA ReportsStep ==
    ASSUME ReportInv, [ReportsNext]_reportVars
    PROVE  ReportInv'
<1>1. ASSUME NEW i \in Bill, ChangeBill(i)
      PROVE  ReportInv'
  BY <1>1, Zenon DEF ReportInv, ReportsTypeOK, ChangeBill
<1>2. ASSUME UNCHANGED reportVars
      PROVE  ReportInv'
  BY <1>2 DEF ReportInv, ReportsTypeOK, reportVars
<1>3. QED
  BY <1>1, <1>2 DEF ReportsNext

LEMMA FetchedFacts ==
    ASSUME ReportsTypeOK, NEW B \in FetchAllActive
    PROVE  /\ B \in SUBSET Active /\ B \in SUBSET Bill
           /\ \/ B = Active
              \/ /\ Cardinality(B) = MaxBills
                 /\ \A b \in B, i \in Active \ B : bill[b].due <= bill[i].due
<1>1. B \in SUBSET Active /\ MayReturn(B, Active, NextBillingAt, PageOffset(1, MaxBills), MaxBills)
  BY DEF FetchAllActive
<1>2. Active \in SUBSET Bill /\ IsFiniteSet(Active)
  BY BillFacts
<1>3. PageOffset(1, MaxBills) = 0
  BY ReportsAssumption DEF PageOffset
<1>4. PICK n : n = Cardinality(Active)
  OBVIOUS
<1>5. n \in Nat
  BY <1>2, <1>4, FS_CardinalityType
<1>6. IsFiniteSet(B)
  BY <1>1, <1>2, FS_Subset
<1>7. MaxBills \in Nat \ {0}
  BY ReportsAssumption
<1>8. CASE n = 0
  <2>1. Active = {}
    BY <1>2, <1>4, <1>8, FS_EmptySet
  <2>2. QED
    BY <1>1, <1>2, <2>1
<1>9. CASE n > 0 /\ n < MaxBills
  <2>1. Cardinality(B) = n
    BY <1>1, <1>3, <1>4, <1>5, <1>7, <1>9 DEF MayReturn
  <2>2. B = Active
    BY <1>1, <1>2, <1>4, <2>1, FS_Subset
  <2>3. QED
    BY <1>1, <1>2, <2>2
<1>10. CASE n >= MaxBills
  <2>1. ~ (n - 0 <= 0) /\ ~ (n - 0 < MaxBills)
    BY <1>5, <1>7, <1>10
  <2>2. /\ Cardinality(B) = MaxBills
        /\ \E H \in SUBSET (Active \ B) :
              Cardinality(H) = 0 /\ Ordered(H, B, Active, NextBillingAt)
    BY <1>1, <1>3, <1>4, <2>1 DEF MayReturn
  <2>3. PICK H \in SUBSET (Active \ B) :
              Cardinality(H) = 0 /\ Ordered(H, B, Active, NextBillingAt)
    BY <2>2
  <2>4. H = {}
    <3>1. IsFiniteSet(H)
      BY <1>2, FS_Subset
    <3>2. QED
      BY <2>3, <3>1, FS_EmptySet
  <2>5. \A b \in B, i \in Active \ B : NextBillingAt[b] <= NextBillingAt[i]
    BY <2>3, <2>4 DEF Ordered
  <2>6. \A b \in B, i \in Active \ B : bill[b].due <= bill[i].due
    BY <1>1, <1>2, <2>5 DEF NextBillingAt
  <2>7. QED
    BY <1>1, <1>2, <2>2, <2>6
<1>11. n = 0 \/ (n > 0 /\ n < MaxBills) \/ n >= MaxBills
  BY <1>5, <1>7
<1>12. QED
  BY <1>8, <1>9, <1>10, <1>11

\* The weekly trend and the categories of a month (GetSpendingTrend,
\* GetSpendingByCategory) add up to the total that its finances and its export
\* show (GetFinancialSummary, ExportFinances), over the same fetched bills.
THEOREM MonthsAddUp == ReportsSpec => []ReportsAgree
<1>1. ReportInv => ReportsAgree
  <2> SUFFICES ASSUME ReportInv, NEW B \in FetchAllActive, NEW m \in 1 .. Len(MonthStart) - 1
               PROVE  /\ MapThenSumSet(LAMBDA w : SpendingTrend(B, m)[w], DOMAIN SpendingTrend(B, m))
                           = TotalExpenses(B, m)
                      /\ MapThenSumSet(LAMBDA c : SpendingByCategory(B, m)[c],
                                       DOMAIN SpendingByCategory(B, m))
                           = TotalExpenses(B, m)
    BY DEF ReportsAgree
  <2>1. B \in SUBSET Bill
    BY FetchedFacts DEF ReportInv
  <2>2. TotalOf(SpendingTrend(B, m), DOMAIN SpendingTrend(B, m)) = TotalExpenses(B, m)
    BY <2>1, TrendTotal DEF ReportInv
  <2>3. TotalOf(SpendingByCategory(B, m), DOMAIN SpendingByCategory(B, m)) = TotalExpenses(B, m)
    BY <2>1, CategoryTotal DEF ReportInv
  <2>4. QED
    BY <2>2, <2>3 DEF TotalOf
<1>2. ReportInv /\ [ReportsNext]_reportVars => ReportInv'
  BY ReportsStep
<1>3. QED
  BY <1>1, <1>2, ReportsBegin, PTL DEF ReportsSpec

\* A month that is left out in part had more than MaxBills bills due before its
\* end: the cap of fetchAllActive never drops a bill for one that is due later.
THEOREM MonthsComplete == ReportsSpec => []MonthComplete
<1>1. ReportInv => MonthComplete
  <2> SUFFICES ASSUME ReportInv, NEW B \in FetchAllActive, NEW m \in 1 .. Len(MonthStart) - 1,
                      Cardinality({i \in Active : bill[i].due < ParsePeriod(m).to}) <= MaxBills
               PROVE  BillsIn(B, ParsePeriod(m)) = BillsIn(Active, ParsePeriod(m))
    BY DEF MonthComplete
  <2>1. PICK a \in Nat, b \in Nat : ParsePeriod(m) = [from |-> a, to |-> b]
    BY MonthFacts
  <2>2. PICK E : E = {i \in Active : bill[i].due < b}
    OBVIOUS
  <2>3. B \in SUBSET Active /\ Active \in SUBSET Bill /\ IsFiniteSet(Active)
        /\ \A i \in Bill : bill[i].due \in Nat
    BY FetchedFacts, BillFacts DEF ReportInv
  <2>4. IsFiniteSet(E) /\ E \in SUBSET Active
    BY <2>2, <2>3, FS_Subset
  <2>5. Cardinality(E) <= MaxBills
    BY <2>1, <2>2
  <2>6. ASSUME NEW x \in Active \ B, bill[x].due < b
        PROVE  FALSE
    <3>1. Cardinality(B) = MaxBills /\ \A i \in B : bill[i].due <= bill[x].due
      BY <2>6, FetchedFacts DEF ReportInv
    <3>2. B \in SUBSET E
      BY <2>2, <2>3, <2>6, <3>1
    <3>3. IsFiniteSet(B)
      BY <2>3, FS_Subset
    <3>4. Cardinality(B) \in Nat /\ Cardinality(E) \in Nat
      BY <2>4, <3>3, FS_CardinalityType
    <3>5. Cardinality(B) <= Cardinality(E)
      BY <2>4, <3>2, FS_Subset
    <3>6. Cardinality(B) = Cardinality(E)
      BY <2>5, <3>1, <3>4, <3>5
    <3>7. B = E
      BY <2>4, <3>2, <3>6, FS_Subset
    <3>8. x \in E
      BY <2>2, <2>6
    <3>9. QED
      BY <2>6, <3>7, <3>8
  <2>7. \A i : i \in BillsIn(Active, ParsePeriod(m)) => i \in B
    BY <2>1, <2>6 DEF BillsIn, InPeriod
  <2>8. QED
    BY <2>3, <2>7 DEF BillsIn
<1>2. ReportInv /\ [ReportsNext]_reportVars => ReportInv'
  BY ReportsStep
<1>3. QED
  BY <1>1, <1>2, ReportsBegin, PTL DEF ReportsSpec

-----------------------------------------------------------------------------
(* The services together                                                   *)

LEMMA FamilyTyping == FamilyInv => FamilyTypeOK
<1> DEFINE asks == UNION {[named -> {"given"} \union Value] : named \in SUBSET Field}
           own  == [target : Member, read : MemberRow \union {NoMember}, set : asks]
           call == {"insert", "update", "delete"}
<1> SUFFICES ASSUME FamilyInv PROVE FamilyTypeOK
  OBVIOUS
<1>1. {ToAdd, ToOverwrite, ToDelete} \subseteq Seq(call)
  BY DEF ToAdd, ToOverwrite, ToDelete
<1>2. {Given} \union Sets \union {<<>>} \subseteq asks
  <2>1. Given \in asks
    BY DEF Given
  <2>2. Sets \subseteq asks
    BY DEF Sets
  <2>3. <<>> \in asks
    <3>1. <<>> \in Seq({"given"} \union Value) /\ Len(<<>>) = 0 /\ 1 .. 0 = {}
      OBVIOUS
    <3>2. <<>> \in [{} -> {"given"} \union Value]
      BY <3>1, LenProperties
    <3>3. QED
      BY <3>2
  <2>4. QED
    BY <2>1, <2>2, <2>3
<1>3. req \in [Request -> RequestOf(FamilyMethod, call, own)]
  <2> HIDE DEF asks, call
  <2>1. MemberReqs \union {NoRequest} \subseteq RequestOf(FamilyMethod, call, own)
    BY <1>1, <1>2 DEF RequestOf, MemberReqs, MemberInserts, MemberUpdates, MemberDeletes, FamilyMethod
  <2>2. QED
    BY <2>1 DEF FamilyInv, MembersTyped
<1>4. QED
  BY <1>3 DEF FamilyInv, MembersTyped, FamilyTypeOK

ServicesInv ==
    /\ service \in {"chat", "family", "goals", "subscriptions", "paging", "reports", "timeline"}
    /\ service = "chat" => ChatInv
    /\ service = "family" => FamilyInv
    /\ service = "goals" => GoalInv
    /\ service = "subscriptions" => SubInv
    /\ service = "paging" => PagingInv
    /\ service = "reports" => ReportInv
    /\ service = "timeline" => TimelineInv

LEMMA ServicesBegin == Init => ServicesInv
<1>1. Init => ChatInv /\ FamilyInv /\ GoalInv /\ SubInv
  BY ChatBegins, FamilyBegins, GoalsBegin, SubscriptionsBegin DEF Init
<1>2. Init /\ service = "paging" => PagingInv
  BY PagingBegins DEF Init
<1>3. Init /\ service = "reports" => ReportInv
  BY ReportsBegin DEF Init
<1>4. Init /\ service = "timeline" => TimelineInv
  BY TimelineBegins DEF Init
<1>5. QED
  BY <1>1, <1>2, <1>3, <1>4 DEF Init, ServicesInv

LEMMA ServicesStep ==
    ASSUME ServicesInv, [Next]_servicesVars
    PROVE  ServicesInv'
<1>1. service' = service
  BY DEF Next, servicesVars
<1>2. ASSUME service = "chat"
      PROVE  ChatInv'
  <2>1. [ChatNext]_<<requestVars, chatVars>>
    BY <1>2 DEF Next, servicesVars
  <2>2. QED
    BY <1>2, <2>1, ChatStep DEF ServicesInv
<1>3. ASSUME service = "family"
      PROVE  FamilyInv'
  <2>1. [FamilyNext]_<<requestVars, familyVars>>
    BY <1>3 DEF Next, servicesVars
  <2>2. QED
    BY <1>3, <2>1, FamilyStep DEF ServicesInv
<1>4. ASSUME service = "goals"
      PROVE  GoalInv'
  <2>1. [GoalsNext]_<<requestVars, goalVars>>
    BY <1>4 DEF Next, servicesVars
  <2>2. QED
    BY <1>4, <2>1, GoalsStep DEF ServicesInv
<1>5. ASSUME service = "subscriptions"
      PROVE  SubInv'
  <2>1. [SubscriptionsNext]_<<requestVars, subVars>>
    BY <1>5 DEF Next, servicesVars
  <2>2. QED
    BY <1>5, <2>1, SubscriptionsStep DEF ServicesInv
<1>6. ASSUME service = "paging"
      PROVE  PagingInv'
  <2>1. [PagingNext]_pagingVars
    BY <1>6 DEF Next, servicesVars
  <2>2. QED
    BY <1>6, <2>1, PagingStep DEF ServicesInv
<1>7. ASSUME service = "reports"
      PROVE  ReportInv'
  <2>1. [ReportsNext]_reportVars
    BY <1>7 DEF Next, servicesVars
  <2>2. QED
    BY <1>7, <2>1, ReportsStep DEF ServicesInv
<1>8. ASSUME service = "timeline"
      PROVE  TimelineInv'
  <2>1. [TimelineNext]_timelineVars
    BY <1>8 DEF Next, servicesVars
  <2>2. QED
    BY <1>8, <2>1, TimelineStep DEF ServicesInv
<1>9. QED
  BY <1>1, <1>2, <1>3, <1>4, <1>5, <1>6, <1>7, <1>8 DEF ServicesInv

\* Whichever service is at work, its tables and its requests keep their types:
\* no count of messages or usage becomes negative, no request has a call to make
\* that its service does not know (the services of internal/application).
THEOREM ServicesTypes == Spec => []TypeOK
<1>1. ServicesInv => TypeOK
  BY ChatTyping, FamilyTyping, GoalsTyping, SubscriptionsTyping
     DEF ServicesInv, PagingInv, ReportInv, TimelineInv, TypeOK
<1>2. ServicesInv /\ [Next]_servicesVars => ServicesInv'
  BY ServicesStep
<1>3. QED
  BY <1>1, <1>2, ServicesBegin, PTL DEF Spec
=============================================================================

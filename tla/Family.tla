------------------------------- MODULE Family -------------------------------
(***************************************************************************)
(* The family service (internal/application/family): the members that a    *)
(* user with the Advanced plan keeps; with another plan checkPlan ends     *)
(* every method before it begins.  A row is reduced to two of the fields   *)
(* that an update may name or leave alone.                                 *)
(***************************************************************************)
EXTENDS Requests

CONSTANTS
    Member,        \* member ids, of which each is given out once
    Value,         \* what an update may set a field to
    MaxMembers     \* 10

ASSUME FamilyAssumption ==
    MaxMembers \in Nat /\ Value \intersect {"absent", "deleted"} = {}

VARIABLES
    member,        \* member[m], the family_members row
    asked,         \* asked[m], what the writes that were made ask it to be
    clobbered,     \* members written by a request that had read another row
    memberCrowd    \* the most creations ever in progress at once

familyVars == <<member, asked, clobbered, memberCrowd>>

Field        == {"name", "role"}
MemberRow    == [Field -> {"given"} \union Value]
NoMember     == [f \in Field |-> "absent"]
Deleted      == [f \in Field |-> "deleted"]
FamilyMethod == {"createMember", "updateMember", "deleteMember"}

FamilyInit ==
    /\ member = [m \in Member |-> NoMember]
    /\ asked = [m \in Member |-> NoMember]
    /\ clobbered = {} /\ memberCrowd = 0

Members  == {m \in Member : member[m] # NoMember}
Creating == Doing({"createMember"})
NewIds   == {m \in Member : asked[m] = NoMember /\ \A q \in Creating : req[q].own.target # m}

\* One row too many.
WrongRoomForMember == Cardinality(Members) <= MaxMembers

RoomForMember == Cardinality(Members) < MaxMembers

BeginOnMember(q, method, call, m, set) ==
    /\ Begin(q, method, <<call>>, [target |-> m, read |-> member[m], set |-> set])
    /\ UNCHANGED <<member, asked, clobbered>>

CreateMember(q) ==
    /\ RoomForMember
    /\ \E m \in NewIds :
        BeginOnMember(q, "createMember", "insert", m, [f \in Field |-> "given"])
    /\ memberCrowd' = IF Cardinality(Creating) + 1 > memberCrowd
                      THEN Cardinality(Creating) + 1 ELSE memberCrowd

UpdateMember(q) ==
    /\ \E m \in Members : \E named \in SUBSET Field \ {{}} : \E set \in [named -> Value] :
        BeginOnMember(q, "updateMember", "update", m, set)
    /\ UNCHANGED memberCrowd

DeleteMember(q) ==
    /\ \E m \in Members : BeginOnMember(q, "deleteMember", "delete", m, <<>>)
    /\ UNCHANGED memberCrowd

\* The fields a request names, over the row it has.
Over(row, set) == [f \in Field |-> IF f \in DOMAIN set THEN set[f] ELSE row[f]]

InsertMember(q) ==
    LET own == req[q].own IN
    /\ Makes(q, "insert")
    /\ member' = [member EXCEPT ![own.target] = own.set]
    /\ asked' = [asked EXCEPT ![own.target] = own.set]
    /\ Continue(q)
    /\ UNCHANGED <<clobbered, memberCrowd>>

\* An insert where there is no row to update.
WrongUpdated(row, new) == new

\* An UPDATE of a row that is gone changes nothing.
Updated(row, new) == IF row = NoMember THEN row ELSE new

\* The whole row is written, as it was read but for what was named.
WriteMember(q) ==
    LET own == req[q].own
        m   == own.target IN
    /\ Makes(q, "update")
    /\ member' = [member EXCEPT ![m] = Updated(@, Over(own.read, own.set))]
    /\ asked' = [asked EXCEPT ![m] = IF @ = Deleted THEN @ ELSE Over(@, own.set)]
    /\ clobbered' = IF member[m] = own.read THEN clobbered ELSE clobbered \union {m}
    /\ Continue(q)
    /\ UNCHANGED memberCrowd

\* A hard delete.
RemoveMember(q) ==
    /\ Makes(q, "delete")
    /\ member' = [member EXCEPT ![req[q].own.target] = NoMember]
    /\ asked' = [asked EXCEPT ![req[q].own.target] = Deleted]
    /\ Continue(q)
    /\ UNCHANGED <<clobbered, memberCrowd>>

FamilyNext ==
    \/ \E q \in Request :
        \/ CreateMember(q) \/ UpdateMember(q) \/ DeleteMember(q)
        \/ InsertMember(q) \/ WriteMember(q) \/ RemoveMember(q)
        \/ CallFails(q, {}) /\ UNCHANGED familyVars
    \/ Crash /\ UNCHANGED familyVars

FamilySpec == RequestsInit /\ FamilyInit /\ [][FamilyNext]_<<requestVars, familyVars>>

-----------------------------------------------------------------------------
(* Properties                                                              *)

FamilyTypeOK ==
    /\ req \in [Request -> RequestOf(FamilyMethod, {"insert", "update", "delete"},
                 [target : Member, read : MemberRow \union {NoMember},
                  set : UNION {[named -> {"given"} \union Value] : named \in SUBSET Field}])]
    /\ member \in [Member -> MemberRow \union {NoMember}]
    /\ asked \in [Member -> MemberRow \union {NoMember, Deleted}]
    /\ clobbered \subseteq Member /\ memberCrowd \in Nat

\* What an update does not name it leaves alone, unless another write came
\* between its read and its write; and a member once deleted never comes back,
\* whatever updates were in progress.
LastWriteStands ==
    \A m \in Member :
        IF asked[m] = Deleted THEN member[m] = NoMember
        ELSE m \notin clobbered => member[m] = asked[m]

MemberLimit == INSTANCE LimitCheck WITH
    Limit <- MaxMembers, counted <- Cardinality(Members),
    admitted <- Cardinality(Creating), crowd <- memberCrowd

\* The limit of members does what a LimitCheck does, although no counter is
\* kept and members may be deleted meanwhile.
MembersLimited == MemberLimit!LimitSpec
=============================================================================

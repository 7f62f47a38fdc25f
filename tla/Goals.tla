-------------------------------- MODULE Goals --------------------------------
(***************************************************************************)
(* The goal service (internal/application/goal): how far a user is with a  *)
(* goal, and whether the goal counts as completed.  UpdateProgress writes  *)
(* the amount and then, when that completes the goal, the whole row it has *)
(* read; UpdateGoal writes the whole row and looks at no amount.  Requests *)
(* are those of the owner, who has a paid plan.                            *)
(***************************************************************************)
EXTENDS Requests

CONSTANTS
    Goal,          \* goal ids, of which each is given out once
    Amount,        \* amounts a user may report
    Target         \* amounts a user may aim at

ASSUME GoalsAssumption == Amount \subseteq Nat /\ Target \subseteq Nat \ {0}

VARIABLES
    goal,          \* goal[g], the goals row
    overtaken,     \* goals written by a request that had read another row
    retargeted,    \* goals with a new target and no progress reported since
    lowered        \* goals for which less than the target was reported

goalVars == <<goal, overtaken, retargeted, lowered>>

GoalRow == [status : {"active", "completed", "archived"}, target : Target, current : {0} \union Amount]
NoGoal  == [status |-> "absent", target |-> 0, current |-> 0]

GoalMethod == {"createGoal", "updateGoal", "updateProgress", "deleteGoal"}
GoalCall   == {"insert", "update", "updateProgress", "softDelete"}

GoalsInit ==
    /\ goal = [g \in Goal |-> NoGoal]
    /\ overtaken = {} /\ retargeted = {} /\ lowered = {}

AboutGoal(g) == \E q \in Doing(GoalMethod) : req[q].own.target = g

\* Goal.Remaining, which the tip about the active goal begins with.
GoalRemaining(row) == IF row.target - row.current < 0 THEN 0 ELSE row.target - row.current

GoalFound(g) == goal[g].status \notin {"absent", "archived"}

BeginOnGoal(q, method, calls, g, copy) ==
    /\ Begin(q, method, calls, [target |-> g, read |-> goal[g], copy |-> copy])
    /\ UNCHANGED goalVars

CreateGoal(q) ==
    \E g \in Goal, target \in Target :
        /\ goal[g].status = "absent" /\ ~AboutGoal(g)
        /\ BeginOnGoal(q, "createGoal", <<"insert">>, g,
                       [status |-> "active", target |-> target, current |-> 0])

UpdateGoal(q) ==
    \E g \in Goal : GoalFound(g) /\ \E target \in Target :
        BeginOnGoal(q, "updateGoal", <<"update">>, g, [goal[g] EXCEPT !.target = target])

\* ">": a goal that is exactly met is not completed.
WrongMeets(row) == row.current > row.target

Meets(row) == row.current >= row.target

\* A completed goal stays completed, and its row is written again.
UpdateProgress(q) ==
    \E g \in Goal : GoalFound(g) /\ \E amount \in Amount :
        LET row  == [goal[g] EXCEPT !.current = amount]
            copy == IF Meets(row) THEN [row EXCEPT !.status = "completed"] ELSE row IN
        BeginOnGoal(q, "updateProgress",
            <<"updateProgress">> \o (IF copy.status = "completed" THEN <<"update">> ELSE <<>>),
            g, copy)

DeleteGoal(q) ==
    \E g \in Goal : GoalFound(g) /\
        BeginOnGoal(q, "deleteGoal", <<"softDelete">>, g, goal[g])

InsertGoal(q) ==
    /\ Makes(q, "insert")
    /\ goal' = [goal EXCEPT ![req[q].own.target] = req[q].own.copy]
    /\ Continue(q)
    /\ UNCHANGED <<overtaken, retargeted, lowered>>

\* The row q has read, as q itself has changed it so far.
Expected(q) == IF req[q].wrote THEN [req[q].own.read EXCEPT !.current = req[q].own.copy.current]
               ELSE req[q].own.read
NoteOvertaken(q) ==
    LET g == req[q].own.target IN
    overtaken' = IF goal[g] = Expected(q) THEN overtaken ELSE overtaken \union {g}

\* The whole row is overwritten, its status and its amount included.
UpdateGoalRow(q) ==
    LET own == req[q].own IN
    /\ Makes(q, "update")
    /\ goal' = [goal EXCEPT ![own.target] = own.copy]
    /\ NoteOvertaken(q)
    /\ retargeted' = IF own.copy.target = own.read.target THEN retargeted
                     ELSE retargeted \union {own.target}
    /\ Continue(q)
    /\ UNCHANGED lowered

\* One column, of whatever row is there by now.
WriteProgress(q) ==
    LET own == req[q].own IN
    /\ Makes(q, "updateProgress")
    /\ goal' = [goal EXCEPT ![own.target].current = own.copy.current]
    /\ NoteOvertaken(q)
    /\ retargeted' = retargeted \ {own.target}
    /\ lowered' = IF own.copy.current < own.copy.target THEN lowered \union {own.target}
                  ELSE lowered \ {own.target}
    /\ Continue(q)

SoftDeleteGoal(q) ==
    /\ Makes(q, "softDelete")
    /\ goal' = [goal EXCEPT ![req[q].own.target].status = "archived"]
    /\ NoteOvertaken(q)
    /\ Continue(q)
    /\ UNCHANGED <<retargeted, lowered>>

GoalsNext ==
    \/ \E q \in Request :
        \/ CreateGoal(q) \/ UpdateGoal(q) \/ UpdateProgress(q) \/ DeleteGoal(q)
        \/ InsertGoal(q) \/ UpdateGoalRow(q) \/ WriteProgress(q) \/ SoftDeleteGoal(q)
        \/ CallFails(q, {}) /\ UNCHANGED goalVars
    \/ Crash /\ UNCHANGED goalVars

GoalsSpec == RequestsInit /\ GoalsInit /\ [][GoalsNext]_<<requestVars, goalVars>>

-----------------------------------------------------------------------------
(* Properties                                                              *)

GoalsTypeOK ==
    /\ req \in [Request -> RequestOf(GoalMethod, GoalCall,
                 [target : Goal, read : GoalRow \union {NoGoal}, copy : GoalRow])]
    /\ goal \in [Goal -> GoalRow \union {NoGoal}]
    /\ overtaken \subseteq Goal /\ retargeted \subseteq Goal /\ lowered \subseteq Goal

\* Nobody is at work on g, nobody was who had not seen the latest row, and its
\* target is the one its last progress was compared with.
GoalSettled(g) ==
    ~AboutGoal(g) /\ g \notin overtaken \union retargeted /\ "update" \notin cut

\* An active goal still has something missing and a completed one has not, so
\* that nobody is told to save on for a goal that is met, unless less than the
\* target was reported of a goal that once was completed.
CompletionHonest ==
    \A g \in Goal : GoalSettled(g) =>
        /\ goal[g].status = "active" => GoalRemaining(goal[g]) > 0
        /\ goal[g].status = "completed" => GoalRemaining(goal[g]) = 0 \/ g \in lowered
=============================================================================

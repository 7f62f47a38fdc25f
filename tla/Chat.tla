-------------------------------- MODULE Chat --------------------------------
(***************************************************************************)
(* The chat service (internal/application/chat): a user's turns, of a      *)
(* question and a reply, and the counter of the month that the quota is    *)
(* compared with.  What is said, and whether the extractor answered or the *)
(* fallback text was stored, makes no difference here.                     *)
(***************************************************************************)
EXTENDS Requests

CONSTANTS
    Quota,         \* what GetOrCreate inserts: 10; its 0 is never seen
    MaxTurns,      \* bound: questions sent in a behaviour
    MaxMonth       \* bound: the last month

ASSUME ChatAssumption ==
    Quota \in Nat \ {0} /\ MaxTurns \in Nat /\ MaxMonth \in Nat

VARIABLES
    messages,      \* rows of chat_messages: <<turn, role>>
    messagesUsed,  \* chat_usage.messages_used by month, NoUsage without a row
    month,         \* the current month
    turns,         \* turns begun so far
    answered,      \* replies stored, by the month the quota was checked in
    torn,          \* turns in progress while the history was deleted
    chatCrowd      \* by month, the most turns ever in progress at once

chatTables == <<messages, messagesUsed, month>>
chatGhosts == <<turns, answered, torn, chatCrowd>>
chatVars   == <<chatTables, chatGhosts>>

Month   == 0 .. MaxMonth
NoUsage == -1

\* Counting before the reply is there.
WrongSendMessageCalls == <<"storeReply", "storeQuestion", "increment">>

SendMessageCalls == <<"storeQuestion", "storeReply", "increment">>
ChatMethod == {"sendMessage", "deleteAll"}
ChatCall   == {"storeQuestion", "storeReply", "increment", "deleteAll"}

ChatInit ==
    /\ messages = {}
    /\ messagesUsed = [m \in Month |-> NoUsage]
    /\ month = 0 /\ turns = 0 /\ torn = {}
    /\ answered = [m \in Month |-> 0]
    /\ chatCrowd = [m \in Month |-> 0]

Sending(m) == {q \in Doing({"sendMessage"}) : req[q].own.month = m}
Used(m) == IF messagesUsed[m] = NoUsage THEN 0 ELSE messagesUsed[m]

\* "<=": one message more than the quota.
WrongWithinQuota(used) == used <= Quota

WithinQuota(used) == used < Quota

\* Leaves a row for the current month.
GetOrCreate == messagesUsed' = [messagesUsed EXCEPT ![month] = Used(month)]

GetUsage ==
    /\ GetOrCreate
    /\ UNCHANGED <<requestVars, messages, month, chatGhosts>>

\* There is a row for the month whether or not there is room.
SendMessage(q) ==
    /\ Idle(q) /\ turns < MaxTurns
    /\ GetOrCreate
    /\ IF WithinQuota(Used(month))
       THEN /\ Begin(q, "sendMessage", SendMessageCalls,
                     [turn |-> turns + 1, month |-> month])
            /\ turns' = turns + 1
            /\ chatCrowd' = [chatCrowd EXCEPT ![month] =
                 IF Cardinality(Sending(month)) + 1 > @
                 THEN Cardinality(Sending(month)) + 1 ELSE @]
       ELSE UNCHANGED <<requestVars, turns, chatCrowd>>
    /\ UNCHANGED <<messages, month, answered, torn>>

StoreQuestion(q) ==
    /\ Makes(q, "storeQuestion")
    /\ messages' = messages \union {<<req[q].own.turn, "user">>}
    /\ Continue(q)
    /\ UNCHANGED <<messagesUsed, month, chatGhosts>>

StoreReply(q) ==
    /\ Makes(q, "storeReply")
    /\ messages' = messages \union {<<req[q].own.turn, "assistant">>}
    /\ answered' = [answered EXCEPT ![req[q].own.month] = @ + 1]
    /\ Continue(q)
    /\ UNCHANGED <<messagesUsed, month, turns, torn, chatCrowd>>

\* The month in which the request is counted.
WrongCountedIn(q) == month

CountedIn(q) == req[q].own.month

IncrementMessages(q) ==
    /\ Makes(q, "increment")
    /\ messagesUsed' =
         [messagesUsed EXCEPT ![CountedIn(q)] = IF @ = NoUsage THEN @ ELSE @ + 1]
    /\ Continue(q)
    /\ UNCHANGED <<messages, month, chatGhosts>>

DeleteAllMessages(q) == Begin(q, "deleteAll", <<"deleteAll">>, <<>>) /\ UNCHANGED chatVars

DeleteAllByUser(q) ==
    /\ Makes(q, "deleteAll")
    /\ messages' = {}
    /\ torn' = torn \union {req[p].own.turn : p \in Doing({"sendMessage"})}
    /\ Continue(q)
    /\ UNCHANGED <<messagesUsed, month, turns, answered, chatCrowd>>

NextMonth ==
    /\ month < MaxMonth /\ month' = month + 1
    /\ UNCHANGED <<requestVars, messages, messagesUsed, chatGhosts>>

ChatNext ==
    \/ \E q \in Request :
        \/ SendMessage(q) \/ StoreQuestion(q) \/ StoreReply(q)
        \/ IncrementMessages(q) \/ DeleteAllMessages(q) \/ DeleteAllByUser(q)
        \/ CallFails(q, {"increment"}) /\ UNCHANGED chatVars
    \/ Crash /\ UNCHANGED chatVars
    \/ GetUsage \/ NextMonth

ChatSpec == RequestsInit /\ ChatInit /\ [][ChatNext]_<<requestVars, chatVars>>

-----------------------------------------------------------------------------
(* Properties                                                              *)

ChatTypeOK ==
    /\ req \in [Request -> RequestOf(ChatMethod, ChatCall,
                 {<<>>} \union [turn : 1 .. MaxTurns, month : Month])]
    /\ messages \subseteq (1 .. MaxTurns) \X {"user", "assistant"}
    /\ messagesUsed \in [Month -> Nat \union {NoUsage}]
    /\ month \in Month /\ turns \in 0 .. MaxTurns /\ torn \subseteq 1 .. MaxTurns
    /\ answered \in [Month -> Nat] /\ chatCrowd \in [Month -> Nat]

\* A reply follows its question, and a question whose request is over has its
\* reply, but for turns that were in progress when the history was deleted and,
\* the second, for requests that were cut short.
TurnsPaired ==
    \A t \in (1 .. turns) \ torn :
        /\ <<t, "assistant">> \in messages => <<t, "user">> \in messages
        /\ <<t, "user">> \in messages /\ "storeReply" \notin cut
           /\ (\A q \in Doing({"sendMessage"}) : req[q].own.turn # t)
           => <<t, "assistant">> \in messages

\* Every reply is counted in the month its quota was checked in, also when the
\* month ends in between, unless its request is about to or the increment, whose
\* error is ignored, was lost.
RepliesCounted ==
    "increment" \notin cut =>
      \A m \in Month :
        answered[m] = Used(m) + Cardinality({q \in Sending(m) : Makes(q, "increment")})

QuotaOf(m) == INSTANCE LimitCheck WITH
    Limit <- Quota, counted <- Used(m),
    admitted <- Cardinality(Sending(m)), crowd <- chatCrowd[m]

\* In every month the quota does what a LimitCheck does.
ChatQuota ==
    /\ \A m \in Month : QuotaOf(m)!LimitInit
    /\ [][\A m \in Month : [QuotaOf(m)!LimitNext]_(QuotaOf(m)!limitVars)]_<<requestVars, chatVars>>
=============================================================================

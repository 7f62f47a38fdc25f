------------------------------ MODULE Services ------------------------------
(***************************************************************************)
(* The services of the API beside reminders and documents.  None of them   *)
(* reads a table that another one of them writes, but for the reports and  *)
(* the timeline, whose rows change in any way: requests to different       *)
(* services neither help nor disturb each other, and a behaviour is one of *)
(* one service.                                                            *)
(***************************************************************************)
EXTENDS Chat, Family, Goals, Subscriptions, Paging, Reports, Timeline

VARIABLE service    \* the service that is at work

servicesVars == <<service, requestVars, chatVars, familyVars, goalVars,
                  subVars, pagingVars, reportVars, timelineVars>>

Init ==
    /\ service \in {"chat", "family", "goals", "subscriptions", "paging", "reports", "timeline"}
    /\ RequestsInit /\ ChatInit /\ FamilyInit /\ GoalsInit /\ SubscriptionsInit
    /\ IF service = "paging" THEN PagingInit
       ELSE PagingStarts([r \in Line |-> NotListed], DefaultPerPage)
    /\ IF service = "reports" THEN ReportsInit
       ELSE ReportsStart([i \in Bill |-> NoBill])
    /\ IF service = "timeline" THEN TimelineInit
       ELSE TimelineStart([i \in Item |-> NoItem], CHOOSE t \in Instant : TRUE)

Next ==
    /\ service' = service
    /\ \/ /\ service = "chat" /\ ChatNext
          /\ UNCHANGED <<familyVars, goalVars, subVars, pagingVars, reportVars, timelineVars>>
       \/ /\ service = "family" /\ FamilyNext
          /\ UNCHANGED <<chatVars, goalVars, subVars, pagingVars, reportVars, timelineVars>>
       \/ /\ service = "goals" /\ GoalsNext
          /\ UNCHANGED <<chatVars, familyVars, subVars, pagingVars, reportVars, timelineVars>>
       \/ /\ service = "subscriptions" /\ SubscriptionsNext
          /\ UNCHANGED <<chatVars, familyVars, goalVars, pagingVars, reportVars, timelineVars>>
       \/ /\ service = "paging" /\ PagingNext
          /\ UNCHANGED <<requestVars, chatVars, familyVars, goalVars, subVars, reportVars,
                         timelineVars>>
       \/ /\ service = "reports" /\ ReportsNext
          /\ UNCHANGED <<requestVars, chatVars, familyVars, goalVars, subVars, pagingVars,
                         timelineVars>>
       \/ /\ service = "timeline" /\ TimelineNext
          /\ UNCHANGED <<requestVars, chatVars, familyVars, goalVars, subVars, pagingVars,
                         reportVars>>

Spec == Init /\ [][Next]_servicesVars

\* Every service keeps its tables, and its requests, within their types.
TypeOK ==
    /\ service = "chat" => ChatTypeOK
    /\ service = "family" => FamilyTypeOK
    /\ service = "goals" => GoalsTypeOK
    /\ service = "subscriptions" => SubscriptionsTypeOK
    /\ service = "paging" => PagingTypeOK
    /\ service = "reports" => ReportsTypeOK
    /\ service = "timeline" => TimelineTypeOK
=============================================================================

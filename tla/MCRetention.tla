----------------------------- MODULE MCRetention -----------------------------
(***************************************************************************)
(* A repository of one host with two sets that have no tags: tags are      *)
(* optional, and nothing compares those of one set with another's.         *)
(***************************************************************************)
EXTENDS Retention

MCSources == {"home", "work"}
OneHost == [s \in MCSources |-> "laptop"]
NoTags == [s \in MCSources |-> {}]
MCCalendar == [k \in Periods |-> [t \in Times |->
    IF k = "daily" THEN t \div 2 ELSE IF k = "weekly" THEN t \div 4 ELSE 0]]
MCPolicies == {[k \in Periods |-> IF k = "daily" THEN d ELSE 0] : d \in {0, 1, 2}}
=============================================================================

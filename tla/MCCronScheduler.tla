-------------------------- MODULE MCCronScheduler --------------------------
(* The cron configurations that TLC checks. *)
EXTENDS CronScheduler

Row(minutes, hours, days) == [minutes |-> minutes, hours |-> hours, days |-> days]

(* A row for every minute, one for some, one without days, and a row that   *)
(* is wrong: out of range, or without minutes.                              *)
CronConfigs ==
  { <<Row(Star, Star, Star), Row({0, 1}, {1}, {2}), Row({1}, Star, Missing)>>,
    <<Row(Star, Star, {0})>>,
    <<Row(Star, Star, Star), Row(Missing, Star, Star)>> }
=============================================================================

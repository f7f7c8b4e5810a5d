---------------------------- MODULE MCScheduler ----------------------------
(* Instances of Scheduler: seconds around the turn of a year that is also the
   turn of a week, 2022-12-31 23:59:57 (a Saturday) and after.                  *)
EXTENDS Scheduler

CONSTANTS p1, p2

MCClock(t) == IF t < 3 THEN <<57 + t, 59, 23, 31, 12, 6>> ELSE <<t - 3, 0, 0, 1, 1, 0>>

AnyMinute == << <<Star>>, <<Star>>, <<Star>>, <<Star>>, <<Star>> >>
Second(field) == <<field>> \o AnyMinute

\* "* * * * * *", "*/2 * * * * *", "*,*/2 * * * * * *", "58,2-1 * * * * *" and
\* "* * * * 5-7"; and three that are refused: "*,* * * * * *", "1-3/4 * * * * *" and
\* "*/0 * * * * *".
MCCrontabs ==
  [every    |-> Second(<<Star>>),
   even     |-> Second(<<Every(Star, 2)>>),
   longer   |-> Second(<<Star, Every(Star, 2)>>) \o << <<Star>> >>,
   some     |-> Second(<<Number(58), Through(2, 1)>>),
   weekend  |-> << <<Star>>, <<Star>>, <<Star>>, <<Star>>, <<Through(5, 7)>> >>,
   twoStars |-> Second(<<Star, Star>>),
   none     |-> Second(<<Every(Through(1, 3), 4)>>),
   zero     |-> Second(<<Every(Star, 0)>>)]

DynamicPlan(crontab, backfill, crontabs, processes, todo) ==
  [kind |-> "dynamic", crontab |-> crontab, backfill |-> backfill, crontabs |-> crontabs,
   processes |-> processes, todo |-> todo]
DecoratorPlan(crontab, mode, todo) ==
  [kind |-> "decorator", crontab |-> crontab, mode |-> mode, processes |-> Process, todo |-> todo]

MCPlans ==
  {DynamicPlan("some", TRUE, {}, Process, {"crash"}),
   DynamicPlan("even", TRUE, {}, {p1}, {"crash", "fail", "trigger"}),
   DynamicPlan("longer", TRUE, {}, {p1}, {"fail", "pause", "resume"}),
   DynamicPlan("every", FALSE, {"some", "twoStars"}, {p1}, {"update", "backfill"}),
   DynamicPlan("weekend", TRUE, {"weekend", "none", "zero"}, Process, {"delete", "create"}),
   DynamicPlan("some", TRUE, {"even"}, {p1}, {"apply", "shutdown"}),
   DecoratorPlan("some", "ExactlyOncePerInterval", {"crash", "fail"}),
   DecoratorPlan("every", "ExactlyOncePerInterval", {"shutdown"}),
   DecoratorPlan("even", "ExactlyOncePerIntervalWhenActive", {"crash"})}
=============================================================================

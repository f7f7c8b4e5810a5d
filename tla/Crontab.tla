------------------------------ MODULE Crontab ------------------------------
(* What a crontab means to the schedulers: convertExpression, validateCrontab
   and TimeMatcher of scheduler/crontab.ts, as operators on parsed fields.

   A field is a sequence of items, one per element of its comma-separated list:
   a star, or a range with bounds in either order (a number is a range of one),
   with the set of the step written after it, if there is one.  A crontab is a
   sequence of such fields.  Names of months and days are text for their numbers and are left
   out, as is the time zone: Clock of the instances gives local time.          *)
EXTENDS Integers, SequencesExt

Star == [star |-> TRUE, from |-> 0, to |-> 0, step |-> {}]
Through(from, to) == [star |-> FALSE, from |-> from, to |-> to, step |-> {}]
Number(n) == Through(n, n)
Every(item, step) == [item EXCEPT !.step = {step}]

\* The ranges that stand for a star, and the values a field may have.
AsteriskRange == << 0 .. 59, 0 .. 59, 0 .. 23, 1 .. 31, 1 .. 12, 0 .. 6 >>
ValidRange == [AsteriskRange EXCEPT ![6] = 0 .. 7]

\* A crontab of five fields runs at second 0.
prependSecondExpression(crontab) ==
  IF Len(crontab) = 5 THEN << <<Number(0)>> >> \o crontab ELSE crontab

\* Only the first star of a field is replaced.
convertAsterisk(field) == {i \in DOMAIN field : field[i].star /\ \A j \in 1 .. i - 1 : ~field[j].star}

\* The bounds of a range may come in either order.
replaceWithRange(item) == Min({item.from, item.to}) .. Max({item.from, item.to})

\* The numbers in a field before steps are applied.
convertRange(field, k) ==
  UNION {IF field[i].star THEN AsteriskRange[k] ELSE replaceWithRange(field[i]) : i \in DOMAIN field}

\* Nothing is a multiple of 0.
Multiple(n, step) == step # 0 /\ n % step = 0

\* A step at the end applies to the whole field and keeps its multiples; one
\* written before a comma is dropped when the number is read.
convertSteps(field, k) ==
  LET step == Last(field).step
      numbers == convertRange(field, k)
  IN  {n \in numbers : \A d \in step : Multiple(n, d)}

convertSundaySevenNot(days) == days

\* Day 7 is Sunday.
convertSundaySeven(days) == {IF d = 7 THEN 0 ELSE d : d \in days}

convertExpression(crontab) ==
  LET fields == prependSecondExpression(crontab)
  IN  [k \in 1 .. 6 |->
         IF k = 6 THEN convertSundaySeven(convertSteps(fields[k], k)) ELSE convertSteps(fields[k], k)]

\* An empty list is no number, nor is a star that is left over, which a step at the
\* end drops with what it does not divide.
isValidExpression(field, k) ==
  /\ \/ Last(field).step # {}
     \/ \A i \in DOMAIN field : field[i].star => i \in convertAsterisk(field)
  /\ convertSteps(field, k) # {}
  /\ convertSteps(field, k) \subseteq ValidRange[k]

\* Fields after the sixth are not looked at.
validateCrontab(crontab) ==
  /\ Len(crontab) >= 5
  /\ \A k \in 1 .. 6 : isValidExpression(prependSecondExpression(crontab)[k], k)

\* TimeMatcher.match on the six fields of a time: all of them must match, the
\* day of the month and the day of the week included.
match(crontab, time) == \A k \in 1 .. 6 : time[k] \in convertExpression(crontab)[k]

-----------------------------------------------------------------------------
(* A reading of a crontab that does not go through lists of numbers *)

\* The field admits the value: some item covers it (for a day of the week, also
\* as 7), and the value is a multiple of the step of the field.
Admits(field, k, value) ==
  \E v \in {value} \cup (IF k = 6 /\ value = 0 THEN {7} ELSE {}) :
    /\ \A d \in Last(field).step : \E n \in 0 .. v : v = n * d
    /\ \E i \in DOMAIN field :
         IF field[i].star THEN v \in AsteriskRange[k]
         ELSE (field[i].from <= v /\ v <= field[i].to) \/ (field[i].to <= v /\ v <= field[i].from)

CronTime(crontab, time) ==
  LET shift == IF Len(crontab) = 5 THEN 1 ELSE 0
  IN  /\ shift = 1 => time[1] = 0
      /\ \A k \in 1 .. 6 - shift : Admits(crontab[k], k + shift, time[k + shift])
=============================================================================

------------------------------- MODULE MCDates -------------------------------
(* An instance of Dates for TLC: the nights around the first of a month, in *)
(* UTC, west of it and east of it.                                         *)
EXTENDS Dates, TLC

CONSTANTS r1, r2, r3

MCIds == {r1, r2, r3}
MCSymmetry == Permutations(MCIds)

\* Months of three, two and three days.
MCFirstDay == [m \in 0 .. 3 |-> <<0, 3, 5, 8>>[m + 1]]

Day(d, hour) == d * 24 + hour

\* The night before a month begins, its first day, the following night.
MCClocks == {Day(2, 23), Day(3, 0), Day(3, 22), Day(4, 1)}
MCDates == 2 .. 4
MCOffsets == {-5, 0, 9}
=============================================================================

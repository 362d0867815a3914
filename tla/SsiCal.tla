-------------------------------- MODULE SsiCal --------------------------------
(***************************************************************************)
(* The choice of an interface delay from the results of a sweep.  A table  *)
(* says for every clock delay and data delay whether the test passed.      *)
(* Every passing point is given, in place, a score from the passing points *)
(* next to it in its row, and the first of the highest scores is chosen.   *)
(***************************************************************************)
EXTENDS Integers, FiniteSets

CONSTANTS
  Rows,            (* clock delays (8)                                     *)
  Columns          (* data delays (8)                                      *)

ASSUME CalAssumption == Rows \in Nat \ {0} /\ Columns \in 1 .. 8

Points == Rows * Columns
Clk    == 0 .. Rows - 1
Data   == 0 .. Columns - 1

VARIABLES
  passes,          (* the sweep's results, as they were                    *)
  results,         (* the table, scored so far                             *)
  visited,         (* points visited: row by row, then Points + 1          *)
  calStatus, ClkIdx, DataIdx                 (* the return, and the choice *)

calVars == <<passes, results, visited, calStatus, ClkIdx, DataIdx>>

CalInit ==
  /\ passes \in [Clk -> SUBSET Data]
  /\ results = [y \in Clk |-> [x \in Data |-> IF x \in passes[y] THEN 1 ELSE 0]]
  /\ visited = 0 /\ calStatus = "none" /\ ClkIdx = 0 /\ DataIdx = 0

-----------------------------------------------------------------------------
(* Mutated definitions, each placed before the one it replaces, are named  *)
(* <definition>_<what is wrong>; nothing uses them.                        *)

Gain_Grows(n) == 128 * (2 ^ n - 1)

(* The sum of 128 >> 0, 128 >> 1, ..., n of them. *)
Gain(n) == IF n = 0 THEN 0 ELSE <<128, 192, 224, 240, 248, 252, 254>>[n]

ToRight_PastGaps(row, x) == Cardinality({z \in Data : x < z /\ row[z] > 0})

(* How many points pass one after the other to the right of x, and to its  *)
(* left.                                                                   *)
ToRight(row, x) ==
  CHOOSE n \in 0 .. Columns - 1 - x :
    /\ \A z \in Data : x < z /\ z <= x + n => row[z] > 0
    /\ x + n + 1 \in Data => row[x + n + 1] = 0

ToLeft(row, x) ==
  CHOOSE n \in 0 .. x :
    /\ \A z \in Data : x - n <= z /\ z < x => row[z] > 0
    /\ x - n - 1 \in Data => row[x - n - 1] = 0

Score(row, x) == row[x] + Gain(ToRight(row, x)) + Gain(ToLeft(row, x))

(* The points are scored row by row, each from a table whose earlier       *)
(* points have their scores already.                                       *)
Visit ==
  LET y == visited \div Columns
      x == visited % Columns
  IN  /\ visited < Points /\ visited' = visited + 1
      /\ results' = [results EXCEPT ![y][x] = IF @ > 0 THEN Score(results[y], x) ELSE @]
      /\ UNCHANGED <<passes, calStatus, ClkIdx, DataIdx>>

(* The table is searched row by row: earlier points win a tie. *)
Before(v, u, y, x) == v < y \/ (v = y /\ u < x)

Choose ==
  /\ visited = Points /\ visited' = Points + 1
  /\ IF \A y \in Clk, x \in Data : results[y][x] = 0
     THEN calStatus' = "SsiSweepErr" /\ UNCHANGED <<ClkIdx, DataIdx>>
     ELSE /\ calStatus' = "Success"
          /\ \E y \in Clk, x \in Data :
               /\ ClkIdx' = y /\ DataIdx' = x
               /\ \A v \in Clk, u \in Data :
                    /\ results[v][u] <= results[y][x]
                    /\ Before(v, u, y, x) => results[v][u] < results[y][x]
  /\ UNCHANGED <<passes, results>>

CalNext == Visit \/ Choose

CalSpec == CalInit /\ [][CalNext]_calVars

-----------------------------------------------------------------------------
(* Types.  A score needs nine bits of the sixteen an entry has. *)
CalTypeOK ==
  /\ passes \in [Clk -> SUBSET Data] /\ results \in [Clk -> [Data -> 0 .. 511]]
  /\ visited \in 0 .. Points + 1 /\ calStatus \in {"none", "Success", "SsiSweepErr"}
  /\ ClkIdx \in Clk /\ DataIdx \in Data

(* Do all the data delays from a to b pass at clock delay y? *)
Run(y, a, b) == a <= b /\ \A x \in a .. b : x \in passes[y]

(* The delay chosen is the middle of the longest run of passing delays of  *)
(* one clock delay, the first such run if there are several.               *)
ChosenWell ==
  \E first, last \in Data :
    /\ Run(ClkIdx, first, last) /\ DataIdx = (first + last) \div 2
    /\ \A y \in Clk, a \in Data, b \in Data :
         Run(y, a, b) =>
           /\ b - a <= last - first
           /\ Before(y, a, ClkIdx, first) => b - a < last - first

(* The sweep is reported as failed only if no point passed; even one that  *)
(* passes alone is found, and the choice is the middle of the longest run  *)
(* (adrv9001.c:1985-2031).                                                 *)
MiddleOfLongest ==
  calStatus # "none" =>
    IF \A y \in Clk : passes[y] = {} THEN calStatus = "SsiSweepErr"
    ELSE calStatus = "Success" /\ ChosenWell
=============================================================================

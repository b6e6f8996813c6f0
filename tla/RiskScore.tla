------------------------------ MODULE RiskScore ------------------------------
(***************************************************************************)
(* The rules that join a target with what the data owner says of its data  *)
(* (app/hndl.py, app/roadmap.py) and with what the scanner measured        *)
(* (app/score.py).                                                         *)
(*                                                                         *)
(* Rounded numbers are kept as integers: a ratio in tenths, a priority in  *)
(* hundredths.                                                             *)
(***************************************************************************)
EXTENDS Posture, Integers

CONSTANT Absent   \* None

Min2(a, b) == IF a <= b THEN a ELSE b

(* round(n / d), which takes a half to the even neighbour. *)
Round(n, d) ==
  LET q == n \div d
      r == n % d
  IN  IF 2 * r > d \/ (2 * r = d /\ q % 2 = 1) THEN q + 1 ELSE q

-----------------------------------------------------------------------------
(* A row of hndl_inputs.csv.  years is Absent unless the cell is all       *)
(* digits; "" is an empty cell, and "XL" any other cost.                   *)
Input == [sensitivity : {"", "NONE", "PII"}, years : Nat \cup {Absent},
          cost : {"", "S", "M", "L", "XL"}]

NoInput == [sensitivity |-> "", years |-> Absent, cost |-> ""]

(* Mutant of LoadInput: an empty sensitivity stays empty. *)
LoadInputAsIs(row) ==
  [sensitivity |-> row.sensitivity, years |-> row.years,
   cost |-> IF row.cost = "" THEN Absent ELSE row.cost]

LoadInput(row) ==
  [sensitivity |-> IF row.sensitivity = "" THEN "UNCLASSIFIED" ELSE row.sensitivity,
   years |-> row.years,
   cost |-> IF row.cost = "" THEN Absent ELSE row.cost]

Stub == [sensitivity : {"UNCLASSIFIED", "NONE", "PII"}, years : Nat \cup {Absent},
         cost : {Absent, "S", "M", "L", "XL"}]

CRQCArrivalYearsMin == 8

(* The current year is on both sides of the comparison of the code. *)
StillConfidential(stub) == stub.years # Absent /\ stub.years >= CRQCArrivalYearsMin

ExposureStatus(t, stub) ==
  IF stub.years = Absent \/ stub.sensitivity = "UNCLASSIFIED" THEN "UNCLASSIFIED"
  ELSE IF t.tier # "tier1" /\ stub.sensitivity \notin {"UNCLASSIFIED", "NONE"}
       THEN IF StillConfidential(stub) THEN "EXPOSED" ELSE "LOW URGENCY"
       ELSE "NOT EXPOSED"

RemediationCostWeight(cost) ==
  CASE cost = "S" -> 1 [] cost = "M" -> 3 [] cost = "L" -> 8 [] OTHER -> Absent

StatusWeight(status) ==
  CASE status = "EXPOSED" -> 3 [] status = "LOW URGENCY" -> 1 [] OTHER -> 0

NeedsInput(t, stub) ==
  ExposureStatus(t, stub) = "UNCLASSIFIED" \/ RemediationCostWeight(stub.cost) = Absent

(* Mutant of Priority: the weight of the cost multiplies. *)
PriorityOfCostly(t, stub) ==
  100 * StatusWeight(ExposureStatus(t, stub)) * RemediationCostWeight(stub.cost)

(* The roadmap is sorted by it, the highest first. *)
Priority(t, stub) ==
  Round(100 * StatusWeight(ExposureStatus(t, stub)), RemediationCostWeight(stub.cost))

-----------------------------------------------------------------------------
(* A record of the scan as the cache keeps it; cert stands for the         *)
(* certificate's key and signature, "" for none.                           *)
Scan == [tls13 : BOOLEAN \cup {Absent}, pqc : BOOLEAN \cup {Absent},
         static_rsa : BOOLEAN \cup {Absent}, cert : {"", "RSA", "EC", "ML-DSA"}]

NoScan == [tls13 |-> Absent, pqc |-> Absent, static_rsa |-> Absent, cert |-> ""]

(* score._yes, applied to what load_vendors() displays. *)
_yes(val) == val = "Yes"

Measured(scanned, shown) == IF scanned # Absent THEN scanned ELSE _yes(shown)

(* The posture load_scored() scores.  weak_cipher is in the row as well,   *)
(* and nothing asks for it.                                                *)
ScoredPosture(t, scan) ==
  [tls13 |-> Measured(scan.tls13, t.tls13),
   pqc |-> Measured(scan.pqc, t.pqc),
   static_rsa |-> Measured(scan.static_rsa, t.static_rsa)]

(* Mutant of F1: hybrid and classical are swapped. *)
F1Swapped(p) == IF ~p.tls13 THEN 40 ELSE IF p.pqc THEN 38 ELSE 5

F1(p) == IF ~p.tls13 THEN 40 ELSE IF p.pqc THEN 5 ELSE 38

F2(cert) == IF cert = "ML-DSA" THEN 3 ELSE IF cert = "EC" THEN 30 ELSE 35

(* Mutant of F3: 8 years are taken for less. *)
F3Late(years) ==
  IF years = Absent \/ years >= 25 THEN 25
  ELSE IF years >= 15 THEN 22
  ELSE IF years > 8 THEN 18
  ELSE 10

F3(years) ==
  IF years = Absent \/ years >= 25 THEN 25
  ELSE IF years >= 15 THEN 22
  ELSE IF years >= 8 THEN 18
  ELSE 10

Penalty(p) == IF p.static_rsa THEN 10 ELSE 0

Total(p, scan, stub) == Min2(100, F1(p) + F2(scan.cert) + F3(stub.years) + Penalty(p))

(* Mutant of Effort: the order of the questions. *)
EffortOfPqcFirst(p) ==
  IF ~p.pqc THEN 2 ELSE IF ~p.tls13 THEN 3 ELSE IF p.static_rsa THEN 1 ELSE 0

(* 0: no action is available. *)
Effort(p) ==
  IF ~p.tls13 THEN 3 ELSE IF ~p.pqc THEN 2 ELSE IF p.static_rsa THEN 1 ELSE 0

(* Mutant of Band: the first bound is off by one, and the gap is moderate. *)
BandWithGap(total) ==
  IF total \in 91..100 THEN "critical" ELSE IF total \in 63..89 THEN "high" ELSE "moderate"

Band(total) ==
  IF total \in 90..100 THEN "critical" ELSE IF total \in 63..89 THEN "high" ELSE "moderate"

(* Mutant of Ratio: without an effort, the whole score. *)
RatioOrScore(total, effort) == IF effort = 0 THEN 10 * total ELSE Round(10 * total, effort)

Ratio(total, effort) == IF effort = 0 THEN 0 ELSE Round(10 * total, effort)

(* A row of the score page. *)
Scored(t, scan, stub) ==
  LET p == ScoredPosture(t, scan)
      total == Total(p, scan, stub)
  IN  [posture |-> p, cert |-> F2(scan.cert), total |-> total, band |-> Band(total),
       effort |-> Effort(p), ratio |-> Ratio(total, Effort(p))]
=============================================================================

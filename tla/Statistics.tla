------------------------------ MODULE Statistics ------------------------------
(***************************************************************************)
(* dashboard/app/analytics.py: the statistics of one metric of one mode.   *)
(* The values are a function from the rows they come from to numbers and   *)
(* Absent, for NULL; no statistic depends on the order of the rows.  The   *)
(* floats of the code are exact here: percentiles and the comparison of    *)
(* medians are kept in hundredths, a mean as the sum it divides.           *)
(***************************************************************************)
EXTENDS FiniteSetsExt

(* sorted(values)[k]: at most k values are below it, more than k are not   *)
(* above it.                                                               *)
Ordered(values, k) ==
  CHOOSE v \in Range(values) :
    /\ Cardinality({x \in DOMAIN values : values[x] < v}) <= k
    /\ Cardinality({x \in DOMAIN values : values[x] <= v}) > k

(* Mutant of Percentile: the weights of the neighbours are swapped. *)
PercentileSwapped(values, p, none) ==
  LET position == (Cardinality(DOMAIN values) - 1) * p
      lower == Ordered(values, position \div 100)
      weight == position % 100
  IN  IF DOMAIN values = {} THEN none
      ELSE IF weight = 0 THEN 100 * lower
      ELSE lower * weight + Ordered(values, position \div 100 + 1) * (100 - weight)

(* The linearly interpolated percentile; none for an empty list. *)
Percentile(values, p, none) ==
  LET position == (Cardinality(DOMAIN values) - 1) * p
      lower == Ordered(values, position \div 100)
      weight == position % 100
  IN  IF DOMAIN values = {} THEN none
      ELSE IF weight = 0 THEN 100 * lower
      ELSE lower * (100 - weight) + Ordered(values, position \div 100 + 1) * weight

Describe(values, none) ==
  LET clean == RestrictValues(values, LAMBDA v : v # none)
  IN  [count |-> Cardinality(DOMAIN clean),
       sum   |-> SumFunction(clean),
       p50   |-> Percentile(clean, 50, none),
       p95   |-> Percentile(clean, 95, none),
       p99   |-> Percentile(clean, 99, none),
       min   |-> IF DOMAIN clean = {} THEN none ELSE Min(Range(clean)),
       max   |-> IF DOMAIN clean = {} THEN none ELSE Max(Range(clean))]

(* Mutant of Compare: a baseline of zero is divided by. *)
CompareWithZero(baseline, p50, none) ==
  IF baseline = none \/ p50 = none THEN [delta |-> none, of |-> none]
  ELSE [delta |-> p50 - baseline, of |-> baseline]

(* The percentage is 100 * delta / of, and missing when of is. *)
Compare(baseline, p50, none) ==
  IF baseline = none \/ p50 = none THEN [delta |-> none, of |-> none]
  ELSE [delta |-> p50 - baseline, of |-> IF baseline = 0 THEN none ELSE baseline]
=============================================================================

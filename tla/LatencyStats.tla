---------------------------- MODULE LatencyStats ----------------------------
(***************************************************************************)
(* percentile and summarize of src/benchmark.cpp.  Latencies are whole     *)
(* units; a statistic is in hundredths of one, in which a percentile       *)
(* between two samples is exact, and the mean rounded, as every number is  *)
(* when the document is formatted.                                         *)
(***************************************************************************)
EXTENDS Integers, FiniteSets, Sequences, Functions

\* How many values are less than v, and how many at most v.
Below(values, v) == Cardinality({k \in DOMAIN values : values[k] < v})
UpTo(values, v) == Cardinality({k \in DOMAIN values : values[k] <= v})

\* The k-th of the values in order has less than k values below it, and with
\* its equals at least k up to it.
Sorted(values) ==
    [k \in DOMAIN values |->
        CHOOSE v \in Range(values) : Below(values, v) < k /\ k <= UpTo(values, v)]

\* Linear interpolation between the samples around position p% of n - 1.
\* (PercentileByCount is the injected fault: p% of n.)
Interpolated(sorted, position) ==
    LET lower == position \div 100
        weight == position % 100
        upper == IF weight = 0 THEN lower ELSE lower + 1
    IN 100 * sorted[lower + 1]
         + weight * (sorted[upper + 1] - sorted[lower + 1])
PercentileByCount(sorted, p) ==
    LET n == Len(sorted)
        last == 100 * (n - 1)
    IN Interpolated(sorted, IF p * n > last THEN last ELSE p * n)
Percentile(sorted, p) == Interpolated(sorted, p * (Len(sorted) - 1))

\* What std::accumulate adds up.
Total(values) ==
    LET sum[k \in 0 .. Len(values)] == IF k = 0 THEN 0 ELSE sum[k - 1] + values[k]
    IN sum[Len(values)]

\* run_benchmark summarizes nonempty samples only.
Summarize(values) ==
    LET s == Sorted(values)
        n == Len(s)
    IN [samples |-> n,
        mean |-> (200 * Total(s) + n) \div (2 * n),
        min |-> 100 * s[1],
        p50 |-> Percentile(s, 50),
        p90 |-> Percentile(s, 90),
        p95 |-> Percentile(s, 95),
        p99 |-> Percentile(s, 99),
        max |-> 100 * s[n]]
=============================================================================

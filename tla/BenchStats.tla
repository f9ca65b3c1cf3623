------------------------------ MODULE BenchStats ------------------------------
(***************************************************************************)
(* The arithmetic of a bench report: the payload header                    *)
(* (src/src/bench/payload.rs), the latency samples and their summary       *)
(* (src/src/bench/stats.rs).  An Option is a set of at most one element.   *)
(* Shares of p percent stand for the floating-point p / 100: the doubles   *)
(* 0.95 and 0.99 lie below their decimals, so rounding the product never   *)
(* lifts an exact rank to the next one.                                    *)
(***************************************************************************)
EXTENDS Integers, FiniteSets, Sequences, SequencesExt, FiniteSetsExt

HEADER_LEN == 16

\* payload::build: a size that cannot hold the header is raised to one that can.
BuildLength(size) == Max({size, HEADER_LEN})

\* payload::decode, as the length sees it: the header's elapsed_ns, if there is one.
Decode(payload) == IF payload.len < HEADER_LEN THEN {} ELSE {payload.stamp}

\* Config::measures_end_to_end.
MeasuresEndToEnd(subscribers, payloadSize) == subscribers > 0 /\ payloadSize >= HEADER_LEN

\* Mutant: the rank is used as an index that starts at 0.
PercentileOneHigher(sorted, p) ==
    LET rank == (p * Len(sorted) + 99) \div 100
    IN  sorted[Min({rank + 1, Len(sorted)})]

\* percentile: the rank is p percent of the samples, rounded up.
Percentile(sorted, p) ==
    LET rank == (p * Len(sorted) + 99) \div 100
    IN  sorted[Max({1, Min({rank, Len(sorted)})})]

\* sort_unstable: the value at i goes behind the smaller ones and, since equal values
\* cannot be told apart, behind its equals at the left of it.
Position(values, i) ==
    Cardinality({j \in DOMAIN values : values[j] < values[i] \/ (values[j] = values[i] /\ j <= i)})
Sorted(values) ==
    [k \in DOMAIN values |-> values[CHOOSE i \in DOMAIN values : Position(values, i) = k]]

\* Samples::summary; None without samples.
Summary(values) ==
    IF values = <<>> THEN {}
    ELSE LET sorted == Sorted(values)
             n == Len(values)
         IN  {[count |-> n, min |-> sorted[1], max |-> sorted[n],
               p50 |-> Percentile(sorted, 50), p95 |-> Percentile(sorted, 95),
               p99 |-> Percentile(sorted, 99),
               mean |-> FoldSeq(+, 0, values) \div n]}

\* write_latency and summary_json: what is printed for a latency.
WriteLatency(summary, disabled) ==
    IF summary # {} THEN "measured"
    ELSE IF disabled THEN "payload too small" ELSE "no samples"
=============================================================================

----------------------------- MODULE Telemetry ------------------------------
(***************************************************************************)
(* What the engine tells about itself, and how long it waits: the backoff  *)
(* of net/policy.cpp, the histograms of core/metrics.cpp, the round trips  *)
(* of net/meter.cpp and the lines of core/log.cpp.                         *)
(***************************************************************************)
EXTENDS Integers, Sequences, SequencesExt, FiniteSetsExt

CONSTANTS
    NumBuckets,   \* kBuckets (64)
    MaxSamples    \* kMaxRttSamples (1024)

-----------------------------------------------------------------------------
(* RetryPolicy: a budget is [base, max, retries, jitter], jitter in tenths.   *)

Doubled(d, b) == IF d < b.max THEN Min({2 * d, b.max}) ELSE d

\* The wait before jitter: one doubling for each attempt after the first.
Backoff(b, attempt) == Min({b.max, FoldLeft(LAMBDA d, i : Doubled(d, b), b.base, [i \in 1..(attempt - 1) |-> i])})

\* jitter_ms: what the generator may make of it.
jitter_ms(b, d) == LET j == (d * b.jitter) \div 10 IN (d - j)..(d + j)

next_delay_ms(b, attempt) == jitter_ms(b, Backoff(b, attempt))

-----------------------------------------------------------------------------
(* Metrics: a histogram is a function from buckets to counts; samples are in   *)
(* microseconds.                                                               *)

upper_edge(i) == 2 ^ i

\* The bucket below: the logarithm rounded down.
bucket_for_Floor(us) ==
    IF us <= 1 THEN 0
    ELSE Max({i \in 0..(NumBuckets - 1) : upper_edge(i) <= us})

bucket_for(us) ==
    IF us <= 1 THEN 0
    ELSE Min({NumBuckets - 1} \cup {i \in 0..(NumBuckets - 1) : us <= upper_edge(i)})

Observed(h, us) == [h EXCEPT ![bucket_for(us)] = @ + 1]

observe(samples) == FoldLeft(Observed, [i \in 0..(NumBuckets - 1) |-> 0], samples)

CountUpTo(h, i) == FoldLeft(LAMBDA n, k : n + h[k - 1], 0, [k \in 1..(i + 1) |-> k])

Target(n, pct) == Max({1, (n * pct) \div 100})

percentile(h, n, pct) ==
    upper_edge(Min({NumBuckets - 1} \cup {i \in 0..(NumBuckets - 1) : CountUpTo(h, i) >= Target(n, pct)}))

-----------------------------------------------------------------------------
(* Meter *)

\* The oldest sample goes when the window is full.
record_rtt(rtts, ms) == Append(IF Len(rtts) >= MaxSamples THEN Tail(rtts) ELSE rtts, ms)

\* The value at index floor(p * n) of the sorted samples, at most the last.
RttIndex(n, pct) == Min({n - 1, (pct * n) \div 100})
RttPercentile(rtts, pct) ==
    IF rtts = << >> THEN 0 ELSE SortSeq(rtts, <)[RttIndex(Len(rtts), pct) + 1]

-----------------------------------------------------------------------------
(* Logger: texts are sequences of letters; "q" is a quote, "s" a blank, "t" a  *)
(* tab or a newline, "bs" a backslash.                                         *)

Escapes == {"q", "t", "bs"}
Quoted(v) == \E i \in 1..Len(v) : v[i] \in {"s", "q", "t"}

Put(out, cap, c) == IF Len(out) < cap THEN Append(out, c) ELSE out

\* A pair goes in whole or not at all.
PutPair(out, cap, c) == IF Len(out) + 1 < cap THEN out \o <<"bs", c>> ELSE out

append_escaped(cap, v) ==
    LET open == IF Quoted(v) THEN Put(<< >>, cap, "q") ELSE << >>
        body == FoldLeft(LAMBDA out, c : IF c \in Escapes THEN PutPair(out, cap, c) ELSE Put(out, cap, c), open, v)
    IN  IF Quoted(v) THEN Put(body, cap, "q") ELSE body

\* The key, or "msg", and the sign leave the last byte free.
KeyOf(cap, k) == FoldLeft(LAMBDA out, c : Put(out, cap - 1, c), << >>, k)

write_kv(cap, k, v) ==
    IF cap = 0 THEN << >> ELSE LET key == KeyOf(cap, k) IN key \o append_escaped(cap - Len(key), v)

\* log: the message, then the pairs, each in what is left of the buffer.
log(cap, pairs) == FoldLeft(LAMBDA line, p : line \o write_kv(cap - Len(line), p.k, p.v), << >>, pairs)
=============================================================================

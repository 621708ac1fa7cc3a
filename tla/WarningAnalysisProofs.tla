------------------------- MODULE WarningAnalysisProofs -------------------------
(***************************************************************************)
(* Proofs about EvidenceCollection and WarningAnalysis, for any worlds,    *)
(* losses, limits, alerts, artifacts and sigmoid.                          *)
(*                                                                         *)
(* CollectedInv relates what has been collected to the world, call by      *)
(* call: before a call its place in the bundle is empty, behind it it has  *)
(* the answer of the world, or is empty if the call failed.  DecidedInv    *)
(* adds that a decision is the one of the bundle that is still there.      *)
(***************************************************************************)
EXTENDS WarningAnalysis, FiniteSetTheorems, WellFoundedInduction, TLAPS

(* The steps of a bundle up to a call. *)
UpTo(call) ==
  IF kind = "signoz_first"
  THEN CASE call = "traces"     -> {"traces"}
         [] call = "operations" -> {"traces", "operations"}
         [] call = "logs"       -> {"traces", "operations", "logs"}
         [] call = "trace_logs" -> {"traces", "operations", "logs", "details", "trace_logs"}
         [] call = "metrics"    -> Steps \ {"idle", "build", "built"}
  ELSE CASE call = "traces"     -> {"metrics", "logs", "traces"}
         [] call = "operations" -> {"metrics", "logs", "traces", "operations"}
         [] call = "logs"       -> {"metrics", "logs"}
         [] call = "trace_logs" -> {}
         [] call = "metrics"    -> {"metrics"}

Behind(call) == step \notin UpTo(call) \cup {"idle"}

(* What a call brings in, and what it leaves when it fails. *)
Returned(call, value, answer) ==
  /\ step \in UpTo(call) => value = <<>> /\ call \notin failed
  /\ Behind(call) => value = IF call \in failed THEN <<>> ELSE answer

MetricsInv ==
  /\ got.metrics \in [Queries -> OrNone(Nat)]
  /\ step \in UpTo("metrics") =>
       failed \cap Queries = {} /\ \A q \in Queries : got.metrics[q] = None
  /\ Behind("metrics") =>
       \/ /\ kind = "signoz_first" /\ failed \cap Queries = {}
          /\ \A q \in Queries : got.metrics[q] = None
       \/ \A q \in Queries : got.metrics[q] = IF q \in failed THEN None ELSE world.metrics[q]

(* The logs of a trace are those of one that was asked for, and those      *)
(* asked before it have none.                                              *)
TraceLogsInv ==
  /\ kind = "live" \/ step \in UpTo("trace_logs") \ {"trace_logs"} => got.trace_logs = <<>>
  /\ got.trace_logs # <<>> /\ step # "idle" =>
       /\ got.logs = <<>>
       /\ \E n \in 1..Len(AskedTraces) :
            /\ got.logs_of = AskedTraces[n]
            /\ got.trace_logs = AtMost(world.trace_logs[AskedTraces[n]], LogsLimit)
  /\ kind = "signoz_first" /\ (step = "trace_logs" \/ Behind("trace_logs")) /\ Logs(got) = <<>> =>
       \A n \in 1..Len(AskedTraces) :
         n < place \/ step # "trace_logs" =>
           world.trace_logs[AskedTraces[n]] = <<>> \/ "trace_logs" \in failed

CollectedInv ==
  /\ CollectionTypeOK
  /\ kind = "live" => step \notin {"details", "trace_logs"}
  /\ session = "lost" \/ failed # {} => faulted
  /\ Returned("traces", got.traces, AtMost(world.traces, TracesLimit))
  /\ Returned("operations", got.operations, world.operations)
  /\ Returned("logs", got.logs, AtMost(world.logs, LogsLimit))
  /\ MetricsInv
  /\ TraceLogsInv

DecidedInv ==
  /\ alert \in OrNone(Alerts) /\ hits \in OrNone(Hits)
  /\ decision # None =>
       /\ step = "built" /\ alert \in Alerts /\ hits \in Hits
       /\ \E family \in {"hybrid", "fast_scorer"} :
            decision = ScorePacket(family, kind, got, alert, hits)
  /\ plan # None => decision # None /\ plan = PlanInvestigation(decision, alert)

AnalysisInv == CollectedInv /\ DecidedInv

-----------------------------------------------------------------------------
(* Numbers, and places in sequences *)

LEMMA LeastNatural ==
  ASSUME NEW S \in SUBSET Nat, S # {}
  PROVE  \E n \in S : \A m \in S : n <= m
<1> DEFINE Order == {p \in Nat \X Nat : p[1] < p[2]}
<1>1. IsWellFoundedOn(Order, Nat)
  BY NatLessThanWellFounded, Zenon DEF OpToRel
<1>2. \A m, n \in Nat : <<m, n>> \in Order <=> m < n
  OBVIOUS
<1> HIDE DEF Order
<1>3. \E n \in S : \A m \in S : ~(<<m, n>> \in Order)
  BY <1>1, WFMin
<1>4. \A m, n \in S : ~(m < n) => n <= m
  OBVIOUS
<1> QED
  BY <1>2, <1>3, <1>4

LEMMA LargestNatural ==
  ASSUME NEW N \in Nat, NEW S, S \subseteq 0..N, S # {}
  PROVE  \E n \in S : \A m \in S : m <= n
<1> DEFINE Below == {k \in 0..N : N - k \in S}
<1>1. PICK s \in S : TRUE
  OBVIOUS
<1>2. N - s \in 0..N /\ N - (N - s) = s
  BY <1>1
<1>3. Below # {} /\ Below \in SUBSET Nat
  BY <1>1, <1>2
<1>4. \A k \in Below : k \in 0..N /\ N - k \in S
  OBVIOUS
<1>5. \A m \in S : m \in 0..N /\ N - m \in Below
  OBVIOUS
<1> HIDE DEF Below
<1>6. PICK k \in Below : \A l \in Below : k <= l
  BY <1>3, LeastNatural
<1>7. \A m \in S : m <= N - k
  BY <1>4, <1>5, <1>6
<1> QED
  BY <1>4, <1>6, <1>7

(* Of the places in a set there is a k-th for every k up to their number.  *)
LEMMA NthPlace ==
  ASSUME NEW N \in Nat, NEW F, F \subseteq 1..N, NEW k \in 1..Cardinality(F)
  PROVE  \E n \in F : Rank(n, F) = k
<1> DEFINE Up(n)  == {m \in F : m <= n}
           Far    == {n \in F : Cardinality(Up(n)) >= k}
<1>1. \A n \in F : n \in 1..N
  OBVIOUS
<1>2. IsFiniteSet(1..N)
  BY FS_Interval
<1>3. IsFiniteSet(F) /\ Cardinality(F) \in Nat
  BY <1>2, FS_Subset, FS_CardinalityType
<1>4. \A n \in F : IsFiniteSet(Up(n)) /\ Cardinality(Up(n)) \in Nat
  BY <1>3, FS_Subset, FS_CardinalityType
<1>5. F # {} /\ F \subseteq 0..N
  BY <1>3, FS_EmptySet
<1>6. PICK top \in F : \A m \in F : m <= top
  BY <1>5, LargestNatural
<1>7. Up(top) = F
  BY <1>6
<1>8. top \in Far
  BY <1>3, <1>6, <1>7
<1>9. Far \in SUBSET Nat /\ Far # {}
  <2>1. \A m \in Far : m \in F
    OBVIOUS
  <2> HIDE DEF Far
  <2> QED
    BY <1>1, <1>8, <2>1
<1>10. PICK n \in Far : \A m \in Far : n <= m
  BY <1>9, LeastNatural
<1>11. n \in F /\ Cardinality(Up(n)) >= k
  BY <1>10
<1> DEFINE D == {m \in F : m < n}
<1>12. IsFiniteSet(D) /\ Cardinality(D) \in Nat /\ n \notin D
  BY <1>3, <1>1, <1>11, FS_Subset, FS_CardinalityType
<1>13. Up(n) = D \cup {n}
  <2>1. ASSUME NEW m \in F PROVE m <= n <=> m < n \/ m = n
    BY <1>1, <1>11
  <2> QED
    BY <1>11, <2>1
<1>14. Cardinality(Up(n)) = Cardinality(D) + 1
  BY <1>12, <1>13, FS_AddElement
<1>15. Cardinality(D) < k
  <2>1. CASE D = {}
    BY <2>1, FS_EmptySet
  <2>2. CASE D # {}
    <3>1. D \subseteq 0..N
      BY <1>5
    <3>2. PICK p \in D : \A m \in D : m <= p
      BY <2>2, <3>1, LargestNatural
    <3>3. p \in F /\ p < n
      BY <3>2
    <3>4. p \notin Far
      BY <1>1, <1>10, <1>11, <3>3
    <3>5. D = Up(p)
      <4>1. ASSUME NEW m \in F PROVE m < n <=> m <= p
        BY <1>1, <1>11, <3>2, <3>3
      <4> QED
        BY <4>1
    <3> QED
      BY <1>4, <3>3, <3>4, <3>5
  <2> QED
    BY <2>1, <2>2
<1>16. Cardinality(Up(n)) = k
  BY <1>11, <1>12, <1>14, <1>15
<1> QED
  BY <1>11, <1>16 DEF Rank

(* The first n of a sequence.                                              *)
LEMMA AtMostFacts ==
  ASSUME NEW T, NEW s \in Seq(T), NEW n \in Nat \ {0}
  PROVE  /\ AtMost(s, n) \in Seq(T)
         /\ Len(AtMost(s, n)) <= n
         /\ AtMost(s, n) = <<>> <=> s = <<>>
         /\ \A k \in 1..Len(AtMost(s, n)) : AtMost(s, n)[k] = s[k]
<1> DEFINE l == IF Len(s) < n THEN Len(s) ELSE n
<1>1. l \in 0..Len(s) /\ l <= n /\ (l = 0 <=> Len(s) = 0) /\ Len(s) \in Nat
  OBVIOUS
<1>2. AtMost(s, n) = SubSeq(s, 1, l)
  BY DEF AtMost
<1> HIDE DEF l
<1>3. SubSeq(s, 1, l) \in Seq(T) /\ Len(SubSeq(s, 1, l)) = l
  BY <1>1
<1>4. \A k \in 1..l : SubSeq(s, 1, l)[k] = s[k]
  BY <1>1
<1>5. s = <<>> <=> Len(s) = 0
  OBVIOUS
<1>6. \A r \in Seq(T) : r = <<>> <=> Len(r) = 0
  OBVIOUS
<1> QED
  BY <1>1, <1>2, <1>3, <1>4, <1>5, <1>6

LEMMA WorldFacts ==
  ASSUME NEW w \in Worlds
  PROVE  /\ w.traces \in Seq(TraceRow) /\ w.operations \in Seq(OperationRow)
         /\ w.logs \in Seq(LogRow)
         /\ w.trace_logs \in [Traces -> Seq(LogRow)]
         /\ w.metrics \in [Queries -> OrNone(Nat)]
BY WorldsAssumption DEF World

(* The sampled traces are traces.                                          *)
LEMMA SampleFacts ==
  ASSUME NEW rows \in Seq(TraceRow)
  PROVE  SampleTraceIds(rows) \in Seq(Traces)
<1> DEFINE first == {n \in 1..Len(rows) : /\ rows[n].id # None
                                          /\ \A m \in 1..(n - 1) : rows[m].id # rows[n].id}
           size  == Cardinality(first)
<1>1. SampleTraceIds(rows) = [k \in 1..size |-> rows[Nth(k, first)].id]
  BY DEF SampleTraceIds
<1>2. Len(rows) \in Nat /\ \A n \in 1..Len(rows) : rows[n] \in TraceRow
  OBVIOUS
<1>3. \A n \in first : rows[n].id \in Traces
  BY <1>2 DEF TraceRow, OrNone
<1>4. first \subseteq 1..Len(rows)
  OBVIOUS
<1> HIDE DEF first
<1>5. size \in Nat
  <2>1. IsFiniteSet(1..Len(rows))
    BY <1>2, FS_Interval
  <2> QED
    BY <1>4, <2>1, FS_Subset, FS_CardinalityType
<1>6. \A k \in 1..size : Nth(k, first) \in first
  BY <1>2, <1>4, NthPlace DEF Nth
<1> HIDE DEF size
<1>7. \A k \in 1..size : rows[Nth(k, first)].id \in Traces
  BY <1>3, <1>6
<1> QED
  BY <1>1, <1>5, <1>7

(* RatioSums is what its definition says.  There is a function of sums for *)
(* every number of rows: else there were a least number without one.       *)
LEMMA RatioSumsDef ==
  ASSUME NEW rows \in Seq(TraceRow)
  PROVE  RatioSums(rows) = [n \in 0..Len(rows) |->
                              IF n = 0 THEN 0
                              ELSE RatioSums(rows)[n - 1] + OrZero(rows[n].error_ratio)]
<1> DEFINE v(n)     == OrZero(rows[n].error_ratio)
           Sums(f, l) == f = [n \in 0..l |-> IF n = 0 THEN 0 ELSE f[n - 1] + v(n)]
           Without  == {l \in Nat : ~\E f : Sums(f, l)}
<1>1. Without = {}
  <2> SUFFICES ASSUME Without # {} PROVE FALSE
    OBVIOUS
  <2>1. PICK l \in Without : \A k \in Without : l <= k
    BY LeastNatural
  <2>2. Sums([n \in 0..0 |-> 0], 0)
    OBVIOUS
  <2>3. l # 0 /\ l \in Nat
    BY <2>1, <2>2
  <2>4. l - 1 \in Nat /\ l - 1 \notin Without
    <3>1. l - 1 \in Nat /\ ~(l <= l - 1)
      BY <2>3
    <3> HIDE DEF Without
    <3> QED
      BY <2>1, <3>1
  <2>5. PICK f : Sums(f, l - 1)
    BY <2>4
  <2> DEFINE g == [n \in 0..l |-> IF n = l THEN f[l - 1] + v(l) ELSE f[n]]
  <2>6. \A n \in 0..l : n # l => n \in 0..(l - 1)
    BY <2>3
  <2>7. \A n \in 0..(l - 1) : f[n] = IF n = 0 THEN 0 ELSE f[n - 1] + v(n)
    BY <2>5
  <2>8. ASSUME NEW n \in 0..l PROVE g[n] = IF n = 0 THEN 0 ELSE g[n - 1] + v(n)
    <3>1. CASE n = 0
      BY <2>3, <2>6, <2>7, <3>1
    <3>2. CASE n # 0
      <4>1. n - 1 \in 0..l /\ n - 1 # l
        BY <2>3, <3>2
      <4>2. g[n - 1] = f[n - 1]
        BY <4>1
      <4> QED
        BY <2>6, <2>7, <3>2, <4>2
    <3> QED
      BY <3>1, <3>2
  <2>9. Sums(g, l)
    BY <2>8
  <2> QED
    BY <2>1, <2>9
<1>2. Len(rows) \in Nat
  OBVIOUS
<1>3. PICK f : Sums(f, Len(rows))
  BY <1>1, <1>2
<1> QED
  BY <1>3 DEF RatioSums

(* The mean of the ratios is a ratio.                                      *)
LEMMA MeanRatioFacts ==
  ASSUME NEW rows \in Seq(TraceRow), Rated(rows) # {}
  PROVE  MeanRatio(rows) \in 0..100
<1> DEFINE N    == Len(rows)
           R    == Rated(rows)
           S    == RatioSums(rows)
           v(n) == OrZero(rows[n].error_ratio)
           Over == {n \in 0..N : ~(S[n] \in Int /\ 0 <= S[n] /\ S[n] <= 100 * Rank(n, R))}
<1>1. N \in Nat /\ \A n \in 1..N : rows[n] \in TraceRow
  OBVIOUS
<1>2. \A n \in 1..N : v(n) \in 0..100 /\ (n \notin R => v(n) = 0)
  BY <1>1 DEF TraceRow, OrNone, OrZero, Rated
<1>3. R \subseteq 1..N
  BY DEF Rated
<1>4. IsFiniteSet(R) /\ Cardinality(R) \in Nat
  <2>1. IsFiniteSet(1..N)
    BY <1>1, FS_Interval
  <2> QED
    BY <1>3, <2>1, FS_Subset, FS_CardinalityType
<1>5. S = [n \in 0..N |-> IF n = 0 THEN 0 ELSE S[n - 1] + v(n)]
  BY RatioSumsDef
<1>6. S[0] = 0 /\ \A n \in 1..N : S[n] = S[n - 1] + v(n)
  BY <1>1, <1>5
<1> HIDE DEF N, R, S, v
<1>7. \A n \in Int : Rank(n, R) \in Nat
  BY <1>4, FS_Subset, FS_CardinalityType DEF Rank
<1>8. ASSUME NEW n \in 1..N
      PROVE  IF n \in R THEN Rank(n, R) = Rank(n - 1, R) + 1 ELSE Rank(n, R) = Rank(n - 1, R)
  <2> DEFINE D == {m \in R : m <= n - 1}
  <2>1. IsFiniteSet(D) /\ Cardinality(D) \in Nat /\ n \notin D
    BY <1>1, <1>4, FS_Subset, FS_CardinalityType
  <2>2. \A m \in R : m <= n <=> m <= n - 1 \/ m = n
    BY <1>1, <1>3
  <2>3. CASE n \in R
    <3>1. {m \in R : m <= n} = D \cup {n}
      BY <2>2, <2>3
    <3> QED
      BY <2>1, <2>3, <3>1, FS_AddElement DEF Rank
  <2>4. CASE n \notin R
    <3>1. {m \in R : m <= n} = D
      BY <2>2, <2>4
    <3> QED
      BY <2>4, <3>1 DEF Rank
  <2> QED
    BY <2>3, <2>4
<1>9. Over = {}
  <2> SUFFICES ASSUME Over # {} PROVE FALSE
    OBVIOUS
  <2>1. Over \in SUBSET Nat
    BY <1>1
  <2>2. PICK n \in Over : \A m \in Over : n <= m
    BY <2>1, LeastNatural
  <2>3. n # 0
    <3>1. 0 <= 100 * Rank(0, R)
      BY <1>7
    <3> QED
      BY <1>6, <2>2, <3>1
  <2>4. n \in 1..N /\ n - 1 \in 0..N /\ ~(n <= n - 1)
    BY <1>1, <2>2, <2>3
  <2>5. n - 1 \notin Over
    <3> HIDE DEF Over
    <3> QED
      BY <2>2, <2>4
  <2>6. S[n - 1] \in Int /\ 0 <= S[n - 1] /\ S[n - 1] <= 100 * Rank(n - 1, R)
    BY <2>4, <2>5
  <2>7. Rank(n - 1, R) \in Nat /\ Rank(n, R) \in Nat
    <3>1. n - 1 \in Int /\ n \in Int
      BY <1>1, <2>4
    <3> QED
      BY <1>7, <3>1
  <2>8. S[n] \in Int /\ 0 <= S[n] /\ S[n] <= 100 * Rank(n, R)
    <3>1. PICK w \in 0..100 : S[n] = S[n - 1] + w /\ (n \notin R => w = 0)
      BY <1>2, <1>6, <2>4
    <3>2. IF n \in R THEN Rank(n, R) = Rank(n - 1, R) + 1 ELSE Rank(n, R) = Rank(n - 1, R)
      BY <1>8, <2>4
    <3>3. Rank(n, R) = Rank(n - 1, R) + 1 \/ (w = 0 /\ Rank(n, R) = Rank(n - 1, R))
      BY <3>1, <3>2
    <3>4. \A s \in Int, r, q \in Nat :
            0 <= s /\ s <= 100 * r /\ (q = r + 1 \/ (w = 0 /\ q = r))
            => s + w \in Int /\ 0 <= s + w /\ s + w <= 100 * q
      OBVIOUS
    <3> QED
      BY <2>6, <2>7, <3>1, <3>3, <3>4
  <2> QED
    BY <2>2, <2>8
<1>10. N \in 0..N
  BY <1>1
<1>11. S[N] \in Int /\ 0 <= S[N] /\ S[N] <= 100 * Rank(N, R)
  BY <1>9, <1>10
<1>12. Rank(N, R) = Cardinality(R)
  <2>1. \A m \in R : m <= N
    BY <1>1, <1>3
  <2> QED
    BY <2>1 DEF Rank
<1>13. Cardinality(R) # 0
  BY <1>4, FS_EmptySet DEF R
<1>14. \A s \in Int, c \in Nat \ {0} : 0 <= s /\ s <= 100 * c => (2 * s + c) \div (2 * c) \in 0..100
  OBVIOUS
<1> QED
  BY <1>4, <1>11, <1>12, <1>13, <1>14 DEF MeanRatio, N, R, S

LEMMA TraceErrorRatioFacts ==
  ASSUME NEW g, g.traces \in Seq(TraceRow)
  PROVE  IF g.traces = <<>> THEN TraceErrorRatio(g) = None ELSE TraceErrorRatio(g) \in 0..100
<1>1. g.traces = <<>> => Rated(g.traces) = {}
  BY DEF Rated
<1>2. Rated(g.traces) # {} => MeanRatio(g.traces) \in 0..100
  BY MeanRatioFacts
<1> QED
  BY <1>1, <1>2 DEF TraceErrorRatio

(* Largest of two or three numbers, and of numbers up to a hundred.        *)
LEMMA LargestOfTwo ==
  ASSUME NEW a \in Int, NEW b \in Int
  PROVE  Largest({a, b}) = Larger(a, b) /\ Larger(a, b) \in Int
<1>1. \A n \in {a, b} : (\A m \in {a, b} : m <= n) <=> n = Larger(a, b)
  BY DEF Larger
<1>2. Larger(a, b) \in {a, b}
  BY DEF Larger
<1> QED
  BY <1>1, <1>2 DEF Largest

LEMMA LargestOfThree ==
  ASSUME NEW a \in Int, NEW b \in Int, NEW c \in Int
  PROVE  Largest({a, b, c}) = Larger(a, Larger(b, c)) /\ Larger(a, Larger(b, c)) \in Int
<1> DEFINE l == Larger(a, Larger(b, c))
<1>1. l \in {a, b, c} /\ a <= l /\ b <= l /\ c <= l
  BY DEF Larger
<1> HIDE DEF l
<1>2. \A n \in {a, b, c} : (\A m \in {a, b, c} : m <= n) <=> n = l
  BY <1>1
<1>3. Largest({a, b, c}) = l
  BY <1>1, <1>2 DEF Largest
<1> QED
  BY <1>1, <1>3 DEF l

LEMMA LargestScore ==
  ASSUME NEW S, S \subseteq 0..100, S # {}
  PROVE  Largest(S) \in S /\ \A m \in S : m <= Largest(S)
<1>1. \E n \in S : \A m \in S : m <= n
  BY LargestNatural
<1> QED
  BY <1>1 DEF Largest

LEMMA ClipFacts ==
  ASSUME NEW n \in Int
  PROVE  ClipScore(n) = IF n < 0 THEN 0 ELSE IF n > 100 THEN 100 ELSE n
<1>1. ClipScore(n) = Larger(0, IF n > 100 THEN 100 ELSE n)
  BY LargestOfTwo DEF ClipScore
<1> QED
  BY <1>1 DEF Larger

LEMMA ClipType ==
  ASSUME NEW n \in Int
  PROVE  ClipScore(n) \in 0..100
BY ClipFacts

LEMMA ClipGrows ==
  ASSUME NEW m \in Int, NEW n \in Int, m <= n \/ m <= 0
  PROVE  ClipScore(m) <= ClipScore(n)
BY ClipFacts

LEMMA RoundType ==
  ASSUME NEW n \in Int
  PROVE  RoundScore(n) \in 0..100
BY ClipType DEF RoundScore

LEMMA RoundGrows ==
  ASSUME NEW m \in Int, NEW n \in Int, m <= n
  PROVE  RoundScore(m) <= RoundScore(n)
<1>1. (m + 50) \div 100 \in Int /\ (n + 50) \div 100 \in Int /\ (m + 50) \div 100 <= (n + 50) \div 100
  OBVIOUS
<1> QED
  BY <1>1, ClipGrows DEF RoundScore

-----------------------------------------------------------------------------
(* Features and scores *)

(* What the scorers read of an evidence. *)
Evidence(g) ==
  /\ g.traces \in Seq(TraceRow) /\ g.operations \in Seq(OperationRow)
  /\ g.logs \in Seq(LogRow) /\ g.trace_logs \in Seq(LogRow)
  /\ g.metrics \in [Queries -> OrNone(Nat)]

Kinds == {"signoz_first", "live"}

LEMMA NumbersFacts ==
  ASSUME NEW g, Evidence(g)
  PROVE  /\ NoveltyScore(g) \in 0..100
         /\ OrZero(TraceErrorRatio(g)) \in 0..100
         /\ TopOperation(g).p95_ms \in Nat
         /\ OrZero(TopOperation(g).error_ratio) \in 0..100
<1>1. NoveltyScore(g) \in 0..100
  <2>1. Logs(g) \in Seq(LogRow)
    BY DEF Evidence, Logs
  <2>2. Logs(g) # <<>> => Logs(g)[1] \in LogRow
    BY <2>1
  <2>3. Logs(g) # <<>> => Logs(g)[1].novelty_score \in OrNone(0..100)
    BY <2>2 DEF LogRow
  <2> QED
    BY <2>3, NoveltyAssumption DEF NoveltyScore, OrNone
<1>2. OrZero(TraceErrorRatio(g)) \in 0..100
  <2>1. g.traces \in Seq(TraceRow)
    BY DEF Evidence
  <2>2. TraceErrorRatio(g) \in 0..100 \/ TraceErrorRatio(g) = None
    BY <2>1, TraceErrorRatioFacts
  <2> QED
    BY <2>2 DEF OrZero
<1>3. /\ TopOperation(g).p95_ms \in Nat
      /\ OrZero(TopOperation(g).error_ratio) \in 0..100
  <2>1. CASE g.operations = <<>>
    BY <2>1 DEF TopOperation, OrZero
  <2>2. CASE g.operations # <<>>
    <3>1. TopOperation(g) \in OperationRow
      BY <2>2 DEF TopOperation, Evidence
    <3> QED
      BY <3>1 DEF OperationRow, OrNone, OrZero
  <2> QED
    BY <2>1, <2>2
<1> QED
  BY <1>1, <1>2, <1>3

LEMMA DeltaFacts ==
  ASSUME NEW g, Evidence(g), NEW q \in Queries, NEW b \in Queries
  PROVE  /\ OrZero(g.metrics[q]) \in Nat
         /\ Delta(g, q, b) # None => Delta(g, q, b) = g.metrics[q] - g.metrics[b] /\ Delta(g, q, b) \in Int
         /\ Delta(g, q, b) = None <=> None \in {g.metrics[q], g.metrics[b]}
         /\ OrZero(Delta(g, q, b)) \in Int
<1>1. g.metrics[q] \in Nat \cup {None} /\ g.metrics[b] \in Nat \cup {None}
  BY DEF Evidence, OrNone
<1>2. OrZero(g.metrics[q]) \in Nat
  BY <1>1 DEF OrZero
<1>3. CASE None \in {g.metrics[q], g.metrics[b]}
  BY <1>2, <1>3 DEF Delta, OrZero
<1>4. CASE None \notin {g.metrics[q], g.metrics[b]}
  <2>1. Delta(g, q, b) = g.metrics[q] - g.metrics[b] /\ Delta(g, q, b) \in Int
    BY <1>1, <1>4 DEF Delta
  <2> QED
    BY <1>2, <1>4, <2>1, NoneAssumption DEF OrZero
<1> QED
  BY <1>3, <1>4

LEMMA CoverageType ==
  ASSUME NEW g, NEW k \in Kinds
  PROVE  EvidenceCoverage(k, g) \in 0..100
<1> DEFINE Has(v)  == IF v = None THEN 0 ELSE 1
           present == Has(Delta(g, "error_rate", "error_rate_baseline"))
                      + Has(Delta(g, "latency_p95_ms", "latency_p95_baseline_ms"))
                      + Has(Delta(g, "qps", "qps_baseline"))
                      + Has(g.metrics["saturation"]) + Has(TraceErrorRatio(g)) + 2
           extra   == (IF k = "signoz_first" THEN 1 ELSE 0) + (IF TraceDetailHints(g) # {} THEN 1 ELSE 0)
<1>1. \A v : Has(v) \in {0, 1}
  OBVIOUS
<1>2. extra \in 0..2
  OBVIOUS
<1>3. present \in 2..7
  BY <1>1
<1>4. EvidenceCoverage(k, g) = (100 * (present + extra)) \div (7 + extra)
  BY DEF EvidenceCoverage
<1> HIDE DEF Has, present, extra
<1>5. \A p \in 2..7 : /\ (100 * (p + 0)) \div 7 \in 0..100
                      /\ (100 * (p + 1)) \div 8 \in 0..100
                      /\ (100 * (p + 2)) \div 9 \in 0..100
  OBVIOUS
<1>6. extra = 0 \/ extra = 1 \/ extra = 2
  BY <1>2
<1> QED
  BY <1>3, <1>4, <1>5, <1>6

Scores == {"error_rate_spike", "latency_spike", "trace_error_ratio", "blast_radius_score", "novelty_signal",
           "severe_similarity", "alert_density", "evidence_coverage", "signoz_alert_signal"}

LEMMA FeatureTypes ==
  ASSUME NEW g, Evidence(g), NEW k \in Kinds, NEW a \in Alerts, NEW h \in Hits
  PROVE  \A s \in Scores : Features(k, g, a, h)[s] \in 0..100
<1> DEFINE f      == Features(k, g, a, h)
           signal == SignozAlertSignal(k, a)
           ratio  == Larger(OrZero(TraceErrorRatio(g)), OrZero(TopOperation(g).error_ratio))
           rise   == OrZero(Delta(g, "error_rate", "error_rate_baseline"))
           slower == OrZero(Delta(g, "latency_p95_ms", "latency_p95_baseline_ms"))
<1>1. a \in Alert /\ h \in [severe : 0..100, benign : 0..100]
  BY AlertsAssumption, HitsAssumption
<1>2. signal \in 0..100
  BY <1>1 DEF SignozAlertSignal, Alert
<1>3. ratio \in 0..100
  BY NumbersFacts DEF Larger
<1>4. rise \in Int /\ slower \in Int
  BY DeltaFacts DEF Queries
<1>5. f.error_rate_spike \in 0..100
  <2>1. 5 * rise \in Int /\ ratio \in Int /\ signal \in Int
    BY <1>2, <1>3, <1>4
  <2>2. Largest({5 * rise, ratio, signal}) \in Int
    <3> HIDE DEF signal, ratio, rise
    <3>1. \A x, y, z \in Int : Largest({x, y, z}) \in Int
      BY LargestOfThree
    <3> QED
      BY <2>1, <3>1
  <2> QED
    BY <2>2, ClipType DEF Features
<1>6. f.latency_spike \in 0..100
  <2>1. Larger(slower \div 20, TopOperation(g).p95_ms \div 30) \in Int
    BY <1>4, NumbersFacts DEF Larger
  <2> QED
    BY <2>1, ClipType DEF Features
<1>7. f.trace_error_ratio \in 0..100
  BY <1>3, ClipType DEF Features
<1>8. f.evidence_coverage \in 0..100 /\ f.novelty_signal \in 0..100
  BY CoverageType, NumbersFacts DEF Features
<1>9. /\ f.blast_radius_score = a.blast_radius_score /\ f.severe_similarity = h.severe
      /\ f.alert_density = 50 /\ f.signoz_alert_signal = signal
  BY DEF Features
<1>10. a.blast_radius_score \in 0..100 /\ h.severe \in 0..100
  BY <1>1 DEF Alert
<1> HIDE DEF f, signal
<1> QED
  BY <1>2, <1>5, <1>6, <1>7, <1>8, <1>9, <1>10 DEF Scores, f

LEMMA FastTypes ==
  ASSUME NEW f, \A s \in Scores : f[s] \in 0..100
  PROVE  FastSeverity(f) \in 0..100 /\ Novelty(f) \in 0..100 /\ Confidence(f) \in 0..100
<1>1. /\ f.error_rate_spike \in Int /\ f.latency_spike \in Int /\ f.trace_error_ratio \in Int
      /\ f.blast_radius_score \in Int /\ f.novelty_signal \in Int /\ f.severe_similarity \in Int
      /\ f.alert_density \in Int /\ f.evidence_coverage \in Int
  BY DEF Scores
<1>2. FastSeverity(f) \in 0..100
  BY <1>1, RoundType DEF FastSeverity
<1>3. Novelty(f) \in 0..100
  BY <1>1, RoundType DEF Novelty
<1>4. Confidence(f) \in 0..100
  BY <1>1, <1>3, RoundType DEF Confidence
<1> QED
  BY <1>2, <1>3, <1>4

(* Without a severe precedent confidence reaches 54 at most.               *)
LEMMA UnprecedentedConfidence ==
  ASSUME NEW f, \A s \in Scores : f[s] \in 0..100, f.severe_similarity = 0, f.alert_density = 50
  PROVE  Confidence(f) < 55
<1>1. f.evidence_coverage \in 0..100
  BY DEF Scores
<1>2. Novelty(f) \in 0..100
  BY FastTypes
<1> DEFINE raw == 3200 + 18 * f.evidence_coverage + 8 * 50 + 7 * 0 - 5 * Novelty(f)
<1>3. raw \in Int /\ raw <= 5400
  <2>1. PICK c \in 0..100 : c = f.evidence_coverage
    BY <1>1
  <2>2. PICK n \in 0..100 : n = Novelty(f)
    BY <1>2
  <2>3. raw = 3200 + 18 * c + 8 * 50 + 7 * 0 - 5 * n
    BY <2>1, <2>2
  <2> HIDE DEF raw
  <2> QED
    BY <2>3
<1>4. Confidence(f) = RoundScore(raw)
  BY DEF Confidence
<1> HIDE DEF raw
<1>5. RoundScore(raw) <= RoundScore(5400)
  BY <1>3, RoundGrows
<1>6. RoundScore(5400) = 54
  BY ClipFacts DEF RoundScore
<1>7. RoundScore(raw) \in 0..100
  BY <1>3, RoundType
<1> QED
  BY <1>4, <1>5, <1>6, <1>7

LEMMA FastGrows ==
  ASSUME NEW f, NEW e, \A s \in Scores : f[s] \in 0..100 /\ e[s] \in 0..100,
         f.error_rate_spike <= e.error_rate_spike, f.latency_spike <= e.latency_spike,
         f.trace_error_ratio <= e.trace_error_ratio, f.novelty_signal <= e.novelty_signal,
         f.blast_radius_score = e.blast_radius_score, f.severe_similarity = e.severe_similarity,
         f.alert_density = e.alert_density
  PROVE  FastSeverity(f) <= FastSeverity(e)
<1>1. /\ f.error_rate_spike \in Int /\ f.latency_spike \in Int /\ f.trace_error_ratio \in Int
      /\ f.novelty_signal \in Int /\ f.blast_radius_score \in Int /\ f.severe_similarity \in Int
      /\ f.alert_density \in Int
  BY DEF Scores
<1>2. /\ e.error_rate_spike \in Int /\ e.latency_spike \in Int /\ e.trace_error_ratio \in Int
      /\ e.novelty_signal \in Int
  BY DEF Scores
<1> QED
  <2> DEFINE Sum(x) == 28 * x.error_rate_spike + 19 * x.latency_spike + 8 * x.trace_error_ratio
                       + 19 * x.blast_radius_score + 11 * x.novelty_signal + 12 * x.severe_similarity
                       + 5 * x.alert_density
  <2>1. Sum(f) \in Int /\ Sum(e) \in Int /\ Sum(f) <= Sum(e)
    BY <1>1, <1>2
  <2>2. FastSeverity(f) = RoundScore(Sum(f)) /\ FastSeverity(e) = RoundScore(Sum(e))
    BY DEF FastSeverity
  <2> HIDE DEF Sum
  <2> QED
    BY <2>1, <2>2, RoundGrows

LEMMA TemporalTypes ==
  ASSUME NEW m \in [Queries -> OrNone(Nat)]
  PROVE  ErrorRateRegression(m) \in 0..100 /\ LatencyRegression(m) \in 0..100 /\ QpsShift(m) \in 0..100
<1>1. \A q \in Queries : OrZero(m[q]) \in Nat
  BY DEF OrNone, OrZero
<1>2. \A n \in Int, d \in Int : d > 0 => n \div d \in Int
  OBVIOUS
<1>3. ErrorRateRegression(m) \in 0..100
  <2> DEFINE now  == OrZero(m["error_rate"])
             base == OrZero(m["error_rate_baseline"])
             p95  == IF {m["error_rate"], m["error_rate_baseline"]} = {None} THEN 0
                     ELSE Largest({15 * base, 3 * now, 10})
             over == Largest({10 * base, p95, 10})
             rise == 1000 * Larger(0, now - base)
  <2>1. now \in Nat /\ base \in Nat
    BY <1>1 DEF Queries
  <2> HIDE DEF now, base
  <2>2. Largest({15 * base, 3 * now, 10}) \in Int
    <3>1. \A x, y, z \in Int : Largest({x, y, z}) \in Int
      BY LargestOfThree
    <3>2. 15 * base \in Int /\ 3 * now \in Int
      BY <2>1
    <3> QED
      BY <3>1, <3>2
  <2>3. p95 \in Int
    BY <2>2
  <2>4. rise \in Int
    BY <2>1 DEF Larger
  <2> HIDE DEF p95, rise
  <2>5. over = Larger(10 * base, Larger(p95, 10))
    BY <2>1, <2>3, LargestOfThree
  <2>6. over \in Int /\ over > 0
    BY <2>1, <2>3, <2>5 DEF Larger
  <2> HIDE DEF over
  <2>7. (rise \div over) \div 4 \in Int
    BY <1>2, <2>4, <2>6
  <2>8. ErrorRateRegression(m) = ClipScore((rise \div over) \div 4)
    BY DEF ErrorRateRegression, now, base, p95, over, rise
  <2> QED
    BY <2>7, <2>8, ClipType
<1>4. LatencyRegression(m) \in 0..100
  <2> DEFINE now  == OrZero(m["latency_p95_ms"])
             base == OrZero(m["latency_p95_baseline_ms"])
  <2>1. now \in Nat /\ base \in Nat
    BY <1>1 DEF Queries
  <2>2. LatencyRegression(m) = ClipScore(((100 * Larger(0, now - base)) \div Larger(base, 1)) \div 8)
    BY DEF LatencyRegression
  <2> HIDE DEF now, base
  <2>3. 100 * Larger(0, now - base) \in Int /\ Larger(base, 1) \in Int /\ Larger(base, 1) > 0
    BY <2>1 DEF Larger
  <2>4. ((100 * Larger(0, now - base)) \div Larger(base, 1)) \div 8 \in Int
    BY <1>2, <2>3
  <2> QED
    BY <2>2, <2>4, ClipType
<1>5. QpsShift(m) \in 0..100
  <2> DEFINE now  == OrZero(m["qps"])
             base == OrZero(m["qps_baseline"])
  <2>1. now \in Nat /\ base \in Nat
    BY <1>1 DEF Queries
  <2>2. QpsShift(m) = ClipScore((200 * Larger(now - base, base - now)) \div Larger(base, 1))
    BY DEF QpsShift
  <2> HIDE DEF now, base
  <2>3. 200 * Larger(now - base, base - now) \in Int /\ Larger(base, 1) \in Int /\ Larger(base, 1) > 0
    BY <2>1 DEF Larger
  <2>4. (200 * Larger(now - base, base - now)) \div Larger(base, 1) \in Int
    BY <1>2, <2>3
  <2> QED
    BY <2>2, <2>4, ClipType
<1> QED
  BY <1>3, <1>4, <1>5

LEMMA RawType ==
  ASSUME NEW g, Evidence(g)
  PROVE  RawScore(g) \in Int
<1>1. g.metrics \in [Queries -> OrNone(Nat)]
  BY DEF Evidence
<1>2. /\ ErrorRateRegression(g.metrics) \in Int /\ LatencyRegression(g.metrics) \in Int
      /\ QpsShift(g.metrics) \in Int
  BY <1>1, TemporalTypes
<1>3. NoveltyScore(g) \in Int
  BY NumbersFacts
<1> QED
  BY <1>2, <1>3 DEF RawScore

(* A higher raw score has at least the probability of a lower one.         *)
LEMMA ProbabilityFacts ==
  ASSUME NEW g, NEW u, Evidence(g), Evidence(u)
  PROVE  /\ Probability(g) \in 0..100
         /\ RawScore(g) <= RawScore(u) => Probability(g) <= Probability(u)
<1> DEFINE S(e) == {0} \cup {s[2] : s \in {t \in Sigmoid : t[1] <= RawScore(e)}}
<1>1. \A s \in Sigmoid : s[1] \in Int /\ s[2] \in 0..100
  BY SigmoidAssumption
<1>2. ASSUME NEW e PROVE S(e) \subseteq 0..100 /\ S(e) # {}
  BY <1>1
<1>3. Probability(g) = Largest(S(g)) /\ Probability(u) = Largest(S(u))
  BY DEF Probability
<1>4. ASSUME RawScore(g) <= RawScore(u) PROVE S(g) \subseteq S(u)
  <2>1. RawScore(g) \in Int /\ RawScore(u) \in Int
    BY RawType
  <2>2. \A t \in Sigmoid : t[1] <= RawScore(g) => t[1] <= RawScore(u)
    BY <1>1, <1>4, <2>1
  <2> QED
    BY <2>2
<1> HIDE DEF S
<1>5. /\ Largest(S(g)) \in S(g) /\ Largest(S(u)) \in S(u)
      /\ \A m \in S(u) : m <= Largest(S(u))
  BY <1>2, LargestScore
<1> QED
  BY <1>2, <1>3, <1>4, <1>5

Families == {"hybrid", "fast_scorer"}

LEMMA DecisionFacts ==
  ASSUME NEW g, Evidence(g), NEW k \in Kinds, NEW a \in Alerts, NEW h \in Hits, NEW family \in Families
  PROVE  LET d == ScorePacket(family, k, g, a, h)
             f == Features(k, g, a, h)
         IN  /\ d.severity = IF family = "hybrid" THEN Larger(Probability(g), FastSeverity(f))
                             ELSE FastSeverity(f)
             /\ d.severity \in 0..100 /\ d.novelty \in 0..100 /\ d.confidence \in 0..100
             /\ d.action \in {"page_owner", "open_ticket", "observe"}
             /\ d.family = family
             /\ h.severe = 0 => d.triggers # {}
             /\ h.severe >= 60 /\ h.benign >= 60 => "retrieval_conflict" \in d.triggers
<1> DEFINE d        == ScorePacket(family, k, g, a, h)
           f        == Features(k, g, a, h)
           severity == IF family = "hybrid" THEN Larger(Probability(g), FastSeverity(f)) ELSE FastSeverity(f)
           action   == RecommendedAction(SeverityBand(severity), f)
<1>1. \A s \in Scores : f[s] \in 0..100
  BY FeatureTypes
<1>2. f.severe_similarity = h.severe /\ f.alert_density = 50
      /\ f.retrieval_conflict = (h.severe >= 60 /\ h.benign >= 60)
  BY DEF Features
<1>3. /\ d.severity = severity /\ d.novelty = Novelty(f) /\ d.confidence = Confidence(f)
      /\ d.action = action /\ d.family = family /\ d.triggers = Triggers(f, severity, action)
  BY DEF ScorePacket, Decision
<1> HIDE DEF f
<1>4. FastSeverity(f) \in 0..100 /\ Novelty(f) \in 0..100 /\ Confidence(f) \in 0..100
  BY <1>1, FastTypes
<1>5. severity \in 0..100
  BY <1>4, ProbabilityFacts DEF Larger
<1>6. action \in {"page_owner", "open_ticket", "observe"}
  BY DEF RecommendedAction, SeverityBand
<1>7. ASSUME h.severe = 0 PROVE Triggers(f, severity, action) # {}
  <2>1. Confidence(f) < 55
    BY <1>1, <1>2, <1>7, UnprecedentedConfidence
  <2>2. "confidence_low" \in Triggers(f, severity, action)
    BY <2>1 DEF Triggers
  <2> QED
    BY <2>2
<1>8. ASSUME h.severe >= 60, h.benign >= 60 PROVE "retrieval_conflict" \in Triggers(f, severity, action)
  BY <1>2, <1>8 DEF Triggers
<1> HIDE DEF d, severity, action
<1> QED
  BY <1>3, <1>4, <1>5, <1>6, <1>7, <1>8 DEF d, f, severity

(* Either scorer's route is open to a conflict of precedents.              *)
LEMMA ConflictRouted ==
  ASSUME NEW d, NEW a, "retrieval_conflict" \in d.triggers
  PROVE  PlanInvestigation(d, a) # {}
<1>1. "retrieval_conflict" \in LocalPrimaryRouteReasons(d, a)
  BY DEF LocalPrimaryRouteReasons
<1> QED
  BY <1>1 DEF PlanInvestigation

(* Fewer traces, operations or values show no greater ratios, durations or *)
(* differences, unless these were negative.                                *)
LEMMA LessTraces ==
  ASSUME NEW g, NEW u, Evidence(g), Evidence(u), g.traces = <<>> \/ g.traces = u.traces
  PROVE  OrZero(TraceErrorRatio(g)) <= OrZero(TraceErrorRatio(u))
<1>1. PICK r \in 0..100 : r = OrZero(TraceErrorRatio(u))
  BY NumbersFacts
<1>2. g.traces = u.traces => OrZero(TraceErrorRatio(g)) = r
  BY <1>1 DEF TraceErrorRatio
<1>3. g.traces = <<>> => OrZero(TraceErrorRatio(g)) = 0
  BY TraceErrorRatioFacts DEF Evidence, OrZero
<1>4. OrZero(TraceErrorRatio(g)) = r \/ OrZero(TraceErrorRatio(g)) = 0
  BY <1>2, <1>3
<1>5. 0 <= r /\ r <= r
  OBVIOUS
<1> QED
  BY <1>1, <1>4, <1>5, Zenon

LEMMA LessOperations ==
  ASSUME NEW g, NEW u, Evidence(g), Evidence(u), g.operations = <<>> \/ g.operations = u.operations
  PROVE  /\ OrZero(TopOperation(g).error_ratio) <= OrZero(TopOperation(u).error_ratio)
         /\ TopOperation(g).p95_ms <= TopOperation(u).p95_ms
<1>1. PICK r \in 0..100 : r = OrZero(TopOperation(u).error_ratio)
  BY NumbersFacts
<1>2. PICK t \in Nat : t = TopOperation(u).p95_ms
  BY NumbersFacts
<1>3. g.operations = u.operations => TopOperation(g) = TopOperation(u)
  BY DEF TopOperation
<1>4. g.operations = <<>> =>
        OrZero(TopOperation(g).error_ratio) = 0 /\ TopOperation(g).p95_ms = 0
  BY DEF TopOperation, OrZero
<1>5. /\ OrZero(TopOperation(g).error_ratio) = r \/ OrZero(TopOperation(g).error_ratio) = 0
      /\ TopOperation(g).p95_ms = t \/ TopOperation(g).p95_ms = 0
  BY <1>1, <1>2, <1>3, <1>4
<1>6. 0 <= r /\ r <= r /\ 0 <= t /\ t <= t
  OBVIOUS
<1> QED
  BY <1>1, <1>2, <1>5, <1>6, Zenon

LEMMA LessMetrics ==
  ASSUME NEW g, NEW u, Evidence(g), Evidence(u), NEW q \in Queries, NEW b \in Queries,
         \A m \in Queries : g.metrics[m] = None \/ g.metrics[m] = u.metrics[m]
  PROVE  OrZero(Delta(g, q, b)) <= OrZero(Delta(u, q, b)) \/ OrZero(Delta(g, q, b)) <= 0
<1>1. PICK d \in Int : d = OrZero(Delta(g, q, b))
  BY DeltaFacts
<1>2. CASE Delta(g, q, b) = None
  BY <1>2 DEF OrZero
<1>3. CASE Delta(g, q, b) # None
  <2>1. None \notin {g.metrics[q], g.metrics[b]}
    BY <1>3, DeltaFacts
  <2>2. g.metrics[q] = u.metrics[q] /\ g.metrics[b] = u.metrics[b]
    BY <2>1
  <2>3. Delta(g, q, b) = Delta(u, q, b)
    BY <2>2 DEF Delta
  <2> QED
    BY <1>1, <2>3
<1> QED
  BY <1>2, <1>3

LEMMA RawGrows ==
  ASSUME NEW g, NEW u, Evidence(g), Evidence(u), NoveltyScore(g) <= NoveltyScore(u),
         ErrorRateRegression(g.metrics) <= ErrorRateRegression(u.metrics),
         LatencyRegression(g.metrics) <= LatencyRegression(u.metrics),
         QpsShift(u.metrics) <= QpsShift(g.metrics)
  PROVE  RawScore(g) <= RawScore(u)
<1>1. g.metrics \in [Queries -> OrNone(Nat)] /\ u.metrics \in [Queries -> OrNone(Nat)]
  BY DEF Evidence
<1>2. PICK x, y, z \in 0..100 : /\ x = ErrorRateRegression(g.metrics)
                                /\ y = LatencyRegression(g.metrics)
                                /\ z = QpsShift(g.metrics)
  BY <1>1, TemporalTypes
<1>3. PICK i, j, k \in 0..100 : /\ i = ErrorRateRegression(u.metrics)
                                /\ j = LatencyRegression(u.metrics)
                                /\ k = QpsShift(u.metrics)
  BY <1>1, TemporalTypes
<1>4. PICK n, m \in 0..100 : n = NoveltyScore(g) /\ m = NoveltyScore(u)
  BY NumbersFacts
<1>5. /\ RawScore(g) = 191 * x + 124 * y - 20 * z + 18 * 8 + 167 * n - 23536
      /\ RawScore(u) = 191 * i + 124 * j - 20 * k + 18 * 8 + 167 * m - 23536
  BY <1>2, <1>3, <1>4 DEF RawScore
<1>6. x <= i /\ y <= j /\ k <= z /\ n <= m
  BY <1>2, <1>3, <1>4, Zenon
<1> QED
  BY <1>5, <1>6

(* A regression of a value that was not read is none, and that of one read *)
(* is the same with a baseline of zero as with none.                       *)
LEMMA LessErrorRate ==
  ASSUME NEW m \in [Queries -> OrNone(Nat)], NEW n \in [Queries -> OrNone(Nat)],
         m["error_rate"] # None =>
           /\ m["error_rate"] = n["error_rate"]
           /\ OrZero(m["error_rate_baseline"]) = OrZero(n["error_rate_baseline"])
  PROVE  ErrorRateRegression(m) <= ErrorRateRegression(n)
<1>1. PICK x, y \in 0..100 : x = ErrorRateRegression(m) /\ y = ErrorRateRegression(n)
  BY TemporalTypes
<1>2. CASE m["error_rate"] # None
  <2>1. /\ {m["error_rate"], m["error_rate_baseline"]} # {None}
        /\ {n["error_rate"], n["error_rate_baseline"]} # {None}
    BY <1>2
  <2>2. x = y
    <3> DEFINE now(v)  == OrZero(v["error_rate"])
               base(v) == OrZero(v["error_rate_baseline"])
               most(v) == Largest({15 * base(v), 3 * now(v), 10})
               rate(v) == ClipScore(((1000 * Larger(0, now(v) - base(v)))
                                       \div Largest({10 * base(v), most(v), 10})) \div 4)
    <3>1. ASSUME NEW v, {v["error_rate"], v["error_rate_baseline"]} # {None}
          PROVE  ErrorRateRegression(v) = rate(v)
      <4> DEFINE p95 == IF {v["error_rate"], v["error_rate_baseline"]} = {None} THEN 0 ELSE most(v)
      <4>1. ErrorRateRegression(v) = ClipScore(((1000 * Larger(0, now(v) - base(v)))
                                                  \div Largest({10 * base(v), p95, 10})) \div 4)
        BY Zenon DEF ErrorRateRegression
      <4>2. p95 = most(v)
        BY <3>1, Zenon
      <4> HIDE DEF p95, now, base, most
      <4> QED
        BY <4>1, <4>2, Zenon
    <3>2. now(m) = now(n) /\ base(m) = base(n)
      BY <1>2
    <3>3. rate(m) = rate(n)
      <4> HIDE DEF now, base
      <4>1. most(m) = most(n)
        BY <3>2
      <4> HIDE DEF most
      <4> QED
        BY <3>2, <4>1
    <3> HIDE DEF rate
    <3>4. ErrorRateRegression(m) = rate(m)
      BY <2>1, <3>1
    <3>5. ErrorRateRegression(n) = rate(n)
      BY <2>1, <3>1
    <3> QED
      BY <1>1, <3>3, <3>4, <3>5, Zenon
  <2>3. x <= y
    BY <2>2
  <2> QED
    BY <1>1, <2>3, Zenon
<1>3. CASE m["error_rate"] = None
  <2> DEFINE base == OrZero(m["error_rate_baseline"])
             p95  == IF {m["error_rate"], m["error_rate_baseline"]} = {None} THEN 0
                     ELSE Largest({15 * base, 3 * 0, 10})
             over == Largest({10 * base, p95, 10})
  <2>1. base \in Nat
    BY DEF OrNone, OrZero, Queries
  <2>2. OrZero(m["error_rate"]) = 0
    BY <1>3 DEF OrZero
  <2> HIDE DEF base
  <2>3. p95 \in Int
    <3>1. \A i, j, l \in Int : Largest({i, j, l}) = Larger(i, Larger(j, l))
      BY LargestOfThree
    <3>2. Largest({15 * base, 3 * 0, 10}) = Larger(15 * base, Larger(0, 10))
      BY <2>1, <3>1
    <3> QED
      BY <2>1, <3>2 DEF Larger
  <2> HIDE DEF p95
  <2>4. over = Larger(10 * base, Larger(p95, 10))
    BY <2>1, <2>3, LargestOfThree
  <2>5. over \in Int /\ over > 0
    BY <2>1, <2>3, <2>4 DEF Larger
  <2> HIDE DEF over
  <2>6. 1000 * Larger(0, 0 - base) = 0
    BY <2>1 DEF Larger
  <2>7. (0 \div over) \div 4 = 0
    BY <2>5
  <2>8. ErrorRateRegression(m) = ClipScore(((1000 * Larger(0, 0 - base)) \div over) \div 4)
    BY <2>2 DEF ErrorRateRegression, base, p95, over
  <2>9. ErrorRateRegression(m) = ClipScore(0)
    BY <2>6, <2>7, <2>8
  <2>10. x = 0
    BY <1>1, <2>9, ClipFacts
  <2>11. x <= y
    BY <2>10
  <2> QED
    BY <1>1, <2>11, Zenon
<1> QED
  BY <1>2, <1>3

LEMMA LessLatency ==
  ASSUME NEW m \in [Queries -> OrNone(Nat)], NEW n \in [Queries -> OrNone(Nat)],
         m["latency_p95_ms"] # None =>
           /\ m["latency_p95_ms"] = n["latency_p95_ms"]
           /\ OrZero(m["latency_p95_baseline_ms"]) = OrZero(n["latency_p95_baseline_ms"])
  PROVE  LatencyRegression(m) <= LatencyRegression(n)
<1>1. PICK x, y \in 0..100 : x = LatencyRegression(m) /\ y = LatencyRegression(n)
  BY TemporalTypes
<1>2. CASE m["latency_p95_ms"] # None
  <2>1. x = y
    BY <1>1, <1>2 DEF LatencyRegression
  <2>2. x <= y
    BY <2>1
  <2> QED
    BY <1>1, <2>2, Zenon
<1>3. CASE m["latency_p95_ms"] = None
  <2> DEFINE base == OrZero(m["latency_p95_baseline_ms"])
  <2>1. base \in Nat
    BY DEF OrNone, OrZero, Queries
  <2>2. LatencyRegression(m) = ClipScore(((100 * Larger(0, 0 - base)) \div Larger(base, 1)) \div 8)
    BY <1>3 DEF LatencyRegression, OrZero
  <2> HIDE DEF base
  <2>3. 100 * Larger(0, 0 - base) = 0 /\ Larger(base, 1) \in Int /\ Larger(base, 1) > 0
    BY <2>1 DEF Larger
  <2>4. (0 \div Larger(base, 1)) \div 8 = 0
    BY <2>3
  <2>5. LatencyRegression(m) = ClipScore(0)
    BY <2>2, <2>3, <2>4
  <2>6. x = 0
    BY <1>1, <2>5, ClipFacts
  <2>7. x <= y
    BY <2>6
  <2> QED
    BY <1>1, <2>7, Zenon
<1> QED
  BY <1>2, <1>3

(* A shift is the least without values.                                    *)
LEMMA NoShift ==
  ASSUME NEW m, m["qps"] = None, m["qps_baseline"] = None
  PROVE  QpsShift(m) = 0
<1>1. OrZero(m["qps"]) = 0 /\ OrZero(m["qps_baseline"]) = 0
  BY DEF OrZero
<1>2. (200 * Larger(0 - 0, 0 - 0)) \div Larger(0, 1) = 0
  BY DEF Larger
<1>3. QpsShift(m) = ClipScore(0)
  BY <1>1, <1>2 DEF QpsShift
<1> QED
  BY <1>3, ClipFacts

Ratio(g) == Larger(OrZero(TraceErrorRatio(g)), OrZero(TopOperation(g).error_ratio))
Rise(g)  == OrZero(Delta(g, "error_rate", "error_rate_baseline"))
Delay(g) == OrZero(Delta(g, "latency_p95_ms", "latency_p95_baseline_ms"))

LEMMA SpikeFacts ==
  ASSUME NEW g, Evidence(g), NEW k \in Kinds, NEW a \in Alerts, NEW h \in Hits
  PROVE  /\ Rise(g) \in Int /\ Delay(g) \in Int /\ Ratio(g) \in 0..100
         /\ SignozAlertSignal(k, a) \in 0..100
         /\ Features(k, g, a, h).error_rate_spike
              = ClipScore(Larger(5 * Rise(g), Larger(Ratio(g), SignozAlertSignal(k, a))))
         /\ Features(k, g, a, h).latency_spike
              = ClipScore(Larger(Delay(g) \div 20, TopOperation(g).p95_ms \div 30))
         /\ Features(k, g, a, h).trace_error_ratio = ClipScore(Ratio(g))
<1>1. Rise(g) \in Int /\ Delay(g) \in Int
  BY DeltaFacts DEF Rise, Delay, Queries
<1>2. Ratio(g) \in 0..100
  BY NumbersFacts DEF Ratio, Larger
<1>3. SignozAlertSignal(k, a) \in 0..100
  BY AlertsAssumption DEF SignozAlertSignal, Alert
<1>4. Largest({5 * Rise(g), Ratio(g), SignozAlertSignal(k, a)})
        = Larger(5 * Rise(g), Larger(Ratio(g), SignozAlertSignal(k, a)))
  <2>1. \A i, j, l \in Int : Largest({i, j, l}) = Larger(i, Larger(j, l))
    BY LargestOfThree
  <2>2. 5 * Rise(g) \in Int /\ Ratio(g) \in Int /\ SignozAlertSignal(k, a) \in Int
    BY <1>1, <1>2, <1>3
  <2> QED
    BY <2>1, <2>2
<1>5. /\ Features(k, g, a, h).error_rate_spike
           = ClipScore(Largest({5 * Rise(g), Ratio(g), SignozAlertSignal(k, a)}))
      /\ Features(k, g, a, h).latency_spike
           = ClipScore(Larger(Delay(g) \div 20, TopOperation(g).p95_ms \div 30))
      /\ Features(k, g, a, h).trace_error_ratio = ClipScore(Ratio(g))
  BY DEF Features, Ratio, Rise, Delay
<1> QED
  BY <1>1, <1>2, <1>3, <1>4, <1>5

LEMMA LessSpikes ==
  ASSUME NEW g, NEW u, Evidence(g), Evidence(u),
         NEW k \in Kinds, NEW a \in Alerts, NEW h \in Hits,
         Ratio(g) <= Ratio(u),
         Rise(g) <= Rise(u) \/ Rise(g) <= 0,
         Delay(g) <= Delay(u) \/ Delay(g) <= 0,
         TopOperation(g).p95_ms <= TopOperation(u).p95_ms
  PROVE  /\ Features(k, g, a, h).error_rate_spike <= Features(k, u, a, h).error_rate_spike
         /\ Features(k, g, a, h).latency_spike <= Features(k, u, a, h).latency_spike
         /\ Features(k, g, a, h).trace_error_ratio <= Features(k, u, a, h).trace_error_ratio
<1>1. PICK s \in 0..100 : s = SignozAlertSignal(k, a)
  BY SpikeFacts
<1>2. PICK p, q \in 0..100 : p = Ratio(g) /\ q = Ratio(u)
  BY SpikeFacts
<1>3. PICK r, t \in Int : r = Rise(g) /\ t = Rise(u)
  BY SpikeFacts
<1>4. PICK d, e \in Int : d = Delay(g) /\ e = Delay(u)
  BY SpikeFacts
<1>5. PICK m, n \in Nat : m = TopOperation(g).p95_ms /\ n = TopOperation(u).p95_ms
  BY NumbersFacts
<1>6. p <= q /\ (r <= t \/ r <= 0) /\ (d <= e \/ d <= 0) /\ m <= n
  BY <1>2, <1>3, <1>4, <1>5, Zenon
<1>7. /\ Larger(5 * r, Larger(p, s)) \in Int /\ Larger(5 * t, Larger(q, s)) \in Int
      /\ Larger(5 * r, Larger(p, s)) <= Larger(5 * t, Larger(q, s))
  BY <1>6 DEF Larger
<1>8. /\ Larger(d \div 20, m \div 30) \in Int /\ Larger(e \div 20, n \div 30) \in Int
      /\ Larger(d \div 20, m \div 30) <= Larger(e \div 20, n \div 30)
  <2>1. /\ d \div 20 \in Int /\ e \div 20 \in Int /\ m \div 30 \in Nat /\ n \div 30 \in Nat
        /\ m \div 30 <= n \div 30
        /\ d \div 20 <= e \div 20 \/ d \div 20 <= 0
    BY <1>6
  <2> QED
    BY <2>1 DEF Larger
<1>9. /\ ClipScore(Larger(5 * r, Larger(p, s))) <= ClipScore(Larger(5 * t, Larger(q, s)))
      /\ ClipScore(Larger(d \div 20, m \div 30)) <= ClipScore(Larger(e \div 20, n \div 30))
      /\ ClipScore(p) <= ClipScore(q)
  <2>1. \A i, j \in Int : i <= j => ClipScore(i) <= ClipScore(j)
    BY ClipGrows
  <2>2. p \in Int /\ q \in Int
    OBVIOUS
  <2> QED
    BY <1>6, <1>7, <1>8, <2>1, <2>2
<1>10. /\ Features(k, g, a, h).error_rate_spike = ClipScore(Larger(5 * r, Larger(p, s)))
       /\ Features(k, g, a, h).latency_spike = ClipScore(Larger(d \div 20, m \div 30))
       /\ Features(k, g, a, h).trace_error_ratio = ClipScore(p)
  BY <1>1, <1>2, <1>3, <1>4, <1>5, SpikeFacts
<1>11. /\ Features(k, u, a, h).error_rate_spike = ClipScore(Larger(5 * t, Larger(q, s)))
       /\ Features(k, u, a, h).latency_spike = ClipScore(Larger(e \div 20, n \div 30))
       /\ Features(k, u, a, h).trace_error_ratio = ClipScore(q)
  BY <1>1, <1>2, <1>3, <1>4, <1>5, SpikeFacts
<1> QED
  BY <1>9, <1>10, <1>11, Zenon

(* Less evidence of the same world, of which no novelty was made up, is    *)
(* no more severe to the fast scorer.                                      *)
LEMMA LessEvidence ==
  ASSUME NEW g, NEW u, Evidence(g), Evidence(u),
         g.traces = <<>> \/ g.traces = u.traces,
         g.operations = <<>> \/ g.operations = u.operations,
         \A q \in Queries : g.metrics[q] = None \/ g.metrics[q] = u.metrics[q],
         NoveltyScore(g) <= NoveltyScore(u),
         NEW k \in Kinds, NEW a \in Alerts, NEW h \in Hits
  PROVE  FastSeverity(Features(k, g, a, h)) <= FastSeverity(Features(k, u, a, h))
<1> DEFINE f == Features(k, g, a, h)
           e == Features(k, u, a, h)
<1>1. Ratio(g) <= Ratio(u)
  <2>1. PICK i, j \in 0..100 : i = OrZero(TraceErrorRatio(g)) /\ j = OrZero(TraceErrorRatio(u))
    BY NumbersFacts
  <2>2. PICK m, n \in 0..100 : /\ m = OrZero(TopOperation(g).error_ratio)
                               /\ n = OrZero(TopOperation(u).error_ratio)
    BY NumbersFacts
  <2>3. i <= j /\ m <= n
    BY <2>1, <2>2, LessTraces, LessOperations, Zenon
  <2>4. Larger(i, m) <= Larger(j, n)
    BY <2>3 DEF Larger
  <2> QED
    BY <2>1, <2>2, <2>4, Zenon DEF Ratio
<1>2. /\ Rise(g) <= Rise(u) \/ Rise(g) <= 0
      /\ Delay(g) <= Delay(u) \/ Delay(g) <= 0
  <2>1. \A q, b \in Queries : \/ OrZero(Delta(g, q, b)) <= OrZero(Delta(u, q, b))
                              \/ OrZero(Delta(g, q, b)) <= 0
    BY LessMetrics
  <2>2. {"error_rate", "error_rate_baseline", "latency_p95_ms", "latency_p95_baseline_ms"} \subseteq Queries
    BY DEF Queries
  <2> QED
    BY <2>1, <2>2, Zenon DEF Rise, Delay
<1>3. TopOperation(g).p95_ms <= TopOperation(u).p95_ms
  BY LessOperations, Zenon
<1>4. /\ f.error_rate_spike <= e.error_rate_spike
      /\ f.latency_spike <= e.latency_spike
      /\ f.trace_error_ratio <= e.trace_error_ratio
  BY <1>1, <1>2, <1>3, LessSpikes, Zenon
<1>5. /\ f.novelty_signal = NoveltyScore(g) /\ e.novelty_signal = NoveltyScore(u)
      /\ f.blast_radius_score = e.blast_radius_score /\ f.severe_similarity = e.severe_similarity
      /\ f.alert_density = e.alert_density
  BY DEF Features
<1>6. f.novelty_signal <= e.novelty_signal
  BY <1>5, Zenon
<1>7. \A s \in Scores : f[s] \in 0..100 /\ e[s] \in 0..100
  BY FeatureTypes
<1> HIDE DEF f, e
<1>8. PICK v, w \in 0..100 : v = FastSeverity(f) /\ w = FastSeverity(e)
  BY <1>7, FastTypes
<1>9. v <= w
  BY <1>4, <1>5, <1>6, <1>7, <1>8, FastGrows, Zenon
<1> QED
  BY <1>8, <1>9, Zenon DEF f, e

-----------------------------------------------------------------------------
(* The bundle *)

Fields == {"traces", "operations", "logs", "details", "trace_logs", "logs_of", "metrics"}

LEMMA FieldsOfNothing == DOMAIN Nothing = Fields
BY DEF Nothing, Fields

LEMMA FieldSet ==
  ASSUME NEW g, DOMAIN g = Fields, NEW f \in Fields, NEW v
  PROVE  LET h == [g EXCEPT ![f] = v]
         IN  DOMAIN h = Fields /\ h[f] = v /\ \A e \in Fields \ {f} : h[e] = g[e]
OBVIOUS

(* From call to call the bundle goes on in the order of its kind.          *)
LEMMA Onward ==
  ASSUME kind \in Kinds, step \in Steps \ {"idle", "build", "built"},
         kind = "live" => step \notin {"details", "trace_logs"}
  PROVE  /\ After(step) \in Steps \ {"idle", "built"} /\ After(step) # step
         /\ kind = "live" => After(step) \notin {"details", "trace_logs"}
         /\ \A c \in {"traces", "operations", "logs", "metrics"} :
              After(step) \in UpTo(c) <=> step \in UpTo(c) /\ step # c
         /\ kind = "signoz_first" =>
              (After(step) \in UpTo("trace_logs") <=> step \in UpTo("trace_logs") /\ step # "trace_logs")
<1>1. CASE kind = "signoz_first"
  <2>1. /\ UpTo("traces") = {"traces"} /\ UpTo("operations") = {"traces", "operations"}
        /\ UpTo("logs") = {"traces", "operations", "logs"}
        /\ UpTo("trace_logs") = {"traces", "operations", "logs", "details", "trace_logs"}
        /\ UpTo("metrics") = {"traces", "operations", "logs", "details", "trace_logs", "metrics"}
    BY <1>1 DEF UpTo, Steps
  <2>2. After(step) = SignozFirstOrder[step]
    BY <1>1 DEF After
  <2>3. step \in {"traces", "operations", "logs", "details", "trace_logs", "metrics"}
    BY DEF Steps
  <2> QED
    BY <1>1, <2>1, <2>2, <2>3 DEF SignozFirstOrder, Steps
<1>2. CASE kind = "live"
  <2>1. /\ UpTo("traces") = {"metrics", "logs", "traces"}
        /\ UpTo("operations") = {"metrics", "logs", "traces", "operations"}
        /\ UpTo("logs") = {"metrics", "logs"} /\ UpTo("metrics") = {"metrics"}
    BY <1>2 DEF UpTo
  <2>2. After(step) = LiveOrder[step]
    BY <1>2 DEF After
  <2>3. step \in {"traces", "operations", "logs", "metrics"}
    BY <1>2 DEF Steps
  <2> QED
    BY <1>2, <2>1, <2>2, <2>3 DEF LiveOrder, Steps
<1> QED
  BY <1>1, <1>2 DEF Kinds

LEMMA SessionFacts ==
  ASSUME CollectionTypeOK, session = "lost" \/ failed # {} => faulted,
         NEW call, Answered \/ Unanswered(call)
  PROVE  /\ session' \in {"none", "half", "open", "lost"} /\ faulted' \in BOOLEAN
         /\ session' = "lost" \/ failed' # {} => faulted'
         /\ failed' = failed \/ failed' = failed \cup {call}
<1>1. faulted \in BOOLEAN /\ session \in {"none", "half", "open", "lost"}
  BY DEF CollectionTypeOK
<1>2. CASE Answered
  BY <1>1, <1>2 DEF Answered
<1>3. CASE Unanswered(call)
  <2>1. /\ session' \in {"none", "half", "open"} \/ session' = session
        /\ failed' = failed \cup {call} /\ faulted' = (faulted \/ session # "lost")
    BY <1>3 DEF Unanswered
  <2>2. faulted'
    BY <2>1
  <2> QED
    BY <1>1, <2>1, <2>2
<1> QED
  BY <1>2, <1>3

(* The bundle's evidence has the types of the world's.                     *)
LEMMA CollectedTypes ==
  ASSUME CollectedInv, step # "idle"
  PROVE  /\ Evidence(got)
         /\ AskedTraces \in Seq(Traces) /\ Len(AskedTraces) <= TraceDetailsLimit
<1>1. world \in Worlds /\ step \in Steps /\ DOMAIN got = Fields /\ kind \in Kinds
  BY FieldsOfNothing DEF CollectedInv, CollectionTypeOK, Kinds
<1>2. /\ world.traces \in Seq(TraceRow) /\ world.operations \in Seq(OperationRow)
      /\ world.logs \in Seq(LogRow) /\ world.trace_logs \in [Traces -> Seq(LogRow)]
  BY <1>1, WorldFacts
<1>3. LogsLimit \in Nat \ {0} /\ TracesLimit \in Nat \ {0} /\ TraceDetailsLimit \in Nat \ {0}
  BY LimitsAssumption
<1>4. AtMost(world.traces, TracesLimit) \in Seq(TraceRow) /\ AtMost(world.logs, LogsLimit) \in Seq(LogRow)
  BY <1>2, <1>3, AtMostFacts
<1>5. /\ got.traces = <<>> \/ got.traces = AtMost(world.traces, TracesLimit)
      /\ got.operations = <<>> \/ got.operations = world.operations
      /\ got.logs = <<>> \/ got.logs = AtMost(world.logs, LogsLimit)
  BY DEF CollectedInv, Returned, Behind
<1>6. got.traces \in Seq(TraceRow) /\ got.operations \in Seq(OperationRow) /\ got.logs \in Seq(LogRow)
  <2>1. \A T, v : v = <<>> => v \in Seq(T)
    OBVIOUS
  <2>2. got.traces \in Seq(TraceRow)
    BY <1>4, <1>5, <2>1
  <2>3. got.operations \in Seq(OperationRow)
    BY <1>2, <1>5, <2>1
  <2>4. got.logs \in Seq(LogRow)
    BY <1>4, <1>5, <2>1
  <2> QED
    BY <2>2, <2>3, <2>4
<1>7. AskedTraces \in Seq(Traces) /\ Len(AskedTraces) <= TraceDetailsLimit
  <2>1. SampleTraceIds(got.traces) \in Seq(Traces)
    BY <1>6, SampleFacts
  <2> QED
    BY <1>3, <2>1, AtMostFacts DEF AskedTraces
<1>8. got.trace_logs \in Seq(LogRow)
  <2>1. CASE got.trace_logs = <<>>
    BY <2>1
  <2>2. CASE got.trace_logs # <<>>
    <3>1. PICK n \in 1..Len(AskedTraces) :
            got.trace_logs = AtMost(world.trace_logs[AskedTraces[n]], LogsLimit)
      BY <2>2 DEF CollectedInv, TraceLogsInv
    <3>2. AskedTraces[n] \in Traces
      BY <1>7
    <3>3. world.trace_logs[AskedTraces[n]] \in Seq(LogRow)
      BY <1>2, <3>2
    <3> QED
      BY <1>3, <3>1, <3>3, AtMostFacts
  <2> QED
    BY <2>1, <2>2
<1>9. got.metrics \in [Queries -> OrNone(Nat)]
  BY DEF CollectedInv, MetricsInv
<1> QED
  BY <1>6, <1>7, <1>8, <1>9 DEF Evidence

(* Every variable keeps its type in a step that keeps these.               *)
LEMMA TypesKept ==
  ASSUME CollectionTypeOK, UNCHANGED <<kind, world>>,
         session' \in {"none", "half", "open", "lost"}, faulted' \in BOOLEAN,
         step' \in Steps, place' \in 1..(TraceDetailsLimit + 1),
         DOMAIN got' = Fields, got'.details \in Seq(Traces), got'.logs_of \in OrNone(Traces),
         failed' \subseteq Queries \cup {"traces", "operations", "logs", "details", "trace_logs"}
  PROVE  CollectionTypeOK'
<1>1. DOMAIN got' = DOMAIN Nothing'
  BY FieldsOfNothing DEF Nothing
<1>2. kind' \in {"signoz_first", "live"} /\ world' \in Worlds
  BY DEF CollectionTypeOK
<1>3. faulted' \in BOOLEAN
  BY Zenon
<1> QED
  BY <1>1, <1>2, <1>3 DEF CollectionTypeOK

Collectors == {"traces", "operations", "logs"}

(* What each answers. *)
Answer(c) == CASE c = "traces"     -> AtMost(world.traces, TracesLimit)
               [] c = "operations" -> world.operations
               [] c = "logs"       -> AtMost(world.logs, LogsLimit)

LEMMA ReturnedFacts ==
  ASSUME CollectedInv
  PROVE  \A c \in Collectors : Returned(c, got[c], Answer(c))
<1>1. /\ Answer("traces") = AtMost(world.traces, TracesLimit)
      /\ Answer("operations") = world.operations
      /\ Answer("logs") = AtMost(world.logs, LogsLimit)
  BY DEF Answer
<1> QED
  BY <1>1 DEF Collectors, CollectedInv

(* A step that proceeds keeps what it relates, but for its own call.       *)
LEMMA Proceeding ==
  ASSUME CollectedInv, step \in Steps \ {"idle", "build", "built"}, Proceed(step),
         UNCHANGED <<kind, world>>, CollectionTypeOK', session' = "lost" \/ failed' # {} => faulted',
         \A c \in Collectors :
           IF c = step THEN got'[c] = IF c \in failed' THEN <<>> ELSE Answer(c)
           ELSE got'[c] = got[c] /\ (c \in failed' <=> c \in failed),
         got'.metrics \in [Queries -> OrNone(Nat)],
         IF step = "metrics"
         THEN \/ /\ kind = "signoz_first" /\ failed' \cap Queries = {}
                 /\ \A q \in Queries : got'.metrics[q] = None
              \/ \A q \in Queries : got'.metrics[q] = IF q \in failed' THEN None ELSE world.metrics[q]
         ELSE got'.metrics = got.metrics /\ failed' \cap Queries = failed \cap Queries,
         TraceLogsInv'
  PROVE  CollectedInv'
<1>1. kind \in Kinds /\ (kind = "live" => step \notin {"details", "trace_logs"})
  BY DEF CollectedInv, CollectionTypeOK, Kinds
<1>2. step' = After(step) /\ kind' = kind /\ world' = world
  BY DEF Proceed
<1>3. /\ step' # "idle" /\ (kind' = "live" => step' \notin {"details", "trace_logs"})
      /\ \A c \in Collectors \cup {"metrics"} : step' \in UpTo(c) <=> step \in UpTo(c) /\ step # c
  BY <1>1, <1>2, Onward DEF Collectors
<1>4. \A c : UpTo(c)' = UpTo(c)
  BY <1>2 DEF UpTo, Steps
<1>5. \A c \in Collectors : Answer(c)' = Answer(c)
  BY <1>2 DEF Answer, Collectors
<1>6. ASSUME NEW c \in Collectors PROVE Returned(c, got[c], Answer(c))'
  <2>1. Returned(c, got[c], Answer(c))
    BY ReturnedFacts
  <2>2. step \in UpTo(c) => got[c] = <<>> /\ c \notin failed
    BY <2>1 DEF Returned
  <2>3. step \notin UpTo(c) => got[c] = IF c \in failed THEN <<>> ELSE Answer(c)
    BY <2>1 DEF Returned, Behind
  <2>4. c = step => step \in UpTo(c)
    BY <1>1 DEF UpTo, Kinds, Collectors
  <2>5. CASE c = step
    BY <1>3, <1>4, <1>5, <2>5 DEF Returned, Behind
  <2>6. CASE c # step
    BY <1>3, <1>4, <1>5, <2>2, <2>3, <2>6 DEF Returned, Behind
  <2> QED
    BY <2>5, <2>6
<1>7. MetricsInv'
  <2>1. /\ step \in UpTo("metrics") =>
             failed \cap Queries = {} /\ \A q \in Queries : got.metrics[q] = None
        /\ step \notin UpTo("metrics") =>
             \/ /\ kind = "signoz_first" /\ failed \cap Queries = {}
                /\ \A q \in Queries : got.metrics[q] = None
             \/ \A q \in Queries : got.metrics[q] = IF q \in failed THEN None ELSE world.metrics[q]
    BY DEF CollectedInv, MetricsInv, Behind
  <2>2. CASE step = "metrics"
    <3>1. step' \notin UpTo("metrics")
      BY <1>3, <2>2
    <3> QED
      BY <1>2, <1>4, <2>2, <3>1 DEF MetricsInv
  <2>3. CASE step # "metrics"
    <3>1. step' \in UpTo("metrics") <=> step \in UpTo("metrics")
      BY <1>3, <2>3
    <3>2. \A q \in Queries : q \in failed' <=> q \in failed
      BY <2>3
    <3>3. /\ step' \in UpTo("metrics") =>
               failed' \cap Queries = {} /\ \A q \in Queries : got'.metrics[q] = None
          /\ step' \notin UpTo("metrics") =>
               \/ /\ kind' = "signoz_first" /\ failed' \cap Queries = {}
                  /\ \A q \in Queries : got'.metrics[q] = None
               \/ \A q \in Queries : got'.metrics[q] = IF q \in failed' THEN None ELSE world'.metrics[q]
      BY <1>2, <2>1, <2>3, <3>1, <3>2
    <3> QED
      BY <1>4, <3>3 DEF MetricsInv, Behind
  <2> QED
    BY <2>2, <2>3
<1>8. /\ CollectionTypeOK' /\ TraceLogsInv' /\ MetricsInv'
      /\ (kind' = "live" => step' \notin {"details", "trace_logs"})
      /\ (session' = "lost" \/ failed' # {} => faulted')
      /\ \A c \in Collectors : Returned(c, got[c], Answer(c))'
  BY <1>3, <1>6, <1>7
<1>9. /\ Returned("traces", got.traces, AtMost(world.traces, TracesLimit))'
      /\ Returned("operations", got.operations, world.operations)'
      /\ Returned("logs", got.logs, AtMost(world.logs, LogsLimit))'
  <2>1. /\ Answer("traces")' = AtMost(world.traces, TracesLimit)'
        /\ Answer("operations")' = world'.operations
        /\ Answer("logs")' = AtMost(world.logs, LogsLimit)'
    BY DEF Answer
  <2> QED
    BY <1>8, <2>1 DEF Collectors
<1> QED
  BY <1>8, <1>9, Zenon DEF CollectedInv

(* The logs of traces: before they are asked for, asked for, and behind.   *)
LEMMA NoTraceLogs ==
  ASSUME got'.trace_logs = <<>>,
         kind' = "live" \/ step' \in {"traces", "operations", "logs", "details"}
  PROVE  TraceLogsInv'
BY DEF TraceLogsInv, UpTo, Behind

LEMMA TraceLogsBehind ==
  ASSUME TraceLogsInv, UNCHANGED <<kind, world>>, kind = "signoz_first",
         step \in {"metrics", "build", "built"}, step' \in {"metrics", "build", "built", "idle"},
         got'.traces = got.traces, got'.logs = got.logs, got'.trace_logs = got.trace_logs,
         got'.logs_of = got.logs_of, "trace_logs" \in failed => "trace_logs" \in failed'
  PROVE  TraceLogsInv'
<1>1. AskedTraces' = AskedTraces /\ Logs(got)' = Logs(got)
  BY DEF AskedTraces, Logs
<1>2. UpTo("trace_logs")' = {"traces", "operations", "logs", "details", "trace_logs"}
      /\ UpTo("trace_logs") = {"traces", "operations", "logs", "details", "trace_logs"}
  BY DEF UpTo
<1>3. /\ got.trace_logs # <<>> =>
           /\ got.logs = <<>>
           /\ \E n \in 1..Len(AskedTraces) :
                /\ got.logs_of = AskedTraces[n]
                /\ got.trace_logs = AtMost(world.trace_logs[AskedTraces[n]], LogsLimit)
      /\ Logs(got) = <<>> =>
           \A n \in 1..Len(AskedTraces) :
             world.trace_logs[AskedTraces[n]] = <<>> \/ "trace_logs" \in failed
  BY <1>2 DEF TraceLogsInv, Behind
<1>4. kind' # "live" /\ step' \notin UpTo("trace_logs")'
  BY <1>2
<1> QED
  BY <1>1, <1>3, <1>4, Zenon DEF TraceLogsInv

LEMMA TraceLogsNext ==
  ASSUME CollectedInv, CollectTraceLogs
  PROVE  TraceLogsInv'
<1>1. kind = "signoz_first" /\ step = "trace_logs" /\ kind' = kind /\ world' = world
  BY DEF CollectedInv, CollectionTypeOK, CollectTraceLogs
<1>2. AskedTraces \in Seq(Traces) /\ world \in Worlds /\ place \in Nat
  BY <1>1, CollectedTypes, LimitsAssumption DEF CollectedInv, CollectionTypeOK
<1>3. UpTo("trace_logs")' = {"traces", "operations", "logs", "details", "trace_logs"}
  BY <1>1 DEF UpTo
<1>4. /\ got.trace_logs # <<>> =>
           /\ got.logs = <<>>
           /\ \E n \in 1..Len(AskedTraces) :
                /\ got.logs_of = AskedTraces[n]
                /\ got.trace_logs = AtMost(world.trace_logs[AskedTraces[n]], LogsLimit)
      /\ Logs(got) = <<>> =>
           \A n \in 1..Len(AskedTraces) : n < place =>
             world.trace_logs[AskedTraces[n]] = <<>> \/ "trace_logs" \in failed
  BY <1>1 DEF CollectedInv, TraceLogsInv
<1> DEFINE over == got.logs # <<>> \/ got.trace_logs # <<>> \/ place > Len(AskedTraces)
           rows == AtMost(world.trace_logs[AskedTraces[place]], LogsLimit)
<1>5. CASE over
  <2>1. step' = "metrics" /\ got' = got /\ failed' = failed
    <3>1. Proceed(step) /\ got' = got /\ failed' = failed
      BY <1>5, Zenon DEF CollectTraceLogs
    <3> QED
      BY <1>1, <3>1 DEF Proceed, After, SignozFirstOrder
  <2>2. AskedTraces' = AskedTraces /\ Logs(got)' = Logs(got)
    BY <2>1 DEF AskedTraces
  <2>3. Logs(got) = <<>> =>
          \A n \in 1..Len(AskedTraces) :
            world.trace_logs[AskedTraces[n]] = <<>> \/ "trace_logs" \in failed
    <3> SUFFICES ASSUME Logs(got) = <<>>, NEW n \in 1..Len(AskedTraces) PROVE n < place
      BY <1>4
    <3>1. place > Len(AskedTraces)
      BY <1>5 DEF Logs
    <3> QED
      BY <1>2, <3>1
  <2> HIDE DEF over
  <2>4. kind' # "live" /\ step' \notin UpTo("trace_logs")' /\ step' # "trace_logs"
    BY <1>1, <1>3, <2>1
  <2> QED
    BY <1>1, <1>4, <2>1, <2>2, <2>3, <2>4, Zenon DEF TraceLogsInv
<1>6. CASE ~over
  <2>1. /\ step' = step /\ place' = place + 1
        /\ \/ /\ failed' = failed
              /\ got' = [got EXCEPT !.trace_logs = rows,
                                    !.logs_of = IF rows = <<>> THEN @ ELSE AskedTraces[place]]
           \/ Unanswered("trace_logs") /\ UNCHANGED got
    BY <1>6 DEF CollectTraceLogs, Answered
  <2>2. place \in 1..Len(AskedTraces) /\ got.logs = <<>> /\ got.trace_logs = <<>>
    BY <1>2, <1>6 DEF CollectedInv, CollectionTypeOK
  <2>3. world.trace_logs[AskedTraces[place]] \in Seq(LogRow)
    <3>1. AskedTraces[place] \in Traces
      BY <1>2, <2>2
    <3> QED
      BY <1>2, <3>1, WorldFacts
  <2>4. rows = <<>> => world.trace_logs[AskedTraces[place]] = <<>>
    BY <2>3, AtMostFacts, LimitsAssumption
  <2>5. Logs(got) = <<>>
    BY <2>2 DEF Logs
  <2> HIDE DEF over, rows
  <2>6. \A n \in 1..Len(AskedTraces) : n < place' => n < place \/ n = place
    BY <1>2, <2>1
  <2>7. CASE /\ failed' = failed
             /\ got' = [got EXCEPT !.trace_logs = rows,
                                   !.logs_of = IF rows = <<>> THEN @ ELSE AskedTraces[place]]
    <3>1. DOMAIN got = Fields
      BY FieldsOfNothing DEF CollectedInv, CollectionTypeOK
    <3>2. /\ got'.traces = got.traces /\ got'.logs = got.logs /\ got'.trace_logs = rows
          /\ got'.logs_of = IF rows = <<>> THEN got.logs_of ELSE AskedTraces[place]
      BY <2>7, <3>1 DEF Fields
    <3>3. AskedTraces' = AskedTraces
      BY <3>2 DEF AskedTraces
    <3>4. Logs(got)' = rows
      BY <2>2, <3>2 DEF Logs
    <3>5. rows = <<>> =>
            \A n \in 1..Len(AskedTraces) : n < place' =>
              world.trace_logs[AskedTraces[n]] = <<>> \/ "trace_logs" \in failed
      BY <1>4, <2>4, <2>5, <2>6
    <3>6. rows # <<>> =>
            \E n \in 1..Len(AskedTraces) :
              /\ got'.logs_of = AskedTraces[n]
              /\ rows = AtMost(world.trace_logs[AskedTraces[n]], LogsLimit)
      BY <2>2, <3>2 DEF rows
    <3>7. kind' # "live" /\ step' = "trace_logs"
      BY <1>1, <2>1
    <3> QED
      BY <1>1, <2>2, <2>7, <3>2, <3>3, <3>4, <3>5, <3>6, <3>7, Zenon DEF TraceLogsInv
  <2>8. CASE Unanswered("trace_logs") /\ UNCHANGED got
    <3>1. "trace_logs" \in failed'
      BY <2>8 DEF Unanswered
    <3>2. AskedTraces' = AskedTraces
      BY <2>8 DEF AskedTraces
    <3>3. kind' # "live" /\ step' = "trace_logs" /\ got'.trace_logs = <<>>
      BY <1>1, <2>1, <2>2, <2>8
    <3> QED
      BY <3>1, <3>2, <3>3, Zenon DEF TraceLogsInv
  <2> QED
    BY <2>1, <2>7, <2>8
<1> QED
  BY <1>5, <1>6

-----------------------------------------------------------------------------
(* The steps of a collection *)

LEMMA BeginNext ==
  ASSUME Begin
  PROVE  CollectedInv'
<1>1. /\ kind' \in Kinds /\ world' \in Worlds /\ session' = "none" /\ place' = 1
      /\ got' = Nothing /\ failed' = {} /\ faulted' = FALSE
      /\ step' = IF kind' = "signoz_first" THEN "traces" ELSE "metrics"
  BY DEF Begin, Kinds
<1>2. /\ got'.traces = <<>> /\ got'.operations = <<>> /\ got'.logs = <<>> /\ got'.trace_logs = <<>>
      /\ got'.details = <<>> /\ got'.logs_of = None
      /\ got'.metrics = [q \in Queries |-> None]
      /\ DOMAIN got' = DOMAIN Nothing
  BY <1>1 DEF Nothing
<1>3. CollectionTypeOK'
  <2>1. step' \in Steps /\ place' \in 1..(TraceDetailsLimit + 1)
    BY <1>1, LimitsAssumption DEF Steps
  <2>2. got'.details \in Seq(Traces) /\ got'.logs_of \in OrNone(Traces)
    BY <1>2 DEF OrNone
  <2>3. DOMAIN got' = DOMAIN Nothing'
    BY <1>2 DEF Nothing
  <2> QED
    BY <1>1, <2>1, <2>2, <2>3 DEF CollectionTypeOK, Kinds
<1>4. \A c \in Collectors \cup {"metrics"} : step' \in UpTo(c)'
  BY <1>1 DEF UpTo, Collectors, Kinds, Steps
<1>5. \A c \in Collectors \cup {"metrics"} : ~Behind(c)'
  BY <1>4 DEF Behind
<1>6. /\ Returned("traces", got.traces, AtMost(world.traces, TracesLimit))'
      /\ Returned("operations", got.operations, world.operations)'
      /\ Returned("logs", got.logs, AtMost(world.logs, LogsLimit))'
  BY <1>1, <1>2, <1>5 DEF Returned, Collectors
<1>7. MetricsInv'
  <2>1. got'.metrics \in [Queries -> OrNone(Nat)] /\ \A q \in Queries : got'.metrics[q] = None
    BY <1>2 DEF OrNone
  <2> QED
    BY <1>1, <1>5, <2>1 DEF MetricsInv
<1>8. TraceLogsInv'
  BY <1>1, <1>2, NoTraceLogs DEF Kinds
<1>9. (kind' = "live" => step' \notin {"details", "trace_logs"}) /\ (session' = "lost" \/ failed' # {} => faulted')
  BY <1>1 DEF Kinds
<1> QED
  BY <1>3, <1>6, <1>7, <1>8, <1>9, Zenon DEF CollectedInv

(* A call of a SigNoz collector, answered or not. *)
LEMMA CallNext ==
  ASSUME CollectedInv, NEW call \in Collectors, step = call, Proceed(step), UNCHANGED <<kind, world>>,
         \/ Answered /\ got' = [got EXCEPT ![call] = Answer(call)]
         \/ Unanswered(call) /\ UNCHANGED got
  PROVE  CollectedInv'
<1>1. CollectionTypeOK /\ kind \in Kinds /\ (kind = "live" => step \notin {"details", "trace_logs"})
      /\ DOMAIN got = Fields
  BY FieldsOfNothing DEF CollectedInv, CollectionTypeOK, Kinds
<1>2. call \in Fields /\ call \notin {"details", "logs_of", "trace_logs", "metrics"}
  BY DEF Collectors, Fields
<1>3. /\ DOMAIN got' = Fields
      /\ \A f \in Fields \ {call} : got'[f] = got[f]
      /\ got'[call] = IF call \in failed' THEN <<>> ELSE Answer(call)
      /\ failed' = failed \/ failed' = failed \cup {call}
  <2>1. step \in UpTo(call)
    BY <1>1 DEF UpTo, Kinds, Collectors
  <2>2. got[call] = <<>> /\ call \notin failed
    BY <2>1, ReturnedFacts DEF Returned
  <2>3. CASE Answered /\ got' = [got EXCEPT ![call] = Answer(call)]
    <3>1. failed' = failed
      BY <2>3 DEF Answered
    <3>2. DOMAIN got' = Fields /\ got'[call] = Answer(call) /\ \A f \in Fields \ {call} : got'[f] = got[f]
      BY <1>1, <1>2, <2>3
    <3> QED
      BY <2>2, <3>1, <3>2
  <2>4. CASE Unanswered(call) /\ UNCHANGED got
    BY <1>1, <2>2, <2>4 DEF Unanswered
  <2> QED
    BY <2>3, <2>4
<1>4. /\ session' \in {"none", "half", "open", "lost"} /\ faulted' \in BOOLEAN
      /\ session' = "lost" \/ failed' # {} => faulted'
  <2>1. session = "lost" \/ failed # {} => faulted
    BY DEF CollectedInv
  <2> QED
    BY <1>1, <2>1, SessionFacts
<1>5. step \in Steps \ {"idle", "build", "built"} /\ step' = After(step) /\ place' = 1
  BY DEF Collectors, Steps, Proceed
<1>6. CollectionTypeOK'
  <2>1. After(step) \in Steps
    BY <1>1, <1>5, Onward
  <2>2. got'.details \in Seq(Traces) /\ got'.logs_of \in OrNone(Traces)
    BY <1>1, <1>2, <1>3 DEF CollectionTypeOK, Fields
  <2>3. failed' \subseteq Queries \cup {"traces", "operations", "logs", "details", "trace_logs"}
    BY <1>1, <1>3 DEF CollectionTypeOK, Collectors
  <2>4. place' \in 1..(TraceDetailsLimit + 1)
    BY <1>5, LimitsAssumption
  <2> QED
    BY <1>1, <1>3, <1>4, <1>5, <2>1, <2>2, <2>3, <2>4, TypesKept
<1>7. TraceLogsInv'
  <2>1. got'.trace_logs = <<>>
    <3>1. kind = "signoz_first" => step \in UpTo("trace_logs") \ {"trace_logs"}
      BY DEF UpTo, Collectors
    <3>2. got.trace_logs = <<>>
      BY <1>1, <3>1 DEF CollectedInv, TraceLogsInv, Kinds
    <3> QED
      BY <1>2, <1>3, <3>2 DEF Fields
  <2>2. kind' = "live" \/ step' \in {"traces", "operations", "logs", "details"}
    BY <1>1, <1>5 DEF After, SignozFirstOrder, Collectors, Kinds
  <2> QED
    BY <2>1, <2>2, NoTraceLogs
<1>8. /\ got'.metrics = got.metrics /\ failed' \cap Queries = failed \cap Queries
      /\ got'.metrics \in [Queries -> OrNone(Nat)] /\ step # "metrics"
  <2>1. got'.metrics = got.metrics
    BY <1>2, <1>3 DEF Fields
  <2>2. call \notin Queries /\ step # "metrics"
    BY DEF Collectors, Queries
  <2> QED
    BY <1>3, <2>1, <2>2 DEF CollectedInv, MetricsInv
<1>9. \A c \in Collectors :
        IF c = step THEN got'[c] = IF c \in failed' THEN <<>> ELSE Answer(c)
        ELSE got'[c] = got[c] /\ (c \in failed' <=> c \in failed)
  <2>1. Collectors \subseteq Fields
    BY DEF Collectors, Fields
  <2> QED
    BY <1>3, <2>1
<1> QED
  BY <1>4, <1>5, <1>6, <1>7, <1>8, <1>9, Proceeding

LEMMA CollectorsNext ==
  ASSUME CollectedInv, CollectTraces \/ CollectOperations \/ CollectLogs
  PROVE  CollectedInv'
<1>1. /\ Answer("traces") = AtMost(world.traces, TracesLimit)
      /\ Answer("operations") = world.operations
      /\ Answer("logs") = AtMost(world.logs, LogsLimit)
      /\ Collectors = {"traces", "operations", "logs"}
  BY DEF Answer, Collectors
<1>2. CASE CollectTraces
  BY <1>1, <1>2, CallNext DEF CollectTraces
<1>3. CASE CollectOperations
  BY <1>1, <1>3, CallNext DEF CollectOperations
<1>4. CASE CollectLogs
  BY <1>1, <1>4, CallNext DEF CollectLogs
<1> QED
  BY <1>2, <1>3, <1>4

(* A step of a loop over traces keeps what other calls returned.           *)
LEMMA Staying ==
  ASSUME CollectedInv, step \in {"details", "trace_logs"}, UNCHANGED <<kind, world, step>>,
         \A f \in {"traces", "operations", "logs", "metrics"} : got'[f] = got[f],
         failed' = failed \/ failed' = failed \cup {step},
         CollectionTypeOK', session' = "lost" \/ failed' # {} => faulted', TraceLogsInv'
  PROVE  CollectedInv'
<1>1. \A c : UpTo(c)' = UpTo(c) /\ Behind(c)' = Behind(c)
  BY DEF UpTo, Behind, Steps
<1>2. \A c \in Collectors \cup Queries : c \in failed' <=> c \in failed
  BY DEF Collectors, Queries
<1>3. /\ Returned("traces", got.traces, AtMost(world.traces, TracesLimit))'
      /\ Returned("operations", got.operations, world.operations)'
      /\ Returned("logs", got.logs, AtMost(world.logs, LogsLimit))'
  <2>1. \A c \in Collectors : Returned(c, got[c], Answer(c))
    BY ReturnedFacts
  <2>2. ASSUME NEW c \in Collectors
        PROVE  /\ step' \in UpTo(c)' => got'[c] = <<>> /\ c \notin failed'
               /\ Behind(c)' => got'[c] = IF c \in failed' THEN <<>> ELSE Answer(c)'
    <3>1. Answer(c)' = Answer(c)
      BY DEF Answer, Collectors
    <3>2. got'[c] = got[c]
      BY DEF Collectors
    <3> QED
      BY <1>1, <1>2, <2>1, <3>1, <3>2 DEF Returned
  <2>3. /\ Answer("traces")' = AtMost(world.traces, TracesLimit)'
        /\ Answer("operations")' = world'.operations
        /\ Answer("logs")' = AtMost(world.logs, LogsLimit)'
    BY DEF Answer
  <2> QED
    BY <2>2, <2>3 DEF Returned, Collectors
<1>4. MetricsInv'
  <2>1. \A q \in Queries : q \in failed' <=> q \in failed
    BY <1>2
  <2>2. failed' \cap Queries = failed \cap Queries
    BY <2>1
  <2>3. got'.metrics = got.metrics
    OBVIOUS
  <2>4. MetricsInv
    BY DEF CollectedInv
  <2> QED
    BY <1>1, <2>1, <2>2, <2>3, <2>4 DEF MetricsInv
<1>5. kind' = "live" => step' \notin {"details", "trace_logs"}
  BY DEF CollectedInv
<1> QED
  BY <1>3, <1>4, <1>5, Zenon DEF CollectedInv

LEMMA DetailsNext ==
  ASSUME CollectedInv, CollectDetails
  PROVE  CollectedInv'
<1>1. /\ CollectionTypeOK /\ kind = "signoz_first" /\ step = "details" /\ DOMAIN got = Fields
      /\ UNCHANGED <<kind, world>>
      /\ session = "lost" \/ failed # {} => faulted
  BY FieldsOfNothing DEF CollectedInv, CollectionTypeOK, CollectDetails
<1>2. AskedTraces \in Seq(Traces) /\ Len(AskedTraces) <= TraceDetailsLimit /\ place \in Nat \ {0}
  BY <1>1, CollectedTypes, LimitsAssumption DEF CollectionTypeOK
<1>3. got.trace_logs = <<>>
  BY <1>1 DEF CollectedInv, TraceLogsInv, UpTo
<1>4. CASE place > Len(AskedTraces)
  <2>1. Proceed(step) /\ UNCHANGED <<got, session, failed, faulted>>
    BY <1>2, <1>4 DEF CollectDetails
  <2>2. step' = "trace_logs" /\ place' = 1
    BY <1>1, <2>1 DEF Proceed, After, SignozFirstOrder
  <2>3. CollectionTypeOK'
    <3>1. step' \in Steps /\ place' \in 1..(TraceDetailsLimit + 1)
      BY <2>2, LimitsAssumption DEF Steps
    <3> QED
      BY <1>1, <2>1, <3>1, TypesKept DEF CollectionTypeOK
  <2>4. TraceLogsInv'
    <3>1. \A n \in 1..Len(AskedTraces') : ~(n < place')
      BY <2>2
    <3>2. got'.trace_logs = <<>> /\ kind' # "live"
      BY <1>1, <1>3, <2>1
    <3> QED
      BY <2>2, <3>1, <3>2 DEF TraceLogsInv
  <2>5. got'.metrics \in [Queries -> OrNone(Nat)] /\ got'.metrics = got.metrics
    BY <2>1 DEF CollectedInv, MetricsInv
  <2>6. step \notin Collectors /\ step # "metrics" /\ step \in Steps \ {"idle", "build", "built"}
    BY <1>1 DEF Collectors, Steps
  <2> QED
    BY <1>1, <2>1, <2>3, <2>4, <2>5, <2>6, Proceeding
<1>5. CASE place <= Len(AskedTraces)
  <2>1. /\ Answered \/ Unanswered("details")
        /\ got' = got \/ got' = [got EXCEPT !.details = Append(@, AskedTraces[place])]
        /\ place' = place + 1 /\ step' = step
    BY <1>2, <1>5 DEF CollectDetails
  <2>2. /\ session' \in {"none", "half", "open", "lost"} /\ faulted' \in BOOLEAN
        /\ session' = "lost" \/ failed' # {} => faulted'
        /\ failed' = failed \/ failed' = failed \cup {"details"}
    BY <1>1, <2>1, SessionFacts
  <2>3. /\ DOMAIN got' = Fields
        /\ \A f \in Fields \ {"details"} : got'[f] = got[f]
        /\ got'.details \in Seq(Traces)
    <3>1. AskedTraces[place] \in Traces /\ got.details \in Seq(Traces)
      BY <1>1, <1>2, <1>5 DEF CollectionTypeOK
    <3> QED
      BY <1>1, <2>1, <3>1 DEF Fields
  <2>4. CollectionTypeOK'
    <3>1. place' \in 1..(TraceDetailsLimit + 1)
      BY <1>2, <1>5, <2>1, LimitsAssumption
    <3>2. got'.logs_of \in OrNone(Traces)
      BY <1>1, <2>3 DEF CollectionTypeOK, Fields
    <3>3. failed' \subseteq Queries \cup {"traces", "operations", "logs", "details", "trace_logs"}
      BY <1>1, <2>2 DEF CollectionTypeOK
    <3>4. step' \in Steps
      BY <1>1, <2>1 DEF Steps
    <3> QED
      BY <1>1, <2>2, <2>3, <3>1, <3>2, <3>3, <3>4, TypesKept
  <2>5. TraceLogsInv'
    BY <1>1, <1>3, <2>1, <2>3, NoTraceLogs DEF Fields
  <2>6. \A f \in {"traces", "operations", "logs", "metrics"} : got'[f] = got[f]
    BY <2>3 DEF Fields
  <2> QED
    BY <1>1, <2>1, <2>2, <2>4, <2>5, <2>6, Staying
<1> QED
  BY <1>2, <1>4, <1>5

LEMMA TraceLogsCollected ==
  ASSUME CollectedInv, CollectTraceLogs
  PROVE  CollectedInv'
<1>1. /\ CollectionTypeOK /\ kind = "signoz_first" /\ step = "trace_logs" /\ DOMAIN got = Fields
      /\ UNCHANGED <<kind, world>>
      /\ session = "lost" \/ failed # {} => faulted
  BY FieldsOfNothing DEF CollectedInv, CollectionTypeOK, CollectTraceLogs
<1>2. AskedTraces \in Seq(Traces) /\ Len(AskedTraces) <= TraceDetailsLimit /\ place \in Nat \ {0}
  BY <1>1, CollectedTypes, LimitsAssumption DEF CollectionTypeOK
<1>3. TraceLogsInv'
  BY TraceLogsNext
<1> DEFINE over == got.logs # <<>> \/ got.trace_logs # <<>> \/ place > Len(AskedTraces)
           rows == AtMost(world.trace_logs[AskedTraces[place]], LogsLimit)
           asked == IF rows = <<>> THEN got.logs_of ELSE AskedTraces[place]
<1>4. CASE over
  <2>1. Proceed(step) /\ UNCHANGED <<got, session, failed, faulted>>
    BY <1>4, Zenon DEF CollectTraceLogs
  <2>2. step' = "metrics" /\ place' = 1
    BY <1>1, <2>1 DEF Proceed, After, SignozFirstOrder
  <2>3. CollectionTypeOK'
    <3>1. step' \in Steps /\ place' \in 1..(TraceDetailsLimit + 1)
      BY <2>2, LimitsAssumption DEF Steps
    <3> QED
      BY <1>1, <2>1, <3>1, TypesKept DEF CollectionTypeOK
  <2>4. got'.metrics \in [Queries -> OrNone(Nat)] /\ got'.metrics = got.metrics
    BY <2>1 DEF CollectedInv, MetricsInv
  <2>5. step \notin Collectors /\ step # "metrics" /\ step \in Steps \ {"idle", "build", "built"}
    BY <1>1 DEF Collectors, Steps
  <2> HIDE DEF over
  <2> QED
    BY <1>1, <1>3, <2>1, <2>3, <2>4, <2>5, Proceeding
<1>5. CASE ~over
  <2>1. /\ Answered \/ Unanswered("trace_logs")
        /\ got' = got \/ got' = [got EXCEPT !.trace_logs = rows, !.logs_of = asked]
        /\ place' = place + 1 /\ step' = step
    BY <1>5 DEF CollectTraceLogs
  <2>2. /\ session' \in {"none", "half", "open", "lost"} /\ faulted' \in BOOLEAN
        /\ session' = "lost" \/ failed' # {} => faulted'
        /\ failed' = failed \/ failed' = failed \cup {"trace_logs"}
    BY <1>1, <2>1, SessionFacts
  <2>3. place \in 1..Len(AskedTraces)
    BY <1>2, <1>5
  <2>4. got.logs_of \in OrNone(Traces) /\ asked \in OrNone(Traces) /\ got.details \in Seq(Traces)
    <3>1. AskedTraces[place] \in Traces
      BY <1>2, <2>3
    <3> QED
      BY <1>1, <3>1 DEF CollectionTypeOK, OrNone
  <2> HIDE DEF over, rows, asked
  <2>5. /\ DOMAIN got' = Fields
        /\ \A f \in Fields \ {"trace_logs", "logs_of"} : got'[f] = got[f]
        /\ got'.logs_of \in OrNone(Traces)
    BY <1>1, <2>1, <2>4 DEF Fields
  <2>6. CollectionTypeOK'
    <3>1. place' \in 1..(TraceDetailsLimit + 1)
      BY <1>2, <2>1, <2>3, LimitsAssumption
    <3>2. got'.details \in Seq(Traces)
      BY <2>4, <2>5 DEF Fields
    <3>3. failed' \subseteq Queries \cup {"traces", "operations", "logs", "details", "trace_logs"}
      BY <1>1, <2>2 DEF CollectionTypeOK
    <3>4. step' \in Steps
      BY <1>1, <2>1 DEF Steps
    <3> QED
      BY <1>1, <2>2, <2>5, <3>1, <3>2, <3>3, <3>4, TypesKept
  <2>7. \A f \in {"traces", "operations", "logs", "metrics"} : got'[f] = got[f]
    BY <2>5 DEF Fields
  <2> QED
    BY <1>1, <1>3, <2>1, <2>2, <2>6, <2>7, Staying
<1> QED
  BY <1>4, <1>5

LEMMA CorroborateNext ==
  ASSUME CollectedInv, Corroborate
  PROVE  CollectedInv'
<1>1. /\ CollectionTypeOK /\ kind \in Kinds /\ step = "metrics" /\ DOMAIN got = Fields
      /\ UNCHANGED <<kind, world, session>> /\ Proceed(step)
      /\ session = "lost" \/ failed # {} => faulted
  BY FieldsOfNothing DEF CollectedInv, CollectionTypeOK, Corroborate, Kinds
<1>2. /\ got.metrics \in [Queries -> OrNone(Nat)]
      /\ failed \cap Queries = {} /\ \A q \in Queries : got.metrics[q] = None
  BY <1>1 DEF CollectedInv, MetricsInv, UpTo, Kinds, Steps
<1>3. world.metrics \in [Queries -> OrNone(Nat)]
  BY <1>1, WorldFacts DEF CollectionTypeOK
<1>4. /\ step' = IF kind = "signoz_first" THEN "build" ELSE "logs"
      /\ place' = 1
  BY <1>1 DEF Proceed, After, SignozFirstOrder, LiveOrder
<1>5. /\ DOMAIN got' = Fields
      /\ \A f \in Fields \ {"metrics"} : got'[f] = got[f]
      /\ got'.metrics \in [Queries -> OrNone(Nat)]
      /\ \E lost \in SUBSET Queries : failed' = failed \cup lost
      /\ \/ /\ kind = "signoz_first" /\ failed' \cap Queries = {}
            /\ \A q \in Queries : got'.metrics[q] = None
         \/ \A q \in Queries : got'.metrics[q] = IF q \in failed' THEN None ELSE world.metrics[q]
      /\ faulted' \in BOOLEAN
      /\ session' = "lost" \/ failed' # {} => faulted'
  <2>1. CASE kind = "signoz_first" /\ UNCHANGED <<got, failed, faulted>>
    <3>1. failed' = failed \cup {}
      BY <2>1
    <3>2. faulted' \in BOOLEAN
      BY <1>1, <2>1 DEF CollectionTypeOK
    <3>3. session' = "lost" \/ failed' # {} => faulted'
      BY <1>1, <2>1
    <3> QED
      BY <1>1, <1>2, <2>1, <3>1, <3>2, <3>3
  <2>2. CASE \E lost \in Losses :
               /\ got' = [got EXCEPT !.metrics = [q \in Queries |-> PrometheusValue(q, lost)]]
               /\ failed' = failed \cup lost
               /\ faulted' = (faulted \/ lost # {})
    <3>1. PICK lost \in Losses :
               /\ got' = [got EXCEPT !.metrics = [q \in Queries |-> PrometheusValue(q, lost)]]
               /\ failed' = failed \cup lost
               /\ faulted' = (faulted \/ lost # {})
      BY <2>2
    <3>2. lost \in SUBSET Queries
      BY LossesAssumption
    <3> DEFINE values == [q \in Queries |-> PrometheusValue(q, lost)]
    <3>3. values \in [Queries -> OrNone(Nat)]
      BY <1>3 DEF PrometheusValue, OrNone
    <3>4. \A q \in Queries : values[q] = IF q \in failed' THEN None ELSE world.metrics[q]
      BY <1>2, <3>1 DEF PrometheusValue
    <3> HIDE DEF values
    <3>5. DOMAIN got' = Fields /\ got'.metrics = values /\ \A f \in Fields \ {"metrics"} : got'[f] = got[f]
      BY <1>1, <3>1 DEF Fields, values
    <3>6. faulted' \in BOOLEAN
      BY <3>1
    <3>7. session' = "lost" \/ failed' # {} => faulted'
      BY <1>1, <3>1
    <3> QED
      BY <3>1, <3>2, <3>3, <3>4, <3>5, <3>6, <3>7
  <2> QED
    BY <2>1, <2>2 DEF Corroborate
<1>6. \A c \in Collectors \cup {"trace_logs"} : c \in failed' <=> c \in failed
  BY <1>5 DEF Collectors, Queries
<1>7. CollectionTypeOK'
  <2>1. step' \in Steps /\ place' \in 1..(TraceDetailsLimit + 1)
    BY <1>4, LimitsAssumption DEF Steps
  <2>2. got'.details \in Seq(Traces) /\ got'.logs_of \in OrNone(Traces)
    BY <1>1, <1>5 DEF CollectionTypeOK, Fields
  <2>3. failed' \subseteq Queries \cup {"traces", "operations", "logs", "details", "trace_logs"}
    BY <1>1, <1>5 DEF CollectionTypeOK
  <2>4. session' \in {"none", "half", "open", "lost"}
    BY <1>1 DEF CollectionTypeOK
  <2> QED
    BY <1>1, <1>5, <2>1, <2>2, <2>3, <2>4, TypesKept
<1>8. /\ got'.traces = got.traces /\ got'.logs = got.logs /\ got'.trace_logs = got.trace_logs
      /\ got'.logs_of = got.logs_of
  BY <1>5 DEF Fields
<1>9. TraceLogsInv'
  <2>1. CASE kind = "signoz_first"
    <3>1. TraceLogsInv
      BY DEF CollectedInv
    <3> QED
      BY <1>1, <1>4, <1>6, <1>8, <2>1, <3>1, TraceLogsBehind
  <2>2. CASE kind = "live"
    <3>1. got.trace_logs = <<>>
      BY <2>2 DEF CollectedInv, TraceLogsInv
    <3> QED
      BY <1>1, <1>8, <2>2, <3>1, NoTraceLogs
  <2> QED
    BY <1>1, <2>1, <2>2 DEF Kinds
<1>10. \A c \in Collectors : c # step /\ got'[c] = got[c] /\ (c \in failed' <=> c \in failed)
  BY <1>1, <1>5, <1>6 DEF Collectors, Fields
<1>11. step \in Steps \ {"idle", "build", "built"}
  BY <1>1 DEF Steps
<1> QED
  BY <1>1, <1>5, <1>7, <1>9, <1>10, <1>11, Proceeding

(* Beyond the calls nothing is collected. *)
LEMMA BuiltNext ==
  ASSUME CollectedInv, UNCHANGED <<kind, world, session, place, got, failed, faulted>>,
         (step = "build" /\ step' = "built") \/ (step = "built" /\ step' = "idle")
  PROVE  CollectedInv'
<1>1. CollectionTypeOK /\ kind \in Kinds
  BY DEF CollectedInv, CollectionTypeOK, Kinds
<1>2. CollectionTypeOK'
  <2>1. step' \in Steps /\ DOMAIN got' = DOMAIN Nothing' /\ faulted' = faulted
    BY <1>1 DEF Steps, CollectionTypeOK, Nothing
  <2> QED
    BY <1>1, <2>1 DEF CollectionTypeOK
<1>3. \A c \in Collectors \cup {"metrics"} :
        /\ step \notin UpTo(c) /\ step' \notin UpTo(c)' /\ Behind(c) /\ UpTo(c)' = UpTo(c)
  BY <1>1 DEF UpTo, Behind, Collectors, Steps, Kinds
<1>4. /\ Returned("traces", got.traces, AtMost(world.traces, TracesLimit))'
      /\ Returned("operations", got.operations, world.operations)'
      /\ Returned("logs", got.logs, AtMost(world.logs, LogsLimit))'
  <2>1. \A c \in Collectors : Returned(c, got[c], Answer(c))
    BY ReturnedFacts
  <2>2. \A c \in Collectors : got[c] = IF c \in failed THEN <<>> ELSE Answer(c)
    BY <1>3, <2>1 DEF Returned
  <2>3. /\ Answer("traces") = AtMost(world.traces, TracesLimit)
        /\ Answer("operations") = world.operations
        /\ Answer("logs") = AtMost(world.logs, LogsLimit)
    BY DEF Answer
  <2> QED
    BY <1>3, <2>2, <2>3 DEF Returned, Collectors
<1>5. MetricsInv'
  <2>1. MetricsInv
    BY DEF CollectedInv
  <2> QED
    BY <1>3, <2>1 DEF MetricsInv
<1>6. TraceLogsInv'
  <2>1. TraceLogsInv
    BY DEF CollectedInv
  <2>2. CASE kind = "signoz_first"
    BY <2>1, <2>2, TraceLogsBehind
  <2>3. CASE kind = "live"
    <3>1. got.trace_logs = <<>>
      BY <2>1, <2>3 DEF TraceLogsInv
    <3> QED
      BY <2>3, <3>1, NoTraceLogs
  <2> QED
    BY <1>1, <2>2, <2>3 DEF Kinds
<1>7. /\ kind' = "live" => step' \notin {"details", "trace_logs"}
      /\ session' = "lost" \/ failed' # {} => faulted'
  BY DEF CollectedInv
<1> QED
  BY <1>2, <1>4, <1>5, <1>6, <1>7, Zenon DEF CollectedInv

LEMMA RestartNext ==
  ASSUME CollectedInv, RestartServer
  PROVE  CollectedInv'
<1>1. /\ UNCHANGED <<kind, world, step, place, got, failed>>
      /\ session' = "lost" /\ faulted' = TRUE
  BY DEF RestartServer
<1>2. CollectionTypeOK'
  <2>1. faulted' \in BOOLEAN /\ session' \in {"none", "half", "open", "lost"}
    BY <1>1
  <2>2. DOMAIN got' = DOMAIN Nothing'
    BY <1>1 DEF CollectedInv, CollectionTypeOK, Nothing
  <2> QED
    BY <1>1, <2>1, <2>2 DEF CollectedInv, CollectionTypeOK
<1>3. \A c : UpTo(c)' = UpTo(c) /\ Behind(c)' = Behind(c)
  BY <1>1 DEF UpTo, Behind, Steps
<1>4. /\ Returned("traces", got.traces, AtMost(world.traces, TracesLimit))'
      /\ Returned("operations", got.operations, world.operations)'
      /\ Returned("logs", got.logs, AtMost(world.logs, LogsLimit))'
  BY <1>1, <1>3 DEF CollectedInv, Returned
<1>5. MetricsInv'
  BY <1>1, <1>3 DEF CollectedInv, MetricsInv
<1>6. TraceLogsInv'
  <2>1. AskedTraces' = AskedTraces /\ Logs(got)' = Logs(got)
    BY <1>1 DEF AskedTraces
  <2> QED
    BY <1>1, <1>3, <2>1, Zenon DEF CollectedInv, TraceLogsInv
<1>7. /\ kind' = "live" => step' \notin {"details", "trace_logs"}
      /\ session' = "lost" \/ failed' # {} => faulted'
  BY <1>1 DEF CollectedInv
<1> QED
  BY <1>2, <1>4, <1>5, <1>6, <1>7, Zenon DEF CollectedInv

LEMMA CollectNext ==
  ASSUME CollectedInv, Collect
  PROVE  CollectedInv'
<1>1. CASE CollectTraces \/ CollectOperations \/ CollectLogs
  BY <1>1, CollectorsNext
<1>2. CASE CollectDetails
  BY <1>2, DetailsNext
<1>3. CASE CollectTraceLogs
  BY <1>3, TraceLogsCollected
<1>4. CASE Corroborate
  BY <1>4, CorroborateNext
<1>5. CASE Build
  BY <1>5, BuiltNext DEF Build
<1>6. CASE RestartServer
  BY <1>6, RestartNext
<1> QED
  BY <1>1, <1>2, <1>3, <1>4, <1>5, <1>6 DEF Collect

-----------------------------------------------------------------------------
(* The steps of an analysis *)

LEMMA SamePacket ==
  ASSUME UNCHANGED world, NEW family, NEW k, NEW g, NEW a, NEW h
  PROVE  ScorePacket(family, k, g, a, h)' = ScorePacket(family, k, g, a, h)
BY DEF ScorePacket, Features, EvidenceCoverage, TraceDetailHints

LEMMA CollectedUnchanged ==
  ASSUME CollectedInv, UNCHANGED collection
  PROVE  CollectedInv'
<1>1. UNCHANGED <<kind, world, session, step, place, got, failed, faulted>>
  BY DEF collection
<1>2. CollectionTypeOK'
  BY <1>1 DEF CollectedInv, CollectionTypeOK, Nothing, Steps
<1>3. \A c : UpTo(c)' = UpTo(c) /\ Behind(c)' = Behind(c)
  BY <1>1 DEF UpTo, Behind, Steps
<1>4. /\ Returned("traces", got.traces, AtMost(world.traces, TracesLimit))'
      /\ Returned("operations", got.operations, world.operations)'
      /\ Returned("logs", got.logs, AtMost(world.logs, LogsLimit))'
  BY <1>1, <1>3 DEF CollectedInv, Returned
<1>5. MetricsInv'
  BY <1>1, <1>3 DEF CollectedInv, MetricsInv
<1>6. TraceLogsInv'
  <2>1. AskedTraces' = AskedTraces /\ Logs(got)' = Logs(got)
    BY <1>1 DEF AskedTraces
  <2> QED
    BY <1>1, <1>3, <2>1, Zenon DEF CollectedInv, TraceLogsInv
<1> QED
  BY <1>1, <1>2, <1>4, <1>5, <1>6, Zenon DEF CollectedInv

LEMMA AnalysisInit == Init => AnalysisInv
<1> SUFFICES ASSUME Init PROVE AnalysisInv
  OBVIOUS
<1>1. CollectionInit /\ alert = None /\ hits = None /\ decision = None /\ plan = None
  BY DEF Init
<1>2. /\ kind \in Kinds /\ world \in Worlds /\ session = "none" /\ place = 1 /\ step = "idle"
      /\ got = Nothing /\ failed = {} /\ faulted = FALSE
  BY <1>1 DEF CollectionInit, Kinds
<1>3. CollectionTypeOK
  <2>1. got.details = <<>> /\ got.logs_of = None /\ DOMAIN got = DOMAIN Nothing
    BY <1>2 DEF Nothing
  <2>2. got.details \in Seq(Traces) /\ got.logs_of \in OrNone(Traces)
    BY <2>1 DEF OrNone
  <2>3. step \in Steps /\ place \in 1..(TraceDetailsLimit + 1)
    BY <1>2, LimitsAssumption DEF Steps
  <2> QED
    BY <1>2, <2>1, <2>2, <2>3 DEF CollectionTypeOK, Kinds
<1>4. \A c \in Collectors \cup {"metrics", "trace_logs"} : step \notin UpTo(c) /\ ~Behind(c)
  BY <1>2 DEF UpTo, Behind, Collectors, Steps, Kinds
<1>5. /\ Returned("traces", got.traces, AtMost(world.traces, TracesLimit))
      /\ Returned("operations", got.operations, world.operations)
      /\ Returned("logs", got.logs, AtMost(world.logs, LogsLimit))
  BY <1>4 DEF Returned, Collectors
<1>6. MetricsInv
  <2>1. got.metrics \in [Queries -> OrNone(Nat)]
    BY <1>2 DEF Nothing, OrNone
  <2> QED
    BY <1>4, <2>1 DEF MetricsInv
<1>7. TraceLogsInv
  <2>1. got.trace_logs = <<>> /\ step # "trace_logs"
    BY <1>2 DEF Nothing
  <2> QED
    BY <1>4, <2>1 DEF TraceLogsInv
<1>8. CollectedInv
  BY <1>2, <1>3, <1>5, <1>6, <1>7 DEF CollectedInv
<1>9. DecidedInv
  BY <1>1 DEF DecidedInv, OrNone
<1> QED
  BY <1>8, <1>9 DEF AnalysisInv

(* A decision stays the one of its bundle, which only a new one replaces.  *)
LEMMA DecidedNext ==
  ASSUME AnalysisInv, [Next]_vars
  PROVE  DecidedInv'
<1>1. /\ alert \in OrNone(Alerts) /\ hits \in OrNone(Hits)
      /\ decision # None =>
           /\ step = "built" /\ alert \in Alerts /\ hits \in Hits
           /\ \E family \in {"hybrid", "fast_scorer"} :
                decision = ScorePacket(family, kind, got, alert, hits)
      /\ plan # None => decision # None /\ plan = PlanInvestigation(decision, alert)
  BY DEF AnalysisInv, DecidedInv
<1>2. alert = None => decision = None
  BY <1>1, AlertsAssumption
<1>3. ASSUME UNCHANGED <<kind, world, got, alert, hits, decision>>, decision # None => step' = "built",
             plan' = plan \/ (decision # None /\ plan' = PlanInvestigation(decision, alert))
      PROVE  DecidedInv'
  <2>1. \A family \in {"hybrid", "fast_scorer"} :
          ScorePacket(family, kind, got, alert, hits)' = ScorePacket(family, kind, got, alert, hits)
    <3>1. \A family, k, g, a, h : ScorePacket(family, k, g, a, h)' = ScorePacket(family, k, g, a, h)
      BY <1>3, SamePacket
    <3> QED
      BY <1>3, <3>1
  <2> QED
    BY <1>1, <1>3, <2>1 DEF DecidedInv
<1>4. CASE Start
  BY <1>4 DEF Start, DecidedInv, OrNone
<1>5. CASE Gather
  <2>1. decision # None => RestartServer
    BY <1>1, <1>5 DEF Gather, Collect, CollectTraces, CollectOperations, CollectLogs, CollectDetails,
                      CollectTraceLogs, Corroborate, Build
  <2>2. CASE decision # None
    BY <1>1, <1>3, <1>5, <2>1, <2>2 DEF RestartServer, Gather
  <2>3. CASE decision = None
    BY <1>1, <1>5, <2>3 DEF Gather, DecidedInv
  <2> QED
    BY <2>2, <2>3
<1>6. CASE Score
  <2>1. /\ step = "built" /\ decision = None /\ alert' \in Alerts /\ hits' \in Hits
        /\ UNCHANGED collection /\ plan' = None
    BY <1>1, <1>2, <1>6 DEF Score
  <2>2. PICK artifact \in Artifacts \ {"incomplete"} :
          decision' = ScorePacket(ScorerOf(artifact), kind, got, alert', hits')
    BY <1>6 DEF Score
  <2>3. ScorerOf(artifact) \in {"hybrid", "fast_scorer"}
    BY DEF ScorerOf
  <2>4. kind' = kind /\ got' = got /\ world' = world /\ step' = step
    BY <2>1 DEF collection
  <2>5. decision' = ScorePacket(ScorerOf(artifact), kind, got, alert, hits)'
    <3>1. \A family, k, g, a, h : ScorePacket(family, k, g, a, h)' = ScorePacket(family, k, g, a, h)
      BY <2>4, SamePacket
    <3> QED
      BY <2>2, <2>4, <3>1
  <2> QED
    BY <2>1, <2>3, <2>4, <2>5 DEF DecidedInv, OrNone
<1>7. CASE ScoreRaises
  BY <1>1, <1>2, <1>3, <1>7 DEF ScoreRaises
<1>8. CASE Route
  BY <1>1, <1>3, <1>8 DEF Route, collection
<1>9. CASE UNCHANGED vars
  BY <1>1, <1>3, <1>9 DEF vars, collection
<1> QED
  BY <1>4, <1>5, <1>6, <1>7, <1>8, <1>9 DEF Next

LEMMA AnalysisNext == AnalysisInv /\ [Next]_vars => AnalysisInv'
<1> SUFFICES ASSUME AnalysisInv, [Next]_vars PROVE AnalysisInv'
  OBVIOUS
<1>1. CollectedInv
  BY DEF AnalysisInv
<1>2. CollectedInv'
  <2>1. CASE Start
    BY <2>1, BeginNext DEF Start
  <2>2. CASE Gather
    BY <1>1, <2>2, CollectNext DEF Gather
  <2>3. CASE Score \/ Route \/ UNCHANGED vars
    BY <1>1, <2>3, CollectedUnchanged DEF Score, Route, vars
  <2>4. CASE ScoreRaises
    BY <1>1, <2>4, BuiltNext DEF ScoreRaises
  <2> QED
    BY <2>1, <2>2, <2>3, <2>4 DEF Next
<1> QED
  BY <1>2, DecidedNext DEF AnalysisInv

(* In every reachable state the collection and the decision are related to *)
(* the world and the bundle as AnalysisInv says.                           *)
THEOREM AnalysisInvariant == Spec => []AnalysisInv
BY AnalysisInit, AnalysisNext, PTL DEF Spec

-----------------------------------------------------------------------------
(* Theorems *)

(* Every variable keeps its type, and every score its range, in whatever   *)
(* order calls fail and whatever is scored.                                *)
THEOREM AnalysisTypes == Spec => []TypeOK
<1>1. AnalysisInv => TypeOK
  <2> SUFFICES ASSUME AnalysisInv PROVE TypeOK
    OBVIOUS
  <2>1. CollectionTypeOK /\ alert \in OrNone(Alerts) /\ hits \in OrNone(Hits)
    BY DEF AnalysisInv, CollectedInv, DecidedInv
  <2>2. plan # None => decision # None
    BY DEF AnalysisInv, DecidedInv
  <2>3. ASSUME decision # None
        PROVE  /\ {decision.severity, decision.novelty, decision.confidence} \subseteq 0..100
               /\ decision.action \in {"page_owner", "open_ticket", "observe"}
    <3>1. step = "built" /\ alert \in Alerts /\ hits \in Hits /\ kind \in Kinds
      BY <2>1, <2>3 DEF AnalysisInv, DecidedInv, CollectionTypeOK, Kinds
    <3>2. PICK family \in Families : decision = ScorePacket(family, kind, got, alert, hits)
      BY <2>3 DEF AnalysisInv, DecidedInv, Families
    <3>3. Evidence(got)
      BY <3>1, CollectedTypes DEF AnalysisInv
    <3>4. /\ decision.severity \in 0..100 /\ decision.novelty \in 0..100 /\ decision.confidence \in 0..100
          /\ decision.action \in {"page_owner", "open_ticket", "observe"}
      BY <3>1, <3>2, <3>3, DecisionFacts
    <3> QED
      BY <3>4
  <2> QED
    BY <2>1, <2>2, <2>3 DEF TypeOK
<1> QED
  BY <1>1, AnalysisInvariant, PTL

(* A bundle loses evidence only to a fault of its own time.                *)
THEOREM AnalysisNoLossWithoutFault == Spec => []NoLossWithoutFault
<1>1. AnalysisInv => NoLossWithoutFault
  BY DEF AnalysisInv, CollectedInv, NoLossWithoutFault
<1> QED
  BY <1>1, AnalysisInvariant, PTL

(* The logs of a bundle are the service's or those of one trace it refers  *)
(* to, and are missing only if there are none or a call failed.            *)
THEOREM AnalysisLogsAreOfOneOrigin == Spec => []LogsAreOfOneOrigin
<1>1. AnalysisInv => LogsAreOfOneOrigin
  <2> SUFFICES ASSUME AnalysisInv, step = "built", kind = "signoz_first" PROVE LogsAreOfOneOrigin
    BY DEF LogsAreOfOneOrigin
  <2>1. ReferredTraces(got) = {AskedTraces[n] : n \in 1..Len(AskedTraces)}
    BY DEF ReferredTraces, AskedTraces
  <2>2. step \notin UpTo("trace_logs") /\ Behind("trace_logs")
    BY DEF UpTo, Behind
  <2>3. got.trace_logs # <<>> =>
          /\ got.logs = <<>>
          /\ \E n \in 1..Len(AskedTraces) :
               /\ got.logs_of = AskedTraces[n]
               /\ got.trace_logs = AtMost(world.trace_logs[AskedTraces[n]], LogsLimit)
    BY DEF AnalysisInv, CollectedInv, TraceLogsInv
  <2>4. Logs(got) = <<>> =>
          \A n \in 1..Len(AskedTraces) :
            world.trace_logs[AskedTraces[n]] = <<>> \/ "trace_logs" \in failed
    BY <2>2 DEF AnalysisInv, CollectedInv, TraceLogsInv
  <2>5. /\ got.logs # <<>> => got.trace_logs = <<>>
        /\ got.trace_logs # <<>> =>
             /\ got.logs_of \in ReferredTraces(got)
             /\ got.trace_logs = AtMost(world.trace_logs[got.logs_of], LogsLimit)
    BY <2>1, <2>3
  <2>6. Logs(got) = <<>> => \A t \in ReferredTraces(got) :
          world.trace_logs[t] = <<>> \/ {"logs", "trace_logs"} \cap failed # {}
    BY <2>1, <2>4
  <2> QED
    BY <2>5, <2>6 DEF LogsAreOfOneOrigin
<1> QED
  BY <1>1, AnalysisInvariant, PTL

(* What the bundle built has of its traces and logs. *)
LEMMA BuiltFacts ==
  ASSUME CollectedInv, step = "built"
  PROVE  /\ kind \in Kinds /\ world \in Worlds /\ Evidence(got)
         /\ got.traces = IF "traces" \in failed THEN <<>> ELSE AtMost(world.traces, TracesLimit)
         /\ got.operations = IF "operations" \in failed THEN <<>> ELSE world.operations
         /\ got.logs = IF "logs" \in failed THEN <<>> ELSE AtMost(world.logs, LogsLimit)
         /\ \/ kind = "signoz_first" /\ \A q \in Queries : got.metrics[q] = None
            \/ \A q \in Queries : got.metrics[q] = IF q \in failed THEN None ELSE world.metrics[q]
<1>1. kind \in Kinds /\ world \in Worlds
  BY DEF CollectedInv, CollectionTypeOK, Kinds
<1>2. Behind("traces") /\ Behind("operations") /\ Behind("logs") /\ Behind("metrics")
  BY <1>1 DEF Behind, UpTo, Kinds, Steps
<1> QED
  BY <1>1, <1>2, CollectedTypes DEF CollectedInv, Returned, MetricsInv

(* Evidence counts as complete only with traces read, and is complete      *)
(* whenever nothing failed and there was something to see.                 *)
THEOREM AnalysisCompleteIsWitnessed == Spec => []CompleteIsWitnessed
<1>1. AnalysisInv => CompleteIsWitnessed
  <2> SUFFICES ASSUME AnalysisInv, step = "built" PROVE CompleteIsWitnessed
    BY DEF CompleteIsWitnessed
  <2>1. /\ world \in Worlds /\ Evidence(got)
        /\ got.traces = IF "traces" \in failed THEN <<>> ELSE AtMost(world.traces, TracesLimit)
        /\ got.logs = IF "logs" \in failed THEN <<>> ELSE AtMost(world.logs, LogsLimit)
    BY BuiltFacts DEF AnalysisInv
  <2>2. /\ AtMost(world.traces, TracesLimit) = <<>> <=> world.traces = <<>>
        /\ AtMost(world.logs, LogsLimit) = <<>> <=> world.logs = <<>>
        /\ AtMost(world.logs, LogsLimit) \in Seq(LogRow)
    BY <2>1, WorldFacts, AtMostFacts, LimitsAssumption
  <2>3. IF got.traces = <<>> THEN TraceErrorRatio(got) = None ELSE TraceErrorRatio(got) \in 0..100
    BY <2>1, TraceErrorRatioFacts DEF Evidence
  <2>4. EvidenceState(got) = "complete" => "traces" \notin failed /\ world.traces # <<>>
    BY <2>1, <2>2, <2>3 DEF EvidenceState
  <2>5. ASSUME failed = {}, world.traces # <<>>,
               SampleTraceIds(AtMost(world.traces, TracesLimit)) # <<>> \/ world.logs # <<>>
        PROVE  EvidenceState(got) = "complete"
    <3>1. got.traces = AtMost(world.traces, TracesLimit) /\ got.logs = AtMost(world.logs, LogsLimit)
      BY <2>1, <2>5
    <3>2. TraceErrorRatio(got) # None
      <4>1. got.traces # <<>>
        BY <2>2, <2>5, <3>1
      <4>2. \A v \in 0..100 : v # None
        BY NoneAssumption
      <4> QED
        BY <2>3, <4>1, <4>2
    <3>3. ASSUME world.logs # <<>> PROVE LogRefs(got) # <<>>
      <4>1. got.logs # <<>> /\ Logs(got) = got.logs /\ got.logs \in Seq(LogRow)
        BY <2>2, <3>1, <3>3 DEF Logs
      <4> DEFINE m == Len(AtMost(Logs(got), LogsLimit))
      <4>2. AtMost(Logs(got), LogsLimit) # <<>> /\ AtMost(Logs(got), LogsLimit) \in Seq(LogRow)
        BY <4>1, AtMostFacts, LimitsAssumption
      <4>3. m \in Nat \ {0}
        BY <4>2
      <4>4. LogRefs(got) = [n \in 1..m |-> IF Logs(got)[n].id = None THEN n ELSE Logs(got)[n].id]
        BY DEF LogRefs
      <4> HIDE DEF m
      <4>5. DOMAIN LogRefs(got) = 1..m /\ 1 \in 1..m
        BY <4>3, <4>4
      <4>6. \A s : s = <<>> => 1 \notin DOMAIN s
        OBVIOUS
      <4> QED
        BY <4>5, <4>6
    <3>4. SampleTraceIds(got.traces) # <<>> \/ LogRefs(got) # <<>>
      BY <2>5, <3>1, <3>3
    <3> QED
      BY <3>2, <3>4 DEF EvidenceState
  <2> QED
    BY <2>4, <2>5 DEF CompleteIsWitnessed
<1> QED
  BY <1>1, AnalysisInvariant, PTL

(* The evidence without a failure has the types of the world's, too.       *)
LEMMA UnfailedFacts ==
  ASSUME CollectedInv, step = "built"
  PROVE  /\ Evidence(Unfailed) /\ DOMAIN Unfailed = Fields
         /\ Unfailed.traces = AtMost(world.traces, TracesLimit)
         /\ Unfailed.operations = world.operations
         /\ \A q \in Queries : got.metrics[q] = None \/ got.metrics[q] = Unfailed.metrics[q]
<1>1. /\ kind \in Kinds /\ world \in Worlds /\ Evidence(got) /\ DOMAIN got = Fields
      /\ \/ kind = "signoz_first" /\ \A q \in Queries : got.metrics[q] = None
         \/ \A q \in Queries : got.metrics[q] = IF q \in failed THEN None ELSE world.metrics[q]
  BY BuiltFacts, FieldsOfNothing DEF CollectedInv, CollectionTypeOK
<1> DEFINE traces     == AtMost(world.traces, TracesLimit)
           operations == world.operations
           logs       == AtMost(world.logs, LogsLimit)
           ids        == AtMost(SampleTraceIds(traces), TraceDetailsLimit)
           details    == IF kind = "live" THEN <<>> ELSE ids
           metrics    == IF Queries \cap failed = {} THEN got.metrics ELSE world.metrics
<1>2. Unfailed = [got EXCEPT !.traces = traces, !.operations = operations, !.logs = logs,
                             !.details = details, !.metrics = metrics]
  BY DEF Unfailed
<1>3. /\ traces \in Seq(TraceRow) /\ operations \in Seq(OperationRow) /\ logs \in Seq(LogRow)
      /\ world.metrics \in [Queries -> OrNone(Nat)]
  BY <1>1, WorldFacts, AtMostFacts, LimitsAssumption
<1>4. metrics \in [Queries -> OrNone(Nat)]
  BY <1>1, <1>3 DEF Evidence
<1>5. \A q \in Queries : got.metrics[q] = None \/ got.metrics[q] = metrics[q]
  BY <1>1
<1> HIDE DEF traces, operations, logs, details, metrics
<1>6. /\ Unfailed.traces = traces /\ Unfailed.operations = operations /\ Unfailed.logs = logs
      /\ Unfailed.trace_logs = got.trace_logs /\ Unfailed.metrics = metrics
      /\ DOMAIN Unfailed = Fields
  BY <1>1, <1>2 DEF Fields
<1>7. Evidence(Unfailed)
  BY <1>1, <1>3, <1>4, <1>6 DEF Evidence
<1> QED
  BY <1>5, <1>6, <1>7 DEF traces, operations

(* To the trained scorer, what was read is at most the whole evidence with *)
(* its two mistakes.                                                       *)
LEMMA MistakenFacts ==
  ASSUME CollectedInv, step = "built"
  PROVE  /\ Evidence(MistakenForTrained)
         /\ NoveltyScore(MistakenForTrained) = NoveltyScore(Unfailed)
         /\ ErrorRateRegression(got.metrics) <= ErrorRateRegression(MistakenForTrained.metrics)
         /\ LatencyRegression(got.metrics) <= LatencyRegression(MistakenForTrained.metrics)
         /\ QpsShift(MistakenForTrained.metrics) <= QpsShift(got.metrics)
<1>1. /\ Evidence(Unfailed) /\ DOMAIN Unfailed = Fields /\ Evidence(got)
      /\ \A q \in Queries : got.metrics[q] = None \/ got.metrics[q] = Unfailed.metrics[q]
  BY UnfailedFacts, BuiltFacts
<1> DEFINE n == [q \in Queries |-> CASE q \in UnreadBaselines -> 0
                                    [] q \in UnreadShift     -> None
                                    [] OTHER                 -> Unfailed.metrics[q]]
           m == got.metrics
<1>2. MistakenForTrained = [Unfailed EXCEPT !.metrics = n]
  BY DEF MistakenForTrained
<1>3. m \in [Queries -> OrNone(Nat)] /\ Unfailed.metrics \in [Queries -> OrNone(Nat)]
  BY <1>1 DEF Evidence
<1>4. /\ "error_rate_baseline" \in UnreadBaselines <=>
           m["error_rate"] # None /\ m["error_rate_baseline"] = None
      /\ "latency_p95_baseline_ms" \in UnreadBaselines <=>
           m["latency_p95_ms"] # None /\ m["latency_p95_baseline_ms"] = None
      /\ UnreadBaselines \subseteq {"error_rate_baseline", "latency_p95_baseline_ms"}
  <2> DEFINE ps == {<<"error_rate", "error_rate_baseline">>, <<"latency_p95_ms", "latency_p95_baseline_ms">>}
  <2>1. UnreadBaselines = {p[2] : p \in {p \in ps : m[p[1]] # None /\ m[p[2]] = None}}
    BY DEF UnreadBaselines
  <2>2. \A b : b \in UnreadBaselines <=>
               \E p \in ps : m[p[1]] # None /\ m[p[2]] = None /\ b = p[2]
    BY <2>1
  <2> HIDE DEF m
  <2>3. \A b : b \in UnreadBaselines <=>
               \/ m["error_rate"] # None /\ m["error_rate_baseline"] = None /\ b = "error_rate_baseline"
               \/ /\ m["latency_p95_ms"] # None /\ m["latency_p95_baseline_ms"] = None
                  /\ b = "latency_p95_baseline_ms"
    BY <2>2
  <2> QED
    BY <2>3
<1>5. /\ UnreadShift \subseteq {"qps", "qps_baseline"}
      /\ QpsShift(m) < QpsShift(Unfailed.metrics) => UnreadShift = {"qps", "qps_baseline"}
      /\ ~(QpsShift(m) < QpsShift(Unfailed.metrics)) => UnreadShift = {}
  BY DEF UnreadShift
<1> HIDE DEF UnreadShift, UnreadBaselines, m
<1>6. n \in [Queries -> OrNone(Nat)]
  <2>1. \A q \in Queries : n[q] \in {0, None, Unfailed.metrics[q]}
    OBVIOUS
  <2> QED
    BY <1>3, <2>1 DEF OrNone
<1>7. /\ n["error_rate"] = Unfailed.metrics["error_rate"]
      /\ n["latency_p95_ms"] = Unfailed.metrics["latency_p95_ms"]
      /\ n["error_rate_baseline"] = IF "error_rate_baseline" \in UnreadBaselines THEN 0
                                    ELSE Unfailed.metrics["error_rate_baseline"]
      /\ n["latency_p95_baseline_ms"] = IF "latency_p95_baseline_ms" \in UnreadBaselines THEN 0
                                        ELSE Unfailed.metrics["latency_p95_baseline_ms"]
      /\ n["qps"] = IF "qps" \in UnreadShift THEN None ELSE Unfailed.metrics["qps"]
      /\ n["qps_baseline"] = IF "qps_baseline" \in UnreadShift THEN None
                             ELSE Unfailed.metrics["qps_baseline"]
  BY <1>4, <1>5 DEF Queries
<1> HIDE DEF n
<1>8. /\ MistakenForTrained.metrics = n
      /\ MistakenForTrained.traces = Unfailed.traces
      /\ MistakenForTrained.operations = Unfailed.operations
      /\ MistakenForTrained.logs = Unfailed.logs
      /\ MistakenForTrained.trace_logs = Unfailed.trace_logs
  BY <1>1, <1>2 DEF Fields
<1>9. Evidence(MistakenForTrained)
  BY <1>1, <1>6, <1>8 DEF Evidence
<1>10. NoveltyScore(MistakenForTrained) = NoveltyScore(Unfailed)
  BY <1>8 DEF NoveltyScore, Logs
<1>11. \A q \in Queries : m[q] = None \/ m[q] = Unfailed.metrics[q]
  BY <1>1 DEF m
<1>12. ErrorRateRegression(m) <= ErrorRateRegression(n)
  <2>1. m["error_rate"] # None =>
          /\ m["error_rate"] = n["error_rate"]
          /\ OrZero(m["error_rate_baseline"]) = OrZero(n["error_rate_baseline"])
    BY <1>4, <1>7, <1>11 DEF OrZero, Queries
  <2> QED
    BY <1>3, <1>6, <2>1, LessErrorRate
<1>13. LatencyRegression(m) <= LatencyRegression(n)
  <2>1. m["latency_p95_ms"] # None =>
          /\ m["latency_p95_ms"] = n["latency_p95_ms"]
          /\ OrZero(m["latency_p95_baseline_ms"]) = OrZero(n["latency_p95_baseline_ms"])
    BY <1>4, <1>7, <1>11 DEF OrZero, Queries
  <2> QED
    BY <1>3, <1>6, <2>1, LessLatency
<1>14. QpsShift(n) <= QpsShift(m)
  <2>1. PICK x, y, z \in 0..100 : /\ x = QpsShift(m) /\ y = QpsShift(Unfailed.metrics)
                                  /\ z = QpsShift(n)
    BY <1>3, <1>6, TemporalTypes
  <2>2. CASE x < y
    <3>1. UnreadShift = {"qps", "qps_baseline"}
      BY <1>5, <2>1, <2>2, Zenon
    <3>2. n["qps"] = None /\ n["qps_baseline"] = None
      BY <1>7, <3>1
    <3>3. z = 0
      BY <2>1, <3>2, NoShift
    <3>4. z <= x
      BY <3>3
    <3> QED
      BY <2>1, <3>4, Zenon
  <2>3. CASE ~(x < y)
    <3>1. UnreadShift = {}
      BY <1>5, <2>1, <2>3, Zenon
    <3>2. n["qps"] = Unfailed.metrics["qps"] /\ n["qps_baseline"] = Unfailed.metrics["qps_baseline"]
      BY <1>7, <3>1
    <3>3. z = y
      BY <2>1, <3>2 DEF QpsShift
    <3>4. z <= x
      BY <2>3, <3>3
    <3> QED
      BY <2>1, <3>4, Zenon
  <2> QED
    BY <2>2, <2>3
<1> QED
  BY <1>8, <1>9, <1>10, <1>12, <1>13, <1>14, Zenon DEF m

(* Evidence that was not read raises no alarm, but for made up novelty: to *)
(* the fast scorer it only lowers scores, and to the trained one it does   *)
(* no more than an unread baseline taken for zero and a lost shift.        *)
THEOREM AnalysisLossRaisesNoAlarm == Spec => []LossRaisesNoAlarm
<1>1. AnalysisInv => LossRaisesNoAlarm
  <2> SUFFICES ASSUME AnalysisInv, decision # None,
                      ~(NoveltyScore(got) > NoveltyScore(Unfailed))
               PROVE  \/ decision.severity <= FastSeverity(Features(kind, Unfailed, alert, hits))
                      \/ decision.family = "hybrid" /\ decision.severity <= Probability(MistakenForTrained)
    BY DEF LossRaisesNoAlarm
  <2>1. CollectedInv /\ step = "built" /\ alert \in Alerts /\ hits \in Hits
    BY DEF AnalysisInv, DecidedInv
  <2>2. PICK family \in Families : decision = ScorePacket(family, kind, got, alert, hits)
    BY DEF AnalysisInv, DecidedInv, Families
  <2>3. /\ kind \in Kinds /\ world \in Worlds /\ Evidence(got)
        /\ got.traces = IF "traces" \in failed THEN <<>> ELSE AtMost(world.traces, TracesLimit)
        /\ got.operations = IF "operations" \in failed THEN <<>> ELSE world.operations
    BY <2>1, BuiltFacts
  <2>4. decision.family = family
    BY <2>1, <2>2, <2>3, DecisionFacts
  <2>5. /\ Evidence(Unfailed)
        /\ got.traces = <<>> \/ got.traces = Unfailed.traces
        /\ got.operations = <<>> \/ got.operations = Unfailed.operations
        /\ \A q \in Queries : got.metrics[q] = None \/ got.metrics[q] = Unfailed.metrics[q]
    BY <2>1, <2>3, UnfailedFacts
  <2>6. NoveltyScore(got) <= NoveltyScore(Unfailed)
    <3>1. PICK m, n \in 0..100 : m = NoveltyScore(got) /\ n = NoveltyScore(Unfailed)
      BY <2>3, <2>5, NumbersFacts
    <3>2. ~(m > n)
      BY <3>1, Zenon
    <3>3. m <= n
      BY <3>2
    <3> QED
      BY <3>1, <3>3, Zenon
  <2> DEFINE f == Features(kind, got, alert, hits)
             e == Features(kind, Unfailed, alert, hits)
  <2>7. FastSeverity(f) <= FastSeverity(e)
    BY <2>1, <2>3, <2>5, <2>6, LessEvidence, Zenon
  <2>8. Probability(got) <= Probability(MistakenForTrained)
    <3>1. RawScore(got) <= RawScore(MistakenForTrained)
      BY <2>1, <2>3, <2>6, MistakenFacts, RawGrows, Zenon
    <3> QED
      BY <2>1, <2>3, <3>1, MistakenFacts, ProbabilityFacts, Zenon
  <2>9. decision.severity = IF family = "hybrid" THEN Larger(Probability(got), FastSeverity(f))
                            ELSE FastSeverity(f)
    BY <2>1, <2>2, <2>3, DecisionFacts
  <2> HIDE DEF f, e
  <2>10. \/ decision.severity = FastSeverity(f)
         \/ family = "hybrid" /\ decision.severity = Probability(got)
    BY <2>9 DEF Larger
  <2> QED
    BY <2>4, <2>7, <2>8, <2>10, Zenon DEF e
<1> QED
  BY <1>1, AnalysisInvariant, PTL

(* A warning without a severe precedent asks for an investigation.         *)
THEOREM AnalysisUnprecedentedIsTriggered == Spec => []UnprecedentedIsTriggered
<1>1. AnalysisInv => UnprecedentedIsTriggered
  <2> SUFFICES ASSUME AnalysisInv, decision # None, hits.severe = 0 PROVE decision.triggers # {}
    BY DEF UnprecedentedIsTriggered
  <2>1. CollectedInv /\ step = "built" /\ alert \in Alerts /\ hits \in Hits
    BY DEF AnalysisInv, DecidedInv
  <2>2. PICK family \in Families : decision = ScorePacket(family, kind, got, alert, hits)
    BY DEF AnalysisInv, DecidedInv, Families
  <2> QED
    BY <2>1, <2>2, BuiltFacts, DecisionFacts
<1> QED
  BY <1>1, AnalysisInvariant, PTL

(* Precedents that contradict each other are investigated.                 *)
THEOREM AnalysisConflictIsInvestigated == Spec => []ConflictIsInvestigated
<1>1. AnalysisInv => ConflictIsInvestigated
  <2> SUFFICES ASSUME AnalysisInv, plan # None, hits.severe >= 60, hits.benign >= 60 PROVE plan # {}
    BY DEF ConflictIsInvestigated
  <2>1. decision # None /\ plan = PlanInvestigation(decision, alert)
    BY DEF AnalysisInv, DecidedInv
  <2>2. CollectedInv /\ step = "built" /\ alert \in Alerts /\ hits \in Hits
    BY <2>1 DEF AnalysisInv, DecidedInv
  <2>3. PICK family \in Families : decision = ScorePacket(family, kind, got, alert, hits)
    BY <2>1 DEF AnalysisInv, DecidedInv, Families
  <2>4. "retrieval_conflict" \in decision.triggers
    BY <2>2, <2>3, BuiltFacts, DecisionFacts
  <2> QED
    BY <2>1, <2>4, ConflictRouted
<1> QED
  BY <1>1, AnalysisInvariant, PTL

================================================================================

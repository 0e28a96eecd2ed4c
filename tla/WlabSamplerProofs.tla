------------------------- MODULE WlabSamplerProofs --------------------------
(***************************************************************************)
(* Proofs about WlabSampler, for every period, threshold and sequence of   *)
(* readings: a buffer is the summary of its samples, what is published     *)
(* describes them, the timestamps of the reports increase, and the band of *)
(* the thresholds is held.                                                 *)
(***************************************************************************)
EXTENDS WlabSampler, Arithmetic, SequenceTheorems

Sample   == [val : Int32, ts : Times]
(* The samples a buffer may hold: no reading is an extreme of int32_t.      *)
Proper(q) == /\ q \in Seq(Sample)
             /\ \A i \in 1 .. Len(q) : q[i].val # IntMin /\ q[i].val # IntMax

LEMMA Numbers ==
  /\ MeasurePeriod \in Nat \ {0} /\ MinuteSecs \in Nat \ {0}
  /\ HourMins \in Nat \ {0} /\ PublishPeriodMins \in Nat \ {0}
  /\ WarmUp \in Nat /\ IntMax \in Nat /\ MaxSamples \in Nat /\ ReadingMax \in Nat
  /\ FirstTime \in Nat /\ MaxTime \in Nat /\ MeasurePeriod <= FirstTime
  /\ \A s \in Series : Threshold[s] \in 0 .. IntMax
  /\ \A s \in Series : \A v \in Values[s] :
       v \in Int32 /\ v # IntMin /\ v # IntMax
<1>1. ASSUME NEW s \in Series, NEW v \in Values[s]
      PROVE  v \in Int32 /\ v # IntMin /\ v # IntMax
  BY ConstantsOK DEF Int32, IntMin
<1> QED
  BY <1>1, ConstantsOK

LEMMA IntRange == Int32 \subseteq Int /\ IntMin \in Int32 /\ IntMax \in Int32
                  /\ Times \subseteq Nat
BY Numbers DEF Int32, IntMin, Times

-----------------------------------------------------------------------------
(* Vals and FirstOf, when a sample is added.                                *)

LEMMA AppendAt ==
  ASSUME NEW S, NEW q \in Seq(S), NEW r \in S
  PROVE  /\ Append(q, r) \in Seq(S) /\ Len(q) \in Nat
         /\ Append(q, r) # <<>>
         /\ Len(Append(q, r)) = Len(q) + 1
         /\ \A i \in 1 .. Len(q) : Append(q, r)[i] = q[i]
         /\ Append(q, r)[Len(q) + 1] = r
BY AppendProperties, LenProperties

LEMMA ValsInt ==
  ASSUME NEW q \in Seq(Sample)
  PROVE  /\ Vals(q) \in SUBSET Int /\ Vals(q) \subseteq Int32
         /\ q # <<>> => q[1].val \in Vals(q)
         /\ q = <<>> => Vals(q) = {}
<1>1. Len(q) \in Nat /\ \A i \in 1 .. Len(q) : q[i] \in Sample
  BY ElementOfSeq, LenProperties
<1>2. \A i \in 1 .. Len(q) : q[i].val \in Int32
  BY <1>1 DEF Sample
<1>3. q # <<>> => 1 \in 1 .. Len(q)
  BY <1>1, EmptySeq
<1>4. q = <<>> => 1 .. Len(q) = {}
  OBVIOUS
<1> QED
  BY <1>2, <1>3, <1>4, IntRange DEF Vals

LEMMA ValsAppend ==
  ASSUME NEW q \in Seq(Sample), NEW r \in Sample
  PROVE  Vals(Append(q, r)) = Vals(q) \cup {r.val}
<1> DEFINE p == Append(q, r)
<1>1. /\ Len(q) \in Nat /\ Len(p) = Len(q) + 1 /\ p[Len(q) + 1] = r
      /\ \A i \in 1 .. Len(q) : p[i] = q[i]
  BY AppendAt
<1> HIDE DEF p
<1>2. \A i \in 1 .. Len(p) : i \in 1 .. Len(q) \/ i = Len(q) + 1
  BY <1>1
<1>3. \A i \in 1 .. Len(q) : i \in 1 .. Len(p)
  BY <1>1
<1>4. Len(q) + 1 \in 1 .. Len(p)
  BY <1>1
<1>5. Vals(p) \subseteq Vals(q) \cup {r.val}
  BY <1>1, <1>2 DEF Vals
<1>6. Vals(q) \cup {r.val} \subseteq Vals(p)
  BY <1>1, <1>3, <1>4 DEF Vals
<1>7. Vals(p) = Vals(q) \cup {r.val}
  BY <1>5, <1>6
<1> QED
  BY <1>7 DEF p

(* The index of the first sample of a value.                                *)
LEMMA FirstIndex ==
  ASSUME NEW q \in Seq(Sample), NEW n \in 1 .. Len(q),
         \A i \in 1 .. n - 1 : q[i].val # q[n].val
  PROVE  FirstOf(q, q[n].val) = q[n]
<1> DEFINE S == {i \in 1 .. Len(q) : q[i].val = q[n].val}
<1>1. S \in SUBSET Int /\ n \in S
  OBVIOUS
<1>2. \A i \in S : n <= i
  BY LenProperties
<1> HIDE DEF S
<1>3. Min(S) = n
  BY <1>1, <1>2, MinOf
<1> QED
  BY <1>3 DEF FirstOf, S

LEMMA FirstExists ==
  ASSUME NEW q \in Seq(Sample), NEW v \in Vals(q)
  PROVE  \E n \in 1 .. Len(q) : /\ q[n].val = v
                                /\ \A i \in 1 .. n - 1 : q[i].val # v
                                /\ FirstOf(q, v) = q[n]
<1> DEFINE S == {i \in 1 .. Len(q) : q[i].val = v}
<1>1. S \in SUBSET Nat /\ S # {}
  BY LenProperties DEF Vals
<1> HIDE DEF S
<1>2. PICK n \in S : \A i \in S : n <= i
  BY <1>1, LeastNatural
<1>3. n \in 1 .. Len(q) /\ q[n].val = v
  BY DEF S
<1>4. \A i \in 1 .. n - 1 : q[i].val # v
  BY <1>2, <1>3, LenProperties DEF S
<1>5. FirstOf(q, v) = q[n]
  BY <1>3, <1>4, FirstIndex
<1> QED
  BY <1>3, <1>4, <1>5

LEMMA FirstKept ==
  ASSUME NEW q \in Seq(Sample), NEW r \in Sample, NEW v \in Vals(q)
  PROVE  FirstOf(Append(q, r), v) = FirstOf(q, v)
<1> DEFINE p == Append(q, r)
<1>1. /\ p \in Seq(Sample) /\ Len(q) \in Nat /\ Len(p) = Len(q) + 1
      /\ \A i \in 1 .. Len(q) : p[i] = q[i]
  BY AppendAt
<1> HIDE DEF p
<1>2. PICK n \in 1 .. Len(q) : /\ q[n].val = v
                               /\ \A i \in 1 .. n - 1 : q[i].val # v
                               /\ FirstOf(q, v) = q[n]
  BY FirstExists
<1>3. n \in 1 .. Len(p) /\ p[n] = q[n] /\ p[n].val = v
  BY <1>1, <1>2
<1>4. \A i \in 1 .. n - 1 : p[i].val # p[n].val
  BY <1>1, <1>2, <1>3
<1>5. FirstOf(p, p[n].val) = p[n]
  BY <1>1, <1>3, <1>4, FirstIndex
<1>6. FirstOf(p, v) = FirstOf(q, v)
  BY <1>2, <1>3, <1>5
<1> QED
  BY <1>6 DEF p

LEMMA FirstNew ==
  ASSUME NEW q \in Seq(Sample), NEW r \in Sample, r.val \notin Vals(q)
  PROVE  FirstOf(Append(q, r), r.val) = r
<1> DEFINE p == Append(q, r)
           n == Len(q) + 1
<1>1. /\ p \in Seq(Sample) /\ Len(q) \in Nat /\ Len(p) = n /\ p[n] = r
      /\ \A i \in 1 .. Len(q) : p[i] = q[i]
  BY AppendAt
<1>2. \A i \in 1 .. n - 1 : i \in 1 .. Len(q)
  BY <1>1
<1> HIDE DEF p
<1>3. \A i \in 1 .. n - 1 : p[i].val # p[n].val
  BY <1>1, <1>2 DEF Vals
<1>4. n \in 1 .. Len(p)
  BY <1>1
<1> HIDE DEF n
<1>5. FirstOf(p, p[n].val) = p[n]
  BY <1>1, <1>3, <1>4, FirstIndex
<1> QED
  BY <1>1, <1>5 DEF p

-----------------------------------------------------------------------------
(* The extremes, when a sample is added.                                    *)

LEMMA Extremes ==
  ASSUME NEW q \in Seq(Sample), q # <<>>
  PROVE  /\ Min(Vals(q)) \in Vals(q) /\ \A x \in Vals(q) : Min(Vals(q)) <= x
         /\ Max(Vals(q)) \in Vals(q) /\ \A x \in Vals(q) : x <= Max(Vals(q))
         /\ Min(Vals(q)) \in Int32 /\ Max(Vals(q)) \in Int32
<1> DEFINE S == Vals(q)
<1>1. S \in SUBSET Int /\ S \subseteq Int32 /\ S # {}
  BY ValsInt
<1> HIDE DEF S
<1>2. /\ IntMin \in Int /\ IntMax \in Int
      /\ \A x \in S : IntMin <= x /\ x <= IntMax
  BY <1>1, Numbers DEF Int32, IntMin
<1>3. Min(S) \in S /\ \A x \in S : Min(S) <= x
  BY <1>1, <1>2, MinMember
<1>4. Max(S) \in S /\ \A x \in S : x <= Max(S)
  BY <1>1, <1>2, MaxMember
<1> QED
  BY <1>1, <1>3, <1>4 DEF S

LEMMA ExtremesOfOne ==
  ASSUME NEW q \in Seq(Sample), q = <<>>, NEW r \in Sample
  PROVE  Min(Vals(Append(q, r))) = r.val /\ Max(Vals(Append(q, r))) = r.val
<1>1. r.val \in Int
  BY IntRange DEF Sample
<1>2. Vals(q) = {}
  BY ValsInt
<1>5. Vals(Append(q, r)) = Vals(q) \cup {r.val}
  BY ValsAppend
<1>6. Vals(Append(q, r)) = {r.val}
  BY <1>2, <1>5
<1> DEFINE S == {r.val}
<1>3. S \in SUBSET Int /\ r.val \in S /\ \A x \in S : r.val <= x /\ x <= r.val
  BY <1>1
<1> HIDE DEF S
<1>4. Min(S) = r.val /\ Max(S) = r.val
  BY <1>3, MinOf, MaxOf
<1> QED
  BY <1>4, <1>6 DEF S

LEMMA ExtremesOfMore ==
  ASSUME NEW q \in Seq(Sample), q # <<>>, NEW r \in Sample
  PROVE  /\ Min(Vals(Append(q, r))) =
              IF r.val < Min(Vals(q)) THEN r.val ELSE Min(Vals(q))
         /\ Max(Vals(Append(q, r))) =
              IF r.val > Max(Vals(q)) THEN r.val ELSE Max(Vals(q))
<1> DEFINE S == Vals(q)
           T == Vals(Append(q, r))
           v == r.val
<1>1. v \in Int
  BY IntRange DEF Sample
<1>2. T = S \cup {v}
  BY ValsAppend
<1>3. S \in SUBSET Int
  BY ValsInt
<1>4. /\ Min(S) \in S /\ \A x \in S : Min(S) <= x
      /\ Max(S) \in S /\ \A x \in S : x <= Max(S)
  BY Extremes
<1> HIDE DEF S, T, v
<1>5. T \in SUBSET Int
  BY <1>1, <1>2, <1>3
<1> DEFINE m == Min(S)
           M == Max(S)
           lo == IF v < m THEN v ELSE m
           hi == IF v > M THEN v ELSE M
<1>9. /\ m \in S /\ M \in S /\ m \in Int /\ M \in Int
      /\ \A x \in S : x \in Int /\ m <= x /\ x <= M
  BY <1>3, <1>4
<1> HIDE DEF m, M
<1>6. lo \in T /\ \A x \in T : lo <= x
  BY <1>1, <1>2, <1>9
<1>7. hi \in T /\ \A x \in T : x <= hi
  BY <1>1, <1>2, <1>9
<1> HIDE DEF lo, hi
<1>8. Min(T) = lo /\ Max(T) = hi
  BY <1>5, <1>6, <1>7, MinOf, MaxOf
<1> QED
  BY <1>8 DEF lo, hi, m, M, S, T, v

-----------------------------------------------------------------------------
(* A buffer after a sample is the summary of one sample more.               *)

Total(q) == SumFunction([i \in 1 .. Len(q) |-> q[i].val])

LEMMA SampleInt ==
  ASSUME NEW q \in Seq(Sample)
  PROVE  \A i \in 1 .. Len(q) :
           /\ q[i] \in Sample /\ q[i].val \in Int /\ q[i].val \in Int32
           /\ q[i].ts \in Nat /\ q[i].ts \in Times
<1>1. \A i \in 1 .. Len(q) : q[i] \in Sample
  BY ElementOfSeq
<1>2. \A r \in Sample : /\ r.val \in Int /\ r.val \in Int32
                        /\ r.ts \in Nat /\ r.ts \in Times
  BY IntRange DEF Sample
<1> QED
  BY <1>1, <1>2

LEMMA TotalAppend ==
  ASSUME NEW q \in Seq(Sample), NEW r \in Sample
  PROVE  /\ Total(Append(q, r)) = Total(q) + r.val
         /\ Total(q) \in Int
         /\ q = <<>> => Total(q) = 0
<1> DEFINE p == Append(q, r)
           f == [i \in 1 .. Len(p) |-> p[i].val]
           e == [i \in 1 .. Len(q) |-> q[i].val]
           n == Len(q)
<1>1. /\ p \in Seq(Sample) /\ n \in Nat /\ Len(p) = n + 1
      /\ \A i \in 1 .. n : p[i] = q[i]
      /\ p[n + 1] = r
  BY AppendAt
<1>3. \A i \in 1 .. n : q[i].val \in Int
  BY SampleInt
<1> HIDE DEF p
<1>2. \A i \in 1 .. Len(p) : p[i].val \in Int
  BY <1>1, SampleInt
<1> HIDE DEF n
<1>4. f \in [1 .. n + 1 -> Int] /\ f[n + 1] = r.val
  BY <1>1, <1>2
<1>5. e = Prefix(f, n)
  BY <1>1 DEF Prefix, n
<1>6. e \in [1 .. n -> Int]
  BY <1>3 DEF n
<1> HIDE DEF f, e
<1>7. SumFunction(f) = SumFunction(e) + r.val
  BY <1>1, <1>4, <1>5, SumExtends
<1>8. SumFunction(e) \in Int
  BY <1>1, <1>6, SumInt
<1>9. q = <<>> => DOMAIN e = {}
  BY DEF e
<1>10. q = <<>> => SumFunction(e) = 0
  BY <1>9, SumEmpty
<1> QED
  BY <1>7, <1>8, <1>10 DEF Total, p, f, e

LEMMA AddFields ==
  ASSUME NEW b, NEW lo, NEW lots, NEW hi, NEW hits, NEW sum, NEW n, NEW ts, NEW first,
         b = [min |-> lo, max |-> hi, min_ts |-> lots, max_ts |-> hits, buff |-> sum,
              cnt |-> n, sample_ts |-> ts, sample_ts_val |-> first],
         NEW v, NEW t
  PROVE  Add(b, v, t) =
           [min |-> IF v < lo THEN v ELSE lo, max |-> IF v > hi THEN v ELSE hi,
            min_ts |-> IF v < lo THEN Minute(t) ELSE lots,
            max_ts |-> IF v > hi THEN Minute(t) ELSE hits,
            buff |-> sum + v, cnt |-> n + 1,
            sample_ts |-> IF first = IntMax THEN Slot(t) ELSE ts,
            sample_ts_val |-> IF first = IntMax THEN v ELSE first]
<1>1. /\ b.min = lo /\ b.max = hi /\ b.min_ts = lots /\ b.max_ts = hits
      /\ b.buff = sum /\ b.cnt = n /\ b.sample_ts = ts /\ b.sample_ts_val = first
  OBVIOUS
<1>2. ASSUME NEW a1, NEW a2, NEW a3, NEW a4, NEW a5, NEW a6, NEW a7, NEW a8
      PROVE  [b EXCEPT !.sample_ts = a1, !.sample_ts_val = a2, !.max = a3,
                       !.max_ts = a4, !.min = a5, !.min_ts = a6, !.buff = a7, !.cnt = a8]
             = [min |-> a5, max |-> a3, min_ts |-> a6, max_ts |-> a4, buff |-> a7,
                cnt |-> a8, sample_ts |-> a1, sample_ts_val |-> a2]
  <2> DEFINE D == {"min", "max", "min_ts", "max_ts", "buff", "cnt", "sample_ts",
                   "sample_ts_val"}
             c == [b EXCEPT !.sample_ts = a1, !.sample_ts_val = a2, !.max = a3,
                     !.max_ts = a4, !.min = a5, !.min_ts = a6, !.buff = a7, !.cnt = a8]
  <2>1. DOMAIN b = D
    OBVIOUS
  <2>2. c = [x \in D |-> c[x]]
    BY <2>1
  <2>3. /\ c.min = a5 /\ c.max = a3 /\ c.min_ts = a6 /\ c.max_ts = a4
        /\ c.buff = a7 /\ c.cnt = a8 /\ c.sample_ts = a1 /\ c.sample_ts_val = a2
    BY <2>1
  <2> HIDE DEF c
  <2>4. c = [min |-> a5, max |-> a3, min_ts |-> a6, max_ts |-> a4, buff |-> a7,
             cnt |-> a8, sample_ts |-> a1, sample_ts_val |-> a2]
    BY <2>2, <2>3
  <2> QED
    BY <2>4 DEF c
<1> DEFINE A1 == IF b.sample_ts_val = IntMax THEN Slot(t) ELSE b.sample_ts
           A2 == IF b.sample_ts_val = IntMax THEN v ELSE b.sample_ts_val
           A3 == IF v > b.max THEN v ELSE b.max
           A4 == IF v > b.max THEN Minute(t) ELSE b.max_ts
           A5 == IF v < b.min THEN v ELSE b.min
           A6 == IF v < b.min THEN Minute(t) ELSE b.min_ts
           A7 == b.buff + v
           A8 == b.cnt + 1
<1>3. Add(b, v, t) =
        [b EXCEPT !.sample_ts = A1, !.sample_ts_val = A2, !.max = A3, !.max_ts = A4,
                  !.min = A5, !.min_ts = A6, !.buff = A7, !.cnt = A8]
  BY Zenon DEF Add
<1> HIDE DEF A1, A2, A3, A4, A5, A6, A7, A8
<1>4. Add(b, v, t) = [min |-> A5, max |-> A3, min_ts |-> A6, max_ts |-> A4,
                      buff |-> A7, cnt |-> A8, sample_ts |-> A1, sample_ts_val |-> A2]
  BY <1>2, <1>3
<1> QED
  BY <1>1, <1>4 DEF A1, A2, A3, A4, A5, A6, A7, A8

LEMMA AddToEmpty ==
  ASSUME NEW q, q = <<>>, NEW v \in Int32, v # IntMin, v # IntMax, NEW t \in Times
  PROVE  Add(Summary(q), v, t) = Summary(Append(q, [val |-> v, ts |-> t]))
<1> DEFINE r == [val |-> v, ts |-> t]
           p == Append(q, r)
<1>0. q \in Seq(Sample) /\ r \in Sample /\ Len(q) = 0
  BY DEF Sample
<1>1. r.val = v /\ r.ts = t
  OBVIOUS
<1>2. p # <<>> /\ Len(p) = 1 /\ p[1] = r
  BY <1>0, AppendAt
<1>3. Min(Vals(p)) = v /\ Max(Vals(p)) = v
  BY <1>0, <1>1, ExtremesOfOne
<1>4. FirstOf(p, v) = r
  BY <1>0, <1>1, ValsInt, FirstNew
<1>5. Total(p) = v
  <2>1. Total(p) = Total(q) + v /\ Total(q) = 0
    BY <1>0, <1>1, TotalAppend
  <2>2. v \in Int
    BY IntRange
  <2> HIDE DEF p
  <2> QED
    BY <2>1, <2>2
<1>6. SumFunction([i \in 1 .. Len(p) |-> p[i].val]) = v
  BY <1>5 DEF Total
<1>7. v < IntMax /\ v > IntMin /\ v \in Int
  BY Numbers DEF Int32, IntMin
<1>8. Summary(q) = EmptyBuffer
  BY DEF Summary
<1> HIDE DEF p, r
<1>9. Summary(p) = [min |-> v, min_ts |-> Minute(t), max |-> v, max_ts |-> Minute(t),
                    buff |-> v, cnt |-> 1, sample_ts |-> Slot(t), sample_ts_val |-> v]
  BY <1>1, <1>2, <1>3, <1>4, <1>6 DEF Summary
<1>10. Add(EmptyBuffer, v, t) =
         [min |-> v, min_ts |-> Minute(t), max |-> v, max_ts |-> Minute(t),
          buff |-> v, cnt |-> 1, sample_ts |-> Slot(t), sample_ts_val |-> v]
  <2>1. Add(EmptyBuffer, v, t) =
          [min |-> IF v < IntMax THEN v ELSE IntMax,
           max |-> IF v > IntMin THEN v ELSE IntMin,
           min_ts |-> IF v < IntMax THEN Minute(t) ELSE 0,
           max_ts |-> IF v > IntMin THEN Minute(t) ELSE 0,
           buff |-> 0 + v, cnt |-> 0 + 1,
           sample_ts |-> IF IntMax = IntMax THEN Slot(t) ELSE 0,
           sample_ts_val |-> IF IntMax = IntMax THEN v ELSE IntMax]
    BY AddFields DEF EmptyBuffer
  <2> QED
    BY <1>7, <2>1
<1> QED
  BY <1>8, <1>9, <1>10 DEF p, r

LEMMA AddToMore ==
  ASSUME NEW q, Proper(q), q # <<>>, NEW v \in Int32, NEW t \in Times
  PROVE  Add(Summary(q), v, t) = Summary(Append(q, [val |-> v, ts |-> t]))
<1> DEFINE r == [val |-> v, ts |-> t]
           p == Append(q, r)
           lo == Min(Vals(q))
           hi == Max(Vals(q))
<1>1. r.val = v /\ r.ts = t /\ r \in Sample /\ q \in Seq(Sample)
  BY DEF Sample, Proper
<1> HIDE DEF r
<1>2. /\ Len(q) \in Nat /\ Len(p) = Len(q) + 1 /\ p # <<>>
      /\ \A i \in 1 .. Len(q) : p[i] = q[i]
  BY <1>1, AppendAt
<1>3. 1 \in 1 .. Len(q)
  BY <1>1, <1>2, EmptySeq
<1>4. p[1] = q[1] /\ q[1].val # IntMax
  BY <1>2, <1>3 DEF Proper
<1>5. /\ Min(Vals(p)) = IF v < lo THEN v ELSE lo
      /\ Max(Vals(p)) = IF v > hi THEN v ELSE hi
  BY <1>1, ExtremesOfMore
<1>6. /\ lo \in Vals(q) /\ hi \in Vals(q) /\ lo \in Int /\ hi \in Int
      /\ \A x \in Vals(q) : lo <= x /\ x <= hi
  BY <1>1, Extremes, IntRange
<1>7. v < lo \/ v > hi => v \notin Vals(q)
  BY <1>6, IntRange
<1>8. v < lo \/ v > hi => FirstOf(p, v) = r
  BY <1>1, <1>7, FirstNew
<1>9. FirstOf(p, lo) = FirstOf(q, lo) /\ FirstOf(p, hi) = FirstOf(q, hi)
  BY <1>1, <1>6, FirstKept
<1>10. Total(p) = Total(q) + v
  BY <1>1, TotalAppend
<1> HIDE DEF p, lo, hi
<1> DEFINE b == [min |-> lo, min_ts |-> Minute(FirstOf(q, lo).ts),
                 max |-> hi, max_ts |-> Minute(FirstOf(q, hi).ts),
                 buff |-> Total(q), cnt |-> Len(q),
                 sample_ts |-> Slot(q[1].ts), sample_ts_val |-> q[1].val]
           c == [min |-> IF v < lo THEN v ELSE lo,
                 min_ts |-> IF v < lo THEN Minute(t) ELSE Minute(FirstOf(q, lo).ts),
                 max |-> IF v > hi THEN v ELSE hi,
                 max_ts |-> IF v > hi THEN Minute(t) ELSE Minute(FirstOf(q, hi).ts),
                 buff |-> Total(q) + v, cnt |-> Len(q) + 1,
                 sample_ts |-> Slot(q[1].ts), sample_ts_val |-> q[1].val]
<1>11. Summary(q) = b
  BY DEF Summary, Total, lo, hi
<1>12. Add(b, v, t) = c
  <2>1. Add(b, v, t) =
          [min |-> IF v < lo THEN v ELSE lo, max |-> IF v > hi THEN v ELSE hi,
           min_ts |-> IF v < lo THEN Minute(t) ELSE Minute(FirstOf(q, lo).ts),
           max_ts |-> IF v > hi THEN Minute(t) ELSE Minute(FirstOf(q, hi).ts),
           buff |-> Total(q) + v, cnt |-> Len(q) + 1,
           sample_ts |-> IF q[1].val = IntMax THEN Slot(t) ELSE Slot(q[1].ts),
           sample_ts_val |-> IF q[1].val = IntMax THEN v ELSE q[1].val]
    BY AddFields
  <2> QED
    BY <1>4, <2>1
<1>13. Minute(FirstOf(p, Min(Vals(p))).ts) =
         IF v < lo THEN Minute(t) ELSE Minute(FirstOf(q, lo).ts)
  BY <1>1, <1>5, <1>8, <1>9
<1>14. Minute(FirstOf(p, Max(Vals(p))).ts) =
         IF v > hi THEN Minute(t) ELSE Minute(FirstOf(q, hi).ts)
  BY <1>1, <1>5, <1>8, <1>9
<1>15. Summary(p) =
         [min |-> Min(Vals(p)), min_ts |-> Minute(FirstOf(p, Min(Vals(p))).ts),
          max |-> Max(Vals(p)), max_ts |-> Minute(FirstOf(p, Max(Vals(p))).ts),
          buff |-> Total(p), cnt |-> Len(p),
          sample_ts |-> Slot(p[1].ts), sample_ts_val |-> p[1].val]
  BY <1>2 DEF Summary, Total
<1>16. Summary(p) = c
  BY <1>2, <1>4, <1>5, <1>10, <1>13, <1>14, <1>15
<1> QED
  BY <1>11, <1>12, <1>16 DEF p, r

LEMMA AddSummary ==
  ASSUME NEW q, Proper(q), NEW v \in Int32, v # IntMin, v # IntMax, NEW t \in Times
  PROVE  Add(Summary(q), v, t) = Summary(Append(q, [val |-> v, ts |-> t]))
BY AddToEmpty, AddToMore

-----------------------------------------------------------------------------
(* Minutes and slots.                                                       *)

SlotSecs == MinuteSecs * PublishPeriodMins

LEMMA SlotSecsOK == SlotSecs \in Nat \ {0}
<1>1. PICK k \in Nat : PublishPeriodMins = k + 1
  <2>1. PublishPeriodMins - 1 \in Nat
    BY Numbers
  <2> QED
    BY <2>1, Numbers
<1>2. MinuteSecs * PublishPeriodMins = (MinuteSecs * k) + MinuteSecs
      /\ MinuteSecs * k \in Nat
  BY <1>1, Numbers
<1> QED
  BY <1>2, Numbers DEF SlotSecs

LEMMA TimeFacts ==
  ASSUME NEW t \in Nat
  PROVE  /\ TmMin(t) \in 0 .. HourMins - 1
         /\ Minute(t) = MinuteSecs * (t \div MinuteSecs) /\ Minute(t) \in 0 .. t
         /\ Slot(t) = SlotSecs * (t \div SlotSecs) /\ Slot(t) \in 0 .. Minute(t)
<1> DEFINE a == t \div MinuteSecs
           k == t \div SlotSecs
<1>1. /\ a \in Nat /\ t % MinuteSecs \in 0 .. MinuteSecs - 1
      /\ t = (MinuteSecs * a) + (t % MinuteSecs)
  <2>1. MinuteSecs \in Nat \ {0}
    BY Numbers
  <2> QED
    BY <2>1, DivModNat
<1>2. /\ k \in Nat /\ t % SlotSecs \in 0 .. SlotSecs - 1
      /\ t = (SlotSecs * k) + (t % SlotSecs)
  BY SlotSecsOK, DivModNat
<1>3. TmMin(t) \in 0 .. HourMins - 1
  <2>1. HourMins \in Nat \ {0}
    BY Numbers
  <2>2. a % HourMins \in 0 .. HourMins - 1
    BY <1>1, <2>1, DivModNat
  <2> QED
    BY <2>2 DEF TmMin
<1> HIDE DEF a, k
<1>4. MinuteSecs * a \in Nat /\ SlotSecs * k \in Nat
  BY <1>1, <1>2, Numbers, SlotSecsOK
<1>5. Minute(t) = MinuteSecs * a /\ Minute(t) \in 0 .. t
  BY <1>1, <1>4 DEF Minute
<1>6. Slot(t) = SlotSecs * k /\ Slot(t) \in 0 .. t
  BY <1>2, <1>4 DEF Slot, SlotSecs
<1>7. SlotSecs * k <= MinuteSecs * a
  <2> DEFINE p == PublishPeriodMins * k
  <2>1. p \in Nat /\ SlotSecs * k = MinuteSecs * p
    BY <1>2, Numbers DEF SlotSecs
  <2> HIDE DEF p
  <2>2. MinuteSecs * p <= t
    BY <1>2, <1>4, <2>1
  <2>3. (MinuteSecs * p) \div MinuteSecs = p
    <3>1. MinuteSecs * p = (MinuteSecs * p) + 0 /\ MinuteSecs * p \in Int
      BY <2>1, Numbers
    <3>2. 0 \in 0 .. MinuteSecs - 1
      BY Numbers
    <3> DEFINE n == MinuteSecs * p
    <3>3. n \in Int /\ n = (MinuteSecs * p) + 0
      BY <3>1
    <3> HIDE DEF n
    <3>4. n \div MinuteSecs = p
      BY <2>1, <3>2, <3>3, Numbers, DivUnique
    <3> QED
      BY <3>4 DEF n
  <2>4. MinuteSecs * ((MinuteSecs * p) \div MinuteSecs) <= MinuteSecs * (t \div MinuteSecs)
    <3> DEFINE n == MinuteSecs * p
    <3>1. n \in Int
      BY <2>1, Numbers
    <3> HIDE DEF n
    <3>2. n <= t
      BY <2>2 DEF n
    <3>3. MinuteSecs * (n \div MinuteSecs) <= MinuteSecs * (t \div MinuteSecs)
      BY <3>1, <3>2, Numbers, DivMonotone
    <3> QED
      BY <3>3 DEF n
  <2> QED
    BY <2>1, <2>3, <2>4 DEF a
<1> QED
  BY <1>3, <1>4, <1>5, <1>6, <1>7 DEF a, k

LEMMA TimeBounds ==
  ASSUME NEW t \in Nat
  PROVE  /\ Slot(t) \in Nat /\ Minute(t) \in Nat
         /\ Slot(t) <= Minute(t) /\ Minute(t) <= t
<1>1. Slot(t) \in 0 .. Minute(t) /\ Minute(t) \in 0 .. t
  BY TimeFacts
<1> QED
  BY <1>1

LEMMA SlotMonotone ==
  ASSUME NEW t \in Nat, NEW u \in Nat, t <= u
  PROVE  Slot(t) <= Slot(u)
<1>1. SlotSecs * (t \div SlotSecs) <= SlotSecs * (u \div SlotSecs)
  BY SlotSecsOK, DivMonotone
<1> QED
  BY <1>1, TimeFacts

(* A minute of publication begins a slot, if the period divides the hour.   *)
LEMMA DueMinute ==
  ASSUME HourMins % PublishPeriodMins = 0,
         NEW t \in Nat, TmMin(t) % PublishPeriodMins = 0
  PROVE  Minute(t) = Slot(t)
<1> DEFINE P == PublishPeriodMins
           H == HourMins
           M == MinuteSecs
           a == t \div M
           m == TmMin(t)
           h == a \div H
           i == H \div P
           j == m \div P
           k == (i * h) + j
<1>1. /\ P \in Nat \ {0} /\ H \in Nat \ {0} /\ M \in Nat \ {0}
  BY Numbers
<1>2. /\ a \in Nat /\ t % M \in 0 .. M - 1 /\ t = (M * a) + (t % M)
  <2> HIDE DEF M
  <2> QED
    BY <1>1, DivModNat
<1>3. m \in 0 .. H - 1 /\ h \in Nat /\ a = (H * h) + m
  <2>1. m = a % H
    BY DEF TmMin
  <2> HIDE DEF a, H, m
  <2>2. a % H \in 0 .. H - 1 /\ h \in Nat /\ a = (H * h) + (a % H)
    BY <1>1, <1>2, DivModNat
  <2> QED
    BY <2>1, <2>2
<1>4. i \in Nat /\ H = P * i
  <2>0. H % P = 0
    OBVIOUS
  <2> HIDE DEF H, P
  <2>1. H = (P * i) + (H % P) /\ i \in Nat
    BY <1>1, DivModNat
  <2> HIDE DEF i
  <2> QED
    BY <1>1, <2>0, <2>1
<1>5. j \in Nat /\ m = P * j
  <2>0. m % P = 0 /\ m \in Nat
    BY <1>1, <1>3
  <2> HIDE DEF m, P
  <2>1. m = (P * j) + (m % P) /\ j \in Nat
    BY <1>1, <2>0, DivModNat
  <2> HIDE DEF j
  <2> QED
    BY <1>1, <2>0, <2>1
<1> HIDE DEF h, i, j, m, a
<1>6. k \in Nat /\ a = P * k
  <2>1. (P * i) * h = P * (i * h) /\ P * k = (P * (i * h)) + (P * j) /\ i * h \in Nat
    BY <1>1, <1>3, <1>4, <1>5
  <2> QED
    BY <1>3, <1>4, <1>5, <2>1
<1> HIDE DEF k, P, H, M
<1>7. t = ((M * P) * k) + (t % M) /\ t % M \in 0 .. (M * P) - 1
  <2>1. M * a = (M * P) * k
    BY <1>1, <1>6
  <2>2. PICK n \in Nat : P = n + 1
    <3>1. P - 1 \in Nat
      BY <1>1
    <3> QED
      BY <1>1, <3>1
  <2>3. M * P = (M * n) + M /\ M * n \in Nat
    BY <1>1, <2>2
  <2> QED
    BY <1>1, <1>2, <2>1, <2>3
<1>8. t % (M * P) = t % M
  <2> DEFINE S == M * P
  <2>1. S \in Nat \ {0}
    BY SlotSecsOK DEF SlotSecs, M, P
  <2> HIDE DEF S
  <2>2. t % M \in 0 .. S - 1 /\ t = (S * k) + (t % M)
    BY <1>7 DEF S
  <2> DEFINE r == t % M
  <2>4. t \in Int /\ k \in Int /\ r \in 0 .. S - 1 /\ t = (S * k) + r
    BY <1>6, <2>2
  <2> HIDE DEF r
  <2>5. t % S = r
    BY <2>1, <2>4, DivUnique
  <2>3. t % S = t % M
    BY <2>5 DEF r
  <2> QED
    BY <2>3 DEF S
<1> QED
  BY <1>8 DEF Minute, Slot, M, P

(* The next report carries a later timestamp than the one published at u    *)
(* under the timestamp of a sample taken at t.                              *)
LEMMA SlotGrows ==
  ASSUME HourMins % PublishPeriodMins = 0,
         NEW t \in Nat, NEW u \in Nat, t <= u,
         TmMin(u) % PublishPeriodMins = 0,
         TmMin(t) % PublishPeriodMins = 0 => TmMin(t) # TmMin(u)
  PROVE  Slot(t) < Slot(u)
<1> SUFFICES ASSUME Slot(t) >= Slot(u) PROVE FALSE
  BY TimeFacts
<1>0. /\ Slot(t) \in Int /\ Slot(u) \in Int /\ Minute(t) \in Int /\ Minute(u) \in Int
      /\ Slot(t) <= Minute(t)
  BY TimeFacts
<1>1. Slot(t) = Slot(u)
  <2>1. Slot(t) <= Slot(u)
    BY SlotMonotone
  <2> QED
    BY <1>0, <2>1
<1>2. Minute(u) = Slot(u)
  BY DueMinute
<1>3. Minute(t) <= Minute(u) /\ Minute(u) <= Minute(t)
  <2>1. Minute(t) <= Minute(u)
    <3>1. MinuteSecs \in Nat \ {0} /\ t \in Int /\ u \in Int
      BY Numbers
    <3>2. MinuteSecs * (t \div MinuteSecs) <= MinuteSecs * (u \div MinuteSecs)
      BY <3>1, DivMonotone
    <3> QED
      BY <3>2, TimeFacts
  <2> QED
    BY <1>0, <1>1, <1>2, <2>1
<1>4. Minute(t) = Minute(u)
  BY <1>0, <1>3
<1>5. t \div MinuteSecs = u \div MinuteSecs
  <2> DEFINE a == t \div MinuteSecs
             c == u \div MinuteSecs
  <2>1. a \in Nat /\ c \in Nat
    <3>1. MinuteSecs \in Nat \ {0}
      BY Numbers
    <3> QED
      BY <3>1, DivModNat
  <2>2. MinuteSecs * a = MinuteSecs * c
    BY <1>4, TimeFacts
  <2> HIDE DEF a, c
  <2>3. /\ MinuteSecs * (a + 1) = (MinuteSecs * a) + MinuteSecs
        /\ MinuteSecs * (c + 1) = (MinuteSecs * c) + MinuteSecs
        /\ MinuteSecs * a \in Nat /\ MinuteSecs * c \in Nat
    BY <2>1, Numbers
  <2>4. MinuteSecs * a < MinuteSecs * (c + 1) /\ MinuteSecs * c < MinuteSecs * (a + 1)
    BY <2>2, <2>3, Numbers
  <2>5. a <= c /\ c <= a
    BY <2>1, <2>4, Numbers, LessFactor
  <2>6. a = c
    BY <2>1, <2>5
  <2> QED
    BY <2>6 DEF a, c
<1>6. TmMin(t) = TmMin(u)
  BY <1>5 DEF TmMin
<1> QED
  BY <1>6

-----------------------------------------------------------------------------
(* Types.                                                                   *)

(* What the sum of a buffer may have come to.                               *)
Fits(b) == -(b.cnt * ReadingMax) <= b.buff /\ b.buff <= b.cnt * ReadingMax
Sums    == \A s \in Series : Fits(buffer[s])

LEMMA EmptyType ==
  EmptyBuffer \in Buffers /\ Fits(EmptyBuffer) /\ Nothing \in [Series -> Seq(Sample)]
<1>1. <<>> \in Seq(Sample)
  OBVIOUS
<1>2. 0 \in Int32 /\ 0 \in 0 .. MaxSamples /\ 0 * ReadingMax = 0
  BY Numbers DEF Int32, IntMin
<1> QED
  BY <1>1, <1>2, IntRange DEF EmptyBuffer, Buffers, Nothing, Fits

(* One more reading in a buffer that is not full.                           *)
LEMMA SumFits ==
  ASSUME NEW sum \in Int, NEW n \in 0 .. MaxSamples - 1,
         NEW v \in -ReadingMax .. ReadingMax,
         -(n * ReadingMax) <= sum, sum <= n * ReadingMax
  PROVE  /\ -((n + 1) * ReadingMax) <= sum + v /\ sum + v <= (n + 1) * ReadingMax
         /\ sum + v \in Int32 /\ n + 1 \in 0 .. MaxSamples
<1> DEFINE m == n + 1
<1>1. m \in Nat /\ m <= MaxSamples /\ ReadingMax \in Nat /\ MaxSamples \in Nat
  BY Numbers
<1>2. m * ReadingMax = n * ReadingMax + ReadingMax /\ n * ReadingMax \in Int
  BY <1>1
<1>3. m * ReadingMax \in Nat /\ m * ReadingMax <= MaxSamples * ReadingMax
  <2> HIDE DEF m
  <2> QED
    BY <1>1
<1>4. MaxSamples * ReadingMax <= IntMax /\ IntMax \in Nat /\ MaxSamples * ReadingMax \in Int
  BY ConstantsOK
<1>5. -(m * ReadingMax) <= sum + v /\ sum + v <= m * ReadingMax
  <2> HIDE DEF m
  <2> QED
    BY <1>2, <1>1
<1>6. sum + v \in Int32
  <2> HIDE DEF m
  <2> QED
    BY <1>3, <1>4, <1>5 DEF Int32, IntMin
<1> QED
  BY <1>1, <1>5, <1>6

LEMMA AddType ==
  ASSUME NEW b \in Buffers, NEW v \in Int32, NEW t \in Times,
         b.cnt < MaxSamples, Fits(b), v \in -ReadingMax .. ReadingMax
  PROVE  Add(b, v, t) \in Buffers /\ Fits(Add(b, v, t))
<1>1. /\ b = [min |-> b.min, max |-> b.max, min_ts |-> b.min_ts, max_ts |-> b.max_ts,
              buff |-> b.buff, cnt |-> b.cnt, sample_ts |-> b.sample_ts,
              sample_ts_val |-> b.sample_ts_val]
      /\ b.min \in Int32 /\ b.max \in Int32 /\ b.min_ts \in Nat /\ b.max_ts \in Nat
      /\ b.buff \in Int32 /\ b.cnt \in 0 .. MaxSamples /\ b.sample_ts \in Nat
      /\ b.sample_ts_val \in Int32
  BY DEF Buffers
<1>2. v \in Int /\ t \in Nat
  BY IntRange
<1>3. Slot(t) \in Nat /\ Minute(t) \in Nat
  BY <1>2, TimeFacts
<1> DEFINE A1 == IF b.sample_ts_val = IntMax THEN Slot(t) ELSE b.sample_ts
           A2 == IF b.sample_ts_val = IntMax THEN v ELSE b.sample_ts_val
           A3 == IF v > b.max THEN v ELSE b.max
           A4 == IF v > b.max THEN Minute(t) ELSE b.max_ts
           A5 == IF v < b.min THEN v ELSE b.min
           A6 == IF v < b.min THEN Minute(t) ELSE b.min_ts
           A7 == b.buff + v
           A8 == b.cnt + 1
<1>4. Add(b, v, t) = [min |-> A5, max |-> A3, min_ts |-> A6, max_ts |-> A4,
                      buff |-> A7, cnt |-> A8, sample_ts |-> A1, sample_ts_val |-> A2]
  BY <1>1, AddFields
<1>5. /\ A1 \in Nat /\ A2 \in Int32 /\ A3 \in Int32 /\ A4 \in Nat /\ A5 \in Int32
      /\ A6 \in Nat
  BY <1>1, <1>2, <1>3
<1>6. /\ A7 \in Int32 /\ A8 \in 0 .. MaxSamples
      /\ -(A8 * ReadingMax) <= A7 /\ A7 <= A8 * ReadingMax
  <2>1. b.buff \in Int /\ b.cnt \in 0 .. MaxSamples - 1
    BY <1>1, IntRange, Numbers
  <2> QED
    BY <2>1, SumFits DEF Fits
<1> HIDE DEF A1, A2, A3, A4, A5, A6, A7, A8
<1>7. Add(b, v, t) \in Buffers
  BY <1>4, <1>5, <1>6 DEF Buffers
<1>8. Add(b, v, t).buff = A7 /\ Add(b, v, t).cnt = A8
  BY <1>4
<1> QED
  BY <1>6, <1>7, <1>8 DEF Fits

LEMMA ReadingType ==
  ASSUME NEW r \in Readings, NEW s \in Series
  PROVE  /\ r[s] \in Int32 /\ r[s] # IntMin /\ r[s] # IntMax
         /\ r[s] \in -ReadingMax .. ReadingMax
<1>1. r[s] \in Values[s]
  BY DEF Readings
<1> QED
  BY <1>1, Numbers, ConstantsOK

LEMMA TimeType ==
  ASSUME NEW t \in Times PROVE TmMin(t) \in 0 .. HourMins - 1 /\ t \in Nat
BY IntRange, TimeFacts

LEMMA BootType == Boot /\ now' \in Times => TypeOK' /\ Sums'
<1> SUFFICES ASSUME Boot, now' \in Times PROVE TypeOK' /\ Sums'
  OBVIOUS
<1>1. /\ up' = TRUE /\ last_secs' = 0 /\ last_minutes' = 0
      /\ buffer' = [s \in Series |-> EmptyBuffer]
      /\ taken' = Nothing /\ rejected' = Nothing /\ lastSlot' = Never
  BY DEF Boot
<1>2. buffer' \in [Series -> Buffers] /\ taken' \in [Series -> Seq(Sample)]
  BY <1>1, EmptyType
<1>3. rejected' \in [Series -> {<<>>} \cup {<<v>> : v \in Int32}]
  BY <1>1 DEF Nothing
<1>4. last_minutes' \in 0 .. HourMins - 1
  BY <1>1, Numbers
<1>5. Sums'
  BY <1>1, EmptyType DEF Sums
<1> QED
  BY <1>1, <1>2, <1>3, <1>4, <1>5 DEF TypeOK, Sample

LEMMA InitType == Init => TypeOK /\ Sums
<1> SUFFICES ASSUME Init PROVE TypeOK /\ Sums
  OBVIOUS
<1>1. /\ up = TRUE /\ last_secs = 0 /\ last_minutes = 0 /\ now \in Times
      /\ buffer = [s \in Series |-> EmptyBuffer]
      /\ taken = Nothing /\ rejected = Nothing /\ lastSlot = Never
  BY DEF Init
<1>2. buffer \in [Series -> Buffers] /\ taken \in [Series -> Seq(Sample)]
  BY <1>1, EmptyType
<1>3. rejected \in [Series -> {<<>>} \cup {<<v>> : v \in Int32}]
  BY <1>1 DEF Nothing
<1>4. last_minutes \in 0 .. HourMins - 1
  BY <1>1, Numbers
<1>5. Sums
  BY <1>1, EmptyType DEF Sums
<1> QED
  BY <1>1, <1>2, <1>3, <1>4, <1>5 DEF TypeOK, Sample

(* What a step does that leaves the samples alone.                          *)
Quiet == /\ last_secs' \in {last_secs, now} /\ last_secs <= last_secs'
         /\ rejected' = Nothing /\ report' = None
         /\ UNCHANGED <<last_minutes, buffer, taken, lastSlot>>

LEMMA QuietSteps ==
  ASSUME TypeOK, ReadFails \/ DivideByZero \/ Tick \/ Synchronize
  PROVE  Quiet /\ now' \in Times /\ up' \in BOOLEAN
<1>1. now \in Nat /\ last_secs \in Nat /\ last_secs <= last_secs
  BY IntRange DEF TypeOK
<1>2. Measures => last_secs <= now
  BY <1>1, Numbers DEF Measures
<1>3. CASE ReadFails
  BY <1>2, <1>3 DEF ReadFails, Quiet, TypeOK
<1>4. CASE DivideByZero
  BY <1>2, <1>4 DEF DivideByZero, Quiet, TypeOK
<1>5. CASE Tick
  <2>1. now' \in Times
    BY <1>5, Numbers DEF Tick, TypeOK, Times
  <2> QED
    BY <1>1, <1>5, <2>1 DEF Tick, Quiet, TypeOK
<1>6. CASE Synchronize
  BY <1>1, <1>6 DEF Synchronize, Quiet, TypeOK
<1> QED
  BY <1>3, <1>4, <1>5, <1>6

LEMMA QuietType ==
  ASSUME TypeOK, Sums, Quiet, now' \in Times, up' \in BOOLEAN
  PROVE  TypeOK' /\ Sums'
<1>1. rejected' \in [Series -> {<<>>} \cup {<<v>> : v \in Int32}]
  BY DEF Quiet, Nothing
<1>2. last_secs' \in Times \cup {0}
  BY DEF Quiet, TypeOK
<1>3. Sums'
  BY DEF Quiet, Sums
<1> QED
  BY <1>1, <1>2, <1>3 DEF Quiet, TypeOK

LEMMA PublishType ==
  ASSUME TypeOK, Publish
  PROVE  TypeOK' /\ Sums'
<1>1. rejected' \in [Series -> {<<>>} \cup {<<v>> : v \in Int32}]
  BY DEF Publish, Nothing
<1>2. buffer' \in [Series -> Buffers] /\ taken' \in [Series -> Seq(Sample)]
  BY EmptyType DEF Publish
<1>3. last_minutes' \in 0 .. HourMins - 1
  BY TimeType DEF Publish, TypeOK
<1>4. lastSlot' \in Nat
  BY DEF Publish, TypeOK, Series, Buffers
<1>5. now' \in Times /\ up' \in BOOLEAN /\ last_secs' \in Times
  BY DEF Publish, TypeOK
<1>6. Sums'
  BY EmptyType DEF Publish, Sums
<1> QED
  BY <1>1, <1>2, <1>3, <1>4, <1>5, <1>6 DEF TypeOK, Sample

(* A reading of each series is added or skipped.                            *)
Step(r, s) ==
  \/ /\ Skips(buffer[s], r[s], Threshold[s])
     /\ buffer'[s] = buffer[s] /\ taken'[s] = taken[s] /\ rejected'[s] = <<r[s]>>
  \/ /\ ~Skips(buffer[s], r[s], Threshold[s])
     /\ buffer'[s] = Add(buffer[s], r[s], now)
     /\ taken'[s] = Append(taken[s], [val |-> r[s], ts |-> now])
     /\ rejected'[s] = <<>>

LEMMA CommitSteps ==
  ASSUME Commit
  PROVE  /\ Measures /\ ~Due /\ last_secs' = now /\ report' = None
         /\ UNCHANGED <<now, up, last_minutes, lastSlot>>
         /\ DOMAIN buffer' = Series /\ DOMAIN taken' = Series /\ DOMAIN rejected' = Series
         /\ buffer' = [s \in Series |-> buffer'[s]]
         /\ taken' = [s \in Series |-> taken'[s]]
         /\ rejected' = [s \in Series |-> rejected'[s]]
         /\ \E r \in Readings : \A s \in Series : Step(r, s)
         /\ \A s \in Series : buffer[s].cnt < MaxSamples
BY DEF Commit, Step

LEMMA CommitType ==
  ASSUME TypeOK, Sums, Commit
  PROVE  TypeOK' /\ Sums'
<1>1. PICK r \in Readings : \A s \in Series : Step(r, s)
  BY CommitSteps
<1>2. ASSUME NEW s \in Series
      PROVE  /\ buffer'[s] \in Buffers /\ Fits(buffer'[s]) /\ taken'[s] \in Seq(Sample)
             /\ rejected'[s] \in {<<>>} \cup {<<v>> : v \in Int32}
  <2>1. /\ buffer[s] \in Buffers /\ taken[s] \in Seq(Sample) /\ now \in Times
        /\ Fits(buffer[s]) /\ buffer[s].cnt < MaxSamples
    BY CommitSteps DEF TypeOK, Sample, Sums
  <2>2. r[s] \in Int32 /\ r[s] \in -ReadingMax .. ReadingMax
    BY ReadingType
  <2>3. [val |-> r[s], ts |-> now] \in Sample
    BY <2>1, <2>2 DEF Sample
  <2>4. Add(buffer[s], r[s], now) \in Buffers /\ Fits(Add(buffer[s], r[s], now))
    BY <2>1, <2>2, AddType
  <2>5. Append(taken[s], [val |-> r[s], ts |-> now]) \in Seq(Sample)
    BY <2>1, <2>3, AppendAt
  <2> QED
    BY <1>1, <2>1, <2>2, <2>4, <2>5 DEF Step
<1>3. /\ buffer' \in [Series -> Buffers] /\ taken' \in [Series -> Seq(Sample)]
      /\ rejected' \in [Series -> {<<>>} \cup {<<v>> : v \in Int32}]
  BY <1>2, CommitSteps
<1>4. /\ now' \in Times /\ up' \in BOOLEAN /\ last_secs' \in Times
      /\ last_minutes' \in 0 .. HourMins - 1 /\ lastSlot' \in Nat \cup {Never}
  BY CommitSteps DEF TypeOK
<1>5. Sums'
  BY <1>2 DEF Sums
<1> QED
  BY <1>3, <1>4, <1>5 DEF TypeOK, Sample

LEMMA NextType == TypeOK /\ Sums /\ [Next]_vars => TypeOK' /\ Sums'
<1> SUFFICES ASSUME TypeOK, Sums, [Next]_vars PROVE TypeOK' /\ Sums'
  OBVIOUS
<1>1. CASE ReadFails \/ DivideByZero \/ Tick \/ Synchronize
  BY <1>1, QuietSteps, QuietType
<1>2. CASE Commit
  BY <1>2, CommitType
<1>3. CASE Publish
  BY <1>3, PublishType
<1>4. CASE Reset
  <2>1. Boot /\ now' \in Times
    BY <1>4 DEF Reset, TypeOK
  <2> QED
    BY <2>1, BootType
<1>5. CASE UNCHANGED vars
  BY <1>5 DEF TypeOK, vars, Sums, Fits
<1> QED
  BY <1>1, <1>2, <1>3, <1>4, <1>5 DEF Next

(* Every variable of the sampler keeps its type: extremes, first value and  *)
(* sum of a buffer fit the int32_t fields of struct wlab_buffer (the sum as *)
(* long as there are no more than MaxSamples readings, which ConstantsOK    *)
(* bounds), and last_minutes, which is compared with tm_min, is a minute of *)
(* the hour.                                                                *)
THEOREM TypeCorrect == Spec => []TypeOK
<1>1. Init => TypeOK /\ Sums
  BY InitType
<1>2. TypeOK /\ Sums /\ [Next]_vars => TypeOK' /\ Sums'
  BY NextType
<1> QED
  BY <1>1, <1>2, PTL DEF Spec

-----------------------------------------------------------------------------
(* The inductive invariant.                                                 *)

(* Samples are in the order they were taken in, none after the last one.    *)
InOrder(q, last) ==
  \A i \in 1 .. Len(q) : q[1].ts <= q[i].ts /\ q[i].ts <= last

Samples == \A s \in Series : Proper(taken[s]) /\ InOrder(taken[s], last_secs)

(* Nothing is skipped from an empty buffer, so that the first samples of    *)
(* both series are those of one reading.                                    *)
Together ==
  LET p == taken["Temperature"] q == taken["Humidity"] IN
  /\ p = <<>> <=> q = <<>>
  /\ p # <<>> => p[1].ts = q[1].ts

(* The last report is of a slot that has ended, and the samples are of a    *)
(* later slot; they may have been taken in a minute of publication only if  *)
(* that is the minute of the last report.                                   *)
Slots ==
  HourMins % PublishPeriodMins = 0 =>
    /\ lastSlot < Slot(last_secs)
    /\ LET q == taken["Temperature"] IN
       q # <<>> =>
         /\ lastSlot < Slot(q[1].ts)
         /\ TmMin(q[1].ts) % PublishPeriodMins = 0 => TmMin(q[1].ts) = last_minutes

IInv == TypeOK /\ Sums /\ Samples /\ BufferSummarises /\ Together /\ Slots

LEMMA FirstSample ==
  ASSUME NEW q \in Seq(Sample), q # <<>>
  PROVE  /\ 1 \in 1 .. Len(q) /\ q[1] \in Sample /\ q[1].ts \in Times
         /\ q[1].ts \in Nat /\ q[1].val \in Int32
<1>1. Len(q) \in Nat /\ Len(q) # 0
  BY LenProperties, EmptySeq
<1>2. 1 \in 1 .. Len(q)
  BY <1>1
<1> QED
  BY <1>2, SampleInt

LEMMA SummaryFields ==
  ASSUME NEW q \in Seq(Sample)
  PROVE  /\ q = <<>> => Summary(q) = EmptyBuffer
         /\ Summary(q).cnt = Len(q) /\ Len(q) \in Nat
         /\ Summary(q).cnt = 0 <=> q = <<>>
         /\ q # <<>> =>
              /\ Summary(q).min = Min(Vals(q)) /\ Summary(q).max = Max(Vals(q))
              /\ Summary(q).min_ts = Minute(FirstOf(q, Min(Vals(q))).ts)
              /\ Summary(q).max_ts = Minute(FirstOf(q, Max(Vals(q))).ts)
              /\ Summary(q).buff = Total(q)
              /\ Summary(q).sample_ts = Slot(q[1].ts)
              /\ Summary(q).sample_ts_val = q[1].val
<1>1. Len(q) \in Nat /\ (Len(q) = 0 <=> q = <<>>)
  BY LenProperties, EmptySeq
<1>2. q = <<>> => Summary(q) = EmptyBuffer /\ EmptyBuffer.cnt = 0
  BY DEF Summary, EmptyBuffer
<1>3. CASE q = <<>>
  BY <1>1, <1>2, <1>3
<1>4. CASE q # <<>>
  <2>1. Summary(q) =
          [min |-> Min(Vals(q)), min_ts |-> Minute(FirstOf(q, Min(Vals(q))).ts),
           max |-> Max(Vals(q)), max_ts |-> Minute(FirstOf(q, Max(Vals(q))).ts),
           buff |-> Total(q), cnt |-> Len(q),
           sample_ts |-> Slot(q[1].ts), sample_ts_val |-> q[1].val]
    BY <1>4 DEF Summary, Total
  <2> QED
    BY <1>1, <1>4, <2>1
<1> QED
  BY <1>3, <1>4

LEMMA EmptyParts ==
  ASSUME NEW last \in Nat
  PROVE  /\ Proper(<<>>) /\ InOrder(<<>>, last) /\ Summary(<<>>) = EmptyBuffer
BY DEF Proper, InOrder, Summary

LEMMA InitInv == Init => IInv
<1> SUFFICES ASSUME Init PROVE IInv
  OBVIOUS
<1>1. /\ last_secs = 0 /\ lastSlot = Never
      /\ \A s \in Series : buffer[s] = EmptyBuffer /\ taken[s] = <<>>
  BY DEF Init, Nothing
<1>2. Samples /\ BufferSummarises
  BY <1>1, EmptyParts DEF Samples, BufferSummarises
<1>3. Together
  BY <1>1 DEF Together, Series
<1>4. Slots
  <2>1. Slot(0) \in Nat
    BY TimeFacts
  <2>2. taken["Temperature"] = <<>>
    BY <1>1 DEF Series
  <2> QED
    BY <1>1, <2>1, <2>2 DEF Slots, Never
<1> QED
  BY <1>2, <1>3, <1>4, InitType DEF IInv

LEMMA ResetInv ==
  ASSUME IInv, Reset
  PROVE  Samples' /\ BufferSummarises' /\ Together' /\ Slots'
<1>1. /\ last_secs' = 0 /\ lastSlot' = Never
      /\ \A s \in Series : buffer'[s] = EmptyBuffer /\ taken'[s] = <<>>
  BY DEF Reset, Boot, Nothing
<1>2. Samples' /\ BufferSummarises'
  BY <1>1, EmptyParts DEF Samples, BufferSummarises
<1>3. Together'
  BY <1>1 DEF Together, Series
<1>4. Slots'
  <2>1. Slot(0) \in Nat
    BY TimeFacts
  <2>2. taken'["Temperature"] = <<>>
    BY <1>1 DEF Series
  <2> QED
    BY <1>1, <2>1, <2>2 DEF Slots, Never
<1> QED
  BY <1>2, <1>3, <1>4

LEMMA LaterOrder ==
  ASSUME NEW q \in Seq(Sample), NEW t \in Nat, NEW u \in Nat, t <= u, InOrder(q, t)
  PROVE  InOrder(q, u)
<1>1. \A i \in 1 .. Len(q) : q[i].ts \in Nat
  BY SampleInt
<1> QED
  BY <1>1 DEF InOrder

LEMMA QuietInv ==
  ASSUME IInv, Quiet
  PROVE  Samples' /\ BufferSummarises' /\ Together' /\ Slots'
<1>1. /\ last_secs' \in Nat /\ last_secs \in Nat /\ last_secs <= last_secs'
      /\ lastSlot \in Int
  <2>1. TypeOK
    BY DEF IInv
  <2> QED
    BY <2>1, IntRange DEF Quiet, TypeOK, Never
<1>2. /\ last_minutes' = last_minutes /\ buffer' = buffer /\ taken' = taken
      /\ lastSlot' = lastSlot
  BY DEF Quiet
<1>3. Samples'
  BY <1>1, <1>2, LaterOrder DEF IInv, Samples, Proper
<1>4. BufferSummarises' /\ Together'
  BY <1>2 DEF IInv, BufferSummarises, Together
<1>5. Slot(last_secs) <= Slot(last_secs') /\ Slot(last_secs) \in Int /\ Slot(last_secs') \in Int
  BY <1>1, SlotMonotone, TimeFacts
<1>6. Slots'
  BY <1>1, <1>2, <1>5 DEF IInv, Slots
<1> QED
  BY <1>3, <1>4, <1>6

LEMMA PublishInv ==
  ASSUME IInv, Publish
  PROVE  Samples' /\ BufferSummarises' /\ Together' /\ Slots'
<1> DEFINE q == taken["Temperature"]
<1>1. /\ last_secs' = now /\ lastSlot' = buffer["Temperature"].sample_ts
      /\ \A s \in Series : buffer'[s] = EmptyBuffer /\ taken'[s] = <<>>
      /\ buffer["Temperature"].cnt # 0
      /\ TmMin(now) % PublishPeriodMins = 0 /\ TmMin(now) # last_minutes
      /\ Measures
  BY DEF Publish, Nothing, Due, Series
<1>2. now \in Nat /\ last_secs \in Nat /\ last_secs <= now
  BY <1>1, IntRange, Numbers DEF IInv, TypeOK, Measures
<1>3. Samples' /\ BufferSummarises'
  BY <1>1, <1>2, EmptyParts DEF Samples, BufferSummarises
<1>4. taken'["Temperature"] = <<>> /\ taken'["Humidity"] = <<>>
  BY <1>1 DEF Series
<1>5. Together'
  BY <1>4 DEF Together
<1>6. /\ q \in Seq(Sample) /\ InOrder(q, last_secs)
      /\ buffer["Temperature"] = Summary(q)
  BY DEF IInv, Samples, Proper, BufferSummarises, Series
<1>7. q # <<>>
  BY <1>1, <1>6, SummaryFields
<1> HIDE DEF q
<1>8. lastSlot' = Slot(q[1].ts)
  BY <1>1, <1>6, <1>7, SummaryFields
<1>9. q[1].ts \in Nat /\ q[1].ts <= now
  BY <1>2, <1>6, <1>7, FirstSample DEF InOrder
<1>10. ASSUME HourMins % PublishPeriodMins = 0
       PROVE  lastSlot' < Slot(last_secs')
  <2>1. TmMin(q[1].ts) % PublishPeriodMins = 0 => TmMin(q[1].ts) = last_minutes
    BY <1>7, <1>10 DEF IInv, Slots, q
  <2>2. Slot(q[1].ts) < Slot(now)
    BY <1>1, <1>2, <1>9, <1>10, <2>1, SlotGrows
  <2> QED
    BY <1>1, <1>8, <2>2
<1>11. Slots'
  BY <1>4, <1>10 DEF Slots
<1> QED
  BY <1>3, <1>5, <1>11

(* What a reading that is not skipped does to the samples of a series.      *)
LEMMA AppendOrder ==
  ASSUME NEW q, Proper(q), NEW last \in Nat, InOrder(q, last),
         NEW v \in Int32, v # IntMin, v # IntMax, NEW t \in Times, last <= t
  PROVE  LET p == Append(q, [val |-> v, ts |-> t]) IN
         /\ Proper(p) /\ InOrder(p, t) /\ p # <<>>
         /\ p[1].ts = IF q = <<>> THEN t ELSE q[1].ts
<1> DEFINE r == [val |-> v, ts |-> t]
           p == Append(q, r)
<1>1. q \in Seq(Sample) /\ r \in Sample /\ r.val = v /\ r.ts = t
  BY DEF Proper, Sample
<1> HIDE DEF r
<1>2. /\ p \in Seq(Sample) /\ Len(q) \in Nat /\ p # <<>> /\ Len(p) = Len(q) + 1
      /\ \A i \in 1 .. Len(q) : p[i] = q[i]
      /\ p[Len(q) + 1] = r
  BY <1>1, AppendAt
<1> HIDE DEF p
<1>3. \A i \in 1 .. Len(p) : i \in 1 .. Len(q) \/ (i = Len(q) + 1 /\ p[i] = r)
  BY <1>2
<1>4. \A i \in 1 .. Len(q) : /\ q[i].val # IntMin /\ q[i].val # IntMax
                             /\ q[1].ts <= q[i].ts /\ q[i].ts <= last /\ q[i].ts \in Nat
  BY <1>1, SampleInt DEF Proper, InOrder
<1>5. Proper(p)
  BY <1>1, <1>2, <1>3, <1>4 DEF Proper
<1>6. t \in Nat
  BY IntRange
<1>7. CASE q = <<>>
  <2>1. Len(q) = 0
    BY <1>7
  <2>2. p[1] = r /\ \A i \in 1 .. Len(p) : p[i] = r
    BY <1>2, <2>1
  <2>3. InOrder(p, t)
    BY <1>1, <1>6, <2>2 DEF InOrder
  <2> QED
    BY <1>1, <1>2, <1>5, <1>7, <2>2, <2>3 DEF p, r
<1>8. CASE q # <<>>
  <2>1. 1 \in 1 .. Len(q) /\ q[1].ts \in Nat
    BY <1>1, <1>8, FirstSample
  <2>2. p[1] = q[1] /\ q[1].ts <= last
    BY <1>2, <1>4, <2>1
  <2>3. ASSUME NEW i \in 1 .. Len(p) PROVE p[1].ts <= p[i].ts /\ p[i].ts <= t
    <3>1. CASE i \in 1 .. Len(q)
      BY <1>2, <1>4, <1>6, <2>2, <3>1
    <3>2. CASE i = Len(q) + 1 /\ p[i] = r
      BY <1>1, <1>6, <2>1, <2>2, <3>2
    <3> QED
      BY <1>3, <3>1, <3>2
  <2>4. InOrder(p, t)
    BY <2>3 DEF InOrder
  <2> QED
    BY <1>1, <1>2, <1>5, <1>8, <2>2, <2>4 DEF p, r
<1> QED
  BY <1>7, <1>8

(* Nothing is skipped from an empty buffer.                                 *)
LEMMA NoSkip ==
  ASSUME NEW q, q = <<>>, NEW v, NEW t
  PROVE  ~Skips(Summary(q), v, t)
<1>1. Summary(q).cnt = 0
  BY DEF Summary, EmptyBuffer
<1> QED
  BY <1>1, Numbers DEF Skips

LEMMA CommitInv ==
  ASSUME IInv, Commit
  PROVE  Samples' /\ BufferSummarises' /\ Together' /\ Slots'
<1>1. PICK r \in Readings : \A s \in Series : Step(r, s)
  BY CommitSteps
<1>2. /\ last_secs' = now /\ last_minutes' = last_minutes /\ lastSlot' = lastSlot
      /\ Measures /\ ~Due
  BY CommitSteps
<1>3. now \in Times /\ now \in Nat /\ last_secs \in Nat /\ last_secs <= now
  <2>1. now \in Times /\ now \in Nat /\ last_secs \in Nat
    BY IntRange DEF IInv, TypeOK
  <2> QED
    BY <1>2, <2>1, Numbers DEF Measures
<1>4. ASSUME NEW s \in Series
      PROVE  /\ Proper(taken'[s]) /\ InOrder(taken'[s], now)
             /\ buffer'[s] = Summary(taken'[s])
             /\ taken'[s] # <<>>
             /\ taken'[s][1].ts = IF taken[s] = <<>> THEN now ELSE taken[s][1].ts
  <2> DEFINE q == taken[s]
             v == r[s]
  <2>1. Proper(q) /\ InOrder(q, last_secs) /\ buffer[s] = Summary(q) /\ q \in Seq(Sample)
    BY DEF IInv, Samples, BufferSummarises, Proper
  <2>2. v \in Int32 /\ v # IntMin /\ v # IntMax
    BY ReadingType
  <2>3. \/ /\ Skips(Summary(q), v, Threshold[s])
           /\ buffer'[s] = Summary(q) /\ taken'[s] = q
        \/ /\ buffer'[s] = Add(Summary(q), v, now)
           /\ taken'[s] = Append(q, [val |-> v, ts |-> now])
    BY <1>1, <2>1 DEF Step
  <2> HIDE DEF q, v
  <2>4. CASE /\ Skips(Summary(q), v, Threshold[s])
             /\ buffer'[s] = Summary(q) /\ taken'[s] = q
    <3>1. q # <<>>
      BY <2>4, NoSkip
    <3>2. InOrder(q, now)
      BY <1>3, <2>1, LaterOrder
    <3> QED
      BY <2>1, <2>4, <3>1, <3>2 DEF q
  <2>5. CASE /\ buffer'[s] = Add(Summary(q), v, now)
             /\ taken'[s] = Append(q, [val |-> v, ts |-> now])
    <3> DEFINE p == Append(q, [val |-> v, ts |-> now])
    <3>1. Add(Summary(q), v, now) = Summary(p)
      BY <1>3, <2>1, <2>2, AddSummary
    <3>2. /\ Proper(p) /\ InOrder(p, now) /\ p # <<>>
          /\ p[1].ts = IF q = <<>> THEN now ELSE q[1].ts
      BY <1>3, <2>1, <2>2, AppendOrder
    <3> HIDE DEF p
    <3>3. buffer'[s] = Summary(p) /\ taken'[s] = p
      BY <2>5, <3>1 DEF p
    <3> QED
      BY <3>2, <3>3 DEF q
  <2> QED
    BY <2>3, <2>4, <2>5
<1>5. Samples' /\ BufferSummarises'
  BY <1>2, <1>4 DEF Samples, BufferSummarises
<1>6. Together'
  <2>1. /\ taken'["Temperature"] # <<>> /\ taken'["Humidity"] # <<>>
        /\ taken'["Temperature"][1].ts =
             IF taken["Temperature"] = <<>> THEN now ELSE taken["Temperature"][1].ts
        /\ taken'["Humidity"][1].ts =
             IF taken["Humidity"] = <<>> THEN now ELSE taken["Humidity"][1].ts
    BY <1>4 DEF Series
  <2>2. Together
    BY DEF IInv
  <2> QED
    BY <2>1, <2>2 DEF Together
<1>7. ASSUME HourMins % PublishPeriodMins = 0
      PROVE  /\ lastSlot' < Slot(last_secs')
             /\ lastSlot' < Slot(taken'["Temperature"][1].ts)
             /\ TmMin(taken'["Temperature"][1].ts) % PublishPeriodMins = 0
                  => TmMin(taken'["Temperature"][1].ts) = last_minutes'
  <2> DEFINE q == taken["Temperature"]
             p == taken'["Temperature"]
  <2>1. p # <<>> /\ p[1].ts = IF q = <<>> THEN now ELSE q[1].ts
    BY <1>4 DEF Series
  <2>2. /\ lastSlot < Slot(last_secs) /\ lastSlot \in Int
        /\ q # <<>> => /\ lastSlot < Slot(q[1].ts)
                       /\ TmMin(q[1].ts) % PublishPeriodMins = 0
                            => TmMin(q[1].ts) = last_minutes
    BY <1>7 DEF IInv, Slots, TypeOK, Never
  <2>3. Slot(last_secs) <= Slot(now) /\ Slot(now) \in Int /\ Slot(last_secs) \in Int
    BY <1>3, SlotMonotone, TimeFacts
  <2>4. lastSlot < Slot(now)
    BY <2>2, <2>3
  <2>5. TmMin(now) % PublishPeriodMins = 0 => TmMin(now) = last_minutes
    BY <1>2 DEF Due
  <2> HIDE DEF p, q
  <2>6. lastSlot < Slot(p[1].ts) /\
        (TmMin(p[1].ts) % PublishPeriodMins = 0 => TmMin(p[1].ts) = last_minutes)
    BY <2>1, <2>2, <2>4, <2>5
  <2> QED
    BY <1>2, <2>4, <2>6 DEF p
<1>8. Slots'
  BY <1>7 DEF Slots
<1> QED
  BY <1>5, <1>6, <1>8

LEMMA NextInv == IInv /\ [Next]_vars => IInv'
<1> SUFFICES ASSUME IInv, [Next]_vars PROVE IInv'
  OBVIOUS
<1>1. TypeOK /\ TypeOK' /\ Sums'
  BY NextType DEF IInv
<1>2. CASE ReadFails \/ DivideByZero \/ Tick \/ Synchronize
  BY <1>1, <1>2, QuietSteps, QuietInv DEF IInv
<1>3. CASE Commit
  BY <1>1, <1>3, CommitInv DEF IInv
<1>4. CASE Publish
  BY <1>1, <1>4, PublishInv DEF IInv
<1>5. CASE Reset
  BY <1>1, <1>5, ResetInv DEF IInv
<1>6. CASE UNCHANGED vars
  BY <1>1, <1>6 DEF IInv, vars, Samples, BufferSummarises, Together, Slots
<1> QED
  BY <1>2, <1>3, <1>4, <1>5, <1>6 DEF Next

LEMMA InvAlways == Spec => []IInv
<1>1. Init => IInv
  BY InitInv
<1>2. IInv /\ [Next]_vars => IInv'
  BY NextInv
<1> QED
  BY <1>1, <1>2, PTL DEF Spec

(* Whatever the readings, the skipped ones and the resets, each wlab_buffer *)
(* holds the extremes of its samples with the minute each was first seen    *)
(* in, their sum and number, and the first one with the time of its slot:   *)
(* by induction over the samples, as the fold of their sum requires.        *)
THEOREM Summaries == Spec => []BufferSummarises
<1>1. IInv => BufferSummarises
  BY DEF IInv
<1> QED
  BY <1>1, InvAlways, PTL

(* Two reports between resets never carry the same timestamp, nor an        *)
(* earlier one after a later one, for every period that divides the hour.   *)
THEOREM ReportsAdvance == Spec => SlotsIncrease
<1>1. ASSUME IInv, [Next]_vars
      PROVE  HourMins % PublishPeriodMins = 0 /\ report' # None
               => lastSlot < report'.slot \/ UNCHANGED vars
  <2> SUFFICES ASSUME HourMins % PublishPeriodMins = 0, report' # None
               PROVE  lastSlot < report'.slot \/ UNCHANGED vars
    OBVIOUS
  <2>2. IInv
    BY <1>1
  <2>1. CASE Publish
    <3> DEFINE q == taken["Temperature"]
    <3>1. /\ buffer["Temperature"] = Summary(q) /\ q \in Seq(Sample)
          /\ buffer["Temperature"].cnt # 0
      BY <2>1, <2>2 DEF Publish, IInv, BufferSummarises, Samples, Proper, Series
    <3>2. q # <<>> /\ buffer["Temperature"].sample_ts = Slot(q[1].ts)
      BY <3>1, SummaryFields
    <3>3. lastSlot < Slot(q[1].ts)
      BY <2>2, <3>2 DEF IInv, Slots
    <3>4. report'.slot = buffer["Temperature"].sample_ts
      BY <2>1 DEF Publish
    <3> QED
      BY <3>2, <3>3, <3>4
  <2>3. CASE ReadFails \/ DivideByZero \/ Tick \/ Synchronize
    BY <2>3 DEF ReadFails, DivideByZero, Tick, Synchronize
  <2>4. CASE Commit \/ Reset
    BY <2>4 DEF Commit, Reset, Boot
  <2> QED
    BY <1>1, <2>1, <2>3, <2>4 DEF Next
<1>2. IInv /\ [Next]_vars
        => [HourMins % PublishPeriodMins = 0 /\ report' # None
              => lastSlot < report'.slot]_vars
  BY <1>1
<1> QED
  BY <1>2, InvAlways, PTL DEF Spec, SlotsIncrease

-----------------------------------------------------------------------------
(* What is published.                                                       *)

LEMMA QuotientBounds ==
  ASSUME NEW a \in Int, NEW b \in Nat \ {0}, NEW lo \in Int, NEW hi \in Int,
         b * lo <= a, a <= b * hi
  PROVE  Quotient(a, b) \in lo .. hi
<1>1. CASE 0 <= a
  BY <1>1, DivBounds DEF Quotient
<1>2. CASE ~ (0 <= a)
  <2> DEFINE n == - a
             l == - hi
             h == - lo
  <2>1. /\ b * l = - (b * hi) /\ b * h = - (b * lo)
        /\ b * hi \in Int /\ b * lo \in Int
    OBVIOUS
  <2>2. n \in Int /\ l \in Int /\ h \in Int /\ b * l <= n /\ n <= b * h
    BY <2>1
  <2> HIDE DEF n, l, h
  <2>3. n \div b \in l .. h
    BY <2>2, DivBounds
  <2>4. Quotient(a, b) = - (n \div b)
    BY <1>2 DEF Quotient, n
  <2> QED
    BY <2>2, <2>3, <2>4 DEF l, h
<1> QED
  BY <1>1, <1>2

LEMMA BodyOK ==
  ASSUME NEW q, Proper(q), q # <<>>, NEW t \in Nat, InOrder(q, t)
  PROVE  LET b == Body(Summary(q)) IN
         /\ {b.avg, b.act} \subseteq b.min .. b.max
         /\ {b.min_ts, b.max_ts} \subseteq Slot(q[1].ts) .. t
         /\ b.avg = Quotient(Total(q), Len(q))
<1> DEFINE lo == Min(Vals(q))
           hi == Max(Vals(q))
           n == Len(q)
           b == Body(Summary(q))
<1>1. q \in Seq(Sample)
  BY DEF Proper
<1>2. /\ b.avg = Quotient(Total(q), n) /\ b.act = q[1].val
      /\ b.min = lo /\ b.max = hi
      /\ b.min_ts = Minute(FirstOf(q, lo).ts) /\ b.max_ts = Minute(FirstOf(q, hi).ts)
  BY <1>1, SummaryFields DEF Body
<1>3. /\ lo \in Vals(q) /\ hi \in Vals(q) /\ lo \in Int /\ hi \in Int
      /\ \A x \in Vals(q) : x \in Int /\ lo <= x /\ x <= hi
  BY <1>1, Extremes, ValsInt, IntRange
<1>4. n \in Nat \ {0} /\ \A i \in 1 .. n : q[i].val \in Vals(q) /\ q[i].ts \in Nat
  BY <1>1, LenProperties, EmptySeq, SampleInt DEF Vals
<1> HIDE DEF lo, hi, n, b
<1>5. b.act \in lo .. hi
  <2>1. q[1].val \in Vals(q)
    BY <1>1, ValsInt
  <2>2. q[1].val \in Int /\ lo <= q[1].val /\ q[1].val <= hi
    BY <1>3, <2>1
  <2> QED
    BY <1>2, <1>3, <2>2
<1>6. b.avg \in lo .. hi
  <2> DEFINE f == [i \in 1 .. n |-> q[i].val]
  <2>1. ASSUME NEW i \in 1 .. n PROVE q[i].val \in lo .. hi
    <3>1. q[i].val \in Vals(q)
      BY <1>4
    <3>2. q[i].val \in Int /\ lo <= q[i].val /\ q[i].val <= hi
      BY <1>3, <3>1
    <3> QED
      BY <1>3, <3>2
  <2>2. f \in [1 .. n -> lo .. hi] /\ f \in [1 .. n -> Int]
    BY <2>1
  <2>3. Total(q) = SumFunction(f)
    BY DEF Total, n
  <2> HIDE DEF f
  <2>4. n * lo <= Total(q) /\ Total(q) <= n * hi
    BY <1>3, <1>4, <2>2, <2>3, SumBounds
  <2>5. Total(q) \in Int
    BY <1>4, <2>2, <2>3, SumInt
  <2>6. Quotient(Total(q), n) \in lo .. hi
    BY <1>3, <1>4, <2>4, <2>5, QuotientBounds
  <2> QED
    BY <1>2, <2>6
<1>7. ASSUME NEW v \in Vals(q)
      PROVE  Minute(FirstOf(q, v).ts) \in Slot(q[1].ts) .. t
  <2>1. PICK i \in 1 .. Len(q) : FirstOf(q, v) = q[i]
    BY <1>1, FirstExists
  <2>2. /\ q[i].ts \in Nat /\ q[1].ts \in Nat /\ q[1].ts <= q[i].ts /\ q[i].ts <= t
    BY <1>1, SampleInt, FirstSample DEF InOrder
  <2>3. Slot(q[1].ts) <= Slot(q[i].ts)
    BY <2>2, SlotMonotone
  <2> DEFINE u == q[i].ts
             w == q[1].ts
  <2>4. u \in Nat /\ w \in Nat /\ u <= t /\ Slot(w) <= Slot(u)
    BY <2>2, <2>3
  <2>5. FirstOf(q, v).ts = u
    BY <2>1
  <2> HIDE DEF u, w
  <2>6. /\ Slot(u) \in Nat /\ Minute(u) \in Nat /\ Slot(w) \in Nat
        /\ Slot(u) <= Minute(u) /\ Minute(u) <= u
    BY <2>4, TimeBounds
  <2>7. Minute(u) \in Slot(w) .. t
    BY <2>4, <2>6
  <2> QED
    BY <2>5, <2>7 DEF w
<1>8. {b.min_ts, b.max_ts} \subseteq Slot(q[1].ts) .. t
  BY <1>2, <1>3, <1>7
<1> QED
  BY <1>2, <1>5, <1>6, <1>8 DEF b, n

LEMMA PublishCoherent ==
  ASSUME IInv, Publish
  PROVE  ReportCoherent'
<1>1. /\ report' = [slot |-> buffer["Temperature"].sample_ts, at |-> now,
                    body |-> [s \in Series |-> Body(buffer[s])], of |-> taken]
      /\ \A s \in Series : buffer[s].cnt # 0
      /\ Measures
  BY DEF Publish
<1>2. now \in Nat /\ last_secs \in Nat /\ last_secs <= now
  <2>1. now \in Nat /\ last_secs \in Nat
    BY IntRange DEF IInv, TypeOK
  <2> QED
    BY <1>1, <2>1, Numbers DEF Measures
<1>3. ASSUME NEW s \in Series
      PROVE  /\ Proper(taken[s]) /\ taken[s] # <<>> /\ InOrder(taken[s], now)
             /\ buffer[s] = Summary(taken[s])
  <2> DEFINE q == taken[s]
  <2>1. Proper(q) /\ InOrder(q, last_secs) /\ buffer[s] = Summary(q) /\ q \in Seq(Sample)
    BY DEF IInv, Samples, BufferSummarises, Proper
  <2> HIDE DEF q
  <2>2. q # <<>>
    BY <1>1, <2>1, SummaryFields
  <2>3. InOrder(q, now)
    BY <1>2, <2>1, LaterOrder
  <2> QED
    BY <2>1, <2>2, <2>3 DEF q
<1>4. ASSUME NEW s \in Series
      PROVE  taken[s][1].ts = taken["Temperature"][1].ts
  BY <1>3 DEF IInv, Together, Series
<1>5. buffer["Temperature"].sample_ts = Slot(taken["Temperature"][1].ts)
  <2> DEFINE q == taken["Temperature"]
  <2>1. q \in Seq(Sample) /\ q # <<>> /\ buffer["Temperature"] = Summary(q)
    BY <1>3 DEF Proper, Series
  <2> HIDE DEF q
  <2> QED
    BY <2>1, SummaryFields DEF q
<1>6. ASSUME NEW s \in Series
      PROVE  LET b == report'.body[s] q == report'.of[s] IN
             /\ {b.avg, b.act} \subseteq b.min .. b.max
             /\ {b.min_ts, b.max_ts} \subseteq report'.slot .. report'.at
             /\ report'.slot = Slot(q[1].ts)
             /\ b.avg = Quotient(Total(q), Len(q))
  <2> DEFINE q == taken[s]
             b == Body(Summary(q))
  <2>1. report'.body[s] = b /\ report'.of[s] = q /\ report'.at = now
        /\ report'.slot = Slot(q[1].ts)
    BY <1>1, <1>3, <1>4, <1>5
  <2>2. Proper(q) /\ q # <<>> /\ InOrder(q, now)
    BY <1>3
  <2> HIDE DEF q
  <2>3. /\ {b.avg, b.act} \subseteq b.min .. b.max
        /\ {b.min_ts, b.max_ts} \subseteq Slot(q[1].ts) .. now
        /\ b.avg = Quotient(Total(q), Len(q))
    BY <1>2, <2>2, BodyOK
  <2> HIDE DEF b
  <2> QED
    BY <2>1, <2>3
<1> QED
  BY <1>6 DEF ReportCoherent, Total

(* Whatever is published in whatever minute, for both series: the average   *)
(* is that of the samples, it and the first sample lie between the extremes,*)
(* these were seen between the report's timestamp and now, and the timestamp*)
(* is that of the first sample, though only the temperature's is sent.      *)
THEOREM Coherence == Spec => []ReportCoherent
<1>1. Init => ReportCoherent
  BY DEF Init, ReportCoherent
<1>2. IInv /\ ReportCoherent /\ [Next]_vars => ReportCoherent'
  <2> SUFFICES ASSUME IInv, ReportCoherent, [Next]_vars PROVE ReportCoherent'
    OBVIOUS
  <2>1. CASE Publish
    BY <2>1, PublishCoherent
  <2>2. CASE ReadFails \/ DivideByZero \/ Tick \/ Synchronize \/ Commit \/ Reset
    <3>1. report' = None
      BY <2>2 DEF ReadFails, DivideByZero, Tick, Synchronize, Commit, Reset, Boot
    <3> QED
      BY <3>1 DEF ReportCoherent
  <2>3. CASE UNCHANGED vars
    BY <2>3 DEF ReportCoherent, vars
  <2> QED
    BY <2>1, <2>2, <2>3 DEF Next
<1> QED
  BY <1>1, <1>2, InvAlways, PTL DEF Spec

-----------------------------------------------------------------------------
(* The band of the thresholds.                                              *)

(* Samples on which the comparisons of uint32_t are those of the integers.  *)
Banded(q, t) == \A v \in Vals(q) : t <= v /\ v + t <= IntMax
(* Every sample after the first WarmUp + 1 is close to those before it.     *)
Close(q, t) ==
  \A i \in WarmUp + 2 .. Len(q) :
    LET before == Vals(SubSeq(q, 1, i - 1)) IN
    ~Outlier(Min(before), Max(before), q[i].val, t)

LEMMA UnsignedSmall ==
  ASSUME NEW v \in 0 .. IntMax + IntMax
  PROVE  Unsigned(v) = v
<1>1. Modulus \in Nat \ {0} /\ v \in 0 .. Modulus - 1 /\ v \in Int
  BY Numbers DEF Modulus
<1>2. v = (Modulus * 0) + v
  BY <1>1
<1>3. v % Modulus = v
  BY <1>1, <1>2, DivUnique
<1> QED
  BY <1>3 DEF Unsigned

LEMMA SkipsAreOutliers ==
  ASSUME NEW q, Proper(q), q # <<>>, NEW t \in 0 .. IntMax, Banded(q, t),
         NEW v \in Int32, t <= v
  PROVE  LET b == Summary(q) IN
         TooHigh(b, v, t) \/ TooLow(b, v, t) <=> Outlier(b.min, b.max, v, t)
<1> DEFINE lo == Min(Vals(q))
           hi == Max(Vals(q))
           b == Summary(q)
<1>1. q \in Seq(Sample)
  BY DEF Proper
<1>2. lo \in Vals(q) /\ hi \in Vals(q) /\ b.min = lo /\ b.max = hi
  BY <1>1, Extremes, SummaryFields
<1>3. \A x \in Vals(q) : x \in Int32 /\ x # IntMax /\ t <= x
  <2>1. Vals(q) \subseteq Int32
    BY <1>1, ValsInt
  <2>2. \A x \in Vals(q) : x # IntMax
    BY DEF Proper, Vals
  <2> QED
    BY <2>1, <2>2 DEF Banded
<1> HIDE DEF lo, hi, b
<1>4. /\ lo \in Int /\ hi \in Int /\ 0 <= lo /\ 0 <= hi /\ lo <= IntMax /\ hi <= IntMax
      /\ lo # IntMax /\ v \in Int /\ v <= IntMax /\ t \in Int /\ 0 <= t /\ t <= IntMax
      /\ IntMax \in Nat /\ hi # IntMin
  <2>1. /\ \A x \in Int32 : x \in Int /\ IntMin <= x /\ x <= IntMax
        /\ IntMin \in Int /\ IntMin < 0 /\ IntMax \in Nat
    BY Numbers DEF Int32, IntMin
  <2>2. lo \in Int32 /\ hi \in Int32 /\ lo # IntMax /\ t <= lo /\ t <= hi
    BY <1>2, <1>3
  <2>3. t \in Int /\ 0 <= t /\ t <= IntMax
    BY <2>1
  <2> QED
    BY <2>1, <2>2, <2>3
<1>5. /\ v - t \in 0 .. IntMax + IntMax /\ v + t \in 0 .. IntMax + IntMax
      /\ lo \in 0 .. IntMax + IntMax /\ hi \in 0 .. IntMax + IntMax
  BY <1>4
<1>6. /\ Unsigned(v - t) = v - t /\ Unsigned(v + t) = v + t
      /\ Unsigned(lo) = lo /\ Unsigned(hi) = hi
  <2> DEFINE d == v - t
             a == v + t
  <2>1. d \in 0 .. IntMax + IntMax /\ a \in 0 .. IntMax + IntMax
    BY <1>5
  <2> HIDE DEF d, a
  <2>2. Unsigned(d) = d /\ Unsigned(a) = a /\ Unsigned(lo) = lo /\ Unsigned(hi) = hi
    BY <1>5, <2>1, UnsignedSmall
  <2> QED
    BY <2>2 DEF d, a
<1>7. TooHigh(b, v, t) <=> v - t > hi
  BY <1>2, <1>4, <1>6 DEF TooHigh
<1>8. TooLow(b, v, t) <=> v + t < lo
  BY <1>2, <1>4, <1>6 DEF TooLow
<1> QED
  BY <1>2, <1>7, <1>8 DEF Outlier, b

LEMMA ValsBefore ==
  ASSUME NEW q \in Seq(Sample), NEW i \in 1 .. Len(q) + 1
  PROVE  Vals(SubSeq(q, 1, i - 1)) = {q[j].val : j \in 1 .. i - 1}
<1> DEFINE p == SubSeq(q, 1, i - 1)
<1>1. Len(q) \in Nat /\ i - 1 \in 0 .. Len(q)
  BY LenProperties
<1>2. \A j \in 1 .. i - 1 : q[j] \in Sample
  BY <1>1, SampleInt
<1>3. Len(p) = i - 1 /\ \A j \in 1 .. i - 1 : p[j] = q[j]
  <2> DEFINE n == i - 1
  <2>1. n \in Int /\ 1 \in Int /\ \A j \in 1 .. n : q[j] \in Sample
    BY <1>1, <1>2
  <2>2. n \in Nat /\ n - 1 + 1 = n /\ \A j \in 1 .. n : 1 + j - 1 = j
    BY <1>1
  <2> HIDE DEF n
  <2>3. /\ Len(SubSeq(q, 1, n)) = IF 1 <= n THEN n - 1 + 1 ELSE 0
        /\ \A j \in 1 .. n - 1 + 1 : SubSeq(q, 1, n)[j] = q[1 + j - 1]
    BY <2>1, SubSeqProperties
  <2>4. Len(SubSeq(q, 1, n)) = n /\ \A j \in 1 .. n : SubSeq(q, 1, n)[j] = q[j]
    BY <2>2, <2>3
  <2> QED
    BY <2>4 DEF n
<1> HIDE DEF p
<1>4. Vals(p) = {q[j].val : j \in 1 .. i - 1}
  BY <1>3 DEF Vals
<1> QED
  BY <1>4 DEF p

LEMMA CloseAppend ==
  ASSUME NEW q, Proper(q), NEW t \in 0 .. IntMax,
         NEW v \in Int32, v # IntMin, v # IntMax, NEW u \in Times,
         ~Skips(Summary(q), v, t),
         Banded(q, t) => Close(q, t)
  PROVE  LET p == Append(q, [val |-> v, ts |-> u]) IN Banded(p, t) => Close(p, t)
<1> DEFINE r == [val |-> v, ts |-> u]
           p == Append(q, r)
<1>1. q \in Seq(Sample) /\ r \in Sample /\ r.val = v
  BY DEF Proper, Sample
<1> HIDE DEF r
<1>2. /\ p \in Seq(Sample) /\ Len(q) \in Nat /\ Len(p) = Len(q) + 1
      /\ \A i \in 1 .. Len(q) : p[i] = q[i]
      /\ p[Len(q) + 1] = r
  BY <1>1, AppendAt
<1>3. Vals(p) = Vals(q) \cup {v}
  BY <1>1, ValsAppend
<1> HIDE DEF p
<1> SUFFICES ASSUME Banded(p, t) PROVE Close(p, t)
  BY DEF p, r
<1>4. Banded(q, t) /\ t <= v
  BY <1>3 DEF Banded
<1>5. WarmUp \in Nat
  BY Numbers
<1>6. ASSUME NEW i \in WarmUp + 2 .. Len(p)
      PROVE  LET before == Vals(SubSeq(p, 1, i - 1)) IN
             ~Outlier(Min(before), Max(before), p[i].val, t)
  <2>1. /\ i \in 1 .. Len(p) /\ i \in 1 .. Len(p) + 1 /\ i \in 1 .. Len(q) + 1
        /\ \A j \in 1 .. i - 1 : p[j] = q[j]
    BY <1>2, <1>5
  <2>2. /\ Vals(SubSeq(p, 1, i - 1)) = {p[j].val : j \in 1 .. i - 1}
        /\ Vals(SubSeq(q, 1, i - 1)) = {q[j].val : j \in 1 .. i - 1}
    BY <1>1, <1>2, <2>1, ValsBefore
  <2>3. {p[j].val : j \in 1 .. i - 1} = {q[j].val : j \in 1 .. i - 1}
    BY <2>1
  <2>4. Vals(SubSeq(p, 1, i - 1)) = Vals(SubSeq(q, 1, i - 1))
    BY <2>2, <2>3
  <2>5. CASE i \in 1 .. Len(q)
    <3>1. i \in WarmUp + 2 .. Len(q) /\ p[i] = q[i]
      BY <1>2, <2>5
    <3> QED
      BY <1>4, <2>4, <3>1 DEF Close
  <2>6. CASE i = Len(q) + 1
    <3>1. Vals(SubSeq(q, 1, i - 1)) = Vals(q)
      BY <1>2, <2>2, <2>6 DEF Vals
    <3>2. p[i].val = v /\ Len(q) > WarmUp /\ Len(q) # 0
      BY <1>1, <1>2, <1>5, <2>6
    <3>3. q # <<>>
      BY <3>2
    <3> DEFINE b == Summary(q)
    <3>4. b.cnt = Len(q) /\ b.min = Min(Vals(q)) /\ b.max = Max(Vals(q))
      BY <1>1, <3>3, SummaryFields
    <3>5. TooHigh(b, v, t) \/ TooLow(b, v, t) <=> Outlier(b.min, b.max, v, t)
      BY <1>4, <3>3, SkipsAreOutliers
    <3> HIDE DEF b
    <3>6. ~(TooHigh(b, v, t) \/ TooLow(b, v, t))
      BY <3>2, <3>4 DEF Skips, b
    <3>7. ~Outlier(Min(Vals(q)), Max(Vals(q)), v, t)
      BY <3>4, <3>5, <3>6
    <3> QED
      BY <2>4, <3>1, <3>2, <3>7
  <2> QED
    BY <1>2, <2>1, <2>5, <2>6
<1> QED
  BY <1>6 DEF Close

(* BandHeld, one series at a time.                                          *)
BandOf(s) ==
  Banded(taken[s], Threshold[s]) =>
    /\ (rejected[s] # <<>> /\ Threshold[s] <= rejected[s][1]) =>
         Outlier(buffer[s].min, buffer[s].max, rejected[s][1], Threshold[s])
    /\ Close(taken[s], Threshold[s])

LEMMA BandParts == BandHeld <=> \A s \in Series : BandOf(s)
BY DEF BandHeld, BandOf, Banded, Close

LEMMA CommitBand ==
  ASSUME IInv, Commit, NEW s \in Series, BandOf(s)
  PROVE  BandOf(s)'
<1> DEFINE q == taken[s]
           t == Threshold[s]
<1>1. PICK r \in Readings : \A x \in Series : Step(r, x)
  BY CommitSteps
<1> DEFINE v == r[s]
<1>2. /\ Proper(q) /\ q \in Seq(Sample) /\ buffer[s] = Summary(q)
      /\ Banded(q, t) => Close(q, t)
      /\ now \in Times
  BY DEF IInv, Samples, BufferSummarises, Proper, TypeOK, BandOf
<1>3. v \in Int32 /\ v # IntMin /\ v # IntMax /\ t \in 0 .. IntMax
  BY ReadingType, Numbers
<1>4. \/ /\ Skips(Summary(q), v, t)
         /\ buffer'[s] = Summary(q) /\ taken'[s] = q /\ rejected'[s] = <<v>>
      \/ /\ ~Skips(Summary(q), v, t)
         /\ taken'[s] = Append(q, [val |-> v, ts |-> now]) /\ rejected'[s] = <<>>
  BY <1>1, <1>2 DEF Step
<1> SUFFICES ASSUME Banded(taken'[s], t)
             PROVE  /\ (rejected'[s] # <<>> /\ t <= rejected'[s][1]) =>
                         Outlier(buffer'[s].min, buffer'[s].max, rejected'[s][1], t)
                    /\ Close(taken'[s], t)
  BY DEF BandOf
<1> HIDE DEF q, t, v
<1>5. CASE /\ Skips(Summary(q), v, t)
           /\ buffer'[s] = Summary(q) /\ taken'[s] = q /\ rejected'[s] = <<v>>
  <2>1. Banded(q, t)
    BY <1>5
  <2>2. q # <<>>
    BY <1>5, NoSkip
  <2>3. ASSUME t <= v PROVE Outlier(Summary(q).min, Summary(q).max, v, t)
    <3>1. TooHigh(Summary(q), v, t) \/ TooLow(Summary(q), v, t)
      BY <1>5 DEF Skips
    <3> QED
      BY <1>2, <1>3, <2>1, <2>2, <2>3, <3>1, SkipsAreOutliers
  <2> QED
    BY <1>2, <1>5, <2>1, <2>3
<1>6. CASE /\ ~Skips(Summary(q), v, t)
           /\ taken'[s] = Append(q, [val |-> v, ts |-> now]) /\ rejected'[s] = <<>>
  <2> DEFINE p == Append(q, [val |-> v, ts |-> now])
  <2>1. Banded(p, t) => Close(p, t)
    BY <1>2, <1>3, <1>6, CloseAppend
  <2> HIDE DEF p
  <2>2. taken'[s] = p
    BY <1>6 DEF p
  <2> QED
    BY <1>6, <2>1, <2>2
<1> QED
  BY <1>4, <1>5, <1>6

(* The test of wlab_buffer_commit, for samples and readings of at least the *)
(* threshold: a reading it skips is farther from the extremes than that,    *)
(* and a sample it takes once the buffer is warm is not.                    *)
THEOREM Band == Spec => []BandHeld
<1>1. Init => BandHeld
  <2> SUFFICES ASSUME Init, NEW s \in Series PROVE BandOf(s)
    BY BandParts
  <2>1. taken[s] = <<>> /\ rejected[s] = <<>> /\ Len(taken[s]) = 0
    BY DEF Init, Nothing
  <2> QED
    BY <2>1, Numbers DEF BandOf, Close
<1>2. IInv /\ BandHeld /\ [Next]_vars => BandHeld'
  <2> SUFFICES ASSUME IInv, BandHeld, [Next]_vars, NEW s \in Series PROVE BandOf(s)'
    BY DEF BandHeld, BandOf, Banded, Close
  <2>1. BandOf(s)
    BY BandParts
  <2>2. CASE Commit
    BY <2>1, <2>2, CommitBand
  <2>3. CASE Publish \/ Reset
    <3>1. taken'[s] = <<>> /\ rejected'[s] = <<>> /\ Len(taken'[s]) = 0
      BY <2>3 DEF Publish, Reset, Boot, Nothing
    <3> QED
      BY <3>1, Numbers DEF BandOf, Close
  <2>4. CASE ReadFails \/ DivideByZero \/ Tick \/ Synchronize
    <3>1. taken' = taken /\ rejected'[s] = <<>>
      BY <2>4 DEF ReadFails, DivideByZero, Tick, Synchronize, Nothing
    <3> QED
      BY <2>1, <3>1 DEF BandOf
  <2>5. CASE UNCHANGED vars
    BY <2>1, <2>5 DEF BandOf, vars
  <2> QED
    BY <2>2, <2>3, <2>4, <2>5 DEF Next
<1> QED
  BY <1>1, <1>2, InvAlways, PTL DEF Spec

=============================================================================

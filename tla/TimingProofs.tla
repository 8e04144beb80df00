----------------------------- MODULE TimingProofs -----------------------------
(***************************************************************************)
(* Theorems about the pace of a scan, for any number of hosts and probes,  *)
(* any options and any round-trip times.                                   *)
(***************************************************************************)
EXTENDS Timing, FiniteSetTheorems, TLAPS

-------------------------------------------------------------------------------
(* Arithmetic.                                                              *)

\* A quotient of numbers is a number.
LEMMA DivNat ==
  ASSUME NEW a \in Nat, NEW b \in Nat \ {0}
  PROVE  a \div b \in Nat
  OBVIOUS

\* Multiplying does not make a number smaller.
LEMMA TimesOne ==
  ASSUME NEW a \in Nat \ {0}, NEW b \in Nat
  PROVE  a * b \in Nat /\ b <= a * b
  OBVIOUS

\* Multiplication keeps the order.
LEMMA TimesMonotone ==
  ASSUME NEW a \in Nat, NEW b \in Nat, NEW c \in Nat, a <= b
  PROVE  a * c <= b * c
  OBVIOUS

\* box() keeps a number within its bounds.
LEMMA BoxWithin ==
  ASSUME NEW a \in Int, NEW b \in Int, NEW n \in Int, a <= b
  PROVE  box(a, b, n) \in Int /\ a <= box(a, b, n) /\ box(a, b, n) <= b
  BY DEF box

\* The parameters of scan_performance_vars are in order.
LEMMA Parameters ==
  /\ low_cwnd \in Nat \ {0} /\ max_cwnd \in Nat /\ initial_cwnd \in Nat
  /\ low_cwnd <= initial_cwnd /\ initial_cwnd <= max_cwnd
  /\ ca_incr \in Nat
  /\ \A n \in Int : Reduced(n) \in Int
<1>1. low_cwnd \in Nat \ {0}
  BY OptionsAssumption DEF low_cwnd
<1>2. max_cwnd \in Nat /\ low_cwnd <= max_cwnd
  BY <1>1, OptionsAssumption DEF max_cwnd, MaxOf
<1>3. initial_cwnd \in Int /\ low_cwnd <= initial_cwnd /\ initial_cwnd <= max_cwnd
  BY <1>1, <1>2, BoxWithin DEF initial_cwnd
<1>4. ca_incr \in Nat /\ \A n \in Int : Reduced(n) \in Int
  BY OptionsAssumption DEF ca_incr, Reduced
<1> QED
  BY <1>1, <1>2, <1>3, <1>4

-------------------------------------------------------------------------------
(* The windows.                                                             *)

\* A window in order, and the counts that cc_scale() divides.
GoodWindow(v) ==
  v \in ultra_timing_vals /\ WindowWithinLimits(v) /\ v.received <= v.expected

\* The bounds of a window in units of the model, in their order.
LEMMA WindowBounds ==
  /\ low_cwnd * Unit \in Nat \ {0} /\ max_cwnd * Unit \in Nat
  /\ initial_cwnd * Unit \in Nat
  /\ Unit <= low_cwnd * Unit
  /\ low_cwnd * Unit <= initial_cwnd * Unit
  /\ initial_cwnd * Unit <= max_cwnd * Unit
<1>1. Unit \in Nat \ {0}
  BY BoundsAssumption
<1>2. low_cwnd * Unit \in Nat /\ Unit <= low_cwnd * Unit
  BY <1>1, Parameters, TimesOne
<1>3. low_cwnd * Unit <= initial_cwnd * Unit /\ initial_cwnd * Unit <= max_cwnd * Unit
  BY <1>1, Parameters, TimesMonotone
<1>4. max_cwnd * Unit \in Nat /\ initial_cwnd * Unit \in Nat
  BY <1>1, Parameters
<1> QED
  BY <1>1, <1>2, <1>3, <1>4

\* A window as init_ultra_timing_vals() leaves it.
LEMMA NewTimingGood ==
  ASSUME NEW t \in Nat
  PROVE  GoodWindow(NewTiming(t))
  BY WindowBounds
  DEF GoodWindow, NewTiming, ultra_timing_vals, WindowWithinLimits, initial_ssthresh

\* cc_scale() of a window that has counted a reply is a number.
LEMMA ScaleNat ==
  ASSUME NEW v \in ultra_timing_vals, v.received > 0, NEW n \in Nat
  PROVE  cc_scale(v, n) \in Nat
<1>1. n * cc_scale_max \in Nat /\ n * v.expected \in Nat
  BY DEF ultra_timing_vals, cc_scale_max
<1>2. v.received \in Nat \ {0}
  BY DEF ultra_timing_vals
<1>3. (n * v.expected) \div v.received \in Nat
  BY <1>1, <1>2, DivNat
<1> QED
  BY <1>1, <1>3 DEF cc_scale

\* A reply keeps a window in order and never makes it smaller.
LEMMA AckGood ==
  ASSUME NEW v, GoodWindow(v), v.received < v.expected, NEW scale \in Nat
  PROVE  /\ GoodWindow(ack(v, scale))
         /\ v.cwnd <= ack(v, scale).cwnd
         /\ ack(v, scale).last_drop = v.last_drop
<1> DEFINE r == [v EXCEPT !.received = @ + 1]
           G == r.ssthresh * Unit
           S == cc_scale(r, Unit * scale)
           A == cc_scale(r, ca_incr * Unit * Unit * scale) \div r.cwnd
           grown == IF r.cwnd < G THEN MinOf(r.cwnd + S, G) ELSE r.cwnd + A
<1>1. /\ r \in ultra_timing_vals /\ r.received = v.received + 1 /\ r.expected = v.expected
      /\ r.cwnd = v.cwnd /\ r.ssthresh = v.ssthresh /\ r.last_drop = v.last_drop
      /\ r.updates = v.updates
  BY DEF GoodWindow, ultra_timing_vals
<1>2. r.received > 0 /\ r.received <= r.expected
  BY <1>1 DEF GoodWindow, ultra_timing_vals
<1>3. Unit \in Nat /\ ca_incr \in Nat
  BY BoundsAssumption, Parameters
<1>4. Unit * scale \in Nat /\ ca_incr * Unit * Unit * scale \in Nat
  BY <1>3
<1>5. S \in Nat /\ cc_scale(r, ca_incr * Unit * Unit * scale) \in Nat
  BY <1>1, <1>2, <1>4, ScaleNat
<1>6. r.cwnd \in Nat \ {0} /\ low_cwnd * Unit <= r.cwnd /\ r.cwnd <= max_cwnd * Unit
  BY <1>1, WindowBounds DEF GoodWindow, WindowWithinLimits, ultra_timing_vals
<1>7. A \in Nat
  BY <1>5, <1>6, DivNat
<1>8. G \in Nat
  BY <1>1, <1>3 DEF ultra_timing_vals
<1> HIDE DEF S, A, G, r
<1>9. grown \in Nat /\ r.cwnd <= grown
  BY <1>5, <1>6, <1>7, <1>8 DEF MinOf
<1> HIDE DEF grown
<1> DEFINE w == MinOf(grown, max_cwnd * Unit)
<1>10. w \in Nat /\ r.cwnd <= w /\ w <= max_cwnd * Unit /\ low_cwnd * Unit <= w
  BY <1>6, <1>9, WindowBounds DEF MinOf
<1>11. ack(v, scale) = [r EXCEPT !.cwnd = w]
  BY DEF ack, grown, r, G, S, A
<1> HIDE DEF w
<1>12. /\ ack(v, scale) \in ultra_timing_vals /\ ack(v, scale).cwnd = w
       /\ ack(v, scale).ssthresh = r.ssthresh /\ ack(v, scale).received = r.received
       /\ ack(v, scale).expected = r.expected /\ ack(v, scale).last_drop = r.last_drop
  BY <1>1, <1>10, <1>11 DEF ultra_timing_vals
<1> QED
  BY <1>1, <1>2, <1>10, <1>12 DEF GoodWindow, WindowWithinLimits

\* A drop keeps a window in order.
LEMMA DropGood ==
  ASSUME NEW v, GoodWindow(v), NEW n \in Int, now \in Nat
  PROVE  /\ GoodWindow(drop(v, n)) /\ drop(v, n).last_drop = now
         /\ GoodWindow(drop_group(v, n)) /\ drop_group(v, n).last_drop = now
         /\ drop(v, n).received = v.received /\ drop(v, n).expected = v.expected
         /\ drop_group(v, n).received = v.received /\ drop_group(v, n).expected = v.expected
<1> DEFINE s == MaxOf(Reduced(n), 2)
           c == MaxOf(low_cwnd * Unit, v.cwnd \div 2)
<1>1. s \in Nat /\ s >= 2
  BY Parameters DEF MaxOf
<1>2. v \in ultra_timing_vals /\ v.cwnd \in Nat /\ v.cwnd <= max_cwnd * Unit
  BY DEF GoodWindow, WindowWithinLimits, ultra_timing_vals
<1>3. v.cwnd \div 2 \in Nat /\ v.cwnd \div 2 <= v.cwnd
  BY <1>2
<1>4. c \in Nat /\ low_cwnd * Unit <= c /\ c <= max_cwnd * Unit
  BY <1>2, <1>3, WindowBounds DEF MaxOf
<1>5. drop(v, n) = [v EXCEPT !.cwnd = low_cwnd * Unit, !.ssthresh = s, !.last_drop = now]
  BY DEF drop
<1>6. drop_group(v, n) = [v EXCEPT !.cwnd = c, !.ssthresh = s, !.last_drop = now]
  BY DEF drop_group
<1> HIDE DEF s, c
<1>7. /\ drop(v, n) \in ultra_timing_vals /\ drop(v, n).cwnd = low_cwnd * Unit
      /\ drop(v, n).ssthresh = s /\ drop(v, n).last_drop = now
      /\ drop(v, n).received = v.received /\ drop(v, n).expected = v.expected
  BY <1>1, <1>2, <1>5, WindowBounds DEF ultra_timing_vals
<1>8. /\ drop_group(v, n) \in ultra_timing_vals /\ drop_group(v, n).cwnd = c
      /\ drop_group(v, n).ssthresh = s /\ drop_group(v, n).last_drop = now
      /\ drop_group(v, n).received = v.received /\ drop_group(v, n).expected = v.expected
  BY <1>1, <1>2, <1>4, <1>6 DEF ultra_timing_vals
<1> QED
  BY <1>1, <1>4, <1>7, <1>8, WindowBounds DEF GoodWindow, WindowWithinLimits

\* One more reply is expected of a window.
LEMMA ExpectedGood ==
  ASSUME NEW w, GoodWindow(w),
         NEW v, v = [w EXCEPT !.expected = @ + 1, !.updates = @ + 1]
  PROVE  /\ GoodWindow(v) /\ v.received < v.expected
         /\ v.cwnd = w.cwnd /\ v.last_drop = w.last_drop
<1>1. w \in ultra_timing_vals /\ w.expected + 1 \in Nat /\ w.updates + 1 \in Nat
  BY DEF GoodWindow, ultra_timing_vals
<1>2. /\ v \in ultra_timing_vals /\ v.expected = w.expected + 1 /\ v.received = w.received
      /\ v.cwnd = w.cwnd /\ v.last_drop = w.last_drop /\ v.ssthresh = w.ssthresh
  BY <1>1 DEF ultra_timing_vals
<1>3. w.received < w.expected + 1
  BY <1>1 DEF GoodWindow, ultra_timing_vals
<1> QED
  BY <1>2, <1>3 DEF GoodWindow, WindowWithinLimits, ultra_timing_vals

\* ultrascan_adjust_timing() keeps a window in order; it shrinks only if it is
\* reduced, and then the time is kept.
LEMMA AdjustedGood ==
  ASSUME NEW x, GoodWindow(timing[x]), NEW p \in UltraProbe, NEW answered \in BOOLEAN,
         NEW n \in Int, now \in Nat
  PROVE  /\ GoodWindow(Adjusted(x, p, answered, n))
         /\ IF Reduces(x, p, answered)
            THEN Adjusted(x, p, answered, n).last_drop = now
            ELSE /\ Adjusted(x, p, answered, n).last_drop = timing[x].last_drop
                 /\ timing[x].cwnd <= Adjusted(x, p, answered, n).cwnd
<1> DEFINE v == [timing[x] EXCEPT !.expected = @ + 1, !.updates = @ + 1]
           r == IF ~Reduces(x, p, answered) THEN v
                ELSE IF x = Group THEN drop_group(v, n) ELSE drop(v, n)
           scale == IF p.ping THEN ping_magnifier ELSE 1
<1>1. /\ GoodWindow(v) /\ v.received < v.expected
      /\ v.cwnd = timing[x].cwnd /\ v.last_drop = timing[x].last_drop
  BY ExpectedGood
<1>2. scale \in Nat
  BY DEF ping_magnifier
<1>3. Adjusted(x, p, answered, n) = IF answered THEN ack(r, scale) ELSE r
  BY DEF Adjusted
<1> HIDE DEF v, scale
<1>4. GoodWindow(r) /\ r.received < r.expected
  BY <1>1, DropGood
<1>5. IF Reduces(x, p, answered) THEN r.last_drop = now
      ELSE r.last_drop = timing[x].last_drop /\ r.cwnd = timing[x].cwnd
  BY <1>1, DropGood
<1> HIDE DEF r
<1>6. /\ GoodWindow(ack(r, scale)) /\ r.cwnd <= ack(r, scale).cwnd
      /\ ack(r, scale).last_drop = r.last_drop
  BY <1>2, <1>4, AckGood
<1>7. CASE answered
  <2>1. Adjusted(x, p, answered, n) = ack(r, scale)
    BY <1>3, <1>7
  <2> QED
    BY <1>5, <1>6, <2>1
<1>8. CASE ~answered
  <2>1. Adjusted(x, p, answered, n) = r
    BY <1>3, <1>8
  <2>2. r.cwnd \in Nat
    BY <1>4 DEF GoodWindow, ultra_timing_vals
  <2> QED
    BY <1>4, <1>5, <2>1, <2>2
<1> QED
  BY <1>7, <1>8

-------------------------------------------------------------------------------
(* The delay.                                                               *)

\* Boosting raises the delay, or sets it to its maximum.
LEMMA BoostGood ==
  ASSUME NEW s \in send_delay_nfo, now \in Nat
  PROVE  boostScanDelay(s) \in send_delay_nfo /\ GrowsToMax(s, boostScanDelay(s))
<1> DEFINE more == IF s.delayms >= 1000 THEN s.delayms
                   ELSE IF s.delayms = 0 THEN FirstDelay
                   ELSE MinOf(s.delayms * 2, 1000)
<1>1. more \in Nat /\ s.delayms <= more /\ s.delayms \in Nat /\ s.maxdelay \in Nat
  BY OptionsAssumption DEF send_delay_nfo, MinOf
<1>2. boostScanDelay(s) = [s EXCEPT !.delayms = MinOf(more, s.maxdelay), !.last_boost = now,
                                    !.bad = 0, !.good = 0]
  BY DEF boostScanDelay
<1> HIDE DEF more
<1> DEFINE d == MinOf(more, s.maxdelay)
<1>3. d \in Nat /\ MinOf(s.delayms, s.maxdelay) <= d /\ d <= s.maxdelay
  BY <1>1 DEF MinOf
<1>4. boostScanDelay(s) = [delayms |-> d, good |-> 0, bad |-> 0, last_boost |-> now,
                            maxdelay |-> s.maxdelay]
  BY <1>2 DEF send_delay_nfo
<1> HIDE DEF d
<1> QED
  BY <1>1, <1>3, <1>4 DEF send_delay_nfo, GrowsToMax

\* So does ultrascan_adjust_timing().
LEMMA DelayedGood ==
  ASSUME NEW h, sdn[h] \in send_delay_nfo, NEW p \in UltraProbe, NEW answered \in BOOLEAN,
         now \in Nat
  PROVE  /\ Delayed(h, p, answered) \in send_delay_nfo
         /\ GrowsToMax(sdn[h], Delayed(h, p, answered))
<1> DEFINE s == IF is_drop(p, answered) /\ p.sent > sdn[h].last_boost
                THEN [sdn[h] EXCEPT !.bad = @ + 1]
                ELSE IF answered THEN [sdn[h] EXCEPT !.good = @ + 1]
                ELSE sdn[h]
<1>1. s \in send_delay_nfo /\ s.delayms = sdn[h].delayms /\ s.maxdelay = sdn[h].maxdelay
  BY DEF send_delay_nfo
<1>2. Delayed(h, p, answered) = IF TooManyDrops(s) THEN boostScanDelay(s) ELSE s
  BY DEF Delayed
<1> HIDE DEF s
<1>3. boostScanDelay(s) \in send_delay_nfo /\ GrowsToMax(s, boostScanDelay(s))
  BY <1>1, BoostGood
<1> QED
  BY <1>1, <1>2, <1>3 DEF GrowsToMax

-------------------------------------------------------------------------------
(* The estimates.                                                           *)

GoodEstimate(t) ==
  /\ t \in timeout_info
  /\ \/ t.srtt = -1 /\ t.rttvar = -1
     \/ /\ t.lo <= t.srtt /\ t.srtt <= t.hi
        /\ 0 <= t.rttvar /\ t.rttvar <= 2300000
  /\ MinRtt * 1000 <= t.timeout /\ t.timeout <= MaxOf(MaxRtt, ScanDelay) * 1000

\* An estimate within its samples has its type.
LEMMA EstimateTyped ==
  ASSUME NEW t, GoodEstimate(t)
  PROVE  t \in timeout_info
  BY SMT DEF GoodEstimate

\* srtt += rttdelta >> 3 stays between the estimate and the sample.
LEMMA SmoothedBetween ==
  ASSUME NEW a \in Int, NEW d \in Int
  PROVE  /\ Smoothed(a, d - a) \in Int
         /\ a <= d => a <= Smoothed(a, d - a) /\ Smoothed(a, d - a) <= d
         /\ d <= a => d <= Smoothed(a, d - a) /\ Smoothed(a, d - a) <= a
  BY DEF Smoothed

\* The deviation does not become negative.
LEMMA SmoothedVarNat ==
  ASSUME NEW a \in Nat, NEW d \in Int
  PROVE  SmoothedVar(a, d) \in Nat
  BY DEF SmoothedVar, Abs

\* box() followed by MAX(): the arithmetic of the limits of a timeout.
LEMMA LimitArithmetic ==
  ASSUME NEW a \in Int, NEW b \in Int, NEW c \in Int, NEW n \in Int, a <= b
  PROVE  /\ MaxOf(box(a, b, n), c) \in Int
         /\ a <= MaxOf(box(a, b, n), c) /\ MaxOf(box(a, b, n), c) <= MaxOf(b, c)
  BY DEF MaxOf, box

\* The timeout of a probe is within the limits of the options.
LEMMA LimitedWithin ==
  ASSUME NEW n \in Int
  PROVE  /\ Limited(n) \in Int
         /\ MinRtt * 1000 <= Limited(n) /\ Limited(n) <= MaxOf(MaxRtt, ScanDelay) * 1000
<1>1. /\ MinRtt * 1000 \in Int /\ MaxRtt * 1000 \in Int /\ ScanDelay * 1000 \in Int
      /\ MinRtt * 1000 <= MaxRtt * 1000
  BY OptionsAssumption
<1>2. MaxOf(MaxRtt * 1000, ScanDelay * 1000) = MaxOf(MaxRtt, ScanDelay) * 1000
  BY OptionsAssumption DEF MaxOf
<1> DEFINE a == MinRtt * 1000
           b == MaxRtt * 1000
           c == ScanDelay * 1000
<1>3. Limited(n) = MaxOf(box(a, b, n), c)
  BY DEF Limited
<1>4. a \in Int /\ b \in Int /\ c \in Int /\ a <= b
  BY <1>1
<1> HIDE DEF a, b, c
<1>5. Limited(n) \in Int /\ a <= Limited(n) /\ Limited(n) <= MaxOf(b, c)
  BY <1>3, <1>4, LimitArithmetic
<1> QED
  BY <1>2, <1>5, SMT DEF a, b, c

\* adjust_timeouts2() keeps an estimate in order.
LEMMA AdjustTimeoutsGood ==
  ASSUME NEW t, GoodEstimate(t), NEW sample \in Int
  PROVE  GoodEstimate(adjust_timeouts2(t, sample))
<1> DEFINE delta == IF sample < 0 /\ sample > -50000 THEN 10000 ELSE sample
           first == t.srtt = -1 /\ t.rttvar = -1
           srtt == IF first THEN delta ELSE Smoothed(t.srtt, delta - t.srtt)
           rttvar == IF first THEN box(5000, 2000000, delta)
                     ELSE SmoothedVar(t.rttvar, delta - t.srtt)
           var == IF rttvar > 2300000 THEN 2000000 ELSE rttvar
           lo == IF first THEN delta ELSE MinOf(t.lo, delta)
           hi == IF first THEN delta ELSE MaxOf(t.hi, delta)
           u == [srtt |-> srtt, rttvar |-> var, timeout |-> Limited(srtt + 4 * rttvar),
                 lo |-> lo, hi |-> hi]
<1>1. adjust_timeouts2(t, sample) = IF ~first /\ Ignored(t, delta) THEN t ELSE u
  BY SMT DEF adjust_timeouts2
<1>2. delta \in Int /\ t.srtt \in Int /\ t.rttvar \in Int /\ t.lo \in Int /\ t.hi \in Int
  BY SMT DEF GoodEstimate, timeout_info
<1> HIDE DEF delta
<1>3. first \/ (t.lo <= t.srtt /\ t.srtt <= t.hi /\ t.rttvar \in Nat)
  BY <1>2, SMT DEF GoodEstimate
<1>4. srtt \in Int /\ lo \in Int /\ hi \in Int /\ lo <= srtt /\ srtt <= hi
  <2>1. CASE first
    BY <1>2, <2>1, SMT
  <2>2. CASE ~first
    <3> HIDE DEF first
    <3>1. t.lo <= t.srtt /\ t.srtt <= t.hi
      BY <1>3, <2>2
    <3>2. /\ srtt = Smoothed(t.srtt, delta - t.srtt)
          /\ lo = MinOf(t.lo, delta) /\ hi = MaxOf(t.hi, delta)
      BY <2>2
    <3>3. /\ srtt \in Int
          /\ t.srtt <= delta => t.srtt <= srtt /\ srtt <= delta
          /\ delta <= t.srtt => delta <= srtt /\ srtt <= t.srtt
      BY <1>2, <3>2, SmoothedBetween
    <3> QED
      BY <1>2, <3>1, <3>2, <3>3, SMT DEF MinOf, MaxOf
  <2> QED
    BY <2>1, <2>2
<1>5. rttvar \in Nat
  <2>1. CASE first
    <3>1. rttvar = box(5000, 2000000, delta)
      BY <2>1, SMT
    <3> QED
      BY <1>2, <3>1, SMT DEF box
  <2>2. CASE ~first
    <3>1. t.rttvar \in Nat /\ delta - t.srtt \in Int
      BY <1>2, <1>3, <2>2, SMT
    <3>2. rttvar = SmoothedVar(t.rttvar, delta - t.srtt)
      BY <2>2, SMT
    <3> HIDE DEF rttvar, first, delta
    <3> QED
      BY <3>1, <3>2, SmoothedVarNat, Zenon
  <2> QED
    BY <2>1, <2>2
<1> HIDE DEF srtt, rttvar, lo, hi
<1>6. var \in Int /\ 0 <= var /\ var <= 2300000
  BY <1>5, SMT
<1>7. srtt + 4 * rttvar \in Int
  BY <1>4, <1>5, SMT
<1>8. /\ Limited(srtt + 4 * rttvar) \in Int
      /\ MinRtt * 1000 <= Limited(srtt + 4 * rttvar)
      /\ Limited(srtt + 4 * rttvar) <= MaxOf(MaxRtt, ScanDelay) * 1000
  BY <1>7, LimitedWithin, SMT
<1> HIDE DEF var
<1>9. GoodEstimate(u)
  BY <1>4, <1>6, <1>8, SMT DEF GoodEstimate, timeout_info
<1> HIDE DEF u, first
<1> QED
  BY <1>1, <1>9

\* What Target and GroupScanStats begin with.
LEMMA InitialEstimates ==
  /\ GoodEstimate(initialize_timeout_info)
  /\ GoodEstimate([initialize_timeout_info EXCEPT !.timeout =
                     IF ArpScan THEN box(MinRtt, InitialRtt, 200) * 1000 ELSE @])
<1>1. /\ InitialRtt * 1000 \in Int /\ MinRtt * 1000 <= InitialRtt * 1000
      /\ InitialRtt * 1000 <= MaxOf(MaxRtt, ScanDelay) * 1000
  BY OptionsAssumption DEF MaxOf
<1>2. box(MinRtt, InitialRtt, 200) \in Int /\ MinRtt <= box(MinRtt, InitialRtt, 200)
        /\ box(MinRtt, InitialRtt, 200) <= InitialRtt
  BY BoxWithin, OptionsAssumption
<1>3. /\ box(MinRtt, InitialRtt, 200) * 1000 \in Int
      /\ MinRtt * 1000 <= box(MinRtt, InitialRtt, 200) * 1000
      /\ box(MinRtt, InitialRtt, 200) * 1000 <= InitialRtt * 1000
  BY <1>2, OptionsAssumption
<1>4. MaxOf(MaxRtt, ScanDelay) * 1000 \in Int
  BY OptionsAssumption DEF MaxOf
<1> QED
  BY <1>1, <1>3, <1>4, SMT DEF GoodEstimate, initialize_timeout_info, timeout_info

-------------------------------------------------------------------------------
(* The inductive invariant: the type invariant, windows and estimates in    *)
(* order, and times that agree.  The last is what makes batches: a window   *)
(* that was reduced while a probe was outstanding was reduced after it was  *)
(* sent.                                                                    *)

Windows == Hosts \cup {Group}

WindowsGood(w, t) == \A x \in Windows : GoodWindow(w[x]) /\ w[x].last_drop <= t

EstimatesGood(e) == \A x \in Windows : GoodEstimate(e[x])

GoodProbe(p, w, t) ==
  \/ p = NoProbe
  \/ p \in UltraProbe /\ p.sent <= t /\ \A x \in p.hit : p.sent <= w[x].last_drop

ProbesGood(q, w, t) == \A h \in Hosts, s \in Slots : GoodProbe(q[h][s], w, t)

IInv ==
  /\ TypeOK
  /\ WindowsGood(timing, now)
  /\ EstimatesGood(to)
  /\ ProbesGood(probes, timing, now)

\* What is known of a probe stays true as time passes.
LEMMA GoodProbeLater ==
  ASSUME NEW p, NEW w, NEW t \in Nat, NEW u \in Nat, t <= u, GoodProbe(p, w, t)
  PROVE  GoodProbe(p, w, u)
<1>1. CASE p = NoProbe
  BY <1>1 DEF GoodProbe
<1>2. CASE p \in UltraProbe /\ p.sent <= t /\ \A x \in p.hit : p.sent <= w[x].last_drop
  <2>1. p.sent \in Nat
    BY <1>2 DEF UltraProbe
  <2>2. p.sent <= u
    BY <1>2, <2>1
  <2> QED
    BY <1>2, <2>2, Zenon DEF GoodProbe
<1> QED
  BY <1>1, <1>2 DEF GoodProbe

\* The counts of active probes are numbers.
LEMMA CountsNat ==
  ASSUME NEW h \in Hosts
  PROVE  num_probes_active(h) \in Nat /\ group_probes_active \in Nat
<1>1. IsFiniteSet(Slots) /\ IsFiniteSet(Hosts)
  BY BoundsAssumption, FS_Interval DEF Slots, Hosts
<1>2. IsFiniteSet(Hosts \X Slots)
  BY <1>1, FS_Product
<1>3. Active(h) \subseteq Slots
  BY DEF Active
<1>4. {x \in Hosts \X Slots : x[2] \in Active(x[1])} \subseteq Hosts \X Slots
  OBVIOUS
<1> QED
  BY <1>1, <1>2, <1>3, <1>4, FS_Subset, FS_CardinalityType
  DEF num_probes_active, group_probes_active

\* A probe that is outstanding is a probe.
LEMMA OutstandingProbe ==
  ASSUME IInv, NEW h \in Hosts, NEW s \in Slots, Outstanding(h, s)
  PROVE  /\ probes[h][s] \in UltraProbe /\ probes[h][s].sent <= now
         /\ \A x \in probes[h][s].hit : probes[h][s].sent <= timing[x].last_drop
  BY DEF IInv, ProbesGood, GoodProbe, Outstanding

\* What ultrascan_adjust_timing() does to the windows.
LEMMA AdjustTimingGood ==
  ASSUME IInv, NEW h \in Hosts, NEW p \in UltraProbe, NEW answered \in BOOLEAN,
         NEW n \in Int, NEW m \in Int, AdjustTiming(h, p, answered, n, m)
  PROVE  /\ timing' \in [Windows -> ultra_timing_vals]
         /\ WindowsGood(timing', now)
         /\ \A x \in Windows :
              IF x \in Reducing(h, p, answered) THEN timing'[x].last_drop = now
              ELSE /\ timing'[x].last_drop = timing[x].last_drop
                   /\ timing[x].cwnd <= timing'[x].cwnd
<1>1. now \in Nat /\ timing \in [Windows -> ultra_timing_vals] /\ WindowsGood(timing, now)
  BY DEF IInv, TypeOK, Windows
<1>2. h \in Windows /\ Group \in Windows /\ h # Group
  BY DEF Windows, Group, Hosts
<1>3. timing' = [timing EXCEPT ![h] = Adjusted(h, p, answered, n),
                               ![Group] = Adjusted(Group, p, answered, m)]
  BY DEF AdjustTiming
<1> DEFINE a == Adjusted(h, p, answered, n)
           b == Adjusted(Group, p, answered, m)
<1>4. /\ GoodWindow(a)
      /\ IF Reduces(h, p, answered) THEN a.last_drop = now
         ELSE a.last_drop = timing[h].last_drop /\ timing[h].cwnd <= a.cwnd
  BY <1>1, <1>2, AdjustedGood DEF WindowsGood
<1>5. /\ GoodWindow(b)
      /\ IF Reduces(Group, p, answered) THEN b.last_drop = now
         ELSE b.last_drop = timing[Group].last_drop /\ timing[Group].cwnd <= b.cwnd
  BY <1>1, <1>2, AdjustedGood DEF WindowsGood
<1> HIDE DEF a, b
<1>6. timing' = [timing EXCEPT ![h] = a, ![Group] = b]
  BY <1>3 DEF a, b
<1>7. a \in ultra_timing_vals /\ b \in ultra_timing_vals
  BY <1>4, <1>5 DEF GoodWindow
<1>8. /\ timing' \in [Windows -> ultra_timing_vals]
      /\ timing'[h] = a /\ timing'[Group] = b
      /\ \A x \in Windows \ {h, Group} : timing'[x] = timing[x]
  BY <1>1, <1>2, <1>6, <1>7
<1>9. \A x \in Windows : GoodWindow(timing'[x])
  BY <1>1, <1>4, <1>5, <1>8 DEF WindowsGood
<1>10. \A x \in Windows : timing[x].cwnd \in Nat
  BY <1>1 DEF ultra_timing_vals
<1>11. ASSUME NEW x \in Windows
       PROVE  IF x \in Reducing(h, p, answered) THEN timing'[x].last_drop = now
              ELSE /\ timing'[x].last_drop = timing[x].last_drop
                   /\ timing[x].cwnd <= timing'[x].cwnd
  <2>1. CASE x = h
    BY <1>4, <1>8, <2>1 DEF Reducing
  <2>2. CASE x = Group
    BY <1>5, <1>8, <2>2 DEF Reducing
  <2>3. CASE x \in Windows \ {h, Group}
    BY <1>8, <1>10, <2>3 DEF Reducing
  <2> QED
    BY <2>1, <2>2, <2>3
<1>12. \A x \in Windows : timing'[x].last_drop <= now
  BY <1>1, <1>11 DEF WindowsGood
<1> QED
  BY <1>8, <1>9, <1>11, <1>12 DEF WindowsGood

\* The probes that stay outstanding keep times that agree with the windows'.
LEMMA ProbesAfterGood ==
  ASSUME IInv, NEW h \in Hosts, NEW s \in Slots, NEW q, NEW R \in SUBSET Windows,
         \A x \in Windows : IF x \in R THEN timing'[x].last_drop = now
                            ELSE timing'[x].last_drop = timing[x].last_drop,
         GoodProbe(q, timing', now), ProbesAfter(h, s, q, R)
  PROVE  /\ probes' \in [Hosts -> [Slots -> UltraProbe \cup {NoProbe}]]
         /\ ProbesGood(probes', timing', now)
<1> DEFINE f(i, j) == IF i = h /\ j = s THEN q
                      ELSE IF ~Outstanding(i, j) THEN NoProbe
                      ELSE [probes[i][j] EXCEPT !.hit = @ \cup (R \cap {i, Group})]
<1>1. probes' = [i \in Hosts |-> [j \in Slots |-> f(i, j)]]
  BY DEF ProbesAfter
<1>2. ASSUME NEW i \in Hosts, NEW j \in Slots
      PROVE  GoodProbe(f(i, j), timing', now) /\ f(i, j) \in UltraProbe \cup {NoProbe}
  <2>1. CASE i = h /\ j = s
    BY <2>1 DEF GoodProbe
  <2>2. CASE ~(i = h /\ j = s) /\ ~Outstanding(i, j)
    BY <2>2 DEF GoodProbe
  <2>3. CASE ~(i = h /\ j = s) /\ Outstanding(i, j)
    <3> DEFINE p == probes[i][j]
               u == [p EXCEPT !.hit = @ \cup (R \cap {i, Group})]
    <3>1. /\ p \in UltraProbe /\ p.sent <= now
          /\ \A x \in p.hit : p.sent <= timing[x].last_drop
      BY <2>3, OutstandingProbe
    <3>2. f(i, j) = u
      BY <2>3
    <3> HIDE DEF p, f
    <3>3. /\ u \in UltraProbe /\ u.sent = p.sent /\ u.hit = p.hit \cup (R \cap {i, Group})
          /\ p.hit \subseteq Windows
      BY <3>1 DEF UltraProbe, Windows
    <3> HIDE DEF u
    <3>4. \A x \in u.hit : u.sent <= timing'[x].last_drop
      BY <3>1, <3>3
    <3> QED
      BY <3>1, <3>2, <3>3, <3>4 DEF GoodProbe
  <2> QED
    BY <2>1, <2>2, <2>3
<1> HIDE DEF f
<1> QED
  BY <1>1, <1>2 DEF ProbesGood

\* What the answer of a probe does to the delay of its host.
LEMMA SdnGood ==
  ASSUME IInv, NEW h \in Hosts, NEW d \in send_delay_nfo, sdn' = [sdn EXCEPT ![h] = d]
  PROVE  sdn' \in [Hosts -> send_delay_nfo]
  BY DEF IInv, TypeOK

\* What a sample does to the estimates.
LEMMA AdjustTimeoutsStep ==
  ASSUME IInv, NEW h \in Hosts, NEW sample \in Deltas, AdjustTimeouts(h, sample)
  PROVE  to' \in [Windows -> timeout_info] /\ EstimatesGood(to')
<1>1. to \in [Windows -> timeout_info] /\ EstimatesGood(to) /\ sample \in Int
  BY OptionsAssumption DEF IInv, TypeOK, Windows
<1>2. h \in Windows /\ Group \in Windows /\ h # Group
  BY DEF Windows, Group, Hosts
<1> DEFINE a == adjust_timeouts2(to[h], sample)
           b == adjust_timeouts2(to[Group], sample)
<1>3. GoodEstimate(a) /\ GoodEstimate(b)
  BY <1>1, <1>2, AdjustTimeoutsGood, Zenon DEF EstimatesGood
<1>4. to' = [to EXCEPT ![h] = a, ![Group] = b]
  BY <1>2, Zenon DEF AdjustTimeouts
<1> HIDE DEF a, b
<1>5. a \in timeout_info /\ b \in timeout_info
  BY <1>3, EstimateTyped
<1>6. /\ to' \in [Windows -> timeout_info] /\ to'[h] = a /\ to'[Group] = b
      /\ \A x \in Windows \ {h, Group} : to'[x] = to[x]
  BY <1>1, <1>2, <1>4, <1>5
<1> QED
  BY <1>1, <1>3, <1>6 DEF EstimatesGood

-------------------------------------------------------------------------------
(* The initial states, and one lemma for each action.                       *)

\* The invariant holds at the start.
LEMMA InitInv ==
  ASSUME Init
  PROVE  IInv
<1>1. now = 0 /\ now \in Nat
  BY DEF Init
<1>2. /\ probes \in [Hosts -> [Slots -> UltraProbe \cup {NoProbe}]]
      /\ \A h \in Hosts, s \in Slots : probes[h][s] = NoProbe
  BY DEF Init
<1>3. /\ numprobes_sent \in [Hosts -> Nat] /\ retries \in [Hosts -> Nat]
      /\ pingprobe \in [Hosts -> BOOLEAN] /\ max_successful_tryno \in [Hosts -> Nat]
  BY DEF Init
<1>4. timing \in [Windows -> ultra_timing_vals] /\ WindowsGood(timing, 0)
  <2>1. GoodWindow(NewTiming(0)) /\ NewTiming(0).last_drop = 0
    BY NewTimingGood DEF NewTiming
  <2>2. NewTiming(0) \in ultra_timing_vals
    BY <2>1 DEF GoodWindow
  <2>3. timing = [x \in Windows |-> NewTiming(0)]
    BY DEF Init, Windows
  <2> QED
    BY <2>1, <2>2, <2>3 DEF WindowsGood
<1>5. sdn \in [Hosts -> send_delay_nfo]
  BY OptionsAssumption DEF Init, send_delay_nfo
<1>6. to \in [Windows -> timeout_info] /\ EstimatesGood(to)
  <2> DEFINE group == [initialize_timeout_info EXCEPT
                         !.timeout = IF ArpScan THEN box(MinRtt, InitialRtt, 200) * 1000 ELSE @]
             earlier == {initialize_timeout_info}
                          \cup {adjust_timeouts2(initialize_timeout_info, d) : d \in Deltas}
  <2>1. PICK f \in [Hosts -> earlier] :
          to = [x \in Windows |-> IF x = Group THEN group ELSE f[x]]
    BY Zenon DEF Init, Windows
  <2>2. GoodEstimate(group)
    BY InitialEstimates, Zenon
  <2>3. \A e \in earlier : GoodEstimate(e)
    <3>1. \A d \in Deltas : d \in Int
      BY OptionsAssumption
    <3>2. \A d \in Deltas : GoodEstimate(adjust_timeouts2(initialize_timeout_info, d))
      BY <3>1, InitialEstimates, AdjustTimeoutsGood, Zenon
    <3>3. GoodEstimate(initialize_timeout_info)
      BY InitialEstimates
    <3> QED
      BY <3>2, <3>3, Zenon
  <2> HIDE DEF group, earlier
  <2>4. \A x \in Windows : GoodEstimate(to[x])
    BY <2>1, <2>2, <2>3, Zenon DEF Windows
  <2>5. \A x \in Windows : to[x] \in timeout_info
    BY <2>4, EstimateTyped, Zenon
  <2>6. to \in [Windows -> timeout_info]
    BY <2>1, <2>5, Zenon
  <2> QED
    BY <2>4, <2>6, Zenon DEF EstimatesGood
<1>7. ProbesGood(probes, timing, now)
  BY <1>2 DEF ProbesGood, GoodProbe
<1>8. TypeOK
  BY <1>1, <1>2, <1>3, <1>4, <1>5, <1>6 DEF TypeOK, Windows
<1> QED
  BY <1>1, <1>4, <1>6, <1>7, <1>8 DEF IInv

\* The invariant of the next state, in terms of its parts.
LEMMA NextInv ==
  ASSUME IInv,
         now' = now,
         probes' \in [Hosts -> [Slots -> UltraProbe \cup {NoProbe}]],
         ProbesGood(probes', timing', now),
         numprobes_sent' \in [Hosts -> Nat], retries' \in [Hosts -> Nat],
         pingprobe' \in [Hosts -> BOOLEAN], max_successful_tryno' \in [Hosts -> Nat],
         timing' \in [Windows -> ultra_timing_vals], WindowsGood(timing', now),
         sdn' \in [Hosts -> send_delay_nfo],
         to' \in [Windows -> timeout_info], EstimatesGood(to')
  PROVE  IInv'
<1>1. now' \in Nat
  BY DEF IInv, TypeOK
<1>2. TypeOK'
  BY <1>1 DEF TypeOK, Windows
<1> QED
  BY <1>2 DEF IInv

\* Time passes.
LEMMA TickInv ==
  ASSUME IInv, Tick
  PROVE  IInv'
<1>1. now' = now + 1 /\ now \in Nat
  BY DEF Tick, IInv, TypeOK
<1>2. \A x \in Windows : timing[x].last_drop \in Nat
  BY DEF IInv, TypeOK, Windows, ultra_timing_vals
<1>3. WindowsGood(timing, now')
  BY <1>1, <1>2 DEF IInv, WindowsGood
<1>4. ProbesGood(probes, timing, now')
  <2> SUFFICES ASSUME NEW h \in Hosts, NEW s \in Slots
               PROVE  GoodProbe(probes[h][s], timing, now')
    BY DEF ProbesGood
  <2>1. GoodProbe(probes[h][s], timing, now)
    BY DEF IInv, ProbesGood
  <2> QED
    BY <1>1, <2>1, GoodProbeLater
<1>5. TypeOK'
  BY <1>1 DEF Tick, IInv, TypeOK
<1>6. EstimatesGood(to)
  BY DEF IInv
<1>7. UNCHANGED <<probes, timing, to>>
  BY DEF Tick
<1> QED
  BY <1>3, <1>4, <1>5, <1>6, <1>7 DEF IInv

\* A probe or a ping is sent.
LEMMA SendInv ==
  ASSUME IInv, NEW h \in Hosts, NEW ping \in BOOLEAN, NEW tryno \in 0 .. MaxTryno,
         Send(h, ping, tryno)
  PROVE  IInv'
<1> DEFINE p == [out |-> TRUE, sent |-> now, ping |-> ping, tryno |-> tryno,
                 timedout |-> FALSE, hit |-> {}]
<1>1. PICK s \in Slots : probes' = [probes EXCEPT ![h][s] = p]
  BY DEF Send
<1>2. now \in Nat /\ probes \in [Hosts -> [Slots -> UltraProbe \cup {NoProbe}]]
  BY DEF IInv, TypeOK
<1>3. p \in UltraProbe /\ GoodProbe(p, timing, now)
  BY <1>2, BoundsAssumption DEF UltraProbe, GoodProbe
<1> HIDE DEF p
<1>4. /\ probes' \in [Hosts -> [Slots -> UltraProbe \cup {NoProbe}]]
      /\ \A i \in Hosts, j \in Slots : probes'[i][j] = p \/ probes'[i][j] = probes[i][j]
  BY <1>1, <1>2, <1>3
<1>5. ProbesGood(probes', timing, now)
  BY <1>3, <1>4 DEF IInv, ProbesGood
<1>6. numprobes_sent' \in [Hosts -> Nat]
  BY DEF Send, IInv, TypeOK
<1>7. UNCHANGED <<now, retries, pingprobe, max_successful_tryno, timing, sdn, to>>
  BY DEF Send
<1> QED
  BY <1>4, <1>5, <1>6, <1>7, NextInv DEF IInv, TypeOK, Windows

\* The actions that take a probe from the list.
LEMMA RemoveInv ==
  ASSUME IInv, NEW h \in Hosts, NEW s \in Slots, probes' = [probes EXCEPT ![h][s] = NoProbe]
  PROVE  /\ probes' \in [Hosts -> [Slots -> UltraProbe \cup {NoProbe}]]
         /\ ProbesGood(probes', timing, now)
<1>1. probes \in [Hosts -> [Slots -> UltraProbe \cup {NoProbe}]]
  BY DEF IInv, TypeOK
<1>2. /\ probes' \in [Hosts -> [Slots -> UltraProbe \cup {NoProbe}]]
      /\ \A i \in Hosts, j \in Slots : probes'[i][j] = NoProbe \/ probes'[i][j] = probes[i][j]
  BY <1>1
<1> QED
  BY <1>2 DEF IInv, ProbesGood, GoodProbe

\* A probe expires, and the drop reduces the windows.
LEMMA ExpireInv ==
  ASSUME IInv, NEW h \in Hosts, NEW s \in Slots, Expire(h, s)
  PROVE  IInv'
<1>1. /\ probes' = [probes EXCEPT ![h][s] = NoProbe]
      /\ UNCHANGED <<now, numprobes_sent, retries, pingprobe, max_successful_tryno, timing,
                     sdn, to>>
  BY DEF Expire
<1> QED
  BY <1>1, RemoveInv, NextInv DEF IInv, TypeOK, Windows

\* An answer that does not count for the windows.
LEMMA AnswerUncountedInv ==
  ASSUME IInv, NEW h \in Hosts, NEW s \in Slots, NEW sample \in Deltas,
         AnswerUncounted(h, s, sample)
  PROVE  IInv'
<1>1. /\ probes' = [probes EXCEPT ![h][s] = NoProbe]
      /\ UNCHANGED <<now, numprobes_sent, retries, pingprobe, max_successful_tryno, timing,
                     sdn>>
      /\ AdjustTimeouts(h, sample)
  BY DEF AnswerUncounted
<1>2. to' \in [Windows -> timeout_info] /\ EstimatesGood(to')
  BY <1>1, AdjustTimeoutsStep
<1> QED
  BY <1>1, <1>2, RemoveInv, NextInv DEF IInv, TypeOK, Windows

\* The actions that count a probe.
LEMMA TimeOutInv ==
  ASSUME IInv, NEW h \in Hosts, NEW s \in Slots, TimeOut(h, s)
  PROVE  IInv'
<1> DEFINE p == probes[h][s]
           R == Reducing(h, p, FALSE)
           q == [p EXCEPT !.timedout = TRUE, !.hit = @ \cup R]
<1>1. /\ p \in UltraProbe /\ p.sent <= now
      /\ \A x \in p.hit : p.sent <= timing[x].last_drop
  BY OutstandingProbe DEF TimeOut
<1>2. now \in Nat /\ WindowsGood(timing, now)
  BY DEF IInv, TypeOK
<1>3. num_probes_active(h) - 1 \in Int /\ group_probes_active - 1 \in Int
  BY CountsNat
<1>4. AdjustTiming(h, p, FALSE, num_probes_active(h) - 1, group_probes_active - 1)
  BY DEF TimeOut
<1> DEFINE n == num_probes_active(h) - 1
           m == group_probes_active - 1
<1>5. AdjustTiming(h, p, FALSE, n, m) /\ n \in Int /\ m \in Int
  BY <1>3, <1>4
<1> HIDE DEF p, R, n, m
<1>6. /\ timing' \in [Windows -> ultra_timing_vals] /\ WindowsGood(timing', now)
      /\ \A x \in Windows : IF x \in R THEN timing'[x].last_drop = now
                            ELSE timing'[x].last_drop = timing[x].last_drop
  BY <1>1, <1>5, AdjustTimingGood DEF R
<1>7. R \in SUBSET Windows
  BY DEF R, Reducing, Windows
<1>8. /\ q \in UltraProbe /\ q.sent = p.sent /\ q.hit = p.hit \cup R
      /\ p.hit \subseteq Windows /\ p.sent \in Nat
  BY <1>1, <1>7 DEF UltraProbe, Windows
<1> HIDE DEF q
<1>9. GoodProbe(q, timing', now)
  BY <1>1, <1>6, <1>7, <1>8 DEF GoodProbe
<1>10. ProbesAfter(h, s, q, R)
  BY DEF TimeOut, p, q, R
<1>11. /\ probes' \in [Hosts -> [Slots -> UltraProbe \cup {NoProbe}]]
       /\ ProbesGood(probes', timing', now)
  BY <1>6, <1>7, <1>9, <1>10, ProbesAfterGood
<1>12. sdn' \in [Hosts -> send_delay_nfo]
  <2>1. sdn[h] \in send_delay_nfo
    BY DEF IInv, TypeOK
  <2>2. Delayed(h, p, FALSE) \in send_delay_nfo
    BY <1>1, <1>2, <2>1, DelayedGood
  <2> QED
    BY <2>2, SdnGood DEF TimeOut, p
<1>13. retries' \in [Hosts -> Nat]
  <2>1. retries \in [Hosts -> Nat] /\ p.tryno \in Nat
    BY <1>1 DEF IInv, TypeOK, UltraProbe
  <2>2. MaxOf(retries[h], p.tryno + 1) \in Nat
    BY <2>1 DEF MaxOf
  <2>3. retries' = IF p.ping THEN retries
                   ELSE [retries EXCEPT ![h] = MaxOf(retries[h], p.tryno + 1)]
    BY <2>1 DEF TimeOut, p
  <2> QED
    BY <2>1, <2>2, <2>3
<1>14. UNCHANGED <<now, numprobes_sent, pingprobe, max_successful_tryno, to>>
  BY DEF TimeOut
<1> QED
  BY <1>6, <1>11, <1>12, <1>13, <1>14, NextInv DEF IInv, TypeOK, Windows

\* A ping of the ping host expires.
LEMMA GlobalPingExpiresInv ==
  ASSUME IInv, NEW h \in Hosts, NEW s \in Slots, GlobalPingExpires(h, s)
  PROVE  IInv'
<1> DEFINE p == probes[h][s]
           R == Reducing(h, p, FALSE)
<1>1. p \in UltraProbe
  BY OutstandingProbe DEF GlobalPingExpires
<1>2. now \in Nat /\ sdn[h] \in send_delay_nfo
  BY DEF IInv, TypeOK
<1>3. num_probes_active(h) \in Int /\ group_probes_active \in Int
  BY CountsNat
<1>4. AdjustTiming(h, p, FALSE, num_probes_active(h), group_probes_active)
  BY DEF GlobalPingExpires
<1>5. ProbesAfter(h, s, NoProbe, R) /\ sdn' = [sdn EXCEPT ![h] = Delayed(h, p, FALSE)]
  BY DEF GlobalPingExpires
<1> HIDE DEF p, R
<1>6. /\ timing' \in [Windows -> ultra_timing_vals] /\ WindowsGood(timing', now)
      /\ \A x \in Windows : IF x \in R THEN timing'[x].last_drop = now
                            ELSE timing'[x].last_drop = timing[x].last_drop
  BY <1>1, <1>3, <1>4, AdjustTimingGood DEF R
<1>7. R \in SUBSET Windows /\ GoodProbe(NoProbe, timing', now)
  BY DEF R, Reducing, Windows, GoodProbe
<1>8. /\ probes' \in [Hosts -> [Slots -> UltraProbe \cup {NoProbe}]]
      /\ ProbesGood(probes', timing', now)
  BY <1>5, <1>6, <1>7, ProbesAfterGood
<1>9. sdn' \in [Hosts -> send_delay_nfo]
  BY <1>1, <1>2, <1>5, DelayedGood, SdnGood
<1>10. UNCHANGED <<now, numprobes_sent, retries, pingprobe, max_successful_tryno, to>>
  BY DEF GlobalPingExpires
<1> QED
  BY <1>6, <1>8, <1>9, <1>10, NextInv DEF IInv, TypeOK, Windows

\* The delay of a host after an answer: raised, or set to its maximum.
LEMMA AnswerDelay ==
  ASSUME IInv, NEW h \in Hosts, NEW s \in Slots, NEW sample \in Deltas,
         NEW found \in BOOLEAN, Answer(h, s, sample, found)
  PROVE  \E d \in send_delay_nfo :
           sdn' = [sdn EXCEPT ![h] = d] /\ GrowsToMax(sdn[h], d)
<1> DEFINE p == probes[h][s]
           s1 == Delayed(h, p, TRUE)
           C == ~PingScan /\ p.tryno > max_successful_tryno[h]
                  /\ p.tryno > (IF TimingLevel >= 4 THEN 4 ELSE 3)
           d == IF C THEN boostScanDelay(s1) ELSE s1
<1>1. p \in UltraProbe /\ now \in Nat /\ sdn[h] \in send_delay_nfo
  BY OutstandingProbe DEF Answer, IInv, TypeOK
<1>2. sdn' = [sdn EXCEPT ![h] = d]
  BY DEF Answer
<1> HIDE DEF p, C
<1>3. s1 \in send_delay_nfo /\ GrowsToMax(sdn[h], s1)
  BY <1>1, DelayedGood
<1> HIDE DEF s1
<1>4. boostScanDelay(s1) \in send_delay_nfo /\ GrowsToMax(s1, boostScanDelay(s1))
  BY <1>1, <1>3, BoostGood
<1>5. /\ sdn[h].delayms \in Nat /\ s1.delayms \in Nat /\ boostScanDelay(s1).delayms \in Nat
      /\ sdn[h].maxdelay \in Nat
  BY <1>1, <1>3, <1>4 DEF send_delay_nfo
<1>6. d \in send_delay_nfo
  BY <1>3, <1>4
<1>7. GrowsToMax(sdn[h], d)
  BY <1>3, <1>4, <1>5 DEF GrowsToMax, MinOf
<1> QED
  BY <1>2, <1>6, <1>7

\* An answer, in time or late, adjusts the windows and the estimates.
LEMMA AnswerInv ==
  ASSUME IInv, NEW h \in Hosts, NEW s \in Slots, NEW sample \in Deltas,
         NEW found \in BOOLEAN, Answer(h, s, sample, found)
  PROVE  IInv'
<1> DEFINE p == probes[h][s]
           R == Reducing(h, p, TRUE)
<1>1. p \in UltraProbe
  BY OutstandingProbe DEF Answer
<1>2. num_probes_active(h) \in Int /\ group_probes_active \in Int
  BY CountsNat
<1>3. /\ AdjustTiming(h, p, TRUE, num_probes_active(h), group_probes_active)
      /\ ProbesAfter(h, s, NoProbe, R) /\ AdjustTimeouts(h, sample)
  BY DEF Answer
<1>4. max_successful_tryno' \in [Hosts -> Nat] /\ pingprobe' \in [Hosts -> BOOLEAN]
  <2>1. /\ max_successful_tryno \in [Hosts -> Nat] /\ pingprobe \in [Hosts -> BOOLEAN]
        /\ p.tryno \in Nat
    BY <1>1 DEF IInv, TypeOK, UltraProbe
  <2>2. /\ \/ max_successful_tryno' = max_successful_tryno
           \/ max_successful_tryno' = [max_successful_tryno EXCEPT ![h] = p.tryno]
        /\ pingprobe' = [pingprobe EXCEPT ![h] = pingprobe[h] \/ found]
    BY <2>1 DEF Answer
  <2>3. max_successful_tryno' \in [Hosts -> Nat]
    BY <2>1, <2>2
  <2>4. pingprobe' \in [Hosts -> BOOLEAN]
    BY <2>1, <2>2, Zenon
  <2> QED
    BY <2>3, <2>4
<1> HIDE DEF p, R
<1>5. /\ timing' \in [Windows -> ultra_timing_vals] /\ WindowsGood(timing', now)
      /\ \A x \in Windows : IF x \in R THEN timing'[x].last_drop = now
                            ELSE timing'[x].last_drop = timing[x].last_drop
  BY <1>1, <1>2, <1>3, AdjustTimingGood DEF R
<1>6. R \in SUBSET Windows /\ GoodProbe(NoProbe, timing', now)
  BY DEF R, Reducing, Windows, GoodProbe
<1>7. /\ probes' \in [Hosts -> [Slots -> UltraProbe \cup {NoProbe}]]
      /\ ProbesGood(probes', timing', now)
  BY <1>3, <1>5, <1>6, ProbesAfterGood
<1>8. to' \in [Windows -> timeout_info] /\ EstimatesGood(to')
  BY <1>3, AdjustTimeoutsStep
<1>9. sdn' \in [Hosts -> send_delay_nfo]
  BY AnswerDelay, SdnGood
<1>10. UNCHANGED <<now, numprobes_sent, retries>>
  BY DEF Answer
<1> QED
  BY <1>4, <1>5, <1>7, <1>8, <1>9, <1>10, NextInv DEF IInv, TypeOK, Windows

\* Every step keeps the invariant.
LEMMA StepInv ==
  ASSUME IInv, [Next]_vars
  PROVE  IInv'
<1>1. CASE Tick
  BY <1>1, TickInv
<1>2. ASSUME NEW h \in Hosts, NEW ping \in BOOLEAN, NEW tryno \in 0 .. MaxTryno,
             Send(h, ping, tryno)
      PROVE  IInv'
  BY <1>2, SendInv
<1>3. ASSUME NEW h \in Hosts, NEW s \in Slots,
             TimeOut(h, s) \/ GlobalPingExpires(h, s) \/ Expire(h, s)
      PROVE  IInv'
  BY <1>3, TimeOutInv, GlobalPingExpiresInv, ExpireInv
<1>4. ASSUME NEW h \in Hosts, NEW s \in Slots, NEW sample \in Deltas,
             AnswerUncounted(h, s, sample)
      PROVE  IInv'
  BY <1>4, AnswerUncountedInv
<1>5. ASSUME NEW h \in Hosts, NEW s \in Slots, NEW sample \in Deltas, NEW found \in BOOLEAN,
             Answer(h, s, sample, found)
      PROVE  IInv'
  BY <1>5, AnswerInv
<1>6. CASE UNCHANGED vars
  BY <1>6 DEF vars, IInv, TypeOK, ProbesGood, WindowsGood, EstimatesGood
<1> QED
  BY <1>1, <1>2, <1>3, <1>4, <1>5, <1>6, Zenon DEF Next, ScanOver

\* Windows, delays and estimates keep the inductive invariant in every behaviour.
THEOREM Invariance == Spec => []IInv
<1>1. Init => IInv
  BY InitInv
<1>2. IInv /\ [Next]_vars => IInv'
  BY StepInv
<1> QED
  BY <1>1, <1>2, PTL DEF Spec

-------------------------------------------------------------------------------
(* The theorems.                                                            *)

\* The records of windows, delays and estimates keep their types whatever is sent,
\* answered or timed out (ultrascan_adjust_timing(), adjust_timeouts2()).
THEOREM TimingTypeCorrect == Spec => []TypeOK
<1>1. IInv => TypeOK
  BY DEF IInv
<1> QED
  BY <1>1, Invariance, PTL

\* No sequence of answers, late answers and drops closes a window or lets it grow
\* past its maximum, and the window that getTiming() chooses has room for a probe
\* when nothing is in flight (ack(), drop(), drop_group() of timing.cc).
THEOREM WindowsNeverClose == Spec => []WindowsStayOpen
<1>1. ASSUME IInv
      PROVE  WindowsStayOpen
  <2>1. \A x \in Windows : GoodWindow(timing[x])
    BY <1>1 DEF IInv, WindowsGood
  <2>2. \A x \in Windows : WindowWithinLimits(timing[x]) /\ timing[x].cwnd \in Nat
    BY <2>1 DEF GoodWindow, ultra_timing_vals
  <2>3. ASSUME NEW h \in Hosts
        PROVE  HasRoom(getTiming(h), 0)
    <3>1. /\ Unit \in Nat /\ Unit <= low_cwnd * Unit /\ low_cwnd * Unit \in Nat
          /\ initial_cwnd * Unit \in Nat /\ low_cwnd * Unit <= initial_cwnd * Unit
      BY WindowBounds, BoundsAssumption
    <3>2. /\ timing[h].cwnd \in Nat /\ low_cwnd * Unit <= timing[h].cwnd
          /\ timing[Group].cwnd \in Nat /\ low_cwnd * Unit <= timing[Group].cwnd
      BY <2>2 DEF WindowWithinLimits, Windows
    <3> DEFINE lw == low_cwnd * Unit
               iw == initial_cwnd * Unit
    <3>3. getTiming(h) \in {timing[h].cwnd, timing[Group].cwnd, iw}
      BY Zenon DEF getTiming
    <3>4. /\ lw \in Nat /\ Unit <= lw /\ iw \in Nat /\ lw <= iw
          /\ lw <= timing[h].cwnd /\ lw <= timing[Group].cwnd
      BY <3>1, <3>2
    <3> HIDE DEF lw, iw
    <3>5. getTiming(h) \in Nat /\ Unit <= getTiming(h)
      BY <3>1, <3>2, <3>3, <3>4
    <3> QED
      BY <3>1, <3>5 DEF HasRoom
  <2> QED
    BY <2>2, <2>3 DEF WindowsStayOpen, Windows
<1> QED
  BY <1>1, Invariance, PTL

\* Each reply that ack() counts was expected (num_replies_received and
\* num_replies_expected of ultra_timing_vals), so cc_scale() is at least one.
THEOREM RepliesCounted == Spec => []RepliesWithinExpected
<1>1. IInv => RepliesWithinExpected
  BY DEF IInv, WindowsGood, GoodWindow, RepliesWithinExpected, Windows
<1> QED
  BY <1>1, Invariance, PTL

\* adjust_timeouts2() averages with shifts and without a bound on what it is given;
\* srtt stays between the least and the greatest sample, rttvar between 0 and 2.3
\* seconds, and probeTimeout() between the limits of the options.
THEOREM EstimatesSound == Spec => []EstimateWithinSamples
<1>1. ASSUME IInv
      PROVE  EstimateWithinSamples
  <2>1. \A x \in Windows : GoodEstimate(to[x])
    BY <1>1 DEF IInv, EstimatesGood
  <2>2. \A x \in Windows :
          \/ to[x].srtt = -1 /\ to[x].rttvar = -1
          \/ /\ to[x].lo <= to[x].srtt /\ to[x].srtt <= to[x].hi
             /\ 0 <= to[x].rttvar /\ to[x].rttvar <= 2300000
    BY <2>1, SMT DEF GoodEstimate
  <2>3. \A x \in Windows : /\ MinRtt * 1000 <= to[x].timeout
                           /\ to[x].timeout <= MaxOf(MaxRtt, ScanDelay) * 1000
    BY <2>1, SMT DEF GoodEstimate
  <2>4. \A h \in Hosts : probeTimeout(h) \in {to[h].timeout, to[Group].timeout}
    BY DEF probeTimeout
  <2>5. \A h \in Hosts : /\ MinRtt * 1000 <= probeTimeout(h)
                         /\ probeTimeout(h) <= MaxOf(MaxRtt, ScanDelay) * 1000
    BY <2>3, <2>4, SMT DEF Windows
  <2> QED
    BY <2>2, <2>5, SMT DEF EstimateWithinSamples, Windows
<1> QED
  BY <1>1, Invariance, PTL

\* A window that shrinks does so for a probe that was sent after it last shrank
\* (the comparison of probe->sent with last_drop in ultrascan_adjust_timing()).
LEMMA ShrinksForNewProbe ==
  ASSUME IInv, NEW h \in Hosts, NEW s \in Slots, Outstanding(h, s), NEW answered \in BOOLEAN,
         NEW n \in Int, NEW m \in Int, AdjustTiming(h, probes[h][s], answered, n, m),
         NEW x \in Windows, timing'[x].cwnd < timing[x].cwnd
  PROVE  x \notin probes[h][s].hit
<1> DEFINE p == probes[h][s]
<1>1. p \in UltraProbe /\ \A y \in p.hit : p.sent <= timing[y].last_drop
  BY OutstandingProbe
<1> HIDE DEF p
<1>2. /\ x \notin Reducing(h, p, answered) => timing[x].cwnd <= timing'[x].cwnd
      /\ timing' \in [Windows -> ultra_timing_vals]
  BY <1>1, AdjustTimingGood DEF p
<1>3. /\ timing[x].cwnd \in Nat /\ timing'[x].cwnd \in Nat
      /\ timing[x].last_drop \in Nat /\ p.sent \in Nat
  BY <1>1, <1>2 DEF IInv, TypeOK, Windows, ultra_timing_vals, UltraProbe
<1>4. x \in Reducing(h, p, answered)
  BY <1>2, <1>3
<1>5. p.sent > timing[x].last_drop
  BY <1>4 DEF Reducing, Reduces
<1> QED
  BY <1>1, <1>3, <1>5 DEF p

\* Drops come in batches, and a batch reduces a window once: the probe that reduces
\* it was not outstanding when it was reduced before (scan_engine.cc:1620-1632).
THEOREM BatchReducesOnce == Spec => OneDecreasePerBatch
<1> DEFINE Shrinks(x) == timing'[x].cwnd < timing[x].cwnd
           Once(x) == \E h \in Hosts, s \in Slots : Handled(h, s) /\ x \notin probes[h][s].hit
           A == \A x \in Windows : Shrinks(x) => Once(x)
<1>1. ASSUME IInv, [Next]_vars
      PROVE  [A]_vars
  <2>1. ASSUME UNCHANGED timing
        PROVE  A
    <3>1. \A x \in Windows : timing[x].cwnd \in Nat
      BY <1>1 DEF IInv, TypeOK, Windows, ultra_timing_vals
    <3>2. \A x \in Windows : ~ Shrinks(x)
      BY <2>1, <3>1
    <3> QED
      BY <3>2
  <2>2. ASSUME NEW h \in Hosts, NEW s \in Slots, TimeOut(h, s)
        PROVE  A
    <3>1. Outstanding(h, s) /\ ~probes[h][s].timedout
      BY <2>2 DEF TimeOut
    <3>2. num_probes_active(h) - 1 \in Int /\ group_probes_active - 1 \in Int
      BY CountsNat
    <3>3. AdjustTiming(h, probes[h][s], FALSE, num_probes_active(h) - 1,
                       group_probes_active - 1)
      BY <2>2 DEF TimeOut
    <3>4. \A x \in Windows : Shrinks(x) => x \notin probes[h][s].hit
      BY <1>1, <3>1, <3>2, <3>3, ShrinksForNewProbe
    <3>5. Handled(h, s)
      <4>1. probes[h][s] \in UltraProbe
        BY <1>1, <3>1, OutstandingProbe
      <4>2. probes'[h][s] = [probes[h][s] EXCEPT !.timedout = TRUE,
                               !.hit = @ \cup Reducing(h, probes[h][s], FALSE)]
        BY <2>2 DEF TimeOut, ProbesAfter
      <4>3. probes'[h][s].timedout = TRUE
        BY <4>1, <4>2 DEF UltraProbe
      <4> QED
        BY <3>1, <4>3, Zenon DEF Handled
    <3> HIDE DEF Shrinks
    <3> QED
      BY <3>4, <3>5
  <2>3. ASSUME NEW h \in Hosts, NEW s \in Slots, GlobalPingExpires(h, s)
        PROVE  A
    <3>1. /\ Outstanding(h, s)
          /\ AdjustTiming(h, probes[h][s], FALSE, num_probes_active(h), group_probes_active)
      BY <2>3 DEF GlobalPingExpires
    <3>2. num_probes_active(h) \in Int /\ group_probes_active \in Int
      BY CountsNat
    <3>3. \A x \in Windows : Shrinks(x) => x \notin probes[h][s].hit
      BY <1>1, <3>1, <3>2, ShrinksForNewProbe
    <3>4. Handled(h, s)
      BY <2>3, <3>1 DEF GlobalPingExpires, ProbesAfter, Handled
    <3> HIDE DEF Shrinks
    <3> QED
      BY <3>3, <3>4
  <2>4. ASSUME NEW h \in Hosts, NEW s \in Slots, NEW sample \in Deltas,
               NEW found \in BOOLEAN, Answer(h, s, sample, found)
        PROVE  A
    <3>1. /\ Outstanding(h, s)
          /\ AdjustTiming(h, probes[h][s], TRUE, num_probes_active(h), group_probes_active)
      BY <2>4 DEF Answer
    <3>2. num_probes_active(h) \in Int /\ group_probes_active \in Int
      BY CountsNat
    <3>3. \A x \in Windows : Shrinks(x) => x \notin probes[h][s].hit
      BY <1>1, <3>1, <3>2, ShrinksForNewProbe
    <3>4. Handled(h, s)
      BY <2>4, <3>1 DEF Answer, ProbesAfter, Handled
    <3> HIDE DEF Shrinks
    <3> QED
      BY <3>3, <3>4
  <2>5. ASSUME NEW h \in Hosts, NEW s \in Slots, NEW sample \in Deltas,
               AnswerUncounted(h, s, sample)
        PROVE  UNCHANGED timing
    BY <2>5 DEF AnswerUncounted
  <2>6. ASSUME NEW h \in Hosts, NEW s \in Slots, Expire(h, s)
        PROVE  UNCHANGED timing
    BY <2>6 DEF Expire
  <2>7. ASSUME NEW h \in Hosts, NEW ping \in BOOLEAN, NEW tryno \in 0 .. MaxTryno,
               Send(h, ping, tryno)
        PROVE  UNCHANGED timing
    BY <2>7 DEF Send
  <2>8. Tick => UNCHANGED timing
    BY DEF Tick
  <2> HIDE DEF A
  <2> QED
    BY <1>1, <2>1, <2>2, <2>3, <2>4, <2>5, <2>6, <2>7, <2>8, Zenon DEF Next, ScanOver
<1> QED
  BY <1>1, Invariance, PTL DEF Spec, OneDecreasePerBatch, Windows

\* Whatever the options, and -T0 and -T1 leave the delay above its maximum,
\* ultrascan_adjust_timing() and boostScanDelay() only ever raise the delay or set it to
\* the maximum.
THEOREM DelayGrows == Spec => DelayGrowsToMax
<1> DEFINE A == \A h \in Hosts : GrowsToMax(sdn[h], sdn'[h])
<1>1. ASSUME IInv, [Next]_vars
      PROVE  A
  <2>1. sdn \in [Hosts -> send_delay_nfo] /\ now \in Nat
    BY <1>1 DEF IInv, TypeOK
  <2>2. ASSUME NEW h \in Hosts, NEW d, sdn' = [sdn EXCEPT ![h] = d], GrowsToMax(sdn[h], d)
        PROVE  A
    <3>1. sdn'[h] = d /\ \A i \in Hosts \ {h} : sdn'[i] = sdn[i]
      BY <2>1, <2>2
    <3>2. \A i \in Hosts : GrowsToMax(sdn[i], sdn[i])
      BY DEF GrowsToMax
    <3> QED
      BY <2>2, <3>1, <3>2
  <2>3. ASSUME UNCHANGED sdn
        PROVE  A
    BY <2>3 DEF GrowsToMax
  <2>4. ASSUME NEW h \in Hosts, NEW s \in Slots, TimeOut(h, s) \/ GlobalPingExpires(h, s)
        PROVE  A
    <3>1. Outstanding(h, s) /\ sdn' = [sdn EXCEPT ![h] = Delayed(h, probes[h][s], FALSE)]
      BY <2>4 DEF TimeOut, GlobalPingExpires
    <3>2. probes[h][s] \in UltraProbe
      BY <1>1, <3>1, OutstandingProbe
    <3>3. GrowsToMax(sdn[h], Delayed(h, probes[h][s], FALSE))
      BY <2>1, <3>2, DelayedGood
    <3> HIDE DEF A
    <3> QED
      BY <2>2, <3>1, <3>3
  <2>5. ASSUME NEW h \in Hosts, NEW s \in Slots, NEW sample \in Deltas,
               NEW found \in BOOLEAN, Answer(h, s, sample, found)
        PROVE  A
    <3>1. PICK d \in send_delay_nfo : sdn' = [sdn EXCEPT ![h] = d] /\ GrowsToMax(sdn[h], d)
      BY <1>1, <2>5, AnswerDelay
    <3> HIDE DEF A
    <3> QED
      BY <2>2, <3>1
  <2>6. ASSUME NEW h \in Hosts, NEW s \in Slots, NEW sample \in Deltas,
               AnswerUncounted(h, s, sample)
        PROVE  UNCHANGED sdn
    BY <2>6 DEF AnswerUncounted
  <2>7. ASSUME NEW h \in Hosts, NEW s \in Slots, Expire(h, s)
        PROVE  UNCHANGED sdn
    BY <2>7 DEF Expire
  <2>8. ASSUME NEW h \in Hosts, NEW ping \in BOOLEAN, NEW tryno \in 0 .. MaxTryno,
               Send(h, ping, tryno)
        PROVE  UNCHANGED sdn
    BY <2>8 DEF Send
  <2>9. (Tick => UNCHANGED sdn) /\ (UNCHANGED vars => UNCHANGED sdn)
    BY DEF Tick, vars
  <2> HIDE DEF A
  <2> QED
    BY <1>1, <2>3, <2>4, <2>5, <2>6, <2>7, <2>8, <2>9, Zenon DEF Next, ScanOver
<1>2. IInv /\ [Next]_vars => [A]_vars
  BY <1>1
<1> QED
  BY <1>2, Invariance, PTL DEF Spec, DelayGrowsToMax

===============================================================================

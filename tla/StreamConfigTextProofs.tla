------------------------ MODULE StreamConfigTextProofs ------------------------
(***************************************************************************)
(* What the text of a configuration does to its rate, for every rate from  *)
(* 1 to 512 kHz.  Every estimate is linear once the octave's Scale is      *)
(* given a name.                                                           *)
(***************************************************************************)
EXTENDS StreamConfigText, TLAPS

\* Rounding is off by half a unit at most.
LEMMA RoundDivBounds ==
  ASSUME NEW n \in Nat, NEW d \in Nat \ {0}
  PROVE  /\ RoundDiv(n, d) \in Nat
         /\ 2 * (d * RoundDiv(n, d)) <= 2 * n + d
         /\ 2 * n <= 2 * (d * RoundDiv(n, d)) + d
<1> DEFINE q == n \div d
           r == n % d
<1>1. q \in Nat /\ r \in 0 .. d - 1 /\ n = d * q + r
  BY SMT
<1>2. d * (q + 1) = d * q + d
  BY <1>1, SMT
<1>3. (RoundDiv(n, d) = q /\ 2 * r <= d) \/ (RoundDiv(n, d) = q + 1 /\ 2 * r >= d)
  <2> DEFINE up == 2 * r > d \/ (2 * r = d /\ q % 2 = 1)
  <2>1. RoundDiv(n, d) = q + IF up THEN 1 ELSE 0
    BY DEF RoundDiv
  <2> HIDE DEF q, r
  <2> QED
    BY <1>1, <2>1
<1> HIDE DEF q, r
<1> QED
  BY <1>1, <1>2, <1>3, SMT

\* Every rate up to 1024 kHz lies in an octave.
LEMMA OctaveHas ==
  ASSUME NEW rate \in Nat, 1000 <= rate, rate < 1024000
  PROVE  /\ Octave(rate) \in Octaves
         /\ 1000 * Octave(rate) <= rate /\ rate < 2000 * Octave(rate)
<1>1. \E p \in Octaves : 1000 * p <= rate /\ rate < 2000 * p
  BY SMT DEF Octaves
<1> QED
  BY <1>1 DEF Octave

\* The scale of an octave is a multiple of both units parse_khz divides by.
LEMMA ScaleHas ==
  ASSUME NEW rate \in Nat, 1000 <= rate, rate < 1024000
  PROVE  /\ Scale(rate) \in Nat /\ Scale(rate) >= 2048
         /\ Scale(rate) = 128 * (Scale(rate) \div 128)
         /\ Scale(rate) = 64 * (Scale(rate) \div 64)
<1> DEFINE Scales == {2048, 4096, 8192, 16384, 32768, 65536, 131072, 262144, 524288,
                      1048576}
<1>1. Scale(rate) \in Scales
  BY OctaveHas, SMT DEF Octaves, Scale
<1>2. \A s \in Scales : /\ s \in Nat /\ s >= 2048
                       /\ s = 128 * (s \div 128) /\ s = 64 * (s \div 64)
  BY SMT
<1> HIDE DEF Scales
<1> QED
  BY <1>1, <1>2, SMT

\* The mantissa is off by half a unit at most.
LEMMA KiloHas ==
  ASSUME NEW rate \in Nat, 1000 <= rate, rate < 1024000
  PROVE  /\ Kilo(rate) \in Nat
         /\ 250 * Kilo(rate) <= 2 * (rate * Scale(rate)) + 125
         /\ 2 * (rate * Scale(rate)) <= 250 * Kilo(rate) + 125
<1>1. rate * Scale(rate) \in Nat
  BY ScaleHas, SMT
<1> QED
  BY <1>1, RoundDivBounds, SMT DEF Kilo

\* The two decimals are off by 5 Hz at most (format_as_khz), and no rate falls out of the
\* octaves on the way.
LEMMA FormatNear ==
  ASSUME NEW rate \in Nat, 1000 <= rate, rate < 1024000
  PROVE  /\ format_as_khz(rate) \in Nat
         /\ rate - 5 <= format_as_khz(rate) /\ format_as_khz(rate) <= rate + 5
         /\ format_as_khz(rate) >= 1000
<1> DEFINE K == Scale(rate)
           m == Kilo(rate)
           f == RoundDiv(25 * m, 2 * K)
<1>1. K \in Nat /\ K >= 2048 /\ m \in Nat
  BY ScaleHas, KiloHas
<1>2. 250 * m <= 2 * (rate * K) + 125 /\ 2 * (rate * K) <= 250 * m + 125
  BY KiloHas
<1> HIDE DEF K, m
<1>3. f \in Nat /\ 2 * ((2 * K) * f) <= 2 * (25 * m) + 2 * K /\ 2 * (25 * m) <= 2 * ((2 * K) * f) + 2 * K
  BY <1>1, RoundDivBounds, SMT
<1>4. format_as_khz(rate) = 10 * f
  BY DEF format_as_khz, K, m
<1> HIDE DEF f
<1> DEFINE d == 10 * f - rate
<1>5. d \in Int /\ 2 * (K * d) = 20 * (K * f) - 2 * (rate * K)
  BY <1>1, <1>3, SMT
<1>6. 2 * (K * d) <= 10 * K + 125 /\ -(10 * K) - 125 <= 2 * (K * d)
  BY <1>1, <1>2, <1>3, <1>5, SMT
<1>7. d <= 5 /\ -5 <= d
  <2> HIDE DEF d
  <2>1. ASSUME d >= 6 PROVE FALSE
    <3>1. K * d >= K * 6
      BY <1>1, <1>5, <2>1, SMT
    <3> QED
      BY <1>1, <1>5, <1>6, <3>1, SMT
  <2>2. ASSUME d <= -6 PROVE FALSE
    <3>1. K * d <= K * (-6)
      BY <1>1, <1>5, <2>2, SMT
    <3> QED
      BY <1>1, <1>5, <1>6, <3>1, SMT
  <2> QED
    BY <1>5, <2>1, <2>2, SMT
<1>8. f >= 100
  BY <1>3, <1>7, SMT
<1> QED
  BY <1>3, <1>4, <1>7, <1>8, SMT

\* What is read from a text is what its digits say, or one Hz less: the product is cut off
\* and not rounded.
LEMMA ParseNear ==
  ASSUME NEW text \in Nat, 1000 <= text, text < 1024000
  PROVE  parse_khz(text) \in {text - 1, text}
<1> DEFINE K == Scale(text)
           P == 125 * Kilo(text)
<1>1. K \in Nat /\ K >= 2048 /\ P \in Nat
  BY ScaleHas, KiloHas, SMT
<1>2. 2 * P <= 2 * (text * K) + 125 /\ 2 * (text * K) <= 2 * P + 125
  BY KiloHas, SMT
<1>3. K = 128 * (K \div 128) /\ K = 64 * (K \div 64)
  BY ScaleHas
<1> HIDE DEF K, P
<1>4. RoundDiv(P, 128) \div (K \div 128) = text
  <2> DEFINE L == K \div 128
             g == RoundDiv(P, 128)
  <2>1. L \in Nat /\ L >= 16 /\ text * K = 128 * (text * L)
    BY <1>1, <1>3, SMT
  <2>2. g \in Nat /\ 2 * (128 * g) <= 2 * P + 128 /\ 2 * P <= 2 * (128 * g) + 128
    BY <1>1, RoundDivBounds, SMT
  <2> HIDE DEF L, g
  <2>3. g = text * L
    BY <1>1, <1>2, <2>1, <2>2, SMT
  <2> QED
    BY <2>1, <2>3, SMT DEF L, g
<1>5. RoundDiv(P, 64) \div (K \div 64) \in {text - 1, text}
  <2> DEFINE L == K \div 64
             g == RoundDiv(P, 64)
  <2>1. L \in Nat /\ L >= 32 /\ text * K = 64 * (text * L)
    BY <1>1, <1>3, SMT
  <2>2. g \in Nat /\ 2 * (64 * g) <= 2 * P + 64 /\ 2 * P <= 2 * (64 * g) + 64
    BY <1>1, RoundDivBounds, SMT
  <2> HIDE DEF L, g
  <2>3. text * L \in Nat /\ g >= text * L - 1 /\ g <= text * L + 1
    BY <1>1, <1>2, <2>1, <2>2, SMT
  <2>4. (text - 1) * L = text * L - L /\ (text + 1) * L = text * L + L
    BY <2>1, SMT
  <2>5. g \div L \in {text - 1, text}
    BY <2>1, <2>2, <2>3, <2>4, SMT
  <2> QED
    BY <2>5 DEF L, g
<1> QED
  BY <1>4, <1>5 DEF parse_khz, K, P

\* The rates in numbers.  Their range and its numbers stay apart, the prover's translation
\* of one with the other fails.
LEMMA RatesInNumbers ==
  \A r \in Int : MinRate <= r /\ r <= MaxRate <=> 1000 <= r /\ r < 512000
BY SMT DEF MinRate, MaxRate

\* The rates are the whole numbers from 1000 below 512000.
LEMMA RateRange ==
  \A r : r \in MinRate .. MaxRate <=> r \in Nat /\ 1000 <= r /\ r < 512000
<1>1. MinRate \in Nat /\ MaxRate \in Nat
  BY SMT DEF MinRate, MaxRate
<1>2. \A r : r \in MinRate .. MaxRate <=> r \in Int /\ MinRate <= r /\ r <= MaxRate
  BY <1>1, SMT
<1>3. \A r \in Int : 1000 <= r => r \in Nat
  BY SMT
<1> QED
  BY <1>2, <1>3, RatesInNumbers, SMT

\* A rate above the least one is one of them.
LEMMA RateAbove ==
  ASSUME NEW rate \in Nat, MinRate < rate, rate <= MaxRate
  PROVE  rate \in MinRate .. MaxRate
<1>1. MinRate \in Nat /\ MaxRate \in Nat
  BY SMT DEF MinRate, MaxRate
<1> QED
  BY <1>1, SMT

\* A rate that goes through text once, as that of the opened device in the server's
\* answer, comes back at most 6 Hz lower or 5 higher.
THEOREM RateSurvivesText ==
  ASSUME NEW rate \in MinRate .. MaxRate
  PROVE  ThroughText(rate) \in Nat /\ Near(rate, ThroughText(rate))
<1>1. rate \in Nat /\ 1000 <= rate /\ rate < 512000
  BY RateRange
<1>2. /\ format_as_khz(rate) \in Nat /\ 1000 <= format_as_khz(rate)
      /\ rate - 5 <= format_as_khz(rate) /\ format_as_khz(rate) <= rate + 5
  BY <1>1, FormatNear, SMT
<1>3. parse_khz(format_as_khz(rate)) \in {format_as_khz(rate) - 1, format_as_khz(rate)}
  BY <1>1, <1>2, ParseNear, SMT
<1> QED
  BY <1>1, <1>2, <1>3, SMT DEF Near, ThroughText

\* A rate that goes through text twice, as one that is typed, comes back at most 7 Hz
\* lower or 5 higher.
THEOREM TypedRateSurvives ==
  ASSUME NEW rate \in Nat, MinRate < rate, rate <= MaxRate
  PROVE  /\ ThroughText(parse_khz(rate)) \in Nat
         /\ ThroughText(parse_khz(rate)) - rate \in -7 .. 5
<1> DEFINE typed == parse_khz(rate)
           t == format_as_khz(typed)
<1>1. MinRate <= rate - 1 /\ MinRate <= rate /\ rate - 1 <= MaxRate
  BY SMT DEF MinRate, MaxRate
<1>2. 1000 <= rate - 1 /\ rate < 512000
  BY <1>1, RatesInNumbers, SMT
<1>3. typed \in Nat /\ typed \in {rate - 1, rate}
  BY <1>2, ParseNear, SMT
<1> HIDE DEF typed
<1>4. /\ t \in Nat /\ 1000 <= t
      /\ typed - 5 <= t /\ t <= typed + 5
  BY <1>2, <1>3, FormatNear, SMT DEF t
<1> HIDE DEF t
<1>5. parse_khz(t) \in {t - 1, t}
  BY <1>2, <1>3, <1>4, ParseNear, SMT
<1>6. ThroughText(typed) = parse_khz(t)
  BY DEF ThroughText, t
<1>7. parse_khz(t) \in Nat /\ parse_khz(t) - rate \in -7 .. 5
  BY <1>3, <1>4, <1>5, SMT
<1> QED
  BY <1>6, <1>7 DEF typed

-----------------------------------------------------------------------------
\* Rounding a multiple is dividing.
LEMMA RoundDivExact ==
  ASSUME NEW q \in Nat, NEW d \in Nat \ {0}
  PROVE  RoundDiv(d * q, d) = q
<1>1. d * q \in Nat
  BY SMT
<1> DEFINE g == RoundDiv(d * q, d)
<1>2. g \in Nat /\ 2 * (d * g) <= 2 * (d * q) + d /\ 2 * (d * q) <= 2 * (d * g) + d
  BY <1>1, RoundDivBounds
<1> HIDE DEF g
<1>3. d * g = d * q + d * (g - q)
  BY <1>2, SMT
<1>4. ASSUME g - q >= 1 PROVE FALSE
  <2>1. d * (g - q) >= d
    BY <1>2, <1>4, SMT
  <2> QED
    BY <1>1, <1>2, <1>3, <2>1, SMT
<1>5. ASSUME g - q <= -1 PROVE FALSE
  <2>1. d * (g - q) <= -d
    BY <1>2, <1>5, SMT
  <2> QED
    BY <1>1, <1>2, <1>3, <2>1, SMT
<1>6. g = q
  BY <1>2, <1>4, <1>5, SMT
<1> QED
  BY <1>6 DEF g

\* A whole number of kHz keeps its value in both directions.
LEMMA WholeKhzExact ==
  ASSUME NEW n \in Nat, 1 <= n, n < 1024
  PROVE  format_as_khz(1000 * n) = 1000 * n /\ parse_khz(1000 * n) = 1000 * n
<1> DEFINE rate == 1000 * n
           K == Scale(rate)
<1>1. rate \in Nat /\ 1000 <= rate /\ rate < 1024000
  BY SMT
<1>2. /\ K \in Nat /\ K >= 2048
      /\ K = 128 * (K \div 128) /\ K = 64 * (K \div 64)
  BY <1>1, ScaleHas
<1>3. Kilo(rate) = 8 * (n * K)
  <2>1. rate * K = 125 * (8 * (n * K)) /\ 8 * (n * K) \in Nat
    BY <1>2, SMT
  <2> HIDE DEF rate
  <2>2. RoundDiv(rate * K, 125) = 8 * (n * K)
    BY <2>1, RoundDivExact, SMT
  <2> QED
    BY <2>2 DEF Kilo, K
<1>4. format_as_khz(rate) = rate
  <2>1. 25 * Kilo(rate) = (2 * K) * (100 * n) /\ 2 * K \in Nat \ {0} /\ 100 * n \in Nat
    BY <1>2, <1>3, SMT
  <2>2. RoundDiv(25 * Kilo(rate), 2 * K) = 100 * n
    BY <2>1, RoundDivExact
  <2> QED
    BY <2>2, SMT DEF format_as_khz
<1>5. 125 * Kilo(rate) = 1000 * (n * K)
  BY <1>2, <1>3, SMT
<1>6. RoundDiv(1000 * (n * K), 128) \div (K \div 128) = rate
  <2> DEFINE L == K \div 128
             q == 1000 * (n * L)
  <2>1. L \in Nat /\ L >= 16 /\ 1000 * (n * K) = 128 * q /\ q \in Nat /\ q \div L = 1000 * n
    <3>1. L \in Nat /\ L >= 16 /\ 1000 * (n * K) = 128 * q /\ q \in Nat
      BY <1>2, SMT
    <3> HIDE DEF L
    <3>2. q \div L = 1000 * n
      BY <3>1, SMT
    <3> QED
      BY <3>1, <3>2
  <2> HIDE DEF L, q
  <2>2. 128 \in Nat \ {0}
    BY SMT
  <2>3. RoundDiv(128 * q, 128) = q
    BY <2>1, <2>2, RoundDivExact
  <2> QED
    BY <2>1, <2>3 DEF L
<1>7. RoundDiv(1000 * (n * K), 64) \div (K \div 64) = rate
  <2> DEFINE L == K \div 64
             q == 1000 * (n * L)
  <2>1. L \in Nat /\ L >= 32 /\ 1000 * (n * K) = 64 * q /\ q \in Nat /\ q \div L = 1000 * n
    <3>1. L \in Nat /\ L >= 32 /\ 1000 * (n * K) = 64 * q /\ q \in Nat
      BY <1>2, SMT
    <3> HIDE DEF L
    <3>2. q \div L = 1000 * n
      BY <3>1, SMT
    <3> QED
      BY <3>1, <3>2
  <2> HIDE DEF L, q
  <2>2. 64 \in Nat \ {0}
    BY SMT
  <2>3. RoundDiv(64 * q, 64) = q
    BY <2>1, <2>2, RoundDivExact
  <2> QED
    BY <2>1, <2>3 DEF L
<1>8. parse_khz(rate) = rate
  BY <1>5, <1>6, <1>7, SMT DEF parse_khz
<1> QED
  BY <1>4, <1>8

\* A typed rate of whole kHz arrives as it was typed.
THEOREM WholeKhzSurvives ==
  ASSUME NEW rate \in MinRate .. MaxRate, rate % 1000 = 0
  PROVE  ThroughText(parse_khz(rate)) = rate
<1>1. rate \in Nat /\ 1000 <= rate /\ rate < 512000
  BY RateRange
<1> DEFINE n == rate \div 1000
<1>2. n \in Nat /\ 1 <= n /\ n < 1024 /\ rate = 1000 * n
  <2>1. \A r \in Nat : r % 1000 = 0 /\ 1000 <= r /\ r < 512000 =>
          LET m == r \div 1000 IN m \in Nat /\ 1 <= m /\ m < 1024 /\ r = 1000 * m
    BY SMT
  <2> QED
    BY <1>1, <2>1
<1> HIDE DEF n
<1> QED
  BY <1>2, WholeKhzExact DEF ThroughText
=============================================================================

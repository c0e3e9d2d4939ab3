----------------------------- MODULE M2kADCProofs -----------------------------
(***************************************************************************)
(* Proofs that the channels of the analog input device keep their phase     *)
(* and that both answer with the same stretch of time, for every buffer,   *)
(* rate and read length and every interleaving of the two reader threads.  *)
(***************************************************************************)
EXTENDS M2kADC, SequenceTheorems, WellFoundedInduction, TLAPS

\* Samples a channel's thread has taken in the READBUF under way.
Taken(ch) == len * Ratio(cal) - size[ch]

Types ==
    /\ attrs \in Documents /\ cal \in {loadCalibValues(a) : a \in Documents}
    /\ m_samples \in [Channels -> Buffers] /\ m_current_index \in [Channels -> Nat]
    /\ size \in [Channels -> Nat] /\ len \in Nat
    /\ pc \in {"idle", "reading", "answered"}
    /\ hClock \in Nat /\ hSince \in [Channels -> Nat]

\* The inductive invariant: in the middle of a READBUF too, each DAC stands where
\* the clock and the samples its own thread has taken put it; between two there
\* is nothing left to take.
NothingToTake == pc \in {"idle", "answered"} => \A ch \in Channels : size[ch] = 0
NothingAsked == pc = "idle" => len = 0
InTime ==
    \A ch \in Channels : /\ hSince[ch] <= hClock /\ size[ch] <= len * Ratio(cal)
                         /\ m_current_index[ch] < Len(m_samples[ch])
Phase ==
    \A ch \in Channels :
        m_current_index[ch] = (hClock - hSince[ch] + Taken(ch)) % Len(m_samples[ch])

IInv == Types /\ NothingToTake /\ NothingAsked /\ InTime /\ Phase

-----------------------------------------------------------------------------
(* Quotients and remainders. *)

\* The quotient of two naturals is a natural.
LEMMA DivNat ==
    ASSUME NEW a \in Nat, NEW b \in Nat, b > 0
    PROVE  a \div b \in Nat
  <1>1. a \div b \in Int
    OBVIOUS
  <1>2. a \div b >= 0
    OBVIOUS
  <1> QED BY <1>1, <1>2

\* The remainder is below the divisor, and the rest of the number a multiple.
LEMMA DivMod ==
    ASSUME NEW a \in Nat, NEW n \in Nat, n > 0
    PROVE  /\ a % n \in Nat /\ a % n < n
           /\ a = n * (a \div n) + (a % n)
  <1>1. a % n \in Nat /\ a % n < n
    OBVIOUS
  <1>2. a = n * (a \div n) + (a % n)
    OBVIOUS
  <1> QED BY <1>1, <1>2

\* A multiple of n between -n and n is 0.
LEMMA SmallMultiple ==
    ASSUME NEW n \in Nat, n > 0, NEW k \in Int, n * k < n, -n < n * k
    PROVE  k = 0
  <1>1. ASSUME k >= 1 PROVE FALSE
    <2>1. PICK j \in Nat : k = j + 1
      BY <1>1
    <2>2. n * k = n * j + n /\ n * j \in Nat
      BY <2>1
    <2> QED BY <2>2
  <1>2. ASSUME k <= -1 PROVE FALSE
    <2>1. PICK j \in Nat : k = -j - 1
      BY <1>2
    <2>2. n * k = -(n * j) - n /\ n * j \in Nat
      BY <2>1
    <2> QED BY <2>2
  <1> QED BY <1>1, <1>2

\* A number has one remainder.
LEMMA ModUnique ==
    ASSUME NEW n \in Nat, n > 0, NEW p \in Int, NEW q \in Int,
           NEW r \in Nat, NEW s \in Nat, r < n, s < n, n * p + r = n * q + s
    PROVE  r = s
  <1> DEFINE k == p - q
  <1>1. n * k = s - r
    BY n * (p - q) = n * p - n * q
  <1>2. k \in Int /\ n * k < n /\ -n < n * k
    BY <1>1
  <1> HIDE DEF k
  <1>3. k = 0
    BY <1>2, SmallMultiple
  <1> QED BY <1>1, <1>3

\* To go on from a remainder is to go on from the number.
LEMMA ModAdd ==
    ASSUME NEW n \in Nat, n > 0, NEW a \in Nat, NEW r \in Nat
    PROVE  ((a % n) + r) % n = (a + r) % n
  <1> DEFINE x == (a % n) + r
             u == a \div n
             v == x \div n
             w == (a + r) \div n
  <1>1. /\ a % n \in Nat /\ a = n * u + (a % n) /\ u \in Nat
    BY DivMod, DivNat
  <1>2. x \in Nat /\ a + r \in Nat
    BY <1>1
  <1>3. /\ x % n \in Nat /\ x % n < n /\ x = n * v + (x % n) /\ v \in Nat
    <2> HIDE DEF x
    <2> QED BY <1>2, DivMod, DivNat
  <1>4. /\ (a + r) % n \in Nat /\ (a + r) % n < n
        /\ a + r = n * w + ((a + r) % n) /\ w \in Nat
    BY <1>2, DivMod, DivNat
  <1> HIDE DEF u, v, w
  <1>5. a + r = n * (u + v) + (x % n)
    <2>1. ASSUME NEW i \in Nat, NEW j \in Nat
          PROVE  n * (i + j) = n * i + n * j /\ n * i \in Nat /\ n * j \in Nat
      OBVIOUS
    <2>2. n * (u + v) = n * u + n * v /\ n * u \in Nat /\ n * v \in Nat
      BY <1>1, <1>3, <2>1
    <2>3. a + r = n * u + x
      <3>1. ASSUME NEW i \in Nat, NEW m \in Nat, a = i + m
            PROVE  a + r = i + (m + r)
        BY <3>1
      <3> QED BY <1>1, <2>2, <3>1
    <2> HIDE DEF x
    <2>4. ASSUME NEW i \in Nat, NEW j \in Nat, NEW m \in Nat, x = j + m
          PROVE  i + x = (i + j) + m
      BY <2>4
    <2> QED BY <1>3, <2>2, <2>3, <2>4
  <1> HIDE DEF x
  <1>6. u + v \in Int /\ w \in Int
    BY <1>1, <1>3, <1>4
  <1>7. n * (u + v) + (x % n) = n * w + ((a + r) % n)
    BY <1>4, <1>5
  <1>8. x % n = (a + r) % n
    BY <1>3, <1>4, <1>6, <1>7, ModUnique
  <1> QED BY <1>8 DEF x

-----------------------------------------------------------------------------
(* Sums.  An induction is over a set of naturals: its base and its step make   *)
(* the set all of them.                                                        *)

\* A set of naturals that is not empty has a least one.
LEMMA Least ==
    ASSUME NEW T \in SUBSET Nat, T # {}
    PROVE  \E x \in T : \A y \in T : x <= y
  <1> DEFINE R == OpToRel(<, Nat)
  <1>1. IsWellFoundedOn(R, Nat)
    BY NatLessThanWellFounded
  <1>2. \A x, y \in Nat : <<y, x>> \in R <=> y < x
    BY DEF OpToRel
  <1> HIDE DEF R
  <1>3. PICK x \in T : \A y \in T : ~(<<y, x>> \in R)
    BY <1>1, WFMin
  <1>4. ASSUME NEW y \in T PROVE x <= y
    <2>1. x \in Nat /\ y \in Nat /\ ~(<<y, x>> \in R)
      BY <1>3
    <2>2. ~(y < x)
      BY <1>2, <2>1
    <2> QED BY <2>1, <2>2
  <1> QED BY <1>4

\* Induction over the naturals, with a set for the property.
LEMMA SetInduction ==
    ASSUME NEW S, 0 \in S, \A n \in Nat : n \in S => n + 1 \in S
    PROVE  Nat \subseteq S
  <1> DEFINE T == Nat \ S
  <1> SUFFICES ASSUME T # {} PROVE FALSE
    OBVIOUS
  <1>1. PICK x \in T : \A y \in T : x <= y
    BY Least
  <1>2. x # 0 /\ x - 1 \in Nat
    BY <1>1
  <1>3. x - 1 \in S
    BY <1>1, <1>2
  <1> QED BY <1>1, <1>2, <1>3

\* The partial sums of a sequence, up to the m-th.
PartialSums(g, s, m) == g = [n \in 0..m |-> IF n = 0 THEN 0 ELSE g[n - 1] + s[n]]

\* std::accumulate has a value: the last partial sum.
LEMMA SumsExist ==
    ASSUME NEW s \in Seq(Int)
    PROVE  \E g : PartialSums(g, s, Len(s)) /\ Sum(s) = g[Len(s)]
  <1> DEFINE S == {m \in Nat : \E g : PartialSums(g, s, m)}
  <1>1. 0 \in S
    <2> DEFINE g == [n \in 0..0 |-> 0]
    <2>1. PartialSums(g, s, 0)
      BY DEF PartialSums
    <2> QED BY <2>1
  <1>2. ASSUME NEW m \in Nat, m \in S PROVE m + 1 \in S
    <2>1. PICK g : g = [n \in 0..m |-> IF n = 0 THEN 0 ELSE g[n - 1] + s[n]]
      BY <1>2 DEF PartialSums
    <2> DEFINE h == [n \in 0..(m + 1) |-> IF n = m + 1 THEN g[m] + s[n] ELSE g[n]]
    <2>2. \A n \in 0..(m + 1) : h[n] = IF n = 0 THEN 0 ELSE h[n - 1] + s[n]
      <3> SUFFICES ASSUME NEW n \in 0..(m + 1)
                   PROVE  h[n] = IF n = 0 THEN 0 ELSE h[n - 1] + s[n]
        OBVIOUS
      <3>1. CASE n \in 0..m
        <4>1. h[n] = g[n] /\ (n # 0 => n - 1 \in 0..m /\ h[n - 1] = g[n - 1])
          BY <3>1
        <4> QED BY <2>1, <3>1, <4>1
      <3>2. CASE n = m + 1
        <4>1. n # 0 /\ n - 1 = m /\ h[m] = g[m] /\ h[n] = g[m] + s[n]
          BY <3>2
        <4> QED BY <4>1
      <3> QED BY <3>1, <3>2
    <2>3. h = [n \in 0..(m + 1) |-> h[n]]
      OBVIOUS
    <2> HIDE DEF h
    <2>4. h = [n \in 0..(m + 1) |-> IF n = 0 THEN 0 ELSE h[n - 1] + s[n]]
      BY <2>2, <2>3
    <2>5. PartialSums(h, s, m + 1)
      BY <2>4 DEF PartialSums
    <2> QED BY <2>5
  <1>3. Len(s) \in S
    <2>1. Len(s) \in Nat
      OBVIOUS
    <2> HIDE DEF S
    <2> QED BY <1>1, <1>2, <2>1, SetInduction
  <1> DEFINE upTo == CHOOSE g : g = [n \in 0..Len(s) |-> IF n = 0 THEN 0 ELSE g[n - 1] + s[n]]
  <1>4. PartialSums(upTo, s, Len(s))
    BY <1>3 DEF PartialSums
  <1>5. Sum(s) = upTo[Len(s)]
    BY DEF Sum
  <1> QED BY <1>4, <1>5

\* A sum of integers is an integer.
LEMMA SumType == ASSUME NEW s \in Seq(Int) PROVE Sum(s) \in Int
  <1>1. PICK g : PartialSums(g, s, Len(s)) /\ Sum(s) = g[Len(s)]
    BY SumsExist
  <1>2. Len(s) \in Nat /\ \A n \in 1..Len(s) : s[n] \in Int
    OBVIOUS
  <1>3. \A n \in 0..Len(s) : g[n] = IF n = 0 THEN 0 ELSE g[n - 1] + s[n]
    BY <1>1, <1>2 DEF PartialSums
  <1> DEFINE S == {m \in Nat : m <= Len(s) => g[m] \in Int}
  <1>4. 0 \in S
    BY <1>2, <1>3
  <1>5. ASSUME NEW m \in Nat, m \in S PROVE m + 1 \in S
    <2> SUFFICES ASSUME m + 1 <= Len(s) PROVE g[m + 1] \in Int
      OBVIOUS
    <2>1. m + 1 \in 1..Len(s) /\ m <= Len(s) /\ (m + 1) - 1 = m /\ m + 1 # 0
      BY <1>2
    <2>2. g[m + 1] = g[m] + s[m + 1]
      BY <1>3, <2>1
    <2>3. g[m] \in Int /\ s[m + 1] \in Int
      BY <1>2, <1>5, <2>1
    <2> QED BY <2>2, <2>3
  <1>6. Len(s) \in S
    <2> HIDE DEF S
    <2> QED BY <1>2, <1>4, <1>5, SetInduction
  <1> QED BY <1>1, <1>2, <1>6

\* The sum of one number is that number.
LEMMA SumOfOne == ASSUME NEW x \in Int PROVE Sum(<<x>>) = x
  <1>1. <<x>> \in Seq(Int) /\ Len(<<x>>) = 1 /\ <<x>>[1] = x
    OBVIOUS
  <1>2. PICK g : PartialSums(g, <<x>>, 1) /\ Sum(<<x>>) = g[1]
    BY <1>1, SumsExist
  <1>3. \A n \in 0..1 : g[n] = IF n = 0 THEN 0 ELSE g[n - 1] + <<x>>[n]
    BY <1>2 DEF PartialSums
  <1>4. g[0] = 0 /\ g[1] = g[0] + x
    <2>1. g[0] = 0
      BY <1>3
    <2>2. g[1] = g[1 - 1] + <<x>>[1]
      BY <1>3
    <2> QED BY <1>1, <2>1, <2>2
  <1> QED BY <1>2, <1>4

-----------------------------------------------------------------------------
(* The inductive invariant. *)

\* The attributes that are read in give the same ratio; it is a natural number.
LEMMA RatioRead ==
    ASSUME NEW a \in Documents
    PROVE  Ratio(a) \in Nat /\ Ratio(loadCalibValues(a)) = Ratio(a)
  <1>1. a.rate \in Nat /\ a.zero_ratio \in Nat /\ a.oversampling \in Nat /\ MaxRate \in Nat
    BY ADCAssumption DEF ADCAssumption
  <1>2. MaxRate * a.oversampling \in Nat
    BY <1>1
  <1>3. Ratio(a) \in Nat
    <2>1. CASE a.rate = 0
      BY <1>1, <2>1 DEF Ratio
    <2>2. CASE a.rate > 0
      BY <1>1, <1>2, <2>2, DivNat DEF Ratio
    <2> QED BY <1>1, <2>1, <2>2
  <1>4. /\ loadCalibValues(a).rate = a.rate /\ loadCalibValues(a).oversampling = a.oversampling
        /\ loadCalibValues(a).zero_ratio = a.zero_ratio
    BY DEF loadCalibValues
  <1> QED BY <1>3, <1>4 DEF Ratio

\* So do those the READBUF under way uses.
LEMMA RatioType == ASSUME Types PROVE Ratio(cal) \in Nat
  BY RatioRead DEF Types

\* A buffer has samples.
LEMMA BufferLength ==
    ASSUME Types, NEW ch \in Channels
    PROVE  Len(m_samples[ch]) \in Nat /\ Len(m_samples[ch]) > 0
  BY ADCAssumption DEF ADCAssumption, Types

\* 0 is its own remainder.
LEMMA ModZero ==
    ASSUME NEW n \in Nat, n > 0
    PROVE  0 % n = 0
  OBVIOUS

\* Every DAC is at the start of its buffer at first.
LEMMA InitIInv == Init => IInv
  <1> SUFFICES ASSUME Init PROVE IInv
    OBVIOUS
  <1>1. Types
    BY DEF Init, Types
  <1>2. Ratio(cal) \in Nat
    BY <1>1, RatioType
  <1>3. \A ch \in Channels : Len(m_samples[ch]) \in Nat /\ Len(m_samples[ch]) > 0
    BY <1>1, BufferLength
  <1>4. \A ch \in Channels : Taken(ch) = 0
    BY <1>2 DEF Init, Taken
  <1>5. Phase
    BY <1>3, <1>4, ModZero DEF Init, Phase
  <1>6. InTime
    BY <1>2, <1>3 DEF Init, InTime
  <1> QED BY <1>1, <1>5, <1>6 DEF Init, IInv, NothingToTake, NothingAsked

\* A new buffer is played from its start and from now on.
LEMMA AcceptBuffer_IInv ==
    ASSUME IInv, NEW ch \in Channels, NEW b \in Buffers, AcceptBuffer(ch, b)
    PROVE  IInv'
  <1> USE DEF IInv
  <1>1. /\ pc = "idle" /\ m_samples' = [m_samples EXCEPT ![ch] = b]
        /\ m_current_index' = [m_current_index EXCEPT ![ch] = 0]
        /\ hSince' = [hSince EXCEPT ![ch] = hClock]
        /\ UNCHANGED <<attrs, cal, size, len, pc, hClock>>
    BY DEF AcceptBuffer, reading
  <1>2. Types'
    BY <1>1 DEF Types
  <1>3. Ratio(cal) \in Nat /\ len = 0 /\ \A k \in Channels : size[k] = 0
    BY <1>1, RatioType DEF NothingAsked, NothingToTake
  <1>4. \A k \in Channels : Taken(k) = 0 /\ Taken(k)' = 0
    BY <1>1, <1>3 DEF Taken
  <1>5. Len(b) \in Nat /\ Len(b) > 0
    BY ADCAssumption DEF ADCAssumption
  <1>6. Phase'
    <2> SUFFICES ASSUME NEW k \in Channels
                 PROVE  m_current_index'[k] = (hClock - hSince'[k] + 0) % Len(m_samples'[k])
      BY <1>1, <1>4 DEF Phase
    <2>1. CASE k = ch
      <3>1. m_current_index'[k] = 0 /\ hClock - hSince'[k] + 0 = 0 /\ m_samples'[k] = b
        BY <1>1, <2>1 DEF Types
      <3> QED BY <1>5, <3>1, ModZero
    <2>2. CASE k # ch
      <3>1. UNCHANGED <<m_current_index[k], hSince[k], m_samples[k]>>
        BY <1>1, <2>2 DEF Types
      <3> QED BY <1>4, <3>1 DEF Phase
    <2> QED BY <2>1, <2>2
  <1>7. InTime'
    BY <1>1, <1>3, <1>5 DEF InTime, Types
  <1> QED BY <1>1, <1>2, <1>6, <1>7 DEF NothingToTake, NothingAsked

\* read_dev asks both threads for the same stretch.
LEMMA read_dev_IInv ==
    ASSUME IInv, NEW n \in 0..MaxLen, read_dev(n) PROVE IInv'
  <1> USE DEF IInv
  <1>1. /\ pc = "idle" /\ pc' = "reading" /\ cal' = loadCalibValues(attrs) /\ len' = n
        /\ size' = [ch \in Channels |-> n * Ratio(attrs)]
        /\ UNCHANGED <<attrs, m_samples, m_current_index, hClock, hSince>>
    BY DEF read_dev, dac
  <1>2. n \in Nat /\ Ratio(attrs) \in Nat /\ Ratio(cal') = Ratio(attrs) /\ Ratio(cal)' = Ratio(cal')
    BY <1>1, ADCAssumption, RatioRead DEF ADCAssumption, Types, Ratio
  <1>3. n * Ratio(attrs) \in Nat
    BY <1>2
  <1>4. Types'
    BY <1>1, <1>2, <1>3 DEF Types
  <1>5. \A ch \in Channels : Taken(ch) = 0 /\ Taken(ch)' = 0
    <2>1. Ratio(cal) \in Nat /\ len = 0
      BY <1>1, RatioType DEF NothingAsked
    <2> QED BY <1>1, <1>2, <1>3, <2>1 DEF Taken, NothingToTake
  <1>6. Phase'
    BY <1>1, <1>5 DEF Phase
  <1>7. InTime'
    BY <1>1, <1>2, <1>3 DEF InTime
  <1> QED BY <1>1, <1>4, <1>6, <1>7 DEF NothingToTake, NothingAsked

\* A run of one thread moves the DAC of its channel by what it takes.
LEMMA CopyRun_IInv ==
    ASSUME IInv, NEW ch \in Channels, CopyRun(ch) PROVE IInv'
  <1> USE DEF IInv
  <1> DEFINE run == remaining_samples(ch)
             n == Len(m_samples[ch])
  <1>1. /\ pc = "reading" /\ size[ch] > 0
        /\ size' = [size EXCEPT ![ch] = size[ch] - run]
        /\ m_current_index' = [m_current_index EXCEPT ![ch] = (m_current_index[ch] + run) % n]
        /\ UNCHANGED <<attrs, m_samples, cal, len, pc, hClock, hSince>>
    BY DEF CopyRun, Source
  <1>2. n \in Nat /\ n > 0 /\ m_current_index[ch] \in Nat /\ m_current_index[ch] < n
    BY BufferLength DEF InTime, Types
  <1>3. size[ch] \in Nat /\ run \in Nat /\ run <= size[ch]
    BY <1>2 DEF remaining_samples, Source, Types
  <1> HIDE DEF run
  <1>4. /\ hClock - hSince[ch] \in Nat /\ Ratio(cal) \in Nat
        /\ len * Ratio(cal) \in Nat /\ Taken(ch) \in Nat
    <2>1. Ratio(cal) \in Nat /\ len \in Nat /\ hClock \in Nat /\ hSince[ch] \in Nat
      BY RatioType DEF Types
    <2>2. len * Ratio(cal) \in Nat
      BY <2>1
    <2> QED BY <1>3, <2>1, <2>2 DEF InTime, Taken
  <1>5. (m_current_index[ch] + run) % n = (hClock - hSince[ch] + (Taken(ch) + run)) % n
    <2> DEFINE a == hClock - hSince[ch] + Taken(ch)
    <2>1. a \in Nat /\ m_current_index[ch] = a % n
      BY <1>4 DEF Phase
    <2>2. ((a % n) + run) % n = (a + run) % n
      <3> HIDE DEF a, n
      <3> QED BY <1>2, <1>3, <2>1, ModAdd
    <2>3. a + run = hClock - hSince[ch] + (Taken(ch) + run)
      BY <1>3, <1>4
    <2> QED BY <2>1, <2>2, <2>3
  <1>6. Taken(ch)' = Taken(ch) + run
    <2>1. size'[ch] = size[ch] - run /\ (len * Ratio(cal))' = len * Ratio(cal)
      BY <1>1 DEF Ratio, Types
    <2> QED BY <1>3, <1>4, <2>1 DEF Taken
  <1>7. ASSUME NEW k \in Channels, k # ch
        PROVE  UNCHANGED <<size[k], m_current_index[k], Taken(k)>>
    BY <1>1, <1>7 DEF Types, Taken, Ratio
  <1>8. Phase'
    <2> SUFFICES ASSUME NEW k \in Channels
                 PROVE  m_current_index'[k] = (hClock - hSince[k] + Taken(k)') % Len(m_samples[k])
      BY <1>1 DEF Phase
    <2>1. CASE k = ch
      BY <1>1, <1>5, <1>6, <2>1 DEF Types
    <2>2. CASE k # ch
      BY <1>7, <2>2 DEF Phase
    <2> QED BY <2>1, <2>2
  <1>9. (m_current_index[ch] + run) % n \in Nat /\ (m_current_index[ch] + run) % n < n
    BY <1>2, <1>3, DivMod
  <1>10. Types'
    BY <1>1, <1>3, <1>9 DEF Types
  <1>11. InTime'
    <2> SUFFICES ASSUME NEW k \in Channels
                 PROVE  /\ hSince[k] <= hClock /\ size'[k] <= len * Ratio(cal)
                        /\ m_current_index'[k] < Len(m_samples[k])
      BY <1>1 DEF InTime, Ratio
    <2>1. CASE k = ch
      <3>1. size'[ch] = size[ch] - run /\ m_current_index'[ch] = (m_current_index[ch] + run) % n
        BY <1>1 DEF Types
      <3> QED BY <1>3, <1>4, <1>9, <2>1, <3>1 DEF InTime
    <2>2. CASE k # ch
      BY <1>7, <2>2 DEF InTime
    <2> QED BY <2>1, <2>2
  <1> QED BY <1>1, <1>8, <1>10, <1>11 DEF NothingToTake, NothingAsked

\* When the answer is sent both DACs have played what was asked for, and the
\* clock moves on by it.
LEMMA Sent_IInv == ASSUME IInv, Sent PROVE IInv'
  <1> USE DEF IInv
  <1>1. /\ pc = "answered" /\ pc' = "idle" /\ cal' = loadCalibValues(attrs) /\ len' = 0
        /\ hClock' = hClock + len * Ratio(cal)
        /\ UNCHANGED <<attrs, m_samples, m_current_index, size, hSince>>
    BY DEF Sent, dac
  <1>2. Ratio(cal) \in Nat /\ len \in Nat /\ len * Ratio(cal) \in Nat
    <2>1. Ratio(cal) \in Nat /\ len \in Nat
      BY RatioType DEF Types
    <2> QED BY <2>1
  <1>3. Types'
    BY <1>1, <1>2 DEF Types
  <1>4. Ratio(cal)' \in Nat
    BY <1>3, RatioType, RatioRead, <1>1 DEF Types, Ratio
  <1>5. \A ch \in Channels : size[ch] = 0
    BY <1>1 DEF NothingToTake
  <1>6. \A ch \in Channels : Taken(ch) = len * Ratio(cal) /\ Taken(ch)' = 0
    BY <1>1, <1>2, <1>4, <1>5 DEF Taken
  <1>7. Phase'
    <2> SUFFICES ASSUME NEW ch \in Channels
                 PROVE  m_current_index[ch] = (hClock' - hSince[ch] + 0) % Len(m_samples[ch])
      BY <1>1, <1>6 DEF Phase
    <2>1. hClock' - hSince[ch] + 0 = hClock - hSince[ch] + Taken(ch)
      BY <1>1, <1>2, <1>6 DEF Types
    <2> QED BY <2>1 DEF Phase
  <1>8. InTime'
    BY <1>1, <1>2, <1>4, <1>5 DEF InTime, Types
  <1> QED BY <1>1, <1>3, <1>5, <1>7, <1>8 DEF NothingToTake, NothingAsked

\* Every step preserves the inductive invariant.
LEMMA NextIInv == IInv /\ [Next]_vars => IInv'
  <1> SUFFICES ASSUME IInv, [Next]_vars PROVE IInv'
    OBVIOUS
  <1>1. ASSUME UNCHANGED <<dac, cal, size, len, hClock, hSince>>, attrs' \in Documents,
               \/ pc' = pc
               \/ pc' = "answered" /\ Joined
        PROVE  IInv'
    <2>1. Types' /\ NothingToTake'
      BY <1>1 DEF dac, Joined, IInv, Types, NothingToTake
    <2>2. NothingAsked'
      BY <1>1 DEF IInv, NothingAsked
    <2>3. (InTime /\ Phase)'
      BY <1>1 DEF dac, IInv, InTime, Phase, Taken, Ratio
    <2> QED BY <2>1, <2>2, <2>3 DEF IInv
  <1>2. ASSUME NEW a \in Documents, WriteAttr(a) PROVE IInv'
    BY <1>1, <1>2 DEF WriteAttr, reading
  <1>3. CASE StoiThrows \/ Answer \/ Dies \/ UNCHANGED vars
    BY <1>1, <1>3 DEF StoiThrows, Answer, Dies, vars, reading, IInv, Types
  <1> QED
    BY <1>2, <1>3, AcceptBuffer_IInv, read_dev_IInv, CopyRun_IInv, Sent_IInv DEF Next

\* Between two READBUFs every DAC stands where the time played since its buffer
\* was accepted puts it, however the two threads of every READBUF interleaved.
THEOREM KeepsPhase == Spec => []InPhase
  <1>1. IInv => InPhase
    <2> SUFFICES ASSUME IInv, pc = "idle", NEW ch \in Channels
                 PROVE  m_current_index[ch] = (hClock - hSince[ch]) % Len(m_samples[ch])
      BY DEF InPhase
    <2>1. Ratio(cal) \in Nat /\ len = 0 /\ size[ch] = 0
      BY RatioType DEF IInv, NothingAsked, NothingToTake
    <2>2. Taken(ch) = 0
      BY <2>1 DEF Taken
    <2>3. hClock - hSince[ch] + 0 = hClock - hSince[ch]
      BY DEF IInv, Types
    <2> QED BY <2>2, <2>3 DEF IInv, Phase
  <1> QED BY <1>1, InitIInv, NextIInv, PTL DEF Spec

-----------------------------------------------------------------------------
(* What the channels answer.  The invariant for it: a thread's vector is, at     *)
(* every step of its loop, what its DAC played since the clock, up to now; and   *)
(* the attributes the READBUF began with are still those of the document.        *)

Tape(ch) == [j \in 1..Taken(ch) |-> Played(ch, hClock - hSince[ch] + j - 1)]

OnTape == \A ch \in Channels : tmp_samples[ch] = Tape(ch)
AsWritten == pc # "idle" => cal = loadCalibValues(attrs)
NoCodes == pc # "answered" => pbuf = <<>>
OtherTypes ==
    /\ tmp_samples \in [Channels -> Seq(Int)]
    /\ pbuf \in Seq([Channels -> Int \cup {Garbage}])
    /\ alive \in BOOLEAN

TInv == /\ OtherTypes
        /\ OnTape
        /\ AsWritten
        /\ NoCodes
        /\ SameWindow

\* A DAC plays numbers.
LEMMA PlayedType ==
    ASSUME Types, NEW ch \in Channels, NEW t \in Nat
    PROVE  Played(ch, t) \in Int
  <1>1. m_samples[ch] \in Seq(Int) /\ Len(m_samples[ch]) \in Nat /\ Len(m_samples[ch]) > 0
    BY ADCAssumption, BufferLength DEF ADCAssumption, Types
  <1> DEFINE n == Len(m_samples[ch])
  <1>2. t % n \in Nat /\ t % n < n
    BY <1>1, DivMod
  <1>3. (t % n) + 1 \in 1..n
    <2>1. ASSUME NEW r \in Nat, NEW k \in Nat, r < k PROVE r + 1 \in 1..k
      BY <2>1
    <2> QED BY <1>1, <1>2, <2>1
  <1> QED BY <1>1, <1>3 DEF Played

\* What a thread has still to take, and what it has taken, are natural numbers.
LEMMA TakenType ==
    ASSUME IInv, NEW ch \in Channels
    PROVE  /\ Taken(ch) \in Nat /\ hClock - hSince[ch] \in Nat
           /\ len \in Nat /\ Ratio(cal) \in Nat /\ len * Ratio(cal) \in Nat
           /\ Taken(ch) = len * Ratio(cal) - size[ch]
  <1>1. /\ Ratio(cal) \in Nat /\ len \in Nat /\ size[ch] \in Nat
        /\ hClock \in Nat /\ hSince[ch] \in Nat
    BY RatioType DEF IInv, Types
  <1>2. len * Ratio(cal) \in Nat
    BY <1>1
  <1>3. size[ch] <= len * Ratio(cal) /\ hSince[ch] <= hClock
    BY DEF IInv, InTime
  <1>4. Taken(ch) = len * Ratio(cal) - size[ch]
    BY DEF Taken
  <1> DEFINE all == len * Ratio(cal)
  <1>5. all \in Nat /\ size[ch] <= all /\ Taken(ch) = all - size[ch]
    BY <1>2, <1>3, <1>4
  <1> HIDE DEF all
  <1>6. Taken(ch) \in Nat /\ hClock - hSince[ch] \in Nat
    BY <1>1, <1>3, <1>5
  <1> QED BY <1>1, <1>2, <1>4, <1>6

\* A natural number below n is its own remainder.
LEMMA SmallMod ==
    ASSUME NEW n \in Nat, n > 0, NEW a \in Nat, a < n
    PROVE  a % n = a
  OBVIOUS

\* What follows on the tape is what the copy loop takes next.
LEMMA NextOnTape ==
    ASSUME IInv, NEW ch \in Channels, NEW j \in Nat,
           m_current_index[ch] + j < Len(m_samples[ch])
    PROVE  Played(ch, hClock - hSince[ch] + Taken(ch) + j)
             = m_samples[ch][m_current_index[ch] + j + 1]
  <1> DEFINE n == Len(m_samples[ch])
             a == hClock - hSince[ch] + Taken(ch)
  <1>1. n \in Nat /\ n > 0
    BY BufferLength DEF IInv
  <1>2. a \in Nat
    BY TakenType
  <1>3. m_current_index[ch] = a % n /\ m_current_index[ch] \in Nat
    BY DEF IInv, Phase, Types
  <1>4. m_current_index[ch] + j < n
    OBVIOUS
  <1> HIDE DEF a, n
  <1>5. (a + j) % n = m_current_index[ch] + j
    <2>1. ((a % n) + j) % n = (a + j) % n
      BY <1>1, <1>2, ModAdd
    <2>2. m_current_index[ch] + j \in Nat
      BY <1>3
    <2>3. (m_current_index[ch] + j) % n = m_current_index[ch] + j
      BY <1>1, <1>4, <2>2, SmallMod
    <2> QED BY <1>3, <2>1, <2>3
  <1> QED BY <1>5 DEF Played, a, n

\* The m elements of a sequence after the first i, a vector t they are appended to,
\* and the first n sounds of a player.
Stretch(s, i, m) == SubSeq(s, i + 1, i + m)
Extended(t, s, i, m) == t \o Stretch(s, i, m)
Recording(player, n) == [j \in 1..n |-> player[j]]

LEMMA StretchAt ==
    ASSUME NEW s \in Seq(Int), NEW i \in Nat, NEW m \in Nat, i + m <= Len(s)
    PROVE  /\ Stretch(s, i, m) \in Seq(Int) /\ Len(Stretch(s, i, m)) = m
           /\ \A j \in 1..m : Stretch(s, i, m)[j] = s[i + j]
  <1> DEFINE u == SubSeq(s, i + 1, i + m)
  <1>1. \A k \in (i + 1)..(i + m) : s[k] \in Int
    OBVIOUS
  <1>2. /\ u \in Seq(Int)
        /\ Len(u) = IF i + 1 <= i + m THEN i + m - (i + 1) + 1 ELSE 0
        /\ \A k \in 1..(i + m - (i + 1) + 1) : u[k] = s[i + 1 + k - 1]
    BY <1>1, SubSeqProperties
  <1> HIDE DEF u
  <1>3. i + m - (i + 1) + 1 = m /\ \A k \in 1..m : i + 1 + k - 1 = i + k
    OBVIOUS
  <1>4. Len(u) = m
    BY <1>2
  <1> QED BY <1>2, <1>3, <1>4 DEF u, Stretch

\* A sequence is the function of its elements.
LEMMA AsFunction == ASSUME NEW s \in Seq(Int) PROVE s = [j \in 1..Len(s) |-> s[j]]
  OBVIOUS

\* Where the elements of a concatenation come from.
LEMMA ConcatAt ==
    ASSUME NEW t \in Seq(Int), NEW u \in Seq(Int)
    PROVE  /\ t \o u \in Seq(Int) /\ Len(t \o u) = Len(t) + Len(u)
           /\ Len(t) \in Nat /\ Len(u) \in Nat
           /\ \A j \in 1..(Len(t) + Len(u)) :
                 (t \o u)[j] = IF j <= Len(t) THEN t[j] ELSE u[j - Len(t)]
  BY ConcatProperties

\* After n sounds the player goes on with the m elements of s after the first i.
Plays(player, n, s, i, m) == \A j \in 1..m : s[i + j] = player[n + j]

\* A vector with the first n sounds of a player, and the next m appended.
LEMMA TapeGrows ==
    ASSUME NEW s \in Seq(Int), NEW i \in Nat, NEW m \in Nat, i + m <= Len(s),
           NEW player, NEW n \in Nat, Recording(player, n) \in Seq(Int),
           Plays(player, n, s, i, m)
    PROVE  /\ Extended(Recording(player, n), s, i, m) \in Seq(Int)
           /\ Extended(Recording(player, n), s, i, m) = Recording(player, n + m)
  <1> DEFINE t == Recording(player, n)
             u == Stretch(s, i, m)
  <1>1. u \in Seq(Int) /\ Len(u) = m /\ \A j \in 1..m : u[j] = player[n + j]
    BY StretchAt DEF Plays
  <1>2. t \in Seq(Int) /\ Len(t) = n /\ \A j \in 1..n : t[j] = player[j]
    BY DEF Recording
  <1> HIDE DEF t, u
  <1>3. /\ t \o u \in Seq(Int) /\ Len(t \o u) = n + m
        /\ \A j \in 1..(n + m) : (t \o u)[j] = IF j <= n THEN t[j] ELSE u[j - n]
    <2>1. /\ t \o u \in Seq(Int) /\ Len(t \o u) = Len(t) + Len(u)
          /\ \A j \in 1..(Len(t) + Len(u)) :
                (t \o u)[j] = IF j <= Len(t) THEN t[j] ELSE u[j - Len(t)]
      BY <1>1, <1>2, ConcatAt
    <2> QED BY <1>1, <1>2, <2>1
  <1>4. ASSUME NEW j \in 1..(n + m), ~(j <= n) PROVE u[j - n] = player[j]
    <2>1. j - n \in 1..m /\ n + (j - n) = j
      BY <1>4
    <2> QED BY <1>1, <2>1
  <1>5. ASSUME NEW j \in 1..(n + m) PROVE (t \o u)[j] = player[j]
    <2>1. CASE j <= n
      <3>1. j \in 1..n
        BY <2>1
      <3> QED BY <1>2, <1>3, <2>1, <3>1
    <2>2. CASE ~(j <= n)
      BY <1>3, <1>4, <2>2
    <2> QED BY <2>1, <2>2
  <1>6. t \o u = Recording(player, n + m)
    <2>1. t \o u = [j \in 1..(n + m) |-> (t \o u)[j]]
      BY <1>3, AsFunction
    <2> QED BY <1>5, <2>1 DEF Recording
  <1> QED BY <1>3, <1>6 DEF t, u, Extended

\* Nothing is on the tape, and no code answered, at first.
LEMMA InitTInv == Init => TInv
  <1> SUFFICES ASSUME Init PROVE TInv
    OBVIOUS
  <1>1. IInv
    BY InitIInv
  <1>2. ASSUME NEW ch \in Channels PROVE Taken(ch) = 0 /\ tmp_samples[ch] = <<>>
    <2>1. len = 0 /\ size[ch] = 0 /\ Ratio(cal) \in Nat /\ tmp_samples[ch] = <<>>
      BY <1>1, TakenType DEF Init
    <2> QED BY <2>1 DEF Taken
  <1>3. ASSUME NEW ch \in Channels PROVE tmp_samples[ch] = Tape(ch)
    <2>1. Tape(ch) = [j \in 1..0 |-> Played(ch, hClock - hSince[ch] + j - 1)]
      BY <1>2 DEF Tape
    <2>2. Tape(ch) = <<>>
      BY <2>1
    <2> QED BY <1>2, <2>2
  <1>4. OtherTypes
    BY DEF Init, OtherTypes
  <1> QED BY <1>3, <1>4 DEF Init, TInv, OnTape, AsWritten, NoCodes, SameWindow

\* A run of the copy loop goes on where the tape ends.
LEMMA CopyRun_TInv ==
    ASSUME IInv, TInv, NEW ch \in Channels, CopyRun(ch)
    PROVE  TInv'
  <1> USE DEF TInv
  <1> DEFINE run == remaining_samples(ch)
             n == Len(m_samples[ch])
             from == hClock - hSince[ch]
             new == Stretch(m_samples[ch], m_current_index[ch], run)
  <1>1. /\ pc = "reading" /\ size[ch] > 0
        /\ size' = [size EXCEPT ![ch] = size[ch] - run]
        /\ tmp_samples' = [tmp_samples EXCEPT ![ch] = tmp_samples[ch] \o new]
        /\ UNCHANGED <<attrs, m_samples, cal, len, pbuf, pc, alive, hClock, hSince>>
    BY DEF CopyRun, Source, Stretch
  <1>2. /\ n \in Nat /\ n > 0 /\ m_current_index[ch] \in Nat /\ m_current_index[ch] < n
        /\ m_samples[ch] \in Seq(Int) /\ size[ch] \in Nat
    BY BufferLength, ADCAssumption DEF ADCAssumption, IInv, InTime, Types
  <1>3. run \in Nat /\ run <= size[ch] /\ m_current_index[ch] + run <= n
    BY <1>2 DEF remaining_samples, Source
  <1>4. /\ from \in Nat /\ Taken(ch) \in Nat /\ len * Ratio(cal) \in Nat
        /\ Taken(ch) = len * Ratio(cal) - size[ch]
    BY TakenType
  <1>5. Taken(ch)' = Taken(ch) + run
    <2>1. size'[ch] = size[ch] - run /\ (len * Ratio(cal))' = len * Ratio(cal)
      BY <1>1 DEF Ratio, IInv, Types
    <2> HIDE DEF run
    <2> QED BY <1>2, <1>3, <1>4, <2>1 DEF Taken
  <1> DEFINE c == m_current_index[ch]
             player == [j \in Nat |-> Played(ch, from + j - 1)]
  <1>6. \A j \in 1..run : m_samples[ch][c + j] = player[Taken(ch) + j]
    <2> HIDE DEF run
    <2> TAKE j \in 1..run
    <2>1. j - 1 \in Nat /\ c + (j - 1) < n /\ c + (j - 1) + 1 = c + j
      BY <1>2, <1>3
    <2>2. from + Taken(ch) + (j - 1) = from + (Taken(ch) + j) - 1 /\ Taken(ch) + j \in Nat
      BY <1>4
    <2>3. Played(ch, from + Taken(ch) + (j - 1)) = m_samples[ch][c + j]
      BY <2>1, NextOnTape
    <2> HIDE DEF c, from
    <2> QED BY <2>2, <2>3
  <1>7. tmp_samples'[ch] = tmp_samples[ch] \o new
    BY <1>1 DEF OtherTypes
  <1>8. /\ tmp_samples[ch] \in Seq(Int)
        /\ tmp_samples[ch] = Recording(player, Taken(ch))
    BY <1>4 DEF OtherTypes, OnTape, Tape, Recording
  <1>9. /\ tmp_samples'[ch] \in Seq(Int)
        /\ tmp_samples'[ch] = Recording(player, Taken(ch) + run)
    <2>1. m_samples[ch] \in Seq(Int) /\ c \in Nat /\ run \in Nat /\ c + run <= Len(m_samples[ch])
      BY <1>2, <1>3
    <2>2. Taken(ch) \in Nat
      BY <1>4
    <2> HIDE DEF run, player, c
    <2>3. /\ Recording(player, Taken(ch)) \in Seq(Int)
          /\ Plays(player, Taken(ch), m_samples[ch], c, run)
      BY <1>6, <1>8 DEF Plays
    <2>4. /\ Extended(Recording(player, Taken(ch)), m_samples[ch], c, run) \in Seq(Int)
          /\ Extended(Recording(player, Taken(ch)), m_samples[ch], c, run)
               = Recording(player, Taken(ch) + run)
      BY <2>1, <2>2, <2>3, TapeGrows
    <2> QED BY <1>7, <1>8, <2>4 DEF c, Extended
  <1>10. tmp_samples'[ch] = Tape(ch)'
    <2>1. Tape(ch)' = [j \in 1..(Taken(ch) + run) |-> Played(ch, from + j - 1)]
      BY <1>1, <1>5 DEF Tape, Played
    <2>2. \A j \in 1..(Taken(ch) + run) : player[j] = Played(ch, from + j - 1)
      <3> HIDE DEF run
      <3> QED BY <1>3, <1>4
    <2> HIDE DEF run, player, from
    <2> QED BY <1>9, <2>1, <2>2 DEF Recording
  <1>11. ASSUME NEW k \in Channels, k # ch PROVE tmp_samples'[k] = Tape(k)'
    <2>1. UNCHANGED <<size[k], tmp_samples[k]>>
      BY <1>1, <1>11 DEF IInv, Types, OtherTypes
    <2>2. Tape(k)' = Tape(k)
      BY <1>1, <2>1 DEF Tape, Taken, Played, Ratio
    <2> QED BY <2>1, <2>2 DEF OnTape
  <1>12. OtherTypes'
    <2> QED BY <1>1, <1>7, <1>9 DEF OtherTypes
  <1>13. OnTape'
    BY <1>10, <1>11 DEF OnTape
  <1> QED BY <1>1, <1>12, <1>13 DEF AsWritten, NoCodes, SameWindow

\* The i-th window a READBUF under way asks of a channel.
Window(ch, i) ==
    [j \in 1..Ratio(attrs) |->
        Played(ch, hClock - hSince[ch] + (i - 1) * Ratio(attrs) + j - 1)]

\* Multiplying keeps the order; the i-th group of r samples ends where the next one
\* begins.
LEMMA Groups ==
    ASSUME NEW i \in Nat, i >= 1, NEW n \in Nat, i <= n, NEW r \in Nat
    PROVE  /\ (i - 1) * r \in Nat /\ i * r = (i - 1) * r + r
           /\ (i - 1) * r + r <= n * r
  <1>1. PICK h \in Nat : i = h + 1
    BY i - 1 \in Nat
  <1>2. PICK k \in Nat : n = h + 1 + k
    <2>1. n - i \in Nat
      OBVIOUS
    <2> QED BY <1>1, <2>1
  <1>3. h * r \in Nat /\ k * r \in Nat /\ n * r = h * r + r + k * r /\ (h + 1) * r = h * r + r
    BY <1>2
  <1>4. i - 1 = h
    BY <1>1
  <1> QED BY <1>1, <1>3, <1>4

\* The average of the i-th group is that of the i-th window, and a number.
LEMMA AverageIs ==
    ASSUME IInv, TInv, pc = "reading", Joined, NEW ch \in Channels,
           Len(Decimated(ch)) >= len, NEW i \in 1..len
    PROVE  /\ Decimated(ch)[i] = Sum(Window(ch, i)) \div Ratio(attrs)
           /\ Decimated(ch)[i] \in Int
  <1> DEFINE r == Ratio(attrs)
             from == hClock - hSince[ch]
             t == tmp_samples[ch]
  <1>1. /\ Types /\ cal = loadCalibValues(attrs) /\ Ratio(cal) = r /\ r \in Nat
        /\ len \in Nat /\ len * r \in Nat /\ from \in Nat /\ Taken(ch) = len * r
    <2>1. cal = loadCalibValues(attrs) /\ size[ch] = 0 /\ Types
      BY DEF TInv, AsWritten, Joined, IInv
    <2>2. Ratio(cal) = r
      BY <2>1, RatioRead DEF Types
    <2>3. /\ Taken(ch) = len * Ratio(cal) - 0 /\ len * Ratio(cal) \in Nat
          /\ len \in Nat /\ Ratio(cal) \in Nat /\ from \in Nat
      BY <2>1, TakenType
    <2> QED BY <2>1, <2>2, <2>3
  <1>2. /\ t \in Seq(Int) /\ Len(t) = len * r
        /\ \A j \in 1..(len * r) : t[j] = Played(ch, from + j - 1)
    BY <1>1 DEF TInv, OtherTypes, OnTape, Tape
  <1>3. i \in Nat /\ i >= 1 /\ i <= len
    BY <1>1
  <1>4. /\ (i - 1) * r \in Nat /\ i * r = (i - 1) * r + r
        /\ (i - 1) * r + r <= len * r
    BY <1>1, <1>3, Groups
  <1>5. Decimated(ch) = analogical_decimation(t, r)
    BY <1>1 DEF Decimated
  <1>6. r # 0
    <2> SUFFICES ASSUME r = 0 PROVE FALSE
      OBVIOUS
    <2>1. Decimated(ch) = t
      BY <1>5 DEF analogical_decimation
    <2>2. len * r = 0
      BY <1>1
    <2> QED BY <1>1, <1>2, <1>3, <2>1, <2>2
  <1> DEFINE w == Stretch(t, (i - 1) * r, r)
             first == (i - 1) * r
  <1>7. /\ w \in Seq(Int) /\ Len(w) = r
        /\ \A j \in 1..r : w[j] = t[first + j] /\ first + j \in 1..(len * r)
    <2>1. first \in Nat /\ first + r <= Len(t) /\ r \in Nat /\ first + r <= len * r
      BY <1>1, <1>2, <1>4
    <2> HIDE DEF first, r, t
    <2>2. \A j \in 1..r : first + j \in Nat /\ first + j >= 1 /\ first + j <= first + r
      BY <2>1
    <2>3. /\ Stretch(t, first, r) \in Seq(Int) /\ Len(Stretch(t, first, r)) = r
          /\ \A j \in 1..r : Stretch(t, first, r)[j] = t[first + j]
      BY <1>2, <2>1, StretchAt
    <2>4. \A j \in 1..r : first + j \in 1..(len * r)
      <3> DEFINE all == len * r
      <3>1. all \in Nat /\ first + r <= all
        BY <1>1, <2>1
      <3> HIDE DEF all
      <3>2. \A j \in 1..r : first + j \in 1..all
        BY <2>1, <2>2, <3>1
      <3> QED BY <3>2 DEF all
    <2> QED BY <2>3, <2>4 DEF first
  <1>8. w = Window(ch, i)
    <2>1. \A j \in 1..r : w[j] = Played(ch, from + first + j - 1)
      <3> HIDE DEF w, t, r, first
      <3> TAKE j \in 1..r
      <3>1. w[j] = Played(ch, from + (first + j) - 1)
        BY <1>2, <1>7
      <3>2. from + (first + j) - 1 = from + first + j - 1
        BY <1>1, <1>4 DEF first
      <3> QED BY <3>1, <3>2
    <2> HIDE DEF w
    <2>2. w = [j \in 1..r |-> w[j]]
      BY <1>7, AsFunction
    <2> QED BY <2>1, <2>2 DEF Window
  <1>9. Decimated(ch)[i] = Sum(w) \div r
    <2>1. CASE r = 1
      <3>1. first = i - 1 /\ t[i] = Played(ch, from + i - 1) /\ len * r = len
        BY <1>1, <1>2, <1>3, <2>1
      <3>2. Decimated(ch)[i] = t[i]
        BY <1>5, <2>1 DEF analogical_decimation
      <3>3. w[1] = t[i]
        BY <1>3, <1>7, <2>1, <3>1
      <3>4. w = <<t[i]>>
        <4> HIDE DEF w, t
        <4>1. w = [j \in 1..1 |-> w[j]]
          BY <1>7, <2>1, AsFunction
        <4> QED BY <3>3, <4>1
      <3>5. t[i] \in Int
        BY <1>2, <1>3, <2>1, <3>1
      <3>6. Sum(w) = t[i]
        BY <3>4, <3>5, SumOfOne
      <3> QED BY <2>1, <3>2, <3>5, <3>6
    <2>2. CASE r # 1
      <3>1. ~(r < 2) /\ r > 0
        BY <1>1, <1>6, <2>2
      <3>2. Decimated(ch) = [k \in 1..(Len(t) \div r) |->
                               Sum(SubSeq(t, (k - 1) * r + 1, k * r)) \div r]
        BY <1>5, <3>1 DEF analogical_decimation
      <3>3. Len(t) \div r \in Nat
        BY <1>1, <1>2, <3>1, DivNat
      <3>4. Len(Decimated(ch)) = Len(t) \div r
        BY <3>2, <3>3
      <3>5. i \in 1..(Len(t) \div r)
        BY <1>1, <1>3, <3>3, <3>4
      <3>6. SubSeq(t, (i - 1) * r + 1, i * r) = w
        BY <1>4 DEF Stretch
      <3> QED BY <3>2, <3>5, <3>6
    <2> QED BY <2>1, <2>2
  <1>10. Sum(w) \div r \in Int
    <2>1. Sum(w) \in Int
      BY <1>7, SumType
    <2> QED BY <1>1, <1>6, <2>1
  <1> QED BY <1>8, <1>9, <1>10

\* While the document is what the READBUF began with, its conversion is the one the
\* document asks for, and gives a number unless that is undefined.
LEMMA Converts ==
    ASSUME Types, cal = loadCalibValues(attrs), NEW ch \in Channels, NEW v \in Int
    PROVE  convertVoltToRaw(v, ch) = Code(v, ch) /\ Code(v, ch) \in Int \cup {Garbage}
  <1> DEFINE o == ToShort(attrs.raw[ch] - attrs.calibbias[ch])
  <1>1. /\ cal.rate = attrs.rate /\ cal.range[ch] = attrs.range[ch]
        /\ cal.m_hw_offset[ch] = o
    BY DEF loadCalibValues
  <1>2. Code(v, ch) = IF /\ attrs.rate \in DOMAIN Compensation /\ attrs.range[ch] \in DOMAIN Gain
                         /\ o # Garbage
                      THEN ToShort(Truncate(v * Gain[attrs.range[ch]] + VerticalScale * o,
                                            Compensation[attrs.rate]))
                      ELSE Garbage
    BY DEF Code
  <1> HIDE DEF o
  <1>3. convertVoltToRaw(v, ch) = Code(v, ch)
    BY <1>1, <1>2 DEF convertVoltToRaw
  <1>4. \A n : ToShort(n) \in Int \cup {Garbage}
    BY ADCAssumption DEF ADCAssumption, ToShort
  <1>5. Code(v, ch) \in Int \cup {Garbage}
    BY <1>2, <1>4
  <1> QED BY <1>3, <1>5

\* The tapes depend on the DACs, on what is asked for and on the clock only.
LEMMA TapeStays ==
    ASSUME UNCHANGED <<m_samples, cal, size, tmp_samples, len, hClock, hSince>>
    PROVE  OnTape' <=> OnTape
  <1>1. ASSUME NEW ch \in Channels PROVE Tape(ch)' = Tape(ch)
    <2>1. Taken(ch)' = Taken(ch)
      BY DEF Taken, Ratio
    <2> QED BY <2>1 DEF Tape, Played
  <1>2. OnTape' <=> \A ch \in Channels : tmp_samples'[ch] = Tape(ch)'
    BY DEF OnTape
  <1> QED BY <1>1, <1>2 DEF OnTape

\* Both threads have ended: the answer is the next windows of both channels.
LEMMA Answer_TInv == ASSUME IInv, TInv, Answer PROVE TInv'
  <1>1. /\ pc = "reading" /\ Joined
        /\ \A ch \in Channels : Len(Decimated(ch)) >= len
        /\ pbuf' = [i \in 1..len |-> [ch \in Channels |-> Interleave(i, ch)]]
        /\ UNCHANGED <<attrs, m_samples, cal, size, tmp_samples, len, alive, hClock, hSince>>
    BY DEF Answer, dac, reading
  <1>2. Types /\ cal = loadCalibValues(attrs) /\ len \in Nat
    BY <1>1 DEF IInv, Types, TInv, AsWritten
  <1>3. ASSUME NEW i \in 1..len, NEW ch \in Channels
        PROVE  /\ Interleave(i, ch) = Code(Sum(Window(ch, i)) \div Ratio(attrs), ch)
               /\ Interleave(i, ch) \in Int \cup {Garbage}
    <2>1. /\ Decimated(ch)[i] = Sum(Window(ch, i)) \div Ratio(attrs)
          /\ Decimated(ch)[i] \in Int
      BY <1>1, AverageIs
    <2> QED BY <1>2, <2>1, Converts DEF Interleave
  <1>4. OtherTypes'
    <2> DEFINE codes(i) == [ch \in Channels |-> Interleave(i, ch)]
    <2>1. \A i \in 1..len : codes(i) \in [Channels -> Int \cup {Garbage}]
      BY <1>3
    <2>2. pbuf' = [i \in 1..len |-> codes(i)]
      BY <1>1
    <2> HIDE DEF codes
    <2>3. pbuf' \in Seq([Channels -> Int \cup {Garbage}])
      BY <1>2, <2>1, <2>2
    <2>4. OtherTypes
      BY DEF TInv
    <2> QED BY <1>1, <2>3, <2>4 DEF OtherTypes
  <1>5. OnTape'
    BY <1>1, TapeStays DEF TInv
  <1>6. SameWindow'
    <2> SUFFICES ASSUME NEW i \in 1..len, NEW ch \in Channels
                 PROVE  pbuf'[i][ch] = Code(Sum(Window(ch, i)) \div Ratio(attrs), ch)
      BY <1>1 DEF SameWindow, Window, Played, Code, Ratio
    <2> QED BY <1>1, <1>3
  <1> QED BY <1>1, <1>2, <1>4, <1>5, <1>6 DEF TInv, AsWritten, NoCodes, Answer

\* A thread that is to take nothing, or has taken nothing yet, has an empty tape.
LEMMA EmptyTape ==
    ASSUME NEW ch \in Channels
    PROVE  /\ Taken(ch) = 0 => Tape(ch) = <<>>
           /\ Taken(ch)' = 0 => Tape(ch)' = <<>>
  <1>1. ASSUME Taken(ch) = 0 PROVE Tape(ch) = <<>>
    <2>1. Tape(ch) = [j \in 1..0 |-> Played(ch, hClock - hSince[ch] + j - 1)]
      BY <1>1 DEF Tape
    <2> QED BY <2>1
  <1>2. ASSUME Taken(ch)' = 0 PROVE Tape(ch)' = <<>>
    <2>1. Tape(ch)' = [j \in 1..0 |-> Played(ch, hClock - hSince[ch] + j - 1)']
      BY <1>2 DEF Tape
    <2> QED BY <2>1
  <1> QED BY <1>1, <1>2

\* Between two READBUFs, and when one starts, the tapes are empty.
LEMMA Rewound ==
    ASSUME IInv, TInv, pc = "idle",
           OtherTypes', pc' = "idle" \/ cal' = loadCalibValues(attrs'),
           pc' # "answered", pbuf' = pbuf,
           tmp_samples' = [ch \in Channels |-> <<>>] \/ tmp_samples' = tmp_samples,
           \A ch \in Channels : Taken(ch)' = 0
    PROVE  TInv'
  <1>1. ASSUME NEW ch \in Channels PROVE tmp_samples'[ch] = Tape(ch)'
    <2>1. len = 0 /\ size[ch] = 0 /\ Ratio(cal) \in Nat
      BY TakenType DEF IInv, NothingAsked, NothingToTake
    <2>2. Taken(ch) = 0
      BY <2>1 DEF Taken
    <2>3. tmp_samples'[ch] = <<>>
      BY <2>2, EmptyTape DEF TInv, OnTape
    <2> QED BY <2>3, EmptyTape
  <1>2. pbuf' = <<>>
    BY DEF TInv, NoCodes
  <1> QED BY <1>1, <1>2 DEF TInv, OnTape, AsWritten, NoCodes, SameWindow

\* Every step preserves what is on the tapes and in the answer.
LEMMA NextTInv == IInv /\ TInv /\ [Next]_vars => TInv'
  <1> SUFFICES ASSUME IInv, TInv, [Next]_vars PROVE TInv'
    OBVIOUS
  <1>0. ASSUME pc = "idle" PROVE \A ch \in Channels : Taken(ch) = 0
    <2>1. \A ch \in Channels : len = 0 /\ size[ch] = 0 /\ Ratio(cal) \in Nat
      BY <1>0, TakenType DEF IInv, NothingAsked, NothingToTake
    <2> QED BY <2>1 DEF Taken
  <1>1. ASSUME NEW a \in Documents, WriteAttr(a) PROVE TInv'
    <2>1. /\ pc = "idle" /\ UNCHANGED <<pc, pbuf, tmp_samples, alive, cal, len, size>>
      BY <1>1 DEF WriteAttr, reading
    <2>2. \A ch \in Channels : Taken(ch)' = Taken(ch)
      BY <2>1 DEF Taken, Ratio
    <2>3. OtherTypes'
      BY <2>1 DEF TInv, OtherTypes
    <2> QED BY <1>0, <2>1, <2>2, <2>3, Rewound
  <1>2. ASSUME NEW ch \in Channels, NEW b \in Buffers, AcceptBuffer(ch, b) PROVE TInv'
    <2>1. /\ pc = "idle" /\ UNCHANGED <<pc, pbuf, tmp_samples, alive, cal, len, size>>
      BY <1>2 DEF AcceptBuffer, reading
    <2>2. \A k \in Channels : Taken(k)' = Taken(k)
      BY <2>1 DEF Taken, Ratio
    <2>3. OtherTypes'
      BY <2>1 DEF TInv, OtherTypes
    <2> QED BY <1>0, <2>1, <2>2, <2>3, Rewound
  <1>3. ASSUME NEW n \in 0..MaxLen, read_dev(n) PROVE TInv'
    <2>1. /\ pc = "idle" /\ pc' = "reading" /\ cal' = loadCalibValues(attrs) /\ len' = n
          /\ size' = [ch \in Channels |-> n * Ratio(attrs)]
          /\ tmp_samples' = [ch \in Channels |-> <<>>]
          /\ UNCHANGED <<attrs, pbuf, alive>>
      BY <1>3 DEF read_dev
    <2>2. n \in Nat /\ Ratio(attrs) \in Nat /\ Ratio(cal)' = Ratio(attrs)
      BY <2>1, ADCAssumption, RatioRead DEF ADCAssumption, IInv, Types, Ratio
    <2>3. \A ch \in Channels : Taken(ch)' = 0
      <3>1. n * Ratio(attrs) \in Nat
        BY <2>2
      <3> DEFINE all == n * Ratio(attrs)
      <3>2. all \in Nat /\ \A ch \in Channels : Taken(ch)' = all - all
        BY <2>1, <2>2, <3>1 DEF Taken
      <3> HIDE DEF all
      <3> QED BY <3>2
    <2>4. OtherTypes'
      BY <2>1 DEF TInv, OtherTypes
    <2> QED BY <2>1, <2>3, <2>4, Rewound
  <1>4. CASE Sent
    <2>1. /\ pc = "answered" /\ pc' = "idle" /\ pbuf' = <<>> /\ len' = 0
          /\ cal' = loadCalibValues(attrs) /\ tmp_samples' = [ch \in Channels |-> <<>>]
          /\ UNCHANGED <<attrs, size, alive>>
      BY <1>4 DEF Sent
    <2>2. \A ch \in Channels : Taken(ch)' = 0
      <3>1. \A ch \in Channels : size[ch] = 0
        BY <2>1 DEF IInv, NothingToTake
      <3>2. Ratio(cal)' \in Nat
        BY <2>1, RatioRead DEF IInv, Types, Ratio
      <3> QED BY <2>1, <3>1, <3>2 DEF Taken
    <2>3. OtherTypes'
      BY <2>1 DEF TInv, OtherTypes
    <2>4. OnTape'
      BY <2>1, <2>2, EmptyTape DEF OnTape
    <2> QED BY <2>1, <2>3, <2>4 DEF TInv, AsWritten, NoCodes, SameWindow
  <1>5. ASSUME StoiThrows \/ Dies \/ UNCHANGED vars PROVE TInv'
    <2>1. /\ UNCHANGED <<attrs, m_samples, reading, pbuf, pc, hClock, hSince>>
          /\ alive' = FALSE \/ alive' = alive
      BY <1>5 DEF StoiThrows, Dies, vars, dac
    <2>2. OtherTypes' /\ OnTape'
      <3>1. UNCHANGED <<cal, size, tmp_samples, len>>
        BY <2>1 DEF reading
      <3>2. OtherTypes /\ OnTape
        BY DEF TInv
      <3>3. OtherTypes'
        BY <2>1, <3>1, <3>2 DEF OtherTypes
      <3> QED BY <2>1, <3>1, <3>2, <3>3, TapeStays
    <2>3. AsWritten' /\ NoCodes'
      BY <2>1 DEF reading, TInv, AsWritten, NoCodes
    <2>4. SameWindow'
      <3>1. UNCHANGED <<attrs, m_samples, len, pbuf, pc, hClock, hSince>>
        BY <2>1 DEF reading
      <3>2. SameWindow
        BY DEF TInv
      <3> QED BY <3>1, <3>2 DEF SameWindow, Played, Code, Ratio
    <2> QED BY <2>2, <2>3, <2>4 DEF TInv
  <1> QED
    BY <1>1, <1>2, <1>3, <1>4, <1>5, CopyRun_TInv, Answer_TInv DEF Next

LEMMA AlwaysTInv == Spec => [](IInv /\ TInv)
  BY InitIInv, NextIInv, InitTInv, NextTInv, PTL DEF Spec

\* The samples, codes and positions are numbers, unless a conversion is undefined.
THEOREM TypeCorrect == Spec => []TypeOK
  <1>1. IInv /\ TInv => TypeOK
    BY DEF IInv, Types, TInv, OtherTypes, TypeOK
  <1> QED BY <1>1, AlwaysTInv, PTL

\* However the two threads interleave, both channels answer with the same windows
\* of time, each of its own buffer and converted with its own attributes.
THEOREM ReadsSameWindow == Spec => []SameWindow
  <1>1. TInv => SameWindow
    BY DEF TInv
  <1> QED BY <1>1, AlwaysTInv, PTL
=============================================================================

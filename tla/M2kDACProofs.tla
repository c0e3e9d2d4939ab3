---------------------------- MODULE M2kDACProofs ----------------------------
(***************************************************************************)
(* Proofs about the analog output device, for every sample rate, buffer    *)
(* length and read length.                                                 *)
(***************************************************************************)
EXTENDS M2kDAC, SequenceTheorems, TLAPS

\* The inductive invariant behind the three properties above.  A buffer that is
\* being written by a WRITEBUF that follows no cut-off one holds what that
\* WRITEBUF supplied; between commands such a buffer waits to be emptied by the
\* next write; and the index points into the buffer unless a CLOSE left it behind.
WrittenIsStored ==
    cmd = "writebuf" /\ m_enable /\ hClean =>
        m_samples = hWritten /\ m_current_index = 0 /\ ~m_reset_buffer
ResetPending == hClean /\ (cmd # "writebuf" \/ ~m_enable) => m_reset_buffer
NothingWritten == cmd # "writebuf" \/ ~m_enable => hWritten = <<>>
IndexInBuffer == m_current_index = 0 \/ m_current_index < Len(m_samples) \/ hClosed

IInv == /\ TypeOK
        /\ NeverDividesByZero
        /\ AcceptedBufferPlays
        /\ WrittenIsStored
        /\ ResetPending
        /\ NothingWritten
        /\ IndexInBuffer

-----------------------------------------------------------------------------
(* Quotients and remainders. *)

\* The quotient of two naturals is a natural.
LEMMA DivNat ==
    ASSUME NEW a \in Nat, NEW b \in Nat, b > 0
    PROVE  a \div b \in Nat
  <1>1. a \div b \in Int
    OBVIOUS
  <1>2. a \div b >= 0
    OBVIOUS
  <1> QED BY <1>1, <1>2

\* The remainder is below the divisor.
LEMMA ModRange ==
    ASSUME NEW a \in Nat, NEW b \in Nat, b > 0
    PROVE  a % b \in Nat /\ a % b < b
  OBVIOUS

-----------------------------------------------------------------------------
(* What resampling does to a buffer. *)

\* The resampling ratio is a natural number.
LEMMA RatioType ==
    ASSUME TypeOK
    PROVE  Ratio \in Nat
  <1>1. /\ MaxRate * oversampling_ratio \in Nat
        /\ sampling_frequency \in Nat /\ sampling_frequency > 0
    BY DACAssumption DEF DACAssumption, TypeOK
  <1> QED BY <1>1, DivNat DEF Ratio

\* Interpolation gives a sequence of volts that is not shorter.
LEMMA InterpolationGrows ==
    ASSUME NEW src \in Seq(Volts), src # <<>>, NEW ratio \in Nat, ratio >= 2
    PROVE  /\ analogical_interpolation(src, ratio) \in Seq(Volts)
           /\ Len(analogical_interpolation(src, ratio)) >= Len(src)
  <1> DEFINE n == (Len(src) - 1) * (ratio + 1) + 1
  <1>1. Len(src) \in Nat /\ Len(src) >= 1
    OBVIOUS
  <1>2. n \in Nat /\ n >= Len(src)
    <2>1. ASSUME NEW m \in Nat PROVE m * (ratio + 1) \in Nat /\ m * (ratio + 1) >= m
      OBVIOUS
    <2> QED BY <1>1, <2>1
  <1>3. ASSUME NEW k \in 1..n
        PROVE  analogical_interpolation(src, ratio)[k] \in Volts
    <2> DEFINE i == ((k - 1) \div (ratio + 1)) + 1
               j == (k - 1) % (ratio + 1)
    <2>1. i \in Nat /\ i >= 1 /\ j \in Nat
      <3>1. k - 1 \in Nat /\ ratio + 1 \in Nat /\ ratio + 1 > 0
        BY <1>2
      <3> QED BY <3>1, DivNat, ModRange
    <2>2. i < Len(src) => src[i] \in Int /\ src[i + 1] \in Int
      BY <1>1, <2>1 DEF Volts
    <2>3. src[Len(src)] \in Int
      BY <1>1 DEF Volts
    <2>4. ASSUME NEW a \in Int, NEW b \in Int, NEW c \in Nat
          PROVE  a + c * ((b - a) \div ratio) \in Int
      OBVIOUS
    <2>5. analogical_interpolation(src, ratio)[k]
            = IF i < Len(src) THEN src[i] + j * ((src[i + 1] - src[i]) \div ratio)
              ELSE src[Len(src)]
      BY DEF analogical_interpolation
    <2> HIDE DEF i, j
    <2> QED BY <2>1, <2>2, <2>3, <2>4, <2>5 DEF Volts
  <1> QED BY <1>2, <1>3 DEF analogical_interpolation
\* So does resampling, when it does not throw.
LEMMA ResampleGrows ==
    ASSUME TypeOK, NEW src \in Seq(Volts), Ratio >= 2 => src # <<>>
    PROVE  resample(src) \in Seq(Volts) /\ Len(resample(src)) >= Len(src)
  BY RatioType, InterpolationGrows DEF resample

\* In bounds, an iteration of the copy loop moves between one sample and the
\* shorter of what is left of the buffer and what is left of the read.
LEMMA RunInBounds ==
    ASSUME TypeOK, samples_count > 0, m_current_index < Len(m_samples)
    PROVE  /\ remaining_samples \in 1..samples_count
           /\ m_current_index + remaining_samples <= Len(m_samples)
  BY DEF TypeOK, remaining_samples

\* A run never exceeds what is left of the read.
LEMMA RunType ==
    ASSUME TypeOK
    PROVE  remaining_samples \in 0..samples_count
  BY DEF TypeOK, remaining_samples

-----------------------------------------------------------------------------
(* The inductive invariant. *)

\* The constructor establishes the inductive invariant.
LEMMA InitIInv == Init => IInv
  <1> SUFFICES ASSUME Init PROVE IInv
    OBVIOUS
  <1>1. <<>> \in Seq(Volts) /\ <<>> \in Seq(Volts \cup {Garbage})
    OBVIOUS
  <1>2. /\ m_reset_buffer \in BOOLEAN /\ alive \in BOOLEAN
        /\ hClean \in BOOLEAN /\ hClosed \in BOOLEAN
    BY DEF Init
  <1>3. TypeOK
    BY <1>1, <1>2 DEF Init, TypeOK
  <1> QED
    BY <1>3 DEF Init, IInv, NeverDividesByZero, AcceptedBufferPlays,
       WrittenIsStored, ResetPending, NothingWritten, IndexInBuffer

\* Every step of the device preserves the inductive invariant.
LEMMA NextIInv == IInv /\ [Next]_vars => IInv'
  <1> SUFFICES ASSUME IInv, [Next]_vars PROVE IInv'
    OBVIOUS
  <1> USE DEF IInv
  <1>1. ASSUME NEW rate \in Rates, NEW ratio \in Oversamplings, WriteAttr(rate, ratio)
        PROVE  IInv'
    BY <1>1 DEF WriteAttr, TypeOK, NeverDividesByZero, AcceptedBufferPlays,
       WrittenIsStored, ResetPending, NothingWritten, IndexInBuffer,
       buffer, config, read, history
  <1>2. ASSUME NEW mask \in {0, 1}, open_dev(mask) PROVE IInv'
    BY <1>2 DEF open_dev, TypeOK, NeverDividesByZero, AcceptedBufferPlays,
       WrittenIsStored, ResetPending, NothingWritten, IndexInBuffer,
       attrs, buffer, read, history
  <1>3. CASE close_dev
    BY <1>3 DEF close_dev, TypeOK, NeverDividesByZero, AcceptedBufferPlays,
       WrittenIsStored, ResetPending, NothingWritten, IndexInBuffer,
       attrs, config, read
  <1>4. CASE cancel_buffer
    BY <1>4 DEF cancel_buffer, TypeOK, NeverDividesByZero, AcceptedBufferPlays,
       WrittenIsStored, ResetPending, NothingWritten, IndexInBuffer,
       attrs, config, read
  <1>5. CASE write_dev_disabled
    BY <1>5 DEF write_dev_disabled, TypeOK, NeverDividesByZero,
       AcceptedBufferPlays, WrittenIsStored, ResetPending, NothingWritten,
       IndexInBuffer, attrs, buffer, config, read, history
  <1>6. ASSUME NEW raws \in Chunks, write_dev(raws) PROVE IInv'
    <2> DEFINE old   == FirstSamples
               volts == [i \in DOMAIN raws |-> convertRawToVolts(raws[i])]
    <2>1. volts \in Seq(Volts)
      <3>1. PICK n \in 0..MaxChunk : raws \in [1..n -> RawSamples]
        BY <1>6 DEF Chunks
      <3>2. ASSUME NEW i \in 1..n PROVE volts[i] \in Volts
        <4>1. raws[i] \in Int /\ Compensation[m_samplerate] \in Int /\ Scale \in Int
          <5>1. raws # <<>> /\ raws[i] \in RawSamples
            BY <3>1
          <5>2. Supported
            BY <1>6, <5>1 DEF write_dev
          <5>3. Compensation[m_samplerate] \in Int
            BY <5>2, DACAssumption DEF DACAssumption, Supported
          <5>4. RawSamples \subseteq Int /\ Scale \in Int
            BY DACAssumption DEF DACAssumption
          <5> QED BY <5>1, <5>3, <5>4
        <4>2. ASSUME NEW a \in Int, NEW b \in Int, NEW c \in Int
              PROVE  -((2 * (a \div 16) + 1) * b * c) \in Int
          OBVIOUS
        <4> QED BY <3>1, <4>1, <4>2 DEF convertRawToVolts, Volts
      <3> QED BY <3>1, <3>2, DACAssumption DEF DACAssumption
    <2>2. /\ m_samples' = old \o volts
          /\ hWritten' = hWritten \o volts
          /\ m_current_index' = FirstIndex
          /\ m_reset_buffer' = FALSE
          /\ cmd' = "writebuf"
          /\ hPattern' = <<>> /\ hPos' = 0
          /\ hClosed' = (hClosed /\ ~m_reset_buffer)
          /\ UNCHANGED <<attrs, config, read, alive, hClean>>
      BY <1>6 DEF write_dev
    <2>3. old \in Seq(Volts)
      BY DEF TypeOK, FirstSamples
    <2> HIDE DEF volts
    <2>4. TypeOK'
      <3>1. m_samples' \in Seq(Volts) /\ hWritten' \in Seq(Volts) /\ hPattern' \in Seq(Volts)
        BY <2>1, <2>2, <2>3 DEF TypeOK
      <3>2. hClosed' \in BOOLEAN /\ m_reset_buffer' \in BOOLEAN
        BY <2>2 DEF TypeOK
      <3>3. m_current_index' \in Nat
        BY <2>2 DEF TypeOK, FirstIndex
      <3> QED BY <2>2, <3>1, <3>2, <3>3 DEF TypeOK, attrs, config, read
    <2>5. NeverDividesByZero' /\ AcceptedBufferPlays'
      BY <2>2 DEF NeverDividesByZero, AcceptedBufferPlays
    <2>6. WrittenIsStored' /\ ResetPending' /\ NothingWritten'
      <3>1. hClean => old = hWritten /\ m_current_index' = 0
        BY <1>6, <2>2 DEF write_dev, WrittenIsStored, ResetPending, NothingWritten,
           TypeOK, FirstSamples, FirstIndex
      <3>2. m_enable' /\ cmd' = "writebuf"
        BY <1>6, <2>2 DEF write_dev, config
      <3> QED BY <2>2, <3>1, <3>2 DEF WrittenIsStored, ResetPending, NothingWritten
    <2>7. IndexInBuffer'
      BY <2>1, <2>2, <2>3 DEF IndexInBuffer, TypeOK, FirstSamples, FirstIndex
    <2> QED BY <2>4, <2>5, <2>6, <2>7
  <1>7. CASE transfer_mem_to_dev
    <2>1. /\ m_samplerate' = sampling_frequency
          /\ m_samples' = resample(m_samples)
          /\ m_reset_buffer' = TRUE
          /\ cmd' = "none"
          /\ hPattern' = IF m_enable /\ hClean /\ hWritten # <<>>
                         THEN resample(hWritten) ELSE <<>>
          /\ hPos' = 0
          /\ hClean' = TRUE /\ hWritten' = <<>>
          /\ UNCHANGED <<attrs, m_current_index, m_enable, read, alive, hClosed>>
      BY <1>7 DEF transfer_mem_to_dev
    <2>2. resample(m_samples) \in Seq(Volts) /\ Len(resample(m_samples)) >= Len(m_samples)
      BY <1>7, ResampleGrows DEF transfer_mem_to_dev, ResampleThrows, TypeOK
    <2>3. m_enable /\ hClean /\ hWritten # <<>> =>
              m_samples = hWritten /\ m_current_index = 0
      BY DEF NothingWritten, WrittenIsStored
    <2>4. TypeOK'
      BY <2>1, <2>2, <2>3 DEF TypeOK, attrs, read
    <2>5. NeverDividesByZero' /\ WrittenIsStored' /\ ResetPending' /\ NothingWritten'
      BY <2>1 DEF NeverDividesByZero, WrittenIsStored, ResetPending, NothingWritten
    <2>6. AcceptedBufferPlays'
      BY <2>1, <2>2, <2>3 DEF AcceptedBufferPlays, TypeOK
    <2>7. IndexInBuffer'
      BY <2>1, <2>2 DEF IndexInBuffer, TypeOK
    <2> QED BY <2>4, <2>5, <2>6, <2>7
  <1>8. CASE CutOff
    <2>1. TypeOK'
      <3>1. hWritten' \in Seq(Volts)
        BY <1>8 DEF CutOff
      <3>2. hClean' \in BOOLEAN
        BY <1>8 DEF CutOff
      <3> QED BY <1>8, <3>1, <3>2 DEF CutOff, TypeOK, attrs, buffer, config, read
    <2>2. NeverDividesByZero' /\ WrittenIsStored' /\ ResetPending' /\ NothingWritten'
      BY <1>8 DEF CutOff, NeverDividesByZero, WrittenIsStored, ResetPending,
         NothingWritten
    <2>3. AcceptedBufferPlays' /\ IndexInBuffer'
      BY <1>8 DEF CutOff, AcceptedBufferPlays, IndexInBuffer, buffer
    <2> QED BY <2>1, <2>2, <2>3
  <1>9. ASSUME NEW count \in 0..MaxRead, BeginRead(count) PROVE IInv'
    <2>1. [i \in 1..count |-> 0] \in Seq(Volts) /\ Len([i \in 1..count |-> 0]) = count
      BY DACAssumption DEF DACAssumption, Volts
    <2>2. TypeOK'
      BY <1>9, <2>1, DACAssumption
      DEF BeginRead, TypeOK, attrs, config, history, DACAssumption
    <2>3. NeverDividesByZero'
      BY <1>9, <2>1 DEF BeginRead, NeverDividesByZero, TypeOK
    <2>4. AcceptedBufferPlays'
      BY <1>9 DEF BeginRead, AcceptedBufferPlays, TypeOK, history
    <2>5. IndexInBuffer'
      BY <1>9, <2>1 DEF BeginRead, IndexInBuffer, TypeOK, history
    <2>6. WrittenIsStored' /\ ResetPending' /\ NothingWritten'
      BY <1>9 DEF BeginRead, WrittenIsStored, ResetPending, NothingWritten,
         TypeOK, history, config
    <2> QED BY <2>2, <2>3, <2>4, <2>5, <2>6
  <1>10. CASE CopyRun
    <2> DEFINE r == remaining_samples
               run == [i \in 1..r |-> IF m_current_index + i <= Len(m_samples)
                                      THEN m_samples[m_current_index + i] ELSE Garbage]
    <2>1. r \in 0..samples_count
      BY RunType
    <2>2. Len(m_samples) \in Nat /\ Len(m_samples) > 0
      BY <1>10 DEF CopyRun, NeverDividesByZero, TypeOK
    <2>3. run \in Seq(Volts \cup {Garbage})
      BY <2>1 DEF TypeOK
    <2> HIDE DEF r
    <2>4. /\ m_current_index' \in Nat /\ m_current_index' < Len(m_samples)
      <3>1. m_current_index + r \in Nat
        BY <2>1 DEF TypeOK
      <3>2. m_current_index' = (m_current_index + r) % Len(m_samples)
        BY <1>10 DEF CopyRun, NextIndex, r
      <3> QED BY <3>1, <3>2, <2>2, ModRange
    <2>5. hPattern # <<>> => hPos' = m_current_index'
      BY <1>10, <2>4 DEF CopyRun, NextIndex, AcceptedBufferPlays
    <2>6. TypeOK'
      <3>1. buf' \in Seq(Volts \cup {Garbage})
        BY <1>10, <2>3 DEF CopyRun, TypeOK, r
      <3>2. samples_count' \in Nat
        BY <1>10, <2>1 DEF CopyRun, TypeOK, r
      <3>3. hPos' \in Nat
        BY <1>10, <2>4, <2>5 DEF CopyRun, TypeOK
      <3> QED BY <1>10, <2>4, <3>1, <3>2, <3>3 DEF CopyRun, TypeOK, attrs, config
    <2>7. NeverDividesByZero'
      BY <1>10, <2>2 DEF CopyRun, NeverDividesByZero
    <2>8. AcceptedBufferPlays' /\ IndexInBuffer'
      BY <1>10, <2>4, <2>5 DEF CopyRun, AcceptedBufferPlays, IndexInBuffer
    <2>9. WrittenIsStored' /\ ResetPending' /\ NothingWritten'
      BY <1>10 DEF CopyRun, WrittenIsStored, ResetPending, NothingWritten, config
    <2> QED BY <2>6, <2>7, <2>8, <2>9
  <1>11. CASE Dies
    BY <1>11 DEF Dies, TypeOK, NeverDividesByZero,
       AcceptedBufferPlays, WrittenIsStored, ResetPending, NothingWritten,
       IndexInBuffer, attrs, buffer, config, read, history
  <1>12. CASE EndRead
    BY <1>12 DEF EndRead, TypeOK, NeverDividesByZero,
       AcceptedBufferPlays, WrittenIsStored, ResetPending, NothingWritten,
       IndexInBuffer, attrs, buffer, config, read, history
  <1>13. CASE UNCHANGED vars
    BY <1>13 DEF vars, TypeOK, NeverDividesByZero,
       AcceptedBufferPlays, WrittenIsStored, ResetPending, NothingWritten,
       IndexInBuffer, attrs, buffer, config, read, history
  <1> QED
    BY <1>1, <1>2, <1>3, <1>4, <1>5, <1>6, <1>7, <1>8, <1>9, <1>10,
       <1>11, <1>12, <1>13 DEF Next

\* The device's type invariant holds in every reachable state.
THEOREM TypeCorrect == Spec => []TypeOK
  <1>1. IInv => TypeOK
    BY DEF IInv
  <1> QED BY InitIInv, NextIInv, <1>1, PTL DEF Spec

\* transfer_samples_to_RX_device never takes a remainder modulo an empty
\* buffer's size, whatever commands and lost connections came before.
THEOREM NoDivisionByZero == Spec => []NeverDividesByZero
  <1>1. IInv => NeverDividesByZero
    BY DEF IInv
  <1> QED BY InitIInv, NextIInv, <1>1, PTL DEF Spec

\* Only a CLOSE can send a later read past the end of m_samples.
THEOREM OutOfBoundsNeedsClose == Spec => []OutOfBoundsOnlyAfterClose
  <1>1. IInv => OutOfBoundsOnlyAfterClose
    <2> SUFFICES ASSUME IInv, cmd = "read", samples_count > 0, ~hClosed
                 PROVE  m_current_index + remaining_samples <= Len(m_samples)
      BY RunType DEF OutOfBoundsOnlyAfterClose, IInv, TypeOK
    <2>1. m_current_index < Len(m_samples)
      BY DEF IInv, TypeOK, IndexInBuffer, NeverDividesByZero
    <2> QED BY <2>1, RunInBounds DEF IInv
  <1> QED BY InitIInv, NextIInv, <1>1, PTL DEF Spec

\* A buffer accepted after a complete WRITEBUF plays unmixed, for every client
\* buffer, resampling ratio and sequence of commands.
THEOREM AcceptedBufferIsExact == Spec => []AcceptedBufferPlays
  <1>1. IInv => AcceptedBufferPlays
    BY DEF IInv
  <1> QED BY InitIInv, NextIInv, <1>1, PTL DEF Spec

-----------------------------------------------------------------------------
(* The device implements CyclicPlayback. *)

\* A run copied in bounds is the cyclic continuation of the pattern.
LEMMA RunIsCyclic ==
    ASSUME IInv, CopyRun, hPattern # <<>>
    PROVE  Playback!Deliver
  <1> DEFINE r == remaining_samples
             run == [i \in 1..r |-> IF m_current_index + i <= Len(m_samples)
                                    THEN m_samples[m_current_index + i] ELSE Garbage]
  <1>1. /\ m_samples = hPattern /\ m_current_index = hPos /\ hPos < Len(hPattern)
        /\ Len(hPattern) \in Nat /\ hPos \in Nat /\ samples_count > 0
    BY DEF IInv, AcceptedBufferPlays, TypeOK, CopyRun
  <1>2. r \in 1..samples_count /\ hPos + r <= Len(hPattern) /\ samples_count \in Nat
    BY <1>1, RunInBounds DEF IInv, TypeOK
  <1>3. buf' = buf \o run /\ hPos' = (hPos + r) % Len(hPattern) /\ hPattern' = hPattern
    BY DEF CopyRun
  <1> HIDE DEF r
  <1>4. run = Playback!Cyclic(hPattern, hPos, r)
    <2>1. ASSUME NEW i \in 1..r
          PROVE  run[i] = hPattern[((hPos + i - 1) % Len(hPattern)) + 1]
      <3>1. (hPos + i - 1) % Len(hPattern) = hPos + i - 1
        BY <1>1, <1>2
      <3> QED BY <1>1, <1>2, <3>1
    <2> QED BY <2>1 DEF Playback!Cyclic
  <1>5. run \in Seq(Volts \cup {Garbage}) /\ Len(run) = r
    BY <1>1, <1>2 DEF IInv, TypeOK
  <1> HIDE DEF run
  <1>6. Len(buf') - Len(buf) = r
    <2>1. buf \in Seq(Volts \cup {Garbage}) /\ Len(buf) \in Nat
      BY DEF IInv, TypeOK
    <2>2. Len(buf \o run) = Len(buf) + Len(run)
      BY <1>5, <2>1
    <2> QED BY <1>2, <1>3, <1>5, <2>1, <2>2
  <1>7. /\ Len(buf') - Len(buf) >= 0
        /\ buf' = buf \o Playback!Cyclic(hPattern, hPos, Len(buf') - Len(buf))
        /\ hPos' = (hPos + (Len(buf') - Len(buf))) % Len(hPattern)
    <2>1. r >= 0
      BY <1>2
    <2> QED BY <1>3, <1>4, <1>6, <2>1
  <1> QED BY <1>3, <1>7 DEF Playback!Deliver

\* Every step of the device is a step of the cyclic player or leaves it alone.
LEMMA StepRefines == IInv /\ IInv' /\ [Next]_vars => [Playback!Next]_(Playback!vars)
  <1> SUFFICES ASSUME IInv, IInv', [Next]_vars
               PROVE  [Playback!Next]_(Playback!vars)
    OBVIOUS
  <1>1. ASSUME NEW rate \in Rates, NEW ratio \in Oversamplings, WriteAttr(rate, ratio)
        PROVE  UNCHANGED Playback!vars
    BY <1>1 DEF WriteAttr, Playback!vars, read, history
  <1>2. ASSUME NEW mask \in {0, 1}, open_dev(mask) PROVE UNCHANGED Playback!vars
    BY <1>2 DEF open_dev, Playback!vars, read, history
  <1>3. close_dev \/ cancel_buffer => Playback!Withdraw
    BY DEF close_dev, cancel_buffer, Playback!Withdraw, read
  <1>4. ASSUME NEW raws \in Chunks, write_dev(raws) PROVE Playback!Withdraw
    BY <1>4 DEF write_dev, Playback!Withdraw, read
  <1>5. transfer_mem_to_dev => Playback!Commit
    BY DEF transfer_mem_to_dev, Playback!Commit, read, IInv, TypeOK
  <1>6. write_dev_disabled \/ Dies => UNCHANGED Playback!vars
    BY DEF write_dev_disabled, Dies, Playback!vars, read, history
  <1>7. CutOff => UNCHANGED Playback!vars
    BY DEF CutOff, Playback!vars, read
  <1>8. ASSUME NEW count \in 0..MaxRead, BeginRead(count) PROVE Playback!Begin
    BY <1>8 DEF BeginRead, Playback!Begin, history
  <1>9. EndRead => Playback!Begin
    BY DEF EndRead, Playback!Begin, history
  <1>10. CopyRun => Playback!Deliver \/ Playback!DeliverUnpromised
    <2>1. CopyRun /\ hPattern = <<>> => Playback!DeliverUnpromised
      BY DEF CopyRun, Playback!DeliverUnpromised, IInv, TypeOK
    <2> QED BY <2>1, RunIsCyclic
  <1>11. UNCHANGED vars => UNCHANGED Playback!vars
    BY DEF vars, Playback!vars, read, history
  <1> QED
    BY <1>1, <1>2, <1>3, <1>4, <1>5, <1>6, <1>7, <1>8, <1>9, <1>10, <1>11
    DEF Next, Playback!Next

\* The device implements the cyclic playback it owes the ADC.
THEOREM ImplementsPlayback == Spec => PlaybackSpec
  <1>1. Init => Playback!Init
    BY DEF Init, Playback!Init
  <1> QED
    BY InitIInv, NextIInv, StepRefines, <1>1, PTL DEF Spec, PlaybackSpec, Playback!Spec
=============================================================================

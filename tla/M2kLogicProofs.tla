--------------------------- MODULE M2kLogicProofs ---------------------------
(***************************************************************************)
(* Proofs about the digital output device, alone and wired to the digital  *)
(* input device, for every rate, buffer length and read length.            *)
(***************************************************************************)
EXTENDS M2kLogicRX, SequenceTheorems, FiniteSetTheorems, TLAPS

\* The inductive invariant.  A buffer that is being written by a WRITEBUF that
\* follows no cut-off one, and finds no placeholder, holds what that WRITEBUF
\* supplied, from the beginning; between commands such a buffer waits to be
\* emptied by the next write, or is empty and was never read; the index points into the buffer unless
\* cancel_buffer left it behind; and a read under way has something to copy.
WrittenIsStored ==
    cmd = "writebuf" =>
        /\ ~m_reset_buffer
        /\ hClean => m_samples = hWritten /\ m_current_index = 0
ReadyForWrite ==
    cmd # "writebuf" =>
        /\ hWritten = <<>>
        /\ hClean => m_reset_buffer \/ (m_samples = <<>> /\ m_current_index = 0)
IndexInBuffer == m_current_index = 0 \/ m_current_index < Len(m_samples) \/ hCancelled
ReadHasSamples == cmd = "read" /\ samples_count > 0 => Len(m_samples) > 0

IInv == /\ TypeOK
        /\ AcceptedBufferPlays
        /\ WrittenIsStored
        /\ ReadyForWrite
        /\ IndexInBuffer
        /\ ReadHasSamples

\* What the invariant says of the buffer and the read.
Links == AcceptedBufferPlays /\ WrittenIsStored /\ ReadyForWrite /\ IndexInBuffer /\ ReadHasSamples

\* A step of the output device, in a read of any length.
AnyNext == Next \/ \E count \in Nat : BeginRead(count)

-----------------------------------------------------------------------------
(* What resampling does to a buffer. *)

\* The quotient of two naturals is a natural.
LEMMA DivNat ==
    ASSUME NEW a \in Nat, NEW b \in Nat, b > 0
    PROVE  a \div b \in Nat
  <1>1. a \div b \in Int
    OBVIOUS
  <1>2. a \div b >= 0
    OBVIOUS
  <1> QED BY <1>1, <1>2

\* The quotient of a number below m * b is below m.
LEMMA DivBelow ==
    ASSUME NEW a \in Nat, NEW m \in Nat, NEW b \in Nat, b > 0, a < m * b
    PROVE  a \div b < m
  <1>1. b * (a \div b) <= a
    OBVIOUS
  <1>2. ASSUME NEW q \in Nat, q >= m PROVE q * b >= m * b
    <2>1. PICK k \in Nat : q = m + k
      BY <1>2
    <2>2. k * b \in Nat /\ m * b \in Nat
      OBVIOUS
    <2>3. q * b = m * b + k * b
      BY <2>1
    <2> QED BY <2>2, <2>3
  <1>3. a \div b \in Nat
    BY DivNat
  <1>4. m * b \in Nat /\ (a \div b) * b = b * (a \div b)
    BY <1>3
  <1> QED BY <1>1, <1>2, <1>3, <1>4

\* The resampling ratio is a natural number.
LEMMA RatioType ==
    ASSUME TypeOK
    PROVE  Ratio \in Nat
  <1>1. MaxRate \in Nat /\ sampling_frequency \in Nat /\ sampling_frequency > 0
    BY LogicTXAssumption DEF LogicTXAssumption, TypeOK
  <1> QED BY <1>1, DivNat DEF Ratio

\* Repeating every word makes no word of its own, and no shorter a buffer.
LEMMA InterpolationGrows ==
    ASSUME NEW S, NEW src \in Seq(S), NEW ratio \in Nat, ratio >= 2
    PROVE  /\ digital_interpolation(src, ratio) \in Seq(S)
           /\ Len(digital_interpolation(src, ratio)) >= Len(src)
           /\ src = <<>> => digital_interpolation(src, ratio) = <<>>
  <1> DEFINE n == Len(src) * ratio
             result == digital_interpolation(src, ratio)
  <1>1. Len(src) \in Nat
    OBVIOUS
  <1>2. n \in Nat /\ n >= Len(src)
    <2>1. ASSUME NEW m \in Nat PROVE m * ratio \in Nat /\ m * ratio >= m
      OBVIOUS
    <2> QED BY <1>1, <2>1
  <1>3. ASSUME NEW k \in 1..n PROVE ((k - 1) \div ratio) + 1 \in 1..Len(src)
    <2>1. k - 1 \in Nat /\ k - 1 < Len(src) * ratio
      BY <1>2
    <2>2. (k - 1) \div ratio \in Nat /\ (k - 1) \div ratio < Len(src)
      BY <1>1, <2>1, DivNat, DivBelow
    <2> QED BY <1>1, <2>2
  <1>4. result = [k \in 1..n |-> src[((k - 1) \div ratio) + 1]]
    BY DEF digital_interpolation
  <1> HIDE DEF n, result
  <1>5. result \in Seq(S)
    BY <1>2, <1>3, <1>4
  <1>6. Len(result) = n
    BY <1>2, <1>4
  <1>7. src = <<>> => n = 0
    BY DEF n
  <1>8. src = <<>> => result = <<>>
    BY <1>5, <1>6, <1>7
  <1> QED BY <1>2, <1>5, <1>6, <1>8 DEF result

\* So does resampling.
LEMMA ResampleGrows ==
    ASSUME TypeOK, NEW S, NEW src \in Seq(S)
    PROVE  /\ resample(src) \in Seq(S)
           /\ Len(resample(src)) >= Len(src)
           /\ src = <<>> => resample(src) = <<>>
  <1>1. CASE Ratio < 2
    BY <1>1 DEF resample
  <1>2. CASE ~(Ratio < 2)
    BY <1>2, RatioType, InterpolationGrows DEF resample
  <1> QED BY <1>1, <1>2

-----------------------------------------------------------------------------
(* The inductive invariant. *)

\* The constructor establishes the inductive invariant.
LEMMA InitIInv == Init => IInv
  <1> SUFFICES ASSUME Init PROVE IInv
    OBVIOUS
  <1>1. \A S : <<>> \in Seq(S)
    OBVIOUS
  <1>2. TypeOK
    BY <1>1 DEF Init, TypeOK
  <1> QED
    BY <1>2 DEF Init, IInv, AcceptedBufferPlays, WrittenIsStored, ReadyForWrite,
       IndexInBuffer, ReadHasSamples

\* A call of a WRITEBUF: the first one after a transfer starts over.
LEMMA Write_IInv == ASSUME IInv, NEW words \in Chunks, write_dev(words) PROVE IInv'
  <1> USE DEF IInv
  <1>1. words \in Seq(Words)
    BY LogicTXAssumption DEF Chunks, LogicTXAssumption
  <1>2. /\ m_samples' = FirstSamples \o words
        /\ m_current_index' = FirstIndex
        /\ m_reset_buffer' = FALSE
        /\ cmd' = "writebuf"
        /\ hWritten' = hWritten \o words
        /\ hPattern' = <<>> /\ hPos' = 0
        /\ hCancelled' = (hCancelled /\ ~m_reset_buffer)
        /\ UNCHANGED <<sampling_frequency, read, alive, hClean>>
    BY DEF write_dev
  <1>3. FirstSamples \in Seq(Words \cup {{}}) /\ FirstIndex \in Nat
    BY DEF FirstSamples, FirstIndex, TypeOK
  <1>4. words \in Seq(Words \cup {{}})
    BY <1>1
  <1>5. TypeOK'
    <2>1. m_samples' \in Seq(Words \cup {{}}) /\ hWritten' \in Seq(Words) /\ hPattern' \in Seq(Words)
      BY <1>1, <1>2, <1>3, <1>4 DEF TypeOK
    <2>2. hCancelled' \in BOOLEAN /\ m_reset_buffer' \in BOOLEAN
      BY <1>2 DEF TypeOK
    <2> QED BY <1>2, <1>3, <2>1, <2>2 DEF TypeOK, read
  <1>6. (AcceptedBufferPlays /\ ReadyForWrite /\ ReadHasSamples)'
    BY <1>2 DEF AcceptedBufferPlays, ReadyForWrite, ReadHasSamples
  <1>7. WrittenIsStored'
    <2>1. hClean => FirstSamples = hWritten /\ FirstIndex = 0
      BY DEF write_dev, WrittenIsStored, ReadyForWrite, FirstSamples, FirstIndex
    <2> QED BY <1>2, <2>1 DEF WrittenIsStored
  <1>8. IndexInBuffer'
    <2>1. CASE m_reset_buffer
      BY <1>2, <2>1 DEF IndexInBuffer, FirstIndex
    <2>2. CASE ~m_reset_buffer
      <3>1. Len(m_samples') >= Len(m_samples)
        BY <1>2, <1>4, <2>2 DEF FirstSamples, TypeOK
      <3>2. Len(m_samples) \in Nat /\ Len(m_samples') \in Nat
        BY <1>5 DEF TypeOK
      <3> QED BY <1>2, <2>2, <3>1, <3>2 DEF IndexInBuffer, FirstIndex, TypeOK
    <2> QED BY <2>1, <2>2
  <1> QED BY <1>5, <1>6, <1>7, <1>8

\* The end of a WRITEBUF: what was stored is what was written, and both are
\* resampled.
LEMMA Transfer_IInv == ASSUME IInv, transfer_mem_to_dev PROVE IInv'
  <1> USE DEF IInv
  <1>1. /\ m_samples' = resample(m_samples)
        /\ m_reset_buffer' = TRUE
        /\ cmd' = "none"
        /\ hPattern' = IF hClean THEN resample(hWritten) ELSE <<>>
        /\ hPos' = 0
        /\ hClean' = TRUE /\ hWritten' = <<>>
        /\ UNCHANGED <<sampling_frequency, m_current_index, read, alive, hCancelled>>
    BY DEF transfer_mem_to_dev
  <1>2. resample(m_samples) \in Seq(Words \cup {{}}) /\ Len(resample(m_samples)) >= Len(m_samples)
    BY ResampleGrows DEF TypeOK
  <1>3. resample(hWritten) \in Seq(Words) /\ (hWritten = <<>> => resample(hWritten) = <<>>)
    BY ResampleGrows DEF TypeOK
  <1>4. TypeOK'
    <2>1. hPattern' \in Seq(Words) /\ hWritten' \in Seq(Words)
      BY <1>1, <1>3
    <2>2. hClean' \in BOOLEAN /\ m_reset_buffer' \in BOOLEAN
      BY <1>1
    <2> QED BY <1>1, <1>2, <2>1, <2>2 DEF TypeOK, read
  <1>5. AcceptedBufferPlays'
    <2> SUFFICES ASSUME hPattern' # <<>>
                 PROVE  m_samples' = hPattern' /\ m_current_index' = 0 /\ 0 < Len(hPattern')
      BY <1>1 DEF AcceptedBufferPlays
    <2>1. hClean /\ hWritten # <<>>
      BY <1>1, <1>3
    <2>2. m_samples = hWritten /\ m_current_index = 0
      BY <2>1 DEF WrittenIsStored, ReadyForWrite
    <2>3. Len(hPattern') > 0
      BY <1>4 DEF TypeOK
    <2> QED BY <1>1, <2>1, <2>2, <2>3
  <1>6. (WrittenIsStored /\ ReadyForWrite /\ ReadHasSamples)'
    BY <1>1 DEF WrittenIsStored, ReadyForWrite, ReadHasSamples
  <1>7. IndexInBuffer'
    <2>1. Len(m_samples) \in Nat /\ Len(m_samples') \in Nat
      BY <1>4 DEF TypeOK
    <2> QED BY <1>1, <1>2, <2>1 DEF IndexInBuffer, TypeOK
  <1> QED BY <1>4, <1>5, <1>6, <1>7

\* The call of a read, which fills an empty buffer.
LEMMA BeginRead_IInv == ASSUME IInv, NEW count \in Nat, BeginRead(count) PROVE IInv'
  <1> USE DEF IInv
  <1> DEFINE zeros == [i \in 1..count |-> {}]
  <1>1. zeros \in Seq(Words \cup {{}}) /\ Len(zeros) = count
    OBVIOUS
  <1>2. /\ m_samples' = IF m_samples = <<>> THEN zeros ELSE m_samples
        /\ samples' = <<>> /\ samples_count' = count
        /\ cmd = "none" /\ cmd' = "read"
        /\ hClean' = (hClean /\ (m_reset_buffer \/ m_samples' = m_samples))
        /\ UNCHANGED <<sampling_frequency, m_current_index, m_reset_buffer, alive,
                       hWritten, hPattern, hPos, hCancelled>>
    BY DEF BeginRead
  <1> HIDE DEF zeros
  <1>3. TypeOK'
    <2>1. m_samples' \in Seq(Words \cup {{}}) /\ samples' \in Seq(Words \cup {{}})
      BY <1>1, <1>2 DEF TypeOK
    <2>2. hClean' \in BOOLEAN
      BY <1>2 DEF TypeOK
    <2> QED BY <1>2, <2>1, <2>2 DEF TypeOK
  <1>4. AcceptedBufferPlays'
    BY <1>2 DEF AcceptedBufferPlays
  <1>5. (WrittenIsStored /\ ReadyForWrite)'
    BY <1>2 DEF WrittenIsStored, ReadyForWrite
  <1>6. (IndexInBuffer /\ ReadHasSamples)'
    BY <1>1, <1>2 DEF IndexInBuffer, ReadHasSamples, TypeOK
  <1> QED BY <1>3, <1>4, <1>5, <1>6

\* An iteration of the copy loop leaves the index in the buffer, at the position
\* that follows in the accepted pattern.
LEMMA CopyWord_IInv == ASSUME IInv, CopyWord PROVE IInv'
  <1> USE DEF IInv
  <1>1. /\ samples' = Append(samples, m_samples[m_current_index + 1])
        /\ samples_count' = samples_count - 1 /\ samples_count > 0
        /\ m_current_index' = NextIndex
        /\ hPos' = IF hPattern = <<>> THEN hPos ELSE (hPos + 1) % Len(hPattern)
        /\ cmd = "read"
        /\ UNCHANGED <<sampling_frequency, m_samples, m_reset_buffer, cmd, alive,
                       hWritten, hClean, hPattern, hCancelled>>
    BY DEF CopyWord
  <1>2. /\ m_current_index \in Nat /\ Len(m_samples) \in Nat
        /\ m_current_index < Len(m_samples)
    BY DEF CopyWord, AtThrows, TypeOK
  <1>3. m_samples[m_current_index + 1] \in Words \cup {{}}
    BY <1>2 DEF TypeOK
  <1>4. NextIndex \in Nat /\ NextIndex < Len(m_samples)
    BY <1>2 DEF NextIndex
  <1>5. hPattern # <<>> => hPos' = NextIndex
    <2> SUFFICES ASSUME hPattern # <<>> PROVE (m_current_index + 1) % Len(m_samples) = NextIndex
      BY <1>1 DEF AcceptedBufferPlays
    <2>1. CASE m_current_index + 1 < Len(m_samples)
      BY <1>2, <2>1 DEF NextIndex
    <2>2. CASE m_current_index + 1 = Len(m_samples)
      BY <1>2, <2>2 DEF NextIndex
    <2> QED BY <1>2, <2>1, <2>2
  <1>6. TypeOK'
    <2>1. samples' \in Seq(Words \cup {{}})
      BY <1>1, <1>3 DEF TypeOK
    <2>2. hPos' \in Nat
      BY <1>1, <1>4, <1>5 DEF TypeOK
    <2>3. samples_count' \in Nat
      BY <1>1 DEF TypeOK
    <2> QED BY <1>1, <1>4, <2>1, <2>2, <2>3 DEF TypeOK
  <1>7. (AcceptedBufferPlays /\ IndexInBuffer)'
    BY <1>1, <1>4, <1>5 DEF AcceptedBufferPlays, IndexInBuffer
  <1>8. (WrittenIsStored /\ ReadyForWrite /\ ReadHasSamples)'
    BY <1>1, <1>2 DEF WrittenIsStored, ReadyForWrite, ReadHasSamples
  <1> QED BY <1>6, <1>7, <1>8

\* Every step of the device preserves the inductive invariant.
LEMMA NextIInv == IInv /\ [AnyNext]_vars => IInv'
  <1> SUFFICES ASSUME IInv, [AnyNext]_vars PROVE IInv'
    OBVIOUS
  <1> USE DEF IInv
  <1>1. ASSUME NEW rate \in Rates, WriteAttr(rate) PROVE IInv'
    BY <1>1 DEF WriteAttr, buffer, read, history, TypeOK, AcceptedBufferPlays, WrittenIsStored,
       ReadyForWrite, IndexInBuffer, ReadHasSamples
  <1>2. CASE cancel_buffer
    <2>1. /\ m_samples' = <<>> /\ hPattern' = <<>> /\ hPos' = 0 /\ hCancelled' = TRUE
          /\ cmd = "none"
          /\ UNCHANGED <<sampling_frequency, m_current_index, m_reset_buffer, samples, samples_count,
                   cmd, alive, hWritten, hClean>>
      BY <1>2 DEF cancel_buffer, read
    <2>2. TypeOK'
      BY <2>1 DEF TypeOK
    <2>3. Links'
      BY <2>1 DEF Links, AcceptedBufferPlays, WrittenIsStored, ReadyForWrite, IndexInBuffer, ReadHasSamples
    <2> QED BY <2>2, <2>3 DEF Links
  <1>3. CASE CutOff
    <2>1. /\ cmd' = "none" /\ hClean' = FALSE /\ hWritten' = <<>>
          /\ UNCHANGED <<sampling_frequency, m_samples, m_current_index, m_reset_buffer, samples,
                         samples_count, alive, hPattern, hPos, hCancelled>>
      BY <1>3 DEF CutOff, buffer, read
    <2>2. TypeOK'
      <3>1. hWritten' \in Seq(Words)
        BY <2>1
      <3>2. hClean' \in BOOLEAN
        BY <2>1
      <3> QED BY <2>1, <3>1, <3>2 DEF TypeOK
    <2>3. Links'
      BY <2>1 DEF Links, AcceptedBufferPlays, WrittenIsStored, ReadyForWrite, IndexInBuffer, ReadHasSamples
    <2> QED BY <2>2, <2>3 DEF Links
  <1>4. CASE Dies
    BY <1>4 DEF Dies, buffer, read, history, TypeOK, AcceptedBufferPlays, WrittenIsStored,
       ReadyForWrite, IndexInBuffer, ReadHasSamples
  <1>5. CASE EndRead
    <2>1. /\ cmd = "read" /\ cmd' = "none" /\ samples' = <<>>
          /\ UNCHANGED <<sampling_frequency, m_samples, m_current_index, m_reset_buffer,
                         samples_count, alive, hWritten, hClean, hPattern, hPos, hCancelled>>
      BY <1>5 DEF EndRead, buffer, history
    <2>2. TypeOK'
      BY <2>1 DEF TypeOK
    <2>3. Links'
      BY <2>1 DEF Links, AcceptedBufferPlays, WrittenIsStored, ReadyForWrite, IndexInBuffer, ReadHasSamples
    <2> QED BY <2>2, <2>3 DEF Links
  <1>6. CASE UNCHANGED vars
    BY <1>6 DEF vars, buffer, read, history, TypeOK, AcceptedBufferPlays, WrittenIsStored,
       ReadyForWrite, IndexInBuffer, ReadHasSamples
  <1>7. ASSUME NEW count \in 0..MaxRead PROVE count \in Nat
    BY LogicTXAssumption DEF LogicTXAssumption
  <1> QED
    BY <1>1, <1>2, <1>3, <1>4, <1>5, <1>6, <1>7, Write_IInv, Transfer_IInv, BeginRead_IInv,
       CopyWord_IInv DEF AnyNext, Next

\* at() throws only on an index that cancel_buffer left behind.
LEMMA IInvThrows == IInv => ThrowsOnlyAfterCancel
  BY DEF IInv, TypeOK, IndexInBuffer, ReadHasSamples, ThrowsOnlyAfterCancel, AtThrows

-----------------------------------------------------------------------------
(* The device implements CyclicPlayback. *)

\* A copied word is the one that follows in the pattern.
LEMMA WordIsCyclic == ASSUME IInv, CopyWord, hPattern # <<>> PROVE Playback!Deliver
  <1>1. /\ m_samples = hPattern /\ m_current_index = hPos /\ hPos < Len(hPattern)
        /\ Len(hPattern) \in Nat /\ hPos \in Nat
    BY DEF IInv, AcceptedBufferPlays, TypeOK
  <1>2. /\ samples' = Append(samples, hPattern[hPos + 1])
        /\ hPos' = (hPos + 1) % Len(hPattern) /\ hPattern' = hPattern
    BY <1>1 DEF CopyWord
  <1>3. samples \in Seq(Words \cup {{}}) /\ hPattern[hPos + 1] \in Words
    BY <1>1 DEF IInv, TypeOK
  <1>4. Playback!Cyclic(hPattern, hPos, 1) = <<hPattern[hPos + 1]>>
    <2>1. ASSUME NEW i \in 1..1
          PROVE  hPattern[((hPos + i - 1) % Len(hPattern)) + 1] = hPattern[hPos + 1]
      <3>1. i = 1
        OBVIOUS
      <3>2. (hPos + i - 1) % Len(hPattern) = hPos
        BY <1>1, <3>1
      <3> QED BY <3>2
    <2>2. Playback!Cyclic(hPattern, hPos, 1) = [i \in 1..1 |-> hPattern[hPos + 1]]
      BY <2>1 DEF Playback!Cyclic
    <2>3. ASSUME NEW x PROVE [i \in 1..1 |-> x] = <<x>>
      OBVIOUS
    <2> QED BY <2>2, <2>3
  <1> DEFINE r == Len(samples') - Len(samples)
  <1>5. r = 1
    BY <1>2, <1>3
  <1>6. samples' = samples \o <<hPattern[hPos + 1]>>
    BY <1>2, <1>3
  <1> HIDE DEF r
  <1>7. r >= 0 /\ samples' = samples \o Playback!Cyclic(hPattern, hPos, r)
                /\ hPos' = (hPos + r) % Len(hPattern)
    <2>1. r >= 0
      BY <1>5
    <2>2. samples' = samples \o Playback!Cyclic(hPattern, hPos, r)
      BY <1>4, <1>5, <1>6
    <2>3. hPos' = (hPos + r) % Len(hPattern)
      BY <1>2, <1>5
    <2> QED BY <2>1, <2>2, <2>3
  <1> QED BY <1>2, <1>7 DEF Playback!Deliver, r

\* Every step of the device is a step of the cyclic player or leaves it alone.
LEMMA StepRefines == IInv /\ IInv' /\ [AnyNext]_vars => [Playback!Next]_(Playback!vars)
  <1> SUFFICES ASSUME IInv, IInv', [AnyNext]_vars
               PROVE  [Playback!Next]_(Playback!vars)
    OBVIOUS
  <1>1. ASSUME NEW rate \in Rates, WriteAttr(rate) PROVE UNCHANGED Playback!vars
    BY <1>1 DEF WriteAttr, Playback!vars, read, history
  <1>2. cancel_buffer => Playback!Withdraw
    BY DEF cancel_buffer, Playback!Withdraw, read
  <1>3. ASSUME NEW words \in Chunks, write_dev(words) PROVE Playback!Withdraw
    BY <1>3 DEF write_dev, Playback!Withdraw, read
  <1>4. transfer_mem_to_dev => Playback!Commit
    BY DEF transfer_mem_to_dev, Playback!Commit, read, IInv, TypeOK
  <1>5. CutOff \/ Dies => UNCHANGED Playback!vars
    BY DEF CutOff, Dies, Playback!vars, read, history
  <1>6. ASSUME NEW count, BeginRead(count) PROVE Playback!Begin
    BY <1>6 DEF BeginRead, Playback!Begin
  <1>7. EndRead => Playback!Begin
    BY DEF EndRead, Playback!Begin, history
  <1>8. CopyWord => Playback!Deliver \/ Playback!DeliverUnpromised
    <2>1. CopyWord /\ hPattern = <<>> => Playback!DeliverUnpromised
      BY DEF CopyWord, Playback!DeliverUnpromised
    <2> QED BY <2>1, WordIsCyclic
  <1>9. UNCHANGED vars => UNCHANGED Playback!vars
    BY DEF vars, Playback!vars, read, history
  <1> QED
    BY <1>1, <1>2, <1>3, <1>4, <1>5, <1>6, <1>7, <1>8, <1>9 DEF AnyNext, Next, Playback!Next

-----------------------------------------------------------------------------
(* The output device wired to the input device. *)

RXInv == IInv /\ rx_frequency \in RXRates /\ zero_ratio \in ZeroRatios

\* What the input device does to the output device is one of its steps, a read
\* as long as the RX rate makes it.
LEMMA RXStepIsStep ==
    ASSUME rx_frequency \in RXRates, zero_ratio \in ZeroRatios, [RXNext]_allVars
    PROVE  [AnyNext]_vars /\ rx_frequency' \in RXRates /\ zero_ratio' \in ZeroRatios
  <1>1. ASSUME NEW n \in 0..MaxLen, read_dev(n) PROVE AnyNext
    <2>1. rx_frequency \in Nat /\ zero_ratio \in Nat /\ MaxRate \in Nat
      BY LogicTXAssumption, LogicRXAssumption DEF LogicTXAssumption, LogicRXAssumption
    <2>2. RXRatio \in Nat
      <3>1. rx_frequency > 0 => MaxRate \div rx_frequency \in Nat
        BY <2>1, DivNat
      <3> QED BY <2>1, <3>1 DEF RXRatio
    <2>3. n \div 2 \in Nat
      BY LogicRXAssumption, DivNat DEF LogicRXAssumption
    <2>4. SamplesToRead(n) \in Nat
      BY <2>2, <2>3 DEF SamplesToRead
    <2> QED BY <1>1, <2>4 DEF read_dev, AnyNext
  <1>2. TXStep \/ TXTransfer \/ Answer => AnyNext
    BY DEF TXStep, TXTransfer, Answer, AnyNext, Next
  <1>3. ASSUME NEW rate \in RXRates, WriteRXAttr(rate) PROVE UNCHANGED vars
    BY <1>3 DEF WriteRXAttr
  <1>4. Sent \/ UNCHANGED allVars => UNCHANGED vars
    BY DEF Sent, allVars
  <1>5. [AnyNext]_vars
    BY <1>1, <1>2, <1>3, <1>4 DEF RXNext
  <1>6. rx_frequency' \in RXRates /\ zero_ratio' \in ZeroRatios
    BY DEF RXNext, TXStep, TXTransfer, WriteRXAttr, read_dev, Answer, Sent, allVars, rx
  <1> QED BY <1>5, <1>6

\* The inductive invariant holds for the output device in the digital loop.
LEMMA AlwaysRXInv == RXSpec => []RXInv
  <1>1. RXInit => RXInv
    BY InitIInv DEF RXInit, RXInv
  <1>2. RXInv /\ [RXNext]_allVars => RXInv'
    BY NextIInv, RXStepIsStep DEF RXInv
  <1> QED BY <1>1, <1>2, PTL DEF RXSpec

\* No sequence of commands, cut-off WRITEBUFs and reads makes at() throw, and end
\* the emulator, unless a client that had the device open was lost.
THEOREM ThrowNeedsCancel == RXSpec => []ThrowsOnlyAfterCancel
  <1>1. RXInv => ThrowsOnlyAfterCancel
    BY IInvThrows DEF RXInv
  <1> QED BY <1>1, AlwaysRXInv, PTL

\* A buffer accepted after a complete WRITEBUF plays unmixed, from the position
\* the reads of the input device have reached.
THEOREM AcceptedBufferIsExact == RXSpec => []AcceptedBufferPlays
  <1>1. RXInv => AcceptedBufferPlays
    BY DEF RXInv, IInv
  <1> QED BY <1>1, AlwaysRXInv, PTL

\* The output device implements the cyclic playback it owes the input device.
THEOREM ImplementsPlayback == RXSpec => PlaybackSpec
  <1>1. RXInit => Playback!Init
    BY DEF RXInit, Init, Playback!Init
  <1>2. RXInv /\ RXInv' /\ [RXNext]_allVars => [Playback!Next]_(Playback!vars)
    BY RXStepIsStep, StepRefines DEF RXInv
  <1> QED BY <1>1, <1>2, AlwaysRXInv, PTL DEF RXSpec, PlaybackSpec, Playback!Spec
-----------------------------------------------------------------------------
(* Quotients and remainders. *)

\* The remainder is below the divisor, and the rest of the number a multiple.
LEMMA DivMod ==
    ASSUME NEW a \in Nat, NEW n \in Nat, n > 0
    PROVE  /\ a \div n \in Nat /\ a % n \in Nat /\ a % n < n
           /\ a = n * (a \div n) + (a % n)
  <1>1. a % n \in Nat /\ a % n < n
    OBVIOUS
  <1>2. a = n * (a \div n) + (a % n)
    OBVIOUS
  <1> QED BY <1>1, <1>2, DivNat

\* Multiples of n that differ by less than n are equal.
LEMMA NotBetween ==
    ASSUME NEW n \in Nat, NEW p \in Nat, NEW q \in Nat, NEW r \in Nat, NEW s \in Nat,
           r < n, n * p + r = n * q + s
    PROVE  ~(p < q)
  <1> SUFFICES ASSUME p < q PROVE FALSE
    OBVIOUS
  <1>1. PICK k \in Nat : q = p + 1 + k
    <2>1. q - p - 1 \in Nat /\ q = p + 1 + (q - p - 1)
      OBVIOUS
    <2> QED BY <2>1
  <1>2. n * q = n * p + n + n * k /\ n * k \in Nat /\ n * p \in Nat
    BY <1>1
  <1> DEFINE a == n * p
             b == n * k
  <1>3. a \in Nat /\ b \in Nat /\ a + r = a + n + b + s
    BY <1>2
  <1> HIDE DEF a, b
  <1> QED BY <1>3

\* A number has one quotient and one remainder.
LEMMA QuotRem ==
    ASSUME NEW n \in Nat, NEW p \in Nat, NEW r \in Nat, r < n
    PROVE  (n * p + r) \div n = p /\ (n * p + r) % n = r
  <1> DEFINE a == n * p + r
             q == a \div n
             s == a % n
  <1>1. a \in Nat /\ n > 0
    <2>1. n * p \in Nat
      OBVIOUS
    <2> QED BY <2>1
  <1>2. q \in Nat /\ s \in Nat /\ s < n /\ a = n * q + s
    <2> HIDE DEF a
    <2> QED BY <1>1, DivMod
  <1> HIDE DEF q, s
  <1>3. n * p + r = n * q + s
    BY <1>2
  <1>4. ~(p < q) /\ ~(q < p)
    BY <1>2, <1>3, NotBetween
  <1>5. p = q
    BY <1>2, <1>4
  <1>6. r = s
    <2> DEFINE b == n * q
    <2>1. b \in Nat /\ b + r = b + s
      BY <1>2, <1>3, <1>5
    <2> HIDE DEF b
    <2> QED BY <1>2, <2>1
  <1> QED BY <1>5, <1>6 DEF q, s

\* The position after a remainder is that of the next number.
LEMMA NextRemainder ==
    ASSUME NEW n \in Nat, n > 0, NEW a \in Nat
    PROVE  ((a % n) + 1) % n = (a + 1) % n
  <1> DEFINE q == a \div n
             r == a % n
  <1>1. q \in Nat /\ r \in Nat /\ r < n /\ a = n * q + r
    BY DivMod
  <1> HIDE DEF q, r
  <1>2. n * q \in Nat /\ n * (q + 1) = n * q + n
    BY <1>1
  <1>3. CASE r + 1 < n
    <2>1. a + 1 = n * q + (r + 1)
      BY <1>1, <1>2
    <2>2. (a + 1) % n = r + 1
      BY <1>1, <1>3, <2>1, QuotRem
    <2>3. (r + 1) % n = r + 1
      BY <1>1, <1>3
    <2> QED BY <2>2, <2>3 DEF r
  <1>4. CASE r + 1 = n
    <2>1. a + 1 = n * (q + 1) + 0
      BY <1>1, <1>2, <1>4
    <2>2. (a + 1) % n = 0
      BY <1>1, <2>1, QuotRem
    <2>3. (r + 1) % n = 0
      BY <1>4
    <2> QED BY <2>2, <2>3 DEF r
  <1> QED BY <1>1, <1>3, <1>4

\* Where the j-th repetition of the word at position m, round and round, is in a
\* buffer that repeats n words r times.
Place(n, r, m, j) == (m * r + j) % (n * r)

LEMMA RepeatedPosition ==
    ASSUME NEW n \in Nat, n > 0, NEW r \in Nat, NEW m \in Nat, NEW j \in Nat, j < r
    PROVE  /\ Place(n, r, m, j) = (m % n) * r + j
           /\ Place(n, r, m, j) \div r = m % n
           /\ Place(n, r, m, j) \in Nat /\ Place(n, r, m, j) < n * r
  <1> DEFINE q == m \div n
             s == m % n
             all == n * r
             at == s * r + j
  <1>1. q \in Nat /\ s \in Nat /\ s < n /\ m = n * q + s
    BY DivMod
  <1> HIDE DEF q, s
  <1>2. all \in Nat /\ at \in Nat /\ s * r \in Nat /\ s * r = r * s
    BY <1>1
  <1>3. at < all
    <2>1. PICK k \in Nat : n = s + 1 + k
      <3>1. n - s - 1 \in Nat /\ n = s + 1 + (n - s - 1)
        BY <1>1
      <3> QED BY <3>1
    <2>2. n * r = s * r + r + k * r /\ k * r \in Nat
      BY <1>1, <2>1
    <2> DEFINE a == s * r
               b == k * r
    <2>3. a \in Nat /\ b \in Nat /\ all = a + r + b /\ at = a + j
      BY <1>2, <2>2
    <2> HIDE DEF a, b, all, at
    <2> QED BY <2>3
  <1>4. m * r + j = all * q + at
    <2>1. m * r = (n * q) * r + s * r
      BY <1>1
    <2>2. (n * q) * r = (n * r) * q
      BY <1>1
    <2>3. (n * q) * r \in Nat
      BY <1>1
    <2> DEFINE a == all * q
               b == s * r
    <2>4. m * r = a + b /\ a \in Nat /\ b \in Nat /\ at = b + j
      BY <1>2, <2>1, <2>2, <2>3
    <2> HIDE DEF a, b, at
    <2>5. m * r + j = a + at
      BY <2>4
    <2> QED BY <2>5 DEF a
  <1>5. (m * r + j) % all = at
    <2> HIDE DEF all, at
    <2> QED BY <1>1, <1>2, <1>3, <1>4, QuotRem
  <1>6. at \div r = s
    <2>1. at = r * s + j
      BY <1>2
    <2> HIDE DEF at
    <2> QED BY <1>1, <2>1, QuotRem
  <1>7. Place(n, r, m, j) = at
    BY <1>5 DEF Place
  <1> HIDE DEF at
  <1>8. Place(n, r, m, j) \div r = s /\ Place(n, r, m, j) \in Nat /\ Place(n, r, m, j) < n * r
    BY <1>2, <1>3, <1>6, <1>7
  <1> QED BY <1>7, <1>8 DEF s, at

-----------------------------------------------------------------------------
(* What the two resamplings do to a word. *)

\* The buffer resampling makes: each word ratio times, at least once.
LEMMA ResampleRepeats ==
    ASSUME TypeOK, NEW S, NEW src \in Seq(S)
    PROVE  resample(src) = digital_interpolation(src, IF Ratio < 2 THEN 1 ELSE Ratio)
  <1>1. CASE Ratio < 2
    <2>1. ASSUME NEW k \in Int PROVE ((k - 1) \div 1) + 1 = k
      OBVIOUS
    <2>2. digital_interpolation(src, 1) = [k \in 1..(Len(src) * 1) |-> src[k]]
      BY <2>1 DEF digital_interpolation
    <2>3. Len(src) * 1 = Len(src)
      OBVIOUS
    <2>4. src = [k \in 1..Len(src) |-> src[k]]
      OBVIOUS
    <2> QED BY <1>1, <2>2, <2>3, <2>4 DEF resample
  <1>2. CASE ~(Ratio < 2)
    BY <1>2 DEF resample
  <1> QED BY <1>1, <1>2

\* The buffer p repeats each word of src r times: its length, and the words it plays.
Repeats(p, src, r) ==
    /\ Len(src) \in Nat /\ Len(src) > 0
    /\ Len(p) = Len(src) * r /\ Len(p) \in Nat /\ Len(p) > 0
    /\ \A m, j \in Nat : j < r => p[Place(Len(src), r, m, j) + 1] = src[(m % Len(src)) + 1]

LEMMA Repeated ==
    ASSUME NEW S, NEW src \in Seq(S), src # <<>>, NEW r \in Nat, r > 0
    PROVE  Repeats(digital_interpolation(src, r), src, r)
  <1> DEFINE n == Len(src)
             all == n * r
  <1>1. n \in Nat /\ n > 0
    OBVIOUS
  <1>3. digital_interpolation(src, r) = [k \in 1..all |-> src[((k - 1) \div r) + 1]]
    BY Zenon DEF digital_interpolation
  <1> HIDE DEF n
  <1>2. all \in Nat /\ all > 0
    <2>1. n - 1 \in Nat /\ n = (n - 1) + 1
      BY <1>1
    <2>2. PICK k \in Nat : n = k + 1
      BY <2>1
    <2>3. ASSUME NEW i \in Nat PROVE (i + 1) * r = i * r + r
      OBVIOUS
    <2>4. k * r \in Nat /\ all = k * r + r
      BY <2>2, <2>3
    <2> HIDE DEF all
    <2> QED BY <2>4
  <1> HIDE DEF all
  <1>4. Len(digital_interpolation(src, r)) = all
    BY <1>2, <1>3
  <1>5. ASSUME NEW m \in Nat, NEW j \in Nat, j < r
        PROVE  digital_interpolation(src, r)[Place(n, r, m, j) + 1] = src[(m % n) + 1]
    <2> DEFINE at == Place(n, r, m, j)
    <2>1. at \div r = m % n /\ at \in Nat /\ at < all
      BY <1>1, <1>5, RepeatedPosition DEF all
    <2> HIDE DEF at
    <2>2. at + 1 \in 1..all /\ (at + 1) - 1 = at
      BY <1>2, <2>1
    <2>3. digital_interpolation(src, r)[at + 1] = src[(((at + 1) - 1) \div r) + 1]
      BY <1>3, <2>2, Zenon
    <2> QED BY <2>1, <2>2, <2>3, Zenon DEF at
  <1> HIDE DEF n, all
  <1>6. /\ n \in Nat /\ n > 0 /\ all \in Nat /\ all > 0 /\ all = n * r
        /\ Len(digital_interpolation(src, r)) = all
        /\ \A m, j \in Nat : j < r =>
             digital_interpolation(src, r)[Place(n, r, m, j) + 1] = src[(m % n) + 1]
    BY <1>1, <1>2, <1>4, <1>5 DEF all
  <1> QED BY <1>6, Zenon DEF n, all, Repeats

\* A group of equal words elects that word.
LEMMA EqualVote ==
    ASSUME NEW r \in Nat, r >= 2, NEW S, NEW group \in Seq(S), Len(group) = r,
           NEW word \in SUBSET Bits, \A j \in 1..r : group[j] = word
    PROVE  {k \in Bits : Majority(group, k)} = word
  <1>1. DOMAIN group = 1..r
    OBVIOUS
  <1>2. ASSUME NEW k \in Bits, k \in word PROVE Majority(group, k)
    <2>1. {j \in DOMAIN group : k \in group[j]} = 1..r
      BY <1>1, <1>2
    <2>2. Cardinality(1..r) = r
      BY FS_Interval
    <2>3. r >= r \div 2
      OBVIOUS
    <2> QED BY <2>1, <2>2, <2>3 DEF Majority
  <1>3. ASSUME NEW k \in Bits, k \notin word PROVE ~Majority(group, k)
    <2>1. {j \in DOMAIN group : k \in group[j]} = {}
      BY <1>1, <1>3
    <2>2. Cardinality({}) = 0
      BY FS_EmptySet
    <2>3. ~(0 >= r \div 2)
      OBVIOUS
    <2> QED BY <2>1, <2>2, <2>3 DEF Majority
  <1> QED BY <1>2, <1>3

\* The i-th of n groups of r samples: where it begins and ends.
LEMMA Group ==
    ASSUME NEW n \in Nat, NEW i \in 1..n, NEW r \in Nat
    PROVE  /\ (i - 1) * r \in Nat /\ i * r = (i - 1) * r + r
           /\ (i - 1) * r + r <= n * r
  <1>1. PICK h \in Nat : i = h + 1
    BY i - 1 \in Nat
  <1>2. PICK k \in Nat : n = h + 1 + k
    <2>1. n - i \in Nat
      OBVIOUS
    <2> QED BY <1>1, <2>1
  <1>3. h * r \in Nat /\ k * r \in Nat /\ n * r = h * r + r + k * r /\ (h + 1) * r = h * r + r
    BY <1>2
  <1>4. i - 1 = h
    BY <1>1
  <1> QED BY <1>1, <1>3, <1>4

\* Decimation makes words of words, one of each group.
LEMMA DecimationTypes ==
    ASSUME NEW src \in Seq(SUBSET Bits), NEW r \in Nat, NEW n \in Nat, Len(src) = n * r
    PROVE  /\ digital_decimation(src, r) \in Seq(SUBSET Bits)
           /\ r > 0 => Len(digital_decimation(src, r)) = n
  <1>1. CASE r < 2
    <2>1. r > 0 => n * r = n
      BY <1>1
    <2> QED BY <1>1, <2>1 DEF digital_decimation
  <1>2. CASE ~(r < 2)
    <2> DEFINE word(i) == {k \in Bits : Majority(SubSeq(src, (i - 1) * r + 1, i * r), k)}
    <2>1. Len(src) \div r = n
      <3>1. n * r = r * n + 0
        OBVIOUS
      <3>2. (r * n + 0) \div r = n
        BY <1>2, QuotRem
      <3> QED BY <3>1, <3>2
    <2>2. digital_decimation(src, r) = [i \in 1..n |-> word(i)]
      BY <1>2, <2>1 DEF digital_decimation
    <2>3. \A i \in 1..n : word(i) \in SUBSET Bits
      OBVIOUS
    <2> HIDE DEF word
    <2> QED BY <2>2, <2>3
  <1> QED BY <1>1, <1>2

-----------------------------------------------------------------------------
(* The digital loop.  While a read is under way, what has been copied and what *)
(* is to be copied make up the samples the input device asked for; at the      *)
(* rate the words were written at, the copied samples are the repetitions of   *)
(* the words from the next one on, and the output device stands where they end. *)

RXTypes ==
    /\ rx_frequency \in RXRates /\ zero_ratio \in ZeroRatios
    /\ len \in Nat /\ half \in {0, 1}
    /\ pbuf \in Seq((SUBSET Bits) \cup {Garbage})
    /\ hWords \in Seq(Words) /\ hNext \in Nat /\ hRatio \in Nat /\ hRatio > 0

ReadCounts == cmd = "read" => Len(samples) + samples_count = len * RXRatio
Silent == cmd # "none" => pbuf = <<>>
Drained == cmd # "read" => samples = <<>>

\* The k-th sample of the read under way, or of the next one: the position, round
\* and round.
ReadPlace(k) == (hNext * hRatio + k - 1) % Len(hPattern)

InLoop ==
    /\ hWords = <<>> => hNext = 0
    /\ hWords # <<>> =>
        /\ hPattern = digital_interpolation(hWords, hRatio)
        /\ hNext < Len(hWords)
        /\ cmd = "read" => RXRatio = hRatio /\ half = 0
        /\ hPos = ReadPlace(Len(samples) + 1)
        /\ \A k \in 1..Len(samples) : samples[k] = hPattern[ReadPlace(k) + 1]

LoopInv == RXTypes /\ ReadCounts /\ Silent /\ Drained /\ InLoop /\ GarbageReads

\* Words are sets of bits, the placeholder's included.
LEMMA SampleTypes == ASSUME TypeOK PROVE samples \in Seq(SUBSET Bits)
  <1>1. Words \cup {{}} \subseteq SUBSET Bits
    BY LogicRXAssumption DEF LogicRXAssumption, Bits
  <1>2. samples \in Seq(Words \cup {{}})
    BY DEF TypeOK
  <1> QED BY <1>1, <1>2

\* The ratio of the input device is a natural, and 0 in the cases of Unfilled.
LEMMA RXRatioType ==
    ASSUME RXTypes
    PROVE  RXRatio \in Nat /\ (Unfilled <=> RXRatio = 0)
  <1>1. rx_frequency \in Nat /\ zero_ratio \in Nat /\ MaxRate \in Nat /\ MaxRate > 0
    BY LogicTXAssumption, LogicRXAssumption DEF LogicTXAssumption, LogicRXAssumption, RXTypes
  <1>2. CASE rx_frequency = 0
    BY <1>1, <1>2 DEF RXRatio, Unfilled
  <1>3. CASE rx_frequency # 0
    <2> DEFINE f == rx_frequency
               q == MaxRate \div f
               m == MaxRate % f
    <2>1. f > 0
      BY <1>1, <1>3
    <2>2. q \in Nat /\ m \in Nat /\ m < f /\ MaxRate = f * q + m
      BY <1>1, <2>1, DivMod
    <2>3. q = 0 => f * q = 0
      BY <1>1
    <2>4. q > 0 => f * q >= f
      BY <1>1, <2>2
    <2>5. f * q \in Nat
      BY <1>1, <2>2
    <2> DEFINE p == f * q
    <2> HIDE DEF p, q, m
    <2>6. f <= MaxRate => q > 0
      BY <1>1, <2>2, <2>3 DEF p
    <2>7. q > 0 => f <= MaxRate
      BY <1>1, <2>2, <2>4, <2>5 DEF p
    <2> QED BY <1>1, <1>3, <2>2, <2>6, <2>7 DEF RXRatio, Unfilled, q
  <1> QED BY <1>2, <1>3

\* The pattern of the loop repeats the words.
LEMMA Pattern ==
    ASSUME RXTypes, InLoop, hWords # <<>>
    PROVE  Repeats(hPattern, hWords, hRatio)
  <1>1. hWords \in Seq(Words) /\ hRatio \in Nat /\ hRatio > 0
    BY DEF RXTypes
  <1>2. hPattern = digital_interpolation(hWords, hRatio)
    BY DEF InLoop
  <1>3. Repeats(digital_interpolation(hWords, hRatio), hWords, hRatio)
    BY <1>1, Repeated
  <1> QED BY <1>2, <1>3

\* Of the samples of a whole read, those of the i-th group are all the i-th word
\* that follows in the loop.
LEMMA GroupOfWord ==
    ASSUME RXTypes, InLoop, hWords # <<>>, Len(samples) = len * hRatio,
           NEW i \in 1..len, NEW j \in Nat, j < hRatio
    PROVE  samples[(i - 1) * hRatio + j + 1] = hWords[((hNext + i - 1) % Len(hWords)) + 1]
  <1> DEFINE r == hRatio
             n == Len(hWords)
             first == (i - 1) * r
             m == hNext + i - 1
             k == first + j + 1
  <1>1. r \in Nat /\ hNext \in Nat /\ len \in Nat /\ i \in Nat /\ i >= 1 /\ m \in Nat
    BY DEF RXTypes
  <1>2. first \in Nat /\ first + r <= len * r
    BY <1>1, Group
  <1>3. k \in 1..Len(samples)
    <2> DEFINE all == len * r
    <2>1. all \in Nat /\ first + r <= all /\ Len(samples) = all
      BY <1>1, <1>2
    <2> HIDE DEF all, first
    <2> QED BY <1>1, <1>2, <2>1
  <1>4. ReadPlace(k) = Place(n, r, m, j)
    <2>1. hNext * r + first = m * r
      <3>1. PICK h \in Nat : i = h + 1
        BY <1>1, i - 1 \in Nat
      <3>2. i - 1 = h /\ m = hNext + h
        BY <1>1, <3>1
      <3>3. hNext * r + h * r = (hNext + h) * r
        BY <1>1
      <3> QED BY <3>2, <3>3
    <2>2. hNext * r \in Nat /\ m * r \in Nat
      BY <1>1
    <2> DEFINE a == hNext * r
               b == m * r
    <2>3. a + k - 1 = b + j
      <3>1. a + first = b /\ a \in Nat /\ b \in Nat
        BY <2>1, <2>2
      <3> HIDE DEF a, b, first
      <3> QED BY <1>2, <3>1
    <2>4. Len(hPattern) = n * r
      BY Pattern DEF Repeats
    <2> HIDE DEF a, b, k
    <2>5. (a + k - 1) % Len(hPattern) = (b + j) % (n * r)
      BY <2>3, <2>4
    <2> QED BY <2>5 DEF ReadPlace, Place, a, b
  <1>5. samples[k] = hPattern[ReadPlace(k) + 1]
    <2> HIDE DEF k
    <2> QED BY <1>3 DEF InLoop
  <1>6. hPattern[Place(n, r, m, j) + 1] = hWords[(m % n) + 1]
    <2>1. \A p, q \in Nat : q < r => hPattern[Place(n, r, p, q) + 1] = hWords[(p % n) + 1]
      BY Pattern DEF Repeats
    <2> HIDE DEF m, n, r
    <2>2. j < r
      BY DEF r
    <2> QED BY <1>1, <2>1, <2>2, Zenon
  <1> HIDE DEF k, m
  <1>7. samples[k] = hWords[(m % n) + 1]
    BY <1>4, <1>5, <1>6
  <1> QED BY <1>7 DEF k, m

\* Cutting r samples out of a sequence.
LEMMA Cut ==
    ASSUME NEW S, NEW s \in Seq(S), NEW first \in Nat, NEW r \in Nat, first + r <= Len(s)
    PROVE  /\ SubSeq(s, first + 1, first + r) \in Seq(S)
           /\ Len(SubSeq(s, first + 1, first + r)) = r
           /\ \A j \in 1..r : SubSeq(s, first + 1, first + r)[j] = s[first + j]
  <1>1. first + 1 \in Nat /\ first + r \in Nat /\ Len(s) \in Nat
    OBVIOUS
  <1>2. \A i \in (first + 1)..(first + r) : s[i] \in S
    BY <1>1
  <1> QED BY <1>1, <1>2

\* Decimating the samples of a whole read gives the words that follow.
LEMMA DecimationReads ==
    ASSUME TypeOK, RXTypes, InLoop, hWords # <<>>, Len(samples) = len * hRatio, NEW i \in 1..len
    PROVE  digital_decimation(samples, hRatio)[i] = hWords[((hNext + i - 1) % Len(hWords)) + 1]
  <1> DEFINE r == hRatio
             word == hWords[((hNext + i - 1) % Len(hWords)) + 1]
             first == (i - 1) * r
  <1>1. r \in Nat /\ r > 0 /\ len \in Nat /\ i \in Nat /\ i >= 1 /\ i <= len
    BY DEF RXTypes
  <1>2. samples \in Seq(SUBSET Bits)
    BY SampleTypes
  <1>3. \A j \in Nat : j < r => samples[first + j + 1] = word
    BY GroupOfWord
  <1> HIDE DEF word
  <1>4. CASE r < 2
    <2>1. r = 1 /\ first = i - 1
      BY <1>1, <1>4
    <2> HIDE DEF first
    <2>2. samples[i] = word
      <3>1. samples[first + 0 + 1] = word
        BY <1>1, <1>3
      <3>2. first + 0 + 1 = i
        BY <1>1, <2>1
      <3> QED BY <3>1, <3>2
    <2> QED BY <1>4, <2>2 DEF digital_decimation, word
  <1>5. CASE ~(r < 2)
    <2> DEFINE group == SubSeq(samples, first + 1, i * r)
    <2>1. first \in Nat /\ i * r = first + r /\ first + r <= len * r
      BY <1>1, Group
    <2>2. Len(samples) = len * r /\ Len(samples) \in Nat
      BY <1>2
    <2>3. group = SubSeq(samples, first + 1, first + r)
      BY <2>1
    <2>4. /\ group \in Seq(SUBSET Bits) /\ Len(group) = r
          /\ \A j \in 1..r : group[j] = samples[first + j]
      <3>1. first + r <= Len(samples)
        BY <2>1, <2>2
      <3> HIDE DEF group, first, r
      <3> QED BY <1>1, <1>2, <2>1, <2>2, <2>3, <3>1, Cut
    <2> HIDE DEF group
    <2>5. \A j \in 1..r : group[j] = word
      <3> TAKE j \in 1..r
      <3>1. j - 1 \in Nat /\ j - 1 < r /\ j \in Int
        BY <1>1
      <3>2. samples[first + (j - 1) + 1] = word
        BY <1>3, <3>1
      <3> HIDE DEF first
      <3>3. first + (j - 1) + 1 = first + j
        BY <2>1, <3>1
      <3> QED BY <2>4, <3>2, <3>3
    <2>6. word \in SUBSET Bits
      <3>1. 1 \in 1..r
        BY <1>1
      <3>2. group[1] \in SUBSET Bits
        BY <1>1, <2>4, <3>1
      <3> QED BY <2>5, <3>1, <3>2
    <2>7. {k \in Bits : Majority(group, k)} = word
      BY <1>1, <1>5, <2>4, <2>5, <2>6, EqualVote
    <2>8. Len(samples) \div r = len
      <3>1. len * r = r * len + 0
        BY <1>1
      <3>2. (r * len + 0) \div r = len
        BY <1>1, QuotRem
      <3> QED BY <2>2, <3>1, <3>2
    <2>9. digital_decimation(samples, r)[i]
            = {k \in Bits : Majority(SubSeq(samples, (i - 1) * r + 1, i * r), k)}
      BY <1>5, <2>8 DEF digital_decimation
    <2> QED BY <2>7, <2>9 DEF group, word
  <1> QED BY <1>4, <1>5

\* What READBUF answers when it has all its samples.
Decimated == digital_decimation(samples, RXRatio)

\* An answer is made of words, unless the ratio is 0, and of a half word at the end
\* of an odd number of bytes.
LEMMA AnswerTypes ==
    ASSUME TypeOK, RXTypes, ReadCounts, Answer
    PROVE  /\ pbuf' \in Seq((SUBSET Bits) \cup {Garbage})
           /\ RXRatio > 0 => \A i \in 1..len : pbuf'[i] = Decimated[i] /\ pbuf'[i] \in SUBSET Bits
           /\ \A i \in 1..(len + half) : i > len \/ RXRatio = 0 => pbuf'[i] = Garbage
           /\ Len(pbuf') = len + half
  <1> DEFINE word(i) == IF i <= Len(Decimated) THEN Decimated[i] ELSE Garbage
  <1>1. cmd = "read" /\ samples_count = 0
    BY DEF Answer, EndRead
  <1>2. /\ samples \in Seq(SUBSET Bits) /\ RXRatio \in Nat /\ len \in Nat /\ half \in Nat
        /\ Len(samples) \in Nat /\ len + half \in Nat
    BY SampleTypes, RXRatioType DEF RXTypes
  <1>3. Len(samples) = len * RXRatio
    BY <1>1, <1>2 DEF ReadCounts
  <1>4. /\ Decimated \in Seq(SUBSET Bits) /\ Len(Decimated) \in Nat
        /\ RXRatio > 0 => Len(Decimated) = len
        /\ RXRatio = 0 => Len(Decimated) = 0
    <2>1. Decimated \in Seq(SUBSET Bits) /\ (RXRatio > 0 => Len(Decimated) = len)
      BY <1>2, <1>3, DecimationTypes DEF Decimated
    <2>2. RXRatio = 0 => Len(samples) = 0
      BY <1>2, <1>3
    <2>3. RXRatio = 0 => Decimated = samples
      BY DEF Decimated, digital_decimation
    <2>4. Len(Decimated) \in Nat
      BY <2>1
    <2> QED BY <2>1, <2>2, <2>3, <2>4
  <1>5. pbuf' = [i \in 1..(len + half) |-> word(i)]
    BY DEF Answer, Decimated
  <1>6. ASSUME NEW i \in 1..(len + half)
        PROVE  /\ word(i) \in (SUBSET Bits) \cup {Garbage}
               /\ RXRatio > 0 /\ i <= len => word(i) = Decimated[i] /\ word(i) \in SUBSET Bits
               /\ i > len \/ RXRatio = 0 => word(i) = Garbage
    <2>1. i \in Nat /\ i >= 1
      BY <1>2
    <2>2. i <= Len(Decimated) => i \in DOMAIN Decimated
      BY <1>4, <2>1
    <2>3. i <= Len(Decimated) => Decimated[i] \in SUBSET Bits
      BY <1>4, <2>2
    <2> QED BY <1>2, <1>4, <2>1, <2>3
  <1> HIDE DEF word
  <1>7. pbuf' \in Seq((SUBSET Bits) \cup {Garbage}) /\ Len(pbuf') = len + half
    BY <1>2, <1>5, <1>6
  <1>8. \A i \in 1..(len + half) : pbuf'[i] = word(i)
    BY <1>5
  <1>9. \A i \in 1..len : i \in 1..(len + half) /\ i <= len
    BY <1>2
  <1> QED BY <1>6, <1>7, <1>8, <1>9

-----------------------------------------------------------------------------
(* The invariant of the loop is inductive. *)

\* A connected pair starts with an empty loop.
LEMMA InitLoopInv == RXInit => LoopInv
  <1> SUFFICES ASSUME RXInit PROVE LoopInv
    OBVIOUS
  <1>1. \A S : <<>> \in Seq(S)
    OBVIOUS
  <1>2. /\ rx_frequency \in RXRates /\ zero_ratio \in ZeroRatios
        /\ len = 0 /\ half = 0 /\ pbuf = <<>> /\ hWords = <<>> /\ hNext = 0
        /\ hRatio = 1 /\ cmd = "none" /\ samples = <<>>
    BY DEF RXInit, Init
  <1>3. RXTypes
    BY <1>1, <1>2 DEF RXTypes
  <1>4. GarbageReads
    <2>1. DOMAIN pbuf = {}
      BY <1>2
    <2> QED BY <2>1 DEF GarbageReads
  <1>5. ReadCounts /\ Silent /\ Drained /\ InLoop
    BY <1>2 DEF ReadCounts, Silent, Drained, InLoop
  <1> QED BY <1>3, <1>4, <1>5 DEF LoopInv

\* A client writes the attribute between two commands.
LEMMA WriteRXAttr_LoopInv == ASSUME LoopInv, NEW rate \in RXRates, WriteRXAttr(rate) PROVE LoopInv'
  <1>1. /\ cmd = "none" /\ pbuf = <<>> /\ rx_frequency' = rate /\ zero_ratio' \in ZeroRatios
        /\ UNCHANGED <<cmd, samples, samples_count, hPattern, hPos, len, half, pbuf, hWords, hNext, hRatio>>
    BY DEF WriteRXAttr, vars, read, history, rxHistory
  <1>2. RXTypes' /\ Silent' /\ Drained' /\ ReadCounts'
    BY <1>1 DEF LoopInv, RXTypes, Silent, Drained, ReadCounts
  <1>3. InLoop'
    <2>1. \A k : ReadPlace(k)' = ReadPlace(k)
      BY <1>1 DEF ReadPlace
    <2> QED BY <1>1, <2>1 DEF LoopInv, InLoop, ReadPlace
  <1>4. GarbageReads'
    <2>1. DOMAIN pbuf' = {}
      BY <1>1
    <2> QED BY <2>1 DEF GarbageReads
  <1> QED BY <1>2, <1>3, <1>4 DEF LoopInv

\* A READBUF begins: it asks for as many samples as its words are made of.
LEMMA read_dev_LoopInv == ASSUME TypeOK, LoopInv, NEW n \in 0..MaxLen, read_dev(n) PROVE LoopInv'
  <1> DEFINE w == n \div 2
             h == n % 2
  <1>0. w \in Nat /\ h \in {0, 1}
    <2>1. n \in Nat
      BY LogicRXAssumption DEF LogicRXAssumption
    <2> QED BY <2>1
  <1>1. /\ cmd = "none" /\ cmd' = "read" /\ samples' = <<>> /\ samples_count' = w * RXRatio
        /\ len' = w /\ half' = h /\ pbuf = <<>>
        /\ UNCHANGED <<hPattern, hPos, rx_frequency, zero_ratio, pbuf, hRatio>>
        /\ \/ RXRatio = hRatio /\ half' = 0 /\ UNCHANGED <<hWords, hNext>>
           \/ hWords' = <<>> /\ hNext' = 0
    BY DEF read_dev, BeginRead, SamplesToRead, rxHistory
  <1> HIDE DEF w, h
  <1>2. samples = <<>> /\ RXTypes
    BY <1>1 DEF LoopInv, Drained
  <1>3. RXTypes'
    <2>1. <<>> \in Seq(Words)
      OBVIOUS
    <2>2. (hWords' = hWords \/ hWords' = <<>>) /\ (hNext' = hNext \/ hNext' = 0)
      BY <1>1
    <2>3. hWords \in Seq(Words) /\ hNext \in Nat
      BY <1>2 DEF RXTypes
    <2>4. hWords' \in Seq(Words)
      BY <2>1, <2>2, <2>3, Zenon
    <2>5. hNext' \in Nat
      BY <2>2, <2>3
    <2> QED BY <1>0, <1>1, <1>2, <2>4, <2>5 DEF RXTypes
  <1>4. RXRatio' = RXRatio
    BY <1>1 DEF RXRatio
  <1>5. ReadCounts'
    <2>1. RXRatio \in Nat
      BY <1>2, RXRatioType
    <2>2. w * RXRatio \in Nat
      BY <1>0, <2>1
    <2>3. Len(samples') = 0
      BY <1>1
    <2> QED BY <1>1, <1>4, <2>2, <2>3 DEF ReadCounts
  <1>6. Silent' /\ Drained'
    BY <1>1 DEF Silent, Drained
  <1>7. InLoop'
    <2>1. CASE hWords' = <<>>
      BY <1>1, <1>2, <2>1 DEF LoopInv, InLoop
    <2>2. CASE hWords' # <<>>
      <3>1. RXRatio = hRatio /\ half' = 0 /\ UNCHANGED <<hWords, hNext>>
        BY <1>1, <2>2
      <3>2. \A k : ReadPlace(k)' = ReadPlace(k)
        BY <1>1, <3>1 DEF ReadPlace
      <3>3. samples' = samples
        BY <1>1, <1>2
      <3> QED BY <1>1, <1>4, <2>2, <3>1, <3>2, <3>3 DEF LoopInv, InLoop
    <2> QED BY <2>1, <2>2
  <1>8. GarbageReads'
    <2>1. DOMAIN pbuf' = {}
      BY <1>1
    <2> QED BY <2>1 DEF GarbageReads
  <1> QED BY <1>3, <1>5, <1>6, <1>7, <1>8 DEF LoopInv

\* The answer moves the loop on by the words it holds.
LEMMA Answer_LoopInv == ASSUME TypeOK, LoopInv, Answer PROVE LoopInv'
  <1>1. /\ cmd = "read" /\ cmd' = "none" /\ samples_count = 0 /\ samples' = <<>> /\ len' = 0
        /\ hNext' = IF hWords = <<>> THEN 0 ELSE (hNext + len) % Len(hWords)
        /\ UNCHANGED <<hPattern, hPos, rx_frequency, zero_ratio, half, hWords, hRatio>>
    BY DEF Answer, EndRead, history
  <1>2. RXTypes /\ ReadCounts /\ InLoop
    BY DEF LoopInv
  <1>3. /\ pbuf' \in Seq((SUBSET Bits) \cup {Garbage}) /\ Len(pbuf') = len + half
        /\ RXRatio > 0 => \A i \in 1..len : pbuf'[i] \in SUBSET Bits
        /\ \A i \in 1..(len + half) : i > len \/ RXRatio = 0 => pbuf'[i] = Garbage
    BY <1>2, AnswerTypes
  <1>4. len \in Nat /\ half \in {0, 1} /\ hNext \in Nat /\ hRatio \in Nat /\ hRatio > 0
    BY <1>2 DEF RXTypes
  <1>5. GarbageReads'
    <2>1. DOMAIN pbuf' = 1..(len + half)
      BY <1>3
    <2>2. Garbage \notin SUBSET Bits
      BY LogicRXAssumption DEF LogicRXAssumption, Bits
    <2>3. RXRatio \in Nat /\ (Unfilled <=> RXRatio = 0)
      BY <1>2, RXRatioType
    <2>4. Unfilled' <=> Unfilled
      BY <1>1 DEF Unfilled
    <2>5. ASSUME NEW i \in 1..(len + half)
          PROVE  pbuf'[i] = Garbage <=> Unfilled \/ (half = 1 /\ i = len + half)
      <3>1. CASE RXRatio = 0
        BY <1>3, <2>3, <3>1
      <3>2. CASE RXRatio > 0 /\ i <= len
        <4>1. pbuf'[i] \in SUBSET Bits
          BY <1>3, <1>4, <3>2
        <4>2. pbuf'[i] # Garbage
          BY <2>2, <4>1, Zenon
        <4>3. ~(half = 1 /\ i = len + half)
          BY <1>4, <3>2
        <4> QED BY <2>3, <3>2, <4>2, <4>3
      <3>3. CASE RXRatio > 0 /\ ~(i <= len)
        <4>1. half = 1 /\ i = len + half /\ i > len
          BY <1>4, <3>3
        <4> QED BY <1>3, <4>1
      <3> QED BY <2>3, <3>1, <3>2, <3>3
    <2> QED BY <1>1, <1>3, <2>1, <2>4, <2>5 DEF GarbageReads
  <1>6. CASE hWords = <<>>
    <2>1. RXTypes'
      BY <1>1, <1>2, <1>3, <1>6 DEF RXTypes
    <2>2. ReadCounts' /\ Silent' /\ Drained' /\ InLoop'
      BY <1>1, <1>6 DEF ReadCounts, Silent, Drained, InLoop
    <2> QED BY <1>5, <2>1, <2>2 DEF LoopInv
  <1>7. CASE hWords # <<>>
    <2> DEFINE N == Len(hWords)
               r == hRatio
               next == (hNext + len) % N
    <2>1. N \in Nat /\ N > 0 /\ Len(hPattern) = N * r /\ N * r \in Nat /\ N * r > 0
      BY <1>2, <1>7, Pattern DEF Repeats
    <2>2. next \in Nat /\ next < N /\ hNext' = next
      BY <1>1, <1>4, <1>7, <2>1, DivMod
    <2>3. RXTypes'
      BY <1>1, <1>2, <1>3, <2>2 DEF RXTypes
    <2>4. hPos = next * r /\ next * r < N * r /\ next * r \in Nat
      <3> DEFINE m == hNext + len
      <3>1. RXRatio = r /\ Len(samples) = len * r
        <4>1. RXRatio = r /\ Len(samples) + 0 = len * RXRatio
          BY <1>1, <1>2, <1>7 DEF InLoop, ReadCounts
        <4> QED BY <4>1, SampleTypes
      <3>2. hPos = (hNext * r + (Len(samples) + 1) - 1) % (N * r)
        BY <1>2, <1>7, <2>1 DEF InLoop, ReadPlace
      <3>3. hNext * r + ((len * r) + 1) - 1 = (hNext + len) * r + 0
        BY <1>4
      <3>4. hPos = Place(N, r, hNext + len, 0)
        <4> HIDE DEF N, r
        <4> QED BY <3>1, <3>2, <3>3 DEF Place
      <3>5. m \in Nat /\ next = m % N
        BY <1>4
      <3> HIDE DEF N, m, next
      <3>6. /\ Place(N, r, m, 0) = (m % N) * r + 0
            /\ Place(N, r, m, 0) \in Nat /\ Place(N, r, m, 0) < N * r
        BY <1>4, <2>1, <3>5, RepeatedPosition
      <3>7. next * r \in Nat
        BY <1>4, <2>2
      <3>8. hPos = next * r + 0 /\ hPos \in Nat /\ hPos < N * r
        BY <3>4, <3>5, <3>6 DEF m
      <3> QED BY <3>7, <3>8
    <2>5. hPos = (hNext * r + 0)' % (N * r)
      <3> DEFINE a == next * r
                 b == N * r
      <3>1. a \in Nat /\ b \in Nat /\ a < b /\ hPos = a
        BY <2>1, <2>4
      <3>2. (hNext * r + 0)' = a
        BY <1>1, <2>2, <3>1
      <3> HIDE DEF a, b
      <3>3. a % b = a
        BY <3>1
      <3> QED BY <3>1, <3>2, <3>3 DEF b
    <2>6. InLoop'
      <3>1. Len(samples') = 0 /\ 1..0 = {}
        BY <1>1
      <3>2. (ReadPlace(Len(samples) + 1) = hPos)'
        <4>1. (hNext' * r + (0 + 1) - 1) % Len(hPattern) = hPos
          <5>1. hNext' * r + (0 + 1) - 1 = hNext' * r + 0
            BY <1>4, <2>2
          <5> QED BY <1>1, <2>1, <2>5, <5>1
        <4> QED BY <1>1, <3>1, <4>1 DEF ReadPlace
      <3>3. hPattern' = digital_interpolation(hWords', hRatio') /\ hNext' < Len(hWords')
        BY <1>1, <1>2, <1>7, <2>2 DEF InLoop
      <3> QED BY <1>1, <1>7, <3>1, <3>2, <3>3 DEF InLoop
    <2>7. ReadCounts' /\ Silent' /\ Drained'
      BY <1>1 DEF ReadCounts, Silent, Drained
    <2> QED BY <1>5, <2>3, <2>6, <2>7 DEF LoopInv
  <1> QED BY <1>6, <1>7

\* The answer leaves.
LEMMA Sent_LoopInv == ASSUME LoopInv, Sent PROVE LoopInv'
  <1>1. /\ pbuf' = <<>> /\ half' = 0
        /\ UNCHANGED <<cmd, samples, samples_count, hPattern, hPos, rx_frequency, zero_ratio, len, hWords,
                       hNext, hRatio>>
    BY DEF Sent, vars, read, history, rxHistory
  <1>2. RXTypes' /\ Silent' /\ Drained'
    <2>1. pbuf' \in Seq((SUBSET Bits) \cup {Garbage})
      BY <1>1
    <2> QED BY <1>1, <2>1 DEF LoopInv, RXTypes, Silent, Drained
  <1>3. ReadCounts' /\ InLoop'
    BY <1>1 DEF LoopInv, ReadCounts, RXRatio, InLoop, ReadPlace
  <1>4. GarbageReads'
    <2>1. DOMAIN pbuf' = {}
      BY <1>1
    <2> QED BY <2>1 DEF GarbageReads
  <1> QED BY <1>2, <1>3, <1>4 DEF LoopInv

\* The words written become the ones to read, from the first one on.
LEMMA TXTransfer_LoopInv == ASSUME TypeOK, LoopInv, TXTransfer PROVE LoopInv'
  <1>1. /\ cmd \in {"none", "writebuf"} /\ cmd' = "none" /\ pbuf = <<>>
        /\ hPattern' = IF hClean THEN resample(hWritten) ELSE <<>>
        /\ hPos' = 0 /\ hNext' = 0
        /\ hWords' = IF hClean THEN hWritten ELSE <<>>
        /\ hRatio' = IF Ratio < 2 THEN 1 ELSE Ratio
        /\ UNCHANGED <<samples, samples_count, rx_frequency, zero_ratio, len, half, pbuf>>
    BY DEF TXTransfer, transfer_mem_to_dev, read, rx
  <1>2. samples' = <<>>
    BY <1>1 DEF LoopInv, Drained
  <1>3. RXTypes'
    <2>1. hRatio' \in Nat /\ hRatio' > 0
      BY <1>1, RatioType
    <2>2. <<>> \in Seq(Words)
      OBVIOUS
    <2>3. hWritten \in Seq(Words)
      BY DEF TypeOK
    <2>4. hWords' \in Seq(Words)
      BY <1>1, <2>2, <2>3, Zenon
    <2> QED BY <1>1, <2>1, <2>4 DEF LoopInv, RXTypes
  <1>4. ReadCounts' /\ Silent' /\ Drained'
    BY <1>1, <1>2 DEF ReadCounts, Silent, Drained
  <1>5. InLoop'
    <2>1. CASE hWords' = <<>>
      BY <1>1, <2>1 DEF InLoop
    <2>2. CASE hWords' # <<>>
      <3>1. hClean /\ hWords' = hWritten /\ hPattern' = resample(hWritten)
        BY <1>1, <2>2
      <3>2. hWritten \in Seq(Words)
        BY DEF TypeOK
      <3>3. resample(hWritten) = digital_interpolation(hWritten, IF Ratio < 2 THEN 1 ELSE Ratio)
        BY <3>2, ResampleRepeats
      <3>4. hPattern' = digital_interpolation(hWords', hRatio')
        BY <1>1, <3>1, <3>3
      <3>5. hRatio' \in Nat /\ hRatio' > 0
        BY <1>3 DEF RXTypes
      <3>6. Repeats(hPattern', hWords', hRatio')
        BY <2>2, <3>1, <3>2, <3>4, <3>5, Repeated
      <3>7. Len(hPattern') \in Nat /\ Len(hPattern') > 0 /\ Len(hWords') > 0
        BY <3>6 DEF Repeats
      <3>8. Len(samples') = 0 /\ 1..0 = {}
        BY <1>2
      <3>9. (ReadPlace(Len(samples) + 1) = hPos)'
        <4>1. ASSUME NEW i \in Nat PROVE 0 * i + (0 + 1) - 1 = 0
          <5>1. 0 * i = 0
            OBVIOUS
          <5> QED BY <5>1
        <4>2. 0 * hRatio' + (0 + 1) - 1 = 0
          BY <3>5, <4>1
        <4>3. 0 % Len(hPattern') = 0
          BY <3>7
        <4> QED BY <1>1, <3>8, <4>2, <4>3 DEF ReadPlace
      <3> QED BY <1>1, <2>2, <3>4, <3>7, <3>8, <3>9 DEF InLoop
    <2> QED BY <2>1, <2>2
  <1>6. GarbageReads'
    BY <1>1 DEF LoopInv, GarbageReads, Unfilled
  <1> QED BY <1>3, <1>4, <1>5, <1>6 DEF LoopInv

\* The copied word is the one at the place that follows, and the index moves on.
LEMMA CopyWord_InLoop ==
    ASSUME IInv, LoopInv, CopyWord, hPattern # <<>>, hWords # <<>>,
           UNCHANGED <<hWords, hNext, hRatio, rx_frequency, zero_ratio, half>>
    PROVE  InLoop'
  <1> DEFINE L == Len(hPattern)
             start == hNext * hRatio
             done == Len(samples)
  <1>1. /\ samples' = Append(samples, m_samples[m_current_index + 1])
        /\ hPos' = (hPos + 1) % L /\ hPattern' = hPattern /\ cmd' = cmd /\ cmd = "read"
    BY DEF CopyWord
  <1>2. /\ RXTypes /\ InLoop /\ samples \in Seq(Words \cup {{}}) /\ done \in Nat
        /\ m_samples = hPattern /\ m_current_index = hPos
    BY DEF LoopInv, IInv, TypeOK, AcceptedBufferPlays
  <1>3. start \in Nat
    BY <1>2 DEF RXTypes
  <1>4. L \in Nat /\ L > 0
    BY <1>2, Pattern DEF Repeats
  <1> HIDE DEF L, start, done
  <1>5. \A k : ReadPlace(k)' = ReadPlace(k)
    BY <1>1 DEF ReadPlace
  <1>6. \A k : ReadPlace(k) = (start + k - 1) % L
    BY DEF ReadPlace, L, start
  <1>7. hPos = ReadPlace(done + 1)
    BY <1>2 DEF InLoop, done
  <1>8. samples' = Append(samples, hPattern[ReadPlace(done + 1) + 1])
    BY <1>1, <1>2, <1>7
  <1>9. /\ Len(samples') = done + 1
        /\ \A k \in 1..done : samples'[k] = samples[k]
        /\ samples'[done + 1] = hPattern[ReadPlace(done + 1) + 1]
    BY <1>2, <1>8 DEF done
  <1>10. hPos' = ReadPlace(done + 1 + 1)
    <2>1. start + done \in Nat /\ start + (done + 1) - 1 = start + done
          /\ start + (done + 1 + 1) - 1 = start + done + 1
      BY <1>2, <1>3
    <2>2. (((start + done) % L) + 1) % L = (start + done + 1) % L
      BY <1>4, <2>1, NextRemainder
    <2> QED BY <1>1, <1>6, <1>7, <2>1, <2>2 DEF L
  <1>11. \A k \in 1..(done + 1) : samples'[k] = hPattern[ReadPlace(k) + 1]
    <2> TAKE k \in 1..(done + 1)
    <2>1. CASE k = done + 1
      BY <1>9, <2>1
    <2>2. CASE k # done + 1
      <3>1. k \in 1..done
        BY <1>2, <2>2
      <3>2. samples[k] = hPattern[ReadPlace(k) + 1]
        BY <1>2, <3>1 DEF InLoop, done
      <3> QED BY <1>9, <3>1, <3>2
    <2> QED BY <2>1, <2>2
  <1>12. RXRatio' = RXRatio
    BY DEF RXRatio
  <1>13. /\ hPattern' = digital_interpolation(hWords', hRatio')
         /\ hNext' < Len(hWords') /\ (cmd' = "read" => RXRatio' = hRatio' /\ half' = 0)
    BY <1>1, <1>2, <1>12 DEF InLoop
  <1>14. hPos' = ReadPlace(Len(samples) + 1)'
    BY <1>5, <1>9, <1>10
  <1>15. \A k \in 1..Len(samples') : samples'[k] = hPattern'[ReadPlace(k)' + 1]
    BY <1>1, <1>5, <1>9, <1>11
  <1> QED BY <1>13, <1>14, <1>15 DEF InLoop

\* Another step of the output device keeps the words, or withdraws them.
LEMMA TXStep_LoopInv == ASSUME IInv, LoopInv, TXStep PROVE LoopInv'
  <1>1. /\ pbuf = <<>> /\ UNCHANGED <<rx_frequency, zero_ratio, len, half, pbuf, hRatio>>
        /\ hWords' = IF hPattern' = <<>> THEN <<>> ELSE hWords
        /\ hNext' = IF hPattern' = <<>> THEN 0 ELSE hNext
    BY DEF TXStep, rx
  <1>2. RXTypes' /\ GarbageReads'
    <2>1. <<>> \in Seq(Words)
      OBVIOUS
    <2>2. hWords' \in Seq(Words) /\ hNext' \in Nat
      <3>1. hWords \in Seq(Words) /\ hNext \in Nat
        BY DEF LoopInv, RXTypes
      <3>2. hWords' \in Seq(Words)
        BY <1>1, <2>1, <3>1, Zenon
      <3> QED BY <1>1, <3>1, <3>2
    <2> QED BY <1>1, <2>2 DEF LoopInv, RXTypes, GarbageReads, Unfilled
  <1>3. Silent'
    BY <1>1 DEF Silent
  <1>4. RXRatio' = RXRatio
    BY <1>1 DEF RXRatio
  <1>5. (hWords = <<>> \/ hPattern' = <<>>) => InLoop'
    BY <1>1 DEF LoopInv, InLoop
  <1>6. CASE CopyWord
    <2>1. /\ samples_count' = samples_count - 1 /\ samples_count > 0 /\ hPattern' = hPattern
          /\ samples' = Append(samples, m_samples[m_current_index + 1]) /\ cmd' = cmd
      BY <1>6 DEF CopyWord
    <2>2. Len(samples') = Len(samples) + 1 /\ Len(samples) \in Nat /\ samples_count \in Nat
      BY <2>1 DEF IInv, TypeOK
    <2>3. ReadCounts' /\ Drained'
      <3>1. cmd = "read"
        BY <1>6 DEF CopyWord
      <3>2. Len(samples') + samples_count' = Len(samples) + samples_count
        BY <2>1, <2>2
      <3> QED BY <1>1, <1>4, <2>1, <3>1, <3>2 DEF LoopInv, ReadCounts, Drained
    <2>4. hPattern # <<>> /\ hWords # <<>> => InLoop'
      <3> SUFFICES ASSUME hPattern # <<>>, hWords # <<>> PROVE InLoop'
        OBVIOUS
      <3>1. UNCHANGED <<hWords, hNext, hRatio, rx_frequency, zero_ratio, half>>
        BY <1>1, <2>1
      <3> QED BY <1>6, <3>1, CopyWord_InLoop
    <2> QED BY <1>2, <1>3, <1>5, <2>1, <2>3, <2>4 DEF LoopInv
  <1>7. CASE ~CopyWord
    <2>1. /\ UNCHANGED <<samples, samples_count>>
          /\ hPattern' = <<>> \/ UNCHANGED <<hPattern, hPos>>
          /\ cmd' = cmd \/ (cmd # "read" /\ cmd' # "read")
      BY <1>7 DEF TXStep, WriteAttr, cancel_buffer, write_dev, CutOff, Dies, read, history
    <2>2. ReadCounts' /\ Drained'
      BY <1>1, <1>4, <2>1 DEF LoopInv, ReadCounts, Drained
    <2>3. InLoop'
      <3> SUFFICES ASSUME hWords # <<>>, hPattern' # <<>> PROVE InLoop'
        BY <1>5
      <3>1. UNCHANGED <<hWords, hNext, hPattern, hPos>>
        BY <1>1, <2>1
      <3>2. \A k : ReadPlace(k)' = ReadPlace(k)
        BY <1>1, <3>1 DEF ReadPlace
      <3> QED BY <1>1, <1>4, <2>1, <3>1, <3>2 DEF LoopInv, InLoop
    <2> QED BY <1>2, <1>3, <2>2, <2>3 DEF LoopInv
  <1> QED BY <1>6, <1>7

\* So does every step.
LEMMA NextLoopInv == IInv /\ LoopInv /\ [RXNext]_allVars => LoopInv'
  <1> SUFFICES ASSUME IInv, LoopInv, [RXNext]_allVars PROVE LoopInv'
    OBVIOUS
  <1>1. TypeOK
    BY DEF IInv
  <1>2. CASE UNCHANGED allVars
    <2>1. UNCHANGED <<cmd, samples, samples_count, hPattern, hPos, rx_frequency, zero_ratio,
                      len, half, pbuf, hWords, hNext, hRatio>>
      BY <1>2 DEF allVars, vars, read, history, rx, rxHistory
    <2> QED BY <2>1 DEF LoopInv, RXTypes, ReadCounts, Silent, Drained, RXRatio, InLoop, ReadPlace,
               GarbageReads, Unfilled
  <1> QED
    BY <1>1, <1>2, WriteRXAttr_LoopInv, read_dev_LoopInv, Answer_LoopInv, Sent_LoopInv,
       TXTransfer_LoopInv, TXStep_LoopInv DEF RXNext

\* Both invariants hold of every state of the loop.
LEMMA AlwaysLoopInv == RXSpec => [](IInv /\ LoopInv)
  <1>1. RXInit => LoopInv
    BY InitLoopInv
  <1>2. RXInv => IInv
    BY DEF RXInv
  <1>3. IInv /\ LoopInv /\ [RXNext]_allVars => LoopInv'
    BY NextLoopInv
  <1> QED BY <1>1, <1>2, <1>3, AlwaysRXInv, PTL DEF RXSpec

\* Both devices keep their types: in particular, what the vote makes of the bits of
\* words is a word.
THEOREM TypeCorrect == RXSpec => []RXTypeOK
  <1>1. IInv /\ LoopInv => RXTypeOK
    BY DEF IInv, LoopInv, RXTypes, RXTypeOK
  <1> QED BY <1>1, AlwaysLoopInv, PTL

\* read_dev answers memory that decimation did not fill above 100 MS/s, for a rate
\* that is no number and converts to a ratio of 0, and in the half word at the end of
\* an odd number of bytes: in these cases, and in no other.
THEOREM AnswersAreFilled == RXSpec => []GarbageReads
  <1>1. IInv /\ LoopInv => GarbageReads
    BY DEF LoopInv
  <1> QED BY <1>1, AlwaysLoopInv, PTL

-----------------------------------------------------------------------------
(* The digital loop implements CyclicPlayback of the written words. *)

\* An answer at the rate the words were written at is the words that follow.
LEMMA AnswerIsCyclic == ASSUME IInv, LoopInv, Answer, hWords # <<>> PROVE Loop!Deliver
  <1> DEFINE N == Len(hWords)
  <1>1. TypeOK /\ RXTypes /\ ReadCounts /\ InLoop
    BY DEF IInv, LoopInv
  <1>2. /\ cmd = "read" /\ samples_count = 0 /\ UNCHANGED hWords
        /\ hNext' = (hNext + len) % N /\ pbuf = <<>>
    BY DEF Answer, EndRead, LoopInv, Silent
  <1>3. /\ RXRatio = hRatio /\ half = 0 /\ RXRatio > 0 /\ len \in Nat /\ hRatio \in Nat /\ hNext \in Nat
        /\ hWords \in Seq(Words)
    BY <1>1, <1>2 DEF InLoop, RXTypes
  <1>4. Len(samples) = len * hRatio
    <2>1. Len(samples) + 0 = len * hRatio /\ Len(samples) \in Nat
      BY <1>1, <1>2, <1>3, SampleTypes DEF ReadCounts
    <2> QED BY <2>1
  <1>5. /\ pbuf' \in Seq((SUBSET Bits) \cup {Garbage}) /\ Len(pbuf') = len
        /\ \A i \in 1..len : pbuf'[i] = Decimated[i]
    <2>1. Len(pbuf') = len + half /\ len + 0 = len
      BY <1>1, <1>3, AnswerTypes
    <2> QED BY <1>1, <1>3, <2>1, AnswerTypes
  <1>6. \A i \in 1..len : pbuf'[i] = hWords[((hNext + i - 1) % N) + 1]
    <2>1. \A i \in 1..len : Decimated[i] = hWords[((hNext + i - 1) % N) + 1]
      BY <1>1, <1>3, <1>4, DecimationReads DEF Decimated
    <2> QED BY <1>5, <2>1
  <1>7. pbuf' = Loop!Cyclic(hWords, hNext, len)
    <2>1. pbuf' = [i \in 1..len |-> pbuf'[i]]
      BY <1>5
    <2>2. [i \in 1..len |-> pbuf'[i]] = [i \in 1..len |-> hWords[((hNext + i - 1) % N) + 1]]
      BY <1>6, Zenon
    <2> QED BY <2>1, <2>2, Zenon DEF Loop!Cyclic
  <1> DEFINE answer == Loop!Cyclic(hWords, hNext, len)
             r == Len(pbuf') - Len(pbuf)
  <1>8. r = len /\ r >= 0
    BY <1>2, <1>3, <1>5
  <1>9. pbuf' = pbuf \o answer
    <2>1. answer \in Seq((SUBSET Bits) \cup {Garbage})
      BY <1>5, <1>7
    <2>2. answer = pbuf'
      BY <1>7
    <2> HIDE DEF answer
    <2> QED BY <1>2, <2>1, <2>2
  <1> HIDE DEF r
  <1>10. r >= 0 /\ pbuf' = pbuf \o Loop!Cyclic(hWords, hNext, r) /\ hNext' = (hNext + r) % N
    BY <1>2, <1>8, <1>9
  <1> QED BY <1>2, <1>10, Zenon DEF Loop!Deliver, r

\* As long as a client reads whole words at the rate they were written at, its READBUFs
\* return them round and round, whatever the rate, the length of the buffer and of
\* the reads, and where these end: the loop implements CyclicPlayback.
THEOREM LoopIsCyclic == RXSpec => DigitalLoop
  <1>1. RXInit => Loop!Init
    BY DEF RXInit, Loop!Init
  <1>2. IInv /\ LoopInv /\ (IInv /\ LoopInv)' /\ [RXNext]_allVars => [Loop!Next]_(Loop!vars)
    <2> SUFFICES ASSUME IInv, LoopInv, LoopInv', [RXNext]_allVars
                 PROVE  [Loop!Next]_(Loop!vars)
      OBVIOUS
    <2>1. TXStep => [Loop!Next]_(Loop!vars)
      <3>1. TXStep /\ hPattern' = <<>> => Loop!Withdraw
        BY DEF TXStep, rx, Loop!Withdraw
      <3>2. TXStep /\ hPattern' # <<>> => UNCHANGED Loop!vars
        BY DEF TXStep, rx, Loop!vars
      <3> QED BY <3>1, <3>2 DEF Loop!Next
    <2>2. TXTransfer => Loop!Commit
      <3>1. hWords' \in Seq(Words)
        BY DEF LoopInv, RXTypes
      <3> QED BY <3>1 DEF TXTransfer, rx, Loop!Commit
    <2>3. ASSUME NEW rate \in RXRates, WriteRXAttr(rate) PROVE UNCHANGED Loop!vars
      BY <2>3 DEF WriteRXAttr, rxHistory, Loop!vars
    <2>4. ASSUME NEW n \in 0..MaxLen, read_dev(n) PROVE [Loop!Next]_(Loop!vars)
      BY <2>4 DEF read_dev, rxHistory, Loop!Withdraw, Loop!Next, Loop!vars
    <2>5. Answer => Loop!Deliver \/ Loop!DeliverUnpromised
      <3>1. Answer /\ hWords = <<>> => Loop!DeliverUnpromised
        BY DEF Answer, LoopInv, InLoop, Loop!DeliverUnpromised
      <3> QED BY <3>1, AnswerIsCyclic
    <2>6. Sent => Loop!Begin
      BY DEF Sent, rxHistory, Loop!Begin
    <2>7. UNCHANGED allVars => UNCHANGED Loop!vars
      BY DEF allVars, rx, rxHistory, Loop!vars
    <2> QED BY <2>1, <2>2, <2>3, <2>4, <2>5, <2>6, <2>7 DEF RXNext, Loop!Next
  <1> QED BY <1>1, <1>2, AlwaysLoopInv, PTL DEF RXSpec, DigitalLoop, Loop!Spec
=============================================================================

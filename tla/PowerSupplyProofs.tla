-------------------------- MODULE PowerSupplyProofs --------------------------
(***************************************************************************)
(* Proofs about the power supplies, for every calibration and every number *)
(* a client may write.                                                     *)
(***************************************************************************)
EXTENDS PowerSupply, TLAPS

\* The inductive invariant: the cache of a supply follows its raw, whether the
\* supply is on or not, so that the measurement can be had back from it when it
\* is powered up.
CacheFollowsRaw ==
    \A i \in Supplies : alive /\ hCache[i] => m_ps_current_values[i] = Convert(i, raw[i])

IInv == TypeOK /\ CacheFollowsRaw /\ MeasuresOutput

\* The two conversions turn a number into a number.
LEMMA ConvertType ==
    ASSUME NEW i \in Supplies, NEW value \in Int
    PROVE  Convert(i, value) \in Int
  <1>1. Unit \in Nat /\ Unit > 0
    BY PowerSupplyAssumption DEF PowerSupplyAssumption
  <1>2. Slope[i] * value - Offset[i] \in Int
    <2>1. Slope[i] \in Int /\ Offset[i] \in Int
      BY PowerSupplyAssumption DEF PowerSupplyAssumption
    <2> QED BY <2>1
  <1>3. \A a \in Int : Truncate(a, Unit) \in Int
    BY <1>1 DEF Truncate
  <1> QED BY <1>2, <1>3 DEF Convert

\* What chWriteAttr puts in the measurement of a supply is a number, or the
\* empty text of an empty cache.
LEMMA MeasureType ==
    ASSUME TypeOK, NEW i \in Supplies, NEW down,
           NEW cache \in [Supplies -> Int \cup {Empty}]
    PROVE  Measure(i, down, cache) \in [Supplies -> Int \cup {Empty}]
  BY DEF Measure, TypeOK

\* Nothing is cached and nothing was measured at first.
LEMMA InitIInv == Init => IInv
  BY DEF Init, IInv, TypeOK, CacheFollowsRaw, MeasuresOutput, Supplies

\* A write of raw, proper or stray, replaces the cached value by a number.
LEMMA CacheType ==
    ASSUME TypeOK, NEW i \in Supplies, NEW value \in Raws
    PROVE  [m_ps_current_values EXCEPT ![i] = Convert(i, value)] \in [Supplies -> Int \cup {Empty}]
  <1>1. Convert(i, value) \in Int
    BY ConvertType, PowerSupplyAssumption DEF PowerSupplyAssumption
  <1> QED BY <1>1 DEF TypeOK

\* Every write preserves the inductive invariant.
LEMMA NextIInv == IInv /\ [Next]_vars => IInv'
  <1> SUFFICES ASSUME IInv, [Next]_vars PROVE IInv'
    OBVIOUS
  <1> USE DEF IInv
  <1>1. CASE UNCHANGED vars
    BY <1>1 DEF vars, TypeOK, CacheFollowsRaw, MeasuresOutput
  <1>2. ASSUME NEW i \in Supplies, NEW value \in {0, 1}, WritePowerdown(i, value) PROVE IInv'
    <2>1. TypeOK'
      BY <1>2, MeasureType DEF WritePowerdown, TypeOK
    <2>2. (CacheFollowsRaw /\ MeasuresOutput)'
      BY <1>2 DEF WritePowerdown, Measure, TypeOK, CacheFollowsRaw, MeasuresOutput
    <2> QED BY <2>1, <2>2
  <1>3. ASSUME NEW i \in Supplies, NEW value \in Raws, WriteRaw(i, value) PROVE IInv'
    <2>1. value \in Int
      BY PowerSupplyAssumption DEF PowerSupplyAssumption
    <2>2. TypeOK'
      BY <1>3, <2>1, CacheType, MeasureType DEF WriteRaw, TypeOK
    <2>3. (CacheFollowsRaw /\ MeasuresOutput)'
      BY <1>3, <2>1 DEF WriteRaw, Measure, TypeOK, CacheFollowsRaw, MeasuresOutput
    <2> QED BY <2>2, <2>3
  <1>4. ASSUME NEW i \in Supplies, WriteOther(i) PROVE IInv'
    <2>1. TypeOK'
      BY <1>4, MeasureType DEF WriteOther, TypeOK
    <2>2. (CacheFollowsRaw /\ MeasuresOutput)'
      BY <1>4 DEF WriteOther, Measure, TypeOK, CacheFollowsRaw, MeasuresOutput
    <2> QED BY <2>1, <2>2
  <1>5. ASSUME NEW i \in Supplies, WriteRawThrows(i) PROVE IInv'
    BY <1>5 DEF WriteRawThrows, TypeOK, CacheFollowsRaw, MeasuresOutput
  <1>6. ASSUME NEW i \in Supplies, NEW value \in Raws, NEW down \in {0, 1}, StrayRaw(i, value, down)
        PROVE  IInv'
    <2>1. TypeOK'
      BY <1>6, CacheType, MeasureType DEF StrayRaw, TypeOK
    <2>2. (CacheFollowsRaw /\ MeasuresOutput)'
      BY <1>6 DEF StrayRaw, Measure, TypeOK, CacheFollowsRaw, MeasuresOutput
    <2> QED BY <2>1, <2>2
  <1>7. ASSUME NEW i \in Supplies, NEW down \in {0, 1}, StrayOther(i, down) PROVE IInv'
    <2>1. TypeOK'
      BY <1>7, MeasureType DEF StrayOther, TypeOK
    <2>2. (CacheFollowsRaw /\ MeasuresOutput)'
      BY <1>7 DEF StrayOther, Measure, TypeOK, CacheFollowsRaw, MeasuresOutput
    <2> QED BY <2>1, <2>2
  <1>8. ASSUME NEW i \in Supplies, NEW value \in Raws, WriteMeasured(i, value) PROVE IInv'
    <2>1. value \in Int
      BY PowerSupplyAssumption DEF PowerSupplyAssumption
    <2> QED BY <1>8, <2>1 DEF WriteMeasured, TypeOK, CacheFollowsRaw, MeasuresOutput
  <1>9. CASE StrayRawThrows
    BY <1>9 DEF StrayRawThrows, TypeOK, CacheFollowsRaw, MeasuresOutput
  <1> QED BY <1>1, <1>2, <1>3, <1>4, <1>5, <1>6, <1>7, <1>8, <1>9 DEF Next

\* The attributes and the cache of every supply keep their types.
THEOREM TypeCorrect == Spec => []TypeOK
  <1>1. IInv => TypeOK
    BY DEF IInv
  <1> QED BY <1>1, InitIInv, NextIInv, PTL DEF Spec

\* What a client measures on a supply is what was last written to its raw, or 0
\* while it is powered down, in whatever order the attributes were written.
THEOREM MeasurementCorrect == Spec => []MeasuresOutput
  <1>1. IInv => MeasuresOutput
    BY DEF IInv
  <1> QED BY <1>1, InitIInv, NextIInv, PTL DEF Spec
=============================================================================

----------------------------- MODULE PowerSupply -----------------------------
(***************************************************************************)
(* The power supplies of the emulated ADALM2000                            *)
(* (iiod/context/adalm2000/adalm2000_context.cpp).  A client sets a supply *)
(* through the attributes raw and powerdown of iio:device3 and measures it *)
(* through the attribute raw of iio:device13.  chWriteAttr keeps the two   *)
(* in step: it first does the generic write, then recomputes the           *)
(* measurement from a cached value, on every write to iio:device3, also on *)
(* one the generic write refused.                                          *)
(*                                                                         *)
(* The handlers run one at a time; the clients' orders are what varies.    *)
(***************************************************************************)
EXTENDS Integers

CONSTANTS
    Raws,      \* the numbers clients write to raw
    Slope,     \* the calibration of a supply: the measured code is
    Offset,    \*   (Slope * raw - Offset) / Unit, truncated towards 0
    Unit,
    NaN,       \* a text that is not a number
    Empty      \* the empty text

Supplies == {0, 1}   \* channels voltage0 and voltage1 of iio:device3

ASSUME PowerSupplyAssumption ==
    /\ Raws \subseteq Int
    /\ Slope \in [Supplies -> Nat] /\ Offset \in [Supplies -> Int]
    /\ Unit \in Nat \ {0}
    /\ NaN \notin Int /\ Empty \notin Int

VARIABLES
    raw, powerdown,       \* attributes of the supplies in iio:device3
    measured,             \* attribute raw of their channels in iio:device13
    m_ps_current_values,  \* the measurement of each supply when it is on
    alive,                \* FALSE once an uncaught exception ended the process
    hCache,               \* history: the cached value is that of the last raw
    hMeasured             \* history: the measurement is not disturbed

vars == <<raw, powerdown, measured, m_ps_current_values, alive, hCache, hMeasured>>

Truncate(a, b) == IF a >= 0 THEN a \div b ELSE -((-a) \div b)

\* convertPSDACRawToVolts and convertPSADCVoltsToRaw, one after the other.
Convert(i, value) == Truncate(Slope[i] * value - Offset[i], Unit)

\* The embedded document has both supplies at 0.000000, powered down, and 0 and
\* 2 as measurements; nothing is cached.
Init ==
    /\ raw = [i \in Supplies |-> 0] /\ powerdown = [i \in Supplies |-> 1]
    /\ measured = [i \in Supplies |-> 2 * i]
    /\ m_ps_current_values = [i \in Supplies |-> Empty]
    /\ alive = TRUE
    /\ hCache = [i \in Supplies |-> FALSE] /\ hMeasured = [i \in Supplies |-> FALSE]

\* The measurement that follows from the cache and the powerdown that was read.
Measure(i, down, cache) == [measured EXCEPT ![i] = IF down = 1 THEN 0 ELSE cache[i]]

\* chWriteAttr of iio:device3, powerdown of a supply.
WritePowerdown(i, value) ==
    /\ alive
    /\ powerdown' = [powerdown EXCEPT ![i] = value]
    /\ measured' = Measure(i, value, m_ps_current_values)
    /\ hMeasured' = [hMeasured EXCEPT ![i] = TRUE]
    /\ UNCHANGED <<raw, m_ps_current_values, alive, hCache>>

\* Mutant: a supply that is powered down does not remember the value.
WriteRaw_only_when_on(i, value) ==
    LET cache == IF powerdown[i] = 1 THEN m_ps_current_values
                 ELSE [m_ps_current_values EXCEPT ![i] = Convert(i, value)]
    IN  /\ alive
        /\ raw' = [raw EXCEPT ![i] = value]
        /\ m_ps_current_values' = cache
        /\ measured' = Measure(i, powerdown[i], cache)
        /\ hCache' = [hCache EXCEPT ![i] = TRUE]
        /\ hMeasured' = [hMeasured EXCEPT ![i] = TRUE]
        /\ UNCHANGED <<powerdown, alive>>

\* The same, raw of a supply.
WriteRaw(i, value) ==
    LET cache == [m_ps_current_values EXCEPT ![i] = Convert(i, value)]
    IN  /\ alive
        /\ raw' = [raw EXCEPT ![i] = value]
        /\ m_ps_current_values' = cache
        /\ measured' = Measure(i, powerdown[i], cache)
        /\ hCache' = [hCache EXCEPT ![i] = TRUE]
        /\ hMeasured' = [hMeasured EXCEPT ![i] = TRUE]
        /\ UNCHANGED <<powerdown, alive>>

\* The same, another attribute of a supply.
WriteOther(i) ==
    /\ alive
    /\ measured' = Measure(i, powerdown[i], m_ps_current_values)
    /\ hMeasured' = [hMeasured EXCEPT ![i] = TRUE]
    /\ UNCHANGED <<raw, powerdown, m_ps_current_values, alive, hCache>>

\* Mutant: the text is cached and measured as it came.
WriteRawThrows_unparsed(i) ==
    /\ alive
    /\ raw' = [raw EXCEPT ![i] = NaN]
    /\ m_ps_current_values' = [m_ps_current_values EXCEPT ![i] = NaN]
    /\ UNCHANGED <<powerdown, measured, alive, hCache, hMeasured>>

\* std::stoi throws on a text that is not a number, after the generic write.
WriteRawThrows(i) ==
    /\ alive
    /\ raw' = [raw EXCEPT ![i] = NaN]
    /\ alive' = FALSE
    /\ UNCHANGED <<powerdown, measured, m_ps_current_values, hCache, hMeasured>>

\* Stray writes to iio:device3, as an input or to a channel it does not have
\* (which counts as voltage1): the generic write answers -ENOENT and changes
\* nothing, the rest of the handler runs all the same, and what it reads of
\* powerdown is an uninitialised buffer.
StrayRaw(i, value, down) ==
    LET cache == [m_ps_current_values EXCEPT ![i] = Convert(i, value)]
    IN  /\ alive
        /\ m_ps_current_values' = cache
        /\ measured' = Measure(i, down, cache)
        /\ hCache' = [hCache EXCEPT ![i] = FALSE]
        /\ hMeasured' = [hMeasured EXCEPT ![i] = FALSE]
        /\ UNCHANGED <<raw, powerdown, alive>>

\* The same with a text that is not a number.
StrayRawThrows ==
    /\ alive /\ alive' = FALSE
    /\ UNCHANGED <<raw, powerdown, measured, m_ps_current_values, hCache, hMeasured>>

StrayOther(i, down) ==
    /\ alive
    /\ measured' = Measure(i, down, m_ps_current_values)
    /\ hMeasured' = [hMeasured EXCEPT ![i] = FALSE]
    /\ UNCHANGED <<raw, powerdown, m_ps_current_values, alive, hCache>>

\* The generic chWriteAttr of iio:device13: a client overwrites a measurement.
WriteMeasured(i, value) ==
    /\ alive
    /\ measured' = [measured EXCEPT ![i] = value]
    /\ hMeasured' = [hMeasured EXCEPT ![i] = FALSE]
    /\ UNCHANGED <<raw, powerdown, m_ps_current_values, alive, hCache>>

Next == \E i \in Supplies :
    \/ \E value \in {0, 1} : WritePowerdown(i, value)
    \/ \E value \in Raws : WriteRaw(i, value) \/ WriteMeasured(i, value)
    \/ WriteOther(i)
    \/ WriteRawThrows(i)
    \/ StrayRawThrows
    \/ \E value \in Raws, down \in {0, 1} : StrayRaw(i, value, down)
    \/ \E down \in {0, 1} : StrayOther(i, down)

Spec == Init /\ [][Next]_vars

-----------------------------------------------------------------------------
(* Properties *)

TypeOK ==
    /\ raw \in [Supplies -> Int \cup {NaN}] /\ powerdown \in [Supplies -> {0, 1}]
    /\ measured \in [Supplies -> Int \cup {Empty}]
    /\ m_ps_current_values \in [Supplies -> Int \cup {Empty}]
    /\ alive \in BOOLEAN
    /\ hCache \in [Supplies -> BOOLEAN] /\ hMeasured \in [Supplies -> BOOLEAN]

\* What a client measures on a supply is what was last written to its raw,
\* through the calibration, or 0 while it is powered down, in whatever order
\* raw and powerdown were written and whatever happened to the other supply.
\* It takes one proper write of raw, none since by a stray write; and after a
\* disturbed measurement one more proper write of any attribute.
MeasuresOutput ==
    \A i \in Supplies :
        alive /\ hCache[i] /\ hMeasured[i] =>
            measured[i] = IF powerdown[i] = 1 THEN 0 ELSE Convert(i, raw[i])
==============================================================================

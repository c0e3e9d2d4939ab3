---------------------------- MODULE GenXmlProofs ----------------------------
(***************************************************************************)
(* Proofs about the XML generator, for contexts of any size and shape, any *)
(* lengths, and any allocation failing.                                    *)
(***************************************************************************)
EXTENDS GenXml, FiniteSets, WellFoundedInduction, TLAPS

-----------------------------------------------------------------------------
(* The inductive invariant.  Where the program is decides what it has          *)
(* allocated: the blocks of the context, of the device under way, and of the   *)
(* channel under way, up to the counters.                                      *)

InChannel == at[1] = "channel"
InDevice == at[1] \in {"device", "channel"}
Over == at[2] = "return" \/ at[1] = "exit"

\* The array of the device under way, 5 once all are complete.
Group == IF InChannel THEN 2 ELSE IF at[2] = "print" THEN 5 ELSE at[3]

\* No label of an error has been reached.
Normal == at[2] \in {"start", "ctx_attrs", "ctx_values", "attrs", "devices", "loop", "device",
                     "str", "print", "len", "array", "channel", "scan"}

Doomed == hFailed = <<"device", "loop", 4>>

TypeOK ==
    /\ ctx \in Contexts
    /\ ctx_i \in Nat /\ i \in Nat /\ j \in Nat /\ k \in Nat /\ chn_i \in Nat
    /\ xml \in BOOLEAN /\ hDropped \in BOOLEAN

\* Where the counters are.
ContextAt ==
    /\ at = <<"context", "attrs", 0>> => ctx_i <= ctx.attrs
    /\ at = <<"context", "devices", 0>> => ctx.devices # <<>>
    /\ at = <<"context", "loop", 0>> => ctx.devices # <<>> /\ ctx_i <= Len(ctx.devices)
    /\ at \in {<<"context", "str", 0>>, <<"context", "print", 0>>} =>
            ctx.devices = <<>> \/ ctx_i = Len(ctx.devices)
    /\ at = <<"context", "err_free_devices", 0>> =>
            ctx.devices = <<>> \/ ctx_i <= Len(ctx.devices)
    /\ InDevice \/ at = <<"context", "device", 0>> => ctx_i < Len(ctx.devices)

DeviceAt ==
    InDevice =>
        /\ Group > 1 /\ Group < 5 => i = Count(1)
        /\ Group > 2 /\ Group < 5 => j = Count(2)
        /\ Group = 4 /\ at[2] \in {"len", "array", "err_free_len"} /\ ~Doomed => k = Count(3)
        /\ at[2] \in {"loop", "err_free_elements"} /\ ~InChannel =>
              Counter(at[3]) <= Count(at[3]) \/ (Doomed /\ at[3] = 3 /\ k = Wrapped)
        /\ InChannel \/ at[2] = "channel" => j < Count(2)

ChannelAt ==
    InChannel =>
        /\ at[2] \in {"loop", "err_free_attrs"} => chn_i <= chn.attrs
        /\ at[2] = "print" => chn_i = chn.attrs

\* What a failure leaves behind it: no error is met twice, and one among the debug
\* attributes, or of the device's text, leads to the label it cannot pass.
FailedAt ==
    /\ Normal => hFailed = <<"none", "none", 0>>
    /\ Doomed => \/ at = <<"device", "err_free_elements", 4>>
                 \/ /\ at \in {<<"device", "err_free_len", 4>>, <<"device", "err_free_elements", 3>>}
                    /\ k = Wrapped
    /\ at = <<"device", "err_free_elements", 4>> => Doomed

\* The last index held of each array of the device, -1 without the array.
ArrayTop(g) ==
    IF g > Group THEN -1
    ELSE IF g < Group THEN Count(g)
    ELSE IF at = <<"channel", "print", 0>> \/ at = <<"device", "channel", 2>> THEN j + 1
    ELSE IF InChannel THEN j
    ELSE IF at[2] \in {"len", "array", "err_free_len"} THEN -1
    ELSE IF Counter(g) > Count(g) THEN Count(g)
    ELSE Counter(g)

\* The last array whose lengths are held.
LenTop ==
    IF Group = 5 THEN 4
    ELSE IF at[2] = "len" /\ ~InChannel THEN Group - 1
    ELSE Group

Array(g) == {DevBlock(Groups[g], x) : x \in 0..ArrayTop(g)}
Lens == {DevBlock("len", x) : x \in 1..LenTop}
DeviceBlocks == IF InDevice THEN (UNION {Array(g) : g \in 1..4}) \cup Lens ELSE {}

ScanBlocks == IF chn.scan THEN {ChnBlock("scan_element", 0)} ELSE {}
ChannelBlocks ==
    IF ~InChannel \/ at[2] = "scan" THEN {}
    ELSE ScanBlocks
        \cup (IF at[2] \in {"len", "err_free_scan_element"} THEN {} ELSE {ChnBlock("len", 0)})
        \cup (IF at[2] \in {"loop", "print", "err_free_attrs"}
              THEN {ChnBlock("attrs", x) : x \in 0..chn_i} ELSE {})

\* The texts of the devices that are complete, and their lengths.
TextTop ==
    IF at = <<"device", "print", 0>> \/ at = <<"context", "device", 0>> THEN ctx_i + 1 ELSE ctx_i
TextBlocks ==
    IF ctx.devices = <<>> \/ at[1] \in {"main", "exit"} THEN {}
    ELSE IF InDevice \/ at[2] \in {"device", "loop", "str", "print", "err_free_devices"}
    THEN {CtxBlock("devices", x) : x \in 0..TextTop} \cup {CtxBlock("len", 0)}
    ELSE IF at[2] \in {"devices", "err_free_devices_len"} THEN {CtxBlock("len", 0)}
    ELSE {}

Names(name, top) == {CtxBlock(name, x) : x \in 0..top}
NameTop == IF at = <<"context", "attrs", 0>> THEN ctx_i ELSE ctx.attrs
NameBlocks ==
    IF InDevice THEN Names("ctx_attrs", ctx.attrs) \cup Names("ctx_values", ctx.attrs)
    ELSE IF at[1] \in {"main", "exit"} \/ at[2] \in {"ctx_attrs", "return"} THEN {}
    ELSE IF at[2] \in {"ctx_values", "err_free_ctx_attrs"} THEN {CtxBlock("ctx_attrs", 0)}
    ELSE IF at[2] = "err_free_ctx_attrs_values"
    THEN {CtxBlock("ctx_attrs", 0), CtxBlock("ctx_values", 0)}
    ELSE Names("ctx_attrs", NameTop) \cup Names("ctx_values", NameTop)

ResultBlock == IF at = <<"context", "print", 0>> \/ xml THEN {CtxBlock("str", 0)} ELSE {}

ContextBlocks == NameBlocks \cup TextBlocks \cup ResultBlock

Owned == ContextBlocks \cup DeviceBlocks \cup ChannelBlocks

\* What may be left over: the values of attributes; and context attributes, in the
\* middle of freeing them, or when there was no room to print them.
Stray(b) ==
    \/ b[3] = "device value"
    \/ b[3] = "value" /\ hFailed[1] = "channel"
    \/ /\ b \in Names("ctx_attrs", ctx.attrs) \cup Names("ctx_values", ctx.attrs)
       /\ at = <<"context", "err_free_ctx_attrs_values", 0>> \/ (Over /\ ctx.over > 0)

HeapAt ==
    /\ Owned \subseteq heap
    /\ \A b \in heap : b \in Owned \/ Stray(b)

Outcome ==
    /\ xml => Over /\ hFailed = <<"none", "none", 0>>
    /\ fault = "bad free" => Doomed
    /\ fault # "none" => InDevice

Places == ContextAt /\ DeviceAt /\ ChannelAt /\ FailedAt

IInv ==
    /\ TypeOK /\ Outcome
    /\ fault = "none" => Places /\ HeapAt

-----------------------------------------------------------------------------
(* Blocks *)

\* Whose a block is shows in its name.
LEMMA ContextApart == \A b \in ContextBlocks : b[1] = 0
  BY DEF ContextBlocks, NameBlocks, TextBlocks, ResultBlock, Names, CtxBlock

\* A block of the device under way is of a device, and of no channel.
LEMMA DeviceApart == ASSUME TypeOK PROVE \A b \in DeviceBlocks : b[1] # 0 /\ b[2] = 0
  BY DEF DeviceBlocks, Array, Lens, DevBlock, TypeOK

\* A block of the channel under way is of a channel.
LEMMA ChannelApart == ASSUME TypeOK PROVE \A b \in ChannelBlocks : b[1] # 0 /\ b[2] # 0
  BY DEF ChannelBlocks, ScanBlocks, ChnBlock, TypeOK

\* A step that takes blocks it owns and gives or forgets only what it owns keeps the
\* heap and the owned blocks together.
LEMMA HeapFollows ==
    ASSUME HeapAt, NEW B, NEW N, \A b : Stray(b) => Stray(b)',
           heap' = (heap \ B) \cup N, Owned' = (Owned \ B) \cup N
    PROVE  HeapAt'
  BY DEF HeapAt

\* Taking, and adding, no block.
LEMMA NoBlocks == \A S, T : S = (S \ {}) \cup {} /\ S \cup T = (S \ {}) \cup T
                           /\ S \ T = (S \ T) \cup {} /\ S \cup T \cup {} = S \cup T
  OBVIOUS

\* The groups of a device have names of their own, and none is "len".
LEMMA GroupsAre ==
    /\ Groups[1] = "attrs" /\ Groups[2] = "channels"
    /\ Groups[3] = "buffer_attrs" /\ Groups[4] = "debug_attrs"
    /\ \A g \in 1..4 : Groups[g] # "len" /\ \A h \in 1..4 : Groups[g] = Groups[h] => g = h
  BY DEF Groups

-----------------------------------------------------------------------------
(* Types *)

\* The context given to the tool is one.
LEMMA CtxType == ASSUME TypeOK PROVE ctx \in ContextType
  BY GenXmlAssumption DEF TypeOK

\* What a context holds can be counted.
LEMMA CtxFields ==
    ASSUME TypeOK
    PROVE  ctx.attrs \in Nat /\ ctx.over \in Nat /\ Len(ctx.devices) \in Nat
           /\ ctx.devices \in Seq(DeviceType)
           /\ (ctx.devices = <<>> <=> Len(ctx.devices) = 0)
  BY CtxType DEF ContextType

\* While a device of the context is under way, dev is one.
LEMMA DevType ==
    ASSUME TypeOK, ctx_i < Len(ctx.devices)
    PROVE  dev \in DeviceType
  <1>1. ctx.devices \in Seq(DeviceType) /\ ctx_i + 1 \in 1..Len(ctx.devices)
    BY CtxFields DEF TypeOK
  <1> QED BY <1>1 DEF dev

\* The sizes of the device's four arrays; the wrapped counter is beyond the third.
LEMMA Counts ==
    ASSUME TypeOK, ctx_i < Len(ctx.devices)
    PROVE  /\ Count(1) = dev.attrs /\ Count(2) = Len(dev.channels)
           /\ Count(3) = dev.buffer_attrs /\ Count(4) = dev.debug_attrs
           /\ \A g \in 1..4 : Count(g) \in Nat
           /\ Count(3) < UINT_MAX /\ UINT_MAX \in Nat
  <1>1. dev \in DeviceType BY DevType
  <1>2. Len(dev.channels) \in Nat /\ dev.attrs \in Nat /\ dev.debug_attrs \in Nat
        /\ dev.buffer_attrs \in 0..(UINT_MAX - 1)
    BY <1>1 DEF DeviceType
  <1> QED BY <1>2, GenXmlAssumption DEF Count

\* While a channel of the device is under way, chn is one.
LEMMA ChnType ==
    ASSUME TypeOK, ctx_i < Len(ctx.devices), j < Count(2)
    PROVE  chn \in ChannelType /\ chn.attrs \in Nat /\ chn.scan \in BOOLEAN
  <1>1. dev \in DeviceType BY DevType
  <1>2. dev.channels \in Seq(ChannelType) /\ j + 1 \in 1..Len(dev.channels)
    BY <1>1, Counts DEF DeviceType, TypeOK
  <1>3. chn \in ChannelType BY <1>2 DEF chn
  <1> QED BY <1>3 DEF ChannelType

\* The parameters of a step that stays with one device, or with one channel.
LEMMA DevStays ==
    ASSUME UNCHANGED <<ctx, ctx_i>>
    PROVE  dev' = dev /\ \A g : Count(g)' = Count(g) /\ \A x : DevBlock(g, x)' = DevBlock(g, x)
  BY DEF dev, Count, DevBlock

\* The same for a step that stays with one channel.
LEMMA ChnStays ==
    ASSUME UNCHANGED <<ctx, ctx_i, j>>
    PROVE  chn' = chn /\ \A g, x : ChnBlock(g, x)' = ChnBlock(g, x)
  BY DEF dev, chn, ChnBlock

-----------------------------------------------------------------------------
(* Steps that leave the blocks of the context, or of the device, as they are *)

\* The labels of the context are not in a device.
LEMMA Elsewhere ==
    /\ InDevice => \A l : at # <<"context", l, 0>>
    /\ InDevice' => \A l : at' # <<"context", l, 0>>
  BY DEF InDevice

\* Inside a device, the blocks of the context stay, but for the device's own text.
LEMMA ContextStays ==
    ASSUME InDevice, InDevice', UNCHANGED <<ctx, ctx_i, xml>>,
           at # <<"device", "print", 0>>, at' # <<"device", "print", 0>>
    PROVE  ContextBlocks' = ContextBlocks
  <1>1. NameBlocks' = NameBlocks
    BY DEF NameBlocks, InDevice, Names, CtxBlock
  <1>2. /\ at # <<"context", "device", 0>> /\ at # <<"context", "print", 0>>
        /\ at' # <<"context", "device", 0>> /\ at' # <<"context", "print", 0>>
    BY DEF InDevice
  <1>3. TextTop' = TextTop BY <1>2 DEF TextTop
  <1>4. TextBlocks' = TextBlocks
    BY <1>3 DEF TextBlocks, InDevice, CtxBlock
  <1>5. ResultBlock' = ResultBlock
    BY <1>2 DEF ResultBlock, CtxBlock
  <1> QED BY <1>1, <1>4, <1>5 DEF ContextBlocks

\* The blocks of a device are its arrays with their elements, and the lengths.
LEMMA DeviceIs ==
    ASSUME InDevice
    PROVE  \A b : b \in DeviceBlocks <=>
              \/ \E g \in 1..4 : \E x \in 0..ArrayTop(g) : b = DevBlock(Groups[g], x)
              \/ \E x \in 1..LenTop : b = DevBlock("len", x)
  BY DEF DeviceBlocks, Array, Lens

\* They stay when no array gains or loses an element.
LEMMA DeviceStays ==
    ASSUME InDevice, InDevice', UNCHANGED <<ctx, ctx_i>>,
           \A g \in 1..4 : ArrayTop(g)' = ArrayTop(g), LenTop' = LenTop
    PROVE  DeviceBlocks' = DeviceBlocks
  <1>1. \A g, x : DevBlock(g, x)' = DevBlock(g, x) BY DevStays
  <1>2. \A g \in 1..4 : Array(g)' = Array(g) BY <1>1 DEF Array
  <1>3. Lens' = Lens BY <1>1 DEF Lens
  <1> QED BY <1>2, <1>3 DEF DeviceBlocks

\* They stay inside a channel, until its text is allocated.
LEMMA DeviceStaysInChannel ==
    ASSUME InChannel, InChannel', UNCHANGED <<ctx, ctx_i, i, j, k>>,
           at # <<"channel", "print", 0>>, at' # <<"channel", "print", 0>>
    PROVE  DeviceBlocks' = DeviceBlocks
  <1>1. InDevice /\ InDevice' BY DEF InDevice, InChannel
  <1>2. at # <<"device", "channel", 2>> /\ at' # <<"device", "channel", 2>>
    BY DEF InChannel
  <1>3. Group = 2 /\ Group' = 2 BY DEF Group
  <1>4. \A g \in 1..4 : Count(g)' = Count(g) BY DevStays
  <1>5. \A g \in 1..4 : ArrayTop(g)' = ArrayTop(g)
    BY <1>2, <1>3, <1>4 DEF ArrayTop
  <1>6. LenTop' = LenTop BY <1>3 DEF LenTop
  <1> QED BY <1>1, <1>5, <1>6, DeviceStays

\* What is left over stays left over.
LEMMA StrayStays ==
    ASSUME ctx' = ctx, at # <<"context", "err_free_ctx_attrs_values", 0>>, Over => Over',
           UNCHANGED hFailed \/ hFailed = <<"none", "none", 0>>
    PROVE  \A b : Stray(b) => Stray(b)'
  <1>1. hFailed[1] = "channel" => hFailed'[1] = "channel" OBVIOUS
  <1> QED BY <1>1 DEF Stray, Names, CtxBlock

\* The parts of the invariant, before undefined behaviour.
LEMMA Live ==
    ASSUME IInv, fault = "none"
    PROVE  TypeOK /\ Outcome /\ ContextAt /\ DeviceAt /\ ChannelAt /\ FailedAt /\ HeapAt
  BY DEF IInv, Places

\* A step before the end, without undefined behaviour.
LEMMA Step ==
    ASSUME IInv, fault = "none", UNCHANGED <<ctx, xml, fault>>, ~Over, TypeOK',
           ContextAt', DeviceAt', ChannelAt', FailedAt', HeapAt'
    PROVE  IInv'
  BY DEF IInv, Places, Outcome

-----------------------------------------------------------------------------
(* iio_channel_get_xml *)

\* The counters of the context and of the device while a channel is under way.
LEMMA ChannelPlace ==
    ASSUME IInv, fault = "none", InChannel, UNCHANGED <<ctx, ctx_i, i, j, k, xml>>,
           InChannel' \/ at' = NoChannel \/ at' = <<"device", "channel", 2>>
    PROVE  /\ InDevice /\ InDevice' /\ ContextAt' /\ DeviceAt'
           /\ chn \in ChannelType /\ chn.attrs \in Nat /\ chn.scan \in BOOLEAN /\ chn' = chn
           /\ ctx_i < Len(ctx.devices) /\ j < Count(2) /\ i = Count(1)
  <1>1. InDevice BY DEF InDevice, InChannel
  <1>2. InDevice' BY DEF InDevice, InChannel, NoChannel
  <1>3. ctx_i < Len(ctx.devices) BY <1>1, Live DEF ContextAt
  <1>4. ContextAt'
    BY <1>2, <1>3 DEF ContextAt, InDevice
  <1>5. Group = 2 /\ Group' = 2 BY DEF Group, InChannel, NoChannel
  <1>6. i = Count(1) /\ j < Count(2) BY <1>1, <1>5, Live DEF DeviceAt
  <1>7. \A g : Count(g)' = Count(g) BY DevStays
  <1>8. Count(1) \in Nat /\ Count(2) \in Nat /\ TypeOK BY <1>3, Counts, Live
  <1>9. (j < Count(2))' /\ (i = Count(1))' BY <1>6, <1>7
  <1>10. (Counter(2) <= Count(2))' BY <1>9, <1>8, <1>7 DEF Counter, TypeOK
  <1>11. DeviceAt'
    BY <1>5, <1>9, <1>10 DEF DeviceAt, InChannel, NoChannel
  <1>12. chn \in ChannelType /\ chn.attrs \in Nat /\ chn.scan \in BOOLEAN /\ chn' = chn
    BY <1>8, <1>3, <1>6, ChnType, ChnStays
  <1> QED BY <1>1, <1>2, <1>3, <1>4, <1>6, <1>11, <1>12

\* A step from one label of a channel to another, to the blocks owned with it.
LEMMA ChannelStep ==
    ASSUME IInv, fault = "none", InChannel, UNCHANGED <<ctx, ctx_i, i, j, k, xml, fault>>,
           ~Over, NEW B, NEW N, chn_i' \in Nat, hDropped' \in BOOLEAN,
           InChannel' \/ at' = NoChannel, DeviceBlocks' = DeviceBlocks,
           B \cap (ContextBlocks \cup DeviceBlocks) = {},
           heap' = (heap \ B) \cup N, ChannelBlocks' = (ChannelBlocks \ B) \cup N,
           UNCHANGED hFailed \/ hFailed = <<"none", "none", 0>>,
           ChannelAt', FailedAt'
    PROVE  IInv'
  <1>1. InDevice /\ InDevice' /\ ContextAt' /\ DeviceAt' BY ChannelPlace
  <1>2. ContextBlocks' = ContextBlocks
    BY <1>1, ContextStays DEF InChannel, NoChannel
  <1>3. Owned' = (Owned \ B) \cup N BY <1>2 DEF Owned
  <1>4. \A b : Stray(b) => Stray(b)' BY StrayStays DEF InChannel
  <1>5. HeapAt' BY <1>3, <1>4, HeapFollows, Live
  <1>6. TypeOK' BY Live DEF TypeOK
  <1> QED BY <1>1, <1>5, <1>6, Step

\* A channel that fails leaves its device at the label that frees the channels.
LEMMA DeviceStaysWithoutChannel ==
    ASSUME IInv, fault = "none", InChannel, UNCHANGED <<ctx, ctx_i, i, j, k, xml>>,
           at # <<"channel", "print", 0>>, at' = NoChannel
    PROVE  DeviceBlocks' = DeviceBlocks
  <1>1. InDevice /\ InDevice' /\ j < Count(2) /\ ctx_i < Len(ctx.devices) BY ChannelPlace
  <1>2. at # <<"device", "channel", 2>>
    BY DEF InChannel
  <1>3. Group = 2 /\ Group' = 2 BY DEF Group, InChannel, NoChannel
  <1>4. \A g \in 1..4 : Count(g)' = Count(g) BY DevStays
  <1>5. ~(Counter(2) > Count(2))' /\ Counter(2)' = j
    BY <1>1, <1>4, Counts, Live DEF Counter, TypeOK
  <1>6. \A g \in 1..4 : ArrayTop(g)' = ArrayTop(g)
    BY <1>2, <1>3, <1>4, <1>5 DEF ArrayTop, NoChannel, InChannel
  <1>7. LenTop' = LenTop BY <1>3 DEF LenTop, NoChannel, InChannel
  <1> QED BY <1>1, <1>6, <1>7, DeviceStays

\* get_scan_element allocates the first block of a channel, or the channel fails.
LEMMA ChannelScanKeeps ==
    ASSUME IInv, fault = "none", channel_scan PROVE IInv'
  <1> USE DEF channel_scan
  <1>1. InChannel /\ ~Over /\ UNCHANGED <<ctx, ctx_i, i, j, k, xml, chn_i, hDropped>>
    BY DEF InChannel, Over, counters
  <1>2. hFailed = <<"none", "none", 0>> BY Live DEF FailedAt, Normal
  <1>3. chn.scan \in BOOLEAN /\ TypeOK BY <1>1, ChnType, Counts, Live DEF ContextAt, DeviceAt, InDevice, InChannel
  <1>4. chn' = chn /\ \A g, x : ChnBlock(g, x)' = ChnBlock(g, x) BY <1>1, ChnStays
  <1>5. ChannelBlocks = {} BY DEF ChannelBlocks
  <1>6. chn_i' \in Nat /\ hDropped' \in BOOLEAN BY <1>1, <1>3 DEF TypeOK
  <1>7. CASE at' = <<"channel", "len", 0>> /\ hFailed' = hFailed /\ fault' = fault
             /\ heap' = heap \cup ScanBlocks
    <2>1. InChannel' BY <1>7 DEF InChannel
    <2>2. DeviceBlocks' = DeviceBlocks BY <1>1, <1>7, <2>1, DeviceStaysInChannel
    <2>3. ChannelBlocks' = ScanBlocks BY <1>4, <1>7, <2>1 DEF ChannelBlocks, ScanBlocks
    <2>4. ChannelAt' BY <1>7 DEF ChannelAt
    <2>5. FailedAt' BY <1>2, <1>7 DEF FailedAt, Normal, Doomed
    <2> QED BY <1>1, <1>5, <1>6, <1>7, <2>1, <2>2, <2>3, <2>4, <2>5, ChannelStep
  <1>8. CASE at' = NoChannel /\ hFailed' = at /\ UNCHANGED <<heap, fault>>
    <2>1. ~InChannel' BY <1>8 DEF InChannel, NoChannel
    <2>2. DeviceBlocks' = DeviceBlocks BY <1>1, <1>8, DeviceStaysWithoutChannel
    <2>3. ChannelBlocks' = {} BY <2>1 DEF ChannelBlocks
    <2>4. ChannelAt' BY <2>1 DEF ChannelAt
    <2>5. FailedAt' BY <1>8 DEF FailedAt, Normal, Doomed, NoChannel
    <2> QED BY <1>1, <1>2, <1>5, <1>6, <1>8, <2>2, <2>3, <2>4, <2>5, ChannelStep
  <1> QED BY <1>3, <1>7, <1>8 DEF Malloc, Goto, memory, ScanBlocks

\* The two arrays of a channel's attributes, each with the label that frees what
\* came before it.
LEMMA ChannelArraysKeeps ==
    ASSUME IInv, fault = "none", channel_arrays PROVE IInv'
  <1> USE DEF channel_arrays
  <1>1. InChannel /\ ~Over /\ UNCHANGED <<ctx, ctx_i, i, j, k, xml, hDropped>> /\ chn_i' = 0
        /\ fault' = fault
    BY DEF InChannel, Over, Malloc
  <1>2. hFailed = <<"none", "none", 0>> BY Live DEF FailedAt, Normal
  <1>3. chn.attrs \in Nat /\ TypeOK
    BY <1>1, ChnType, Counts, Live DEF ContextAt, DeviceAt, InDevice, InChannel
  <1>4. chn' = chn /\ \A g, x : ChnBlock(g, x)' = ChnBlock(g, x) BY <1>1, ChnStays
  <1>5. at' # <<"channel", "print", 0>> /\ at # <<"channel", "print", 0>> /\ InChannel'
    BY DEF Malloc, Goto, InChannel
  <1>6. DeviceBlocks' = DeviceBlocks BY <1>1, <1>5, DeviceStaysInChannel
  <1>7. chn_i' \in Nat /\ hDropped' \in BOOLEAN BY <1>1, <1>3 DEF TypeOK
  <1>8. ChannelAt' BY <1>1, <1>3, <1>4 DEF ChannelAt, Malloc, Goto
  <1>9. FailedAt' BY <1>2 DEF FailedAt, Normal, Doomed, Malloc, Goto
  <1>10. ScanBlocks' = ScanBlocks BY <1>4 DEF ScanBlocks
  <1>11. CASE at = <<"channel", "len", 0>> /\ heap' = heap \cup {ChnBlock("len", 0)}
              /\ at' = <<"channel", "array", 0>> /\ hFailed' = hFailed
    <2>1. ChannelBlocks' = ChannelBlocks \cup {ChnBlock("len", 0)}
      BY <1>4, <1>10, <1>11 DEF ChannelBlocks, InChannel
    <2> QED BY <1>1, <1>5, <1>6, <1>7, <1>8, <1>9, <1>11, <2>1, ChannelStep
  <1>12. CASE at = <<"channel", "array", 0>> /\ heap' = heap \cup {ChnBlock("attrs", 0)}
              /\ at' = <<"channel", "loop", 0>> /\ hFailed' = hFailed
    <2>1. ChannelBlocks' = ChannelBlocks \cup {ChnBlock("attrs", 0)}
      BY <1>1, <1>4, <1>10, <1>12 DEF ChannelBlocks, InChannel
    <2> QED BY <1>1, <1>5, <1>6, <1>7, <1>8, <1>9, <1>12, <2>1, ChannelStep
  <1>13. CASE heap' = heap
              /\ \/ at = <<"channel", "len", 0>>
                    /\ at' = <<"channel", "err_free_scan_element", 0>>
                 \/ at = <<"channel", "array", 0>>
                    /\ at' = <<"channel", "err_free_attrs_len", 0>>
    <2>1. ChannelBlocks' = ChannelBlocks
      BY <1>4, <1>10, <1>13 DEF ChannelBlocks, InChannel
    <2>2. heap' = (heap \ {}) \cup {} /\ ChannelBlocks' = (ChannelBlocks \ {}) \cup {}
      BY <1>13, <2>1, NoBlocks
    <2> QED BY <1>1, <1>2, <1>5, <1>6, <1>7, <1>8, <1>9, <2>2, ChannelStep
  <1> QED BY <1>11, <1>12, <1>13 DEF Malloc, Goto

\* The blocks of a channel while its attributes are read.
LEMMA ChannelLoop ==
    ASSUME at[1] = "channel", at[2] \in {"loop", "print", "err_free_attrs"}
    PROVE  ChannelBlocks = ScanBlocks \cup {ChnBlock("len", 0)}
                           \cup {ChnBlock("attrs", x) : x \in 0..chn_i}
  BY DEF ChannelBlocks, InChannel

\* An attribute of a channel: its element is owned from then on; what a failure
\* leaves is the value's buffer.
LEMMA ChannelAttrKeeps ==
    ASSUME IInv, fault = "none", channel_attr PROVE IInv'
  <1> USE DEF channel_attr
  <1>1. InChannel /\ InDevice /\ ~Over /\ UNCHANGED <<ctx, ctx_i, i, j, k, xml, hDropped>>
    BY DEF InChannel, InDevice, Over
  <1>2. hFailed = <<"none", "none", 0>> BY Live DEF FailedAt, Normal
  <1>3. chn.attrs \in Nat /\ chn_i \in Nat /\ TypeOK
    BY <1>1, ChnType, Counts, Live DEF ContextAt, DeviceAt, TypeOK
  <1>4. chn' = chn /\ \A g, x : ChnBlock(g, x)' = ChnBlock(g, x) BY <1>1, ChnStays
  <1>5. ScanBlocks' = ScanBlocks BY <1>4 DEF ScanBlocks
  <1>6. hDropped' \in BOOLEAN BY <1>1, <1>3 DEF TypeOK
  <1>7. CASE heap' = heap \cup {ChnBlock("attrs", chn_i + 1)} /\ UNCHANGED <<at, fault, hFailed>>
             /\ chn_i' = chn_i + 1
    <2>1. InChannel' BY <1>1, <1>7 DEF InChannel
    <2>2. DeviceBlocks' = DeviceBlocks BY <1>1, <1>7, <2>1, DeviceStaysInChannel
    <2>3. 0..chn_i' = (0..chn_i) \cup {chn_i + 1} BY <1>3, <1>7
    <2>4. ChannelBlocks = ScanBlocks \cup {ChnBlock("len", 0)}
                           \cup {ChnBlock("attrs", x) : x \in 0..chn_i}
      BY ChannelLoop
    <2>5. ChannelBlocks' = ScanBlocks \cup {ChnBlock("len", 0)}
                           \cup {ChnBlock("attrs", x) : x \in 0..chn_i'}
      BY <1>4, <1>5, <1>7 DEF ChannelBlocks, InChannel
    <2>6. ChannelBlocks' = ChannelBlocks \cup {ChnBlock("attrs", chn_i + 1)}
      BY <2>3, <2>4, <2>5
    <2>7. ChannelAt' BY <1>3, <1>4, <1>7 DEF ChannelAt
    <2>8. FailedAt' BY <1>2, <1>7 DEF FailedAt, Doomed
    <2>9. chn_i' \in Nat BY <1>3, <1>7
    <2> QED BY <1>1, <1>6, <1>7, <2>1, <2>2, <2>6, <2>7, <2>8, <2>9, ChannelStep
  <1>8. CASE heap' = heap \cup {ChnBlock("value", chn_i + 1)} /\ fault' = fault
             /\ at' = <<"channel", "err_free_attrs", 0>> /\ hFailed' = at /\ chn_i' = chn_i
    <2>1. InChannel' /\ InDevice' BY <1>8 DEF InChannel, InDevice
    <2>2. DeviceBlocks' = DeviceBlocks BY <1>1, <1>8, <2>1, DeviceStaysInChannel
    <2>3. ChannelBlocks' = ChannelBlocks
      BY <1>4, <1>5, <1>8 DEF ChannelBlocks, InChannel
    <2>4. ContextBlocks' = ContextBlocks
      BY <1>1, <1>8, <2>1, ContextStays
    <2>5. Owned' = Owned BY <2>2, <2>3, <2>4 DEF Owned
    <2>6. \A b : Stray(b) => Stray(b)' BY <1>1, <1>2, StrayStays
    <2>13. hFailed'[1] = "channel" BY <1>8
    <2>14. \A b : b \in {ChnBlock("value", chn_i + 1)} => b[3] = "value" BY DEF ChnBlock
    <2>7. \A b : b \in {ChnBlock("value", chn_i + 1)} => Stray(b)' BY <2>13, <2>14 DEF Stray
    <2>8. HeapAt' BY <1>8, <2>5, <2>6, <2>7, Live DEF HeapAt
    <2>9. ChannelAt' BY <1>3, <1>4, <1>8, Live DEF ChannelAt
    <2>10. FailedAt' BY <1>8 DEF FailedAt, Normal, Doomed
    <2>11. TypeOK' BY <1>1, <1>3, <1>8 DEF TypeOK
    <2>12. ContextAt' /\ DeviceAt' BY <1>1, <2>1, ChannelPlace
    <2> QED BY <1>1, <1>8, <2>8, <2>9, <2>10, <2>11, <2>12, Step
  <1>9. CASE fault' = "null value" /\ hFailed' = at /\ UNCHANGED <<heap, at>>
             /\ chn_i' = chn_i + 1
    <2>0. chn_i' \in Nat
      <3>1. chn_i + 1 \in Nat BY <1>3
      <3> QED BY <1>9, <3>1, Zenon
    <2>1. TypeOK' BY <1>1, <1>3, <2>0 DEF TypeOK
    <2>2. xml = FALSE BY <1>1, <1>3, Live DEF Outcome, TypeOK
    <2>3. Outcome' BY <1>1, <1>9, <2>2 DEF Outcome, InDevice
    <2> QED BY <1>9, <2>1, <2>3 DEF IInv
  <1>10. at # <<"channel", "err_free_attrs", 0>> OBVIOUS
  <1> QED BY <1>7, <1>8, <1>9, <1>10, NoBlocks DEF get_attr_xml, AttrText, Goto

-----------------------------------------------------------------------------
(* Steps that take one array further, or give it back *)

\* The blocks of a device: one array, the lengths, and the other arrays.
LEMMA DeviceParted ==
    ASSUME InDevice, NEW g \in 1..4
    PROVE  \A b : b \in DeviceBlocks <=>
              \/ b \in Array(g) \/ b \in Lens
              \/ \E h \in 1..4 : h # g /\ b \in Array(h)
  BY DEF DeviceBlocks

\* No block is of two of them.
LEMMA ArrayApart ==
    ASSUME NEW g \in 1..4
    PROVE  /\ \A b : b \in Array(g) => b[3] = Groups[g] /\ b \notin Lens
           /\ \A h \in 1..4 : h # g => Array(g) \cap Array(h) = {}
  BY GroupsAre DEF Array, Lens, DevBlock

\* The other arrays of the device and the lengths stay.
LEMMA OthersStay ==
    ASSUME UNCHANGED <<ctx, ctx_i>>, NEW g \in 1..4,
           \A h \in 1..4 : h # g => ArrayTop(h)' = ArrayTop(h), LenTop' = LenTop
    PROVE  Lens' = Lens /\ \A h \in 1..4 : h # g => Array(h)' = Array(h)
  <1>1. \A n, x : DevBlock(n, x)' = DevBlock(n, x) BY DevStays
  <1> QED BY <1>1 DEF Array, Lens

\* An array gets its next element, or itself when it had none.
LEMMA ArrayGrows ==
    ASSUME InDevice, InDevice', UNCHANGED <<ctx, ctx_i>>, NEW g \in 1..4,
           \A h \in 1..4 : h # g => ArrayTop(h)' = ArrayTop(h), LenTop' = LenTop,
           NEW t \in Int, t >= -1, ArrayTop(g) = t, ArrayTop(g)' = t + 1
    PROVE  DeviceBlocks' = DeviceBlocks \cup {DevBlock(Groups[g], t + 1)}
  <1>1. 0..(t + 1) = (0..t) \cup {t + 1} OBVIOUS
  <1>2. \A n, x : DevBlock(n, x)' = DevBlock(n, x) BY DevStays
  <1>3. Array(g)' = Array(g) \cup {DevBlock(Groups[g], t + 1)}
    BY <1>1, <1>2 DEF Array
  <1>4. Lens' = Lens /\ \A h \in 1..4 : h # g => Array(h)' = Array(h) BY OthersStay
  <1> QED BY <1>3, <1>4 DEF DeviceBlocks

\* An array loses its last element.
LEMMA ArrayShrinks ==
    ASSUME InDevice, InDevice', UNCHANGED <<ctx, ctx_i>>, NEW g \in 1..4,
           \A h \in 1..4 : h # g => ArrayTop(h)' = ArrayTop(h), LenTop' = LenTop,
           NEW t \in Nat, ArrayTop(g) = t, ArrayTop(g)' = t - 1
    PROVE  /\ DeviceBlocks' = DeviceBlocks \ {DevBlock(Groups[g], t)}
           /\ DevBlock(Groups[g], t) \in DeviceBlocks
  <1>1. 0..(t - 1) = (0..t) \ {t} /\ t \in 0..t OBVIOUS
  <1>2. \A n, x : DevBlock(n, x)' = DevBlock(n, x) BY DevStays
  <1>3. \A x : DevBlock(Groups[g], x) = DevBlock(Groups[g], t) => x = t BY DEF DevBlock
  <1>4. Array(g)' = Array(g) \ {DevBlock(Groups[g], t)} /\ DevBlock(Groups[g], t) \in Array(g)
    BY <1>1, <1>2, <1>3 DEF Array
  <1>5. Lens' = Lens /\ \A h \in 1..4 : h # g => Array(h)' = Array(h) BY OthersStay
  <1>6. DevBlock(Groups[g], t) \notin Lens
        /\ \A h \in 1..4 : h # g => DevBlock(Groups[g], t) \notin Array(h)
    BY <1>4, ArrayApart
  <1>7. \A b : b \in DeviceBlocks' <=>
              \/ b \in Array(g)' \/ b \in Lens'
              \/ \E h \in 1..4 : h # g /\ b \in Array(h)'
    BY DEF DeviceBlocks
  <1>8. \A b : b \in DeviceBlocks <=>
              \/ b \in Array(g) \/ b \in Lens
              \/ \E h \in 1..4 : h # g /\ b \in Array(h)
    BY DeviceParted
  <1> QED BY <1>4, <1>5, <1>6, <1>7, <1>8

\* An array is freed with all its elements.
LEMMA ArrayFreed ==
    ASSUME InDevice, InDevice', UNCHANGED <<ctx, ctx_i>>, NEW g \in 1..4,
           \A h \in 1..4 : h # g => ArrayTop(h)' = ArrayTop(h), LenTop' = LenTop,
           ArrayTop(g)' = -1
    PROVE  DeviceBlocks' = DeviceBlocks \ Array(g) /\ Array(g) \subseteq DeviceBlocks
  <1>1. 0..(-1) = {} OBVIOUS
  <1>2. Array(g)' = {} BY <1>1 DEF Array
  <1>3. Lens' = Lens /\ \A h \in 1..4 : h # g => Array(h)' = Array(h) BY OthersStay
  <1>4. \A b \in Array(g) : b \notin Lens /\ \A h \in 1..4 : h # g => b \notin Array(h)
    BY ArrayApart
  <1>5. \A b : b \in DeviceBlocks' <=>
              \/ b \in Array(g)' \/ b \in Lens'
              \/ \E h \in 1..4 : h # g /\ b \in Array(h)'
    BY DEF DeviceBlocks
  <1>6. \A b : b \in DeviceBlocks <=>
              \/ b \in Array(g) \/ b \in Lens
              \/ \E h \in 1..4 : h # g /\ b \in Array(h)
    BY DeviceParted
  <1> QED BY <1>2, <1>3, <1>4, <1>5, <1>6

\* The lengths of one more array are held.
LEMMA LenGrows ==
    ASSUME InDevice, InDevice', UNCHANGED <<ctx, ctx_i>>,
           \A h \in 1..4 : ArrayTop(h)' = ArrayTop(h),
           NEW t \in Nat, LenTop = t, LenTop' = t + 1
    PROVE  DeviceBlocks' = DeviceBlocks \cup {DevBlock("len", t + 1)}
  <1>1. 1..(t + 1) = (1..t) \cup {t + 1} OBVIOUS
  <1>2. \A n, x : DevBlock(n, x)' = DevBlock(n, x) BY DevStays
  <1>3. Lens' = Lens \cup {DevBlock("len", t + 1)} BY <1>1, <1>2 DEF Lens
  <1>4. \A h \in 1..4 : Array(h)' = Array(h) BY <1>2 DEF Array
  <1> QED BY <1>3, <1>4 DEF DeviceBlocks

\* The lengths of the last array are freed.
LEMMA LenFreed ==
    ASSUME InDevice, InDevice', UNCHANGED <<ctx, ctx_i>>,
           \A h \in 1..4 : ArrayTop(h)' = ArrayTop(h),
           NEW t \in Nat, t > 0, LenTop = t, LenTop' = t - 1
    PROVE  /\ DeviceBlocks' = DeviceBlocks \ {DevBlock("len", t)}
           /\ DevBlock("len", t) \in DeviceBlocks
  <1>1. 1..(t - 1) = (1..t) \ {t} /\ t \in 1..t OBVIOUS
  <1>2. \A n, x : DevBlock(n, x)' = DevBlock(n, x) BY DevStays
  <1>3. \A x : DevBlock("len", x) = DevBlock("len", t) => x = t BY DEF DevBlock
  <1>4. Lens' = Lens \ {DevBlock("len", t)} /\ DevBlock("len", t) \in Lens
    BY <1>1, <1>2, <1>3 DEF Lens
  <1>5. \A h \in 1..4 : Array(h)' = Array(h) /\ DevBlock("len", t) \notin Array(h)
    BY <1>2, GroupsAre DEF Array, DevBlock
  <1> QED BY <1>4, <1>5 DEF DeviceBlocks

\* A step inside a device, to what it and its channel own.
LEMMA InsideStep ==
    ASSUME IInv, fault = "none", InDevice, InDevice', UNCHANGED <<ctx, ctx_i, xml, fault>>, ~Over,
           at # <<"device", "print", 0>>, at' # <<"device", "print", 0>>,
           NEW B, NEW N, B \subseteq DeviceBlocks \cup ChannelBlocks,
           heap' = (heap \ B) \cup N,
           DeviceBlocks' \cup ChannelBlocks' = ((DeviceBlocks \cup ChannelBlocks) \ B) \cup N,
           UNCHANGED hFailed \/ hFailed = <<"none", "none", 0>>,
           i' \in Nat, j' \in Nat, k' \in Nat, chn_i' \in Nat, hDropped' \in BOOLEAN,
           DeviceAt', ChannelAt', FailedAt'
    PROVE  IInv'
  <1>1. TypeOK /\ TypeOK' BY Live DEF TypeOK
  <1>2. ContextBlocks' = ContextBlocks BY ContextStays
  <1>3. B \cap ContextBlocks = {} BY <1>1, ContextApart, DeviceApart, ChannelApart
  <1>4. Owned' = (Owned \ B) \cup N BY <1>2, <1>3 DEF Owned
  <1>5. \A b : Stray(b) => Stray(b)' BY StrayStays DEF InDevice
  <1>6. HeapAt' BY <1>4, <1>5, HeapFollows, Live
  <1>7. ContextAt' BY Live DEF ContextAt, InDevice
  <1> QED BY <1>1, <1>6, <1>7, Step

\* The same with blocks allocated.
LEMMA InsideGrows ==
    ASSUME IInv, fault = "none", InDevice, InDevice', UNCHANGED <<ctx, ctx_i, xml, fault>>, ~Over,
           at # <<"device", "print", 0>>, at' # <<"device", "print", 0>>,
           NEW N, heap' = heap \cup N,
           DeviceBlocks' \cup ChannelBlocks' = DeviceBlocks \cup ChannelBlocks \cup N,
           UNCHANGED hFailed \/ hFailed = <<"none", "none", 0>>,
           i' \in Nat, j' \in Nat, k' \in Nat, chn_i' \in Nat, hDropped' \in BOOLEAN,
           DeviceAt', ChannelAt', FailedAt'
    PROVE  IInv'
  <1>1. PICK B : B = {} OBVIOUS
  <1>2. /\ B \subseteq DeviceBlocks \cup ChannelBlocks
        /\ heap' = (heap \ B) \cup N
        /\ DeviceBlocks' \cup ChannelBlocks' = ((DeviceBlocks \cup ChannelBlocks) \ B) \cup N
    BY <1>1
  <1> QED BY <1>2, InsideStep

\* The same with blocks freed.
LEMMA InsideFrees ==
    ASSUME IInv, fault = "none", InDevice, InDevice', UNCHANGED <<ctx, ctx_i, xml, fault>>, ~Over,
           at # <<"device", "print", 0>>, at' # <<"device", "print", 0>>,
           NEW B, B \subseteq DeviceBlocks \cup ChannelBlocks, heap' = heap \ B,
           DeviceBlocks' \cup ChannelBlocks' = (DeviceBlocks \cup ChannelBlocks) \ B,
           UNCHANGED hFailed \/ hFailed = <<"none", "none", 0>>,
           i' \in Nat, j' \in Nat, k' \in Nat, chn_i' \in Nat, hDropped' \in BOOLEAN,
           DeviceAt', ChannelAt', FailedAt'
    PROVE  IInv'
  <1>1. PICK N : N = {} OBVIOUS
  <1>2. /\ heap' = (heap \ B) \cup N
        /\ DeviceBlocks' \cup ChannelBlocks' = ((DeviceBlocks \cup ChannelBlocks) \ B) \cup N
    BY <1>1
  <1> QED BY <1>2, InsideStep

\* The same with neither.
LEMMA InsideStays ==
    ASSUME IInv, fault = "none", InDevice, InDevice', UNCHANGED <<ctx, ctx_i, xml, fault>>, ~Over,
           at # <<"device", "print", 0>>, at' # <<"device", "print", 0>>,
           heap' = heap, DeviceBlocks' \cup ChannelBlocks' = DeviceBlocks \cup ChannelBlocks,
           UNCHANGED hFailed \/ hFailed = <<"none", "none", 0>>,
           i' \in Nat, j' \in Nat, k' \in Nat, chn_i' \in Nat, hDropped' \in BOOLEAN,
           DeviceAt', ChannelAt', FailedAt'
    PROVE  IInv'
  <1>1. PICK N : N = {} OBVIOUS
  <1>2. /\ heap' = heap \cup N
        /\ DeviceBlocks' \cup ChannelBlocks' = DeviceBlocks \cup ChannelBlocks \cup N
    BY <1>1
  <1> QED BY <1>2, InsideGrows

-----------------------------------------------------------------------------
(* The text of a channel, and its error labels *)

\* The arrays of the device around a channel.
LEMMA ChannelTops ==
    ASSUME InChannel, TypeOK, ctx_i < Len(ctx.devices)
    PROVE  /\ Group = 2 /\ LenTop = 2
           /\ ArrayTop(1) = Count(1) /\ ArrayTop(3) = -1 /\ ArrayTop(4) = -1
           /\ ArrayTop(2) = IF at = <<"channel", "print", 0>> THEN j + 1 ELSE j
  <1>1. Group = 2 BY DEF Group
  <1>2. at # <<"device", "channel", 2>> BY DEF InChannel
  <1> QED BY <1>1, <1>2 DEF LenTop, ArrayTop

\* The block of a channel's text belongs to the device's array.
LEMMA ChannelStrKeeps ==
    ASSUME IInv, fault = "none", channel_str PROVE IInv'
  <1> USE DEF channel_str
  <1>1. InChannel /\ InDevice /\ ~Over /\ UNCHANGED <<ctx, ctx_i, i, j, k, chn_i, xml, hDropped>>
        /\ fault' = fault
    BY DEF InChannel, InDevice, Over, counters, Malloc
  <1>2. hFailed = <<"none", "none", 0>> BY Live DEF FailedAt, Normal
  <1>3. TypeOK /\ ctx_i < Len(ctx.devices) /\ chn.attrs \in Nat
    BY <1>1, ChnType, Counts, Live DEF ContextAt, DeviceAt
  <1>4. chn' = chn /\ \A g, x : ChnBlock(g, x)' = ChnBlock(g, x) BY <1>1, ChnStays
  <1>5. ScanBlocks' = ScanBlocks BY <1>4 DEF ScanBlocks
  <1>6. InChannel' /\ InDevice' BY DEF Malloc, Goto, InChannel, InDevice
  <1>7. ChannelBlocks' = ChannelBlocks
    BY <1>1, <1>4, <1>5, <1>6 DEF ChannelBlocks, Malloc, Goto
  <1>8. DeviceAt' BY <1>1, <1>6, ChannelPlace
  <1>9. ChannelAt' BY <1>1, <1>3, <1>4 DEF ChannelAt, Malloc, Goto
  <1>10. FailedAt' BY <1>2 DEF FailedAt, Normal, Doomed, Malloc, Goto
  <1>11. /\ i' \in Nat /\ j' \in Nat /\ k' \in Nat /\ chn_i' \in Nat /\ hDropped' \in BOOLEAN
         /\ TypeOK' /\ (ctx_i < Len(ctx.devices))'
    BY <1>1, <1>3 DEF TypeOK
  <1>14. at # <<"device", "print", 0>> /\ at' # <<"device", "print", 0>>
    BY <1>1, <1>6 DEF InChannel
  <1>12. CASE /\ heap' = heap \cup {DevBlock("channels", j + 1)} /\ UNCHANGED hFailed
              /\ at' = <<"channel", "print", 0>>
    <2>1. /\ LenTop = 2 /\ LenTop' = 2 /\ ArrayTop(2) = j /\ ArrayTop(2)' = j + 1
          /\ \A h \in 1..4 : h # 2 => ArrayTop(h)' = ArrayTop(h)
      <3>1. \A g : Count(g)' = Count(g) BY <1>1, DevStays
      <3>2. /\ LenTop = 2 /\ ArrayTop(1) = Count(1) /\ ArrayTop(3) = -1 /\ ArrayTop(4) = -1
            /\ ArrayTop(2) = j
        BY <1>1, <1>3, ChannelTops
      <3>3. /\ LenTop' = 2 /\ ArrayTop(1)' = Count(1)' /\ ArrayTop(3)' = -1 /\ ArrayTop(4)' = -1
            /\ ArrayTop(2)' = j' + 1
        BY <1>6, <1>12 DEF Group, LenTop, ArrayTop
      <3> QED BY <1>1, <3>1, <3>2, <3>3
    <2>2. j \in Int /\ j >= -1 BY <1>3 DEF TypeOK
    <2>3. DeviceBlocks' = DeviceBlocks \cup {DevBlock(Groups[2], j + 1)}
      BY <1>1, <1>6, <2>1, <2>2, ArrayGrows
    <2>4. DeviceBlocks' = DeviceBlocks \cup {DevBlock("channels", j + 1)} BY <2>3, GroupsAre
    <2>5. DeviceBlocks' \cup ChannelBlocks'
                = DeviceBlocks \cup ChannelBlocks \cup {DevBlock("channels", j + 1)}
      BY <1>7, <1>12, <2>4
    <2> QED BY <1>1, <1>6, <1>8, <1>9, <1>10, <1>11, <1>12, <1>14, <2>5,
         InsideGrows
  <1>13. CASE /\ at' = <<"channel", "err_free_attrs", 0>> /\ UNCHANGED heap
    <2>1. DeviceBlocks' = DeviceBlocks BY <1>1, <1>6, <1>13, DeviceStaysInChannel
    <2>2. DeviceBlocks' \cup ChannelBlocks' = DeviceBlocks \cup ChannelBlocks
      BY <1>7, <1>13, <2>1
    <2> QED BY <1>1, <1>2, <1>6, <1>8, <1>9, <1>10, <1>11, <1>13, <1>14, <2>2,
         InsideStays
  <1> QED BY <1>12, <1>13 DEF Malloc, Goto

\* Each error label of a channel frees one of the things the channel holds there.
LEMMA ChannelErrorKeeps ==
    ASSUME IInv, fault = "none", channel_error PROVE IInv'
  <1> USE DEF channel_error
  <1>0. UNCHANGED hFailed BY DEF Free
  <1>1. InChannel /\ InDevice /\ ~Over /\ UNCHANGED <<ctx, ctx_i, i, j, k, chn_i, xml, hDropped>>
        /\ at # <<"channel", "print", 0>> /\ UNCHANGED hFailed
    BY <1>0 DEF InChannel, InDevice, Over, counters
  <1>2. TypeOK /\ ctx_i < Len(ctx.devices) /\ chn.attrs \in Nat /\ chn.scan \in BOOLEAN
    BY <1>1, ChnType, Counts, Live DEF ContextAt, DeviceAt
  <1>3. chn' = chn /\ \A g, x : ChnBlock(g, x)' = ChnBlock(g, x) BY <1>1, ChnStays
  <1>4. ScanBlocks' = ScanBlocks BY <1>3 DEF ScanBlocks
  <1>5. ChannelBlocks \subseteq heap BY Live DEF HeapAt, Owned
  <1>6. ~Doomed BY <1>1, Live DEF FailedAt, InChannel
  <1>8. /\ i' \in Nat /\ j' \in Nat /\ k' \in Nat /\ chn_i' \in Nat /\ hDropped' \in BOOLEAN
    BY <1>1, <1>2 DEF TypeOK
  <1>9. \A x, y : ChnBlock("attrs", x) # ChnBlock("len", y)
                  /\ ChnBlock("attrs", x) # ChnBlock("scan_element", y)
                  /\ ChnBlock("len", x) # ChnBlock("scan_element", y)
    BY DEF ChnBlock
  <1>10. ASSUME NEW B, B \subseteq ChannelBlocks, heap' = heap \ B, UNCHANGED fault,
                at' \in {<<"channel", "err_free_attrs_len", 0>>,
                        <<"channel", "err_free_scan_element", 0>>, NoChannel},
                ChannelBlocks' = ChannelBlocks \ B, ChannelAt'
         PROVE  IInv'
    <2>7. FailedAt' BY <1>1, <1>6, <1>10 DEF FailedAt, Normal, Doomed, NoChannel
    <2>8. InChannel' \/ at' = NoChannel BY <1>10 DEF InChannel
    <2>1. InDevice' /\ DeviceAt' BY <1>1, <2>8, ChannelPlace
    <2>2. at' # <<"channel", "print", 0>> BY <1>10 DEF NoChannel
    <2>3. DeviceBlocks' = DeviceBlocks
      BY <1>1, <2>2, <2>8, DeviceStaysInChannel, DeviceStaysWithoutChannel
    <2>4. B \cap DeviceBlocks = {} BY <1>2, <1>10, DeviceApart, ChannelApart
    <2>5. DeviceBlocks' \cup ChannelBlocks' = (DeviceBlocks \cup ChannelBlocks) \ B
      BY <1>10, <2>3, <2>4
    <2>6. at # <<"device", "print", 0>> /\ at' # <<"device", "print", 0>>
      BY <1>1, <1>10 DEF InChannel, NoChannel
    <2>9. B \subseteq DeviceBlocks \cup ChannelBlocks BY <1>10
    <2> QED BY <1>1, <1>8, <1>10, <2>1, <2>5, <2>6, <2>7, <2>9, InsideFrees
  <1>11. CASE at = <<"channel", "err_free_attrs", 0>>
    <2> DEFINE B == {ChnBlock("attrs", x) : x \in 0..chn_i}
    <2>1. ChannelBlocks = ScanBlocks \cup {ChnBlock("len", 0)} \cup B BY <1>11, ChannelLoop
    <2>2. /\ heap' = heap \ B /\ UNCHANGED fault
          /\ at' = <<"channel", "err_free_attrs_len", 0>>
      BY <1>5, <1>11, <2>1 DEF Free, Goto
    <2>3. ChannelBlocks' = ScanBlocks \cup {ChnBlock("len", 0)}
      BY <1>3, <1>4, <2>2 DEF ChannelBlocks, InChannel
    <2>4. ChannelBlocks' = ChannelBlocks \ B BY <1>9, <2>1, <2>3 DEF ScanBlocks
    <2>5. ChannelAt' BY <2>2 DEF ChannelAt
    <2> HIDE DEF B
    <2> QED BY <1>10, <2>1, <2>2, <2>4, <2>5
  <1>12. CASE at = <<"channel", "err_free_attrs_len", 0>>
    <2>1. ChannelBlocks = ScanBlocks \cup {ChnBlock("len", 0)}
      BY <1>12 DEF ChannelBlocks, InChannel
    <2>2. /\ heap' = heap \ {ChnBlock("len", 0)} /\ UNCHANGED fault
          /\ at' = <<"channel", "err_free_scan_element", 0>>
      BY <1>5, <1>12, <2>1 DEF Free, Goto
    <2>3. ChannelBlocks' = ScanBlocks
      BY <1>3, <1>4, <2>2 DEF ChannelBlocks, InChannel
    <2>4. ChannelBlocks' = ChannelBlocks \ {ChnBlock("len", 0)}
      BY <1>9, <2>1, <2>3 DEF ScanBlocks
    <2>5. ChannelAt' BY <2>2 DEF ChannelAt
    <2> QED BY <1>10, <2>1, <2>2, <2>4, <2>5
  <1>13. CASE at = <<"channel", "err_free_scan_element", 0>>
    <2>1. ChannelBlocks = ScanBlocks BY <1>13 DEF ChannelBlocks, InChannel
    <2>2. heap' = heap \ ScanBlocks /\ UNCHANGED fault /\ at' = NoChannel
      BY <1>5, <1>13, <2>1 DEF Free, Goto, ScanBlocks
    <2>3. ~InChannel' BY <2>2 DEF InChannel, NoChannel
    <2>4. ChannelBlocks' = {} BY <2>3 DEF ChannelBlocks
    <2>5. ChannelBlocks' = ChannelBlocks \ ScanBlocks BY <2>1, <2>4
    <2>6. ChannelAt' BY <2>3 DEF ChannelAt
    <2> QED BY <1>10, <2>1, <2>2, <2>5, <2>6
  <1> QED BY <1>11, <1>12, <1>13

\* A channel's parts are freed with all its blocks; its text, which the device holds
\* by then, goes with them when it does not fill its block.
LEMMA ChannelPrintKeeps ==
    ASSUME IInv, fault = "none", channel_print PROVE IInv'
  <1> DEFINE parts == ChannelParts(chn)
             room == Room(TextRoom(parts, chn.over), parts)
             text == Left(room[Len(parts)]) = 1
             Text == {DevBlock("channels", j + 1)}
             B == {ChnBlock("attrs", x) : x \in 0..chn.attrs} \cup {ChnBlock("len", 0)}
                    \cup (IF chn.scan THEN {ChnBlock("scan_element", 0)} ELSE {})
                    \cup (IF text THEN {} ELSE Text)
  <1>1. /\ at = <<"channel", "print", 0>>
        /\ Free(B, IF text THEN <<"device", "channel", 2>> ELSE NoChannel)
        /\ hDropped' = (hDropped \/ (text /\ Skips(room, parts)))
        /\ UNCHANGED <<ctx, counters, xml>>
    BY DEF channel_print
  <1>2. hDropped' \in BOOLEAN BY <1>1 DEF Skips
  <1>3. text \in BOOLEAN OBVIOUS
  <1> HIDE DEF text, room, parts
  <1>4. InChannel /\ InDevice /\ ~Over /\ UNCHANGED <<ctx, ctx_i, i, j, k, chn_i, xml, hFailed>>
    BY <1>1 DEF InChannel, InDevice, Over, counters, Free
  <1>5. hFailed = <<"none", "none", 0>> BY <1>1, Live DEF FailedAt, Normal
  <1>6. TypeOK /\ ctx_i < Len(ctx.devices) /\ chn_i = chn.attrs /\ j < Count(2)
    BY <1>1, <1>4, Live DEF ContextAt, DeviceAt, ChannelAt
  <1>7. ChannelBlocks = ScanBlocks \cup {ChnBlock("len", 0)}
                           \cup {ChnBlock("attrs", x) : x \in 0..chn_i}
    BY <1>1, ChannelLoop
  <1>8. B = ChannelBlocks \cup (IF text THEN {} ELSE Text) BY <1>6, <1>7 DEF ScanBlocks
  <1>9. /\ Group = 2 /\ LenTop = 2 /\ ArrayTop(1) = Count(1) /\ ArrayTop(3) = -1
        /\ ArrayTop(4) = -1 /\ ArrayTop(2) = j + 1
    BY <1>1, <1>4, <1>6, ChannelTops
  <1>10. j \in Nat /\ j + 1 \in Nat BY <1>6 DEF TypeOK
  <1>11. Text \subseteq DeviceBlocks
    BY <1>4, <1>9, <1>10, DeviceIs, GroupsAre
  <1>12. B \subseteq DeviceBlocks \cup ChannelBlocks BY <1>8, <1>11
  <1>13. B \subseteq heap BY <1>12, Live DEF HeapAt, Owned
  <1> HIDE DEF B, Text
  <1>14. /\ heap' = heap \ B /\ UNCHANGED fault
         /\ at' = IF text THEN <<"device", "channel", 2>> ELSE NoChannel
    BY <1>1, <1>13 DEF Free, Goto
  <1>15. InDevice' /\ DeviceAt' BY <1>4, <1>14, ChannelPlace
  <1>16. ~InChannel' BY <1>14 DEF InChannel, NoChannel
  <1>17. ChannelBlocks' = {} /\ ChannelAt' BY <1>16 DEF ChannelBlocks, ChannelAt
  <1>18. FailedAt' BY <1>4, <1>5, <1>14 DEF FailedAt, Doomed, NoChannel
  <1>19. /\ i' \in Nat /\ j' \in Nat /\ k' \in Nat /\ chn_i' \in Nat
         /\ at # <<"device", "print", 0>> /\ at' # <<"device", "print", 0>>
    BY <1>1, <1>4, <1>6, <1>14 DEF TypeOK, NoChannel
  <1>20. \A g : Count(g)' = Count(g) BY <1>4, DevStays
  <1>21. /\ Count(2) \in Nat /\ ctx_i \in Nat BY <1>6, Counts DEF TypeOK
  <1>22. DeviceBlocks \cap ChannelBlocks = {} BY <1>6, DeviceApart, ChannelApart
  <1>23. CASE text
    <2>1. at' = <<"device", "channel", 2>> BY <1>14, <1>23
    <2>2. Group' = 2 BY <2>1, <1>16 DEF Group
    <2>3. /\ LenTop' = 2 /\ ArrayTop(1)' = Count(1)' /\ ArrayTop(3)' = -1
          /\ ArrayTop(4)' = -1 /\ ArrayTop(2)' = j' + 1
      BY <2>1, <2>2 DEF LenTop, ArrayTop
    <2>4. \A g \in 1..4 : ArrayTop(g)' = ArrayTop(g) BY <1>4, <1>9, <1>20, <2>3
    <2>5. DeviceBlocks' = DeviceBlocks BY <1>4, <1>9, <1>15, <2>3, <2>4, DeviceStays
    <2>6. DeviceBlocks' \cup ChannelBlocks' = (DeviceBlocks \cup ChannelBlocks) \ B
      BY <1>8, <1>17, <1>22, <1>23, <2>5
    <2> QED BY <1>2, <1>4, <1>12, <1>14, <1>15, <1>17, <1>18, <1>19, <2>6, InsideFrees
  <1>24. CASE ~text
    <2>1. at' = <<"device", "err_free_elements", 2>> BY <1>14, <1>24 DEF NoChannel
    <2>2. Group' = 2 BY <2>1, <1>16 DEF Group
    <2>3. Counter(2)' = j /\ ~(Counter(2) > Count(2))'
      BY <1>4, <1>6, <1>10, <1>20, <1>21 DEF Counter
    <2>4. /\ LenTop' = 2 /\ ArrayTop(1)' = Count(1)' /\ ArrayTop(3)' = -1
          /\ ArrayTop(4)' = -1 /\ ArrayTop(2)' = j
      BY <1>16, <2>1, <2>2, <2>3 DEF LenTop, ArrayTop
    <2>5. ArrayTop(2)' = (j + 1) - 1 /\ \A g \in 1..4 : g # 2 => ArrayTop(g)' = ArrayTop(g)
      BY <1>9, <1>10, <1>20, <2>4
    <2>6. DeviceBlocks' = DeviceBlocks \ {DevBlock(Groups[2], j + 1)}
      BY <1>4, <1>9, <1>10, <1>15, <2>4, <2>5, ArrayShrinks
    <2>7. DeviceBlocks' = DeviceBlocks \ Text BY <2>6, GroupsAre DEF Text
    <2>8. DeviceBlocks' \cup ChannelBlocks' = (DeviceBlocks \cup ChannelBlocks) \ B
      BY <1>8, <1>17, <1>22, <1>24, <2>7
    <2> QED BY <1>2, <1>4, <1>12, <1>14, <1>15, <1>17, <1>18, <1>19, <2>8, InsideFrees
  <1> QED BY <1>23, <1>24

-----------------------------------------------------------------------------
(* iio_device_get_xml *)

\* Which counter runs over which array.
LEMMA Counters ==
    /\ Counter(1) = i /\ Counter(2) = j /\ Counter(3) = k /\ Counter(4) = k
    /\ Counter(1)' = i' /\ Counter(2)' = j' /\ Counter(3)' = k' /\ Counter(4)' = k'
  BY DEF Counter

\* What the invariant says at a label of iio_device_get_xml.
LEMMA DeviceFacts ==
    ASSUME IInv, fault = "none", at[1] = "device"
    PROVE  /\ InDevice /\ ~InChannel /\ ChannelBlocks = {} /\ TypeOK
           /\ ctx_i < Len(ctx.devices) /\ i \in Nat /\ j \in Nat /\ k \in Nat /\ chn_i \in Nat
           /\ hDropped \in BOOLEAN
           /\ \A g \in 1..4 : Count(g) \in Nat
           /\ Count(3) < Wrapped /\ Wrapped \in Nat
  <1>1. InDevice /\ ~InChannel BY DEF InDevice, InChannel
  <1>2. ChannelBlocks = {} BY <1>1 DEF ChannelBlocks
  <1>3. TypeOK /\ ctx_i < Len(ctx.devices) BY <1>1, Live DEF ContextAt
  <1> QED BY <1>1, <1>2, <1>3, Counts DEF TypeOK, Wrapped

\* The arrays of a device at the label of one of them.
LEMMA TopsAt ==
    ASSUME NEW g \in 1..4, NEW l \in {"len", "array", "loop", "err_free_elements", "err_free_len"},
           at = <<"device", l, g>>
    PROVE  /\ Group = g /\ LenTop = IF l = "len" THEN g - 1 ELSE g
           /\ \A h \in 1..4 : ArrayTop(h) =
                 IF h > g THEN -1
                 ELSE IF h < g THEN Count(h)
                 ELSE IF l \in {"len", "array", "err_free_len"} THEN -1
                 ELSE IF Counter(h) > Count(h) THEN Count(h)
                 ELSE Counter(h)
  <1>1. ~InChannel BY DEF InChannel
  <1>2. Group = g BY <1>1 DEF Group
  <1>3. LenTop = IF l = "len" THEN g - 1 ELSE g BY <1>1, <1>2 DEF LenTop
  <1>4. at # <<"channel", "print", 0>> /\ at # <<"device", "channel", 2>> OBVIOUS
  <1> QED BY <1>1, <1>2, <1>3, <1>4 DEF ArrayTop

\* The same after a step to such a label.
LEMMA TopsAtNext ==
    ASSUME NEW g \in 1..4, NEW l \in {"len", "array", "loop", "err_free_elements", "err_free_len"},
           at' = <<"device", l, g>>, UNCHANGED <<ctx, ctx_i>>
    PROVE  /\ Group' = g /\ LenTop' = IF l = "len" THEN g - 1 ELSE g
           /\ \A h \in 1..4 : ArrayTop(h)' =
                 IF h > g THEN -1
                 ELSE IF h < g THEN Count(h)
                 ELSE IF l \in {"len", "array", "err_free_len"} THEN -1
                 ELSE IF Counter(h)' > Count(h) THEN Count(h)
                 ELSE Counter(h)'
           /\ InDevice' /\ ~InChannel' /\ ChannelBlocks' = {} /\ ChannelAt'
           /\ at' # <<"device", "print", 0>>
           /\ \A h : Count(h)' = Count(h)
  <1>1. ~InChannel' /\ InDevice' BY DEF InChannel, InDevice
  <1>2. Group' = g BY <1>1 DEF Group
  <1>3. LenTop' = IF l = "len" THEN g - 1 ELSE g BY <1>1, <1>2 DEF LenTop
  <1>4. at' # <<"channel", "print", 0>> /\ at' # <<"device", "channel", 2>> OBVIOUS
  <1>5. \A h : Count(h)' = Count(h) BY DevStays
  <1>6. \A h \in 1..4 : ArrayTop(h)' =
                 IF h > g THEN -1
                 ELSE IF h < g THEN Count(h)
                 ELSE IF l \in {"len", "array", "err_free_len"} THEN -1
                 ELSE IF Counter(h)' > Count(h) THEN Count(h)
                 ELSE Counter(h)'
    BY <1>1, <1>2, <1>4, <1>5 DEF ArrayTop
  <1>7. ChannelBlocks' = {} /\ ChannelAt' BY <1>1 DEF ChannelBlocks, ChannelAt
  <1> QED BY <1>1, <1>2, <1>3, <1>5, <1>6, <1>7

\* What DeviceAt says at such a label.
LEMMA PlaceAt ==
    ASSUME NEW g \in 1..4, NEW l \in {"len", "array", "loop", "err_free_elements", "err_free_len"},
           at = <<"device", l, g>>
    PROVE  DeviceAt <=>
              /\ g > 1 => i = Count(1)
              /\ g > 2 => j = Count(2)
              /\ g = 4 /\ l \in {"len", "array", "err_free_len"} /\ ~Doomed => k = Count(3)
              /\ l \in {"loop", "err_free_elements"} =>
                    Counter(g) <= Count(g) \/ (Doomed /\ g = 3 /\ k = Wrapped)
  <1>1. Group = g /\ InDevice /\ ~InChannel BY DEF Group, InDevice, InChannel
  <1>2. at[2] = l /\ at[3] = g OBVIOUS
  <1> QED BY <1>1, <1>2 DEF DeviceAt

\* The same after a step to such a label.
LEMMA PlaceAtNext ==
    ASSUME NEW g \in 1..4, NEW l \in {"len", "array", "loop", "err_free_elements", "err_free_len"},
           at' = <<"device", l, g>>, UNCHANGED <<ctx, ctx_i>>
    PROVE  DeviceAt' <=>
              /\ g > 1 => i' = Count(1)
              /\ g > 2 => j' = Count(2)
              /\ g = 4 /\ l \in {"len", "array", "err_free_len"} /\ ~Doomed' => k' = Count(3)
              /\ l \in {"loop", "err_free_elements"} =>
                    Counter(g)' <= Count(g) \/ (Doomed' /\ g = 3 /\ k' = Wrapped)
  <1>1. Group' = g /\ InDevice' /\ ~InChannel' BY DEF Group, InDevice, InChannel
  <1>2. at'[2] = l /\ at'[3] = g OBVIOUS
  <1>3. \A h : Count(h)' = Count(h) BY DevStays
  <1>4. Counter(at[3])' = Counter(g)' BY <1>2 DEF Counter
  <1> QED BY <1>1, <1>2, <1>3, <1>4 DEF DeviceAt, Wrapped

\* A device that fails, with nothing left of its own.
LEMMA DeviceFails ==
    ASSUME IInv, fault = "none", at[1] = "device", at # <<"device", "print", 0>>, at' = NoDevice,
           UNCHANGED <<ctx, ctx_i, xml, fault, chn_i, hDropped>>,
           i' \in Nat, j' \in Nat, k' \in Nat,
           heap' = heap \ DeviceBlocks, ~Over,
           UNCHANGED hFailed \/ hFailed = <<"none", "none", 0>>, ~Doomed'
    PROVE  IInv'
  <1>1. /\ InDevice /\ ChannelBlocks = {} /\ TypeOK /\ ctx_i < Len(ctx.devices)
    BY DeviceFacts
  <1>2. at' = <<"context", "err_free_devices", 0>> /\ ~InDevice' /\ ~InChannel'
    BY DEF NoDevice, InDevice, InChannel
  <1>3. DeviceBlocks' = {} /\ ChannelBlocks' = {} BY <1>2 DEF DeviceBlocks, ChannelBlocks
  <1>4. NameBlocks' = NameBlocks
    BY <1>1, <1>2 DEF NameBlocks, InDevice, Names, CtxBlock, NameTop
  <1>5. TextTop' = ctx_i /\ TextTop = ctx_i
    BY <1>2 DEF TextTop
  <1>6. TextBlocks' = TextBlocks
    BY <1>1, <1>2, <1>5 DEF TextBlocks, InDevice, CtxBlock
  <1>7. ResultBlock' = ResultBlock BY <1>1, <1>2 DEF ResultBlock, InDevice, CtxBlock
  <1>8. ContextBlocks' = ContextBlocks BY <1>4, <1>6, <1>7 DEF ContextBlocks
  <1>9. ContextBlocks \cap DeviceBlocks = {} BY <1>1, ContextApart, DeviceApart
  <1>10. \A b : Stray(b) => Stray(b)' BY StrayStays
  <1>11. PICK N : N = {} OBVIOUS
  <1>12. heap' = (heap \ DeviceBlocks) \cup N /\ Owned' = (Owned \ DeviceBlocks) \cup N
    BY <1>1, <1>3, <1>8, <1>9, <1>11 DEF Owned
  <1>13. HeapAt' BY <1>10, <1>12, HeapFollows, Live
  <1>14. TypeOK' BY <1>1 DEF TypeOK
  <1>15. ctx_i' <= Len(ctx'.devices) BY <1>1, CtxFields DEF TypeOK
  <1>16. ContextAt' BY <1>2, <1>15 DEF ContextAt
  <1>17. DeviceAt' /\ ChannelAt' BY <1>2 DEF DeviceAt, ChannelAt
  <1>18. FailedAt' BY <1>2 DEF FailedAt, Normal
  <1> QED BY <1>13, <1>14, <1>16, <1>17, <1>18, Step

\* The lengths of an array are allocated, or the arrays before it are to be freed.
LEMMA DeviceLenKeeps ==
    ASSUME IInv, fault = "none", NEW g \in 1..4, device_len(g) PROVE IInv'
  <1>1. /\ at = <<"device", "len", g>> /\ at[1] = "device" /\ ~Over
        /\ UNCHANGED <<ctx, ctx_i, i, j, k, chn_i, xml, hDropped, fault>>
    BY DEF device_len, Malloc, counters, Over
  <1>2. /\ InDevice /\ ~InChannel /\ ChannelBlocks = {} /\ TypeOK
        /\ i' \in Nat /\ j' \in Nat /\ k' \in Nat /\ chn_i' \in Nat /\ hDropped' \in BOOLEAN
        /\ \A h \in 1..4 : Count(h) \in Nat
    BY <1>1, DeviceFacts
  <1>3. hFailed = <<"none", "none", 0>> BY <1>1, Live DEF FailedAt, Normal
  <1>4. ~Doomed BY <1>3 DEF Doomed
  <1>5. /\ g > 1 => i = Count(1)
        /\ g > 2 => j = Count(2)
        /\ g > 3 => k = Count(3)
    BY <1>1, <1>4, PlaceAt, Live
  <1>6. /\ LenTop = g - 1
        /\ \A h \in 1..4 : ArrayTop(h) = IF h < g THEN Count(h) ELSE -1
    BY <1>1, TopsAt
  <1>7. at # <<"device", "print", 0>> BY <1>1
  <1>8. CASE /\ heap' = heap \cup {DevBlock("len", g)} /\ at' = <<"device", "array", g>>
             /\ hFailed' = hFailed
    <2>1. /\ LenTop' = g /\ InDevice' /\ ChannelBlocks' = {} /\ ChannelAt'
          /\ at' # <<"device", "print", 0>>
          /\ \A h \in 1..4 : ArrayTop(h)' = IF h < g THEN Count(h) ELSE -1
      BY <1>1, <1>8, TopsAtNext
    <2>2. DeviceAt' BY <1>1, <1>5, <1>8, PlaceAtNext
    <2>3. g - 1 \in Nat /\ (g - 1) + 1 = g OBVIOUS
    <2>4. DeviceBlocks' = DeviceBlocks \cup {DevBlock("len", (g - 1) + 1)}
      BY <1>1, <1>2, <1>6, <2>1, <2>3, LenGrows
    <2>5. DeviceBlocks' \cup ChannelBlocks'
            = DeviceBlocks \cup ChannelBlocks \cup {DevBlock("len", g)}
      BY <1>2, <2>1, <2>3, <2>4
    <2>6. FailedAt' BY <1>3, <1>8 DEF FailedAt, Doomed
    <2> QED BY <1>1, <1>2, <1>7, <1>8, <2>1, <2>2, <2>5, <2>6, InsideGrows
  <1>9. CASE g > 1 /\ heap' = heap /\ at' = <<"device", "err_free_elements", g - 1>>
             /\ hFailed' = at
    <2>1. g - 1 \in 1..4 BY <1>9
    <2>2. Counter(g - 1)' = Count(g - 1) BY <1>1, <1>5, <1>9, Counters
    <2>3. /\ LenTop' = g - 1 /\ InDevice' /\ ChannelBlocks' = {} /\ ChannelAt'
          /\ at' # <<"device", "print", 0>>
          /\ \A h \in 1..4 : ArrayTop(h)' =
                 IF h > g - 1 THEN -1
                 ELSE IF h < g - 1 THEN Count(h)
                 ELSE IF Counter(h)' > Count(h) THEN Count(h)
                 ELSE Counter(h)'
      BY <1>1, <1>9, <2>1, TopsAtNext
    <2>4. \A h \in 1..4 : ArrayTop(h)' = ArrayTop(h)
      <3> TAKE h \in 1..4
      <3>1. CASE h > g - 1 BY <1>6, <2>3, <3>1
      <3>2. CASE h < g - 1 BY <1>6, <2>3, <3>2
      <3>3. CASE h = g - 1 BY <1>2, <1>6, <2>2, <2>3, <3>3
      <3> QED BY <3>1, <3>2, <3>3
    <2>5. Counter(g - 1)' <= Count(g - 1) BY <1>2, <2>1, <2>2
    <2>6. DeviceAt' BY <1>1, <1>5, <1>9, <2>1, <2>5, PlaceAtNext
    <2>7. DeviceBlocks' = DeviceBlocks BY <1>1, <1>2, <1>6, <2>3, <2>4, DeviceStays
    <2>8. DeviceBlocks' \cup ChannelBlocks' = DeviceBlocks \cup ChannelBlocks
      BY <1>2, <2>3, <2>7
    <2>9. FailedAt' BY <1>1, <1>9 DEF FailedAt, Doomed, Normal
    <2> QED BY <1>1, <1>2, <1>3, <1>7, <1>9, <2>3, <2>6, <2>8, <2>9, InsideStays
  <1>10. CASE g = 1 /\ heap' = heap /\ at' = NoDevice /\ hFailed' = at
    <2>1. \A h \in 1..4 : 0..ArrayTop(h) = {} BY <1>6, <1>10
    <2>2. 1..LenTop = {} BY <1>6, <1>10
    <2>3. DeviceBlocks = {} BY <1>2, <2>1, <2>2, DeviceIs
    <2>4. heap' = heap \ DeviceBlocks BY <1>10, <2>3
    <2>5. ~Doomed' BY <1>1, <1>10 DEF Doomed
    <2> QED BY <1>1, <1>2, <1>3, <1>7, <1>10, <2>4, <2>5, DeviceFails
  <1> QED BY <1>1, <1>8, <1>9, <1>10 DEF device_len, Malloc, Goto

\* Setting one counter, with k for both of the last two arrays.
LEMMA SetIs ==
    ASSUME TypeOK, NEW g \in 1..4, NEW n \in Nat, SetCounter(g, n)
    PROVE  /\ Counter(g)' = n /\ i' \in Nat /\ j' \in Nat /\ k' \in Nat
           /\ g # 1 => i' = i
           /\ g # 2 => j' = j
           /\ g < 3 => k' = k
           /\ g > 2 => k' = n
  <1>1. CASE g = 1 BY <1>1, Counters DEF SetCounter, TypeOK
  <1>2. CASE g = 2 BY <1>2, Counters DEF SetCounter, TypeOK
  <1>3. CASE g = 3 BY <1>3, Counters DEF SetCounter, TypeOK
  <1>4. CASE g = 4 BY <1>4, Counters DEF SetCounter, TypeOK
  <1> QED BY <1>1, <1>2, <1>3, <1>4

\* An array is allocated, and its counter starts from 0.
LEMMA DeviceArrayKeeps ==
    ASSUME IInv, fault = "none", NEW g \in 1..4, device_array(g) PROVE IInv'
  <1>1. /\ at = <<"device", "array", g>> /\ at[1] = "device" /\ ~Over
        /\ UNCHANGED <<ctx, ctx_i, chn_i, xml, hDropped, fault>>
    BY DEF device_array, Malloc, Over
  <1>2. /\ InDevice /\ ~InChannel /\ ChannelBlocks = {} /\ TypeOK
        /\ chn_i' \in Nat /\ hDropped' \in BOOLEAN
        /\ \A h \in 1..4 : Count(h) \in Nat
    BY <1>1, DeviceFacts
  <1>3. hFailed = <<"none", "none", 0>> /\ ~Doomed BY <1>1, Live DEF FailedAt, Normal, Doomed
  <1>4. /\ g > 1 => i = Count(1)
        /\ g > 2 => j = Count(2)
        /\ g > 3 => k = Count(3)
    BY <1>1, <1>3, PlaceAt, Live
  <1>5. /\ LenTop = g
        /\ \A h \in 1..4 : ArrayTop(h) = IF h < g THEN Count(h) ELSE -1
    BY <1>1, TopsAt
  <1>6. at # <<"device", "print", 0>> BY <1>1
  <1>7. CASE /\ heap' = heap \cup {DevBlock(Groups[g], 0)} /\ at' = <<"device", "loop", g>>
             /\ hFailed' = hFailed
    <2>1. SetCounter(g, 0) BY <1>7 DEF device_array
    <2>2. /\ Counter(g)' = 0 /\ i' \in Nat /\ j' \in Nat /\ k' \in Nat
          /\ g > 1 => i' = i
          /\ g > 2 => j' = j
      BY <1>2, <2>1, SetIs
    <2>3. Counter(g)' <= Count(g) /\ ~(Counter(g)' > Count(g)) BY <1>2, <2>2
    <2>4. DeviceAt' BY <1>1, <1>4, <1>7, <2>2, <2>3, PlaceAtNext
    <2>5. /\ LenTop' = g /\ InDevice' /\ ChannelBlocks' = {} /\ ChannelAt'
          /\ at' # <<"device", "print", 0>>
          /\ \A h \in 1..4 : ArrayTop(h)' =
                 IF h > g THEN -1
                 ELSE IF h < g THEN Count(h)
                 ELSE IF Counter(h)' > Count(h) THEN Count(h)
                 ELSE Counter(h)'
      BY <1>1, <1>7, TopsAtNext
    <2>6. ArrayTop(g) = -1 /\ ArrayTop(g)' = -1 + 1 BY <1>5, <2>2, <2>3, <2>5
    <2>7. \A h \in 1..4 : h # g => ArrayTop(h)' = ArrayTop(h)
      <3> TAKE h \in 1..4
      <3>1. CASE h > g BY <1>5, <2>5, <3>1
      <3>2. CASE h < g BY <1>5, <2>5, <3>2
      <3> QED BY <3>1, <3>2
    <2>8. DeviceBlocks' = DeviceBlocks \cup {DevBlock(Groups[g], -1 + 1)}
      BY <1>1, <1>2, <1>5, <2>5, <2>6, <2>7, ArrayGrows
    <2>9. DeviceBlocks' \cup ChannelBlocks'
            = DeviceBlocks \cup ChannelBlocks \cup {DevBlock(Groups[g], 0)}
      BY <1>2, <2>5, <2>8
    <2>10. FailedAt' BY <1>3, <1>7 DEF FailedAt, Doomed
    <2> QED BY <1>1, <1>2, <1>6, <1>7, <2>2, <2>4, <2>5, <2>9, <2>10, InsideGrows
  <1>8. CASE heap' = heap /\ at' = <<"device", "err_free_len", g>> /\ hFailed' = at
    <2>1. UNCHANGED <<i, j, k>> BY <1>8 DEF device_array
    <2>2. i' \in Nat /\ j' \in Nat /\ k' \in Nat BY <1>2, <2>1 DEF TypeOK
    <2>3. DeviceAt' BY <1>1, <1>4, <1>8, <2>1, PlaceAtNext
    <2>4. /\ LenTop' = g /\ InDevice' /\ ChannelBlocks' = {} /\ ChannelAt'
          /\ at' # <<"device", "print", 0>>
          /\ \A h \in 1..4 : ArrayTop(h)' = IF h < g THEN Count(h) ELSE -1
      BY <1>1, <1>8, TopsAtNext
    <2>5. \A h \in 1..4 : ArrayTop(h)' = ArrayTop(h) BY <1>5, <2>4
    <2>6. DeviceBlocks' = DeviceBlocks BY <1>1, <1>2, <1>5, <2>4, <2>5, DeviceStays
    <2>7. DeviceBlocks' \cup ChannelBlocks' = DeviceBlocks \cup ChannelBlocks
      BY <1>2, <2>4, <2>6
    <2>8. FailedAt' BY <1>1, <1>8 DEF FailedAt, Doomed, Normal
    <2> QED BY <1>1, <1>2, <1>3, <1>6, <1>8, <2>2, <2>3, <2>4, <2>7, <2>8, InsideStays
  <1> QED BY <1>7, <1>8 DEF device_array, Malloc, Goto

\* A step to another label of a device that leaves the value of an attribute behind.
LEMMA ValueStep ==
    ASSUME IInv, fault = "none", at[1] = "device", InDevice', UNCHANGED <<ctx, ctx_i, xml, fault>>,
           ~Over, at # <<"device", "print", 0>>, at' # <<"device", "print", 0>>,
           NEW N, NEW value, value[3] = "device value", heap' = heap \cup N \cup {value},
           DeviceBlocks' = DeviceBlocks \cup N, ChannelBlocks' = {},
           UNCHANGED hFailed \/ hFailed = <<"none", "none", 0>>,
           i' \in Nat, j' \in Nat, k' \in Nat, UNCHANGED <<chn_i, hDropped>>,
           DeviceAt', ChannelAt', FailedAt'
    PROVE  IInv'
  <1>1. /\ InDevice /\ ChannelBlocks = {} /\ TypeOK /\ ctx_i < Len(ctx.devices)
        /\ at # <<"context", "err_free_ctx_attrs_values", 0>>
    BY DeviceFacts, Elsewhere
  <1>2. TypeOK' BY <1>1 DEF TypeOK
  <1>3. ContextBlocks' = ContextBlocks BY <1>1, ContextStays
  <1>4. Owned' = Owned \cup N BY <1>1, <1>3 DEF Owned
  <1>5. \A b : Stray(b) => Stray(b)' BY <1>1, StrayStays
  <1>6. \A b \in {value} : Stray(b)' BY DEF Stray
  <1>7. HeapAt' BY <1>4, <1>5, <1>6, Live DEF HeapAt
  <1>8. (ctx_i < Len(ctx.devices))' /\ \A l : at' # <<"context", l, 0>> BY <1>1, Elsewhere
  <1>9. ContextAt' BY <1>8 DEF ContextAt
  <1> QED BY <1>2, <1>7, <1>9, Step

\* An attribute of a device: the buffer of its value is never freed.
LEMMA DeviceAttrKeeps ==
    ASSUME IInv, fault = "none", NEW g \in 1..4, device_attr(g) PROVE IInv'
  <1> DEFINE value == <<ctx_i + 1, g, "device value", Counter(g) + 1>>
             element == DevBlock(Groups[g], Counter(g) + 1)
  <1>1. /\ at = <<"device", "loop", g>> /\ at[1] = "device" /\ ~Over /\ Counter(g) < Count(g)
        /\ SetCounter(g, IF at' = at THEN Counter(g) + 1 ELSE Counter(g))
        /\ AttrText(value, element, TRUE, <<"device", "err_free_elements", g>>)
        /\ UNCHANGED <<ctx, ctx_i, chn_i, xml, hDropped>>
    BY DEF device_attr, get_attr_xml2, Over
  <1>2. value[3] = "device value" OBVIOUS
  <1> HIDE DEF value, element
  <1>3. /\ InDevice /\ ~InChannel /\ ChannelBlocks = {} /\ TypeOK
        /\ i \in Nat /\ j \in Nat /\ k \in Nat /\ chn_i \in Nat /\ hDropped \in BOOLEAN
        /\ \A h \in 1..4 : Count(h) \in Nat
    BY <1>1, DeviceFacts
  <1>4. hFailed = <<"none", "none", 0>> /\ ~Doomed BY <1>1, Live DEF FailedAt, Normal, Doomed
  <1>5. Counter(g) \in Nat BY <1>3, Counters
  <1>6. /\ g > 1 => i = Count(1)
        /\ g > 2 => j = Count(2)
    BY <1>1, <1>4, PlaceAt, Live
  <1>7. /\ LenTop = g /\ ArrayTop(g) = Counter(g)
        /\ \A h \in 1..4 : h # g => ArrayTop(h) = IF h < g THEN Count(h) ELSE -1
    <2>1. ~(Counter(g) > Count(g)) BY <1>1, <1>3, <1>5
    <2> QED BY <1>1, <2>1, TopsAt
  <1>8. at # <<"device", "print", 0>> BY <1>1
  <1>9. CASE /\ heap' = heap \cup {element} \cup {value} /\ UNCHANGED <<at, fault, hFailed>>
    <2>1. SetCounter(g, Counter(g) + 1) BY <1>1, <1>9
    <2>2. Counter(g) + 1 \in Nat BY <1>5
    <2>3. /\ Counter(g)' = Counter(g) + 1 /\ i' \in Nat /\ j' \in Nat /\ k' \in Nat
          /\ g > 1 => i' = i
          /\ g > 2 => j' = j
      BY <1>3, <2>1, <2>2, SetIs
    <2>4. Counter(g)' <= Count(g) /\ ~(Counter(g)' > Count(g)) BY <1>1, <1>3, <1>5, <2>3
    <2>5. at' = <<"device", "loop", g>> BY <1>1, <1>9
    <2>6. DeviceAt' BY <1>1, <1>6, <2>3, <2>4, <2>5, PlaceAtNext
    <2>7. /\ LenTop' = g /\ InDevice' /\ ChannelBlocks' = {} /\ ChannelAt'
          /\ at' # <<"device", "print", 0>>
          /\ \A h \in 1..4 : ArrayTop(h)' =
                 IF h > g THEN -1
                 ELSE IF h < g THEN Count(h)
                 ELSE IF Counter(h)' > Count(h) THEN Count(h)
                 ELSE Counter(h)'
      BY <1>1, <2>5, TopsAtNext
    <2>8. ArrayTop(g)' = Counter(g) + 1 BY <2>3, <2>4, <2>7
    <2>9. \A h \in 1..4 : h # g => ArrayTop(h)' = ArrayTop(h)
      <3> TAKE h \in 1..4
      <3>1. CASE h > g BY <1>7, <2>7, <3>1
      <3>2. CASE h < g BY <1>7, <2>7, <3>2
      <3> QED BY <3>1, <3>2
    <2>10. Counter(g) \in Int /\ Counter(g) >= -1 BY <1>5
    <2>11. DeviceBlocks' = DeviceBlocks \cup {element}
      BY <1>1, <1>3, <1>7, <2>7, <2>8, <2>9, <2>10, ArrayGrows DEF element
    <2>12. FailedAt' BY <1>4, <1>9, <2>5 DEF FailedAt, Doomed
    <2> QED BY <1>1, <1>2, <1>8, <1>9, <2>3, <2>6, <2>7, <2>11, <2>12, ValueStep
  <1>10. CASE /\ heap' = heap \cup {value} /\ at' = <<"device", "err_free_elements", g>>
              /\ hFailed' = at /\ UNCHANGED fault
    <2>1. SetCounter(g, Counter(g)) BY <1>1, <1>10
    <2>2. /\ Counter(g)' = Counter(g) /\ i' \in Nat /\ j' \in Nat /\ k' \in Nat
          /\ g > 1 => i' = i
          /\ g > 2 => j' = j
      BY <1>3, <1>5, <2>1, SetIs
    <2>3. Counter(g)' <= Count(g) /\ ~(Counter(g)' > Count(g)) BY <1>1, <1>3, <1>5, <2>2
    <2>4. DeviceAt' BY <1>1, <1>6, <1>10, <2>2, <2>3, PlaceAtNext
    <2>5. /\ LenTop' = g /\ InDevice' /\ ChannelBlocks' = {} /\ ChannelAt'
          /\ at' # <<"device", "print", 0>>
          /\ \A h \in 1..4 : ArrayTop(h)' =
                 IF h > g THEN -1
                 ELSE IF h < g THEN Count(h)
                 ELSE IF Counter(h)' > Count(h) THEN Count(h)
                 ELSE Counter(h)'
      BY <1>1, <1>10, TopsAtNext
    <2>6. \A h \in 1..4 : ArrayTop(h)' = ArrayTop(h)
      <3> TAKE h \in 1..4
      <3>1. CASE h > g BY <1>7, <2>5, <3>1
      <3>2. CASE h < g BY <1>7, <2>5, <3>2
      <3>3. CASE h = g BY <1>7, <2>2, <2>3, <2>5, <3>3
      <3> QED BY <3>1, <3>2, <3>3
    <2>7. DeviceBlocks' = DeviceBlocks BY <1>1, <1>3, <1>7, <2>5, <2>6, DeviceStays
    <2>8. PICK N : N = {} OBVIOUS
    <2>9. heap' = heap \cup N \cup {value} /\ DeviceBlocks' = DeviceBlocks \cup N
      BY <1>10, <2>7, <2>8
    <2>10. FailedAt'
      <3>1. hFailed' = <<"device", "loop", g>> BY <1>1, <1>10
      <3>2. Doomed' <=> g = 4 BY <3>1 DEF Doomed
      <3> QED BY <1>10, <3>2 DEF FailedAt, Normal
    <2> QED BY <1>1, <1>2, <1>4, <1>8, <1>10, <2>2, <2>4, <2>5, <2>9, <2>10, ValueStep
  <1>11. CASE fault' = "null value"
    <2>1. /\ Counter(g) + 1 \in Nat
          /\ SetCounter(g, Counter(g) + 1) \/ SetCounter(g, Counter(g))
      BY <1>1, <1>5
    <2>2. i' \in Nat /\ j' \in Nat /\ k' \in Nat BY <1>3, <1>5, <2>1, SetIs
    <2>3. TypeOK' BY <1>1, <1>3, <2>2 DEF TypeOK
    <2>4. at' = at BY <1>11, <1>1, Live DEF AttrText
    <2>5. Outcome' BY <1>1, <1>3, <1>11, <2>4, Live DEF Outcome, InDevice
    <2> QED BY <1>11, <2>3, <2>5 DEF IInv
  <1> QED BY <1>1, <1>9, <1>10, <1>11 DEF AttrText, Goto

\* A channel begins, or its text has been stored and is counted.
LEMMA DeviceChannelKeeps ==
    ASSUME IInv, fault = "none", device_channel PROVE IInv'
  <1>1. /\ at[1] = "device" /\ ~Over /\ at # <<"device", "print", 0>>
        /\ UNCHANGED <<ctx, ctx_i, i, k, chn_i, xml, hDropped, fault, heap, hFailed>>
    BY DEF device_channel, memory, Over
  <1>2. /\ InDevice /\ ~InChannel /\ ChannelBlocks = {} /\ TypeOK
        /\ i' \in Nat /\ k' \in Nat /\ chn_i' \in Nat /\ hDropped' \in BOOLEAN /\ j \in Nat
        /\ \A h \in 1..4 : Count(h) \in Nat
    BY <1>1, DeviceFacts
  <1>3. hFailed = <<"none", "none", 0>> BY <1>1, Live DEF FailedAt, Normal, device_channel
  <1>4. ~Doomed BY <1>3 DEF Doomed
  <1>5. Groups[2] = "channels" BY GroupsAre
  <1>6. CASE at = <<"device", "loop", 2>>
    <2>1. j < Count(2) /\ at' = <<"channel", "scan", 0>> /\ j' = j
      BY <1>6 DEF device_channel, Goto
    <2>2. i = Count(1) BY <1>4, <1>6, PlaceAt, Live
    <2>3. /\ LenTop = 2 /\ ArrayTop(1) = Count(1) /\ ArrayTop(2) = j
          /\ ArrayTop(3) = -1 /\ ArrayTop(4) = -1
      <3>1. ~(Counter(2) > Count(2)) /\ Counter(2) = j BY <1>2, <2>1, Counters
      <3> QED BY <1>6, <3>1, TopsAt
    <2>4. InChannel' /\ InDevice' /\ Group' = 2 BY <2>1 DEF InChannel, InDevice, Group
    <2>5. \A g : Count(g)' = Count(g) BY <1>1, DevStays
    <2>6. /\ LenTop' = 2 /\ ArrayTop(1)' = Count(1)' /\ ArrayTop(2)' = j'
          /\ ArrayTop(3)' = -1 /\ ArrayTop(4)' = -1
      BY <2>1, <2>4 DEF LenTop, ArrayTop
    <2>7. \A g \in 1..4 : ArrayTop(g)' = ArrayTop(g) BY <2>1, <2>3, <2>5, <2>6
    <2>8. DeviceBlocks' = DeviceBlocks BY <1>1, <1>2, <2>3, <2>4, <2>6, <2>7, DeviceStays
    <2>9. ChannelBlocks' = {} /\ ChannelAt' BY <2>1 DEF ChannelBlocks, ChannelAt
    <2>10. DeviceAt' BY <1>1, <2>1, <2>2, <2>4, <2>5 DEF DeviceAt
    <2>11. FailedAt' BY <1>1, <1>3, <2>1 DEF FailedAt, Doomed
    <2>12. DeviceBlocks' \cup ChannelBlocks' = DeviceBlocks \cup ChannelBlocks
      BY <1>2, <2>8, <2>9
    <2>13. j' \in Nat /\ at' # <<"device", "print", 0>> BY <1>2, <2>1
    <2> QED BY <1>1, <1>2, <2>4, <2>9, <2>10, <2>11, <2>12, <2>13, InsideStays
  <1>7. CASE at = <<"device", "channel", 2>>
    <2>1. at' = <<"device", "loop", 2>> /\ j' = j + 1 BY <1>7 DEF device_channel, Goto
    <2>2. Group = 2 /\ LenTop = 2 BY <1>2, <1>7 DEF Group, LenTop
    <2>3. i = Count(1) /\ j < Count(2) BY <1>2, <1>7, <2>2, Live DEF DeviceAt
    <2>4. /\ ArrayTop(1) = Count(1) /\ ArrayTop(2) = j + 1
          /\ ArrayTop(3) = -1 /\ ArrayTop(4) = -1
      BY <1>7, <2>2 DEF ArrayTop
    <2>5. Counter(2)' = j + 1 /\ j + 1 \in Nat /\ Counter(2)' <= Count(2)
          /\ ~(Counter(2)' > Count(2))
      BY <1>2, <2>1, <2>3, Counters
    <2>6. /\ LenTop' = 2 /\ InDevice' /\ ChannelBlocks' = {} /\ ChannelAt'
          /\ at' # <<"device", "print", 0>>
          /\ \A h \in 1..4 : ArrayTop(h)' =
                 IF h > 2 THEN -1
                 ELSE IF h < 2 THEN Count(h)
                 ELSE IF Counter(h)' > Count(h) THEN Count(h)
                 ELSE Counter(h)'
      BY <1>1, <2>1, TopsAtNext
    <2>7. ArrayTop(1)' = Count(1) /\ ArrayTop(2)' = j + 1 /\ ArrayTop(3)' = -1
          /\ ArrayTop(4)' = -1
      BY <2>5, <2>6
    <2>8. \A g \in 1..4 : ArrayTop(g)' = ArrayTop(g) BY <2>4, <2>7
    <2>9. DeviceBlocks' = DeviceBlocks BY <1>1, <1>2, <2>2, <2>6, <2>8, DeviceStays
    <2>10. DeviceAt' BY <1>1, <2>1, <2>3, <2>5, PlaceAtNext
    <2>11. FailedAt' BY <1>1, <1>3, <2>1 DEF FailedAt, Doomed
    <2>12. DeviceBlocks' \cup ChannelBlocks' = DeviceBlocks \cup ChannelBlocks
      BY <1>2, <2>6, <2>9
    <2>13. j' \in Nat BY <2>1, <2>5
    <2> QED BY <1>1, <1>2, <2>6, <2>10, <2>11, <2>12, <2>13, InsideStays
  <1> QED BY <1>6, <1>7 DEF device_channel

\* A complete array is followed by the next.
LEMMA DeviceNextArrayKeeps ==
    ASSUME IInv, fault = "none", NEW g \in 1..3, device_str(g) PROVE IInv'
  <1>1. /\ at = <<"device", "loop", g>> /\ at[1] = "device" /\ ~Over
        /\ at # <<"device", "print", 0>> /\ at' = <<"device", "len", g + 1>>
        /\ Counter(g) = Count(g) /\ g \in 1..4 /\ g + 1 \in 1..4
        /\ UNCHANGED <<ctx, ctx_i, i, j, k, chn_i, xml, hDropped, fault, heap, hFailed>>
    BY DEF device_str, memory, counters, Over, Goto
  <1>2. /\ InDevice /\ ~InChannel /\ ChannelBlocks = {} /\ TypeOK
        /\ i' \in Nat /\ j' \in Nat /\ k' \in Nat /\ chn_i' \in Nat /\ hDropped' \in BOOLEAN
        /\ \A h \in 1..4 : Count(h) \in Nat
    BY <1>1, DeviceFacts
  <1>3. hFailed = <<"none", "none", 0>> /\ ~Doomed BY <1>1, Live DEF FailedAt, Normal, Doomed
  <1>4. /\ g > 1 => i = Count(1)
        /\ g > 2 => j = Count(2)
    BY <1>1, <1>3, PlaceAt, Live
  <1>5. /\ LenTop = g
        /\ \A h \in 1..4 : ArrayTop(h) = IF h > g THEN -1 ELSE Count(h)
    <2>1. ~(Counter(g) > Count(g)) BY <1>1, <1>2
    <2>2. /\ LenTop = g
          /\ \A h \in 1..4 : ArrayTop(h) =
                 IF h > g THEN -1
                 ELSE IF h < g THEN Count(h)
                 ELSE IF Counter(h) > Count(h) THEN Count(h)
                 ELSE Counter(h)
      BY <1>1, TopsAt
    <2> SUFFICES ASSUME NEW h \in 1..4
                 PROVE  ArrayTop(h) = IF h > g THEN -1 ELSE Count(h)
      BY <2>2
    <2>3. CASE h > g BY <2>2, <2>3
    <2>4. CASE h < g BY <2>2, <2>4
    <2>5. CASE h = g BY <1>1, <2>1, <2>2, <2>5
    <2> QED BY <2>3, <2>4, <2>5
  <1>6. /\ LenTop' = (g + 1) - 1 /\ InDevice' /\ ChannelBlocks' = {} /\ ChannelAt'
        /\ at' # <<"device", "print", 0>>
        /\ \A h \in 1..4 : ArrayTop(h)' = IF h < g + 1 THEN Count(h) ELSE -1
    BY <1>1, TopsAtNext
  <1>7. \A h \in 1..4 : ArrayTop(h)' = ArrayTop(h) BY <1>5, <1>6
  <1>8. LenTop' = LenTop BY <1>5, <1>6
  <1>9. DeviceBlocks' = DeviceBlocks BY <1>1, <1>2, <1>6, <1>7, <1>8, DeviceStays
  <1>10. /\ g = 1 => i = Count(1)
         /\ g = 2 => j = Count(2)
         /\ g = 3 => k = Count(3)
    BY <1>1, Counters
  <1>11. /\ g + 1 > 1 => i' = Count(1)
         /\ g + 1 > 2 => j' = Count(2)
         /\ g + 1 = 4 => k' = Count(3)
    BY <1>1, <1>4, <1>10
  <1>12. DeviceAt' BY <1>1, <1>11, PlaceAtNext
  <1>13. FailedAt' BY <1>1, <1>3 DEF FailedAt, Doomed
  <1>14. DeviceBlocks' \cup ChannelBlocks' = DeviceBlocks \cup ChannelBlocks BY <1>2, <1>6, <1>9
  <1> QED BY <1>1, <1>2, <1>6, <1>12, <1>13, <1>14, InsideStays

\* The loop that frees an array's elements frees all there are, unless its counter has
\* already been run down: then nothing follows.
LEMMA DeviceErrorElementsKeeps ==
    ASSUME IInv, fault = "none", NEW g \in 1..4, device_error_elements(g) PROVE IInv'
  <1>1. /\ at = <<"device", "err_free_elements", g>> /\ at[1] = "device" /\ ~Over
        /\ at # <<"device", "print", 0>> /\ UNCHANGED <<ctx, ctx_i, chn_i, xml, hDropped>>
    BY DEF device_error_elements, Over
  <1>2. /\ InDevice /\ ~InChannel /\ ChannelBlocks = {} /\ TypeOK
        /\ chn_i' \in Nat /\ hDropped' \in BOOLEAN /\ i \in Nat /\ j \in Nat /\ k \in Nat
        /\ \A h \in 1..4 : Count(h) \in Nat
        /\ Wrapped \in Nat /\ Count(3) < Wrapped
    BY <1>1, DeviceFacts
  <1>3. Counter(g) \in Nat BY <1>2, Counters
  <1>4. /\ g > 1 => i = Count(1)
        /\ g > 2 => j = Count(2)
        /\ Counter(g) <= Count(g) \/ (Doomed /\ g = 3 /\ k = Wrapped)
    BY <1>1, PlaceAt, Live
  <1>5. CASE Counter(g) > Count(g)
    <2>1. Doomed BY <1>2, <1>3, <1>4, <1>5
    <2>2. fault' = "bad free" /\ UNCHANGED <<heap, at, hFailed, i, j, k>>
      BY <1>5 DEF device_error_elements
    <2>3. TypeOK' BY <1>1, <1>2, <2>2 DEF TypeOK
    <2>4. Outcome' BY <1>1, <1>2, <2>1, <2>2, Live DEF Outcome, Doomed, InDevice, Over
    <2> QED BY <2>2, <2>3, <2>4 DEF IInv
  <1>6. CASE ~(Counter(g) > Count(g))
    <2>1. /\ Free({DevBlock(Groups[g], x) : x \in 0..Counter(g)}, <<"device", "err_free_len", g>>)
          /\ SetCounter(g, Wrapped)
      BY <1>6 DEF device_error_elements
    <2>2. /\ LenTop = g /\ ArrayTop(g) = Counter(g)
          /\ \A h \in 1..4 : h # g => ArrayTop(h) = IF h < g THEN Count(h) ELSE -1
      BY <1>1, <1>6, TopsAt
    <2>3. Array(g) = {DevBlock(Groups[g], x) : x \in 0..Counter(g)} BY <2>2 DEF Array
    <2>4. Array(g) \subseteq DeviceBlocks BY <1>2, DeviceParted
    <2>5. Array(g) \subseteq heap BY <2>4, Live DEF HeapAt, Owned
    <2>6. /\ heap' = heap \ Array(g) /\ at' = <<"device", "err_free_len", g>>
          /\ UNCHANGED <<fault, hFailed>>
      BY <2>1, <2>3, <2>5 DEF Free, Goto
    <2>7. /\ Counter(g)' = Wrapped /\ i' \in Nat /\ j' \in Nat /\ k' \in Nat
          /\ g > 1 => i' = i
          /\ g > 2 => j' = j
          /\ g < 3 => k' = k
          /\ g > 2 => k' = Wrapped
      BY <1>2, <2>1, SetIs
    <2>8. /\ LenTop' = g /\ InDevice' /\ ChannelBlocks' = {} /\ ChannelAt'
          /\ at' # <<"device", "print", 0>>
          /\ \A h \in 1..4 : ArrayTop(h)' = IF h < g THEN Count(h) ELSE -1
      BY <1>1, <2>6, TopsAtNext
    <2>9. ArrayTop(g)' = -1 /\ \A h \in 1..4 : h # g => ArrayTop(h)' = ArrayTop(h)
      BY <2>2, <2>8
    <2>10. DeviceBlocks' = DeviceBlocks \ Array(g)
      BY <1>1, <1>2, <2>2, <2>8, <2>9, ArrayFreed
    <2>11. /\ DeviceBlocks' \cup ChannelBlocks' = (DeviceBlocks \cup ChannelBlocks) \ Array(g)
           /\ Array(g) \subseteq DeviceBlocks \cup ChannelBlocks
      BY <1>2, <2>4, <2>8, <2>10
    <2>12. g = 4 => Doomed /\ Doomed' BY <1>1, <2>6, Live DEF FailedAt, Doomed
    <2>13. DeviceAt' BY <1>1, <1>4, <2>6, <2>7, <2>12, PlaceAtNext
    <2>14. g # 4 => ~Doomed'
      <3>1. g # 4 /\ Doomed => g = 3 /\ k = Wrapped BY <1>1, Live DEF FailedAt
      <3>2. g = 3 => Counter(g) = k BY Counters
      <3>3. g = 3 => k # Wrapped BY <1>2, <1>3, <1>6, <3>2
      <3> QED BY <2>6, <3>1, <3>3 DEF Doomed
    <2>15. FailedAt' BY <2>6, <2>7, <2>14 DEF FailedAt, Normal
    <2> QED BY <1>1, <1>2, <2>6, <2>7, <2>8, <2>11, <2>13, <2>15, InsideFrees
  <1> QED BY <1>5, <1>6

\* The label of an array's lengths leads to the array before it, or out of the device.
LEMMA DeviceErrorLenKeeps ==
    ASSUME IInv, fault = "none", NEW g \in 1..4, device_error_len(g) PROVE IInv'
  <1>1. /\ at = <<"device", "err_free_len", g>> /\ at[1] = "device" /\ ~Over
        /\ at # <<"device", "print", 0>>
        /\ UNCHANGED <<ctx, ctx_i, i, j, k, chn_i, xml, hDropped>>
        /\ Free({DevBlock("len", g)},
                IF g = 1 THEN NoDevice ELSE <<"device", "err_free_elements", g - 1>>)
    BY DEF device_error_len, Over, counters
  <1>2. /\ InDevice /\ ~InChannel /\ ChannelBlocks = {} /\ TypeOK
        /\ i' \in Nat /\ j' \in Nat /\ k' \in Nat /\ chn_i' \in Nat /\ hDropped' \in BOOLEAN
        /\ \A h \in 1..4 : Count(h) \in Nat
        /\ Wrapped \in Nat /\ Count(3) < Wrapped
    BY <1>1, DeviceFacts
  <1>3. /\ g > 1 => i = Count(1)
        /\ g > 2 => j = Count(2)
        /\ g = 4 /\ ~Doomed => k = Count(3)
    BY <1>1, PlaceAt, Live
  <1>4. Doomed => g = 4 /\ k = Wrapped BY <1>1, Live DEF FailedAt
  <1>5. /\ LenTop = g
        /\ \A h \in 1..4 : ArrayTop(h) = IF h < g THEN Count(h) ELSE -1
    BY <1>1, TopsAt
  <1>6. DevBlock("len", g) \in DeviceBlocks BY <1>2, <1>5, DeviceIs
  <1>7. DevBlock("len", g) \in heap BY <1>6, Live DEF HeapAt, Owned
  <1>8. /\ heap' = heap \ {DevBlock("len", g)} /\ UNCHANGED <<fault, hFailed>>
        /\ at' = IF g = 1 THEN NoDevice ELSE <<"device", "err_free_elements", g - 1>>
    BY <1>1, <1>7 DEF Free, Goto
  <1>9. Doomed' = Doomed BY <1>8 DEF Doomed
  <1>10. CASE g = 1
    <2>1. \A h \in 1..4 : 0..ArrayTop(h) = {} BY <1>5, <1>10
    <2>2. 1..LenTop = {1} BY <1>5, <1>10
    <2>3. DeviceBlocks = {DevBlock("len", 1)} BY <1>2, <2>1, <2>2, DeviceIs
    <2>4. heap' = heap \ DeviceBlocks /\ at' = NoDevice BY <1>8, <1>10, <2>3
    <2>5. ~Doomed' BY <1>4, <1>9, <1>10
    <2> QED BY <1>1, <1>2, <1>8, <2>4, <2>5, DeviceFails
  <1>11. CASE g > 1
    <2>1. g - 1 \in 1..4 /\ at' = <<"device", "err_free_elements", g - 1>> BY <1>8, <1>11
    <2>2. /\ LenTop' = g - 1 /\ InDevice' /\ ChannelBlocks' = {} /\ ChannelAt'
          /\ at' # <<"device", "print", 0>>
          /\ \A h \in 1..4 : ArrayTop(h)' =
                 IF h > g - 1 THEN -1
                 ELSE IF h < g - 1 THEN Count(h)
                 ELSE IF Counter(h)' > Count(h) THEN Count(h)
                 ELSE Counter(h)'
      BY <1>1, <2>1, TopsAtNext
    <2>3. \/ Counter(g - 1)' = Count(g - 1)
          \/ Doomed /\ g = 4 /\ Counter(g - 1)' = Wrapped /\ Wrapped > Count(g - 1)
      BY <1>1, <1>2, <1>3, <1>4, <1>11, Counters
    <2>4. \A h \in 1..4 : ArrayTop(h)' = ArrayTop(h)
      <3> TAKE h \in 1..4
      <3>1. CASE h > g - 1 BY <1>5, <2>2, <3>1
      <3>2. CASE h < g - 1 BY <1>5, <2>2, <3>2
      <3>3. CASE h = g - 1 BY <1>2, <1>5, <2>2, <2>3, <3>3
      <3> QED BY <3>1, <3>2, <3>3
    <2>5. DeviceBlocks' = DeviceBlocks \ {DevBlock("len", g)}
      BY <1>1, <1>2, <1>5, <2>2, <2>4, LenFreed
    <2>6. /\ DeviceBlocks' \cup ChannelBlocks' = (DeviceBlocks \cup ChannelBlocks) \ {DevBlock("len", g)}
          /\ {DevBlock("len", g)} \subseteq DeviceBlocks \cup ChannelBlocks
      BY <1>2, <1>6, <2>2, <2>5
    <2>7. Counter(g - 1)' <= Count(g - 1) \/ (Doomed' /\ g - 1 = 3 /\ k' = Wrapped)
      BY <1>1, <1>2, <1>4, <1>9, <2>1, <2>3
    <2>8. DeviceAt' BY <1>1, <1>3, <2>1, <2>7, PlaceAtNext
    <2>9. FailedAt'
      <3>1. at' # <<"device", "err_free_elements", 4>> BY <2>1
      <3>2. Doomed' => at' = <<"device", "err_free_elements", 3>> /\ k' = Wrapped
        BY <1>1, <1>4, <1>9, <2>1
      <3> QED BY <2>1, <3>1, <3>2 DEF FailedAt, Normal
    <2> QED BY <1>1, <1>2, <1>8, <2>2, <2>6, <2>8, <2>9, InsideFrees
  <1> QED BY <1>10, <1>11

-----------------------------------------------------------------------------
(* The text of a device, which the context holds *)

\* The blocks of the context with the texts of its first devices.
Around(top) ==
    Names("ctx_attrs", ctx.attrs) \cup Names("ctx_values", ctx.attrs)
        \cup {CtxBlock("devices", x) : x \in 0..top} \cup {CtxBlock("len", 0)}

\* Inside a device these are the blocks of the context.
LEMMA AroundDevice ==
    ASSUME InDevice, ctx.devices # <<>>, ~xml
    PROVE  ContextBlocks = Around(IF at = <<"device", "print", 0>> THEN ctx_i + 1 ELSE ctx_i)
  <1>1. NameBlocks = Names("ctx_attrs", ctx.attrs) \cup Names("ctx_values", ctx.attrs)
    BY DEF NameBlocks
  <1>2. \A l : at # <<"context", l, 0>> BY Elsewhere
  <1>3. ResultBlock = {} BY <1>2 DEF ResultBlock
  <1>4. at[1] \notin {"main", "exit"} BY DEF InDevice
  <1>5. TextBlocks = {CtxBlock("devices", x) : x \in 0..TextTop} \cup {CtxBlock("len", 0)}
    BY <1>4 DEF TextBlocks
  <1>6. TextTop = IF at = <<"device", "print", 0>> THEN ctx_i + 1 ELSE ctx_i
    BY <1>2 DEF TextTop
  <1> QED BY <1>1, <1>3, <1>5, <1>6 DEF ContextBlocks, Around

\* The same after a step.
LEMMA AroundDeviceNext ==
    ASSUME InDevice', UNCHANGED <<ctx, ctx_i, xml>>, ctx.devices # <<>>, ~xml
    PROVE  ContextBlocks' = Around(IF at' = <<"device", "print", 0>> THEN ctx_i + 1 ELSE ctx_i)
  <1>0. \A n, t : Names(n, t)' = Names(n, t) /\ CtxBlock(n, t)' = CtxBlock(n, t)
    BY DEF Names, CtxBlock
  <1>1. NameBlocks' = Names("ctx_attrs", ctx.attrs) \cup Names("ctx_values", ctx.attrs)
    BY DEF NameBlocks, Names, CtxBlock
  <1>2. \A l : at' # <<"context", l, 0>> BY Elsewhere
  <1>3. ResultBlock' = {} BY <1>2 DEF ResultBlock
  <1>4. at'[1] \notin {"main", "exit"} BY DEF InDevice
  <1>6. TextTop' = IF at' = <<"device", "print", 0>> THEN ctx_i + 1 ELSE ctx_i
    BY <1>2 DEF TextTop
  <1>5. TextBlocks' = {CtxBlock("devices", x) : x \in 0..TextTop'} \cup {CtxBlock("len", 0)}
    BY <1>4 DEF TextBlocks, CtxBlock
  <1> QED BY <1>1, <1>3, <1>5, <1>6 DEF ContextBlocks, Around

\* At the labels of the context that come with a device's text, or without it.
LEMMA AroundNext ==
    ASSUME at' \in {<<"context", l, 0>> : l \in {"loop", "device", "str", "err_free_devices"}},
           UNCHANGED <<ctx, xml>>, ctx.devices # <<>>, ~xml
    PROVE  ContextBlocks' = Around(IF at' = <<"context", "device", 0>> THEN ctx_i' + 1 ELSE ctx_i')
  <1>1. PICK l \in {"loop", "device", "str", "err_free_devices"} : at' = <<"context", l, 0>>
    OBVIOUS
  <1>2. ~InDevice' BY <1>1 DEF InDevice
  <1>3. NameTop' = ctx.attrs BY <1>1 DEF NameTop
  <1>4. NameBlocks' = Names("ctx_attrs", ctx.attrs) \cup Names("ctx_values", ctx.attrs)
    BY <1>1, <1>2, <1>3 DEF NameBlocks, Names, CtxBlock
  <1>5. ResultBlock' = {} BY <1>1 DEF ResultBlock
  <1>6. TextTop' = IF at' = <<"context", "device", 0>> THEN ctx_i' + 1 ELSE ctx_i'
    BY <1>1 DEF TextTop
  <1>7. TextBlocks' = {CtxBlock("devices", x) : x \in 0..TextTop'} \cup {CtxBlock("len", 0)}
    BY <1>1 DEF TextBlocks, CtxBlock
  <1> QED BY <1>4, <1>5, <1>6, <1>7 DEF ContextBlocks, Around

\* The text of one more device.
LEMMA AroundGrows ==
    ASSUME NEW t \in Nat
    PROVE  /\ Around(t + 1) = Around(t) \cup {CtxBlock("devices", t + 1)}
           /\ Around(t) = Around(t + 1) \ {CtxBlock("devices", t + 1)}
  <1>1. 0..(t + 1) = (0..t) \cup {t + 1} /\ t + 1 \notin 0..t OBVIOUS
  <1>2. CtxBlock("devices", t + 1) \notin Around(t)
    BY <1>1 DEF Around, Names, CtxBlock
  <1>3. Around(t + 1) = Around(t) \cup {CtxBlock("devices", t + 1)}
    BY <1>1 DEF Around
  <1> QED BY <1>2, <1>3

\* The last array is complete: the device's text is allocated in the context's array.
LEMMA DeviceLastKeeps ==
    ASSUME IInv, fault = "none", device_str(4) PROVE IInv'
  <1>1. /\ at = <<"device", "loop", 4>> /\ at[1] = "device" /\ ~Over
        /\ at # <<"device", "print", 0>> /\ Counter(4) = Count(4)
        /\ UNCHANGED <<ctx, ctx_i, i, j, k, chn_i, xml, hDropped, fault>>
        /\ Malloc(CtxBlock("devices", ctx_i + 1), <<"device", "print", 0>>,
                  <<"device", "err_free_elements", 4>>)
    BY DEF device_str, Malloc, counters, Over
  <1>2. /\ InDevice /\ ~InChannel /\ ChannelBlocks = {} /\ TypeOK
        /\ i' \in Nat /\ j' \in Nat /\ k' \in Nat /\ chn_i' \in Nat /\ hDropped' \in BOOLEAN
        /\ ctx_i < Len(ctx.devices)
        /\ \A h \in 1..4 : Count(h) \in Nat
    BY <1>1, DeviceFacts
  <1>3. hFailed = <<"none", "none", 0>> /\ ~Doomed BY <1>1, Live DEF FailedAt, Normal, Doomed
  <1>4. i = Count(1) /\ j = Count(2) BY <1>1, <1>3, PlaceAt, Live
  <1>5. LenTop = 4 /\ \A h \in 1..4 : ArrayTop(h) = Count(h)
    <2>1. ~(Counter(4) > Count(4)) BY <1>1, <1>2
    <2> QED BY <1>1, <2>1, TopsAt
  <1>6. \A h : Count(h)' = Count(h) BY <1>1, DevStays
  <1>7. ctx.devices # <<>> /\ ~xml /\ ctx_i \in Nat
    BY <1>1, <1>2, CtxFields, Live DEF TypeOK, Outcome
  <1>8. CASE heap' = heap \cup {CtxBlock("devices", ctx_i + 1)} /\ at' = <<"device", "print", 0>>
             /\ UNCHANGED hFailed
    <2>1. InDevice' /\ ~InChannel' BY <1>8 DEF InDevice, InChannel
    <2>2. Group' = 5 BY <1>8, <2>1 DEF Group
    <2>3. LenTop' = 4 /\ \A h \in 1..4 : ArrayTop(h)' = Count(h)'
      BY <2>2 DEF LenTop, ArrayTop
    <2>4. DeviceBlocks' = DeviceBlocks BY <1>1, <1>2, <1>5, <1>6, <2>1, <2>3, DeviceStays
    <2>5. ChannelBlocks' = {} /\ ChannelAt' BY <2>1 DEF ChannelBlocks, ChannelAt
    <2>6. ContextBlocks = Around(ctx_i) BY <1>1, <1>2, <1>7, AroundDevice
    <2>7. ContextBlocks' = Around(ctx_i + 1) BY <1>1, <1>7, <1>8, <2>1, AroundDeviceNext
    <2>8. ContextBlocks' = ContextBlocks \cup {CtxBlock("devices", ctx_i + 1)}
      BY <1>7, <2>6, <2>7, AroundGrows
    <2>9. Owned' = Owned \cup {CtxBlock("devices", ctx_i + 1)}
      BY <1>2, <2>4, <2>5, <2>8 DEF Owned
    <2>10. \A b : Stray(b) => Stray(b)' BY <1>1, <1>3, StrayStays
    <2>11. HeapAt' BY <1>8, <2>9, <2>10, Live DEF HeapAt
    <2>12. TypeOK' BY <1>1, <1>2 DEF TypeOK
    <2>13. (ctx_i < Len(ctx.devices))' /\ \A l : at' # <<"context", l, 0>>
      BY <1>1, <1>2, <2>1, Elsewhere
    <2>14. ContextAt' BY <2>13 DEF ContextAt
    <2>15. DeviceAt' BY <1>8, <2>1, <2>2 DEF DeviceAt
    <2>16. FailedAt' BY <1>3, <1>8 DEF FailedAt, Doomed
    <2> QED BY <1>1, <2>5, <2>11, <2>12, <2>14, <2>15, <2>16, Step
  <1>9. CASE UNCHANGED heap /\ at' = <<"device", "err_free_elements", 4>> /\ hFailed' = at
    <2>1. /\ LenTop' = 4 /\ InDevice' /\ ChannelBlocks' = {} /\ ChannelAt'
          /\ at' # <<"device", "print", 0>>
          /\ \A h \in 1..4 : ArrayTop(h)' =
                 IF h > 4 THEN -1
                 ELSE IF h < 4 THEN Count(h)
                 ELSE IF Counter(h)' > Count(h) THEN Count(h)
                 ELSE Counter(h)'
      BY <1>1, <1>9, TopsAtNext
    <2>2. Counter(4)' = Count(4) BY <1>1, Counters
    <2>3. ArrayTop(4)' = Count(4) BY <1>2, <2>1, <2>2
    <2>4. \A h \in 1..4 : ArrayTop(h)' = ArrayTop(h) BY <1>5, <2>1, <2>3
    <2>5. DeviceBlocks' = DeviceBlocks BY <1>1, <1>2, <1>5, <2>1, <2>4, DeviceStays
    <2>6. Counter(4)' <= Count(4) BY <1>2, <2>2
    <2>7. DeviceAt' BY <1>1, <1>4, <1>9, <2>6, PlaceAtNext
    <2>8. FailedAt' BY <1>1, <1>9 DEF FailedAt, Doomed, Normal
    <2>9. DeviceBlocks' \cup ChannelBlocks' = DeviceBlocks \cup ChannelBlocks
      BY <1>2, <2>1, <2>5
    <2> QED BY <1>1, <1>2, <1>3, <1>9, <2>1, <2>7, <2>8, <2>9, InsideStays
  <1> QED BY <1>1, <1>8, <1>9 DEF Malloc, Goto

\* Printing a device frees its four arrays and their lengths; its text, which the
\* context holds, only when it does not fill its block.
LEMMA DevicePrintKeeps ==
    ASSUME IInv, fault = "none", device_print PROVE IInv'
  <1> DEFINE parts == DeviceParts(dev)
             room == Room(TextRoom(parts, dev.over), parts)
             text == Left(room[Len(parts)]) = 1
             Text == {CtxBlock("devices", ctx_i + 1)}
             Parts == UNION {{DevBlock(Groups[g], x) : x \in 0..Count(g)} \cup {DevBlock("len", g)} :
                             g \in 1..4}
             B == Parts \cup (IF text THEN {} ELSE Text)
  <1>1. /\ at = <<"device", "print", 0>> /\ at[1] = "device"
        /\ Free(B, IF text THEN <<"context", "device", 0>> ELSE NoDevice)
        /\ hDropped' = (hDropped \/ (text /\ Skips(room, parts)))
        /\ UNCHANGED <<ctx, counters, xml>>
    BY DEF device_print
  <1>2. hDropped' \in BOOLEAN BY <1>1 DEF Skips
  <1> HIDE DEF text, room, parts
  <1>3. ~Over /\ UNCHANGED <<ctx, ctx_i, i, j, k, chn_i, xml, hFailed>>
    BY <1>1 DEF Over, counters, Free
  <1>4. hFailed = <<"none", "none", 0>> BY <1>1, Live DEF FailedAt, Normal
  <1>5. /\ InDevice /\ ~InChannel /\ ChannelBlocks = {} /\ TypeOK /\ ctx_i < Len(ctx.devices)
        /\ \A h \in 1..4 : Count(h) \in Nat
    BY <1>1, DeviceFacts
  <1>6. ctx.devices # <<>> /\ ~xml /\ ctx_i \in Nat
    BY <1>1, <1>3, <1>5, CtxFields, Live DEF TypeOK, Outcome
  <1>7. Group = 5 BY <1>1, <1>5 DEF Group
  <1>8. LenTop = 4 /\ \A h \in 1..4 : ArrayTop(h) = Count(h)
    BY <1>7 DEF LenTop, ArrayTop
  <1>9. Parts = DeviceBlocks
    <2>1. \A b : b \in DeviceBlocks <=>
              \/ \E g \in 1..4 : \E x \in 0..Count(g) : b = DevBlock(Groups[g], x)
              \/ \E x \in 1..4 : b = DevBlock("len", x)
      BY <1>5, <1>8, DeviceIs
    <2>2. \A b : b \in Parts <=>
              \E g \in 1..4 : \/ \E x \in 0..Count(g) : b = DevBlock(Groups[g], x)
                              \/ b = DevBlock("len", g)
      OBVIOUS
    <2> QED BY <2>1, <2>2
  <1> HIDE DEF Parts
  <1>10. B = DeviceBlocks \cup (IF text THEN {} ELSE Text) BY <1>9
  <1>11. ContextBlocks = Around(ctx_i + 1) BY <1>1, <1>5, <1>6, AroundDevice
  <1>12. Text \subseteq ContextBlocks BY <1>6, <1>11, AroundGrows
  <1>13. B \subseteq heap BY <1>10, <1>12, Live DEF HeapAt, Owned
  <1> HIDE DEF B
  <1>14. /\ heap' = heap \ B /\ UNCHANGED fault
         /\ at' = IF text THEN <<"context", "device", 0>> ELSE NoDevice
    BY <1>1, <1>13 DEF Free, Goto
  <1>15. /\ at' = <<"context", IF text THEN "device" ELSE "err_free_devices", 0>>
         /\ ~InDevice' /\ ~InChannel'
    BY <1>14 DEF NoDevice, InDevice, InChannel
  <1>16. DeviceBlocks' = {} /\ ChannelBlocks' = {} /\ DeviceAt' /\ ChannelAt'
    BY <1>15 DEF DeviceBlocks, ChannelBlocks, DeviceAt, ChannelAt
  <1>17. ContextBlocks' = Around(IF text THEN ctx_i + 1 ELSE ctx_i)
    BY <1>3, <1>6, <1>15, AroundNext
  <1>18. ContextBlocks' = ContextBlocks \ (IF text THEN {} ELSE Text)
    BY <1>6, <1>11, <1>17, AroundGrows
  <1>19. ContextBlocks \cap DeviceBlocks = {} BY <1>5, ContextApart, DeviceApart
  <1> HIDE DEF Text
  <1>20. PICK N : N = {} OBVIOUS
  <1>21. heap' = (heap \ B) \cup N /\ Owned' = (Owned \ B) \cup N
    BY <1>5, <1>10, <1>14, <1>16, <1>18, <1>19, <1>20 DEF Owned
  <1>22. \A b : Stray(b) => Stray(b)' BY <1>1, <1>3, StrayStays
  <1>23. HeapAt' BY <1>21, <1>22, HeapFollows, Live
  <1>24. TypeOK' BY <1>2, <1>3, <1>5 DEF TypeOK
  <1>25. ctx_i' < Len(ctx'.devices) /\ ctx_i' <= Len(ctx'.devices) BY <1>3, <1>5, <1>6, CtxFields
  <1>26. ContextAt' BY <1>15, <1>25 DEF ContextAt
  <1>27. FailedAt' BY <1>3, <1>4, <1>15 DEF FailedAt, Doomed
  <1> QED BY <1>3, <1>14, <1>16, <1>23, <1>24, <1>26, <1>27, Step

-----------------------------------------------------------------------------
(* iio_context_create_xml *)

\* What the invariant says at a label of iio_context_create_xml.
LEMMA ContextFacts ==
    ASSUME IInv, fault = "none", at[1] = "context"
    PROVE  /\ ~InDevice /\ ~InChannel /\ Owned = ContextBlocks
           /\ TypeOK /\ ctx_i \in Nat /\ ctx.attrs \in Nat /\ Len(ctx.devices) \in Nat
           /\ ctx.over \in Nat /\ (ctx.devices = <<>> <=> Len(ctx.devices) = 0)
           /\ i \in Nat /\ j \in Nat /\ k \in Nat /\ chn_i \in Nat
           /\ hDropped \in BOOLEAN /\ xml \in BOOLEAN
           /\ ~Doomed
           /\ Normal => hFailed = <<"none", "none", 0>>
  <1>1. ~InDevice /\ ~InChannel BY DEF InDevice, InChannel
  <1>2. DeviceBlocks = {} /\ ChannelBlocks = {} BY <1>1 DEF DeviceBlocks, ChannelBlocks
  <1>3. Owned = ContextBlocks BY <1>2 DEF Owned
  <1>4. ~Doomed /\ (Normal => hFailed = <<"none", "none", 0>>) BY Live DEF FailedAt
  <1> QED BY <1>1, <1>3, <1>4, CtxFields, Live DEF TypeOK

\* A step from one label of the context to another.
LEMMA ContextStep ==
    ASSUME IInv, fault = "none", at[1] = "context", ~Over, NEW l, at' = <<"context", l, 0>>,
           UNCHANGED <<ctx, i, j, k, chn_i, fault, xml, hDropped>>, ctx_i' \in Nat,
           UNCHANGED hFailed \/ hFailed' = at,
           ~Normal' \/ hFailed' = <<"none", "none", 0>>,
           ContextAt', (Owned = ContextBlocks /\ Owned' = ContextBlocks') => HeapAt'
    PROVE  IInv'
  <1>1. TypeOK /\ ~Doomed /\ Owned = ContextBlocks BY ContextFacts
  <1>2. ~InDevice' /\ ~InChannel' BY DEF InDevice, InChannel
  <1>3. DeviceBlocks' = {} /\ ChannelBlocks' = {} /\ DeviceAt' /\ ChannelAt'
    BY <1>2 DEF DeviceBlocks, ChannelBlocks, DeviceAt, ChannelAt
  <1>4. Owned' = ContextBlocks' BY <1>3 DEF Owned
  <1>5. TypeOK' BY <1>1 DEF TypeOK
  <1>6. ~Doomed'
    <2>1. at # <<"device", "loop", 4>> OBVIOUS
    <2> QED BY <1>1, <2>1 DEF Doomed
  <1>7. at' # <<"device", "err_free_elements", 4>> OBVIOUS
  <1>8. FailedAt' BY <1>6, <1>7 DEF FailedAt
  <1> QED BY <1>1, <1>3, <1>4, <1>5, <1>8, Step

\* The same with blocks allocated, or none.
LEMMA ContextGrows ==
    ASSUME IInv, fault = "none", at[1] = "context", ~Over, NEW l, at' = <<"context", l, 0>>,
           UNCHANGED <<ctx, i, j, k, chn_i, fault, xml, hDropped>>, ctx_i' \in Nat,
           UNCHANGED hFailed \/ hFailed' = at, Normal,
           ~Normal' \/ hFailed' = <<"none", "none", 0>>,
           ContextAt', NEW N, heap' = heap \cup N, ContextBlocks' = ContextBlocks \cup N
    PROVE  IInv'
  <1>1. hFailed = <<"none", "none", 0>> BY ContextFacts
  <1>2. at # <<"context", "err_free_ctx_attrs_values", 0>> BY DEF Normal
  <1>3. \A b : Stray(b) => Stray(b)' BY <1>1, <1>2, StrayStays
  <1>4. (Owned = ContextBlocks /\ Owned' = ContextBlocks') => HeapAt'
    BY <1>3, Live DEF HeapAt
  <1> QED BY <1>4, ContextStep

\* The arrays of the context attributes' names and values.
LEMMA ContextArraysKeeps ==
    ASSUME IInv, fault = "none", context_arrays PROVE IInv'
  <1>1. /\ at[1] = "context" /\ ~Over /\ Normal /\ ctx_i' = 0 /\ ctx_i' \in Nat
        /\ UNCHANGED <<ctx, i, j, k, chn_i, fault, xml, hDropped>>
    BY DEF context_arrays, Malloc, Over, Normal
  <1>2. ~InDevice /\ ctx.attrs \in Nat /\ hFailed = <<"none", "none", 0>> /\ ~xml
    BY <1>1, ContextFacts, Live DEF Outcome
  <1>3. ASSUME NEW l \in {"ctx_values", "return", "attrs", "err_free_ctx_attrs"},
               at' = <<"context", l, 0>>
        PROVE  /\ ~InDevice' /\ TextBlocks' = {} /\ ResultBlock' = {} /\ ContextAt'
    <2>1. ~InDevice' BY <1>3 DEF InDevice
    <2>2. ContextAt' BY <1>1, <1>2, <1>3, <2>1 DEF ContextAt
    <2> QED BY <1>1, <1>2, <1>3, <2>1, <2>2 DEF TextBlocks, ResultBlock
  <1>4. TextBlocks = {} /\ ResultBlock = {}
    BY <1>1, <1>2 DEF TextBlocks, ResultBlock, context_arrays
  <1>5. CASE at = <<"context", "ctx_attrs", 0>>
    <2>1. NameBlocks = {} BY <1>2, <1>5 DEF NameBlocks
    <2>2. CASE heap' = heap \cup {CtxBlock("ctx_attrs", 0)} /\ UNCHANGED hFailed
               /\ at' = <<"context", "ctx_values", 0>>
      <3>1. /\ ~InDevice' /\ TextBlocks' = {} /\ ResultBlock' = {} /\ ContextAt'
        BY <1>3, <2>2
      <3>2. NameBlocks' = {CtxBlock("ctx_attrs", 0)} BY <2>2, <3>1 DEF NameBlocks, CtxBlock
      <3>3. ContextBlocks' = ContextBlocks \cup {CtxBlock("ctx_attrs", 0)}
        BY <1>4, <2>1, <3>1, <3>2 DEF ContextBlocks
      <3> QED BY <1>1, <1>2, <2>2, <3>1, <3>3, ContextGrows
    <2>3. CASE heap' = heap /\ hFailed' = at /\ at' = <<"context", "return", 0>>
      <3>1. /\ ~InDevice' /\ TextBlocks' = {} /\ ResultBlock' = {} /\ ContextAt'
        BY <1>3, <2>3
      <3>2. NameBlocks' = {} BY <2>3, <3>1 DEF NameBlocks
      <3>3. PICK N : N = {} OBVIOUS
      <3>4. ContextBlocks' = ContextBlocks \cup N /\ heap' = heap \cup N
        BY <1>4, <2>1, <2>3, <3>1, <3>2, <3>3 DEF ContextBlocks
      <3>5. ~Normal' BY <2>3 DEF Normal
      <3> QED BY <1>1, <1>2, <2>3, <3>1, <3>4, <3>5, ContextGrows
    <2> QED BY <1>5, <2>2, <2>3 DEF context_arrays, Malloc, Goto
  <1>6. CASE at = <<"context", "ctx_values", 0>>
    <2>1. NameBlocks = {CtxBlock("ctx_attrs", 0)} BY <1>2, <1>6 DEF NameBlocks
    <2>2. CASE heap' = heap \cup {CtxBlock("ctx_values", 0)} /\ UNCHANGED hFailed
               /\ at' = <<"context", "attrs", 0>>
      <3>1. /\ ~InDevice' /\ TextBlocks' = {} /\ ResultBlock' = {} /\ ContextAt'
        BY <1>3, <2>2
      <3>2. NameTop' = 0 /\ 0..0 = {0} BY <1>1, <2>2 DEF NameTop
      <3>3. NameBlocks' = Names("ctx_attrs", 0) \cup Names("ctx_values", 0)
        BY <2>2, <3>1, <3>2 DEF NameBlocks, Names, CtxBlock
      <3>4. NameBlocks' = {CtxBlock("ctx_attrs", 0), CtxBlock("ctx_values", 0)}
        BY <3>2, <3>3 DEF Names
      <3>5. ContextBlocks' = ContextBlocks \cup {CtxBlock("ctx_values", 0)}
        BY <1>4, <2>1, <3>1, <3>4 DEF ContextBlocks
      <3> QED BY <1>1, <1>2, <2>2, <3>1, <3>5, ContextGrows
    <2>3. CASE heap' = heap /\ hFailed' = at /\ at' = <<"context", "err_free_ctx_attrs", 0>>
      <3>1. /\ ~InDevice' /\ TextBlocks' = {} /\ ResultBlock' = {} /\ ContextAt'
        BY <1>3, <2>3
      <3>2. NameBlocks' = {CtxBlock("ctx_attrs", 0)} BY <2>3, <3>1 DEF NameBlocks, CtxBlock
      <3>3. PICK N : N = {} OBVIOUS
      <3>4. ContextBlocks' = ContextBlocks \cup N /\ heap' = heap \cup N
        BY <1>4, <2>1, <2>3, <3>1, <3>2, <3>3 DEF ContextBlocks
      <3>5. ~Normal' BY <2>3 DEF Normal
      <3> QED BY <1>1, <1>2, <2>3, <3>1, <3>4, <3>5, ContextGrows
    <2> QED BY <1>6, <2>2, <2>3 DEF context_arrays, Malloc, Goto
  <1> QED BY <1>5, <1>6 DEF context_arrays

\* The names and values a context holds while it reads them.
LEMMA NamesGrow ==
    ASSUME NEW t \in Nat, NEW name
    PROVE  /\ Names(name, t + 1) = Names(name, t) \cup {CtxBlock(name, t + 1)}
           /\ \A s \in Nat : t <= s => Names(name, t) \subseteq Names(name, s)
  <1>1. 0..(t + 1) = (0..t) \cup {t + 1} OBVIOUS
  <1>2. \A s \in Nat : t <= s => 0..t \subseteq 0..s OBVIOUS
  <1> QED BY <1>1, <1>2 DEF Names

\* A context attribute: when only one of its two copies was made, the label frees
\* that one too.
LEMMA ContextAttrKeeps ==
    ASSUME IInv, fault = "none", context_attr PROVE IInv'
  <1>1. /\ at = <<"context", "attrs", 0>> /\ at[1] = "context" /\ ~Over /\ Normal
        /\ ctx_i < ctx.attrs
        /\ UNCHANGED <<ctx, i, j, k, chn_i, fault, xml, hDropped>>
    BY DEF context_attr, Over, Normal
  <1>2. /\ ~InDevice /\ ctx.attrs \in Nat /\ ctx_i \in Nat /\ hFailed = <<"none", "none", 0>>
        /\ ~xml /\ Owned = ContextBlocks
    BY <1>1, ContextFacts, Live DEF Outcome
  <1>3. TextBlocks = {} /\ ResultBlock = {} /\ NameTop = ctx_i
    BY <1>1, <1>2 DEF TextBlocks, ResultBlock, NameTop
  <1>4. ContextBlocks = Names("ctx_attrs", ctx_i) \cup Names("ctx_values", ctx_i)
    BY <1>1, <1>2, <1>3 DEF NameBlocks, ContextBlocks
  <1>5. PICK got \in SUBSET {"ctx_attrs", "ctx_values"} :
           /\ heap' = heap \cup {CtxBlock(name, ctx_i + 1) : name \in got}
           /\ IF got = {"ctx_attrs", "ctx_values"}
              THEN ctx_i' = ctx_i + 1 /\ UNCHANGED <<at, hFailed>>
              ELSE /\ at' = <<"context", "err_free_ctx_attrs_values", 0>>
                   /\ hFailed' = at /\ UNCHANGED ctx_i
    BY DEF context_attr, Goto
  <1>6. CASE got = {"ctx_attrs", "ctx_values"}
    <2>1. /\ heap' = heap \cup {CtxBlock("ctx_attrs", ctx_i + 1), CtxBlock("ctx_values", ctx_i + 1)}
          /\ ctx_i' = ctx_i + 1 /\ UNCHANGED hFailed /\ at' = <<"context", "attrs", 0>>
      BY <1>1, <1>5, <1>6
    <2>2. ~InDevice' BY <2>1 DEF InDevice
    <2>3. TextBlocks' = {} /\ ResultBlock' = {} /\ NameTop' = ctx_i + 1
      BY <1>1, <1>2, <2>1, <2>2 DEF TextBlocks, ResultBlock, NameTop
    <2>4. ContextBlocks' = Names("ctx_attrs", ctx_i + 1) \cup Names("ctx_values", ctx_i + 1)
      BY <2>1, <2>2, <2>3 DEF NameBlocks, ContextBlocks, Names, CtxBlock
    <2>5. ContextBlocks' = ContextBlocks \cup {CtxBlock("ctx_attrs", ctx_i + 1),
                                               CtxBlock("ctx_values", ctx_i + 1)}
      BY <1>2, <1>4, <2>4, NamesGrow
    <2>6. ctx_i' \in Nat /\ ctx_i' <= ctx'.attrs BY <1>1, <1>2, <2>1
    <2>7. ContextAt' BY <2>1, <2>2, <2>6 DEF ContextAt
    <2> QED BY <1>1, <1>2, <2>1, <2>5, <2>6, <2>7, ContextGrows
  <1>7. CASE got # {"ctx_attrs", "ctx_values"}
    <2>1. /\ at' = <<"context", "err_free_ctx_attrs_values", 0>> /\ hFailed' = at
          /\ UNCHANGED ctx_i
      BY <1>5, <1>7
    <2>2. ~InDevice' /\ ~Normal' BY <2>1 DEF InDevice, Normal
    <2>3. TextBlocks' = {} /\ ResultBlock' = {}
      BY <1>1, <1>2, <2>1, <2>2 DEF TextBlocks, ResultBlock
    <2>4. ContextBlocks' = {CtxBlock("ctx_attrs", 0), CtxBlock("ctx_values", 0)}
      BY <2>1, <2>2, <2>3 DEF NameBlocks, ContextBlocks, CtxBlock
    <2>5. 0 \in 0..ctx_i /\ ctx_i <= ctx.attrs /\ ctx_i + 1 \in 0..ctx.attrs BY <1>1, <1>2
    <2>6. ContextBlocks' \subseteq ContextBlocks BY <1>4, <2>4, <2>5 DEF Names
    <2>7. \A b \in Names("ctx_attrs", ctx.attrs) \cup Names("ctx_values", ctx.attrs) : Stray(b)'
      BY <1>1, <2>1 DEF Stray, Names, CtxBlock
    <2>8. ContextBlocks \subseteq Names("ctx_attrs", ctx.attrs) \cup Names("ctx_values", ctx.attrs)
      BY <1>2, <1>4, <2>5, NamesGrow
    <2>9. \A name \in got : name \in {"ctx_attrs", "ctx_values"} BY <1>5
    <2>10. {CtxBlock(name, ctx_i + 1) : name \in got}
             \subseteq Names("ctx_attrs", ctx.attrs) \cup Names("ctx_values", ctx.attrs)
      BY <2>5, <2>9 DEF Names
    <2>11. at # <<"context", "err_free_ctx_attrs_values", 0>> BY <1>1
    <2>12. \A b : Stray(b) => Stray(b)' BY <1>1, <1>2, <2>11, StrayStays
    <2>13. ContextBlocks \subseteq heap /\ \A b \in heap : b \in ContextBlocks \/ Stray(b)
      BY <1>2, Live DEF HeapAt
    <2>14. \A b \in heap' : Stray(b)' BY <1>5, <2>7, <2>8, <2>10, <2>12, <2>13
    <2>15. (Owned = ContextBlocks /\ Owned' = ContextBlocks') => HeapAt'
      BY <1>5, <2>6, <2>13, <2>14 DEF HeapAt
    <2>16. ContextAt' BY <2>1, <2>2 DEF ContextAt
    <2>17. ctx_i' \in Nat BY <1>2, <2>1
    <2> QED BY <1>1, <2>1, <2>2, <2>15, <2>16, <2>17, ContextStep
  <1> QED BY <1>6, <1>7

\* The names are held in full from the devices on, up to their own error label.
LEMMA NamesHeld ==
    ASSUME NEW l \in {"devices", "loop", "device", "str", "print", "err_free_devices",
                      "err_free_devices_len"}
    PROVE  /\ at = <<"context", l, 0>> =>
                NameBlocks = Names("ctx_attrs", ctx.attrs) \cup Names("ctx_values", ctx.attrs)
           /\ at' = <<"context", l, 0>> /\ ctx' = ctx =>
                NameBlocks' = Names("ctx_attrs", ctx.attrs) \cup Names("ctx_values", ctx.attrs)
  <1>1. ASSUME at = <<"context", l, 0>>
        PROVE  NameBlocks = Names("ctx_attrs", ctx.attrs) \cup Names("ctx_values", ctx.attrs)
    <2>1. ~InDevice /\ NameTop = ctx.attrs BY <1>1 DEF InDevice, NameTop
    <2> QED BY <1>1, <2>1 DEF NameBlocks
  <1>2. ASSUME at' = <<"context", l, 0>>, ctx' = ctx
        PROVE  NameBlocks' = Names("ctx_attrs", ctx.attrs) \cup Names("ctx_values", ctx.attrs)
    <2>1. ~InDevice' /\ NameTop' = ctx.attrs BY <1>2 DEF InDevice, NameTop
    <2> QED BY <1>2, <2>1 DEF NameBlocks, Names, CtxBlock
  <1> QED BY <1>1, <1>2

\* After a failure among what follows the names, all of them are still to be freed.
LEMMA NamesLeft ==
    ASSUME IInv, fault = "none", at[1] = "context", ~Over,
           at # <<"context", "err_free_ctx_attrs_values", 0>>,
           NameBlocks = Names("ctx_attrs", ctx.attrs) \cup Names("ctx_values", ctx.attrs),
           at' = <<"context", "err_free_ctx_attrs_values", 0>>,
           UNCHANGED <<ctx, ctx_i, i, j, k, chn_i, fault, xml, hDropped>>,
           UNCHANGED hFailed \/ (hFailed = <<"none", "none", 0>> /\ hFailed' = at),
           heap' = heap \ (TextBlocks \cup ResultBlock)
    PROVE  IInv'
  <1>1. /\ ~InDevice /\ ctx.attrs \in Nat /\ ctx_i \in Nat /\ ~xml /\ Owned = ContextBlocks
    BY ContextFacts, Live DEF Outcome
  <1>2. ~InDevice' /\ ~Normal' BY DEF InDevice, Normal
  <1>3. TextBlocks' = {} /\ ResultBlock' = {}
    BY <1>1, <1>2 DEF TextBlocks, ResultBlock
  <1>4. ContextBlocks' = {CtxBlock("ctx_attrs", 0), CtxBlock("ctx_values", 0)}
    BY <1>2, <1>3 DEF NameBlocks, ContextBlocks, CtxBlock
  <1>5. 0 \in 0..ctx.attrs BY <1>1
  <1>6. ContextBlocks' \subseteq NameBlocks BY <1>4, <1>5 DEF Names
  <1>7. NameBlocks \cap (TextBlocks \cup ResultBlock) = {}
    BY DEF Names, TextBlocks, ResultBlock, CtxBlock
  <1>8. \A b \in NameBlocks : Stray(b)' BY DEF Stray, Names, CtxBlock
  <1>9. \A b : Stray(b) => Stray(b)' BY StrayStays
  <1>10. ContextBlocks \subseteq heap /\ \A b \in heap : b \in ContextBlocks \/ Stray(b)
    BY <1>1, Live DEF HeapAt
  <1>11. ContextBlocks' \subseteq heap' BY <1>6, <1>7, <1>10 DEF ContextBlocks
  <1>12. \A b \in heap' : Stray(b)' BY <1>8, <1>9, <1>10 DEF ContextBlocks
  <1>13. (Owned = ContextBlocks /\ Owned' = ContextBlocks') => HeapAt'
    BY <1>11, <1>12 DEF HeapAt
  <1>14. ContextAt' BY <1>2 DEF ContextAt
  <1>15. ctx_i' \in Nat BY <1>1
  <1> QED BY <1>2, <1>13, <1>14, <1>15, ContextStep

\* The arrays for the devices, unless there is none.
LEMMA ContextDevicesKeeps ==
    ASSUME IInv, fault = "none", context_devices PROVE IInv'
  <1>1. /\ at[1] = "context" /\ ~Over /\ Normal
        /\ at # <<"context", "err_free_ctx_attrs_values", 0>>
        /\ UNCHANGED <<ctx, i, j, k, chn_i, fault, xml, hDropped>>
    BY DEF context_devices, Malloc, memory, Over, Normal
  <1>2. /\ ~InDevice /\ ctx.attrs \in Nat /\ ctx_i \in Nat /\ hFailed = <<"none", "none", 0>>
        /\ ~xml /\ Owned = ContextBlocks
    BY <1>1, ContextFacts, Live DEF Outcome
  <1>3. CASE at = <<"context", "attrs", 0>>
    <2>1. ctx_i = ctx.attrs /\ UNCHANGED ctx_i BY <1>3 DEF context_devices
    <2>2. TextBlocks = {} /\ ResultBlock = {} /\ NameTop = ctx.attrs
      BY <1>2, <1>3, <2>1 DEF TextBlocks, ResultBlock, NameTop
    <2>3. NameBlocks = Names("ctx_attrs", ctx.attrs) \cup Names("ctx_values", ctx.attrs)
      BY <1>2, <1>3, <2>2 DEF NameBlocks
    <2>4. CASE ctx.devices = <<>>
      <3>1. /\ at' = <<"context", "str", 0>> /\ UNCHANGED <<heap, hFailed>>
        BY <1>3, <2>4 DEF context_devices, Goto, memory
      <3>2. ~InDevice' BY <3>1 DEF InDevice
      <3>3. NameBlocks' = NameBlocks BY <1>1, <2>3, <3>1, NamesHeld
      <3>4. TextBlocks' = {} /\ ResultBlock' = {}
        BY <1>1, <1>2, <2>4, <3>1 DEF TextBlocks, ResultBlock
      <3>5. PICK N : N = {} OBVIOUS
      <3>6. ContextBlocks' = ContextBlocks \cup N /\ heap' = heap \cup N
        BY <2>2, <3>1, <3>3, <3>4, <3>5 DEF ContextBlocks
      <3>7. ContextAt' BY <1>1, <2>4, <3>1, <3>2 DEF ContextAt
      <3> QED BY <1>1, <1>2, <2>1, <3>1, <3>6, <3>7, ContextGrows
    <2>5. CASE ctx.devices # <<>>
      <3>1. Malloc(CtxBlock("len", 0), <<"context", "devices", 0>>,
                   <<"context", "err_free_ctx_attrs_values", 0>>)
        BY <1>3, <2>5 DEF context_devices
      <3>2. CASE heap' = heap \cup {CtxBlock("len", 0)} /\ at' = <<"context", "devices", 0>>
                 /\ UNCHANGED hFailed
        <4>1. ~InDevice' BY <3>2 DEF InDevice
        <4>2. NameBlocks' = NameBlocks BY <1>1, <2>3, <3>2, NamesHeld
        <4>3. TextBlocks' = {CtxBlock("len", 0)} /\ ResultBlock' = {}
          BY <1>1, <1>2, <2>5, <3>2, <4>1 DEF TextBlocks, ResultBlock, CtxBlock
        <4>4. ContextBlocks' = ContextBlocks \cup {CtxBlock("len", 0)}
          BY <2>2, <4>2, <4>3 DEF ContextBlocks
        <4>5. ContextAt' BY <1>1, <2>5, <3>2, <4>1 DEF ContextAt
        <4> QED BY <1>1, <1>2, <2>1, <3>2, <4>4, <4>5, ContextGrows
      <3>3. CASE heap' = heap /\ at' = <<"context", "err_free_ctx_attrs_values", 0>>
                 /\ hFailed' = at
        <4>1. heap' = heap \ (TextBlocks \cup ResultBlock) BY <2>2, <3>3
        <4> QED BY <1>1, <1>2, <2>1, <2>3, <3>3, <4>1, NamesLeft
      <3> QED BY <3>1, <3>2, <3>3 DEF Malloc, Goto
    <2> QED BY <2>4, <2>5
  <1>4. CASE at = <<"context", "devices", 0>>
    <2>1. /\ ctx_i' = 0 /\ ctx_i' \in Nat
          /\ Malloc(CtxBlock("devices", 0), <<"context", "loop", 0>>,
                    <<"context", "err_free_devices_len", 0>>)
      BY <1>4 DEF context_devices
    <2>2. ctx.devices # <<>> BY <1>4, Live DEF ContextAt
    <2>3. NameBlocks = Names("ctx_attrs", ctx.attrs) \cup Names("ctx_values", ctx.attrs)
      BY <1>4, NamesHeld
    <2>4. TextBlocks = {CtxBlock("len", 0)} /\ ResultBlock = {}
      BY <1>2, <1>4, <2>2 DEF TextBlocks, ResultBlock
    <2>5. CASE heap' = heap \cup {CtxBlock("devices", 0)} /\ at' = <<"context", "loop", 0>>
               /\ UNCHANGED hFailed
      <3>1. ~InDevice' BY <2>5 DEF InDevice
      <3>2. ContextBlocks' = Around(0)
        <4>1. at' \in {<<"context", l, 0>> : l \in {"loop", "device", "str", "err_free_devices"}}
              /\ at' # <<"context", "device", 0>>
          BY <2>5
        <4> QED BY <1>1, <1>2, <2>1, <2>2, <4>1, AroundNext
      <3>3. 0..0 = {0} OBVIOUS
      <3>4. Around(0) = ContextBlocks \cup {CtxBlock("devices", 0)}
        BY <2>3, <2>4, <3>3 DEF Around, ContextBlocks
      <3>5. ctx_i' <= Len(ctx'.devices) BY <1>1, <2>1, ContextFacts
      <3>6. ContextAt' BY <1>1, <2>2, <2>5, <3>1, <3>5 DEF ContextAt
      <3>7. ContextBlocks' = ContextBlocks \cup {CtxBlock("devices", 0)} BY <3>2, <3>4
      <3> QED BY <1>1, <1>2, <2>1, <2>5, <3>6, <3>7, ContextGrows
    <2>6. CASE heap' = heap /\ at' = <<"context", "err_free_devices_len", 0>> /\ hFailed' = at
      <3>1. ~InDevice' /\ ~Normal' BY <2>6 DEF InDevice, Normal
      <3>2. NameBlocks' = NameBlocks BY <1>1, <2>3, <2>6, NamesHeld
      <3>3. TextBlocks' = {CtxBlock("len", 0)} /\ ResultBlock' = {}
        BY <1>1, <1>2, <2>2, <2>6, <3>1 DEF TextBlocks, ResultBlock, CtxBlock
      <3>4. PICK N : N = {} OBVIOUS
      <3>5. ContextBlocks' = ContextBlocks \cup N /\ heap' = heap \cup N
        BY <2>4, <2>6, <3>2, <3>3, <3>4 DEF ContextBlocks
      <3>6. ContextAt' BY <2>6, <3>1 DEF ContextAt
      <3> QED BY <1>1, <2>1, <2>6, <3>1, <3>5, <3>6, ContextGrows
    <2> QED BY <2>1, <2>5, <2>6 DEF Malloc, Goto
  <1> QED BY <1>3, <1>4 DEF context_devices

\* Between two devices, and after them, the context holds the texts so far.
LEMMA AroundContext ==
    ASSUME at \in {<<"context", l, 0>> : l \in {"loop", "device", "str", "err_free_devices"}},
           ctx.devices # <<>>, ~xml
    PROVE  ContextBlocks = Around(IF at = <<"context", "device", 0>> THEN ctx_i + 1 ELSE ctx_i)
  <1>1. PICK l \in {"loop", "device", "str", "err_free_devices"} : at = <<"context", l, 0>>
    OBVIOUS
  <1>2. NameBlocks = Names("ctx_attrs", ctx.attrs) \cup Names("ctx_values", ctx.attrs)
    BY <1>1, NamesHeld
  <1>3. ResultBlock = {} BY <1>1 DEF ResultBlock
  <1>4. TextTop = IF at = <<"context", "device", 0>> THEN ctx_i + 1 ELSE ctx_i
    BY <1>1 DEF TextTop
  <1>5. TextBlocks = {CtxBlock("devices", x) : x \in 0..TextTop} \cup {CtxBlock("len", 0)}
    BY <1>1 DEF TextBlocks
  <1> QED BY <1>2, <1>3, <1>4, <1>5 DEF ContextBlocks, Around

\* A device begins, its text is counted, or all are complete.
LEMMA ContextDeviceKeeps ==
    ASSUME IInv, fault = "none", context_device PROVE IInv'
  <1>1. /\ at[1] = "context" /\ ~Over /\ Normal
        /\ at # <<"context", "err_free_ctx_attrs_values", 0>>
        /\ UNCHANGED <<ctx, i, j, k, chn_i, fault, xml, hDropped, heap, hFailed>>
    BY DEF context_device, memory, Over, Normal
  <1>2. /\ ~InDevice /\ ctx_i \in Nat /\ hFailed = <<"none", "none", 0>>
        /\ ~xml /\ Owned = ContextBlocks /\ Len(ctx.devices) \in Nat /\ TypeOK
        /\ i' \in Nat /\ j' \in Nat /\ k' \in Nat /\ chn_i' \in Nat /\ hDropped' \in BOOLEAN
        /\ (ctx.devices = <<>> <=> Len(ctx.devices) = 0)
    BY <1>1, ContextFacts, Live DEF Outcome
  <1>3. ctx.devices # <<>>
    <2>1. CASE at = <<"context", "loop", 0>> BY <2>1, Live DEF ContextAt
    <2>2. CASE at = <<"context", "device", 0>> BY <1>2, <2>2, Live DEF ContextAt
    <2> QED BY <2>1, <2>2 DEF context_device
  <1>4. CASE at = <<"context", "loop", 0>> /\ at' = <<"device", "len", 1>>
    <2>1. ctx_i < Len(ctx.devices) /\ ctx_i' = ctx_i BY <1>4 DEF context_device, Goto
    <2>2. ContextBlocks = Around(ctx_i)
      <3>1. at \in {<<"context", l, 0>> : l \in {"loop", "device", "str", "err_free_devices"}}
            /\ at # <<"context", "device", 0>>
        BY <1>4
      <3> QED BY <1>2, <1>3, <3>1, AroundContext
    <2>3. /\ LenTop' = 1 - 1 /\ InDevice' /\ ChannelBlocks' = {} /\ ChannelAt'
          /\ at' # <<"device", "print", 0>>
          /\ \A h \in 1..4 : ArrayTop(h)' = IF h < 1 THEN Count(h) ELSE -1
      BY <1>1, <1>4, <2>1, TopsAtNext
    <2>4. ContextBlocks' = Around(ctx_i) BY <1>1, <1>2, <1>3, <2>1, <2>3, AroundDeviceNext
    <2>5. Array(1)' = {} /\ Array(2)' = {} /\ Array(3)' = {} /\ Array(4)' = {}
      <3>1. \A g \in 1..4 : 0..(ArrayTop(g)') = {} BY <2>3
      <3> QED BY <3>1 DEF Array
    <2>6. Lens' = {}
      <3>1. 1..(LenTop') = {} BY <2>3
      <3> QED BY <3>1 DEF Lens
    <2>7. DeviceBlocks' = {} BY <2>5, <2>6 DEF DeviceBlocks
    <2>8. Owned' = Owned BY <1>2, <2>2, <2>3, <2>4, <2>7 DEF Owned
    <2>9. \A b : Stray(b) => Stray(b)' BY <1>1, StrayStays
    <2>10. HeapAt' BY <1>1, <2>8, <2>9, Live DEF HeapAt
    <2>11. TypeOK' BY <1>1, <1>2, <2>1 DEF TypeOK
    <2>12. (ctx_i < Len(ctx.devices))' /\ \A l : at' # <<"context", l, 0>>
      BY <1>1, <2>1, <2>3, Elsewhere
    <2>13. ContextAt' BY <2>12 DEF ContextAt
    <2>14. DeviceAt' BY <1>1, <1>4, <2>1, PlaceAtNext
    <2>15. FailedAt' BY <1>1, <1>2, <1>4 DEF FailedAt, Doomed
    <2> QED BY <1>1, <2>3, <2>10, <2>11, <2>13, <2>14, <2>15, Step
  <1>5. CASE at = <<"context", "device", 0>>
    <2>1. at' = <<"context", "loop", 0>> /\ ctx_i' = ctx_i + 1
      BY <1>5 DEF context_device, Goto
    <2>2. ContextBlocks = Around(ctx_i + 1)
      <3>1. at \in {<<"context", l, 0>> : l \in {"loop", "device", "str", "err_free_devices"}}
        BY <1>5
      <3> QED BY <1>2, <1>3, <1>5, <3>1, AroundContext
    <2>3. ContextBlocks' = Around(ctx_i + 1)
      <3>1. at' \in {<<"context", l, 0>> : l \in {"loop", "device", "str", "err_free_devices"}}
            /\ at' # <<"context", "device", 0>>
        BY <2>1
      <3> QED BY <1>1, <1>2, <1>3, <2>1, <3>1, AroundNext
    <2>4. ctx_i < Len(ctx.devices) BY <1>5, Live DEF ContextAt
    <2>5. ctx_i' \in Nat /\ ctx_i' <= Len(ctx'.devices) BY <1>1, <1>2, <2>1, <2>4
    <2>6. ~InDevice' BY <2>1 DEF InDevice
    <2>7. ContextAt' BY <1>1, <1>3, <2>1, <2>5, <2>6 DEF ContextAt
    <2>8. PICK N : N = {} OBVIOUS
    <2>9. ContextBlocks' = ContextBlocks \cup N /\ heap' = heap \cup N BY <1>1, <2>2, <2>3, <2>8
    <2> QED BY <1>1, <1>2, <2>1, <2>5, <2>7, <2>9, ContextGrows
  <1>6. CASE at = <<"context", "loop", 0>> /\ at' = <<"context", "str", 0>>
    <2>1. ctx_i = Len(ctx.devices) /\ ctx_i' = ctx_i BY <1>6 DEF context_device, Goto
    <2>2. ContextBlocks = Around(ctx_i)
      <3>1. at \in {<<"context", l, 0>> : l \in {"loop", "device", "str", "err_free_devices"}}
            /\ at # <<"context", "device", 0>>
        BY <1>6
      <3> QED BY <1>2, <1>3, <3>1, AroundContext
    <2>3. ContextBlocks' = Around(ctx_i)
      <3>1. at' \in {<<"context", l, 0>> : l \in {"loop", "device", "str", "err_free_devices"}}
            /\ at' # <<"context", "device", 0>>
        BY <1>6
      <3> QED BY <1>1, <1>2, <1>3, <2>1, <3>1, AroundNext
    <2>4. ~InDevice' BY <1>6 DEF InDevice
    <2>5. ctx_i' = Len(ctx'.devices) /\ ctx_i' \in Nat BY <1>1, <1>2, <2>1
    <2>6. ContextAt' BY <1>6, <2>4, <2>5 DEF ContextAt
    <2>7. PICK N : N = {} OBVIOUS
    <2>8. ContextBlocks' = ContextBlocks \cup N /\ heap' = heap \cup N BY <1>1, <2>2, <2>3, <2>7
    <2> QED BY <1>1, <1>2, <1>6, <2>5, <2>6, <2>8, ContextGrows
  <1> QED BY <1>4, <1>5, <1>6 DEF context_device, Goto

\* The block of the context's text.
LEMMA ContextStrKeeps ==
    ASSUME IInv, fault = "none", context_str PROVE IInv'
  <1>1. /\ at = <<"context", "str", 0>> /\ at[1] = "context" /\ ~Over /\ Normal
        /\ UNCHANGED <<ctx, ctx_i, i, j, k, chn_i, fault, xml, hDropped>>
        /\ Malloc(CtxBlock("str", 0), <<"context", "print", 0>>,
                  <<"context", "err_free_devices", 0>>)
    BY DEF context_str, Malloc, counters, Over, Normal
  <1>2. /\ ~InDevice /\ ctx_i \in Nat /\ hFailed = <<"none", "none", 0>>
        /\ ~xml /\ Owned = ContextBlocks /\ Len(ctx.devices) \in Nat
    BY <1>1, ContextFacts, Live DEF Outcome
  <1>3. ctx.devices = <<>> \/ ctx_i = Len(ctx.devices) BY <1>1, Live DEF ContextAt
  <1>4. NameBlocks = Names("ctx_attrs", ctx.attrs) \cup Names("ctx_values", ctx.attrs)
    BY <1>1, NamesHeld
  <1>5. ResultBlock = {} /\ TextTop = ctx_i BY <1>1, <1>2 DEF ResultBlock, TextTop
  <1>6. TextBlocks = IF ctx.devices = <<>> THEN {}
                     ELSE {CtxBlock("devices", x) : x \in 0..ctx_i} \cup {CtxBlock("len", 0)}
    BY <1>1, <1>5 DEF TextBlocks
  <1>7. ASSUME NEW l \in {"print", "err_free_devices"}, at' = <<"context", l, 0>>
        PROVE  NameBlocks' = NameBlocks /\ TextBlocks' = TextBlocks /\ ContextAt'
    <2>1. NameBlocks' = NameBlocks BY <1>1, <1>4, <1>7, NamesHeld
    <2>2. TextTop' = ctx_i BY <1>1, <1>7 DEF TextTop
    <2>3. TextBlocks' = IF ctx.devices = <<>> THEN {}
                     ELSE {CtxBlock("devices", x) : x \in 0..ctx_i} \cup {CtxBlock("len", 0)}
      BY <1>1, <1>7, <2>2 DEF TextBlocks, CtxBlock
    <2>4. ~InDevice' BY <1>7 DEF InDevice
    <2>5. ctx'.devices = <<>> \/ (ctx_i' = Len(ctx'.devices) /\ ctx_i' <= Len(ctx'.devices))
      BY <1>1, <1>2, <1>3
    <2>6. ContextAt' BY <1>7, <2>4, <2>5 DEF ContextAt
    <2> QED BY <1>6, <2>1, <2>3, <2>6
  <1>8. CASE heap' = heap \cup {CtxBlock("str", 0)} /\ at' = <<"context", "print", 0>>
             /\ UNCHANGED hFailed
    <2>1. NameBlocks' = NameBlocks /\ TextBlocks' = TextBlocks /\ ContextAt' BY <1>7, <1>8
    <2>2. ResultBlock' = {CtxBlock("str", 0)} BY <1>8 DEF ResultBlock, CtxBlock
    <2>3. ContextBlocks' = ContextBlocks \cup {CtxBlock("str", 0)}
      BY <1>5, <2>1, <2>2 DEF ContextBlocks
    <2> QED BY <1>1, <1>2, <1>8, <2>1, <2>3, ContextGrows
  <1>9. CASE heap' = heap /\ at' = <<"context", "err_free_devices", 0>> /\ hFailed' = at
    <2>1. NameBlocks' = NameBlocks /\ TextBlocks' = TextBlocks /\ ContextAt' BY <1>7, <1>9
    <2>2. ResultBlock' = {} /\ ~Normal' BY <1>1, <1>2, <1>9 DEF ResultBlock, Normal
    <2>3. PICK N : N = {} OBVIOUS
    <2>4. ContextBlocks' = ContextBlocks \cup N /\ heap' = heap \cup N
      BY <1>5, <1>9, <2>1, <2>2, <2>3 DEF ContextBlocks
    <2> QED BY <1>1, <1>2, <1>9, <2>1, <2>2, <2>4, ContextGrows
  <1> QED BY <1>1, <1>8, <1>9 DEF Malloc, Goto

\* A step of the context that frees some of what it owns.
LEMMA ContextFrees ==
    ASSUME IInv, fault = "none", at[1] = "context", ~Over, NEW l, at' = <<"context", l, 0>>,
           at # <<"context", "err_free_ctx_attrs_values", 0>>,
           UNCHANGED <<ctx, ctx_i, i, j, k, chn_i, fault, xml, hDropped, hFailed>>, ~Normal',
           ContextAt', NEW B, heap' = heap \ B, ContextBlocks' = ContextBlocks \ B
    PROVE  IInv'
  <1>1. ctx_i' \in Nat BY ContextFacts
  <1>2. \A b : Stray(b) => Stray(b)' BY StrayStays
  <1>3. (Owned = ContextBlocks /\ Owned' = ContextBlocks') => HeapAt'
    BY <1>2, Live DEF HeapAt
  <1> QED BY <1>1, <1>3, ContextStep

\* calloc's NULLs left aside, the loop over the devices frees the texts that there are.
LEMMA TextsAllocated ==
    ASSUME IInv, fault = "none", at = <<"context", "err_free_devices", 0>>, ctx.devices # <<>>
    PROVE  Allocated("devices", Len(ctx.devices)) = {CtxBlock("devices", x) : x \in 1..ctx_i}
  <1>1. at[1] = "context" /\ at[2] = "err_free_devices" /\ ~Over BY DEF Over
  <1>2. /\ ctx_i \in Nat /\ Len(ctx.devices) \in Nat /\ Owned = ContextBlocks /\ ~xml
    BY <1>1, ContextFacts, Live DEF Outcome
  <1>3. ctx_i <= Len(ctx.devices) BY Live DEF ContextAt
  <1>4. ContextBlocks = Around(ctx_i)
    <2>1. at \in {<<"context", l, 0>> : l \in {"loop", "device", "str", "err_free_devices"}}
          /\ at # <<"context", "device", 0>>
      OBVIOUS
    <2> QED BY <1>2, <2>1, AroundContext
  <1>5. ASSUME NEW x \in 1..Len(ctx.devices)
        PROVE  CtxBlock("devices", x) \in heap <=> x \in 1..ctx_i
    <2>1. CtxBlock("devices", x) \in Around(ctx_i) <=> x \in 0..ctx_i
      BY DEF Around, Names, CtxBlock
    <2>2. ~Stray(CtxBlock("devices", x)) BY <1>1 DEF Stray, Names, CtxBlock
    <2>3. CtxBlock("devices", x) \in heap <=> CtxBlock("devices", x) \in Around(ctx_i)
      BY <1>2, <1>4, <2>2, Live DEF HeapAt
    <2> QED BY <1>2, <2>1, <2>3
  <1>6. 1..ctx_i \subseteq 1..Len(ctx.devices) BY <1>2, <1>3
  <1> QED BY <1>5, <1>6 DEF Allocated

\* Each error label of the context frees one of the things it holds there, and the
\* last leaves nothing.
LEMMA ContextErrorKeeps ==
    ASSUME IInv, fault = "none", context_error PROVE IInv'
  <1>1. /\ at[1] = "context" /\ ~Over
        /\ UNCHANGED <<ctx, ctx_i, i, j, k, chn_i, xml, hDropped, hFailed>>
    <2>1. UNCHANGED hFailed BY DEF context_error, Free
    <2> QED BY <2>1 DEF context_error, counters, Over
  <1>2. /\ ~InDevice /\ ctx_i \in Nat /\ ctx.attrs \in Nat /\ ~xml
        /\ Owned = ContextBlocks /\ Len(ctx.devices) \in Nat
        /\ (ctx.devices = <<>> <=> Len(ctx.devices) = 0)
    BY <1>1, ContextFacts, Live DEF Outcome
  <1>3. ContextBlocks \subseteq heap BY <1>2, Live DEF HeapAt
  <1>4. CASE at = <<"context", "err_free_devices", 0>>
    <2> DEFINE B == Allocated("devices", Len(ctx.devices))
                      \cup (IF ctx.devices = <<>> THEN {} ELSE {CtxBlock("devices", 0)})
    <2>1. Free(B, <<"context", "err_free_devices_len", 0>>) BY <1>4 DEF context_error
    <2>2. B = IF ctx.devices = <<>> THEN {} ELSE {CtxBlock("devices", x) : x \in 0..ctx_i}
      <3>1. CASE ctx.devices = <<>>
        <4>1. 1..Len(ctx.devices) = {} BY <1>2, <3>1
        <4> QED BY <3>1, <4>1 DEF Allocated
      <3>2. CASE ctx.devices # <<>>
        <4>1. 0..ctx_i = (1..ctx_i) \cup {0} BY <1>2
        <4> QED BY <1>4, <3>2, <4>1, TextsAllocated
      <3> QED BY <3>1, <3>2
    <2> HIDE DEF B
    <2>3. NameBlocks = Names("ctx_attrs", ctx.attrs) \cup Names("ctx_values", ctx.attrs)
      BY <1>4, NamesHeld
    <2>4. ResultBlock = {} /\ TextTop = ctx_i BY <1>2, <1>4 DEF ResultBlock, TextTop
    <2>5. TextBlocks = IF ctx.devices = <<>> THEN {}
                       ELSE {CtxBlock("devices", x) : x \in 0..ctx_i} \cup {CtxBlock("len", 0)}
      BY <1>4, <2>4 DEF TextBlocks
    <2>6. B \subseteq heap BY <1>3, <2>2, <2>5 DEF ContextBlocks
    <2>7. /\ heap' = heap \ B /\ at' = <<"context", "err_free_devices_len", 0>>
          /\ UNCHANGED fault
      BY <2>1, <2>6 DEF Free, Goto
    <2>8. NameBlocks' = NameBlocks BY <1>1, <2>3, <2>7, NamesHeld
    <2>9. ResultBlock' = {} BY <1>1, <1>2, <2>7 DEF ResultBlock
    <2>10. ~InDevice' /\ ~Normal' BY <2>7 DEF InDevice, Normal
    <2>11. TextBlocks' = IF ctx.devices = <<>> THEN {} ELSE {CtxBlock("len", 0)}
      BY <1>1, <2>7, <2>10 DEF TextBlocks, CtxBlock
    <2>12. TextBlocks' = TextBlocks \ B BY <2>2, <2>5, <2>11 DEF CtxBlock
    <2>13. NameBlocks \cap B = {} BY <2>2, <2>3 DEF Names, CtxBlock
    <2>14. ContextBlocks' = ContextBlocks \ B
      BY <2>4, <2>8, <2>9, <2>12, <2>13 DEF ContextBlocks
    <2>15. ContextAt' BY <2>7, <2>10 DEF ContextAt
    <2>16. at # <<"context", "err_free_ctx_attrs_values", 0>> BY <1>4
    <2> QED BY <1>1, <2>7, <2>10, <2>14, <2>15, <2>16, ContextFrees
  <1>5. CASE at = <<"context", "err_free_devices_len", 0>>
    <2> DEFINE B == IF ctx.devices = <<>> THEN {} ELSE {CtxBlock("len", 0)}
    <2>1. Free(B, <<"context", "err_free_ctx_attrs_values", 0>>) BY <1>5 DEF context_error
    <2>2. TextBlocks = B /\ ResultBlock = {} BY <1>2, <1>5 DEF TextBlocks, ResultBlock
    <2>3. B \subseteq heap BY <1>3, <2>2 DEF ContextBlocks
    <2> HIDE DEF B
    <2>4. /\ heap' = heap \ (TextBlocks \cup ResultBlock) /\ UNCHANGED fault
          /\ at' = <<"context", "err_free_ctx_attrs_values", 0>>
      BY <2>1, <2>2, <2>3 DEF Free, Goto
    <2>5. NameBlocks = Names("ctx_attrs", ctx.attrs) \cup Names("ctx_values", ctx.attrs)
      BY <1>5, NamesHeld
    <2>6. at # <<"context", "err_free_ctx_attrs_values", 0>> BY <1>5
    <2> QED BY <1>1, <2>4, <2>5, <2>6, NamesLeft
  <1>6. CASE at = <<"context", "err_free_ctx_attrs_values", 0>>
    <2> DEFINE B == Allocated("ctx_attrs", ctx.attrs) \cup Allocated("ctx_values", ctx.attrs)
                      \cup {CtxBlock("ctx_values", 0)}
    <2>1. Free(B, <<"context", "err_free_ctx_attrs", 0>>) BY <1>6 DEF context_error
    <2>2. ContextBlocks = {CtxBlock("ctx_attrs", 0), CtxBlock("ctx_values", 0)}
      <3>1. NameBlocks = {CtxBlock("ctx_attrs", 0), CtxBlock("ctx_values", 0)}
        BY <1>2, <1>6 DEF NameBlocks
      <3>2. TextBlocks = {} /\ ResultBlock = {}
        BY <1>2, <1>6 DEF TextBlocks, ResultBlock
      <3> QED BY <3>1, <3>2 DEF ContextBlocks
    <2>3. B \subseteq heap BY <1>3, <2>2 DEF Allocated
    <2>4. /\ heap' = heap \ B /\ UNCHANGED fault
          /\ at' = <<"context", "err_free_ctx_attrs", 0>>
      BY <2>1, <2>3 DEF Free, Goto
    <2>5. ~InDevice' /\ ~Normal' BY <2>4 DEF InDevice, Normal
    <2>6. ContextBlocks' = {CtxBlock("ctx_attrs", 0)}
      <3>1. NameBlocks' = {CtxBlock("ctx_attrs", 0)} BY <2>4, <2>5 DEF NameBlocks, CtxBlock
      <3>2. TextBlocks' = {} /\ ResultBlock' = {}
        BY <1>1, <1>2, <2>4, <2>5 DEF TextBlocks, ResultBlock
      <3> QED BY <3>1, <3>2 DEF ContextBlocks
    <2>7. 0..ctx.attrs = (1..ctx.attrs) \cup {0} /\ 0 \notin 1..ctx.attrs BY <1>2
    <2>8. \A b \in heap : b \in Names("ctx_attrs", ctx.attrs) \cup Names("ctx_values", ctx.attrs)
                             => b \in B \/ b = CtxBlock("ctx_attrs", 0)
      BY <2>7 DEF Names, Allocated
    <2>9. CtxBlock("ctx_attrs", 0) \notin B BY <2>7 DEF Allocated, CtxBlock
    <2>10. \A b \in heap : \/ b \in Names("ctx_attrs", ctx.attrs) \cup Names("ctx_values", ctx.attrs)
                           \/ b[3] = "device value"
                           \/ b[3] = "value" /\ hFailed[1] = "channel"
      <3>1. ContextBlocks \subseteq Names("ctx_attrs", ctx.attrs) \cup Names("ctx_values", ctx.attrs)
        BY <2>2, <2>7 DEF Names
      <3>2. \A b \in heap : b \in ContextBlocks \/ Stray(b) BY <1>2, Live DEF HeapAt
      <3> QED BY <3>1, <3>2 DEF Stray
    <2>11. \A b : b[3] = "device value" \/ (b[3] = "value" /\ hFailed[1] = "channel") => Stray(b)'
      BY <1>1 DEF Stray
    <2>12. (Owned = ContextBlocks /\ Owned' = ContextBlocks') => HeapAt'
      <3>1. ContextBlocks' \subseteq heap' BY <1>3, <2>2, <2>4, <2>6, <2>9
      <3>2. \A b \in heap' : b \in ContextBlocks' \/ Stray(b)'
        BY <2>4, <2>6, <2>8, <2>10, <2>11
      <3> QED BY <3>1, <3>2 DEF HeapAt
    <2>13. ContextAt' BY <2>4, <2>5 DEF ContextAt
    <2>14. ctx_i' \in Nat BY <1>1, <1>2
    <2> HIDE DEF B
    <2> QED BY <1>1, <2>4, <2>5, <2>12, <2>13, <2>14, ContextStep
  <1>7. CASE at = <<"context", "err_free_ctx_attrs", 0>>
    <2>1. Free({CtxBlock("ctx_attrs", 0)}, <<"context", "return", 0>>)
      BY <1>7 DEF context_error
    <2>2. ContextBlocks = {CtxBlock("ctx_attrs", 0)}
      <3>1. NameBlocks = {CtxBlock("ctx_attrs", 0)} BY <1>2, <1>7 DEF NameBlocks
      <3>2. TextBlocks = {} /\ ResultBlock = {}
        BY <1>2, <1>7 DEF TextBlocks, ResultBlock
      <3> QED BY <3>1, <3>2 DEF ContextBlocks
    <2>3. /\ heap' = heap \ {CtxBlock("ctx_attrs", 0)} /\ UNCHANGED fault
          /\ at' = <<"context", "return", 0>>
      BY <1>3, <2>1, <2>2 DEF Free, Goto
    <2>4. ~InDevice' /\ ~Normal' BY <2>3 DEF InDevice, Normal
    <2>5. ContextBlocks' = {}
      <3>1. NameBlocks' = {} BY <2>3, <2>4 DEF NameBlocks
      <3>2. TextBlocks' = {} /\ ResultBlock' = {}
        BY <1>1, <1>2, <2>3, <2>4 DEF TextBlocks, ResultBlock
      <3> QED BY <3>1, <3>2 DEF ContextBlocks
    <2>6. ContextBlocks' = ContextBlocks \ {CtxBlock("ctx_attrs", 0)} BY <2>2, <2>5
    <2>7. ContextAt' BY <2>3, <2>4 DEF ContextAt
    <2>8. at # <<"context", "err_free_ctx_attrs_values", 0>> BY <1>7
    <2> QED BY <1>1, <2>3, <2>4, <2>6, <2>7, <2>8, ContextFrees
  <1> QED BY <1>4, <1>5, <1>6, <1>7 DEF context_error

\* main calls iio_context_create_xml and prints what it returned.
LEMMA MainKeeps ==
    ASSUME IInv, fault = "none", main_open \/ main_printf PROVE IInv'
  <1>1. UNCHANGED <<ctx, ctx_i, i, j, k, chn_i, xml, hDropped, hFailed, heap, fault>>
    BY DEF main_open, main_printf, counters, memory
  <1>2. \/ /\ at = <<"main", "start", 0>> /\ ~Over
           /\ at' \in {<<"context", "ctx_attrs", 0>>, <<"exit", "failure", 1>>}
        \/ /\ at = <<"context", "return", 0>>
           /\ at' = <<"exit", "success", 0>>
    BY DEF main_open, main_printf, Goto, Over
  <1>3. ~InDevice /\ ~InChannel /\ ~InDevice' /\ ~InChannel'
    BY <1>2 DEF InDevice, InChannel
  <1>4. DeviceBlocks = {} /\ ChannelBlocks = {} BY <1>3 DEF DeviceBlocks, ChannelBlocks
  <1>5. DeviceBlocks' = {} /\ ChannelBlocks' = {} /\ DeviceAt' /\ ChannelAt'
    BY <1>3 DEF DeviceBlocks, ChannelBlocks, DeviceAt, ChannelAt
  <1>6. NameBlocks = {} /\ NameBlocks' = {} BY <1>2, <1>3 DEF NameBlocks
  <1>7. TextBlocks = {} /\ TextBlocks' = {} BY <1>2, <1>3 DEF TextBlocks
  <1>8. ResultBlock' = ResultBlock BY <1>1, <1>2 DEF ResultBlock, CtxBlock
  <1>9. Owned' = Owned BY <1>4, <1>5, <1>6, <1>7, <1>8 DEF Owned, ContextBlocks
  <1>10. Over => Over' BY <1>2 DEF Over
  <1>11. at # <<"context", "err_free_ctx_attrs_values", 0>> BY <1>2
  <1>12. \A b : Stray(b) => Stray(b)' BY <1>1, <1>10, <1>11, StrayStays
  <1>13. HeapAt' BY <1>1, <1>9, <1>12, Live DEF HeapAt
  <1>14. TypeOK' BY <1>1, Live DEF TypeOK
  <1>15. ContextAt' BY <1>2, <1>3 DEF ContextAt
  <1>16. ~Doomed BY <1>2, Live DEF FailedAt
  <1>17. Normal' => hFailed' = <<"none", "none", 0>>
    BY <1>1, <1>2, Live DEF FailedAt, Normal
  <1>18. FailedAt' BY <1>1, <1>2, <1>16, <1>17 DEF FailedAt, Doomed
  <1>19. Outcome' BY <1>1, <1>10, Live DEF Outcome
  <1> QED BY <1>5, <1>13, <1>14, <1>15, <1>18, <1>19 DEF IInv, Places

-----------------------------------------------------------------------------
(* Lengths.  What the recursive functions of the model compute is found by     *)
(* induction, and an induction is over a set of naturals: its base and its     *)
(* step make the set all of them.                                              *)

\* A set of naturals that is not empty has a least one.
LEMMA Least ==
    ASSUME NEW T \in SUBSET Nat, T # {}
    PROVE  \E x \in T : \A y \in T : x <= y
  <1> DEFINE R == OpToRel(<, Nat)
  <1>1. IsWellFoundedOn(R, Nat)
    BY NatLessThanWellFounded
  <1>2. \A x, y \in Nat : <<y, x>> \in R <=> y < x
    BY DEF OpToRel
  <1> HIDE DEF R
  <1>3. PICK x \in T : \A y \in T : ~(<<y, x>> \in R)
    BY <1>1, WFMin
  <1>4. ASSUME NEW y \in T PROVE x <= y
    <2>1. x \in Nat /\ y \in Nat /\ ~(<<y, x>> \in R)
      BY <1>3
    <2>2. ~(y < x)
      BY <1>2, <2>1
    <2> QED BY <2>1, <2>2
  <1> QED BY <1>4

\* Induction over the naturals, with a set for the property.
LEMMA SetInduction ==
    ASSUME NEW S, 0 \in S, \A n \in Nat : n \in S => n + 1 \in S
    PROVE  Nat \subseteq S
  <1> DEFINE T == Nat \ S
  <1> SUFFICES ASSUME T # {} PROVE FALSE
    OBVIOUS
  <1>1. PICK x \in T : \A y \in T : x <= y
    BY Least
  <1>2. x # 0 /\ x - 1 \in Nat
    BY <1>1
  <1>3. x - 1 \in S
    BY <1>1, <1>2
  <1> QED BY <1>1, <1>2, <1>3

\* The partial sums of a text's lengths.
Sums(g, lens) ==
    /\ g \in [0..Len(lens) -> Nat] /\ g[0] = 0
    /\ \A n \in 1..Len(lens) : g[n] = g[n - 1] + lens[n]

SumsTo(g, lens, m) ==
    /\ g \in [0..m -> Nat] /\ g[0] = 0
    /\ \A n \in 1..m : g[n] = g[n - 1] + lens[n]

\* Every sequence of lengths has partial sums.
LEMMA SumsExist ==
    ASSUME NEW lens \in Seq(Nat)
    PROVE  \E g : Sums(g, lens)
  <1> DEFINE S == {m \in Nat : m <= Len(lens) => \E g : SumsTo(g, lens, m)}
  <1>1. 0 \in S
    <2>1. SumsTo([n \in 0..0 |-> 0], lens, 0) BY DEF SumsTo
    <2> QED BY <2>1
  <1>2. ASSUME NEW m \in Nat, m \in S PROVE m + 1 \in S
    <2> SUFFICES ASSUME m + 1 <= Len(lens) PROVE \E g : SumsTo(g, lens, m + 1)
      OBVIOUS
    <2>1. PICK g : SumsTo(g, lens, m) BY <1>2
    <2>2. lens[m + 1] \in Nat /\ g[m] \in Nat BY <2>1 DEF SumsTo
    <2> DEFINE h == [n \in 0..(m + 1) |-> IF n = m + 1 THEN g[m] + lens[n] ELSE g[n]]
    <2>3. \A n \in 0..m : h[n] = g[n] /\ g[n] \in Nat BY <2>1 DEF SumsTo
    <2>4. h[m + 1] = g[m] + lens[m + 1] OBVIOUS
    <2>5. h \in [0..(m + 1) -> Nat]
      <3>1. ASSUME NEW n \in 0..(m + 1) PROVE h[n] \in Nat
        <4>1. CASE n = m + 1
          <5>1. g[m] + lens[m + 1] \in Nat BY <2>2
          <5> QED BY <4>1, <5>1, <2>4
        <4>2. CASE n \in 0..m BY <4>2, <2>3
        <4> QED BY <4>1, <4>2
      <3> QED BY <3>1
    <2>6. ASSUME NEW n \in 1..(m + 1) PROVE h[n] = h[n - 1] + lens[n]
      <3>1. n - 1 \in 0..m BY <2>6
      <3> HIDE DEF h
      <3>2. CASE n = m + 1 BY <3>2, <2>3, <2>4, <3>1
      <3>3. CASE n \in 1..m
        <4>1. g[n] = g[n - 1] + lens[n] BY <3>3, <2>1 DEF SumsTo
        <4>2. h[n] = g[n] /\ h[n - 1] = g[n - 1] BY <3>1, <3>3, <2>3
        <4> QED BY <4>1, <4>2
      <3> QED BY <3>2, <3>3
    <2>7. h[0] = 0 BY <2>3, <2>1 DEF SumsTo
    <2> HIDE DEF h
    <2>8. SumsTo(h, lens, m + 1) BY <2>5, <2>6, <2>7 DEF SumsTo
    <2> QED BY <2>8
  <1> HIDE DEF S
  <1>3. Nat \subseteq S BY <1>1, <1>2, SetInduction
  <1>4. \E g : SumsTo(g, lens, Len(lens)) BY <1>3 DEF S
  <1> QED BY <1>4 DEF Sums, SumsTo

\* The length of a text is the last of its partial sums, and the largest.
LEMMA TotalIs ==
    ASSUME NEW lens \in Seq(Nat), NEW g, Sums(g, lens)
    PROVE  Total(lens) = g[Len(lens)] /\ Total(lens) \in Nat
  <1> DEFINE F(f) == [n \in 0..Len(lens) |-> IF n = 0 THEN 0 ELSE f[n - 1] + lens[n]]
  <1> DEFINE sum == CHOOSE f : f = F(f)
  <1>1. g = F(g)
    <2>1. \A n \in 0..Len(lens) : g[n] = IF n = 0 THEN 0 ELSE g[n - 1] + lens[n]
      BY DEF Sums
    <2> QED BY <2>1 DEF Sums
  <1>2. sum = F(sum) BY <1>1
  <1>3. Total(lens) = sum[Len(lens)] BY DEF Total
  <1> HIDE DEF sum
  <1>4. sum[0] = 0 /\ \A n \in 1..Len(lens) : sum[n] = sum[n - 1] + lens[n]
    BY <1>2
  <1> DEFINE S == {m \in Nat : m <= Len(lens) => sum[m] = g[m]}
  <1>5. 0 \in S BY <1>4 DEF Sums
  <1>6. \A m \in Nat : m \in S => m + 1 \in S BY <1>4 DEF Sums
  <1> HIDE DEF S
  <1>7. Nat \subseteq S BY <1>5, <1>6, SetInduction
  <1>8. sum[Len(lens)] = g[Len(lens)] BY <1>7 DEF S
  <1> QED BY <1>3, <1>8 DEF Sums

\* No partial sum is larger than the last.
LEMMA SumsBelow ==
    ASSUME NEW lens \in Seq(Nat), NEW g, Sums(g, lens)
    PROVE  \A n \in 0..Len(lens) : g[n] \in Nat /\ g[n] <= g[Len(lens)]
  <1> DEFINE S == {m \in Nat : m <= Len(lens) => g[Len(lens) - m] <= g[Len(lens)]}
  <1>1. 0 \in S BY DEF Sums
  <1>2. ASSUME NEW m \in Nat, m \in S, m + 1 <= Len(lens)
        PROVE  g[Len(lens) - (m + 1)] <= g[Len(lens)]
    <2>1. Len(lens) \in Nat OBVIOUS
    <2>2. PICK n \in 1..Len(lens) : n = Len(lens) - m BY <2>1, <1>2
    <2>3. g[n] = g[n - 1] + lens[n] /\ lens[n] \in Nat /\ g[n - 1] \in Nat /\ g[n] \in Nat
          /\ g[Len(lens)] \in Nat
      <3>1. n - 1 \in 0..Len(lens) /\ n \in 0..Len(lens) /\ Len(lens) \in 0..Len(lens) BY <2>1
      <3>2. lens[n] \in Nat OBVIOUS
      <3> QED BY <3>1, <3>2 DEF Sums
    <2>4. g[n] <= g[Len(lens)] BY <1>2, <2>2
    <2>5. n - 1 = Len(lens) - (m + 1) BY <2>2, <2>1
    <2> QED BY <2>3, <2>4, <2>5
  <1> HIDE DEF S
  <1>3. \A m \in Nat : m \in S => m + 1 \in S BY <1>2 DEF S
  <1>4. Nat \subseteq S BY <1>1, <1>3, SetInduction
  <1>5. ASSUME NEW n \in 0..Len(lens) PROVE g[n] \in Nat /\ g[n] <= g[Len(lens)]
    <2>1. Len(lens) - n \in Nat /\ Len(lens) - n <= Len(lens) /\ Len(lens) - (Len(lens) - n) = n
      OBVIOUS
    <2>2. Len(lens) - n \in S BY <1>4, <2>1
    <2> QED BY <2>1, <2>2 DEF S, Sums
  <1> QED BY <1>5

\* With the room that was counted, and no name that is too long, every part fits
\* and the terminating NUL is left.
LEMMA RoomIs ==
    ASSUME NEW parts \in Seq(Nat \ {0})
    PROVE  LET room == Room(TextRoom(parts, 0), parts)
           IN  room[Len(parts)] = TailLen + 1 /\ ~Skips(room, parts)
  <1>1. parts \in Seq(Nat) /\ Len(parts) \in Nat OBVIOUS
  <1>2. PICK g : Sums(g, parts) BY <1>1, SumsExist
  <1>3. Total(parts) = g[Len(parts)] /\ Total(parts) \in Nat BY <1>1, <1>2, TotalIs
  <1>4. \A n \in 0..Len(parts) : g[n] \in Nat /\ g[n] <= Total(parts)
    BY <1>1, <1>2, <1>3, SumsBelow
  <1>5. TailLen \in Nat BY GenXmlAssumption
  <1> DEFINE start == TextRoom(parts, 0)
             F(f) == [n \in 0..Len(parts) |->
                        IF n = 0 THEN start
                        ELSE IF f[n - 1] > parts[n] THEN f[n - 1] - parts[n] ELSE f[n - 1]]
             h == [n \in 0..Len(parts) |-> start - g[n]]
             room == CHOOSE f : f = F(f)
  <1>6. start = Total(parts) + TailLen + 1 /\ start \in Nat BY <1>3, <1>5 DEF TextRoom
  <1>7. Room(start, parts) = room BY DEF Room
  <1> HIDE DEF start
  <1>8. g[0] = 0 /\ \A n \in 1..Len(parts) : g[n] = g[n - 1] + parts[n] /\ parts[n] \in Nat \ {0}
                                              /\ n - 1 \in 0..Len(parts)
    BY <1>1, <1>2 DEF Sums
  <1>9. \A n \in 0..Len(parts) :
          h[n] = IF n = 0 THEN start
                 ELSE IF h[n - 1] > parts[n] THEN h[n - 1] - parts[n] ELSE h[n - 1]
    <2> SUFFICES ASSUME NEW n \in 0..Len(parts)
                 PROVE  h[n] = IF n = 0 THEN start
                               ELSE IF h[n - 1] > parts[n] THEN h[n - 1] - parts[n] ELSE h[n - 1]
      OBVIOUS
    <2>a. CASE n = 0
      <3>1. h[0] = start - 0 BY <1>8
      <3> QED BY <2>a, <3>1, <1>6
    <2>b. SUFFICES ASSUME n \in 1..Len(parts)
                   PROVE  h[n - 1] > parts[n] /\ h[n] = h[n - 1] - parts[n]
      BY <2>a
    <2>1. h[n] = start - g[n] /\ h[n - 1] = start - g[n - 1] BY <1>8, <2>b
    <2>2. g[n] = g[n - 1] + parts[n] /\ g[n] <= Total(parts) /\ g[n] \in Nat /\ g[n - 1] \in Nat
          /\ parts[n] \in Nat
      BY <1>8, <1>4, <2>b
    <2> HIDE DEF h
    <2>3. start > g[n] /\ start \in Nat BY <2>2, <1>6, <1>3, <1>5
    <2>4. start - g[n - 1] > parts[n] /\ start - g[n] = (start - g[n - 1]) - parts[n]
      BY <2>2, <2>3
    <2> QED BY <2>1, <2>4
  <1>10. h = F(h) BY <1>9
  <1>11. room = F(room) BY <1>10
  <1> HIDE DEF room
  <1>12. room[0] = start
         /\ \A n \in 1..Len(parts) :
              room[n] = IF room[n - 1] > parts[n] THEN room[n - 1] - parts[n] ELSE room[n - 1]
    BY <1>11
  <1> DEFINE S == {m \in Nat : m <= Len(parts) => room[m] = start - g[m]}
  <1>13. 0 \in S BY <1>12, <1>8, <1>6
  <1>14. ASSUME NEW m \in Nat, m \in S, m + 1 <= Len(parts)
         PROVE  room[m] > parts[m + 1] /\ room[m + 1] = start - g[m + 1]
                /\ room[m + 1] # room[m]
    <2>1. m + 1 \in 1..Len(parts) /\ (m + 1) - 1 = m /\ m \in 0..Len(parts) /\ m + 1 \in 0..Len(parts)
      BY <1>14
    <2>2. g[m + 1] = g[m] + parts[m + 1] /\ g[m] \in Nat /\ g[m + 1] \in Nat
          /\ parts[m + 1] \in Nat \ {0} /\ g[m + 1] <= Total(parts)
      BY <1>8, <1>4, <2>1
    <2>3. room[m] = start - g[m] BY <1>14
    <2>4. room[m] > parts[m + 1]
      <3>1. start > g[m] + parts[m + 1] /\ start \in Nat BY <2>2, <1>6, <1>3, <1>5
      <3>2. start - g[m] > parts[m + 1] BY <2>2, <3>1
      <3> QED BY <2>3, <3>2
    <2>5. room[m + 1] = room[m] - parts[m + 1] BY <1>12, <2>1, <2>4
    <2> QED BY <2>2, <2>3, <2>4, <2>5, <1>6
  <1>15. \A m \in Nat : m \in S => m + 1 \in S BY <1>14
  <1> HIDE DEF S
  <1>16. Nat \subseteq S BY <1>13, <1>15, SetInduction
  <1>17. room[Len(parts)] = start - g[Len(parts)] BY <1>16 DEF S
  <1>18. room[Len(parts)] = TailLen + 1 BY <1>17, <1>3, <1>5, <1>6
  <1>19. ASSUME NEW n \in 1..Len(parts) PROVE room[n] # room[n - 1]
    <2>1. n - 1 \in Nat /\ (n - 1) + 1 = n /\ n - 1 \in S BY <1>16
    <2> QED BY <2>1, <1>14
  <1>20. ~Skips(room, parts) BY <1>19 DEF Skips
  <1> QED BY <1>7, <1>18, <1>20 DEF start

-----------------------------------------------------------------------------
(* The lengths of the parts *)

\* n equal lengths.
LEMMA CopiesType ==
    ASSUME NEW n \in Nat, NEW len \in Nat \ {0}
    PROVE  Copies(n, len) \in Seq(Nat \ {0}) /\ Len(Copies(n, len)) = n
  BY DEF Copies

\* Two lists of positive lengths make one.
LEMMA Joined ==
    ASSUME NEW s \in Seq(Nat \ {0}), NEW t \in Seq(Nat \ {0})
    PROVE  s \o t \in Seq(Nat \ {0})
  OBVIOUS

\* What is counted for a device or a channel is positive.
LEMMA CountedType ==
    ASSUME NEW parts \in Seq(Nat \ {0})
    PROVE  Counted(parts) \in Nat \ {0}
  <1>1. parts \in Seq(Nat) OBVIOUS
  <1>2. PICK g : Sums(g, parts) BY <1>1, SumsExist
  <1>3. Total(parts) \in Nat BY <1>1, <1>2, TotalIs
  <1>4. HeadLen \in Nat \ {0} /\ TailLen \in Nat \ {0} BY GenXmlAssumption
  <1> QED BY <1>3, <1>4 DEF Counted

\* So are the lengths of a channel's parts,
LEMMA ChannelPartsType ==
    ASSUME NEW c \in ChannelType
    PROVE  ChannelParts(c) \in Seq(Nat \ {0})
  <1>1. ScanLen \in Nat \ {0} /\ AttrLen \in Nat \ {0} BY GenXmlAssumption
  <1>2. c.attrs \in Nat BY DEF ChannelType
  <1>3. Copies(c.attrs, AttrLen) \in Seq(Nat \ {0}) BY <1>1, <1>2, CopiesType
  <1>4. (IF c.scan THEN <<ScanLen>> ELSE <<>>) \in Seq(Nat \ {0})
    <2>1. <<ScanLen>> \in Seq(Nat \ {0}) /\ <<>> \in Seq(Nat \ {0}) BY <1>1
    <2> QED BY <2>1, Zenon
  <1> QED BY <1>3, <1>4, Joined DEF ChannelParts

\* of a device's,
LEMMA DevicePartsType ==
    ASSUME NEW d \in DeviceType
    PROVE  DeviceParts(d) \in Seq(Nat \ {0})
  <1>1. AttrLen \in Nat \ {0} BY GenXmlAssumption
  <1>2. d.attrs \in Nat /\ d.buffer_attrs \in Nat /\ d.debug_attrs \in Nat
        /\ d.channels \in Seq(ChannelType)
    BY GenXmlAssumption DEF DeviceType
  <1>3. Copies(d.attrs + d.buffer_attrs + d.debug_attrs, AttrLen) \in Seq(Nat \ {0})
    <2>1. d.attrs + d.buffer_attrs + d.debug_attrs \in Nat BY <1>2
    <2> QED BY <1>1, <2>1, CopiesType
  <1>4. ASSUME NEW x \in 1..Len(d.channels)
        PROVE  Counted(ChannelParts(d.channels[x])) \in Nat \ {0}
    <2>1. d.channels[x] \in ChannelType BY <1>2
    <2> QED BY <2>1, ChannelPartsType, CountedType
  <1>5. DOMAIN d.channels = 1..Len(d.channels) /\ Len(d.channels) \in Nat BY <1>2
  <1>6. [x \in DOMAIN d.channels |-> Counted(ChannelParts(d.channels[x]))] \in Seq(Nat \ {0})
    BY <1>4, <1>5
  <1> QED BY <1>3, <1>6, Joined DEF DeviceParts

\* and of the context's.
LEMMA ContextPartsType ==
    ASSUME ctx \in ContextType
    PROVE  ContextParts \in Seq(Nat \ {0})
  <1>1. ctx.devices \in Seq(DeviceType) BY DEF ContextType
  <1>2. ASSUME NEW x \in 1..Len(ctx.devices)
        PROVE  Counted(DeviceParts(ctx.devices[x])) \in Nat \ {0}
    <2>1. ctx.devices[x] \in DeviceType BY <1>1
    <2> QED BY <2>1, DevicePartsType, CountedType
  <1>3. DOMAIN ctx.devices = 1..Len(ctx.devices) /\ Len(ctx.devices) \in Nat BY <1>1
  <1> QED BY <1>2, <1>3 DEF ContextParts

\* The room that was counted holds every context attribute, and what is left then
\* is what the devices need, unless a name is too long.
LEMMA AttrRoomIs ==
    ASSUME ctx \in ContextType, ctx.over = 0
    PROVE  /\ AttrRoom[ctx.attrs] = TextRoom(ContextParts, 0)
           /\ \A n \in 1..ctx.attrs : AttrRoom[n - 1] > 0
  <1>1. ctx.attrs \in Nat BY DEF ContextType
  <1>2. TailLen \in Nat /\ AttrLen \in Nat \ {0} BY GenXmlAssumption
  <1>3. ContextParts \in Seq(Nat) /\ ContextParts \in Seq(Nat \ {0})
    <2>1. ContextParts \in Seq(Nat \ {0}) BY ContextPartsType
    <2> HIDE DEF ContextParts
    <2> QED BY <2>1
  <1>4. Total(ContextParts) \in Nat
    <2>1. PICK g : Sums(g, ContextParts) BY <1>3, SumsExist
    <2> QED BY <2>1, <1>3, TotalIs
  <1> DEFINE rest == TextRoom(ContextParts, 0)
             all == rest + ctx.attrs * AttrLen
             F(f) == [n \in 0..ctx.attrs |->
                        IF n = 0 THEN all
                        ELSE IF f[n - 1] > 0 THEN f[n - 1] - AttrLen ELSE f[n - 1]]
             h == [n \in 0..ctx.attrs |-> rest + (ctx.attrs - n) * AttrLen]
             room == CHOOSE f : f = F(f)
  <1>5. rest \in Nat \ {0} BY <1>4, <1>2 DEF TextRoom
  <1>6. AttrRoom = room BY DEF AttrRoom
  <1> HIDE DEF rest
  <1>7. \A m \in Nat : m * AttrLen \in Nat BY <1>2
  <1>8. \A n \in 0..ctx.attrs : ctx.attrs - n \in Nat BY <1>1
  <1>9. ASSUME NEW n \in 0..ctx.attrs PROVE h[n] \in Nat /\ h[n] > 0
    <2>1. (ctx.attrs - n) * AttrLen \in Nat BY <1>7, <1>8
    <2>2. h[n] = rest + (ctx.attrs - n) * AttrLen OBVIOUS
    <2> HIDE DEF h
    <2> QED BY <2>1, <2>2, <1>5
  <1>10. h[0] = all /\ all \in Nat
    <2>1. ctx.attrs - 0 = ctx.attrs /\ 0 \in 0..ctx.attrs BY <1>1
    <2>2. ctx.attrs * AttrLen \in Nat BY <1>7, <1>1
    <2> QED BY <2>1, <2>2, <1>5
  <1>11. ASSUME NEW n \in 1..ctx.attrs PROVE h[n] = h[n - 1] - AttrLen /\ n - 1 \in 0..ctx.attrs
    <2>1. n \in 0..ctx.attrs /\ n - 1 \in 0..ctx.attrs BY <1>1
    <2>2. PICK m \in Nat : m = ctx.attrs - n BY <1>8, <2>1
    <2>3. ctx.attrs - (n - 1) = m + 1 BY <2>2, <1>1
    <2>4. (m + 1) * AttrLen = m * AttrLen + AttrLen BY <1>2
    <2>5. h[n] = rest + m * AttrLen /\ h[n - 1] = rest + (m + 1) * AttrLen BY <2>1, <2>2, <2>3
    <2>6. m * AttrLen \in Nat BY <1>7
    <2> HIDE DEF h
    <2>7. h[n - 1] = rest + (m * AttrLen + AttrLen) BY <2>4, <2>5
    <2> QED BY <2>1, <2>5, <2>6, <2>7, <1>2, <1>5
  <1>12. ASSUME NEW n \in 0..ctx.attrs
         PROVE  h[n] = IF n = 0 THEN all ELSE IF h[n - 1] > 0 THEN h[n - 1] - AttrLen ELSE h[n - 1]
    <2> HIDE DEF h, all
    <2>1. CASE n = 0 BY <2>1, <1>10
    <2>2. CASE n \in 1..ctx.attrs
      <3>1. h[n] = h[n - 1] - AttrLen /\ h[n - 1] > 0 BY <2>2, <1>11, <1>9
      <3>2. n # 0 BY <2>2
      <3> QED BY <3>1, <3>2
    <2> QED BY <2>1, <2>2, <1>1
  <1>13. h = F(h)
    <2> HIDE DEF all
    <2> QED BY <1>12
  <1>14. room = F(room) BY <1>13
  <1> HIDE DEF room, h, all
  <1>15. room[0] = all
         /\ \A n \in 1..ctx.attrs :
              room[n] = IF room[n - 1] > 0 THEN room[n - 1] - AttrLen ELSE room[n - 1]
    BY <1>14, <1>1
  <1> DEFINE S == {m \in Nat : m <= ctx.attrs => room[m] = h[m]}
  <1>16. 0 \in S BY <1>15, <1>10
  <1>17. ASSUME NEW m \in Nat, m \in S, m + 1 <= ctx.attrs PROVE room[m + 1] = h[m + 1]
    <2>1. m + 1 \in 1..ctx.attrs /\ (m + 1) - 1 = m /\ m \in 0..ctx.attrs BY <1>17, <1>1
    <2>2. room[m] = h[m] BY <1>17, <1>1
    <2>3. h[m + 1] = h[m] - AttrLen /\ h[m] > 0 BY <2>1, <1>9, <1>11
    <2> QED BY <2>1, <2>2, <2>3, <1>15
  <1>18. \A m \in Nat : m \in S => m + 1 \in S BY <1>17
  <1> HIDE DEF S
  <1>19. Nat \subseteq S BY <1>16, <1>18, SetInduction
  <1>20. \A n \in 0..ctx.attrs : room[n] = h[n] /\ room[n] > 0
    BY <1>19, <1>9, <1>1 DEF S
  <1>21. h[ctx.attrs] = rest
    <2>1. ctx.attrs - ctx.attrs = 0 /\ ctx.attrs \in 0..ctx.attrs /\ 0 * AttrLen = 0 BY <1>1, <1>2
    <2> QED BY <2>1, <1>5 DEF h
  <1>22. room[ctx.attrs] = rest BY <1>20, <1>21, <1>1
  <1>23. \A n \in 1..ctx.attrs : room[n - 1] > 0 BY <1>20, <1>11
  <1> QED BY <1>6, <1>22, <1>23 DEF rest

-----------------------------------------------------------------------------
(* The end of iio_context_create_xml *)

\* The loop that prints the context attributes reaches them all, unless a name is
\* too long.
LEMMA AttrsPrinted ==
    ASSUME TypeOK, ctx.over = 0
    PROVE  {n \in 1..ctx.attrs : AttrRoom[n - 1] > 0} = 1..ctx.attrs
  <1>1. \A n \in 1..ctx.attrs : AttrRoom[n - 1] > 0 BY CtxType, AttrRoomIs
  <1> HIDE DEF AttrRoom
  <1> QED BY <1>1

\* The context is printed: all it held is freed but the text, and but the attributes
\* there was no room to print, which needs a name that is too long.
LEMMA ContextPrintKeeps ==
    ASSUME IInv, fault = "none", context_print PROVE IInv'
  <1> DEFINE attrs == {n \in 1..ctx.attrs : AttrRoom[n - 1] > 0}
             room == Room(AttrRoom[ctx.attrs], ContextParts)
             text == Left(room[Len(ContextParts)]) = 1
             skips == Skips(room, ContextParts)
             Freed == {CtxBlock(name, n) : name \in {"ctx_attrs", "ctx_values"}, n \in attrs \cup {0}}
             Texts == {CtxBlock("devices", n) : n \in 1..Len(ctx.devices)}
                        \cup (IF ctx.devices = <<>> THEN {}
                              ELSE {CtxBlock("devices", 0), CtxBlock("len", 0)})
             B == Freed \cup {CtxBlock("devices", n) : n \in 1..Len(ctx.devices)}
                    \cup (IF ctx.devices = <<>> THEN {}
                          ELSE {CtxBlock("devices", 0), CtxBlock("len", 0)})
                    \cup (IF text THEN {} ELSE {CtxBlock("str", 0)})
  <1>1. /\ at = <<"context", "print", 0>> /\ at[1] = "context" /\ ~Over /\ Normal
        /\ Free(B, <<"context", "return", 0>>)
        /\ xml' = text
        /\ hDropped' = (hDropped \/ (text /\ skips))
        /\ UNCHANGED <<ctx, counters>>
    BY DEF context_print, Over, Normal
  <1>2. xml' \in BOOLEAN /\ hDropped' \in BOOLEAN BY <1>1
  <1>3. B = Freed \cup Texts \cup (IF text THEN {} ELSE {CtxBlock("str", 0)}) OBVIOUS
  <1> HIDE DEF B
  <1>4. attrs \subseteq 1..ctx.attrs /\ (ctx.over = 0 => attrs = 1..ctx.attrs)
    <2>1. ctx.over = 0 => attrs = 1..ctx.attrs BY AttrsPrinted, Live
    <2> QED BY <2>1
  <1> HIDE DEF attrs, text, room, skips
  <1>5. UNCHANGED <<ctx, ctx_i, i, j, k, chn_i, hFailed>> BY <1>1 DEF counters, Free
  <1>6. /\ ~InDevice /\ ctx_i \in Nat /\ hFailed = <<"none", "none", 0>> /\ ~xml /\ TypeOK
        /\ Owned = ContextBlocks /\ Len(ctx.devices) \in Nat /\ ctx.attrs \in Nat /\ ctx.over \in Nat
        /\ (ctx.devices = <<>> <=> Len(ctx.devices) = 0)
    BY <1>1, ContextFacts, Live DEF Outcome
  <1>7. ctx.devices = <<>> \/ ctx_i = Len(ctx.devices) BY <1>1, Live DEF ContextAt
  <1>8. NameBlocks = Names("ctx_attrs", ctx.attrs) \cup Names("ctx_values", ctx.attrs)
    BY <1>1, NamesHeld
  <1>9. ResultBlock = {CtxBlock("str", 0)} /\ TextTop = ctx_i
    BY <1>1 DEF ResultBlock, TextTop
  <1>10. TextBlocks = Texts
    <2>1. CASE ctx.devices = <<>>
      <3>1. 1..Len(ctx.devices) = {} BY <1>6, <2>1
      <3> QED BY <2>1, <3>1 DEF TextBlocks
    <2>2. CASE ctx.devices # <<>>
      <3>1. TextBlocks = {CtxBlock("devices", x) : x \in 0..ctx_i} \cup {CtxBlock("len", 0)}
        BY <1>1, <1>9, <2>2 DEF TextBlocks
      <3>2. 0..ctx_i = (1..Len(ctx.devices)) \cup {0} BY <1>6, <1>7, <2>2
      <3> QED BY <2>2, <3>1, <3>2
    <2> QED BY <2>1, <2>2
  <1> HIDE DEF Texts
  <1>11. attrs \cup {0} \subseteq 0..ctx.attrs BY <1>4, <1>6
  <1>12. Freed \subseteq NameBlocks BY <1>8, <1>11 DEF Names
  <1>13. NameBlocks \subseteq Names("ctx_attrs", ctx.attrs) \cup Names("ctx_values", ctx.attrs)
    BY <1>8
  <1>14. ctx.over = 0 => NameBlocks \subseteq Freed
    <2>1. ctx.over = 0 => 0..ctx.attrs = attrs \cup {0} BY <1>4, <1>6
    <2> QED BY <1>8, <2>1 DEF Names
  <1> HIDE DEF Freed
  <1>15. B \subseteq heap
    BY <1>3, <1>6, <1>9, <1>10, <1>12, Live DEF HeapAt, ContextBlocks
  <1>16. heap' = heap \ B /\ UNCHANGED fault /\ at' = <<"context", "return", 0>>
    BY <1>1, <1>15 DEF Free, Goto
  <1>17. ~InDevice' /\ ~InChannel' /\ ~Normal' /\ Over'
    BY <1>16 DEF InDevice, InChannel, Normal, Over
  <1>18. DeviceBlocks' = {} /\ ChannelBlocks' = {} /\ DeviceAt' /\ ChannelAt'
    BY <1>17 DEF DeviceBlocks, ChannelBlocks, DeviceAt, ChannelAt
  <1>19. NameBlocks' = {} BY <1>16, <1>17 DEF NameBlocks
  <1>20. TextBlocks' = {} BY <1>16, <1>17 DEF TextBlocks
  <1>21. ResultBlock' = IF text THEN {CtxBlock("str", 0)} ELSE {}
    <2>1. at' # <<"context", "print", 0>> BY <1>16
    <2> QED BY <1>1, <2>1 DEF ResultBlock, CtxBlock
  <1>22. Owned' = ResultBlock' BY <1>18, <1>19, <1>20 DEF Owned, ContextBlocks
  <1>23. CtxBlock("str", 0) \notin Freed \cup Texts
    BY <1>8, <1>10, <1>12 DEF Names, TextBlocks, CtxBlock
  <1>24. CtxBlock("str", 0) \in heap BY <1>6, <1>9, Live DEF HeapAt, ContextBlocks
  <1>25. ASSUME NEW b \in heap' PROVE b \in Owned' \/ Stray(b)'
    <2>1. b \in heap /\ b \notin B BY <1>16, <1>25
    <2>2. b \in NameBlocks \/ b \in Texts \/ b = CtxBlock("str", 0) \/ Stray(b)
      BY <1>6, <1>9, <1>10, <2>1, Live DEF HeapAt, ContextBlocks
    <2>3. CASE b \in NameBlocks
      <3>1. ctx.over > 0 BY <1>3, <1>6, <1>14, <2>1, <2>3
      <3>2. b \in Names("ctx_attrs", ctx.attrs) \cup Names("ctx_values", ctx.attrs)
        BY <1>13, <2>3
      <3> QED BY <1>5, <1>17, <3>1, <3>2 DEF Stray, Names, CtxBlock
    <2>4. CASE b \in Texts BY <1>3, <2>1, <2>4
    <2>5. CASE b = CtxBlock("str", 0) BY <1>3, <1>21, <1>22, <2>1, <2>5
    <2>6. CASE Stray(b)
      <3>1. at # <<"context", "err_free_ctx_attrs_values", 0>> BY <1>1
      <3> QED BY <1>5, <1>17, <2>6, <3>1, StrayStays
    <2> QED BY <2>2, <2>3, <2>4, <2>5, <2>6
  <1>26. HeapAt' BY <1>3, <1>16, <1>21, <1>22, <1>23, <1>24, <1>25 DEF HeapAt
  <1>27. TypeOK' BY <1>2, <1>5, <1>6 DEF TypeOK
  <1>28. ContextAt' BY <1>16, <1>17 DEF ContextAt
  <1>29. FailedAt' BY <1>5, <1>6, <1>16, <1>17 DEF FailedAt, Doomed
  <1>30. Outcome'
    <2>1. fault' = "none" BY <1>16
    <2>2. hFailed' = <<"none", "none", 0>> BY <1>5, <1>6
    <2> QED BY <1>17, <2>1, <2>2 DEF Outcome
  <1> QED BY <1>18, <1>26, <1>27, <1>28, <1>29, <1>30 DEF IInv, Places

-----------------------------------------------------------------------------
(* The specification *)

\* Nothing is allocated when main starts.
LEMMA InitHolds == ASSUME Init PROVE IInv
  <1>1. /\ at = <<"main", "start", 0>> /\ hFailed = <<"none", "none", 0>> /\ heap = {}
        /\ fault = "none" /\ ~xml
    BY DEF Init
  <1>2. TypeOK BY DEF Init, TypeOK
  <1>3. ~InDevice /\ ~InChannel BY <1>1 DEF InDevice, InChannel
  <1>4. DeviceBlocks = {} /\ ChannelBlocks = {} /\ DeviceAt /\ ChannelAt
    BY <1>3 DEF DeviceBlocks, ChannelBlocks, DeviceAt, ChannelAt
  <1>5. NameBlocks = {} /\ TextBlocks = {} /\ ResultBlock = {}
    BY <1>1, <1>3 DEF NameBlocks, TextBlocks, ResultBlock
  <1>6. Owned = {} BY <1>4, <1>5 DEF Owned, ContextBlocks
  <1>7. HeapAt BY <1>1, <1>6 DEF HeapAt
  <1>8. ContextAt BY <1>1, <1>3 DEF ContextAt
  <1>9. ~Doomed BY <1>1 DEF Doomed
  <1>10. FailedAt BY <1>1, <1>9 DEF FailedAt
  <1>11. Outcome BY <1>1 DEF Outcome
  <1> QED BY <1>2, <1>4, <1>7, <1>8, <1>10, <1>11 DEF IInv, Places

\* Every step of iio_channel_get_xml keeps the invariant,
LEMMA ChannelKeeps ==
    ASSUME IInv, fault = "none", iio_channel_get_xml PROVE IInv'
  BY ChannelScanKeeps, ChannelArraysKeeps, ChannelAttrKeeps, ChannelStrKeeps, ChannelPrintKeeps,
     ChannelErrorKeeps DEF iio_channel_get_xml

\* every step of iio_device_get_xml,
LEMMA DeviceKeeps ==
    ASSUME IInv, fault = "none", iio_device_get_xml PROVE IInv'
  <1>1. ASSUME NEW g \in 1..4, device_str(g) PROVE IInv'
    <2>1. CASE g \in 1..3 BY <1>1, <2>1, DeviceNextArrayKeeps
    <2>2. CASE g = 4
      <3>1. device_str(4) BY <1>1, <2>2
      <3> QED BY <3>1, DeviceLastKeeps
    <2> QED BY <2>1, <2>2
  <1>2. ASSUME NEW g \in 1..4,
               \/ device_len(g) \/ device_array(g) \/ device_attr(g)
               \/ device_error_elements(g) \/ device_error_len(g)
        PROVE  IInv'
    <2>1. CASE device_len(g) BY <2>1, DeviceLenKeeps
    <2>2. CASE device_array(g) BY <2>2, DeviceArrayKeeps
    <2>3. CASE device_attr(g) BY <2>3, DeviceAttrKeeps
    <2>4. CASE device_error_elements(g) BY <2>4, DeviceErrorElementsKeeps
    <2>5. CASE device_error_len(g) BY <2>5, DeviceErrorLenKeeps
    <2> QED BY <1>2, <2>1, <2>2, <2>3, <2>4, <2>5
  <1>3. CASE device_channel BY <1>3, DeviceChannelKeeps
  <1>4. CASE device_print BY <1>4, DevicePrintKeeps
  <1> QED BY <1>1, <1>2, <1>3, <1>4 DEF iio_device_get_xml

\* every step of iio_context_create_xml,
LEMMA ContextKeeps ==
    ASSUME IInv, fault = "none", iio_context_create_xml PROVE IInv'
  BY ContextArraysKeeps, ContextAttrKeeps, ContextDevicesKeeps, ContextDeviceKeeps, ContextStrKeeps,
     ContextPrintKeeps, ContextErrorKeeps DEF iio_context_create_xml

\* and so every step of the tool.
LEMMA NextKeeps ==
    ASSUME IInv, Next PROVE IInv'
  <1>1. fault = "none" BY DEF Next
  <1>2. CASE main_open \/ main_printf BY <1>1, <1>2, MainKeeps
  <1>3. CASE iio_channel_get_xml BY <1>1, <1>3, ChannelKeeps
  <1>4. CASE iio_device_get_xml BY <1>1, <1>4, DeviceKeeps
  <1>5. CASE iio_context_create_xml BY <1>1, <1>5, ContextKeeps
  <1> QED BY <1>2, <1>3, <1>4, <1>5 DEF Next

\* A step that changes nothing keeps whatever the variables decide.
LEMMA StuttersKeep ==
    ASSUME IInv, UNCHANGED vars PROVE IInv'
  <1>1. UNCHANGED <<ctx, at, ctx_i, i, j, k, chn_i, heap, xml, fault, hFailed, hDropped>>
    BY DEF vars, counters, memory
  <1>2. dev' = dev /\ \A g : Count(g)' = Count(g) /\ Counter(g)' = Counter(g)
    BY <1>1 DEF dev, Count, Counter
  <1>3. chn' = chn /\ \A g, x : /\ DevBlock(g, x)' = DevBlock(g, x)
                               /\ ChnBlock(g, x)' = ChnBlock(g, x)
                               /\ CtxBlock(g, x)' = CtxBlock(g, x)
    BY <1>1, <1>2 DEF chn, DevBlock, ChnBlock, CtxBlock
  <1>4. /\ InDevice' = InDevice /\ InChannel' = InChannel /\ Over' = Over
        /\ Normal' = Normal /\ Doomed' = Doomed
    BY <1>1 DEF InDevice, InChannel, Over, Normal, Doomed
  <1>5. Group' = Group BY <1>1, <1>4 DEF Group
  <1>6. /\ TextTop' = TextTop /\ NameTop' = NameTop /\ LenTop' = LenTop
        /\ \A g : ArrayTop(g)' = ArrayTop(g)
    BY <1>1, <1>2, <1>4, <1>5 DEF TextTop, NameTop, LenTop, ArrayTop
  <1>7. ContextBlocks' = ContextBlocks
    <2>1. \A name, top : Names(name, top)' = Names(name, top) BY DEF Names, CtxBlock
    <2>2. NameBlocks' = NameBlocks BY <1>1, <1>3, <1>4, <1>6, <2>1 DEF NameBlocks
    <2>3. TextBlocks' = TextBlocks BY <1>1, <1>3, <1>4, <1>6 DEF TextBlocks
    <2>4. ResultBlock' = ResultBlock BY <1>1, <1>3 DEF ResultBlock
    <2> QED BY <2>2, <2>3, <2>4 DEF ContextBlocks
  <1>8. DeviceBlocks' = DeviceBlocks
    <2>1. \A g : Array(g)' = Array(g) BY <1>3, <1>6 DEF Array
    <2>2. Lens' = Lens BY <1>3, <1>6 DEF Lens
    <2> QED BY <1>4, <2>1, <2>2 DEF DeviceBlocks
  <1>9. ChannelBlocks' = ChannelBlocks
    <2>1. ScanBlocks' = ScanBlocks BY <1>3 DEF ScanBlocks
    <2>2. {ChnBlock("attrs", x) : x \in 0..chn_i}' = {ChnBlock("attrs", x) : x \in 0..chn_i}
      BY <1>1, <1>3
    <2> QED BY <1>1, <1>3, <1>4, <2>1, <2>2 DEF ChannelBlocks
  <1>10. Owned' = Owned BY <1>7, <1>8, <1>9 DEF Owned
  <1>11. \A b : Stray(b)' <=> Stray(b) BY <1>1, <1>4 DEF Stray, Names, CtxBlock
  <1>12. HeapAt' <=> HeapAt BY <1>1, <1>10, <1>11 DEF HeapAt
  <1>13. Places' <=> Places
    <2>1. ContextAt' <=> ContextAt BY <1>1, <1>4 DEF ContextAt
    <2>2. DeviceAt' <=> DeviceAt BY <1>1, <1>2, <1>4, <1>5 DEF DeviceAt
    <2>3. ChannelAt' <=> ChannelAt BY <1>1, <1>3, <1>4 DEF ChannelAt
    <2>4. FailedAt' <=> FailedAt BY <1>1, <1>4 DEF FailedAt
    <2> QED BY <2>1, <2>2, <2>3, <2>4 DEF Places
  <1>14. TypeOK' <=> TypeOK BY <1>1 DEF TypeOK
  <1>15. Outcome' <=> Outcome BY <1>1, <1>4 DEF Outcome
  <1> QED BY <1>1, <1>12, <1>13, <1>14, <1>15 DEF IInv

\* Wherever the tool is, what is allocated is what the place and the counters say, but
\* for the values of attributes and the context attributes left unprinted.
THEOREM Invariance == Spec => []IInv
  <1>1. Init => IInv BY InitHolds
  <1>2. IInv /\ [Next]_vars => IInv' BY NextKeeps, StuttersKeep
  <1> QED BY <1>1, <1>2, PTL DEF Spec

\* Nothing is freed that is not allocated, whichever allocation fails, except when it
\* is one among the debug attributes, or of the device's own text: k is run down past
\* 0 there, and buffer_attrs cannot be freed with it.
THEOREM FreesOnlyWhatItHolds == Spec => []BadFreeOnlyAfterDebugAttrs
  <1>1. ASSUME IInv PROVE BadFreeOnlyAfterDebugAttrs
    <2>1. fault = "bad free" => Doomed BY <1>1 DEF IInv, Outcome
    <2>2. ASSUME fault = "none", Doomed PROVE ~Ended
      <3>1. FailedAt BY <1>1, <2>2, Live
      <3>2. at[1] # "exit" BY <2>2, <3>1 DEF FailedAt
      <3> QED BY <2>2, <3>2 DEF Ended
    <2> QED BY <2>1, <2>2 DEF BadFreeOnlyAfterDebugAttrs, Doomed
  <1> QED BY <1>1, Invariance, PTL

\* When main returns, the text is the only block left, but for values of attributes
\* and, when a name was too long, context attributes there was no room to print.
THEOREM LeavesOnlyValues == Spec => []OnlyValuesLeak
  <1>1. ASSUME IInv PROVE OnlyValuesLeak
    <2> SUFFICES ASSUME at = <<"exit", "success", 0>>, NEW block \in heap
                 PROVE  \/ block[3] = "device value"
                        \/ block[3] = "value" /\ hFailed[1] = "channel"
                        \/ block = CtxBlock("str", 0) /\ xml
                        \/ block[3] \in {"ctx_attrs", "ctx_values"} /\ ctx.over > 0
      BY DEF OnlyValuesLeak
    <2>1. ~InDevice /\ ~InChannel BY DEF InDevice, InChannel
    <2>2. fault = "none" BY <1>1, <2>1 DEF IInv, Outcome
    <2>3. block \in Owned \/ Stray(block) BY <1>1, <2>2, Live DEF HeapAt
    <2>4. Owned = ResultBlock
      <3>1. NameBlocks = {} /\ TextBlocks = {} BY <2>1 DEF NameBlocks, TextBlocks
      <3>2. DeviceBlocks = {} /\ ChannelBlocks = {}
        BY <2>1 DEF DeviceBlocks, ChannelBlocks
      <3> QED BY <3>1, <3>2 DEF Owned, ContextBlocks
    <2>5. CASE block \in Owned
      <3>1. xml /\ block = CtxBlock("str", 0) BY <2>4, <2>5 DEF ResultBlock
      <3> QED BY <3>1
    <2>6. CASE Stray(block)
      <3>1. ASSUME block \in Names("ctx_attrs", ctx.attrs) \cup Names("ctx_values", ctx.attrs)
            PROVE  block[3] \in {"ctx_attrs", "ctx_values"}
        BY <3>1 DEF Names, CtxBlock
      <3> QED BY <2>6, <3>1 DEF Stray
    <2> QED BY <2>3, <2>5, <2>6
  <1> QED BY <1>1, Invariance, PTL

-----------------------------------------------------------------------------
(* The whole document.  Without a name that is too long, every part fits its   *)
(* block, and only a failed allocation keeps the text from being returned.     *)

Whole ==
    ~Overlong =>
        /\ ~hDropped
        /\ ~Normal /\ ~Over => hFailed[1] # "none"
        /\ at \in {<<"context", "return", 0>>, <<"exit", "success", 0>>}
               => (xml <=> hFailed[1] = "none")

\* A step between the beginning and the end of iio_context_create_xml: forward, to an
\* error that it notes, or from one label of an error to another.
Goes ==
    /\ UNCHANGED <<ctx, xml, hDropped>>
    /\ ~Over /\ at[1] # "none" /\ at'[1] # "exit"
    /\ \/ Normal' /\ at'[2] # "return"
       \/ hFailed' = at
       \/ ~Normal /\ UNCHANGED hFailed

\* Such a step cannot lose a part, nor end without a text and without an error.
LEMMA GoesWhole ==
    ASSUME IInv, Whole, Goes PROVE Whole'
  <1> SUFFICES ASSUME ~Overlong'
               PROVE  /\ ~hDropped'
                      /\ ~Normal' /\ ~Over' => hFailed'[1] # "none"
                      /\ at' \in {<<"context", "return", 0>>, <<"exit", "success", 0>>}
                             => (xml' <=> hFailed'[1] = "none")
    BY DEF Whole
  <1>1. ctx' = ctx /\ xml' = xml /\ hDropped' = hDropped /\ ~Over BY DEF Goes
  <1>2. ~Overlong BY <1>1 DEF Overlong
  <1>3. ~xml BY <1>1 DEF IInv, Outcome
  <1>4. ~hDropped /\ (~Normal => hFailed[1] # "none") BY <1>1, <1>2 DEF Whole
  <1>5. \/ Normal' /\ at'[2] # "return"
        \/ hFailed'[1] # "none"
    BY <1>4 DEF Goes
  <1>6. at'[1] # "exit" BY DEF Goes
  <1>7. at' \notin {<<"context", "return", 0>>, <<"exit", "success", 0>>} \/ hFailed'[1] # "none"
    BY <1>5, <1>6
  <1> QED BY <1>1, <1>3, <1>4, <1>5, <1>7

\* An error label frees what it frees and goes on.
LEMMA FreeGoes ==
    ASSUME UNCHANGED <<ctx, xml, hDropped>>, ~Over, at[1] # "none", ~Normal,
           NEW blocks, NEW next, Free(blocks, next), next[1] # "exit"
    PROVE  Goes
  <1>1. UNCHANGED hFailed /\ (at' = next \/ at' = at) BY DEF Free, Goto
  <1>2. at'[1] # "exit" BY <1>1 DEF Over
  <1> QED BY <1>1, <1>2 DEF Goes

\* An attribute is stored, or its failure noted.
LEMMA TextGoes ==
    ASSUME UNCHANGED <<ctx, xml, hDropped>>, ~Over, at[1] # "none", Normal,
           NEW value, NEW element, NEW keeps, NEW err, AttrText(value, element, keeps, err),
           err[1] # "exit"
    PROVE  Goes
  <1>1. at' = at \/ (hFailed' = at /\ (at' = at \/ at' = err)) BY DEF AttrText, Goto
  <1>2. at'[1] # "exit" BY <1>1 DEF Over
  <1>3. at' = at => Normal' /\ at'[2] # "return" BY DEF Normal, Over
  <1> QED BY <1>1, <1>2, <1>3 DEF Goes

\* The steps of iio_channel_get_xml before its text is printed are such steps,
LEMMA ChannelGoes ==
    ASSUME channel_scan \/ channel_arrays \/ channel_attr \/ channel_str \/ channel_error
    PROVE  Goes
  <1>1. CASE channel_scan
    BY <1>1 DEF channel_scan, Malloc, Goto, NoChannel, Goes, Over, Normal, memory
  <1>2. CASE channel_arrays
    BY <1>2 DEF channel_arrays, Malloc, Goto, Goes, Over, Normal
  <1>3. CASE channel_attr
    <2>1. /\ at = <<"channel", "loop", 0>> /\ UNCHANGED <<ctx, xml, hDropped>> /\ ~Over /\ Normal
      BY <1>3 DEF channel_attr, Over, Normal
    <2>2. PICK value, element : AttrText(value, element, FALSE, <<"channel", "err_free_attrs", 0>>)
      BY <1>3 DEF channel_attr, get_attr_xml
    <2> QED BY <2>1, <2>2, TextGoes
  <1>4. CASE channel_str
    BY <1>4 DEF channel_str, Malloc, Goto, Goes, Over, Normal
  <1>5. CASE channel_error
    BY <1>5, FreeGoes DEF channel_error, NoChannel, Over, Normal
  <1> QED BY <1>1, <1>2, <1>3, <1>4, <1>5

\* those of iio_device_get_xml,
LEMMA DeviceGoes ==
    ASSUME \/ \E g \in 1..4 : \/ device_len(g) \/ device_array(g) \/ device_attr(g) \/ device_str(g)
                              \/ device_error_elements(g) \/ device_error_len(g)
           \/ device_channel
    PROVE  Goes
  <1>1. ASSUME NEW g \in 1..4, device_len(g) PROVE Goes
    BY <1>1 DEF device_len, Malloc, Goto, NoDevice, Goes, Over, Normal
  <1>2. ASSUME NEW g \in 1..4, device_array(g) PROVE Goes
    BY <1>2 DEF device_array, Malloc, Goto, Goes, Over, Normal
  <1>3. ASSUME NEW g \in 1..4, device_attr(g) PROVE Goes
    <2>1. /\ at = <<"device", "loop", g>> /\ UNCHANGED <<ctx, xml, hDropped>> /\ ~Over /\ Normal
      BY <1>3 DEF device_attr, Over, Normal
    <2>2. PICK value, element : AttrText(value, element, TRUE, <<"device", "err_free_elements", g>>)
      BY <1>3 DEF device_attr, get_attr_xml2
    <2> QED BY <2>1, <2>2, TextGoes
  <1>4. ASSUME NEW g \in 1..4, device_str(g) PROVE Goes
    BY <1>4 DEF device_str, Malloc, Goto, memory, Goes, Over, Normal
  <1>5. ASSUME NEW g \in 1..4, device_error_elements(g) PROVE Goes
    <2>1. /\ at = <<"device", "err_free_elements", g>> /\ UNCHANGED <<ctx, xml, hDropped>>
          /\ ~Over /\ ~Normal
      BY <1>5 DEF device_error_elements, Over, Normal
    <2>2. CASE Counter(g) > Count(g)
      <3>1. UNCHANGED <<at, hFailed>> BY <1>5, <2>2 DEF device_error_elements
      <3> QED BY <2>1, <3>1 DEF Goes
    <2>3. CASE ~(Counter(g) > Count(g))
      <3>1. Free({DevBlock(Groups[g], x) : x \in 0..Counter(g)}, <<"device", "err_free_len", g>>)
        BY <1>5, <2>3 DEF device_error_elements
      <3> QED BY <2>1, <3>1, FreeGoes
    <2> QED BY <2>2, <2>3
  <1>6. ASSUME NEW g \in 1..4, device_error_len(g) PROVE Goes
    BY <1>6, FreeGoes DEF device_error_len, NoDevice, Over, Normal
  <1>7. CASE device_channel
    BY <1>7 DEF device_channel, Goto, memory, Goes, Over, Normal
  <1> QED BY <1>1, <1>2, <1>3, <1>4, <1>5, <1>6, <1>7

\* and those of iio_context_create_xml.
LEMMA ContextGoes ==
    ASSUME \/ context_arrays \/ context_attr \/ context_devices \/ context_device
           \/ context_str \/ context_error
    PROVE  Goes
  <1>1. CASE context_arrays
    BY <1>1 DEF context_arrays, Malloc, Goto, Goes, Over, Normal
  <1>2. CASE context_attr
    BY <1>2 DEF context_attr, Goto, Goes, Over, Normal
  <1>3. CASE context_devices
    BY <1>3 DEF context_devices, Malloc, Goto, memory, Goes, Over, Normal
  <1>4. CASE context_device
    BY <1>4 DEF context_device, Goto, memory, Goes, Over, Normal
  <1>5. CASE context_str
    BY <1>5 DEF context_str, Malloc, Goto, Goes, Over, Normal
  <1>6. CASE context_error
    BY <1>6, FreeGoes DEF context_error, Over, Normal
  <1> QED BY <1>1, <1>2, <1>3, <1>4, <1>5, <1>6

\* A text with no name too long fills its block, and none of its parts is left out.
LEMMA Filled ==
    ASSUME NEW parts \in Seq(Nat \ {0}), NEW room, room = Room(TextRoom(parts, 0), parts)
    PROVE  Left(room[Len(parts)]) = 1 /\ ~Skips(room, parts)
  <1>1. room[Len(parts)] = TailLen + 1 /\ ~Skips(room, parts) BY RoomIs
  <1>2. TailLen \in Nat BY GenXmlAssumption
  <1> QED BY <1>1, <1>2 DEF Left

\* Printing a channel whose name is not too long leaves nothing out,
LEMMA ChannelPrintGoes ==
    ASSUME IInv, fault = "none", ~Overlong, channel_print PROVE Goes
  <1> DEFINE parts == ChannelParts(chn)
             room == Room(TextRoom(parts, chn.over), parts)
             text == Left(room[Len(parts)]) = 1
             Blocks == {ChnBlock("attrs", x) : x \in 0..chn.attrs} \cup {ChnBlock("len", 0)}
                         \cup (IF chn.scan THEN {ChnBlock("scan_element", 0)} ELSE {})
                         \cup (IF text THEN {} ELSE {DevBlock("channels", j + 1)})
  <1>1. /\ at = <<"channel", "print", 0>> /\ UNCHANGED <<ctx, xml>>
        /\ Free(Blocks, IF text THEN <<"device", "channel", 2>> ELSE NoChannel)
        /\ hDropped' = (hDropped \/ (text /\ Skips(room, parts)))
    BY DEF channel_print
  <1> HIDE DEF Blocks
  <1>2. InDevice /\ InChannel BY <1>1 DEF InDevice, InChannel
  <1>3. TypeOK /\ ctx_i < Len(ctx.devices) /\ j < Count(2) /\ hDropped \in BOOLEAN
    BY <1>1, <1>2, Live DEF ContextAt, DeviceAt, TypeOK
  <1>4. chn \in ChannelType BY <1>3, ChnType
  <1>5. chn.over = 0
    <2>1. dev \in DeviceType /\ ctx_i + 1 \in DOMAIN ctx.devices
      BY <1>3, DevType, CtxFields DEF TypeOK
    <2>2. j + 1 \in DOMAIN dev.channels BY <1>3, <2>1, Counts DEF TypeOK, DeviceType
    <2>3. ~(chn.over > 0) BY <2>1, <2>2 DEF Overlong, dev, chn
    <2>4. chn.over \in Nat BY <1>4 DEF ChannelType
    <2> QED BY <2>3, <2>4
  <1>6. parts \in Seq(Nat \ {0}) BY <1>4, ChannelPartsType
  <1> HIDE DEF parts
  <1>7. room = Room(TextRoom(parts, 0), parts) BY <1>5
  <1> HIDE DEF room
  <1>8. text /\ ~Skips(room, parts) BY <1>6, <1>7, Filled
  <1> HIDE DEF text
  <1>9. hDropped' = hDropped BY <1>1, <1>3, <1>8
  <1>10. at' = <<"device", "channel", 2>> \/ at' = at BY <1>1, <1>8 DEF Free, Goto
  <1> QED BY <1>1, <1>9, <1>10 DEF Goes, Over, Normal

\* nor does printing a device,
LEMMA DevicePrintGoes ==
    ASSUME IInv, fault = "none", ~Overlong, device_print PROVE Goes
  <1> DEFINE parts == DeviceParts(dev)
             room == Room(TextRoom(parts, dev.over), parts)
             text == Left(room[Len(parts)]) = 1
             Blocks == (UNION {{DevBlock(Groups[g], x) : x \in 0..Count(g)} \cup {DevBlock("len", g)} :
                               g \in 1..4})
                         \cup (IF text THEN {} ELSE {CtxBlock("devices", ctx_i + 1)})
  <1>1. /\ at = <<"device", "print", 0>> /\ UNCHANGED <<ctx, xml>>
        /\ Free(Blocks, IF text THEN <<"context", "device", 0>> ELSE NoDevice)
        /\ hDropped' = (hDropped \/ (text /\ Skips(room, parts)))
    BY DEF device_print
  <1> HIDE DEF Blocks
  <1>2. InDevice BY <1>1 DEF InDevice
  <1>3. TypeOK /\ ctx_i < Len(ctx.devices) /\ hDropped \in BOOLEAN
    BY <1>2, Live DEF ContextAt, TypeOK
  <1>4. dev \in DeviceType /\ ctx_i + 1 \in DOMAIN ctx.devices
    BY <1>3, DevType, CtxFields DEF TypeOK
  <1>5. dev.over = 0
    <2>1. ~(dev.over > 0) BY <1>4 DEF Overlong, dev
    <2>2. dev.over \in Nat BY <1>4 DEF DeviceType
    <2> QED BY <2>1, <2>2
  <1>6. parts \in Seq(Nat \ {0}) BY <1>4, DevicePartsType
  <1> HIDE DEF parts
  <1>7. room = Room(TextRoom(parts, 0), parts) BY <1>5
  <1> HIDE DEF room
  <1>8. text /\ ~Skips(room, parts) BY <1>6, <1>7, Filled
  <1> HIDE DEF text
  <1>9. hDropped' = hDropped BY <1>1, <1>3, <1>8
  <1>10. at' = <<"context", "device", 0>> \/ at' = at BY <1>1, <1>8 DEF Free, Goto
  <1> QED BY <1>1, <1>9, <1>10 DEF Goes, Over, Normal

\* nor the context, whose attributes leave the devices the room they need.
LEMMA ContextPrintWhole ==
    ASSUME IInv, fault = "none", Whole, context_print PROVE Whole'
  <1> DEFINE room == Room(AttrRoom[ctx.attrs], ContextParts)
             text == Left(room[Len(ContextParts)]) = 1
  <1>1. /\ at = <<"context", "print", 0>> /\ ctx' = ctx
        /\ UNCHANGED hFailed /\ (at' = at \/ at' = <<"context", "return", 0>>)
        /\ xml' = text
        /\ hDropped' = (hDropped \/ (text /\ Skips(room, ContextParts)))
    <2>1. PICK blocks : Free(blocks, <<"context", "return", 0>>) BY DEF context_print
    <2>2. UNCHANGED hFailed /\ (at' = at \/ at' = <<"context", "return", 0>>)
      BY <2>1 DEF Free, Goto
    <2> QED BY <2>2 DEF context_print
  <1> SUFFICES ASSUME ~Overlong' PROVE Whole'
    BY DEF Whole
  <1>2. ~Overlong BY <1>1 DEF Overlong
  <1>3. TypeOK /\ hDropped \in BOOLEAN BY Live DEF TypeOK
  <1>4. ctx \in ContextType BY <1>3, CtxType
  <1>5. ctx.over = 0
    <2>1. ctx.over \in Nat /\ ~(ctx.over > 0) BY <1>2, <1>4 DEF ContextType, Overlong
    <2> QED BY <2>1
  <1>6. AttrRoom[ctx.attrs] = TextRoom(ContextParts, 0) BY <1>4, <1>5, AttrRoomIs
  <1>7. ContextParts \in Seq(Nat \ {0}) BY <1>4, ContextPartsType
  <1>8. room = Room(TextRoom(ContextParts, 0), ContextParts) BY <1>6
  <1> HIDE DEF room
  <1>9. text /\ ~Skips(room, ContextParts) BY <1>7, <1>8, Filled
  <1> HIDE DEF text
  <1>10. xml' = TRUE /\ hDropped' = hDropped /\ ~hDropped
    BY <1>1, <1>2, <1>3, <1>9 DEF Whole
  <1>11. hFailed'[1] = "none" BY <1>1, Live DEF FailedAt, Normal
  <1>12. Normal' \/ Over' BY <1>1 DEF Normal, Over
  <1> QED BY <1>10, <1>11, <1>12 DEF Whole

\* What iio_context_create_xml returned is what main ends with.
LEMMA MainWhole ==
    ASSUME Whole, main_open \/ main_printf PROVE Whole'
  <1>1. UNCHANGED <<ctx, xml, hDropped, hFailed>>
    BY DEF main_open, main_printf, memory
  <1>2. Overlong' <=> Overlong BY <1>1 DEF Overlong
  <1>3. CASE main_open
    <2>1. at' = <<"context", "ctx_attrs", 0>> \/ at' = <<"exit", "failure", 1>>
      BY <1>3 DEF main_open, Goto
    <2>2. Normal' \/ Over' BY <2>1 DEF Normal, Over
    <2> QED BY <1>1, <1>2, <2>1, <2>2 DEF Whole
  <1>4. CASE main_printf
    <2>1. at = <<"context", "return", 0>> /\ at' = <<"exit", "success", 0>>
      BY <1>4 DEF main_printf, Goto
    <2>2. Over' BY <2>1 DEF Over
    <2> QED BY <1>1, <1>2, <2>1, <2>2 DEF Whole
  <1> QED BY <1>3, <1>4

\* No step of the tool loses a part of a document without a name that is too long.
LEMMA NextWhole ==
    ASSUME IInv, Whole, Next PROVE Whole'
  <1>1. fault = "none" BY DEF Next
  <1>2. CASE main_open \/ main_printf BY <1>2, MainWhole
  <1>3. CASE context_print BY <1>1, <1>3, ContextPrintWhole
  <1>4. CASE channel_print \/ device_print
    <2>1. ctx' = ctx BY <1>4 DEF channel_print, device_print
    <2>2. CASE Overlong
      <3>1. Overlong' BY <2>1, <2>2 DEF Overlong
      <3> QED BY <3>1 DEF Whole
    <2>3. CASE ~Overlong BY <1>1, <1>4, <2>3, ChannelPrintGoes, DevicePrintGoes, GoesWhole
    <2> QED BY <2>2, <2>3
  <1>5. CASE iio_channel_get_xml /\ ~channel_print
    BY <1>5, ChannelGoes, GoesWhole DEF iio_channel_get_xml
  <1>6. CASE iio_device_get_xml /\ ~device_print
    BY <1>6, DeviceGoes, GoesWhole DEF iio_device_get_xml
  <1>7. CASE iio_context_create_xml /\ ~context_print
    BY <1>7, ContextGoes, GoesWhole DEF iio_context_create_xml
  <1> QED BY <1>2, <1>3, <1>4, <1>5, <1>6, <1>7 DEF Next

\* Unless an allocation failed or a name was too long, the tool prints the whole
\* document: what the getters count, allocate and print is one length.  The sums of
\* the counted lengths leave, after all the parts, the closing tag and the NUL.
THEOREM PrintsItWhole == Spec => []PrintsWholeDocument
  <1>1. Init => Whole
    <2>1. ASSUME Init PROVE Normal /\ ~hDropped
                            /\ at \notin {<<"context", "return", 0>>, <<"exit", "success", 0>>}
      BY <2>1 DEF Init, Normal
    <2> QED BY <2>1 DEF Whole
  <1>2. ASSUME UNCHANGED vars, Whole PROVE Whole'
    <2>1. UNCHANGED <<ctx, at, xml, hFailed, hDropped>> BY <1>2 DEF vars, memory
    <2>2. (Overlong' <=> Overlong) /\ (Normal' <=> Normal) /\ (Over' <=> Over)
      BY <2>1 DEF Overlong, Normal, Over
    <2> QED BY <1>2, <2>1, <2>2 DEF Whole
  <1>3. IInv /\ Whole /\ [Next]_vars => Whole' BY <1>2, NextWhole
  <1>4. Whole => PrintsWholeDocument BY DEF Whole, PrintsWholeDocument
  <1> QED BY <1>1, <1>3, <1>4, Invariance, PTL DEF Spec
=============================================================================

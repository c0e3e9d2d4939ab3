-------------------------------- MODULE GenXml --------------------------------
(***************************************************************************)
(* iio-emu_gen_xml (tools/genxml.c): the tool that writes the XML document *)
(* of a context.  Three nested getters each count the length of their      *)
(* text, allocate what they need, build their parts, print them into one   *)
(* block and free the rest; any allocation may fail, and the error labels  *)
(* free in the reverse order.                                              *)
(*                                                                         *)
(* A block is named by who allocates it: the device and the channel it is  *)
(* for (0 when it belongs to the one above), the array, and the index in   *)
(* it (0 is the array itself).  A getter's result takes the name of the    *)
(* element its caller stores it in.  Texts are their lengths.              *)
(***************************************************************************)
EXTENDS Integers, Sequences

CONSTANTS
    Contexts,   \* the contexts the tool is run on
    UINT_MAX,   \* what an unsigned counter that is 0 wraps to
    HeadLen,    \* the counted length of an opening tag
    TailLen,    \* of a closing tag
    AttrLen,    \* of an attribute's element
    ScanLen     \* of a scan-element

\* What a context consists of.  No device has UINT_MAX buffer attributes.
ChannelType == [over : Nat, scan : BOOLEAN, attrs : Nat]
DeviceType == [over : Nat, attrs : Nat, buffer_attrs : 0..(UINT_MAX - 1), debug_attrs : Nat,
               channels : Seq(ChannelType)]
ContextType == [over : Nat, attrs : Nat, devices : Seq(DeviceType)]

ASSUME GenXmlAssumption ==
    /\ Contexts \subseteq ContextType
    /\ UINT_MAX \in Nat
    /\ {HeadLen, TailLen, AttrLen, ScanLen} \subseteq Nat \ {0}

VARIABLES
    ctx,      \* the context: how many of what it holds, and by how much each
              \* name is longer than the strnlen that counts it allows (over)
    at,       \* the function, the label in it, and the device's array there
    ctx_i, i, j, k, chn_i,   \* the counters of the three getters
    heap,     \* the allocated blocks
    xml,      \* iio_context_create_xml returned a text, not NULL
    fault,    \* undefined behaviour was reached
    hFailed,  \* history: where an allocation failed
    hDropped  \* history: a returned text lacks a part

counters == <<ctx_i, i, j, k, chn_i>>
memory == <<heap, fault, hFailed>>
vars == <<ctx, at, counters, memory, xml, hDropped>>

Groups == <<"attrs", "channels", "buffer_attrs", "debug_attrs">>

dev == ctx.devices[ctx_i + 1]
chn == dev.channels[j + 1]
CtxBlock(name, x) == <<0, 0, name, x>>
DevBlock(name, x) == <<ctx_i + 1, 0, name, x>>
ChnBlock(name, x) == <<ctx_i + 1, j + 1, name, x>>

-----------------------------------------------------------------------------
(* Lengths *)

Copies(n, len) == [x \in 1..n |-> len]

Total(lens) ==
    LET sum[n \in 0..Len(lens)] == IF n = 0 THEN 0 ELSE sum[n - 1] + lens[n]
    IN  sum[Len(lens)]

\* The parts of a channel and of a device in the order they are printed.
ChannelParts(c) == (IF c.scan THEN <<ScanLen>> ELSE <<>>) \o Copies(c.attrs, AttrLen)

Counted(parts) == HeadLen + Total(parts) + TailLen

DeviceParts(d) ==
    [x \in DOMAIN d.channels |-> Counted(ChannelParts(d.channels[x]))]
        \o Copies(d.attrs + d.buffer_attrs + d.debug_attrs, AttrLen)

ContextParts == [x \in DOMAIN ctx.devices |-> Counted(DeviceParts(ctx.devices[x]))]

\* The room left after each part: one that does not fit is skipped.
Room(start, parts) ==
    LET room[n \in 0..Len(parts)] ==
            IF n = 0 THEN start
            ELSE IF room[n - 1] > parts[n] THEN room[n - 1] - parts[n]
            ELSE room[n - 1]
    IN  room

Skips(room, parts) == \E n \in 1..Len(parts) : room[n] = room[n - 1]

\* What is left of the block after the closing tag; a text is returned only if
\* that is the terminating NUL.
Left(room) == IF room > 0 THEN room - TailLen ELSE room

\* Mutant: the closing tag is not counted.
TextRoom_no_tail(parts, over) == Total(parts) + 1 - over

\* The room when a channel or a device comes to its parts: what was counted,
\* and the NUL, less the opening tag as it was printed.
TextRoom(parts, over) == Total(parts) + TailLen + 1 - over

\* The room before each context attribute: snprintf is called while there is any.
AttrRoom ==
    LET room[n \in 0..ctx.attrs] ==
            IF n = 0 THEN TextRoom(ContextParts, ctx.over) + ctx.attrs * AttrLen
            ELSE IF room[n - 1] > 0 THEN room[n - 1] - AttrLen
            ELSE room[n - 1]
    IN  room

-----------------------------------------------------------------------------
(* The heap *)

Goto(label) == at' = label

Malloc(block, next, err) ==
    /\ UNCHANGED fault
    /\ \/ heap' = heap \cup {block} /\ Goto(next) /\ UNCHANGED hFailed
       \/ Goto(err) /\ hFailed' = at /\ UNCHANGED heap

\* Freeing what is not allocated is undefined.
Free(blocks, next) ==
    /\ UNCHANGED hFailed
    /\ IF blocks \subseteq heap
       THEN heap' = heap \ blocks /\ Goto(next) /\ UNCHANGED fault
       ELSE fault' = "bad free" /\ UNCHANGED <<heap, at>>

NoDevice == <<"context", "err_free_devices", 0>>
NoChannel == <<"device", "err_free_elements", 2>>

\* An attribute: a buffer for its value, then the element.  A value that cannot
\* be read is written as ERROR; a buffer that could not be allocated is written
\* to all the same.  Without the element the buffer stays allocated.
AttrText(value, element, keeps, err) ==
    \/ /\ heap' = heap \cup {element} \cup (IF keeps THEN {value} ELSE {})
       /\ UNCHANGED <<at, fault, hFailed>>
    \/ /\ heap' = heap \cup {value} /\ Goto(err)
       /\ hFailed' = at /\ UNCHANGED fault
    \/ /\ fault' = "null value" /\ hFailed' = at
       /\ UNCHANGED <<heap, at>>

\* Mutant: the buffer of a channel's attribute is kept like that of a device's.
get_attr_xml_keeps(err) ==
    AttrText(ChnBlock("value", chn_i + 1), ChnBlock("attrs", chn_i + 1), TRUE, err)

\* A channel's attribute.
get_attr_xml(err) ==
    AttrText(ChnBlock("value", chn_i + 1), ChnBlock("attrs", chn_i + 1), FALSE, err)

\* A device's attribute, buffer attribute or debug attribute; nothing frees the
\* buffer of its value.
get_attr_xml2(g, x, err) ==
    AttrText(<<ctx_i + 1, g, "device value", x>>, DevBlock(Groups[g], x), TRUE, err)

-----------------------------------------------------------------------------
(* iio_channel_get_xml *)

\* get_scan_element, for the channels that are scan elements.
channel_scan ==
    /\ at = <<"channel", "scan", 0>>
    /\ IF chn.scan
       THEN Malloc(ChnBlock("scan_element", 0), <<"channel", "len", 0>>, NoChannel)
       ELSE Goto(<<"channel", "len", 0>>) /\ UNCHANGED memory
    /\ UNCHANGED <<ctx, counters, xml, hDropped>>

channel_arrays ==
    /\ \/ /\ at = <<"channel", "len", 0>>
          /\ Malloc(ChnBlock("len", 0), <<"channel", "array", 0>>,
                    <<"channel", "err_free_scan_element", 0>>)
       \/ /\ at = <<"channel", "array", 0>>
          /\ Malloc(ChnBlock("attrs", 0), <<"channel", "loop", 0>>,
                    <<"channel", "err_free_attrs_len", 0>>)
    /\ chn_i' = 0
    /\ UNCHANGED <<ctx, ctx_i, i, j, k, xml, hDropped>>

channel_attr ==
    /\ at = <<"channel", "loop", 0>> /\ chn_i < chn.attrs
    /\ get_attr_xml(<<"channel", "err_free_attrs", 0>>)
    /\ chn_i' = IF at' = at THEN chn_i + 1 ELSE chn_i
    /\ UNCHANGED <<ctx, ctx_i, i, j, k, xml, hDropped>>

channel_str ==
    /\ at = <<"channel", "loop", 0>> /\ chn_i = chn.attrs
    /\ Malloc(DevBlock("channels", j + 1), <<"channel", "print", 0>>,
              <<"channel", "err_free_attrs", 0>>)
    /\ UNCHANGED <<ctx, counters, xml, hDropped>>

\* What the parts took is freed; so is the text, when it does not fill its block.
channel_print ==
    LET parts == ChannelParts(chn)
        room == Room(TextRoom(parts, chn.over), parts)
        text == Left(room[Len(parts)]) = 1
    IN  /\ at = <<"channel", "print", 0>>
        /\ Free({ChnBlock("attrs", x) : x \in 0..chn.attrs} \cup {ChnBlock("len", 0)}
                    \cup (IF chn.scan THEN {ChnBlock("scan_element", 0)} ELSE {})
                    \cup (IF text THEN {} ELSE {DevBlock("channels", j + 1)}),
                IF text THEN <<"device", "channel", 2>> ELSE NoChannel)
        /\ hDropped' = (hDropped \/ (text /\ Skips(room, parts)))
        /\ UNCHANGED <<ctx, counters, xml>>

\* The error labels, each falling through to the next.
channel_error ==
    /\ \/ /\ at = <<"channel", "err_free_attrs", 0>>
          /\ Free({ChnBlock("attrs", x) : x \in 0..chn_i},
                  <<"channel", "err_free_attrs_len", 0>>)
       \/ /\ at = <<"channel", "err_free_attrs_len", 0>>
          /\ Free({ChnBlock("len", 0)}, <<"channel", "err_free_scan_element", 0>>)
       \/ /\ at = <<"channel", "err_free_scan_element", 0>>
          /\ Free(IF chn.scan THEN {ChnBlock("scan_element", 0)} ELSE {}, NoChannel)
    /\ UNCHANGED <<ctx, counters, xml, hDropped>>

-----------------------------------------------------------------------------
(* iio_device_get_xml: four arrays, filled with the three counters i, j, k. *)

Count(g) ==
    CASE g = 1 -> dev.attrs
      [] g = 2 -> Len(dev.channels)
      [] g = 3 -> dev.buffer_attrs
      [] g = 4 -> dev.debug_attrs

Counter(g) == CASE g = 1 -> i [] g = 2 -> j [] g \in {3, 4} -> k

SetCounter(g, n) ==
    /\ i' = IF g = 1 THEN n ELSE i
    /\ j' = IF g = 2 THEN n ELSE j
    /\ k' = IF g \in {3, 4} THEN n ELSE k

device_len(g) ==
    /\ at = <<"device", "len", g>>
    /\ Malloc(DevBlock("len", g), <<"device", "array", g>>,
              IF g = 1 THEN NoDevice ELSE <<"device", "err_free_elements", g - 1>>)
    /\ UNCHANGED <<ctx, counters, xml, hDropped>>

device_array(g) ==
    /\ at = <<"device", "array", g>>
    /\ Malloc(DevBlock(Groups[g], 0), <<"device", "loop", g>>, <<"device", "err_free_len", g>>)
    /\ IF at'[2] = "loop" THEN SetCounter(g, 0) ELSE UNCHANGED <<i, j, k>>
    /\ UNCHANGED <<ctx, ctx_i, chn_i, xml, hDropped>>

device_attr(g) ==
    /\ at = <<"device", "loop", g>> /\ g # 2 /\ Counter(g) < Count(g)
    /\ get_attr_xml2(g, Counter(g) + 1, <<"device", "err_free_elements", g>>)
    /\ SetCounter(g, IF at' = at THEN Counter(g) + 1 ELSE Counter(g))
    /\ UNCHANGED <<ctx, ctx_i, chn_i, xml, hDropped>>

\* iio_channel_get_xml is called and, when it has returned a text, counted.
device_channel ==
    /\ \/ at = <<"device", "loop", 2>> /\ j < Count(2)
          /\ Goto(<<"channel", "scan", 0>>) /\ UNCHANGED j
       \/ at = <<"device", "channel", 2>> /\ Goto(<<"device", "loop", 2>>) /\ j' = j + 1
    /\ UNCHANGED <<ctx, ctx_i, i, k, chn_i, memory, xml, hDropped>>

device_str(g) ==
    /\ at = <<"device", "loop", g>> /\ Counter(g) = Count(g)
    /\ IF g < 4
       THEN Goto(<<"device", "len", g + 1>>) /\ UNCHANGED memory
       ELSE Malloc(CtxBlock("devices", ctx_i + 1), <<"device", "print", 0>>,
                   <<"device", "err_free_elements", 4>>)
    /\ UNCHANGED <<ctx, counters, xml, hDropped>>

device_print ==
    LET parts == DeviceParts(dev)
        room == Room(TextRoom(parts, dev.over), parts)
        text == Left(room[Len(parts)]) = 1
    IN  /\ at = <<"device", "print", 0>>
        /\ Free((UNION {{DevBlock(Groups[g], x) : x \in 0..Count(g)} \cup {DevBlock("len", g)} :
                        g \in 1..4})
                    \cup (IF text THEN {} ELSE {CtxBlock("devices", ctx_i + 1)}),
                IF text THEN <<"context", "device", 0>> ELSE NoDevice)
        /\ hDropped' = (hDropped \/ (text /\ Skips(room, parts)))
        /\ UNCHANGED <<ctx, counters, xml>>

\* What while (n--) leaves in n.
Wrapped == UINT_MAX

\* Mutant: the channels are freed with the counter of the attributes.
device_error_elements_i(g) ==
    LET n == IF g = 2 THEN i ELSE Counter(g)
    IN  /\ at = <<"device", "err_free_elements", g>>
        /\ IF n > Count(g)
           THEN fault' = "bad free" /\ UNCHANGED <<heap, at, hFailed, i, j, k>>
           ELSE /\ Free({DevBlock(Groups[g], x) : x \in 0..n}, <<"device", "err_free_len", g>>)
                /\ SetCounter(g, Wrapped)
        /\ UNCHANGED <<ctx, ctx_i, chn_i, xml, hDropped>>

\* while (n--) free(array[n]); free(array): the loop leaves its counter wrapped,
\* and the labels of the debug and of the buffer attributes share one.
device_error_elements(g) ==
    /\ at = <<"device", "err_free_elements", g>>
    /\ IF Counter(g) > Count(g)
       THEN fault' = "bad free" /\ UNCHANGED <<heap, at, hFailed, i, j, k>>
       ELSE /\ Free({DevBlock(Groups[g], x) : x \in 0..Counter(g)},
                    <<"device", "err_free_len", g>>)
            /\ SetCounter(g, Wrapped)
    /\ UNCHANGED <<ctx, ctx_i, chn_i, xml, hDropped>>

device_error_len(g) ==
    /\ at = <<"device", "err_free_len", g>>
    /\ Free({DevBlock("len", g)},
            IF g = 1 THEN NoDevice ELSE <<"device", "err_free_elements", g - 1>>)
    /\ UNCHANGED <<ctx, counters, xml, hDropped>>
-----------------------------------------------------------------------------
(* iio_context_create_xml *)

Ended == at[1] = "exit" \/ fault # "none"

context_arrays ==
    /\ \/ /\ at = <<"context", "ctx_attrs", 0>>
          /\ Malloc(CtxBlock("ctx_attrs", 0), <<"context", "ctx_values", 0>>,
                    <<"context", "return", 0>>)
       \/ /\ at = <<"context", "ctx_values", 0>>
          /\ Malloc(CtxBlock("ctx_values", 0), <<"context", "attrs", 0>>,
                    <<"context", "err_free_ctx_attrs", 0>>)
    /\ ctx_i' = 0
    /\ UNCHANGED <<ctx, i, j, k, chn_i, xml, hDropped>>

\* encode_xml_ndup of the name and of the value, then the test of both.
context_attr ==
    /\ at = <<"context", "attrs", 0>> /\ ctx_i < ctx.attrs
    /\ \E got \in SUBSET {"ctx_attrs", "ctx_values"} :
         /\ heap' = heap \cup {CtxBlock(name, ctx_i + 1) : name \in got}
         /\ IF got = {"ctx_attrs", "ctx_values"}
            THEN ctx_i' = ctx_i + 1 /\ UNCHANGED <<at, hFailed>>
            ELSE /\ Goto(<<"context", "err_free_ctx_attrs_values", 0>>)
                 /\ hFailed' = at /\ UNCHANGED ctx_i
    /\ UNCHANGED <<ctx, i, j, k, chn_i, fault, xml, hDropped>>

\* The arrays for the devices, unless there is none.
context_devices ==
    /\ \/ /\ at = <<"context", "attrs", 0>> /\ ctx_i = ctx.attrs
          /\ IF ctx.devices = <<>>
             THEN Goto(<<"context", "str", 0>>) /\ UNCHANGED memory
             ELSE Malloc(CtxBlock("len", 0), <<"context", "devices", 0>>,
                         <<"context", "err_free_ctx_attrs_values", 0>>)
          /\ UNCHANGED ctx_i
       \/ /\ at = <<"context", "devices", 0>>
          /\ Malloc(CtxBlock("devices", 0), <<"context", "loop", 0>>,
                    <<"context", "err_free_devices_len", 0>>)
          /\ ctx_i' = 0
    /\ UNCHANGED <<ctx, i, j, k, chn_i, xml, hDropped>>

\* iio_device_get_xml is called and, when it has returned a text, counted.
context_device ==
    /\ \/ at = <<"context", "loop", 0>> /\ ctx_i < Len(ctx.devices)
          /\ Goto(<<"device", "len", 1>>) /\ UNCHANGED ctx_i
       \/ at = <<"context", "device", 0>> /\ Goto(<<"context", "loop", 0>>)
          /\ ctx_i' = ctx_i + 1
       \/ at = <<"context", "loop", 0>> /\ ctx_i = Len(ctx.devices)
          /\ Goto(<<"context", "str", 0>>) /\ UNCHANGED ctx_i
    /\ UNCHANGED <<ctx, i, j, k, chn_i, memory, xml, hDropped>>

context_str ==
    /\ at = <<"context", "str", 0>>
    /\ Malloc(CtxBlock("str", 0), <<"context", "print", 0>>,
              <<"context", "err_free_devices", 0>>)
    /\ UNCHANGED <<ctx, counters, xml, hDropped>>

\* The context attributes are freed in the loop that prints them, which stops
\* when there is no room left.
context_print ==
    LET attrs == {n \in 1..ctx.attrs : AttrRoom[n - 1] > 0}
        room == Room(AttrRoom[ctx.attrs], ContextParts)
        text == Left(room[Len(ContextParts)]) = 1
    IN  /\ at = <<"context", "print", 0>>
        /\ Free({CtxBlock(name, n) : name \in {"ctx_attrs", "ctx_values"}, n \in attrs \cup {0}}
                    \cup {CtxBlock("devices", n) : n \in 1..Len(ctx.devices)}
                    \cup (IF ctx.devices = <<>> THEN {}
                          ELSE {CtxBlock("devices", 0), CtxBlock("len", 0)})
                    \cup (IF text THEN {} ELSE {CtxBlock("str", 0)}),
                <<"context", "return", 0>>)
        /\ xml' = text
        /\ hDropped' = (hDropped \/ (text /\ Skips(room, ContextParts)))
        /\ UNCHANGED <<ctx, counters>>

\* calloc left NULL in the elements that were not reached: free ignores them.
Allocated(name, n) == {CtxBlock(name, x) : x \in 1..n} \cap heap

context_error ==
    /\ \/ /\ at = <<"context", "err_free_devices", 0>>
          /\ Free(Allocated("devices", Len(ctx.devices))
                      \cup (IF ctx.devices = <<>> THEN {} ELSE {CtxBlock("devices", 0)}),
                  <<"context", "err_free_devices_len", 0>>)
       \/ /\ at = <<"context", "err_free_devices_len", 0>>
          /\ Free(IF ctx.devices = <<>> THEN {} ELSE {CtxBlock("len", 0)},
                  <<"context", "err_free_ctx_attrs_values", 0>>)
       \/ /\ at = <<"context", "err_free_ctx_attrs_values", 0>>
          /\ Free(Allocated("ctx_attrs", ctx.attrs) \cup Allocated("ctx_values", ctx.attrs)
                      \cup {CtxBlock("ctx_values", 0)},
                  <<"context", "err_free_ctx_attrs", 0>>)
       \/ /\ at = <<"context", "err_free_ctx_attrs", 0>>
          /\ Free({CtxBlock("ctx_attrs", 0)}, <<"context", "return", 0>>)
    /\ UNCHANGED <<ctx, counters, xml, hDropped>>

-----------------------------------------------------------------------------
(* main *)

Init ==
    /\ ctx \in Contexts
    /\ at = <<"main", "start", 0>>
    /\ ctx_i = 0 /\ i = 0 /\ j = 0 /\ k = 0 /\ chn_i = 0
    /\ heap = {} /\ xml = FALSE /\ fault = "none"
    /\ hFailed = <<"none", "none", 0>> /\ hDropped = FALSE

\* No URI, or no context behind it: exit(1).
main_open ==
    /\ at = <<"main", "start", 0>>
    /\ Goto(<<"context", "ctx_attrs", 0>>) \/ Goto(<<"exit", "failure", 1>>)
    /\ UNCHANGED <<ctx, counters, memory, xml, hDropped>>

\* What iio_context_create_xml returned is printed, NULL or not, and main returns 0.
main_printf ==
    /\ at = <<"context", "return", 0>>
    /\ Goto(<<"exit", "success", 0>>)
    /\ UNCHANGED <<ctx, counters, memory, xml, hDropped>>

iio_channel_get_xml ==
    \/ channel_scan \/ channel_arrays \/ channel_attr \/ channel_str
    \/ channel_print \/ channel_error

iio_device_get_xml ==
    \/ \E g \in 1..4 : \/ device_len(g) \/ device_array(g) \/ device_attr(g) \/ device_str(g)
                       \/ device_error_elements(g) \/ device_error_len(g)
    \/ device_channel \/ device_print

iio_context_create_xml ==
    \/ context_arrays \/ context_attr \/ context_devices \/ context_device
    \/ context_str \/ context_print \/ context_error

Next ==
    /\ fault = "none"
    /\ \/ main_open \/ main_printf
       \/ iio_channel_get_xml \/ iio_device_get_xml \/ iio_context_create_xml

Spec == Init /\ [][Next]_vars

-----------------------------------------------------------------------------
(* Properties *)

\* Where the text of a name is longer than the strnlen that counts it allows.
Overlong ==
    \/ ctx.over > 0
    \/ \E d \in DOMAIN ctx.devices :
         \/ ctx.devices[d].over > 0
         \/ \E c \in DOMAIN ctx.devices[d].channels : ctx.devices[d].channels[c].over > 0

\* The tool frees only what it allocated, and every error path does, except
\* one: a failure among the debug attributes, or of the device's own text,
\* runs k down past 0 and then frees buffer_attrs with it.
BadFreeOnlyAfterDebugAttrs ==
    /\ fault = "bad free"
           => hFailed \in {<<"device", "loop", 4>>}
    /\ Ended /\ hFailed = <<"device", "loop", 4>> => fault # "none"

\* When iio_context_create_xml returns, whichever allocation failed, its text is
\* the only block left, but for the values of attributes (get_attr_xml2 never
\* frees them, get_attr_xml not when it fails) and, when a name was too long,
\* the context attributes there was no room for.
OnlyValuesLeak ==
    at = <<"exit", "success", 0>> =>
        \A block \in heap :
            \/ block[3] = "device value"
            \/ block[3] = "value" /\ hFailed[1] = "channel"
            \/ block = CtxBlock("str", 0) /\ xml
            \/ block[3] \in {"ctx_attrs", "ctx_values"} /\ ctx.over > 0

\* Unless an allocation failed or a name was too long, the three lengths each
\* getter keeps (counted, allocated, printed) agree: the tool prints the whole
\* document.  A document with a part missing needs a name that is too long.
PrintsWholeDocument ==
    at = <<"exit", "success", 0>> /\ ~Overlong =>
        (xml <=> hFailed[1] = "none") /\ ~hDropped
=============================================================================

------------------------------ MODULE MCGenXml ------------------------------
EXTENDS GenXml

\* Channels with and without a scan element; the second name is as much too long
\* as an attribute's element is long.
MCChannels == {[over |-> 0, scan |-> TRUE, attrs |-> 1],
               [over |-> AttrLen, scan |-> FALSE, attrs |-> 2]}

MCDevices ==
    {[over |-> o, attrs |-> a, buffer_attrs |-> b, debug_attrs |-> d, channels |-> c] :
        o \in {0, 2 * AttrLen}, a \in {0, 2}, b \in 0..2, d \in {0, 2},
        c \in {<<>>} \cup {<<x>> : x \in MCChannels} \cup {<<x, y>> : x, y \in MCChannels}}

\* Two devices at most; the second is small.
MCLast == [over |-> 0, attrs |-> 1, buffer_attrs |-> 0, debug_attrs |-> 0, channels |-> <<>>]

MCContexts ==
    {[over |-> o, attrs |-> a, devices |-> ds] :
        o \in {0, HeadLen + AttrLen + TailLen}, a \in {0, 2},
        ds \in {<<>>} \cup {<<d>> : d \in MCDevices} \cup {<<d, MCLast>> : d \in MCDevices}}
=============================================================================

---------------------------- MODULE MCXmlContext ----------------------------
EXTENDS XmlContext

Elem(name, attrs, parent) == [name |-> name, attrs |-> attrs, parent |-> parent]
Attr(kind, parent) == Elem(kind, [name |-> "gain", value |-> "v0"], parent)
Channel(id, type, parent) == Elem("channel", [id |-> id, type |-> type], parent)

\* Without white space, as iio-emu_gen_xml writes it.  device0 has an input and
\* an output channel of one id, streams out and ends with a channel; device1
\* streams out only; device2 streams in, device4 in both directions.  All
\* attributes share a name.
Compact == <<
    Elem("context", [name |-> "local"], 0),
    Elem("context-attribute", [name |-> "model", value |-> "two  spaces"], 1),
    Elem("device", [id |-> "device0"], 1),
      Attr("buffer-attribute", 3),
      Channel("voltage0", "input", 3), Attr("attribute", 5),
      Channel("voltage0", "output", 3),
        Elem("scan-element", [index |-> "0"], 7), Attr("attribute", 7),
    Elem("device", [id |-> "device1"], 1),
      Channel("voltage0", "output", 10), Elem("scan-element", [index |-> "0"], 11),
      Attr("attribute", 10), Attr("debug-attribute", 10),
    Elem("device", [id |-> "device2"], 1),
      Channel("voltage0", "input", 15), Elem("scan-element", [index |-> "0"], 16),
      Channel("voltage1", "output", 15),
    Elem("device", [id |-> "device4"], 1),
      Channel("voltage0", "input", 19), Elem("scan-element", [index |-> "0"], 20),
      Channel("voltage0", "output", 19), Elem("scan-element", [index |-> "0"], 22)>>

\* The same with a text node after every node, as adalm2000.xml is laid out.
Indented == [i \in 1..(2 * Len(Compact)) |->
    LET n == Compact[(i + 1) \div 2]
        p == IF i = 2 THEN 1 ELSE IF n.parent = 0 THEN 0 ELSE 2 * n.parent - 1
    IN  IF i % 2 = 1 THEN [n EXCEPT !.parent = p] ELSE Elem("text", <<>>, p)]

\* As libiio writes it: attributes without values.
Valueless == [n \in DOMAIN Compact |->
    IF Compact[n].name \in DeviceTypes THEN Elem(Compact[n].name, [name |-> "gain"], Compact[n].parent)
    ELSE Compact[n]]

MCDocuments == {<<>>, Compact, Indented, Valueless}
MCLinks == {{"device0", "device1", "device2", "device3", "device4"}}
MCSqueeze(s) == IF s = "two  spaces" THEN "two spaces" ELSE s
=============================================================================

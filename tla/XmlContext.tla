----------------------------- MODULE XmlContext -----------------------------
(***************************************************************************)
(* The attributes of a context (utils/xml_utils.cpp, utils/attr_ops_xml.cpp *)
(* and the attribute operations of GenericXmlContext).  The context keeps   *)
(* two things: the XML document, in which an attribute's value lives, and   *)
(* the text served to clients, made once from the document with the values *)
(* removed.  Every command searches the document anew.                      *)
(*                                                                          *)
(* A document is the sequence of its nodes, each with the index of its      *)
(* parent; siblings are in the order of their indices.  A document that     *)
(* cannot be read is the empty sequence (m_doc = nullptr).                  *)
(***************************************************************************)
EXTENDS Integers, Sequences, FiniteSetsExt

CONSTANTS
    Documents,  \* the documents a context may be started with
    Links,      \* the sets of device ids linked to a file on the command line
    Values,     \* what clients write
    Devices, Channels, Names,  \* the ids and attribute names clients ask for
    NoValue,    \* stands for the value of a node that has none
    Squeeze(_)  \* a string without its newlines and repeated spaces

Root == 1
DeviceTypes == {"attribute", "debug-attribute", "buffer-attribute"}
Directions == {"input", "output"}

Has(node, a, v) == a \in DOMAIN node.attrs /\ node.attrs[a] = v

\* A tree in document order, in which every device, channel and attribute can be
\* told from its siblings, and has the attributes its DTD requires.  What tells them apart has no spaces to squeeze, and
\* is not empty (the searches would read the null pointer that stands for "").
WellFormed(d) ==
    /\ DOMAIN d \subseteq Nat \ {0}
    /\ \A n \in DOMAIN d :
          /\ d[n] = [name |-> d[n].name, attrs |-> d[n].attrs, parent |-> d[n].parent]
          /\ IF n = Root THEN d[n].parent = 0 /\ d[n].name = "context"
             ELSE d[n].parent \in DOMAIN d /\ d[n].parent < n
          /\ d[n].name = "device" => d[n].parent = Root /\ "id" \in DOMAIN d[n].attrs
          /\ d[n].name = "channel" =>
                {"id", "type"} \subseteq DOMAIN d[n].attrs /\ d[n].attrs["type"] \in Directions
          /\ \A a \in DOMAIN d[n].attrs \ {"value"} : Squeeze(d[n].attrs[a]) = d[n].attrs[a]
          /\ "value" \in DOMAIN d[n].attrs /\ d[n].name \in DeviceTypes =>
                d[n].attrs["value"] \in Values
    /\ \A m, n \in DOMAIN d :
          /\ d[m].name = d[n].name /\ d[m].parent = d[n].parent
          /\ \/ d[n].name = "device" /\ d[m].attrs["id"] = d[n].attrs["id"]
             \/ d[n].name = "channel" /\ \A a \in {"id", "type"} : d[m].attrs[a] = d[n].attrs[a]
             \/ /\ d[n].name \in DeviceTypes
                /\ \E name \in Names : Has(d[m], "name", name) /\ Has(d[n], "name", name)
          => m = n

ASSUME XmlAssumption ==
    /\ \A d \in Documents : WellFormed(d)
    /\ {NoValue, "ENOENT", "fault"} \cap Values = {}
    /\ NoValue \notin {"ENOENT", "fault"}

VARIABLES
    doc,        \* m_doc
    ctxXml,     \* m_ctx_xml
    devices,    \* m_devices: ids and classes
    up,         \* FALSE once a command has dereferenced a null pointer
    reply,      \* the last command and its answer
    hValue      \* history: what each address should hold

vars == <<doc, ctxXml, devices, up, reply, hValue>>

-----------------------------------------------------------------------------
(* Searching the document *)

Children(d, p) == {n \in DOMAIN d : d[n].parent = p}

First(nodes) == IF nodes = {} THEN 0 ELSE Min(nodes)

\* getNode(root, node_name): the first child of that name, 0 for nullptr.
getNodeNamed(d, root, node_name) == First({n \in Children(d, root) : d[n].name = node_name})

\* getNode(root, node_name, attr_name, attr_value).
getNode(d, root, node_name, attr_name, attr_value) ==
    First({n \in Children(d, root) : d[n].name = node_name /\ Has(d[n], attr_name, attr_value)})

Null == -1  \* the node a search dereferences past the end of the list

Contradicts(node, wanted) ==
    \E a \in DOMAIN wanted \cap DOMAIN node.attrs : node.attrs[a] # wanted[a]

\* Mutant: only the first attribute asked for is compared.
getNodeNAttrs_first_only(d, root, node_name, wanted) ==
    getNode(d, root, node_name, "id", wanted.id)

\* getNodeNAttrs: the first node of the name whose attributes do not contradict
\* wanted.  One that does is left through a goto, past the end test of the
\* loop: if it is the last child, the search goes on from its null successor.
getNodeNAttrs(d, root, node_name, wanted) ==
    LET named == {n \in Children(d, root) : d[n].name = node_name}
        matching == {n \in named : ~Contradicts(d[n], wanted)}
    IN  IF matching = {} /\ named # {} /\ Max(Children(d, root)) \in named THEN Null
        ELSE First(matching)

\* Mutant: the node name of device attributes for every type.
getDeviceAttr_one_name(d, dev, type, attr) ==
    LET device == IF d = <<>> THEN 0 ELSE getNode(d, Root, "device", "id", dev)
    IN  IF device = 0 THEN 0 ELSE getNode(d, device, "attribute", "name", attr)

\* The type is the name of the nodes searched: attribute, debug-attribute or
\* buffer-attribute.
getDeviceAttr(d, dev, type, attr) ==
    LET device == IF d = <<>> THEN 0 ELSE getNode(d, Root, "device", "id", dev)
    IN  IF device = 0 THEN 0 ELSE getNode(d, device, type, "name", attr)

getChannelAttr(d, chn, dev, attr, direction) ==
    LET device  == IF d = <<>> THEN 0 ELSE getNode(d, Root, "device", "id", dev)
        channel == IF device = 0 THEN 0
                   ELSE getNodeNAttrs(d, device, "channel", [id |-> chn, type |-> direction])
    IN  IF channel \in {0, Null} THEN channel
        ELSE getNode(d, channel, "attribute", "name", attr)

-----------------------------------------------------------------------------
(* The context *)

\* What a READ or a WRITE command names.
DeviceAddresses == [kind : DeviceTypes, dev : Devices, attr : Names]
ChannelAddresses == [kind : Directions, dev : Devices, chn : Channels, attr : Names]
Addresses == DeviceAddresses \cup ChannelAddresses

Find(d, a) == IF a.kind \in DeviceTypes THEN getDeviceAttr(d, a.dev, a.kind, a.attr)
              ELSE getChannelAttr(d, a.chn, a.dev, a.attr, a.kind)

\* Mutant: the search does not descend below the devices.
removeValueAttribute_top_only(d) ==
    [n \in DOMAIN d |-> IF d[n].parent = Root THEN [d[n] EXCEPT !.attrs =
                             [a \in DOMAIN @ \ {"value"} |-> @[a]]] ELSE d[n]]

\* Every node but the context attributes loses its value.
removeValueAttribute(d) ==
    [n \in DOMAIN d |-> IF d[n].name = "context-attribute" THEN d[n]
                        ELSE [d[n] EXCEPT !.attrs = [a \in DOMAIN @ \ {"value"} |-> @[a]]]]

\* getXml: newlines and repeated spaces are taken out of the whole text, the
\* strings in it included.
getXml(d) ==
    LET t == removeValueAttribute(d)
    IN  [n \in DOMAIN t |-> [t[n] EXCEPT !.attrs = [a \in DOMAIN @ |-> Squeeze(@[a])]]]

\* A device with a scan element in a channel can stream.
isScanChannel(d, dev) ==
    LET device == IF d = <<>> THEN 0 ELSE getNode(d, Root, "device", "id", dev)
    IN  /\ device # 0
        /\ \E n \in Children(d, device) :
              d[n].name = "channel" /\ getNodeNamed(d, n, "scan-element") # 0

\* Mutant: a device with any output channel is taken for a TX device.
isOutputChannel_any_output(d, dev) ==
    isScanChannel(d, dev)
    /\ getNode(d, getNode(d, Root, "device", "id", dev), "channel", "type", "output") # 0

isOutputChannel(d, dev) ==
    isScanChannel(d, dev)
    /\ getNode(d, getNode(d, Root, "device", "id", dev), "channel", "type", "input") = 0

\* The devices the constructor adds for the links of the command line.
Added(d, links) ==
    {[id |-> dev, class |-> IF isOutputChannel(d, dev) THEN "TX" ELSE "RX"] :
        dev \in {link \in links : isScanChannel(d, link)}}

\* Reference: node n of d is the one the address names.
IsNamedBy(d, n, a) ==
    /\ d[n].name = IF a.kind \in DeviceTypes THEN a.kind ELSE "attribute"
    /\ Has(d[n], "name", a.attr)
    /\ LET holder == d[n].parent
           device == IF a.kind \in DeviceTypes THEN holder ELSE d[holder].parent
       IN  /\ a.kind \in Directions =>
                 d[holder].name = "channel" /\ Has(d[holder], "id", a.chn)
                 /\ Has(d[holder], "type", a.kind)
           /\ device # 0 /\ d[device].name = "device" /\ Has(d[device], "id", a.dev)

ValueOf(node) == IF "value" \in DOMAIN node.attrs THEN node.attrs["value"] ELSE NoValue

\* What the document says of an address before any write.
Declared(d, a) ==
    LET found == {n \in DOMAIN d : IsNamedBy(d, n, a)}
    IN  IF found = {} THEN "ENOENT" ELSE ValueOf(d[CHOOSE n \in found : TRUE])

NoReply == [op |-> "none"]

Init ==
    \E d \in Documents, links \in Links :
        /\ doc = d /\ ctxXml = getXml(d)
        /\ devices = Added(d, links)
        /\ up = TRUE /\ reply = NoReply
        /\ hValue = [a \in Addresses |-> Declared(d, a)]

\* Mutant: a missing value is sent as such.
Outcome_no_value(a) ==
    LET n == Find(doc, a)
    IN  CASE n = 0 -> "ENOENT" [] n = Null -> "fault" [] OTHER -> ValueOf(doc[n])

\* Mutant: the node is used without a test for a null pointer.
Outcome_unchecked(a) ==
    LET n == Find(doc, a)
    IN  IF n \in {0, Null} THEN "fault" ELSE ValueOf(doc[n])

\* read_device_attr, read_channel_attr: xmlGetProp answers a null pointer for a
\* node without a value, and strnlen reads it.
Outcome(a) ==
    LET n == Find(doc, a)
    IN  CASE n = 0 -> "ENOENT"
          [] n = Null -> "fault"
          [] OTHER -> IF ValueOf(doc[n]) = NoValue THEN "fault" ELSE ValueOf(doc[n])

\* readAttr and chReadAttr.
Read(a) ==
    /\ up
    /\ reply' = [op |-> "read", to |-> a, is |-> Outcome(a)]
    /\ up' = (reply'.is # "fault")
    /\ UNCHANGED <<doc, ctxXml, devices, hValue>>

\* write_dev_attr, write_channel_attr: an error, or the value is set.
SetValue(a, value) ==
    LET n == Find(doc, a) IN
    /\ reply' = [op |-> "write", to |-> a,
                 is |-> CASE n = 0 -> "ENOENT" [] n = Null -> "fault" [] OTHER -> "ok"]
    /\ up' = (n # Null)
    /\ doc' = IF n \in {0, Null} THEN doc
              ELSE [doc EXCEPT ![n].attrs =
                       [x \in DOMAIN @ \cup {"value"} |-> IF x = "value" THEN value ELSE @[x]]]

\* writeAttr and chWriteAttr.
Write(a, value) ==
    /\ up
    /\ SetValue(a, value)
    /\ hValue' = [hValue EXCEPT ![a] = IF @ = "ENOENT" THEN @ ELSE value]
    /\ UNCHANGED <<ctxXml, devices>>

Next == \E a \in Addresses : Read(a) \/ \E v \in Values : Write(a, v)

Spec == Init /\ [][Next]_vars

-----------------------------------------------------------------------------
(* Properties *)

Answers == Values \cup {"ENOENT", "fault", "ok"}

TypeOK ==
    /\ \A n \in DOMAIN doc : doc[n].parent \in 0..(n - 1)
    /\ DOMAIN ctxXml = DOMAIN doc
    /\ \A device \in devices : device.class \in {"TX", "RX"}
    /\ up \in BOOLEAN
    /\ reply = NoReply \/ reply.is \in Answers
    /\ hValue \in [Addresses -> Values \cup {NoValue, "ENOENT"}]

\* A read of any address answers the value last written to that address, or the
\* document's if there was none: commands for channels that share an id, for
\* attributes that share a name and for devices side by side never meet.
ReadsLastWrite ==
    \A a \in Addresses : hValue[a] \in Values => Outcome(a) = hValue[a]

\* The text the client was given when it connected and the document the
\* commands search agree, whatever was written since: an attribute the text
\* names is found, one it does not name is not.
AdvertisedIsFound ==
    \A a \in Addresses :
        (\E n \in DOMAIN ctxXml : IsNamedBy(ctxXml, n, a)) <=> Find(doc, a) \notin {0, Null}

\* The served text never goes stale: no attribute that a command can change is
\* in it, and all the others are, squeezed.
ServedTextCurrent ==
    \A n \in DOMAIN doc :
        LET kept == IF doc[n].name = "context-attribute" THEN DOMAIN doc[n].attrs
                    ELSE DOMAIN doc[n].attrs \ {"value"}
        IN  /\ ctxXml[n].name = doc[n].name /\ ctxXml[n].parent = doc[n].parent
            /\ ctxXml[n].attrs = [a \in kept |-> Squeeze(doc[n].attrs[a])]

\* A command ends the emulator in two cases only: it reads an attribute that
\* never had a value, or it names a channel its device has not, and the last
\* node of that device in the file is a channel.  In every other case a command
\* for something that does not exist is refused.
FaultsExplained ==
    ~up =>
        LET a == reply.to
            device == getNode(doc, Root, "device", "id", a.dev)
        IN  \/ reply.op = "read" /\ hValue[a] = NoValue
            \/ /\ a.kind \in Directions
               /\ ~\E n \in DOMAIN doc :
                      doc[n].name = "channel" /\ doc[n].parent = device
                      /\ Has(doc[n], "id", a.chn) /\ Has(doc[n], "type", a.kind)
               /\ doc[Max(Children(doc, device))].name = "channel"

ChannelsOf(dev) ==
    {n \in DOMAIN doc : /\ doc[n].name = "channel" /\ doc[doc[n].parent].name = "device"
                        /\ Has(doc[doc[n].parent], "id", dev)}

Streaming(n) == \E s \in DOMAIN doc : doc[s].name = "scan-element" /\ doc[s].parent = n

ChannelDirections(dev) == {doc[n].attrs["type"] : n \in ChannelsOf(dev)}
ScanDirections(dev) == {doc[n].attrs["type"] : n \in {m \in ChannelsOf(dev) : Streaming(m)}}

\* GenericTXDevice writes the file, GenericRXDevice reads it.
Served(class) == IF class = "TX" THEN {"output"} ELSE {"input"}

\* Of the devices linked to files those that stream are served, and no others,
\* and each in the directions it streams in, unless it streams out and has an
\* input channel, streaming or not: its clients' WRITEBUFs are never served.
ServesUnlessMixed ==
    /\ \E links \in Links :
          {device.id : device \in devices} = {dev \in links : ScanDirections(dev) # {}}
    /\ \A device \in devices :
          LET scan == ScanDirections(device.id)
          IN  scan # Served(device.class)
                <=> "output" \in scan /\ "input" \in ChannelDirections(device.id)
=============================================================================

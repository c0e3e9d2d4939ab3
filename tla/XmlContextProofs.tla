--------------------------- MODULE XmlContextProofs ---------------------------
(***************************************************************************)
(* Proofs about the attributes of a context, for every well-formed document *)
(* and every sequence of reads and writes.                                 *)
(***************************************************************************)
EXTENDS XmlContext, WellFoundedInduction, TLAPS

-----------------------------------------------------------------------------
(* The searches find the one node there is. *)

\* The first of at most one node.
LEMMA FirstOfOne ==
    ASSUME NEW S, S \subseteq Nat, \A m, n \in S : m = n
    PROVE  /\ S = {} => First(S) = 0
           /\ \A n \in S : First(S) = n
  <1>1. ASSUME NEW n \in S PROVE First(S) = n
    <2>1. \A x \in S : x = n
      OBVIOUS
    <2>2. n <= n
      OBVIOUS
    <2>3. \E x \in S : \A y \in S : x <= y
      BY <2>1, <2>2
    <2>4. Min(S) \in S
      BY <2>3 DEF Min
    <2> QED BY <2>1, <2>4 DEF First
  <1> QED BY <1>1 DEF First

\* A set of naturals that is not empty has a least element.
LEMMA Least ==
    ASSUME NEW S \in SUBSET Nat, S # {}
    PROVE  \E x \in S : \A y \in S : x <= y
  <1> DEFINE R == OpToRel(<, Nat)
  <1>1. IsWellFoundedOn(R, Nat)
    BY NatLessThanWellFounded
  <1>2. \A x, y \in Nat : <<y, x>> \in R <=> y < x
    BY DEF OpToRel
  <1> HIDE DEF R
  <1>3. PICK x \in S : \A y \in S : ~(<<y, x>> \in R)
    BY <1>1, WFMin
  <1>4. ASSUME NEW y \in S PROVE x <= y
    <2>1. x \in Nat /\ y \in Nat /\ ~(<<y, x>> \in R)
      BY <1>3
    <2>2. ~(y < x)
      BY <1>2, <2>1
    <2> QED BY <2>1, <2>2
  <1> QED BY <1>4

\* Only of no node is the first one 0.
LEMMA FirstOfSome ==
    ASSUME NEW S, S \subseteq Nat \ {0}, S # {}
    PROVE  First(S) \in S
  <1>1. \E x \in S : \A y \in S : x <= y
    BY Least
  <1>2. Min(S) \in S
    BY <1>1 DEF Min
  <1> QED BY <1>2 DEF First

\* A document's nodes are numbered; 0 and Null are none of them.
LEMMA NodeNumbers ==
    ASSUME NEW d, WellFormed(d)
    PROVE  DOMAIN d \subseteq Nat /\ 0 \notin DOMAIN d /\ Null \notin DOMAIN d
  BY DEF WellFormed, Null

LEMMA DeviceFound ==
    ASSUME NEW d, WellFormed(d), NEW id
    PROVE  LET f == getNode(d, Root, "device", "id", id)
           IN  /\ f = 0 \/ (f \in DOMAIN d /\ d[f].name = "device" /\ Has(d[f], "id", id))
               /\ \A n \in DOMAIN d : d[n].name = "device" /\ Has(d[n], "id", id) => f = n
  <1> DEFINE S == {n \in Children(d, Root) : d[n].name = "device" /\ Has(d[n], "id", id)}
  <1>1. S \subseteq Nat
    BY NodeNumbers DEF Children
  <1>2. \A m, n \in S : m = n
    <2> SUFFICES ASSUME NEW m \in S, NEW n \in S PROVE m = n
      OBVIOUS
    <2>1. /\ m \in DOMAIN d /\ n \in DOMAIN d /\ d[m].name = "device" /\ d[n].name = "device"
          /\ d[m].parent = d[n].parent /\ d[m].attrs["id"] = d[n].attrs["id"]
      BY DEF Children, Has
    <2> QED BY <2>1 DEF WellFormed
  <1>3. \A n \in DOMAIN d : d[n].name = "device" /\ Has(d[n], "id", id) => n \in S
    BY DEF WellFormed, Children
  <1>4. \A n \in S : n \in DOMAIN d /\ d[n].name = "device" /\ Has(d[n], "id", id)
    BY DEF Children
  <1>5. getNode(d, Root, "device", "id", id) = First(S)
    BY DEF getNode
  <1> HIDE DEF S
  <1>6. /\ First(S) = 0 \/ First(S) \in S
        /\ \A n \in S : First(S) = n
    BY <1>1, <1>2, FirstOfOne
  <1>7. First(S) # 0 => d[First(S)].name = "device" /\ Has(d[First(S)], "id", id)
    BY <1>4, <1>6
  <1>8. \A n \in DOMAIN d : d[n].name = "device" /\ Has(d[n], "id", id) => First(S) = n
    BY <1>3, <1>6
  <1> QED BY <1>4, <1>5, <1>6, <1>7, <1>8

LEMMA AttrFound ==
    ASSUME NEW d, WellFormed(d), NEW p, NEW kind \in DeviceTypes, NEW name \in Names
    PROVE  LET f == getNode(d, p, kind, "name", name)
           IN  /\ \/ f = 0
                  \/ /\ f \in DOMAIN d /\ d[f].parent = p
                     /\ d[f].name = kind /\ Has(d[f], "name", name)
               /\ \A n \in DOMAIN d :
                     d[n].parent = p /\ d[n].name = kind /\ Has(d[n], "name", name) => f = n
  <1> DEFINE S == {n \in Children(d, p) : d[n].name = kind /\ Has(d[n], "name", name)}
  <1>1. S \subseteq Nat
    BY NodeNumbers DEF Children
  <1>2. \A m, n \in S : m = n
    BY DEF WellFormed, Children
  <1>3. \A n \in S : /\ n \in DOMAIN d /\ d[n].parent = p
                     /\ d[n].name = kind /\ Has(d[n], "name", name)
    BY DEF Children
  <1>4. \A n \in DOMAIN d :
           d[n].parent = p /\ d[n].name = kind /\ Has(d[n], "name", name) => n \in S
    BY DEF Children
  <1>5. getNode(d, p, kind, "name", name) = First(S)
    BY DEF getNode
  <1> HIDE DEF S
  <1>6. /\ First(S) = 0 \/ First(S) \in S
        /\ \A n \in S : First(S) = n
    <2>1. /\ S = {} => First(S) = 0
          /\ \A n \in S : First(S) = n
      BY <1>1, <1>2, FirstOfOne
    <2>2. ASSUME NEW n \in S PROVE First(S) \in S
      BY <2>1
    <2> QED BY <2>1, <2>2
  <1>7. /\ \/ First(S) = 0
           \/ /\ First(S) \in DOMAIN d /\ d[First(S)].parent = p
              /\ d[First(S)].name = kind /\ Has(d[First(S)], "name", name)
    BY <1>3, <1>6
  <1>8. \A n \in DOMAIN d :
           d[n].parent = p /\ d[n].name = kind /\ Has(d[n], "name", name) => First(S) = n
    BY <1>4, <1>6
  <1> QED BY <1>5, <1>7, <1>8

\* Node n is the channel of p with that id and direction.
IsChannel(d, n, p, chn, type) ==
    /\ n \in DOMAIN d /\ d[n].parent = p
    /\ d[n].name = "channel" /\ Has(d[n], "id", chn) /\ Has(d[n], "type", type)

LEMMA ChannelFound ==
    ASSUME NEW d, WellFormed(d), NEW p, NEW chn, NEW type
    PROVE  LET f == getNodeNAttrs(d, p, "channel", [id |-> chn, type |-> type])
           IN  /\ f \in {0, Null} \/ IsChannel(d, f, p, chn, type)
               /\ \A n \in DOMAIN d : IsChannel(d, n, p, chn, type) => f = n
               /\ f = Null => /\ ~\E n \in DOMAIN d : IsChannel(d, n, p, chn, type)
                              /\ d[Max(Children(d, p))].name = "channel"
  <1> DEFINE wanted == [id |-> chn, type |-> type]
             named == {n \in Children(d, p) : d[n].name = "channel"}
             S == {n \in named : ~Contradicts(d[n], wanted)}
             f == getNodeNAttrs(d, p, "channel", wanted)
  <1>1. ASSUME NEW n \in DOMAIN d, d[n].name = "channel"
        PROVE  ~Contradicts(d[n], wanted) <=> Has(d[n], "id", chn) /\ Has(d[n], "type", type)
    <2>1. {"id", "type"} \subseteq DOMAIN d[n].attrs
      BY <1>1 DEF WellFormed
    <2>2. DOMAIN wanted = {"id", "type"} /\ wanted["id"] = chn /\ wanted["type"] = type
      OBVIOUS
    <2> HIDE DEF wanted
    <2> QED BY <2>1, <2>2 DEF Contradicts, Has
  <1>2. \A n : n \in S <=> IsChannel(d, n, p, chn, type)
    BY <1>1 DEF Children, IsChannel
  <1>3. S \subseteq Nat
    BY NodeNumbers DEF Children
  <1>4. \A m, n \in S : m = n
    <2> SUFFICES ASSUME NEW m \in S, NEW n \in S PROVE m = n
      OBVIOUS
    <2>1. IsChannel(d, m, p, chn, type) /\ IsChannel(d, n, p, chn, type)
      BY <1>2
    <2> QED BY <2>1 DEF IsChannel, Has, WellFormed
  <1>5. f = IF S = {} /\ named # {} /\ Max(Children(d, p)) \in named THEN Null ELSE First(S)
    BY DEF getNodeNAttrs
  <1>6. \A n \in named : d[n].name = "channel"
    OBVIOUS
  <1> HIDE DEF S, named, wanted
  <1>7. First(S) # Null
    <2>1. S = {} => First(S) = 0
      BY DEF First
    <2>2. \A n \in S : First(S) = n
      BY <1>3, <1>4, FirstOfOne
    <2>3. \A n \in S : n # Null
      BY <1>3 DEF Null
    <2> QED BY <2>1, <2>2, <2>3 DEF First, Null
  <1>8. f = Null => S = {} /\ Max(Children(d, p)) \in named
    BY <1>5, <1>7
  <1>9. \A n \in S : f = n
    BY <1>3, <1>4, <1>5, FirstOfOne
  <1>10. f \in {0, Null} \/ f \in S
    BY <1>5, <1>9 DEF First
  <1> HIDE DEF f
  <1>11. /\ f \in {0, Null} \/ IsChannel(d, f, p, chn, type)
         /\ \A n \in DOMAIN d : IsChannel(d, n, p, chn, type) => f = n
         /\ f = Null => /\ ~\E n \in DOMAIN d : IsChannel(d, n, p, chn, type)
                        /\ d[Max(Children(d, p))].name = "channel"
    BY <1>2, <1>6, <1>8, <1>9, <1>10
  <1> QED BY <1>11 DEF f, wanted

-----------------------------------------------------------------------------
(* Addresses. *)

\* An address is one of a device's attributes or one of a channel's.
LEMMA AddressParts ==
    ASSUME NEW a \in Addresses
    PROVE  /\ a.dev \in Devices /\ a.attr \in Names
           /\ \/ /\ a.kind \in DeviceTypes /\ a.kind \notin Directions
                 /\ a = [kind |-> a.kind, dev |-> a.dev, attr |-> a.attr]
              \/ /\ a.kind \in Directions /\ a.kind \notin DeviceTypes
                 /\ a = [kind |-> a.kind, dev |-> a.dev, chn |-> a.chn, attr |-> a.attr]
  BY DEF Addresses, DeviceAddresses, ChannelAddresses, DeviceTypes, Directions

\* What an address of a device's attribute names.
LEMMA NamedInDevice ==
    ASSUME NEW d, WellFormed(d), NEW a \in Addresses, a.kind \in DeviceTypes, NEW n \in DOMAIN d
    PROVE  IsNamedBy(d, n, a) <=>
             /\ d[n].name = a.kind /\ Has(d[n], "name", a.attr)
             /\ d[n].parent \in DOMAIN d /\ d[d[n].parent].name = "device"
             /\ Has(d[d[n].parent], "id", a.dev)
  <1>1. a.kind \notin Directions /\ a.kind # "context"
    BY DEF DeviceTypes, Directions
  <1>2. d[n].name = a.kind => d[n].parent \in DOMAIN d /\ d[n].parent # 0
    BY <1>1, NodeNumbers DEF WellFormed
  <1> QED BY <1>1, <1>2 DEF IsNamedBy

\* What an address of a channel's attribute names.
LEMMA NamedInChannel ==
    ASSUME NEW d, WellFormed(d), NEW a \in Addresses, a.kind \in Directions, NEW n \in DOMAIN d
    PROVE  IsNamedBy(d, n, a) <=>
             LET c == d[n].parent IN
             /\ d[n].name = "attribute" /\ Has(d[n], "name", a.attr)
             /\ IsChannel(d, c, d[c].parent, a.chn, a.kind)
             /\ d[c].parent \in DOMAIN d /\ d[d[c].parent].name = "device"
             /\ Has(d[d[c].parent], "id", a.dev)
  <1> DEFINE c == d[n].parent
  <1>1. a.kind \notin DeviceTypes
    BY DEF DeviceTypes, Directions
  <1>2. d[n].name = "attribute" => c \in DOMAIN d
    BY DEF WellFormed
  <1>3. c \in DOMAIN d /\ d[c].name = "channel" => d[c].parent \in DOMAIN d /\ d[c].parent # 0
    BY NodeNumbers DEF WellFormed
  <1> QED BY <1>1, <1>2, <1>3 DEF IsNamedBy, IsChannel

\* Find is right: it finds the one node the address names, if there is one; and it
\* goes past the end only in a device that has no such channel and ends with one.
FoundIs(d, a) ==
    /\ Find(d, a) \in {0, Null} \/ (Find(d, a) \in DOMAIN d /\ IsNamedBy(d, Find(d, a), a))
    /\ \A n \in DOMAIN d : IsNamedBy(d, n, a) => Find(d, a) = n
    /\ Find(d, a) = Null =>
          LET device == getNode(d, Root, "device", "id", a.dev)
          IN  /\ a.kind \in Directions
              /\ ~\E n \in DOMAIN d : IsChannel(d, n, device, a.chn, a.kind)
              /\ d[Max(Children(d, device))].name = "channel"

LEMMA FindDeviceAttr ==
    ASSUME NEW d, WellFormed(d), NEW a \in Addresses, a.kind \in DeviceTypes
    PROVE  FoundIs(d, a)
  <1> DEFINE device == getNode(d, Root, "device", "id", a.dev)
             f == IF device = 0 THEN 0 ELSE getNode(d, device, a.kind, "name", a.attr)
  <1>1. a.dev \in Devices /\ a.attr \in Names
    BY AddressParts
  <1>2. /\ device = 0 \/ (device \in DOMAIN d /\ d[device].name = "device" /\ Has(d[device], "id", a.dev))
        /\ \A n \in DOMAIN d : d[n].name = "device" /\ Has(d[n], "id", a.dev) => device = n
    BY <1>1, DeviceFound
  <1>3. Find(d, a) = f
    <2>1. d = <<>> => device = 0
      BY <1>2
    <2> QED BY <2>1 DEF Find, getDeviceAttr
  <1>4. device # 0 =>
           /\ \/ f = 0
              \/ /\ f \in DOMAIN d /\ d[f].parent = device
                 /\ d[f].name = a.kind /\ Has(d[f], "name", a.attr)
           /\ \A n \in DOMAIN d :
                 d[n].parent = device /\ d[n].name = a.kind /\ Has(d[n], "name", a.attr) => f = n
    BY <1>1, AttrFound
  <1> HIDE DEF device, f
  <1>5. f = 0 \/ (f \in DOMAIN d /\ IsNamedBy(d, f, a))
    BY <1>2, <1>4, NamedInDevice DEF f
  <1>6. \A n \in DOMAIN d : IsNamedBy(d, n, a) => f = n
    BY <1>2, <1>4, NamedInDevice, NodeNumbers
  <1>7. f # Null
    BY <1>5, NodeNumbers DEF Null
  <1> QED BY <1>3, <1>5, <1>6, <1>7 DEF FoundIs

LEMMA FindChannelAttr ==
    ASSUME NEW d, WellFormed(d), NEW a \in Addresses, a.kind \in Directions
    PROVE  FoundIs(d, a)
  <1> DEFINE device == getNode(d, Root, "device", "id", a.dev)
             channel == IF device = 0 THEN 0
                        ELSE getNodeNAttrs(d, device, "channel", [id |-> a.chn, type |-> a.kind])
             f == IF channel \in {0, Null} THEN channel
                  ELSE getNode(d, channel, "attribute", "name", a.attr)
  <1>1. a.dev \in Devices /\ a.attr \in Names /\ a.kind \notin DeviceTypes
        /\ "attribute" \in DeviceTypes
    BY AddressParts DEF DeviceTypes
  <1>2. /\ device = 0 \/ (device \in DOMAIN d /\ d[device].name = "device" /\ Has(d[device], "id", a.dev))
        /\ \A n \in DOMAIN d : d[n].name = "device" /\ Has(d[n], "id", a.dev) => device = n
    BY <1>1, DeviceFound
  <1>3. Find(d, a) = f
    <2>1. d = <<>> => device = 0
      BY <1>2
    <2> QED BY <1>1, <2>1 DEF Find, getChannelAttr
  <1>4. device # 0 =>
           /\ channel \in {0, Null} \/ IsChannel(d, channel, device, a.chn, a.kind)
           /\ \A n \in DOMAIN d : IsChannel(d, n, device, a.chn, a.kind) => channel = n
           /\ channel = Null => /\ ~\E n \in DOMAIN d : IsChannel(d, n, device, a.chn, a.kind)
                                /\ d[Max(Children(d, device))].name = "channel"
    BY ChannelFound
  <1>5. device = 0 => channel = 0
    OBVIOUS
  <1>6. channel \notin {0, Null} =>
           /\ \/ f = 0
              \/ /\ f \in DOMAIN d /\ d[f].parent = channel
                 /\ d[f].name = "attribute" /\ Has(d[f], "name", a.attr)
           /\ \A n \in DOMAIN d :
                 d[n].parent = channel /\ d[n].name = "attribute" /\ Has(d[n], "name", a.attr) => f = n
    BY <1>1, AttrFound
  <1>7. channel \in {0, Null} => f = channel
    OBVIOUS
  <1> HIDE DEF device, channel, f
  <1>8. f \in {0, Null} \/ (f \in DOMAIN d /\ IsNamedBy(d, f, a))
    <2> SUFFICES ASSUME channel \notin {0, Null}, f # 0
                 PROVE  f \in DOMAIN d /\ IsNamedBy(d, f, a)
      BY <1>7
    <2>1. f \in DOMAIN d /\ d[f].parent = channel /\ d[f].name = "attribute" /\ Has(d[f], "name", a.attr)
      BY <1>6
    <2>2. device # 0 /\ IsChannel(d, channel, device, a.chn, a.kind) /\ d[channel].parent = device
      BY <1>4, <1>5 DEF IsChannel
    <2> QED BY <1>2, <2>1, <2>2, NamedInChannel
  <1>9. \A n \in DOMAIN d : IsNamedBy(d, n, a) => f = n
    <2> SUFFICES ASSUME NEW n \in DOMAIN d, IsNamedBy(d, n, a) PROVE f = n
      OBVIOUS
    <2> DEFINE c == d[n].parent
    <2>1. /\ d[n].name = "attribute" /\ Has(d[n], "name", a.attr)
          /\ IsChannel(d, c, d[c].parent, a.chn, a.kind)
          /\ d[c].parent \in DOMAIN d /\ d[d[c].parent].name = "device"
          /\ Has(d[d[c].parent], "id", a.dev)
      BY NamedInChannel
    <2>2. device = d[c].parent /\ device # 0 /\ c \in DOMAIN d
      BY <1>2, <2>1, NodeNumbers DEF IsChannel
    <2>3. channel = c
      BY <1>4, <2>1, <2>2
    <2>4. channel \notin {0, Null}
      BY <2>2, <2>3, NodeNumbers
    <2> QED BY <1>6, <2>1, <2>3, <2>4
  <1>10. ASSUME f = Null
         PROVE  /\ ~\E n \in DOMAIN d : IsChannel(d, n, device, a.chn, a.kind)
                /\ d[Max(Children(d, device))].name = "channel"
    <2>1. channel = Null
      BY <1>6, <1>7, <1>10, NodeNumbers DEF Null
    <2> QED BY <1>4, <1>5, <2>1 DEF Null
  <1> QED BY <1>3, <1>8, <1>9, <1>10 DEF FoundIs, device

LEMMA FindIsRight ==
    ASSUME NEW d, WellFormed(d), NEW a \in Addresses
    PROVE  FoundIs(d, a)
  BY AddressParts, FindDeviceAttr, FindChannelAttr

\* Two addresses never name one node.
LEMMA OneAddress ==
    ASSUME NEW d, WellFormed(d), NEW a \in Addresses, NEW b \in Addresses, NEW n \in DOMAIN d,
           IsNamedBy(d, n, a), IsNamedBy(d, n, b)
    PROVE  a = b
  <1>1. ASSUME NEW x, NEW k, NEW v, NEW w, Has(x, k, v), Has(x, k, w) PROVE v = w
    BY <1>1 DEF Has
  <1>2. a.kind \in DeviceTypes <=> d[d[n].parent].name = "device"
    BY AddressParts, NamedInDevice, NamedInChannel DEF IsChannel
  <1>3. b.kind \in DeviceTypes <=> d[d[n].parent].name = "device"
    BY AddressParts, NamedInDevice, NamedInChannel DEF IsChannel
  <1>4. CASE a.kind \in DeviceTypes
    <2>1. /\ d[n].name = a.kind /\ Has(d[n], "name", a.attr)
          /\ Has(d[d[n].parent], "id", a.dev)
      BY <1>4, NamedInDevice
    <2>2. /\ d[n].name = b.kind /\ Has(d[n], "name", b.attr)
          /\ Has(d[d[n].parent], "id", b.dev)
      BY <1>2, <1>3, <1>4, NamedInDevice
    <2>3. a.kind = b.kind /\ a.dev = b.dev /\ a.attr = b.attr
      BY <1>1, <2>1, <2>2
    <2> QED BY <1>2, <1>3, <1>4, <2>3, AddressParts
  <1>5. CASE a.kind \notin DeviceTypes
    <2>1. a.kind \in Directions /\ b.kind \in Directions
      BY <1>2, <1>3, <1>5, AddressParts
    <2> DEFINE c == d[n].parent
    <2>2. /\ Has(d[n], "name", a.attr) /\ Has(d[c], "id", a.chn) /\ Has(d[c], "type", a.kind)
          /\ Has(d[d[c].parent], "id", a.dev)
      BY <2>1, NamedInChannel DEF IsChannel
    <2>3. /\ Has(d[n], "name", b.attr) /\ Has(d[c], "id", b.chn) /\ Has(d[c], "type", b.kind)
          /\ Has(d[d[c].parent], "id", b.dev)
      BY <2>1, NamedInChannel DEF IsChannel
    <2>4. a.kind = b.kind /\ a.dev = b.dev /\ a.chn = b.chn /\ a.attr = b.attr
      BY <1>1, <2>2, <2>3
    <2> QED BY <2>1, <2>4, AddressParts
  <1> QED BY <1>4, <1>5

-----------------------------------------------------------------------------
(* The inductive invariant. *)

\* Two documents that differ in values only.
SameShape(d, e) ==
    /\ DOMAIN e = DOMAIN d
    /\ \A n \in DOMAIN d :
          /\ e[n].name = d[n].name /\ e[n].parent = d[n].parent
          /\ \A k \in {"id", "type", "name"} : \A v : Has(e[n], k, v) <=> Has(d[n], k, v)

\* In both the same node has the same address.
LEMMA ShapeKeepsNames ==
    ASSUME NEW d, WellFormed(d), NEW e, SameShape(d, e), NEW a \in Addresses, NEW n \in DOMAIN d
    PROVE  IsNamedBy(e, n, a) <=> IsNamedBy(d, n, a)
  <1> DEFINE h == d[n].parent
  <1>1. /\ e[n].name = d[n].name /\ e[n].parent = h
        /\ Has(e[n], "name", a.attr) <=> Has(d[n], "name", a.attr)
    BY DEF SameShape
  <1>2. CASE a.kind \in DeviceTypes
    <2> SUFFICES ASSUME d[n].name = a.kind PROVE IsNamedBy(e, n, a) <=> IsNamedBy(d, n, a)
      BY <1>1, <1>2 DEF IsNamedBy
    <2>1. h \in DOMAIN d /\ a.kind \notin Directions
      BY <1>2 DEF WellFormed, DeviceTypes, Directions
    <2>2. e[h].name = d[h].name /\ (Has(e[h], "id", a.dev) <=> Has(d[h], "id", a.dev))
      BY <2>1 DEF SameShape
    <2> QED BY <1>1, <1>2, <2>1, <2>2 DEF IsNamedBy
  <1>3. CASE a.kind \notin DeviceTypes
    <2> DEFINE p == d[h].parent
    <2> SUFFICES ASSUME d[n].name = "attribute" PROVE IsNamedBy(e, n, a) <=> IsNamedBy(d, n, a)
      BY <1>1, <1>3 DEF IsNamedBy
    <2>1. h \in DOMAIN d /\ a.kind \in Directions
      BY <1>3, AddressParts DEF WellFormed
    <2>2. /\ e[h].name = d[h].name /\ e[h].parent = p
          /\ Has(e[h], "id", a.chn) <=> Has(d[h], "id", a.chn)
          /\ Has(e[h], "type", a.kind) <=> Has(d[h], "type", a.kind)
      BY <2>1 DEF SameShape
    <2> HIDE DEF h
    <2> SUFFICES ASSUME d[h].name = "channel" PROVE IsNamedBy(e, n, a) <=> IsNamedBy(d, n, a)
      BY <1>1, <1>3, <2>1, <2>2 DEF IsNamedBy, h
    <2>3. p \in DOMAIN d
      BY <2>1 DEF WellFormed
    <2>4. e[p].name = d[p].name /\ (Has(e[p], "id", a.dev) <=> Has(d[p], "id", a.dev))
      BY <2>3 DEF SameShape
    <2> QED BY <1>1, <1>3, <2>1, <2>2, <2>4 DEF IsNamedBy, h
  <1> QED BY <1>2, <1>3

\* What the history says of an address is what the node it names holds.
Holds ==
    \A a \in Addresses :
        /\ \A n \in DOMAIN doc : IsNamedBy(doc, n, a) => hValue[a] = ValueOf(doc[n])
        /\ (~\E n \in DOMAIN doc : IsNamedBy(doc, n, a)) => hValue[a] = "ENOENT"

IInv == TypeOK /\ WellFormed(doc) /\ Holds /\ ServedTextCurrent /\ FaultsExplained

\* An address names an attribute; its value, if it has one, is one of Values.
LEMMA NamedValue ==
    ASSUME NEW d, WellFormed(d), NEW a \in Addresses, NEW n \in DOMAIN d, IsNamedBy(d, n, a)
    PROVE  d[n].name \in DeviceTypes /\ ValueOf(d[n]) \in Values \cup {NoValue}
  <1>1. d[n].name \in DeviceTypes
    BY DEF IsNamedBy, DeviceTypes
  <1> QED BY <1>1 DEF WellFormed, ValueOf

\* Text t is that of document d, as ServedTextCurrent says of the variables.
IsText(d, t) ==
    /\ DOMAIN t = DOMAIN d
    /\ \A n \in DOMAIN d :
          LET kept == IF d[n].name = "context-attribute" THEN DOMAIN d[n].attrs
                      ELSE DOMAIN d[n].attrs \ {"value"}
          IN  /\ t[n].name = d[n].name /\ t[n].parent = d[n].parent
              /\ t[n].attrs = [a \in kept |-> Squeeze(d[n].attrs[a])]

\* The text of a document has its shape.
LEMMA TextHasShape ==
    ASSUME NEW d, WellFormed(d), NEW t, IsText(d, t)
    PROVE  SameShape(d, t)
  <1> SUFFICES ASSUME NEW n \in DOMAIN d, NEW k \in {"id", "type", "name"}, NEW v
               PROVE  Has(t[n], k, v) <=> Has(d[n], k, v)
    BY DEF SameShape, IsText
  <1> DEFINE kept == IF d[n].name = "context-attribute" THEN DOMAIN d[n].attrs
                     ELSE DOMAIN d[n].attrs \ {"value"}
  <1>1. t[n].attrs = [x \in kept |-> Squeeze(d[n].attrs[x])]
    BY DEF IsText
  <1>2. k \in kept <=> k \in DOMAIN d[n].attrs
    OBVIOUS
  <1>3. k \in DOMAIN d[n].attrs => Squeeze(d[n].attrs[k]) = d[n].attrs[k]
    BY DEF WellFormed
  <1> HIDE DEF kept
  <1> QED BY <1>1, <1>2, <1>3 DEF Has

\* The served text is that of the document.
LEMMA ServedIsText == IInv => IsText(doc, ctxXml)
  BY DEF IInv, TypeOK, ServedTextCurrent, IsText

\* The constructor.
LEMMA InitIInv == Init => IInv
  <1> SUFFICES ASSUME NEW d \in Documents, NEW links \in Links,
                      doc = d, ctxXml = getXml(d), devices = Added(d, links),
                      up = TRUE, reply = NoReply,
                      hValue = [a \in Addresses |-> Declared(d, a)]
               PROVE  IInv
    BY DEF Init
  <1>1. WellFormed(doc)
    BY XmlAssumption DEF XmlAssumption
  <1>2. Holds
    <2> SUFFICES ASSUME NEW a \in Addresses
                 PROVE  /\ \A n \in DOMAIN d : IsNamedBy(d, n, a) => hValue[a] = ValueOf(d[n])
                        /\ (~\E n \in DOMAIN d : IsNamedBy(d, n, a)) => hValue[a] = "ENOENT"
      BY DEF Holds
    <2> DEFINE found == {n \in DOMAIN d : IsNamedBy(d, n, a)}
    <2>1. hValue[a] = IF found = {} THEN "ENOENT" ELSE ValueOf(d[CHOOSE n \in found : TRUE])
      BY DEF Declared
    <2>2. \A m, n \in found : m = n
      BY <1>1, FindIsRight DEF FoundIs
    <2>3. ASSUME NEW n \in found PROVE (CHOOSE m \in found : TRUE) = n
      BY <2>2
    <2> QED BY <2>1, <2>3
  <1>3. ServedTextCurrent /\ DOMAIN ctxXml = DOMAIN doc
    <2> DEFINE t == removeValueAttribute(d)
    <2>1. DOMAIN ctxXml = DOMAIN doc /\ DOMAIN t = DOMAIN doc
      BY DEF getXml, removeValueAttribute
    <2> SUFFICES ASSUME NEW n \in DOMAIN d
                 PROVE  LET kept == IF d[n].name = "context-attribute" THEN DOMAIN d[n].attrs
                                    ELSE DOMAIN d[n].attrs \ {"value"}
                        IN  /\ ctxXml[n].name = d[n].name /\ ctxXml[n].parent = d[n].parent
                            /\ ctxXml[n].attrs = [x \in kept |-> Squeeze(d[n].attrs[x])]
      BY <2>1 DEF ServedTextCurrent
    <2> DEFINE kept == IF d[n].name = "context-attribute" THEN DOMAIN d[n].attrs
                       ELSE DOMAIN d[n].attrs \ {"value"}
    <2>2. d[n] = [name |-> d[n].name, attrs |-> d[n].attrs, parent |-> d[n].parent]
      BY <1>1 DEF WellFormed
    <2>3. /\ t[n].name = d[n].name /\ t[n].parent = d[n].parent
          /\ t[n] = [name |-> t[n].name, attrs |-> t[n].attrs, parent |-> t[n].parent]
          /\ DOMAIN t[n].attrs = kept /\ \A x \in kept : t[n].attrs[x] = d[n].attrs[x]
      <3>1. CASE d[n].name = "context-attribute"
        BY <2>2, <3>1 DEF removeValueAttribute
      <3>2. CASE d[n].name # "context-attribute"
        <4>1. t[n] = [d[n] EXCEPT !.attrs = [x \in kept |-> d[n].attrs[x]]]
          BY <3>2 DEF removeValueAttribute
        <4>2. t[n] = [name |-> d[n].name, attrs |-> [x \in kept |-> d[n].attrs[x]], parent |-> d[n].parent]
          BY <2>2, <4>1
        <4> QED BY <4>2
      <3> QED BY <3>1, <3>2
    <2>4. ctxXml[n] = [t[n] EXCEPT !.attrs = [x \in DOMAIN t[n].attrs |-> Squeeze(t[n].attrs[x])]]
      BY <2>1 DEF getXml
    <2> HIDE DEF t, kept
    <2>5. /\ ctxXml[n].name = d[n].name /\ ctxXml[n].parent = d[n].parent
          /\ ctxXml[n].attrs = [x \in DOMAIN t[n].attrs |-> Squeeze(t[n].attrs[x])]
      BY <2>3, <2>4
    <2>6. [x \in DOMAIN t[n].attrs |-> Squeeze(t[n].attrs[x])] = [x \in kept |-> Squeeze(d[n].attrs[x])]
      BY <2>3
    <2> QED BY <2>5, <2>6 DEF kept
  <1>4. TypeOK
    <2>1. hValue \in [Addresses -> Values \cup {NoValue, "ENOENT"}]
      <3> SUFFICES ASSUME NEW a \in Addresses PROVE hValue[a] \in Values \cup {NoValue, "ENOENT"}
        OBVIOUS
      <3>1. CASE \E n \in DOMAIN d : IsNamedBy(d, n, a)
        BY <1>1, <1>2, <3>1, NamedValue DEF Holds
      <3>2. CASE ~\E n \in DOMAIN d : IsNamedBy(d, n, a)
        BY <1>2, <3>2 DEF Holds
      <3> QED BY <3>1, <3>2
    <2>2. \A n \in DOMAIN doc : doc[n].parent \in 0..(n - 1)
      BY <1>1 DEF WellFormed, Root
    <2>3. \A device \in devices : device.class \in {"TX", "RX"}
      BY DEF Added
    <2> QED BY <1>3, <2>1, <2>2, <2>3 DEF TypeOK
  <1> QED BY <1>1, <1>2, <1>3, <1>4 DEF IInv, FaultsExplained

\* A command faults in the two cases only.
LEMMA FaultCases ==
    ASSUME IInv, NEW a \in Addresses, Find(doc, a) = Null
    PROVE  LET device == getNode(doc, Root, "device", "id", a.dev)
           IN  /\ a.kind \in Directions
               /\ ~\E n \in DOMAIN doc :
                      doc[n].name = "channel" /\ doc[n].parent = device
                      /\ Has(doc[n], "id", a.chn) /\ Has(doc[n], "type", a.kind)
               /\ doc[Max(Children(doc, device))].name = "channel"
  <1> DEFINE device == getNode(doc, Root, "device", "id", a.dev)
  <1>1. /\ a.kind \in Directions
        /\ ~\E n \in DOMAIN doc : IsChannel(doc, n, device, a.chn, a.kind)
        /\ doc[Max(Children(doc, device))].name = "channel"
    BY FindIsRight DEF IInv, FoundIs
  <1> HIDE DEF device
  <1>2. ~\E n \in DOMAIN doc :
           doc[n].name = "channel" /\ doc[n].parent = device
           /\ Has(doc[n], "id", a.chn) /\ Has(doc[n], "type", a.kind)
    BY <1>1 DEF IsChannel
  <1> QED BY <1>1, <1>2 DEF device

\* What a read answers.
LEMMA OutcomeIs ==
    ASSUME IInv, NEW a \in Addresses
    PROVE  /\ Outcome(a) \in Answers
           /\ hValue[a] \in Values => Outcome(a) = hValue[a]
           /\ Outcome(a) = "fault" => hValue[a] = NoValue \/ Find(doc, a) = Null
  <1> DEFINE n == Find(doc, a)
  <1>1. FoundIs(doc, a)
    BY FindIsRight DEF IInv
  <1>2. CASE n \in {0, Null}
    <2>1. ~\E m \in DOMAIN doc : IsNamedBy(doc, m, a)
      BY <1>1, <1>2, NodeNumbers DEF FoundIs, IInv
    <2>2. hValue[a] = "ENOENT" /\ "ENOENT" \notin Values
      BY <2>1, XmlAssumption DEF IInv, Holds, XmlAssumption
    <2>3. n = 0 => Outcome(a) = "ENOENT"
      BY DEF Outcome, Null
    <2>4. n = Null => Outcome(a) = "fault"
      BY DEF Outcome, Null
    <2> QED BY <1>2, <2>2, <2>3, <2>4 DEF Answers
  <1>3. CASE n \notin {0, Null}
    <2>1. n \in DOMAIN doc /\ IsNamedBy(doc, n, a)
      BY <1>1, <1>3 DEF FoundIs
    <2>2. hValue[a] = ValueOf(doc[n]) /\ ValueOf(doc[n]) \in Values \cup {NoValue}
      BY <2>1, NamedValue DEF IInv, Holds
    <2>3. Outcome(a) = IF ValueOf(doc[n]) = NoValue THEN "fault" ELSE ValueOf(doc[n])
      BY <1>3 DEF Outcome
    <2>4. NoValue \notin Values /\ "fault" \notin Values
      BY XmlAssumption DEF XmlAssumption
    <2> QED BY <2>2, <2>3, <2>4 DEF Answers
  <1> QED BY <1>2, <1>3

LEMMA Read_IInv == ASSUME IInv, NEW a \in Addresses, Read(a) PROVE IInv'
  <1>1. /\ up /\ reply' = [op |-> "read", to |-> a, is |-> Outcome(a)]
        /\ up' = (Outcome(a) # "fault")
        /\ UNCHANGED <<doc, ctxXml, devices, hValue>>
    BY DEF Read
  <1>2. reply'.op = "read" /\ reply'.to = a /\ reply'.is = Outcome(a)
    BY <1>1
  <1>3. TypeOK'
    BY <1>1, <1>2, OutcomeIs DEF IInv, TypeOK
  <1>4. WellFormed(doc)' /\ Holds' /\ ServedTextCurrent'
    BY <1>1 DEF IInv, Holds, ServedTextCurrent
  <1>5. FaultsExplained'
    <2>1. ASSUME ~up' PROVE hValue[a] = NoValue \/ Find(doc, a) = Null
      BY <1>1, <2>1, OutcomeIs
    <2>2. CASE hValue[a] = NoValue
      BY <1>1, <1>2, <2>2 DEF FaultsExplained
    <2>3. CASE Find(doc, a) = Null
      BY <1>1, <1>2, <2>3, FaultCases DEF FaultsExplained
    <2>4. CASE up'
      BY <2>4 DEF FaultsExplained
    <2> QED BY <2>1, <2>2, <2>3, <2>4
  <1> QED BY <1>3, <1>4, <1>5 DEF IInv

\* A write that finds nothing changes nothing.
LEMMA WriteNothing_IInv ==
    ASSUME IInv, NEW a \in Addresses, NEW value \in Values, Write(a, value),
           Find(doc, a) \in {0, Null}
    PROVE  IInv'
  <1>1. ~\E m \in DOMAIN doc : IsNamedBy(doc, m, a)
    BY FindIsRight, NodeNumbers DEF FoundIs, IInv
  <1>2. hValue' = hValue
    <2>1. hValue[a] = "ENOENT"
      BY <1>1 DEF IInv, Holds
    <2> QED BY <2>1 DEF Write, IInv, TypeOK
  <1>3. /\ reply'.to = a /\ reply'.is \in {"ENOENT", "fault"} /\ up' = (Find(doc, a) # Null)
        /\ UNCHANGED <<doc, ctxXml, devices>>
    BY DEF Write, SetValue
  <1>4. TypeOK'
    BY <1>2, <1>3 DEF IInv, TypeOK, Answers
  <1>5. doc' = doc /\ ctxXml' = ctxXml /\ hValue' = hValue
    BY <1>2, <1>3
  <1>6. Holds' /\ ServedTextCurrent'
    <2>1. Holds'
      BY <1>5 DEF IInv, Holds
    <2>2. ServedTextCurrent'
      BY <1>5 DEF IInv, ServedTextCurrent
    <2> QED BY <2>1, <2>2
  <1>7. WellFormed(doc')
    BY <1>5 DEF IInv
  <1>8. FaultsExplained'
    BY <1>3, FaultCases DEF FaultsExplained
  <1> QED BY <1>4, <1>6, <1>7, <1>8 DEF IInv

\* A write changes the value of the one node its address names.
LEMMA WriteNode_IInv ==
    ASSUME IInv, NEW a \in Addresses, NEW value \in Values, Write(a, value),
           Find(doc, a) \notin {0, Null}
    PROVE  IInv'
  <1> DEFINE n == Find(doc, a)
             attrs == [x \in DOMAIN doc[n].attrs \cup {"value"} |->
                          IF x = "value" THEN value ELSE doc[n].attrs[x]]
  <1>1. n \in DOMAIN doc /\ IsNamedBy(doc, n, a) /\ WellFormed(doc)
    BY FindIsRight DEF FoundIs, IInv
  <1>2. doc[n].name \in DeviceTypes /\ hValue[a] \in Values \cup {NoValue}
    BY <1>1, NamedValue DEF IInv, Holds
  <1>3. /\ doc' = [doc EXCEPT ![n].attrs = attrs]
        /\ up' = TRUE /\ reply'.is = "ok"
        /\ UNCHANGED <<ctxXml, devices>>
    BY DEF Write, SetValue
  <1>4. hValue' = [hValue EXCEPT ![a] = value]
    <2>1. hValue[a] # "ENOENT"
      BY <1>2, XmlAssumption DEF XmlAssumption
    <2> QED BY <2>1 DEF Write, IInv, TypeOK
  <1>5. DOMAIN doc' = DOMAIN doc /\ \A m \in DOMAIN doc : m # n => doc'[m] = doc[m]
    BY <1>3
  <1>6. doc'[n] = [name |-> doc[n].name, attrs |-> attrs, parent |-> doc[n].parent]
    <2>1. doc[n] = [name |-> doc[n].name, attrs |-> doc[n].attrs, parent |-> doc[n].parent]
      BY <1>1 DEF WellFormed
    <2>2. doc'[n] = [doc[n] EXCEPT !.attrs = attrs]
      BY <1>1, <1>3
    <2> HIDE DEF attrs, n
    <2> QED BY <2>1, <2>2
  <1>7. /\ DOMAIN attrs = DOMAIN doc[n].attrs \cup {"value"} /\ attrs["value"] = value
        /\ \A x \in DOMAIN doc[n].attrs \ {"value"} : attrs[x] = doc[n].attrs[x]
    OBVIOUS
  <1> HIDE DEF attrs, n
  <1>8. \A m \in DOMAIN doc : doc'[m].name = doc[m].name /\ doc'[m].parent = doc[m].parent
    BY <1>5, <1>6
  <1>9. \A m \in DOMAIN doc : \A x \in DOMAIN doc[m].attrs \ {"value"} :
           x \in DOMAIN doc'[m].attrs /\ doc'[m].attrs[x] = doc[m].attrs[x]
    BY <1>5, <1>6, <1>7
  <1>10. \A m \in DOMAIN doc : DOMAIN doc'[m].attrs \subseteq DOMAIN doc[m].attrs \cup {"value"}
    BY <1>5, <1>6, <1>7
  <1>11. \A m \in DOMAIN doc : \A k \in {"id", "type", "name"} : \A v :
            Has(doc'[m], k, v) <=> Has(doc[m], k, v)
    BY <1>9, <1>10 DEF Has
  <1>12. SameShape(doc, doc')
    BY <1>5, <1>8, <1>11 DEF SameShape
  <1>13. WellFormed(doc')
    <2>1. ASSUME NEW m \in DOMAIN doc
          PROVE  /\ doc'[m] = [name |-> doc'[m].name, attrs |-> doc'[m].attrs, parent |-> doc'[m].parent]
                 /\ IF m = Root THEN doc'[m].parent = 0 /\ doc'[m].name = "context"
                    ELSE doc'[m].parent \in DOMAIN doc /\ doc'[m].parent < m
                 /\ doc'[m].name = "device" => doc'[m].parent = Root /\ "id" \in DOMAIN doc'[m].attrs
                 /\ doc'[m].name = "channel" =>
                       {"id", "type"} \subseteq DOMAIN doc'[m].attrs /\ doc'[m].attrs["type"] \in Directions
                 /\ \A x \in DOMAIN doc'[m].attrs \ {"value"} : Squeeze(doc'[m].attrs[x]) = doc'[m].attrs[x]
                 /\ "value" \in DOMAIN doc'[m].attrs /\ doc'[m].name \in DeviceTypes =>
                       doc'[m].attrs["value"] \in Values
      <3>1. doc'[m] = [name |-> doc'[m].name, attrs |-> doc'[m].attrs, parent |-> doc'[m].parent]
        BY <1>1, <1>5, <1>6 DEF WellFormed
      <3>2. /\ IF m = Root THEN doc'[m].parent = 0 /\ doc'[m].name = "context"
               ELSE doc'[m].parent \in DOMAIN doc /\ doc'[m].parent < m
            /\ doc'[m].name = "device" => doc'[m].parent = Root
        BY <1>1, <1>8 DEF WellFormed
      <3>3. /\ doc'[m].name = "device" => "id" \in DOMAIN doc'[m].attrs
            /\ doc'[m].name = "channel" =>
                  {"id", "type"} \subseteq DOMAIN doc'[m].attrs /\ doc'[m].attrs["type"] \in Directions
        <4>1. /\ doc[m].name = "device" => "id" \in DOMAIN doc[m].attrs
              /\ doc[m].name = "channel" =>
                    {"id", "type"} \subseteq DOMAIN doc[m].attrs /\ doc[m].attrs["type"] \in Directions
          BY <1>1 DEF WellFormed
        <4> QED BY <1>8, <1>9, <4>1
      <3>4. \A x \in DOMAIN doc'[m].attrs \ {"value"} : Squeeze(doc'[m].attrs[x]) = doc'[m].attrs[x]
        <4>1. \A x \in DOMAIN doc[m].attrs \ {"value"} : Squeeze(doc[m].attrs[x]) = doc[m].attrs[x]
          BY <1>1 DEF WellFormed
        <4> QED BY <1>9, <1>10, <4>1
      <3>5. "value" \in DOMAIN doc'[m].attrs /\ doc'[m].name \in DeviceTypes =>
               doc'[m].attrs["value"] \in Values
        <4>1. CASE m = n
          BY <1>6, <1>7, <4>1
        <4>2. CASE m # n
          BY <1>1, <1>5, <4>2 DEF WellFormed
        <4> QED BY <4>1, <4>2
      <3> QED BY <3>1, <3>2, <3>3, <3>4, <3>5
    <2>2. ASSUME NEW m \in DOMAIN doc, NEW o \in DOMAIN doc,
                 doc'[m].name = doc'[o].name, doc'[m].parent = doc'[o].parent,
                 \/ doc'[o].name = "device" /\ doc'[m].attrs["id"] = doc'[o].attrs["id"]
                 \/ doc'[o].name = "channel" /\ \A x \in {"id", "type"} : doc'[m].attrs[x] = doc'[o].attrs[x]
                 \/ /\ doc'[o].name \in DeviceTypes
                    /\ \E name \in Names : Has(doc'[m], "name", name) /\ Has(doc'[o], "name", name)
          PROVE  m = o
      <3>1. doc[m].name = doc[o].name /\ doc[m].parent = doc[o].parent /\ doc'[o].name = doc[o].name
        BY <1>8, <2>2
      <3>2. /\ doc[o].name \in {"device", "channel"} =>
                  doc'[m].attrs["id"] = doc[m].attrs["id"] /\ doc'[o].attrs["id"] = doc[o].attrs["id"]
            /\ doc[o].name = "channel" =>
                  doc'[m].attrs["type"] = doc[m].attrs["type"] /\ doc'[o].attrs["type"] = doc[o].attrs["type"]
        <4>1. /\ doc[o].name \in {"device", "channel"} =>
                    "id" \in DOMAIN doc[m].attrs /\ "id" \in DOMAIN doc[o].attrs
              /\ doc[o].name = "channel" =>
                    "type" \in DOMAIN doc[m].attrs /\ "type" \in DOMAIN doc[o].attrs
          BY <1>1, <3>1 DEF WellFormed
        <4> QED BY <1>9, <4>1
      <3>3. \/ doc[o].name = "device" /\ doc[m].attrs["id"] = doc[o].attrs["id"]
            \/ doc[o].name = "channel" /\ \A x \in {"id", "type"} : doc[m].attrs[x] = doc[o].attrs[x]
            \/ /\ doc[o].name \in DeviceTypes
               /\ \E name \in Names : Has(doc[m], "name", name) /\ Has(doc[o], "name", name)
        BY <1>11, <2>2, <3>1, <3>2
      <3> QED BY <1>1, <3>1, <3>3 DEF WellFormed
    <2>3. DOMAIN doc' \subseteq Nat \ {0}
      BY <1>1, <1>5 DEF WellFormed
    <2> QED BY <1>5, <2>1, <2>2, <2>3 DEF WellFormed
  <1>14. Holds'
    <2> SUFFICES ASSUME NEW b \in Addresses
                 PROVE  /\ \A m \in DOMAIN doc : IsNamedBy(doc', m, b) => hValue'[b] = ValueOf(doc'[m])
                        /\ (~\E m \in DOMAIN doc : IsNamedBy(doc', m, b)) => hValue'[b] = "ENOENT"
      BY <1>5 DEF Holds
    <2>1. \A m \in DOMAIN doc : IsNamedBy(doc', m, b) <=> IsNamedBy(doc, m, b)
      BY <1>1, <1>12, ShapeKeepsNames
    <2>2. CASE b = a
      <3>1. hValue'[a] = value
        BY <1>4 DEF IInv, TypeOK
      <3>2. \A m \in DOMAIN doc : IsNamedBy(doc, m, a) => m = n
        BY <1>1, FindIsRight DEF FoundIs, n
      <3>3. ValueOf(doc'[n]) = value
        BY <1>6, <1>7 DEF ValueOf
      <3> QED BY <1>1, <2>1, <2>2, <3>1, <3>2, <3>3
    <2>3. CASE b # a
      <3>1. hValue'[b] = hValue[b]
        BY <1>4, <2>3 DEF IInv, TypeOK
      <3>2. \A m \in DOMAIN doc : IsNamedBy(doc, m, b) => doc'[m] = doc[m]
        BY <1>1, <1>5, <2>3, OneAddress
      <3> QED BY <2>1, <3>1, <3>2 DEF IInv, Holds
    <2> QED BY <2>2, <2>3
  <1>15. ServedTextCurrent'
    <2> SUFFICES ASSUME NEW m \in DOMAIN doc'
                 PROVE  LET kept == IF doc'[m].name = "context-attribute" THEN DOMAIN doc'[m].attrs
                                    ELSE DOMAIN doc'[m].attrs \ {"value"}
                        IN  /\ ctxXml[m].name = doc'[m].name /\ ctxXml[m].parent = doc'[m].parent
                            /\ ctxXml[m].attrs = [x \in kept |-> Squeeze(doc'[m].attrs[x])]
      BY <1>3, <1>5 DEF ServedTextCurrent
    <2>1. CASE m # n
      <3>1. m \in DOMAIN doc /\ doc'[m] = doc[m]
        BY <1>5, <2>1
      <3>2. LET kept == IF doc[m].name = "context-attribute" THEN DOMAIN doc[m].attrs
                        ELSE DOMAIN doc[m].attrs \ {"value"}
            IN  /\ ctxXml[m].name = doc[m].name /\ ctxXml[m].parent = doc[m].parent
                /\ ctxXml[m].attrs = [x \in kept |-> Squeeze(doc[m].attrs[x])]
        BY <3>1 DEF IInv, ServedTextCurrent
      <3> QED BY <3>1, <3>2
    <2>2. CASE m = n
      <3>1. doc[n].name # "context-attribute"
        BY <1>2 DEF DeviceTypes
      <3>2. /\ ctxXml[n].name = doc[n].name /\ ctxXml[n].parent = doc[n].parent
            /\ ctxXml[n].attrs = [x \in DOMAIN doc[n].attrs \ {"value"} |-> Squeeze(doc[n].attrs[x])]
        BY <1>1, <3>1 DEF IInv, ServedTextCurrent
      <3>3. /\ doc'[n].name = doc[n].name /\ doc'[n].parent = doc[n].parent /\ doc'[n].attrs = attrs
        BY <1>6
      <3>4. [x \in DOMAIN doc[n].attrs \ {"value"} |-> Squeeze(doc[n].attrs[x])]
              = [x \in DOMAIN attrs \ {"value"} |-> Squeeze(attrs[x])]
        BY <1>7
      <3> QED BY <2>2, <3>1, <3>2, <3>3, <3>4
    <2> QED BY <2>1, <2>2
  <1>16. TypeOK'
    <2>1. hValue' \in [Addresses -> Values \cup {NoValue, "ENOENT"}]
      BY <1>4 DEF IInv, TypeOK
    <2>2. \A m \in DOMAIN doc' : doc'[m].parent \in 0..(m - 1)
      BY <1>5, <1>8 DEF IInv, TypeOK
    <2> QED BY <1>3, <1>5, <2>1, <2>2 DEF IInv, TypeOK, Answers
  <1>17. FaultsExplained'
    BY <1>3 DEF FaultsExplained
  <1> QED BY <1>13, <1>14, <1>15, <1>16, <1>17 DEF IInv

-----------------------------------------------------------------------------
(* The classes of the devices. *)

\* The channels of a device are those below the node the searches find.
LEMMA ChannelsFound ==
    ASSUME WellFormed(doc), NEW dev
    PROVE  LET f == getNode(doc, Root, "device", "id", dev)
           IN  /\ f = 0 => ChannelsOf(dev) = {}
               /\ f # 0 => ChannelsOf(dev) = {n \in Children(doc, f) : doc[n].name = "channel"}
  <1> DEFINE f == getNode(doc, Root, "device", "id", dev)
  <1>1. /\ f = 0 \/ (f \in DOMAIN doc /\ doc[f].name = "device" /\ Has(doc[f], "id", dev))
        /\ \A n \in DOMAIN doc : doc[n].name = "device" /\ Has(doc[n], "id", dev) => f = n
    BY DeviceFound
  <1> HIDE DEF f
  <1>2. ASSUME NEW n \in DOMAIN doc, doc[n].name = "channel" PROVE doc[n].parent \in DOMAIN doc
    BY <1>2 DEF WellFormed, Root
  <1>3. \A n \in ChannelsOf(dev) : n \in DOMAIN doc /\ doc[n].parent = f /\ f # 0
    <2> SUFFICES ASSUME NEW n \in ChannelsOf(dev)
                 PROVE  n \in DOMAIN doc /\ doc[n].parent = f /\ f # 0
      OBVIOUS
    <2>1. /\ n \in DOMAIN doc /\ doc[n].name = "channel"
          /\ doc[doc[n].parent].name = "device" /\ Has(doc[doc[n].parent], "id", dev)
      BY DEF ChannelsOf
    <2>2. doc[n].parent \in DOMAIN doc
      BY <1>2, <2>1
    <2> QED BY <1>1, <2>1, <2>2, NodeNumbers
  <1>4. ASSUME f # 0 PROVE ChannelsOf(dev) = {n \in Children(doc, f) : doc[n].name = "channel"}
    BY <1>1, <1>3, <1>4 DEF ChannelsOf, Children
  <1> QED BY <1>3, <1>4 DEF f

\* What the constructor tests is what the document says.
LEMMA TestsAreRight ==
    ASSUME WellFormed(doc), NEW dev
    PROVE  /\ isScanChannel(doc, dev) <=> ScanDirections(dev) # {}
           /\ isOutputChannel(doc, dev)
                <=> ScanDirections(dev) # {} /\ "input" \notin ChannelDirections(dev)
  <1> DEFINE f == getNode(doc, Root, "device", "id", dev)
             inputs == {n \in Children(doc, f) : doc[n].name = "channel" /\ Has(doc[n], "type", "input")}
             elements(n) == {s \in Children(doc, n) : doc[s].name = "scan-element"}
  <1>1. /\ f = 0 => ChannelsOf(dev) = {}
        /\ f # 0 => ChannelsOf(dev) = {n \in Children(doc, f) : doc[n].name = "channel"}
    BY ChannelsFound
  <1>2. doc = <<>> => f = 0
    <2>1. doc = <<>> => {n \in Children(doc, Root) : doc[n].name = "device" /\ Has(doc[n], "id", dev)} = {}
      BY DEF Children
    <2> QED BY <2>1 DEF getNode, First
  <1>3. DOMAIN doc \subseteq Nat \ {0}
    BY NodeNumbers
  <1>4. ASSUME NEW n PROVE Streaming(n) <=> getNodeNamed(doc, n, "scan-element") # 0
    <2>1. elements(n) \subseteq Nat \ {0} /\ (Streaming(n) <=> elements(n) # {})
      BY <1>3 DEF Children, Streaming
    <2>2. getNodeNamed(doc, n, "scan-element") = First(elements(n))
      BY DEF getNodeNamed
    <2> HIDE DEF elements
    <2>3. elements(n) # {} => First(elements(n)) # 0
      BY <2>1, FirstOfSome
    <2> QED BY <2>1, <2>2, <2>3 DEF First
  <1>5. isScanChannel(doc, dev) <=> f # 0 /\ \E n \in ChannelsOf(dev) : Streaming(n)
    <2>1. isScanChannel(doc, dev)
            <=> f # 0 /\ \E n \in Children(doc, f) : doc[n].name = "channel" /\ Streaming(n)
      BY <1>2, <1>4 DEF isScanChannel
    <2> HIDE DEF f
    <2> QED BY <1>1, <2>1
  <1> HIDE DEF f
  <1>6. isScanChannel(doc, dev) <=> ScanDirections(dev) # {}
    BY <1>1, <1>5 DEF ScanDirections
  <1>7. getNode(doc, f, "channel", "type", "input") # 0 <=> inputs # {}
    <2>1. getNode(doc, f, "channel", "type", "input") = First(inputs)
      BY DEF getNode
    <2>2. inputs \subseteq Nat \ {0}
      BY <1>3 DEF Children
    <2> HIDE DEF inputs
    <2>3. inputs # {} => First(inputs) # 0
      BY <2>2, FirstOfSome
    <2> QED BY <2>1, <2>3 DEF First
  <1>8. ASSUME f # 0 PROVE inputs # {} <=> "input" \in ChannelDirections(dev)
    <2>1. \A n \in Children(doc, f) :
             doc[n].name = "channel" => (Has(doc[n], "type", "input") <=> doc[n].attrs["type"] = "input")
      BY DEF Children, WellFormed, Has
    <2> QED BY <1>1, <1>8, <2>1 DEF ChannelDirections
  <1>9. isOutputChannel(doc, dev) <=> isScanChannel(doc, dev) /\ inputs = {}
    BY <1>7 DEF isOutputChannel, f
  <1> HIDE DEF inputs
  <1> QED BY <1>5, <1>6, <1>8, <1>9

\* The devices and classes the constructor chooses.
LEMMA ClassChosen ==
    ASSUME Init
    PROVE  ServesUnlessMixed
  <1>1. PICK links \in Links : devices = Added(doc, links) /\ doc \in Documents
    BY DEF Init
  <1>2. WellFormed(doc)
    BY <1>1, XmlAssumption DEF XmlAssumption
  <1>3. {device.id : device \in devices} = {dev \in links : ScanDirections(dev) # {}}
    <2> DEFINE entry(dev) ==
                   [id |-> dev, class |-> IF isOutputChannel(doc, dev) THEN "TX" ELSE "RX"]
               streaming == {link \in links : isScanChannel(doc, link)}
    <2>0. devices = {entry(dev) : dev \in streaming} /\ \A dev : entry(dev).id = dev
      BY <1>1 DEF Added
    <2> HIDE DEF entry
    <2>1. {device.id : device \in devices} = streaming
      BY <2>0
    <2>2. \A dev : isScanChannel(doc, dev) <=> ScanDirections(dev) # {}
      BY <1>2, TestsAreRight
    <2> QED BY <2>1, <2>2
  <1>4. ASSUME NEW device \in devices
        PROVE  ScanDirections(device.id) # Served(device.class)
                 <=> "output" \in ScanDirections(device.id) /\ "input" \in ChannelDirections(device.id)
    <2> DEFINE dev == device.id
               scan == ScanDirections(dev)
               all == ChannelDirections(dev)
    <2>1. PICK link \in links :
             /\ isScanChannel(doc, link)
             /\ device = [id |-> link, class |-> IF isOutputChannel(doc, link) THEN "TX" ELSE "RX"]
      BY <1>1 DEF Added
    <2>2. /\ isScanChannel(doc, dev)
          /\ device.class = IF isOutputChannel(doc, dev) THEN "TX" ELSE "RX"
      BY <2>1
    <2>3. scan # {} /\ (isOutputChannel(doc, dev) <=> "input" \notin all)
      BY <1>2, <2>2, TestsAreRight
    <2>4. scan \subseteq all /\ all \subseteq {"input", "output"}
      <3>1. scan \subseteq all
        BY DEF ScanDirections, ChannelDirections
      <3>2. \A n \in DOMAIN doc : doc[n].name = "channel" => doc[n].attrs["type"] \in {"input", "output"}
        BY <1>2 DEF WellFormed, Directions
      <3>3. all \subseteq {"input", "output"}
        BY <3>2 DEF ChannelDirections, ChannelsOf
      <3> QED BY <3>1, <3>3
    <2>5. Served(device.class) = IF "input" \in all THEN {"input"} ELSE {"output"}
      BY <2>2, <2>3 DEF Served
    <2> HIDE DEF scan, all
    <2>6. scan # Served(device.class) <=> "output" \in scan /\ "input" \in all
      <3>1. scan = {"input"} \/ scan = {"output"} \/ scan = {"input", "output"}
        BY <2>3, <2>4
      <3>2. {"input"} # {"output"} /\ {"input", "output"} # {"input"}
            /\ "output" \notin {"input"}
        OBVIOUS
      <3>3. CASE "input" \in all
        BY <2>5, <3>1, <3>2, <3>3
      <3>4. CASE "input" \notin all
        <4>1. scan = {"output"}
          BY <2>4, <3>1, <3>4
        <4> QED BY <2>5, <3>4, <4>1
      <3> QED BY <3>3, <3>4
    <2> QED BY <2>6 DEF scan, all
  <1> QED BY <1>3, <1>4 DEF ServesUnlessMixed

\* Writes do not change the directions a device streams in.
LEMMA SameDirections ==
    ASSUME IInv, IInv', ctxXml' = ctxXml, NEW dev
    PROVE  /\ ScanDirections(dev)' = ScanDirections(dev)
           /\ ChannelDirections(dev)' = ChannelDirections(dev)
  <1>1. SameShape(doc, ctxXml)
    BY ServedIsText, TextHasShape DEF IInv
  <1>2. SameShape(doc', ctxXml)
    <2>1. IsText(doc', ctxXml)
      BY DEF IInv, TypeOK, ServedTextCurrent, IsText
    <2> QED BY <2>1, TextHasShape DEF IInv
  <1>3. /\ DOMAIN doc' = DOMAIN doc
        /\ \A n \in DOMAIN doc :
              /\ doc'[n].name = doc[n].name /\ doc'[n].parent = doc[n].parent
              /\ \A k \in {"id", "type"} : \A v : Has(doc'[n], k, v) <=> Has(doc[n], k, v)
    BY <1>1, <1>2 DEF SameShape
  <1>4. ASSUME NEW n \in DOMAIN doc, doc[n].name = "channel"
        PROVE  /\ doc'[n].attrs["type"] = doc[n].attrs["type"]
               /\ doc[n].parent \in DOMAIN doc
    <2>1. "type" \in DOMAIN doc[n].attrs /\ doc[n].parent \in DOMAIN doc
      BY <1>4 DEF IInv, WellFormed, Root
    <2>2. Has(doc[n], "type", doc[n].attrs["type"])
      BY <2>1 DEF Has
    <2>3. Has(doc'[n], "type", doc[n].attrs["type"])
      BY <1>3, <2>2
    <2> QED BY <2>1, <2>3 DEF Has
  <1> DEFINE channels(d) ==
               {n \in DOMAIN d : /\ d[n].name = "channel" /\ d[d[n].parent].name = "device"
                                 /\ Has(d[d[n].parent], "id", dev)}
             streaming(d, n) == \E s \in DOMAIN d : d[s].name = "scan-element" /\ d[s].parent = n
  <1>5. channels(doc') = channels(doc)
    BY <1>3, <1>4
  <1>6. \A n : streaming(doc', n) <=> streaming(doc, n)
    BY <1>3
  <1>7. /\ ScanDirections(dev)
              = {doc[n].attrs["type"] : n \in {m \in channels(doc) : streaming(doc, m)}}
        /\ ChannelDirections(dev) = {doc[n].attrs["type"] : n \in channels(doc)}
    BY DEF ScanDirections, ChannelDirections, ChannelsOf, Streaming
  <1>8. /\ ScanDirections(dev)'
              = {doc'[n].attrs["type"] : n \in {m \in channels(doc') : streaming(doc', m)}}
        /\ ChannelDirections(dev)' = {doc'[n].attrs["type"] : n \in channels(doc')}
    BY DEF ScanDirections, ChannelDirections, ChannelsOf, Streaming
  <1>9. \A n \in channels(doc) : doc'[n].attrs["type"] = doc[n].attrs["type"]
    BY <1>4
  <1> HIDE DEF channels, streaming
  <1>10. {m \in channels(doc') : streaming(doc', m)} = {m \in channels(doc) : streaming(doc, m)}
    BY <1>5, <1>6
  <1>11. /\ {doc'[n].attrs["type"] : n \in {m \in channels(doc) : streaming(doc, m)}}
               = {doc[n].attrs["type"] : n \in {m \in channels(doc) : streaming(doc, m)}}
         /\ {doc'[n].attrs["type"] : n \in channels(doc)}
               = {doc[n].attrs["type"] : n \in channels(doc)}
    BY <1>9
  <1> QED BY <1>5, <1>7, <1>8, <1>10, <1>11

\* Nothing that explains an end of the process depends on another variable.
LEMMA FaultsStay ==
    ASSUME FaultsExplained, doc' = doc, up' = up, reply' = reply, hValue' = hValue
    PROVE  FaultsExplained'
  <1> DEFINE Explained(d, u, r, h) ==
                 ~u =>
                     LET a == r.to
                         device == getNode(d, Root, "device", "id", a.dev)
                     IN  \/ r.op = "read" /\ h[a] = NoValue
                         \/ /\ a.kind \in Directions
                            /\ ~\E n \in DOMAIN d :
                                   d[n].name = "channel" /\ d[n].parent = device
                                   /\ Has(d[n], "id", a.chn) /\ Has(d[n], "type", a.kind)
                            /\ d[Max(Children(d, device))].name = "channel"
  <1>1. FaultsExplained <=> Explained(doc, up, reply, hValue)
    BY DEF FaultsExplained
  <1>2. FaultsExplained' <=> Explained(doc', up', reply', hValue')
    BY DEF FaultsExplained
  <1> HIDE DEF Explained
  <1> QED BY <1>1, <1>2

\* Every command preserves the inductive invariant.
LEMMA NextIInv == IInv /\ [Next]_vars => IInv'
  <1> SUFFICES ASSUME IInv, [Next]_vars PROVE IInv'
    OBVIOUS
  <1>1. CASE UNCHANGED vars
    <2>1. doc' = doc /\ ctxXml' = ctxXml /\ devices' = devices /\ up' = up /\ reply' = reply
          /\ hValue' = hValue
      BY <1>1 DEF vars
    <2>2. TypeOK' /\ Holds'
      BY <2>1 DEF IInv, TypeOK, Holds
    <2>3. ServedTextCurrent'
      <3>1. ServedTextCurrent
        BY DEF IInv
      <3> QED BY <2>1, <3>1 DEF ServedTextCurrent
    <2>5. FaultsExplained'
      BY <2>1, FaultsStay DEF IInv
    <2>4. WellFormed(doc')
      BY <2>1 DEF IInv
    <2> QED BY <2>2, <2>3, <2>4, <2>5 DEF IInv
  <1>2. CASE Next
    BY <1>2, Read_IInv, WriteNothing_IInv, WriteNode_IInv DEF Next
  <1> QED BY <1>1, <1>2

LEMMA AlwaysIInv == Spec => []IInv
  BY InitIInv, NextIInv, PTL DEF Spec

\* The document, the served text and the answers keep their types.
THEOREM TypeCorrect == Spec => []TypeOK
  <1>1. IInv => TypeOK
    BY DEF IInv
  <1> QED BY <1>1, AlwaysIInv, PTL

\* A read answers what was last written to its address, whatever was written to
\* any other, in every well-formed document.
THEOREM ReadsWhatWasWritten == Spec => []ReadsLastWrite
  <1>1. IInv => ReadsLastWrite
    BY OutcomeIs DEF ReadsLastWrite
  <1> QED BY <1>1, AlwaysIInv, PTL

\* A client finds what the text it was given names, and nothing else.
THEOREM FindsWhatIsAdvertised == Spec => []AdvertisedIsFound
  <1>1. IInv => AdvertisedIsFound
    <2> SUFFICES ASSUME IInv, NEW a \in Addresses
                 PROVE  (\E n \in DOMAIN ctxXml : IsNamedBy(ctxXml, n, a))
                          <=> Find(doc, a) \notin {0, Null}
      BY DEF AdvertisedIsFound
    <2>1. DOMAIN ctxXml = DOMAIN doc
      BY DEF IInv, TypeOK
    <2>2. \A n \in DOMAIN doc : IsNamedBy(ctxXml, n, a) <=> IsNamedBy(doc, n, a)
      BY ServedIsText, TextHasShape, ShapeKeepsNames DEF IInv
    <2>3. (\E n \in DOMAIN doc : IsNamedBy(doc, n, a)) <=> Find(doc, a) \notin {0, Null}
      BY FindIsRight, NodeNumbers DEF FoundIs, IInv
    <2> QED BY <2>1, <2>2, <2>3
  <1> QED BY <1>1, AlwaysIInv, PTL

\* The text made at the start stays that of the document.
THEOREM TextNeverStale == Spec => []ServedTextCurrent
  <1>1. IInv => ServedTextCurrent
    BY DEF IInv
  <1> QED BY <1>1, AlwaysIInv, PTL

\* A command dereferences a null pointer in the two known cases only.
THEOREM OnlyKnownFaults == Spec => []FaultsExplained
  <1>1. IInv => FaultsExplained
    BY DEF IInv
  <1> QED BY <1>1, AlwaysIInv, PTL

\* In any well-formed document and for ever: the linked devices that stream are the
\* ones served, each in the directions it streams in, with the exception, exactly, of
\* those that stream out and have an input channel.
THEOREM ClassFits == Spec => []ServesUnlessMixed
  <1>1. ASSUME IInv, IInv', [Next]_vars, ServesUnlessMixed PROVE ServesUnlessMixed'
    <2>1. ctxXml' = ctxXml /\ devices' = devices
      BY <1>1 DEF Next, Read, Write, vars
    <2>2. \A dev : /\ ScanDirections(dev)' = ScanDirections(dev)
                   /\ ChannelDirections(dev)' = ChannelDirections(dev)
      BY <1>1, <2>1, SameDirections
    <2>3. PICK links \in Links :
             {device.id : device \in devices} = {dev \in links : ScanDirections(dev) # {}}
      BY <1>1 DEF ServesUnlessMixed
    <2>4. {device.id : device \in devices'} = {dev \in links : ScanDirections(dev)' # {}}
      BY <2>1, <2>2, <2>3
    <2>5. \A device \in devices' :
             ScanDirections(device.id)' # Served(device.class)
               <=> "output" \in ScanDirections(device.id)' /\ "input" \in ChannelDirections(device.id)'
      BY <1>1, <2>1, <2>2 DEF ServesUnlessMixed
    <2> QED BY <2>4, <2>5 DEF ServesUnlessMixed
  <1> QED BY <1>1, ClassChosen, AlwaysIInv, PTL DEF Spec
=============================================================================

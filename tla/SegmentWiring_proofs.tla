------------------------ MODULE SegmentWiring_proofs ------------------------
(***************************************************************************)
(* The helpers of a table copy find each other, for clusters of any number *)
(* of segments on any number of hosts, with any port range.                *)
(*                                                                         *)
(* The argument: whatever the strategy and the connection mode, the copy   *)
(* of source segment s is one connection, Wire(s), from s to the segment s *)
(* modulo the number of destinations, through entry s of the address       *)
(* lists.  The dials of all the diallers are these connections, each once, *)
(* and each entry leads to the listener that its connection needs.  That   *)
(* holds because cbcopy puts lists together only when every listener has   *)
(* its file, so that the port at place l + 1 is that of listener l, and    *)
(* because no two listeners of a host have the same port.                  *)
(***************************************************************************)
EXTENDS SegmentWiring, FiniteSetTheorems, NaturalsInduction, TLAPS

----------------------------------------------------------------------------
(* Arithmetic. *)

\* The remainder and the quotient.
LEMMA DivMod ==
    ASSUME NEW i \in Nat, NEW n \in Nat \ {0}
    PROVE  i % n \in 0 .. n - 1 /\ i \div n \in Nat /\ i = n * (i \div n) + (i % n)
  OBVIOUS

\* The remainder is determined by the division.
LEMMA ModIs ==
    ASSUME NEW n \in Nat \ {0}, NEW q \in Nat, NEW r \in 0 .. n - 1
    PROVE  (n * q + r) % n = r
  OBVIOUS

\* A number below the modulus is its own remainder.
LEMMA ModSmall ==
    ASSUME NEW n \in Nat \ {0}, NEW r \in 0 .. n - 1
    PROVE  r % n = r
<1>1. n * 0 + r = r
  OBVIOUS
<1> QED
  BY <1>1, ModIs

\* Every n-th number from d on has the remainder d.
LEMMA ModEvery ==
    ASSUME NEW n \in Nat \ {0}, NEW d \in 0 .. n - 1, NEW i \in Nat, i >= d
    PROVE  (i - d) % n = 0 <=> i % n = d
<1>1. ASSUME (i - d) % n = 0 PROVE i % n = d
  <2>1. i - d \in Nat
    OBVIOUS
  <2>2. PICK q \in Nat : i - d = n * q
    <3> DEFINE k == i - d
    <3> HIDE DEF k
    <3>1. k \in Nat /\ k % n = 0
      BY <1>1, <2>1 DEF k
    <3>2. k \div n \in Nat /\ k = n * (k \div n) + 0
      BY <3>1, DivMod
    <3> QED
      BY <3>1, <3>2 DEF k
  <2>3. i = n * q + d
    BY <2>2
  <2> QED
    BY <2>3, ModIs
<1>2. ASSUME i % n = d PROVE (i - d) % n = 0
  <2>1. PICK q \in Nat : i = n * q + d
    BY <1>2, DivMod
  <2>2. i - d = n * q + 0 /\ 0 \in 0 .. n - 1
    BY <2>1
  <2> QED
    BY <2>2, ModIs
<1> QED
  BY <1>1, <1>2

\* The remainder of the next number.
LEMMA ModNext ==
    ASSUME NEW n \in Nat \ {0}, NEW i \in Nat
    PROVE  (i + 1) % n = IF (i % n) + 1 = n THEN 0 ELSE (i % n) + 1
<1>1. PICK q \in Nat, r \in 0 .. n - 1 : i = n * q + r /\ i % n = r
  BY DivMod
<1>2. CASE r + 1 = n
  <2>1. i + 1 = n * (q + 1) + 0 /\ 0 \in 0 .. n - 1 /\ q + 1 \in Nat
    BY <1>1, <1>2
  <2>2. (n * (q + 1) + 0) % n = 0
    BY <2>1, ModIs
  <2> QED
    BY <1>1, <1>2, <2>1, <2>2
<1>3. CASE r + 1 # n
  <2>1. i + 1 = n * q + (r + 1) /\ r + 1 \in 0 .. n - 1
    BY <1>1, <1>3
  <2>2. (n * q + (r + 1)) % n = r + 1
    BY <2>1, ModIs
  <2> QED
    BY <1>1, <1>3, <2>1, <2>2
<1> QED
  BY <1>2, <1>3

----------------------------------------------------------------------------
(* Induction over the natural numbers, from their well-foundedness. *)

\* A set of numbers that holds 0 and with each number the next is all of them.
LEMMA Counting ==
    ASSUME NEW P, P \subseteq Nat, 0 \in P, \A n \in P : n + 1 \in P
    PROVE  P = Nat
<1> SUFFICES ASSUME Nat \ P # {} PROVE FALSE
  OBVIOUS
<1>1. PICK m \in Nat \ P : \A k \in Nat \ P : ~(<<k, m>> \in OpToRel(<, Nat))
  <2>1. IsWellFoundedOn(OpToRel(<, Nat), Nat)
    BY NatLessThanWellFounded
  <2> QED
    BY <2>1, WFMin
<1>2. \A k \in Nat \ P : ~(k < m)
  BY <1>1 DEF OpToRel
<1>3. m - 1 \in Nat /\ m - 1 < m /\ (m - 1) + 1 = m
  OBVIOUS
<1> QED
  BY <1>2, <1>3

\* The counter of FormDestSegsHelperAddress and formClientNumbers is the remainder.
LEMMA RoundRobinIs ==
    ASSUME NEW n \in Nat \ {0}
    PROVE  \A i \in Nat : RoundRobin(n)[i] = i % n
<1> DEFINE Def(j) == j = [i \in Nat |-> IF i = 0 THEN 0
                                        ELSE IF j[i - 1] + 1 = n THEN 0 ELSE j[i - 1] + 1]
           f == [i \in Nat |-> i % n]
<1>1. Def(f)
  <2>1. \A i \in Nat : f[i] = IF i = 0 THEN 0 ELSE IF f[i - 1] + 1 = n THEN 0 ELSE f[i - 1] + 1
    <3> SUFFICES ASSUME NEW i \in Nat
                 PROVE  f[i] = IF i = 0 THEN 0 ELSE IF f[i - 1] + 1 = n THEN 0 ELSE f[i - 1] + 1
      OBVIOUS
    <3>1. CASE i = 0
      <4>1. 0 \in 0 .. n - 1
        OBVIOUS
      <4> QED
        BY <3>1, <4>1, ModSmall
    <3>2. CASE i # 0
      <4>1. i - 1 \in Nat /\ (i - 1) + 1 = i
        BY <3>2
      <4> QED
        BY <3>2, <4>1, ModNext
    <3> QED
      BY <3>1, <3>2
  <2> QED
    BY <2>1
<1>2. Def(RoundRobin(n))
  BY <1>1 DEF RoundRobin
<1> DEFINE j == RoundRobin(n)
           P == {i \in Nat : j[i] = i % n}
<1> HIDE DEF j
<1>3. \A i \in Nat : j[i] = IF i = 0 THEN 0 ELSE IF j[i - 1] + 1 = n THEN 0 ELSE j[i - 1] + 1
  BY <1>2 DEF j
<1>4. 0 \in P
  <2>1. 0 \in 0 .. n - 1
    OBVIOUS
  <2> QED
    BY <1>3, <2>1, ModSmall
<1>5. ASSUME NEW i \in P PROVE i + 1 \in P
  <2>1. i \in Nat /\ i + 1 \in Nat /\ i + 1 # 0 /\ (i + 1) - 1 = i /\ j[i] = i % n
    BY <1>5
  <2>2. j[i + 1] = IF (i % n) + 1 = n THEN 0 ELSE (i % n) + 1
    BY <1>3, <2>1
  <2> QED
    BY <2>1, <2>2, ModNext
<1>6. P = Nat
  BY <1>4, <1>5, Counting
<1> QED
  BY <1>6 DEF j

----------------------------------------------------------------------------
(* The strategies and the helpers. *)

\* The connection that copies source segment s: its listener, its dialler, and the
\* entry of the address lists that leads from the one to the other.
Peer(s) == IF IsMasterCopy THEN Master ELSE s % NDst
Entry(s) == IF IsMasterCopy THEN 0 ELSE s
Wire(s) == <<s, Peer(s), Entry(s)>>
Meets(s) == IF Push THEN Peer(s) ELSE s
Calls(s) == IF Push THEN s ELSE Peer(s)

\* The number of listeners that are no master.
NServers == IF Strategy = "ExtDestLtCopy" /\ Push THEN NDst ELSE NSrc

\* What CreateCopyStrategy says of the numbers of segments.
ShapeInv ==
    /\ NSrc \in Nat \ {0} /\ NDst \in Nat \ {0}
    /\ Strategy \in {"CopyOnMaster", "CopyOnSegment", "ExtDestGeCopy", "ExtDestLtCopy"}
    /\ Strategy = "CopyOnSegment" => NSrc = NDst
    /\ Strategy = "ExtDestGeCopy" => NSrc <= NDst
    /\ Strategy = "ExtDestLtCopy" => NDst < NSrc

\* The shapes are those of CreateCopyStrategy.
LEMMA ShapesOk == shape \in Shapes => ShapeInv
<1> SUFFICES ASSUME shape \in Shapes PROVE ShapeInv
  OBVIOUS
<1>1. PICK ns \in 1 .. MaxSegs, nd \in 1 .. MaxSegs, r \in BOOLEAN, s \in BOOLEAN, v \in BOOLEAN :
          shape.nSrc = ns /\ shape.nDst = nd
          /\ shape.strategy = CreateCopyStrategy(r, s, v, ns, nd)
  BY DEF Shapes
<1>2. ns \in Nat \ {0} /\ nd \in Nat \ {0}
  BY WiringAssumption
<1>3. CreateCopyStrategy(r, s, v, ns, nd) = IF r \/ s THEN "CopyOnMaster"
                                            ELSE IF v /\ ns = nd THEN "CopyOnSegment"
                                            ELSE IF nd >= ns THEN "ExtDestGeCopy"
                                            ELSE "ExtDestLtCopy"
  BY <1>2 DEF CreateCopyStrategy
<1> QED
  BY <1>1, <1>2, <1>3 DEF ShapeInv, NSrc, NDst, Strategy

\* Who listens.
LEMMA ListenersAre ==
    ASSUME ShapeInv
    PROVE  /\ NServers \in Nat \ {0}
           /\ Listeners = IF IsMasterCopy THEN {Master} ELSE Segs(NServers)
<1>1. CASE IsMasterCopy
  BY <1>1 DEF ShapeInv, Listeners, DestHelpers, SrcHelpers, NServers, IsMasterCopy
<1>2. CASE ~IsMasterCopy /\ Push
  <2>1. CASE Strategy = "ExtDestGeCopy"
    <3>1. Segs(NDst) \cap Segs(NSrc) = Segs(NSrc)
      BY <2>1 DEF ShapeInv, Segs
    <3> QED
      BY <1>2, <2>1, <3>1 DEF ShapeInv, Listeners, DestHelpers, FormAllSegsIds, NServers
  <2>2. CASE Strategy # "ExtDestGeCopy"
    BY <1>2, <2>2 DEF ShapeInv, Listeners, DestHelpers, NServers, IsMasterCopy
  <2> QED
    BY <2>1, <2>2
<1>3. CASE ~IsMasterCopy /\ ~Push
  BY <1>3 DEF ShapeInv, Listeners, SrcHelpers, NServers
<1> QED
  BY <1>1, <1>2, <1>3

\* Each listener is a source segment or the one some source segment is copied to.
LEMMA ConnectionIs ==
    ASSUME ShapeInv, NEW s \in SrcHelpers
    PROVE  Meets(s) \in Listeners /\ Calls(s) \in Dialers /\ Peer(s) \in DestHelpers
<1>1. CASE IsMasterCopy
  BY <1>1 DEF SrcHelpers, DestHelpers, Peer, Meets, Calls, Listeners, Dialers, IsMasterCopy
<1>2. CASE ~IsMasterCopy
  <2>1. s \in 0 .. NSrc - 1 /\ s \in Nat /\ SrcHelpers = Segs(NSrc)
    BY <1>2 DEF ShapeInv, SrcHelpers, Segs
  <2>2. Peer(s) = s % NDst /\ s % NDst \in 0 .. NDst - 1
    BY <1>2, <2>1, DivMod DEF Peer, ShapeInv
  <2>3. Peer(s) \in DestHelpers
    <3>1. CASE Strategy = "ExtDestGeCopy"
      <4>1. s \in 0 .. NDst - 1
        BY <2>1, <3>1 DEF ShapeInv
      <4>2. s % NDst = s
        BY <4>1, ModSmall DEF ShapeInv
      <4> QED
        BY <1>2, <2>1, <2>2, <3>1, <4>2 DEF DestHelpers, FormAllSegsIds, Segs
    <3>2. CASE Strategy # "ExtDestGeCopy"
      BY <1>2, <2>2, <3>2 DEF DestHelpers, Segs
    <3> QED
      BY <3>1, <3>2
  <2> QED
    BY <2>3 DEF Meets, Calls, Listeners, Dialers
<1> QED
  BY <1>1, <1>2

\* Two source segments use different entries.
LEMMA EntriesDiffer ==
    ASSUME NEW s \in SrcHelpers, NEW t \in SrcHelpers, Entry(s) = Entry(t)
    PROVE  s = t
  BY DEF Entry, SrcHelpers

----------------------------------------------------------------------------
(* The port list. *)

\* The contents up to c, of the contents 0 .. n - 1.
LEMMA Rank ==
    ASSUME NEW n \in Nat, NEW c \in Segs(n)
    PROVE  Cardinality({m \in Segs(n) : m <= c}) = c + 1
<1>1. c \in Nat /\ {m \in Segs(n) : m <= c} = 0 .. c
  BY DEF Segs
<1>2. 0 \in Int /\ c \in Int /\ ~(0 > c) /\ c - 0 + 1 = c + 1
  BY <1>1
<1>3. Cardinality(0 .. c) = IF 0 > c THEN 0 ELSE c - 0 + 1
  BY <1>2, FS_Interval
<1> QED
  BY <1>1, <1>2, <1>3

\* The place of a listener in the port list.
Place(l) == IF IsMasterCopy THEN 1 ELSE l + 1

\* The number of listeners, and where sort.Ints puts each of them.
LEMMA PlaceIs ==
    ASSUME ShapeInv
    PROVE  /\ IsFiniteSet(Listeners)
           /\ Cardinality(Listeners) = IF IsMasterCopy THEN 1 ELSE NServers
           /\ \A l \in Listeners :
                 /\ Place(l) \in 1 .. Cardinality(Listeners)
                 /\ \A x \in Listeners :
                       Cardinality({m \in Listeners : m <= x}) = Place(l) <=> x = l
<1>1. NServers \in Nat \ {0} /\ Listeners = IF IsMasterCopy THEN {Master} ELSE Segs(NServers)
  BY ListenersAre
<1>2. CASE IsMasterCopy
  <2>1. Listeners = {Master}
    BY <1>1, <1>2
  <2>2. IsFiniteSet(Listeners) /\ Cardinality(Listeners) = 1
    BY <2>1, FS_Singleton
  <2>3. Master <= Master
    BY DEF Master
  <2>4. \A x \in Listeners : {m \in Listeners : m <= x} = Listeners
    BY <2>1, <2>3
  <2> QED
    BY <1>2, <2>1, <2>2, <2>4 DEF Place
<1>3. CASE ~IsMasterCopy
  <2> DEFINE n == NServers
  <2>1. Listeners = Segs(n) /\ n \in Nat \ {0}
    BY <1>1, <1>3
  <2> HIDE DEF n
  <2>2. 0 \in Int /\ n - 1 \in Int /\ ~(0 > n - 1) /\ (n - 1) - 0 + 1 = n
    BY <2>1
  <2>3. /\ IsFiniteSet(0 .. n - 1)
        /\ Cardinality(0 .. n - 1) = IF 0 > n - 1 THEN 0 ELSE (n - 1) - 0 + 1
    BY <2>2, FS_Interval
  <2>4. IsFiniteSet(Segs(n)) /\ Cardinality(Segs(n)) = n
    BY <2>2, <2>3 DEF Segs
  <2>5. \A x \in Segs(n) : Cardinality({m \in Segs(n) : m <= x}) = x + 1
    BY <2>1, Rank
  <2>6. \A l \in Segs(n) : /\ l + 1 \in 1 .. n
                           /\ \A x \in Segs(n) : x + 1 = l + 1 <=> x = l
    BY <2>1 DEF Segs
  <2>7. \A l \in Listeners : Place(l) = l + 1
    BY <1>3 DEF Place
  <2> QED
    BY <1>3, <2>1, <2>4, <2>5, <2>6, <2>7 DEF n
<1> QED
  BY <1>2, <1>3

\* processPortList keeps the port of each content, at the place where sort.Ints puts it.
LEMMA SortedPorts ==
    ASSUME NEW rows, NEW C, NEW l \in C, NEW p, NEW k \in 1 .. Cardinality(C),
           {r.content : r \in rows} = C,
           \A x \in C : Cardinality({m \in C : m <= x}) = k <=> x = l,
           \A r \in rows : r.content = l => r.port = p
    PROVE  ProcessPortList(rows)[k].port = p
<1> DEFINE keys == {r.content : r \in rows}
           segMap(x) == (CHOOSE r \in rows : r.content = x).port
           key(i) == CHOOSE x \in keys : Cardinality({m \in keys : m <= x}) = i
<1>1. key(k) = l
  OBVIOUS
<1>2. segMap(l) = p
  <2>1. \E r \in rows : r.content = l
    OBVIOUS
  <2>2. (CHOOSE r \in rows : r.content = l) \in rows
        /\ (CHOOSE r \in rows : r.content = l).content = l
    BY <2>1
  <2> QED
    BY <2>2
<1>3. k \in 1 .. Cardinality(keys)
  OBVIOUS
<1> HIDE DEF key, segMap, keys
<1>4. ProcessPortList(rows)
          = [i \in 1 .. Cardinality(keys) |-> [content |-> key(i), port |-> segMap(key(i))]]
  BY DEF ProcessPortList, key, segMap, keys
<1>5. ProcessPortList(rows)[k].port = segMap(key(k))
  BY <1>3, <1>4
<1> QED
  BY <1>1, <1>2, <1>5

----------------------------------------------------------------------------
(* The inductive invariant. *)

\* The port of a listener is its own on its host, and its file comes after it.
BoundInv ==
    /\ bound \in [Listeners -> 0 .. NPorts]
    /\ files \subseteq Listeners
    /\ \A l \in files : bound[l] # 0
    /\ \A k, l \in Listeners : bound[k] # 0 /\ bound[k] = bound[l] /\ HostOf(k) = HostOf(l) => k = l

\* Once there is a port list it is complete, with every port at its place.
PortsInv ==
    ports # <<>> =>
        /\ files = Listeners
        /\ Len(ports) = IF IsMasterCopy THEN 1 ELSE NServers
        /\ \A l \in Listeners : ports[Place(l)].port = bound[l]

\* Every connection is the one that copies its source segment.
ConnsInv == refused = {} /\ conns \subseteq {Wire(s) : s \in SrcHelpers}

WiringInv == ShapeInv /\ BoundInv /\ PortsInv /\ ConnsInv

----------------------------------------------------------------------------
(* The listening side. *)

\* The clusters, the table and the flags are fixed, and all that follows from them.
LEMMA SameShape ==
    ASSUME shape' = shape
    PROVE  /\ Listeners' = Listeners /\ SrcHelpers' = SrcHelpers /\ NServers' = NServers
           /\ IsMasterCopy' <=> IsMasterCopy
           /\ ShapeInv => ShapeInv'
           /\ \A x : HostOf(x)' = HostOf(x) /\ Wire(x)' = Wire(x) /\ Place(x)' = Place(x)
<1>1. NSrc' = NSrc /\ NDst' = NDst /\ Strategy' = Strategy /\ Push' = Push
  BY DEF NSrc, NDst, Strategy, Push
<1>2. IsMasterCopy' <=> IsMasterCopy
  BY <1>1 DEF IsMasterCopy
<1>3. SrcHelpers' = SrcHelpers
  BY <1>1, <1>2 DEF SrcHelpers
<1>4. DestHelpers' = DestHelpers
  BY <1>1, <1>2 DEF DestHelpers, FormAllSegsIds, IsMasterCopy
<1>5. Listeners' = Listeners
  BY <1>1, <1>3, <1>4 DEF Listeners
<1>6. NServers' = NServers
  BY <1>1 DEF NServers
<1>7. ShapeInv => ShapeInv'
  BY <1>1 DEF ShapeInv
<1>8. \A x : HostOf(x)' = HostOf(x)
  BY DEF HostOf
<1>9. \A x : Wire(x)' = Wire(x) /\ Place(x)' = Place(x)
  BY <1>1, <1>2 DEF Wire, Peer, Entry, Place
<1> QED
  BY <1>2, <1>3, <1>5, <1>6, <1>7, <1>8, <1>9

\* The first free port is free.
LEMMA MinFree ==
    ASSUME NEW h, FreePorts(h) # {}
    PROVE  Min(FreePorts(h)) \in FreePorts(h)
<1>1. FreePorts(h) \subseteq Nat
  BY WiringAssumption DEF FreePorts
<1>2. PICK m \in FreePorts(h) : \A k \in FreePorts(h) : ~(<<k, m>> \in OpToRel(<, Nat))
  <2>1. IsWellFoundedOn(OpToRel(<, Nat), Nat)
    BY NatLessThanWellFounded
  <2> QED
    BY <1>1, <2>1, WFMin
<1>3. \A k \in FreePorts(h) : ~(k < m)
  BY <1>1, <1>2 DEF OpToRel
<1>4. \A k \in FreePorts(h) : m <= k
  <2> HIDE DEF FreePorts
  <2> QED
    BY <1>1, <1>3
<1> QED
  BY <1>4 DEF Min

\* A helper that listens takes a port of its host nobody has, before the list is made.
LEMMA WiringListens ==
    ASSUME WiringInv, NEW l \in Listeners, HelperListens(l)
    PROVE  WiringInv'
<1>1. shape' = shape /\ files' = files /\ ports' = ports /\ conns' = conns /\ refused' = refused
      /\ bound[l] = 0
  BY DEF HelperListens
<1>2. /\ Listeners' = Listeners /\ SrcHelpers' = SrcHelpers /\ ShapeInv'
      /\ \A x : HostOf(x)' = HostOf(x) /\ Wire(x)' = Wire(x)
  BY <1>1, SameShape DEF WiringInv
<1>3. l \notin files /\ ports = <<>>
  BY <1>1 DEF WiringInv, BoundInv, PortsInv
<1>4. BoundInv'
  <2>1. CASE bound' = bound
    BY <1>1, <1>2, <2>1 DEF WiringInv, BoundInv
  <2>2. CASE bound' # bound
    <3> DEFINE p == Min(FreePorts(HostOf(l)))
    <3>1. p \in FreePorts(HostOf(l)) /\ bound' = [bound EXCEPT ![l] = p]
      BY <2>2, MinFree DEF HelperListens
    <3> HIDE DEF p
    <3>2. p \in 1 .. NPorts /\ \A k \in Listeners : HostOf(k) = HostOf(l) => bound[k] # p
      BY <3>1 DEF FreePorts, PortsInUse
    <3>3. bound \in [Listeners -> 0 .. NPorts] /\ files \subseteq Listeners
          /\ \A k \in files : bound[k] # 0
      BY DEF WiringInv, BoundInv
    <3>4. bound'[l] = p /\ \A k \in Listeners : k # l => bound'[k] = bound[k]
      BY <3>1, <3>3
    <3>5. bound' \in [Listeners -> 0 .. NPorts]
      BY <3>1, <3>2, <3>3, WiringAssumption
    <3>6. \A k \in files : bound'[k] # 0
      BY <1>3, <3>3, <3>4
    <3>7. ASSUME NEW j \in Listeners, NEW k \in Listeners, bound'[j] # 0, bound'[j] = bound'[k],
                 HostOf(j) = HostOf(k)
          PROVE  j = k
      <4>1. CASE j # l /\ k # l
        BY <3>4, <3>7, <4>1 DEF WiringInv, BoundInv
      <4>2. CASE j = l /\ k # l
        BY <3>2, <3>4, <3>7, <4>2
      <4>3. CASE j # l /\ k = l
        BY <3>2, <3>4, <3>7, <4>3
      <4> QED
        BY <4>1, <4>2, <4>3
    <3> QED
      BY <1>1, <1>2, <3>3, <3>5, <3>6, <3>7 DEF BoundInv
  <2> QED
    BY <2>1, <2>2
<1>5. PortsInv'
  BY <1>1, <1>3 DEF PortsInv
<1>6. ConnsInv'
  BY <1>1, <1>2 DEF WiringInv, ConnsInv
<1> QED
  BY <1>2, <1>4, <1>5, <1>6 DEF WiringInv

\* A helper that has a port writes it to its file.
LEMMA WiringWritesFile ==
    ASSUME WiringInv, NEW l \in Listeners, HelperWritesFile(l)
    PROVE  WiringInv'
<1>1. shape' = shape /\ files' = files \cup {l} /\ ports' = ports /\ conns' = conns
      /\ refused' = refused /\ bound' = bound /\ bound[l] # 0 /\ l \notin files
  BY DEF HelperWritesFile
<1>2. /\ Listeners' = Listeners /\ SrcHelpers' = SrcHelpers /\ ShapeInv'
      /\ \A x : HostOf(x)' = HostOf(x) /\ Wire(x)' = Wire(x)
  BY <1>1, SameShape DEF WiringInv
<1>3. ports = <<>>
  BY <1>1 DEF WiringInv, PortsInv
<1>4. BoundInv'
  BY <1>1, <1>2 DEF WiringInv, BoundInv
<1>5. PortsInv'
  BY <1>1, <1>3 DEF PortsInv
<1>6. ConnsInv'
  BY <1>1, <1>2 DEF WiringInv, ConnsInv
<1> QED
  BY <1>2, <1>4, <1>5, <1>6 DEF WiringInv

----------------------------------------------------------------------------
(* The poll. *)

\* waitForHelperPorts counts to the number of listeners.
LEMMA StartedCount ==
    ASSUME ShapeInv, NEW n, IsCopyFromStarted(n)
    PROVE  n = IF IsMasterCopy THEN 1 ELSE NServers
<1>1. CASE IsMasterCopy
  BY <1>1 DEF IsCopyFromStarted, IsMasterCopy
<1>2. CASE ~IsMasterCopy /\ Strategy = "ExtDestLtCopy"
  BY <1>2 DEF IsCopyFromStarted, NServers, NListen
<1>3. CASE ~IsMasterCopy /\ Strategy # "ExtDestLtCopy"
  BY <1>3 DEF IsCopyFromStarted, NServers
<1> QED
  BY <1>1, <1>2, <1>3

\* As many different rows as there are listeners are the rows of all listeners.
LEMMA AllRows ==
    ASSUME ShapeInv, BoundInv, IsCopyFromStarted(Len(ProcessPortList(PortRows)))
    PROVE  /\ {r.content : r \in PortRows} = Listeners /\ files = Listeners
           /\ \A r \in PortRows : r.port = bound[r.content]
           /\ Len(ProcessPortList(PortRows)) = IF IsMasterCopy THEN 1 ELSE NServers
<1> DEFINE keys == {r.content : r \in PortRows}
<1>1. keys \subseteq files /\ \A r \in PortRows : r.port = bound[r.content]
  BY DEF PortRows
<1>2. keys \subseteq Listeners
  BY <1>1 DEF BoundInv
<1>4. IsFiniteSet(Listeners) /\ Cardinality(Listeners) = IF IsMasterCopy THEN 1 ELSE NServers
  BY PlaceIs
<1>5. IsFiniteSet(keys) /\ Cardinality(keys) \in Nat
      /\ (Cardinality(Listeners) = Cardinality(keys) => Listeners = keys)
  BY <1>2, <1>4, FS_Subset, FS_CardinalityType
<1>6. Len(ProcessPortList(PortRows)) = Cardinality(keys)
  <2> HIDE DEF keys
  <2>1. \E f : ProcessPortList(PortRows) = [i \in 1 .. Cardinality(keys) |-> f[i]]
    <3> DEFINE segMap(k) == (CHOOSE r \in PortRows : r.content = k).port
               key(i) == CHOOSE k \in keys : Cardinality({m \in keys : m <= k}) = i
               g == [i \in 1 .. Cardinality(keys) |-> [content |-> key(i), port |-> segMap(key(i))]]
    <3>1. ProcessPortList(PortRows) = g
      BY DEF ProcessPortList, keys
    <3> HIDE DEF segMap, key
    <3>2. g = [i \in 1 .. Cardinality(keys) |-> g[i]]
      OBVIOUS
    <3> QED
      BY <3>1, <3>2
  <2> QED
    BY <1>5, <2>1
<1>7. Cardinality(keys) = IF IsMasterCopy THEN 1 ELSE NServers
  BY <1>6, StartedCount
<1>8. keys = Listeners
  BY <1>4, <1>5, <1>7
<1> QED
  BY <1>1, <1>6, <1>7, <1>8 DEF BoundInv

\* cbcopy takes the ports when they are all there, and sorts them.
LEMMA WiringPoll == WiringInv /\ PollPorts => WiringInv'
<1> SUFFICES ASSUME WiringInv, PollPorts PROVE WiringInv'
  OBVIOUS
<1>1. shape' = shape /\ files' = files /\ conns' = conns /\ refused' = refused /\ bound' = bound
  BY DEF PollPorts
<1>2. /\ Listeners' = Listeners /\ SrcHelpers' = SrcHelpers /\ ShapeInv' /\ NServers' = NServers
      /\ IsMasterCopy' <=> IsMasterCopy
      /\ \A x : HostOf(x)' = HostOf(x) /\ Wire(x)' = Wire(x) /\ Place(x)' = Place(x)
  BY <1>1, SameShape DEF WiringInv
<1>3. ShapeInv /\ BoundInv
  BY DEF WiringInv
<1> DEFINE rows == PortRows
           list == ProcessPortList(rows)
<1>4. ports' = list /\ IsCopyFromStarted(Len(list))
  BY DEF PollPorts
<1>5. /\ {r.content : r \in rows} = Listeners /\ files = Listeners
      /\ \A r \in rows : r.port = bound[r.content]
      /\ Len(list) = IF IsMasterCopy THEN 1 ELSE NServers
  BY <1>3, <1>4, AllRows
<1> HIDE DEF rows
<1>7. ASSUME NEW l \in Listeners PROVE list[Place(l)].port = bound[l]
  <2>1. \A r \in rows : r.content = l => r.port = bound[l]
    BY <1>5
  <2>2. /\ Place(l) \in 1 .. Cardinality(Listeners)
        /\ \A x \in Listeners : Cardinality({m \in Listeners : m <= x}) = Place(l) <=> x = l
    BY <1>3, <1>7, PlaceIs
  <2> DEFINE C == Listeners
             k == Place(l)
             p == bound[l]
  <2>3. /\ l \in C /\ k \in 1 .. Cardinality(C) /\ {r.content : r \in rows} = C
        /\ \A x \in C : Cardinality({m \in C : m <= x}) = k <=> x = l
        /\ \A r \in rows : r.content = l => r.port = p
    BY <1>5, <1>7, <2>1, <2>2
  <2> HIDE DEF C, k, p
  <2>4. ProcessPortList(rows)[k].port = p
    BY <2>3, SortedPorts, SMT
  <2> QED
    BY <2>4 DEF k, p
<1> HIDE DEF list
<1>8. BoundInv'
  BY <1>1, <1>2, <1>3 DEF BoundInv
<1>9. PortsInv'
  BY <1>1, <1>2, <1>4, <1>5, <1>7 DEF PortsInv
<1>10. ConnsInv'
  BY <1>1, <1>2 DEF WiringInv, ConnsInv
<1> QED
  BY <1>2, <1>8, <1>9, <1>10 DEF WiringInv

----------------------------------------------------------------------------
(* The addresses and the dials. *)

\* Where no destination has several sources, segment s is copied to segment s.
LEMMA OwnListener ==
    ASSUME ShapeInv, ~IsMasterCopy, NEW s \in SrcHelpers,
           Strategy # "ExtDestLtCopy" \/ ~Push
    PROVE  /\ Meets(s) = s
           /\ Strategy # "ExtDestLtCopy" => Peer(s) = s
<1>1. s \in 0 .. NSrc - 1
  BY DEF SrcHelpers, Segs
<1>2. ASSUME Strategy # "ExtDestLtCopy" PROVE Peer(s) = s
  <2>1. s \in 0 .. NDst - 1 /\ NDst \in Nat \ {0}
    BY <1>1, <1>2 DEF ShapeInv, IsMasterCopy
  <2> QED
    BY <2>1, ModSmall DEF Peer
<1> QED
  BY <1>2 DEF Meets

\* The lists hold the address of the listener of each source segment at its entry.
LEMMA AddressesAre ==
    ASSUME WiringInv, ports # <<>>
    PROVE  /\ Len(Addresses) = IF IsMasterCopy THEN 1 ELSE NSrc
           /\ \A s \in SrcHelpers :
                 Addresses[Entry(s) + 1] = <<HostOf(Meets(s)), bound[Meets(s)]>>
<1>1. ShapeInv /\ BoundInv
  BY DEF WiringInv
<1>2. /\ Len(ports) = IF IsMasterCopy THEN 1 ELSE NServers
      /\ \A l \in Listeners : ports[Place(l)].port = bound[l]
  BY DEF WiringInv, PortsInv
<1>3. \A s \in SrcHelpers : Meets(s) \in Listeners
  BY <1>1, ConnectionIs
<1>4. CASE IsMasterCopy
  <2>1. Addresses = <<<<MHost, ports[1].port>>>>
    BY <1>4 DEF Addresses, FormMasterHelperAddress, IsMasterCopy
  <2>2. \A s \in SrcHelpers : /\ s = Master /\ Entry(s) = 0 /\ Meets(s) = Master
                              /\ Place(Master) = 1 /\ HostOf(Master) = MHost
    BY <1>4 DEF SrcHelpers, Entry, Meets, Peer, Place, HostOf
  <2> QED
    BY <1>2, <1>3, <1>4, <2>1, <2>2
<1>5. CASE ~IsMasterCopy /\ Strategy = "ExtDestLtCopy" /\ Push
  <2> DEFINE j == RoundRobin(NDst)
  <2>1. Addresses = [i \in 1 .. NSrc |-> <<HostOf(j[i - 1]), ports[j[i - 1] + 1].port>>]
    BY <1>5 DEF Addresses, FormDestSegsHelperAddress
  <2>2. \A i \in Nat : j[i] = i % NDst
    BY <1>1, RoundRobinIs DEF ShapeInv
  <2> HIDE DEF j
  <2>3. ASSUME NEW s \in SrcHelpers
        PROVE  Addresses[Entry(s) + 1] = <<HostOf(Meets(s)), bound[Meets(s)]>>
    <3>1. s \in 0 .. NSrc - 1 /\ s \in Nat /\ NSrc \in Nat /\ Entry(s) = s
      BY <1>1, <1>5 DEF SrcHelpers, Segs, ShapeInv, Entry
    <3>2. s + 1 \in 1 .. NSrc /\ (s + 1) - 1 = s
      BY <3>1
    <3>3. j[s] = Meets(s)
      BY <1>5, <2>2, <3>1 DEF Meets, Peer
    <3>4. ports[Meets(s) + 1].port = bound[Meets(s)]
      BY <1>2, <1>3, <1>5 DEF Place
    <3>5. Addresses[s + 1] = <<HostOf(j[(s + 1) - 1]), ports[j[(s + 1) - 1] + 1].port>>
      BY <2>1, <3>2
    <3> QED
      BY <3>1, <3>2, <3>3, <3>4, <3>5
  <2>4. Len(Addresses) = NSrc
    BY <1>1, <2>1 DEF ShapeInv
  <2> QED
    BY <1>5, <2>3, <2>4
<1>6. CASE ~IsMasterCopy /\ ~(Strategy = "ExtDestLtCopy" /\ Push)
  <2>1. Len(ports) = NSrc /\ NSrc \in Nat
    BY <1>1, <1>2, <1>6 DEF NServers, ShapeInv
  <2>2. Addresses = [i \in 1 .. NSrc |-> <<HostOf(i - 1), ports[i].port>>]
    BY <1>6, <2>1 DEF Addresses, FormAllSegsHelperAddress
  <2>3. ASSUME NEW s \in SrcHelpers
        PROVE  Addresses[Entry(s) + 1] = <<HostOf(Meets(s)), bound[Meets(s)]>>
    <3>1. s \in 0 .. NSrc - 1 /\ s \in Nat /\ Entry(s) = s
      BY <1>1, <1>6 DEF SrcHelpers, Segs, ShapeInv, Entry
    <3>2. s + 1 \in 1 .. NSrc /\ (s + 1) - 1 = s
      BY <2>1, <3>1
    <3>3. Meets(s) = s
      BY <1>1, <1>6, OwnListener
    <3>4. ports[s + 1].port = bound[s]
      BY <1>2, <1>3, <1>6, <3>3 DEF Place
    <3>5. Addresses[s + 1] = <<HostOf((s + 1) - 1), ports[s + 1].port>>
      BY <2>2, <3>2
    <3> QED
      BY <3>1, <3>2, <3>3, <3>4, <3>5
  <2>4. Len(Addresses) = NSrc
    BY <2>1, <2>2
  <2> QED
    BY <1>6, <2>3, <2>4
<1> QED
  BY <1>4, <1>5, <1>6

\* The entry of a source segment leads to its listener and to no other.
LEMMA EntryLeads ==
    ASSUME WiringInv, ports # <<>>, NEW s \in SrcHelpers
    PROVE  ListenersAt(Addresses[Entry(s) + 1]) = {Meets(s)}
<1>1. Addresses[Entry(s) + 1] = <<HostOf(Meets(s)), bound[Meets(s)]>>
  BY AddressesAre
<1>2. Meets(s) \in Listeners
  BY ConnectionIs DEF WiringInv
<1>3. bound[Meets(s)] # 0
  BY <1>2 DEF WiringInv, PortsInv, BoundInv
<1>4. \A l \in Listeners :
          HostOf(l) = HostOf(Meets(s)) /\ bound[l] = bound[Meets(s)] => l = Meets(s)
  BY <1>2, <1>3 DEF WiringInv, BoundInv
<1> QED
  BY <1>1, <1>2, <1>4 DEF ListenersAt

\* The dials of createClientImpl are those that the source segments need.
LEMMA TargetsAre ==
    ASSUME ShapeInv, Len(Addresses) = IF IsMasterCopy THEN 1 ELSE NSrc, NEW d \in Dialers
    PROVE  \A i : i \in Targets(d) <=> \E s \in SrcHelpers : Calls(s) = d /\ Entry(s) = i
<1> SUFFICES ASSUME NEW i
             PROVE  i \in Targets(d) <=> \E s \in SrcHelpers : Calls(s) = d /\ Entry(s) = i
  OBVIOUS
<1>0. NSrc \in Nat \ {0} /\ NDst \in Nat \ {0}
  BY DEF ShapeInv
<1>1. CASE IsMasterCopy
  <2>1. NumDests = 0 /\ d = Master
    BY <1>1 DEF NumDests, IsMasterCopy, Dialers, SrcHelpers, DestHelpers
  <2>2. Targets(d) = {0}
    BY <1>1, <2>1 DEF Targets, Segs
  <2> QED
    BY <1>1, <2>1, <2>2 DEF SrcHelpers, Calls, Peer, Entry
<1>2. CASE ~IsMasterCopy /\ Strategy = "ExtDestLtCopy" /\ ~Push
  <2>1. NumDests = NDst /\ NDst < NSrc
    BY <1>2 DEF NumDests, ShapeInv
  <2>2. d \in 0 .. NDst - 1 /\ SrcHelpers = 0 .. NSrc - 1 /\ d # Master
    BY <1>0, <1>2 DEF Dialers, DestHelpers, SrcHelpers, Segs, Master
  <2>3. Targets(d) = {x \in 0 .. NSrc - 1 : x >= d /\ (x - d) % NDst = 0}
    BY <1>0, <1>2, <2>1 DEF Targets, Segs
  <2>4. ASSUME NEW x \in 0 .. NSrc - 1
        PROVE  x >= d /\ (x - d) % NDst = 0 <=> Calls(x) = d /\ Entry(x) = x
    <3>1. Calls(x) = x % NDst /\ Entry(x) = x
      BY <1>2 DEF Calls, Peer, Entry
    <3>2. x \in Nat
      BY <1>0
    <3>3. x % NDst = d => x >= d
      <4>1. PICK q \in Nat : x = NDst * q + (x % NDst)
        BY <1>0, <3>2, DivMod
      <4>2. NDst * q \in Nat
        BY <1>0, <4>1
      <4> QED
        BY <2>2, <3>2, <4>1, <4>2
    <3>4. x >= d => ((x - d) % NDst = 0 <=> x % NDst = d)
      BY <1>0, <2>2, <3>2, ModEvery
    <3> QED
      BY <3>1, <3>3, <3>4
  <2>5. \A x \in SrcHelpers : Entry(x) = x
    BY <1>2 DEF Entry
  <2> QED
    BY <2>2, <2>3, <2>4, <2>5
<1>3. CASE ~IsMasterCopy /\ ~(Strategy = "ExtDestLtCopy" /\ ~Push)
  <2>1. d # Master /\ d \in Nat
    BY <1>0, <1>3 DEF Dialers, SrcHelpers, DestHelpers, FormAllSegsIds, Segs, Master
  <2>2. Push \/ NumDests = 0
    BY <1>3 DEF NumDests
  <2>3. Targets(d) = {d} \cap Segs(NSrc)
    BY <1>0, <1>3, <2>1, <2>2 DEF Targets
  <2>4. SrcHelpers = Segs(NSrc)
    BY <1>3 DEF SrcHelpers
  <2>5. \A s \in SrcHelpers : Calls(s) = s /\ Entry(s) = s
    <3>1. CASE Push
      BY <1>3, <3>1 DEF Calls, Entry
    <3>2. CASE ~Push
      BY <1>3, <3>2, OwnListener DEF Calls, Entry
    <3> QED
      BY <3>1, <3>2
  <2> QED
    BY <2>3, <2>4, <2>5
<1> QED
  BY <1>1, <1>2, <1>3

----------------------------------------------------------------------------
(* The clients of a listener. *)

\* The source segments that are copied through listener l.
Clients(l) == {s \in SrcHelpers : Meets(s) = l}

\* There are finitely many.
LEMMA ClientsFinite ==
    ASSUME ShapeInv
    PROVE  IsFiniteSet(SrcHelpers) /\ \A l : IsFiniteSet(Clients(l))
<1>1. IsFiniteSet({Master})
  BY FS_Singleton
<1>2. 0 \in Int /\ NSrc - 1 \in Int
  BY DEF ShapeInv
<1>3. IsFiniteSet(0 .. NSrc - 1)
  BY <1>2, FS_Interval
<1>4. IsFiniteSet(SrcHelpers)
  BY <1>1, <1>3 DEF SrcHelpers, Segs
<1> QED
  BY <1>4, FS_Subset DEF Clients

\* A listener waits for as many clients as it has: one, or --client-numbers.
LEMMA NumConnIs ==
    ASSUME ShapeInv, NEW l \in Listeners
    PROVE  NumConn(l) = Cardinality(Clients(l))
<1>1. NServers \in Nat \ {0} /\ Listeners = IF IsMasterCopy THEN {Master} ELSE Segs(NServers)
  BY ListenersAre
<1>2. CASE Push /\ Strategy = "ExtDestLtCopy"
  <2> DEFINE content == RoundRobin(NDst)
  <2>1. ~IsMasterCopy /\ SrcHelpers = Segs(NSrc) /\ Listeners = Segs(NDst)
    BY <1>1, <1>2 DEF IsMasterCopy, SrcHelpers, NServers
  <2>2. NSrc \in Nat /\ NDst \in Nat \ {0} /\ NDst < NSrc
    BY <1>2 DEF ShapeInv
  <2>3. \A i \in Segs(NSrc) : content[i] = Meets(i)
    <3>1. \A i \in Nat : content[i] = i % NDst
      BY <2>2, RoundRobinIs
    <3>2. \A i \in Segs(NSrc) : i \in Nat
      BY <2>2 DEF Segs
    <3> HIDE DEF content
    <3> QED
      BY <1>2, <2>1, <3>1, <3>2 DEF Meets, Peer
  <2>4. l \in Segs(NSrc) /\ Meets(l) = l
    <3>1. l \in 0 .. NDst - 1
      BY <2>1 DEF Segs
    <3>2. l % NDst = l
      BY <2>2, <3>1, ModSmall
    <3>3. l \in Segs(NSrc)
      BY <2>2, <3>1 DEF Segs
    <3> QED
      BY <1>2, <2>1, <3>2, <3>3 DEF Meets, Peer
  <2>5. NumConn(l) = FormClientNumbers[l]
    BY <1>2 DEF NumConn
  <2>6. FormClientNumbers = [e \in {content[i] : i \in Segs(NSrc)} |->
                                Cardinality({i \in Segs(NSrc) : content[i] = e})]
    BY DEF FormClientNumbers
  <2> HIDE DEF content
  <2>7. l \in {content[i] : i \in Segs(NSrc)}
    BY <2>3, <2>4
  <2>8. FormClientNumbers[l] = Cardinality({i \in Segs(NSrc) : content[i] = l})
    BY <2>6, <2>7
  <2>9. {i \in Segs(NSrc) : content[i] = l} = Clients(l)
    BY <2>1, <2>3 DEF Clients
  <2> QED
    BY <2>5, <2>8, <2>9
<1>3. CASE ~(Push /\ Strategy = "ExtDestLtCopy")
  <2>1. NumConn(l) = 1
    BY <1>3 DEF NumConn
  <2>2. CASE IsMasterCopy
    BY <1>1, <2>1, <2>2, FS_Singleton DEF Clients, SrcHelpers, Meets, Peer
  <2>3. CASE ~IsMasterCopy
    <3>1. SrcHelpers = Segs(NSrc) /\ Listeners = Segs(NSrc)
      BY <1>1, <1>3, <2>3 DEF SrcHelpers, NServers
    <3>2. \A s \in SrcHelpers : Meets(s) = s
      BY <1>3, <2>3, OwnListener
    <3>3. Clients(l) = {l}
      BY <3>1, <3>2 DEF Clients
    <3> QED
      BY <2>1, <3>3, FS_Singleton
  <2> QED
    BY <2>2, <2>3
<1> QED
  BY <1>2, <1>3

\* As many connections as source segments.
LEMMA WireCount ==
    ASSUME NEW T, IsFiniteSet(T)
    PROVE  Cardinality({Wire(s) : s \in T}) = Cardinality(T)
<1> DEFINE W == {Wire(s) : s \in T}
           f == [s \in T |-> Wire(s)]
<1>1. \A s, t : Wire(s) = Wire(t) => s = t
  BY DEF Wire
<1>2. f \in [T -> W] /\ \A s \in T : f[s] = Wire(s)
  OBVIOUS
<1>3. \A s, t \in T : f[s] = f[t] => s = t
  BY <1>1, <1>2
<1>4. \A w \in W : \E s \in T : f[s] = w
  BY <1>2
<1> HIDE DEF f, W
<1>5. f \in Injection(T, W) /\ f \in Surjection(T, W)
  BY <1>2, <1>3, <1>4 DEF Injection, Surjection, IsInjective
<1>6. ExistsBijection(T, W)
  BY <1>5 DEF ExistsBijection, Bijection
<1>7. Cardinality(W) = Cardinality(T)
  BY <1>6, FS_Bijection
<1> QED
  BY <1>7 DEF W

\* The connections of a listener are those of its clients.
LEMMA AcceptedAre ==
    ASSUME ConnsInv, NEW l
    PROVE  Accepted(l) = {Wire(s) : s \in {t \in Clients(l) : Wire(t) \in conns}}
<1>1. \A s : Wire(s)[1] = s /\ Wire(s)[2] = Peer(s) /\ Wire(s)[3] = Entry(s)
  BY DEF Wire
<1>2. \A s : (IF Push THEN Wire(s)[2] ELSE Wire(s)[1]) = Meets(s)
  BY <1>1 DEF Meets
<1>3. ASSUME NEW c \in Accepted(l)
      PROVE  c \in {Wire(s) : s \in {t \in Clients(l) : Wire(t) \in conns}}
  <2>1. c \in conns /\ (IF Push THEN c[2] ELSE c[1]) = l
    BY <1>3 DEF Accepted
  <2>2. PICK s \in SrcHelpers : c = Wire(s)
    BY <2>1 DEF ConnsInv
  <2>3. s \in Clients(l)
    BY <1>2, <2>1, <2>2 DEF Clients
  <2> QED
    BY <2>1, <2>2, <2>3
<1>4. ASSUME NEW s \in Clients(l), Wire(s) \in conns
      PROVE  Wire(s) \in Accepted(l)
  BY <1>2, <1>4 DEF Clients, Accepted
<1> QED
  BY <1>3, <1>4

\* Who has dialled what.
LEMMA DialledAre ==
    ASSUME ConnsInv, NEW s \in SrcHelpers
    PROVE  <<Calls(s), Entry(s)>> \in Dialled <=> Wire(s) \in conns
<1>1. \A t : Wire(t)[1] = t /\ Wire(t)[2] = Peer(t) /\ Wire(t)[3] = Entry(t)
  BY DEF Wire
<1>2. \A t : <<IF Push THEN Wire(t)[1] ELSE Wire(t)[2], Wire(t)[3]>> = <<Calls(t), Entry(t)>>
  BY <1>1 DEF Calls
<1>3. Dialled = {<<IF Push THEN c[1] ELSE c[2], c[3]>> : c \in conns}
  BY DEF Dialled, ConnsInv
<1>4. ASSUME Wire(s) \in conns PROVE <<Calls(s), Entry(s)>> \in Dialled
  BY <1>2, <1>3, <1>4
<1>5. ASSUME <<Calls(s), Entry(s)>> \in Dialled PROVE Wire(s) \in conns
  <2>1. PICK c \in conns : <<Calls(s), Entry(s)>> = <<IF Push THEN c[1] ELSE c[2], c[3]>>
    BY <1>3, <1>5
  <2>2. PICK t \in SrcHelpers : c = Wire(t)
    BY DEF ConnsInv
  <2>3. Entry(s) = Entry(t)
    BY <1>1, <2>1, <2>2
  <2>4. s = t
    BY <2>3, EntriesDiffer
  <2> QED
    BY <2>2, <2>4
<1> QED
  BY <1>4, <1>5

\* A listener whose client has not dialled yet still accepts.
LEMMA StillAccepts ==
    ASSUME ShapeInv, ConnsInv, NEW s \in SrcHelpers, Wire(s) \notin conns
    PROVE  Cardinality(Accepted(Meets(s))) < NumConn(Meets(s))
<1> DEFINE l == Meets(s)
           T == {t \in Clients(l) : Wire(t) \in conns}
<1>1. l \in Listeners /\ IsFiniteSet(Clients(l)) /\ s \in Clients(l)
  BY ConnectionIs, ClientsFinite DEF Clients
<1>2. T \subseteq Clients(l) /\ T # Clients(l)
  BY <1>1
<1>3. NumConn(l) = Cardinality(Clients(l)) /\ Accepted(l) = {Wire(t) : t \in T}
  BY <1>1, NumConnIs, AcceptedAre
<1> HIDE DEF l, T
<1>4. IsFiniteSet(T) /\ Cardinality(T) <= Cardinality(Clients(l))
      /\ Cardinality(T) # Cardinality(Clients(l))
  BY <1>1, <1>2, FS_Subset
<1>5. Cardinality(T) \in Nat /\ Cardinality(Clients(l)) \in Nat
  BY <1>1, <1>4, FS_CardinalityType
<1>6. Cardinality(Accepted(l)) = Cardinality(T)
  BY <1>3, <1>4, WireCount
<1> QED
  BY <1>3, <1>4, <1>5, <1>6 DEF l

----------------------------------------------------------------------------
(* The theorems. *)

\* A dial reaches the listener its source segment needs.
LEMMA WiringDial ==
    ASSUME WiringInv, NEW d \in Dialers, NEW i, Dial(d, i)
    PROVE  WiringInv'
<1>1. ShapeInv /\ BoundInv /\ PortsInv /\ ConnsInv
  BY DEF WiringInv
<1>2. shape' = shape /\ files' = files /\ ports' = ports /\ bound' = bound /\ ports # <<>>
      /\ i \in Targets(d) /\ <<d, i>> \notin Dialled
  BY DEF Dial
<1>3. /\ Listeners' = Listeners /\ SrcHelpers' = SrcHelpers /\ ShapeInv' /\ NServers' = NServers
      /\ IsMasterCopy' <=> IsMasterCopy
      /\ \A x : HostOf(x)' = HostOf(x) /\ Wire(x)' = Wire(x) /\ Place(x)' = Place(x)
  BY <1>1, <1>2, SameShape
<1>4. PICK s \in SrcHelpers : Calls(s) = d /\ Entry(s) = i
  BY <1>1, <1>2, AddressesAre, TargetsAre
<1>5. Wire(s) \notin conns
  BY <1>1, <1>2, <1>4, DialledAre
<1>6. ListenersAt(Addresses[i + 1]) = {Meets(s)}
  BY <1>2, <1>4, EntryLeads
<1>7. Cardinality(Accepted(Meets(s))) < NumConn(Meets(s))
  BY <1>1, <1>5, StillAccepts
<1> DEFINE free == {l \in ListenersAt(Addresses[i + 1]) : Cardinality(Accepted(l)) < NumConn(l)}
<1>8. free = {Meets(s)}
  BY <1>6, <1>7
<1>9. refused' = refused
      /\ \E l \in free : conns' = conns \cup {IF Push THEN <<d, l, i>> ELSE <<l, d, i>>}
  <2> HIDE DEF free
  <2>1. free # {}
    BY <1>8
  <2> QED
    BY <2>1 DEF Dial, free
<1> HIDE DEF free
<1>10. conns' = conns \cup {Wire(s)}
  <2>1. conns' = conns \cup {IF Push THEN <<d, Meets(s), i>> ELSE <<Meets(s), d, i>>}
    BY <1>8, <1>9
  <2>2. (IF Push THEN <<d, Meets(s), i>> ELSE <<Meets(s), d, i>>) = Wire(s)
    BY <1>4 DEF Wire, Calls, Meets
  <2> QED
    BY <2>1, <2>2
<1>11. BoundInv'
  BY <1>1, <1>2, <1>3 DEF BoundInv
<1>12. PortsInv'
  BY <1>1, <1>2, <1>3 DEF PortsInv
<1>13. ConnsInv'
  BY <1>1, <1>3, <1>9, <1>10 DEF ConnsInv
<1> QED
  BY <1>3, <1>11, <1>12, <1>13 DEF WiringInv

\* Nobody listens at first.
LEMMA WiringInit == Init => WiringInv
<1> SUFFICES ASSUME Init PROVE WiringInv
  OBVIOUS
<1>1. ShapeInv
  BY ShapesOk DEF Init
<1>2. BoundInv
  BY WiringAssumption DEF Init, BoundInv
<1>3. PortsInv /\ ConnsInv
  BY DEF Init, PortsInv, ConnsInv
<1> QED
  BY <1>1, <1>2, <1>3 DEF WiringInv

\* Every step of the helpers, of cbcopy and of other copies keeps the invariant.
LEMMA WiringNext == WiringInv /\ [Next]_vars => WiringInv'
<1> SUFFICES ASSUME WiringInv, [Next]_vars PROVE WiringInv'
  OBVIOUS
<1>1. ASSUME NEW l \in Listeners, HelperListens(l) PROVE WiringInv'
  BY <1>1, WiringListens
<1>2. ASSUME NEW l \in Listeners, HelperWritesFile(l) PROVE WiringInv'
  BY <1>2, WiringWritesFile
<1>3. CASE PollPorts
  BY <1>3, WiringPoll
<1>4. ASSUME NEW d \in Dialers, NEW i \in Segs(MaxSegs), Dial(d, i) PROVE WiringInv'
  BY <1>4, WiringDial
<1>5. CASE (\E h \in Hosts : OtherListens(h) \/ OtherEnds(h)) \/ Done \/ UNCHANGED vars
  <2>1. shape' = shape /\ files' = files /\ ports' = ports /\ bound' = bound
        /\ conns' = conns /\ refused' = refused
    BY <1>5 DEF OtherListens, OtherEnds, Done, vars
  <2>2. /\ Listeners' = Listeners /\ SrcHelpers' = SrcHelpers /\ ShapeInv' /\ NServers' = NServers
        /\ IsMasterCopy' <=> IsMasterCopy
        /\ \A x : HostOf(x)' = HostOf(x) /\ Wire(x)' = Wire(x) /\ Place(x)' = Place(x)
    BY <2>1, SameShape DEF WiringInv
  <2>3. BoundInv'
    BY <2>1, <2>2 DEF WiringInv, BoundInv
  <2>4. PortsInv'
    BY <2>1, <2>2 DEF WiringInv, PortsInv
  <2>5. ConnsInv'
    BY <2>1, <2>2 DEF WiringInv, ConnsInv
  <2> QED
    BY <2>2, <2>3, <2>4, <2>5 DEF WiringInv
<1> QED
  BY <1>1, <1>2, <1>3, <1>4, <1>5 DEF Next

\* The invariant holds throughout.
LEMMA WiringInvariant == Spec => []WiringInv
<1>1. Spec => Init /\ [][Next]_vars
  BY PTL DEF Spec
<1> QED
  BY <1>1, WiringInit, WiringNext, PTL

\* Once all have dialled, the connections are those of the source segments.
LEMMA AllWired ==
    ASSUME WiringInv, AllDialled
    PROVE  conns = {Wire(s) : s \in SrcHelpers}
<1>1. ShapeInv /\ ConnsInv /\ ports # <<>>
  BY DEF WiringInv, AllDialled
<1>2. ASSUME NEW s \in SrcHelpers PROVE Wire(s) \in conns
  <2>1. Calls(s) \in Dialers
    BY <1>1, ConnectionIs
  <2>2. Entry(s) \in Targets(Calls(s))
    BY <1>1, <2>1, AddressesAre, TargetsAre
  <2>3. <<Calls(s), Entry(s)>> \in Dialled
    BY <2>1, <2>2 DEF AllDialled
  <2> QED
    BY <1>1, <2>3, DialledAre
<1> QED
  BY <1>1, <1>2 DEF ConnsInv

\* The connections of the source segments are what WiredExactly asks for.
LEMMA WiredFromInv == WiringInv => WiredExactly
<1> SUFFICES ASSUME WiringInv, AllDialled
             PROVE  /\ \A s \in SrcHelpers :
                          {c[2] : c \in {k \in conns : k[1] = s}}
                              = {IF IsMasterCopy THEN Master ELSE s % NDst}
                    /\ Cardinality(conns) = Cardinality(SrcHelpers)
                    /\ \A l \in Listeners : Cardinality(Accepted(l)) = NumConn(l)
  BY DEF WiredExactly
<1>1. ShapeInv /\ ConnsInv
  BY DEF WiringInv
<1>2. conns = {Wire(s) : s \in SrcHelpers}
  BY AllWired
<1>3. ASSUME NEW s \in SrcHelpers
      PROVE  {c[2] : c \in {k \in conns : k[1] = s}}
                 = {IF IsMasterCopy THEN Master ELSE s % NDst}
  <2>1. \A t : Wire(t)[1] = t /\ Wire(t)[2] = Peer(t)
    BY DEF Wire
  <2>2. {k \in conns : k[1] = s} = {Wire(s)}
    BY <1>2, <2>1
  <2>3. {c[2] : c \in {Wire(s)}} = {Peer(s)}
    BY <2>1
  <2> QED
    BY <2>2, <2>3 DEF Peer
<1>4. Cardinality(conns) = Cardinality(SrcHelpers)
  BY <1>1, <1>2, ClientsFinite, WireCount
<1>5. ASSUME NEW l \in Listeners PROVE Cardinality(Accepted(l)) = NumConn(l)
  <2>1. {t \in Clients(l) : Wire(t) \in conns} = Clients(l)
    BY <1>2 DEF Clients
  <2>2. Accepted(l) = {Wire(s) : s \in Clients(l)}
    BY <1>1, <2>1, AcceptedAre
  <2>3. IsFiniteSet(Clients(l))
    BY <1>1, ClientsFinite
  <2> QED
    BY <1>1, <2>2, <2>3, NumConnIs, WireCount
<1> QED
  BY <1>3, <1>4, <1>5

\* For clusters of any size, on any hosts and with any port range: no helper ever
\* dials a port where no listener of its command waits for it.
THEOREM NoRefusedDialHolds == Spec => []NoRefusedDial
<1>1. WiringInv => NoRefusedDial
  BY DEF WiringInv, ConnsInv, NoRefusedDial
<1> QED
  BY <1>1, WiringInvariant, PTL

\* For clusters of any size, in every strategy and connection mode: when all have
\* dialled, every source segment feeds the destination at its position modulo their
\* number, once, and every listener has the clients it waits for.
THEOREM WiredExactlyHolds == Spec => []WiredExactly
  BY WiringInvariant, WiredFromInv, PTL

=============================================================================

--------------------------- MODULE SegmentWiring ---------------------------
(***************************************************************************)
(* How the helper processes of one table copy find each other.             *)
(*                                                                         *)
(* CreateCopyStrategy chooses where the COPY commands run.  The helpers of *)
(* the listening side (the destination under --connection-mode push, the   *)
(* source under pull) each open the first free port of their host and      *)
(* write the command id, their segment id and the port to a file in /tmp.  *)
(* cbcopy polls an external web table that prints those files on every     *)
(* segment, drops the duplicates (segments that share a host print the     *)
(* same files), and, once the expected number of segments is there, puts   *)
(* host and port lists into the command of the dialling side.  Nothing but *)
(* the position in a list relates a port to a host, or a helper to the     *)
(* peer it has to reach.                                                   *)
(*                                                                         *)
(* The segments of a cluster have the contents 0 .. n-1 and the queries of *)
(* utils/wrappers.go return them in that order; -1 is the master.          *)
(***************************************************************************)
EXTENDS Naturals, Integers, FiniteSets, Sequences, SequencesExt

CONSTANTS
    MaxSegs,    \* the largest number of segments of a cluster
    Hosts,      \* hosts of the listening cluster
    MHost,      \* the host of its master, one of Hosts
    NPorts      \* --data-port-range holds the ports 1 .. NPorts of each host

ASSUME WiringAssumption ==
    /\ MaxSegs \in Nat \ {0} /\ NPorts \in Nat \ {0}
    /\ IsFiniteSet(Hosts) /\ MHost \in Hosts

VARIABLES
    shape,      \* the clusters, the table and the flags: fixed for the copy
    bound,      \* listening helper -> its port, 0 before it listens
    files,      \* the listening helpers whose port file is written
    busy,       \* host -> ports other commands' helpers hold
    ports,      \* the port list cbcopy works with, <<>> while it polls
    conns,      \* established connections: <<source, destination, entry>>,
                \* where entry is the dialled place in the address lists
    refused,    \* dials that met no listener: <<dialler, entry>>
    failed      \* a helper found no free port: the copy is abandoned

vars == <<shape, bound, files, busy, ports, conns, refused, failed>>

Master == -1
Segs(n) == 0 .. n - 1

----------------------------------------------------------------------------
(* The strategy and who takes part in it. *)

\* The replicated and the small tables go through the masters.
CreateCopyStrategy(isReplicated, isSmall, sameVersion, nSrc, nDst) ==
    CASE isReplicated \/ isSmall                -> "CopyOnMaster"
      [] ~(isReplicated \/ isSmall)
         /\ sameVersion /\ nSrc = nDst          -> "CopyOnSegment"
      [] ~(isReplicated \/ isSmall)
         /\ ~(sameVersion /\ nSrc = nDst)
         /\ nDst >= nSrc                        -> "ExtDestGeCopy"
      [] OTHER                                  -> "ExtDestLtCopy"

Strategy == shape.strategy
Push == shape.push
NSrc == shape.nSrc
NDst == shape.nDst
NListen == IF Push THEN NDst ELSE NSrc

IsMasterCopy == Strategy = "CopyOnMaster"

\* On the destination of ExtDestGeCopy the shell exits at once on a segment
\* whose content is no source content: FormAllSegsIds.
FormAllSegsIds == Segs(NSrc)
DestHelpers ==
    CASE IsMasterCopy                -> {Master}
      [] Strategy = "ExtDestGeCopy"  -> Segs(NDst) \cap FormAllSegsIds
      [] OTHER                       -> Segs(NDst)
SrcHelpers == IF IsMasterCopy THEN {Master} ELSE Segs(NSrc)

Listeners == IF Push THEN DestHelpers ELSE SrcHelpers
Dialers == IF Push THEN SrcHelpers ELSE DestHelpers

HostOf(l) == IF l = Master THEN MHost ELSE shape.host[l]

\* The counter j of FormDestSegsHelperAddress and formClientNumbers when the
\* loop over the source segments reaches i.
RoundRobin(n) ==
    LET j[i \in Nat] == IF i = 0 THEN 0
                        ELSE IF j[i - 1] + 1 = n THEN 0 ELSE j[i - 1] + 1
    IN j

\* --client-numbers: the sources that dial each destination segment.
FormClientNumbers ==
    LET content == RoundRobin(NDst)
    IN  [d \in {content[i] : i \in Segs(NSrc)} |->
            Cardinality({i \in Segs(NSrc) : content[i] = d})]

\* The clients a listening helper waits for: createServerImpl.
NumConn(l) ==
    IF Push /\ Strategy = "ExtDestLtCopy" THEN FormClientNumbers[l] ELSE 1

----------------------------------------------------------------------------
(* The listening side. *)

PortsInUse(h) == busy[h] \cup {bound[l] : l \in {k \in Listeners : HostOf(k) = h}}
FreePorts(h) == (1 .. NPorts) \ PortsInUse(h)

\* ServerBase.Start: the first port of the range that can be bound.  Without
\* one the helper fails, its COPY fails and so does the copy of the table.
HelperListens(l) ==
    /\ ~failed /\ bound[l] = 0
    /\ IF FreePorts(HostOf(l)) # {}
       THEN /\ bound' = [bound EXCEPT ![l] = Min(FreePorts(HostOf(l)))]
            /\ UNCHANGED failed
       ELSE failed' = TRUE /\ UNCHANGED bound
    /\ UNCHANGED <<shape, files, busy, ports, conns, refused>>

\* (Variant: the file is written before the helper listens.)
WriteFileEarly(l) ==
    /\ ~failed /\ l \notin files
    /\ files' = files \cup {l}
    /\ UNCHANGED <<shape, bound, busy, ports, conns, refused, failed>>

HelperWritesFile(l) ==
    /\ ~failed /\ bound[l] # 0 /\ l \notin files
    /\ files' = files \cup {l}
    /\ UNCHANGED <<shape, bound, busy, ports, conns, refused, failed>>

\* The helpers of other copies take and release ports of the same hosts; one
\* such helper at a time is enough to shift the ports of this copy.
OtherListens(h) ==
    /\ FreePorts(h) # {} /\ \A g \in Hosts : busy[g] = {}
    /\ busy' = [busy EXCEPT ![h] = {Min(FreePorts(h))}]
    /\ UNCHANGED <<shape, bound, files, ports, conns, refused, failed>>

OtherEnds(h) ==
    /\ busy[h] # {}
    /\ busy' = [busy EXCEPT ![h] = {}]
    /\ UNCHANGED <<shape, bound, files, ports, conns, refused, failed>>

----------------------------------------------------------------------------
(* cbcopy collects the ports. *)

\* The rows of the external web table with this command's id: each place that
\* executes it, the master or every segment of the listening cluster, prints
\* the files of its host.
PortRows ==
    LET places == IF IsMasterCopy THEN {Master} ELSE Segs(NListen)
    IN  {[place |-> q[1], content |-> q[2], port |-> bound[q[2]]] :
            q \in {r \in places \X files : HostOf(r[1]) = HostOf(r[2])}}

\* (Variant: the rows are only sorted.)
KeepDuplicates(rows) ==
    SetToSortSeq(rows, LAMBDA a, b : \/ a.content < b.content
                                     \/ a.content = b.content /\ a.place < b.place)

\* One row of each content, in the order of the contents.  segMap keeps the first
\* port it meets; sort.Ints puts at place i the key with i keys up to it.
ProcessPortList(rows) ==
    LET keys == {r.content : r \in rows}
        segMap(k) == (CHOOSE r \in rows : r.content = k).port
        key(i) == CHOOSE k \in keys : Cardinality({m \in keys : m <= k}) = i
    IN  [i \in 1 .. Cardinality(keys) |-> [content |-> key(i), port |-> segMap(key(i))]]

IsCopyFromStarted(n) ==
    CASE IsMasterCopy                -> n = 1
      [] Strategy = "ExtDestLtCopy"  -> n = NListen
      [] OTHER                       -> n = NSrc

\* One round of waitForHelperPorts that finds what it waits for; the other
\* rounds change nothing.  A row is there from the moment its file is written
\* until the copy ends, so that a poll reads as if at one moment.
PollPorts ==
    /\ ~failed /\ ports = <<>>
    /\ LET list == ProcessPortList(PortRows)
       IN  IsCopyFromStarted(Len(list)) /\ ports' = list
    /\ UNCHANGED <<shape, bound, files, busy, conns, refused, failed>>

----------------------------------------------------------------------------
(* The address lists in the command of the dialling side, and who uses     *)
(* which entry.  An address is a host and a port.                          *)

FormMasterHelperAddress == <<<<MHost, ports[1].port>>>>

\* FormAllSegsHelperAddress and FormSrcSegsHelperAddress
FormAllSegsHelperAddress ==
    [i \in 1 .. Len(ports) |-> <<HostOf(i - 1), ports[i].port>>]

FormDestSegsHelperAddress ==
    LET j == RoundRobin(NDst)
    IN  [i \in 1 .. NSrc |-> <<HostOf(j[i - 1]), ports[j[i - 1] + 1].port>>]

Addresses ==
    CASE IsMasterCopy                        -> FormMasterHelperAddress
      [] Strategy = "ExtDestLtCopy" /\ Push  -> FormDestSegsHelperAddress
      [] OTHER                               -> FormAllSegsHelperAddress

\* createClientImpl: a destination helper with more sources than there are
\* destinations dials every NumDests-th of them, another one its own.
NumDests == IF Strategy = "ExtDestLtCopy" /\ ~Push THEN NDst ELSE 0
\* (Variant: the loop over the sources stops one short.)
TargetsShort(d) ==
    LET index == IF d = Master THEN 0 ELSE d
    IN  IF ~Push /\ Len(Addresses) > NumDests /\ NumDests > 0
        THEN {i \in Segs(Len(Addresses) - 1) : i >= d /\ (i - d) % NumDests = 0}
        ELSE {index} \cap Segs(Len(Addresses))

Targets(d) ==
    LET index == IF d = Master THEN 0 ELSE d
    IN  IF ~Push /\ Len(Addresses) > NumDests /\ NumDests > 0
        THEN {i \in Segs(Len(Addresses)) : i >= d /\ (i - d) % NumDests = 0}
        ELSE {index} \cap Segs(Len(Addresses))

ListenersAt(a) == {l \in Listeners : HostOf(l) = a[1] /\ bound[l] = a[2]}
Dialled == refused \cup {<<IF Push THEN c[1] ELSE c[2], c[3]>> : c \in conns}
Accepted(l) == {c \in conns : (IF Push THEN c[2] ELSE c[1]) = l}

\* Dialler d dials entry i of the lists.  What it reaches there is a listener
\* of this command that still accepts, or nothing it could use.
Dial(d, i) ==
    /\ ports # <<>> /\ ~failed
    /\ i \in Targets(d)
    /\ <<d, i>> \notin Dialled
    /\ LET free == {l \in ListenersAt(Addresses[i + 1]) :
                       Cardinality(Accepted(l)) < NumConn(l)}
       IN  IF free # {}
           THEN /\ \E l \in free :
                     conns' = conns \cup {IF Push THEN <<d, l, i>> ELSE <<l, d, i>>}
                /\ UNCHANGED refused
           ELSE /\ refused' = refused \cup {<<d, i>>}
                /\ UNCHANGED conns
    /\ UNCHANGED <<shape, bound, files, busy, ports, failed>>

AllDialled ==
    /\ ports # <<>>
    /\ \A d \in Dialers : \A i \in Targets(d) : <<d, i>> \in Dialled

Done == (failed \/ AllDialled) /\ UNCHANGED vars

----------------------------------------------------------------------------

Shapes ==
    {[nSrc |-> ns, nDst |-> nd, push |-> p, host |-> h,
      strategy |-> CreateCopyStrategy(r, s, v, ns, nd)] :
        ns \in 1 .. MaxSegs, nd \in 1 .. MaxSegs, p \in BOOLEAN,
        r \in BOOLEAN, s \in BOOLEAN, v \in BOOLEAN,
        h \in {f \in [Segs(MaxSegs) -> Hosts] : f[0] = MHost}}

Init ==
    /\ shape \in Shapes
    /\ bound = [l \in Listeners |-> 0]
    /\ files = {}
    /\ busy = [h \in Hosts |-> {}]
    /\ ports = <<>>
    /\ conns = {} /\ refused = {} /\ failed = FALSE

Next ==
    \/ \E l \in Listeners : HelperListens(l) \/ HelperWritesFile(l)
    \/ \E h \in Hosts : OtherListens(h) \/ OtherEnds(h)
    \/ PollPorts
    \/ \E d \in Dialers : \E i \in Segs(MaxSegs) : Dial(d, i)
    \/ Done

\* The operating system runs every helper, and cbcopy keeps polling.
Fairness ==
    /\ WF_vars(\E l \in Listeners : HelperListens(l))
    /\ WF_vars(\E l \in Listeners : HelperWritesFile(l))
    /\ WF_vars(PollPorts)
    /\ WF_vars(\E d \in Dialers : \E i \in Segs(MaxSegs) : Dial(d, i))

Spec == Init /\ [][Next]_vars /\ Fairness

----------------------------------------------------------------------------

\* A dialler never meets a closed port, a listener of another command or one
\* that has all its clients: the lists FormXHelperAddress builds by position
\* lead every helper to a listener of this command that waits for it.
NoRefusedDial == refused = {}

\* When every helper has dialled, each source segment feeds exactly one
\* destination, segment i the one at position i modulo the number of
\* destinations, and each listener has exactly the clients that
\* --client-numbers (or the one-time server) makes it wait for.
WiredExactly ==
    AllDialled =>
        /\ \A s \in SrcHelpers :
              {c[2] : c \in {k \in conns : k[1] = s}}
                  = {IF IsMasterCopy THEN Master ELSE s % NDst}
        /\ Cardinality(conns) = Cardinality(SrcHelpers)
        /\ \A l \in Listeners : Cardinality(Accepted(l)) = NumConn(l)

\* Unless a host runs out of ports, the polling of waitForHelperPorts finds
\* all the listeners and every source segment is connected in the end.
EventuallyWired == <>(failed \/ AllDialled)
=============================================================================

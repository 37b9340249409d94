----------------------------- MODULE TunnelPorts -----------------------------
(***************************************************************************)
(* The ports of a tunnel on their two ways: into the KubeTunnel resource   *)
(* and out of it again (ToKubeTunnelResourceSpec in kubefwd/kube/utils.go, *)
(* kubetunnel/kubetunnel_resource.go), and into the frp pairs of a manager *)
(* (ToFRPClientPairs, frp/manager.go).  These are functions without state; *)
(* nothing in the repository hands the result of one way to the other.     *)
(* A port number is one token of a text, quotes and commas are others.     *)
(***************************************************************************)
EXTENDS Naturals, Sequences
LOCAL INSTANCE SequencesExt
LOCAL INSTANCE TLC

CONSTANTS
    ServicePorts,  \* the lists of ports a service may have
    Mappings,      \* remotePortByLocal: functions from local to remote ports
    Decodes        \* times that a text is decoded into one value, at most

ASSUME PortsAssumption == Decodes \in Nat

-----------------------------------------------------------------------------
(* The resource                                                            *)

Quote == "'"
Comma == ","

\* Ports.String: strings.Join(p.Values, ",").
String(ports) ==
    FoldLeft(LAMBDA t, p : IF t = <<>> THEN <<p>> ELSE t \o <<Comma, p>>, <<>>, ports)

MarshalJSON(ports) == <<Quote>> \o String(ports) \o <<Quote>>

\* strings.Split(text, ","): one field more than there are commas.
Split(text) ==
    LET put(fields, c) ==
            IF c = Comma THEN Append(fields, <<>>)
            ELSE [fields EXCEPT ![Len(fields)] = Append(@, c)]
    IN  FoldLeft(put, << <<>> >>, text)

\* strings.Trim(field, "\""); a field without a port is the empty string.
Trim(field) ==
    LET inner == SelectSeq(field, LAMBDA c : c # Quote)
    IN  IF inner = <<>> THEN "" ELSE inner[1]

\* Ports.UnmarshalJSON appends to what the value holds.
UnmarshalJSON(values, text) ==
    LET fields == Split(text) IN values \o [i \in DOMAIN fields |-> Trim(fields[i])]

\* The value after each of n decodings of the same text.
Decoded(text, n) == FoldLeft(LAMBDA values, k : UnmarshalJSON(values, text), <<>>,
                             [k \in 1 .. n |-> k])

-----------------------------------------------------------------------------
(* The frp pairs                                                           *)

\* Mutant: key and value are swapped.
LocalPortByRemote_Swapped(mapping) == {mapping}

\* The loop over the Go map visits its entries in any order; of the local ports
\* that are mapped to the same remote one, the last one visited stays.
LocalPortByRemote(mapping) ==
    {FoldLeft(LAMBDA byRemote, l : (mapping[l] :> l) @@ byRemote, <<>>, order) :
        order \in SetToSeqs(DOMAIN mapping)}

\* A pair for each port of the service that has a local one, in their order.
ToFRPClientPairs(ports, byRemote) ==
    LET mapped == SelectSeq(ports, LAMBDA p : p \in DOMAIN byRemote)
    IN  [i \in DOMAIN mapped |-> [local |-> byRemote[mapped[i]], remote |-> mapped[i]]]

\* The manager takes the local port of its first pair, which panics without one.
FirstPort(pairs) == IF pairs = <<>> THEN "panic" ELSE pairs[1].local

-----------------------------------------------------------------------------
(* What the functions promise, for MCFrpManager                            *)

\* What a list of ports is read back as: an empty one has one empty port.
ReadBack(ports) == IF ports = <<>> THEN <<"">> ELSE ports

\* Each decoding of what was sent adds the service's ports once more.
EachDecodingAddsThePorts ==
    \A ports \in ServicePorts, n \in 0 .. Decodes :
        Decoded(MarshalJSON(ports), n) = FlattenSeq([i \in 1 .. n |-> ReadBack(ports)])

\* The local ports the user has mapped to a remote one.
LocalsOf(mapping, remote) == {l \in DOMAIN mapping : mapping[l] = remote}

\* The pairs lead to exactly the mapped ports of the service, in their order, each
\* from a local port that the user meant for it, however the loop over the mapping
\* ran; there is no first pair exactly if the service has no mapped port.
PairsLeadToMappedPorts ==
    \A ports \in ServicePorts, mapping \in Mappings :
        LET mapped == SelectSeq(ports, LAMBDA p : LocalsOf(mapping, p) # {})
        IN  \A byRemote \in LocalPortByRemote(mapping) :
                LET pairs == ToFRPClientPairs(ports, byRemote) IN
                /\ Len(pairs) = Len(mapped)
                /\ \A i \in DOMAIN pairs :
                    /\ pairs[i].remote = mapped[i]
                    /\ pairs[i].local \in LocalsOf(mapping, mapped[i])
                /\ FirstPort(pairs) = "panic" <=> mapped = <<>>
=============================================================================

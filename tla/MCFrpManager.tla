---------------------------- MODULE MCFrpManager ----------------------------
(* Instances of FrpManager for TLC, with bounded inputs of the functions of  *)
(* TunnelPorts, which make the pairs that a manager is given and polls.      *)
EXTENDS FrpManager, TunnelPorts, TLC

\* No port, one, several in either order, and one number for two protocols.
SomePorts == {<<>>, <<"80">>, <<"80", "443">>, <<"443", "80">>, <<"80", "53", "80">>}

\* No mapping, two local ports for one remote, a chain whose local and remote
\* ports overlap, a port that is mapped to itself, and one no service has.
SomeMappings ==
    {<<>>, "8080" :> "80" @@ "9090" :> "80" @@ "8443" :> "443",
     "80" :> "443" @@ "443" :> "80", "53" :> "53" @@ "80" :> "8080", "8025" :> "25"}

\* When RunFRPc probes the local port of the first of its pairs (manager.go:54),
\* these, as ToFRPClientPairs has made them, and the ports in the resource of the
\* tunnel's other end, as they are sent and read back, agree on the service.
TunnelEndsMeet == mgr = "probe" => EachDecodingAddsThePorts /\ PairsLeadToMappedPorts
=============================================================================

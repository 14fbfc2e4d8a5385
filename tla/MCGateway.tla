------------------------------ MODULE MCGateway ------------------------------
(* GatewayCore on small instances: the endpoints of one array.              *)
EXTENDS GatewayProperties, TLC

\* "bare_iscsi" is the endpoint of a default array, whose targets are empty.
MCProtocol == [e \in Endpoints |-> CASE e = "nvme" -> "nvmeof_tcp"
                                     [] e = "fc" -> "fc"
                                     [] OTHER -> "iscsi"]

MCTargeted == Endpoints \cap {"iscsi", "nvme"}

\* Both ends on one endpoint of the protocol asked for.
SamePaths == {<<e, e>> : e \in Endpoints \ {"fc"}}

\* An NVMe host, and a host with FC ports: FC persona over an iSCSI underlay.
MixedPaths == {<<"nvme", "nvme">>, <<"fc", "iscsi">>}

Symmetric == Permutations(Volumes) \cup Permutations(Names) \cup Permutations(Hosts)
               \cup Permutations(Requests)
=============================================================================

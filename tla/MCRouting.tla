------------------------------ MODULE MCRouting ------------------------------
(* Instances of the routing management: one upstream that is nothing else, *)
(* one downstream, and one interface that is used in both roles.           *)
EXTENDS Routing

CONSTANTS eth0, eth1, peer, s1, s2, MaxStamp

StampRange == 1 .. MaxStamp

TwoUpstreams   == <<eth0, peer>>
TwoDownstreams == {eth1, peer}

All == [input |-> Sources, output |-> Interfaces \X Sources]

Open(in_rule, out_rule) ==
    [up |-> [u \in UpstreamSet |-> All], down |-> [d \in Downstreams |-> All],
     in_rule |-> in_rule, out_rule |-> out_rule]

(* The first upstream rejects s1, so that it is left to the second one.    *)
Second(in_rule) ==
    [Open(in_rule, "RMT_FIRST") EXCEPT !.up[eth0].input = {s2}]

(* eth1 takes s1 only from the second upstream and nothing from itself.    *)
Split(in_rule) ==
    [Open(in_rule, "RMT_ALL") EXCEPT
        !.down[eth1].output = {<<peer, s1>>, <<eth0, s2>>, <<peer, s2>>},
        !.down[eth1].input = {}]

MCMemberships == {[mode |-> m, sources |-> S] :
                     m \in FilterModes, S \in {{}, {s1}, {s1, s2}}}
                  \ {[mode |-> "EXCLUDE_MODE", sources |-> Sources]}

MCConfigs == {Open("RMT_FIRST", "RMT_ALL"), Second("RMT_FIRST"),
              Open("RMT_MUTEX", "RMT_ALL"), Split("RMT_MUTEX")}

(* Two upstreams and a downstream, no filters.                             *)
OneDownstream == {eth1}
MutexConfig == {Open("RMT_MUTEX", "RMT_ALL")}
=============================================================================

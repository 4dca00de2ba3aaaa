------------------------------ MODULE MCSockets ------------------------------
(* An upstream, a downstream and a peering interface, which is both; a report
   for a router group can come from a downstream and is forwarded like any
   other.  The subnet of interface 2 can move to interface 1. *)
EXTENDS Sockets

MCRouterGroups == <<11, 12>>
MCFilters == {[mode |-> "INCLUDE_MODE", srcs |-> {}], [mode |-> "INCLUDE_MODE", srcs |-> {20}],
              [mode |-> "EXCLUDE_MODE", srcs |-> {}], [mode |-> "EXCLUDE_MODE", srcs |-> {21}],
              [mode |-> "EXCLUDE_MODE", srcs |-> {20, 21}]}
OneSubnet == <<<<1>>, <<2>>, <<3>>>>
MCSubnets == <<<<1, 2>>, <<2, 102>>, <<3>>>>

Records == {[type |-> 1, aux |-> 0, gaddr |-> 10, srcs |-> <<20>>],
            [type |-> 4, aux |-> 2, gaddr |-> 10, srcs |-> <<21, 20>>],
            [type |-> 6, aux |-> 1, gaddr |-> 11, srcs |-> <<>>]}
MCReports == {<<>>} \cup {<<r>> : r \in Records}
             \cup {<<r, s>> : r \in Records, s \in {t \in Records : t.type = 4}}

(* bound: subnets change and packets arrive only before the first record, since
   what comes of a packet depends on no membership *)
MCNext ==
    \/ asked = <<>> /\ Next
    \/ /\ last = NoPacket /\ \A i \in Ifs : subnet[i] = 1
       /\ \/ \E u \in Upstreams : AddUpstream(u)
          \/ \E i \in Downstreams : AddDownstream(i) \/ DestroyQuerier(i)
          \/ \E u \in Upstreams, g \in Groups, f \in RecordFilters : SendRecord(u, g, f)

MCSpec == Init /\ [][MCNext]_vars
==============================================================================

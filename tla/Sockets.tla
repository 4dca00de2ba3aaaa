------------------------------- MODULE Sockets -------------------------------
(***************************************************************************)
(* The two sockets of a proxy instance.  Through the one of the sender it  *)
(* joins groups: the records of the routing management on the upstreams    *)
(* and the router groups of its queriers on the downstreams                *)
(* (igmp_sender.cpp, mld_sender.cpp, mc_socket.cpp).  On the other one the *)
(* receiver takes reports from the links and turns them into messages      *)
(* (igmp_receiver.cpp, mld_receiver.cpp, interfaces.cpp, if_prop.cpp).     *)
(*                                                                         *)
(* The kernel is external: a socket holds a filter per interface and group *)
(* it is a member of, up to limits on the memberships and on the sources.  *)
(* A packet is a sequence of words.                                        *)
(***************************************************************************)
EXTENDS Integers, Sequences, FiniteSets

CONSTANTS Protocols,       \* "IGMPv3", "MLDv2"
          Upstreams, Downstreams,  \* interface indexes
          Groups,          \* groups the routing management sends records for
          RouterGroups,    \* sequence: the groups of router_groups_function
          Sources,
          RecordFilters,   \* the filters of these records
          MaxMemberships,  \* kernel: igmp_max_memberships
          MaxSources,      \* kernel: igmp_max_msf
          Subnets,         \* interface -> the subnets it may have, in order
          MaxWords,        \* igmp_receiver::get_iov_min_size, in words of a report
          Reports,         \* the reports a host may send: sequences of records
          OlderPackets     \* the packets of an older version, and queries

Ifs == Upstreams \cup Downstreams
Modes == {"INCLUDE_MODE", "EXCLUDE_MODE"}
Filter == [mode : Modes, srcs : SUBSET Sources]
Record == [type : 1 .. 6, aux : Nat, gaddr : Groups, srcs : Seq(Sources)]

ASSUME SocketsAssumption ==
    /\ Protocols \subseteq {"IGMPv3", "MLDv2"}
    /\ Ifs \subseteq Nat \ {0}
    /\ Groups \subseteq Nat /\ Sources \subseteq Nat /\ IsFiniteSet(Sources)
    /\ RecordFilters \subseteq Filter
    /\ RouterGroups \in Seq(Nat)
    /\ MaxMemberships \in Nat \ {0} /\ MaxSources \in Nat /\ MaxWords \in Nat
    /\ \A i \in Ifs : Subnets[i] \in Seq(Nat) /\ Len(Subnets[i]) > 0
    /\ \A i, j \in Ifs : Subnets[i][1] = Subnets[j][1] => i = j
    /\ Reports \subseteq Seq(Record) /\ OlderPackets \subseteq {"report", "leave", "query"}

VARIABLES protocol,   \* of the instance
          member,     \* kernel: memberships of the sender's socket
          asked,      \* the last record for an upstream and a group
          m_upstreams,\* upstreams that have been added
          queriers,   \* downstreams with a querier
          ended,      \* "no", or how the instance ends: by an exception that a
                      \* querier's constructor throws, or in its destructor
          subnet,     \* subnet an interface has now, an index into Subnets[i]
          m_if_map,   \* subnets in the snapshot of if_prop, once it is taken
          m_relevant_if_index,
          last        \* the last packet and the messages made of it

vars == <<protocol, member, asked, m_upstreams, queriers, ended, subnet, m_if_map,
          m_relevant_if_index, last>>
wire == <<protocol, m_upstreams, subnet, m_if_map, m_relevant_if_index>>

NoPacket == [link |-> 0, kind |-> "none", group |-> 0, report |-> <<>>, info |-> TRUE,
             msgs |-> <<>>]

(***************************************************************************)
(* The kernel's side of the sender's socket (external)                     *)
(***************************************************************************)
With(m, key, filter) == [k \in DOMAIN m \cup {key} |-> IF k = key THEN filter ELSE m[k]]
Without(m, key) == [k \in DOMAIN m \ {key} |-> m[k]]

Full(m) == Cardinality(DOMAIN m) >= MaxMemberships

(* mc_socket::join_group: EADDRINUSE for a member, ENOBUFS at the limit *)
join_group(m, key) ==
    IF key \in DOMAIN m \/ Full(m) THEN m
    ELSE With(m, key, [mode |-> "EXCLUDE_MODE", srcs |-> {}])

(* mc_socket::leave_group: EADDRNOTAVAIL for a non-member *)
leave_group(m, key) == Without(m, key)

(* mc_socket::set_source_filter, and whether it succeeds *)
filter_accepted(m, key, filter) ==
    key \in DOMAIN m /\ Cardinality(filter.srcs) <= MaxSources

set_source_filter(m, key, filter) ==
    IF ~filter_accepted(m, key, filter) THEN m
    ELSE IF filter = [mode |-> "INCLUDE_MODE", srcs |-> {}] THEN Without(m, key)
    ELSE With(m, key, filter)

(***************************************************************************)
(* The sender                                                              *)
(***************************************************************************)
Result(m, ok) == [member |-> m, ok |-> ok]

igmp_sender_send_record_join_only(m, key, filter) ==
    IF filter.mode = "INCLUDE_MODE" /\ filter.srcs = {}
    THEN Result(leave_group(m, key), TRUE)
    ELSE Result(join_group(m, key), key \in DOMAIN join_group(m, key))

igmp_sender_send_record(m, key, filter) ==
    IF filter.mode = "INCLUDE_MODE" /\ filter.srcs = {}
    THEN Result(leave_group(m, key), TRUE)
    ELSE LET joined == join_group(m, key)
         IN  Result(set_source_filter(joined, key, filter),
                    filter_accepted(joined, key, filter))

(* The condition of the second branch names EXCLUDE_MODE twice. *)
mld_sender_send_record(m, key, filter) ==
    IF filter.mode = "INCLUDE_MODE" /\ filter.srcs = {}
    THEN Result(leave_group(m, key), TRUE)
    ELSE IF filter.mode = "EXCLUDE_MODE"
    THEN LET joined == join_group(m, key)
         IN  Result(set_source_filter(joined, key, filter),
                    filter_accepted(joined, key, filter))
    ELSE Result(m, FALSE)

send_record(m, key, filter) ==
    IF protocol = "IGMPv3" THEN igmp_sender_send_record(m, key, filter)
                           ELSE mld_sender_send_record(m, key, filter)

(* querier::router_groups_function: the first record that fails ends it *)
router_groups_function_any(i, filter) ==
    send_record(member, <<i, RouterGroups[1]>>, filter)

router_groups_function(i, filter) ==
    LET after[n \in 0 .. Len(RouterGroups)] ==
            IF n = 0 THEN Result(member, TRUE)
            ELSE IF ~after[n - 1].ok THEN after[n - 1]
            ELSE send_record(after[n - 1].member, <<i, RouterGroups[n]>>, filter)
    IN  after[Len(RouterGroups)]

(***************************************************************************)
(* The receiver                                                            *)
(***************************************************************************)
(* A host writes a record: type, length of the auxiliary data, number of
   sources, group, the sources, the auxiliary data. *)
Written(r) == <<r.type, r.aux, Len(r.srcs), r.gaddr>> \o r.srcs
              \o [n \in 1 .. r.aux |-> 1]

Packet(report) ==
    LET upto[n \in 0 .. Len(report)] ==
            IF n = 0 THEN <<>> ELSE upto[n - 1] \o Written(report[n])
    IN  upto[Len(report)]

Word(p, n) == IF n \in DOMAIN p THEN p[n] ELSE 0

(* The loop over the records: rec advances by header, sources and auxiliary data. *)
analyse_records_no_aux(p, number, i) ==
    LET rec[n \in 1 .. number + 1] ==
            IF n = 1 THEN 1 ELSE rec[n - 1] + 4 + Word(p, rec[n - 1] + 2)
    IN  [n \in 1 .. number |->
            [if_index |-> i, type |-> Word(p, rec[n]), gaddr |-> Word(p, rec[n] + 3),
             slist |-> {Word(p, rec[n] + 3 + j) : j \in 1 .. Word(p, rec[n] + 2)}]]

analyse_records(p, number, i) ==
    LET rec[n \in 1 .. number + 1] ==
            IF n = 1 THEN 1
            ELSE rec[n - 1] + 4 + Word(p, rec[n - 1] + 2) + Word(p, rec[n - 1] + 1)
    IN  [n \in 1 .. number |->
            [if_index |-> i, type |-> Word(p, rec[n]), gaddr |-> Word(p, rec[n] + 3),
             slist |-> {Word(p, rec[n] + 3 + j) : j \in 1 .. Word(p, rec[n] + 2)}]]

(* An older report or leave becomes a record without sources (its version,
   which the querier looks at, is left out); nothing comes of other packets. *)
analyse_older(kind, g, i) ==
    CASE kind = "report" -> <<[if_index |-> i, type |-> 2, gaddr |-> g, slist |-> {}]>>
      [] kind = "leave"  -> <<[if_index |-> i, type |-> 3, gaddr |-> g, slist |-> {}]>>
      [] OTHER           -> <<>>

(* interfaces::get_if_index(saddr): the first interface of the snapshot, in
   the order of the names, whose subnet the sender is in *)
get_if_index(net) ==
    LET match == {i \in DOMAIN m_if_map : m_if_map[i] = net}
    IN  IF match = {} THEN 0 ELSE CHOOSE i \in match : \A j \in match : i <= j

is_if_index_relevant(i) == i \in m_relevant_if_index

(* IGMP drops packets longer than its buffer and goes by the source address,
   MLD by the packet info of the kernel, without which it drops the packet. *)
Subnet(link) == Subnets[link][subnet[link]]
ReceivedOn(link, words, info) ==
    IF protocol = "IGMPv3" THEN (IF words <= MaxWords THEN get_if_index(Subnet(link)) ELSE 0)
    ELSE IF info THEN link ELSE 0

(***************************************************************************)
(* Actions                                                                 *)
(***************************************************************************)
Init ==
    /\ protocol \in Protocols
    /\ member = <<>> /\ asked = <<>>
    /\ m_upstreams = {} /\ queriers = {} /\ ended = "no"
    /\ subnet = [i \in Ifs |-> 1]
    /\ m_if_map = <<>>
    /\ m_relevant_if_index = {}
    /\ last = NoPacket

(* interfaces::interfaces calls if_prop::refresh_network_interfaces, once. *)
refresh_network_interfaces ==
    /\ m_if_map = <<>>
    /\ m_if_map' = [i \in Ifs |-> Subnet(i)]
    /\ last' = NoPacket
    /\ UNCHANGED <<protocol, member, asked, m_upstreams, queriers, ended, subnet,
                   m_relevant_if_index>>

(* The administrator gives an interface another subnet, which no other
   interface has now: two links never share one, but it can move. *)
Readdress(i) ==
    /\ subnet[i] < Len(Subnets[i])
    /\ \A j \in Ifs \ {i} : Subnet(j) # Subnets[i][subnet[i] + 1]
    /\ subnet' = [subnet EXCEPT ![i] = @ + 1]
    /\ last' = NoPacket
    /\ UNCHANGED <<protocol, member, asked, m_upstreams, queriers, ended, m_if_map,
                   m_relevant_if_index>>

(* handle_config(ADD_UPSTREAM) registers the interface, unless it is there as a
   downstream already. *)
AddUpstream(u) ==
    /\ ended = "no" /\ m_if_map # <<>> /\ u \notin m_upstreams
    /\ m_upstreams' = m_upstreams \cup {u}
    /\ m_relevant_if_index' = m_relevant_if_index \cup {u}
    /\ last' = NoPacket
    /\ UNCHANGED <<protocol, member, asked, queriers, ended, subnet, m_if_map>>

(* handle_config(ADD_DOWNSTREAM): the interface is registered, unless it is an
   upstream and so registered already, then the constructor of the querier
   joins the router groups or throws. *)
AddDownstream_unregistered(i) ==
    /\ ended = "no" /\ m_if_map # <<>> /\ i \notin queriers
    /\ LET r == router_groups_function(i, [mode |-> "EXCLUDE_MODE", srcs |-> {}])
       IN  /\ member' = r.member
           /\ IF r.ok THEN queriers' = queriers \cup {i} /\ UNCHANGED ended
                      ELSE ended' = "exception" /\ UNCHANGED queriers
    /\ last' = NoPacket
    /\ UNCHANGED <<asked, wire>>

AddDownstream(i) ==
    /\ ended = "no" /\ m_if_map # <<>> /\ i \notin queriers
    /\ m_relevant_if_index' = m_relevant_if_index \cup {i}
    /\ LET r == router_groups_function(i, [mode |-> "EXCLUDE_MODE", srcs |-> {}])
       IN  /\ member' = r.member
           /\ IF r.ok THEN queriers' = queriers \cup {i} /\ UNCHANGED ended
                      ELSE ended' = "exception" /\ UNCHANGED queriers
    /\ last' = NoPacket
    /\ UNCHANGED <<protocol, asked, m_upstreams, subnet, m_if_map>>

(* ~proxy_instance destroys the queriers, and ~querier leaves the router groups. *)
DestroyQuerier(i) ==
    /\ ended # "exception" /\ i \in queriers
    /\ ended' = "destructor"
    /\ queriers' = queriers \ {i}
    /\ member' = router_groups_function(i, [mode |-> "INCLUDE_MODE", srcs |-> {}]).member
    /\ last' = NoPacket
    /\ UNCHANGED <<asked, wire>>

(* The routing management sends a record; it does not look at the result. *)
SendRecord(u, g, filter) ==
    /\ ended = "no" /\ queriers # {} /\ u \in m_upstreams
    /\ LET r == send_record(member, <<u, g>>, filter)
       IN  /\ member' = r.member
           /\ asked' = With(asked, <<u, g>>, [filter |-> filter, ok |-> r.ok, full |-> Full(member)])
    /\ last' = NoPacket
    /\ UNCHANGED <<queriers, ended, wire>>

(* receive_msg and analyse_packet: a report of the newest version, for MLD
   with or without packet info *)
ReceiveReport(link, report, info) ==
    /\ ended = "no" /\ m_if_map # <<>>
    /\ LET words == Packet(report)
           i == ReceivedOn(link, Len(words), info)
       IN  last' = [NoPacket EXCEPT !.link = link, !.kind = "records", !.report = report,
                      !.info = info,
                      !.msgs = IF i # 0 /\ is_if_index_relevant(i)
                               THEN analyse_records(words, Len(report), i)
                               ELSE <<>>]
    /\ UNCHANGED <<member, asked, queriers, ended, wire>>

(* receive_msg and analyse_packet: a packet of an older version, or a query,
   which always fits *)
ReceiveOlder(link, kind, g, info) ==
    /\ ended = "no" /\ m_if_map # <<>>
    /\ LET i == ReceivedOn(link, 0, info)
       IN  last' = [NoPacket EXCEPT !.link = link, !.kind = kind, !.group = g,
                      !.info = info,
                      !.msgs = IF i # 0 /\ is_if_index_relevant(i)
                               THEN analyse_older(kind, g, i) ELSE <<>>]
    /\ UNCHANGED <<member, asked, queriers, ended, wire>>

Next ==
    \/ refresh_network_interfaces
    \/ \E i \in Ifs : Readdress(i)
    \/ \E u \in Upstreams : AddUpstream(u)
    \/ \E i \in Downstreams : AddDownstream(i)
    \/ \E i \in Downstreams : DestroyQuerier(i)
    \/ \E u \in Upstreams, g \in Groups, f \in RecordFilters : SendRecord(u, g, f)
    \/ \E l \in Ifs, r \in Reports, info \in BOOLEAN : ReceiveReport(l, r, info)
    \/ \E l \in Ifs, k \in OlderPackets, g \in Groups, info \in BOOLEAN :
          ReceiveOlder(l, k, g, info)

Spec == Init /\ [][Next]_vars

(***************************************************************************)
(* Properties                                                              *)
(***************************************************************************)
(* Type invariant: the limit of the kernel on the memberships is kept. *)
TypeOK ==
    /\ protocol \in Protocols
    /\ DOMAIN member \subseteq Ifs \X (Groups \cup {RouterGroups[n] : n \in DOMAIN RouterGroups})
    /\ \A k \in DOMAIN member : member[k] \in Filter
    /\ Cardinality(DOMAIN member) <= MaxMemberships
    /\ DOMAIN asked \subseteq Upstreams \X Groups
    /\ queriers \subseteq Downstreams /\ ended \in {"no", "exception", "destructor"}
    /\ m_upstreams \subseteq Upstreams /\ m_relevant_if_index \subseteq Ifs
    /\ m_upstreams \cup queriers \subseteq m_relevant_if_index
    /\ last.link \in Ifs \cup {0}

(* Records are refused only at a limit of the kernel. *)
AcceptedBelowLimits ==
    \A k \in DOMAIN asked :
        ~asked[k].ok => asked[k].full \/ Cardinality(asked[k].filter.srcs) > MaxSources

(* A record that was reported as sent is in force: the kernel holds exactly its
   filter, whatever records, of this and of other groups and of the queriers,
   went before it (send_record ignores the result of join_group, which fails
   for every record but the first).  The exception is a router group on a
   peering interface, whose filter is also set by the querier there.  In an IGMP
   instance a record of either filter mode is refused only at a limit
   (igmp_sender::send_record), ... *)
Contested(k) == k[1] \in Downstreams /\ \E n \in DOMAIN RouterGroups : k[2] = RouterGroups[n]

RecordsInForce ==
    /\ \A k \in DOMAIN asked :
          asked[k].ok /\ ~Contested(k) =>
                         IF asked[k].filter = [mode |-> "INCLUDE_MODE", srcs |-> {}]
                         THEN k \notin DOMAIN member
                         ELSE k \in DOMAIN member /\ member[k] = asked[k].filter
    /\ protocol = "IGMPv3" => AcceptedBelowLimits

(* ... and so it should be in an MLD instance (mld_sender::send_record). *)
MldRecordsAreAccepted == protocol = "MLDv2" => AcceptedBelowLimits

(* A querier that runs is in every router group of its link: no record for
   another link or group and no end of another querier takes it out of one or
   changes its filter (querier::router_groups_function, on the socket they
   share).  Only a record for the group on its own link does, which has to be a
   peering interface: the group is lost by a record that leaves it and stays so
   when the next one is refused.  On a link whose querier has been destroyed
   only groups of records are left. *)
RouterGroupsStay ==
    /\ ended = "destructor" =>
          \A k \in DOMAIN member :
             k[1] \in Downstreams => k[1] \in queriers \/ k \in DOMAIN asked
    /\ \A i \in queriers : \A n \in DOMAIN RouterGroups :
          LET k == <<i, RouterGroups[n]>>
          IN  IF k \in DOMAIN asked
              THEN \/ k \in DOMAIN member \/ ~asked[k].ok
                   \/ asked[k].filter = [mode |-> "INCLUDE_MODE", srcs |-> {}]
              ELSE k \in DOMAIN member /\ member[k] = [mode |-> "EXCLUDE_MODE", srcs |-> {}]

(* What a host reported, record by record, for interface i *)
Meaning(p, i) ==
    IF p.kind = "records"
    THEN [n \in DOMAIN p.report |->
            [if_index |-> i, type |-> p.report[n].type, gaddr |-> p.report[n].gaddr,
             slist |-> {p.report[n].srcs[j] : j \in DOMAIN p.report[n].srcs}]]
    ELSE analyse_older(p.kind, p.group, i)

(* A report reaches the instance as the host meant it and for the link the host
   is on (analyse_packet, interfaces::get_if_index).  It is dropped only when
   the link has no querier, the packet is too long or lacks its packet info, or
   the subnet of the link has changed since the snapshot; only in that last case
   can it be taken for a report from another link, the one that had this subnet. *)
Stale(link) == m_if_map[link] # Subnet(link)

ReportsAreAttributed ==
    last # NoPacket =>
        \/ last.msgs = Meaning(last, last.link)
        \/ /\ last.msgs = <<>>
           /\ \/ last.link \notin queriers
              \/ protocol = "IGMPv3" /\ (Stale(last.link) \/ Len(Packet(last.report)) > MaxWords)
              \/ protocol = "MLDv2" /\ ~last.info
        \/ /\ protocol = "IGMPv3" /\ Stale(last.link)
           /\ \E i \in Ifs : /\ m_if_map[i] = Subnet(last.link) /\ Stale(i)
                             /\ last.msgs = Meaning(last, i)
==============================================================================

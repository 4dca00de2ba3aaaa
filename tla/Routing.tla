------------------------------- MODULE Routing -------------------------------
(***************************************************************************)
(* The routing management of a proxy instance (simple_mc_proxy_routing.cpp *)
(* and simple_routing_data.cpp) for one group: the sources it has learned  *)
(* from the kernel, the multicast routes it has set and the records it has *)
(* sent to its upstream interfaces.  The functions take the group as a     *)
(* parameter and touch only its entries, so one group stands for all.      *)
(*                                                                         *)
(* The queriers are seen through what they publish: a membership for each  *)
(* downstream, whose changes all reach event_querier_state_change (module  *)
(* Querier, PublishedIsCurrent).  The handlers run to completion in the    *)
(* worker thread.  The kernel is external: a packet of a source without a  *)
(* route raises one upcall until the route is set or the kernel gives up,  *)
(* and every packet of a source with a route is counted.                   *)
(***************************************************************************)
EXTENDS Aggregation

CONSTANTS Configs,        \* the configurations to consider
          SourceLifeTime, \* get_source_life_time
          Memberships,    \* the memberships the queriers may publish
          Stamps,         \* identities of timer messages
          Senders,        \* the sources that send
          MaxPackets,     \* bound: packets sent by the sources
          MaxChanges      \* bound: membership changes of the queriers

ASSUME LifeTimeAssumption == SourceLifeTime \in Nat \ {0}
ASSUME StampAssumption == Stamps \subseteq Nat
ASSUME ConfigAssumption == Configs \subseteq Config
ASSUME InputAssumption == Memberships \subseteq SourceState /\ Senders \subseteq Sources
ASSUME BoundAssumption == MaxPackets \in Nat /\ MaxChanges \in Nat

VARIABLES config,      \* filters and rule bindings, set at start-up
          membership,  \* what the querier of a downstream publishes
          m_data,      \* learned sources: input interface, packet count, timer
          timing,      \* started source timers and the time they have left
          mfc,         \* kernel: routes with input, outputs and packet count
          unresolved,  \* kernel: sources with an upcall that has no route yet
          queue,       \* new_source_msg waiting for the worker
          record,      \* the last record sent to each upstream
          idle,        \* time since the last packet, upcall or membership change
          packets, changes

vars == <<config, membership, m_data, timing, mfc, unresolved, queue, record,
          idle, packets, changes>>

NewCount == -1    \* source::source
NoCount  == 1     \* get_current_packet_count when the kernel has no route

LearnedSource == [if_index : Interfaces, count : Int,
                  timer : Stamps]
SourceTimer == [source : Sources, if_index : Interfaces, stamp : Stamps,
                left : 0 .. SourceLifeTime]
Route == [input : Interfaces, output : SUBSET Interfaces, pkts : Nat]

(* The types of the variables.                                             *)
TypeOK ==
    /\ config \in Configs
    /\ membership \in [Downstreams -> SourceState]
    /\ DOMAIN m_data \subseteq Sources
    /\ m_data \in [DOMAIN m_data -> LearnedSource]
    /\ timing \subseteq SourceTimer
    /\ DOMAIN mfc \subseteq Sources
    /\ mfc \in [DOMAIN mfc -> Route]
    /\ unresolved \subseteq Sources
    /\ queue \subseteq (Interfaces \X Sources)
    /\ record \in [UpstreamSet -> SourceState]
    /\ idle \in Nat
    /\ packets \in Nat
    /\ changes \in Nat

is_upstream(i)   == i \in UpstreamSet
is_downstream(i) == i \in Downstreams

get_interface_map(data) == [s \in DOMAIN data |-> data[s].if_index]

------------------------------------------------------------------------------
(* Routes.                                                                 *)

(* The upstreams to which data of a downstream are forwarded.              *)
UpstreamOutputs(input, s) ==
    LET matching == {i \in DOMAIN Upstreams :
                        match_output_filter(config.up[Upstreams[i]], input, s)}
    IN {Upstreams[i] : i \in
           IF config.out_rule = "RMT_ALL" THEN matching
           ELSE {i \in matching : \A j \in matching : i <= j}}

(* querier::suggest_to_forward_traffic with the filter function of its caller *)
suggest_to_forward_traffic(mem, input, s) ==
    {d \in Downstreams : /\ Wants(mem[d], s)
                         /\ d # input
                         /\ match_output_filter(config.down[d], input, s)}

collect_interested_interfaces(mem, input, s) ==
    (IF is_downstream(input) THEN UpstreamOutputs(input, s) ELSE {})
        \cup suggest_to_forward_traffic(mem, input, s)

(* set_routes accepts the input interface in one of its two roles.         *)
UseThisInterface(input, s) ==
    \/ is_upstream(input) /\ match_input_filter(config.up[input], s)
    \/ is_downstream(input) /\ match_input_filter(config.down[input], s)

(* The kernel's reaction to MRT_ADD_MFC: a new route forwards the packet    *)
(* that raised the upcall, an existing one keeps its counter.               *)
add_route(routes, input, s, output) ==
    [input |-> input, output |-> output,
     pkts |-> IF s \in DOMAIN routes THEN routes[s].pkts
              ELSE IF s \in unresolved THEN 1 ELSE 0]

set_routes_add_only(mem, data, S) ==
    LET input(s)  == data[s].if_index
        output(s) == collect_interested_interfaces(mem, input(s), s)
        added == {s \in S : output(s) # {} /\ UseThisInterface(input(s), s)}
    IN /\ mfc' = [s \in DOMAIN mfc \cup added |->
                     IF s \in added THEN add_route(mfc, input(s), s, output(s))
                                    ELSE mfc[s]]
       /\ unresolved' = unresolved \ added

(* set_routes for the sources in S: no outputs deletes the route, a         *)
(* rejected input interface leaves it alone.                                *)
set_routes(mem, data, S) ==
    LET input(s)  == data[s].if_index
        output(s) == collect_interested_interfaces(mem, input(s), s)
        deleted == {s \in S : output(s) = {}}
        added   == {s \in S \ deleted : UseThisInterface(input(s), s)}
    IN /\ mfc' = [s \in (DOMAIN mfc \ deleted) \cup added |->
                     IF s \in added THEN add_route(mfc, input(s), s, output(s))
                                    ELSE mfc[s]]
       /\ unresolved' = unresolved \ added

send_records(mem, data) ==
    record' = process_membership_aggregation(config, mem, get_interface_map(data))

(* Known sources matter to the aggregation only with the rule "mutex".     *)
send_records_if_mutex_never(data) == UNCHANGED record
send_records_if_mutex(data) ==
    IF config.in_rule = "RMT_MUTEX" THEN send_records(membership, data)
                                    ELSE UNCHANGED record

------------------------------------------------------------------------------
(* Learned sources.                                                        *)

get_current_packet_count(s) == IF s \in DOMAIN mfc THEN mfc[s].pkts ELSE NoCount

UsedStamps == {t.stamp : t \in timing} \cup {m_data[s].timer : s \in DOMAIN m_data}
FreeStamps == Stamps \ UsedStamps
NewStamp   == CHOOSE n \in FreeStamps : \A k \in FreeStamps : n <= k

refresh_source_keep_count(s) == [m_data EXCEPT ![s].timer = NewStamp]
refresh_source(s) == [m_data EXCEPT ![s].count = get_current_packet_count(s),
                                    ![s].timer = NewStamp]

(* The duration of the message depends on the rule, but timing is always   *)
(* given the default life time.                                            *)
set_source_timer(i, s) ==
    [source |-> s, if_index |-> i, stamp |-> NewStamp, left |-> SourceLifeTime]

set_source(i, s) ==
    [t \in DOMAIN m_data \cup {s} |->
        IF t # s THEN m_data[t]
        ELSE [if_index |-> i, timer |-> NewStamp,
              count |-> IF s \in DOMAIN m_data THEN get_current_packet_count(s)
                                               ELSE NewCount]]

------------------------------------------------------------------------------
(* Events.                                                                 *)

event_new_source(i, s) ==
    /\ <<i, s>> \in queue
    /\ queue' = queue \ {<<i, s>>}
    /\ FreeStamps # {}
    /\ timing' = timing \cup {set_source_timer(i, s)}
    /\ m_data' = set_source(i, s)
    /\ set_routes(membership, m_data', {s})
    /\ send_records_if_mutex(m_data')
    /\ idle' = 0
    /\ UNCHANGED <<config, membership, packets, changes>>

event_querier_state_change(d, m) ==
    /\ changes < MaxChanges
    /\ changes' = changes + 1
    /\ m # membership[d]
    /\ membership' = [membership EXCEPT ![d] = m]
    /\ set_routes(membership', m_data, DOMAIN m_data)
    /\ send_records(membership', m_data)
    /\ idle' = 0
    /\ UNCHANGED <<config, m_data, timing, queue, packets>>

IsCurrent(t) == t.source \in DOMAIN m_data /\ m_data[t.source].timer = t.stamp

(* refresh_source_or_del_it_if_unused: a source without a packet since the *)
(* last look is forgotten, any other gets a new timer.                     *)
timer_triggerd_maintain_routing_table(t) ==
    LET s == t.source
        unused == m_data[s].count = get_current_packet_count(s)
    IN
    /\ t \in timing
    /\ t.left = 0
    /\ UNCHANGED <<config, membership, queue, unresolved, idle, packets,
                   changes>>
    /\ \/ /\ ~IsCurrent(t)
          /\ timing' = timing \ {t}
          /\ UNCHANGED <<m_data, mfc, record>>
       \/ /\ IsCurrent(t)
          /\ unused
          /\ timing' = timing \ {t}
          /\ m_data' = Restrict(m_data, DOMAIN m_data \ {s})
          /\ mfc' = Restrict(mfc, DOMAIN mfc \ {s})
          /\ send_records_if_mutex(m_data')
       \/ /\ IsCurrent(t)
          /\ ~unused
          /\ FreeStamps # {}
          /\ timing' = (timing \ {t}) \cup {set_source_timer(t.if_index, s)}
          /\ m_data' = refresh_source(s)
          /\ UNCHANGED <<mfc, record>>

(* A packet of s arrives at interface i.  The receiver turns the kernel's  *)
(* upcall into a message, which is lost when the job queue is full.        *)
Packet(i, s) ==
    /\ packets < MaxPackets
    /\ packets' = packets + 1
    /\ \/ /\ s \in DOMAIN mfc
          /\ mfc' = [mfc EXCEPT ![s].pkts = @ + 1]
          /\ UNCHANGED <<unresolved, queue>>
       \/ /\ s \notin DOMAIN mfc
          /\ s \notin unresolved
          /\ unresolved' = unresolved \cup {s}
          /\ queue' \in {queue, queue \cup {<<i, s>>}}
          /\ UNCHANGED mfc
    /\ idle' = 0
    /\ UNCHANGED <<config, membership, m_data, timing, record, changes>>

(* The kernel drops the packets it kept for a source.                      *)
UpcallExpires(s) ==
    /\ s \in unresolved
    /\ unresolved' = unresolved \ {s}
    /\ UNCHANGED <<config, membership, m_data, timing, mfc, queue, record,
                   idle, packets, changes>>

(* Time passes; due timers are handled first.                              *)
Tick ==
    /\ timing # {}
    /\ \A t \in timing : t.left > 0
    /\ timing' = {[t EXCEPT !.left = @ - 1] : t \in timing}
    /\ idle' = idle + 1
    /\ UNCHANGED <<config, membership, m_data, mfc, unresolved, queue, record,
                   packets, changes>>

Init ==
    /\ config \in Configs
    /\ membership = [d \in Downstreams |-> NewSourceState]
    /\ m_data = <<>>
    /\ timing = {}
    /\ mfc = <<>>
    /\ unresolved = {}
    /\ queue = {}
    /\ record = [u \in UpstreamSet |-> NewSourceState]
    /\ idle = 0
    /\ packets = 0
    /\ changes = 0

Next ==
    \/ \E i \in Interfaces, s \in Sources : event_new_source(i, s)
    \/ \E d \in Downstreams, m \in Memberships : event_querier_state_change(d, m)
    \/ \E t \in timing : timer_triggerd_maintain_routing_table(t)
    \/ \E i \in Interfaces, s \in Senders : Packet(i, s)
    \/ \E s \in Sources : UpcallExpires(s)
    \/ Tick

Spec == Init /\ [][Next]_vars

------------------------------------------------------------------------------
(* set_routes, del_route: the kernel forwards a learned source exactly to  *)
(* the interfaces that want it now, and forgets it together with the       *)
(* routing data; after every sequence of upcalls, membership changes and   *)
(* timers.  A source whose last packet came in at an interface that        *)
(* rejects it is excepted while somebody wants it: set_routes leaves the   *)
(* route it had before alone.                                              *)
RoutesAreCurrent ==
    /\ DOMAIN mfc \subseteq DOMAIN m_data
    /\ \A s \in DOMAIN m_data :
          LET input  == m_data[s].if_index
              output == collect_interested_interfaces(membership, input, s)
          IN /\ output = {} => s \notin DOMAIN mfc
             /\ output # {} /\ UseThisInterface(input, s) =>
                   /\ s \in DOMAIN mfc
                   /\ mfc[s].input = input
                   /\ mfc[s].output = output

(* process_membership_aggregation: the upstreams have been told the        *)
(* aggregation of the present memberships and, with "mutex", of the        *)
(* sources that are known at present.                                      *)
RecordsAreCurrent ==
    record = process_membership_aggregation(config, membership,
                                            get_interface_map(m_data))

(* process_upstream_in_mutex: a source that has been seen is asked for by  *)
(* name at one upstream at most, and at none if it came from a downstream. *)
(* It is the first upstream whose filters accept the source, which need    *)
(* not be the one that delivers it (see OthersUnsubscribe).                *)
SeenSourceAtOneUpstream ==
    config.in_rule = "RMT_MUTEX" =>
        \A s \in DOMAIN m_data :
            LET asking == {u \in UpstreamSet : /\ record[u].mode = "INCLUDE_MODE"
                                              /\ s \in record[u].sources}
            IN Cardinality(asking) <= IF is_upstream(m_data[s].if_index) THEN 1 ELSE 0

(* The description of the rule mutex: once data arrive from one upstream,  *)
(* "all other upstream interfaces unsubscribes".                           *)
OthersUnsubscribe ==
    config.in_rule = "RMT_MUTEX" =>
        \A s \in DOMAIN m_data : \A u \in UpstreamSet \ {m_data[s].if_index} :
            record[u].mode = "INCLUDE_MODE" => s \notin record[u].sources

(* process_upstream_in_first, merge_membership_infos: without filters the  *)
(* first upstream asks for what some downstream wants, and for nothing     *)
(* else, and the other upstreams ask for nothing.                          *)
UnfilteredAggregation ==
    /\ config.in_rule = "RMT_FIRST"
    /\ \A u \in UpstreamSet : config.up[u].input = Sources
    /\ \A d \in Downstreams : config.down[d].output = Interfaces \X Sources
    => \A i \in DOMAIN Upstreams :
          IF i = 1 THEN \A s \in Sources : Wants(record[Upstreams[1]], s) <=>
                           \E d \in Downstreams : Wants(membership[d], s)
                   ELSE record[Upstreams[i]] = NewSourceState

(* timer_triggerd_maintain_routing_table: when no packet, upcall and       *)
(* membership change has come for two life times, every source has been    *)
(* forgotten and its route deleted, however it was learned and relearned.  *)
SilentSourcesAreForgotten ==
    idle > 2 * SourceLifeTime => m_data = <<>> /\ mfc = <<>>
=============================================================================

----------------------------- MODULE Aggregation -----------------------------
(***************************************************************************)
(* interface_memberships (simple_mc_proxy_routing.cpp): what an instance   *)
(* asks for at its upstream interfaces, computed from the memberships of   *)
(* its downstream interfaces for one group, from the filters of the        *)
(* interfaces and, with the rule "mutex", from the sources it has seen.    *)
(*                                                                         *)
(* A state_list is a function from the downstreams still in the list to    *)
(* their (remaining) membership.  Merging is independent of the order of   *)
(* the downstreams, so the order of the list is left out.                  *)
(***************************************************************************)
EXTENDS Naturals, Sequences, FiniteSets, Functions

CONSTANTS Upstreams,     \* m_upstreams: sequence of interfaces by priority
          Downstreams,   \* keys of m_downstreams
          Sources

UpstreamSet == {Upstreams[i] : i \in DOMAIN Upstreams}
Interfaces  == UpstreamSet \cup Downstreams

ASSUME InterfacesAssumption ==
    /\ Upstreams \in Seq(UpstreamSet) /\ IsFiniteSet(Downstreams)
    /\ \A i, j \in DOMAIN Upstreams : Upstreams[i] = Upstreams[j] => i = j

FilterModes == {"INCLUDE_MODE", "EXCLUDE_MODE"}
SourceState == [mode : FilterModes, sources : SUBSET Sources]
NewSourceState == [mode |-> "INCLUDE_MODE", sources |-> {}]

(* The traffic a membership asks for.                                      *)
Wants(m, s) == IF m.mode = "INCLUDE_MODE" THEN s \in m.sources
                                          ELSE s \notin m.sources

(***************************************************************************)
(* Filters of an interface: input is the set of sources accepted from the  *)
(* interface itself, output the pairs of an input interface and a source.  *)
(* An interface used both as upstream and as downstream has two filters.   *)
(***************************************************************************)
Filter == [input : SUBSET Sources, output : SUBSET (Interfaces \X Sources)]

Config == [up : [UpstreamSet -> Filter], down : [Downstreams -> Filter],
           in_rule : {"RMT_FIRST", "RMT_MUTEX"},
           out_rule : {"RMT_ALL", "RMT_FIRST"}]

match_output_filter(f, input_if, s) == <<input_if, s>> \in f.output
match_input_filter(f, s) == s \in f.input

------------------------------------------------------------------------------
merge_membership_infos_union(to, from) ==
    [mode |-> IF "EXCLUDE_MODE" \in {to.mode, from.mode} THEN "EXCLUDE_MODE"
                                                        ELSE "INCLUDE_MODE",
     sources |-> to.sources \cup from.sources]
merge_membership_infos(to, from) ==
    CASE to.mode = "INCLUDE_MODE" /\ from.mode = "INCLUDE_MODE" ->
            [to EXCEPT !.sources = @ \cup from.sources]
      [] to.mode = "INCLUDE_MODE" /\ from.mode = "EXCLUDE_MODE" ->
            [mode |-> "EXCLUDE_MODE", sources |-> from.sources \ to.sources]
      [] to.mode = "EXCLUDE_MODE" /\ from.mode = "INCLUDE_MODE" ->
            [to EXCEPT !.sources = @ \ from.sources]
      [] to.mode = "EXCLUDE_MODE" /\ from.mode = "EXCLUDE_MODE" ->
            [to EXCEPT !.sources = @ \cap from.sources]

(* get_group_memberships: the merged list of one upstream.                 *)
get_group_memberships(list) ==
    FoldFunction(LAMBDA from, to : merge_membership_infos(to, from),
                 NewSourceState, list)

(* The states of a list reduced to the sources in keep[d]; without empty ones *)
WithSources(list, keep) ==
    [d \in DOMAIN list |-> [list[d] EXCEPT !.sources = keep[d]]]
NonEmpty(list) == Restrict(list, {d \in DOMAIN list : list[d].sources # {}})

------------------------------------------------------------------------------
(* The sources of each state that pass the output filter of the downstream *)
(* and are accepted (or not) by the input filter of upstream u.            *)
FirstSplit(c, u, list, accepted) ==
    [d \in DOMAIN list |->
        {s \in list[d].sources :
            /\ match_output_filter(c.down[d], u, s)
            /\ match_input_filter(c.up[u], s) = accepted}]

(* The list an upstream hands on to the next one.                          *)
FirstRest(c, u, list) ==
    NonEmpty(WithSources(list, FirstSplit(c, u, list, FALSE)))

process_upstream_in_first(c, membership) ==
    LET list[i \in DOMAIN Upstreams] ==
            IF i = 1 THEN membership
                     ELSE FirstRest(c, Upstreams[i - 1], list[i - 1])
    IN [i \in DOMAIN Upstreams |->
           WithSources(list[i], FirstSplit(c, Upstreams[i], list[i], TRUE))]

------------------------------------------------------------------------------
(* One upstream of the rule "mutex".  acc.list is what is left of the      *)
(* downstreams' states, acc.data the lists of the upstreams so far.  A     *)
(* source that has been seen is taken from the rest and from the upstreams *)
(* before; it is kept for u if it arrived over an upstream.                *)
MutexStep_no_clean(c, if_map, u, acc) ==
    LET accepted == [d \in DOMAIN acc.list |->
                        {s \in acc.list[d].sources :
                            /\ match_output_filter(c.down[d], u, s)
                            /\ match_input_filter(c.up[u], s)}]
    IN [acc EXCEPT !.data = Append(@, NonEmpty(WithSources(acc.list, accepted)))]
MutexStep(c, if_map, u, acc) ==
    LET accepted == [d \in DOMAIN acc.list |->
                        {s \in acc.list[d].sources :
                            /\ match_output_filter(c.down[d], u, s)
                            /\ match_input_filter(c.up[u], s)}]
        seen == DOMAIN if_map \cap UNION {accepted[d] : d \in DOMAIN accepted}
        clean(list) == NonEmpty(WithSources(list,
                           [d \in DOMAIN list |-> list[d].sources \ seen]))
        local == {s \in seen : if_map[s] \notin UpstreamSet}
    IN [list |-> NonEmpty(WithSources(acc.list,
                     [d \in DOMAIN acc.list |->
                        acc.list[d].sources \ (accepted[d] \cap seen)])),
        data |-> Append([i \in DOMAIN acc.data |-> clean(acc.data[i])],
                        NonEmpty(WithSources(acc.list,
                            [d \in DOMAIN acc.list |-> accepted[d] \ local])))]

process_upstream_in_mutex(c, membership, if_map) ==
    LET step[i \in 0 .. Len(Upstreams)] ==
            IF i = 0 THEN [list |-> membership, data |-> <<>>]
                     ELSE MutexStep(c, if_map, Upstreams[i], step[i - 1])
    IN step[Len(Upstreams)].data

(* The constructor of interface_memberships.                               *)
interface_memberships(c, membership, if_map) ==
    IF c.in_rule = "RMT_FIRST"
    THEN process_upstream_in_first(c, membership)
    ELSE process_upstream_in_mutex(c, membership, if_map)

(* The records of process_membership_aggregation, one for each upstream.   *)
process_membership_aggregation(c, membership, if_map) ==
    LET im == interface_memberships(c, membership, if_map)
    IN [u \in UpstreamSet |->
           get_group_memberships(im[CHOOSE i \in DOMAIN Upstreams :
                                        Upstreams[i] = u])]
=============================================================================

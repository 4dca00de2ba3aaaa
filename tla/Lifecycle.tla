------------------------------ MODULE Lifecycle ------------------------------
(***************************************************************************)
(* From the start of the program to its end: configuration hands the       *)
(* interfaces to the instances (configuration.cpp, interfaces.cpp), proxy  *)
(* starts one instance after the other, each with a multicast table of the *)
(* kernel (proxy.cpp), the worker threads handle the configuration         *)
(* messages (proxy_instance.cpp, routing.cpp), and a signal or an          *)
(* exception brings everything down again.                                 *)
(*                                                                         *)
(* The instances are numbered in the order of their names.  The job queue  *)
(* is a heap ordered by priority only: the exit command comes first, the   *)
(* configuration messages are taken in any order.  The kernel is external: *)
(* a table has one user, and is emptied when its socket closes.            *)
(***************************************************************************)
EXTENDS Integers, Sequences, FiniteSets

CONSTANTS Definitions,  \* the sequences of instances a configuration may define
          Filters,      \* the reverse path filters the system may start with, and
                        \* the files of them that the program cannot open
          Ifs,          \* names of existing network interfaces
          UpIfs,        \* those with IFF_UP
          Tunnels,      \* those with IFF_POINTOPOINT and a remote address
          MaxVifs,      \* MAXVIFS
          MaxInsts,     \* bound: instances of a configuration
          MaxTable,     \* bound: multicast tables of the kernel
          MaxSignals    \* bound: signals sent to the program

Insts == 1 .. MaxInsts
Rules == {"RMT_ALL", "RMT_FIRST", "RMT_MUTEX"}
IfTypes == {"IT_UPSTREAM", "IT_DOWNSTREAM"}
Directions == {"ID_IN", "ID_OUT"}
Tables == 0 .. MaxTable
Families == {"AF_INET", "AF_INET6"}
RpNames == Ifs \cup {"all"}

Definition == [up : Seq(Ifs), down : Seq(Ifs), selected : BOOLEAN, number : Tables,
               settings : SUBSET (IfTypes \X Directions \X Rules)]

(* The parser wants a downstream for every instance.  There are tables for *)
(* the numbers chosen and for those counted from there.                    *)
ASSUME LifecycleAssumption ==
    /\ UpIfs \subseteq Ifs /\ Tunnels \subseteq Ifs
    /\ Filters \subseteq [flags : [RpNames -> 0 .. 2], locked : SUBSET RpNames]
    /\ MaxVifs \in Nat \ {0} /\ MaxSignals \in Nat
    /\ MaxInsts \in Nat /\ MaxTable \in Nat /\ MaxInsts <= MaxTable
    /\ \A D \in Definitions :
          /\ D \in Seq(Definition) /\ Len(D) <= MaxInsts
          /\ \A i \in DOMAIN D : D[i].down # <<>> /\ D[i].number + MaxInsts <= MaxTable

VARIABLES defs,          \* instance definitions, in the order of their names
          m_reset_rp_filter,
          family,        \* get_addr_family(m_group_mem_protocol)
          rp_before,     \* the flags before the program started
          locked,        \* the files of flags that cannot be opened
          main,          \* where the main thread is
          next,          \* the instance it works on
          m_running,     \* proxy::m_running
          signals,       \* signals received
          table_number,  \* local variable of start_proxy_instances
          m_if_vif, m_vif_if,                 \* interfaces of an instance
          rp_filter, m_restore_if_state,      \* kernel flags, flags to restore
          phase,         \* life of an instance
          number,        \* m_table_number
          worker,        \* its worker thread
          receiver,      \* the thread of its receiver
          queue,         \* its job queue
          current,       \* the message its worker has taken, if any
          m_upstreams, m_downstreams, rule,   \* result of handle_config
          m_added_ifs,                        \* routing::m_added_ifs
          m_relevant_if_index,                \* receiver
          vifs,          \* kernel: virtual interfaces of each table
          mrules,        \* kernel: policy rules that lead to a table
          refused_vifs,  \* kernel: interfaces that it refused as virtual ones
          crashed        \* ended by undefined behaviour or by std::terminate,
                         \* without any destructor

conf   == <<defs, m_reset_rp_filter, family, rp_before, locked>>
kernel == <<rp_filter, vifs, mrules, refused_vifs>>
ifaces == <<m_if_vif, m_vif_if, m_restore_if_state>>
inst   == <<phase, number, worker, receiver, queue, current, m_upstreams, m_downstreams,
            rule, m_added_ifs, m_relevant_if_index>>
vars   == <<conf, main, next, m_running, signals, table_number, ifaces, kernel,
            inst, crashed>>

MainStates == {"configure", "start", "unwind", "loop", "destroy", "restore", "ended"}
(* While it is destroyed an instance first stops its receiver.             *)
Phases == {"none", "alive", "stopping", "dying", "destroyed"}
InstSet == DOMAIN defs

Message == [type : {"SET_GLOBAL_RULE_BINDING"}, if_type : IfTypes, direction : Directions,
            rule : Rules]
           \cup [type : {"ADD_UPSTREAM"}, if : Ifs, priority : Nat]
           \cup [type : {"ADD_DOWNSTREAM"}, if : Ifs]
ExitMessage == [type |-> "EXIT_MSG"]

VifMaps == UNION {[X -> 0 .. MaxVifs - 1] : X \in SUBSET Ifs}
IfMaps == UNION {[V -> Ifs] : V \in SUBSET (0 .. MaxVifs - 1)}

(* The types of the variables.                                             *)
TypeOK ==
    /\ defs \in Definitions /\ m_reset_rp_filter \in BOOLEAN /\ family \in Families
    /\ main \in MainStates
    /\ next \in 1 .. MaxInsts + 1
    /\ m_running \in BOOLEAN /\ crashed \in BOOLEAN
    /\ signals \in 0 .. MaxSignals
    /\ table_number \in Tables
    /\ phase \in [Insts -> Phases]
    /\ worker \in [Insts -> {"none", "running", "handling", "ended"}]
    /\ receiver \in [Insts -> {"none", "running", "ended"}]
    /\ number \in [Insts -> Tables]
    /\ queue \in [Insts -> SUBSET (Message \cup {ExitMessage})]
    /\ current \in [Insts -> SUBSET Message]
    /\ m_upstreams \in [Insts -> SUBSET [if : Ifs, priority : Nat]]
    /\ m_downstreams \in [Insts -> SUBSET Ifs]
    /\ m_added_ifs \in [Insts -> SUBSET Ifs]
    /\ m_relevant_if_index \in [Insts -> SUBSET Ifs]
    /\ rule \in [Insts -> [Directions -> Rules]]
    /\ m_if_vif \in [Insts -> VifMaps] /\ m_vif_if \in [Insts -> IfMaps]
    /\ vifs \in [Tables -> IfMaps]
    /\ mrules \subseteq Ifs \X Tables
    /\ refused_vifs \in [Insts -> SUBSET Ifs]
    /\ m_restore_if_state \in [Insts -> SUBSET RpNames]
    /\ [flags |-> rp_before, locked |-> locked] \in Filters
    /\ rp_filter \in [RpNames -> 0 .. 2]

------------------------------------------------------------------------------
(* interfaces.cpp and reverse_path_filter.cpp                              *)

InUse(map) == {map[x] : x \in DOMAIN map}
(* -1 when the table is full.                                              *)
get_free_vif_number(map) ==
    LET free == 0 .. MaxVifs - 1 \ InUse(map)
    IN IF free = {} THEN -1 ELSE CHOOSE v \in free : \A w \in free : v <= w

Add(map, x, v) == [y \in DOMAIN map \cup {x} |-> IF y = x THEN v ELSE map[y]]

(* get_rp_filter reads the character of the digit, which is never 0: every *)
(* flag is cleared and noted, unless its file cannot be opened; that of    *)
(* "all" with the first one (m_used_earlier), or never.                    *)
reset_rp_filter_unnoted(rp, noted, x) ==
    LET cleared == IF x \in locked THEN {} ELSE {x, "all"} \ locked
    IN [rp |-> [y \in DOMAIN rp |-> IF y \in cleared THEN 0 ELSE rp[y]],
        noted |-> noted \cup (cleared \ {"all"})]
reset_rp_filter(rp, noted, x) ==
    LET cleared == IF x \in locked THEN {}
                   ELSE IF noted = {} THEN {x, "all"} \ locked ELSE {x}
    IN [rp |-> [y \in DOMAIN rp |-> IF y \in cleared THEN 0 ELSE rp[y]],
        noted |-> noted \cup cleared]

(* The option -r has no effect for IPv6.                                   *)
m_reset_reverse_path_filter == m_reset_rp_filter /\ family = "AF_INET"

(* add_interface on a, the state of an interfaces object: false when the   *)
(* table is full or the interface is down; true and no change when it is   *)
(* already there.                                                          *)
add_interface(a, x) ==
    LET v == get_free_vif_number(a.if_vif)
        r == reset_rp_filter(a.rp, a.noted, x)
    IN IF v = -1 \/ x \notin UpIfs THEN [a EXCEPT !.ok = FALSE]
       ELSE IF x \in DOMAIN a.if_vif THEN a
       ELSE [ok |-> a.ok, if_vif |-> Add(a.if_vif, x, v), vif_if |-> Add(a.vif_if, v, x),
             rp |-> IF m_reset_reverse_path_filter THEN r.rp ELSE a.rp,
             noted |-> IF m_reset_reverse_path_filter THEN r.noted ELSE a.noted]

(* The downstreams, then the upstreams, until one is refused.              *)
Empty(rp) == [ok |-> TRUE, if_vif |-> <<>>, vif_if |-> <<>>, rp |-> rp, noted |-> {}]
AddNext(a, x) == IF a.ok THEN add_interface(a, x) ELSE a
AddAll(list, rp) ==
    LET a[k \in 0 .. Len(list)] == IF k = 0 THEN Empty(rp) ELSE AddNext(a[k - 1], list[k])
    IN a[Len(list)]

(* configuration::initalize_interfaces, one instance after the other.      *)
initalize_interfaces ==
    /\ main = "configure"
    /\ IF next \in InstSet
       THEN LET a == AddAll(defs[next].down \o defs[next].up, rp_filter)
            IN /\ m_if_vif' = [m_if_vif EXCEPT ![next] = a.if_vif]
               /\ m_vif_if' = [m_vif_if EXCEPT ![next] = a.vif_if]
               /\ rp_filter' = a.rp
               /\ m_restore_if_state' = [m_restore_if_state EXCEPT ![next] = a.noted]
               /\ IF a.ok THEN next' = next + 1 /\ UNCHANGED main
                          ELSE next' = 1 /\ main' = "destroy"
       ELSE /\ main' = "start" /\ next' = 1
            /\ UNCHANGED <<ifaces, rp_filter>>
    /\ UNCHANGED <<conf, m_running, signals, table_number, vifs, mrules, refused_vifs, inst,
                   crashed>>

------------------------------------------------------------------------------
(* proxy::start_proxy_instances                                            *)

TableNumber(i) ==
    IF defs[i].selected THEN defs[i].number
    ELSE IF Cardinality(InstSet) <= 1 THEN 0 ELSE table_number + 1

(***************************************************************************)
(* The calls by which the constructor of an instance sets up its two raw   *)
(* sockets, that of the routing table and receiver and that of the sender. *)
(* The system may refuse each of them; the constructor then throws.        *)
(***************************************************************************)
mrt_calls(t) == {"socket", "MRT_INIT"} \cup IF t > 0 THEN {"MRT_TABLE"} ELSE {}
sender_calls ==
    {"socket", "MULTICAST_LOOP"}
    \cup IF family = "AF_INET" THEN {"IP_HDRINCL"} ELSE {"ICMP6_CHECKSUM", "IPV6_HOPOPTS"}
receiver_calls ==
    IF family = "AF_INET" THEN {} ELSE {"ICMP6_FILTER", "IPV6_RECVPKTINFO"}
routing_calls == {"getifaddrs"}

(* MRT_INIT: the kernel admits one user for each table.                    *)
InUseTables == {number[i] : i \in {j \in InstSet : phase[j] \notin {"none", "destroyed"}}}
init_mrt_socket_unchecked(t, refused) == refused \notin mrt_calls(t)
init_mrt_socket(t, refused) == refused \notin mrt_calls(t) /\ t \notin InUseTables
init_sender(refused)   == refused \notin sender_calls
init_receiver(refused) == refused \notin receiver_calls
init_routing(refused)  == refused \notin routing_calls

(* The messages for an instance: settings, upstreams by priority, then     *)
(* downstreams, up to the n-th interface.                                  *)
QueuedMessages(d, n) ==
    {[type |-> "SET_GLOBAL_RULE_BINDING", if_type |-> s[1], direction |-> s[2], rule |-> s[3]] :
        s \in d.settings}
    \cup {[type |-> "ADD_UPSTREAM", if |-> d.up[k], priority |-> 100 * (k - 1)] :
             k \in {j \in DOMAIN d.up : j <= n}}
    \cup {[type |-> "ADD_DOWNSTREAM", if |-> d.down[k]] :
             k \in {j \in DOMAIN d.down : Len(d.up) + j <= n}}
Interfaces(d) == Len(d.up) + Len(d.down)
ConfigMessages(d) == QueuedMessages(d, Interfaces(d))

(* The receiver runs before routing is set up: when that fails its thread  *)
(* has to be stopped again.  When an interface is gone by now the instance *)
(* has its threads and the messages before it, and is destroyed.           *)
start_proxy_instances ==
    /\ main = "start" /\ next \in InstSet
    /\ \E refused \in {"nothing"} \cup mrt_calls(TableNumber(next)) \cup sender_calls
                      \cup receiver_calls \cup routing_calls :
       LET t == TableNumber(next)
           sockets == /\ init_mrt_socket(t, refused) /\ init_sender(refused)
                      /\ init_receiver(refused)
       IN /\ table_number' = t
          /\ number' = [number EXCEPT ![next] = t]
          /\ IF sockets /\ init_routing(refused)
             THEN /\ phase' = [phase EXCEPT ![next] = "alive"]
                  /\ receiver' = [receiver EXCEPT ![next] = "running"]
                  /\ worker' = [worker EXCEPT ![next] = "running"]
                  /\ \E found \in 0 .. Interfaces(defs[next]) :
                        /\ queue' = [queue EXCEPT ![next] = QueuedMessages(defs[next], found)]
                        /\ IF found = Interfaces(defs[next])
                           THEN next' = next + 1 /\ UNCHANGED main
                           ELSE main' = "unwind" /\ UNCHANGED next
             ELSE /\ IF sockets
                     THEN /\ phase' = [phase EXCEPT ![next] = "stopping"]
                          /\ receiver' = [receiver EXCEPT ![next] = "running"]
                          /\ main' = "unwind" /\ UNCHANGED next
                     ELSE /\ main' = "destroy" /\ next' = 1
                          /\ UNCHANGED <<phase, receiver>>
                  /\ UNCHANGED <<worker, queue>>
    /\ UNCHANGED <<conf, m_running, signals, ifaces, kernel, current, m_upstreams,
                   m_downstreams, rule, m_added_ifs, m_relevant_if_index, crashed>>

(* A refused SO_RCVTIMEO is thrown as a std::string.  main catches only    *)
(* const char*: std::terminate.                                            *)
receiver_throws ==
    /\ main = "start" /\ next \in InstSet
    /\ TableNumber(next) \notin InUseTables
    /\ crashed' = TRUE
    /\ UNCHANGED <<conf, main, next, m_running, signals, table_number, ifaces, kernel, inst>>

(* The members of an instance that was not finished are gone.              *)
Unwind ==
    /\ main = "unwind" /\ worker[next] = "none" /\ receiver[next] = "ended"
    /\ phase' = [phase EXCEPT ![next] = "none"]
    /\ main' = "destroy" /\ next' = 1
    /\ UNCHANGED <<conf, m_running, signals, table_number, ifaces, kernel, number, worker,
                   receiver, queue, current, m_upstreams, m_downstreams, rule, m_added_ifs,
                   m_relevant_if_index, crashed>>

(* proxy::start sets m_running, whatever a signal has done before.         *)
StartLoop ==
    /\ main = "start" /\ next \notin InstSet
    /\ main' = "loop" /\ m_running' = TRUE
    /\ UNCHANGED <<conf, next, signals, table_number, ifaces, kernel, inst, crashed>>

signal_handler ==
    /\ signals < MaxSignals /\ main # "ended"
    /\ signals' = signals + 1
    /\ m_running' = FALSE
    /\ UNCHANGED <<conf, main, next, table_number, ifaces, kernel, inst, crashed>>

(* The end of proxy::start: exit commands for all instances.               *)
LeaveLoop ==
    /\ main = "loop" /\ ~m_running
    /\ queue' = [i \in Insts |-> IF phase[i] = "alive" THEN queue[i] \cup {ExitMessage}
                                                       ELSE queue[i]]
    /\ main' = "destroy" /\ next' = 1
    /\ UNCHANGED <<conf, m_running, signals, table_number, ifaces, kernel, phase, number,
                   worker, receiver, current, m_upstreams, m_downstreams, rule, m_added_ifs,
                   m_relevant_if_index, crashed>>

------------------------------------------------------------------------------
(* proxy_instance::worker_thread and handle_config                         *)

is_upstream(i, x)   == \E u \in m_upstreams[i] : u.if = x
is_downstream(i, x) == x \in m_downstreams[i]

(* mroute_socket: MRT_ADD_VIF, and the policy rules the program ip sets    *)
kernel_add_vif(t, v, x) == [vifs EXCEPT ![t] = Add(@, v, x)]
bind_vif_to_table(x, t) == mrules \cup {<<x, t>>}
unbind_vif_form_table(X, t) == mrules \ (X \X {t})

(* routing::add_vif: the kernel may refuse the virtual interface or the    *)
(* rule; nobody looks at the result.  Tunnels are not noted.               *)
add_vif(i, x) ==
    \E result \in {"added", "unbound", "refused"} :
        /\ vifs' = IF result = "refused" THEN vifs
                   ELSE kernel_add_vif(number[i], m_if_vif[i][x], x)
        /\ m_added_ifs' = [m_added_ifs EXCEPT ![i] =
                              IF result = "refused" \/ x \in Tunnels THEN @ ELSE @ \cup {x}]
        /\ mrules' = IF number[i] > 0 /\ result = "added" THEN bind_vif_to_table(x, number[i])
                     ELSE mrules
        /\ refused_vifs' = [refused_vifs EXCEPT ![i] =
                               IF result = "refused" THEN @ \cup {x} ELSE @ \ {x}]

registrate_interface(i, x) ==
    m_relevant_if_index' = [m_relevant_if_index EXCEPT ![i] = @ \cup {x}]

(* An interface that already has the other role is registered already.     *)
registered == <<vifs, m_added_ifs, mrules, refused_vifs, m_relevant_if_index>>
Register_never_twice(i, x, other_role) ==
    IF other_role \/ m_relevant_if_index[i] # {} THEN UNCHANGED registered
    ELSE add_vif(i, x) /\ registrate_interface(i, x)
Register(i, x, other_role) ==
    IF other_role THEN UNCHANGED registered
    ELSE add_vif(i, x) /\ registrate_interface(i, x)

AddUpstream(i, msg) ==
    IF is_upstream(i, msg.if)
    THEN UNCHANGED <<m_upstreams, m_downstreams, rule, registered>>
    ELSE /\ Register(i, msg.if, is_downstream(i, msg.if))
         /\ m_upstreams' = [m_upstreams EXCEPT ![i] =
                               @ \cup {[if |-> msg.if, priority |-> msg.priority]}]
         /\ UNCHANGED <<m_downstreams, rule>>

AddDownstream(i, msg) ==
    IF is_downstream(i, msg.if)
    THEN UNCHANGED <<m_upstreams, m_downstreams, rule, registered>>
    ELSE /\ Register(i, msg.if, is_upstream(i, msg.if))
         /\ m_downstreams' = [m_downstreams EXCEPT ![i] = @ \cup {msg.if}]
         /\ UNCHANGED <<m_upstreams, rule>>

(* The rules of downstreams are refused here, with an error in the log.    *)
SetGlobalRuleBinding(i, msg) ==
    /\ rule' = IF msg.if_type = "IT_UPSTREAM" THEN [rule EXCEPT ![i][msg.direction] = msg.rule]
               ELSE rule
    /\ UNCHANGED <<m_upstreams, m_downstreams, registered>>

handle_config(i, msg) ==
    CASE msg.type = "ADD_UPSTREAM" -> AddUpstream(i, msg)
      [] msg.type = "ADD_DOWNSTREAM" -> AddDownstream(i, msg)
      [] msg.type = "SET_GLOBAL_RULE_BINDING" -> SetGlobalRuleBinding(i, msg)

(* dequeue: the exit command first.                                        *)
TakeMessage(i, msg) ==
    /\ worker[i] = "running"
    /\ ExitMessage \notin queue[i]
    /\ msg \in queue[i]
    /\ queue' = [queue EXCEPT ![i] = @ \ {msg}]
    /\ current' = [current EXCEPT ![i] = {msg}]
    /\ worker' = [worker EXCEPT ![i] = "handling"]
    /\ UNCHANGED <<conf, main, next, m_running, signals, table_number, ifaces, kernel,
                   phase, number, receiver, m_upstreams, m_downstreams, rule, m_added_ifs,
                   m_relevant_if_index, crashed>>

(* A message that is handled when the members of the instance are gone     *)
(* touches freed memory: the program may crash, or nothing comes of it.    *)
HandleMessage(i, msg) ==
    /\ worker[i] = "handling" /\ msg \in current[i]
    /\ current' = [current EXCEPT ![i] = {}]
    /\ worker' = [worker EXCEPT ![i] = "running"]
    /\ \/ phase[i] = "alive" /\ handle_config(i, msg) /\ UNCHANGED crashed
       \/ /\ phase[i] \in {"stopping", "dying"}
          /\ crashed' \in BOOLEAN
          /\ UNCHANGED <<m_upstreams, m_downstreams, rule, registered>>
    /\ UNCHANGED <<conf, main, next, m_running, signals, table_number, ifaces, rp_filter,
                   phase, number, receiver, queue>>

(* What handle_config calls may throw (the constructor of querier, or the  *)
(* name of an interface that is gone), and no one catches it here.         *)
handle_config_throws(i, msg) ==
    /\ worker[i] = "handling" /\ msg \in current[i]
    /\ phase[i] = "alive"
    /\ \/ msg.type = "ADD_DOWNSTREAM" /\ ~is_downstream(i, msg.if)
       \/ msg.type = "ADD_UPSTREAM" /\ ~is_upstream(i, msg.if) /\ ~is_downstream(i, msg.if)
    /\ crashed' = TRUE
    /\ UNCHANGED <<conf, main, next, m_running, signals, table_number, ifaces, kernel, inst>>

HandleExit(i) ==
    /\ worker[i] = "running" /\ ExitMessage \in queue[i]
    /\ worker' = [worker EXCEPT ![i] = "ended"]
    /\ queue' = [queue EXCEPT ![i] = @ \ {ExitMessage}]
    /\ UNCHANGED <<conf, main, next, m_running, signals, table_number, ifaces, kernel,
                   phase, number, receiver, current, m_upstreams, m_downstreams, rule,
                   m_added_ifs, m_relevant_if_index, crashed>>

------------------------------------------------------------------------------
(* Destruction: the instances, then the interfaces of the configuration.   *)

(***************************************************************************)
(* ~proxy_instance adds an exit command and destroys the members, before   *)
(* ~worker waits for the thread.  ~routing erases the elements of the set  *)
(* it iterates over: undefined after the first one, so some of the others  *)
(* may be skipped.                                                         *)
(***************************************************************************)
destroy_members_no_exit(i) == UNCHANGED queue
destroy_members(i) == queue' = [queue EXCEPT ![i] = @ \cup {ExitMessage}]

del_vif(i, X) ==
    /\ vifs' = [vifs EXCEPT ![number[i]] =
                   [v \in {w \in DOMAIN @ : @[w] \notin X} |-> @[v]]]
    /\ mrules' = IF number[i] > 0 THEN unbind_vif_form_table(X, number[i]) ELSE mrules

(* An instance is destroyed in its turn, or when it was not finished.      *)
Destroying(i) == /\ i = next
                 /\ main = "destroy" \/ (main = "unwind" /\ worker[i] # "none")

DestroyMembers(i) ==
    /\ Destroying(i)
    /\ phase[i] = "alive"
    /\ phase' = [phase EXCEPT ![i] = "stopping"]
    /\ destroy_members(i)
    /\ \E deleted \in SUBSET m_added_ifs[i] :
          (m_added_ifs[i] # {} => deleted # {}) /\ del_vif(i, deleted)
    /\ m_upstreams' = [m_upstreams EXCEPT ![i] = {}]
    /\ m_downstreams' = [m_downstreams EXCEPT ![i] = {}]
    /\ m_added_ifs' = [m_added_ifs EXCEPT ![i] = {}]
    /\ m_relevant_if_index' = [m_relevant_if_index EXCEPT ![i] = {}]
    /\ UNCHANGED <<conf, main, next, m_running, signals, table_number, ifaces, rp_filter,
                   refused_vifs, number, worker, receiver, current, rule, crashed>>

(* The receiver sees that it is to stop when the receive call has timed    *)
(* out, or when a packet has come; that it hands to a function of the      *)
(* derived class, which ~receiver finds destroyed already.                 *)
receive_timeout(i) ==
    /\ receiver[i] = "running" /\ phase[i] = "stopping"
    /\ receiver' = [receiver EXCEPT ![i] = "ended"]
    /\ UNCHANGED <<conf, main, next, m_running, signals, table_number, ifaces, kernel,
                   phase, number, worker, queue, current, m_upstreams, m_downstreams, rule,
                   m_added_ifs, m_relevant_if_index, crashed>>

receive_packet(i) ==
    /\ receiver[i] = "running" /\ phase[i] = "stopping"
    /\ receiver' = [receiver EXCEPT ![i] = "ended"]
    /\ crashed' \in BOOLEAN
    /\ UNCHANGED <<conf, main, next, m_running, signals, table_number, ifaces, kernel,
                   phase, number, worker, queue, current, m_upstreams, m_downstreams, rule,
                   m_added_ifs, m_relevant_if_index>>

(* Then the sockets close, and the table goes with them.                   *)
JoinReceiver(i) ==
    /\ Destroying(i)
    /\ phase[i] = "stopping" /\ receiver[i] = "ended"
    /\ phase' = [phase EXCEPT ![i] = "dying"]
    /\ vifs' = [vifs EXCEPT ![number[i]] = <<>>]
    /\ UNCHANGED <<conf, main, next, m_running, signals, table_number, ifaces, rp_filter,
                   mrules, refused_vifs, number, worker, receiver, queue, current,
                   m_upstreams, m_downstreams, rule, m_added_ifs, m_relevant_if_index, crashed>>

JoinWorker(i) ==
    /\ Destroying(i)
    /\ phase[i] = "dying" /\ worker[i] = "ended"
    /\ phase' = [phase EXCEPT ![i] = "destroyed"]
    /\ main' = "destroy"
    /\ next' = IF main = "unwind" THEN 1 ELSE next + 1
    /\ UNCHANGED <<conf, m_running, signals, table_number, ifaces, kernel, number,
                   worker, receiver, queue, current, m_upstreams, m_downstreams, rule,
                   m_added_ifs, m_relevant_if_index, crashed>>

(* No instance (any more): go on with the next one, then with configuration *)
SkipInstance ==
    /\ main = "destroy"
    /\ IF next \in Insts
       THEN phase[next] \in {"none", "destroyed"} /\ next' = next + 1 /\ UNCHANGED main
       ELSE main' = "restore" /\ UNCHANGED next
    /\ UNCHANGED <<conf, m_running, signals, table_number, ifaces, kernel, inst, crashed>>

(* ~reverse_path_filter of every interfaces object.                        *)
restore_rp_filter ==
    /\ main = "restore"
    /\ LET noted == UNION {m_restore_if_state[i] : i \in Insts}
       IN rp_filter' = [x \in DOMAIN rp_filter |-> IF x \in noted THEN 1 ELSE rp_filter[x]]
    /\ m_restore_if_state' = [i \in Insts |-> {}]
    /\ main' = "ended"
    /\ UNCHANGED <<conf, next, m_running, signals, table_number, m_if_vif, m_vif_if,
                   vifs, mrules, refused_vifs, inst, crashed>>

------------------------------------------------------------------------------
Init ==
    /\ defs \in Definitions
    /\ m_reset_rp_filter \in BOOLEAN
    /\ family \in Families
    /\ main = "configure" /\ next = 1
    /\ m_running = FALSE /\ signals = 0
    /\ table_number = 0
    /\ m_if_vif = [i \in Insts |-> <<>>] /\ m_vif_if = [i \in Insts |-> <<>>]
    /\ \E f \in Filters : rp_before = f.flags /\ locked = f.locked
    /\ rp_filter = rp_before
    /\ m_restore_if_state = [i \in Insts |-> {}]
    /\ phase = [i \in Insts |-> "none"]
    /\ number = [i \in Insts |-> 0]
    /\ worker = [i \in Insts |-> "none"] /\ receiver = [i \in Insts |-> "none"]
    /\ queue = [i \in Insts |-> {}] /\ current = [i \in Insts |-> {}]
    /\ m_upstreams = [i \in Insts |-> {}] /\ m_downstreams = [i \in Insts |-> {}]
    /\ rule = [i \in Insts |-> [d \in Directions |->
                                   IF d = "ID_IN" THEN "RMT_FIRST" ELSE "RMT_ALL"]]
    /\ m_added_ifs = [i \in Insts |-> {}]
    /\ m_relevant_if_index = [i \in Insts |-> {}]
    /\ vifs = [t \in Tables |-> <<>>]
    /\ mrules = {}
    /\ refused_vifs = [i \in Insts |-> {}]
    /\ crashed = FALSE

MainStep == \/ initalize_interfaces \/ start_proxy_instances \/ receiver_throws
            \/ Unwind \/ StartLoop \/ LeaveLoop
            \/ \E i \in Insts : DestroyMembers(i) \/ JoinReceiver(i) \/ JoinWorker(i)
            \/ SkipInstance \/ restore_rp_filter
WorkerStep(i) == \/ HandleExit(i)
                 \/ \E msg \in queue[i] : TakeMessage(i, msg)
                 \/ \E msg \in current[i] : \/ HandleMessage(i, msg)
                                            \/ handle_config_throws(i, msg)

Next == /\ ~crashed
        /\ \/ MainStep \/ signal_handler
           \/ \E i \in Insts : WorkerStep(i) \/ receive_timeout(i) \/ receive_packet(i)

(* The threads run; a worker that has messages takes one.  Packets may     *)
(* never come: it is the timeout that ends the receiver.                   *)
Fairness == /\ WF_vars(~crashed /\ MainStep)
            /\ \A i \in Insts : /\ WF_vars(~crashed /\ WorkerStep(i))
                                 /\ WF_vars(~crashed /\ receive_timeout(i))

Spec == Init /\ [][Next]_vars /\ Fairness

------------------------------------------------------------------------------
(* All messages of the instance have been queued.                          *)
Started(i) == ~(main = "unwind" /\ i = next)
SettledInstances ==
    {i \in InstSet : /\ phase[i] = "alive" /\ Started(i)
                     /\ queue[i] \subseteq {ExitMessage} /\ worker[i] = "running"}
UsedIfs(i) == {defs[i].up[k] : k \in DOMAIN defs[i].up}
              \cup {defs[i].down[k] : k \in DOMAIN defs[i].down}
UpstreamSettings(i) == {s \in defs[i].settings : s[1] = "IT_UPSTREAM"}

(* In whatever order handle_config sees the messages, an instance ends up  *)
(* as it was defined: each upstream once and in the order of the           *)
(* definition (by one of its places, if it was written twice), a querier   *)
(* for each downstream, the rules of the upstreams in force, whatever is   *)
(* set for downstreams, and every interface known to the receiver.  Each   *)
(* has exactly one virtual interface, under the number by which m_vif_if   *)
(* finds it when the kernel reports a packet, but for those add_vif failed *)
(* for: handle_config goes on as if they had one.                          *)
InstancesMatchDefinition ==
    \A i \in SettledInstances :
        /\ \A u \in m_upstreams[i] :
              \E k \in DOMAIN defs[i].up : u.if = defs[i].up[k] /\ u.priority = 100 * (k - 1)
        /\ \A k \in DOMAIN defs[i].up : is_upstream(i, defs[i].up[k])
        /\ \A u, w \in m_upstreams[i] : u.if = w.if => u = w
        /\ m_downstreams[i] = {defs[i].down[k] : k \in DOMAIN defs[i].down}
        /\ \A s \in UpstreamSettings(i) :
              (\A r \in UpstreamSettings(i) : r[2] = s[2] => r = s) => rule[i][s[2]] = s[3]
        /\ m_relevant_if_index[i] = UsedIfs(i)
        /\ LET given == {v \in DOMAIN m_vif_if[i] : m_vif_if[i][v] \notin refused_vifs[i]}
           IN vifs[number[i]] = [v \in given |-> m_vif_if[i][v]]
        /\ \A v \in DOMAIN m_vif_if[i] : m_if_vif[i][m_vif_if[i][v]] = v
        /\ InUse(m_vif_if[i]) = UsedIfs(i)

(* Once the main thread waits for a signal every defined instance runs, in *)
(* a table of its own: numbers counted by start_proxy_instances and        *)
(* numbers chosen in the script never lead to two users of one table.      *)
AllInstancesRun ==
    main = "loop" => /\ \A i \in InstSet : phase[i] = "alive" /\ worker[i] # "ended"
                     /\ \A i, j \in InstSet : number[i] = number[j] => i = j

(* With -r and IPv4 the reverse path filter is off on every interface of a *)
(* living instance whose file can be opened, also where two instances      *)
(* share one, and with the first of them that of "all"; otherwise no flag  *)
(* ever changes.  When the program has ended, by a signal or by an         *)
(* exception that main catches, a flag is as it was before or it is 1:     *)
(* none is left off, but restore_rp_filter knows no other value.           *)
ReversePathFilters ==
    /\ IF m_reset_reverse_path_filter
       THEN \A i \in InstSet : phase[i] = "alive" =>
               LET open == UsedIfs(i) \ locked
               IN /\ \A x \in open : rp_filter[x] = 0
                  /\ open # {} /\ "all" \notin locked => rp_filter["all"] = 0
       ELSE rp_filter = rp_before
    /\ main = "ended" => \A x \in DOMAIN rp_filter : rp_filter[x] \in {1, rp_before[x]}

(* A signal that arrives when the instances run, or an exception while    *)
(* they are being started, ends the program: every worker that was started *)
(* sees an exit command and every receiver its timeout, so no join waits   *)
(* for ever (unless the program was terminated, or a thread touched a      *)
(* destroyed member before).                                               *)
ProgramEnds ==
    ((main = "loop" /\ ~m_running) \/ main \in {"unwind", "destroy"})
        ~> (main = "ended" \/ crashed)
=============================================================================

# Mcproxy: a TLA+ model

Mcproxy is a multicast proxy for IGMP and MLD (RFC 4605). On each downstream
interface it acts as a router and asks the hosts what they listen to; on its
upstream interfaces it acts as a host and asks for the union. This directory
holds TLA+ modules that model it from the configuration file to the kernel
calls, TLC configurations that check them on small instances, and TLAPS proofs
for instances of any size.

Paths below are relative to `src/mcproxy` unless they begin with `references`.

## The system

| component | state | operations | how it interacts |
|---|---|---|---|
| querier and membership database (`src/proxy/querier.cpp`, `membership_db`) | per group: filter mode, include/requested list, exclude list, filter, source, retransmission and older host timers; the general query timer | `receive_record`, seven timer handlers, `get_group_membership_infos`, `suggest_to_forward_traffic` | runs in the worker thread; starts timers in timing, sends queries through the sender, notifies the routing management |
| timing (`timing.cpp`) | map from deadline to reminder | `add_time`, the delivering thread, `stop` | called by handlers, puts due reminders into the worker's queue |
| worker and message queue (`worker.cpp`, `message_queue.hpp`) | priority queue with a size limit for reports | `add_msg`, `dequeue` | the only way into a proxy instance |
| proxy instance (`proxy_instance.cpp`) | upstreams, downstreams with their queriers, rule bindings | dispatch of messages, `handle_config` | owns querier, sender, receiver, routing |
| proxy (`proxy.cpp`) | instances by table number | start-up, signal, shutdown | owns timing and the instances |
| receiver (`igmp_receiver.cpp`, `mld_receiver.cpp`) | relevant interfaces | parse packets | thread of its own; puts records and new sources into the queue |
| sender (`igmp_sender.cpp`, `mld_sender.cpp`) | a socket with its memberships | queries, records, router groups | called by querier and routing management |
| routing management (`simple_mc_proxy_routing.cpp`, `simple_routing_data.cpp`) | learned sources, their timers and packet counts | new source, querier state change, source timer | reads the queriers' memberships, aggregates them for the upstreams, sets kernel routes |
| interfaces (`interfaces.cpp`, `reverse_path_filter.cpp`, `if_prop.cpp`) | interface index to virtual interface and back, flags to restore, snapshot of the subnets | add, lookup | used by receiver and routing |
| configuration (`src/parser`) | instances, interfaces, filter tables | separate commands, scan, parse, match a rule | read at start-up; matched on forwarding |
| timers and values (`timers_values.cpp`) | RFC 3810 variables, shared or owned | derived intervals, code conversions | read by querier and senders |

What is hard here:

* A timer is an object shared between the database, the timing thread and the
  queue. It is never cancelled: replacing the pointer in the database makes it
  outdated, and every handler has to recognise an outdated timer by identity.
* Timers, records and configuration messages arrive in any order, timers
  possibly late: the queue is a heap on the priority alone and the worker may
  lag.
* The lists of a group are changed in place through aliased references while
  the timers of their sources must follow.
* Older hosts put a group into a compatibility mode that is left one version
  at a time by a further timer.
* Routes and records are derived from memberships, filters and learned sources
  that all change on their own; sources end by a comparison of packet counts.
* Several threads meet in timing and in the queue: notifications can be lost,
  the queue can be full, shutdown joins threads that may be blocked, and
  destructors run while threads are still at work.
* Every system call of the set-up may fail, with other instances running.

## Modules

| module | what it is |
|---|---|
| `FilterState` | abstract specification: the router filter state of RFC 3810 7.2 to 7.4, as quoted in the comments of `querier.cpp`; time abstracted, anything may expire |
| `Querier`, `MCQuerier` | the membership database of one downstream interface with all record handlers and the handlers of the five group timers |
| `QuerierProofs` | inductive invariant of `Querier` and its theorems |
| `QuerierRefinement` | `Querier` implements `FilterState`; what the routing knows; compatibility mode; queries come before expiries, and how late timers may be for that |
| `Scheduler`, `MCScheduler` | timing thread, job queue, worker thread, receiver and the main thread's shutdown |
| `SchedulerProofs` | inductive invariant of `Scheduler` and its theorems |
| `Codes` | the floating point codes of response times and query intervals, and back |
| `Queries`, `MCQueries` | start-up and general queries of a querier, the life of its `timers_values`, a link that loses packets and a listener that answers |
| `QueriesProofs` | every code rounds down; the values are kept; the listener is kept, as an inductive invariant over the losses still possible |
| `Aggregation` | `interface_memberships`: what to ask for at each upstream, as pure functions |
| `Routing`, `MCRouting` | the routing management of one group over the kernel's routes and upcalls |
| `RoutingProofs` | what the aggregation asks for; routes, records and sources follow memberships and packets |
| `Sockets`, `MCSockets` | the sender's memberships in the kernel and the receiver's way from a packet to messages |
| `SocketsProofs` | memberships under any limits, reports of any length |
| `Addresses` | comparison, prefixes and ranges of addresses, words of `WordBits` bits, with the processor's shift |
| `Script` | from the text of the file to commands and tokens |
| `Configuration`, `MCConfiguration` | the parser, the tables and filters it builds, and matching; the reference semantics of the grammar |
| `Lifecycle`, `MCLifecycle` | interfaces, start-up of the instances, configuration messages, signals, destruction |
| `LifecycleProofs` | inductive invariant of `Lifecycle` and its theorems |
| `Induction` | induction over numbers and recursive functions, with sets in place of predicates; used by the proof modules |

How they fit together: `Script` yields the tokens `Configuration` reads;
`Configuration` yields the instance definitions of `Lifecycle` and the filters
of `Aggregation`; `Lifecycle` ends where the instances run; `Sockets` turns
packets into the records `Querier` handles; `Querier` publishes the memberships
`Routing` starts from (its `PublishedIsCurrent` is what `Routing` assumes);
`Routing` sends the records `Sockets` puts into the kernel; `Queries` looks at
one membership of a querier over many query intervals; `Scheduler` shows that
timers and messages get through. The modules are checked one by one because
their product is out of TLC's reach; `MCConfiguration` composes `Script` and
`Configuration`, `Routing` extends `Aggregation`, `Queries` extends `Codes`.

### Querier

`group_info` is the database: a function on the known groups whose records have
the fields of `gaddr_info`. `timing` holds the started timers with the time
they have left, `published[g]` what the routing read at the last
`state_change_notification`, `sent` the queries of the last step.

A timer is a record with a `stamp`, the identity of the object. A handler call
allocates at most one timer per type and delay, so one stamp serves a whole
call; stamps nobody points to are reused, which keeps the state space finite.

Every handler runs to completion in the worker thread and is one action. Inside
an action a *context* carries the group record, the started timers, the queries
and the last published view through the calls in the order of the code
(`send_Q`, `mali`, `state_change_notification`), so that the definitions keep
the names and the order of the source. `Tick` lets time pass; a due timer may
wait up to `MaxLate` units for its handler.

Two details that the code decides by pointers:

* the timing thread still holds a reference to a message it has just queued, so
  `msg.unique()` may be false for an outdated timer; the source timer handler
  then finds no source but still notifies (`timer_triggerd_source_timer` with
  nothing expired);
* a retransmission whose filter timer is gone dereferences a null pointer; the
  action is disabled there, since the program ends.

The two record versions of a link are ordinals (`RecordVersions`); older
versions only know a report without sources and a leave, as the receivers build
them. `filter_time` and `is_used_as_source_timer` are dead code (the calls are
commented out). A specific query is taken to be sent.

`ImplementsFilterState` states that the lists and modes only move as some record
or expiry of `FilterState` allows. Since the abstract specification does not
show which record it was, `StepsFollowTables` adds that each handler call is the
abstract step of its own record or timer.

### Scheduler

`m_db`, `left` and `adding` are timing's map, relative deadlines and the call of
`add_time` that has a deadline but no lock yet. `queue` splits the job queue by
priority: exit commands, reminders, reports. (`enqueue` never waits for room,
although `message_queue.hpp` says so; only reports are subject to the size.)
`timer`, `worker` and `main` are the control states of the threads. The timing
thread reads `m_db` without the lock ("check" to "armed") and waits with a mutex
of its own ("armed" to "waiting"); a notification between the two is lost. The
unlocked read races with `insert`; since `begin()` is one pointer that a
finished insertion changes, it yields the first entry before or after the
insertion, which is what the interleaving gives. Steps of the timing thread take
no time, so lateness in this model is the design's and not the machine's; the
worker may lag without limit. A new reminder is only started by a handler; one
instance stands for all. The handler of a message is abstracted to "adds some
reminders".

`ClockTies` says whether two readings of the steady clock can be equal. They
are nanoseconds, so this is rare and depends on the platform; the run assumes it
away (see Observations).

### Queries and Codes

`objects` and `tanks` are the `timers_values` objects of the caller, of the
configuration message and of the querier, and the tanks of values they share or
own; a freed tank holds `NoTank`. A `Choice` is what the caller does with the
setters: nothing, or any values. Time passes in ticks of `Millis` milliseconds;
the values keep the units of the code and are divided where they meet time.

One group with one listener that answers every query it hears, within the
maximum response time *decoded from the wire*, stands for the link. Between two
answers that arrive, one query or answer less than the robustness variable may
be lost (a query also by a send that fails), and none while the filter timer is
lowered. The last part is needed: a specific query announces the whole last
listener query time (see Observations), so if the first one is lost the answer
to its repetition may come after the lowered timer. `OtherLeaves` is another
host's leave; `send_Q` is called by it and by the retransmission timer. Its
argument is what the pointer `group_retransmission_timer` holds; `Over` is a
pointer to a timer that was handled, which is not null: after the last query the
next leave only resets the state (see Observations). 32767 ms is coded as MLDv2
code 0; `CodesRoundDown` excepts it. The handler of the filter timer is not
repeated here: `ListenersAreKept` says that it is never due (`Querier` has it).

### Aggregation and Routing

One group stands for all, since every function takes the group and touches only
its entries. Filters are sets: of sources per input interface and of pairs of an
input interface and a source for output; `Configuration` shows how a script
becomes such a set. A peering interface, upstream and downstream at once, has
both filters. The kernel is external: a source without a route raises one upcall
until its route is set or the kernel gives up (`UpcallExpires`), a route counts
its packets. The upcall's message may be lost in a full job queue. `idle` counts
the time since anything happened to the group.

### Sockets

`member` is the kernel's state of the sender's socket: a filter per interface
and group, with the limits on memberships and on sources. An interface may be an
upstream, a downstream or both, a peering interface. `AddUpstream` and
`AddDownstream` are what the configuration messages do to the two sockets, in
any order. `asked` is the last record for an upstream and a group and whether it
was reported as accepted; a record for a router group is possible, since hosts
may report one.

A packet is a sequence of words that a host writes record by record and
`analyse_records` reads back. IGMP finds the interface by the source address in
the snapshot of the subnets and drops packets longer than its buffer
(`MaxWords`, `igmp_receiver.cpp:142`); MLD is told the interface by the kernel
and drops packets without this information (`info`, chosen freely). MLD reports
are taken to fit their buffer. `Readdress` changes a subnet behind the snapshot's
back; it can take one that another interface had before, but two links never
have the same subnet at the same time. `last` holds the last packet and its
messages.

### Script, Configuration and Addresses

A text is a sequence of characters; the punctuation marks that are tokens by
themselves are represented by the colon, letters and digits by two letters, one
of them capital, with one keyword. A command is a sequence of tokens; a string
token stands for a whole name, number or address.

`LoadFile` opens the file, or does not (`status` "unopened"), and the commands
are then parsed one by one. The parser's functions return whether they threw,
the position reached and the value. The reference in `Configuration` gives a
script a meaning from the grammar (`references/parser/script_ebnf`) by sets of
packets; `MCConfiguration` holds well-formed lines as syntax trees, prints them,
and adds every sequence of tokens one edit away that the grammar on token types
(`IsCommand`) does not contain.

Code and grammar do not describe one language. `Deviations` names where the
reference follows the code; the empty set is the grammar as documented. Of
`script_ebnf` the parser does not know

* `path` (line 19): a rule box that is a path in brackets,
* `disable` (line 4): the command, whose word is a token and no more;

and it knows besides

* `prefix` (line 22): a group with a prefix,
* `number` (line 10): the number of a kernel table in an instance,
* `star` (line 12): `*` as the interface of a binding,
* `nameless` and `empty` (line 18): a table without a name, without rules,
* `named` (line 19): an interface name before a nested table, which is dropped.

With `Deviations` = {} TLC finds `AcceptsTheLanguage` violated, for instance by a
table with a rule box `(s)`, which the parser refuses. A prefix above 128
leaves the parser with `throw;` outside a handler, which ends the program as
well. IPv4 prefixes longer than an address (33 to 128), which grammar and parser
accept, are not explored.

Addresses have one (IPv4) or four (IPv6) words of `WordBits` = 2 bits: the code
works word by word, so two bits show every border case. `build` is the effect of
a shift by the full width, which C++ leaves undefined: modulo the width or zero.
Both are explored. `FiltersMeanTheScript` holds on neither;
`ExactFiltersMeanTheScript` says it of all scripts but those with a prefix the
shift gets wrong (`Exact`): the full length of an IPv4 address on a "modulo"
build, and on a "zero" build the prefixes of an IPv6 address that end inside a
word after the first.

### Lifecycle

A configuration is a sequence of definitions in the order of their names.
`Filters` are the reverse path filters the system may start with, and the files
among them that cannot be opened (`locked`, for the whole run); `family` is the
address family, since `-r` has no effect for IPv6
(`m_reset_reverse_path_filter`).
`main` is the main thread, `next` the instance it is at; `phase`, `worker`,
`receiver` and `queue` belong to the instances; `m_if_vif`, `m_vif_if`,
`m_added_ifs`, `m_relevant_if_index` are members of the classes, `vifs`,
`mrules` and `rp_filter` the kernel's. Each set-up call may be refused, one at a
time. Most refusals are thrown as a `const char*`, which unwinds to `main`; a
refused receive timeout is thrown as a `std::string` that nobody catches
(`receiver_throws`), and a querier's constructor or the name of an interface that is gone throws in
the worker thread
(`handle_config_throws`): both terminate the program without any destructor.
`crashed` stands for this and for undefined behaviour.

`add_vif` may be refused an interface, or find it gone or unbound
(`refused_vifs`); `handle_config` ignores this and goes on. A rule for a
downstream, which the parser accepts, is refused by `handle_config`. An interface
may vanish between the configuration and the start of its instance: the messages
up to there (`found`) are queued, then the new instance is destroyed. All
messages of an instance are put into its queue in the step that starts it: the
worker can take them in any order anyway, because they have one priority. A
message that is handled when the members are gone, and a packet for a receiver
whose derived class is gone, may crash the program or do nothing. `~routing`
erases elements of the set it iterates over; after the first one any of the
others may be skipped.

## Runs

| run | instance | shows |
|---|---|---|
| `querier_records` | 1 group, 2 sources, 4 records | `TypeOK`, `NoZombieSource`, `FilterModeInv`, `NoUnusedGroup`, `PublishedIsCurrent`, and that `Querier` implements `FilterState` |
| `querier_timing` | versions 2 and 3 of 3, 3 transmissions, 3 records | retransmissions are scheduled and end before their membership does; memberships time out (liveness); compatibility mode ends, cuts nobody off, every step follows its row of the RFC tables (`StepsFollowTables`) |
| `scheduler` | 2 reminders, delays 1 and 3, queue of size 1, 3 reports | no reminder lost, lateness bounded, shutdown completes |
| `queries` | IGMPv3 and MLDv2; the default values, those of `test_querier`, and robustness 3 with short intervals; 2 leaves; ticks of a second | the values survive (`QuerierKeepsItsValues`), the codes never promise too much (`CodesRoundDown`), listeners are kept, queries go on |
| `routing` | 3 interfaces, one in both roles, 2 sources, 4 configurations, 3 packets, 2 membership changes | `RoutesAreCurrent`, `RecordsAreCurrent`, `SeenSourceAtOneUpstream`, `UnfilteredAggregation`, `SilentSourcesAreForgotten` |
| `sockets` | an upstream, a downstream and a peering interface, 5 memberships, filters of up to 2 sources of which the kernel takes 1; 7 reports of up to 2 records, older packets, moving subnets | accepted records are in force and IGMP records are refused only at a limit; router groups stay, but for records for them on the same link, and go with their querier; reports are attributed to their link record by record, or to the link that had the subnet |
| `configuration` | all texts of up to 5 characters; all scripts of up to 5 lines out of about 20, with a malformed one at place 1 or 2; both builds, prefixes 0, 1, 2 (IPv4) and 1, 3, 8 (IPv6) | the code accepts the grammar with its `Deviations`, the filters mean what the script says, but for the prefixes named above, and stay so, commands and tokens are those of the text |
| `lifecycle` | 8 configurations of up to 2 instances (one names an upstream twice, one has rules for downstreams), both families, 2 settings of the reverse path filters (one with a file that cannot be opened), 3 virtual interfaces, every refusal of a call or of a virtual interface, vanishing interfaces, 1 signal | instances match their definition whatever the order of messages, tables are not shared, filters end as they were or as 1, the program ends |

The remaining runs expect a violation of one property; `PROJECT.json` quotes the
line it is taken from under "findings":

| run | shows |
|---|---|
| `querier_late_retransmission` | the last group query can find the filter timer gone (null pointer) when the worker lags by one query interval |
| `routing_mutex` | with the rule mutex the first upstream that accepts a source keeps the subscription, not the one that delivers it |
| `sockets_mld` | an MLD instance refuses every record in INCLUDE mode with sources |
| `configuration_prefix` | an IPv4 prefix of 32 can match every address |

`TypeOK` of `Querier`, `Scheduler` and `Sockets` is checked; in the other modules it
documents the state; those of `Routing`, `Lifecycle` and `Queries` are proved.

### Bounds

`MaxRecords` = 4 in `querier_records` is enough to enter EXCLUDE mode, build
both lists, leave and interrupt the leave with a report; two sources give every
combination of "in the record", "in the list" and "new". With hosts of two
versions three records have to do: a report, a leave and what interrupts it.
`LLQC` is 2 or 3, so that there is a first, a middle and a last query; `MALI` is
larger than `LLQT`, as with the default values. `MaxStamp` is large enough that
the stamps never run out. `MaxLate` = 1 equals the query interval, the smallest
delay that reorders a retransmission and its filter timer. That late and
reordered timers do not damage the database is proved for any lateness and any
number of groups. In the scheduler two reminders suffice for every race on
`m_db` (the one waited for and the one added), and a queue of size 1 is full at
once.

In `queries` two leaves start a cycle of queries and meet one that runs or is
over; a robustness of 3 lets two losses follow each other, a query and an answer
or two of one kind. `Intervals` has every power of two a code can tell apart,
with its neighbours.

In `routing` three packets let a source be learned, be counted and move or come
back; two changes let one downstream join and the same or the other one change;
a life time of 2 lets a timer be replaced while it runs. `MaxMemberships` = 5 is
one more than the router groups of the two queriers need, so the limit is met by
a second record, by the second querier or by neither; a report has up to two
records with and without auxiliary data, of which only the longest exceeds
`MaxWords` = 13. Interface 1 can get the subnet that interface 2 had, interface
2 one that nobody had. Packets and changes of subnets are explored only before
the first record (`MCNext`), because what comes of them depends on no
membership. In `configuration` five lines are enough for two tables that refer
to each other, an instance, a filter and one line that conflicts with any of
them; the prefixes are none, part and all of a word, and part of a later one. In
`lifecycle` two instances (`MaxInsts`) share interfaces, table numbers or
neither, three virtual interfaces are fewer than one of the definitions needs,
and `MaxTable` leaves a table for every number chosen in a definition and
counted from there. The proofs leave all of these bounds open.

Deadlock is not checked where the program ends or the input is bounded
(`scheduler`, `lifecycle`, `routing`, `sockets`, `queries`, `configuration`).
Symmetry of the sources is used only in `querier_records`; no definition chooses
or orders a source.

### Fairness

`Querier`: time passes and due timers are handled (`Tick`, `TimerTriggered`,
weak): the timing thread and the worker loop for ever and no handler blocks.
Records are never required to arrive. `Scheduler`: weak fairness of the timing
and main threads; strong fairness of time, which spurious wake-ups do not stop,
and of the worker, which must get a lock that is free whenever the timing thread
waits. The signal and new reminders are never required. `Queries`: time passes
and due timers are handled. `Lifecycle`: the main thread and the workers run, and
the receive call times out, since the socket has a receive timeout; neither
signals nor packets are required, and a crash releases everybody.

## Proofs

Every theorem below holds for all values of the constants that satisfy the named
assumptions, and has been checked on the runs' instances first where it states a
property of a run. `PROJECT.json` lists which theorem states which property.

### The querier

`QuerierProofs` proves, for any groups, sources, intervals, versions and
lateness, `TypeOK`, `NoZombieSource`, `FilterModeInv` and
`RetransmissionScheduled`. None is inductive alone: that a source has a running
timer depends on the type of the timer, on the stamps (a running timer is not
reallocated) and on the group it belongs to, and a retransmission timer must be
known to be unexpired. `IInv` is `TypeOK` and `GroupsOK`, the conjunction over
all groups of `Core` (sources and retransmission) and `FilterPart`. Within a
handler the invariant of the group is open for the sources that have just been
inserted and closed again by `mali` or `send_Q`; the lemmas follow each of
these operations, then each handler, then each timer, then `Next`. Assumed are
`TimingAssumption`, `VersionAssumption` and `NullAssumption` (null is no timer).

`QuerierRefinement` builds on `IInv`. `ShapeOf` is the refinement mapping of one
group: filter mode, requested and exclude list. Starting timers and sending
queries do not change it (`Quiet`); a lemma per handler gives the new shape as
the row of the table of `FilterState`. `Refinement` (`Querier` implements
`FilterState`) and `TablesFollowed` (each call is the step of its own record or
timer) follow, the second action by action. The same lemmas give what was
published: `NobodyIsCutOff` for all versions, `PublishedFollows` if all records
are of the newest version, which is needed (see Observations). For a querier
that runs the newest version itself, `UnusedGroupsAreDeleted` and
`CompatibilityIsTemporary`.

The last part of `QuerierRefinement` compares remaining times. `TimeInv` says
that a filter or source timer has more left than the retransmission timer plus
all further retransmissions, each of which may be late, can take (`Ahead`,
`Lag`); and that a filter timer of length LLQT started now would too, because a
report in the middle of a cycle restarts it. It is inductive if `Punctual`
holds: `MALI >= LLQT` and `LLQI > (LLQC - 1) * MaxLate`. Then
`QueriesComeFirst`, and `FilterTimerIsThere`: the null pointer is not met. The
bound is sharp for two queries: with `MaxLate = LLQI` the run
`querier_late_retransmission` meets it.

### Queries

`QueriesProofs` assumes `QueriesAssumption`: every choice is made of numbers.
Of the values nothing else is needed for `ValuesAreKept`, `QueriesTypeCorrect`
and `CodesAlwaysRoundDown`. `ValuesOK` says who owns which tank: no two objects
share one except the default tank, an object's tank has the chosen values, and
there is a free tank as long as a copy can still be made. The first part is why
`reset_to_default_tank` in one destructor cannot free the values of another
object, which `QuerierKeepsItsValues` alone does not say.

`CodesAlwaysRoundDown` is for every interval and not only for samples: the
highest bit set in the range of a code, cut down to the mantissa at its
position, is at most the interval (`RoundDown`), and the exponents are few
enough to go through them one by one. (Bit 31 is outside the model of the MLDv2
code: an interval of 24 days and more is cut to the bits below it.) So a query
never asks for an answer later than the router waits, which is what the proof
below uses of the sender.

`NobodyIsForgotten` has one hypothesis on the values, `Sensible`: the values that
must not be zero are not, the startup interval is not longer than the query
interval, a listener answers before the next general query is sent, and the
intervals are a number of ticks. The filter timer alone says nothing about the
next step; `Kept` in `TimeOK` says that it outlasts the next answer, either the
one under way or the one to the next general query, and, as long as the timer is
not lowered, also that answer after all the losses that are still possible
(`Left`) have happened, one query interval each; an answer that comes before the
next query (`Soon`) accounts for one of them. Each conjunct alone is not
inductive: a loss needs the second to restore the first, a lowered timer has
only the first, and for that the specific query must have been heard. The
inequality is sharp where it matters: `get_multicast_address_listening_interval`
is exactly one tick more than the longest row of losses takes. The proof works
on numbers (`KeptAt`) with a lemma per event, then follows the actions.

### Timing and queue

`SchedulerProofs` proves `TypeOK`, `BoundedLateness` and `ReportsBounded` for
any number of reminders and any delays (`DelayAssumption`, `QueueAssumption`).
Lateness needs `Sleeping`: while the timing thread sleeps until `wake`, every
stored reminder has more than `wake - MaxDelay` left; and `Settled`: it goes
back to sleep only when nothing is due.

### Loops

The code loops over router groups, over the records of a report and over the
upstreams and interfaces of an instance. The models write these loops as
recursive functions on an interval. `Induction` proves that such a function
exists, has the type of its steps and satisfies its equations, from the
well-foundedness of the numbers; a property of a loop is then the set of indices
that have it.

### Routing

`RoutingProofs` assumes `InterfacesAssumption`, `ConfigAssumption`,
`InputAssumption`, `StampAssumption` and `LifeTimeAssumption`, none of which
restricts the filters or the rules. `IInv` is `TypeOK`, `RoutesAreCurrent`,
`RecordsAreCurrent` and `TimersOK`: every learned source has its timer, which
ends within one life time of the last event, or within two and then finds the
packet count unchanged. This is what `SilenceIsForgotten` needs. `SeenOnce` and
`FirstUpstreamAsksForAll` are about the aggregation: they go through the
upstreams in the order of their priorities, with what the earlier upstreams have
left as the invariant of the loop. For "mutex" that is disjointness of the seen
sources, for "first" that nothing is left after the first upstream.

### Sockets

`SocketsProofs` assumes `SocketsAssumption`. `BaseInv` is the type of the state,
with the number of memberships within the kernel's limit; it needs the
cardinality of the domain at every join and leave. `MemberInv` adds that the
filter last reported as accepted is the one in force (`AskedOK`), which router
groups are joined (`JoinedOK`) and that no others are (`NoneLeftOK`). Interfaces
may have both roles and records may be for any group; what a record and a querier
can do to each other is part of the invariant: for a router group on a peering
interface the kernel's filter is that of whoever came last, and a querier is out
of its group only if the last record for it left it or was refused.
`RecordsAreInForce` and `RouterGroupsAreKept` follow. For `ReportsAreUnderstood`
the subnets need to differ at the start only: by induction over the records of a
packet, reading skips exactly the words the host wrote for a record, sources and
auxiliary data included; and as `Readdress` gives no two links one subnet at the
same time (`SnapshotOK`), a report that is taken for another link comes from
one that got the subnet of that link after the snapshot.

### Life of the program

`LifecycleProofs` assumes `LifecycleAssumption`: definitions have a downstream
(the parser insists on it) and the kernel has enough tables. Families, flags,
files that cannot be opened, refusals and interfaces that vanish are left open.
`IInv` consists of `TypeOK`; `Stages`, how far the main thread is with the
instances; `TablesApart`, one user per table and nothing in an unused one;
`FlagsNoted`, the cleared flags are exactly the noted ones, and those of all
interfaces that can be opened; `MapsOK`, the maps between interfaces and virtual
interfaces are inverse; `Progress`, every message of the definition is in the
queue, taken, or done, and the kernel's table is the restriction of `m_vif_if`
to the interfaces registered so far and not refused. `NotStarted` says that an
instance without a constructor call has no state. `InstancesRun` follows from
the first three, `FiltersAreRestored` from `FlagsNoted`, `InstancesAreAsDefined`
from `MapsOK` and `Progress` when no message is left. `FiltersAreRestored`
speaks of a program that ends by a signal or by an exception that `main`
catches; one that is terminated restores nothing.

### Only model-checked

* Liveness (`MembershipsTimeOut`, `AddedIsHandled`, `ShutdownCompletes`,
  `QueriesGoOn`, `ProgramEnds`): out of the prover's reach.
* `Script`, `Configuration` and `Addresses` (`CommandsOfTheFile`,
  `TokensOfTheCommands`, `AcceptsTheLanguage`, `ExactFiltersMeanTheScript`,
  `BoundFiltersAreStable`): the parser is written with recursive operators, like
  the grammar it is compared with, and what they compute for every text is an
  induction over the text that the prover cannot do; the ranges of addresses
  need powers of two with an open exponent.

## Observations

What modelling and checking showed about the code besides the findings:

* `send_Q(gaddr, ginfo)` (`querier.cpp:711`) lowers the filter timer only when
  `group_retransmission_timer` is null. After a full cycle the pointer is still
  set with a count of 0, so the next leave only resets the state; it sends no
  query and the membership ends with its normal timer.
* A leave of an older version for an unknown group (`querier.cpp:161`) inserts
  the group, notifies the routing, which reads EXCLUDE {}, and erases the group
  without another notification. `PublishedIsCurrent` is therefore checked for
  hosts of the newest version and `PublishedCoversCurrent` for older ones.
* A querier whose own version is not the newest keeps an empty group after a
  BLOCK for an unknown one (`querier.cpp:151`).
* The timing thread can miss a notification (`timing.cpp:56`); a short reminder
  is then delivered at an older, longer deadline. `BoundedLateness` says how
  late. Two reminders with equal deadlines collide (`timing.cpp:90`), and a
  reminder can be delivered to a destroyed instance (`timing.cpp:68`), since
  `stop_all_time` is never called.
* With the rule "first" a membership whose source passes no upstream's input
  filter is asked for nowhere, and EXCLUDE {} is handed to the first upstream
  only, since empty lists are erased before the next one is looked at. With
  "mutex" EXCLUDE {} is asked for nowhere, because a state without sources is
  erased at once (`simple_mc_proxy_routing.cpp:224`).
* A source that moves to an interface that rejects it keeps its old route
  (`simple_mc_proxy_routing.cpp:543`). Data from a peering interface are sent
  back to it as an upstream (`:441`).
* On a peering interface the querier and the routing management share the
  membership in a router group: when a host's membership in it, aggregated like
  any other, ends, `send_record` leaves the group for the querier too, which no
  longer hears reports. `references/parser/config_script_example_1:86` and `:99`
  promise that such a downstream is queried as always. `RouterGroupsStay` says
  that nothing else takes a querier out of a group.
* With "mutex" the upstream that keeps a source that has been seen is the first
  one whose filter accepts it (`simple_mc_proxy_routing.cpp:193`, `:214`); the
  docs say the others unsubscribe (`references/parser/config_script_example:100`).
  If the source comes from a later upstream, its subscription is the one that
  ends. `SeenSourceAtOneUpstream` only says that at most one remains;
  `routing_mutex` shows the difference.
* When a subnet moves to another interface after start-up, IGMP reports from
  there are counted for the interface that had it (`interfaces.cpp:197`), also
  where that has a querier of its own.
* A mutex source's timer message says the rule's timeout but runs for the
  default life time (`:580`).
* That a listener is kept rests on a relation between the values that no setter
  checks (`timers_values.cpp:288`): the response interval must not exceed the
  interval between two queries. With 6 s for a query interval of 3 s and a
  robustness of 3 TLC finds the listener forgotten with two losses, because the
  last answer comes after one query more.
* Specific queries announce the whole last listener query time, and not the
  query interval, as the maximum response time (`igmp_sender.cpp`, `mld_sender.cpp`).
* `mask` and `broadcast_addr` shift the word of an IPv6 address in which the
  prefix ends by the whole prefix (`addr_storage.cpp:388`, `:410`) and not by
  what is left of it. Where shifts are modulo the width this is right by luck;
  where everything is shifted out, `address/48` covers only the addresses with
  the same 64 leading bits. With `BuildChoices` = {"zero"} and four commands TLC
  finds `FiltersMeanTheScript` violated that way.
* In the script "#" and ";" act inside quotation marks, a last command needs no
  ";", and a broken "=" cuts the rest of a command off. Rules written before a
  `protocol` line of the other family match nothing.
* Two rule bindings for one direction are applied in the order the heap yields.
  An upstream that is written twice gets the priority of whichever message is
  taken first.
* A signal before `proxy::start` sets `m_running` is forgotten (`proxy.cpp:271`).
* `get_rp_filter` compares a digit's character with zero, so a filter that was
  off is noted too, and `restore_rp_filter` always writes 1: filters that were
  off (0) or loose (2) are strict after the program, though `proxy.hpp:79` says
  that flags are restored. `ReversePathFilters` says no more than that each is
  as it was or 1.
* A refused receive timeout terminates the program (`receiver.cpp:41`,
  `main.cpp:58`) with the reverse path filters off.
* An interface that `add_vif` could not register is used as an upstream or
  downstream all the same (`proxy_instance.cpp:279`, `:323`); nothing is
  forwarded there.
* `~routing` forgets tunnels and can skip interfaces (`routing.cpp:165`): policy
  rules may stay in the system.

## Plan

What could come next: the source specific queries of `querier.cpp:766` with a
sender that fails, which needs the losses of `Queries` in `Querier`; two
reminders with equal deadlines (`ClockTies`) in a run of their own; the DEL_*
messages once something sends them. For the proofs, a parser written with
recursive functions over positions could be brought within the reach of
`Induction`; the liveness properties stay with TLC.

Not modelled, with reasons: the byte layout of packets, checksums and socket
option structures (pure I/O, no state); logging and the status output; the
command line and its diagnostics (`check_if`, `check_kernel`); the DEL_*
configuration messages and `del_interface`, `stop_all_time` (nothing sends or
calls them); querier election, which the code does not implement; the test
program and the test functions of the classes.
